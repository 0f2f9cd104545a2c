------------------------ MODULE MeetingLifecycleProofs -----------------------
(***************************************************************************)
(* What follows from the table TRANSITIONS alone, for every set of         *)
(* meetings: the argument that the state machine makes billing idempotent. *)
(***************************************************************************)
EXTENDS MeetingLifecycle, TLAPS

\* The rows of the table that lead to publication or on from it.
LEMMA TableRows ==
  ASSUME NEW s \in Status, NEW t \in AllowedFrom(s)
  PROVE  /\ t \in Status
         /\ t \in {"TRANSCRIBING", "FALLBACK_STT"} => s \in {"QUEUED", "TRANSCRIBING"}
         /\ t = "COMPLETED" => s = "ANALYZING"
         /\ t = "PUBLISHED" => s = "COMPLETED"
         /\ t = "AUDIO_PURGED" => s = "PUBLISHED"
         /\ s \in {"PUBLISHED", "AUDIO_PURGED", "DELETED"} =>
              t \in {"AUDIO_PURGED", "DELETED"}
         /\ s = "COMPLETED" => t \in {"PUBLISHED", "DELETED"}
         /\ s \in {"TRANSCRIBING", "FALLBACK_STT"} => t # "COMPLETED"
<1>1. AllowedFrom(s) = TRANSITIONS[s]
  BY DEF AllowedFrom
<1>2. CASE s \in {"CREATED", "UPLOADING", "QUOTA_HOLD"}
  BY <1>1, <1>2 DEF TRANSITIONS, Status
<1>3. CASE s \in {"QUEUED", "TRANSCRIBING", "FALLBACK_STT"}
  BY <1>1, <1>3 DEF TRANSITIONS, Status
<1>4. CASE s \in {"ANALYZING", "COMPLETED", "PUBLISHED", "AUDIO_PURGED"}
  BY <1>1, <1>4 DEF TRANSITIONS, Status
<1>5. CASE s \in {"FAILED", "CANCELLED", "DELETED"}
  BY <1>1, <1>5 DEF TRANSITIONS, Status
<1> QED
  BY <1>2, <1>3, <1>4, <1>5 DEF Status

\* Where one transaction may take a meeting, by where it is: nothing leads
\* back from publication, and only analysis leads to it.
LEMMA TableShape ==
  ASSUME NEW s \in Committed, NEW t \in Committed, Reaches(s, t)
  PROVE  /\ t \in Unpublished => s \in Unpublished
         /\ t = "AUDIO_PURGED" => s = "PUBLISHED"
<1> USE DEF Committed, Transient, Status, Unpublished
<1>1. CASE t \in AllowedFrom(s)
  BY <1>1, TableRows
<1>2. ASSUME NEW u \in Transient, u \in AllowedFrom(s), t \in AllowedFrom(u)
      PROVE  /\ s \in {"QUEUED", "ANALYZING"}
             /\ t # "AUDIO_PURGED"
  BY <1>2, TableRows
<1>3. ASSUME NEW u \in Transient, NEW v \in Transient,
             u \in AllowedFrom(s), v \in AllowedFrom(u), t \in AllowedFrom(v)
      PROVE  /\ s \in {"QUEUED", "ANALYZING"}
             /\ t # "AUDIO_PURGED"
  BY <1>3, TableRows
<1> QED
  BY <1>1, <1>2, <1>3 DEF Reaches

Inv == TypeOK /\ ChargedAlongTheTable

LEMMA MovedInv ==
  ASSUME Inv, NEW m \in Meeting, NEW s \in Committed, Moved(m, s)
  PROVE  Inv'
<1>1. /\ status[m] \in Committed /\ Reaches(status[m], s) /\ s # "PUBLISHED"
      /\ status' = [status EXCEPT ![m] = s] /\ charges' = charges
  BY DEF Moved
<1>2. TypeOK'
  BY <1>1 DEF Inv, TypeOK
<1>3. /\ s \in Unpublished => status[m] \in Unpublished
      /\ s = "AUDIO_PURGED" => status[m] = "PUBLISHED"
  BY <1>1, TableShape
<1>4. ChargedAlongTheTable'
  BY <1>1, <1>3 DEF Inv, TypeOK, ChargedAlongTheTable
<1> QED
  BY <1>2, <1>4 DEF Inv

LEMMA PublishedInv ==
  ASSUME Inv, NEW m \in Meeting, Published(m)
  PROVE  Inv'
<1>1. TypeOK'
  BY DEF Inv, TypeOK, Published, Committed, Transient, Status
<1>2. charges[m] = 0
  BY DEF Inv, ChargedAlongTheTable, Published, Unpublished
<1>3. ChargedAlongTheTable'
  BY <1>2 DEF Inv, TypeOK, ChargedAlongTheTable, Published, Unpublished
<1> QED
  BY <1>1, <1>3 DEF Inv

\* A system that moves along the table and charges when it publishes charges
\* no meeting twice and none that was never published.
THEOREM TableMakesBillingSafe == Spec => []ChargedAlongTheTable
<1>1. Init => Inv
  BY DEF Init, Inv, TypeOK, ChargedAlongTheTable, Unpublished
<1>2. Inv /\ [Next]_vars => Inv'
  <2> SUFFICES ASSUME Inv, [Next]_vars
               PROVE  Inv'
    OBVIOUS
  <2>1. ASSUME NEW m \in Meeting, Declared(m)
        PROVE  Inv'
    <3>1. TypeOK'
      BY <2>1 DEF Inv, TypeOK, Declared, Committed, Transient, Status
    <3>2. ChargedAlongTheTable'
      BY <2>1 DEF Inv, TypeOK, ChargedAlongTheTable, Declared, Unpublished
    <3> QED
      BY <3>1, <3>2 DEF Inv
  <2>2. CASE UNCHANGED vars
    BY <2>2 DEF vars, Inv, TypeOK, ChargedAlongTheTable
  <2> QED
    BY <2>1, <2>2, MovedInv, PublishedInv DEF Next
<1>3. Inv => ChargedAlongTheTable
  BY DEF Inv
<1> QED
  BY <1>1, <1>2, <1>3, PTL DEF Spec
=============================================================================
