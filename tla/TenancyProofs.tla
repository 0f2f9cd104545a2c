---------------------------- MODULE TenancyProofs ----------------------------
(***************************************************************************)
(* Theorems about Tenancy for every number of organizations, meetings,     *)
(* requests and purges at once: the tables stay well typed, and no         *)
(* recording that was in the bucket when a purge began outlives the        *)
(* organization it belonged to.                                            *)
(***************************************************************************)
EXTENDS Tenancy, WellFoundedInduction, TLAPS

-----------------------------------------------------------------------------
(* Lemmas about the operators the actions are built from.                  *)

\* A queue of organizations that is not empty has an oldest request.
LEMMA OldestIsListed ==
  ASSUME NEW left \in SUBSET (Nat \X Org), left # {}
  PROVE  Oldest(left) \in left
<1> DEFINE asked == {x[1] : x \in left}
<1>1. asked \subseteq Nat /\ asked # {}
  OBVIOUS
<1>2. \E n \in asked : \A k \in asked : <<k, n>> \notin OpToRel(<, Nat)
  <2> HIDE DEF asked
  <2> QED
    BY <1>1, NatLessThanWellFounded, WFMin
<1>3. PICK n \in asked : \A k \in asked : ~ (k < n)
  BY <1>1, <1>2 DEF OpToRel
<1>4. PICK x \in left : x[1] = n
  OBVIOUS
<1>5. \A y \in left : x[1] <= y[1]
  BY <1>1, <1>3, <1>4
<1> QED
  BY <1>5 DEF Oldest

\* A purge that runs holds a whole record, and an idle one none.
LEMMA Purging ==
  ASSUME TypeOK, NEW j \in Job, purge[j].on
  PROVE  purge[j] \in Purge
  BY DEF TypeOK, NoPurge

LEMMA Sweeping ==
  ASSUME TypeOK, sweep.on
  PROVE  sweep \in Sweep
  BY DEF TypeOK, NoSweep

-----------------------------------------------------------------------------
(* Types.                                                                  *)

LEMMA OwnerTypes ==
  ASSUME TenancyAssumption, TypeOK, Owner
  PROVE  TypeOK'
<1> USE TenancyAssumption DEF TenancyAssumption
<1>1. PICK a \in Api : \/ \E o \in Org : RequestDeletion(a, o) \/ CancelDeletion(a, o)
                       \/ Commit(a) \/ RequestDies(a)
  BY DEF Owner
<1>2. CASE \E o \in Org : RequestDeletion(a, o) \/ CancelDeletion(a, o)
  <2>1. PICK o \in Org, op \in {"request", "cancel"} : Begin(a, op, o)
    BY <1>2 DEF RequestDeletion, CancelDeletion
  <2> QED
    BY <2>1 DEF Begin, TypeOK, Request
<1>3. CASE Commit(a)
  <2>1. tx[a] \in Request
    BY <1>3 DEF Commit, TypeOK, Finalizing, NoRequest
  <2>2. Settled(tx[a].op, tx[a].o) \in Organization
    <3>1. org[tx[a].o] \in Organization
      BY <2>1 DEF TypeOK, Request
    <3>2. (IF tx[a].op = "request" THEN clicks ELSE 0) \in 0 .. MaxClicks
      BY DEF TypeOK
    <3>3. \A r \in Organization, n \in 0 .. MaxClicks :
            [r EXCEPT !.due = FALSE, !.requested = n] \in Organization
      BY DEF Organization
    <3> QED
      BY <3>1, <3>2, <3>3 DEF Settled
  <2>3. org' \in [Org -> Organization]
    BY <1>3, <2>1, <2>2 DEF Commit, TypeOK
  <2> QED
    BY <1>3, <2>3 DEF Commit, TypeOK, bounds
<1>4. CASE RequestDies(a)
  BY <1>4 DEF RequestDies, Fault, TypeOK
<1> QED
  BY <1>1, <1>2, <1>3, <1>4

LEMMA UploadsTypes ==
  ASSUME TenancyAssumption, TypeOK, Uploads
  PROVE  TypeOK'
<1>1. ASSUME NEW a \in Api, NEW m \in Meeting, BeginFinalize(a, m)
      PROVE  TypeOK'
  BY <1>1 DEF BeginFinalize, TypeOK, Finalizing, bounds
<1>2. ASSUME NEW a \in Api, CompleteMultipart(a)
      PROVE  TypeOK'
  <2>1. tx[a] \in Finalizing
    BY <1>2 DEF CompleteMultipart, TypeOK, Request, NoRequest
  <2>2. tx' \in [Api -> {NoRequest} \cup Request \cup Finalizing]
    BY <1>2, <2>1 DEF CompleteMultipart, TypeOK, Finalizing
  <2>3. open' \subseteq Meeting /\ objects' \subseteq Meeting /\ late' \subseteq Meeting
    BY <1>2, <2>1 DEF CompleteMultipart, TypeOK, Finalizing
  <2> QED
    BY <1>2, <2>2, <2>3 DEF CompleteMultipart, TypeOK, bounds
<1>3. ASSUME NEW a \in Api, CommitFinalize(a)
      PROVE  TypeOK'
  <2>1. tx[a] \in Finalizing
    BY <1>3 DEF CommitFinalize, TypeOK, Request, NoRequest
  <2>2. row' \in [Meeting -> Recording]
    BY <1>3, <2>1 DEF CommitFinalize, TypeOK, Finalizing, Recording
  <2> QED
    BY <1>3, <2>2 DEF CommitFinalize, TypeOK, bounds
<1>4. ASSUME NEW m \in Meeting, Processed(m) \/ RetentionEnds(m)
      PROVE  TypeOK'
  <2>1. row' \in [Meeting -> Recording]
    <3>1. \A r \in Recording, s \in {"PUBLISHED", "FAILED"} :
            [r EXCEPT !.status = s] \in Recording /\ [r EXCEPT !.past = TRUE] \in Recording
      BY DEF Recording
    <3>2. row[m] \in Recording /\ row \in [Meeting -> Recording]
      BY DEF TypeOK
    <3>3. CASE Processed(m)
      <4>1. PICK s \in {"PUBLISHED", "FAILED"} :
              row' = [row EXCEPT ![m] = [row[m] EXCEPT !.status = s]]
        BY <3>3 DEF Processed
      <4> QED
        BY <3>1, <3>2, <4>1
    <3>4. CASE RetentionEnds(m)
      <4>1. row' = [row EXCEPT ![m] = [row[m] EXCEPT !.past = TRUE]]
        BY <3>4 DEF RetentionEnds
      <4> QED
        BY <3>1, <3>2, <4>1
    <3> QED
      BY <1>4, <3>3, <3>4
  <2> QED
    BY <1>4, <2>1 DEF Processed, RetentionEnds, TypeOK, bounds
<1> QED
  BY <1>1, <1>2, <1>3, <1>4 DEF Uploads

LEMMA PurgesTypes ==
  ASSUME TenancyAssumption, TypeOK, Purges
  PROVE  TypeOK'
<1> USE TenancyAssumption DEF TenancyAssumption
<1>1. ASSUME NEW o \in Org, WindowEnds(o)
      PROVE  TypeOK'
  BY <1>1 DEF WindowEnds, TypeOK, Organization, bounds
<1>2. ASSUME NEW j \in Job, BeginPurge(j)
      PROVE  TypeOK'
  <2> DEFINE begun == [on |-> TRUE, left |-> DueForPurge, at |-> {}, there |-> {},
                       erased |-> {}]
  <2>1. DueForPurge \subseteq (0 .. MaxClicks) \X Org
    BY DEF DueForPurge
  <2>2. begun \in Purge /\ begun.there = {}
    BY <2>1 DEF Purge
  <2>3. purge' = [purge EXCEPT ![j] = begun]
    BY <1>2 DEF BeginPurge
  <2> HIDE DEF begun
  <2> QED
    BY <1>2, <2>2, <2>3 DEF BeginPurge, TypeOK, bounds
<1>3. ASSUME NEW j \in Job, ListPrefix(j)
      PROVE  TypeOK'
  <2> DEFINE x == Oldest(purge[j].left)
  <2>1. purge[j] \in Purge
    BY <1>3, Purging DEF ListPrefix
  <2>2. purge[j].left \in SUBSET ((0 .. MaxClicks) \X Org)
    BY <2>1 DEF Purge
  <2>3. x \in purge[j].left
    <3>1. purge[j].left \in SUBSET (Nat \X Org)
      BY <2>2
    <3> QED
      BY <1>3, <3>1, OldestIsListed DEF ListPrefix
  <2>4. x[2] \in Org
    BY <2>2, <2>3
  <2>5. purge' = [purge EXCEPT ![j] =
                    [purge[j] EXCEPT !.left = @ \ {x}, !.at = {x[2]},
                                     !.there = UnderPrefix(x[2])]]
    BY <1>3, <2>1 DEF ListPrefix, Purge, TypeOK
  <2>6. UnderPrefix(x[2]) \subseteq Meeting /\ \A m \in UnderPrefix(x[2]) : {x[2]} = {OrgOf[m]}
    BY DEF UnderPrefix, Of
  <2> DEFINE listing == [purge[j] EXCEPT !.left = @ \ {x}, !.at = {x[2]},
                                         !.there = UnderPrefix(x[2])]
  <2>7. listing \in Purge
    BY <2>1, <2>4, <2>6 DEF Purge
  <2>8. \A m \in listing.there : listing.at = {OrgOf[m]}
    BY <2>1, <2>6 DEF Purge
  <2>9. purge' = [purge EXCEPT ![j] = listing]
    BY <2>5
  <2> HIDE DEF x, listing
  <2>10. purge' \in [Job -> {NoPurge} \cup Purge]
    BY <2>7, <2>9 DEF TypeOK
  <2>11. \A i \in Job : purge'[i].on =>
           \A m \in purge'[i].there : purge'[i].at = {OrgOf[m]}
    BY <2>8, <2>9 DEF TypeOK
  <2> QED
    BY <1>3, <2>10, <2>11 DEF ListPrefix, TypeOK, bounds
<1>4. ASSUME NEW j \in Job, DeletePage(j)
      PROVE  TypeOK'
  <2>1. purge[j] \in Purge
    BY <1>4, Purging DEF DeletePage
  <2>2. PICK page : /\ objects' = objects \ page
                    /\ purge' = [purge EXCEPT ![j].there = @ \ page]
    BY <1>4 DEF DeletePage
  <2> QED
    BY <1>4, <2>1, <2>2 DEF DeletePage, TypeOK, Purge, bounds
<1>5. ASSUME NEW j \in Job, SkipOrganization(j)
      PROVE  TypeOK'
  <2>1. purge[j] \in Purge
    BY <1>5, Purging DEF SkipOrganization
  <2>2. faults' \in 0 .. MaxFaults
    BY <1>5 DEF SkipOrganization, Refusal, Fault, TypeOK
  <2> QED
    BY <1>5, <2>1, <2>2 DEF SkipOrganization, TypeOK, Purge
<1>6. ASSUME NEW j \in Job, EraseOrganization(j)
      PROVE  TypeOK'
  <2>1. purge[j] \in Purge
    BY <1>6, Purging DEF EraseOrganization
  <2>2. PICK o \in purge[j].at :
          purge' = [purge EXCEPT ![j].at = {}, ![j].there = {},
                      ![j].erased = IF org[o].here THEN @ \cup {o} ELSE @]
    BY <1>6 DEF EraseOrganization
  <2>3. o \in Org
    BY <2>1 DEF Purge
  <2> QED
    BY <1>6, <2>1, <2>2, <2>3 DEF EraseOrganization, TypeOK, Purge, bounds
<1>7. ASSUME NEW j \in Job, CommitPurge(j)
      PROVE  TypeOK'
  <2>1. \A r \in Organization :
          [r EXCEPT !.here = FALSE, !.requested = 0, !.due = FALSE] \in Organization
    <3>1. \A r \in Organization, n \in 0 .. MaxClicks :
            [r EXCEPT !.here = FALSE, !.requested = n, !.due = FALSE] \in Organization
      BY DEF Organization
    <3>2. 0 \in 0 .. MaxClicks
      OBVIOUS
    <3> QED
      BY <3>1, <3>2
  <2>2. \A r \in Recording : [r EXCEPT !.key = FALSE] \in Recording
    BY DEF Recording
  <2>3. org' \in [Org -> Organization]
    BY <1>7, <2>1 DEF CommitPurge, Erased, TypeOK
  <2>4. row' \in [Meeting -> Recording]
    BY <1>7, <2>2 DEF CommitPurge, Erased, TypeOK
  <2> QED
    BY <1>7, <2>3, <2>4 DEF CommitPurge, TypeOK, NoPurge, bounds
<1>8. ASSUME NEW j \in Job, PurgeDies(j)
      PROVE  TypeOK'
  BY <1>8 DEF PurgeDies, Fault, TypeOK, NoPurge
<1> QED
  BY <1>1, <1>2, <1>3, <1>4, <1>5, <1>6, <1>7, <1>8 DEF Purges

LEMMA SweepsTypes ==
  ASSUME TenancyAssumption, TypeOK, Sweeps
  PROVE  TypeOK'
<1> USE TenancyAssumption DEF TenancyAssumption
<1>1. CASE BeginSweep
  BY <1>1 DEF BeginSweep, TypeOK, Sweep, bounds
<1>2. CASE SweepScope
  <2>1. sweep \in Sweep
    BY <1>2, Sweeping DEF SweepScope
  <2>2. PICK o \in sweep.left : sweep' = [sweep EXCEPT !.left = @ \ {o}, !.scope = {o},
                                                       !.todo = DueAudio(o)]
    BY <1>2 DEF SweepScope
  <2>3. o \in Org /\ DueAudio(o) \subseteq Meeting
    BY <2>1 DEF Sweep, DueAudio, Of
  <2>4. sweep' \in Sweep
    BY <2>1, <2>2, <2>3 DEF Sweep
  <2> QED
    BY <1>2, <2>4 DEF SweepScope, TypeOK, bounds
<1>3. CASE SweepDrop
  <2>1. sweep \in Sweep
    BY <1>3, Sweeping DEF SweepDrop
  <2>2. sweep' \in Sweep
    BY <1>3, <2>1 DEF SweepDrop, Sweep
  <2> QED
    BY <1>3, <2>2 DEF SweepDrop, TypeOK, bounds
<1>4. CASE SweepRefused
  <2>1. sweep \in Sweep
    BY <1>4, Sweeping DEF SweepRefused
  <2>2. sweep' \in Sweep
    BY <1>4, <2>1 DEF SweepRefused, Sweep
  <2>3. faults' \in 0 .. MaxFaults
    BY <1>4 DEF SweepRefused, Refusal, Fault, TypeOK
  <2> QED
    BY <1>4, <2>2, <2>3 DEF SweepRefused, TypeOK
<1>5. CASE SweepCommit
  <2>1. \A r \in Recording : Purged(r) \in Recording
    BY DEF Purged, Recording
  <2>2. row' \in [Meeting -> Recording]
    BY <1>5, <2>1 DEF SweepCommit, TypeOK
  <2> QED
    BY <1>5, <2>2 DEF SweepCommit, TypeOK, bounds
<1>6. CASE SweepDies
  BY <1>6 DEF SweepDies, Fault, TypeOK
<1> QED
  BY <1>1, <1>2, <1>3, <1>4, <1>5, <1>6 DEF Sweeps

LEMMA InitTypes ==
  ASSUME TenancyAssumption, Init
  PROVE  TypeOK
<1> USE TenancyAssumption DEF TenancyAssumption
<1>1. org \in [Org -> Organization]
  BY DEF Init, Organization
<1>2. row \in [Meeting -> Recording]
  <2>1. {[status |-> s, key |-> TRUE, past |-> FALSE] :
           s \in {"UPLOADING", "PUBLISHED", "CANCELLED"}} \subseteq Recording
    <3>1. \A s \in {"UPLOADING", "PUBLISHED", "CANCELLED"} :
            [status |-> s, key |-> TRUE, past |-> FALSE] \in Recording
      BY DEF Recording
    <3> QED
      BY <3>1
  <2>2. \A S, T : S \subseteq T => [Meeting -> S] \subseteq [Meeting -> T]
    OBVIOUS
  <2> QED
    BY <2>1, <2>2 DEF Init
<1>3. purge \in [Job -> {NoPurge} \cup Purge] /\ \A j \in Job : ~ purge[j].on
  BY DEF Init, NoPurge
<1> QED
  BY <1>1, <1>2, <1>3 DEF Init, TypeOK

LEMMA StepTypes ==
  ASSUME TenancyAssumption, TypeOK, [Next]_vars
  PROVE  TypeOK'
<1>1. CASE UNCHANGED vars
  BY <1>1 DEF vars, TypeOK
<1> QED
  BY <1>1, OwnerTypes, UploadsTypes, PurgesTypes, SweepsTypes DEF Next

\* Whatever the requests, the purges and the sweep do to one another, every
\* table stays within its columns and no purge lists the recordings of an
\* organization it is not at.
THEOREM TypeCorrect == Spec => []TypeOK
<1>1. Init => TypeOK
  BY InitTypes, TenancyAssumption
<1>2. TypeOK /\ [Next]_vars => TypeOK'
  BY StepTypes, TenancyAssumption
<1> QED
  BY <1>1, <1>2, PTL DEF Spec

-----------------------------------------------------------------------------
(* Nothing is stranded.                                                    *)

\* While a purge is at an organization, whatever the bucket holds for it was
\* on the listing or came after the purge had begun.
ListedOrLate ==
  \A j \in Job : purge[j].on =>
    \A m \in objects : OrgOf[m] \in purge[j].at => m \in purge[j].there \cup late

\* An organization whose row a purge has deleted, committed or not, has
\* nothing in the bucket but what came too late.
ErasedIsEmpty ==
  \A j \in Job : purge[j].on =>
    \A m \in objects : OrgOf[m] \in purge[j].erased => m \in late

Inv == TypeOK /\ ListedOrLate /\ ErasedIsEmpty /\ StrandedArrivedLate

\* A step that brings nothing into the bucket, forgets nothing that was late,
\* erases no organization and leaves every purge as it was or ends it.
Bystanding ==
  /\ objects' \subseteq objects /\ late \subseteq late'
  /\ \A o \in Org : org[o].here => org'[o].here
  /\ \A j \in Job : purge'[j] = purge[j] \/ ~ purge'[j].on

LEMMA BystandersKeep ==
  ASSUME TenancyAssumption, Inv, TypeOK', Bystanding
  PROVE  Inv'
<1> USE TenancyAssumption DEF TenancyAssumption
<1>1. ListedOrLate'
  BY DEF Inv, ListedOrLate, Bystanding
<1>2. ErasedIsEmpty'
  BY DEF Inv, ErasedIsEmpty, Bystanding
<1>3. StrandedArrivedLate'
  <2> SUFFICES ASSUME NEW m \in objects'
               PROVE  Here(m)' \/ m \in late'
    BY DEF StrandedArrivedLate
  <2>1. OrgOf[m] \in Org /\ m \in objects
    BY DEF Inv, TypeOK, Bystanding
  <2> QED
    BY <2>1 DEF Inv, StrandedArrivedLate, Here, Bystanding
<1> QED
  BY <1>1, <1>2, <1>3 DEF Inv

LEMMA OwnerKeeps ==
  ASSUME TenancyAssumption, Inv, TypeOK', Owner
  PROVE  Inv'
<1>1. PICK a \in Api : \/ \E o \in Org : RequestDeletion(a, o) \/ CancelDeletion(a, o)
                       \/ Commit(a) \/ RequestDies(a)
  BY DEF Owner
<1>2. \A o \in Org : org[o].here => org'[o].here
  <2>1. CASE Commit(a)
    BY <2>1 DEF Commit, Settled, Inv, TypeOK, Organization
  <2>2. CASE ~ Commit(a)
    BY <1>1, <2>2 DEF RequestDeletion, CancelDeletion, Begin, RequestDies
  <2> QED
    BY <2>1, <2>2
<1>3. UNCHANGED << objects, late, purge >>
  BY <1>1 DEF RequestDeletion, CancelDeletion, Begin, Commit, RequestDies
<1> QED
  BY <1>2, <1>3, BystandersKeep DEF Bystanding

\* A recording that lands while a purge is under way, or has passed, is late.
LEMMA LandingKeeps ==
  ASSUME TenancyAssumption, Inv, TypeOK', NEW a \in Api, CompleteMultipart(a)
  PROVE  Inv'
<1> USE TenancyAssumption DEF TenancyAssumption
<1>1. CASE tx[a].m \notin open
  BY <1>1, BystandersKeep DEF CompleteMultipart, Bystanding
<1>2. CASE tx[a].m \in open
  <2> DEFINE m == tx[a].m
  <2>1. /\ objects' = objects \cup {m}
        /\ late \subseteq late' /\ (PurgeHasBegun(OrgOf[m]) => m \in late')
        /\ UNCHANGED << org, purge >>
    BY <1>2 DEF CompleteMultipart
  <2> HIDE DEF m
  <2>2. ListedOrLate'
    <3> SUFFICES ASSUME NEW j \in Job, purge'[j].on, NEW n \in objects',
                        OrgOf[n] \in purge'[j].at
                 PROVE  n \in purge'[j].there \cup late'
      BY DEF ListedOrLate
    <3>1. CASE n \in objects
      BY <2>1, <3>1 DEF Inv, ListedOrLate
    <3>2. CASE n = m
      BY <2>1, <3>2 DEF PurgeHasBegun
    <3> QED
      BY <2>1, <3>1, <3>2
  <2>3. ErasedIsEmpty'
    <3> SUFFICES ASSUME NEW j \in Job, purge'[j].on, NEW n \in objects',
                        OrgOf[n] \in purge'[j].erased
                 PROVE  n \in late'
      BY DEF ErasedIsEmpty
    <3>1. CASE n \in objects
      BY <2>1, <3>1 DEF Inv, ErasedIsEmpty
    <3>2. CASE n = m
      BY <2>1, <3>2 DEF PurgeHasBegun
    <3> QED
      BY <2>1, <3>1, <3>2
  <2>4. StrandedArrivedLate'
    BY <2>1 DEF Inv, StrandedArrivedLate, Here, PurgeHasBegun
  <2> QED
    BY <2>2, <2>3, <2>4 DEF Inv
<1> QED
  BY <1>1, <1>2

LEMMA UploadsKeep ==
  ASSUME TenancyAssumption, Inv, TypeOK', Uploads
  PROVE  Inv'
<1>1. CASE \E a \in Api : CompleteMultipart(a)
  BY <1>1, LandingKeeps
<1>2. CASE ~ \E a \in Api : CompleteMultipart(a)
  <2>1. UNCHANGED << org, objects, late, purge >>
    BY <1>2 DEF Uploads, CommitFinalize, BeginFinalize, Processed, RetentionEnds
  <2> QED
    BY <2>1, BystandersKeep DEF Bystanding
<1> QED
  BY <1>1, <1>2

LEMMA SweepsKeep ==
  ASSUME TenancyAssumption, Inv, TypeOK', Sweeps
  PROVE  Inv'
<1>1. UNCHANGED << org, late, purge >> /\ objects' \subseteq objects
  BY DEF Sweeps, BeginSweep, SweepScope, SweepDrop, SweepRefused, SweepCommit, SweepDies
<1> QED
  BY <1>1, BystandersKeep DEF Bystanding

LEMMA PurgesKeep ==
  ASSUME TenancyAssumption, Inv, TypeOK', Purges
  PROVE  Inv'
<1> USE TenancyAssumption DEF TenancyAssumption
<1>0. purge \in [Job -> {NoPurge} \cup Purge] /\ TypeOK
  BY DEF Inv, TypeOK
<1>1. ASSUME NEW o \in Org, WindowEnds(o)
      PROVE  Inv'
  <2>1. \A i \in Org : org[i].here => org'[i].here
    BY <1>0, <1>1 DEF WindowEnds, TypeOK, Organization
  <2> QED
    BY <1>1, <2>1, BystandersKeep DEF WindowEnds, Bystanding
\* The queue of a new purge is not looked at yet.
<1>2. ASSUME NEW j \in Job, BeginPurge(j)
      PROVE  Inv'
  <2>1. /\ UNCHANGED << org, objects, late >>
        /\ \A i \in Job \ {j} : purge'[i] = purge[i]
        /\ purge'[j].at = {} /\ purge'[j].erased = {}
    BY <1>0, <1>2 DEF BeginPurge
  <2> QED
    BY <2>1 DEF Inv, ListedOrLate, ErasedIsEmpty, StrandedArrivedLate, Here
\* The listing begins with all that is there.
<1>3. ASSUME NEW j \in Job, ListPrefix(j)
      PROVE  Inv'
  <2> DEFINE o == Oldest(purge[j].left)[2]
  <2>1. purge[j] \in Purge
    BY <1>0, <1>3, Purging DEF ListPrefix
  <2>2. /\ UNCHANGED << org, objects, late >>
        /\ \A i \in Job \ {j} : purge'[i] = purge[i]
        /\ purge'[j].at = {o} /\ purge'[j].there = UnderPrefix(o)
        /\ purge'[j].erased = purge[j].erased /\ purge[j].on
    BY <1>0, <1>3, <2>1 DEF ListPrefix, Purge
  <2> HIDE DEF o
  <2>3. ListedOrLate'
    BY <2>2, <1>0 DEF Inv, ListedOrLate, UnderPrefix, Of, TypeOK
  <2> QED
    BY <2>2, <2>3 DEF Inv, ErasedIsEmpty, StrandedArrivedLate, Here
\* A page takes the same recordings off the bucket and off the listing.
<1>4. ASSUME NEW j \in Job, DeletePage(j)
      PROVE  Inv'
  <2>1. purge[j] \in Purge
    BY <1>0, <1>4, Purging DEF DeletePage
  <2>2. PICK page : /\ objects' = objects \ page
                    /\ purge' = [purge EXCEPT ![j].there = @ \ page]
                    /\ UNCHANGED << org, late >> /\ purge[j].on
    BY <1>4 DEF DeletePage
  <2>3. /\ \A i \in Job \ {j} : purge'[i] = purge[i]
        /\ purge'[j].at = purge[j].at /\ purge'[j].erased = purge[j].erased
        /\ purge'[j].there = purge[j].there \ page
    BY <1>0, <2>1, <2>2 DEF Purge
  <2> QED
    BY <2>2, <2>3 DEF Inv, ListedOrLate, ErasedIsEmpty, StrandedArrivedLate, Here
<1>5. ASSUME NEW j \in Job, SkipOrganization(j)
      PROVE  Inv'
  <2>1. purge[j] \in Purge
    BY <1>0, <1>5, Purging DEF SkipOrganization
  <2>2. /\ UNCHANGED << org, objects, late >> /\ purge[j].on
        /\ \A i \in Job \ {j} : purge'[i] = purge[i]
        /\ purge'[j].at = {} /\ purge'[j].erased = purge[j].erased
    BY <1>0, <1>5, <2>1 DEF SkipOrganization, Purge
  <2> QED
    BY <2>2 DEF Inv, ListedOrLate, ErasedIsEmpty, StrandedArrivedLate, Here
\* The row goes when nothing of the listing is left: what is, was late.
<1>6. ASSUME NEW j \in Job, EraseOrganization(j)
      PROVE  Inv'
  <2>1. purge[j] \in Purge
    BY <1>0, <1>6, Purging DEF EraseOrganization
  <2>2. PICK o \in purge[j].at :
          /\ purge[j].there \cap objects = {}
          /\ purge' = [purge EXCEPT ![j].at = {}, ![j].there = {},
                         ![j].erased = IF org[o].here THEN @ \cup {o} ELSE @]
          /\ UNCHANGED << org, objects, late >> /\ purge[j].on
    BY <1>6 DEF EraseOrganization, Emptied
  <2>3. /\ \A i \in Job \ {j} : purge'[i] = purge[i]
        /\ purge'[j].at = {} /\ purge'[j].erased \subseteq purge[j].erased \cup {o}
    BY <1>0, <2>1, <2>2 DEF Purge
  <2>4. \A m \in objects : OrgOf[m] = o => m \in late
    BY <2>2 DEF Inv, ListedOrLate
  <2>5. ListedOrLate'
    BY <2>2, <2>3 DEF Inv, ListedOrLate
  <2>6. ErasedIsEmpty'
    BY <2>2, <2>3, <2>4 DEF Inv, ErasedIsEmpty
  <2> QED
    BY <2>2, <2>5, <2>6 DEF Inv, StrandedArrivedLate, Here
<1>7. ASSUME NEW j \in Job, CommitPurge(j)
      PROVE  Inv'
  <2>1. /\ UNCHANGED << objects, late >> /\ purge[j].on
        /\ \A i \in Job \ {j} : purge'[i] = purge[i]
        /\ ~ purge'[j].on
        /\ \A o \in Org \ purge[j].erased : org'[o] = org[o]
    BY <1>0, <1>7 DEF CommitPurge, Erased, NoPurge
  <2>2. StrandedArrivedLate'
    <3> SUFFICES ASSUME NEW m \in objects
                 PROVE  Here(m)' \/ m \in late
      BY <2>1 DEF StrandedArrivedLate
    <3>1. OrgOf[m] \in Org
      BY <1>0 DEF TypeOK
    <3>2. CASE OrgOf[m] \in purge[j].erased
      BY <2>1, <3>2 DEF Inv, ErasedIsEmpty
    <3>3. CASE OrgOf[m] \notin purge[j].erased
      BY <2>1, <3>1, <3>3 DEF Inv, StrandedArrivedLate, Here
    <3> QED
      BY <3>2, <3>3
  <2> QED
    BY <2>1, <2>2 DEF Inv, ListedOrLate, ErasedIsEmpty
<1>8. ASSUME NEW j \in Job, PurgeDies(j)
      PROVE  Inv'
  <2>1. \A i \in Job : purge'[i] = purge[i] \/ ~ purge'[i].on
    BY <1>0, <1>8 DEF PurgeDies, NoPurge
  <2> QED
    BY <1>8, <2>1, BystandersKeep DEF PurgeDies, Bystanding
<1> QED
  BY <1>1, <1>2, <1>3, <1>4, <1>5, <1>6, <1>7, <1>8 DEF Purges

LEMMA InitInv ==
  ASSUME TenancyAssumption, Init
  PROVE  Inv
<1>1. \A j \in Job : ~ purge[j].on
  BY DEF Init, NoPurge
<1>2. \A m \in Meeting : Here(m)
  BY TenancyAssumption DEF Init, Here, TenancyAssumption
<1>3. TypeOK
  BY InitTypes
<1> QED
  BY <1>1, <1>2, <1>3 DEF Inv, ListedOrLate, ErasedIsEmpty, StrandedArrivedLate, TypeOK

LEMMA StepInv ==
  ASSUME TenancyAssumption, Inv, [Next]_vars
  PROVE  Inv'
<1>1. TypeOK'
  BY StepTypes DEF Inv
<1>2. CASE UNCHANGED vars
  BY <1>1, <1>2, BystandersKeep DEF vars, Bystanding
<1> QED
  BY <1>1, <1>2, OwnerKeeps, UploadsKeep, PurgesKeep, SweepsKeep DEF Next

\* However cancellations, uploads, refusals of the store and jobs that die
\* fall between the listing of a prefix and the deletion of the row, the only
\* recordings that outlive their organization landed after the purge began.
THEOREM Stranding == Spec => []StrandedArrivedLate
<1>1. Init => Inv
  BY InitInv, TenancyAssumption
<1>2. Inv /\ [Next]_vars => Inv'
  BY StepInv, TenancyAssumption
<1>3. Inv => StrandedArrivedLate
  BY DEF Inv
<1> QED
  BY <1>1, <1>2, <1>3, PTL DEF Spec
=============================================================================
