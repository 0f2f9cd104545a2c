---------------------------- MODULE MeetingStates ----------------------------
(***************************************************************************)
(* The server's life cycle of a meeting: the states of MeetingStatus and   *)
(* the table TRANSITIONS of services/meetings.py.  Constant definitions    *)
(* only; every module about meetings takes its states from here.           *)
(***************************************************************************)

Status ==
  {"CREATED", "UPLOADING", "QUEUED", "QUOTA_HOLD", "TRANSCRIBING",
   "FALLBACK_STT", "ANALYZING", "COMPLETED", "PUBLISHED", "AUDIO_PURGED",
   "FAILED", "CANCELLED", "DELETED"}

\* From a state, the only places a meeting may go next.
TRANSITIONS ==
  [s \in Status |->
     CASE s = "CREATED"      -> {"UPLOADING", "CANCELLED", "DELETED"}
       [] s = "UPLOADING"    -> {"QUEUED", "QUOTA_HOLD", "CANCELLED", "DELETED"}
       [] s = "QUOTA_HOLD"   -> {"QUEUED", "CANCELLED", "DELETED"}
       [] s = "QUEUED"       -> {"TRANSCRIBING", "FAILED", "DELETED"}
       [] s = "TRANSCRIBING" -> {"ANALYZING", "FALLBACK_STT", "FAILED", "DELETED"}
       [] s = "FALLBACK_STT" -> {"ANALYZING", "FAILED", "DELETED"}
       [] s = "ANALYZING"    -> {"COMPLETED", "FAILED", "DELETED"}
       [] s = "COMPLETED"    -> {"PUBLISHED", "DELETED"}
       [] s = "PUBLISHED"    -> {"AUDIO_PURGED", "DELETED"}
       [] s = "AUDIO_PURGED" -> {"DELETED"}
       [] s = "FAILED"       -> {"QUEUED", "ANALYZING", "DELETED"}
       [] OTHER              -> {}]

AllowedFrom(s) == TRANSITIONS[s]

\* States a worker passes through inside its one transaction and never commits.
Transient == {"TRANSCRIBING", "FALLBACK_STT", "COMPLETED"}

\* The states a row can be seen in.
Committed == Status \ Transient

\* One committed transaction makes one legal move, or a run of legal moves
\* whose intermediate states are transient.
Reaches(s, t) ==
  \/ t \in AllowedFrom(s)
  \/ \E u \in Transient : u \in AllowedFrom(s) /\ t \in AllowedFrom(u)
  \/ \E u, v \in Transient :
        u \in AllowedFrom(s) /\ v \in AllowedFrom(u) /\ t \in AllowedFrom(v)
=============================================================================
