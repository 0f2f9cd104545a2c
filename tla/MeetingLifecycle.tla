-------------------------- MODULE MeetingLifecycle ---------------------------
(***************************************************************************)
(* What the server promises about a meeting, without saying how: it moves  *)
(* along the table TRANSITIONS, seen from outside the transactions, and it *)
(* is charged in the move that publishes it and in no other.               *)
(***************************************************************************)
EXTENDS Naturals, MeetingStates

CONSTANT Meeting

VARIABLES
  status,   \* the state each meeting is seen in, "ABSENT" before it exists
  charges   \* how many times each meeting was charged

vars == << status, charges >>

Init ==
  /\ status = [m \in Meeting |-> "ABSENT"]
  /\ charges = [m \in Meeting |-> 0]

Declared(m) ==
  /\ status[m] = "ABSENT"
  /\ status' = [status EXCEPT ![m] = "CREATED"]
  /\ UNCHANGED charges

Moved(m, s) ==
  /\ status[m] \in Committed /\ Reaches(status[m], s) /\ s # "PUBLISHED"
  /\ status' = [status EXCEPT ![m] = s]
  /\ UNCHANGED charges

Published(m) ==
  /\ status[m] = "ANALYZING"
  /\ status' = [status EXCEPT ![m] = "PUBLISHED"]
  /\ charges' = [charges EXCEPT ![m] = @ + 1]

Next ==
  \E m \in Meeting :
    \/ Declared(m)
    \/ \E s \in Committed : Moved(m, s)
    \/ Published(m)

Spec == Init /\ [][Next]_vars

-----------------------------------------------------------------------------
TypeOK ==
  /\ status \in [Meeting -> Committed \cup {"ABSENT"}]
  /\ charges \in [Meeting -> Nat]

Unpublished ==
  {"ABSENT", "CREATED", "UPLOADING", "QUEUED", "QUOTA_HOLD", "ANALYZING", "FAILED",
   "CANCELLED"}

\* Along the table a meeting cannot come back to a state from which it would
\* be published again: it was charged once when it shows as published, never
\* when it was not published, and never twice.
ChargedAlongTheTable ==
  \A m \in Meeting :
    /\ charges[m] \in {0, 1}
    /\ status[m] \in Unpublished => charges[m] = 0
    /\ status[m] \in {"PUBLISHED", "AUDIO_PURGED"} => charges[m] = 1
=============================================================================
