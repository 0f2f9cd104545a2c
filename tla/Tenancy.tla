-------------------------------- MODULE Tenancy --------------------------------
(***************************************************************************)
(* Several organizations in one database and one bucket: the owner who     *)
(* schedules a deletion and takes it back, the settings, the nightly job   *)
(* that erases the organizations whose seven days have run out (and the    *)
(* same job run by hand), and the nightly job that removes the recordings  *)
(* past their retention, each of them one transaction over all the         *)
(* organizations it lists.                                                 *)
(*                                                                         *)
(* Row-level security is what separates the tenants: a statement sees and  *)
(* changes the rows of the organization its transaction is scoped to, and  *)
(* no others.  The scope is the one set last, and what a session changed   *)
(* is written when it commits.                                             *)
(***************************************************************************)
EXTENDS Naturals

CONSTANTS
  Org,          \* organizations
  Meeting,      \* meetings
  OrgOf,        \* the organization each meeting belongs to
  Api,          \* request slots of the API
  Job,          \* purges at once: the nightly task and the operator's
  Stubborn,     \* organizations whose prefix the store refuses to empty
  MaxClicks,    \* bound: requests of the owners
  MaxFaults     \* bound: jobs and requests that die before they commit, and
                \* deletions the store refuses outside Stubborn

ASSUME TenancyAssumption ==
  /\ OrgOf \in [Meeting -> Org] /\ Stubborn \subseteq Org
  /\ MaxClicks \in Nat /\ MaxFaults \in Nat

VARIABLES
  org,      \* the organizations table
  row,      \* the meetings table, as far as recordings go
  objects,  \* meetings whose recording is in the bucket
  open,     \* meetings with a multipart upload open at the store
  tx,       \* the request each API slot runs
  purge,    \* the purge of organizations each job runs
  sweep,    \* the audio sweep
  clicks,   \* owners' requests so far
  faults,   \* faults so far
  late      \* history: recordings that landed when a purge had begun

vars == << org, row, objects, open, tx, purge, sweep, clicks, faults,
           late >>
bounds == << clicks, faults >>

\* requested orders the values of deletion_requested_at, 0 being NULL; due
\* says whether it is seven days old.
Organization == [ here : BOOLEAN, requested : 0 .. MaxClicks, due : BOOLEAN ]

\* past: purge_at has been reached.
Recording == [ status : {"UPLOADING", "PROCESSING", "PUBLISHED", "FAILED",
                         "CANCELLED", "AUDIO_PURGED"},
               key : BOOLEAN, past : BOOLEAN ]

NoRequest == [op |-> "none"]
Request == [ op : {"request", "cancel"}, o : Org ]
Finalizing == [ op : {"complete", "write"}, m : Meeting ]

\* left: what the lookup answered and is still to do, oldest request first;
\* at: the organization whose prefix is being emptied, and there: what the
\* listing has yet to reach; erased: rows deleted, locked until the commit.
NoPurge == [on |-> FALSE]
Purge == [ on : {TRUE}, left : SUBSET ((0 .. MaxClicks) \X Org),
           at : SUBSET Org, there : SUBSET Meeting, erased : SUBSET Org ]

\* scope: the last set_current_organization; todo and changed: the meetings
\* of its query, and every meeting the session has changed.
NoSweep == [on |-> FALSE]
Sweep == [ on : {TRUE}, left : SUBSET Org, scope : SUBSET Org,
           todo : SUBSET Meeting, changed : SUBSET Meeting ]

Here(m) == org[OrgOf[m]].here
Of(o) == {m \in Meeting : OrgOf[m] = o}

\* A deletion not committed yet keeps every other writer of the row waiting.
Locked(o) == \E j \in Job : purge[j].on /\ o \in purge[j].erased

Fault == faults < MaxFaults /\ faults' = faults + 1
Refusal(o) == IF o \in Stubborn THEN UNCHANGED faults ELSE Fault

Init ==
  /\ org = [o \in Org |-> [here |-> TRUE, requested |-> 0, due |-> FALSE]]
  /\ row \in [Meeting -> {[status |-> s, key |-> TRUE, past |-> FALSE] :
                            s \in {"UPLOADING", "PUBLISHED", "CANCELLED"}}]
  /\ open = {m \in Meeting : row[m].status # "PUBLISHED"}
  /\ objects = {m \in Meeting : row[m].status = "PUBLISHED"}
  /\ tx = [a \in Api |-> NoRequest]
  /\ purge = [j \in Job |-> NoPurge]
  /\ sweep = NoSweep
  /\ clicks = 0 /\ faults = 0
  /\ late = {}

-----------------------------------------------------------------------------
(* The owner's requests.                                                   *)

Begin(a, op, o) ==
  /\ tx[a] = NoRequest /\ org[o].here /\ clicks < MaxClicks
  /\ clicks' = clicks + 1
  /\ tx' = [tx EXCEPT ![a] = [op |-> op, o |-> o]]
  /\ UNCHANGED << org, row, objects, open, purge, sweep, faults, late >>

\* The owner is written to before the commit.
RequestDeletion(a, o) == org[o].requested = 0 /\ Begin(a, "request", o)

\* Neither the seven days nor a purge that has begun is looked at.
CancelDeletion(a, o) == org[o].requested # 0 /\ Begin(a, "cancel", o)

\* A request counts its seven days from now, a cancellation clears the date.
Settled(op, o) ==
  [org[o] EXCEPT !.due = FALSE,
                 !.requested = IF op = "request" THEN clicks ELSE 0]

\* The row is written at commit; one that has gone meanwhile fails it.
Commit(a) ==
  /\ tx[a].op \in {"request", "cancel"}
  /\ ~Locked(tx[a].o)
  /\ org' = IF org[tx[a].o].here
              THEN [org EXCEPT ![tx[a].o] = Settled(tx[a].op, tx[a].o)]
              ELSE org
  /\ tx' = [tx EXCEPT ![a] = NoRequest]
  /\ UNCHANGED << row, objects, open, purge, sweep, bounds, late >>

\* The message to the owner or the commit fails: nothing is kept.
RequestDies(a) ==
  /\ tx[a] # NoRequest /\ Fault
  /\ tx' = [tx EXCEPT ![a] = NoRequest]
  /\ UNCHANGED << org, row, objects, open, purge, sweep, clicks, late >>

\* Seven days pass.
WindowEnds(o) ==
  /\ org[o].here /\ org[o].requested # 0 /\ ~org[o].due
  /\ org' = [org EXCEPT ![o].due = TRUE]
  /\ UNCHANGED << row, objects, open, tx, purge, sweep, bounds, late >>

-----------------------------------------------------------------------------
(* The recordings, as far as these jobs meet them.                         *)

PurgeHasBegun(o) ==
  ~org[o].here \/ \E j \in Job : purge[j].on
                    /\ (o \in purge[j].at \cup purge[j].erased
                        \/ \E n \in 0 .. MaxClicks : <<n, o>> \in purge[j].left)

BeginFinalize(a, m) ==
  /\ tx[a] = NoRequest /\ Here(m) /\ row[m].status = "UPLOADING"
  /\ tx' = [tx EXCEPT ![a] = [op |-> "complete", m |-> m]]
  /\ UNCHANGED << org, row, objects, open, purge, sweep, bounds, late >>

\* The store makes the parts an object, whatever has become of the row.
CompleteMultipart(a) ==
  /\ tx[a].op = "complete"
  /\ LET m == tx[a].m IN
     IF m \in open
       THEN /\ open' = open \ {m} /\ objects' = objects \cup {m}
            /\ late' = IF PurgeHasBegun(OrgOf[m]) THEN late \cup {m} ELSE late
            /\ tx' = [tx EXCEPT ![a].op = "write"]
       ELSE /\ tx' = [tx EXCEPT ![a] = NoRequest]
            /\ UNCHANGED << open, objects, late >>
  /\ UNCHANGED << org, row, purge, sweep, bounds >>

CommitFinalize(a) ==
  /\ tx[a].op = "write" /\ ~Locked(OrgOf[tx[a].m])
  /\ row' = IF Here(tx[a].m) THEN [row EXCEPT ![tx[a].m].status = "PROCESSING"]
                             ELSE row
  /\ tx' = [tx EXCEPT ![a] = NoRequest]
  /\ UNCHANGED << org, objects, open, purge, sweep, bounds, late >>

\* What MeetingPipeline makes of it, and the retention that runs out.
Processed(m) ==
  /\ Here(m) /\ row[m].status = "PROCESSING"
  /\ \E s \in {"PUBLISHED", "FAILED"} : row' = [row EXCEPT ![m].status = s]
  /\ UNCHANGED << org, objects, open, tx, purge, sweep, bounds, late >>

RetentionEnds(m) ==
  /\ Here(m) /\ row[m].status \in {"PUBLISHED", "FAILED"} /\ ~row[m].past
  /\ row' = [row EXCEPT ![m].past = TRUE]
  /\ UNCHANGED << org, objects, open, tx, purge, sweep, bounds, late >>

-----------------------------------------------------------------------------
(* purge_due_organizations.                                                *)

\* organizations_due_for_purge(now - seven days), in the order of the requests.
DueForPurge ==
  {x \in (1 .. MaxClicks) \X Org :
     LET o == x[2] IN org[o].here /\ org[o].requested = x[1] /\ org[o].due}

BeginPurge(j) ==
  /\ ~purge[j].on /\ DueForPurge # {}
  /\ purge' = [purge EXCEPT ![j] = [on |-> TRUE, left |-> DueForPurge,
                                    at |-> {}, there |-> {}, erased |-> {}]]
  /\ UNCHANGED << org, row, objects, open, tx, sweep, bounds, late >>

Oldest(left) == CHOOSE x \in left : \A y \in left : x[1] <= y[1]

\* Mutant: the prefix is empty, and names every organization.
UnderNoPrefix(o) == objects

\* What the bucket holds under organization_prefix(o).
UnderPrefix(o) == objects \cap Of(o)

\* delete_prefix starts listing what is there.
ListPrefix(j) ==
  /\ purge[j].on /\ purge[j].at = {} /\ purge[j].left # {}
  /\ LET x == Oldest(purge[j].left) IN
     purge' = [purge EXCEPT ![j].left = @ \ {x}, ![j].at = {x[2]},
                            ![j].there = UnderPrefix(x[2])]
  /\ UNCHANGED << org, row, objects, open, tx, sweep, bounds, late >>

\* A page: some of it is deleted.  An object put since may be on it or not.
\* Parts of an open upload are on no page.
DeletePage(j) ==
  /\ purge[j].on
  /\ \E o \in purge[j].at \ Stubborn : \E page \in SUBSET UnderPrefix(o) :
       /\ page # {}
       /\ objects' = objects \ page
       /\ purge' = [purge EXCEPT ![j].there = @ \ page]
  /\ UNCHANGED << org, row, open, tx, sweep, bounds, late >>

\* Mutant: a refusal ends the whole purge, and takes back what it had erased.
SkipEverything(j) ==
  /\ purge[j].on /\ \E o \in purge[j].at : Refusal(o)
  /\ purge' = [purge EXCEPT ![j] = NoPurge]
  /\ UNCHANGED << org, row, objects, open, tx, sweep, clicks, late >>

\* The store refuses: the organization is skipped, its rows stay.
SkipOrganization(j) ==
  /\ purge[j].on /\ \E o \in purge[j].at : Refusal(o)
  /\ purge' = [purge EXCEPT ![j].at = {}, ![j].there = {}]
  /\ UNCHANGED << org, row, objects, open, tx, sweep, clicks, late >>

\* Mutant: the rows go whatever is left in the bucket.
EmptiedAssumed(j, o) == TRUE

\* Nothing the listing named is left.
Emptied(j, o) == o \notin Stubborn /\ purge[j].there \cap objects = {}

\* The row goes, if it is still there, without a second look at its deletion;
\* a purge that has deleted it and not committed is waited for.
EraseOrganization(j) ==
  /\ purge[j].on
  /\ \E o \in purge[j].at :
       /\ Emptied(j, o) /\ ~Locked(o)
       /\ purge' = [purge EXCEPT
            ![j].at = {}, ![j].there = {},
            ![j].erased = IF org[o].here THEN @ \cup {o} ELSE @]
  /\ UNCHANGED << org, row, objects, open, tx, sweep, bounds, late >>

\* Everything that names the organization cascades from its row.
Erased(orgs) ==
  /\ org' = [o \in Org |->
       IF o \in orgs THEN [org[o] EXCEPT !.here = FALSE, !.requested = 0,
                                         !.due = FALSE]
       ELSE org[o]]
  /\ row' = [m \in Meeting |->
       IF OrgOf[m] \in orgs THEN [row[m] EXCEPT !.key = FALSE] ELSE row[m]]

CommitPurge(j) ==
  /\ purge[j].on /\ purge[j].at = {} /\ purge[j].left = {}
  /\ Erased(purge[j].erased)
  /\ purge' = [purge EXCEPT ![j] = NoPurge]
  /\ UNCHANGED << objects, open, tx, sweep, bounds, late >>

PurgeDies(j) ==
  /\ purge[j].on /\ Fault
  /\ purge' = [purge EXCEPT ![j] = NoPurge]
  /\ UNCHANGED << org, row, objects, open, tx, sweep, clicks, late >>

-----------------------------------------------------------------------------
(* purge_audio.                                                            *)

Expired(m) == row[m].status = "PUBLISHED" /\ row[m].past

\* organizations_with_expired_audio(now): no order.
BeginSweep ==
  LET listed == {o \in Org : org[o].here /\ \E m \in Of(o) : Expired(m)} IN
  /\ ~sweep.on /\ listed # {}
  /\ sweep' = [on |-> TRUE, left |-> listed, scope |-> {}, todo |-> {},
               changed |-> {}]
  /\ UNCHANGED << org, row, objects, open, tx, purge, bounds, late >>

\* The query of purge_due_audio, which the policy confines to one tenant.
DueAudio(o) ==
  {m \in Of(o) : /\ Here(m) /\ row[m].key
                 /\ \/ Expired(m)
                    \/ row[m].status = "FAILED" /\ row[m].past
                    \/ row[m].status = "CANCELLED"}

SweepScope ==
  /\ sweep.on /\ sweep.todo = {}
  /\ \E o \in sweep.left :
       sweep' = [sweep EXCEPT !.left = @ \ {o}, !.scope = {o},
                              !.todo = DueAudio(o)]
  /\ UNCHANGED << org, row, objects, open, tx, purge, bounds, late >>

\* _drop_recording, and the row changed in the session.
SweepDrop ==
  /\ sweep.on
  /\ \E m \in sweep.todo :
       /\ objects' = objects \ {m} /\ open' = open \ {m}
       /\ sweep' = [sweep EXCEPT !.todo = @ \ {m}, !.changed = @ \cup {m}]
  /\ UNCHANGED << org, row, tx, purge, bounds, late >>

SweepRefused ==
  /\ sweep.on
  /\ \E m \in sweep.todo :
       Refusal(OrgOf[m]) /\ sweep' = [sweep EXCEPT !.todo = @ \ {m}]
  /\ UNCHANGED << org, row, objects, open, tx, purge, clicks, late >>

\* The changed rows are written under the last scope.  A row of another
\* tenant, or one that has gone, matches nothing: alone in its statement it
\* fails the transaction; in a statement of several rows, which are those
\* that change the same columns, nobody counts them.  advance has added a line
\* of the audit log for each published meeting, and one of another tenant, or
\* of none, is refused always.
Writable(m) == OrgOf[m] \in sweep.scope /\ Here(m)
Missed == {m \in sweep.changed : ~Writable(m)}
Audited(m) == row[m].status = "PUBLISHED"
Alike(m, n) == row[m].status = row[n].status
MayRaise == \E m \in Missed : \/ Audited(m) \/ sweep.changed = {m}
                              \/ \E n \in sweep.changed : ~Alike(m, n)
MayPass == \A m \in Missed :
             ~Audited(m) /\ \E n \in sweep.changed \ {m} : Alike(m, n)

Purged(r) == [r EXCEPT !.key = FALSE, !.status =
                IF @ = "PUBLISHED" THEN "AUDIO_PURGED" ELSE @]

SweepCommit ==
  /\ sweep.on /\ sweep.todo = {} /\ sweep.left = {}
  /\ \A m \in sweep.changed : ~Locked(OrgOf[m])
  /\ \/ MayRaise /\ UNCHANGED row
     \/ /\ MayPass
        /\ row' = [m \in Meeting |->
             IF m \in sweep.changed /\ Writable(m) THEN Purged(row[m])
             ELSE row[m]]
  /\ sweep' = NoSweep
  /\ UNCHANGED << org, objects, open, tx, purge, bounds, late >>

SweepDies ==
  /\ sweep.on /\ Fault
  /\ sweep' = NoSweep
  /\ UNCHANGED << org, row, objects, open, tx, purge, clicks, late >>

-----------------------------------------------------------------------------
Owner ==
  \E a \in Api :
    \/ \E o \in Org : RequestDeletion(a, o) \/ CancelDeletion(a, o)
    \/ Commit(a) \/ RequestDies(a)

Uploads ==
  \/ \E a \in Api : \/ CompleteMultipart(a) \/ CommitFinalize(a)
                    \/ \E m \in Meeting : BeginFinalize(a, m)
  \/ \E m \in Meeting : Processed(m) \/ RetentionEnds(m)

Purges ==
  \/ \E o \in Org : WindowEnds(o)
  \/ \E j \in Job : \/ BeginPurge(j) \/ ListPrefix(j) \/ DeletePage(j)
                    \/ SkipOrganization(j) \/ EraseOrganization(j)
                    \/ CommitPurge(j) \/ PurgeDies(j)

Sweeps ==
  \/ BeginSweep \/ SweepScope \/ SweepDrop \/ SweepRefused \/ SweepCommit
  \/ SweepDies

Next == Owner \/ Uploads \/ Purges \/ Sweeps

\* Both jobs are on the beat schedule, a job that has begun goes on, and so
\* does a request.
Works(j) ==
  \/ BeginPurge(j) \/ ListPrefix(j) \/ DeletePage(j) \/ SkipOrganization(j)
  \/ EraseOrganization(j) \/ CommitPurge(j)

Fairness ==
  /\ \A j \in Job : WF_vars(Works(j))
  /\ WF_vars(BeginSweep \/ SweepScope \/ SweepDrop \/ SweepCommit)
  /\ \A a \in Api : WF_vars(Commit(a) \/ CompleteMultipart(a)
                            \/ CommitFinalize(a))

Spec == Init /\ [][Next]_vars /\ Fairness

-----------------------------------------------------------------------------
(* Properties.                                                             *)

\* The tables, the bucket and the jobs stay in the sets their columns allow,
\* and a purge lists nothing but the recordings of the organization it is at.
TypeOK ==
  /\ org \in [Org -> Organization] /\ row \in [Meeting -> Recording]
  /\ objects \subseteq Meeting /\ open \subseteq Meeting /\ late \subseteq Meeting
  /\ tx \in [Api -> {NoRequest} \cup Request \cup Finalizing]
  /\ purge \in [Job -> {NoPurge} \cup Purge]
  /\ \A j \in Job : purge[j].on =>
       \A m \in purge[j].there : purge[j].at = {OrgOf[m]}
  /\ sweep \in {NoSweep} \cup Sweep
  /\ clicks \in 0 .. MaxClicks
  /\ faults \in 0 .. MaxFaults

\* A recording outlives the organization that owned it, unreferenced and
\* impossible to attribute (purge_due_organizations), only if it landed in
\* the bucket after the purge had found the organization due.
StrandedArrivedLate ==
  \A m \in objects : Here(m) \/ m \in late

\* An organization whose seven days have run out is erased, or its owner took
\* the deletion back: refusals of the store, jobs that die and another
\* organization whose prefix the store never lets go of do not prevent it.
DueIsErased ==
  \A o \in Org \ Stubborn : org[o].due ~> ~org[o].due

\* "PUBLISHED past its deadline moves to AUDIO_PURGED" (purge_due_audio), if
\* not tonight then on one of the nights after.
PastIsPurged ==
  \A m \in Meeting :
    Here(m) /\ Expired(m) ~> row[m].status = "AUDIO_PURGED" \/ ~Here(m)

=============================================================================
