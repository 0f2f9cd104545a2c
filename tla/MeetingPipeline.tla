--------------------------- MODULE MeetingPipeline ---------------------------
(***************************************************************************)
(* The server's meetings of one organization, from declaration to purge:   *)
(* the request handlers of services/meetings.py, the two Celery tasks      *)
(* transcribe_meeting and analyse_meeting, the nightly audio sweep, the    *)
(* object store, the broker, and the quota.                                *)
(*                                                                         *)
(* Every request and every task is one READ COMMITTED transaction without  *)
(* row locks or a version column: it reads the row, talks to the store or  *)
(* to a supplier, and at commit writes back the columns it changed.  The   *)
(* model keeps exactly that: a step that snapshots the row, the external   *)
(* calls as steps of their own, and a commit that merges the changed       *)
(* columns into whatever the row has become in the meantime.               *)
(***************************************************************************)
EXTENDS Naturals, MeetingStates

CONSTANTS
  Meeting,        \* the organization's meetings
  Api,            \* request slots of the API: how many requests overlap
  Worker,         \* Celery worker slots: how many tasks overlap
  Durations,      \* lengths, in seconds, a desktop or a supplier may report
  HasQuota,       \* whether organizations.quota_seconds is set
  Quota,          \* its value when it is
  MaxRetries,     \* automatic retries of a Celery task (max_retries)
  OtherExpired,   \* some other published meeting is past its retention
  MayLoseDispatch,\* whether a dispatch after commit may fail to reach Redis
  MaxUploads,     \* bound: multipart uploads opened
  MaxClicks,      \* bound: uses of the Retry button
  MaxFaults       \* bound: task exceptions, lost workers, lost dispatches

ASSUME PipelineAssumption ==
  /\ Durations \subseteq Nat \ {0}
  /\ HasQuota \in BOOLEAN /\ OtherExpired \in BOOLEAN
  /\ MayLoseDispatch \in BOOLEAN
  /\ Quota \in Nat /\ MaxRetries \in Nat
  /\ MaxUploads \in Nat /\ MaxClicks \in Nat /\ MaxFaults \in Nat

VARIABLES
  row,          \* the meetings table
  transcripts,  \* meetings with a transcript (transcripts_meeting_unique)
  reports,      \* meetings with a report (reports_meeting_unique)
  entries,      \* usage_ledger: how many entries each meeting has
  billed,       \* usage_ledger: how many seconds they add up to
  consumed,     \* organizations.consumed_seconds
  uploads,      \* multipart uploads open at the store
  objects,      \* meetings whose recording is an object in the store
  opened,       \* multipart uploads opened so far: the next identifier
  answered,     \* the upload id the desktop was last answered
  queue,        \* messages in the broker
  tx,           \* the transaction each slot runs
  clicks,       \* uses of the Retry button so far
  faults        \* faults so far

vars == << row, transcripts, reports, entries, billed, consumed, uploads,
           objects, opened, answered, queue, tx, clicks, faults >>

tables == << transcripts, reports, entries, billed, consumed >>
store  == << uploads, objects, opened, answered >>

Slot == Api \cup Worker
UploadId == 0 .. MaxUploads              \* 0: audio_upload_id is NULL
Seconds == Durations \cup {0}            \* 0: not known yet

Row == [ status  : Committed \cup {"ABSENT"},
         key     : BOOLEAN,              \* audio_key is not NULL
         upload  : UploadId,             \* audio_upload_id
         purge   : {"unset", "ahead", "past"},   \* purge_at against now()
         seconds : Seconds,              \* duration_seconds
         title   : {"blank", "typed", "model"} ]

NoRow == [ status |-> "ABSENT", key |-> FALSE, upload |-> 0,
           purge |-> "unset", seconds |-> 0, title |-> "blank" ]

Stage == {"transcribe", "analyse"}
Message == [stage : Stage, m : Meeting, try : 0 .. MaxRetries]

ApiOp    == {"update", "remove", "start_upload", "finalize", "abandon", "retry"}
WorkerOp == {"transcribe", "analyse", "sweep"}

\* What a slot holds: the operation, the row as it read it, how far it is,
\* and what the calls it has made so far answered.
Tx == [ op      : ApiOp \cup WorkerOp,
        m       : Meeting,
        old     : Row,
        step    : {"read", "ready", "mismatch", "aborted", "kept",
                   "committed", "sent"},
        upload  : UploadId,
        seconds : Seconds,
        ok      : BOOLEAN,
        try     : 0 .. MaxRetries ]

Idle == [op |-> "idle"]

Caller == {"author", "admin", "member"}
MayAdminister(c) == c \in {"author", "admin"}

-----------------------------------------------------------------------------
(* The row, as a transaction reads it and as its commit leaves it.         *)

\* meetings.get: a deleted meeting answers 404 at every door.
Visible(m) == row[m].status \notin {"ABSENT", "DELETED"}

\* The unit of work writes the columns that differ from what was loaded,
\* and those only: the others keep whatever somebody else committed.
Column(now, loaded, new) == IF new = loaded THEN now ELSE new

Merge(now, loaded, new) ==
  [ status  |-> Column(now.status, loaded.status, new.status),
    key     |-> Column(now.key, loaded.key, new.key),
    upload  |-> Column(now.upload, loaded.upload, new.upload),
    purge   |-> Column(now.purge, loaded.purge, new.purge),
    seconds |-> Column(now.seconds, loaded.seconds, new.seconds),
    title   |-> Column(now.title, loaded.title, new.title) ]

Written(p, new) == Merge(row[tx[p].m], tx[p].old, new)
Write(p, new) == row' = [row EXCEPT ![tx[p].m] = Written(p, new)]

Free(p) == tx[p] = Idle
At(p, op, step) == tx[p].op = op /\ tx[p].step = step

Open(op, m, step) ==
  [ op |-> op, m |-> m, old |-> row[m], step |-> step, upload |-> 0,
    seconds |-> 0, ok |-> FALSE, try |-> 0 ]

Begin(p, t) == Free(p) /\ tx' = [tx EXCEPT ![p] = t]
Close(p) == tx' = [tx EXCEPT ![p] = Idle]
Step(p, step) == tx' = [tx EXCEPT ![p].step = step]

Send(msg) == queue' = [queue EXCEPT ![msg] = @ + 1]

\* usage.can_afford, on the organization row the request loaded.
Remaining == IF consumed > Quota THEN 0 ELSE Quota - consumed
CanAfford(seconds) == HasQuota => seconds <= Remaining

HasTranscript(m) == m \in transcripts

-----------------------------------------------------------------------------
(* Requests: declare, update, remove, start_upload, finalize, abandon,     *)
(* retry.                                                                  *)

Declare(m, title) ==
  /\ row[m].status = "ABSENT"
  /\ row' = [row EXCEPT ![m] = [NoRow EXCEPT !.status = "CREATED", !.title = title]]
  /\ UNCHANGED << tables, store, queue, tx, clicks, faults >>

BeginUpdate(p, m, c, typed) ==
  /\ Visible(m) /\ MayAdminister(c)
  /\ Begin(p, [Open("update", m, "ready") EXCEPT !.ok = typed])
  /\ UNCHANGED << row, tables, store, queue, clicks, faults >>

\* Typing a title always changes it; clearing it changes a title that was set.
CommitUpdate(p) ==
  /\ At(p, "update", "ready")
  /\ row' = [row EXCEPT ![tx[p].m].title =
               IF tx[p].ok THEN "typed" ELSE Column(@, tx[p].old.title, "blank")]
  /\ Close(p)
  /\ UNCHANGED << tables, store, queue, clicks, faults >>

BeginRemove(p, m, c) ==
  /\ Visible(m) /\ MayAdminister(c)
  /\ "DELETED" \in AllowedFrom(row[m].status)
  /\ Begin(p, Open("remove", m, "ready"))
  /\ UNCHANGED << row, tables, store, queue, clicks, faults >>

CommitRemove(p) ==
  /\ At(p, "remove", "ready")
  /\ Write(p, [tx[p].old EXCEPT !.status = "DELETED"])
  /\ Close(p)
  /\ UNCHANGED << tables, store, queue, clicks, faults >>

BeginStartUpload(p, m, c, seconds) ==
  /\ Visible(m) /\ c = "author"
  /\ "UPLOADING" \in AllowedFrom(row[m].status)
  /\ Begin(p, [Open("start_upload", m, "read") EXCEPT !.seconds = seconds])
  /\ UNCHANGED << row, tables, store, queue, clicks, faults >>

\* storage.start_multipart; the answer leaves before the commit.
StartMultipart(p) ==
  /\ At(p, "start_upload", "read")
  /\ opened < MaxUploads
  /\ opened' = opened + 1
  /\ uploads' = uploads \cup {<<tx[p].m, opened + 1>>}
  /\ answered' = [answered EXCEPT ![tx[p].m] = opened + 1]
  /\ tx' = [tx EXCEPT ![p].upload = opened + 1, ![p].step = "ready"]
  /\ UNCHANGED << row, tables, objects, queue, clicks, faults >>

CommitStartUpload(p) ==
  /\ At(p, "start_upload", "ready")
  /\ Write(p, [tx[p].old EXCEPT !.status = "UPLOADING", !.key = TRUE,
                                !.upload = tx[p].upload, !.seconds = tx[p].seconds])
  /\ Close(p)
  /\ UNCHANGED << tables, store, queue, clicks, faults >>

\* The status is not looked at until the store has assembled the parts.
BeginFinalize(p, m, c) ==
  /\ Visible(m) /\ c = "author"
  /\ row[m].key /\ answered[m] # 0
  /\ Begin(p, [Open("finalize", m, "read") EXCEPT
                 !.upload = answered[m], !.ok = CanAfford(row[m].seconds)])
  /\ UNCHANGED << row, tables, store, queue, clicks, faults >>

CompleteMultipart(p, matches) ==
  /\ At(p, "finalize", "read")
  /\ <<tx[p].m, tx[p].upload>> \in uploads
  /\ uploads' = uploads \ {<<tx[p].m, tx[p].upload>>}
  /\ objects' = objects \cup {tx[p].m}
  /\ Step(p, IF matches THEN "ready" ELSE "mismatch")
  /\ UNCHANGED << row, tables, opened, answered, queue, clicks, faults >>

\* SIZE_MISMATCH: the object goes, and the transaction is rolled back.
RefuseMismatch(p) ==
  /\ At(p, "finalize", "mismatch")
  /\ objects' = objects \ {tx[p].m}
  /\ Close(p)
  /\ UNCHANGED << row, tables, uploads, opened, answered, queue, clicks, faults >>

Destination(t) == IF t.ok THEN "QUEUED" ELSE "QUOTA_HOLD"

Finalized(p) ==
  Written(p, [tx[p].old EXCEPT !.status = Destination(tx[p]), !.upload = 0])

\* Mutant: the task is dispatched whatever the quota said.
CommitFinalizeDispatched(p) ==
  /\ At(p, "finalize", "ready")
  /\ Destination(tx[p]) \in AllowedFrom(tx[p].old.status)
  /\ row' = [row EXCEPT ![tx[p].m] = [Finalized(p) EXCEPT !.purge = "ahead"]]
  /\ Step(p, "committed")
  /\ UNCHANGED << tables, store, queue, clicks, faults >>

\* The deadline is counted from now, so it is always a change.
CommitFinalize(p) ==
  /\ At(p, "finalize", "ready")
  /\ Destination(tx[p]) \in AllowedFrom(tx[p].old.status)
  /\ row' = [row EXCEPT ![tx[p].m] = [Finalized(p) EXCEPT !.purge = "ahead"]]
  /\ IF tx[p].ok THEN Step(p, "committed") ELSE Close(p)
  /\ UNCHANGED << tables, store, queue, clicks, faults >>

BeginAbandon(p, m, c) ==
  /\ Visible(m) /\ c = "author"
  /\ Begin(p, Open("abandon", m,
                   IF row[m].key /\ row[m].upload # 0 THEN "read" ELSE "ready"))
  /\ UNCHANGED << row, tables, store, queue, clicks, faults >>

\* Best effort: a store that refuses, or no longer knows the upload, does
\* not stop the cancellation.
AbandonAbort(p, works) ==
  LET u == <<tx[p].m, tx[p].old.upload>> IN
  /\ At(p, "abandon", "read")
  /\ works => u \in uploads
  /\ uploads' = IF works THEN uploads \ {u} ELSE uploads
  /\ tx' = [tx EXCEPT ![p].ok = works, ![p].step = "ready"]
  /\ UNCHANGED << row, tables, objects, opened, answered, queue, clicks, faults >>

CommitAbandon(p) ==
  /\ At(p, "abandon", "ready")
  /\ "CANCELLED" \in AllowedFrom(tx[p].old.status)
  /\ Write(p, [tx[p].old EXCEPT !.status = "CANCELLED",
                                !.upload = IF tx[p].ok THEN 0 ELSE @])
  /\ Close(p)
  /\ UNCHANGED << tables, store, queue, clicks, faults >>

\* Mutant of the Retry button: it takes a meeting in any state.
BeginRetryAnyState(p, m, c) ==
  /\ Visible(m) /\ MayAdminister(c)
  /\ HasTranscript(m) \/ row[m].key
  /\ clicks < MaxClicks
  /\ clicks' = clicks + 1
  /\ Begin(p, [Open("retry", m, "ready") EXCEPT !.ok = HasTranscript(m)])
  /\ UNCHANGED << row, tables, store, queue, faults >>

\* The Retry button: back to the stage that failed.
BeginRetry(p, m, c) ==
  /\ Visible(m) /\ MayAdminister(c)
  /\ row[m].status = "FAILED"
  /\ HasTranscript(m) \/ row[m].key
  /\ clicks < MaxClicks
  /\ clicks' = clicks + 1
  /\ Begin(p, [Open("retry", m, "ready") EXCEPT !.ok = HasTranscript(m)])
  /\ UNCHANGED << row, tables, store, queue, faults >>

CommitRetry(p) ==
  /\ At(p, "retry", "ready")
  /\ Write(p, [tx[p].old EXCEPT !.status = IF tx[p].ok THEN "ANALYZING" ELSE "QUEUED"])
  /\ Step(p, "committed")
  /\ UNCHANGED << tables, store, queue, clicks, faults >>

\* after_commit: the task is sent once the row is visible, or it is lost.
DispatchedStage(t) == IF t.op = "retry" /\ t.ok THEN "analyse" ELSE "transcribe"

Dispatch(p) ==
  /\ tx[p].op \in {"finalize", "retry"} /\ tx[p].step = "committed"
  /\ Send([stage |-> DispatchedStage(tx[p]), m |-> tx[p].m, try |-> 0])
  /\ Close(p)
  /\ UNCHANGED << row, tables, store, clicks, faults >>

LoseDispatch(p) ==
  /\ tx[p].op \in {"finalize", "retry"} /\ tx[p].step = "committed"
  /\ MayLoseDispatch /\ faults < MaxFaults
  /\ faults' = faults + 1
  /\ Close(p)
  /\ UNCHANGED << row, tables, store, queue, clicks >>

\* A refusal, a StorageError, a crash of the API or a lost connection: the
\* transaction is rolled back and what the store did stays done.
RequestFails(p) ==
  /\ tx[p].op \in ApiOp
  /\ tx[p].step \in {"read", "ready", "mismatch"}
  /\ Close(p)
  /\ UNCHANGED << row, tables, store, queue, clicks, faults >>

-----------------------------------------------------------------------------
(* The transcription task.                                                 *)

Take(p, msg) ==
  /\ queue[msg] > 0
  /\ queue' = [queue EXCEPT ![msg] = @ - 1]

\* A task that finds ANALYZING declines to work but still hands over.
TakeTranscribe(p, m, try) ==
  /\ Free(p)
  /\ Take(p, [stage |-> "transcribe", m |-> m, try |-> try])
  /\ tx' = [tx EXCEPT ![p] =
              IF row[m].status = "QUEUED"
              THEN [Open("transcribe", m, IF row[m].key THEN "read" ELSE "ready")
                      EXCEPT !.try = try]
              ELSE [Open("transcribe", m,
                         IF row[m].status = "ANALYZING" THEN "committed" ELSE "sent")
                      EXCEPT !.try = try]]
  /\ UNCHANGED << row, tables, store, clicks, faults >>

\* verify_audio found the object intact, and a supplier answered: its
\* measure of the length replaces the declared one unless it is zero.
Transcribed(p, seconds) ==
  /\ At(p, "transcribe", "read")
  /\ tx[p].m \in objects
  /\ tx' = [tx EXCEPT ![p].ok = TRUE, ![p].step = "ready",
                      ![p].seconds = IF seconds = 0 THEN tx[p].old.seconds ELSE seconds]
  /\ UNCHANGED << row, tables, store, queue, clicks, faults >>

\* AUDIO_UNREACHABLE or CHECKSUM_MISMATCH.
TranscriptionFailed(p) ==
  /\ At(p, "transcribe", "read")
  /\ Step(p, "ready")
  /\ UNCHANGED << row, tables, store, queue, clicks, faults >>

\* Mutant: the commit comes before the last advance.
CommitTranscriptMidway(p) ==
  /\ At(p, "transcribe", "ready") /\ tx[p].ok
  /\ tx[p].m \notin transcripts
  /\ transcripts' = transcripts \cup {tx[p].m}
  /\ Write(p, [tx[p].old EXCEPT !.status = "TRANSCRIBING", !.seconds = tx[p].seconds])
  /\ Step(p, "committed")
  /\ UNCHANGED << reports, entries, billed, consumed, store, queue, clicks, faults >>

\* A second transcript of the same meeting meets the unique constraint.
CommitTranscript(p) ==
  /\ At(p, "transcribe", "ready") /\ tx[p].ok
  /\ tx[p].m \notin transcripts
  /\ transcripts' = transcripts \cup {tx[p].m}
  /\ Write(p, [tx[p].old EXCEPT !.status = "ANALYZING", !.seconds = tx[p].seconds])
  /\ Step(p, "committed")
  /\ UNCHANGED << reports, entries, billed, consumed, store, queue, clicks, faults >>

\* _fail, from NO_AUDIO or from verify_audio.
CommitTranscriptionFailure(p) ==
  /\ At(p, "transcribe", "ready") /\ ~ tx[p].ok
  /\ Write(p, [tx[p].old EXCEPT !.status = "FAILED"])
  /\ Step(p, "sent")
  /\ UNCHANGED << tables, store, queue, clicks, faults >>

\* analyse_meeting.delay, after the commit.
DispatchAnalysis(p) ==
  /\ At(p, "transcribe", "committed")
  /\ Send([stage |-> "analyse", m |-> tx[p].m, try |-> 0])
  /\ Step(p, "sent")
  /\ UNCHANGED << row, tables, store, clicks, faults >>

-----------------------------------------------------------------------------
(* The analysis task.                                                      *)

\* Mutant: a redelivered task does not look at the state first.
TakeAnalyseAnyState(p, m, try) ==
  /\ Free(p)
  /\ Take(p, [stage |-> "analyse", m |-> m, try |-> try])
  /\ tx' = [tx EXCEPT ![p] = [Open("analyse", m, "read") EXCEPT
                                !.try = try, !.ok = HasTranscript(m)]]
  /\ UNCHANGED << row, tables, store, clicks, faults >>

TakeAnalyse(p, m, try) ==
  /\ Free(p)
  /\ Take(p, [stage |-> "analyse", m |-> m, try |-> try])
  /\ tx' = [tx EXCEPT ![p] =
              IF row[m].status = "ANALYZING"
              THEN [Open("analyse", m, "read") EXCEPT !.try = try,
                                                      !.ok = HasTranscript(m)]
              ELSE [Open("analyse", m, "sent") EXCEPT !.try = try]]
  /\ UNCHANGED << row, tables, store, clicks, faults >>

\* Mutant: a report table without its unique constraint.
PublishAgain(p) ==
  LET m == tx[p].m  s == tx[p].old.seconds IN
  /\ At(p, "analyse", "read") /\ tx[p].ok
  /\ reports' = reports \cup {m}
  /\ consumed' = consumed + s
  /\ entries' = [entries EXCEPT ![m] = @ + 1]
  /\ billed' = [billed EXCEPT ![m] = @ + s]
  /\ Write(p, [tx[p].old EXCEPT !.status = "PUBLISHED",
                                !.title = IF @ = "blank" THEN "model" ELSE @])
  /\ Step(p, "sent")
  /\ UNCHANGED << transcripts, store, queue, clicks, faults >>

\* Publication: the report, the charge, the ledger entry and the state, in
\* one transaction; reports_meeting_unique refuses a second report.
Publish(p) ==
  LET m == tx[p].m  s == tx[p].old.seconds IN
  /\ At(p, "analyse", "read") /\ tx[p].ok
  /\ m \notin reports
  /\ reports' = reports \cup {m}
  /\ consumed' = consumed + s
  /\ entries' = [entries EXCEPT ![m] = @ + 1]
  /\ billed' = [billed EXCEPT ![m] = @ + s]
  /\ Write(p, [tx[p].old EXCEPT !.status = "PUBLISHED",
                                !.title = IF @ = "blank" THEN "model" ELSE @])
  /\ Step(p, "sent")
  /\ UNCHANGED << transcripts, store, queue, clicks, faults >>

\* NO_TRANSCRIPT, or the model refused, or three answers were invalid.
CommitAnalysisFailure(p) ==
  /\ At(p, "analyse", "read")
  /\ Write(p, [tx[p].old EXCEPT !.status = "FAILED"])
  /\ Step(p, "sent")
  /\ UNCHANGED << tables, store, queue, clicks, faults >>

-----------------------------------------------------------------------------
(* What Celery does with a task: acknowledge, retry, or redeliver.         *)

TaskMessage(p, try) == [stage |-> tx[p].op, m |-> tx[p].m, try |-> try]

Acknowledge(p) ==
  /\ tx[p].op \in Stage /\ tx[p].step = "sent"
  /\ Close(p)
  /\ UNCHANGED << row, tables, store, queue, clicks, faults >>

\* Any exception rolls back (unless it came from the dispatch after the
\* commit) and is retried while retries are left; after that nobody is.
TaskRaises(p) ==
  /\ tx[p].op \in Stage /\ tx[p].step \in {"read", "ready", "committed"}
  /\ faults < MaxFaults
  /\ faults' = faults + 1
  /\ IF tx[p].try < MaxRetries
     THEN Send(TaskMessage(p, tx[p].try + 1)) ELSE UNCHANGED queue
  /\ Close(p)
  /\ UNCHANGED << row, tables, store, clicks >>

\* A transcript or a report was committed by somebody else since the task
\* began: the insert is refused, and the refusal is one more exception.
InsertRefused(p) ==
  /\ \/ At(p, "transcribe", "ready") /\ tx[p].ok /\ tx[p].m \in transcripts
     \/ At(p, "analyse", "read") /\ tx[p].ok /\ tx[p].m \in reports
  /\ IF tx[p].try < MaxRetries
     THEN Send(TaskMessage(p, tx[p].try + 1)) ELSE UNCHANGED queue
  /\ Close(p)
  /\ UNCHANGED << row, tables, store, clicks, faults >>

\* Mutant: tasks are acknowledged when they are taken.
WorkerLostAcknowledged(p) ==
  /\ tx[p].op \in Stage
  /\ faults < MaxFaults
  /\ faults' = faults + 1
  /\ Close(p)
  /\ UNCHANGED << row, tables, store, queue, clicks >>

\* task_acks_late with task_reject_on_worker_lost.
WorkerLost(p) ==
  /\ tx[p].op \in Stage
  /\ faults < MaxFaults
  /\ faults' = faults + 1
  /\ Send(TaskMessage(p, tx[p].try))
  /\ Close(p)
  /\ UNCHANGED << row, tables, store, clicks >>

-----------------------------------------------------------------------------
(* The nightly audio sweep.                                                *)

\* Time passes: a retention deadline is reached.
DeadlinePasses(m) ==
  /\ row[m].purge = "ahead"
  /\ row' = [row EXCEPT ![m].purge = "past"]
  /\ UNCHANGED << tables, store, queue, tx, clicks, faults >>

\* The job only visits organizations with a published meeting past its
\* deadline: organizations_with_expired_audio.
OrganizationListed ==
  OtherExpired \/ \E m \in Meeting : row[m].status = "PUBLISHED" /\ row[m].purge = "past"

\* Mutant: a failed meeting loses its recording at once.
DueEarly(r) ==
  /\ \/ r.status = "PUBLISHED" /\ r.purge = "past"
     \/ r.status \in {"FAILED", "CANCELLED", "DELETED"}
  /\ r.key \/ r.upload # 0

Due(r) ==
  /\ \/ r.status \in {"PUBLISHED", "FAILED"} /\ r.purge = "past"
     \/ r.status \in {"CANCELLED", "DELETED"}
  /\ r.key \/ r.upload # 0

BeginSweep(p, m) ==
  /\ OrganizationListed /\ Due(row[m])
  /\ Begin(p, Open("sweep", m,
                   IF row[m].key /\ row[m].upload # 0 THEN "read" ELSE "aborted"))
  /\ UNCHANGED << row, tables, store, queue, clicks, faults >>

\* The store does not know an upload that was completed or aborted before,
\* and then the meeting is left for the next run (SweepFails).
SweepAbort(p) ==
  LET u == <<tx[p].m, tx[p].old.upload>> IN
  /\ At(p, "sweep", "read")
  /\ u \in uploads
  /\ uploads' = uploads \ {u}
  /\ tx' = [tx EXCEPT ![p].ok = TRUE, ![p].step = "aborted"]
  /\ UNCHANGED << row, tables, objects, opened, answered, queue, clicks, faults >>

SweepDelete(p) ==
  /\ At(p, "sweep", "aborted")
  /\ objects' = IF tx[p].old.key THEN objects \ {tx[p].m} ELSE objects
  /\ Step(p, "ready")
  /\ UNCHANGED << row, tables, uploads, opened, answered, queue, clicks, faults >>

\* Mutant: a refused delete is taken for a done one.
SweepDeleteAssumed(p) ==
  /\ At(p, "sweep", "aborted")
  /\ Step(p, "ready")
  /\ UNCHANGED << row, tables, store, queue, clicks, faults >>

\* The delete is refused: the meeting is skipped, but the closed upload was
\* already cleared on the row and goes out with the commit.
SweepDeleteRefused(p) ==
  /\ At(p, "sweep", "aborted") /\ tx[p].ok
  /\ Step(p, "kept")
  /\ UNCHANGED << row, tables, store, queue, clicks, faults >>

\* Mutant: every swept meeting is marked as published and purged.
CommitSweepMarksAll(p) ==
  /\ tx[p].op = "sweep" /\ tx[p].step \in {"ready", "kept"}
  /\ Write(p, [tx[p].old EXCEPT
       !.status = IF tx[p].step = "ready" THEN "AUDIO_PURGED" ELSE @,
       !.key = @ /\ tx[p].step = "kept",
       !.upload = IF tx[p].ok THEN 0 ELSE @])
  /\ Close(p)
  /\ UNCHANGED << tables, store, queue, clicks, faults >>

CommitSweep(p) ==
  /\ tx[p].op = "sweep" /\ tx[p].step \in {"ready", "kept"}
  /\ Write(p, [tx[p].old EXCEPT
       !.status = IF @ = "PUBLISHED" /\ tx[p].step = "ready" THEN "AUDIO_PURGED" ELSE @,
       !.key = @ /\ tx[p].step = "kept",
       !.upload = IF tx[p].ok THEN 0 ELSE @])
  /\ Close(p)
  /\ UNCHANGED << tables, store, queue, clicks, faults >>

\* A store that refuses, a crash, or another meeting of the same sweep
\* transaction failing: nothing is written back.
SweepFails(p) ==
  /\ tx[p].op = "sweep"
  /\ Close(p)
  /\ UNCHANGED << row, tables, store, queue, clicks, faults >>

-----------------------------------------------------------------------------
Init ==
  /\ row = [m \in Meeting |-> NoRow]
  /\ transcripts = {} /\ reports = {}
  /\ entries = [m \in Meeting |-> 0] /\ billed = [m \in Meeting |-> 0]
  /\ consumed = 0
  /\ uploads = {} /\ objects = {} /\ opened = 0
  /\ answered = [m \in Meeting |-> 0]
  /\ queue = [msg \in Message |-> 0]
  /\ tx = [p \in Slot |-> Idle]
  /\ clicks = 0 /\ faults = 0

RequestBegins(p) ==
  \E m \in Meeting, c \in Caller :
    \/ \E typed \in BOOLEAN : BeginUpdate(p, m, c, typed)
    \/ BeginRemove(p, m, c)
    \/ \E s \in Durations : BeginStartUpload(p, m, c, s)
    \/ BeginFinalize(p, m, c)
    \/ BeginAbandon(p, m, c)
    \/ BeginRetry(p, m, c)

RequestCalls(p) ==
  \/ StartMultipart(p)
  \/ \E matches \in BOOLEAN : CompleteMultipart(p, matches)
  \/ RefuseMismatch(p)
  \/ \E works \in BOOLEAN : AbandonAbort(p, works)

RequestCommits(p) ==
  \/ CommitUpdate(p) \/ CommitRemove(p) \/ CommitStartUpload(p)
  \/ CommitFinalize(p) \/ CommitAbandon(p) \/ CommitRetry(p)

RequestStep(p) ==
  \/ RequestBegins(p) \/ RequestCalls(p) \/ RequestCommits(p)
  \/ Dispatch(p) \/ LoseDispatch(p) \/ RequestFails(p)

TaskTaken(p) ==
  \E m \in Meeting, try \in 0 .. MaxRetries :
    TakeTranscribe(p, m, try) \/ TakeAnalyse(p, m, try)

TaskWorks(p) ==
  \/ \E s \in Seconds : Transcribed(p, s)
  \/ TranscriptionFailed(p)
  \/ CommitTranscript(p) \/ CommitTranscriptionFailure(p)
  \/ DispatchAnalysis(p)
  \/ Publish(p) \/ CommitAnalysisFailure(p)
  \/ InsertRefused(p)
  \/ Acknowledge(p)

SweepStep(p) ==
  \/ \E m \in Meeting : BeginSweep(p, m)
  \/ SweepAbort(p) \/ SweepDelete(p) \/ SweepDeleteRefused(p)
  \/ CommitSweep(p) \/ SweepFails(p)

WorkerStep(p) ==
  \/ TaskTaken(p) \/ TaskWorks(p) \/ TaskRaises(p) \/ WorkerLost(p)
  \/ SweepStep(p)

Next ==
  \/ \E m \in Meeting, title \in {"blank", "typed"} : Declare(m, title)
  \/ \E m \in Meeting : DeadlinePasses(m)
  \/ \E p \in Api : RequestStep(p)
  \/ \E p \in Worker : WorkerStep(p)

Spec == Init /\ [][Next]_vars

-----------------------------------------------------------------------------
(* What keeps running: a worker that is up takes tasks and carries them on, *)
(* a request that has committed sends its task, the sweep comes back every  *)
(* night, and a store that refuses does not refuse for ever.  Users are     *)
(* under no obligation, and no request has to begin or to commit.           *)

WorkerFairness(p) ==
  /\ SF_vars(TaskTaken(p))
  /\ WF_vars(TaskWorks(p))
  /\ \A m \in Meeting : SF_vars(BeginSweep(p, m))
  /\ SF_vars(SweepAbort(p)) /\ SF_vars(SweepDelete(p)) /\ SF_vars(CommitSweep(p))
  /\ WF_vars(SweepFails(p))

FairSpec ==
  /\ Spec
  /\ \A p \in Api : WF_vars(Dispatch(p))
  /\ \A p \in Worker : WorkerFairness(p)

-----------------------------------------------------------------------------
(* Properties that hold however requests, tasks and sweeps overlap.        *)

\* Every variable keeps its shape.
TypeOK ==
  /\ row \in [Meeting -> Row]
  /\ transcripts \subseteq Meeting /\ reports \subseteq Meeting
  /\ entries \in [Meeting -> Nat] /\ billed \in [Meeting -> Nat]
  /\ consumed \in Nat
  /\ uploads \subseteq Meeting \X UploadId
  /\ objects \subseteq Meeting
  /\ opened \in UploadId /\ answered \in [Meeting -> UploadId]
  /\ queue \in [Message -> Nat]
  /\ tx \in [Slot -> Tx \cup {Idle}]
  /\ clicks \in Nat /\ faults \in Nat

\* A meeting is charged exactly once if it has a report and never otherwise,
\* and a report stands on a transcript, whatever is redelivered, retried or
\* run twice at the same time (analyse_meeting, "in the same transaction as
\* the report").
ChargedOnce ==
  /\ reports \subseteq transcripts
  /\ \A m \in Meeting : entries[m] = IF m \in reports THEN 1 ELSE 0

\* No meeting shows as published, or as published and purged, that has no
\* report and was not charged.
PublishedIsCharged ==
  \A m \in Meeting :
    row[m].status \in {"PUBLISHED", "AUDIO_PURGED"} => m \in reports

\* A meeting waiting for its analysis has the transcript the analysis reads:
\* however it got there, NO_TRANSCRIPT is never the reason it fails.
AnalysingHasTranscript ==
  \A m \in Meeting : row[m].status = "ANALYZING" => m \in transcripts

\* The state a meeting shows is backed by the tables, whichever of two
\* overlapping transactions wrote the row last.
StateIsBacked == PublishedIsCharged /\ AnalysingHasTranscript

\* What a transaction holds from its first read stays true of the tables while
\* it runs, stale as the row may be: a meeting read as published has its
\* report, and a retry or an analysis that saw a transcript still has it.
RememberedHolds ==
  \A p \in Slot : tx[p] # Idle =>
    /\ tx[p].old.status \in {"PUBLISHED", "AUDIO_PURGED"} => tx[p].m \in reports
    /\ tx[p].op \in {"retry", "analyse"} /\ tx[p].ok => tx[p].m \in transcripts

\* A commit decides a state over one that somebody else committed since the
\* transaction read the row: what a version column would refuse.
LostUpdate(p) ==
  /\ tx[p] # Idle /\ tx'[p] # tx[p]
  /\ row[tx[p].m].status # tx[p].old.status
  /\ row'[tx[p].m].status # row[tx[p].m].status

Strays(m) == \E p \in Slot : LostUpdate(p) /\ tx[p].m = m

\* What a step may do to a meeting: leave it, declare it, move it along the
\* table uncharged, or publish what was being analysed and charge it once.
KeepsToTable(m) ==
  \/ row'[m].status = row[m].status /\ entries'[m] = entries[m]
  \/ row[m].status = "ABSENT" /\ row'[m].status = "CREATED" /\ entries'[m] = entries[m]
  \/ /\ row[m].status \in Committed /\ Reaches(row[m].status, row'[m].status)
     /\ row'[m].status \in Committed \ {"PUBLISHED"} /\ entries'[m] = entries[m]
  \/ /\ row[m].status = "ANALYZING" /\ row'[m].status = "PUBLISHED"
     /\ entries'[m] = entries[m] + 1

\* However requests, tasks, redeliveries and sweeps overlap, a meeting leaves
\* the table TRANSITIONS, or is charged without being published, in a lost
\* update and in nothing else: advance checks the state it loaded, and only a
\* state committed in between can make that check worthless.
StraysOnlyWhenStale ==
  [][\A m \in Meeting : KeepsToTable(m) \/ Strays(m)]_vars

-----------------------------------------------------------------------------
(* Properties that hold while at most one request, task or sweep runs at a *)
(* time (Slot has one element), with every crash, lost answer, redelivery, *)
(* retry and refusal of the store left in.                                 *)

\* The pipeline as a customer may count on it: each meeting moves along the
\* table TRANSITIONS, a charge is a publication, and nothing leaves DELETED.
Lifecycle == INSTANCE MeetingLifecycle
               WITH status <- [m \in Meeting |-> row[m].status], charges <- entries

RefinesLifecycle == Lifecycle!Spec

\* "No quota is decremented for a failed meeting" (analyse_meeting, EF-45).
FailedNeverBilled ==
  \A m \in Meeting : row[m].status = "FAILED" => entries[m] = 0

\* A row that names no recording has none in the store: the sweep never says
\* the audio is gone while it sits in the bucket (purge_due_audio).
PurgedMeansGone ==
  \A m \in Meeting : ~ row[m].key => m \notin objects

\* Until its deadline the recording of a meeting somebody may still want to
\* process, retry or hear is in the store (purge_due_audio, retry).
KeptUntilDeadline ==
  \A m \in Meeting :
    /\ row[m].status \in {"QUEUED", "QUOTA_HOLD", "ANALYZING", "PUBLISHED", "FAILED"}
    /\ row[m].purge = "ahead"
    => m \in objects

\* A meeting held for quota is stored and nothing works on it: no task in
\* the broker or in a worker, no transcript (finalize: "never dispatched").
HeldIsNotProcessed ==
  \A m \in Meeting : row[m].status = "QUOTA_HOLD" =>
    /\ m \notin transcripts
    /\ \A msg \in Message : msg.m = m => queue[msg] = 0
    /\ \A p \in Slot : tx[p].op \in Stage => tx[p].m # m

-----------------------------------------------------------------------------
(* Liveness, under FairSpec.                                               *)

\* While faults stay within the automatic retries and no dispatch is lost,
\* a meeting that was accepted for processing reaches an outcome.
Settles ==
  \A m \in Meeting : row[m].status \in {"QUEUED", "ANALYZING"} ~>
    row[m].status \in {"PUBLISHED", "AUDIO_PURGED", "FAILED", "DELETED"}

-----------------------------------------------------------------------------
(* What the code's own comments say and overlapping transactions break.    *)

\* meetings.py: CANCELLED and DELETED are terminal.
DeletedIsTerminal ==
  [][\A m \in Meeting : row[m].status = "DELETED" => row'[m].status = "DELETED"]_vars
=============================================================================
