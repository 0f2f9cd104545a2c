# NovaBrief: models and proofs

NovaBrief records meetings on a Windows desktop, uploads the recording straight to an object
store, transcribes it, has a language model write a report, and bills the organization for the
minutes. This directory holds TLA+ models of that system, the TLC configurations that check them
on small instances, and theorems about them that TLAPS checks for every instance.

Paths are relative to `src/`; `api/` stands for `apps/api/app/` and `tauri/` for
`apps/desktop/src-tauri/`.

- [How to run](#how-to-run)
- [Inventory of the system](#inventory-of-the-system)
- [Modules](#modules)
- [What each run checks and shows](#what-each-run-checks-and-shows)
- [Fairness](#fairness)
- [What is proved](#what-is-proved)
- [Disagreements with the code's own words](#disagreements-with-the-codes-own-words)
- [What is not modelled, and why](#what-is-not-modelled-and-why)
- [Plan](#plan)

## How to run

    tlc -workers 2 -config serial.cfg MCMeetingPipeline.tla     # one run; PROJECT.json lists them
    tlapm MeetingPipelineProofs.tla                             # the proofs of one module

`PROJECT.json` names every run with its module and configuration, every mutant (a plausible bug
in one definition, and the property it must break), the source lines each definition stands for,
the hazards and the theorems.

## Inventory of the system

### Server (`api/`)

| component | state | operations | correct when |
|---|---|---|---|
| Meetings (`routers/meetings.py`, `services/meetings.py`) | `meetings` row: status, key and upload id of the recording, deadline, length, title | declare, update, remove, start_upload, resume_upload, finalize, abandon, retry | the row follows `TRANSITIONS`; nothing accepted is lost; terminal means terminal |
| Transcription and analysis (`tasks/pipeline.py`, `tasks/analysis.py`, `services/extraction.py`) | `transcripts`, `reports`, the broker's messages | `transcribe_meeting`, `analyse_meeting`, their retries and redelivery (`worker.py`) | one report, one charge; a typed title stays |
| Quota (`services/usage.py`) | `organizations.consumed_seconds`, `usage_ledger` | `can_afford` at finalize, `record` at publication | charged once, only for a report |
| Retention sweep (`tasks/maintenance.py`, `services/meetings.py` `purge_due_audio`) | the recordings past their deadline | one nightly pass, one session for several organizations | the row says gone only when it is gone, and what must go goes |
| Object storage (`storage.py`) | open multipart uploads, their parts, objects | start, presign, complete, abort, delete, delete a prefix | external (S3); modelled from its use |
| Organizations (`services/organizations.py`, `jobs/`) | deletion request, grace period | request, cancel, purge | who is due is erased, recordings first; nobody waits for another's bucket |
| Accounts (`services/auth.py`) | refresh tokens in families | sign up, sign in, refresh, reuse detection, sign out | a token rotates once; what ends a session ends all of it |
| Members, invitations, verification (`services/members.py`, `services/verification.py`) | links, users | invite, accept, revoke, verify, reset | a link works once; a revoked member has no session |
| Status websocket (`routers/status.py`, `tickets.py`) | one-time tickets in Redis | issue, redeem, poll | a ticket opens one socket, and the socket shows where the meeting came to rest, or that it is gone by closing |
| Rate limiter (`ratelimit.py`, `middleware.py`) | one counter per bearer token, or per address, in Redis; a breaker per replica | hit | nobody is granted more than the limit, over all replicas and whatever a call does |
| Transcription routing (`packages/ai/transcription/router.py`) | a breaker per supplier | ask in order, trip, half-open | everybody asked in turn, nobody after a refusal or an answer, over all the retries of the task |

Requests and tasks run concurrently, each in one `READ COMMITTED` transaction with no row lock and
no version column. A request's answer leaves *before* its transaction commits (`deps.py:137-139`:
the commit is the exit of a dependency that yields), and its message is sent after
(`deps.py:141-150`). Tasks are acknowledged late and redelivered (`worker.py:72-73`). Tenants are
separated by row-level security: a statement sees the rows of the organization its transaction was
last scoped to.

### Desktop (`tauri/`)

| component | state | operations | correct when |
|---|---|---|---|
| Recorder, engine, session (`src/lib.rs`, `src/engine.rs`, `crates/session`) | the running engine, the completed recording, the budget | start, pause, resume, finish, reap | one recording at a time; what was captured is owed a file |
| Vault (`crates/vault`) | a directory per recording: manifest, encrypted segments | begin, append, reopen, set_state, recover | a crash leaves every segment the manifest names |
| Upload queue (`src/queue.rs`) | nothing of its own: it reads the vault | sweep, for ever, with a growing wait | what is owed is sent at last |
| Uploader (`crates/uploader`) | `upload.json` beside the recording | identify, start or resume, parts, finalize, forget | nothing sent twice, nothing lost at an interruption |
| API client (`crates/api-client`) | none | one HTTP call each | an error tells retryable from hopeless |
| Account (`src/auth.rs`) | the session and the stored refresh token | sign in, restore, renew, sign out | a linked machine stays linked |
| Audio engine (`crates/audio-engine`) | two device streams, mixer, resampler, encoder | capture, mix, encode | no sample lost, the two sides aligned |
| Front end (`apps/desktop/src`) | view state | commands | presentation |

### How they interact

The desktop declares a meeting (`declare`) when recording starts, or at its first upload attempt
if it was offline; opens an upload (`start_upload`), writes the parts directly to the store,
closes it (`finalize`). The server then checks the size, moves the meeting to `QUEUED` or
`QUOTA_HOLD`, and after the commit sends `transcribe_meeting`, which sends `analyse_meeting`, which
publishes and charges in one transaction. The sweep removes recordings past their retention. The
broker, the database and the store are the only state the server's processes share; the disk is
the only state a desktop process leaves to the next one.

### What is hard

Overlapping transactions that merge stale columns; messages redelivered or lost between a commit
and the dispatch; calls to the store that take effect whatever becomes of the transaction; calls
the desktop stops waiting for and the server carries out later; an answer that leaves before its
commit; a process that dies between two saves. `PROJECT.json` lists each of these hazards at its
line, with the properties that would catch it, or the reason none does.

## Modules

| module | models | state ↔ code |
|---|---|---|
| `MeetingStates` | the states and `TRANSITIONS` (`services/meetings.py`) | pure operators: `AllowedFrom`, `Reaches`; `Committed` leaves out the states no transaction ends in |
| `MeetingLifecycle` | the abstract promise: a meeting moves along the table and is charged in the move that publishes it | `status`, `charges` |
| `MeetingPipeline` | one organization's meetings on the server: requests, tasks, broker, store, quota, sweep | `row` is the table; `tx[p]` is the transaction slot `p` runs, with the row *as it read it*; `queue` counts the messages; `uploads`, `objects` are the store |
| `RecordingUpload` | one laptop's recordings on their way to the server | `manifest`, `record` are the disk; `recorder`, `queue`, `call` are the process's memory; `wire` holds the requests in flight; `row`, `store`, `object` are the server |
| `LocalRecording` | one machine making recordings: recorder, recording thread, session, encoder, vault | `disk`, `files` are the vault's directory; `recorder` is the `Recorder`; `mailbox`, `device`, `session`, `writer`, `thread` are what one recording thread owns |
| `Tenancy` | organizations and their recordings: owners, uploads that finish, the purge of organizations, the audio sweep over several tenants | `org`, `row` are the tables, `objects`, `open` the bucket; `tx`, `purge`, `sweep` what each request and job holds in its session |
| `Accounts` | sessions and links on the server | `user`, `token`, `link` are the tables; `tx[s]` is the write set a request decided on when it read |
| `DesktopAccount` | the desktop's half of a session, over `Accounts` | `disk` is the credential store, `live` the access token, `lock` the session lock, `at`, `kept` the threads |
| `RateLimit` | the limiter in front of every request | `counter` is Redis, `breaker` each replica, `request` the requests being handled |
| `StatusSocket` | tickets and the polling socket, over `RateLimit` and `MeetingStates` | `stored` is Redis, `socket` the sockets, `status` the meeting |
| `Deadlines` | `normalise_deadline`, on Python's calendar | pure operators |
| `Processing` | one worker and one meeting: the chain of suppliers, the merging of fragments, the attempts at a report; uses `Deadlines` | `chain` is the router of this try, `transcript` the segments, `report` what the items point at |
| `MC...` | definitions for the configurations (symmetry, fault sets, initial tables) | |
| `MeetingLifecycleProofs`, `MeetingPipelineProofs`, `RecordingUploadProofs`, `LocalRecordingProofs`, `TenancyProofs`, `DesktopAccountProofs`, `ProcessingProofs`, `StatusSocketProofs` | theorems about the module each is named for; `DesktopAccountProofs` is about `Accounts` too, `ProcessingProofs` about `Deadlines`, `StatusSocketProofs` about `RateLimit` | |

**MeetingPipeline.** A handler is three kinds of step: `Begin…` reads the row and makes every check
the code makes before its first external call; the external calls (`StartMultipart`,
`CompleteMultipart`, `AbandonAbort`, `SweepAbort`, `SweepDelete`, `Transcribed`) act on the store
at once; `Commit…` merges the columns the handler changed into whatever the row has become
(`Merge`), because that is what the unit of work's UPDATE does. `CommitUpdate` and `CommitFinalize`
write a title and a deadline outright, whose new values always differ from the loaded ones.
`RequestFails`, `SweepFails`, `TaskRaises` roll back between any two of them. `answered` is set when
`start_upload`'s answer leaves, which is before its commit. `WorkerLost` redelivers; `InsertRefused`
is the unique constraint on transcripts and reports; `LoseDispatch` is the failure after commit.

**RecordingUpload.** A call of the desktop is a request put on the `wire`; `Handle…` carries it out
and answers; `Commit` makes its writes visible, later. `TimesOut` makes the desktop give up while
the request is still on the wire, where it may be handled late or be `Lost`. `Crash` keeps only
the disk. The queue's pass takes owed recordings one at a time and in any order; an attempt is the
sequence declare, start or resume, one step per part, finalize, with the record saved between the
steps exactly where `attempt` saves it. Each of those saves may fail (`SaveFails`: a full disk, a file held
open by something else), which ends the attempt with the answer unrecorded. A part's bytes are
abstracted to whose recording they come from, which is what "parts of two uploads" or "a foreign object" would show up as. The row's
`QUEUED` stands for `QUEUED`, `QUOTA_HOLD` and what follows. A row's commit order decides which
upload it names, so two overlapping `start_upload` calls are in the model.

These two modules describe the same endpoints for different questions: in the first the desktop is
any client in any order, in the second the server does only what a desktop asks for.

**LocalRecording.** A chunk of audio stands for the frames the encoder takes at once, and is known by
when it was heard and in which pause; a segment is a sequence of chunks, so "lost", "repeated" and
"kept although paused" are visible in it. The thread is a program counter (`thread[r].step`) with a
`phase` for the three places from which a segment is written: the loop of `capture`, the tail, and
`SegmentedOpusWriter::finish`. `Recording::append` is two steps, `PutSegment` (the flushed file) and
`SaveSegment` (the manifest); each has its failure, and `Fails` says what the caller does with it in
each phase. `writer[r].closed` is the encoder's count of segments and `writer[r].named` the count in
the manifest the vault keeps in memory, which is how `OutOfOrder` can happen. `Ask` sends a request
and holds the recorder's lock until it is answered (`Obey`), the thread is gone (`Unanswered`) or the
caller stops waiting (`TimesOut`, which leaves the request in the mailbox); `finish` waits for the
thread with the lock released (`joining`). `reap()`, with which every operation begins, is the action
`Reap`; `StartWith` and `Ask` are stated for an engine that has been looked at. A save that returned
is on the disk; `Crash` keeps the disk, and may tear the file being written. The two endpoints are
one queue of `Depth` chunks, and `Poll` takes all of it.

`RecordingUpload` takes over where `LocalRecording` ends: a manifest in state `uploading` is what its
`manifest` calls owed.

**Tenancy.** A nightly job is one session over every organization its lookup named, and the model
has its steps: the lookup (`BeginPurge`, `BeginSweep`), one organization after the other, the calls to
the store, and one commit. `delete_prefix` lists before it deletes, page by page: `ListPrefix` notes
what was there, `DeletePage` removes some of what is there, and `EraseOrganization` comes when nothing
that was listed is left. `Stubborn` is the set of organizations whose prefix the store never lets go
of. A row that a purge has deleted and not committed keeps its other writers waiting (`Locked`), and a
writer whose row has gone changes nothing. `SweepCommit` writes what the session changed under the
scope set last. For a published meeting that is a line of `audit_log` too (`Audited`), which the policy
refuses under any other scope, so that the whole session rolls back (`MayRaise`). Rows of which only the
key changes have no such line; whether one that matches nothing raises or passes unnoticed depends on how
SQLAlchemy groups the UPDATEs, so `MayRaise` and `MayPass` may both hold for them. What the pipeline does
with a recording is reduced to what the sweeps look at (`Processed`, `RetentionEnds`).

**Accounts, DesktopAccount.** Every request of `Accounts` reads, and so decides its write set
(`Write`, `Read`), and `Commit` applies it to whatever the tables have become; `Rollback` is the
unique constraint or a failed commit. Slots in `Client` have somebody waiting for the answer. `kill`
is the set of tokens as the transaction saw them, which is what lets a token minted meanwhile escape
(`late`). `Phantom` is a pair whose commit failed after its answer left. `DesktopAccount` binds the
client slots to the threads of one machine: `Restore` reads the stored token before the lock,
`RestoreAsks` presents it after, `Renewed` stores the answer and releases. `excused` lists, one by
one, what the code cannot help; everything else must leave the machine with a token that works.

**RateLimit, StatusSocket.** A key is a bucket with the bearer token (whose digest the code takes) or,
while signing in or without a token, the address; every caller of the model comes from one address, with
any token, a refreshed one included. `Counts` is the pipeline of INCR and EXPIRE, which Redis runs as one
transaction. What happens on either side of it is a step of its own: an outage forgets everything
(`GoesDown`), and a single call may time out while Redis is up (`TimesOut`) with its commands executed,
never executed, or executed later (`CountsLate`), after which the client asks again by itself
(`AsksAgain`) or the request is let through (`FailsOpen`). `log` is the history of the hits Redis counted.
Time counts the breaker's ten seconds. `Frame` is one turn of the socket's loop; it reads once and uses
only that reading. The meeting moves by any committed path of `MeetingStates`; its row may go with its
organization (`Erased`), and then the socket closes without a frame (`EndsUntold`).

**Processing, Deadlines.** A supplier answers any diarised sequence of utterances, refuses, or fails; the
model answers anything: a set of moments, nothing valid, or a refusal. On either side anything else
raises too (`TranscriptionRaises`, `AnalysisRaises`): no key for any supplier, no address for the audio, a
flush or a commit that fails with the answer it was for (`AnswerLost`), a dispatch that raises after the
commit, from which the retry finds a meeting in `ANALYZING` and only sends the message again (`Dispatch`).
A raise goes back to the queue through Celery's retries (`Raises`) and strands the meeting when they are
used up; a meeting that failed may be retried by the customer, from what is stored (`Retry`).
`MergeMicroSegments` is the fold of one turn of the loop. `Trying` counts attempts as `extract_report`
does. `Said` is the case of `normalise_deadline` the words fall into.

## What each run checks and shows

`CHECK_DEADLOCK FALSE` everywhere: the bounds on uploads, clicks, meetings and faults end every
behaviour, and a purged, uploaded or finished recording leaves nothing to do.

| run | instance | shows |
|---|---|---|
| `races` | 1 meeting, 1 API slot, 2 workers, 1 retry, 1 upload, 1 click, 1 fault (1.1 M states, 1 min) | however a request, two tasks and a sweep overlap: `ChargedOnce`, `StateIsBacked`, and `StraysOnlyWhenStale`: a meeting leaves the table only in a commit over a state its transaction has not read |
| `serial` | 1 meeting, one slot shared by requests and tasks, lengths 1 and 2, quota 1, 2 of each bound (86 k states) | with no overlap but every crash, redelivery and refusal: `RefinesLifecycle` (the pipeline implements `MeetingLifecycle`), `FailedNeverBilled`, `PurgedMeansGone`, `KeptUntilDeadline`, `HeldIsNotProcessed` |
| `liveness` | 1 API slot, 1 worker, 2 retries, 2 faults, no lost dispatch (89 k states, 1 min) | under fairness `Settles` |
| `upload` | 2 recordings of 2 parts, 2 requests in flight, one timeout, crash, failed commit, cancellation (2.1 M states, 2 min) | `WholeObject`, `DeliveredOnce`, `ConfirmedIsStored`, `UploadedIsStored`, `PartsAreRemembered` |
| `upload_arrives` | 1 recording of 2 parts, 2 timeouts, a crash, a refusal, a failed save, in any call (417 k states, 1 min) | `ResendsBounded`, and under fairness `Arrives` |
| `recording` | 2 recordings, segments of 2 chunks, a budget of 2, a queue of 2, 3 chunks heard, 2 commands, 1 timeout, 1 refused write, 1 crash (870 k states, 90 s) | `NamedIsDurable`, `LosesOneSegment`, `BilledIsKept`, `PauseKeepsNothing`, `WithinBudget`, `RunningIsHeld` |
| `tenancy` | 2 organizations of one meeting, the second stubborn; 1 request slot, 1 purge, 1 sweep, 2 clicks, 1 fault (139 k states, 20 s) | `StrandedArrivedLate`, and under fairness `DueIsErased` |
| `sessions` | 2 addresses, 2 threads of one machine and one other request at a time, 4 requests, 3 tokens, 1 link, 1 fault (2.1 M states, 2 min) | `RevocationReaches`, `SpentOnce`, `MachineStaysLinked` |
| `edge` | 2 replicas, 2 request slots, 1 token, its address, limit 1, 2 requests, 1 outage or 1 call that times out, 1 socket, 1 move and the erasure of the row (1.3 M states, 2 min) | one socket per ticket (`TypeOK`), `NeverOverLimit`, and under fairness `ViewerLearnsTheEnd` |
| `processing` | 2 suppliers, 2 voices, every diarised answer of 3 utterances in 2 seconds, 2 retries, 3 attempts (124 k states, 30 s) | `AskedInTurn`, `CitesWhatWasHeard`, `DeadlineIsComing` |
| `resurrected`, `unswept` | smallest that shows it | each is a counterexample; see below |

*Why the bounds are enough.* Meetings interact only through the quota counter and the sweep's
listing. The second is `OtherExpired`: whether some other meeting makes the nightly job visit the
organization at all. The safety runs set it, so that the sweep may come whenever it could; `liveness`,
which claims nothing of sweeps, does not. One meeting keeps the races that matter, which need two tasks
and a request on the *same* row. Two retries and two faults let a redelivery follow a redelivery. Two
recordings are enough for parts, uploads or declarations of one to be taken for the other's; two parts
are enough for "confirmed, then interrupted". Slots of `wire` bound how many abandoned requests overlap
with a live one. In `upload_arrives` `MaxMeetings` and `MaxUploads` are one more than the faults and
refusals that can use one up, so that they never run out before those do. In `recording` three chunks
with a queue of two let one poll cross both a segment's end and the budget, and leave audio for the tail
or to drop; two commands are a pause and what follows it; two recordings let one start while the other is
being closed.

In `tenancy` two organizations are what one job needs to meet the one it cannot empty before or after
the one it can; the slot is enough for a cancellation or an upload to overlap a job, and two clicks
are a request and its cancellation. In `sessions` three tokens are a login and two rotations of it, or
two logins, and three slots let two threads and one request from elsewhere overlap; the initial tables
are nobody, an owner, and a member with his owner. In `edge` a limit of one with two requests has a
grant and a refusal; the two may name one key or two, and a third hit of a key comes from a command
executed late or a call the client repeats; one failure opens the breaker of one replica while the other
goes on counting; the socket is opened by one ticket, which the other request may present too.
In `processing` three utterances are a fragment between two others; the threshold of two stands for the
code's five, which one router never reaches either: it asks every supplier once. The days of `Deadlines`
are those around two turns of the year, one into a leap year; the theorem covers the others.

*Why some properties are only checked serially.* They do not hold when transactions overlap as the code
lets them. `FailedNeverBilled`, `HeldIsNotProcessed` and `RefinesLifecycle` break when a commit overwrites a
state it has not read and not otherwise; the proofs say so with every overlap left in (below), and
`StraysOnlyWhenStale` is checked over the overlaps themselves. `PurgedMeansGone` and `KeptUntilDeadline`
break too when two requests of one meeting and a sweep overlap between their calls to the store, which no
state shows: a `finalize` that began before the sweep's delete assembles the object after it. `serial`
shows that the handlers are right one at a time, over every crash, redelivery and refusal; `resurrected`
shows what happens without the lock.

*`Prompt`.* In `upload_arrives` a commit precedes the handling of the next request. Without it the
start of an upload may be handled before the declaration it follows is in the table: it is refused, the
recording is declared again at the next pass, and `Arrives` needs one of those attempts to be in time.
`upload` runs with `Prompt = FALSE`, and the theorems hold either way.

*`Breakable`, `Unheard` and `Twin`.* `Breakable` is the set of calls during which a timeout or a crash may
come; both runs let it be any. Two things the code then does are named in the
properties and not cut away. A grant of `start_upload` that was never written down (`Unheard`) leaves the
recording owed for ever, which `Arrives` says is the only way. A `start_upload` the desktop gave up and
its retry may both open an upload of one meeting (`Twin`): the server names the one that committed last,
and the parts of the other are nobody's. `PartsAreRemembered` and `ResendsBounded` leave out exactly the
uploads of such a pair.

## Fairness

- Server: a message in the broker is taken again and again until handled (`SF TaskTaken`), a task
  that was taken goes on (`WF TaskWorks`), a committed request sends its message (`WF Dispatch`),
  the nightly sweep comes back to every meeting (`SF BeginSweep` per meeting) and a store that
  refuses does not refuse for ever (`SF` on abort, delete and commit). Strong fairness where the
  worker may be busy with something else in between. Users owe nothing, and no request has to
  begin or to commit.
- Desktop: the loop of `Queue::start` has no exit but the end of the process and an error only ends
  one attempt (`WF QueueStep`); a declaration under way is answered or times out and the recording
  begins (`WF Announced`); the server handles what arrived and commits it (`WF Handle`, `WF Commit`
  per slot). The user, timeouts, refusals and crashes are under no fairness; their number is bounded.
- Tenancy: the beat starts the jobs every night and a job that runs goes on (`WF` on `Works` of each
  purge and on the sweep); a request that has begun is answered and commits (`WF` per slot). Owners
  and the days that pass owe nothing, the store refuses a bounded number of times outside `Stubborn`
  and may refuse `Stubborn` for ever.
- StatusSocket: the loop of an open socket goes round (`WF Frame`). Nobody else owes anything, so
  `ViewerLearnsTheEnd` allows the meeting to move on and the socket to break.
- `Accounts`, `DesktopAccount` and `Processing` state safety only and assume none.

## What is proved

Every theorem holds for every value of the constants its module's named assumption allows. Those marked
*given `NoLostUpdate`* have one hypothesis about behaviours, `[][\A p \in Slot : ~ LostUpdate(p)]_vars`: no
commit decides a state over one somebody else committed since the transaction read the row. The code does
not see to it (it would take a version column or a row lock), and `OnTheTable`, which has no hypothesis,
says that this is all that goes wrong. Transactions may overlap under it in every other way.

| module | theorem | says |
|---|---|---|
| `MeetingPipelineProofs` | `TypeCorrect` | `Spec => []TypeOK` |
| | `InvHolds` | `Spec => []Inv`, the inductive invariant |
| | `Billing` | `[]ChargedOnce`: one ledger entry if and only if there is a report |
| | `Backing` | `[]StateIsBacked`: a published state has its report and charge, an analysing one its transcript |
| | `Memory` | `[]RememberedHolds` |
| | `OnTheTable` | `StraysOnlyWhenStale`: a step that leaves the table, or charges without publishing, is a lost update |
| | `FailedIsFree`, `Holding` | *given `NoLostUpdate`:* `[]FailedNeverBilled`, `[]HeldIsNotProcessed` |
| | `Refinement` | *given `NoLostUpdate`:* `RefinesLifecycle`: the pipeline implements `MeetingLifecycle` |
| `MeetingLifecycleProofs` | `TableMakesBillingSafe` | the table of transitions alone implies one charge per meeting |
| `RecordingUploadProofs` | `TypeCorrect`, `UploadInvariant` | the inductive invariant: the shape of requests, waits and passes; that disk, memory, requests and server agree |
| | `UploadTypes` | `[]TypeOK` |
| | `QueuedIsWhole` | `[]WholeObject`: what was accepted for processing is a whole recording, the one it was declared for |
| | `AcceptedOnce` | `[]DeliveredOnce`: a recording is accepted under one meeting |
| | `RecordIsTrue` | `[]ConfirmedIsStored`: a part the upload record calls confirmed is in the store |
| | `DeletableIsStored` | `[]UploadedIsStored`: a recording that may be deleted from the disk is whole in the store |
| | `NoPartForgotten` | `[]PartsAreRemembered`: parts at the store belong to an upload the disk names, or to one of two opened for one meeting |
| | `SentAgainOncePerFault` | `[]ResendsBounded`: one part sent again per timeout, crash or failed save, as long as no meeting was given two uploads |
| `LocalRecordingProofs` | `RecordingInvariant` | `Spec => []RecordingInv`, the inductive invariant |
| | `RecordingTypes` | `[]TypeOK` |
| | `HeldAlways` | `[]RunningIsHeld`: a recording in progress is within somebody's reach |
| | `BudgetKept` | `[]WithinBudget`: past the limit by no more than one poll and the tail |
| | `PausesDropped` | `[]PauseKeepsNothing`: audio heard in a pause is kept only if it was still queued when the recording was resumed |
| | `ManifestTrue` | `[]NamedIsDurable`: what a manifest names is whole on the disk |
| | `OneSegmentLost` | `[]LosesOneSegment`: in order, without repetition, and a stop costs one segment |
| | `BilledKept` | `[]BilledIsKept`: what is offered to the uploader is what was billed |
| `TenancyProofs` | `TypeCorrect` | `Spec => []TypeOK` |
| | `Stranding` | `[]StrandedArrivedLate`: what outlives its organization landed after a purge had begun |
| `DesktopAccountProofs` | `AccountsInvariant` | `Spec => []AccountsInv`, the server's inductive invariant (with its `TypeOK`) |
| | `SessionsEnd` | `[]RevocationReaches`: what ends a session reaches every token of it but those minted while it ended |
| | `RotatedOnce` | `[]SpentOnce`: a token or a link is used twice only by requests that overlapped |
| | `DesktopTypes` | `[]DesktopTypeOK`: one thread at most behind the session lock |
| | `MachineInvariant` | `Spec => []MachineInv`, the machine's inductive invariant |
| | `StaysLinked` | `[]MachineStaysLinked`: a linked machine at rest holds a token that works, unless excused |
| `ProcessingProofs` | `AlwaysComing` | on every day of every year, for all the words understood, the date is coming |
| | `Dates` | `[]DeadlineIsComing` |
| | `Turns` | `[]AskedInTurn`, for every chain (an empty one too), threshold and number of retries |
| | `Citations` | `[]CitesWhatWasHeard`, for a recording of any number of utterances |
| `StatusSocketProofs` | `Allowance` | `[]NeverOverLimit`, for every limit, window, and number of tokens and replicas |
| | `Types` | `[]TypeOK`: a ticket opens one socket; no counter runs past the requests made |

*Billing.* `ChargedOnce` is inductive with types: `Publish` is the only step that touches the
ledger, it adds the report in the same step, and the unique constraint makes a second insert fail.
`PublishedIsCharged`, a half of `StateIsBacked`, is not: a commit may write a
status decided from a stale row. What saves it is that a transaction that *read* `PUBLISHED` read it from a row whose report exists, and that reports
are never removed; so the invariant carries `RememberedHolds` for every running transaction. Each
step is shown to (a) only grow transcripts and reports, (b) back every status it writes with a
report or a transcript (`StatusBacked`), and (c) keep what the running transactions remember
(`MemoryKept`); `Preserved` combines the three.

*The table.* Each handler checks its status against the table when it reads, and not again when it commits.
`ChecksHold`, a part of `Inv`, carries those checks with the transaction (`Checked`): what it read was a
committed state from which the table allows what it goes on to decide. `Decides` says what a commit makes
of the row, and `DecidesLawfully` that the state it decides is allowed from the one it read; so either the
row still shows that state, and the step is on the table, or somebody else's commit came in between and the
step is a `LostUpdate`. `OneMoves` says that a step moves one meeting.

*Without lost updates.* `OnTheTable` then makes every step a move along the table. `FailedIsFree` follows
because what is charged is in a state of a published meeting (`Shown`), and the table does not lead out of
those. `Holding` carries `Unstarted`: while a meeting is in a state before its acceptance
(`Early`) it has no message, no task and no transcript, and the table does not lead back to those states.
The refinement maps the row's status and the ledger; `SameTable` shows that the two modules have the same
table, `Seen` what a step that moves one meeting looks like through the mapping, and `TableIsNext` that it is
a step of `Lifecycle!Next`.

*Uploads.* `TypeInv` says what a request, a wait and a pass of the queue look like. `Agreed` says that
the disk, the memory, the requests under way and the server's tables tell one story: every request
carries a meeting of its recording and an upload of its meeting, every confirmed part is in the upload
the record names, every stored part and every object belong to the recording their meeting was declared
for. A meeting that was never answered and a record that was dropped leave nothing that says whose they
were, so `Agreed` takes two histories as parameters, for whom a meeting was declared and under which
meeting a recording began to be sent, and `UploadInv` claims that some such histories exist: the proof
of a step keeps them, or extends them at the two places where the code decides (a declaration is
accepted; a record is first written).

*Parts.* `Traced` says three things of every upload. Parts are in, or on their way to, uploads that are
`Watched`: named by a record, or closed, or one of a `Twin` (`Followed`). Nothing is sent under an upload
whose answer has come and is not written down yet (`Untouched`), so that losing that answer, or failing to
save it, loses no part. A record is deleted only after its upload was closed (`Ended`). `NoPartForgotten`
follows with no hypothesis. For `ResendsBounded` the proof counts `Doubts`, each of which may cost one part
sent again: a part under way that nobody waits for any more (`Astray`), and a part the store has and the
record neither holds nor is about to (`Untold`). `Counted` says that the parts sent again and the doubts
together are no more than the `Faults`, as long as every meeting was given one upload (`OneEach`). A
timeout, a crash or a failed save adds one fault and at most one doubt, since the queue has one call at a
time, either on the wire or answered; a part stored the first time turns a doubt into another or adds none;
a part stored again settles the doubt that it was. A resumed upload drops no confirmed part, because its
meeting has no other. Once a meeting has two uploads it keeps them, so the hypothesis need not be carried.

*Recordings.* A step changes one recording, so the invariant says of each by itself what its thread,
encoder and files hold (`Local`), and of all together who holds those in progress (`Held`). `Local` is
six conjuncts: what is in memory at each step (`Shape`), how far the budget may be spent (`Spent`), that
a file is written only past those the manifest names (`Durable`), that disk, open segment, hand-over and
queue are the audio in the order heard (`Ordered`), that without a failed write what was kept is on the
disk and in the open segment and is billed or about to be (`Faithful`), and which pauses a chunk may come
from (`Discreet`). `NamedIsDurable` needs `Shape` and the last conjunct of `Durable`, which bounds the
segments by what was heard; `LosesOneSegment` and `BilledIsKept` are not inductive without the position
of the thread. Each action has a lemma that says what it does (`...Does`) and one that says it keeps
`Local` (`...Local`). What the segments come to is `FlattenSeq`, a recursive function over a sequence;
the facts needed (`FlattenAppend` and its kin) are proved by taking the least place where two unfoldings
differ, since the induction theorems cannot be instantiated.

*Sessions.* A request decides on its writes when it reads and writes them when it commits, so the
invariant is about the requests still open. Each finds a row for what it inserts (`Room`); each knows if
another commit was there first (`Aware`), which gives `SpentOnce`; each that ends a session or an account
has named every token that works but those minted since by requests that overlapped it (`Warned`), which
gives `RevocationReaches`. The proof of a commit goes table by table (what happens to users, tokens,
links and the other slots) and then conjunct by conjunct.

*The machine's link.* While the session lock is free the disk holds the machine's one working token;
while it is held, that token is being spent by the holder's request or is in the answer only the holder
has (`Calls`, `Waits`, `Gets`, `Fresh`). `Linked` holds until one of the cases `excused` records
happens: the account's sessions were ended or a token rotated elsewhere or grew too old, the answer to a
rotation was lost, could not be stored or came after the process had ended, a restore presented what it
had read before it took the lock. `Held`, `Alone` and `Known` hold regardless.

*Stranding.* The property alone is not inductive: when a purge commits, nothing in it says that the
bucket was emptied. `ListedOrLate` says that while a purge is at an organization whatever the bucket
holds of it was listed or is late, `ErasedIsEmpty` that once the row was deleted only the late ones
are left; a recording lands late exactly when some purge has begun, so uploads keep both, and every
other step only takes from the bucket (`Bystanding`).

*Dates.* A date has an ordinal; the lemmas compare the ordinals of two dates of one month, of
neighbouring months and of neighbouring years, and each case of `normalise_deadline` is a sum of
those. That there is no earlier date that fits needs that two dates a week or a month apart have none
of the same weekday or day number between them.

*Turns.* Within a try everybody before the next supplier has failed or was skipped and nobody after was
asked (`Walking`), so no breaker of this router is open. `AskedInTurn` is inductive with that and the types:
a router is new with every try, an answer or a refusal ends the asking, a raise changes only the task, and
once a transcript is stored no raise and no retry of the customer leads back to a supplier.

*Citations.* The merge is a fold over the places of the answer, and a fold over a set is a recursive
function whose existence TLA+ does not give for nothing: `SomeFold` shows that there is one, `GreatestOf`
that its choices are in order, and `MergeKeeps` takes the least number of utterances after which the merged
sequence is not as it should be. As it should be (`Keeps`): every segment runs from the beginning of
one utterance to the end of another with nobody else's in between, the last segment ends with the last
utterance, and every utterance is within one. `Kept` says so of the tables and of the report, and every
answer and every publication keeps it.

*Tickets.* `Types` is not inductive by itself: that a count stays within the requests made needs that a
request is counted once, settles one call of Redis and issues one ticket. `Shares` compares each count
with the requests that have not got so far; `Tickets` says that a ticket which opened a socket was issued
and is no longer stored.

*Allowance.* The count of a key is the length of the run of hits that ends with its last one, hits with
less than a window between each and the next (`Run`), and its expiry lies a window after that hit
(`CountsTheRun`), *whether or not that moment has come*: so time passing changes nothing, and the next hit,
be it a request's, one the client repeats or one executed late, either falls inside and lengthens the run or
starts a new one. A hit is granted only within the first `Limit` of its run (`GrantedFirst`), and a stretch
of a window's length lies within one run (`InvGrants`). An outage forgets the log with the counts.

Model-checked only:

- liveness (`Settles`, `Arrives`, `DueIsErased`, `ViewerLearnsTheEnd`), which is out of the prover's reach;
- `PurgedMeansGone` and `KeptUntilDeadline`, which hold only when transactions do not overlap, an assumption
  no part of the code provides: the run `serial` is where they belong.

## Disagreements with the code's own words

Two are runs TLC must find violated; `PROJECT.json` quotes the lines.

| run | what happens |
|---|---|
| `resurrected` | a task that read `QUEUED` commits over a deletion made meanwhile: `DELETED` is not terminal |
| `unswept` | the audio sweep of two organizations writes what it did for both under the scope of the last: the audit line of the first is refused, everything rolls back, both recordings are gone, both rows still name them, and so it goes every night |

The others were met while modelling. Where a property would run into one, it names the case and leaves it
out, or says only the half that holds, and the hazard's note says so.

Server:

- A dispatch lost after the commit "needs the retry button" (`deps.py:147-149`), which refuses a
  meeting that is not `FAILED` (`services/meetings.py:630`): it stays `QUEUED`. `Settles` leaves that
  fault out.
- Two analyses of one meeting after a redelivery: one publishes and charges, the other fails on the
  unique constraint or in the model and writes `FAILED` over it (`tasks/analysis.py:89`), although "no
  quota is decremented for a failed meeting". `FailedIsFree` and `StraysOnlyWhenStale` say that it takes a
  lost update.
- "A title somebody typed outranks one a model chose" (`extraction.py:213-214`) is decided from the row as
  the task read it: a title typed while the model works is replaced at the commit. No property claims more.
- Deleted and cancelled recordings go "at the next sweep, deadline or not" (`services/meetings.py:690`),
  but the sweep visits only organizations that `organizations_with_expired_audio` lists, those with a
  *published* meeting past its deadline: elsewhere they stay until there is one. The same goes for failed
  ones. No liveness of the sweep is claimed for one organization (`OtherExpired`).
- Meetings stuck in `UPLOADING`, `QUEUED`, `QUOTA_HOLD` or `ANALYZING` are not swept. A sweep whose
  abort meets an upload that is already gone skips that meeting every night. A `start_upload` whose
  transaction is lost after the store opened the upload leaves it open and unnamed.
- A deletion cancelled while the purge is at the organization is answered with success, and the owner
  is told that nothing was erased (`services/organizations.py:374-375`); the purge does not look again
  (`EraseOrganization`), and the recordings, or the organization, go all the same. Parts of an upload still
  open are on no page of the prefix and survive the purge.
- Two refreshes with one token may both rotate it (`auth.py:238`), and a login that overlaps a reset or
  a revocation is not reached by it; `SpentOnce` and `RevocationReaches` allow exactly that.
- "It remembers which ones are failing so that a supplier having a bad hour is skipped", "a worker learns
  which suppliers are down", after "its own five failures" (`router.py:3-6`, `:13-17`): the router lives
  for one call of the task and asks each supplier once, so no breaker ever opens and every meeting asks the failing supplier again. A refusal
  "another supplier would reject identically" is tried again by Celery with the same suppliers.
  AssemblyAI's polling treats a refused poll as a poll not answered yet, until its time is up.
- "10 requests a minute", "the window is fixed rather than sliding" (`ratelimit.py:1`, `:11`): every hit
  pushes the expiry back (`:95`), so it is 10 in a row without a silent minute, and a caller who retries
  stays refused. `NeverOverLimit` is the half that holds, that nobody gets more than the limit.
- A socket ends on `FAILED` and `QUOTA_HOLD`, "nothing is expected to follow these"; a retry leaves
  `FAILED`.
- A fragment is merged into what its speaker said before however long before. The ledger has the
  tokens of the last attempt only, and always `MAX_ATTEMPTS` attempts when they are used up. "The
  31st", said in a month after which comes one of 30 days, gets no date.

Desktop:

- "An upload may be interrupted anywhere and resumed from the disk" (`uploader/src/lib.rs:6-8`), but for
  one place: a `start_upload` whose answer is lost, or whose record the disk refuses to save, leaves the
  meeting `UPLOADING` and the desktop asking to start it, for ever. `Arrives` names it (`Unheard`).
- A `start_upload` that timed out and its retry may both open an upload for one meeting; the server names the
  one that committed last, and the other, with what was sent to it, is "billed until somebody names it"
  (`uploader/src/lib.rs:374-376`). `PartsAreRemembered` names it (`Twin`).
- The id of a declaration is written down only after `start_upload`, so that a refusal in between declares
  the recording again. A `finalize` whose answer is lost leaves a delivered recording that the desktop
  keeps asking about.
- One save of the manifest fails while recording: the vault has counted the segment and the encoder has
  not, the tail is refused as out of order, the closing fails, and the segments stay in `Recording`,
  which nothing sends. So does a recording whose process died (`recover_interrupted` has no caller
  outside the tests).
- `completed` is never taken, so a second recording is refused until the application restarts, after
  it has already been declared.
- Signing out drops the session under the lock and forgets the stored token after it
  (`auth.rs:324-327`): a renewal that runs in between writes it back.
- A restore that waits for the lock presents the token it read before; after another thread's renewal
  that is a reuse and ends the session (`auth.rs:253`).

## What is not modelled, and why

- Roles beyond owner, author, admin, member; the policies of the tables no job writes across tenants.
  `Tenancy` has the policy where it decides something: a session that changes its scope.
- That a supplier's utterances come in order and nobody speaks over himself (`Diarised`) is assumed of the
  suppliers; the code neither sorts nor checks. The second half of `CitesWhatWasHeard` rests on it.
- The contents of transcripts, reports and prompts; the language models' and the suppliers' requests
  and parsing; matching a name to a member (`_match_member`); the tokens in the ledger.
- The two minutes after which a breaker half-opens: a router does not live that long.
- Organizations' settings, profile and export: columns nothing else decides on, and a read.
- Passwords, signatures, audit entries other than those the sweep writes. The in-memory limiter, ticket store and
  object store, which are used when Redis or the bucket is not configured, and by tests.
- Presigned URLs' expiry: a slot that expired is a refused `put`, after which the next attempt asks
  for new ones, as in the model's `Unavailable` and `resume`.
- `QUOTA_HOLD` is never left by any code in the repository (the webhook that would is not written).
- Rollback of `cancel` after its abort, and a store that refuses that abort, are in `MeetingPipeline`
  (`AbandonAbort`) and left out of `RecordingUpload`.
- The vault's encryption; `recover_interrupted`, `orphan_segments`, `purge` and `take_completed`,
  which only tests call; the meters and the published snapshot; the alignment of the two endpoints.
  A pause takes effect at the next poll: audio heard before a resume and still queued when it is
  obeyed is kept, although "it must not reach the disk at all" (`session.rs:40-41`); `PauseKeepsNothing` allows exactly that.
- Email, logging, presenters, schemas, configuration, migrations, infrastructure, the web front end:
  no state of their own, or pure I/O.

## Plan

Done: `MeetingStates`, `MeetingLifecycle` (P), `MeetingPipeline` (P), `RecordingUpload` (P),
`LocalRecording` (P), `Tenancy` (P), `Accounts` and `DesktopAccount` (P), `RateLimit` and `StatusSocket`
(P), `Deadlines` and `Processing` (P). (P): with theorems. Next, in this order:

1. An abstract recording that only grows, which the manifest implements.
2. The algorithms of the audio engine (alignment of the two sides, backoff, WAV sizes) as operators
   against a reference.

Runs stay within a few minutes each: one actor of each kind, two where the question is a race.
