--------------------------- MODULE RecordingUpload ---------------------------
(***************************************************************************)
(* A recording on its way from one laptop to the server: the recorder that *)
(* declares and takes it (src/lib.rs, engine.rs), the vault's manifest and *)
(* the uploader's record on the disk, the queue that retries for ever      *)
(* (queue.rs, uploader/src/lib.rs), and at the other end the endpoints and *)
(* the object store it talks to (services/meetings.py, storage.py).        *)
(*                                                                         *)
(* What is hard is between the two.  A request may be lost, or be carried  *)
(* out after the desktop stopped waiting for it; the process may die at    *)
(* any point and comes back with what is on its disk; and the server       *)
(* answers a request before the request's transaction commits, so two      *)
(* requests of one desktop may overlap and an answer may be taken back.    *)
(***************************************************************************)
EXTENDS Naturals, FiniteSets

CONSTANTS
  Recording,     \* the recordings made on this machine
  None,          \* no recording, no client
  Slot,          \* bound: requests in flight at once
  Parts,         \* how many parts a recording is sent in
  MaxMeetings,   \* bound: meetings the server declares
  MaxUploads,    \* bound: multipart uploads the store opens
  MaxTimeouts,   \* bound: calls the desktop stops waiting for
  MaxCrashes,    \* bound: ends of the desktop's process
  MaxRefusals,   \* bound: calls refused without effect (5xx, store away)
  MaxRollbacks,  \* bound: transactions that fail to commit once answered
  MaxSaves,      \* bound: saves on the desktop's disk that fail
  Breakable,     \* the calls during which a timeout or a crash may come
  Prompt,        \* a transaction commits before the next request is handled
  MayCancel      \* whether the author may cancel the meeting elsewhere

ASSUME UploadAssumption ==
  /\ None \notin Recording \cup {"recorder", "queue"}
  /\ Parts \in Nat \ {0}
  /\ MaxMeetings \in Nat /\ MaxUploads \in Nat
  /\ MaxTimeouts \in Nat /\ MaxCrashes \in Nat
  /\ MaxRefusals \in Nat /\ MaxRollbacks \in Nat /\ MaxSaves \in Nat
  /\ Prompt \in BOOLEAN /\ MayCancel \in BOOLEAN
  /\ Breakable \subseteq {"declare", "start", "resume", "put", "finalize"}

VARIABLES
  manifest,  \* disk: the manifest of each recording
  record,    \* disk: upload.json beside each recording
  recorder,  \* memory: the Recorder and the start_recording under way
  queue,     \* memory: the pass of the upload queue
  call,      \* memory: the call each side of the desktop waits for
  wire,      \* requests sent and not finished
  row,       \* the meetings table
  store,     \* the multipart uploads
  object,    \* the object under each meeting's key
  meetings,  \* meetings declared so far: the last identifier
  uploads,   \* uploads opened so far: the last identifier
  left,      \* the faults that may still happen
  resent     \* parts written again although the store held them

vars == << manifest, record, recorder, queue, call, wire, row, store, object,
           meetings, uploads, left, resent >>

disk    == << manifest, record >>
desktop == << manifest, record, recorder, queue >>
server  == << row, store, object, meetings, uploads, resent >>

Meeting == 1 .. MaxMeetings
Upload  == 1 .. MaxUploads
Part    == 1 .. Parts
Op      == {"declare", "start", "resume", "put", "finalize"}
Client  == {"recorder", "queue"}

Manifest == [state : {"none", "refused", "recording", "uploading", "uploaded"},
             server : {0} \cup Meeting, audio : BOOLEAN]
NoRecord == [meeting |-> 0, upload |-> 0, confirmed |-> {}]
Progress == [meeting : Meeting, upload : Upload, confirmed : SUBSET Part]
Request  == [op : Op, by : Client \cup {None}, rec : Recording,
             meeting : {0} \cup Meeting, upload : {0} \cup Upload,
             parts : SUBSET Part, open : BOOLEAN]
Row      == [status : {"ABSENT", "CREATED", "UPLOADING", "QUEUED", "CANCELLED"},
             rec : Recording \cup {None}, audio : Recording \cup {None},
             upload : {0} \cup Upload]
Content  == [Part -> Recording \cup {None}]
Multipart == [key : {0} \cup Meeting, open : BOOLEAN, parts : Content]

Silence   == [state |-> "none", ok |-> FALSE, id |-> 0]
Waiting   == [state |-> "waiting", ok |-> FALSE, id |-> 0]
NoRequest == [op |-> "free"]
NoRow     == [status |-> "ABSENT", rec |-> None, audio |-> None, upload |-> 0]
Nothing   == [p \in Part |-> None]
Whole(r)  == [p \in Part |-> r]

AtRest == [todo |-> {}, rec |-> None, step |-> "idle", meeting |-> 0]
Off    == [state |-> "idle", rec |-> None, asked |-> None]

Init ==
  /\ manifest = [r \in Recording |-> [state |-> "none", server |-> 0, audio |-> FALSE]]
  /\ record = [r \in Recording |-> NoRecord]
  /\ recorder = Off /\ queue = AtRest
  /\ call = [c \in Client |-> Silence]
  /\ wire = [s \in Slot |-> NoRequest]
  /\ row = [m \in Meeting |-> NoRow]
  /\ store = [u \in Upload |-> [key |-> 0, open |-> FALSE, parts |-> Nothing]]
  /\ object = [m \in Meeting |-> Nothing]
  /\ meetings = 0 /\ uploads = 0
  /\ left = [timeouts |-> MaxTimeouts, crashes |-> MaxCrashes,
             refusals |-> MaxRefusals, rollbacks |-> MaxRollbacks, saves |-> MaxSaves]
  /\ resent = 0

-----------------------------------------------------------------------------
(* The network. *)

Ask(c, op, r, m, u, ps) ==
  \E s \in Slot :
    /\ wire[s] = NoRequest
    /\ wire' = [wire EXCEPT ![s] =
         [op |-> op, by |-> c, rec |-> r, meeting |-> m, upload |-> u,
          parts |-> ps, open |-> FALSE]]
    /\ call' = [call EXCEPT ![c] = Waiting]

\* An answer reaches whoever still waits for it.
Answer(s, ok, id) ==
  call' = IF wire[s].by = None THEN call
          ELSE [call EXCEPT ![wire[s].by] = [state |-> "answered", ok |-> ok, id |-> id]]

Answered(c) == call[c].state = "answered"

Spend(fault) ==
  /\ left[fault] > 0
  /\ left' = [left EXCEPT ![fault] = @ - 1]

\* The desktop's client gives up: to it, the service is unreachable.
TimesOut(s) ==
  /\ wire[s] # NoRequest
  /\ wire[s].by # None /\ wire[s].op \in Breakable
  /\ Spend("timeouts")
  /\ call' = [call EXCEPT ![wire[s].by] = [state |-> "answered", ok |-> FALSE, id |-> 0]]
  /\ wire' = [wire EXCEPT ![s].by = None]
  /\ UNCHANGED << desktop, server >>

\* A request nobody waits for never arrives.
Lost(s) ==
  /\ wire[s] # NoRequest
  /\ wire[s].by = None /\ ~ wire[s].open
  /\ wire' = [wire EXCEPT ![s] = NoRequest]
  /\ UNCHANGED << desktop, server, call, left >>

-----------------------------------------------------------------------------
(* The recorder. *)

\* Recorder::start_with, once devices and vault are open.
StartWith(r, m) ==
  IF recorder.state = "idle"
  THEN /\ manifest' = [manifest EXCEPT ![r] =
            [state |-> "recording", server |-> m, audio |-> FALSE]]
       /\ recorder' = [state |-> "recording", rec |-> r, asked |-> None]
  ELSE /\ manifest' = [manifest EXCEPT ![r].state = "refused"]
       /\ recorder' = [recorder EXCEPT !.asked = None]

\* start_recording: the declaration comes first, under a fresh local id.
Press(r) ==
  /\ recorder.asked = None /\ manifest[r].state = "none"
  /\ recorder' = [recorder EXCEPT !.asked = r]
  /\ Ask("recorder", "declare", r, 0, 0, {})
  /\ UNCHANGED << disk, queue, server, left >>

\* The same with no session, which is a recording made offline.
PressOffline(r) ==
  /\ recorder.asked = None /\ manifest[r].state = "none"
  /\ StartWith(r, 0)
  /\ UNCHANGED << record, queue, call, wire, server, left >>

\* Declared or not, the recording begins.
Announced ==
  /\ Answered("recorder")
  /\ StartWith(recorder.asked, IF call["recorder"].ok THEN call["recorder"].id ELSE 0)
  /\ call' = [call EXCEPT !["recorder"] = Silence]
  /\ UNCHANGED << record, queue, wire, server, left >>

\* The engine's thread is done: the recording is owed.  It may hold no audio.
RecordingEnds ==
  /\ recorder.state = "recording"
  /\ \E audio \in BOOLEAN :
       manifest' = [manifest EXCEPT ![recorder.rec].state = "uploading",
                                    ![recorder.rec].audio = audio]
  /\ recorder' = [recorder EXCEPT !.state = "completed"]
  /\ UNCHANGED << record, queue, call, wire, server, left >>

\* The file cannot be closed: reap() collects the error and the engine goes.
RecordingFails ==
  /\ recorder.state = "recording"
  /\ recorder' = [recorder EXCEPT !.state = "idle", !.rec = None]
  /\ UNCHANGED << disk, queue, call, wire, server, left >>

-----------------------------------------------------------------------------
(* The upload queue. *)

Owed == {r \in Recording : manifest[r].state = "uploading"}

Sweep ==
  /\ queue = AtRest /\ Owed # {}
  /\ queue' = [queue EXCEPT !.todo = Owed]
  /\ UNCHANGED << disk, recorder, call, wire, server, left >>

\* Uploader::identify: the record wins over the manifest, and a recording
\* that neither names is declared now.
Attempt(r) ==
  /\ queue.step = "idle" /\ r \in queue.todo /\ manifest[r].audio
  /\ LET m == IF record[r] # NoRecord THEN record[r].meeting ELSE manifest[r].server
         op == IF record[r] # NoRecord THEN "resume"
               ELSE IF m # 0 THEN "start" ELSE "declare"
     IN /\ Ask("queue", op, r, m, 0, {})
        /\ queue' = [queue EXCEPT !.rec = r, !.step = op, !.meeting = m]
  /\ UNCHANGED << disk, recorder, server, left >>

\* Nothing to send, or nothing this machine can read: UploadError::Empty, Vault.
Skip(r) ==
  /\ queue.step = "idle" /\ r \in queue.todo /\ ~ manifest[r].audio
  /\ queue' = [queue EXCEPT !.todo = @ \ {r}]
  /\ UNCHANGED << disk, recorder, call, wire, server, left >>

Replied(op) == queue.step = op /\ Answered("queue") /\ call["queue"].ok

\* The loop over the ticket's slots: the first part the record does not hold,
\* or, when it holds them all, the end.
Continue(r, progress) ==
  LET missing == Part \ progress.confirmed IN
  \/ /\ missing = {}
     /\ Ask("queue", "finalize", r, progress.meeting, progress.upload, progress.confirmed)
     /\ queue' = [queue EXCEPT !.step = "finalize"]
  \/ \E p \in missing :
       /\ \A q \in missing : p <= q
       /\ Ask("queue", "put", r, progress.meeting, progress.upload, {p})
       /\ queue' = [queue EXCEPT !.step = "put"]

\* The record is saved, then the next call goes out.
Save(r, progress) ==
  /\ record' = [record EXCEPT ![r] = progress]
  /\ Continue(r, progress)
  /\ UNCHANGED << manifest, recorder, server, left >>

Declared ==
  /\ Replied("declare")
  /\ Ask("queue", "start", queue.rec, call["queue"].id, 0, {})
  /\ queue' = [queue EXCEPT !.step = "start", !.meeting = call["queue"].id]
  /\ UNCHANGED << disk, recorder, server, left >>

Started ==
  /\ Replied("start")
  /\ Save(queue.rec, [meeting |-> queue.meeting, upload |-> call["queue"].id,
                      confirmed |-> {}])

\* Mutant: the part list survives the upload it was recorded for.
ResumedKeepsParts ==
  /\ Replied("resume")
  /\ Save(queue.rec, [record[queue.rec] EXCEPT !.upload = call["queue"].id])

\* A ticket for another upload: the confirmed parts belong to nothing.
Resumed ==
  /\ Replied("resume")
  /\ LET known == record[queue.rec]
     IN Save(queue.rec, IF known.upload = call["queue"].id THEN known
                        ELSE [known EXCEPT !.upload = call["queue"].id, !.confirmed = {}])

\* Mutant: the record is kept for the end of the attempt.
PartAcceptedUnsaved ==
  /\ Replied("put")
  /\ Save(queue.rec, record[queue.rec])

PartAccepted ==
  /\ Replied("put")
  /\ Save(queue.rec, [record[queue.rec] EXCEPT !.confirmed = @ \cup {call["queue"].id}])

\* Mutant: upload.json goes before the manifest says Uploaded.
FinalizedForgets ==
  /\ Replied("finalize")
  /\ record' = [record EXCEPT ![queue.rec] = NoRecord]
  /\ call' = [call EXCEPT !["queue"] = Silence]
  /\ queue' = [queue EXCEPT !.step = "forget"]
  /\ UNCHANGED << manifest, recorder, wire, server, left >>

Finalized ==
  /\ Replied("finalize")
  /\ manifest' = [manifest EXCEPT ![queue.rec].state = "uploaded"]
  /\ call' = [call EXCEPT !["queue"] = Silence]
  /\ queue' = [queue EXCEPT !.step = "forget"]
  /\ UNCHANGED << record, recorder, wire, server, left >>

NextJob == [AtRest EXCEPT !.todo = queue.todo \ {queue.rec}]

Forget ==
  /\ queue.step = "forget"
  /\ record' = [record EXCEPT ![queue.rec] = NoRecord]
  /\ queue' = NextJob
  /\ UNCHANGED << manifest, recorder, call, wire, server, left >>

\* Mutant: a refused resume is taken for a meeting the server already has.
AttemptFailsUploaded ==
  /\ Answered("queue") /\ ~ call["queue"].ok
  /\ manifest' = IF queue.step = "resume"
                 THEN [manifest EXCEPT ![queue.rec].state = "uploaded"] ELSE manifest
  /\ call' = [call EXCEPT !["queue"] = Silence]
  /\ queue' = NextJob
  /\ UNCHANGED << record, recorder, wire, server, left >>

\* Mutant: a failed attempt starts afresh the next time.
AttemptFailsForgets ==
  /\ Answered("queue") /\ ~ call["queue"].ok
  /\ record' = [record EXCEPT ![queue.rec] = NoRecord]
  /\ call' = [call EXCEPT !["queue"] = Silence]
  /\ queue' = NextJob
  /\ UNCHANGED << manifest, recorder, wire, server, left >>

\* Mutant: a recording whose attempt fails is given up.
AttemptFailsGivesUp ==
  /\ Answered("queue") /\ ~ call["queue"].ok
  /\ manifest' = [manifest EXCEPT ![queue.rec].state = "refused"]
  /\ call' = [call EXCEPT !["queue"] = Silence]
  /\ queue' = NextJob
  /\ UNCHANGED << record, recorder, wire, server, left >>

\* Any error ends the attempt; the recording is tried again at a later pass.
AttemptFails ==
  /\ Answered("queue") /\ ~ call["queue"].ok
  /\ call' = [call EXCEPT !["queue"] = Silence]
  /\ queue' = NextJob
  /\ UNCHANGED << disk, recorder, wire, server, left >>

\* A full disk, or a file an antivirus holds: what the answer was to write is
\* not written, the old file stands, and the attempt ends.  A resume of the
\* upload the record names writes nothing.
SaveFails ==
  /\ queue.step \in {"start", "resume", "put", "finalize"}
  /\ Answered("queue") /\ call["queue"].ok
  /\ queue.step = "resume" => call["queue"].id # record[queue.rec].upload
  /\ Spend("saves")
  /\ call' = [call EXCEPT !["queue"] = Silence]
  /\ queue' = NextJob
  /\ UNCHANGED << disk, recorder, wire, server >>

\* The process is gone, and started again: only the disk is left.
Crash ==
  /\ queue.step \in Op => queue.step \in Breakable
  /\ recorder.asked # None => "declare" \in Breakable
  /\ Spend("crashes")
  /\ recorder' = Off /\ queue' = AtRest
  /\ call' = [c \in Client |-> Silence]
  /\ wire' = [s \in Slot |-> IF wire[s] = NoRequest THEN NoRequest
                             ELSE [wire[s] EXCEPT !.by = None]]
  /\ UNCHANGED << disk, server >>

-----------------------------------------------------------------------------
(* The server: a request is handled, answered, and then committed. *)

Arrived(s, op) ==
  /\ wire[s] # NoRequest
  /\ wire[s].op = op /\ ~ wire[s].open
  /\ Prompt => \A t \in Slot : wire[t] # NoRequest => ~ wire[t].open

Done(s) == wire' = [wire EXCEPT ![s] = NoRequest]

\* Handled, with writes that the commit will make visible.
Pending(s, m, u) ==
  wire' = [wire EXCEPT ![s].meeting = m, ![s].upload = u, ![s].by = None, ![s].open = TRUE]

HandleDeclare(s) ==
  /\ Arrived(s, "declare") /\ meetings < MaxMeetings
  /\ meetings' = meetings + 1
  /\ Answer(s, TRUE, meetings')
  /\ Pending(s, meetings', 0)
  /\ UNCHANGED << desktop, row, store, object, uploads, resent, left >>

HandleStart(s) ==
  /\ Arrived(s, "start") /\ uploads < MaxUploads
  /\ row[wire[s].meeting].status = "CREATED"
  /\ uploads' = uploads + 1
  /\ store' = [store EXCEPT ![uploads'] =
                 [key |-> wire[s].meeting, open |-> TRUE, parts |-> Nothing]]
  /\ Answer(s, TRUE, uploads')
  /\ Pending(s, wire[s].meeting, uploads')
  /\ UNCHANGED << desktop, row, object, meetings, resent, left >>

\* Mutant: an upload that was closed is signed again.
HandleResumeAnyState(s) ==
  LET m == wire[s].meeting IN
  /\ Arrived(s, "resume")
  /\ Answer(s, TRUE, row[m].upload)
  /\ Done(s)
  /\ UNCHANGED << desktop, server, left >>

HandleResume(s) ==
  LET m == wire[s].meeting IN
  /\ Arrived(s, "resume")
  /\ row[m].status = "UPLOADING" /\ row[m].upload # 0
  /\ Answer(s, TRUE, row[m].upload)
  /\ Done(s)
  /\ UNCHANGED << desktop, server, left >>

\* The store itself: a part written to an open upload.
HandlePut(s) ==
  /\ Arrived(s, "put")
  /\ store[wire[s].upload].open
  /\ \E p \in wire[s].parts :
       /\ store' = [store EXCEPT ![wire[s].upload].parts[p] = wire[s].rec]
       /\ resent' = IF store[wire[s].upload].parts[p] = None THEN resent ELSE resent + 1
       /\ Answer(s, TRUE, p)
  /\ Done(s)
  /\ UNCHANGED << desktop, row, object, meetings, uploads, left >>

\* Completed or aborted, an upload keeps no part.
Closed(u) == [store EXCEPT ![u].open = FALSE, ![u].parts = Nothing]

\* Mutant: an upload the store has closed counts as completed.
CompletesOrClosed(s) ==
  LET upload == store[wire[s].upload] IN
  ~ upload.open \/ \A p \in wire[s].parts : upload.parts[p] # None

Completes(s) ==
  LET upload == store[wire[s].upload] IN
  /\ upload.open /\ upload.key = wire[s].meeting
  /\ \A p \in wire[s].parts : upload.parts[p] # None

\* Too few parts: the object is deleted and the request refused.
Mismatch(s) == wire[s].parts # Part

\* complete_multipart takes effect at once, whatever becomes of the request.
Assembled(s) ==
  LET m == wire[s].meeting  u == wire[s].upload IN
  /\ store' = Closed(u)
  /\ object' = [object EXCEPT ![m] = IF Mismatch(s) THEN Nothing ELSE store[u].parts]

HandleFinalize(s) ==
  LET m == wire[s].meeting IN
  /\ Arrived(s, "finalize")
  /\ row[m].audio # None /\ Completes(s) /\ ~ Mismatch(s)
  /\ row[m].status = "UPLOADING"
  /\ Assembled(s)
  /\ Answer(s, TRUE, m)
  /\ Pending(s, m, wire[s].upload)
  /\ UNCHANGED << desktop, row, meetings, uploads, resent, left >>

\* Refused only after the store has been asked to complete: the transition
\* table is consulted last.
RefuseFinalize(s) ==
  LET m == wire[s].meeting IN
  /\ Arrived(s, "finalize")
  /\ row[m].audio # None /\ Completes(s)
  /\ Mismatch(s) \/ row[m].status # "UPLOADING"
  /\ Assembled(s)
  /\ Answer(s, FALSE, 0)
  /\ Done(s)
  /\ UNCHANGED << desktop, row, meetings, uploads, resent, left >>

\* Refusals that change nothing: ILLEGAL_TRANSITION, UPLOAD_NOT_STARTED,
\* UPLOAD_INCOMPLETE, NOT_FOUND, or the store's NoSuchUpload.
Unacceptable(s) ==
  LET m == wire[s].meeting IN
  \/ Arrived(s, "start") /\ row[m].status # "CREATED"
  \/ Arrived(s, "resume") /\ (row[m].status # "UPLOADING" \/ row[m].upload = 0)
  \/ Arrived(s, "put") /\ ~ store[wire[s].upload].open
  \/ Arrived(s, "finalize") /\ (row[m].audio = None \/ ~ Completes(s))

Refuse(s) ==
  /\ Unacceptable(s)
  /\ Answer(s, FALSE, 0)
  /\ Done(s)
  /\ UNCHANGED << desktop, server, left >>

\* The server or the store is away: the request fails and is rolled back.
Unavailable(s) ==
  /\ wire[s] # NoRequest
  /\ ~ wire[s].open
  /\ Spend("refusals")
  /\ Answer(s, FALSE, 0)
  /\ Done(s)
  /\ UNCHANGED << desktop, server >>

Written(s) ==
  LET q == wire[s]  m == q.meeting IN
  CASE q.op = "declare"  -> [NoRow EXCEPT !.status = "CREATED", !.rec = q.rec]
    [] q.op = "start"    -> [row[m] EXCEPT !.status = "UPLOADING", !.audio = q.rec,
                                           !.upload = q.upload]
    [] q.op = "finalize" -> [row[m] EXCEPT !.status = "QUEUED", !.upload = 0]

Commit(s) ==
  /\ wire[s] # NoRequest /\ wire[s].open
  /\ row' = [row EXCEPT ![wire[s].meeting] = Written(s)]
  /\ Done(s)
  /\ UNCHANGED << desktop, call, store, object, meetings, uploads, resent, left >>

\* The commit fails, after the answer and after what the store was told.
Rollback(s) ==
  /\ wire[s] # NoRequest /\ wire[s].open
  /\ Spend("rollbacks")
  /\ Done(s)
  /\ UNCHANGED << desktop, call, server >>

\* The author abandons the meeting from somewhere else; the open upload is
\* aborted if the store still knows it.
Cancel(m) ==
  LET u == row[m].upload IN
  /\ MayCancel
  /\ row[m].status \in {"CREATED", "UPLOADING"}
  /\ IF u # 0 /\ store[u].open
     THEN /\ store' = Closed(u)
          /\ row' = [row EXCEPT ![m].status = "CANCELLED", ![m].upload = 0]
     ELSE /\ row' = [row EXCEPT ![m].status = "CANCELLED"]
          /\ UNCHANGED store
  /\ UNCHANGED << desktop, call, wire, object, meetings, uploads, resent, left >>

-----------------------------------------------------------------------------
RecorderStep ==
  \/ \E r \in Recording : Press(r) \/ PressOffline(r)
  \/ Announced \/ RecordingEnds \/ RecordingFails

QueueStep ==
  \/ Sweep
  \/ \E r \in Recording : Attempt(r) \/ Skip(r)
  \/ Declared \/ Started \/ Resumed \/ PartAccepted
  \/ Finalized \/ Forget \/ AttemptFails

Handle(s) ==
  \/ HandleDeclare(s) \/ HandleStart(s) \/ HandleResume(s) \/ HandlePut(s)
  \/ HandleFinalize(s) \/ RefuseFinalize(s) \/ Refuse(s)

ServerStep ==
  \/ \E s \in Slot : Handle(s) \/ Commit(s)
  \/ \E m \in Meeting : Cancel(m)

FaultStep ==
  \/ \E s \in Slot : TimesOut(s) \/ Lost(s) \/ Unavailable(s) \/ Rollback(s)
  \/ SaveFails \/ Crash

Next == RecorderStep \/ QueueStep \/ ServerStep \/ FaultStep

Spec == Init /\ [][Next]_vars

\* The queue's loop never stops, and the server handles what arrives.
FairSpec ==
  /\ Spec
  /\ WF_vars(QueueStep)
  /\ WF_vars(Announced)
  /\ \A s \in Slot : WF_vars(Handle(s)) /\ WF_vars(Commit(s))
-----------------------------------------------------------------------------
(* Properties. *)

Queued(r) == {m \in Meeting : row[m].status = "QUEUED" /\ row[m].rec = r}

\* Every value stays in the range the code can give it.
TypeOK ==
  /\ manifest \in [Recording -> Manifest]
  /\ record \in [Recording -> Progress \cup {NoRecord}]
  /\ recorder \in [state : {"idle", "recording", "completed"},
                   rec : Recording \cup {None}, asked : Recording \cup {None}]
  /\ queue \in [todo : SUBSET Recording, rec : Recording \cup {None},
                step : Op \cup {"idle", "forget"}, meeting : {0} \cup Meeting]
  /\ call \in [Client -> [state : {"none", "waiting", "answered"}, ok : BOOLEAN, id : Nat]]
  /\ wire \in [Slot -> Request \cup {NoRequest}]
  /\ row \in [Meeting -> Row]
  /\ store \in [Upload -> Multipart]
  /\ object \in [Meeting -> Content]
  /\ meetings \in 0 .. MaxMeetings /\ uploads \in 0 .. MaxUploads
  /\ left \in [{"timeouts", "crashes", "refusals", "rollbacks", "saves"} -> Nat]
  /\ resent \in Nat

\* A meeting handed to transcription has the whole of its own recording under
\* its key: a truncated or foreign object would become a confident,
\* incomplete report (services/meetings.py, finalize).
WholeObject ==
  \A r \in Recording : \A m \in Queued(r) : object[m] = Whole(r)

\* One recording is transcribed and billed once: however often it is declared
\* again, only one of its meetings is ever accepted (uploader/src/lib.rs).
DeliveredOnce ==
  \A r \in Recording : Cardinality(Queued(r)) <= 1

\* What upload.json says the store holds, the upload it names does hold, as
\* long as nobody completed or aborted it: a
\* part list carried over to another upload would be resumed from bytes that
\* were never sent (uploader/src/lib.rs, progress.rs).
ConfirmedIsStored ==
  \A r \in Recording : \A p \in record[r].confirmed :
    LET upload == store[record[r].upload] IN upload.open => upload.parts[p] = r

\* A recording marked Uploaded, which ADR-06 lets the machine delete, is whole
\* in the store (uploader/src/lib.rs, the end of attempt).
UploadedIsStored ==
  \A r \in Recording : manifest[r].state = "uploaded" =>
    \E m \in Meeting : object[m] = Whole(r)

\* Another upload was opened for the same meeting: a start_upload given up by
\* the desktop overlapped its retry, and both were granted.
Twin(u) ==
  \E v \in Upload : v # u /\ store[u].key # 0 /\ store[v].key = store[u].key

\* Parts at the store always belong to an upload this machine remembers:
\* otherwise they are billed until somebody names them, and nobody would
\* (uploader/src/lib.rs, "Written before the first part goes out").  Of two
\* uploads of one meeting the machine remembers the one the server names.
PartsAreRemembered ==
  \A u \in Upload : store[u].open /\ store[u].parts # Nothing =>
    Twin(u) \/ \E r \in Recording : record[r].upload = u

\* Nothing already accepted is sent twice, except the one part that each call
\* cut off, each end of the process and each failed save leaves in doubt
\* (uploader/src/lib.rs, attempt).  With two uploads of one meeting the
\* server may name them in turn, and the parts of both are sent again.
ResendsBounded ==
  (\E u \in Upload : Twin(u)) \/
  resent <= (MaxTimeouts - left.timeouts) + (MaxCrashes - left.crashes)
            + (MaxSaves - left.saves)

\* The server has opened the upload of a recording, and the machine neither
\* wrote down which one nor is about to: start_upload is refused from then on.
Unheard(r) ==
  LET m == manifest[r].server IN
  /\ record[r] = NoRecord /\ m # 0 /\ row[m].status = "UPLOADING"
  /\ ~ (queue.rec = r /\ Replied("start"))

\* A finished recording reaches the server, wherever its upload was
\* interrupted (uploader/src/lib.rs, "may be interrupted anywhere and resumed
\* from the disk"), unless it was in the one place the disk knows nothing of:
\* between the grant of start_upload and the save of the record.
Arrives ==
  \A r \in Recording :
    manifest[r].state = "uploading" /\ manifest[r].audio ~> Queued(r) # {} \/ Unheard(r)

=============================================================================
