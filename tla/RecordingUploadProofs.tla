------------------------ MODULE RecordingUploadProofs ------------------------
(***************************************************************************)
(* Theorems about RecordingUpload for every number of recordings, parts,   *)
(* meetings, uploads and faults: what the server accepts is whole, and     *)
(* accepted once; what the disk says is stored is stored.                  *)
(*                                                                         *)
(* The inductive invariant has two halves.  TypeInv gives the shape of a   *)
(* request, a wait and a pass of the queue.  Agreed says that the disk,    *)
(* the memory, the requests under way and the server's tables tell one     *)
(* story, and needs two things no variable holds once a meeting or a       *)
(* record is gone: for whom a meeting was declared, and under which        *)
(* meeting a recording began to be sent.  UploadInv quantifies both away:  *)
(* at every state some such history explains what is there.                *)
(*                                                                         *)
(* Two more invariants stand on it.  Traced: an upload that has parts, or  *)
(* will get one, is named by a record, or closed, or was given up for      *)
(* another upload of its meeting.  Counted, as long as no meeting has two  *)
(* uploads: the parts sent again and the parts that still may be were paid *)
(* for by a timeout, a crash or a failed save each.                        *)
(***************************************************************************)
EXTENDS RecordingUpload, FiniteSetTheorems, TLAPS

-----------------------------------------------------------------------------
(* What a request, a wait and a pass of the queue look like.               *)

Sent(s) == wire[s] # NoRequest

Requests ==
  \A s \in Slot : Sent(s) =>
    /\ wire[s].op # "declare" => wire[s].meeting # 0
    /\ wire[s].op \in {"put", "finalize"} => wire[s].upload # 0
    /\ wire[s].op = "finalize" => wire[s].parts = Part
    /\ wire[s].open => /\ wire[s].op \in {"declare", "start", "finalize"}
                       /\ wire[s].meeting # 0 /\ wire[s].by = None
    /\ wire[s].open /\ wire[s].op = "start" => wire[s].upload # 0

AskedOnce ==
  \A s, t \in Slot : Sent(s) /\ Sent(t) /\ wire[s].by = wire[t].by /\ wire[s].by # None
    => s = t

Waits ==
  \A s \in Slot : Sent(s) /\ wire[s].by # None =>
    /\ call[wire[s].by].state = "waiting"
    /\ wire[s].by = "queue" => wire[s].op = queue.step /\ wire[s].rec = queue.rec
    /\ wire[s].by = "recorder" => wire[s].op = "declare" /\ wire[s].rec = recorder.asked

Passes ==
  /\ queue.step \in Op => call["queue"].state # "none"
  /\ queue.step \notin Op => call["queue"].state = "none"
  /\ queue.step # "idle" => queue.rec \in queue.todo
  /\ queue.step \in {"declare", "start"} => record[queue.rec] = NoRecord
  /\ queue.step \in {"resume", "put", "finalize"} => record[queue.rec] # NoRecord
  /\ queue.step = "start" => queue.meeting # 0
  /\ queue.step = "forget" => manifest[queue.rec].state = "uploaded"
  /\ \A r \in queue.todo :
       manifest[r].state = "uploading" \/ (queue.step = "forget" /\ r = queue.rec)

Records ==
  /\ recorder.asked = None <=> call["recorder"].state = "none"
  /\ recorder.asked # None => manifest[recorder.asked].state = "none"
  /\ recorder.state = "recording" => /\ recorder.rec # None
                                     /\ manifest[recorder.rec].state = "recording"

Accepted(c) == call[c].state = "answered" /\ call[c].ok
Told ==
  /\ Accepted("recorder") => call["recorder"].id \in Meeting
  /\ Accepted("queue") /\ queue.step = "declare" => call["queue"].id \in Meeting
  /\ Accepted("queue") /\ queue.step \in {"start", "resume"} => call["queue"].id \in Upload
  /\ Accepted("queue") /\ queue.step = "put" => call["queue"].id \in Part

Shape == Requests /\ AskedOnce /\ Waits /\ Passes /\ Records /\ Told
TypeInv == TypeOK /\ Shape

-----------------------------------------------------------------------------
(* The two histories the argument needs and the program does not keep.     *)
(* owner: the recording each meeting was declared for, None before it is.  *)
(* of: the meeting a recording began to be sent under, 0 before it is.     *)

Owner == [Meeting -> Recording \cup {None}]
Delivery == [Recording -> {0} \cup Meeting]

\* A request names a meeting of its own recording and an upload of that
\* meeting; the end is asked for under the meeting the recording is sent to.
Carried(owner, of, s) ==
  LET q == wire[s] IN
  /\ q.meeting # 0 => owner[q.meeting] = q.rec
  /\ q.upload # 0 => q.meeting # 0 /\ store[q.upload].key = q.meeting
  /\ q.op = "finalize" => of[q.rec] = q.meeting
  /\ q.open /\ q.op = "finalize" => object[q.meeting] = Whole(q.rec)
  /\ q.open /\ q.op # "declare" => row[q.meeting].status # "ABSENT"
  /\ q.by = "queue" /\ q.op = "start" => q.meeting = queue.meeting
  /\ q.by = "queue" /\ q.op = "resume" => q.meeting = record[q.rec].meeting
  /\ q.by = "queue" /\ q.op = "put" => q.upload = record[q.rec].upload

InFlight(owner, of) == \A s \in Slot : Sent(s) => Carried(owner, of, s)

\* What the disk says of a recording agrees with the server's side.
Remembered(owner, of, r) ==
  /\ manifest[r].server # 0 => owner[manifest[r].server] = r
  /\ record[r] # NoRecord =>
       /\ owner[record[r].meeting] = r
       /\ store[record[r].upload].key = record[r].meeting
       /\ of[r] = record[r].meeting
  /\ record[r] = NoRecord /\ of[r] # 0 => manifest[r].state = "uploaded"
  /\ \A p \in record[r].confirmed :
       store[record[r].upload].open => store[record[r].upload].parts[p] = r
  /\ manifest[r].state = "uploaded" => \E m \in Meeting : object[m] = Whole(r)

OnDisk(owner, of) == \A r \in Recording : Remembered(owner, of, r)

\* What an answer to the queue lets it conclude.
Concluded(owner) ==
  LET id == call["queue"].id  r == queue.rec IN
  /\ queue.step = "declare" => owner[id] = r
  /\ queue.step = "start" => store[id].key = queue.meeting
  /\ queue.step = "resume" => store[id].key = record[r].meeting
  /\ queue.step = "put" /\ store[record[r].upload].open => store[record[r].upload].parts[id] = r
  /\ queue.step = "finalize" => \E m \in Meeting : object[m] = Whole(r)

InMemory(owner) ==
  /\ queue.meeting # 0 => queue.rec \in Recording /\ owner[queue.meeting] = queue.rec
  /\ Accepted("recorder") => owner[call["recorder"].id] = recorder.asked
  /\ Accepted("queue") => Concluded(owner)

Listed(owner, of, m) ==
  /\ m > meetings => owner[m] = None
  /\ row[m].status # "ABSENT" => row[m].rec = owner[m] /\ owner[m] # None
  /\ row[m].upload # 0 => store[row[m].upload].key = m
  /\ row[m].status = "QUEUED" => object[m] = Whole(owner[m]) /\ of[owner[m]] = m
  /\ object[m] # Nothing => object[m] = Whole(owner[m]) /\ owner[m] # None

\* An upload holds parts of the recording its meeting was declared for.
Filled(owner, u) ==
  /\ u > uploads => store[u].key = 0
  /\ \A p \in Part : store[u].parts[p] # None =>
       store[u].key # 0 /\ store[u].parts[p] = owner[store[u].key]

OnServer(owner, of) ==
  /\ \A m \in Meeting : Listed(owner, of, m)
  /\ \A u \in Upload : Filled(owner, u)

Agreed(owner, of) ==
  InFlight(owner, of) /\ OnDisk(owner, of) /\ InMemory(owner) /\ OnServer(owner, of)

UploadInv == TypeInv /\ \E owner \in Owner, of \in Delivery : Agreed(owner, of)

-----------------------------------------------------------------------------
(* Typing.                                                                 *)

Call == [state : {"none", "waiting", "answered"}, ok : BOOLEAN, id : Nat]
Pass == [todo : SUBSET Recording, rec : Recording \cup {None},
         step : Op \cup {"idle", "forget"}, meeting : {0} \cup Meeting]

\* A function stays one when a value of its range replaces one.
LEMMA Updated ==
  ASSUME NEW A, NEW B, NEW f \in [A -> B], NEW a, NEW b \in B
  PROVE  [f EXCEPT ![a] = b] \in [A -> B]
  OBVIOUS

\* The operators the actions are built from keep the types.
LEMMA AskTyped ==
  ASSUME TypeOK, NEW c \in Client, NEW op \in Op, NEW r \in Recording,
         NEW m \in {0} \cup Meeting, NEW u \in {0} \cup Upload, NEW ps \in SUBSET Part,
         Ask(c, op, r, m, u, ps)
  PROVE  /\ wire' \in [Slot -> Request \cup {NoRequest}]
         /\ call' \in [Client -> Call]
<1>1. Waiting \in Call
  BY DEF Waiting, Call
<1>2. [op |-> op, by |-> c, rec |-> r, meeting |-> m, upload |-> u, parts |-> ps,
       open |-> FALSE] \in Request
  BY DEF Request
<1> QED
  BY <1>1, <1>2 DEF Ask, TypeOK, Call

LEMMA AnswerTyped ==
  ASSUME TypeOK, NEW s \in Slot, Sent(s), NEW ok \in BOOLEAN, NEW id \in Nat,
         Answer(s, ok, id)
  PROVE  call' \in [Client -> Call]
<1>1. [state |-> "answered", ok |-> ok, id |-> id] \in Call
  BY DEF Call
<1> QED
  BY <1>1 DEF Answer, TypeOK, Call, Sent, Request

LEMMA DoneTyped ==
  ASSUME TypeOK, NEW s \in Slot, Done(s)
  PROVE  wire' \in [Slot -> Request \cup {NoRequest}]
  BY DEF TypeOK, Done

LEMMA PendingTyped ==
  ASSUME TypeOK, NEW s \in Slot, Sent(s), NEW m \in {0} \cup Meeting,
         NEW u \in {0} \cup Upload, Pending(s, m, u)
  PROVE  wire' \in [Slot -> Request \cup {NoRequest}]
<1>1. wire[s] \in Request
  BY DEF TypeOK, Sent
<1>2. [wire[s] EXCEPT !.meeting = m, !.upload = u, !.by = None, !.open = TRUE] \in Request
  BY <1>1 DEF Request
<1>3. wire' = [wire EXCEPT ![s] =
                 [wire[s] EXCEPT !.meeting = m, !.upload = u, !.by = None, !.open = TRUE]]
  BY DEF Pending, TypeOK
<1> QED
  BY <1>2, <1>3 DEF TypeOK

LEMMA SpendTyped ==
  ASSUME TypeOK, NEW f \in {"timeouts", "crashes", "refusals", "rollbacks", "saves"}, Spend(f)
  PROVE  left' \in [{"timeouts", "crashes", "refusals", "rollbacks", "saves"} -> Nat]
  BY DEF TypeOK, Spend

LEMMA StartWithTyped ==
  ASSUME TypeOK, NEW r \in Recording, NEW m \in {0} \cup Meeting, StartWith(r, m)
  PROVE  /\ manifest' \in [Recording -> Manifest]
         /\ recorder' \in [state : {"idle", "recording", "completed"},
                           rec : Recording \cup {None}, asked : Recording \cup {None}]
<1>1. CASE recorder.state = "idle"
  <2>1. [state |-> "recording", server |-> m, audio |-> FALSE] \in Manifest
    BY DEF Manifest
  <2>2. /\ manifest' = [manifest EXCEPT ![r] =
                          [state |-> "recording", server |-> m, audio |-> FALSE]]
        /\ recorder' = [state |-> "recording", rec |-> r, asked |-> None]
    BY <1>1 DEF StartWith
  <2>3. manifest' \in [Recording -> Manifest]
    BY <2>1, <2>2, Updated DEF TypeOK
  <2> QED
    BY <2>2, <2>3
<1>2. CASE recorder.state # "idle"
  <2>1. \A x \in Manifest : [x EXCEPT !.state = "refused"] \in Manifest
    BY DEF Manifest
  <2>2. /\ recorder' = [recorder EXCEPT !.asked = None]
        /\ manifest' = [manifest EXCEPT ![r].state = "refused"]
    BY <1>2 DEF StartWith
  <2>3. manifest' = [manifest EXCEPT ![r] = [manifest[r] EXCEPT !.state = "refused"]]
    BY <2>2 DEF TypeOK
  <2>4. [manifest[r] EXCEPT !.state = "refused"] \in Manifest
    BY <2>1 DEF TypeOK
  <2>5. manifest' \in [Recording -> Manifest]
    BY <2>3, <2>4, Updated DEF TypeOK
  <2> QED
    BY <2>2, <2>5 DEF TypeOK
<1> QED
  BY <1>1, <1>2

LEMMA ContinueTyped ==
  ASSUME TypeOK, NEW r \in Recording, NEW progress \in Progress, Continue(r, progress)
  PROVE  /\ wire' \in [Slot -> Request \cup {NoRequest}]
         /\ call' \in [Client -> Call]
         /\ queue' \in Pass
<1>1. /\ progress.meeting \in {0} \cup Meeting /\ progress.upload \in {0} \cup Upload
      /\ progress.confirmed \in SUBSET Part
  BY DEF Progress
<1>2. "queue" \in Client /\ "put" \in Op /\ "finalize" \in Op
  BY DEF Client, Op
<1>3. CASE /\ Ask("queue", "finalize", r, progress.meeting, progress.upload, progress.confirmed)
           /\ queue' = [queue EXCEPT !.step = "finalize"]
  BY <1>1, <1>2, <1>3, AskTyped DEF Pass, TypeOK
<1>4. CASE \E p \in Part :
             /\ Ask("queue", "put", r, progress.meeting, progress.upload, {p})
             /\ queue' = [queue EXCEPT !.step = "put"]
  <2> PICK p \in Part : /\ Ask("queue", "put", r, progress.meeting, progress.upload, {p})
                        /\ queue' = [queue EXCEPT !.step = "put"]
    BY <1>4
  <2>1. {p} \in SUBSET Part
    OBVIOUS
  <2> QED
    BY <1>1, <1>2, <2>1, AskTyped DEF Pass, TypeOK
<1> QED
  BY <1>3, <1>4 DEF Continue

LEMMA ClosedTyped ==
  ASSUME TypeOK, NEW u \in Upload
  PROVE  Closed(u) \in [Upload -> Multipart]
<1>1. Nothing \in Content
  BY DEF Nothing, Content
<1>2. \A x \in Multipart : [x EXCEPT !.open = FALSE, !.parts = Nothing] \in Multipart
  BY <1>1 DEF Multipart
<1>3. Closed(u) = [store EXCEPT ![u] = [store[u] EXCEPT !.open = FALSE, !.parts = Nothing]]
  BY DEF Closed, TypeOK
<1>4. [store[u] EXCEPT !.open = FALSE, !.parts = Nothing] \in Multipart
  BY <1>2 DEF TypeOK
<1> QED
  BY <1>3, <1>4, Updated DEF TypeOK

\* No step leaves the ranges.
LEMMA TypeStep ==
  ASSUME TypeInv, [Next]_vars
  PROVE  TypeOK'
<1> USE DEF TypeInv
<1>1. ASSUME NEW r \in Recording, Press(r) PROVE TypeOK'
  <2>1. recorder' = [recorder EXCEPT !.asked = r]
    BY <1>1 DEF Press
  <2>2. wire' \in [Slot -> Request \cup {NoRequest}] /\ call' \in [Client -> Call]
    BY <1>1, AskTyped DEF Press, Client, Op
  <2> QED
    BY <1>1, <2>1, <2>2 DEF Press, TypeOK, Call, disk, server
<1>2. ASSUME NEW r \in Recording, PressOffline(r) PROVE TypeOK'
  BY <1>2, StartWithTyped DEF PressOffline, TypeOK, server
<1>3. ASSUME Announced PROVE TypeOK'
  <2>1. recorder.asked \in Recording
    BY <1>3 DEF Announced, Answered, Shape, Records, TypeOK
  <2> DEFINE m == IF call["recorder"].ok THEN call["recorder"].id ELSE 0
  <2>2. m \in {0} \cup Meeting
    BY <1>3 DEF Announced, Answered, Shape, Told, Accepted
  <2>3. StartWith(recorder.asked, m)
    BY <1>3 DEF Announced
  <2>4. Silence \in Call
    BY DEF Silence, Call
  <2>5. call' = [call EXCEPT !["recorder"] = Silence]
    BY <1>3 DEF Announced
  <2>6. call' \in [Client -> Call]
    BY <2>4, <2>5, Updated DEF TypeOK, Call
  <2>7. UNCHANGED << record, queue, wire, server, left >>
    BY <1>3 DEF Announced
  <2> HIDE DEF m
  <2> QED
    BY <2>1, <2>2, <2>3, <2>6, <2>7, StartWithTyped DEF TypeOK, server, Call
<1>4. ASSUME RecordingEnds PROVE TypeOK'
  <2> PICK audio \in BOOLEAN :
         manifest' = [manifest EXCEPT ![recorder.rec].state = "uploading",
                                      ![recorder.rec].audio = audio]
    BY <1>4 DEF RecordingEnds
  <2> DEFINE e == [[manifest[recorder.rec] EXCEPT !.state = "uploading"] EXCEPT !.audio = audio]
  <2>1. recorder.rec \in Recording
    BY <1>4 DEF RecordingEnds, Shape, Records, TypeOK
  <2>2. manifest' = [manifest EXCEPT ![recorder.rec] = e]
    BY <2>1 DEF TypeOK
  <2>3. \A x \in Manifest : [[x EXCEPT !.state = "uploading"] EXCEPT !.audio = audio] \in Manifest
    BY DEF Manifest
  <2>4. e \in Manifest
    BY <2>1, <2>3 DEF TypeOK
  <2> HIDE DEF e
  <2>7. manifest \in [Recording -> Manifest]
    BY DEF TypeOK
  <2>5. manifest' \in [Recording -> Manifest]
    BY <2>2, <2>4, <2>7, Updated
  <2>6. recorder' = [recorder EXCEPT !.state = "completed"]
    BY <1>4 DEF RecordingEnds
  <2> QED
    BY <1>4, <2>5, <2>6 DEF RecordingEnds, TypeOK, server
<1>5. ASSUME RecordingFails PROVE TypeOK'
  <2>1. recorder' = [recorder EXCEPT !.state = "idle", !.rec = None]
    BY <1>5 DEF RecordingFails
  <2> QED
    BY <1>5, <2>1 DEF RecordingFails, TypeOK, server, disk
<1>6. ASSUME Sweep PROVE TypeOK'
  <2>1. queue' = [queue EXCEPT !.todo = Owed] /\ Owed \in SUBSET Recording
    BY <1>6 DEF Sweep, Owed
  <2>2. queue' \in Pass
    BY <2>1 DEF TypeOK, Pass
  <2> QED
    BY <1>6, <2>2 DEF Sweep, TypeOK, Pass, server, disk
<1>7. ASSUME NEW r \in Recording, Attempt(r) PROVE TypeOK'
  <2> DEFINE m == IF record[r] # NoRecord THEN record[r].meeting ELSE manifest[r].server
             op == IF record[r] # NoRecord THEN "resume"
                   ELSE IF m # 0 THEN "start" ELSE "declare"
  <2>1. /\ Ask("queue", op, r, m, 0, {})
        /\ queue' = [queue EXCEPT !.rec = r, !.step = op, !.meeting = m]
        /\ UNCHANGED << disk, recorder, server, left >>
    BY <1>7 DEF Attempt
  <2>2. m \in {0} \cup Meeting
    BY DEF TypeOK, Progress, Manifest
  <2>3. op \in Op
    BY DEF Op
  <2> HIDE DEF m, op
  <2>4. wire' \in [Slot -> Request \cup {NoRequest}] /\ call' \in [Client -> Call]
    <3>1. "queue" \in Client /\ {} \in SUBSET Part /\ 0 \in {0} \cup Upload
      BY DEF Client
    <3> QED
      BY <2>1, <2>2, <2>3, <3>1, AskTyped
  <2>5. queue' \in Pass
    BY <2>1, <2>2, <2>3 DEF Pass, TypeOK
  <2> QED
    BY <2>1, <2>4, <2>5 DEF Pass, TypeOK, Call, server, disk
<1>8. ASSUME NEW r \in Recording, Skip(r) PROVE TypeOK'
  <2>1. queue' = [queue EXCEPT !.todo = queue.todo \ {r}]
    BY <1>8 DEF Skip
  <2>2. queue' \in Pass
    BY <2>1 DEF Pass, TypeOK
  <2> QED
    BY <1>8, <2>2 DEF Pass, TypeOK, Skip, server, disk
<1>9. ASSUME Declared PROVE TypeOK'
  <2> DEFINE m == call["queue"].id
  <2>1. /\ Ask("queue", "start", queue.rec, m, 0, {})
        /\ queue' = [queue EXCEPT !.step = "start", !.meeting = m]
        /\ UNCHANGED << disk, recorder, server, left >>
    BY <1>9 DEF Declared
  <2>2. m \in Meeting /\ queue.rec \in Recording
    BY <1>9 DEF Declared, Replied, Answered, Shape, Told, Accepted, Passes, TypeOK
  <2> HIDE DEF m
  <2>3. wire' \in [Slot -> Request \cup {NoRequest}] /\ call' \in [Client -> Call]
    BY <2>1, <2>2, AskTyped DEF Client, Op
  <2>4. queue' \in Pass
    BY <2>1, <2>2 DEF Pass, TypeOK, Op
  <2> QED
    BY <2>1, <2>3, <2>4 DEF Pass, TypeOK, Call, server, disk
<1>10. ASSUME NEW progress, Save(queue.rec, progress), queue.rec \in Recording, progress \in Progress
       PROVE TypeOK'
  <2>1. /\ record' = [record EXCEPT ![queue.rec] = progress]
        /\ UNCHANGED << manifest, recorder, server, left >>
    BY <1>10 DEF Save
  <2>2. /\ wire' \in [Slot -> Request \cup {NoRequest}] /\ call' \in [Client -> Call]
        /\ queue' \in Pass
    BY <1>10, ContinueTyped DEF Save
  <2>3. record' \in [Recording -> Progress \cup {NoRecord}]
    BY <1>10, <2>1, Updated DEF TypeOK
  <2> QED
    BY <2>1, <2>2, <2>3 DEF TypeOK, Call, Pass, server
<1>11. ASSUME NEW op \in Op, Replied(op)
       PROVE  /\ queue.rec \in Recording /\ queue.meeting \in {0} \cup Meeting
              /\ op = "start" => call["queue"].id \in Upload /\ queue.meeting \in Meeting
              /\ op = "resume" => call["queue"].id \in Upload
              /\ op = "put" => call["queue"].id \in Part
              /\ op \in {"resume", "put"} => record[queue.rec] \in Progress
  BY <1>11 DEF Replied, Answered, Shape, Passes, Told, Accepted, TypeOK, Op
<1>12. ASSUME Started PROVE TypeOK'
  <2> DEFINE progress == [meeting |-> queue.meeting, upload |-> call["queue"].id, confirmed |-> {}]
  <2>1. Replied("start") /\ Save(queue.rec, progress)
    BY <1>12 DEF Started
  <2>2. progress \in Progress /\ queue.rec \in Recording
    BY <2>1, <1>11 DEF Progress, Op
  <2> QED
    BY <2>1, <2>2, <1>10
<1>13. ASSUME Resumed PROVE TypeOK'
  <2> DEFINE known == record[queue.rec]
             progress == IF known.upload = call["queue"].id THEN known
                         ELSE [known EXCEPT !.upload = call["queue"].id, !.confirmed = {}]
  <2>1. Replied("resume") /\ Save(queue.rec, progress)
    BY <1>13 DEF Resumed
  <2>2. queue.rec \in Recording /\ known \in Progress /\ call["queue"].id \in Upload
    BY <2>1, <1>11 DEF Op
  <2>3. \A x \in Progress, u \in Upload : [x EXCEPT !.upload = u, !.confirmed = {}] \in Progress
    BY DEF Progress
  <2>4. progress \in Progress
    BY <2>2, <2>3
  <2> QED
    BY <2>1, <2>2, <2>4, <1>10
<1>14. ASSUME PartAccepted PROVE TypeOK'
  <2> DEFINE known == record[queue.rec]
             progress == [known EXCEPT !.confirmed = @ \cup {call["queue"].id}]
  <2>1. Replied("put") /\ Save(queue.rec, progress)
    BY <1>14 DEF PartAccepted
  <2>2. queue.rec \in Recording /\ known \in Progress /\ call["queue"].id \in Part
    BY <2>1, <1>11 DEF Op
  <2>3. \A x \in Progress, p \in Part : [x EXCEPT !.confirmed = @ \cup {p}] \in Progress
    BY DEF Progress
  <2>4. progress \in Progress
    BY <2>2, <2>3
  <2> QED
    BY <2>1, <2>2, <2>4, <1>10
<1>15. ASSUME call' = [call EXCEPT !["queue"] = Silence]
       PROVE  call' \in [Client -> Call]
  BY <1>15, Updated DEF TypeOK, Call, Silence
<1>16. NextJob \in Pass
  BY DEF NextJob, Pass, AtRest, TypeOK
<1>17. ASSUME Finalized PROVE TypeOK'
  <2>1. queue.rec \in Recording
    BY <1>17, <1>11 DEF Finalized, Op
  <2>2. manifest' = [manifest EXCEPT ![queue.rec] = [manifest[queue.rec] EXCEPT !.state = "uploaded"]]
    BY <1>17, <2>1 DEF Finalized, TypeOK
  <2>3. \A x \in Manifest : [x EXCEPT !.state = "uploaded"] \in Manifest
    BY DEF Manifest
  <2>4. [manifest[queue.rec] EXCEPT !.state = "uploaded"] \in Manifest
    BY <2>1, <2>3 DEF TypeOK
  <2>5. manifest \in [Recording -> Manifest]
    BY DEF TypeOK
  <2>6. manifest' \in [Recording -> Manifest]
    BY <2>2, <2>4, <2>5, Updated
  <2>7. queue' = [queue EXCEPT !.step = "forget"]
    BY <1>17 DEF Finalized
  <2>8. queue' \in Pass
    BY <2>7 DEF TypeOK, Pass
  <2>9. call' \in [Client -> Call]
    BY <1>17, <1>15 DEF Finalized
  <2> QED
    BY <1>17, <2>6, <2>8, <2>9 DEF Finalized, TypeOK, Call, Pass, server
<1>18. ASSUME Forget PROVE TypeOK'
  <2>1. record' \in [Recording -> Progress \cup {NoRecord}]
    BY <1>18, Updated DEF Forget, TypeOK
  <2> QED
    BY <1>18, <2>1, <1>16 DEF Forget, TypeOK, Pass, server
<1>19. ASSUME AttemptFails PROVE TypeOK'
  BY <1>19, <1>15, <1>16 DEF AttemptFails, TypeOK, Pass, Call, server, disk
<1>37. ASSUME SaveFails PROVE TypeOK'
  <2>1. left' \in [{"timeouts", "crashes", "refusals", "rollbacks", "saves"} -> Nat]
    BY <1>37, SpendTyped DEF SaveFails
  <2> QED
    BY <1>37, <2>1, <1>15, <1>16 DEF SaveFails, TypeOK, Pass, Call, server, disk
<1>20. ASSUME Crash PROVE TypeOK'
  <2>1. left' \in [{"timeouts", "crashes", "refusals", "rollbacks", "saves"} -> Nat]
    BY <1>20, SpendTyped DEF Crash
  <2>2. call' \in [Client -> Call]
    BY <1>20 DEF Crash, Call, Silence
  <2>3. queue' \in Pass
    BY <1>20 DEF Crash, AtRest, Pass
  <2>4. \A x \in Request : [x EXCEPT !.by = None] \in Request
    BY DEF Request
  <2>5. \A s \in Slot : (IF wire[s] = NoRequest THEN NoRequest ELSE [wire[s] EXCEPT !.by = None])
                        \in Request \cup {NoRequest}
    BY <2>4 DEF TypeOK
  <2>6. wire' \in [Slot -> Request \cup {NoRequest}]
    BY <1>20, <2>5 DEF Crash
  <2>7. recorder' = [state |-> "idle", rec |-> None, asked |-> None]
    BY <1>20 DEF Crash, Off
  <2> QED
    BY <1>20, <2>1, <2>2, <2>3, <2>6, <2>7 DEF Crash, TypeOK, Pass, Call, server, disk
<1>21. ASSUME NEW s \in Slot, TimesOut(s) PROVE TypeOK'
  <2>1. left' \in [{"timeouts", "crashes", "refusals", "rollbacks", "saves"} -> Nat]
    BY <1>21, SpendTyped DEF TimesOut
  <2>2. wire[s] \in Request /\ wire[s].by \in Client
    BY <1>21 DEF TimesOut, TypeOK, Request
  <2>3. call' \in [Client -> Call]
    BY <1>21, <2>2 DEF TimesOut, TypeOK, Call
  <2>4. \A x \in Request : [x EXCEPT !.by = None] \in Request
    BY DEF Request
  <2>5. wire' = [wire EXCEPT ![s] = [wire[s] EXCEPT !.by = None]]
    BY <1>21 DEF TimesOut, TypeOK
  <2>6. wire' \in [Slot -> Request \cup {NoRequest}]
    BY <2>2, <2>4, <2>5, Updated DEF TypeOK
  <2> QED
    BY <1>21, <2>1, <2>3, <2>6 DEF TimesOut, TypeOK, Call, desktop, server
<1>22. ASSUME NEW s \in Slot, Lost(s) PROVE TypeOK'
  BY <1>22 DEF Lost, TypeOK, desktop, server
<1>23. ASSUME NEW s \in Slot, HandleDeclare(s) PROVE TypeOK'
  <2>1. /\ Sent(s) /\ meetings' = meetings + 1 /\ Answer(s, TRUE, meetings + 1)
        /\ Pending(s, meetings + 1, 0) /\ meetings < MaxMeetings
    BY <1>23 DEF HandleDeclare, Arrived, Sent
  <2>2. meetings + 1 \in Meeting /\ meetings + 1 \in Nat /\ meetings + 1 \in 0 .. MaxMeetings
    BY <2>1, UploadAssumption DEF TypeOK, Meeting
  <2>3. call' \in [Client -> Call]
    BY <2>1, <2>2, AnswerTyped
  <2>4. wire' \in [Slot -> Request \cup {NoRequest}]
    BY <2>1, <2>2, PendingTyped
  <2> QED
    BY <1>23, <2>1, <2>2, <2>3, <2>4 DEF HandleDeclare, TypeOK, Call, desktop
<1>24. ASSUME NEW s \in Slot, HandleStart(s) PROVE TypeOK'
  <2> DEFINE m == wire[s].meeting
             opened == [key |-> m, open |-> TRUE, parts |-> Nothing]
  <2>1. /\ Sent(s) /\ uploads' = uploads + 1 /\ Answer(s, TRUE, uploads + 1)
        /\ Pending(s, m, uploads + 1) /\ uploads < MaxUploads
        /\ store' = [store EXCEPT ![uploads + 1] = opened]
    BY <1>24 DEF HandleStart, Arrived, Sent
  <2>2. uploads + 1 \in Upload /\ uploads + 1 \in Nat /\ uploads + 1 \in 0 .. MaxUploads
    BY <2>1, UploadAssumption DEF TypeOK, Upload
  <2>3. m \in {0} \cup Meeting
    BY <2>1 DEF TypeOK, Sent, Request
  <2>4. opened \in Multipart
    BY <2>3 DEF Multipart, Nothing, Content
  <2>5. call' \in [Client -> Call]
    BY <2>1, <2>2, AnswerTyped
  <2>6. wire' \in [Slot -> Request \cup {NoRequest}]
    BY <2>1, <2>2, <2>3, PendingTyped
  <2> HIDE DEF opened
  <2>7. store' \in [Upload -> Multipart]
    BY <2>1, <2>4, Updated DEF TypeOK
  <2> QED
    BY <1>24, <2>1, <2>2, <2>5, <2>6, <2>7 DEF HandleStart, TypeOK, Call, desktop
<1>25. ASSUME NEW s \in Slot, HandleResume(s) PROVE TypeOK'
  <2> DEFINE m == wire[s].meeting
  <2>1. /\ Sent(s) /\ Answer(s, TRUE, row[m].upload) /\ Done(s) /\ wire[s].op = "resume"
    BY <1>25 DEF HandleResume, Arrived, Sent
  <2>2. m \in Meeting
    BY <2>1 DEF TypeOK, Sent, Request, Shape, Requests
  <2>3. row[m].upload \in Nat
    BY <2>2 DEF TypeOK, Row, Upload
  <2> HIDE DEF m
  <2>4. call' \in [Client -> Call]
    BY <2>1, <2>3, AnswerTyped
  <2> QED
    BY <1>25, <2>1, <2>4, DoneTyped DEF HandleResume, TypeOK, Call, desktop, server
<1>26. ASSUME NEW s \in Slot, HandlePut(s) PROVE TypeOK'
  <2> DEFINE u == wire[s].upload
  <2>1. PICK p \in wire[s].parts :
          /\ store' = [store EXCEPT ![u].parts[p] = wire[s].rec]
          /\ resent' = IF store[u].parts[p] = None THEN resent ELSE resent + 1
          /\ Answer(s, TRUE, p)
    BY <1>26 DEF HandlePut
  <2>2. Sent(s) /\ wire[s].op = "put"
    BY <1>26 DEF HandlePut, Arrived, Sent
  <2>3. wire[s] \in Request /\ u \in Upload /\ p \in Part /\ p \in Nat /\ wire[s].rec \in Recording
    BY <2>2 DEF TypeOK, Sent, Request, Shape, Requests, Part
  <2>4. store[u] \in Multipart
    BY <2>3 DEF TypeOK
  <2> DEFINE filled == [store[u].parts EXCEPT ![p] = wire[s].rec]
             after == [store[u] EXCEPT !.parts = filled]
  <2>5. filled \in Content
    BY <2>3, <2>4 DEF Multipart, Content
  <2>6. \A x \in Multipart, y \in Content : [x EXCEPT !.parts = y] \in Multipart
    BY DEF Multipart
  <2>7. store' = [store EXCEPT ![u] = after]
    BY <2>1, <2>3 DEF TypeOK
  <2> HIDE DEF filled
  <2>8. after \in Multipart
    BY <2>4, <2>5, <2>6
  <2> HIDE DEF after
  <2>9. store' \in [Upload -> Multipart]
    BY <2>7, <2>8, Updated DEF TypeOK
  <2>10. call' \in [Client -> Call]
    BY <2>1, <2>2, <2>3, AnswerTyped
  <2>11. resent' \in Nat
    BY <2>1 DEF TypeOK
  <2> QED
    BY <1>26, <2>9, <2>10, <2>11, DoneTyped DEF HandlePut, TypeOK, Call, desktop
<1>27. ASSUME NEW s \in Slot, Sent(s), wire[s].op = "finalize", Assembled(s)
       PROVE  store' \in [Upload -> Multipart] /\ object' \in [Meeting -> Content]
  <2> DEFINE m == wire[s].meeting  u == wire[s].upload
             content == IF Mismatch(s) THEN Nothing ELSE store[u].parts
  <2>1. u \in Upload
    BY <1>27 DEF TypeOK, Sent, Request, Shape, Requests
  <2>2. store' = Closed(u) /\ object' = [object EXCEPT ![m] = content]
    BY <1>27 DEF Assembled
  <2>3. content \in Content
    BY <2>1 DEF TypeOK, Multipart, Nothing, Content
  <2> HIDE DEF content
  <2> QED
    BY <2>1, <2>2, <2>3, ClosedTyped, Updated DEF TypeOK
<1>28. ASSUME NEW s \in Slot, HandleFinalize(s) PROVE TypeOK'
  <2> DEFINE m == wire[s].meeting
  <2>1. /\ Sent(s) /\ wire[s].op = "finalize" /\ Assembled(s) /\ Answer(s, TRUE, m)
        /\ Pending(s, m, wire[s].upload)
    BY <1>28 DEF HandleFinalize, Arrived, Sent
  <2>2. m \in {0} \cup Meeting /\ m \in Nat /\ wire[s].upload \in {0} \cup Upload
    BY <2>1 DEF TypeOK, Sent, Request, Meeting
  <2> HIDE DEF m
  <2>3. call' \in [Client -> Call]
    BY <2>1, <2>2, AnswerTyped
  <2>4. wire' \in [Slot -> Request \cup {NoRequest}]
    BY <2>1, <2>2, PendingTyped
  <2> QED
    BY <1>28, <2>1, <2>3, <2>4, <1>27 DEF HandleFinalize, TypeOK, Call, desktop
<1>29. ASSUME NEW s \in Slot, Sent(s), Answer(s, FALSE, 0), Done(s)
       PROVE  /\ call' \in [Client -> Call]
              /\ wire' \in [Slot -> Request \cup {NoRequest}]
  BY <1>29, AnswerTyped, DoneTyped
<1>30. ASSUME NEW s \in Slot, RefuseFinalize(s) PROVE TypeOK'
  <2>1. /\ Sent(s) /\ wire[s].op = "finalize" /\ Assembled(s) /\ Answer(s, FALSE, 0) /\ Done(s)
    BY <1>30 DEF RefuseFinalize, Arrived, Sent
  <2> QED
    BY <1>30, <2>1, <1>27, <1>29 DEF RefuseFinalize, TypeOK, Call, desktop
<1>31. ASSUME NEW s \in Slot, Refuse(s) PROVE TypeOK'
  <2>1. Sent(s)
    BY <1>31 DEF Refuse, Unacceptable, Arrived, Sent
  <2> QED
    BY <1>31, <2>1, <1>29 DEF Refuse, TypeOK, Call, desktop, server
<1>32. ASSUME NEW s \in Slot, Commit(s) PROVE TypeOK'
  <2> DEFINE m == wire[s].meeting
  <2>1. Sent(s) /\ wire[s].open /\ row' = [row EXCEPT ![m] = Written(s)] /\ Done(s)
    BY <1>32 DEF Commit, Sent
  <2>2. wire[s] \in Request /\ m \in Meeting /\ wire[s].op \in {"declare", "start", "finalize"}
    BY <2>1 DEF TypeOK, Sent, Request, Shape, Requests
  <2>3. wire[s].rec \in Recording /\ wire[s].upload \in {0} \cup Upload /\ row[m] \in Row
    BY <2>2 DEF TypeOK, Request
  <2>4. ASSUME wire[s].op = "declare" PROVE Written(s) \in Row
    <3>1. Written(s) = [NoRow EXCEPT !.status = "CREATED", !.rec = wire[s].rec]
      BY <2>4 DEF Written
    <3> QED
      BY <2>3, <3>1 DEF NoRow, Row
  <2>5. ASSUME wire[s].op = "start" PROVE Written(s) \in Row
    <3>1. Written(s) = [row[m] EXCEPT !.status = "UPLOADING", !.audio = wire[s].rec,
                                      !.upload = wire[s].upload]
      BY <2>5 DEF Written
    <3>2. \A x \in Row, r \in Recording, u \in {0} \cup Upload :
            [x EXCEPT !.status = "UPLOADING", !.audio = r, !.upload = u] \in Row
      BY DEF Row
    <3>3. [row[m] EXCEPT !.status = "UPLOADING", !.audio = wire[s].rec,
                         !.upload = wire[s].upload] \in Row
      BY <2>3, <3>2, Zenon
    <3> QED
      BY <3>1, <3>3, Zenon
  <2>6. ASSUME wire[s].op = "finalize" PROVE Written(s) \in Row
    <3>1. Written(s) = [row[m] EXCEPT !.status = "QUEUED", !.upload = 0]
      BY <2>6 DEF Written
    <3>2. \A x \in Row : [x EXCEPT !.status = "QUEUED", !.upload = 0] \in Row
      BY DEF Row
    <3> QED
      BY <2>3, <3>1, <3>2
  <2>7. Written(s) \in Row
    BY <2>2, <2>4, <2>5, <2>6
  <2>8. row' \in [Meeting -> Row]
    BY <2>1, <2>7, Updated DEF TypeOK
  <2> QED
    BY <1>32, <2>8, DoneTyped DEF Commit, TypeOK, Call, desktop
<1>33. ASSUME NEW s \in Slot, Unavailable(s) PROVE TypeOK'
  BY <1>33, <1>29, SpendTyped DEF Unavailable, Sent, TypeOK, Call, desktop, server
<1>34. ASSUME NEW s \in Slot, Rollback(s) PROVE TypeOK'
  BY <1>34, DoneTyped, SpendTyped DEF Rollback, TypeOK, Call, desktop, server
<1>35. ASSUME NEW m \in Meeting, Cancel(m) PROVE TypeOK'
  <2>1. \A x \in Row : /\ [x EXCEPT !.status = "CANCELLED", !.upload = 0] \in Row
                       /\ [x EXCEPT !.status = "CANCELLED"] \in Row
    BY DEF Row
  <2>2. row[m] \in Row /\ row \in [Meeting -> Row]
    BY DEF TypeOK
  <2>3. CASE row[m].upload # 0 /\ store[row[m].upload].open
    <3>1. /\ store' = Closed(row[m].upload)
          /\ row' = [row EXCEPT ![m] = [row[m] EXCEPT !.status = "CANCELLED", !.upload = 0]]
      BY <1>35, <2>2, <2>3 DEF Cancel
    <3>2. row[m].upload \in Upload
      BY <2>2, <2>3 DEF Row
    <3>3. [row[m] EXCEPT !.status = "CANCELLED", !.upload = 0] \in Row
      BY <2>1, <2>2
    <3>4. row' \in [Meeting -> Row]
      BY <2>2, <3>1, <3>3, Updated
    <3> QED
      BY <1>35, <3>1, <3>2, <3>4, ClosedTyped DEF Cancel, TypeOK, desktop
  <2>4. CASE ~ (row[m].upload # 0 /\ store[row[m].upload].open)
    <3>1. /\ UNCHANGED store
          /\ row' = [row EXCEPT ![m] = [row[m] EXCEPT !.status = "CANCELLED"]]
      BY <1>35, <2>2, <2>4 DEF Cancel
    <3>3. [row[m] EXCEPT !.status = "CANCELLED"] \in Row
      BY <2>1, <2>2
    <3>4. row' \in [Meeting -> Row]
      BY <2>2, <3>1, <3>3, Updated
    <3> QED
      BY <1>35, <3>1, <3>4 DEF Cancel, TypeOK, desktop
  <2> QED
    BY <2>3, <2>4
<1>36. CASE UNCHANGED vars
  BY <1>36 DEF vars, TypeOK
<1> QED
  BY <1>1, <1>2, <1>3, <1>4, <1>5, <1>6, <1>7, <1>8, <1>9, <1>12, <1>13, <1>14, <1>17, <1>18,
     <1>19, <1>20, <1>21, <1>22, <1>23, <1>24, <1>25, <1>26, <1>28, <1>30, <1>31, <1>32,
     <1>33, <1>34, <1>35, <1>36, <1>37
     DEF Next, RecorderStep, QueueStep, ServerStep, FaultStep, Handle

-----------------------------------------------------------------------------
(* What the operators on the wire do to each request and each wait.        *)

Posted(s, c, op, r, m, u, ps) ==
  /\ ~ Sent(s) /\ Sent(s)'
  /\ wire'[s].op = op /\ wire'[s].by = c /\ wire'[s].rec = r
  /\ wire'[s].meeting = m /\ wire'[s].upload = u /\ wire'[s].parts = ps
  /\ wire'[s].open = FALSE
  /\ \A t \in Slot \ {s} : wire'[t] = wire[t]

\* Ask puts one request on a free slot and makes the client wait.
LEMMA AskEffect ==
  ASSUME TypeOK, NEW c \in Client, NEW op \in Op, NEW r \in Recording,
         NEW m \in {0} \cup Meeting, NEW u \in {0} \cup Upload, NEW ps \in SUBSET Part,
         Ask(c, op, r, m, u, ps)
  PROVE  /\ \E s \in Slot : Posted(s, c, op, r, m, u, ps)
         /\ call'[c].state = "waiting"
         /\ \A d \in Client \ {c} : call'[d] = call[d]
<1> DEFINE q == [op |-> op, by |-> c, rec |-> r, meeting |-> m, upload |-> u,
                 parts |-> ps, open |-> FALSE]
<1>1. PICK s \in Slot : wire[s] = NoRequest /\ wire' = [wire EXCEPT ![s] = q]
  BY DEF Ask
<1>2. q # NoRequest
  BY DEF NoRequest, Op
<1>3. wire'[s] = q /\ \A t \in Slot \ {s} : wire'[t] = wire[t]
  BY <1>1 DEF TypeOK
<1>4. call' = [call EXCEPT ![c] = Waiting]
  BY DEF Ask
<1>5. call'[c].state = "waiting" /\ \A d \in Client \ {c} : call'[d] = call[d]
  BY <1>4 DEF TypeOK, Waiting
<1>6. Posted(s, c, op, r, m, u, ps)
  BY <1>1, <1>2, <1>3 DEF Sent, Posted
<1> QED
  BY <1>5, <1>6

\* Done frees the slot and touches no other.
LEMMA DoneEffect ==
  ASSUME TypeOK, NEW s \in Slot, Done(s)
  PROVE  ~ Sent(s)' /\ \A t \in Slot \ {s} : wire'[t] = wire[t]
  BY DEF TypeOK, Done, Sent

\* Pending keeps what is asked, and fixes what the commit will write.
LEMMA PendingEffect ==
  ASSUME TypeOK, NEW s \in Slot, Sent(s), NEW m \in {0} \cup Meeting,
         NEW u \in {0} \cup Upload, Pending(s, m, u)
  PROVE  /\ Sent(s)'
         /\ wire'[s].op = wire[s].op /\ wire'[s].rec = wire[s].rec
         /\ wire'[s].parts = wire[s].parts
         /\ wire'[s].meeting = m /\ wire'[s].upload = u /\ wire'[s].by = None /\ wire'[s].open
         /\ \A t \in Slot \ {s} : wire'[t] = wire[t]
<1>1. wire[s] \in Request
  BY DEF TypeOK, Sent
<1> DEFINE q == [wire[s] EXCEPT !.meeting = m, !.upload = u, !.by = None, !.open = TRUE]
<1>2. /\ q.op = wire[s].op /\ q.rec = wire[s].rec /\ q.parts = wire[s].parts
      /\ q.meeting = m /\ q.upload = u /\ q.by = None /\ q.open
  BY <1>1 DEF Request
<1>3. wire' = [wire EXCEPT ![s] = q]
  BY DEF Pending, TypeOK
<1>4. q # NoRequest
  BY <1>1, <1>2 DEF Request, NoRequest, Op
<1> HIDE DEF q
<1> QED
  BY <1>2, <1>3, <1>4 DEF TypeOK, Sent

\* An answer reaches the client that waits for it, and no other.
LEMMA AnswerEffect ==
  ASSUME TypeOK, NEW s \in Slot, Sent(s), NEW ok \in BOOLEAN, NEW id \in Nat,
         Answer(s, ok, id)
  PROVE  \A c \in Client :
           IF wire[s].by = c
           THEN call'[c].state = "answered" /\ call'[c].ok = ok /\ call'[c].id = id
           ELSE call'[c] = call[c]
  BY UploadAssumption DEF Answer, TypeOK, Sent, Request, Client

-----------------------------------------------------------------------------
(* The wire and the waits stay as they have to be.                         *)

LEMMA AskWires ==
  ASSUME TypeInv, NEW c \in Client, NEW op \in Op, NEW r \in Recording,
         NEW m \in {0} \cup Meeting, NEW u \in {0} \cup Upload, NEW ps \in SUBSET Part,
         Ask(c, op, r, m, u, ps), call[c].state # "waiting",
         op # "declare" => m # 0, op \in {"put", "finalize"} => u # 0,
         op = "finalize" => ps = Part,
         c = "queue" => queue'.step = op /\ queue'.rec = r /\ UNCHANGED recorder,
         c = "recorder" => op = "declare" /\ recorder'.asked = r /\ UNCHANGED queue
  PROVE  Requests' /\ AskedOnce' /\ Waits'
<1>0. PICK s \in Slot : Posted(s, c, op, r, m, u, ps)
  BY AskEffect DEF TypeInv
<1>1. /\ ~ Sent(s) /\ Sent(s)'
      /\ wire'[s].op = op /\ wire'[s].by = c /\ wire'[s].rec = r
      /\ wire'[s].meeting = m /\ wire'[s].upload = u /\ wire'[s].parts = ps
      /\ wire'[s].open = FALSE
      /\ \A t \in Slot \ {s} : wire'[t] = wire[t]
  BY <1>0 DEF Posted
<1>2. call'[c].state = "waiting" /\ \A d \in Client \ {c} : call'[d] = call[d]
  BY AskEffect DEF TypeInv
<1>3. \A t \in Slot : Sent(t) => wire[t].by # c
  BY UploadAssumption DEF TypeInv, Shape, Waits, Client
<1>4. \A t \in Slot \ {s} : Sent(t)' <=> Sent(t)
  BY <1>1 DEF Sent
<1>5. \A t \in Slot : Sent(t) => wire[t].by \in Client \cup {None}
  BY DEF TypeInv, TypeOK, Sent, Request
<1>6. Requests'
  BY <1>1, <1>4 DEF TypeInv, Shape, Requests
<1>7. AskedOnce'
  BY <1>1, <1>3, <1>4 DEF TypeInv, Shape, AskedOnce
<1>8. Waits'
  BY <1>1, <1>2, <1>3, <1>4, <1>5 DEF TypeInv, Shape, Waits, Client
<1> QED
  BY <1>6, <1>7, <1>8

LEMMA QuietWires ==
  ASSUME TypeInv, UNCHANGED wire,
         \A c \in Client : call'[c] = call[c] \/ call[c].state # "waiting",
         call["queue"].state = "waiting" => queue'.step = queue.step /\ queue'.rec = queue.rec,
         call["recorder"].state = "waiting" => recorder'.asked = recorder.asked
  PROVE  Requests' /\ AskedOnce' /\ Waits'
<1>1. \A t \in Slot : Sent(t) => wire[t].by \in Client \cup {None}
  BY DEF TypeInv, TypeOK, Sent, Request
<1>2. Requests' /\ AskedOnce'
  BY DEF TypeInv, Shape, Requests, AskedOnce, Sent
<1>3. Waits'
  BY <1>1 DEF TypeInv, Shape, Waits, Sent, Client
<1> QED
  BY <1>2, <1>3

LEMMA DoneShape ==
  ASSUME TypeInv, NEW s \in Slot, Sent(s), Done(s), wire[s].by = None,
         UNCHANGED << desktop, call >>
  PROVE  Shape'
<1>1. \A t \in Slot : Sent(t)' => Sent(t) /\ wire'[t] = wire[t]
  BY DoneEffect DEF TypeInv, Sent
<1>2. Requests' /\ AskedOnce' /\ Waits'
  BY <1>1 DEF TypeInv, Shape, Requests, AskedOnce, Waits, desktop
<1>3. Passes' /\ Records' /\ Told'
  BY DEF TypeInv, Shape, Passes, Records, Told, desktop, Accepted
<1> QED
  BY <1>2, <1>3 DEF Shape

\* What an answer carries is what the call it answers expects.
Fits(op, id) ==
  /\ op = "declare" => id \in Meeting
  /\ op \in {"start", "resume"} => id \in Upload
  /\ op = "put" => id \in Part

LEMMA AnswerShape ==
  ASSUME TypeInv, NEW s \in Slot, Sent(s), NEW ok \in BOOLEAN, NEW id \in Nat,
         Answer(s, ok, id), ok => Fits(wire[s].op, id), UNCHANGED desktop,
         \/ Done(s)
         \/ \E m \in {0} \cup Meeting, u \in {0} \cup Upload :
              /\ Pending(s, m, u) /\ m # 0
              /\ wire[s].op \in {"declare", "start", "finalize"}
              /\ wire[s].op \in {"start", "finalize"} => u # 0
  PROVE  Shape'
<1>1. \A c \in Client :
        IF wire[s].by = c
        THEN call'[c].state = "answered" /\ call'[c].ok = ok /\ call'[c].id = id
        ELSE call'[c] = call[c]
  BY AnswerEffect DEF TypeInv
<1>2. /\ \A t \in Slot \ {s} : wire'[t] = wire[t] /\ (Sent(t)' <=> Sent(t))
      /\ Sent(s)' => /\ wire'[s].by = None /\ wire'[s].op = wire[s].op
                     /\ wire'[s].parts = wire[s].parts /\ wire'[s].meeting # 0
                     /\ wire[s].op \in {"declare", "start", "finalize"}
                     /\ wire[s].op \in {"start", "finalize"} => wire'[s].upload # 0
  <2>1. CASE Done(s)
    BY <2>1, DoneEffect DEF TypeInv, Sent
  <2>2. CASE \E m \in {0} \cup Meeting, u \in {0} \cup Upload :
              /\ Pending(s, m, u) /\ m # 0
              /\ wire[s].op \in {"declare", "start", "finalize"}
              /\ wire[s].op \in {"start", "finalize"} => u # 0
    BY <2>2, PendingEffect DEF TypeInv, Sent
  <2> QED
    BY <2>1, <2>2
<1>3. \A t \in Slot : Sent(t) => wire[t].by \in Client \cup {None}
  BY DEF TypeInv, TypeOK, Sent, Request
<1>4. Requests'
  BY <1>2 DEF TypeInv, Shape, Requests
<1>5. AskedOnce'
  BY <1>2 DEF TypeInv, Shape, AskedOnce
<1>6. Waits'
  <2> SUFFICES ASSUME NEW t \in Slot, Sent(t)', wire'[t].by # None
               PROVE  /\ call'[wire'[t].by].state = "waiting"
                      /\ wire'[t].by = "queue" => wire'[t].op = queue'.step /\ wire'[t].rec = queue'.rec
                      /\ wire'[t].by = "recorder" =>
                           wire'[t].op = "declare" /\ wire'[t].rec = recorder'.asked
    BY DEF Waits
  <2>1. t # s /\ wire'[t] = wire[t] /\ Sent(t)
    BY <1>2
  <2>2. wire[t].by # wire[s].by
    BY <2>1 DEF TypeInv, Shape, AskedOnce
  <2>3. wire[t].by \in Client /\ call'[wire[t].by] = call[wire[t].by]
    BY <1>1, <1>3, <2>1, <2>2
  <2> QED
    BY <2>1, <2>3 DEF TypeInv, Shape, Waits, desktop
<1>7. wire[s].by \in Client => call[wire[s].by].state = "waiting"
  BY UploadAssumption DEF TypeInv, Shape, Waits, Client
<1>8. Passes'
  BY <1>1, <1>7 DEF TypeInv, Shape, Passes, desktop, Client
<1>9. Records'
  BY <1>1, <1>7 DEF TypeInv, Shape, Records, desktop, Client
<1>10. Told'
  <2>1. wire[s].by = "queue" => wire[s].op = queue.step
    BY UploadAssumption DEF TypeInv, Shape, Waits, Client
  <2>2. wire[s].by = "recorder" => wire[s].op = "declare"
    BY UploadAssumption DEF TypeInv, Shape, Waits, Client
  <2> QED
    BY <1>1, <2>1, <2>2 DEF TypeInv, Shape, Told, Fits, Accepted, desktop, Client
<1> QED
  BY <1>4, <1>5, <1>6, <1>8, <1>9, <1>10 DEF Shape

\* A pass goes on with a part, or with the end once every part is confirmed.
LEMMA ContinueEffect ==
  ASSUME TypeOK, NEW r \in Recording, NEW progress \in Progress, Continue(r, progress)
  PROVE  \E op \in {"put", "finalize"}, ps \in SUBSET Part :
           /\ Ask("queue", op, r, progress.meeting, progress.upload, ps)
           /\ op = "finalize" => ps = Part
           /\ queue' = [queue EXCEPT !.step = op]
<1>1. progress.confirmed \in SUBSET Part
  BY DEF Progress
<1>2. CASE /\ Part \ progress.confirmed = {}
           /\ Ask("queue", "finalize", r, progress.meeting, progress.upload, progress.confirmed)
           /\ queue' = [queue EXCEPT !.step = "finalize"]
  <2>1. progress.confirmed = Part
    BY <1>1, <1>2
  <2> QED
    BY <1>2, <2>1
<1>3. CASE \E p \in Part :
             /\ Ask("queue", "put", r, progress.meeting, progress.upload, {p})
             /\ queue' = [queue EXCEPT !.step = "put"]
  <2> PICK p \in Part : /\ Ask("queue", "put", r, progress.meeting, progress.upload, {p})
                        /\ queue' = [queue EXCEPT !.step = "put"]
    BY <1>3
  <2>1. {p} \in SUBSET Part
    OBVIOUS
  <2> QED
    BY <2>1
<1> QED
  BY <1>2, <1>3 DEF Continue

\* The record is saved and the next request goes out: the common end of
\* Started, Resumed and PartAccepted.
LEMMA SaveShape ==
  ASSUME TypeInv, NEW op \in {"start", "resume", "put"}, Replied(op),
         NEW progress \in Progress, Save(queue.rec, progress)
  PROVE  Shape'
<1>1. queue.rec \in Recording /\ queue.rec \in queue.todo /\ queue.step = op /\ TypeOK
      /\ call["queue"].state = "answered"
  BY DEF Replied, Answered, TypeInv, Shape, Passes, TypeOK
<1>2. /\ record' = [record EXCEPT ![queue.rec] = progress]
      /\ Continue(queue.rec, progress)
      /\ UNCHANGED << manifest, recorder, server, left >>
  BY DEF Save
<1>3. PICK next \in {"put", "finalize"}, ps \in SUBSET Part :
        /\ Ask("queue", next, queue.rec, progress.meeting, progress.upload, ps)
        /\ next = "finalize" => ps = Part
        /\ queue' = [queue EXCEPT !.step = next]
  BY <1>1, <1>2, ContinueEffect
<1>4. /\ progress.meeting \in {0} \cup Meeting /\ progress.meeting # 0
      /\ progress.upload \in {0} \cup Upload /\ progress.upload # 0
      /\ "queue" \in Client /\ next \in Op
  BY DEF Progress, Meeting, Upload, Client, Op
<1>5. /\ queue'.step = next /\ queue'.rec = queue.rec /\ queue'.todo = queue.todo
      /\ queue'.meeting = queue.meeting
  BY <1>1, <1>3 DEF TypeOK
<1>6. Requests' /\ AskedOnce' /\ Waits'
  BY <1>1, <1>2, <1>3, <1>4, <1>5, AskWires
<1>7. call'["queue"].state = "waiting" /\ \A d \in Client \ {"queue"} : call'[d] = call[d]
  BY <1>1, <1>3, <1>4, AskEffect
<1>8. record'[queue.rec] = progress /\ progress # NoRecord
  BY <1>1, <1>2 DEF TypeOK, NoRecord, Progress, Meeting
<1>9. Passes'
  BY <1>1, <1>2, <1>5, <1>7, <1>8 DEF TypeInv, Shape, Passes, Op
<1>10. Records' /\ Told'
  BY <1>2, <1>7 DEF TypeInv, Shape, Records, Told, Accepted, Client
<1> QED
  BY <1>6, <1>9, <1>10 DEF Shape

\* No step breaks the shape of a request, a wait or a pass.
LEMMA ShapeStep ==
  ASSUME TypeInv, [Next]_vars
  PROVE  Shape'
<1>0. TypeOK /\ TypeOK'
  BY TypeStep DEF TypeInv
<1>1. ASSUME NEW r \in Recording, Press(r) PROVE Shape'
  <2>1. /\ recorder.asked = None /\ recorder' = [recorder EXCEPT !.asked = r]
        /\ Ask("recorder", "declare", r, 0, 0, {}) /\ manifest[r].state = "none"
        /\ UNCHANGED << disk, queue, server, left >>
    BY <1>1 DEF Press
  <2>2. "recorder" \in Client /\ "declare" \in Op /\ {} \in SUBSET Part
    BY DEF Client, Op
  <2>3. call["recorder"].state = "none"
    BY <2>1 DEF TypeInv, Shape, Records
  <2>4. recorder'.asked = r /\ recorder'.state = recorder.state /\ recorder'.rec = recorder.rec
    BY <1>0, <2>1 DEF TypeOK
  <2>5. Requests' /\ AskedOnce' /\ Waits'
    BY <2>1, <2>2, <2>3, <2>4, AskWires
  <2>6. call'["recorder"].state = "waiting" /\ \A d \in Client \ {"recorder"} : call'[d] = call[d]
    BY <1>0, <2>1, <2>2, AskEffect
  <2>7. Passes' /\ Records' /\ Told'
    BY <2>1, <2>4, <2>6, UploadAssumption
       DEF TypeInv, Shape, Passes, Records, Told, Accepted, Client, disk
  <2> QED
    BY <2>5, <2>7 DEF Shape
<1>2. ASSUME NEW r \in Recording, NEW m \in {0} \cup Meeting, StartWith(r, m),
             manifest[r].state = "none", UNCHANGED << record, queue, wire >>,
             call'["recorder"].state = "none", call'["queue"] = call["queue"],
             call["recorder"].state # "waiting"
      PROVE  Shape'
  <2>1. /\ recorder'.asked = None
        /\ \A x \in Recording \ {r} : manifest'[x] = manifest[x]
        /\ recorder'.state = "recording" /\ recorder.state # "recording" =>
             recorder'.rec = r /\ manifest'[r].state = "recording"
        /\ recorder.state = "recording" => UNCHANGED << recorder.state, recorder.rec >>
        /\ recorder.state # "idle" => recorder'.state = recorder.state
    <3>1. CASE recorder.state = "idle"
      BY <1>0, <1>2, <3>1 DEF StartWith, TypeOK
    <3>2. CASE recorder.state # "idle"
      <4>1. /\ recorder' = [recorder EXCEPT !.asked = None]
            /\ manifest' = [manifest EXCEPT ![r].state = "refused"]
        BY <1>2, <3>2 DEF StartWith
      <4> QED
        BY <1>0, <3>2, <4>1 DEF TypeOK
    <3> QED
      BY <3>1, <3>2
  <2>2. Requests' /\ AskedOnce' /\ Waits'
    BY <1>2, QuietWires DEF Client
  <2>3. r \notin queue.todo
    BY <1>2 DEF TypeInv, Shape, Passes
  <2>4. \A x \in queue.todo : manifest'[x] = manifest[x]
    BY <1>0, <2>1, <2>3 DEF TypeOK
  <2>5. Passes
    BY DEF TypeInv, Shape
  <2>6. Passes'
    BY <1>2, <2>4, <2>5 DEF Passes, Op
  <2>7. Records'
    BY <1>0, <1>2, <2>1, UploadAssumption DEF TypeInv, Shape, Records, TypeOK
  <2>8. Told'
    BY <1>2 DEF TypeInv, Shape, Told, Accepted
  <2> QED
    BY <2>2, <2>6, <2>7, <2>8 DEF Shape
<1>3. ASSUME NEW r \in Recording, PressOffline(r) PROVE Shape'
  BY <1>2, <1>3 DEF PressOffline, TypeInv, Shape, Records
<1>4. ASSUME Announced PROVE Shape'
  <2> DEFINE m == IF call["recorder"].ok THEN call["recorder"].id ELSE 0
  <2>1. recorder.asked \in Recording /\ manifest[recorder.asked].state = "none"
    BY <1>0, <1>4 DEF Announced, Answered, TypeInv, Shape, Records, TypeOK
  <2>2. m \in {0} \cup Meeting
    BY <1>4 DEF Announced, Answered, TypeInv, Shape, Told, Accepted
  <2>3. /\ StartWith(recorder.asked, m) /\ UNCHANGED << record, queue, wire >>
        /\ call["recorder"].state = "answered"
        /\ call' = [call EXCEPT !["recorder"] = Silence]
    BY <1>4 DEF Announced, Answered
  <2>4. call'["recorder"].state = "none" /\ call'["queue"] = call["queue"]
    BY <1>0, <2>3 DEF TypeOK, Silence, Client
  <2> HIDE DEF m
  <2> QED
    BY <1>2, <2>1, <2>2, <2>3, <2>4
<1>5. ASSUME RecordingEnds PROVE Shape'
  <2>1. /\ recorder.state = "recording" /\ UNCHANGED << record, queue, call, wire >>
        /\ recorder' = [recorder EXCEPT !.state = "completed"]
    BY <1>5 DEF RecordingEnds
  <2>2. PICK audio \in BOOLEAN :
         manifest' = [manifest EXCEPT ![recorder.rec].state = "uploading",
                                      ![recorder.rec].audio = audio]
    BY <1>5 DEF RecordingEnds
  <2>3. recorder.rec \in Recording /\ manifest[recorder.rec].state = "recording"
    BY <1>0, <2>1 DEF TypeInv, Shape, Records, TypeOK
  <2>4. \A x \in Recording \ {recorder.rec} : manifest'[x] = manifest[x]
    BY <1>0, <2>2 DEF TypeOK
  <2>5. recorder'.state = "completed" /\ recorder'.asked = recorder.asked
    BY <1>0, <2>1 DEF TypeOK
  <2>6. recorder.rec \notin queue.todo /\ recorder.asked # recorder.rec
    BY <2>3, UploadAssumption DEF TypeInv, Shape, Passes, Records
  <2>7. Requests' /\ AskedOnce' /\ Waits'
    BY <2>1, <2>5, QuietWires
  <2>8. Passes' /\ Records' /\ Told'
    BY <1>0, <2>1, <2>4, <2>5, <2>6 DEF TypeInv, Shape, Passes, Records, Told, Accepted, TypeOK
  <2> QED
    BY <2>7, <2>8 DEF Shape
<1>6. ASSUME RecordingFails PROVE Shape'
  <2>1. /\ UNCHANGED << disk, queue, call, wire >>
        /\ recorder' = [recorder EXCEPT !.state = "idle", !.rec = None]
    BY <1>6 DEF RecordingFails
  <2>2. recorder'.state = "idle" /\ recorder'.asked = recorder.asked
    BY <1>0, <2>1 DEF TypeOK
  <2>3. Requests' /\ AskedOnce' /\ Waits'
    BY <2>1, <2>2, QuietWires
  <2>4. Passes' /\ Records' /\ Told'
    BY <2>1, <2>2 DEF TypeInv, Shape, Passes, Records, Told, Accepted, disk
  <2> QED
    BY <2>3, <2>4 DEF Shape
<1>7. ASSUME Sweep PROVE Shape'
  <2>1. /\ queue = AtRest /\ queue' = [queue EXCEPT !.todo = Owed]
        /\ UNCHANGED << disk, recorder, call, wire >>
    BY <1>7 DEF Sweep
  <2>2. queue'.step = queue.step /\ queue'.rec = queue.rec /\ queue'.todo = Owed
        /\ queue.step = "idle"
    BY <1>0, <2>1 DEF TypeOK, AtRest
  <2>3. Requests' /\ AskedOnce' /\ Waits'
    BY <2>1, <2>2, QuietWires
  <2>4. Passes'
    <3>1. \A r \in Owed : manifest[r].state = "uploading"
      BY DEF Owed
    <3>2. call["queue"].state = "none"
      BY <2>2 DEF TypeInv, Shape, Passes, Op
    <3>3. queue'.todo = Owed /\ queue'.step = "idle" /\ UNCHANGED << manifest, call >>
      BY <2>1, <2>2 DEF disk
    <3> QED
      BY <3>1, <3>2, <3>3 DEF Passes, Op
  <2>5. Records' /\ Told'
    BY <2>1, <2>2 DEF TypeInv, Shape, Records, Told, Accepted, disk, Op
  <2> QED
    BY <2>3, <2>4, <2>5 DEF Shape
<1>8. ASSUME NEW r \in Recording, Attempt(r) PROVE Shape'
  <2> DEFINE m == IF record[r] # NoRecord THEN record[r].meeting ELSE manifest[r].server
             op == IF record[r] # NoRecord THEN "resume"
                   ELSE IF m # 0 THEN "start" ELSE "declare"
  <2>1. /\ Ask("queue", op, r, m, 0, {}) /\ r \in queue.todo /\ queue.step = "idle"
        /\ queue' = [queue EXCEPT !.rec = r, !.step = op, !.meeting = m]
        /\ UNCHANGED << disk, recorder, server, left >>
    BY <1>8 DEF Attempt
  <2>2. m \in {0} \cup Meeting /\ op \in {"resume", "start", "declare"}
        /\ (op = "resume" <=> record[r] # NoRecord) /\ (op = "start" => m # 0)
        /\ (op = "resume" => m # 0)
    BY <1>0 DEF TypeOK, Progress, Manifest, Meeting
  <2>3. "queue" \in Client /\ op \in Op /\ {} \in SUBSET Part
    BY <2>2 DEF Op, Client
  <2> HIDE DEF m, op
  <2>4. queue'.rec = r /\ queue'.step = op /\ queue'.meeting = m /\ queue'.todo = queue.todo
    BY <1>0, <2>1 DEF TypeOK
  <2>5. call["queue"].state = "none"
    BY <2>1 DEF TypeInv, Shape, Passes, Op
  <2>6. Requests' /\ AskedOnce' /\ Waits'
    <3>1. 0 \in {0} \cup Upload /\ (op # "declare" => m # 0) /\ op \notin {"put", "finalize"}
      BY <2>2
    <3> QED
      BY <2>1, <2>2, <2>3, <2>4, <2>5, <3>1, AskWires
  <2>7. call'["queue"].state = "waiting" /\ \A d \in Client \ {"queue"} : call'[d] = call[d]
    BY <1>0, <2>1, <2>2, <2>3, AskEffect
  <2>8. Passes'
    BY <2>1, <2>2, <2>4, <2>7 DEF TypeInv, Shape, Passes, disk, Op
  <2>9. Records' /\ Told'
    BY <2>1, <2>7 DEF TypeInv, Shape, Records, Told, Accepted, disk, Client
  <2> QED
    BY <2>6, <2>8, <2>9 DEF Shape
<1>9. ASSUME NEW r \in Recording, Skip(r) PROVE Shape'
  <2>1. /\ queue.step = "idle" /\ queue' = [queue EXCEPT !.todo = queue.todo \ {r}]
        /\ UNCHANGED << disk, recorder, call, wire >>
    BY <1>9 DEF Skip
  <2>2. queue'.step = queue.step /\ queue'.rec = queue.rec /\ queue'.todo = queue.todo \ {r}
    BY <1>0, <2>1 DEF TypeOK
  <2>3. Requests' /\ AskedOnce' /\ Waits'
    BY <2>1, <2>2, QuietWires
  <2>4. Passes' /\ Records' /\ Told'
    BY <2>1, <2>2 DEF TypeInv, Shape, Passes, Records, Told, Accepted, disk, Op
  <2> QED
    BY <2>3, <2>4 DEF Shape
<1>10. ASSUME Declared PROVE Shape'
  <2> DEFINE m == call["queue"].id
  <2>1. /\ Ask("queue", "start", queue.rec, m, 0, {})
        /\ queue' = [queue EXCEPT !.step = "start", !.meeting = m]
        /\ UNCHANGED << disk, recorder, server, left >>
        /\ queue.step = "declare" /\ call["queue"].state = "answered"
    BY <1>10 DEF Declared, Replied, Answered
  <2>2. m \in Meeting /\ m # 0 /\ queue.rec \in Recording
    BY <1>10 DEF Declared, Replied, Answered, TypeInv, Shape, Told, Accepted, Passes, TypeOK,
                 Meeting
  <2>3. "queue" \in Client /\ "start" \in Op /\ {} \in SUBSET Part
    BY DEF Client, Op
  <2> HIDE DEF m
  <2>4. /\ queue'.rec = queue.rec /\ queue'.step = "start" /\ queue'.meeting = m
        /\ queue'.todo = queue.todo
    BY <1>0, <2>1 DEF TypeOK
  <2>5. Requests' /\ AskedOnce' /\ Waits'
    BY <2>1, <2>2, <2>3, <2>4, AskWires
  <2>6. call'["queue"].state = "waiting" /\ \A d \in Client \ {"queue"} : call'[d] = call[d]
    BY <1>0, <2>1, <2>2, <2>3, AskEffect
  <2>7. Passes'
    BY <2>1, <2>2, <2>4, <2>6 DEF TypeInv, Shape, Passes, disk, Op
  <2>8. Records' /\ Told'
    BY <2>1, <2>6 DEF TypeInv, Shape, Records, Told, Accepted, disk, Client
  <2> QED
    BY <2>5, <2>7, <2>8 DEF Shape
<1>11. ASSUME Started PROVE Shape'
  <2> DEFINE progress == [meeting |-> queue.meeting, upload |-> call["queue"].id, confirmed |-> {}]
  <2>1. Replied("start") /\ Save(queue.rec, progress)
    BY <1>11 DEF Started
  <2>2. progress \in Progress
    BY <1>0, <2>1 DEF Replied, Answered, TypeInv, Shape, Told, Accepted, Passes, TypeOK, Progress
  <2> QED
    BY <2>1, <2>2, SaveShape
<1>12. ASSUME Resumed PROVE Shape'
  <2> DEFINE known == record[queue.rec]
             progress == IF known.upload = call["queue"].id THEN known
                         ELSE [known EXCEPT !.upload = call["queue"].id, !.confirmed = {}]
  <2>1. Replied("resume") /\ Save(queue.rec, progress)
    BY <1>12 DEF Resumed
  <2>2. known \in Progress /\ call["queue"].id \in Upload
    BY <1>0, <2>1 DEF Replied, Answered, TypeInv, Shape, Told, Accepted, Passes, TypeOK, Op
  <2>3. \A x \in Progress, u \in Upload : [x EXCEPT !.upload = u, !.confirmed = {}] \in Progress
    BY DEF Progress
  <2>4. progress \in Progress
    BY <2>2, <2>3
  <2> QED
    BY <2>1, <2>4, SaveShape
<1>13. ASSUME PartAccepted PROVE Shape'
  <2> DEFINE known == record[queue.rec]
             progress == [known EXCEPT !.confirmed = @ \cup {call["queue"].id}]
  <2>1. Replied("put") /\ Save(queue.rec, progress)
    BY <1>13 DEF PartAccepted
  <2>2. known \in Progress /\ call["queue"].id \in Part
    BY <1>0, <2>1 DEF Replied, Answered, TypeInv, Shape, Told, Accepted, Passes, TypeOK, Op
  <2>3. \A x \in Progress, p \in Part : [x EXCEPT !.confirmed = @ \cup {p}] \in Progress
    BY DEF Progress
  <2>4. progress \in Progress
    BY <2>2, <2>3
  <2> QED
    BY <2>1, <2>4, SaveShape
<1>14. ASSUME call' = [call EXCEPT !["queue"] = Silence]
       PROVE  call'["queue"].state = "none" /\ \A d \in Client \ {"queue"} : call'[d] = call[d]
  BY <1>0, <1>14 DEF TypeOK, Silence, Client
<1>15. ASSUME Finalized PROVE Shape'
  <2>1. /\ queue.step = "finalize" /\ queue' = [queue EXCEPT !.step = "forget"]
        /\ call' = [call EXCEPT !["queue"] = Silence] /\ call["queue"].state = "answered"
        /\ manifest' = [manifest EXCEPT ![queue.rec].state = "uploaded"]
        /\ UNCHANGED << record, recorder, wire >>
    BY <1>15 DEF Finalized, Replied, Answered
  <2>2. /\ queue'.rec = queue.rec /\ queue'.step = "forget" /\ queue'.todo = queue.todo
    BY <1>0, <2>1 DEF TypeOK
  <2>3. /\ queue.rec \in Recording /\ queue.rec \in queue.todo
        /\ manifest[queue.rec].state = "uploading"
    BY <1>0, <2>1 DEF TypeInv, Shape, Passes, TypeOK
  <2>4. /\ \A x \in Recording \ {queue.rec} : manifest'[x] = manifest[x]
        /\ manifest'[queue.rec].state = "uploaded"
    <3>1. manifest[queue.rec] \in Manifest
      BY <1>0, <2>3 DEF TypeOK
    <3>2. [manifest[queue.rec] EXCEPT !.state = "uploaded"].state = "uploaded"
      BY <3>1 DEF Manifest
    <3> QED
      BY <1>0, <2>1, <2>3, <3>2 DEF TypeOK
  <2>5. Requests' /\ AskedOnce' /\ Waits'
    BY <1>14, <2>1, QuietWires DEF Client
  <2>6. queue'.rec \in queue'.todo /\ queue'.todo \subseteq Recording
    BY <1>0, <2>2, <2>3 DEF TypeOK
  <2>7. Passes'
    BY <1>14, <2>1, <2>2, <2>3, <2>4, <2>6 DEF TypeInv, Shape, Passes, Op
  <2>8. Records' /\ Told'
    BY <1>0, <1>14, <2>1, <2>3, <2>4, UploadAssumption
       DEF TypeInv, Shape, Records, Told, Accepted, Client, TypeOK
  <2> QED
    BY <2>5, <2>7, <2>8 DEF Shape
<1>16. /\ NextJob.step = "idle" /\ NextJob.todo = queue.todo \ {queue.rec} /\ NextJob.meeting = 0
       /\ NextJob.rec = None
  BY DEF NextJob, AtRest
<1>17. ASSUME Forget PROVE Shape'
  <2>1. /\ queue.step = "forget" /\ queue' = NextJob
        /\ UNCHANGED << manifest, recorder, call, wire >>
    BY <1>17 DEF Forget
  <2>2. call["queue"].state = "none"
    BY <2>1 DEF TypeInv, Shape, Passes, Op
  <2>3. Requests' /\ AskedOnce' /\ Waits'
    BY <2>1, <2>2, QuietWires
  <2>4. Passes' /\ Records' /\ Told'
    BY <1>16, <2>1, <2>2 DEF TypeInv, Shape, Passes, Records, Told, Accepted, Op
  <2> QED
    BY <2>3, <2>4 DEF Shape
<1>18. ASSUME AttemptFails \/ SaveFails PROVE Shape'
  <2>1. /\ call["queue"].state = "answered" /\ queue' = NextJob
        /\ call' = [call EXCEPT !["queue"] = Silence]
        /\ UNCHANGED << disk, recorder, wire >>
    BY <1>18 DEF AttemptFails, SaveFails, Answered
  <2>2. queue.step # "forget"
    BY <2>1 DEF TypeInv, Shape, Passes, Op
  <2>3. Requests' /\ AskedOnce' /\ Waits'
    BY <1>14, <2>1, QuietWires DEF Client
  <2>4. Passes' /\ Records' /\ Told'
    BY <1>14, <1>16, <2>1, <2>2
       DEF TypeInv, Shape, Passes, Records, Told, Accepted, Op, disk, Client
  <2> QED
    BY <2>3, <2>4 DEF Shape
<1>19. ASSUME Crash PROVE Shape'
  <2>1. /\ recorder' = Off /\ queue' = AtRest /\ call' = [c \in Client |-> Silence]
        /\ wire' = [s \in Slot |-> IF wire[s] = NoRequest THEN NoRequest
                                   ELSE [wire[s] EXCEPT !.by = None]]
        /\ UNCHANGED disk
    BY <1>19 DEF Crash
  <2>2. \A x \in Request : LET y == [x EXCEPT !.by = None] IN
          /\ y.op = x.op /\ y.meeting = x.meeting /\ y.upload = x.upload /\ y.parts = x.parts
          /\ y.open = x.open /\ y.by = None
    BY DEF Request
  <2>3. \A s \in Slot : Sent(s)' =>
          /\ Sent(s)
          /\ wire'[s].op = wire[s].op /\ wire'[s].meeting = wire[s].meeting
          /\ wire'[s].upload = wire[s].upload /\ wire'[s].parts = wire[s].parts
          /\ wire'[s].open = wire[s].open /\ wire'[s].by = None
    BY <1>0, <2>1, <2>2 DEF TypeOK, Sent
  <2>4. Requests' /\ AskedOnce' /\ Waits'
    BY <2>3 DEF TypeInv, Shape, Requests, AskedOnce, Waits
  <2>5. call'["queue"].state = "none" /\ call'["recorder"].state = "none"
    BY <2>1 DEF Silence, Client
  <2>6. Passes' /\ Records' /\ Told'
    BY <2>1, <2>5 DEF Passes, Records, Told, Accepted, AtRest, Off, Op
  <2> QED
    BY <2>4, <2>6 DEF Shape
<1>20. ASSUME NEW s \in Slot, TimesOut(s) PROVE Shape'
  <2>1. /\ Sent(s) /\ wire[s].by # None /\ Answer(s, FALSE, 0)
        /\ wire' = [wire EXCEPT ![s].by = None] /\ UNCHANGED desktop
    BY <1>20 DEF TimesOut, Sent, Answer
  <2>2. \A c \in Client :
           IF wire[s].by = c
           THEN call'[c].state = "answered" /\ call'[c].ok = FALSE /\ call'[c].id = 0
           ELSE call'[c] = call[c]
    BY <1>0, <2>1, AnswerEffect
  <2>3. \A x \in Request : LET y == [x EXCEPT !.by = None] IN
          /\ y.op = x.op /\ y.meeting = x.meeting /\ y.upload = x.upload /\ y.parts = x.parts
          /\ y.open = x.open /\ y.by = None
    BY DEF Request
  <2>4. wire[s] \in Request
    BY <1>0, <2>1 DEF TypeOK, Sent
  <2>5. /\ \A t \in Slot \ {s} : wire'[t] = wire[t] /\ (Sent(t)' <=> Sent(t))
        /\ wire'[s].op = wire[s].op /\ wire'[s].meeting = wire[s].meeting
        /\ wire'[s].upload = wire[s].upload /\ wire'[s].parts = wire[s].parts
        /\ wire'[s].open = wire[s].open /\ wire'[s].by = None
    BY <1>0, <2>1, <2>3, <2>4 DEF TypeOK, Sent
  <2>6. \A t \in Slot : Sent(t) => wire[t].by \in Client \cup {None}
    BY <1>0 DEF TypeOK, Sent, Request
  <2>7. Requests' /\ AskedOnce'
    BY <2>1, <2>5 DEF TypeInv, Shape, Requests, AskedOnce
  <2>8. Waits'
    <3> SUFFICES ASSUME NEW t \in Slot, Sent(t)', wire'[t].by # None
                 PROVE  /\ call'[wire'[t].by].state = "waiting"
                        /\ wire'[t].by = "queue" =>
                             wire'[t].op = queue'.step /\ wire'[t].rec = queue'.rec
                        /\ wire'[t].by = "recorder" =>
                             wire'[t].op = "declare" /\ wire'[t].rec = recorder'.asked
      BY DEF Waits
    <3>1. t # s /\ wire'[t] = wire[t] /\ Sent(t)
      BY <2>5
    <3>2. wire[t].by # wire[s].by
      BY <2>1, <3>1 DEF TypeInv, Shape, AskedOnce
    <3>3. wire[t].by \in Client /\ call'[wire[t].by] = call[wire[t].by]
      BY <2>2, <2>6, <3>1, <3>2
    <3> QED
      BY <2>1, <3>1, <3>3 DEF TypeInv, Shape, Waits, desktop
  <2>9. call[wire[s].by].state = "waiting"
    BY <2>1 DEF TypeInv, Shape, Waits
  <2>10. Passes' /\ Records' /\ Told'
    BY <2>1, <2>2, <2>9 DEF TypeInv, Shape, Passes, Records, Told, Accepted, desktop, Client
  <2> QED
    BY <2>7, <2>8, <2>10 DEF Shape
<1>21. ASSUME NEW s \in Slot, Lost(s) PROVE Shape'
  BY <1>21, DoneShape DEF Lost, Done, Sent
<1>22. ASSUME NEW s \in Slot, HandleDeclare(s) PROVE Shape'
  <2>1. /\ Sent(s) /\ wire[s].op = "declare" /\ Answer(s, TRUE, meetings + 1)
        /\ Pending(s, meetings + 1, 0) /\ meetings < MaxMeetings /\ UNCHANGED desktop
    BY <1>22 DEF HandleDeclare, Arrived, Sent
  <2>2. meetings + 1 \in Meeting /\ meetings + 1 # 0 /\ meetings + 1 \in Nat
    BY <1>0, <2>1, UploadAssumption DEF TypeOK, Meeting
  <2>3. Fits(wire[s].op, meetings + 1)
    BY <2>1, <2>2 DEF Fits
  <2>4. \E m \in {0} \cup Meeting, u \in {0} \cup Upload :
          /\ Pending(s, m, u) /\ m # 0
          /\ wire[s].op \in {"declare", "start", "finalize"}
          /\ wire[s].op \in {"start", "finalize"} => u # 0
    BY <2>1, <2>2
  <2> QED
    BY <2>1, <2>2, <2>3, <2>4, AnswerShape
<1>23. ASSUME NEW s \in Slot, HandleStart(s) PROVE Shape'
  <2> DEFINE id == wire[s].meeting
  <2>1. /\ Sent(s) /\ wire[s].op = "start" /\ Answer(s, TRUE, uploads + 1)
        /\ Pending(s, id, uploads + 1) /\ uploads < MaxUploads /\ UNCHANGED desktop
    BY <1>23 DEF HandleStart, Arrived, Sent
  <2>2. uploads + 1 \in Upload /\ uploads + 1 # 0 /\ uploads + 1 \in Nat
    BY <1>0, <2>1, UploadAssumption DEF TypeOK, Upload
  <2>3. Fits(wire[s].op, uploads + 1)
    BY <2>1, <2>2 DEF Fits
  <2>4. id \in Meeting /\ id # 0
    BY <1>0, <2>1 DEF TypeOK, Sent, Request, TypeInv, Shape, Requests
  <2>5. \E m \in {0} \cup Meeting, u \in {0} \cup Upload :
          /\ Pending(s, m, u) /\ m # 0
          /\ wire[s].op \in {"declare", "start", "finalize"}
          /\ wire[s].op \in {"start", "finalize"} => u # 0
    BY <2>1, <2>2, <2>4
  <2> QED
    BY <2>1, <2>2, <2>3, <2>5, AnswerShape
<1>24. ASSUME NEW s \in Slot, HandleResume(s) PROVE Shape'
  <2> DEFINE id == row[wire[s].meeting].upload
  <2>1. /\ Sent(s) /\ wire[s].op = "resume" /\ Answer(s, TRUE, id) /\ Done(s) /\ id # 0
        /\ UNCHANGED desktop
    BY <1>24 DEF HandleResume, Arrived, Sent
  <2>2. wire[s].meeting \in Meeting
    BY <1>0, <2>1 DEF TypeOK, Sent, Request, TypeInv, Shape, Requests
  <2>3. id \in Upload /\ id \in Nat
    BY <1>0, <2>1, <2>2 DEF TypeOK, Row, Upload
  <2>4. Fits(wire[s].op, id)
    BY <2>1, <2>3 DEF Fits
  <2> HIDE DEF id
  <2> QED
    BY <2>1, <2>3, <2>4, AnswerShape
<1>25. ASSUME NEW s \in Slot, HandlePut(s) PROVE Shape'
  <2>1. PICK p \in wire[s].parts : Answer(s, TRUE, p)
    BY <1>25 DEF HandlePut
  <2>2. Sent(s) /\ wire[s].op = "put" /\ Done(s) /\ UNCHANGED desktop
    BY <1>25 DEF HandlePut, Arrived, Sent
  <2>3. p \in Part /\ p \in Nat
    BY <1>0, <2>2 DEF TypeOK, Sent, Request, Part
  <2>4. Fits(wire[s].op, p)
    BY <2>2, <2>3 DEF Fits
  <2> QED
    BY <2>1, <2>2, <2>3, <2>4, AnswerShape
<1>26. ASSUME NEW s \in Slot, HandleFinalize(s) PROVE Shape'
  <2> DEFINE id == wire[s].meeting
  <2>1. /\ Sent(s) /\ wire[s].op = "finalize" /\ Answer(s, TRUE, id)
        /\ Pending(s, id, wire[s].upload) /\ UNCHANGED desktop
    BY <1>26 DEF HandleFinalize, Arrived, Sent
  <2>2. id \in Meeting /\ id # 0 /\ id \in Nat /\ wire[s].upload # 0 /\ wire[s].upload \in {0} \cup Upload
    BY <1>0, <2>1 DEF TypeOK, Sent, Request, TypeInv, Shape, Requests, Meeting
  <2>3. Fits(wire[s].op, id)
    BY <2>1 DEF Fits
  <2> HIDE DEF id
  <2>4. \E m \in {0} \cup Meeting, u \in {0} \cup Upload :
          /\ Pending(s, m, u) /\ m # 0
          /\ wire[s].op \in {"declare", "start", "finalize"}
          /\ wire[s].op \in {"start", "finalize"} => u # 0
    BY <2>1, <2>2
  <2> QED
    BY <2>1, <2>2, <2>3, <2>4, AnswerShape
<1>27. ASSUME NEW s \in Slot, Sent(s), Answer(s, FALSE, 0), Done(s), UNCHANGED desktop
       PROVE  Shape'
  BY <1>27, AnswerShape
<1>28. ASSUME NEW s \in Slot, RefuseFinalize(s) PROVE Shape'
  BY <1>27, <1>28 DEF RefuseFinalize, Arrived, Sent
<1>29. ASSUME NEW s \in Slot, Refuse(s) PROVE Shape'
  BY <1>27, <1>29 DEF Refuse, Unacceptable, Arrived, Sent
<1>30. ASSUME NEW s \in Slot, Unavailable(s) PROVE Shape'
  BY <1>27, <1>30 DEF Unavailable, Sent
<1>31. ASSUME NEW s \in Slot, Commit(s) PROVE Shape'
  <2>1. Sent(s) /\ wire[s].by = None /\ Done(s) /\ UNCHANGED << desktop, call >>
    BY <1>31 DEF Commit, Sent, TypeInv, Shape, Requests
  <2> QED
    BY <2>1, DoneShape
<1>32. ASSUME NEW s \in Slot, Rollback(s) PROVE Shape'
  <2>1. Sent(s) /\ wire[s].by = None /\ Done(s) /\ UNCHANGED << desktop, call >>
    BY <1>32 DEF Rollback, Sent, TypeInv, Shape, Requests
  <2> QED
    BY <2>1, DoneShape
<1>33. ASSUME UNCHANGED << desktop, call, wire >> PROVE Shape'
  BY <1>33 DEF TypeInv, Shape, Requests, AskedOnce, Waits, Passes, Records, Told, Sent, Accepted,
               desktop
<1>34. ASSUME NEW m \in Meeting, Cancel(m) PROVE Shape'
  BY <1>33, <1>34 DEF Cancel
<1>35. CASE UNCHANGED vars
  BY <1>33, <1>35 DEF vars, desktop
<1> QED
  BY <1>1, <1>3, <1>4, <1>5, <1>6, <1>7, <1>8, <1>9, <1>10, <1>11, <1>12, <1>13, <1>15, <1>17,
     <1>18, <1>19, <1>20, <1>21, <1>22, <1>23, <1>24, <1>25, <1>26, <1>28, <1>29, <1>30, <1>31,
     <1>32, <1>34, <1>35
     DEF Next, RecorderStep, QueueStep, ServerStep, FaultStep, Handle

\* Both hold at the start.
LEMMA TypeInit ==
  Init => TypeInv
<1> SUFFICES ASSUME Init PROVE TypeInv
  OBVIOUS
<1> USE UploadAssumption
<1>1. TypeOK
  <2>1. manifest \in [Recording -> Manifest]
    BY DEF Init, Manifest
  <2>2. record \in [Recording -> Progress \cup {NoRecord}]
    BY DEF Init
  <2>3. recorder \in [state : {"idle", "recording", "completed"},
                   rec : Recording \cup {None}, asked : Recording \cup {None}]
    BY DEF Init, Off
  <2>4. queue \in Pass /\ call \in [Client -> Call] /\ wire \in [Slot -> Request \cup {NoRequest}]
    BY DEF Init, AtRest, Pass, Call, Silence
  <2>5. row \in [Meeting -> Row]
    BY DEF Init, NoRow, Row
  <2>6. store \in [Upload -> Multipart] /\ object \in [Meeting -> Content]
    BY DEF Init, Nothing, Multipart, Content
  <2>7. /\ meetings \in 0 .. MaxMeetings /\ uploads \in 0 .. MaxUploads /\ resent \in Nat
        /\ left \in [{"timeouts", "crashes", "refusals", "rollbacks", "saves"} -> Nat]
    BY DEF Init
  <2> QED
    BY <2>1, <2>2, <2>3, <2>4, <2>5, <2>6, <2>7 DEF TypeOK, Pass, Call
<1>2. Shape
  BY DEF Init, Shape, Requests, AskedOnce, Waits, Passes, Records, Told, Sent, Accepted,
         AtRest, Off, Silence, Client, Op
<1> QED
  BY <1>1, <1>2 DEF TypeInv

\* Every value stays in its range, and requests, waits and passes in shape.
THEOREM TypeCorrect == Spec => []TypeInv
<1>1. TypeInv /\ [Next]_vars => TypeInv'
  BY TypeStep, ShapeStep DEF TypeInv
<1> QED
  BY <1>1, TypeInit, PTL DEF Spec

-----------------------------------------------------------------------------
(* What the server holds is only added to.                                 *)

Extends(f, g, A, B) == \A x \in A, y \in B : f[x] = y => g[x] = y
Grows(owner, newOwner, of, newOf) ==
  Extends(owner, newOwner, Meeting, Recording) /\ Extends(of, newOf, Recording, Meeting)

KeepsUpload(u) ==
  /\ store'[u].key = store[u].key
  /\ store'[u].open => store[u].open
  /\ \A p \in Part : store[u].parts[p] # None /\ store'[u].open =>
       store'[u].parts[p] = store[u].parts[p]

Advances ==
  /\ \A u \in Upload : store[u].key # 0 => KeepsUpload(u)
  /\ \A m \in Meeting, r \in Recording : object[m] = Whole(r) => object'[m] = Whole(r)
  /\ \A m \in Meeting : row[m].status # "ABSENT" => row'[m].status # "ABSENT"

LEMMA QuietAdvances ==
  ASSUME UNCHANGED << row, store, object >>
  PROVE  Advances
  BY DEF Advances, KeepsUpload

\* A request that does not change stays in agreement while the server advances.
LEMMA CarriedKept ==
  ASSUME TypeInv, Advances, NEW owner, NEW of, NEW newOwner, NEW newOf,
         Grows(owner, newOwner, of, newOf),
         NEW s \in Slot, Sent(s), Carried(owner, of, s),
         wire'[s].op = wire[s].op, wire'[s].rec = wire[s].rec,
         wire'[s].meeting = wire[s].meeting, wire'[s].upload = wire[s].upload,
         wire'[s].open = wire[s].open,
         wire'[s].by = "queue" => /\ wire[s].by = "queue" /\ queue'.meeting = queue.meeting
                                  /\ record'[wire[s].rec] = record[wire[s].rec]
  PROVE  Carried(newOwner, newOf, s)'
<1>1. /\ wire[s].rec \in Recording /\ wire[s].meeting \in {0} \cup Meeting
      /\ wire[s].upload \in {0} \cup Upload
      /\ wire[s].op = "finalize" => wire[s].meeting \in Meeting
      /\ wire[s].open => wire[s].meeting \in Meeting
  BY DEF TypeInv, TypeOK, Sent, Request, Shape, Requests
<1>2. wire[s].meeting # 0 => newOwner[wire[s].meeting] = wire[s].rec
  BY <1>1 DEF Carried, Grows, Extends
<1>3. wire[s].upload # 0 =>
        wire[s].meeting # 0 /\ store'[wire[s].upload].key = wire[s].meeting
  BY <1>1 DEF Carried, Advances, KeepsUpload
<1>4. wire[s].op = "finalize" => newOf[wire[s].rec] = wire[s].meeting
  BY <1>1 DEF Carried, Grows, Extends
<1>5. wire[s].open /\ wire[s].op = "finalize" => object'[wire[s].meeting] = Whole(wire[s].rec)
  BY <1>1 DEF Carried, Advances
<1>6. wire[s].open /\ wire[s].op # "declare" => row'[wire[s].meeting].status # "ABSENT"
  BY <1>1 DEF Carried, Advances
<1> QED
  BY <1>2, <1>3, <1>4, <1>5, <1>6 DEF Carried, Whole

\* So does the disk of a recording whose files do not change.
LEMMA RememberedKept ==
  ASSUME TypeInv, Advances, NEW owner, NEW of, NEW newOwner, NEW newOf,
         Grows(owner, newOwner, of, newOf),
         NEW r \in Recording, Remembered(owner, of, r),
         \/ manifest'[r].server \in {0, manifest[r].server}
         \/ newOwner[manifest'[r].server] = r,
         manifest[r].state = "uploaded" <=> manifest'[r].state = "uploaded",
         record'[r] = record[r], newOf[r] = of[r]
  PROVE  Remembered(newOwner, newOf, r)'
<1>1. /\ record[r] # NoRecord => /\ record[r].meeting \in Meeting /\ record[r].meeting # 0
                                 /\ record[r].upload \in Upload
      /\ record[r] = NoRecord => record[r].confirmed = {}
      /\ record[r].confirmed \subseteq Part
      /\ manifest[r].server # 0 => manifest[r].server \in Meeting
  BY DEF TypeInv, TypeOK, Progress, NoRecord, Manifest, Meeting
<1>2. manifest'[r].server # 0 => newOwner[manifest'[r].server] = r
  BY <1>1 DEF Remembered, Grows, Extends
<1>3. record[r] # NoRecord =>
       /\ newOwner[record[r].meeting] = r
       /\ store'[record[r].upload].key = record[r].meeting
       /\ newOf[r] = record[r].meeting
  BY <1>1 DEF Remembered, Grows, Extends, Advances, KeepsUpload
<1>4. \A p \in record[r].confirmed :
       store'[record[r].upload].open => store'[record[r].upload].parts[p] = r
  <2> SUFFICES ASSUME NEW p \in record[r].confirmed, store'[record[r].upload].open
               PROVE  store'[record[r].upload].parts[p] = r
    OBVIOUS
  <2>1. record[r] # NoRecord /\ p \in Part /\ KeepsUpload(record[r].upload)
    BY <1>1 DEF Remembered, Advances
  <2> QED
    BY <2>1, UploadAssumption DEF Remembered, KeepsUpload
<1>5. manifest[r].state = "uploaded" => \E m \in Meeting : object'[m] = Whole(r)
  BY DEF Remembered, Advances
<1> QED
  BY <1>2, <1>3, <1>4, <1>5 DEF Remembered, Whole

\* So does an answer the queue has not read yet.
LEMMA ConcludedKept ==
  ASSUME TypeInv, Advances, NEW owner, NEW of, NEW newOwner, NEW newOf,
         Grows(owner, newOwner, of, newOf),
         InMemory(owner), Accepted("queue"), call'["queue"] = call["queue"],
         UNCHANGED queue, record'[queue.rec] = record[queue.rec],
         OnDisk(owner, of)
  PROVE  Concluded(newOwner)'
<1> DEFINE id == call["queue"].id  r == queue.rec
<1>1. queue.step \in Op /\ r \in Recording
  BY DEF Accepted, TypeInv, Shape, Passes, TypeOK, Op
<1>2. Concluded(owner)
  BY DEF InMemory
<1>3. queue.step = "declare" => newOwner[id] = r
  BY <1>1, <1>2 DEF Concluded, TypeInv, Shape, Told, Grows, Extends
<1>4. queue.step = "start" => store'[id].key = queue.meeting
  <2>1. queue.step = "start" => id \in Upload /\ queue.meeting # 0
    BY DEF TypeInv, Shape, Told, Passes
  <2> QED
    BY <1>2, <2>1 DEF Concluded, Advances, KeepsUpload
<1>5. queue.step = "resume" => store'[id].key = record[r].meeting
  <2>1. queue.step = "resume" => id \in Upload /\ record[r].meeting # 0
    BY <1>1 DEF TypeInv, Shape, Told, Passes, TypeOK, Progress, Meeting
  <2> QED
    BY <1>2, <2>1 DEF Concluded, Advances, KeepsUpload
<1>6. queue.step = "put" /\ store'[record[r].upload].open => store'[record[r].upload].parts[id] = r
  <2> SUFFICES ASSUME queue.step = "put", store'[record[r].upload].open
               PROVE  store'[record[r].upload].parts[id] = r
    OBVIOUS
  <2>1. id \in Part /\ record[r] # NoRecord
    BY DEF TypeInv, Shape, Told, Passes
  <2>2. record[r].upload \in Upload /\ record[r].meeting # 0
    BY <1>1, <2>1 DEF TypeInv, TypeOK, Progress, Meeting
  <2>3. KeepsUpload(record[r].upload)
    BY <1>1, <2>1, <2>2 DEF OnDisk, Remembered, Advances
  <2> QED
    BY <1>1, <1>2, <2>1, <2>3, UploadAssumption DEF KeepsUpload, Concluded
<1>7. queue.step = "finalize" => \E m \in Meeting : object'[m] = Whole(r)
  BY <1>1, <1>2 DEF Concluded, Advances
<1> QED
  BY <1>3, <1>4, <1>5, <1>6, <1>7 DEF Concluded, Whole

\* The server's own agreement outlives a step that leaves it alone.
LEMMA OnServerKept ==
  ASSUME TypeInv, NEW owner \in Owner, NEW of, NEW newOf,
         Grows(owner, owner, of, newOf), OnServer(owner, of),
         UNCHANGED << row, store, object, meetings, uploads >>
  PROVE  OnServer(owner, newOf)'
<1>1. ASSUME NEW m \in Meeting PROVE Listed(owner, newOf, m)'
  <2>1. Listed(owner, of, m) /\ owner[m] \in Recording \cup {None}
    BY <1>1 DEF OnServer, Owner
  <2>2. row[m].status = "QUEUED" => newOf[owner[m]] = m
    BY <2>1 DEF Listed, Grows, Extends
  <2> QED
    BY <2>1, <2>2 DEF Listed, Nothing, Whole
<1>2. ASSUME NEW u \in Upload PROVE Filled(owner, u)'
  BY <1>2 DEF OnServer, Filled
<1> QED
  BY <1>1, <1>2 DEF OnServer

\* The histories need not grow.
LEMMA Unmoved ==
  ASSUME NEW owner, NEW of
  PROVE  Grows(owner, owner, of, of)
  BY DEF Grows, Extends

\* Only the queue's own call names what the queue holds.
LEMMA QueueWaits ==
  ASSUME TypeInv, NEW s \in Slot, Sent(s), wire[s].by = "queue"
  PROVE  call["queue"].state = "waiting" /\ wire[s].op = queue.step /\ wire[s].rec = queue.rec
  BY UploadAssumption DEF TypeInv, Shape, Waits

\* The requests agree after a step that sends and answers none.
LEMMA WiresQuiet ==
  ASSUME TypeInv, NEW owner, NEW of, InFlight(owner, of),
         UNCHANGED << wire, row, store, object >>,
         call["queue"].state = "waiting" =>
           queue'.meeting = queue.meeting /\ record' = record
  PROVE  InFlight(owner, of)'
<1>1. ASSUME NEW s \in Slot, Sent(s)' PROVE Carried(owner, of, s)'
  <2>1. Sent(s) /\ Carried(owner, of, s) /\ wire'[s] = wire[s]
    BY <1>1 DEF InFlight, Sent
  <2>2. wire[s].by = "queue" => queue'.meeting = queue.meeting /\ record' = record
    BY <2>1, QueueWaits
  <2> QED
    BY <2>1, <2>2, CarriedKept, QuietAdvances, Unmoved
<1> QED
  BY <1>1 DEF InFlight

\* A step of the desktop that asks nothing of the server.
LEMMA QuietStep ==
  ASSUME TypeInv, NEW owner \in Owner, NEW of \in Delivery, Agreed(owner, of),
         UNCHANGED << wire, record, server >>,
         \A r \in Recording :
           /\ \/ manifest'[r].server \in {0, manifest[r].server}
              \/ owner[manifest'[r].server] = r
           /\ manifest[r].state = "uploaded" <=> manifest'[r].state = "uploaded",
         call["queue"].state = "waiting" => queue'.meeting = queue.meeting,
         InMemory(owner)'
  PROVE  Agreed(owner, of)'
<1>1. InFlight(owner, of)'
  BY WiresQuiet DEF Agreed, server
<1>2. OnDisk(owner, of)'
  <2>1. Advances /\ Grows(owner, owner, of, of)
    BY QuietAdvances, Unmoved DEF server
  <2>2. ASSUME NEW r \in Recording PROVE Remembered(owner, of, r)'
    BY <2>1, <2>2, RememberedKept DEF Agreed, OnDisk
  <2> QED
    BY <2>2 DEF OnDisk
<1>3. OnServer(owner, of)'
  BY OnServerKept, Unmoved DEF Agreed, server
<1> QED
  BY <1>1, <1>2, <1>3 DEF Agreed

\* A new request of the desktop joins those on the wire.
LEMMA AskStep ==
  ASSUME TypeInv, NEW owner, NEW of, NEW newOf, InFlight(owner, of),
         Grows(owner, owner, of, newOf),
         NEW c \in Client, NEW op \in Op, NEW r \in Recording,
         NEW m \in {0} \cup Meeting, NEW u \in {0} \cup Upload, NEW ps \in SUBSET Part,
         Ask(c, op, r, m, u, ps), UNCHANGED << row, store, object >>,
         call[c].state # "waiting",
         m # 0 => owner[m] = r,
         u # 0 => m # 0 /\ store[u].key = m,
         op = "finalize" => newOf[r] = m,
         op = "start" => m = queue'.meeting,
         op = "resume" => m = record'[r].meeting,
         op = "put" => u = record'[r].upload,
         c # "queue" => UNCHANGED << queue, record >>
  PROVE  InFlight(owner, newOf)'
<1>0. TypeOK
  BY DEF TypeInv
<1>1. PICK s \in Slot : Posted(s, c, op, r, m, u, ps)
  BY <1>0, AskEffect
<1>2. /\ ~ Sent(s) /\ Sent(s)'
      /\ wire'[s].op = op /\ wire'[s].by = c /\ wire'[s].rec = r
      /\ wire'[s].meeting = m /\ wire'[s].upload = u
      /\ wire'[s].open = FALSE
      /\ \A t \in Slot \ {s} : wire'[t] = wire[t]
  BY <1>1 DEF Posted
<1>3. Carried(owner, newOf, s)'
  BY <1>2 DEF Carried
<1>4. ASSUME NEW t \in Slot \ {s}, Sent(t)' PROVE Carried(owner, newOf, t)'
  <2>1. Sent(t) /\ Carried(owner, of, t) /\ wire'[t] = wire[t]
    BY <1>2, <1>4 DEF InFlight, Sent
  <2>2. wire[t].by = "queue" => UNCHANGED << queue, record >>
    BY <2>1, QueueWaits
  <2> QED
    BY <2>1, <2>2, CarriedKept, QuietAdvances
<1> QED
  BY <1>3, <1>4 DEF InFlight

-----------------------------------------------------------------------------
(* The desktop's steps.                                                    *)

\* The recorder declares a meeting for the recording it is about to take.
LEMMA RecorderAgrees ==
  ASSUME TypeInv, RecorderStep, NEW owner \in Owner, NEW of \in Delivery, Agreed(owner, of)
  PROVE  Agreed(owner, of)'
<1>0. TypeOK
  BY DEF TypeInv
<1>1. ASSUME NEW r \in Recording, Press(r) PROVE Agreed(owner, of)'
  <2>1. /\ recorder.asked = None /\ recorder' = [recorder EXCEPT !.asked = r]
        /\ Ask("recorder", "declare", r, 0, 0, {})
        /\ UNCHANGED << disk, queue, server, left >>
    BY <1>1 DEF Press
  <2>2. "recorder" \in Client /\ "declare" \in Op /\ {} \in SUBSET Part
    BY DEF Client, Op
  <2>3. call["recorder"].state # "waiting"
    BY <2>1 DEF TypeInv, Shape, Records
  <2>4. InFlight(owner, of)'
    BY <2>1, <2>2, <2>3, AskStep, Unmoved DEF Agreed, server, disk
  <2>5. OnDisk(owner, of)'
    <3>1. Advances
      BY <2>1, QuietAdvances DEF server
    <3> QED
      BY <2>1, <3>1, RememberedKept, Unmoved DEF Agreed, OnDisk, disk
  <2>6. call'["recorder"].state = "waiting" /\ call'["queue"] = call["queue"]
    BY <1>0, <2>1, <2>2, AskEffect DEF Client
  <2>7. InMemory(owner)'
    <3>1. Accepted("queue") => Concluded(owner)'
      BY <2>1, <2>6, ConcludedKept, QuietAdvances, Unmoved DEF Agreed, server, disk
    <3> QED
      BY <2>1, <2>6, <3>1 DEF InMemory, Agreed, Accepted
  <2>8. OnServer(owner, of)'
    BY <2>1, OnServerKept, Unmoved DEF Agreed, server
  <2> QED
    BY <2>4, <2>5, <2>7, <2>8 DEF Agreed
<1>2. ASSUME UNCHANGED << queue, record, server >>, call'["queue"] = call["queue"],
             Accepted("recorder")' => Accepted("recorder") /\ call'["recorder"] = call["recorder"]
                                       /\ recorder'.asked = recorder.asked
      PROVE  InMemory(owner)'
  <2>1. Accepted("queue") => Concluded(owner)'
    BY <1>2, ConcludedKept, QuietAdvances, Unmoved DEF Agreed, server
  <2> QED
    BY <1>2, <2>1 DEF InMemory, Agreed, Accepted
<1>3. ASSUME NEW r \in Recording, NEW m \in {0} \cup Meeting, StartWith(r, m),
             manifest[r].state = "none", m # 0 => owner[m] = r
      PROVE  \A x \in Recording :
               /\ \/ manifest'[x].server \in {0, manifest[x].server}
                  \/ owner[manifest'[x].server] = x
               /\ manifest[x].state = "uploaded" <=> manifest'[x].state = "uploaded"
  <2>1. CASE recorder.state = "idle"
    <3>1. manifest' = [manifest EXCEPT ![r] =
                         [state |-> "recording", server |-> m, audio |-> FALSE]]
      BY <1>3, <2>1 DEF StartWith
    <3>2. manifest'[r].server = m /\ manifest'[r].state = "recording"
          /\ \A x \in Recording \ {r} : manifest'[x] = manifest[x]
      BY <1>0, <3>1 DEF TypeOK
    <3> QED
      BY <1>3, <3>2
  <2>2. CASE recorder.state # "idle"
    <3>1. manifest' = [manifest EXCEPT ![r].state = "refused"] /\ manifest[r] \in Manifest
      BY <1>0, <1>3, <2>2 DEF StartWith, TypeOK
    <3>2. manifest'[r].server = manifest[r].server /\ manifest'[r].state = "refused"
          /\ \A x \in Recording \ {r} : manifest'[x] = manifest[x]
      BY <1>0, <3>1 DEF TypeOK, Manifest
    <3> QED
      BY <1>3, <3>2
  <2> QED
    BY <2>1, <2>2
<1>4. ASSUME NEW r \in Recording, PressOffline(r) PROVE Agreed(owner, of)'
  <2>1. /\ StartWith(r, 0) /\ manifest[r].state = "none" /\ recorder.asked = None
        /\ UNCHANGED << record, queue, call, wire, server >>
    BY <1>4 DEF PressOffline
  <2>2. ~ Accepted("recorder")
    BY <2>1 DEF Accepted, TypeInv, Shape, Records
  <2>3. InMemory(owner)'
    BY <1>2, <2>1, <2>2 DEF Accepted
  <2> QED
    BY <1>3, <2>1, <2>3, QuietStep
<1>5. ASSUME Announced PROVE Agreed(owner, of)'
  <2> DEFINE m == IF call["recorder"].ok THEN call["recorder"].id ELSE 0
             r == recorder.asked
  <2>1. /\ StartWith(r, m) /\ call["recorder"].state = "answered"
        /\ call' = [call EXCEPT !["recorder"] = Silence]
        /\ UNCHANGED << record, queue, wire, server >>
    BY <1>5 DEF Announced, Answered
  <2>2. r \in Recording /\ manifest[r].state = "none"
    BY <1>0, <2>1 DEF TypeInv, Shape, Records, TypeOK
  <2>3. m \in {0} \cup Meeting /\ (m # 0 => owner[m] = r)
    BY <2>1 DEF TypeInv, Shape, Told, Accepted, Agreed, InMemory
  <2>4. call'["recorder"].state = "none" /\ call'["queue"] = call["queue"]
    BY <1>0, <2>1 DEF TypeOK, Silence, Client
  <2>5. InMemory(owner)'
    BY <1>2, <2>1, <2>4 DEF Accepted
  <2> HIDE DEF m, r
  <2> QED
    BY <1>3, <2>1, <2>2, <2>3, <2>5, QuietStep
<1>6. ASSUME RecordingEnds PROVE Agreed(owner, of)'
  <2>1. /\ recorder.state = "recording" /\ UNCHANGED << record, queue, call, wire, server >>
        /\ recorder' = [recorder EXCEPT !.state = "completed"]
    BY <1>6 DEF RecordingEnds
  <2>2. PICK audio \in BOOLEAN :
         manifest' = [manifest EXCEPT ![recorder.rec].state = "uploading",
                                      ![recorder.rec].audio = audio]
    BY <1>6 DEF RecordingEnds
  <2>3. recorder.rec \in Recording /\ manifest[recorder.rec].state = "recording"
    BY <1>0, <2>1 DEF TypeInv, Shape, Records, TypeOK
  <2>4. \A x \in Manifest : LET y == [[x EXCEPT !.state = "uploading"] EXCEPT !.audio = audio] IN
          y.server = x.server /\ y.state = "uploading"
    BY DEF Manifest
  <2>5. /\ \A x \in Recording \ {recorder.rec} : manifest'[x] = manifest[x]
        /\ manifest'[recorder.rec].server = manifest[recorder.rec].server
        /\ manifest'[recorder.rec].state = "uploading"
    BY <1>0, <2>2, <2>3, <2>4 DEF TypeOK
  <2>6. recorder'.asked = recorder.asked
    BY <1>0, <2>1 DEF TypeOK
  <2>7. InMemory(owner)'
    BY <1>2, <2>1, <2>6 DEF Accepted
  <2> QED
    BY <2>1, <2>3, <2>5, <2>7, QuietStep
<1>7. ASSUME RecordingFails PROVE Agreed(owner, of)'
  <2>1. /\ UNCHANGED << disk, queue, call, wire, server >>
        /\ recorder' = [recorder EXCEPT !.state = "idle", !.rec = None]
    BY <1>7 DEF RecordingFails
  <2>2. recorder'.asked = recorder.asked
    BY <1>0, <2>1 DEF TypeOK
  <2>3. InMemory(owner)'
    BY <1>2, <2>1, <2>2 DEF Accepted, disk
  <2> QED
    BY <2>1, <2>3, QuietStep DEF disk
<1> QED
  BY <1>1, <1>4, <1>5, <1>6, <1>7 DEF RecorderStep

\* The common end of Started, Resumed and PartAccepted.
LEMMA SaveAgrees ==
  ASSUME TypeInv, NEW owner \in Owner, NEW of \in Delivery, NEW newOf \in Delivery,
         Agreed(owner, of),
         NEW op \in {"start", "resume", "put"}, Replied(op),
         NEW progress \in Progress, Save(queue.rec, progress),
         owner[progress.meeting] = queue.rec,
         store[progress.upload].key = progress.meeting,
         newOf[queue.rec] = progress.meeting,
         \A r \in Recording \ {queue.rec} : newOf[r] = of[r],
         of[queue.rec] \in {0, progress.meeting},
         \A p \in progress.confirmed :
           store[progress.upload].open => store[progress.upload].parts[p] = queue.rec
  PROVE  Agreed(owner, newOf)'
<1>1. /\ TypeOK /\ queue.rec \in Recording /\ queue.step = op
      /\ call["queue"].state = "answered" /\ manifest[queue.rec].state = "uploading"
      /\ call["queue"].ok
  BY DEF Replied, Answered, TypeInv, Shape, Passes, TypeOK
<1>2. /\ record' = [record EXCEPT ![queue.rec] = progress]
      /\ Continue(queue.rec, progress)
      /\ UNCHANGED << manifest, recorder, server, left >>
  BY DEF Save
<1>3. PICK next \in {"put", "finalize"}, ps \in SUBSET Part :
        /\ Ask("queue", next, queue.rec, progress.meeting, progress.upload, ps)
        /\ next = "finalize" => ps = Part
        /\ queue' = [queue EXCEPT !.step = next]
  BY <1>1, <1>2, ContinueEffect
<1>4. /\ progress.meeting \in {0} \cup Meeting /\ progress.meeting # 0
      /\ progress.upload \in {0} \cup Upload /\ progress.upload # 0
      /\ progress.meeting \in Meeting /\ progress.upload \in Upload
      /\ "queue" \in Client /\ next \in Op
  BY DEF Progress, Meeting, Upload, Client, Op
<1>5. Grows(owner, owner, of, newOf)
  <2>1. \A m \in Meeting : m # 0
    BY DEF Meeting
  <2> QED
    BY <1>1, <2>1 DEF Grows, Extends
<1>6. record'[queue.rec] = progress /\ \A r \in Recording \ {queue.rec} : record'[r] = record[r]
  BY <1>1, <1>2 DEF TypeOK
<1>7. InFlight(owner, newOf)'
  BY <1>1, <1>2, <1>3, <1>4, <1>5, <1>6, AskStep DEF Agreed, server
<1>8. Advances
  BY <1>2, QuietAdvances DEF server
<1>9. OnDisk(owner, newOf)'
  <2>1. ASSUME NEW r \in Recording \ {queue.rec} PROVE Remembered(owner, newOf, r)'
    BY <1>2, <1>5, <1>6, <1>8, <2>1, RememberedKept DEF Agreed, OnDisk
  <2>2. progress # NoRecord
    BY <1>4 DEF NoRecord
  <2>3. ASSUME NEW r \in Recording, r = queue.rec PROVE Remembered(owner, newOf, r)'
    <3>1. record'[r] = progress /\ Remembered(owner, of, r)
      BY <1>6, <2>3 DEF Agreed, OnDisk
    <3> QED
      BY <1>1, <1>2, <2>2, <2>3, <3>1 DEF Remembered, server
  <2> QED
    BY <2>1, <2>3 DEF OnDisk
<1>10. call'["queue"].state = "waiting" /\ call'["recorder"] = call["recorder"]
  BY <1>1, <1>3, <1>4, AskEffect DEF Client
<1>11. queue'.meeting = queue.meeting /\ queue'.rec = queue.rec
  BY <1>1, <1>3 DEF TypeOK
<1>12. InMemory(owner)'
  BY <1>2, <1>10, <1>11 DEF InMemory, Agreed, Accepted
<1>13. OnServer(owner, newOf)'
  BY <1>2, <1>5, OnServerKept DEF Agreed, server
<1> QED
  BY <1>7, <1>9, <1>12, <1>13 DEF Agreed

\* The first ticket of a recording fixes the meeting it is sent under.
LEMMA QueueAgrees ==
  ASSUME TypeInv, QueueStep, NEW owner \in Owner, NEW of \in Delivery, Agreed(owner, of)
  PROVE  \E newOf \in Delivery : Agreed(owner, newOf)'
<1>0. TypeOK
  BY DEF TypeInv
<1>1. ASSUME Sweep PROVE Agreed(owner, of)'
  <2>1. /\ queue = AtRest /\ queue' = [queue EXCEPT !.todo = Owed]
        /\ UNCHANGED << disk, recorder, call, wire, server >>
    BY <1>1 DEF Sweep
  <2>2. queue'.meeting = queue.meeting /\ queue.meeting = 0 /\ queue.step = "idle"
    BY <1>0, <2>1 DEF TypeOK, AtRest
  <2>3. ~ Accepted("queue")
    BY <2>2 DEF Accepted, TypeInv, Shape, Passes, Op
  <2>4. InMemory(owner)'
    BY <2>1, <2>2, <2>3 DEF InMemory, Agreed, Accepted
  <2> QED
    BY <2>1, <2>2, <2>4, QuietStep DEF disk
<1>2. ASSUME NEW r \in Recording, Skip(r) PROVE Agreed(owner, of)'
  <2>1. /\ queue.step = "idle" /\ queue' = [queue EXCEPT !.todo = queue.todo \ {r}]
        /\ UNCHANGED << disk, recorder, call, wire, server >>
    BY <1>2 DEF Skip
  <2>2. queue'.meeting = queue.meeting /\ queue'.rec = queue.rec
    BY <1>0, <2>1 DEF TypeOK
  <2>3. ~ Accepted("queue")
    BY <2>1 DEF Accepted, TypeInv, Shape, Passes, Op
  <2>4. InMemory(owner)'
    BY <2>1, <2>2, <2>3 DEF InMemory, Agreed, Accepted
  <2> QED
    BY <2>1, <2>2, <2>4, QuietStep DEF disk
<1>3. ASSUME NEW r \in Recording, Attempt(r) PROVE Agreed(owner, of)'
  <2> DEFINE m == IF record[r] # NoRecord THEN record[r].meeting ELSE manifest[r].server
             op == IF record[r] # NoRecord THEN "resume"
                   ELSE IF m # 0 THEN "start" ELSE "declare"
  <2>1. /\ Ask("queue", op, r, m, 0, {}) /\ queue.step = "idle"
        /\ queue' = [queue EXCEPT !.rec = r, !.step = op, !.meeting = m]
        /\ UNCHANGED << disk, recorder, server, left >>
    BY <1>3 DEF Attempt
  <2>2. m \in {0} \cup Meeting /\ op \in {"resume", "start", "declare"}
        /\ (op = "resume" => m = record[r].meeting)
    BY <1>0 DEF TypeOK, Progress, Manifest, Meeting
  <2>3. m # 0 => owner[m] = r
    BY DEF Agreed, OnDisk, Remembered
  <2>4. "queue" \in Client /\ op \in Op /\ {} \in SUBSET Part /\ 0 \in {0} \cup Upload
    BY <2>2 DEF Op, Client
  <2> HIDE DEF m, op
  <2>5. queue'.rec = r /\ queue'.step = op /\ queue'.meeting = m
    BY <1>0, <2>1 DEF TypeOK
  <2>6. call["queue"].state # "waiting"
    BY <2>1 DEF TypeInv, Shape, Passes, Op
  <2>7. InFlight(owner, of)'
    <3>1. op # "finalize" /\ op # "put"
      BY <2>2
    <3>2. UNCHANGED << row, store, object, record >>
      BY <2>1 DEF server, disk
    <3> QED
      BY <2>1, <2>2, <2>3, <2>4, <2>5, <2>6, <3>1, <3>2, AskStep, Unmoved DEF Agreed
  <2>8. OnDisk(owner, of)'
    <3>1. Advances
      BY <2>1, QuietAdvances DEF server
    <3> QED
      BY <2>1, <3>1, RememberedKept, Unmoved DEF Agreed, OnDisk, disk
  <2>9. call'["queue"].state = "waiting" /\ call'["recorder"] = call["recorder"]
    BY <1>0, <2>1, <2>2, <2>4, AskEffect DEF Client
  <2>10. InMemory(owner)'
    BY <2>1, <2>3, <2>5, <2>9 DEF InMemory, Agreed, Accepted
  <2>11. OnServer(owner, of)'
    BY <2>1, OnServerKept, Unmoved DEF Agreed, server
  <2> QED
    BY <2>7, <2>8, <2>10, <2>11 DEF Agreed
<1>4. ASSUME Declared PROVE Agreed(owner, of)'
  <2> DEFINE m == call["queue"].id
  <2>1. /\ Ask("queue", "start", queue.rec, m, 0, {})
        /\ queue' = [queue EXCEPT !.step = "start", !.meeting = m]
        /\ UNCHANGED << disk, recorder, server, left >>
        /\ queue.step = "declare" /\ call["queue"].state = "answered" /\ Accepted("queue")
    BY <1>4 DEF Declared, Replied, Answered, Accepted
  <2>2. m \in Meeting /\ queue.rec \in Recording
    BY <1>0, <2>1 DEF TypeInv, Shape, Told, Passes, TypeOK
  <2>3. owner[m] = queue.rec
    BY <2>1 DEF Agreed, InMemory, Concluded
  <2>4. "queue" \in Client /\ "start" \in Op /\ {} \in SUBSET Part
    BY DEF Client, Op
  <2> HIDE DEF m
  <2>5. queue'.rec = queue.rec /\ queue'.step = "start" /\ queue'.meeting = m
    BY <1>0, <2>1 DEF TypeOK
  <2>6. InFlight(owner, of)'
    BY <2>1, <2>2, <2>3, <2>4, <2>5, AskStep, Unmoved DEF Agreed, server
  <2>7. OnDisk(owner, of)'
    <3>1. Advances
      BY <2>1, QuietAdvances DEF server
    <3> QED
      BY <2>1, <3>1, RememberedKept, Unmoved DEF Agreed, OnDisk, disk
  <2>8. call'["queue"].state = "waiting" /\ call'["recorder"] = call["recorder"]
    BY <1>0, <2>1, <2>2, <2>4, AskEffect DEF Client
  <2>9. InMemory(owner)'
    BY <2>1, <2>2, <2>3, <2>5, <2>8 DEF InMemory, Agreed, Accepted
  <2>10. OnServer(owner, of)'
    BY <2>1, OnServerKept, Unmoved DEF Agreed, server
  <2> QED
    BY <2>6, <2>7, <2>9, <2>10 DEF Agreed
<1>5. ASSUME Started PROVE \E newOf \in Delivery : Agreed(owner, newOf)'
  <2> DEFINE id == call["queue"].id  r == queue.rec
             progress == [meeting |-> queue.meeting, upload |-> id, confirmed |-> {}]
  <2>1. /\ Replied("start") /\ Save(r, progress) /\ queue.step = "start" /\ Accepted("queue")
    BY <1>5 DEF Started, Replied, Answered, Accepted
  <2>2. /\ queue.meeting \in Meeting /\ id \in Upload /\ r \in Recording
        /\ record[r] = NoRecord /\ manifest[r].state = "uploading" /\ queue.meeting # 0
    BY <1>0, <2>1 DEF TypeInv, Shape, Told, Passes, TypeOK
  <2>3. progress \in Progress /\ progress.meeting = queue.meeting /\ progress.upload = id
        /\ progress.confirmed = {}
    BY <2>2 DEF Progress
  <2>4. owner[queue.meeting] = r /\ store[id].key = queue.meeting
    BY <2>1, <2>2 DEF Agreed, InMemory, Concluded
  <2>5. of[r] = 0
    BY <2>2 DEF Agreed, OnDisk, Remembered
  <2>6. PICK newOf \in Delivery :
          newOf[r] = queue.meeting /\ \A x \in Recording \ {r} : newOf[x] = of[x]
    <3>1. [of EXCEPT ![r] = queue.meeting] \in Delivery
      BY <2>2 DEF Delivery
    <3> QED
      BY <2>2, <3>1 DEF Delivery
  <2> HIDE DEF progress
  <2>7. Agreed(owner, newOf)'
    BY <2>1, <2>2, <2>3, <2>4, <2>5, <2>6, SaveAgrees
  <2> QED
    BY <2>6, <2>7
<1>6. ASSUME Resumed PROVE Agreed(owner, of)'
  <2> DEFINE known == record[queue.rec]  id == call["queue"].id
             progress == IF known.upload = id THEN known
                         ELSE [known EXCEPT !.upload = id, !.confirmed = {}]
  <2>1. Replied("resume") /\ Save(queue.rec, progress) /\ queue.step = "resume" /\ Accepted("queue")
    BY <1>6 DEF Resumed, Replied, Answered, Accepted
  <2>2. known \in Progress /\ id \in Upload /\ queue.rec \in Recording /\ known # NoRecord
    BY <1>0, <2>1 DEF TypeInv, Shape, Told, Passes, TypeOK
  <2>3. \A x \in Progress, u \in Upload :
          LET y == [x EXCEPT !.upload = u, !.confirmed = {}] IN
          y \in Progress /\ y.meeting = x.meeting /\ y.upload = u /\ y.confirmed = {}
    BY DEF Progress
  <2>4. /\ progress \in Progress /\ progress.meeting = known.meeting /\ progress.upload = id
        /\ progress.confirmed = {} \/ (progress.confirmed = known.confirmed /\ known.upload = id)
    BY <2>2, <2>3
  <2>5. /\ owner[known.meeting] = queue.rec /\ of[queue.rec] = known.meeting
        /\ \A p \in known.confirmed :
             store[known.upload].open => store[known.upload].parts[p] = queue.rec
    BY <2>2 DEF Agreed, OnDisk, Remembered
  <2>6. store[id].key = known.meeting
    BY <2>1 DEF Agreed, InMemory, Concluded
  <2> HIDE DEF progress, known, id
  <2> QED
    BY <2>1, <2>2, <2>4, <2>5, <2>6, SaveAgrees
<1>7. ASSUME PartAccepted PROVE Agreed(owner, of)'
  <2> DEFINE known == record[queue.rec]  id == call["queue"].id
             progress == [known EXCEPT !.confirmed = @ \cup {id}]
  <2>1. Replied("put") /\ Save(queue.rec, progress) /\ queue.step = "put" /\ Accepted("queue")
    BY <1>7 DEF PartAccepted, Replied, Answered, Accepted
  <2>2. known \in Progress /\ id \in Part /\ queue.rec \in Recording /\ known # NoRecord
    BY <1>0, <2>1 DEF TypeInv, Shape, Told, Passes, TypeOK
  <2>3. \A x \in Progress, p \in Part :
          LET y == [x EXCEPT !.confirmed = @ \cup {p}] IN
          /\ y \in Progress /\ y.meeting = x.meeting /\ y.upload = x.upload
          /\ y.confirmed = x.confirmed \cup {p}
    BY DEF Progress
  <2>4. /\ progress \in Progress /\ progress.meeting = known.meeting
        /\ progress.upload = known.upload /\ progress.confirmed = known.confirmed \cup {id}
    BY <2>2, <2>3
  <2>5. /\ owner[known.meeting] = queue.rec /\ of[queue.rec] = known.meeting
        /\ store[known.upload].key = known.meeting
        /\ \A p \in known.confirmed :
             store[known.upload].open => store[known.upload].parts[p] = queue.rec
    BY <2>2 DEF Agreed, OnDisk, Remembered
  <2>6. store[known.upload].open => store[known.upload].parts[id] = queue.rec
    BY <2>1 DEF Agreed, InMemory, Concluded
  <2> HIDE DEF progress, known, id
  <2> QED
    BY <2>1, <2>2, <2>4, <2>5, <2>6, SaveAgrees
<1>8. ASSUME call' = [call EXCEPT !["queue"] = Silence]
       PROVE  call'["queue"].state = "none" /\ call'["recorder"] = call["recorder"]
  BY <1>0, <1>8 DEF TypeOK, Silence, Client
<1>9. ASSUME Finalized PROVE Agreed(owner, of)'
  <2>1. /\ queue.step = "finalize" /\ queue' = [queue EXCEPT !.step = "forget"]
        /\ call' = [call EXCEPT !["queue"] = Silence] /\ Accepted("queue")
        /\ manifest' = [manifest EXCEPT ![queue.rec].state = "uploaded"]
        /\ UNCHANGED << record, recorder, wire, server >>
    BY <1>9 DEF Finalized, Replied, Answered, Accepted
  <2>2. queue'.rec = queue.rec /\ queue'.meeting = queue.meeting
    BY <1>0, <2>1 DEF TypeOK
  <2>3. queue.rec \in Recording
    BY <1>0, <2>1 DEF TypeInv, Shape, Passes, TypeOK
  <2>4. \A x \in Manifest : LET y == [x EXCEPT !.state = "uploaded"] IN
          y.state = "uploaded" /\ y.server = x.server
    BY DEF Manifest
  <2>5. /\ \A x \in Recording \ {queue.rec} : manifest'[x] = manifest[x]
        /\ manifest'[queue.rec].state = "uploaded"
        /\ manifest'[queue.rec].server = manifest[queue.rec].server
    BY <1>0, <2>1, <2>3, <2>4 DEF TypeOK
  <2>6. InFlight(owner, of)'
    BY <2>1, <2>2, WiresQuiet DEF Agreed, server
  <2>7. OnDisk(owner, of)'
    <3>1. Advances /\ Grows(owner, owner, of, of)
      BY <2>1, QuietAdvances, Unmoved DEF server
    <3>2. ASSUME NEW r \in Recording \ {queue.rec} PROVE Remembered(owner, of, r)'
      BY <2>1, <2>5, <3>1, <3>2, RememberedKept DEF Agreed, OnDisk
    <3>3. \E m \in Meeting : object[m] = Whole(queue.rec)
      BY <2>1 DEF Agreed, InMemory, Concluded
    <3>4. Remembered(owner, of, queue.rec)
      BY <2>3 DEF Agreed, OnDisk
    <3>5. Remembered(owner, of, queue.rec)'
      BY <2>1, <2>2, <2>5, <3>3, <3>4 DEF Remembered, server, Whole
    <3> QED
      BY <2>2, <3>2, <3>5 DEF OnDisk
  <2>8. InMemory(owner)'
    BY <1>8, <2>1, <2>2 DEF InMemory, Agreed, Accepted
  <2>9. OnServer(owner, of)'
    BY <2>1, OnServerKept, Unmoved DEF Agreed, server
  <2> QED
    BY <2>6, <2>7, <2>8, <2>9 DEF Agreed
<1>10. NextJob.meeting = 0
  BY DEF NextJob, AtRest
<1>11. ASSUME Forget PROVE Agreed(owner, of)'
  <2>1. /\ queue.step = "forget" /\ queue' = NextJob
        /\ record' = [record EXCEPT ![queue.rec] = NoRecord]
        /\ UNCHANGED << manifest, recorder, call, wire, server >>
    BY <1>11 DEF Forget
  <2>2. call["queue"].state = "none"
    BY <2>1 DEF TypeInv, Shape, Passes, Op
  <2>3. queue.rec \in Recording /\ manifest[queue.rec].state = "uploaded"
    BY <1>0, <2>1 DEF TypeInv, Shape, Passes, TypeOK
  <2>4. InFlight(owner, of)'
    BY <2>1, <2>2, WiresQuiet DEF Agreed, server
  <2>5. OnDisk(owner, of)'
    <3>1. Advances /\ Grows(owner, owner, of, of)
      BY <2>1, QuietAdvances, Unmoved DEF server
    <3>2. record'[queue.rec] = NoRecord /\ \A x \in Recording \ {queue.rec} : record'[x] = record[x]
      BY <1>0, <2>1, <2>3 DEF TypeOK
    <3>3. ASSUME NEW r \in Recording \ {queue.rec} PROVE Remembered(owner, of, r)'
      BY <2>1, <3>1, <3>2, <3>3, RememberedKept DEF Agreed, OnDisk
    <3>4. ASSUME NEW r \in Recording, r = queue.rec PROVE Remembered(owner, of, r)'
      <4>1. Remembered(owner, of, r) /\ record'[r] = NoRecord /\ NoRecord.confirmed = {}
        BY <3>2, <3>4 DEF Agreed, OnDisk, NoRecord
      <4> QED
        BY <2>1, <2>3, <3>4, <4>1 DEF Remembered, server, Whole
    <3> QED
      BY <3>3, <3>4 DEF OnDisk
  <2>6. InMemory(owner)'
    BY <1>10, <2>1, <2>2 DEF InMemory, Agreed, Accepted
  <2>7. OnServer(owner, of)'
    BY <2>1, OnServerKept, Unmoved DEF Agreed, server
  <2> QED
    BY <2>4, <2>5, <2>6, <2>7 DEF Agreed
<1>12. ASSUME AttemptFails PROVE Agreed(owner, of)'
  <2>1. /\ call["queue"].state = "answered" /\ queue' = NextJob
        /\ call' = [call EXCEPT !["queue"] = Silence]
        /\ UNCHANGED << disk, recorder, wire, server >>
    BY <1>12 DEF AttemptFails, Answered
  <2>2. InMemory(owner)'
    BY <1>8, <1>10, <2>1 DEF InMemory, Agreed, Accepted
  <2> QED
    BY <2>1, <2>2, QuietStep DEF disk
<1> QED
  BY <1>1, <1>2, <1>3, <1>4, <1>5, <1>6, <1>7, <1>9, <1>11, <1>12 DEF QueueStep

-----------------------------------------------------------------------------
(* The server's steps.                                                     *)

\* A part, an upload and an object are told from nothing at all.
LEMMA WholeIsSomething ==
  ASSUME NEW r \in Recording
  PROVE  Whole(r) # Nothing /\ \A x \in Recording : Whole(x) = Whole(r) => x = r
<1>1. 1 \in Part
  BY UploadAssumption DEF Part
<1>2. \A x \in Recording : Whole(x)[1] = x
  BY <1>1 DEF Whole
<1>3. Nothing[1] = None
  BY <1>1 DEF Nothing
<1> QED
  BY <1>2, <1>3, UploadAssumption

\* A step of the server leaves the disk and the other requests in agreement.
LEMMA ServerSide ==
  ASSUME TypeInv, Advances, NEW owner, NEW of, NEW newOwner, NEW newOf,
         Grows(owner, newOwner, of, newOf), newOf = of,
         Agreed(owner, of), UNCHANGED desktop,
         \A t \in Slot : Sent(t)' => wire'[t] = wire[t] \/ Carried(newOwner, newOf, t)'
  PROVE  InFlight(newOwner, newOf)' /\ OnDisk(newOwner, newOf)'
<1>1. ASSUME NEW t \in Slot, Sent(t)', wire'[t] = wire[t] PROVE Carried(newOwner, newOf, t)'
  <2>1. Sent(t) /\ Carried(owner, of, t)
    BY <1>1 DEF Sent, Agreed, InFlight
  <2> QED
    BY <1>1, <2>1, CarriedKept DEF desktop
<1>2. ASSUME NEW r \in Recording PROVE Remembered(newOwner, newOf, r)'
  BY <1>2, RememberedKept DEF Agreed, OnDisk, desktop
<1> QED
  BY <1>1, <1>2 DEF InFlight, OnDisk

\* What the desktop was told stays true while the server advances.
LEMMA MemoryKept ==
  ASSUME TypeInv, Advances, NEW owner, NEW of, NEW newOwner, NEW newOf,
         Grows(owner, newOwner, of, newOf), Agreed(owner, of), UNCHANGED << desktop, call >>
  PROVE  InMemory(newOwner)'
<1>1. Accepted("queue") => Concluded(newOwner)'
  BY ConcludedKept DEF Agreed, desktop
<1>2. queue.meeting # 0 => queue.rec \in Recording /\ newOwner[queue.meeting] = queue.rec
  <2>1. queue.meeting # 0 => queue.meeting \in Meeting
    BY DEF TypeInv, TypeOK
  <2> QED
    BY <2>1 DEF Agreed, InMemory, Grows, Extends
<1>3. Accepted("recorder") => newOwner[call["recorder"].id] = recorder.asked
  <2>1. Accepted("recorder") => call["recorder"].id \in Meeting /\ recorder.asked \in Recording
    BY DEF TypeInv, TypeOK, Shape, Told, Records, Accepted
  <2> QED
    BY <2>1 DEF Agreed, InMemory, Grows, Extends
<1> QED
  BY <1>1, <1>2, <1>3 DEF InMemory, Accepted, desktop

\* An answer tells the desktop something true.
LEMMA MemoryAnswered ==
  ASSUME TypeInv, Advances, NEW owner, NEW of, NEW newOwner, NEW newOf,
         Grows(owner, newOwner, of, newOf), Agreed(owner, of), UNCHANGED desktop,
         NEW s \in Slot, Sent(s), NEW ok \in BOOLEAN, NEW id \in Nat, Answer(s, ok, id),
         wire[s].by = "queue" /\ ok /\ call'["queue"].id = id => Concluded(newOwner)',
         wire[s].by = "recorder" /\ ok => newOwner[id] = wire[s].rec
  PROVE  InMemory(newOwner)'
<1>1. \A c \in Client :
           IF wire[s].by = c
           THEN call'[c].state = "answered" /\ call'[c].ok = ok /\ call'[c].id = id
           ELSE call'[c] = call[c]
  BY AnswerEffect DEF TypeInv
<1>2. "queue" \in Client /\ "recorder" \in Client
  BY DEF Client
<1>3. Accepted("queue")' => Concluded(newOwner)'
  <2>1. CASE wire[s].by = "queue"
    BY <1>1, <1>2, <2>1 DEF Accepted
  <2>2. CASE wire[s].by # "queue"
    <3>1. call'["queue"] = call["queue"]
      BY <1>1, <1>2, <2>2
    <3> QED
      BY <3>1, ConcludedKept DEF Agreed, desktop, Accepted
  <2> QED
    BY <2>1, <2>2
<1>4. queue.meeting # 0 => queue.rec \in Recording /\ newOwner[queue.meeting] = queue.rec
  <2>1. queue.meeting # 0 => queue.meeting \in Meeting
    BY DEF TypeInv, TypeOK
  <2> QED
    BY <2>1 DEF Agreed, InMemory, Grows, Extends
<1>5. Accepted("recorder")' => newOwner[call'["recorder"].id] = recorder.asked
  <2>1. CASE wire[s].by = "recorder"
    <3>1. wire[s].rec = recorder.asked
      BY <2>1, UploadAssumption DEF TypeInv, Shape, Waits
    <3> QED
      BY <1>1, <1>2, <2>1, <3>1 DEF Accepted
  <2>2. CASE wire[s].by # "recorder"
    <3>1. call'["recorder"] = call["recorder"]
      BY <1>1, <1>2, <2>2
    <3>2. Accepted("recorder") => call["recorder"].id \in Meeting /\ recorder.asked \in Recording
      BY DEF TypeInv, TypeOK, Shape, Told, Records, Accepted
    <3> QED
      BY <3>1, <3>2 DEF Agreed, InMemory, Grows, Extends, Accepted
  <2> QED
    BY <2>1, <2>2
<1> QED
  BY <1>3, <1>4, <1>5 DEF InMemory, desktop, Accepted

\* A refusal changes nothing but the request and its wait.
LEMMA RefusedAgrees ==
  ASSUME TypeInv, NEW owner \in Owner, NEW of \in Delivery, Agreed(owner, of),
         NEW s \in Slot, Sent(s), Answer(s, FALSE, 0), Done(s), UNCHANGED << desktop, server >>
  PROVE  Agreed(owner, of)'
<1>1. Advances /\ Grows(owner, owner, of, of)
  BY QuietAdvances, Unmoved DEF server
<1>2. InFlight(owner, of)' /\ OnDisk(owner, of)'
  <2>1. \A t \in Slot : Sent(t)' => wire'[t] = wire[t]
    BY DoneEffect DEF TypeInv
  <2> QED
    BY <1>1, <2>1, ServerSide
<1>3. InMemory(owner)'
  BY <1>1, MemoryAnswered
<1>4. OnServer(owner, of)'
  BY <1>1, OnServerKept DEF Agreed, server
<1> QED
  BY <1>2, <1>3, <1>4 DEF Agreed

\* Nor does a request that ends with no answer.
LEMMA DroppedAgrees ==
  ASSUME TypeInv, NEW owner \in Owner, NEW of \in Delivery, Agreed(owner, of),
         NEW s \in Slot, Done(s), UNCHANGED << desktop, server, call >>
  PROVE  Agreed(owner, of)'
<1>1. Advances /\ Grows(owner, owner, of, of)
  BY QuietAdvances, Unmoved DEF server
<1>2. InFlight(owner, of)' /\ OnDisk(owner, of)'
  <2>1. \A t \in Slot : Sent(t)' => wire'[t] = wire[t]
    BY DoneEffect DEF TypeInv
  <2> QED
    BY <1>1, <2>1, ServerSide
<1>3. InMemory(owner)'
  BY <1>1, MemoryKept
<1>4. OnServer(owner, of)'
  BY <1>1, OnServerKept DEF Agreed, server
<1> QED
  BY <1>2, <1>3, <1>4 DEF Agreed

\* A meeting is declared for one recording, and its number is fresh.
LEMMA DeclareAgrees ==
  ASSUME TypeInv, NEW owner \in Owner, NEW of \in Delivery, Agreed(owner, of),
         NEW s \in Slot, HandleDeclare(s)
  PROVE  \E newOwner \in Owner : Agreed(newOwner, of)'
<1> DEFINE m == meetings + 1
<1>1. /\ Sent(s) /\ wire[s].op = "declare" /\ meetings' = m
      /\ Answer(s, TRUE, m) /\ Pending(s, m, 0) /\ meetings < MaxMeetings
      /\ UNCHANGED desktop /\ UNCHANGED << row, store, object, uploads >>
  BY DEF HandleDeclare, Arrived, Sent
<1>2. /\ m \in Meeting /\ m # 0 /\ m \in Nat /\ m > meetings
      /\ \A n \in Meeting : n > m => n > meetings /\ n # m
  BY <1>1, UploadAssumption DEF TypeInv, TypeOK, Meeting
<1>3. wire[s].rec \in Recording
  BY <1>1 DEF TypeInv, TypeOK, Sent, Request
<1>4. owner[m] = None
  BY <1>2 DEF Agreed, OnServer, Listed
<1>5. PICK newOwner \in Owner :
        newOwner[m] = wire[s].rec /\ \A n \in Meeting \ {m} : newOwner[n] = owner[n]
  <2>1. [owner EXCEPT ![m] = wire[s].rec] \in Owner
    BY <1>3 DEF Owner
  <2> QED
    BY <1>2, <2>1 DEF Owner
<1>6. Advances
  BY <1>1, QuietAdvances
<1>7. Grows(owner, newOwner, of, of)
  BY <1>4, <1>5, UploadAssumption DEF Grows, Extends
<1>8. /\ Sent(s)'
      /\ wire'[s].op = wire[s].op /\ wire'[s].rec = wire[s].rec
      /\ wire'[s].meeting = m /\ wire'[s].upload = 0 /\ wire'[s].by = None
      /\ \A t \in Slot \ {s} : wire'[t] = wire[t]
  BY <1>1, <1>2, PendingEffect DEF TypeInv
<1> HIDE DEF m
<1>9. Carried(newOwner, of, s)'
  BY <1>1, <1>5, <1>8, UploadAssumption DEF Carried
<1>10. InFlight(newOwner, of)' /\ OnDisk(newOwner, of)'
  BY <1>1, <1>6, <1>7, <1>8, <1>9, ServerSide
<1>11. InMemory(newOwner)'
  <2>1. ASSUME wire[s].by = "queue", call'["queue"].id = m PROVE Concluded(newOwner)'
    <3>1. queue.step = "declare" /\ wire[s].rec = queue.rec
      BY <1>1, <2>1, QueueWaits
    <3> QED
      BY <1>1, <1>5, <2>1, <3>1 DEF Concluded, desktop
  <2> QED
    BY <1>1, <1>2, <1>5, <1>6, <1>7, <2>1, MemoryAnswered
<1>12. OnServer(newOwner, of)'
  <2>1. ASSUME NEW n \in Meeting, n # m PROVE Listed(newOwner, of, n)'
    <3>1. Listed(owner, of, n) /\ newOwner[n] = owner[n]
      BY <1>5, <2>1 DEF Agreed, OnServer
    <3>2. n > m => n > meetings
      BY <1>2
    <3> QED
      BY <1>1, <3>1, <3>2 DEF Listed, Whole, Nothing
  <2>2. ASSUME NEW n \in Meeting, n = m PROVE Listed(newOwner, of, n)'
    <3>1. Listed(owner, of, n) /\ owner[n] = None
      BY <1>4, <2>2 DEF Agreed, OnServer
    <3>2. row[n].status = "ABSENT" /\ object[n] = Nothing
      BY <3>1 DEF Listed
    <3>3. meetings' = n /\ ~ (n > n)
      BY <1>1, <1>2, <2>2
    <3> QED
      BY <1>1, <3>1, <3>2, <3>3 DEF Listed, Nothing
  <2>3. ASSUME NEW u \in Upload PROVE Filled(newOwner, u)'
    <3>1. Filled(owner, u) /\ store[u].key \in {0} \cup Meeting
      BY DEF Agreed, OnServer, TypeInv, TypeOK, Multipart
    <3>2. \A p \in Part : store[u].parts[p] # None =>
            store[u].key # m /\ newOwner[store[u].key] = owner[store[u].key]
      BY <1>4, <1>5, <3>1 DEF Filled
    <3> QED
      BY <1>1, <3>1, <3>2 DEF Filled
  <2> QED
    BY <2>1, <2>2, <2>3 DEF OnServer
<1> QED
  BY <1>10, <1>11, <1>12 DEF Agreed

\* An upload is opened under the key of the meeting it is asked for.
LEMMA StartAgrees ==
  ASSUME TypeInv, NEW owner \in Owner, NEW of \in Delivery, Agreed(owner, of),
         NEW s \in Slot, HandleStart(s)
  PROVE  Agreed(owner, of)'
<1> DEFINE m == wire[s].meeting  u == uploads + 1
           opened == [key |-> m, open |-> TRUE, parts |-> Nothing]
<1>1. /\ Sent(s) /\ wire[s].op = "start" /\ uploads' = u /\ row[m].status = "CREATED"
      /\ Answer(s, TRUE, u) /\ Pending(s, m, u) /\ uploads < MaxUploads
      /\ store' = [store EXCEPT ![u] = opened]
      /\ UNCHANGED desktop /\ UNCHANGED << row, object, meetings >>
  BY DEF HandleStart, Arrived, Sent
<1>2. /\ u \in Upload /\ u # 0 /\ u \in Nat /\ u > uploads
      /\ \A v \in Upload : v > u => v > uploads /\ v # u
  BY <1>1, UploadAssumption DEF TypeInv, TypeOK, Upload
<1>3. m \in Meeting /\ m # 0 /\ wire[s].rec \in Recording
  BY <1>1 DEF TypeInv, TypeOK, Sent, Request, Shape, Requests
<1>4. store[u].key = 0
  BY <1>2 DEF Agreed, OnServer, Filled
<1>5. /\ store'[u].key = m /\ store'[u].parts = Nothing
      /\ \A v \in Upload \ {u} : store'[v] = store[v]
  BY <1>1, <1>2 DEF TypeInv, TypeOK
<1> HIDE DEF opened
<1>6. Advances
  BY <1>1, <1>4, <1>5 DEF Advances, KeepsUpload
<1>7. Grows(owner, owner, of, of)
  BY Unmoved
<1>8. /\ Sent(s)'
      /\ wire'[s].op = wire[s].op /\ wire'[s].rec = wire[s].rec
      /\ wire'[s].meeting = m /\ wire'[s].upload = u /\ wire'[s].by = None
      /\ \A t \in Slot \ {s} : wire'[t] = wire[t]
  <2>1. TypeOK /\ u \in {0} \cup Upload /\ m \in {0} \cup Meeting
    BY <1>2, <1>3 DEF TypeInv
  <2> HIDE DEF m, u
  <2> QED
    BY <1>1, <2>1, PendingEffect
<1>9. Carried(owner, of, s)
  BY <1>1 DEF Agreed, InFlight
<1>10. ASSUME NEW n, NEW v, n = m, v = u PROVE Carried(owner, of, s)'
  <2>1. wire'[s].meeting = n /\ wire'[s].upload = v /\ store'[v].key = n /\ n # 0
        /\ owner[n] = wire[s].rec /\ row'[n].status # "ABSENT"
    BY <1>1, <1>3, <1>5, <1>8, <1>9, <1>10 DEF Carried
  <2> QED
    BY <1>1, <1>8, <2>1, UploadAssumption DEF Carried
<1>11. InFlight(owner, of)' /\ OnDisk(owner, of)'
  BY <1>1, <1>6, <1>7, <1>8, <1>10, ServerSide
<1>12. InMemory(owner)'
  <2>1. ASSUME wire[s].by = "queue", call'["queue"].id = u PROVE Concluded(owner)'
    <3>1. queue.step = "start" /\ m = queue.meeting
      BY <1>1, <1>9, <2>1, QueueWaits DEF Carried
    <3> QED
      BY <1>1, <1>5, <2>1, <3>1 DEF Concluded, desktop
  <2>2. wire[s].by # "recorder"
    BY <1>1, UploadAssumption DEF TypeInv, Shape, Waits
  <2> HIDE DEF u
  <2> QED
    BY <1>1, <1>2, <1>6, <1>7, <2>1, <2>2, MemoryAnswered
<1>13. OnServer(owner, of)'
  <2>1. ASSUME NEW n \in Meeting PROVE Listed(owner, of, n)'
    <3>1. Listed(owner, of, n)
      BY DEF Agreed, OnServer
    <3>2. row[n].upload # 0 => store'[row[n].upload].key = n
      <4>1. row[n].upload # 0 => row[n].upload \in Upload
        BY DEF TypeInv, TypeOK, Row
      <4>2. n # 0
        BY DEF Meeting
      <4> QED
        BY <1>4, <1>5, <3>1, <4>1, <4>2 DEF Listed
    <3> QED
      BY <1>1, <3>1, <3>2 DEF Listed, Whole, Nothing
  <2>2. ASSUME NEW v \in Upload, v # u PROVE Filled(owner, v)'
    <3>1. Filled(owner, v) /\ store'[v] = store[v] /\ (v > u => v > uploads)
      BY <1>2, <1>5, <2>2 DEF Agreed, OnServer
    <3> QED
      BY <1>1, <3>1 DEF Filled
  <2>3. ASSUME NEW v \in Upload, v = u PROVE Filled(owner, v)'
    <3>1. store'[v].parts = Nothing /\ ~ (v > u)
      BY <1>2, <1>5, <2>3
    <3> QED
      BY <1>1, <3>1 DEF Filled, Nothing
  <2> QED
    BY <2>1, <2>2, <2>3 DEF OnServer
<1> QED
  BY <1>11, <1>12, <1>13 DEF Agreed

\* The ticket names the upload the row names, which is the meeting's.
LEMMA ResumeAgrees ==
  ASSUME TypeInv, NEW owner \in Owner, NEW of \in Delivery, Agreed(owner, of),
         NEW s \in Slot, HandleResume(s)
  PROVE  Agreed(owner, of)'
<1> DEFINE m == wire[s].meeting  u == row[m].upload
<1>1. /\ Sent(s) /\ wire[s].op = "resume" /\ u # 0 /\ Answer(s, TRUE, u) /\ Done(s)
      /\ UNCHANGED desktop /\ UNCHANGED server
  BY DEF HandleResume, Arrived, Sent
<1>2. m \in Meeting /\ u \in Upload /\ u \in Nat
  <2>1. m \in Meeting
    BY <1>1 DEF TypeInv, TypeOK, Sent, Request, Shape, Requests
  <2> QED
    BY <1>1, <2>1 DEF TypeInv, TypeOK, Row, Upload
<1>3. Advances /\ Grows(owner, owner, of, of)
  BY <1>1, QuietAdvances, Unmoved DEF server
<1>4. InFlight(owner, of)' /\ OnDisk(owner, of)'
  <2>1. \A t \in Slot : Sent(t)' => wire'[t] = wire[t]
    BY <1>1, DoneEffect DEF TypeInv
  <2> QED
    BY <1>1, <1>3, <2>1, ServerSide
<1>5. store[u].key = m /\ Carried(owner, of, s)
  BY <1>1, <1>2 DEF Agreed, OnServer, Listed, InFlight
<1>6. InMemory(owner)'
  <2>1. ASSUME wire[s].by = "queue", call'["queue"].id = u PROVE Concluded(owner)'
    <3>1. queue.step = "resume" /\ m = record[queue.rec].meeting
      BY <1>1, <1>5, <2>1, QueueWaits DEF Carried
    <3> QED
      BY <1>1, <1>5, <2>1, <3>1 DEF Concluded, desktop, server
  <2>2. wire[s].by # "recorder"
    BY <1>1, UploadAssumption DEF TypeInv, Shape, Waits
  <2> HIDE DEF u
  <2> QED
    BY <1>1, <1>2, <1>3, <2>1, <2>2, MemoryAnswered
<1>7. OnServer(owner, of)'
  BY <1>1, <1>3, OnServerKept DEF Agreed, server
<1> QED
  BY <1>4, <1>6, <1>7 DEF Agreed

\* A part goes to an upload of its own recording, so writing it again changes nothing.
LEMMA PutAgrees ==
  ASSUME TypeInv, NEW owner \in Owner, NEW of \in Delivery, Agreed(owner, of),
         NEW s \in Slot, HandlePut(s)
  PROVE  Agreed(owner, of)'
<1> DEFINE u == wire[s].upload  r == wire[s].rec
<1>1. PICK p \in wire[s].parts :
        store' = [store EXCEPT ![u].parts[p] = r] /\ Answer(s, TRUE, p)
  BY DEF HandlePut
<1>2. /\ Sent(s) /\ wire[s].op = "put" /\ Done(s)
      /\ UNCHANGED desktop /\ UNCHANGED << row, object, meetings, uploads >>
  BY DEF HandlePut, Arrived, Sent
<1>3. u \in Upload /\ p \in Part /\ p \in Nat /\ r \in Recording /\ u # 0
  BY <1>2 DEF TypeInv, TypeOK, Sent, Request, Shape, Requests, Part, Upload
<1>4. Carried(owner, of, s)
  BY <1>2 DEF Agreed, InFlight
<1>5. store[u].key # 0 /\ owner[store[u].key] = r
  BY <1>3, <1>4 DEF Carried
<1>6. /\ store'[u].key = store[u].key /\ store'[u].open = store[u].open
      /\ store'[u].parts[p] = r
      /\ \A q \in Part \ {p} : store'[u].parts[q] = store[u].parts[q]
      /\ \A v \in Upload \ {u} : store'[v] = store[v]
  <2>1. store[u] \in Multipart
    BY <1>3 DEF TypeInv, TypeOK
  <2> DEFINE filled == [store[u].parts EXCEPT ![p] = r]
             after == [store[u] EXCEPT !.parts = filled]
  <2>2. filled[p] = r /\ \A q \in Part \ {p} : filled[q] = store[u].parts[q]
    BY <1>3, <2>1 DEF Multipart, Content
  <2>3. store' = [store EXCEPT ![u] = after]
    BY <1>1, <1>3 DEF TypeInv, TypeOK
  <2> HIDE DEF filled
  <2>4. after.key = store[u].key /\ after.open = store[u].open /\ after.parts = filled
    BY <2>1 DEF Multipart
  <2>5. store'[u] = after /\ \A v \in Upload \ {u} : store'[v] = store[v]
    BY <1>3, <2>3 DEF TypeInv, TypeOK
  <2> QED
    BY <2>2, <2>4, <2>5
<1>7. \A q \in Part : store[u].parts[q] # None => store'[u].parts[q] = store[u].parts[q]
  <2>1. Filled(owner, u)
    BY <1>3 DEF Agreed, OnServer
  <2> QED
    BY <1>3, <1>5, <1>6, <2>1 DEF Filled
<1>8. Advances
  BY <1>2, <1>6, <1>7 DEF Advances, KeepsUpload
<1>9. Grows(owner, owner, of, of)
  BY Unmoved
<1>10. InFlight(owner, of)' /\ OnDisk(owner, of)'
  <2>1. \A t \in Slot : Sent(t)' => wire'[t] = wire[t]
    BY <1>2, DoneEffect DEF TypeInv
  <2> QED
    BY <1>2, <1>8, <1>9, <2>1, ServerSide
<1>11. InMemory(owner)'
  <2>1. ASSUME wire[s].by = "queue", call'["queue"].id = p PROVE Concluded(owner)'
    <3>1. queue.step = "put" /\ u = record[queue.rec].upload /\ r = queue.rec
      BY <1>2, <1>4, <2>1, QueueWaits DEF Carried
    <3> QED
      BY <1>2, <1>6, <2>1, <3>1 DEF Concluded, desktop
  <2>2. wire[s].by # "recorder"
    BY <1>2, UploadAssumption DEF TypeInv, Shape, Waits
  <2> QED
    BY <1>1, <1>2, <1>3, <1>8, <1>9, <2>1, <2>2, MemoryAnswered
<1>12. OnServer(owner, of)'
  <2>1. ASSUME NEW n \in Meeting PROVE Listed(owner, of, n)'
    <3>1. Listed(owner, of, n)
      BY DEF Agreed, OnServer
    <3>2. row[n].upload # 0 => store'[row[n].upload].key = n
      <4>1. row[n].upload # 0 => row[n].upload \in Upload
        BY DEF TypeInv, TypeOK, Row
      <4> QED
        BY <1>6, <3>1, <4>1 DEF Listed
    <3> QED
      BY <1>2, <3>1, <3>2 DEF Listed, Whole, Nothing
  <2>2. ASSUME NEW v \in Upload, v # u PROVE Filled(owner, v)'
    <3>1. Filled(owner, v) /\ store'[v] = store[v]
      BY <1>6, <2>2 DEF Agreed, OnServer
    <3> QED
      BY <1>2, <3>1 DEF Filled
  <2>3. ASSUME NEW v \in Upload, v = u PROVE Filled(owner, v)'
    <3>1. Filled(owner, v)
      BY DEF Agreed, OnServer
    <3>2. /\ store'[v].key = store[v].key /\ store'[v].parts[p] = owner[store[v].key]
          /\ store[v].key # 0
          /\ \A q \in Part \ {p} : store'[v].parts[q] = store[v].parts[q]
      BY <1>5, <1>6, <2>3
    <3> QED
      BY <1>2, <1>3, <3>1, <3>2 DEF Filled
  <2> QED
    BY <2>1, <2>2, <2>3 DEF OnServer
<1> QED
  BY <1>10, <1>11, <1>12 DEF Agreed

\* Closing an upload keeps its key and drops its parts.
LEMMA ClosedEffect ==
  ASSUME TypeOK, NEW u \in Upload, store' = Closed(u)
  PROVE  /\ store'[u].key = store[u].key /\ store'[u].open = FALSE /\ store'[u].parts = Nothing
         /\ \A v \in Upload \ {u} : store'[v] = store[v]
<1>1. store[u] \in Multipart
  BY DEF TypeOK
<1> DEFINE x == [store[u] EXCEPT !.open = FALSE, !.parts = Nothing]
<1>2. x.key = store[u].key /\ x.open = FALSE /\ x.parts = Nothing
  BY <1>1 DEF Multipart
<1>3. store' = [store EXCEPT ![u] = x]
  BY DEF Closed, TypeOK
<1> HIDE DEF x
<1> QED
  BY <1>2, <1>3 DEF TypeOK

\* What complete_multipart does, whatever becomes of the request.
LEMMA AssembledAgrees ==
  ASSUME TypeInv, NEW owner \in Owner, NEW of \in Delivery, Agreed(owner, of),
         NEW s \in Slot, Sent(s), wire[s].op = "finalize", Completes(s), Assembled(s),
         UNCHANGED << row, meetings, uploads >>
  PROVE  /\ ~ Mismatch(s)
         /\ Advances
         /\ object'[wire[s].meeting] = Whole(wire[s].rec)
         /\ OnServer(owner, of)'
<1> DEFINE m == wire[s].meeting  u == wire[s].upload  r == wire[s].rec
<1>1. /\ m \in Meeting /\ u \in Upload /\ u # 0 /\ m # 0 /\ r \in Recording
      /\ wire[s].parts = Part
  BY DEF TypeInv, TypeOK, Sent, Request, Shape, Requests
<1>2. ~ Mismatch(s)
  BY <1>1 DEF Mismatch
<1>3. Carried(owner, of, s) /\ Filled(owner, u) /\ Listed(owner, of, m)
  BY <1>1 DEF Agreed, InFlight, OnServer
<1>4. store[u].key = m /\ owner[m] = r
  BY <1>1, <1>3 DEF Carried
<1>5. store[u].parts = Whole(r)
  <2>1. \A p \in Part : store[u].parts[p] = r
    BY <1>1, <1>3, <1>4 DEF Completes, Filled
  <2>2. store[u].parts \in Content
    BY <1>1 DEF TypeInv, TypeOK, Multipart
  <2> QED
    BY <2>1, <2>2 DEF Content, Whole
<1>6. store' = Closed(u) /\ object' = [object EXCEPT ![m] = Whole(r)]
  BY <1>2, <1>5 DEF Assembled
<1>7. /\ object'[m] = Whole(r)
      /\ \A n \in Meeting \ {m} : object'[n] = object[n]
  BY <1>1, <1>6 DEF TypeInv, TypeOK
<1>8. /\ store'[u].key = store[u].key /\ store'[u].open = FALSE /\ store'[u].parts = Nothing
      /\ \A v \in Upload \ {u} : store'[v] = store[v]
  BY <1>1, <1>6, ClosedEffect DEF TypeInv
<1>9. \A x \in Recording : object[m] = Whole(x) => x = r
  <2> SUFFICES ASSUME NEW x \in Recording, object[m] = Whole(x) PROVE x = r
    OBVIOUS
  <2>1. object[m] # Nothing
    BY WholeIsSomething
  <2>2. object[m] = Whole(r)
    BY <1>3, <1>4, <2>1 DEF Listed
  <2> QED
    BY <1>1, <2>2, WholeIsSomething
<1>10. Advances
  <2>1. \A v \in Upload : KeepsUpload(v)
    BY <1>8 DEF KeepsUpload
  <2>2. \A n \in Meeting, x \in Recording : object[n] = Whole(x) => object'[n] = Whole(x)
    BY <1>7, <1>9
  <2> QED
    BY <2>1, <2>2 DEF Advances
<1>11. OnServer(owner, of)'
  <2>1. ASSUME NEW n \in Meeting PROVE Listed(owner, of, n)'
    <3>1. Listed(owner, of, n)
      BY DEF Agreed, OnServer
    <3>2. row[n].upload # 0 => store'[row[n].upload].key = n
      <4>1. row[n].upload # 0 => row[n].upload \in Upload
        BY DEF TypeInv, TypeOK, Row
      <4> QED
        BY <1>8, <3>1, <4>1 DEF Listed
    <3>3. n = m => object'[n] = Whole(owner[n]) /\ owner[n] # None
      BY <1>1, <1>4, <1>7, UploadAssumption
    <3>4. n # m => object'[n] = object[n]
      BY <1>7
    <3>5. row[n].status = "QUEUED" => object'[n] = Whole(owner[n]) /\ of[owner[n]] = n
      BY <3>1, <3>3, <3>4 DEF Listed
    <3>6. object'[n] # Nothing => object'[n] = Whole(owner[n]) /\ owner[n] # None
      BY <3>1, <3>3, <3>4 DEF Listed
    <3> QED
      BY <3>1, <3>2, <3>5, <3>6 DEF Listed, Whole, Nothing
  <2>2. ASSUME NEW v \in Upload PROVE Filled(owner, v)'
    <3>1. Filled(owner, v)
      BY DEF Agreed, OnServer
    <3> QED
      BY <1>8, <3>1 DEF Filled, Nothing
  <2> QED
    BY <2>1, <2>2 DEF OnServer
<1> QED
  BY <1>2, <1>7, <1>10, <1>11

\* The object is whole before the answer, and stays so until the commit.
LEMMA FinalizeAgrees ==
  ASSUME TypeInv, NEW owner \in Owner, NEW of \in Delivery, Agreed(owner, of),
         NEW s \in Slot, HandleFinalize(s)
  PROVE  Agreed(owner, of)'
<1> DEFINE m == wire[s].meeting
<1>1. /\ Sent(s) /\ wire[s].op = "finalize" /\ Completes(s) /\ row[m].status = "UPLOADING"
      /\ Assembled(s) /\ Answer(s, TRUE, m) /\ Pending(s, m, wire[s].upload)
      /\ UNCHANGED desktop /\ UNCHANGED << row, meetings, uploads >>
  BY DEF HandleFinalize, Arrived, Sent
<1>2. m \in Meeting /\ m # 0 /\ m \in Nat /\ wire[s].upload \in {0} \cup Upload /\ wire[s].rec \in Recording
  BY <1>1 DEF TypeInv, TypeOK, Sent, Request, Shape, Requests, Meeting
<1>3. /\ Advances /\ object'[m] = Whole(wire[s].rec) /\ OnServer(owner, of)'
  BY <1>1, AssembledAgrees
<1>4. Carried(owner, of, s)
  BY <1>1 DEF Agreed, InFlight
<1>5. /\ Sent(s)'
      /\ wire'[s].op = wire[s].op /\ wire'[s].rec = wire[s].rec
      /\ wire'[s].meeting = m /\ wire'[s].upload = wire[s].upload /\ wire'[s].by = None
      /\ \A t \in Slot \ {s} : wire'[t] = wire[t]
  BY <1>1, <1>2, PendingEffect DEF TypeInv
<1>6. Grows(owner, owner, of, of)
  BY Unmoved
<1>7. Carried(owner, of, s)'
  <2>1. wire[s].upload # 0 => store'[wire[s].upload].key = m
    BY <1>2, <1>3, <1>4 DEF Carried, Advances, KeepsUpload
  <2>2. owner[m] = wire[s].rec /\ of[wire[s].rec] = m /\ row'[m].status # "ABSENT"
    BY <1>1, <1>2, <1>4 DEF Carried
  <2> QED
    BY <1>1, <1>2, <1>3, <1>5, <2>1, <2>2, UploadAssumption DEF Carried, Whole
<1>8. InFlight(owner, of)' /\ OnDisk(owner, of)'
  BY <1>1, <1>3, <1>5, <1>6, <1>7, ServerSide
<1>9. InMemory(owner)'
  <2>1. ASSUME wire[s].by = "queue", call'["queue"].id = m PROVE Concluded(owner)'
    <3>1. queue.step = "finalize" /\ wire[s].rec = queue.rec
      BY <1>1, <2>1, QueueWaits
    <3> QED
      BY <1>1, <1>2, <1>3, <3>1 DEF Concluded, desktop, Whole
  <2>2. wire[s].by # "recorder"
    BY <1>1, UploadAssumption DEF TypeInv, Shape, Waits
  <2> HIDE DEF m
  <2> QED
    BY <1>1, <1>2, <1>3, <1>6, <2>1, <2>2, MemoryAnswered
<1> QED
  BY <1>3, <1>8, <1>9 DEF Agreed

\* The refused request has assembled the whole object all the same.
LEMMA RefuseFinalizeAgrees ==
  ASSUME TypeInv, NEW owner \in Owner, NEW of \in Delivery, Agreed(owner, of),
         NEW s \in Slot, RefuseFinalize(s)
  PROVE  Agreed(owner, of)'
<1>1. /\ Sent(s) /\ wire[s].op = "finalize" /\ Completes(s)
      /\ Assembled(s) /\ Answer(s, FALSE, 0) /\ Done(s)
      /\ UNCHANGED desktop /\ UNCHANGED << row, meetings, uploads >>
  BY DEF RefuseFinalize, Arrived, Sent
<1>2. Advances /\ OnServer(owner, of)' /\ Grows(owner, owner, of, of)
  BY <1>1, AssembledAgrees, Unmoved
<1>3. InFlight(owner, of)' /\ OnDisk(owner, of)'
  <2>1. \A t \in Slot : Sent(t)' => wire'[t] = wire[t]
    BY <1>1, DoneEffect DEF TypeInv
  <2> QED
    BY <1>1, <1>2, <2>1, ServerSide
<1>4. InMemory(owner)'
  BY <1>1, <1>2, MemoryAnswered
<1> QED
  BY <1>2, <1>3, <1>4 DEF Agreed

\* The commit writes what the handler saw; the cancelled meeting included.
LEMMA CommitAgrees ==
  ASSUME TypeInv, NEW owner \in Owner, NEW of \in Delivery, Agreed(owner, of),
         NEW s \in Slot, Commit(s)
  PROVE  Agreed(owner, of)'
<1> DEFINE q == wire[s]  m == q.meeting
<1>1. /\ Sent(s) /\ q.open /\ row' = [row EXCEPT ![m] = Written(s)] /\ Done(s)
      /\ UNCHANGED << desktop, call, store, object, meetings, uploads >>
  BY DEF Commit, Sent
<1>2. /\ m \in Meeting /\ m # 0 /\ q.rec \in Recording /\ q.upload \in {0} \cup Upload
      /\ q.op \in {"declare", "start", "finalize"} /\ (q.op = "start" => q.upload # 0)
  BY <1>1 DEF TypeInv, TypeOK, Sent, Request, Shape, Requests
<1>3. Carried(owner, of, s) /\ Listed(owner, of, m) /\ row[m] \in Row
  BY <1>1, <1>2 DEF Agreed, InFlight, OnServer, TypeInv, TypeOK
<1>4. row'[m] = Written(s) /\ \A n \in Meeting \ {m} : row'[n] = row[n]
  BY <1>1, <1>2 DEF TypeInv, TypeOK
<1>5. /\ Written(s).status # "ABSENT" /\ Written(s).rec = owner[m] /\ owner[m] # None
      /\ Written(s).upload # 0 => store[Written(s).upload].key = m
      /\ Written(s).status = "QUEUED" => object[m] = Whole(owner[m]) /\ of[owner[m]] = m
  <2>0. owner[m] = q.rec /\ owner[m] # None
    BY <1>2, <1>3, UploadAssumption DEF Carried
  <2>1. CASE q.op = "declare"
    <3>1. Written(s) = [NoRow EXCEPT !.status = "CREATED", !.rec = q.rec]
      BY <2>1 DEF Written
    <3>2. Written(s).status = "CREATED" /\ Written(s).rec = q.rec /\ Written(s).upload = 0
      BY <3>1 DEF NoRow
    <3> QED
      BY <2>0, <3>2
  <2>2. CASE q.op = "start"
    <3>1. Written(s) = [row[m] EXCEPT !.status = "UPLOADING", !.audio = q.rec,
                                      !.upload = q.upload]
      BY <2>2 DEF Written
    <3>2. Written(s).status = "UPLOADING" /\ Written(s).rec = row[m].rec
          /\ Written(s).upload = q.upload
      BY <1>3, <3>1 DEF Row
    <3>3. row[m].status # "ABSENT"
      BY <1>1, <1>3, <2>2 DEF Carried
    <3>4. row[m].rec = owner[m] /\ store[q.upload].key = m
      BY <1>2, <1>3, <2>2, <3>3 DEF Carried, Listed
    <3> QED
      BY <2>0, <3>2, <3>4
  <2>3. CASE q.op = "finalize"
    <3>1. Written(s) = [row[m] EXCEPT !.status = "QUEUED", !.upload = 0]
      BY <2>3 DEF Written
    <3>2. Written(s).status = "QUEUED" /\ Written(s).rec = row[m].rec /\ Written(s).upload = 0
      BY <1>3, <3>1 DEF Row
    <3>3. row[m].status # "ABSENT" /\ object[m] = Whole(q.rec) /\ of[q.rec] = m
      BY <1>1, <1>3, <2>3 DEF Carried
    <3>4. row[m].rec = owner[m]
      BY <1>3, <3>3 DEF Listed
    <3> QED
      BY <2>0, <3>2, <3>3, <3>4
  <2> QED
    BY <1>2, <2>1, <2>2, <2>3
<1>6. Advances /\ Grows(owner, owner, of, of)
  BY <1>1, <1>4, <1>5, Unmoved DEF Advances, KeepsUpload
<1>7. InFlight(owner, of)' /\ OnDisk(owner, of)'
  <2>1. \A t \in Slot : Sent(t)' => wire'[t] = wire[t]
    BY <1>1, DoneEffect DEF TypeInv
  <2> QED
    BY <1>1, <1>6, <2>1, ServerSide
<1>8. InMemory(owner)'
  BY <1>1, <1>6, MemoryKept
<1>9. OnServer(owner, of)'
  <2>1. ASSUME NEW n \in Meeting, n # m PROVE Listed(owner, of, n)'
    <3>1. Listed(owner, of, n) /\ row'[n] = row[n]
      BY <1>4, <2>1 DEF Agreed, OnServer
    <3> QED
      BY <1>1, <3>1 DEF Listed, Whole, Nothing
  <2>2. ASSUME NEW n \in Meeting, n = m PROVE Listed(owner, of, n)'
    <3>1. Listed(owner, of, n) /\ row'[n] = Written(s)
      BY <1>3, <1>4, <2>2
    <3> HIDE DEF m, q
    <3>2. /\ row'[n].status # "ABSENT" /\ row'[n].rec = owner[n] /\ owner[n] # None
          /\ row'[n].upload # 0 => store[row'[n].upload].key = n
          /\ row'[n].status = "QUEUED" => object[n] = Whole(owner[n]) /\ of[owner[n]] = n
      BY <1>5, <2>2, <3>1
    <3> QED
      BY <1>1, <3>1, <3>2 DEF Listed, Whole, Nothing
  <2>3. ASSUME NEW u \in Upload PROVE Filled(owner, u)'
    BY <1>1, <2>3 DEF Agreed, OnServer, Filled
  <2> QED
    BY <2>1, <2>2, <2>3 DEF OnServer
<1> QED
  BY <1>7, <1>8, <1>9 DEF Agreed

\* A meeting cancelled elsewhere loses its parts, never its object.
LEMMA CancelAgrees ==
  ASSUME TypeInv, NEW owner \in Owner, NEW of \in Delivery, Agreed(owner, of),
         NEW m \in Meeting, Cancel(m)
  PROVE  Agreed(owner, of)'
<1> DEFINE u == row[m].upload
<1>1. /\ row[m].status \in {"CREATED", "UPLOADING"} /\ row[m] \in Row
      /\ UNCHANGED desktop /\ UNCHANGED << call, wire, object, meetings, uploads >>
  BY DEF Cancel, TypeInv, TypeOK
<1>2. /\ \A n \in Meeting \ {m} : row'[n] = row[n]
      /\ row'[m].status = "CANCELLED" /\ row'[m].rec = row[m].rec
      /\ row'[m].upload \in {0, row[m].upload}
      /\ \A v \in Upload : /\ store'[v].key = store[v].key
                           /\ store'[v] = store[v] \/ (store'[v].open = FALSE /\ store'[v].parts = Nothing)
  <2>1. \A x \in Row : /\ LET y == [x EXCEPT !.status = "CANCELLED", !.upload = 0] IN
                          y.status = "CANCELLED" /\ y.rec = x.rec /\ y.upload = 0
                       /\ LET y == [x EXCEPT !.status = "CANCELLED"] IN
                          y.status = "CANCELLED" /\ y.rec = x.rec /\ y.upload = x.upload
    BY DEF Row
  <2>2. CASE u # 0 /\ store[u].open
    <3>1. /\ store' = Closed(u)
          /\ row' = [row EXCEPT ![m] = [row[m] EXCEPT !.status = "CANCELLED", !.upload = 0]]
      BY <2>2 DEF Cancel, TypeInv, TypeOK
    <3>2. u \in Upload
      BY <1>1, <2>2 DEF Row
    <3>3. /\ store'[u].key = store[u].key /\ store'[u].open = FALSE /\ store'[u].parts = Nothing
          /\ \A v \in Upload \ {u} : store'[v] = store[v]
      BY <3>1, <3>2, ClosedEffect DEF TypeInv
    <3>4. row'[m] = [row[m] EXCEPT !.status = "CANCELLED", !.upload = 0]
          /\ \A n \in Meeting \ {m} : row'[n] = row[n]
      BY <3>1 DEF TypeInv, TypeOK
    <3> QED
      BY <1>1, <2>1, <3>3, <3>4
  <2>3. CASE ~ (u # 0 /\ store[u].open)
    <3>1. /\ UNCHANGED store
          /\ row' = [row EXCEPT ![m] = [row[m] EXCEPT !.status = "CANCELLED"]]
      BY <2>3 DEF Cancel, TypeInv, TypeOK
    <3>4. row'[m] = [row[m] EXCEPT !.status = "CANCELLED"]
          /\ \A n \in Meeting \ {m} : row'[n] = row[n]
      BY <3>1 DEF TypeInv, TypeOK
    <3> QED
      BY <1>1, <2>1, <3>1, <3>4
  <2> QED
    BY <2>2, <2>3
<1>3. Advances /\ Grows(owner, owner, of, of)
  <2>1. \A v \in Upload : KeepsUpload(v)
    BY <1>2 DEF KeepsUpload
  <2> QED
    BY <1>1, <1>2, <2>1, Unmoved DEF Advances
<1>4. InFlight(owner, of)' /\ OnDisk(owner, of)'
  BY <1>1, <1>3, ServerSide
<1>5. InMemory(owner)'
  BY <1>1, <1>3, MemoryKept
<1>6. OnServer(owner, of)'
  <2>1. ASSUME NEW n \in Meeting PROVE Listed(owner, of, n)'
    <3>1. Listed(owner, of, n) /\ row[n] \in Row
      BY DEF Agreed, OnServer, TypeInv, TypeOK
    <3>2. /\ row'[n].status # "ABSENT" => row[n].status # "ABSENT"
          /\ row'[n].status = "QUEUED" => row[n].status = "QUEUED"
          /\ row'[n].rec = row[n].rec
          /\ row'[n].upload \in {0, row[n].upload}
      BY <1>1, <1>2
    <3>3. row'[n].upload # 0 => store'[row'[n].upload].key = n
      BY <1>2, <3>1, <3>2 DEF Listed, Row
    <3> QED
      BY <1>1, <3>1, <3>2, <3>3 DEF Listed, Whole, Nothing
  <2>2. ASSUME NEW v \in Upload PROVE Filled(owner, v)'
    <3>1. Filled(owner, v)
      BY DEF Agreed, OnServer
    <3> QED
      BY <1>1, <1>2, <3>1 DEF Filled, Nothing
  <2> QED
    BY <2>1, <2>2 DEF OnServer
<1> QED
  BY <1>4, <1>5, <1>6 DEF Agreed

\* Only a declaration adds to the history, and nothing else of the server does.
LEMMA ServerAgrees ==
  ASSUME TypeInv, ServerStep, NEW owner \in Owner, NEW of \in Delivery, Agreed(owner, of)
  PROVE  \E newOwner \in Owner : Agreed(newOwner, of)'
<1>1. ASSUME NEW s \in Slot, Refuse(s) PROVE Agreed(owner, of)'
  BY <1>1, RefusedAgrees DEF Refuse, Unacceptable, Arrived, Sent
<1> QED
  BY <1>1, DeclareAgrees, StartAgrees, ResumeAgrees, PutAgrees, FinalizeAgrees,
     RefuseFinalizeAgrees, CommitAgrees, CancelAgrees DEF ServerStep, Handle

\* A wait given up, or every wait at once: the requests stay under way.
LEMMA AbandonedAgrees ==
  ASSUME TypeInv, NEW owner \in Owner, NEW of \in Delivery, Agreed(owner, of),
         UNCHANGED << disk, server >>,
         \A s \in Slot : Sent(s)' =>
           /\ Sent(s)
           /\ wire'[s].op = wire[s].op /\ wire'[s].rec = wire[s].rec
           /\ wire'[s].meeting = wire[s].meeting /\ wire'[s].upload = wire[s].upload
           /\ wire'[s].open = wire[s].open
           /\ wire'[s].by = "queue" => wire[s].by = "queue" /\ queue' = queue,
         InMemory(owner)'
  PROVE  Agreed(owner, of)'
<1>1. Advances /\ Grows(owner, owner, of, of)
  BY QuietAdvances, Unmoved DEF server
<1>2. InFlight(owner, of)'
  <2>1. ASSUME NEW s \in Slot, Sent(s)' PROVE Carried(owner, of, s)'
    BY <1>1, <2>1, CarriedKept DEF Agreed, InFlight, disk
  <2> QED
    BY <2>1 DEF InFlight
<1>3. OnDisk(owner, of)'
  <2>1. ASSUME NEW r \in Recording PROVE Remembered(owner, of, r)'
    BY <1>1, <2>1, RememberedKept DEF Agreed, OnDisk, disk
  <2> QED
    BY <2>1 DEF OnDisk
<1>4. OnServer(owner, of)'
  BY <1>1, OnServerKept DEF Agreed, server
<1> QED
  BY <1>2, <1>3, <1>4 DEF Agreed

\* A fault takes away an answer, a wait or the memory, and never what was stored.
LEMMA FaultAgrees ==
  ASSUME TypeInv, FaultStep, NEW owner \in Owner, NEW of \in Delivery, Agreed(owner, of)
  PROVE  Agreed(owner, of)'
<1>0. \A x \in Request : LET y == [x EXCEPT !.by = None] IN
        /\ y.op = x.op /\ y.rec = x.rec /\ y.meeting = x.meeting /\ y.upload = x.upload
        /\ y.open = x.open /\ y.by = None
  BY DEF Request
<1>1. ASSUME NEW s \in Slot, TimesOut(s) PROVE Agreed(owner, of)'
  <2>1. /\ Sent(s) /\ Answer(s, FALSE, 0)
        /\ wire' = [wire EXCEPT ![s].by = None] /\ UNCHANGED << desktop, server >>
    BY <1>1 DEF TimesOut, Sent, Answer
  <2>2. wire[s] \in Request
    BY <2>1 DEF TypeInv, TypeOK, Sent
  <2>3. /\ \A t \in Slot \ {s} : wire'[t] = wire[t] /\ (Sent(t)' => Sent(t))
        /\ wire'[s].op = wire[s].op /\ wire'[s].rec = wire[s].rec
        /\ wire'[s].meeting = wire[s].meeting /\ wire'[s].upload = wire[s].upload
        /\ wire'[s].open = wire[s].open /\ wire'[s].by = None
    BY <1>0, <2>1, <2>2 DEF TypeInv, TypeOK, Sent
  <2>4. Advances /\ Grows(owner, owner, of, of)
    BY <2>1, QuietAdvances, Unmoved DEF server
  <2>5. InMemory(owner)'
    BY <2>1, <2>4, MemoryAnswered
  <2> QED
    BY <2>1, <2>3, <2>5, AbandonedAgrees, UploadAssumption DEF desktop, disk
<1>2. ASSUME NEW s \in Slot, Lost(s) PROVE Agreed(owner, of)'
  BY <1>2, DroppedAgrees DEF Lost, Done, Sent
<1>3. ASSUME NEW s \in Slot, Unavailable(s) PROVE Agreed(owner, of)'
  BY <1>3, RefusedAgrees DEF Unavailable, Sent
<1>4. ASSUME NEW s \in Slot, Rollback(s) PROVE Agreed(owner, of)'
  BY <1>4, DroppedAgrees DEF Rollback, Sent
<1>5. ASSUME Crash PROVE Agreed(owner, of)'
  <2>1. /\ recorder' = Off /\ queue' = AtRest /\ call' = [c \in Client |-> Silence]
        /\ wire' = [s \in Slot |-> IF wire[s] = NoRequest THEN NoRequest
                                   ELSE [wire[s] EXCEPT !.by = None]]
        /\ UNCHANGED << disk, server >>
    BY <1>5 DEF Crash
  <2>2. \A s \in Slot : Sent(s)' =>
          /\ Sent(s)
          /\ wire'[s].op = wire[s].op /\ wire'[s].rec = wire[s].rec
          /\ wire'[s].meeting = wire[s].meeting /\ wire'[s].upload = wire[s].upload
          /\ wire'[s].open = wire[s].open /\ wire'[s].by = None
    BY <1>0, <2>1 DEF TypeInv, TypeOK, Sent
  <2>3. queue'.meeting = 0 /\ call'["queue"].state = "none" /\ call'["recorder"].state = "none"
    BY <2>1 DEF AtRest, Silence, Client
  <2>4. InMemory(owner)'
    BY <2>3 DEF InMemory, Accepted
  <2> QED
    BY <2>1, <2>2, <2>4, AbandonedAgrees, UploadAssumption
<1>6. ASSUME SaveFails PROVE Agreed(owner, of)'
  <2>1. /\ queue' = NextJob /\ call' = [call EXCEPT !["queue"] = Silence]
        /\ call["queue"].state = "answered" /\ UNCHANGED << disk, recorder, wire, server >>
    BY <1>6 DEF SaveFails, Answered
  <2>2. /\ queue'.meeting = 0 /\ call'["queue"].state = "none"
        /\ call'["recorder"] = call["recorder"]
    BY <2>1 DEF NextJob, AtRest, Silence, Client, TypeInv, TypeOK
  <2>3. InMemory(owner)'
    BY <2>1, <2>2 DEF InMemory, Agreed, Accepted
  <2> QED
    BY <2>1, <2>3, QuietStep DEF disk
<1> QED
  BY <1>1, <1>2, <1>3, <1>4, <1>5, <1>6 DEF FaultStep

\* At the start nothing was declared and nothing sent.
LEMMA UploadInit ==
  Init => UploadInv
<1> SUFFICES ASSUME Init PROVE UploadInv
  OBVIOUS
<1>1. PICK owner \in Owner : \A m \in Meeting : owner[m] = None
  <2>1. [m \in Meeting |-> None] \in Owner
    BY DEF Owner
  <2> QED
    BY <2>1
<1>2. PICK of \in Delivery : \A r \in Recording : of[r] = 0
  <2>1. [r \in Recording |-> 0] \in Delivery
    BY DEF Delivery
  <2> QED
    BY <2>1
<1>3. InFlight(owner, of)
  BY DEF Init, InFlight, Sent
<1>4. OnDisk(owner, of)
  BY <1>2 DEF Init, OnDisk, Remembered, NoRecord
<1>5. InMemory(owner)
  BY DEF Init, InMemory, Accepted, AtRest, Silence, Client
<1>6. OnServer(owner, of)
  BY <1>1 DEF Init, OnServer, Listed, Filled, NoRow, Nothing
<1>7. Agreed(owner, of)
  BY <1>3, <1>4, <1>5, <1>6 DEF Agreed
<1> QED
  BY <1>7, TypeInit DEF UploadInv

\* Every step keeps some history that explains the state.
LEMMA UploadStep ==
  UploadInv /\ [Next]_vars => UploadInv'
<1> SUFFICES ASSUME UploadInv, [Next]_vars PROVE UploadInv'
  OBVIOUS
<1>1. PICK owner \in Owner, of \in Delivery : Agreed(owner, of)
  BY DEF UploadInv
<1>2. TypeInv /\ TypeInv'
  BY TypeStep, ShapeStep DEF UploadInv, TypeInv
<1>3. CASE RecorderStep
  BY <1>1, <1>2, <1>3, RecorderAgrees DEF UploadInv, Owner, Delivery
<1>4. CASE QueueStep
  BY <1>1, <1>2, <1>4, QueueAgrees DEF UploadInv, Owner, Delivery
<1>5. CASE ServerStep
  BY <1>1, <1>2, <1>5, ServerAgrees DEF UploadInv, Owner, Delivery
<1>6. CASE FaultStep
  BY <1>1, <1>2, <1>6, FaultAgrees DEF UploadInv, Owner, Delivery
<1>7. CASE UNCHANGED vars
  <2>1. Agreed(owner, of)'
    <3>1. InMemory(owner)'
      BY <1>1, <1>2, <1>7, MemoryKept, QuietAdvances, Unmoved DEF vars, desktop
    <3> QED
      BY <1>1, <1>2, <1>7, <3>1, QuietStep DEF vars, server
  <2> QED
    BY <1>1, <1>2, <2>1 DEF UploadInv, Owner, Delivery
<1> QED
  BY <1>3, <1>4, <1>5, <1>6, <1>7 DEF Next

-----------------------------------------------------------------------------
(* Who knows an upload: the record on the disk, another upload of the same *)
(* meeting that took its place, or nobody any more because it is closed.   *)

\* The answer that names an upload has come and is not written down yet.
Fresh(u) == queue.step = "start" /\ Accepted("queue") /\ call["queue"].id = u

\* The disk names the upload.
Recorded(u) == \E r \in Recording : record[r].upload = u

\* A part that reaches the upload is not forgotten.
Watched(u) == ~ store[u].open \/ Twin(u) \/ Recorded(u)

\* The queue was told that its upload is complete.
Ending == queue.step = "forget" \/ (queue.step = "finalize" /\ Accepted("queue"))

\* A meeting is given one upload.
OneEach == \A u \in Upload : ~ Twin(u)

\* Nothing is sent before the record is written.
Untouched ==
  \A u \in Upload : Fresh(u) =>
    /\ store[u].parts = Nothing
    /\ \A s \in Slot : Sent(s) /\ wire[s].op = "put" => wire[s].upload # u

\* Parts are in uploads, and on their way to uploads, that are not forgotten.
Followed ==
  /\ \A u \in Upload : store[u].parts # Nothing => Watched(u)
  /\ \A s \in Slot : Sent(s) /\ wire[s].op = "put" => Watched(wire[s].upload)

\* The record is deleted once its upload is closed.
Ended ==
  Ending => \A u \in Upload : record[queue.rec].upload = u => ~ store[u].open \/ Twin(u)

Traced == Untouched /\ Followed /\ Ended

-----------------------------------------------------------------------------
\* A request under way is the same after a step, or new, or granted by it.
SameCall(s) ==
  /\ Sent(s) /\ wire'[s].op = wire[s].op /\ wire'[s].rec = wire[s].rec
  /\ wire'[s].meeting = wire[s].meeting /\ wire'[s].upload = wire[s].upload
  /\ wire'[s].open = wire[s].open /\ wire'[s].parts = wire[s].parts
  /\ wire'[s].by = wire[s].by \/ (wire'[s].by = None /\ (TimesOut(s) \/ Crash))

NewCall(s) ==
  /\ wire'[s].open = FALSE
  /\ wire'[s].op # "declare" => wire'[s].by = "queue" /\ call'["queue"].state = "waiting"
  /\ wire'[s].op = "put" => Started \/ Resumed \/ PartAccepted

Granted(s) ==
  /\ HandleDeclare(s) \/ HandleStart(s) \/ HandleFinalize(s)
  /\ wire'[s].op = wire[s].op /\ wire'[s].open

\* What the queue writes down before it goes on.
LEMMA Saves ==
  ASSUME TypeInv, Started \/ Resumed \/ PartAccepted
  PROVE  \E op \in {"start", "resume", "put"}, progress \in Progress :
           /\ Replied(op) /\ Save(queue.rec, progress) /\ queue.rec \in Recording
           /\ op = "start" <=> record[queue.rec] = NoRecord
           /\ progress.upload = IF op = "put" THEN record[queue.rec].upload
                                ELSE call["queue"].id
<1>1. TypeOK
  BY DEF TypeInv
<1>2. ASSUME NEW op \in {"start", "resume", "put"}, Replied(op)
      PROVE  /\ queue.rec \in Recording /\ (op = "start" <=> record[queue.rec] = NoRecord)
             /\ op # "start" => record[queue.rec] \in Progress
             /\ op = "start" => queue.meeting \in Meeting
             /\ op # "put" => call["queue"].id \in Upload
             /\ op = "put" => call["queue"].id \in Part
  BY <1>1, <1>2 DEF Replied, Answered, TypeInv, Shape, Passes, Told, Accepted, TypeOK, Op
<1>3. CASE Started
  <2> DEFINE progress == [meeting |-> queue.meeting, upload |-> call["queue"].id,
                          confirmed |-> {}]
  <2>1. Replied("start") /\ Save(queue.rec, progress)
    BY <1>3 DEF Started
  <2>2. progress \in Progress /\ progress.upload = call["queue"].id
    BY <1>2, <2>1 DEF Progress
  <2> HIDE DEF progress
  <2> QED
    BY <1>2, <2>1, <2>2
<1>4. CASE Resumed
  <2> DEFINE known == record[queue.rec]
             progress == IF known.upload = call["queue"].id THEN known
                         ELSE [known EXCEPT !.upload = call["queue"].id, !.confirmed = {}]
  <2>1. Replied("resume") /\ Save(queue.rec, progress)
    BY <1>4 DEF Resumed
  <2>2. known \in Progress /\ call["queue"].id \in Upload
    BY <1>2, <2>1
  <2>3. \A x \in Progress, u \in Upload :
          LET y == [x EXCEPT !.upload = u, !.confirmed = {}] IN y \in Progress /\ y.upload = u
    BY DEF Progress
  <2>4. progress \in Progress /\ progress.upload = call["queue"].id
    BY <2>2, <2>3
  <2> HIDE DEF progress
  <2> QED
    BY <1>2, <2>1, <2>4
<1>5. CASE PartAccepted
  <2> DEFINE known == record[queue.rec]
             progress == [known EXCEPT !.confirmed = @ \cup {call["queue"].id}]
  <2>1. Replied("put") /\ Save(queue.rec, progress)
    BY <1>5 DEF PartAccepted
  <2>2. known \in Progress /\ call["queue"].id \in Part
    BY <1>2, <2>1
  <2>3. \A x \in Progress, p \in Part :
          LET y == [x EXCEPT !.confirmed = @ \cup {p}] IN y \in Progress /\ y.upload = x.upload
    BY DEF Progress
  <2>4. progress \in Progress /\ progress.upload = known.upload
    BY <2>2, <2>3
  <2> HIDE DEF progress
  <2> QED
    BY <1>2, <2>1, <2>4
<1> QED
  BY <1>3, <1>4, <1>5

\* Where each request after a step comes from.
LEMMA WireMoves ==
  ASSUME TypeInv, Next, NEW s \in Slot, Sent(s)'
  PROVE  SameCall(s) \/ NewCall(s) \/ Granted(s)
<1>0. TypeOK
  BY DEF TypeInv
<1>1. ASSUME wire'[s] = wire[s] PROVE SameCall(s)
  BY <1>1 DEF SameCall, Sent
<1>2. ASSUME NEW t \in Slot, Done(t) PROVE SameCall(s)
  BY <1>0, <1>1, <1>2, DoneEffect
<1>3. ASSUME NEW c \in Client, NEW op \in Op, NEW r \in Recording,
             NEW m \in {0} \cup Meeting, NEW u \in {0} \cup Upload, NEW ps \in SUBSET Part,
             Ask(c, op, r, m, u, ps), c = "queue" \/ op = "declare",
             op = "put" => Started \/ Resumed \/ PartAccepted
      PROVE  SameCall(s) \/ NewCall(s)
  <2>1. PICK t \in Slot : Posted(t, c, op, r, m, u, ps)
    BY <1>0, <1>3, AskEffect
  <2>2. call'[c].state = "waiting"
    BY <1>0, <1>3, AskEffect
  <2>3. CASE s = t
    BY <1>3, <2>1, <2>2, <2>3 DEF Posted, NewCall
  <2>4. CASE s # t
    BY <1>1, <2>1, <2>4 DEF Posted
  <2> QED
    BY <2>3, <2>4
<1>4. "queue" \in Client /\ "recorder" \in Client /\ {} \in SUBSET Part
      /\ {"declare", "start", "resume", "put", "finalize"} \subseteq Op
  BY DEF Client, Op
<1>5. CASE RecorderStep
  <2>1. ASSUME NEW r \in Recording, Press(r) PROVE SameCall(s) \/ NewCall(s)
    BY <1>3, <1>4, <2>1 DEF Press
  <2> QED
    BY <1>1, <1>5, <2>1 DEF RecorderStep, PressOffline, Announced, RecordingEnds, RecordingFails
<1>6. ASSUME NEW op \in {"start", "resume", "put"}, Replied(op), NEW progress \in Progress,
             Save(queue.rec, progress), Started \/ Resumed \/ PartAccepted
      PROVE  SameCall(s) \/ NewCall(s)
  <2>1. queue.rec \in Recording
    BY <1>6 DEF Replied, TypeInv, TypeOK, Shape, Passes
  <2>2. PICK next \in {"put", "finalize"}, ps \in SUBSET Part :
          Ask("queue", next, queue.rec, progress.meeting, progress.upload, ps)
    BY <1>0, <1>6, <2>1, ContinueEffect DEF Save
  <2>3. progress.meeting \in {0} \cup Meeting /\ progress.upload \in {0} \cup Upload
    BY DEF Progress
  <2> QED
    BY <1>3, <1>4, <1>6, <2>1, <2>2, <2>3
<1>7. CASE QueueStep
  <2>1. ASSUME NEW r \in Recording, Attempt(r) PROVE SameCall(s) \/ NewCall(s)
    <3> DEFINE m == IF record[r] # NoRecord THEN record[r].meeting ELSE manifest[r].server
               op == IF record[r] # NoRecord THEN "resume"
                     ELSE IF m # 0 THEN "start" ELSE "declare"
    <3>1. Ask("queue", op, r, m, 0, {})
      BY <2>1 DEF Attempt
    <3>2. m \in {0} \cup Meeting /\ op \in Op /\ op # "put"
      BY <1>0, <1>4 DEF TypeOK, Progress, Manifest
    <3> HIDE DEF m, op
    <3> QED
      BY <1>3, <1>4, <3>1, <3>2
  <2>2. ASSUME Declared PROVE SameCall(s) \/ NewCall(s)
    <3>1. queue.rec \in Recording /\ call["queue"].id \in Meeting
      BY <2>2 DEF Declared, Replied, Answered, TypeInv, TypeOK, Shape, Passes, Told, Accepted
    <3> QED
      BY <1>3, <1>4, <2>2, <3>1 DEF Declared
  <2>3. ASSUME Started \/ Resumed \/ PartAccepted PROVE SameCall(s) \/ NewCall(s)
    BY <1>6, <2>3, Saves
  <2> QED
    BY <1>1, <1>7, <2>1, <2>2, <2>3
       DEF QueueStep, Sweep, Skip, Finalized, Forget, AttemptFails
<1>8. ASSUME NEW t \in Slot, Sent(t), NEW m \in {0} \cup Meeting, NEW u \in {0} \cup Upload,
             Pending(t, m, u), HandleDeclare(t) \/ HandleStart(t) \/ HandleFinalize(t)
      PROVE  SameCall(s) \/ Granted(s)
  BY <1>0, <1>1, <1>8, PendingEffect DEF Granted
<1>9. CASE ServerStep
  <2>1. ASSUME NEW t \in Slot, HandleDeclare(t) PROVE SameCall(s) \/ Granted(s)
    <3>1. Sent(t) /\ Pending(t, meetings + 1, 0) /\ meetings + 1 \in Meeting
      BY <1>0, <2>1, UploadAssumption DEF HandleDeclare, Arrived, Sent, TypeOK, Meeting
    <3> QED
      BY <1>8, <2>1, <3>1
  <2>2. ASSUME NEW t \in Slot, HandleStart(t) PROVE SameCall(s) \/ Granted(s)
    <3>1. Sent(t) /\ Pending(t, wire[t].meeting, uploads + 1) /\ uploads + 1 \in Upload
      BY <1>0, <2>2, UploadAssumption DEF HandleStart, Arrived, Sent, TypeOK, Upload
    <3>2. wire[t].meeting \in {0} \cup Meeting
      BY <1>0, <3>1 DEF Sent, TypeOK, Request
    <3> QED
      BY <1>8, <2>2, <3>1, <3>2
  <2>3. ASSUME NEW t \in Slot, HandleFinalize(t) PROVE SameCall(s) \/ Granted(s)
    <3>1. Sent(t) /\ Pending(t, wire[t].meeting, wire[t].upload)
      BY <2>3 DEF HandleFinalize, Arrived, Sent
    <3>2. wire[t].meeting \in {0} \cup Meeting /\ wire[t].upload \in {0} \cup Upload
      BY <1>0, <3>1 DEF Sent, TypeOK, Request
    <3> QED
      BY <1>8, <2>3, <3>1, <3>2
  <2>4. ASSUME NEW t \in Slot, HandleResume(t) \/ HandlePut(t) \/ RefuseFinalize(t) \/ Refuse(t)
                               \/ Commit(t)
        PROVE  SameCall(s)
    BY <1>2, <2>4 DEF HandleResume, HandlePut, RefuseFinalize, Refuse, Commit
  <2>5. ASSUME NEW m \in Meeting, Cancel(m) PROVE SameCall(s)
    BY <1>1, <2>5 DEF Cancel
  <2> QED
    BY <1>9, <2>1, <2>2, <2>3, <2>4, <2>5 DEF ServerStep, Handle
<1>10. \A x \in Request : LET y == [x EXCEPT !.by = None] IN
         /\ y.op = x.op /\ y.rec = x.rec /\ y.meeting = x.meeting /\ y.upload = x.upload
         /\ y.open = x.open /\ y.parts = x.parts /\ y.by = None
  BY DEF Request
<1>11. CASE FaultStep
  <2>1. ASSUME NEW t \in Slot, TimesOut(t) PROVE SameCall(s)
    <3>1. Sent(t) /\ wire' = [wire EXCEPT ![t].by = None]
      BY <2>1 DEF TimesOut, Sent
    <3>2. wire[t] \in Request
      BY <1>0, <3>1 DEF TypeOK, Sent
    <3>3. CASE s = t
      BY <1>0, <1>10, <2>1, <3>1, <3>2, <3>3 DEF TypeOK, SameCall
    <3>4. CASE s # t
      BY <1>0, <1>1, <3>1, <3>4 DEF TypeOK
    <3> QED
      BY <3>3, <3>4
  <2>2. ASSUME NEW t \in Slot, Lost(t) \/ Unavailable(t) \/ Rollback(t) PROVE SameCall(s)
    BY <1>2, <2>2 DEF Lost, Unavailable, Rollback, Done
  <2>3. ASSUME Crash PROVE SameCall(s)
    <3>1. wire' = [x \in Slot |-> IF wire[x] = NoRequest THEN NoRequest
                                  ELSE [wire[x] EXCEPT !.by = None]]
      BY <2>3 DEF Crash
    <3>2. Sent(s) /\ wire[s] \in Request
      BY <1>0, <3>1 DEF TypeOK, Sent
    <3>3. wire'[s] = [wire[s] EXCEPT !.by = None]
      BY <3>1, <3>2 DEF Sent
    <3> QED
      BY <1>10, <2>3, <3>2, <3>3 DEF SameCall
  <2>4. ASSUME SaveFails PROVE SameCall(s)
    BY <1>1, <2>4 DEF SaveFails
  <2> QED
    BY <1>11, <2>1, <2>2, <2>3, <2>4 DEF FaultStep
<1> QED
  BY <1>5, <1>7, <1>9, <1>11 DEF Next

\* The store: an upload keeps its meeting, is never opened again, and gets
\* parts from a request under way only.
Keeps(u) ==
  /\ store'[u].key = store[u].key
  /\ store'[u].open => store[u].open
  /\ \/ store'[u].parts \in {store[u].parts, Nothing}
     \/ \E s \in Slot : HandlePut(s) /\ wire[s].upload = u

\* The start that opens upload u.
Opened(s, u) == HandleStart(s) /\ u = uploads + 1

\* An upload is opened, or keeps its key and stays closed.
LEMMA StoreMoves ==
  ASSUME TypeInv, Next, NEW u \in Upload
  PROVE  Keeps(u) \/ \E s \in Slot : Opened(s, u)
<1>0. TypeOK
  BY DEF TypeInv
<1>1. ASSUME UNCHANGED store PROVE Keeps(u)
  BY <1>1 DEF Keeps
<1>2. ASSUME NEW v \in Upload, store' = Closed(v) PROVE Keeps(u)
  BY <1>0, <1>2, ClosedEffect DEF Keeps
<1>3. CASE RecorderStep
  BY <1>1, <1>3 DEF RecorderStep, Press, PressOffline, Announced, RecordingEnds, RecordingFails,
                    server
<1>4. CASE QueueStep
  BY <1>1, <1>4 DEF QueueStep, Sweep, Attempt, Skip, Declared, Started, Resumed, PartAccepted,
                    Save, Finalized, Forget, AttemptFails, server
<1>5. CASE FaultStep
  BY <1>1, <1>5 DEF FaultStep, TimesOut, Lost, Unavailable, Rollback, SaveFails, Crash, server
<1>6. CASE ServerStep
  <2>1. ASSUME NEW s \in Slot,
               HandleDeclare(s) \/ HandleResume(s) \/ Refuse(s) \/ Commit(s)
        PROVE  Keeps(u)
    BY <1>1, <2>1 DEF HandleDeclare, HandleResume, Refuse, Commit, server
  <2>2. ASSUME NEW s \in Slot, HandleStart(s) PROVE Keeps(u) \/ Opened(s, u)
    <3>1. CASE u = uploads + 1
      BY <2>2, <3>1 DEF Opened
    <3>2. CASE u # uploads + 1
      BY <1>0, <2>2, <3>2 DEF HandleStart, TypeOK, Keeps
    <3> QED
      BY <3>1, <3>2
  <2>3. ASSUME NEW s \in Slot, HandlePut(s) PROVE Keeps(u)
    <3>2. PICK p \in wire[s].parts : store' = [store EXCEPT ![wire[s].upload].parts[p] = wire[s].rec]
      BY <2>3 DEF HandlePut
    <3>3. CASE u # wire[s].upload
      BY <1>0, <3>2, <3>3 DEF TypeOK, Keeps
    <3>4. CASE u = wire[s].upload
      <4>1. \A x \in Multipart : LET y == [x EXCEPT !.parts[p] = wire[s].rec] IN
              y.key = x.key /\ y.open = x.open
        BY DEF Multipart
      <4>2. store'[u] = [store[u] EXCEPT !.parts[p] = wire[s].rec] /\ store[u] \in Multipart
        BY <1>0, <3>2, <3>4 DEF TypeOK
      <4> QED
        BY <2>3, <3>4, <4>1, <4>2 DEF Keeps
    <3> QED
      BY <3>3, <3>4
  <2>4. ASSUME NEW s \in Slot, HandleFinalize(s) \/ RefuseFinalize(s) PROVE Keeps(u)
    <3>1. Sent(s) /\ wire[s].op = "finalize" /\ store' = Closed(wire[s].upload)
      BY <2>4 DEF HandleFinalize, RefuseFinalize, Assembled, Arrived, Sent
    <3>2. wire[s].upload \in Upload
      BY <1>0, <3>1 DEF TypeInv, Shape, Requests, TypeOK, Sent, Request
    <3> QED
      BY <1>2, <3>1, <3>2
  <2>5. ASSUME NEW m \in Meeting, Cancel(m) PROVE Keeps(u)
    <3>1. UNCHANGED store \/ (row[m].upload # 0 /\ store' = Closed(row[m].upload))
      BY <2>5 DEF Cancel
    <3>2. row[m].upload # 0 => row[m].upload \in Upload
      BY <1>0 DEF TypeOK, Row
    <3> QED
      BY <1>1, <1>2, <3>1, <3>2
  <2> QED
    BY <1>6, <2>1, <2>2, <2>3, <2>4, <2>5 DEF ServerStep, Handle
<1> QED
  BY <1>3, <1>4, <1>5, <1>6 DEF Next

\* An upload is opened empty, for a meeting of its own choosing, and under an
\* identifier no part was sent to.
LEMMA OpensEmpty ==
  ASSUME UploadInv, NEW s \in Slot, NEW u \in Upload, Opened(s, u)
  PROVE  /\ HandleStart(s) /\ store[u].key = 0 /\ store'[u].parts = Nothing
         /\ \A v \in Upload \ {u} : store'[v] = store[v]
         /\ \A t \in Slot : Sent(t)' /\ wire'[t].op = "put" => wire'[t].upload # u
<1>0. TypeInv /\ TypeOK
  BY DEF UploadInv, TypeInv
<1>1. PICK owner \in Owner, of \in Delivery : Agreed(owner, of)
  BY DEF UploadInv
<1>2. HandleStart(s) /\ u = uploads + 1
  BY DEF Opened
<1>3. PICK m : m = wire[s].meeting
  OBVIOUS
<1>4. /\ Sent(s) /\ wire[s].op = "start" /\ Pending(s, m, uploads + 1)
      /\ store' = [store EXCEPT ![uploads + 1] = [key |-> m, open |-> TRUE, parts |-> Nothing]]
  BY <1>2, <1>3 DEF HandleStart, Arrived, Sent
<1>5. store' = [store EXCEPT ![u] = [key |-> m, open |-> TRUE, parts |-> Nothing]]
      /\ Pending(s, m, u)
  BY <1>2, <1>4
<1>6. m \in {0} \cup Meeting
  BY <1>0, <1>3, <1>4 DEF TypeOK, Sent, Request
<1>7. u > uploads /\ u # 0
  BY <1>0, <1>2 DEF TypeOK, Upload
<1>8. store[u].key = 0
  BY <1>1, <1>7 DEF Agreed, OnServer, Filled
<1>9. store'[u].parts = Nothing /\ \A v \in Upload \ {u} : store'[v] = store[v]
  BY <1>0, <1>5 DEF TypeOK
<1>10. ASSUME NEW t \in Slot, Sent(t)', wire'[t].op = "put" PROVE wire'[t].upload # u
  <2>1. wire'[s].op = "start" /\ \A x \in Slot \ {s} : wire'[x] = wire[x]
    BY <1>0, <1>4, <1>5, <1>6, PendingEffect
  <2>2. Sent(t) /\ wire'[t] = wire[t]
    BY <1>10, <2>1 DEF Sent
  <2>3. wire[t].upload # 0 => wire[t].meeting # 0 /\ store[wire[t].upload].key = wire[t].meeting
    BY <1>1, <2>2 DEF Agreed, InFlight, Carried
  <2> QED
    BY <1>7, <1>8, <2>2, <2>3
<1> QED
  BY <1>2, <1>8, <1>9, <1>10

\* An upload that was opened stays what it is.
LEMMA KeyStays ==
  ASSUME UploadInv, Next, NEW u \in Upload, store[u].key # 0
  PROVE  Keeps(u)
  BY StoreMoves, OpensEmpty DEF UploadInv

\* Two uploads of one meeting stay two.
LEMMA TwinStays ==
  ASSUME UploadInv, Next, NEW u \in Upload, Twin(u)
  PROVE  Twin(u)'
<1>1. PICK v \in Upload : v # u /\ store[u].key # 0 /\ store[v].key = store[u].key
  BY DEF Twin
<1>2. Keeps(u) /\ Keeps(v)
  BY <1>1, KeyStays
<1> QED
  BY <1>1, <1>2 DEF Keeps, Twin

\* One upload for each meeting after a step means one before.
LEMMA OneEachBefore ==
  ASSUME UploadInv, Next, OneEach'
  PROVE  OneEach
<1>1. ASSUME NEW u \in Upload, Twin(u) PROVE FALSE
  <2>1. Twin(u)'
    BY <1>1, TwinStays
  <2>2. ~ Twin(u)'
    BY DEF OneEach
  <2> QED
    BY <2>1, <2>2
<1> QED
  BY <1>1 DEF OneEach

\* What a step does to the queue and to what it waits for: nothing, a new
\* wait, an end, or an answer.
Rests ==
  /\ queue'.step = "idle"
  /\ queue.step = "put" /\ Accepted("queue") => Crash \/ SaveFails
Asks ==
  /\ call'["queue"].state = "waiting" /\ queue'.step # "forget"
  /\ (queue.step = "start" => Started) /\ (queue.step = "put" => PartAccepted)
Hears(s) ==
  /\ Sent(s) /\ wire[s].by = "queue" /\ wire[s].op = queue.step /\ UNCHANGED << queue, record >>
  /\ call["queue"].state = "waiting"
  /\ call'["queue"].ok /\ queue.step = "start" => HandleStart(s)
  /\ call'["queue"].ok /\ queue.step = "finalize" => HandleFinalize(s)

\* What a step changes for the queue.
LEMMA QueueMoves ==
  ASSUME TypeInv, Next
  PROVE  \/ UNCHANGED << queue, record >> /\ call'["queue"] = call["queue"]
         \/ Asks \/ Rests \/ Finalized \/ \E s \in Slot : Hears(s)
<1>0. TypeOK
  BY DEF TypeInv
<1> DEFINE Same == UNCHANGED << queue, record >> /\ call'["queue"] = call["queue"]
<1>1. ASSUME NEW c \in Client, NEW op \in Op, NEW r \in Recording,
             NEW m \in {0} \cup Meeting, NEW u \in {0} \cup Upload, NEW ps \in SUBSET Part,
             Ask(c, op, r, m, u, ps)
      PROVE  call'[c].state = "waiting" /\ \A d \in Client \ {c} : call'[d] = call[d]
  BY <1>0, <1>1, AskEffect
<1>2. "queue" \in Client /\ "recorder" \in Client /\ {} \in SUBSET Part
      /\ {"declare", "start", "resume", "put", "finalize"} \subseteq Op
      /\ "forget" \notin Op /\ "idle" \notin Op
  BY DEF Client, Op
<1>3. CASE RecorderStep
  <2>1. ASSUME NEW r \in Recording, Press(r) PROVE Same
    BY <1>1, <1>2, <2>1 DEF Press, disk
  <2>2. ASSUME Announced PROVE Same
    BY <1>0, <2>2 DEF Announced, TypeOK, Client
  <2> QED
    BY <1>3, <2>1, <2>2 DEF RecorderStep, PressOffline, RecordingEnds, RecordingFails, disk
<1>4. CASE QueueStep
  <2>1. ASSUME NEW r \in Recording, Attempt(r) PROVE Asks
    <3> DEFINE m == IF record[r] # NoRecord THEN record[r].meeting ELSE manifest[r].server
               op == IF record[r] # NoRecord THEN "resume"
                     ELSE IF m # 0 THEN "start" ELSE "declare"
    <3>1. /\ Ask("queue", op, r, m, 0, {}) /\ queue.step = "idle"
          /\ queue' = [queue EXCEPT !.rec = r, !.step = op, !.meeting = m]
      BY <2>1 DEF Attempt
    <3>2. m \in {0} \cup Meeting /\ op \in Op
      BY <1>0, <1>2 DEF TypeOK, Progress, Manifest
    <3> HIDE DEF m, op
    <3>3. queue'.step = op
      BY <1>0, <3>1 DEF TypeOK
    <3> QED
      BY <1>1, <1>2, <3>1, <3>2, <3>3 DEF Asks
  <2>2. ASSUME Declared PROVE Asks
    <3>1. /\ queue.rec \in Recording /\ call["queue"].id \in Meeting /\ queue.step = "declare"
      BY <2>2 DEF Declared, Replied, Answered, TypeInv, TypeOK, Shape, Passes, Told, Accepted
    <3>2. queue'.step = "start"
      BY <1>0, <2>2 DEF Declared, TypeOK
    <3> QED
      BY <1>1, <1>2, <2>2, <3>1, <3>2 DEF Declared, Asks
  <2>3. ASSUME Started \/ Resumed \/ PartAccepted PROVE Asks
    <3>1. PICK op \in {"start", "resume", "put"}, progress \in Progress :
            Replied(op) /\ Save(queue.rec, progress) /\ queue.rec \in Recording
      BY <2>3, Saves
    <3>2. PICK next \in {"put", "finalize"}, ps \in SUBSET Part :
            /\ Ask("queue", next, queue.rec, progress.meeting, progress.upload, ps)
            /\ queue' = [queue EXCEPT !.step = next]
      BY <1>0, <3>1, ContinueEffect DEF Save
    <3>3. progress.meeting \in {0} \cup Meeting /\ progress.upload \in {0} \cup Upload
      BY DEF Progress
    <3>4. queue'.step = next
      BY <1>0, <3>2 DEF TypeOK
    <3>5. (queue.step = "start" => Started) /\ (queue.step = "put" => PartAccepted)
      BY <2>3 DEF Started, Resumed, PartAccepted, Replied
    <3> QED
      BY <1>1, <1>2, <3>1, <3>2, <3>3, <3>4, <3>5 DEF Asks
  <2>4. ASSUME Sweep PROVE Rests
    BY <1>0, <2>4 DEF Sweep, Rests, AtRest, TypeOK
  <2>5. ASSUME NEW r \in Recording, Skip(r) PROVE Rests
    BY <1>0, <2>5 DEF Skip, Rests, TypeOK
  <2>6. ASSUME Forget \/ AttemptFails PROVE Rests
    <3>1. queue'.step = "idle"
      BY <2>6 DEF Forget, AttemptFails, NextJob, AtRest
    <3> QED
      BY <2>6, <3>1 DEF Forget, AttemptFails, Rests, Accepted
  <2> QED
    BY <1>4, <2>1, <2>2, <2>3, <2>4, <2>5, <2>6 DEF QueueStep
<1>5. ASSUME NEW s \in Slot, Sent(s), NEW ok \in BOOLEAN, NEW id \in Nat, Answer(s, ok, id),
             UNCHANGED << queue, record >>,
             ok /\ wire[s].op = "start" => HandleStart(s),
             ok /\ wire[s].op = "finalize" => HandleFinalize(s)
      PROVE  Same \/ Hears(s)
  <2>1. IF wire[s].by = "queue"
        THEN call'["queue"].state = "answered" /\ call'["queue"].ok = ok
        ELSE call'["queue"] = call["queue"]
    BY <1>0, <1>2, <1>5, AnswerEffect
  <2>2. wire[s].by = "queue" => call["queue"].state = "waiting" /\ wire[s].op = queue.step
    BY <1>5, QueueWaits
  <2> QED
    BY <1>5, <2>1, <2>2 DEF Hears
<1>6. CASE ServerStep
  <2>1. ASSUME NEW s \in Slot, HandleDeclare(s) PROVE Same \/ Hears(s)
    <3>1. Sent(s) /\ wire[s].op = "declare" /\ Answer(s, TRUE, meetings') /\ meetings' = meetings + 1
          /\ UNCHANGED << queue, record >>
      BY <2>1 DEF HandleDeclare, Arrived, Sent, desktop
    <3>2. meetings' \in Nat
      BY <1>0, <3>1 DEF TypeOK
    <3>3. ASSUME NEW id \in Nat, id = meetings' PROVE Answer(s, TRUE, id)
      BY <3>1, <3>3 DEF Answer
    <3> QED
      BY <1>5, <3>2, <3>3, <3>1
  <2>2. ASSUME NEW s \in Slot, HandleStart(s) PROVE Same \/ Hears(s)
    <3>1. Sent(s) /\ wire[s].op = "start" /\ Answer(s, TRUE, uploads') /\ uploads' = uploads + 1
          /\ UNCHANGED << queue, record >>
      BY <2>2 DEF HandleStart, Arrived, Sent, desktop
    <3>2. uploads' \in Nat
      BY <1>0, <3>1 DEF TypeOK
    <3>3. ASSUME NEW id \in Nat, id = uploads' PROVE Answer(s, TRUE, id)
      BY <3>1, <3>3 DEF Answer
    <3> QED
      BY <1>5, <3>2, <3>3, <2>2, <3>1
  <2>3. ASSUME NEW s \in Slot, HandleResume(s) PROVE Same \/ Hears(s)
    <3>1. Sent(s) /\ wire[s].op = "resume" /\ Answer(s, TRUE, row[wire[s].meeting].upload)
          /\ UNCHANGED << queue, record >>
      BY <2>3 DEF HandleResume, Arrived, Sent, desktop
    <3>2. wire[s].meeting \in Meeting
      BY <1>0, <3>1 DEF TypeInv, TypeOK, Sent, Request, Shape, Requests
    <3>3. row[wire[s].meeting].upload \in Nat
      BY <1>0, <3>2 DEF TypeOK, Row, Upload
    <3> QED
      BY <1>5, <3>1, <3>3
  <2>4. ASSUME NEW s \in Slot, HandlePut(s) PROVE Same \/ Hears(s)
    <3>1. Sent(s) /\ wire[s].op = "put" /\ UNCHANGED << queue, record >>
      BY <2>4 DEF HandlePut, Arrived, Sent, desktop
    <3>2. PICK p \in wire[s].parts : Answer(s, TRUE, p)
      BY <2>4 DEF HandlePut
    <3>3. p \in Nat
      BY <1>0, <3>1, <3>2 DEF TypeOK, Sent, Request, Part
    <3> QED
      BY <1>5, <3>1, <3>2, <3>3
  <2>5. ASSUME NEW s \in Slot, HandleFinalize(s) PROVE Same \/ Hears(s)
    <3>1. Sent(s) /\ wire[s].op = "finalize" /\ Answer(s, TRUE, wire[s].meeting)
          /\ UNCHANGED << queue, record >>
      BY <2>5 DEF HandleFinalize, Arrived, Sent, desktop
    <3>2. wire[s].meeting \in Nat
      BY <1>0, <3>1 DEF TypeOK, Sent, Request, Meeting
    <3> QED
      BY <1>5, <2>5, <3>1, <3>2
  <2>6. ASSUME NEW s \in Slot, RefuseFinalize(s) \/ Refuse(s) PROVE Same \/ Hears(s)
    <3>1. Sent(s) /\ Answer(s, FALSE, 0) /\ UNCHANGED << queue, record >>
      BY <2>6 DEF RefuseFinalize, Refuse, Unacceptable, Arrived, Sent, desktop
    <3> QED
      BY <1>5, <3>1
  <2>7. ASSUME NEW s \in Slot, Commit(s) PROVE Same
    BY <2>7 DEF Commit, desktop
  <2>8. ASSUME NEW m \in Meeting, Cancel(m) PROVE Same
    BY <2>8 DEF Cancel, desktop
  <2> QED
    BY <1>6, <2>1, <2>2, <2>3, <2>4, <2>5, <2>6, <2>7, <2>8 DEF ServerStep, Handle
<1>7. CASE FaultStep
  <2>1. ASSUME NEW s \in Slot, TimesOut(s) \/ Unavailable(s) PROVE Same \/ Hears(s)
    <3>1. Sent(s) /\ Answer(s, FALSE, 0) /\ UNCHANGED << queue, record >>
      BY <2>1 DEF TimesOut, Unavailable, Answer, Sent, desktop
    <3> QED
      BY <1>5, <3>1
  <2>2. ASSUME NEW s \in Slot, Lost(s) \/ Rollback(s) PROVE Same
    BY <2>2 DEF Lost, Rollback, desktop
  <2>3. ASSUME Crash PROVE Rests
    BY <2>3 DEF Crash, Rests, AtRest
  <2>4. ASSUME SaveFails PROVE Rests
    BY <2>4 DEF SaveFails, Rests, NextJob, AtRest
  <2> QED
    BY <1>7, <2>1, <2>2, <2>3, <2>4 DEF FaultStep
<1> QED
  BY <1>3, <1>4, <1>6, <1>7 DEF Next

\* The steps that write upload.json.
LEMMA RecordMoves ==
  ASSUME TypeInv, Next
  PROVE  UNCHANGED record \/ Started \/ Resumed \/ PartAccepted \/ Forget
<1>1. CASE RecorderStep
  BY <1>1 DEF RecorderStep, Press, PressOffline, Announced, RecordingEnds, RecordingFails, disk
<1>2. CASE QueueStep
  <2>1. ASSUME NEW r \in Recording, Attempt(r) \/ Skip(r) PROVE UNCHANGED record
    BY <2>1 DEF Attempt, Skip, disk
  <2>2. ASSUME Sweep \/ Declared \/ Finalized \/ AttemptFails PROVE UNCHANGED record
    BY <2>2 DEF Sweep, Declared, Finalized, AttemptFails, disk
  <2> QED
    BY <1>2, <2>1, <2>2 DEF QueueStep
<1>3. CASE ServerStep
  <2>1. ASSUME NEW s \in Slot, Handle(s) \/ Commit(s) PROVE UNCHANGED record
    BY <2>1 DEF Handle, HandleDeclare, HandleStart, HandleResume, HandlePut, HandleFinalize,
                RefuseFinalize, Refuse, Commit, desktop
  <2>2. ASSUME NEW m \in Meeting, Cancel(m) PROVE UNCHANGED record
    BY <2>2 DEF Cancel, desktop
  <2> QED
    BY <1>3, <2>1, <2>2 DEF ServerStep
<1>4. CASE FaultStep
  <2>1. ASSUME NEW s \in Slot, TimesOut(s) \/ Lost(s) \/ Unavailable(s) \/ Rollback(s)
        PROVE  UNCHANGED record
    BY <2>1 DEF TimesOut, Lost, Unavailable, Rollback, desktop
  <2>2. ASSUME Crash \/ SaveFails PROVE UNCHANGED record
    BY <2>2 DEF Crash, SaveFails, disk
  <2> QED
    BY <1>4, <2>1, <2>2 DEF FaultStep
<1> QED
  BY <1>1, <1>2, <1>3, <1>4 DEF Next

\* An upload that a record names stays named, unless it is closed, or another
\* upload of its meeting is named instead.
LEMMA RecordedStays ==
  ASSUME UploadInv, Ended, Next, NEW u \in Upload, Recorded(u)
  PROVE  Recorded(u)' \/ ~ store[u].open \/ Twin(u)
<1>0. TypeInv /\ TypeOK
  BY DEF UploadInv, TypeInv
<1>1. PICK owner \in Owner, of \in Delivery : Agreed(owner, of)
  BY DEF UploadInv
<1>2. PICK r \in Recording : record[r].upload = u
  BY DEF Recorded
<1>3. u # 0 /\ record[r] # NoRecord
  BY <1>2 DEF Upload, NoRecord
<1>4. CASE UNCHANGED record
  BY <1>2, <1>4 DEF Recorded
<1>5. CASE Started \/ Resumed \/ PartAccepted
  <2>1. PICK op \in {"start", "resume", "put"}, progress \in Progress :
          /\ Replied(op) /\ Save(queue.rec, progress) /\ queue.rec \in Recording
          /\ op = "start" <=> record[queue.rec] = NoRecord
          /\ progress.upload = IF op = "put" THEN record[queue.rec].upload
                               ELSE call["queue"].id
    BY <1>0, <1>5, Saves
  <2>2. record' = [record EXCEPT ![queue.rec] = progress]
    BY <2>1 DEF Save
  <2>3. record'[queue.rec] = progress /\ \A x \in Recording \ {queue.rec} : record'[x] = record[x]
    BY <1>0, <2>1, <2>2 DEF TypeOK
  <2>4. CASE r # queue.rec
    BY <1>2, <2>3, <2>4 DEF Recorded
  <2>5. CASE r = queue.rec /\ op = "put"
    BY <1>2, <2>1, <2>3, <2>5 DEF Recorded
  <2>6. CASE r = queue.rec /\ op = "resume"
    <3>1. call["queue"].id \in Upload /\ record[r].meeting # 0
          /\ queue.step = "resume" /\ Accepted("queue")
      BY <1>0, <1>3, <2>1, <2>6 DEF Replied, Answered, Accepted, TypeInv, Shape, Told, TypeOK,
                                   Progress, Meeting
    <3>2. store[call["queue"].id].key = record[r].meeting
      BY <1>1, <2>6, <3>1 DEF Agreed, InMemory, Concluded
    <3>3. store[u].key = record[r].meeting
      BY <1>1, <1>2, <1>3 DEF Agreed, OnDisk, Remembered
    <3>4. call["queue"].id = u \/ Twin(u)
      BY <3>1, <3>2, <3>3 DEF Twin
    <3> QED
      BY <2>1, <2>3, <2>6, <3>4 DEF Recorded
  <2> QED
    BY <1>3, <2>1, <2>4, <2>5, <2>6
<1>6. CASE Forget
  <2>1. queue.step = "forget" /\ record' = [record EXCEPT ![queue.rec] = NoRecord]
    BY <1>6 DEF Forget
  <2>2. CASE r = queue.rec
    BY <1>2, <2>1, <2>2 DEF Ended, Ending
  <2>3. CASE r # queue.rec
    BY <1>0, <1>2, <2>1, <2>3 DEF TypeOK, Recorded
  <2> QED
    BY <2>2, <2>3
<1> QED
  BY <1>0, <1>4, <1>5, <1>6, RecordMoves

\* What is not forgotten never is.
LEMMA WatchedStays ==
  ASSUME UploadInv, Ended, Next, NEW u \in Upload, store[u].key # 0, Watched(u)
  PROVE  Watched(u)'
<1>1. ~ store[u].open => ~ store'[u].open
  BY KeyStays DEF Keeps
<1>2. Twin(u) => Twin(u)'
  BY TwinStays
<1>3. Recorded(u) => Recorded(u)' \/ ~ store[u].open \/ Twin(u)
  BY RecordedStays
<1> QED
  BY <1>1, <1>2, <1>3 DEF Watched

\* An answer names an upload: it has just been opened for the queue, or named
\* it before the step.
LEMMA FreshMoves ==
  ASSUME UploadInv, Next, NEW u \in Upload, Fresh(u)'
  PROVE  Fresh(u) \/ \E s \in Slot : Opened(s, u)
<1>0. TypeInv /\ TypeOK
  BY DEF UploadInv, TypeInv
<1>1. Finalized => queue'.step = "forget"
  BY <1>0 DEF Finalized, TypeOK
<1>2. ASSUME NEW s \in Slot, Hears(s) PROVE Opened(s, u)
  <2>1. HandleStart(s) /\ wire[s].by = "queue" /\ Sent(s)
    BY <1>2 DEF Hears, Fresh, Accepted
  <2>2. Answer(s, TRUE, uploads') /\ uploads' = uploads + 1
    BY <2>1 DEF HandleStart
  <2>3. uploads' \in Nat
    BY <1>0, <2>2 DEF TypeOK
  <2>4. ASSUME NEW id \in Nat, id = uploads' PROVE call'["queue"].id = id
    <3>1. Answer(s, TRUE, id)
      BY <2>2, <2>4 DEF Answer
    <3> QED
      BY <1>0, <2>1, <3>1, AnswerEffect DEF Client
  <2>5. call'["queue"].id = uploads + 1
    BY <2>2, <2>3, <2>4
  <2> QED
    BY <2>1, <2>5 DEF Opened, Fresh
<1> QED
  BY <1>0, <1>1, <1>2, QueueMoves DEF Fresh, Accepted, Asks, Rests

\* Until its answer is written down, an upload gets nothing.
LEMMA UntouchedKept ==
  ASSUME UploadInv, Untouched, Next
  PROVE  Untouched'
<1>0. TypeInv
  BY DEF UploadInv
<1>1. ASSUME NEW u \in Upload, Fresh(u)', Fresh(u), NEW s \in Slot, Sent(s)', wire'[s].op = "put"
      PROVE  wire'[s].upload # u
  <2>1. SameCall(s) \/ NewCall(s) \/ Granted(s)
    BY <1>0, <1>1, WireMoves
  <2>2. ~ NewCall(s) /\ ~ Granted(s)
    BY <1>1 DEF NewCall, Granted, Fresh, Accepted, HandleDeclare, HandleStart, HandleFinalize,
                Arrived
  <2> QED
    BY <1>1, <2>1, <2>2 DEF SameCall, Untouched
<1>2. ASSUME NEW u \in Upload, Fresh(u), Keeps(u) PROVE store'[u].parts = Nothing
  BY <1>2 DEF Keeps, Untouched, HandlePut, Arrived, Sent
<1>3. ASSUME NEW u \in Upload, Fresh(u)'
      PROVE  /\ store'[u].parts = Nothing
             /\ \A s \in Slot : Sent(s)' /\ wire'[s].op = "put" => wire'[s].upload # u
  <2>1. CASE \E s \in Slot : Opened(s, u)
    BY <2>1, OpensEmpty
  <2>2. CASE ~ \E s \in Slot : Opened(s, u)
    BY <1>0, <1>1, <1>2, <1>3, <2>2, FreshMoves, StoreMoves
  <2> QED
    BY <2>1, <2>2
<1> QED
  BY <1>3 DEF Untouched, Nothing

\* Parts go where the record says.
LEMMA PutsRecorded ==
  ASSUME TypeInv, NEW s \in Slot, Sent(s)', wire'[s].op = "put",
         Started \/ Resumed \/ PartAccepted,
         \A t \in Slot : Sent(t) => wire[t].by # "queue",
         wire'[s].by = "queue"
  PROVE  /\ wire'[s].upload = record'[queue.rec].upload /\ queue.rec \in Recording
         /\ wire'[s].rec = queue.rec
         /\ wire'[s].parts \cap record'[queue.rec].confirmed = {}
<1>0. TypeOK
  BY DEF TypeInv
<1>1. PICK op \in {"start", "resume", "put"}, progress \in Progress :
        Replied(op) /\ Save(queue.rec, progress) /\ queue.rec \in Recording
  BY Saves
<1>2. record'[queue.rec] = progress
  BY <1>0, <1>1 DEF Save, TypeOK
<1>3. progress.meeting \in {0} \cup Meeting /\ progress.upload \in {0} \cup Upload
      /\ progress.confirmed \in SUBSET Part /\ "queue" \in Client
      /\ "put" \in Op /\ "finalize" \in Op
  BY DEF Progress, Client, Op
<1>4. ASSUME NEW p \in Part, p \notin progress.confirmed,
             Ask("queue", "put", queue.rec, progress.meeting, progress.upload, {p})
      PROVE  /\ wire'[s].upload = progress.upload /\ wire'[s].rec = queue.rec
             /\ wire'[s].parts = {p}
  <2>1. PICK t \in Slot :
          Posted(t, "queue", "put", queue.rec, progress.meeting, progress.upload, {p})
    BY <1>0, <1>1, <1>3, <1>4, AskEffect
  <2>2. s = t
    BY <2>1 DEF Posted, Sent
  <2> QED
    BY <2>1, <2>2 DEF Posted
<1>5. ASSUME Ask("queue", "finalize", queue.rec, progress.meeting, progress.upload,
                 progress.confirmed)
      PROVE  FALSE
  <2>1. PICK t \in Slot :
          Posted(t, "queue", "finalize", queue.rec, progress.meeting, progress.upload,
                 progress.confirmed)
    BY <1>0, <1>1, <1>3, <1>5, AskEffect
  <2>2. s = t
    BY <2>1 DEF Posted, Sent
  <2> QED
    BY <2>1, <2>2 DEF Posted
<1>6. PICK p \in Part : p \notin progress.confirmed
        /\ Ask("queue", "put", queue.rec, progress.meeting, progress.upload, {p})
  BY <1>1, <1>5 DEF Save, Continue
<1> QED
  BY <1>1, <1>2, <1>4, <1>6

\* Parts stay in, and go to, uploads that are not forgotten.
LEMMA FollowedKept ==
  ASSUME UploadInv, Followed, Ended, Next
  PROVE  Followed'
<1>0. TypeInv /\ TypeOK
  BY DEF UploadInv, TypeInv
<1>1. PICK owner \in Owner, of \in Delivery : Agreed(owner, of)
  BY DEF UploadInv
<1>2. ASSUME NEW s \in Slot, Sent(s), wire[s].op = "put"
      PROVE  wire[s].upload \in Upload /\ store[wire[s].upload].key # 0
  <2>1. wire[s].upload \in Upload /\ wire[s].upload # 0
    BY <1>0, <1>2 DEF TypeInv, TypeOK, Sent, Request, Shape, Requests
  <2> QED
    BY <1>1, <1>2, <2>1 DEF Agreed, InFlight, Carried
<1>3. ASSUME NEW u \in Upload, store[u].parts # Nothing PROVE store[u].key # 0
  <2>1. store[u].parts \in Content
    BY <1>0 DEF TypeOK, Multipart
  <2>2. PICK p \in Part : store[u].parts[p] # None
    BY <1>3, <2>1 DEF Content, Nothing
  <2> QED
    BY <1>1, <2>2 DEF Agreed, OnServer, Filled
<1>4. ASSUME NEW u \in Upload, store'[u].parts # Nothing PROVE Watched(u)'
  <2>1. Keeps(u)
    BY <1>0, <1>4, StoreMoves, OpensEmpty
  <2>2. store[u].key # 0 /\ Watched(u)
    <3>1. CASE store'[u].parts = store[u].parts
      BY <1>3, <1>4, <3>1 DEF Followed
    <3>2. ASSUME NEW s \in Slot, HandlePut(s), wire[s].upload = u
          PROVE  store[u].key # 0 /\ Watched(u)
      <4>1. Sent(s) /\ wire[s].op = "put"
        BY <3>2 DEF HandlePut, Arrived, Sent
      <4>2. Watched(wire[s].upload)
        BY <4>1 DEF Followed
      <4>3. ASSUME NEW v, v = wire[s].upload, Watched(v) PROVE Watched(u)
        BY <3>2, <4>3
      <4> QED
        BY <1>2, <3>2, <4>1, <4>2, <4>3
    <3> QED
      BY <1>4, <2>1, <3>1, <3>2 DEF Keeps
  <2> QED
    BY <2>2, WatchedStays
<1>5. ASSUME NEW s \in Slot, Sent(s)', wire'[s].op = "put", NEW u, u = wire'[s].upload
      PROVE  Watched(u)'
  <2>1. SameCall(s) \/ NewCall(s)
    BY <1>0, <1>5, WireMoves DEF Granted, HandleDeclare, HandleStart, HandleFinalize, Arrived
  <2>2. CASE SameCall(s)
    <3>1. Sent(s) /\ wire[s].op = "put" /\ wire[s].upload = u
      BY <1>5, <2>2 DEF SameCall
    <3>2. u \in Upload /\ store[u].key # 0
      BY <1>2, <3>1
    <3>3. Watched(wire[s].upload)
      BY <3>1 DEF Followed
    <3>4. ASSUME NEW v, v = wire[s].upload, Watched(v) PROVE Watched(u)
      BY <3>1, <3>4
    <3> QED
      BY <3>2, <3>3, <3>4, WatchedStays
  <2>3. CASE NewCall(s)
    <3>1. wire'[s].by = "queue" /\ (Started \/ Resumed \/ PartAccepted)
      BY <1>5, <2>3 DEF NewCall
    <3>2. call["queue"].state = "answered"
      BY <3>1 DEF Started, Resumed, PartAccepted, Replied, Answered
    <3>3. \A t \in Slot : Sent(t) => wire[t].by # "queue"
      BY <1>0, <3>2, QueueWaits
    <3>4. wire'[s].upload = record'[queue.rec].upload /\ queue.rec \in Recording
      BY <1>0, <1>5, <3>1, <3>3, PutsRecorded
    <3> QED
      BY <1>5, <3>4 DEF Watched, Recorded
  <2> QED
    BY <2>1, <2>2, <2>3
<1>6. ASSUME NEW s \in Slot, Sent(s)', wire'[s].op = "put" PROVE Watched(wire[s].upload)'
  BY <1>5, <1>6
<1> QED
  BY <1>4, <1>6 DEF Followed, Nothing

\* The record stays until its upload is closed.
LEMMA EndedKept ==
  ASSUME UploadInv, Ended, Next
  PROVE  Ended'
<1> SUFFICES ASSUME Ending', NEW u \in Upload, record'[queue'.rec].upload = u
             PROVE  ~ store'[u].open \/ Twin(u)'
  BY DEF Ended
<1>0. TypeInv /\ TypeOK
  BY DEF UploadInv, TypeInv
<1>1. PICK owner \in Owner, of \in Delivery : Agreed(owner, of)
  BY DEF UploadInv
<1>2. ASSUME NEW r \in Recording, record[r].upload = u
      PROVE  /\ record[r] # NoRecord /\ record[r].meeting \in Meeting /\ record[r].meeting # 0
             /\ store[u].key = record[r].meeting /\ of[r] = record[r].meeting
  <2>1. record[r] # NoRecord
    BY <1>2 DEF NoRecord, Upload
  <2>2. record[r].meeting \in Meeting /\ record[r].meeting # 0
    BY <1>0, <2>1 DEF TypeOK, Progress, Meeting
  <2> QED
    BY <1>1, <1>2, <2>1, <2>2 DEF Agreed, OnDisk, Remembered
<1>3. ASSUME Ending, queue'.rec = queue.rec, UNCHANGED record
      PROVE  ~ store'[u].open \/ Twin(u)'
  <2>1. ~ store[u].open \/ Twin(u)
    BY <1>3 DEF Ended
  <2>2. queue.rec \in Recording /\ record[queue.rec].upload = u
    BY <1>0, <1>3 DEF Ending, TypeInv, Shape, Passes, TypeOK
  <2>3. store[u].key # 0
    BY <1>2, <2>2
  <2> QED
    BY <2>1, <2>3, KeyStays, TwinStays DEF Keeps
<1>4. ASSUME NEW s \in Slot, Hears(s) PROVE ~ store'[u].open \/ Twin(u)'
  <2> DEFINE r == queue.rec
  <2>1. /\ HandleFinalize(s) /\ UNCHANGED << queue, record >> /\ Sent(s) /\ wire[s].op = "finalize"
        /\ wire[s].by = "queue"
    <3>1. queue.step # "forget"
      BY <1>0, <1>4 DEF Hears, TypeInv, Shape, Passes, Op
    <3>2. queue.step = "finalize" /\ call'["queue"].ok
      BY <1>4, <3>1 DEF Hears, Ending, Accepted
    <3> QED
      BY <1>4, <3>2 DEF Hears
  <2>2. wire[s].rec = r /\ r \in Recording /\ record[r].upload = u
    BY <1>0, <2>1, QueueWaits DEF TypeOK, TypeInv, Shape, Passes
  <2>3. wire[s].meeting = record[r].meeting /\ store[u].key = record[r].meeting
        /\ record[r].meeting # 0
    BY <1>1, <1>2, <2>1, <2>2 DEF Agreed, InFlight, Carried
  <2>4. wire[s].upload \in Upload /\ store[wire[s].upload].key = wire[s].meeting
    BY <1>0, <1>1, <2>1 DEF TypeInv, TypeOK, Sent, Request, Shape, Requests, Agreed, InFlight, Carried
  <2>5. CASE wire[s].upload = u
    <3>1. store' = Closed(wire[s].upload)
      BY <2>1 DEF HandleFinalize, Assembled
    <3>2. ASSUME NEW w \in Upload, store' = Closed(w) PROVE store'[w].open = FALSE
      BY <1>0, <3>2, ClosedEffect
    <3> QED
      BY <2>4, <2>5, <3>1, <3>2
  <2>6. CASE wire[s].upload # u
    <3>1. Twin(u)
      BY <2>3, <2>4, <2>6 DEF Twin
    <3> QED
      BY <3>1, TwinStays
  <2> QED
    BY <2>5, <2>6
<1>5. Finalized => Ending /\ queue'.rec = queue.rec /\ UNCHANGED record
  BY <1>0 DEF Finalized, Replied, Answered, Ending, Accepted, TypeOK
<1>6. ~ Asks /\ ~ Rests
  BY DEF Asks, Rests, Ending, Accepted
<1>7. ASSUME UNCHANGED << queue, record >>, call'["queue"] = call["queue"]
      PROVE  ~ store'[u].open \/ Twin(u)'
  BY <1>3, <1>7 DEF Ending, Accepted
<1> QED
  BY <1>0, <1>3, <1>4, <1>5, <1>6, <1>7, QueueMoves

\* There is no upload at first.
LEMMA TracedInit ==
  ASSUME Init
  PROVE  Traced
<1>1. queue.step = "idle" /\ \A u \in Upload : store[u].parts = Nothing
  BY DEF Init, AtRest
<1>2. \A s \in Slot : ~ Sent(s)
  BY DEF Init, Sent
<1> QED
  BY <1>1, <1>2 DEF Traced, Untouched, Fresh, Followed, Ended, Ending

\* No step loses sight of an upload.
LEMMA TracedStep ==
  ASSUME UploadInv, Traced, [Next]_vars
  PROVE  Traced'
<1>1. CASE Next
  BY <1>1, UntouchedKept, FollowedKept, EndedKept DEF Traced
<1>2. CASE UNCHANGED vars
  BY <1>2 DEF vars, Traced, Untouched, Followed, Watched, Twin, Ended, Fresh, Recorded, Ending,
              Sent, Accepted, Nothing
<1> QED
  BY <1>1, <1>2

-----------------------------------------------------------------------------
(* What may still be sent twice.                                           *)

\* A part whose sender is not listening any more.
Astray(s) == Sent(s) /\ wire[s].op = "put" /\ wire[s].by = None

\* The queue was told that the part is stored, and will write it down.
Heard(r, p) ==
  queue.step = "put" /\ queue.rec = r /\ Accepted("queue") /\ call["queue"].id = p

\* A part the store holds and the record does not, and never will.
Untold(r, p) ==
  /\ record[r] # NoRecord /\ p \notin record[r].confirmed
  /\ store[record[r].upload].open /\ store[record[r].upload].parts[p] # None
  /\ ~ Heard(r, p)

\* Each of these may cost one part sent again.
Doubts ==
  {<< s, 0 >> : s \in {s \in Slot : Astray(s)}} \cup
  {x \in Recording \X Part : Untold(x[1], x[2])}

\* The faults there have been.
Faults == (MaxTimeouts - left.timeouts) + (MaxCrashes - left.crashes) + (MaxSaves - left.saves)

\* What the queue sends is not confirmed yet.
Wanted ==
  \A s \in Slot : Sent(s) /\ wire[s].by = "queue" /\ wire[s].op = "put" =>
    wire[s].parts \cap record[wire[s].rec].confirmed = {}

\* Each part sent again, and each that may be, is owed to a fault.
Counted == IsFiniteSet(Doubts) /\ resent + Cardinality(Doubts) <= Faults

\* What is in the set.
LEMMA DoubtsAre ==
  /\ \A x : x \in Doubts <=> \/ \E s \in Slot : Astray(s) /\ x = << s, 0 >>
                             \/ \E r \in Recording, p \in Part : Untold(r, p) /\ x = << r, p >>
  /\ \A s \in Slot : << s, 0 >> \in Doubts <=> Astray(s)
  /\ \A r \in Recording, p \in Part : << r, p >> \in Doubts <=> Untold(r, p)
<1>1. \A x : x \in Doubts <=> \/ \E s \in Slot : Astray(s) /\ x = << s, 0 >>
                              \/ \E r \in Recording, p \in Part : Untold(r, p) /\ x = << r, p >>
  BY DEF Doubts
<1>2. \A p \in Part : p # 0
  BY DEF Part
<1>3. \A s \in Slot : << s, 0 >> \in Doubts <=> Astray(s)
  BY <1>1, <1>2
<1>4. \A r \in Recording, p \in Part : << r, p >> \in Doubts <=> Untold(r, p)
  BY <1>1, <1>2
<1> QED
  BY <1>1, <1>3, <1>4

\* How the number of doubts follows from what is in it.
LEMMA FewerDoubts ==
  ASSUME NEW S, IsFiniteSet(S), NEW T, T \subseteq S
  PROVE  IsFiniteSet(T) /\ Cardinality(T) <= Cardinality(S)
  BY FS_Subset

LEMMA AnotherDoubt ==
  ASSUME NEW S, IsFiniteSet(S), NEW x, NEW T, T \subseteq S \cup {x}
  PROVE  IsFiniteSet(T) /\ Cardinality(T) <= Cardinality(S) + 1
<1>1. /\ IsFiniteSet(S \cup {x}) /\ Cardinality(S \cup {x}) <= Cardinality(S) + 1
      /\ Cardinality(S) \in Nat
  BY FS_AddElement, FS_CardinalityType
<1>2. IsFiniteSet(T) /\ Cardinality(T) <= Cardinality(S \cup {x}) /\ Cardinality(T) \in Nat
      /\ Cardinality(S \cup {x}) \in Nat
  BY <1>1, FS_Subset, FS_CardinalityType
<1> QED
  BY <1>1, <1>2

LEMMA DoubtSettled ==
  ASSUME NEW S, IsFiniteSet(S), NEW y \in S, NEW T, T \subseteq S \ {y}
  PROVE  IsFiniteSet(T) /\ Cardinality(T) + 1 <= Cardinality(S)
<1>1. /\ IsFiniteSet(S \ {y}) /\ Cardinality(S \ {y}) = Cardinality(S) - 1
      /\ Cardinality(S) \in Nat
  BY FS_RemoveElement, FS_CardinalityType
<1>2. IsFiniteSet(T) /\ Cardinality(T) <= Cardinality(S \ {y}) /\ Cardinality(T) \in Nat
  BY <1>1, FS_Subset, FS_CardinalityType
<1> QED
  BY <1>1, <1>2

LEMMA DoubtTraded ==
  ASSUME NEW S, IsFiniteSet(S), NEW y \in S, NEW x, NEW T, T \subseteq (S \ {y}) \cup {x}
  PROVE  IsFiniteSet(T) /\ Cardinality(T) <= Cardinality(S)
<1>1. IsFiniteSet(S \ {y}) /\ Cardinality(S \ {y}) + 1 <= Cardinality(S)
  BY DoubtSettled
<1>2. IsFiniteSet(T) /\ Cardinality(T) <= Cardinality(S \ {y}) + 1
  BY <1>1, AnotherDoubt
<1>3. Cardinality(T) \in Nat /\ Cardinality(S) \in Nat /\ Cardinality(S \ {y}) \in Nat
  BY <1>1, <1>2, FS_CardinalityType
<1> QED
  BY <1>1, <1>2, <1>3

-----------------------------------------------------------------------------
\* Faults are counted where they happen, and parts where they are stored.
LEMMA Tallies ==
  ASSUME TypeInv, Next
  PROVE  \/ \E s \in Slot : TimesOut(s) \/ HandlePut(s)
         \/ Crash \/ SaveFails
         \/ resent' = resent /\ Faults' = Faults
<1>1. CASE RecorderStep
  BY <1>1 DEF RecorderStep, Press, PressOffline, Announced, RecordingEnds, RecordingFails, server,
              Faults
<1>2. CASE QueueStep
  BY <1>2 DEF QueueStep, Sweep, Attempt, Skip, Declared, Started, Resumed, PartAccepted,
              Save, Finalized, Forget, AttemptFails, server, Faults
<1>3. CASE ServerStep
  <2>1. ASSUME NEW s \in Slot, HandleDeclare(s) \/ HandleStart(s) \/ HandleResume(s)
                 \/ HandleFinalize(s) \/ RefuseFinalize(s) \/ Refuse(s) \/ Commit(s)
        PROVE  resent' = resent /\ left' = left
    BY <2>1 DEF HandleDeclare, HandleStart, HandleResume, HandleFinalize, RefuseFinalize,
                Refuse, Commit, server
  <2>2. ASSUME NEW m \in Meeting, Cancel(m) PROVE resent' = resent /\ left' = left
    BY <2>2 DEF Cancel
  <2> QED
    BY <1>3, <2>1, <2>2 DEF ServerStep, Handle, Faults
<1>4. CASE FaultStep
  <2>1. ASSUME NEW s \in Slot, Lost(s) \/ Unavailable(s) \/ Rollback(s)
        PROVE  /\ resent' = resent /\ left'.timeouts = left.timeouts
               /\ left'.crashes = left.crashes /\ left'.saves = left.saves
    BY <2>1 DEF Lost, Unavailable, Rollback, Spend, server, TypeInv, TypeOK
  <2> QED
    BY <1>4, <2>1 DEF FaultStep, Faults
<1> QED
  BY <1>1, <1>2, <1>3, <1>4 DEF Next

\* A timeout, a crash or a failed save is counted, and stores nothing.
LEMMA FaultCounts ==
  ASSUME TypeInv, Crash \/ SaveFails \/ \E s \in Slot : TimesOut(s)
  PROVE  /\ resent' = resent /\ Faults' = Faults + 1 /\ Faults \in Int
         /\ ~ \E s \in Slot : HandlePut(s)
<1>1. left \in [{"timeouts", "crashes", "refusals", "rollbacks", "saves"} -> Nat]
  BY DEF TypeInv, TypeOK
<1>2. resent' = resent
  BY DEF Crash, SaveFails, TimesOut, server
<1>3. PICK f \in {"timeouts", "crashes", "saves"} :
        left[f] > 0 /\ left' = [left EXCEPT ![f] = @ - 1]
  BY DEF Crash, SaveFails, TimesOut, Spend
<1>4. /\ left'[f] = left[f] - 1
      /\ \A g \in {"timeouts", "crashes", "saves"} \ {f} : left'[g] = left[g]
  BY <1>1, <1>3
<1>5. /\ left.crashes \in Nat /\ left.timeouts \in Nat /\ left.saves \in Nat
      /\ MaxCrashes \in Nat /\ MaxTimeouts \in Nat /\ MaxSaves \in Nat
  BY <1>1, UploadAssumption
<1>6. Faults' = Faults + 1
  <2>1. CASE f = "timeouts"
    BY <1>4, <1>5, <2>1 DEF Faults
  <2>2. CASE f = "crashes"
    BY <1>4, <1>5, <2>2 DEF Faults
  <2>3. CASE f = "saves"
    BY <1>4, <1>5, <2>3 DEF Faults
  <2> QED
    BY <2>1, <2>2, <2>3
<1>7. left' # left
  <2>1. left[f] \in Nat
    BY <1>1
  <2> QED
    BY <1>4, <2>1
<1>8. \A s \in Slot : ~ HandlePut(s)
  BY <1>7 DEF HandlePut
<1> QED
  BY <1>2, <1>5, <1>6, <1>8 DEF Faults

\* Requests go astray by a fault only.
LEMMA AstrayMoves ==
  ASSUME TypeInv, Next, NEW s \in Slot, Astray(s)'
  PROVE  Astray(s) \/ TimesOut(s) \/ (Crash /\ Sent(s) /\ wire[s].op = "put" /\ wire[s].by = "queue")
<1>1. SameCall(s) \/ NewCall(s) \/ Granted(s)
  BY WireMoves DEF Astray
<1>2. ~ NewCall(s) /\ ~ Granted(s)
  BY UploadAssumption DEF Astray, NewCall, Granted, HandleDeclare, HandleStart, HandleFinalize,
                          Arrived
<1>3. Sent(s) /\ wire[s].op = "put"
  BY <1>1, <1>2 DEF SameCall, Astray
<1>4. wire[s].by \in {"queue", "recorder", None}
  BY <1>3 DEF TypeInv, TypeOK, Sent, Request, Client
<1>5. wire[s].by # "recorder"
  BY <1>3, UploadAssumption DEF TypeInv, Shape, Waits
<1> QED
  BY <1>1, <1>2, <1>3, <1>4, <1>5 DEF SameCall, Astray

\* The queue goes on from the record it has just written.
LEMMA WantedKept ==
  ASSUME TypeInv, Wanted, Next
  PROVE  Wanted'
<1> SUFFICES ASSUME NEW s \in Slot, Sent(s)', wire'[s].by = "queue", wire'[s].op = "put"
             PROVE  wire'[s].parts \cap record'[wire'[s].rec].confirmed = {}
  BY DEF Wanted
<1>1. SameCall(s) \/ NewCall(s)
  BY WireMoves DEF Granted, HandleDeclare, HandleStart, HandleFinalize, Arrived
<1>2. ASSUME SameCall(s), UNCHANGED record PROVE wire'[s].parts \cap record'[wire'[s].rec].confirmed = {}
  <2>1. Sent(s) /\ wire[s].by = "queue" /\ wire[s].op = "put"
    BY <1>2, UploadAssumption DEF SameCall
  <2> QED
    BY <1>2, <2>1 DEF SameCall, Wanted
<1>3. CASE SameCall(s) /\ ~ UNCHANGED record
  <2>1. Sent(s) /\ wire[s].by = "queue" /\ wire[s].op = "put"
    BY <1>3, UploadAssumption DEF SameCall
  <2>2. call["queue"].state = "waiting" /\ queue.step = "put"
    BY <2>1, QueueWaits
  <2> QED
    BY <1>3, <2>2, RecordMoves DEF Started, Resumed, PartAccepted, Replied, Answered, Forget
<1>4. CASE NewCall(s)
  <2>1. Started \/ Resumed \/ PartAccepted
    BY <1>4 DEF NewCall
  <2>2. call["queue"].state = "answered"
    BY <2>1 DEF Started, Resumed, PartAccepted, Replied, Answered
  <2>3. \A t \in Slot : Sent(t) => wire[t].by # "queue"
    BY <2>2, QueueWaits
  <2> QED
    BY <2>1, <2>3, PutsRecorded
<1> QED
  BY <1>1, <1>2, <1>3, <1>4

\* What the queue was told it writes down, unless the process ends first or
\* the disk refuses.
LEMMA HeardStays ==
  ASSUME TypeInv, Next, ~ Crash, ~ SaveFails,
         NEW r \in Recording, NEW p, Heard(r, p)
  PROVE  Heard(r, p)' \/ p \in record'[r].confirmed
<1>0. TypeOK
  BY DEF TypeInv
<1>1. Finalized => queue.step = "finalize"
  BY DEF Finalized, Replied
<1>2. ASSUME PartAccepted PROVE p \in record'[r].confirmed
  <2>1. /\ record' = [record EXCEPT ![r] = [record[r] EXCEPT !.confirmed = @ \cup {p}]]
        /\ record[r] # NoRecord
    BY <1>2 DEF PartAccepted, Save, Heard, Replied, TypeInv, Shape, Passes
  <2>2. record[r] \in Progress
    BY <1>0, <2>1 DEF TypeOK
  <2>3. record'[r] = [record[r] EXCEPT !.confirmed = @ \cup {p}]
    BY <1>0, <2>1 DEF TypeOK
  <2> QED
    BY <2>2, <2>3 DEF Progress
<1> QED
  BY <1>1, <1>2, QueueMoves DEF Heard, Accepted, Asks, Rests, Hears

\* A step that stores nothing leaves no part in doubt that was not, unless it
\* ends a process, or an attempt, that had been told of one.
LEMMA UntoldMoves ==
  ASSUME UploadInv, Traced, OneEach, Next,
         ~ \E s \in Slot : HandlePut(s),
         NEW r \in Recording, NEW p \in Part, Untold(r, p)'
  PROVE  Untold(r, p) \/ ((Crash \/ SaveFails) /\ Heard(r, p))
<1>0. TypeInv /\ TypeOK
  BY DEF UploadInv, TypeInv
<1>1. PICK owner \in Owner, of \in Delivery : Agreed(owner, of)
  BY DEF UploadInv
<1> DEFINE u == record'[r].upload
<1>2. u \in Upload
  <2>1. TypeOK'
    BY <1>0, TypeStep
  <2>2. record' \in [Recording -> Progress \cup {NoRecord}]
    BY <2>1 DEF TypeOK, NoRecord, Progress, Upload, Meeting, Part
  <2>3. record'[r] # NoRecord
    BY DEF Untold, NoRecord
  <2>4. record'[r] \in Progress
    BY <2>2, <2>3
  <2> QED
    BY <2>4 DEF Progress
<1>3. store'[u].open /\ store'[u].parts[p] # None /\ p \notin record'[r].confirmed
  BY DEF Untold
<1>4. ~ \E s \in Slot : Opened(s, u)
  BY <1>2, <1>3, OpensEmpty DEF Nothing
<1>5. store[u].open /\ store[u].parts[p] # None
  BY <1>0, <1>2, <1>3, <1>4, StoreMoves DEF Keeps, Nothing
<1>6. ASSUME UNCHANGED record PROVE Untold(r, p) \/ ((Crash \/ SaveFails) /\ Heard(r, p))
  <2>1. Heard(r, p) => Crash \/ SaveFails
    BY <1>0, <1>3, <1>6, HeardStays DEF Untold
  <2> QED
    BY <1>3, <1>5, <1>6, <2>1 DEF Untold
<1>7. CASE Started \/ Resumed \/ PartAccepted
  <2>1. PICK op \in {"start", "resume", "put"}, progress \in Progress :
          /\ Replied(op) /\ Save(queue.rec, progress) /\ queue.rec \in Recording
          /\ op = "start" <=> record[queue.rec] = NoRecord
          /\ progress.upload = IF op = "put" THEN record[queue.rec].upload
                               ELSE call["queue"].id
    BY <1>0, <1>7, Saves
  <2>2. /\ queue.step = op /\ Accepted("queue")
        /\ record'[queue.rec] = progress /\ \A x \in Recording \ {queue.rec} : record'[x] = record[x]
    BY <1>0, <2>1 DEF Save, TypeOK, Replied, Answered, Accepted
  <2>3. CASE r # queue.rec
    BY <1>3, <1>5, <2>2, <2>3 DEF Untold, Heard
  <2>4. CASE r = queue.rec /\ op = "start"
    <3>1. Fresh(u)
      BY <2>1, <2>2, <2>4 DEF Fresh
    <3> QED
      BY <1>2, <1>5, <3>1 DEF Traced, Untouched, Nothing
  <2>5. CASE r = queue.rec /\ op = "resume"
    <3>1. /\ call["queue"].id = u /\ record[r].meeting # 0 /\ record[r] \in Progress
          /\ record[r] # NoRecord
      BY <1>0, <2>1, <2>2, <2>5 DEF TypeOK, Progress, Meeting
    <3>2. store[u].key = record[r].meeting
      BY <1>1, <2>2, <2>5, <3>1 DEF Agreed, InMemory, Concluded
    <3>3. store[record[r].upload].key = record[r].meeting /\ record[r].upload \in Upload
      BY <1>1, <3>1 DEF Agreed, OnDisk, Remembered, Progress
    <3>4. record[r].upload = u
      BY <1>2, <3>1, <3>2, <3>3 DEF OneEach, Twin
    <3>5. Resumed
      BY <1>7, <2>2, <2>5 DEF Started, PartAccepted, Replied
    <3>6. record' = [record EXCEPT ![r] = record[r]]
      BY <2>5, <3>1, <3>4, <3>5 DEF Resumed, Save
    <3>7. record'[r] = record[r]
      BY <1>0, <3>6 DEF TypeOK
    <3> QED
      BY <1>3, <1>5, <2>2, <2>5, <3>1, <3>4, <3>7 DEF Untold, Heard
  <2>6. CASE r = queue.rec /\ op = "put"
    <3>1. PartAccepted
      BY <1>7, <2>2, <2>6 DEF Started, Resumed, Replied
    <3>2. record' = [record EXCEPT ![r] =
                       [record[r] EXCEPT !.confirmed = @ \cup {call["queue"].id}]]
          /\ record[r] \in Progress
      BY <1>0, <2>1, <2>6, <3>1 DEF PartAccepted, Save, TypeOK
    <3>3. record'[r] = [record[r] EXCEPT !.confirmed = @ \cup {call["queue"].id}]
      BY <1>0, <3>2 DEF TypeOK
    <3>4. /\ record'[r].confirmed = record[r].confirmed \cup {call["queue"].id}
          /\ record'[r].upload = record[r].upload
      BY <3>2, <3>3 DEF Progress
    <3> QED
      BY <1>3, <1>5, <2>1, <2>6, <3>4 DEF Untold, Heard
  <2> QED
    BY <2>3, <2>4, <2>5, <2>6
<1>8. CASE Forget
  <2>1. queue.step = "forget" /\ record' = [record EXCEPT ![queue.rec] = NoRecord]
    BY <1>8 DEF Forget
  <2>2. record'[r] = record[r]
    BY <1>0, <2>1 DEF TypeOK, Untold
  <2> QED
    BY <1>3, <1>5, <2>1, <2>2 DEF Untold, Heard
<1> QED
  BY <1>0, <1>6, <1>7, <1>8, RecordMoves

\* A part that is stored: it was in doubt, or comes into doubt because nobody
\* waits for the answer, or neither.
LEMMA PutCounts ==
  ASSUME UploadInv, Wanted, NEW s \in Slot, HandlePut(s), Counted
  PROVE  Counted'
<1>0. TypeInv /\ TypeOK
  BY DEF UploadInv, TypeInv
<1>1. PICK owner \in Owner, of \in Delivery : Agreed(owner, of)
  BY DEF UploadInv
<1>2. /\ Sent(s) /\ wire[s].op = "put" /\ store[wire[s].upload].open /\ Done(s)
      /\ UNCHANGED << queue, record, left >>
  BY DEF HandlePut, Arrived, Sent, desktop
<1>3. PICK u \in Upload, o \in Recording : u = wire[s].upload /\ o = wire[s].rec /\ store[u].open
  BY <1>0, <1>2 DEF TypeInv, TypeOK, Sent, Request, Shape, Requests
<1>4. PICK p \in wire[s].parts :
        /\ store' = [store EXCEPT ![u].parts[p] = o]
        /\ resent' = IF store[u].parts[p] = None THEN resent ELSE resent + 1
        /\ Answer(s, TRUE, p)
  BY <1>3 DEF HandlePut
<1>5. /\ u \in Upload /\ u # 0 /\ o \in Recording /\ p \in Part /\ wire[s].meeting # 0
      /\ wire[s].meeting \in Meeting
  BY <1>0, <1>2, <1>4, <1>3 DEF TypeInv, TypeOK, Sent, Request, Shape, Requests
<1>6. owner[wire[s].meeting] = o /\ store[u].key = wire[s].meeting
  BY <1>1, <1>2, <1>5, <1>3 DEF Agreed, InFlight, Carried
<1>7. /\ \A v \in Upload : store'[v].open = store[v].open
      /\ \A v \in Upload, q \in Part : v # u \/ q # p => store'[v].parts[q] = store[v].parts[q]
  <2>1. \A v \in Upload \ {u} : store'[v] = store[v]
    BY <1>0, <1>4, <1>5 DEF TypeOK
  <2>2. store'[u] = [store[u] EXCEPT !.parts[p] = o] /\ store[u] \in Multipart
    BY <1>0, <1>4, <1>5 DEF TypeOK
  <2>3. \A x \in Multipart : LET y == [x EXCEPT !.parts[p] = o] IN
          y.open = x.open /\ \A q \in Part : q # p => y.parts[q] = x.parts[q]
    BY DEF Multipart, Content
  <2>4. store'[u].open = store[u].open
        /\ \A q \in Part : q # p => store'[u].parts[q] = store[u].parts[q]
    BY <2>2, <2>3
  <2> QED
    BY <2>1, <2>4
<1>8. /\ wire[s].by = "queue" => /\ call'["queue"].state = "answered" /\ call'["queue"].ok = TRUE
                                 /\ call'["queue"].id = p
      /\ wire[s].by # "queue" => call'["queue"] = call["queue"]
  <2>1. p \in Nat /\ "queue" \in Client /\ TRUE \in BOOLEAN
    BY <1>5 DEF Part, Client
  <2> QED
    BY <1>0, <1>2, <1>4, <2>1, AnswerEffect
<1>9. wire[s].by = "queue" => call["queue"].state = "waiting" /\ queue.step = "put" /\ o = queue.rec
  BY <1>0, <1>2, <1>3, QueueWaits
<1>10. wire[s].by \in {"queue", None}
  BY <1>0, <1>2, UploadAssumption DEF TypeInv, TypeOK, Sent, Request, Client, Shape, Waits
<1>11. ASSUME NEW r \in Recording, NEW q \in Part, Untold(r, q)', << r, q >> # << o, p >>
       PROVE  Untold(r, q)
  <2>1. /\ record[r] # NoRecord /\ q \notin record[r].confirmed /\ record[r].upload \in Upload
        /\ store'[record[r].upload].open /\ store'[record[r].upload].parts[q] # None
    BY <1>0, <1>2, <1>11 DEF Untold, TypeOK, Progress
  <2>2. record[r].upload = u => r = o
    BY <1>1, <1>6, <2>1 DEF Agreed, OnDisk, Remembered
  <2>3. store[record[r].upload].open /\ store[record[r].upload].parts[q] # None
    BY <1>7, <1>11, <2>1, <2>2
  <2>4. ~ Heard(r, q)
    BY <1>2, <1>8, <1>9, <1>10, <1>11 DEF Untold, Heard, Accepted
  <2> QED
    BY <2>1, <2>3, <2>4 DEF Untold
<1>12. ~ Sent(s)' /\ \A t \in Slot \ {s} : wire'[t] = wire[t]
  BY <1>0, <1>2, DoneEffect
<1>13. Doubts' \subseteq (Doubts \ {<< s, 0 >>}) \cup {<< o, p >>}
  <2>1. ASSUME NEW t \in Slot, Astray(t)' PROVE << t, 0 >> \in Doubts \ {<< s, 0 >>}
    <3>1. t # s /\ Astray(t)
      BY <1>12, <2>1 DEF Astray, Sent
    <3> QED
      BY <3>1, DoubtsAre
  <2>2. ASSUME NEW r \in Recording, NEW q \in Part, Untold(r, q)', << r, q >> # << o, p >>
        PROVE  << r, q >> \in Doubts \ {<< s, 0 >>}
    <3>1. q # 0
      BY DEF Part
    <3> QED
      BY <1>11, <2>2, <3>1, DoubtsAre
  <2> QED
    BY <2>1, <2>2 DEF Doubts
<1>14. resent \in Nat /\ Faults \in Int /\ Faults' = Faults
  BY <1>0, <1>2, UploadAssumption DEF TypeOK, Faults
<1>15. IsFiniteSet(Doubts) /\ resent + Cardinality(Doubts) <= Faults /\ Cardinality(Doubts) \in Nat
  BY FS_CardinalityType DEF Counted
<1>16. CASE wire[s].by = "queue"
  <2>1. Heard(o, p)' /\ p \notin record[o].confirmed /\ record[o] # NoRecord
        /\ record[o].upload = u /\ ~ Heard(o, p)
    <3>1. Heard(o, p)'
      BY <1>2, <1>8, <1>9, <1>16 DEF Heard, Accepted
    <3>2. ~ Heard(o, p)
      BY <1>9, <1>16 DEF Heard, Accepted
    <3>3. p \notin record[o].confirmed
      BY <1>2, <1>4, <1>16, <1>3 DEF Wanted
    <3>4. record[o] # NoRecord
      BY <1>0, <1>9, <1>16 DEF TypeInv, Shape, Passes
    <3>5. record[o].upload = u
      BY <1>1, <1>2, <1>16, <1>3 DEF Agreed, InFlight, Carried
    <3> QED
      BY <3>1, <3>2, <3>3, <3>4, <3>5
  <2>2. << o, p >> \notin Doubts'
    <3>1. ~ Untold(o, p)'
      BY <2>1 DEF Untold
    <3>2. ASSUME << o, p >> \in Doubts' PROVE FALSE
      <4>1. p # 0
        BY <1>5 DEF Part
      <4> QED
        BY <3>1, <3>2, <4>1 DEF Doubts
    <3> QED
      BY <3>2
  <2>3. Doubts' \subseteq Doubts
    BY <1>13, <2>2
  <2>4. CASE store[u].parts[p] = None
    <3>1. IsFiniteSet(Doubts') /\ Cardinality(Doubts') <= Cardinality(Doubts)
      BY <1>15, <2>3, FewerDoubts
    <3> QED
      BY <1>4, <1>14, <1>15, <2>4, <3>1, FS_CardinalityType DEF Counted
  <2>5. CASE store[u].parts[p] # None
    <3>1. << o, p >> \in Doubts
      BY <1>2, <1>5, <1>3, <2>1, <2>5, DoubtsAre DEF Untold
    <3>2. Doubts' \subseteq Doubts \ {<< o, p >>}
      BY <2>2, <2>3
    <3>3. IsFiniteSet(Doubts') /\ Cardinality(Doubts') + 1 <= Cardinality(Doubts)
      BY <1>15, <3>1, <3>2, DoubtSettled
    <3> QED
      BY <1>4, <1>14, <1>15, <2>5, <3>3, FS_CardinalityType DEF Counted
  <2> QED
    BY <2>4, <2>5
<1>17. CASE wire[s].by = None
  <2>1. << s, 0 >> \in Doubts
    BY <1>2, <1>17, DoubtsAre DEF Astray
  <2>2. CASE store[u].parts[p] = None
    <3>1. IsFiniteSet(Doubts') /\ Cardinality(Doubts') <= Cardinality(Doubts)
      BY <1>13, <1>15, <2>1, DoubtTraded
    <3> QED
      BY <1>4, <1>14, <1>15, <2>2, <3>1, FS_CardinalityType DEF Counted
  <2>3. CASE store[u].parts[p] # None
    <3>1. ASSUME Untold(o, p)' PROVE Untold(o, p)
      <4>1. /\ record[o] # NoRecord /\ p \notin record[o].confirmed
            /\ record[o].upload \in Upload
            /\ store'[record[o].upload].open /\ store'[record[o].upload].parts[p] # None
        BY <1>0, <1>2, <1>5, <3>1 DEF Untold, TypeOK, Progress
      <4>2. store[record[o].upload].open /\ store[record[o].upload].parts[p] # None
        BY <1>2, <1>5, <1>7, <1>3, <2>3, <4>1
      <4>3. ~ Heard(o, p)
        BY <1>2, <1>8, <1>17, <3>1, UploadAssumption DEF Untold, Heard, Accepted
      <4> QED
        BY <4>1, <4>2, <4>3 DEF Untold
    <3>2. << o, p >> \in Doubts' => << o, p >> \in Doubts
      <4>1. p # 0
        BY <1>5 DEF Part
      <4>2. << o, p >> \in Doubts' => Untold(o, p)'
        BY <4>1 DEF Doubts
      <4> QED
        BY <1>5, <3>1, <4>2, DoubtsAre
    <3>3. Doubts' \subseteq Doubts \ {<< s, 0 >>}
      <4>1. << o, p >> # << s, 0 >>
        BY <1>5 DEF Part
      <4> QED
        BY <1>13, <3>2, <4>1
    <3>4. IsFiniteSet(Doubts') /\ Cardinality(Doubts') + 1 <= Cardinality(Doubts)
      BY <1>15, <2>1, <3>3, DoubtSettled
    <3> QED
      BY <1>4, <1>14, <1>15, <2>3, <3>4, FS_CardinalityType DEF Counted
  <2> QED
    BY <2>2, <2>3
<1> QED
  BY <1>10, <1>16, <1>17

\* A call given up leaves its own part in doubt, and no other.
LEMMA TimeoutCounts ==
  ASSUME UploadInv, Traced, OneEach, Counted, Next, NEW t \in Slot, TimesOut(t)
  PROVE  Counted'
<1>0. TypeInv /\ TypeOK
  BY DEF UploadInv, TypeInv
<1>1. /\ resent' = resent /\ Faults' = Faults + 1 /\ Faults \in Int
      /\ ~ \E s \in Slot : HandlePut(s)
  <2>1. TypeInv /\ (Crash \/ SaveFails \/ \E s \in Slot : TimesOut(s))
    BY <1>0
  <2> QED
    BY <2>1, FaultCounts
<1>2. ~ Crash /\ ~ SaveFails
  <2>1. left'["timeouts"] = left["timeouts"] - 1 /\ left["timeouts"] \in Nat
    BY <1>0 DEF TimesOut, Spend, TypeOK
  <2>2. Crash \/ SaveFails => left'["timeouts"] = left["timeouts"]
    BY <1>0 DEF Crash, SaveFails, Spend, TypeOK
  <2> QED
    BY <2>1, <2>2
<1>3. ASSUME NEW s \in Slot, Astray(s)', s # t PROVE Astray(s)
  <2>1. wire'[s] = wire[s]
    BY <1>0, <1>3 DEF TimesOut, TypeOK
  <2> QED
    BY <1>3, <2>1 DEF Astray, Sent
<1>4. Doubts' \subseteq Doubts \cup {<< t, 0 >>}
  <2>1. ASSUME NEW s \in Slot, Astray(s)' PROVE << s, 0 >> \in Doubts \cup {<< t, 0 >>}
    BY <1>3, <2>1, DoubtsAre
  <2>2. ASSUME NEW r \in Recording, NEW p \in Part, Untold(r, p)' PROVE << r, p >> \in Doubts
    BY <1>1, <1>2, <2>2, UntoldMoves, DoubtsAre
  <2> QED
    BY <2>1, <2>2 DEF Doubts
<1>5. IsFiniteSet(Doubts) /\ resent + Cardinality(Doubts) <= Faults
  BY DEF Counted
<1>6. IsFiniteSet(Doubts') /\ Cardinality(Doubts') <= Cardinality(Doubts) + 1
  BY <1>4, <1>5, AnotherDoubt
<1>7. resent \in Nat /\ Cardinality(Doubts) \in Nat /\ Cardinality(Doubts') \in Nat
  BY <1>0, <1>5, <1>6, FS_CardinalityType DEF TypeOK
<1> QED
  BY <1>1, <1>5, <1>6, <1>7 DEF Counted

\* A save that fails leaves in doubt the part it was to write down.
LEMMA SaveCounts ==
  ASSUME UploadInv, Traced, OneEach, Counted, Next, SaveFails
  PROVE  Counted'
<1>0. TypeInv /\ TypeOK
  BY DEF UploadInv, TypeInv
<1>1. /\ resent' = resent /\ Faults' = Faults + 1 /\ Faults \in Int
      /\ ~ \E s \in Slot : HandlePut(s)
  BY <1>0, FaultCounts
<1> DEFINE x == << queue.rec, call["queue"].id >>
<1>2. ASSUME NEW s \in Slot, Astray(s)' PROVE << s, 0 >> \in Doubts
  BY <1>2, DoubtsAre DEF SaveFails, Astray, Sent
<1>3. ASSUME NEW r \in Recording, NEW p \in Part, Untold(r, p)'
      PROVE  << r, p >> \in Doubts \cup {x}
  BY <1>1, <1>3, UntoldMoves, DoubtsAre DEF Heard
<1>4. Doubts' \subseteq Doubts \cup {x}
  BY <1>2, <1>3 DEF Doubts
<1>5. IsFiniteSet(Doubts) /\ resent + Cardinality(Doubts) <= Faults
  BY DEF Counted
<1>6. IsFiniteSet(Doubts') /\ Cardinality(Doubts') <= Cardinality(Doubts) + 1
  BY <1>4, <1>5, AnotherDoubt
<1>7. resent \in Nat /\ Cardinality(Doubts) \in Nat /\ Cardinality(Doubts') \in Nat
  BY <1>0, <1>5, <1>6, FS_CardinalityType DEF TypeOK
<1> QED
  BY <1>1, <1>5, <1>6, <1>7 DEF Counted

\* The end of the process leaves one part in doubt: the queue has one call,
\* and it is on the wire or its answer is not written down.
LEMMA CrashCounts ==
  ASSUME UploadInv, Traced, OneEach, Counted, Next, Crash
  PROVE  Counted'
<1>0. TypeInv /\ TypeOK
  BY DEF UploadInv, TypeInv
<1>1. resent' = resent /\ Faults' = Faults + 1 /\ Faults \in Int
  BY <1>0, FaultCounts
<1>2. ~ \E s \in Slot : HandlePut(s)
  BY <1>0, FaultCounts
<1> DEFINE Broken(s) == Sent(s) /\ wire[s].op = "put" /\ wire[s].by = "queue"
<1>3. ASSUME NEW s \in Slot, Astray(s)' PROVE Astray(s) \/ Broken(s)
  <2>1. wire' = [t \in Slot |-> IF wire[t] = NoRequest THEN NoRequest
                                ELSE [wire[t] EXCEPT !.by = None]]
    BY DEF Crash
  <2>2. Sent(s)
    BY <1>3, <2>1 DEF Astray, Sent
  <2>3. wire[s] \in Request /\ wire'[s] = [wire[s] EXCEPT !.by = None]
    BY <1>0, <2>1, <2>2 DEF TypeOK, Sent
  <2>4. wire[s].op = "put" /\ wire[s].by \in {"queue", "recorder", None}
    BY <1>3, <2>3 DEF Astray, Request, Client
  <2>5. wire[s].by # "recorder"
    BY <1>0, <2>2, <2>4, UploadAssumption DEF TypeInv, Shape, Waits
  <2> QED
    BY <2>2, <2>4, <2>5 DEF Astray
<1>4. ASSUME NEW r \in Recording, NEW p \in Part, Untold(r, p)'
      PROVE  << r, p >> \in Doubts \/ Heard(r, p)
  BY <1>2, <1>4, UntoldMoves, DoubtsAre
<1>5. \E x : Doubts' \subseteq Doubts \cup {x}
  <2>1. CASE \E s \in Slot : Broken(s)
    <3>1. PICK t \in Slot : Broken(t)
      BY <2>1
    <3>2. \A s \in Slot : Broken(s) => s = t
      BY <1>0, <3>1, UploadAssumption DEF TypeInv, Shape, AskedOnce
    <3>3. \A r, p : ~ Heard(r, p)
      BY <1>0, <3>1, QueueWaits DEF Heard, Accepted
    <3>4. ASSUME NEW s \in Slot, Astray(s)' PROVE << s, 0 >> \in Doubts \cup {<< t, 0 >>}
      BY <1>3, <3>2, <3>4, DoubtsAre
    <3>5. ASSUME NEW r \in Recording, NEW p \in Part, Untold(r, p)' PROVE << r, p >> \in Doubts
      BY <1>4, <3>3, <3>5
    <3>6. Doubts' \subseteq Doubts \cup {<< t, 0 >>}
      BY <3>4, <3>5 DEF Doubts
    <3> QED
      BY <3>6
  <2>2. CASE ~ \E s \in Slot : Broken(s)
    <3> DEFINE x == << queue.rec, call["queue"].id >>
    <3>1. ASSUME NEW s \in Slot, Astray(s)' PROVE << s, 0 >> \in Doubts
      BY <1>3, <2>2, <3>1, DoubtsAre
    <3>2. ASSUME NEW r \in Recording, NEW p \in Part, Untold(r, p)'
          PROVE  << r, p >> \in Doubts \cup {x}
      BY <1>4, <3>2 DEF Heard
    <3>3. Doubts' \subseteq Doubts \cup {x}
      BY <3>1, <3>2 DEF Doubts
    <3> QED
      BY <3>3
  <2> QED
    BY <2>1, <2>2
<1>6. PICK x : Doubts' \subseteq Doubts \cup {x}
  BY <1>5
<1>7. IsFiniteSet(Doubts) /\ resent + Cardinality(Doubts) <= Faults
  BY DEF Counted
<1>8. IsFiniteSet(Doubts') /\ Cardinality(Doubts') <= Cardinality(Doubts) + 1
  BY <1>6, <1>7, AnotherDoubt
<1>9. resent \in Nat /\ Cardinality(Doubts) \in Nat /\ Cardinality(Doubts') \in Nat
  BY <1>0, <1>7, <1>8, FS_CardinalityType DEF TypeOK
<1> QED
  BY <1>1, <1>7, <1>8, <1>9 DEF Counted

\* No other step brings a doubt.
LEMMA QuietCounts ==
  ASSUME UploadInv, Traced, OneEach, Counted, Next,
         ~ Crash, ~ SaveFails, ~ \E s \in Slot : TimesOut(s) \/ HandlePut(s)
  PROVE  Counted'
<1>0. TypeInv /\ TypeOK
  BY DEF UploadInv, TypeInv
<1>1. resent' = resent /\ Faults' = Faults
  BY <1>0, Tallies
<1>2. ASSUME NEW s \in Slot, Astray(s)' PROVE << s, 0 >> \in Doubts
  BY <1>0, <1>2, AstrayMoves, DoubtsAre
<1>3. ASSUME NEW r \in Recording, NEW p \in Part, Untold(r, p)' PROVE << r, p >> \in Doubts
  BY <1>3, UntoldMoves, DoubtsAre
<1>4. Doubts' \subseteq Doubts
  BY <1>2, <1>3 DEF Doubts
<1>5. IsFiniteSet(Doubts) /\ resent + Cardinality(Doubts) <= Faults
  BY DEF Counted
<1>6. IsFiniteSet(Doubts') /\ Cardinality(Doubts') <= Cardinality(Doubts)
  BY <1>4, <1>5, FewerDoubts
<1>7. resent \in Nat /\ Cardinality(Doubts) \in Nat /\ Cardinality(Doubts') \in Nat
  BY <1>0, <1>5, <1>6, FS_CardinalityType DEF TypeOK
<1>8. Faults \in Int
  BY <1>0, UploadAssumption DEF TypeOK, Faults
<1> QED
  BY <1>1, <1>5, <1>6, <1>7, <1>8 DEF Counted

\* The invariant behind what is sent again.
LEMMA CountedStep ==
  ASSUME UploadInv, Traced, Wanted, OneEach => Counted, [Next]_vars
  PROVE  Wanted' /\ (OneEach' => Counted')
<1>1. CASE Next
  <2>1. TypeInv
    BY DEF UploadInv
  <2>2. Wanted'
    BY <1>1, <2>1, WantedKept
  <2> SUFFICES ASSUME OneEach' PROVE Counted'
    BY <2>2
  <2>3. OneEach /\ Counted
    BY <1>1, OneEachBefore
  <2>4. CASE \E s \in Slot : TimesOut(s)
    BY <1>1, <2>3, <2>4, TimeoutCounts
  <2>5. CASE \E s \in Slot : HandlePut(s)
    BY <2>3, <2>5, PutCounts
  <2>6. CASE Crash
    BY <1>1, <2>3, <2>6, CrashCounts
  <2>7. CASE SaveFails
    BY <1>1, <2>3, <2>7, SaveCounts
  <2>8. CASE ~ Crash /\ ~ SaveFails /\ ~ \E s \in Slot : TimesOut(s) \/ HandlePut(s)
    BY <1>1, <2>3, <2>8, QuietCounts
  <2> QED
    BY <2>4, <2>5, <2>6, <2>7, <2>8
<1>2. CASE UNCHANGED vars
  <2>1. Wanted'
    BY <1>2 DEF vars, Wanted, Sent
  <2>2. Doubts' = Doubts
    BY <1>2 DEF vars, Doubts, Astray, Untold, Heard, Accepted, Sent
  <2>3. resent' = resent /\ Faults' = Faults
    BY <1>2 DEF vars, Faults
  <2>4. OneEach' => OneEach
    BY <1>2 DEF vars, OneEach, Twin
  <2> QED
    BY <2>1, <2>2, <2>3, <2>4 DEF Counted
<1> QED
  BY <1>1, <1>2

\* Nothing was sent at first.
LEMMA CountedInit ==
  ASSUME Init
  PROVE  Wanted /\ Counted
<1>1. Wanted
  BY DEF Init, Wanted, Sent
<1>2. Doubts = {}
  BY DEF Init, Doubts, Astray, Untold, Sent
<1>3. resent = 0 /\ Faults = 0
  BY UploadAssumption DEF Init, Faults
<1> QED
  BY <1>1, <1>2, <1>3, FS_EmptySet DEF Counted

-----------------------------------------------------------------------------
(* What follows.                                                           *)

\* The disk, the memory, the requests under way and the server agree on whose
\* meeting is whose, and on the one meeting each recording is sent under.
THEOREM UploadInvariant == Spec => []UploadInv
  BY UploadInit, UploadStep, PTL DEF Spec

\* Every value stays in the range the code can give it.
THEOREM UploadTypes == Spec => []TypeOK
<1>1. TypeInv => TypeOK
  BY DEF TypeInv
<1> QED
  BY <1>1, TypeCorrect, PTL

\* A meeting handed to transcription has the whole of its own recording under
\* its key, however its upload was interrupted, retried or repeated
\* (services/meetings.py, finalize).
THEOREM QueuedIsWhole == Spec => []WholeObject
<1>1. UploadInv => WholeObject
  BY DEF UploadInv, Agreed, OnServer, Listed, WholeObject, Queued
<1> QED
  BY <1>1, UploadInvariant, PTL

\* One recording is accepted under one meeting at most: it is transcribed and
\* billed once (uploader/src/lib.rs, identify).
THEOREM AcceptedOnce == Spec => []DeliveredOnce
<1>1. ASSUME UploadInv, NEW r \in Recording PROVE Cardinality(Queued(r)) <= 1
  <2>1. PICK owner \in Owner, of \in Delivery : Agreed(owner, of)
    BY <1>1 DEF UploadInv
  <2>2. Queued(r) \subseteq {of[r]}
    BY <2>1 DEF Agreed, OnServer, Listed, Queued
  <2>3. IsFiniteSet({of[r]}) /\ Cardinality({of[r]}) = 1
    BY FS_Singleton
  <2> QED
    BY <2>2, <2>3, FS_Subset
<1>2. UploadInv => DeliveredOnce
  BY <1>1 DEF DeliveredOnce
<1> QED
  BY <1>2, UploadInvariant, PTL

\* What upload.json says the store holds, the upload it names does hold, as
\* long as nobody completed or aborted it (uploader/src/progress.rs).
THEOREM RecordIsTrue == Spec => []ConfirmedIsStored
<1>1. UploadInv => ConfirmedIsStored
  BY DEF UploadInv, Agreed, OnDisk, Remembered, ConfirmedIsStored
<1> QED
  BY <1>1, UploadInvariant, PTL

\* A recording marked Uploaded, which the machine may delete, is whole in the
\* store (uploader/src/lib.rs, the end of attempt).
THEOREM DeletableIsStored == Spec => []UploadedIsStored
<1>1. UploadInv => UploadedIsStored
  BY DEF UploadInv, Agreed, OnDisk, Remembered, UploadedIsStored
<1> QED
  BY <1>1, UploadInvariant, PTL

\* Parts at the store always belong to an upload this machine remembers: the
\* record is on the disk before the first part goes out (uploader/src/lib.rs,
\* "Written before the first part goes out"), and is deleted only once the
\* upload is closed.  Of two uploads opened for one meeting, one is remembered.
THEOREM NoPartForgotten == Spec => []PartsAreRemembered
<1>1. Traced => PartsAreRemembered
  BY DEF Traced, Followed, Watched, Recorded, PartsAreRemembered
<1>2. UploadInv /\ Traced /\ [Next]_vars => Traced'
  BY TracedStep
<1>3. Init => Traced
  BY TracedInit
<1> QED
  BY <1>1, <1>2, <1>3, UploadInvariant, PTL DEF Spec

\* However an upload is interrupted, and whatever is refused, rolled back or
\* cancelled, a part is sent again at most once for every call cut off, every
\* end of the process and every save that fails, as long as no meeting was
\* given two uploads: the record of what is stored is never behind by more
\* (uploader/src/lib.rs, attempt; the part is written down before the next
\* one goes).
THEOREM SentAgainOncePerFault == Spec => []ResendsBounded
<1>1. ASSUME UploadInv, OneEach => Counted PROVE ResendsBounded
  <2>1. TypeOK
    BY <1>1 DEF UploadInv, TypeInv
  <2>2. CASE OneEach
    <3>1. IsFiniteSet(Doubts) /\ resent + Cardinality(Doubts) <= Faults
      BY <1>1, <2>2 DEF Counted
    <3>2. Cardinality(Doubts) \in Nat /\ resent \in Nat /\ Faults \in Int
      BY <2>1, <3>1, FS_CardinalityType, UploadAssumption DEF TypeOK, Faults
    <3>3. resent <= Faults
      BY <3>1, <3>2
    <3> QED
      BY <3>3 DEF ResendsBounded, Faults
  <2>3. CASE ~ OneEach
    BY <2>3 DEF OneEach, ResendsBounded
  <2> QED
    BY <2>2, <2>3
<1>2. Init => Traced /\ Wanted /\ (OneEach => Counted)
  BY TracedInit, CountedInit
<1>3. UploadInv /\ Traced /\ Wanted /\ (OneEach => Counted) /\ [Next]_vars
        => Traced' /\ Wanted' /\ (OneEach => Counted)'
  BY TracedStep, CountedStep
<1> QED
  BY <1>1, <1>2, <1>3, UploadInvariant, PTL DEF Spec
=============================================================================
