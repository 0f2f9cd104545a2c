--------------------------- MODULE LocalRecording ---------------------------
(***************************************************************************)
(* One machine making recordings: the recorder the window talks to         *)
(* (src/lib.rs), the thread that drains the devices (engine.rs) under the  *)
(* rules of a session (session.rs), the encoder that cuts the audio into   *)
(* segments (audio-engine, encode.rs) and the vault that puts them on the  *)
(* disk (vault, store.rs and manifest.rs).                                 *)
(*                                                                         *)
(* What is hard is the end of a recording.  The thread is told to stop,    *)
(* reaches its limit, loses its devices or fails to write, with audio in   *)
(* the devices' queue, in the encoder and in an unsaved manifest; the      *)
(* window may ask, stop waiting, and start the next recording meanwhile;   *)
(* the process may die between any two writes.                             *)
(***************************************************************************)
EXTENDS Naturals, Sequences, SequencesExt

CONSTANTS
  Recording,     \* the recordings that may be made, by local id
  None,          \* no recording
  SegmentChunks, \* chunks of audio in a full segment
  Limit,         \* chunks a session may keep
  WarnBefore,    \* chunks before the limit at which it warns
  Depth,         \* chunks the devices' queue holds
  MaxHeard,      \* bound: chunks the devices deliver
  MaxAsked,      \* bound: commands the window gives
  MaxTimeouts,   \* bound: commands the window stops waiting for
  MaxFailures,   \* bound: writes the disk refuses
  MaxCrashes,    \* bound: ends of the process
  Failing        \* the writes the disk may refuse

ASSUME RecordingAssumption ==
  /\ None \notin Recording
  /\ SegmentChunks \in Nat \ {0} /\ Depth \in Nat \ {0}
  /\ Limit \in Nat \ {0} /\ WarnBefore \in Nat
  /\ MaxHeard \in Nat /\ MaxAsked \in Nat /\ MaxTimeouts \in Nat
  /\ MaxFailures \in Nat /\ MaxCrashes \in Nat
  /\ Failing \subseteq {"begin", "put", "save", "note", "state"}

VARIABLES
  disk,     \* disk: manifest.json of each recording
  files,    \* disk: its segment files
  recorder, \* memory: the Recorder
  mailbox,  \* memory: the requests an engine has not read
  device,   \* memory: the endpoints of an engine
  session,  \* memory: the session of an engine
  writer,   \* memory: the encoder, and the manifest the vault keeps for it
  thread,   \* memory: where the recording thread is
  past,     \* what has happened to a recording
  heard,    \* chunks delivered so far
  left      \* the commands and faults that may still come

vars == << disk, files, recorder, mailbox, device, session, writer, thread,
           past, heard, left >>

vault  == << disk, files >>
engine == << mailbox, device, session, writer, thread >>

\* A chunk is known by when it was heard, and in which pause, if any.
Chunk == [at : 1 .. MaxHeard, pause : Nat]
Index == 1 .. MaxHeard

AppState == {"recording", "paused", "uploading"}
Command  == {"pause", "resume", "finish"}
Step     == {"off", "top", "poll", "write", "put", "save", "drain", "flush",
             "note", "state", "ended"}
Phase    == {"loop", "tail", "finish"}

Absent   == [state |-> "absent", segments |-> << >>, paused |-> 0]
Torn     == << >>
Begun    == [state |-> "recording", recorded |-> 0, discarded |-> 0, warned |-> FALSE]
Fresh    == [pending |-> << >>, current |-> << >>, closed |-> 0, named |-> 0]
Off      == [step |-> "off", phase |-> "loop", polled |-> 0, failed |-> FALSE, ok |-> FALSE]
Silent   == [queue |-> << >>, live |-> FALSE, open |-> FALSE]
AtRest   == [engine |-> None, asking |-> "none", joining |-> {},
             completed |-> None, fault |-> FALSE]

Init ==
  /\ disk = [r \in Recording |-> Absent]
  /\ files = [r \in Recording |-> [i \in Index |-> Torn]]
  /\ recorder = AtRest
  /\ mailbox = [r \in Recording |-> << >>]
  /\ device = [r \in Recording |-> Silent]
  /\ session = [r \in Recording |-> Begun]
  /\ writer = [r \in Recording |-> Fresh]
  /\ thread = [r \in Recording |-> Off]
  /\ past = [r \in Recording |-> [kept |-> << >>, failures |-> 0, resumed |-> 0]]
  /\ heard = 0
  /\ left = [asked |-> MaxAsked, timeouts |-> MaxTimeouts, failures |-> MaxFailures, crashes |-> MaxCrashes]

At(r, step) == thread[r].step = step
Goes(r, step) == thread' = [thread EXCEPT ![r].step = step]

Spend(fault) ==
  /\ left[fault] > 0
  /\ left' = [left EXCEPT ![fault] = @ - 1]

\* The disk refuses a write of one recording.
Refused(r, write) ==
  /\ write \in Failing /\ Spend("failures")
  /\ past' = [past EXCEPT ![r].failures = @ + 1]

-----------------------------------------------------------------------------
(* The recorder.  Every operation begins with reap(), which is the action  *)
(* Reap: the others are stated for an engine that has been looked at.      *)

Running(r) == thread[r].step \notin {"off", "ended"}

Reap ==
  LET r == recorder.engine IN
  /\ r # None /\ At(r, "ended") /\ recorder.asking = "none"
  /\ recorder' = IF thread[r].ok
                 THEN [recorder EXCEPT !.engine = None, !.completed = r]
                 ELSE [recorder EXCEPT !.engine = None, !.fault = TRUE]
  /\ UNCHANGED << vault, engine, past, heard, left >>

\* Recorder::start_with, from the two refusals to the engine's first step.
MayStart(r) ==
  /\ recorder.engine = None /\ recorder.asking = "none" /\ recorder.completed = None
  /\ disk[r] = Absent

StartWith(r) ==
  /\ MayStart(r)
  /\ disk' = [disk EXCEPT ![r].state = "recording"]
  /\ recorder' = [recorder EXCEPT !.engine = r]
  /\ device' = [device EXCEPT ![r] = [queue |-> << >>, live |-> TRUE, open |-> TRUE]]
  /\ Goes(r, "top")
  /\ UNCHANGED << files, mailbox, session, writer, past, heard, left >>

\* The vault refuses, before or after the manifest was first saved.
StartFails(r) ==
  /\ MayStart(r) /\ Refused(r, "begin")
  /\ \/ UNCHANGED disk
     \/ disk' = [disk EXCEPT ![r].state = "recording"]
  /\ UNCHANGED << files, recorder, engine, heard >>

\* Engine::ask: the request is sent and the recorder's lock held for the answer.
Ask(op) ==
  LET r == recorder.engine IN
  /\ r # None /\ recorder.asking = "none" /\ Running(r) /\ Spend("asked")
  /\ mailbox' = [mailbox EXCEPT ![r] = Append(@, [op |-> op, awaited |-> TRUE])]
  /\ recorder' = [recorder EXCEPT !.asking = op]
  /\ UNCHANGED << vault, device, session, writer, thread, past, heard >>

LastUnawaited(q) == [q EXCEPT ![Len(q)].awaited = FALSE]

\* Mutant: a refused stop lets go of the engine.
TimesOutDropping ==
  LET r == recorder.engine IN
  /\ recorder.asking # "none" /\ Running(r) /\ Spend("timeouts")
  /\ mailbox' = [mailbox EXCEPT ![r] = LastUnawaited(@)]
  /\ recorder' = [recorder EXCEPT !.engine = IF recorder.asking = "finish" THEN None ELSE r,
                                  !.asking = "none"]
  /\ UNCHANGED << vault, device, session, writer, thread, past, heard >>

\* COMMAND_TIMEOUT: the caller is refused, the request stays in the mailbox,
\* and an engine asked to stop is put back.
TimesOut ==
  LET r == recorder.engine IN
  /\ recorder.asking # "none" /\ Running(r) /\ Spend("timeouts")
  /\ mailbox' = [mailbox EXCEPT ![r] = LastUnawaited(@)]
  /\ recorder' = [recorder EXCEPT !.asking = "none"]
  /\ UNCHANGED << vault, device, session, writer, thread, past, heard >>

\* The thread ended with the request unread.
Unanswered ==
  /\ recorder.asking # "none" /\ At(recorder.engine, "ended")
  /\ recorder' = [recorder EXCEPT !.asking = "none"]
  /\ UNCHANGED << vault, engine, past, heard, left >>

\* Recorder::finish, once the thread it waits for is over: it holds no lock,
\* and an error is returned without being kept.
Joined(r) ==
  /\ r \in recorder.joining /\ At(r, "ended")
  /\ recorder' = IF thread[r].ok
                 THEN [recorder EXCEPT !.joining = @ \ {r}, !.completed = r]
                 ELSE [recorder EXCEPT !.joining = @ \ {r}]
  /\ UNCHANGED << vault, engine, past, heard, left >>

-----------------------------------------------------------------------------
(* The devices. *)

Paused(r) == session[r].state = "paused"

Heard(r) ==
  [at |-> heard', pause |-> IF Paused(r) THEN past[r].resumed + 1 ELSE 0]

\* Mutant: a queue without a bound.
HearUnbounded(r) ==
  /\ device[r].live /\ heard < MaxHeard
  /\ heard' = heard + 1
  /\ device' = [device EXCEPT ![r].queue = Append(@, Heard(r))]
  /\ UNCHANGED << vault, recorder, mailbox, session, writer, thread, past, left >>

\* A full queue drops what is offered to it.
Hear(r) ==
  /\ device[r].live /\ heard < MaxHeard
  /\ heard' = heard + 1
  /\ device' = IF Len(device[r].queue) < Depth
               THEN [device EXCEPT ![r].queue = Append(@, Heard(r))] ELSE device
  /\ UNCHANGED << vault, recorder, mailbox, session, writer, thread, past, left >>

\* Both endpoints stop delivering.
EndpointsDie(r) ==
  /\ device[r].live
  /\ device' = [device EXCEPT ![r].live = FALSE]
  /\ UNCHANGED << vault, recorder, mailbox, session, writer, thread, past, heard, left >>

-----------------------------------------------------------------------------
(* The session's rules. *)

Allowed == [recording |-> {"paused", "uploading"},
            paused    |-> {"recording", "uploading"},
            uploading |-> {}]

Target == [pause |-> "paused", resume |-> "recording", finish |-> "uploading"]

Accepts(s, op) == Target[op] \in Allowed[s.state] /\ (op = "resume" => s.state = "paused")

Keeps(s) == s.state = "recording"

\* Session::counted: audio is billed or discarded by the state it is in.
Counted(s, chunks) ==
  IF Keeps(s)
  THEN [s EXCEPT !.recorded = @ + chunks,
                 !.warned = @ \/ (s.recorded + chunks < Limit
                                  /\ s.recorded + chunks + WarnBefore >= Limit)]
  ELSE [s EXCEPT !.discarded = @ + chunks]

\* Mutant: the limit is only noticed when it is met exactly.
OverLimitExactly(s) == Keeps(s) /\ s.recorded = Limit

OverLimit(s) == Keeps(s) /\ s.recorded >= Limit

-----------------------------------------------------------------------------
(* The recording thread: engine.rs, run and capture. *)

\* One request of the mailbox, with its answer.
Obey(r) ==
  LET q == Head(mailbox[r])
      ok == Accepts(session[r], q.op)
      stop == ok /\ q.op = "finish"
  IN
  /\ At(r, "top") /\ device[r].open /\ mailbox[r] # << >>
  /\ mailbox' = [mailbox EXCEPT ![r] = Tail(@)]
  /\ session' = IF ok /\ ~ stop THEN [session EXCEPT ![r].state = Target[q.op]] ELSE session
  /\ past' = IF ok /\ q.op = "resume" THEN [past EXCEPT ![r].resumed = @ + 1] ELSE past
  /\ recorder' = IF ~ q.awaited THEN recorder
                 ELSE IF stop THEN [recorder EXCEPT !.asking = "none", !.engine = None,
                                                    !.joining = @ \cup {r}]
                 ELSE [recorder EXCEPT !.asking = "none"]
  /\ Goes(r, IF stop THEN "drain" ELSE "top")
  /\ UNCHANGED << vault, device, writer, heard, left >>

\* Nobody asks anything: whatever the devices have is taken.  What was heard
\* is kept or dropped by the state of the session now.
Poll(r) ==
  LET batch == device[r].queue IN
  /\ At(r, "top") /\ device[r].open /\ mailbox[r] = << >>
  /\ batch # << >> \/ ~ device[r].live
  /\ device' = [device EXCEPT ![r] = [queue |-> << >>, live |-> @.live, open |-> @.live]]
  /\ \/ /\ batch = << >>
        /\ UNCHANGED << writer, thread, session >>
     \/ /\ batch # << >> /\ Keeps(session[r])
        /\ writer' = [writer EXCEPT ![r].pending = @ \o batch]
        /\ thread' = [thread EXCEPT ![r].step = "write", ![r].polled = Len(batch)]
        /\ UNCHANGED session
     \/ /\ batch # << >> /\ ~ Keeps(session[r])
        /\ session' = [session EXCEPT ![r] = Counted(@, Len(batch))]
        /\ UNCHANGED << writer, thread >>
  /\ UNCHANGED << vault, recorder, mailbox, past, heard, left >>

\* Neither endpoint delivers any more.
NothingRuns(r) ==
  /\ At(r, "top") /\ ~ device[r].open
  /\ Goes(r, "drain")
  /\ UNCHANGED << vault, recorder, mailbox, device, session, writer, past, heard, left >>

\* Mutant: a segment is closed one chunk too late.
LateCapacity == SegmentChunks + 1

Capacity == SegmentChunks

Full(w) == Len(w.current) >= Capacity

\* SegmentedOpusWriter::write: frame after frame, as far as the open segment
\* and what was handed over go.
Encode(r) ==
  LET w == writer[r]
      room == Capacity - Len(w.current)
      taken == SubSeq(w.pending, 1, IF Len(w.pending) < room THEN Len(w.pending) ELSE room)
      after == [w EXCEPT !.pending = SubSeq(@, Len(taken) + 1, Len(@)),
                         !.current = @ \o taken]
  IN
  /\ At(r, "write") /\ w.pending # << >>
  /\ writer' = [writer EXCEPT ![r] = after]
  /\ past' = [past EXCEPT ![r].kept = @ \o taken]
  /\ IF Full(after) THEN Goes(r, "put") ELSE UNCHANGED thread
  /\ UNCHANGED << vault, recorder, mailbox, device, session, heard, left >>

\* The batch is written, and counted.
Written(r) ==
  LET s == Counted(session[r], thread[r].polled) IN
  /\ At(r, "write") /\ thread[r].phase = "loop" /\ writer[r].pending = << >>
  /\ session' = [session EXCEPT ![r] = s]
  /\ thread' = [thread EXCEPT ![r].step = IF OverLimit(s) THEN "drain" ELSE "top",
                              ![r].polled = 0]
  /\ UNCHANGED << vault, recorder, mailbox, device, writer, past, heard, left >>

\* Mutant: the tail of a paused recording is kept.
KeepsTailAlways(s) == TRUE

\* Read before the session is told that the recording is over.
KeepsTail(s) == Keeps(s)

\* Source::finish: the devices stop, and hand over what they still had.
Drain(r) ==
  LET tail == device[r].queue IN
  /\ At(r, "drain")
  /\ device' = [device EXCEPT ![r] = Silent]
  /\ IF KeepsTail(session[r]) /\ tail # << >>
     THEN /\ writer' = [writer EXCEPT ![r].pending = @ \o tail]
          /\ thread' = [thread EXCEPT ![r].step = "write", ![r].phase = "tail",
                                      ![r].polled = Len(tail)]
          /\ UNCHANGED session
     ELSE /\ session' = [session EXCEPT ![r].state = "uploading"]
          /\ thread' = [thread EXCEPT ![r].step = "flush", ![r].phase = "finish"]
          /\ UNCHANGED writer
  /\ UNCHANGED << vault, recorder, mailbox, past, heard, left >>

\* Mutant: the session is told that the meeting is over first.
FinishedThenCounted(s, chunks) == Counted([s EXCEPT !.state = "uploading"], chunks)

\* Counted before the session is told that the meeting is over.
CountedThenFinished(s, chunks) == [Counted(s, chunks) EXCEPT !.state = "uploading"]

TailWritten(r) ==
  /\ At(r, "write") /\ thread[r].phase = "tail" /\ writer[r].pending = << >>
  /\ session' = [session EXCEPT ![r] = CountedThenFinished(@, thread[r].polled)]
  /\ thread' = [thread EXCEPT ![r].step = "flush", ![r].phase = "finish"]
  /\ UNCHANGED << vault, recorder, mailbox, device, writer, past, heard, left >>

\* SegmentedOpusWriter::finish: one frame of what a failed write left behind,
\* and the segment that is open.
Flush(r) ==
  LET w == writer[r]
      rest == SubSeq(w.pending, 1, IF w.pending = << >> THEN 0 ELSE 1)
  IN
  /\ At(r, "flush")
  /\ writer' = [writer EXCEPT ![r].pending = << >>, ![r].current = @ \o rest]
  /\ past' = [past EXCEPT ![r].kept = @ \o rest]
  /\ Goes(r, IF w.current \o rest = << >> THEN "note" ELSE "put")
  /\ UNCHANGED << vault, recorder, mailbox, device, session, heard, left >>

-----------------------------------------------------------------------------
(* One segment: the encoder hands it over, the vault writes and names it.  *)

\* The thread is over, and with it go the encoder and the unread requests.
Ends(r, success) ==
  /\ thread' = [thread EXCEPT ![r].step = "ended", ![r].polled = 0, ![r].ok = success]
  /\ writer' = [writer EXCEPT ![r] = Fresh]
  /\ mailbox' = [mailbox EXCEPT ![r] = << >>]

\* The segment is gone from the encoder.  In the loop the error ends the
\* loop; in the tail the tail is counted all the same; at the end it is the end.
Fails(r, failing) ==
  CASE thread[r].phase = "loop" ->
         /\ thread' = [thread EXCEPT ![r].step = "drain", ![r].failed = TRUE]
         /\ writer' = [writer EXCEPT ![r] = failing]
         /\ UNCHANGED << session, mailbox >>
    [] thread[r].phase = "tail" ->
         /\ thread' = [thread EXCEPT ![r].step = "flush", ![r].phase = "finish", ![r].failed = TRUE]
         /\ writer' = [writer EXCEPT ![r] = failing]
         /\ session' = [session EXCEPT ![r] = CountedThenFinished(@, thread[r].polled)]
         /\ UNCHANGED mailbox
    [] thread[r].phase = "finish" ->
         /\ Ends(r, FALSE)
         /\ UNCHANGED session

Emptied(w) == [w EXCEPT !.current = << >>]

\* Mutant: the write is not flushed before the manifest is saved.
PutUnflushed(r) ==
  LET w == writer[r] IN
  /\ At(r, "put") /\ w.closed = w.named
  /\ \E content \in {w.current, Torn} : files' = [files EXCEPT ![r][w.closed + 1] = content]
  /\ Goes(r, "save")
  /\ UNCHANGED << disk, recorder, mailbox, device, session, writer, past, heard, left >>

\* The sealed segment is written and flushed.
PutSegment(r) ==
  LET w == writer[r] IN
  /\ At(r, "put") /\ w.closed = w.named
  /\ files' = [files EXCEPT ![r][w.closed + 1] = w.current]
  /\ Goes(r, "save")
  /\ UNCHANGED << disk, recorder, mailbox, device, session, writer, past, heard, left >>

PutFails(r) ==
  LET w == writer[r] IN
  /\ At(r, "put") /\ w.closed = w.named /\ Refused(r, "put")
  /\ files' = [files EXCEPT ![r][w.closed + 1] = Torn]
  /\ Fails(r, Emptied(w))
  /\ UNCHANGED << disk, recorder, device, heard >>

\* SegmentOutOfOrder: the encoder and the vault no longer count alike.
OutOfOrder(r) ==
  /\ At(r, "put") /\ writer[r].closed # writer[r].named
  /\ past' = [past EXCEPT ![r].failures = @ + 1]
  /\ Fails(r, Emptied(writer[r]))
  /\ UNCHANGED << vault, recorder, device, heard, left >>

AfterSegment == [loop |-> "write", tail |-> "write", finish |-> "note"]

\* The manifest names the segment, in memory and then on the disk.
SaveSegment(r) ==
  LET w == writer[r] IN
  /\ At(r, "save")
  /\ disk' = [disk EXCEPT ![r].segments = Append(@, w.current)]
  /\ writer' = [writer EXCEPT ![r] = [Emptied(w) EXCEPT !.closed = @ + 1, !.named = @ + 1]]
  /\ Goes(r, AfterSegment[thread[r].phase])
  /\ UNCHANGED << files, recorder, mailbox, device, session, past, heard, left >>

\* The vault has counted the segment, the encoder has not.
SaveFails(r) ==
  /\ At(r, "save") /\ Refused(r, "save")
  /\ Fails(r, [Emptied(writer[r]) EXCEPT !.named = @ + 1])
  /\ UNCHANGED << vault, recorder, device, heard >>

-----------------------------------------------------------------------------
(* The manifest is read back from the disk and closed. *)

NotePaused(r) ==
  /\ At(r, "note")
  /\ disk' = [disk EXCEPT ![r].paused = session[r].discarded]
  /\ Goes(r, "state")
  /\ UNCHANGED << files, recorder, mailbox, device, session, writer, past, heard, left >>

\* The recording is offered to the uploader.
SetUploading(r) ==
  /\ At(r, "state")
  /\ disk' = [disk EXCEPT ![r].state = "uploading"]
  /\ Ends(r, TRUE)
  /\ UNCHANGED << files, recorder, device, session, past, heard, left >>

CloseFails(r) ==
  /\ \/ At(r, "note") /\ Refused(r, "note")
     \/ At(r, "state") /\ Refused(r, "state")
  /\ Ends(r, FALSE)
  /\ UNCHANGED << vault, recorder, device, session, heard >>

\* The process dies, and is started again with what is on the disk.
Crash ==
  /\ Spend("crashes")
  /\ recorder' = AtRest
  /\ mailbox' = [r \in Recording |-> << >>]
  /\ device' = [r \in Recording |-> Silent]
  /\ session' = [r \in Recording |-> Begun]
  /\ writer' = [r \in Recording |-> Fresh]
  /\ thread' = [r \in Recording |-> Off]
  /\ \/ UNCHANGED files
     \/ \E r \in Recording :
          /\ At(r, "put")
          /\ files' = [files EXCEPT ![r][writer[r].closed + 1] = Torn]
  /\ UNCHANGED << disk, past, heard >>

-----------------------------------------------------------------------------
WindowStep ==
  \/ Reap \/ TimesOut \/ Unanswered
  \/ \E op \in Command : Ask(op)
  \/ \E r \in Recording : StartWith(r) \/ StartFails(r) \/ Joined(r)

DeviceStep == \E r \in Recording : Hear(r) \/ EndpointsDie(r)

SegmentStep(r) ==
  \/ PutSegment(r) \/ PutFails(r) \/ OutOfOrder(r) \/ SaveSegment(r) \/ SaveFails(r)

ThreadStep(r) ==
  \/ Obey(r) \/ Poll(r) \/ NothingRuns(r) \/ Encode(r) \/ Written(r)
  \/ Drain(r) \/ TailWritten(r) \/ Flush(r) \/ SegmentStep(r)
  \/ NotePaused(r) \/ SetUploading(r) \/ CloseFails(r)

Next == WindowStep \/ DeviceStep \/ (\E r \in Recording : ThreadStep(r)) \/ Crash

Spec == Init /\ [][Next]_vars
-----------------------------------------------------------------------------
(* Properties. *)

Audio(r) == FlattenSeq(disk[r].segments)

Clean(r) == past[r].failures = 0

\* Every value stays in the range the code can give it; in particular the
\* devices' queue never holds more than its depth (pipeline.rs).
TypeOK ==
  /\ \A r \in Recording :
       /\ disk[r].state \in {"absent", "recording", "uploading"}
       /\ disk[r].segments \in Seq(Seq(Chunk)) /\ disk[r].paused \in Nat
       /\ files[r] \in [Index -> Seq(Chunk)]
       /\ mailbox[r] \in Seq([op : Command, awaited : BOOLEAN])
       /\ device[r].queue \in Seq(Chunk) /\ Len(device[r].queue) <= Depth
       /\ device[r].live \in BOOLEAN /\ device[r].open \in BOOLEAN
       /\ writer[r] \in [pending : Seq(Chunk), current : Seq(Chunk), closed : Nat, named : Nat]
       /\ past[r] \in [kept : Seq(Chunk), failures : Nat, resumed : Nat]
  /\ session \in [Recording -> [state : AppState, recorded : Nat, discarded : Nat,
                                warned : BOOLEAN]]
  /\ thread \in [Recording -> [step : Step, phase : Phase, polled : Nat,
                               failed : BOOLEAN, ok : BOOLEAN]]
  /\ recorder \in [engine : Recording \cup {None}, asking : Command \cup {"none"},
                   joining : SUBSET Recording, completed : Recording \cup {None},
                   fault : BOOLEAN]
  /\ heard \in 0 .. MaxHeard
  /\ left \in [{"asked", "timeouts", "failures", "crashes"} -> Nat]

\* A manifest names only segments that are whole on the disk, each holding
\* the audio it was named for, whatever failed or died meanwhile (store.rs,
\* "A manifest that names a segment which is not fully on disk turns a crash
\* into corruption").
NamedIsDurable ==
  \A r \in Recording : \A i \in DOMAIN disk[r].segments :
    files[r][i] = disk[r].segments[i]

\* The audio on the disk is in order and without repetition; and as long as
\* the disk accepts writes, what the encoder took is there from the first
\* chunk on, but for the one segment a brutal stop may cost (EF-17).
LosesOneSegment ==
  \A r \in Recording :
    /\ \A i, j \in DOMAIN Audio(r) : i < j => Audio(r)[i].at < Audio(r)[j].at
    /\ Clean(r) => /\ IsPrefix(Audio(r), past[r].kept)
                   /\ Len(past[r].kept) <= Len(Audio(r)) + SegmentChunks

\* A recording that ended without a failed write is offered to the uploader,
\* with exactly the audio the session billed and the pauses it discarded: the
\* tail is neither lost nor free (EF-33, engine.rs and session.rs).
BilledIsKept ==
  \A r \in Recording : At(r, "ended") /\ Clean(r) =>
    /\ disk[r].state = "uploading"
    /\ Len(Audio(r)) = session[r].recorded
    /\ disk[r].paused = session[r].discarded

\* Audio heard in a pause never reaches the encoder unless the recording was
\* resumed after it was heard: a meeting stopped, cut off or broken while
\* paused ends where the pause began (session.rs, Disposition::Discard).
PauseKeepsNothing ==
  \A r \in Recording : \A i \in DOMAIN past[r].kept :
    past[r].kept[i].pause <= past[r].resumed

\* The loop never goes on with its budget spent, however much one poll
\* brings, and the overrun is at most what one poll and the tail hold (EF-34).
WithinBudget ==
  \A r \in Recording :
    /\ At(r, "top") => session[r].recorded < Limit
    /\ session[r].recorded < Limit + 2 * Depth

\* A recording in progress is always within somebody's reach: the recorder
\* holds its engine, or is waiting for it to end (lib.rs, finish).
RunningIsHeld ==
  \A r \in Recording : Running(r) => recorder.engine = r \/ r \in recorder.joining
=============================================================================
