------------------------ MODULE MeetingPipelineProofs ------------------------
(***************************************************************************)
(* Theorems about MeetingPipeline for every number of meetings, requests   *)
(* and workers, every quota and every bound.                               *)
(***************************************************************************)
EXTENDS MeetingPipeline, TLAPS

-----------------------------------------------------------------------------
(* Lemmas about the operators the actions are built from.                  *)

\* A commit leaves a well-formed row.
LEMMA MergeType ==
  ASSUME NEW now \in Row, NEW loaded \in Row, NEW new \in Row
  PROVE  Merge(now, loaded, new) \in Row
  BY DEF Merge, Column, Row

\* A slot that runs an operation holds a whole transaction record.
LEMMA Running ==
  ASSUME TypeOK, NEW p \in Slot, tx[p] # Idle
  PROVE  tx[p] \in Tx
  BY DEF TypeOK

\* An operation other than "idle" is not the idle record.
LEMMA NotIdle ==
  ASSUME NEW p \in Slot, tx[p].op # "idle"
  PROVE  tx[p] # Idle
  BY DEF Idle

\* Lengths are natural numbers.
LEMMA SecondsType ==
  ASSUME PipelineAssumption
  PROVE  Seconds \subseteq Nat
<1>1. Durations \subseteq Nat
  BY PipelineAssumption DEF PipelineAssumption
<1> QED
  BY <1>1 DEF Seconds

\* The effect of a commit on the table: the merged row, and no other.
LEMMA WriteType ==
  ASSUME TypeOK, NEW p \in Slot, tx[p] \in Tx, NEW new \in Row, Write(p, new)
  PROVE  row' \in [Meeting -> Row]
<1>1. tx[p].m \in Meeting /\ tx[p].old \in Row
  BY DEF Tx
<1>2. row \in [Meeting -> Row]
  BY DEF TypeOK
<1>3. Written(p, new) \in Row
  BY <1>1, <1>2, MergeType DEF Written
<1> QED
  BY <1>1, <1>2, <1>3 DEF Write

\* A commit that changes a status sets the one it decided, on its own meeting.
LEMMA WriteStatus ==
  ASSUME TypeOK, NEW p \in Slot, tx[p] \in Tx, NEW new \in Row, Write(p, new),
         NEW m \in Meeting
  PROVE  \/ row'[m].status = row[m].status
         \/ /\ m = tx[p].m
            /\ new.status # tx[p].old.status
            /\ row'[m].status = new.status
  BY DEF Write, Written, Merge, Column, Tx, Row, TypeOK

\* The two commits that write a column whatever it was: a title, a deadline.
LEMMA TitleType ==
  ASSUME TypeOK, NEW p \in Slot, tx[p] \in Tx, CommitUpdate(p)
  PROVE  /\ row' \in [Meeting -> Row]
         /\ \A m \in Meeting : row'[m].status = row[m].status
<1> DEFINE now == row[tx[p].m]
           title == IF tx[p].ok THEN "typed" ELSE Column(now.title, tx[p].old.title, "blank")
<1>1. tx[p].m \in Meeting /\ now \in Row /\ row \in [Meeting -> Row]
  BY DEF Tx, TypeOK
<1>2. title \in {"blank", "typed", "model"}
  BY <1>1 DEF Row, Column
<1>3. row' = [row EXCEPT ![tx[p].m] = [now EXCEPT !.title = title]]
  BY DEF CommitUpdate
<1>4. [now EXCEPT !.title = title] \in Row /\ [now EXCEPT !.title = title].status = now.status
  <2> HIDE DEF now, title
  <2> QED
    BY <1>1, <1>2 DEF Row
<1> QED
  BY <1>1, <1>3, <1>4

LEMMA DeadlineType ==
  ASSUME TypeOK, PipelineAssumption, NEW p \in Slot, tx[p] \in Tx, CommitFinalize(p)
  PROVE  /\ row' \in [Meeting -> Row]
         /\ \A m \in Meeting : row'[m].status \in {row[m].status, "QUEUED", "QUOTA_HOLD"}
<1> DEFINE new == [tx[p].old EXCEPT !.status = Destination(tx[p]), !.upload = 0]
<1>1. /\ tx[p].m \in Meeting /\ tx[p].old \in Row
      /\ row \in [Meeting -> Row] /\ row[tx[p].m] \in Row
  BY DEF Tx, TypeOK
<1>2. Destination(tx[p]) \in {"QUEUED", "QUOTA_HOLD"} /\ 0 \in UploadId
  BY PipelineAssumption DEF Destination, UploadId, PipelineAssumption
<1>3. new \in Row /\ new.status = Destination(tx[p])
  BY <1>1, <1>2 DEF Row, Committed, Transient, Status
<1>4. Finalized(p) \in Row
  <2>1. Finalized(p) = Merge(row[tx[p].m], tx[p].old, new)
    BY DEF Finalized, Written
  <2> HIDE DEF new
  <2> QED
    BY <1>1, <1>3, <2>1, MergeType
<1>5. Finalized(p).status \in {row[tx[p].m].status, "QUEUED", "QUOTA_HOLD"}
  BY <1>1, <1>2, <1>3 DEF Finalized, Written, Merge, Column, Row
<1>6. row' = [row EXCEPT ![tx[p].m] = [Finalized(p) EXCEPT !.purge = "ahead"]]
  BY DEF CommitFinalize
<1>7. /\ [Finalized(p) EXCEPT !.purge = "ahead"] \in Row
      /\ [Finalized(p) EXCEPT !.purge = "ahead"].status = Finalized(p).status
  BY <1>4 DEF Row
<1> QED
  BY <1>1, <1>5, <1>6, <1>7

\* The rows of the table that matter here.
LEMMA Moves ==
  ASSUME NEW s \in Committed
  PROVE  /\ "UPLOADING" \in AllowedFrom(s) => s = "CREATED"
         /\ "QUOTA_HOLD" \in AllowedFrom(s) => s = "UPLOADING"
         /\ "QUEUED" \in AllowedFrom(s) => s \in {"UPLOADING", "QUOTA_HOLD", "FAILED"}
         /\ "CANCELLED" \in AllowedFrom(s) => s \in {"CREATED", "UPLOADING", "QUOTA_HOLD"}
<1>1. AllowedFrom(s) = TRANSITIONS[s]
  BY DEF AllowedFrom
<1>2. CASE s \in {"CREATED", "UPLOADING", "QUOTA_HOLD"}
  BY <1>1, <1>2 DEF TRANSITIONS, Status
<1>3. CASE s \in {"QUEUED", "ANALYZING", "PUBLISHED"}
  BY <1>1, <1>3 DEF TRANSITIONS, Status
<1>4. CASE s \in {"AUDIO_PURGED", "FAILED", "CANCELLED", "DELETED"}
  BY <1>1, <1>4 DEF TRANSITIONS, Status
<1> QED
  BY <1>2, <1>3, <1>4 DEF Committed, Transient, Status

\* The moves one commit makes, straight or through states nobody sees.
LEMMA Reached ==
  /\ Reaches("CREATED", "UPLOADING")
  /\ Reaches("QUEUED", "ANALYZING") /\ Reaches("QUEUED", "FAILED")
  /\ Reaches("ANALYZING", "FAILED")
  /\ Reaches("FAILED", "ANALYZING") /\ Reaches("FAILED", "QUEUED")
  /\ Reaches("PUBLISHED", "AUDIO_PURGED")
<1>1. /\ "UPLOADING" \in AllowedFrom("CREATED")
      /\ "FAILED" \in AllowedFrom("QUEUED") /\ "TRANSCRIBING" \in AllowedFrom("QUEUED")
      /\ "ANALYZING" \in AllowedFrom("TRANSCRIBING")
  BY DEF AllowedFrom, TRANSITIONS, Status
<1>2. /\ "FAILED" \in AllowedFrom("ANALYZING")
      /\ "ANALYZING" \in AllowedFrom("FAILED") /\ "QUEUED" \in AllowedFrom("FAILED")
      /\ "AUDIO_PURGED" \in AllowedFrom("PUBLISHED")
  BY DEF AllowedFrom, TRANSITIONS, Status
<1>3. "TRANSCRIBING" \in Transient
  BY DEF Transient
<1> QED
  BY <1>1, <1>2, <1>3 DEF Reaches

\* Beginning, ending and advancing a transaction keep the slots well formed.
LEMMA BeginType ==
  ASSUME TypeOK, NEW p \in Slot, NEW t \in Tx, tx' = [tx EXCEPT ![p] = t]
  PROVE  tx' \in [Slot -> Tx \cup {Idle}]
  BY DEF TypeOK

LEMMA CloseType ==
  ASSUME TypeOK, NEW p \in Slot, Close(p)
  PROVE  tx' \in [Slot -> Tx \cup {Idle}]
  BY DEF TypeOK, Close

Steps == {"read", "ready", "mismatch", "aborted", "kept", "committed", "sent"}

LEMMA StepType ==
  ASSUME TypeOK, NEW p \in Slot, tx[p] \in Tx, NEW s \in Steps, Step(p, s)
  PROVE  tx' \in [Slot -> Tx \cup {Idle}]
<1>1. [tx[p] EXCEPT !.step = s] \in Tx
  BY DEF Tx, Steps
<1>2. tx' = [tx EXCEPT ![p] = [tx[p] EXCEPT !.step = s]]
  BY DEF Step
<1> QED
  BY <1>1, <1>2 DEF TypeOK

\* A new transaction is a well-formed one.
LEMMA OpenType ==
  ASSUME TypeOK, PipelineAssumption,
         NEW op \in ApiOp \cup WorkerOp, NEW m \in Meeting, NEW s \in Steps
  PROVE  Open(op, m, s) \in Tx
  BY DEF Open, Tx, TypeOK, Steps, UploadId, Seconds, PipelineAssumption

\* Sending a message, and taking one, keep the broker's counts.
LEMMA SendType ==
  ASSUME TypeOK, NEW msg \in Message, Send(msg)
  PROVE  queue' \in [Message -> Nat]
  BY DEF Send, TypeOK

LEMMA TakeType ==
  ASSUME TypeOK, NEW p, NEW msg \in Message, Take(p, msg)
  PROVE  queue' \in [Message -> Nat]
  BY DEF Take, TypeOK

-----------------------------------------------------------------------------
(* Typing.                                                                 *)

LEMMA InitType ==
  ASSUME PipelineAssumption, Init
  PROVE  TypeOK
  BY DEF Init, TypeOK, Row, NoRow, Committed, Transient, Status, UploadId, Seconds,
         PipelineAssumption

\* The parts of TypeOK that no request touches.
LEMMA UntouchedType ==
  ASSUME TypeOK, UNCHANGED << tables, clicks, faults >>
  PROVE  /\ transcripts' \subseteq Meeting /\ reports' \subseteq Meeting
         /\ entries' \in [Meeting -> Nat] /\ billed' \in [Meeting -> Nat]
         /\ consumed' \in Nat /\ clicks' \in Nat /\ faults' \in Nat
  BY DEF TypeOK, tables

\* Every request's first step keeps the types.
LEMMA RequestBeginsType ==
  ASSUME TypeOK, PipelineAssumption, NEW p \in Api, RequestBegins(p)
  PROVE  TypeOK'
<1> USE DEF ApiOp, Steps
<1>1. PICK m \in Meeting, c \in Caller :
        \/ \E typed \in BOOLEAN : BeginUpdate(p, m, c, typed)
        \/ BeginRemove(p, m, c)
        \/ \E s \in Durations : BeginStartUpload(p, m, c, s)
        \/ BeginFinalize(p, m, c)
        \/ BeginAbandon(p, m, c)
        \/ BeginRetry(p, m, c)
  BY DEF RequestBegins
<1>2. p \in Slot
  BY DEF Slot
<1>3. ASSUME NEW op \in ApiOp, NEW s \in Steps
      PROVE  Open(op, m, s) \in Tx
  BY OpenType
<1> DEFINE Kept == /\ tx' \in [Slot -> Tx \cup {Idle}]
                   /\ UNCHANGED << row, tables, store, queue, faults >>
                   /\ clicks' \in Nat
<1>4. SUFFICES Kept
  BY DEF TypeOK, tables, store
<1>5. clicks \in Nat
  BY DEF TypeOK
<1>6. ASSUME NEW typed \in BOOLEAN, BeginUpdate(p, m, c, typed)
      PROVE  Kept
  <2>1. [Open("update", m, "ready") EXCEPT !.ok = typed] \in Tx
    BY <1>3 DEF Tx
  <2> QED
    BY <1>2, <1>5, <1>6, <2>1, BeginType DEF BeginUpdate, Begin
<1>7. CASE BeginRemove(p, m, c)
  BY <1>2, <1>3, <1>5, <1>7, BeginType DEF BeginRemove, Begin
<1>8. ASSUME NEW s \in Durations, BeginStartUpload(p, m, c, s)
      PROVE  Kept
  <2>1. [Open("start_upload", m, "read") EXCEPT !.seconds = s] \in Tx
    BY <1>3 DEF Tx, Seconds
  <2> QED
    BY <1>2, <1>5, <1>8, <2>1, BeginType DEF BeginStartUpload, Begin
<1>9. CASE BeginFinalize(p, m, c)
  <2>1. answered[m] \in UploadId /\ CanAfford(row[m].seconds) \in BOOLEAN
    BY DEF TypeOK, CanAfford
  <2>2. PICK t : t = [Open("finalize", m, "read") EXCEPT
                        !.upload = answered[m], !.ok = CanAfford(row[m].seconds)]
    OBVIOUS
  <2>3. Open("finalize", m, "read") \in Tx
    BY <1>3
  <2>4. t \in Tx
    BY <2>1, <2>2, <2>3 DEF Tx
  <2>5. /\ tx' = [tx EXCEPT ![p] = t] /\ UNCHANGED << row, tables, store, queue, faults >>
        /\ clicks' = clicks
    BY <1>9, <2>2 DEF BeginFinalize, Begin
  <2>6. tx' \in [Slot -> Tx \cup {Idle}]
    BY <1>2, <2>4, <2>5, BeginType
  <2> QED
    BY <1>5, <2>5, <2>6
<1>10. CASE BeginAbandon(p, m, c)
  BY <1>2, <1>3, <1>5, <1>10, BeginType DEF BeginAbandon, Begin
<1>11. CASE BeginRetry(p, m, c)
  <2>1. HasTranscript(m) \in BOOLEAN
    BY DEF HasTranscript
  <2>2. [Open("retry", m, "ready") EXCEPT !.ok = HasTranscript(m)] \in Tx
    BY <1>3, <2>1 DEF Tx
  <2>3. tx' \in [Slot -> Tx \cup {Idle}]
    BY <1>2, <1>11, <2>2, BeginType DEF BeginRetry, Begin
  <2>4. clicks' \in Nat /\ UNCHANGED << row, tables, store, queue, faults >>
    BY <1>5, <1>11 DEF BeginRetry
  <2> QED
    BY <2>3, <2>4
<1> QED
  BY <1>1, <1>6, <1>7, <1>8, <1>9, <1>10, <1>11

\* A request's calls to the store keep the types.
LEMMA RequestCallsType ==
  ASSUME TypeOK, PipelineAssumption, NEW p \in Api, RequestCalls(p)
  PROVE  TypeOK'
<1> USE DEF Steps
<1>1. p \in Slot
  BY DEF Slot
<1>2. tx[p] \in Tx
  BY <1>1, Running, NotIdle
     DEF RequestCalls, StartMultipart, CompleteMultipart, RefuseMismatch, AbandonAbort, At
<1>3. tx[p].m \in Meeting /\ tx[p].upload \in UploadId
  BY <1>2 DEF Tx
<1>4. CASE StartMultipart(p)
  <2>1. opened + 1 \in UploadId
    BY <1>4, PipelineAssumption DEF StartMultipart, TypeOK, UploadId, PipelineAssumption
  <2>2. [tx[p] EXCEPT !.upload = opened + 1, !.step = "ready"] \in Tx
    BY <1>2, <2>1 DEF Tx
  <2>3. tx' = [tx EXCEPT ![p] = [tx[p] EXCEPT !.upload = opened + 1, !.step = "ready"]]
    BY <1>4 DEF StartMultipart
  <2>4. tx' \in [Slot -> Tx \cup {Idle}]
    BY <1>1, <2>2, <2>3, BeginType
  <2>5. uploads' \subseteq Meeting \X UploadId /\ opened' \in UploadId
    BY <1>3, <1>4, <2>1 DEF StartMultipart, TypeOK
  <2>6. answered' \in [Meeting -> UploadId]
    BY <1>3, <1>4, <2>1 DEF StartMultipart, TypeOK
  <2> QED
    BY <1>4, <2>4, <2>5, <2>6 DEF StartMultipart, TypeOK, tables
<1>5. ASSUME NEW matches \in BOOLEAN, CompleteMultipart(p, matches)
      PROVE  TypeOK'
  <2>1. tx' \in [Slot -> Tx \cup {Idle}]
    BY <1>1, <1>2, <1>5, StepType DEF CompleteMultipart
  <2> QED
    BY <1>3, <1>5, <2>1 DEF CompleteMultipart, TypeOK, tables
<1>6. CASE RefuseMismatch(p)
  <2>1. tx' \in [Slot -> Tx \cup {Idle}]
    BY <1>1, <1>6, CloseType DEF RefuseMismatch
  <2> QED
    BY <1>6, <2>1 DEF RefuseMismatch, TypeOK, tables
<1>7. ASSUME NEW works \in BOOLEAN, AbandonAbort(p, works)
      PROVE  TypeOK'
  <2>1. [tx[p] EXCEPT !.ok = works, !.step = "ready"] \in Tx
    BY <1>2 DEF Tx
  <2>2. tx' = [tx EXCEPT ![p] = [tx[p] EXCEPT !.ok = works, !.step = "ready"]]
    BY <1>7 DEF AbandonAbort
  <2>3. tx' \in [Slot -> Tx \cup {Idle}]
    BY <1>1, <2>1, <2>2, BeginType
  <2> QED
    BY <1>7, <2>3 DEF AbandonAbort, TypeOK, tables
<1> QED
  BY <1>4, <1>5, <1>6, <1>7 DEF RequestCalls

\* A request's commit keeps the types.
LEMMA RequestCommitsType ==
  ASSUME TypeOK, PipelineAssumption, NEW p \in Api, RequestCommits(p)
  PROVE  TypeOK'
<1>1. p \in Slot
  BY DEF Slot
<1>2. tx[p] \in Tx
  BY <1>1, Running, NotIdle
     DEF RequestCommits, CommitUpdate, CommitRemove, CommitStartUpload,
         CommitFinalize, CommitAbandon, CommitRetry, At
<1>3. tx[p].old \in Row /\ tx[p].upload \in UploadId /\ tx[p].seconds \in Seconds
  BY <1>2 DEF Tx
<1>4. tx[p].old.upload \in UploadId /\ 0 \in UploadId
  BY <1>3, PipelineAssumption DEF Row, UploadId, PipelineAssumption
<1>5. UNCHANGED << tables, store, queue, clicks, faults >>
  BY DEF RequestCommits, CommitUpdate, CommitRemove, CommitStartUpload, CommitFinalize,
     CommitAbandon, CommitRetry
<1> SUFFICES row' \in [Meeting -> Row] /\ tx' \in [Slot -> Tx \cup {Idle}]
  BY <1>5 DEF TypeOK, tables, store
<1>6. CASE CommitUpdate(p)
  BY <1>1, <1>2, <1>6, TitleType, CloseType DEF CommitUpdate
<1>7. CASE CommitRemove(p)
  <2>1. [tx[p].old EXCEPT !.status = "DELETED"] \in Row
    BY <1>3 DEF Row, Committed, Transient, Status
  <2>2. Write(p, [tx[p].old EXCEPT !.status = "DELETED"]) /\ Close(p)
    BY <1>7 DEF CommitRemove
  <2> QED
    BY <1>1, <1>2, <2>1, <2>2, WriteType, CloseType
<1>8. CASE CommitStartUpload(p)
  <2>1. PICK new : new = [tx[p].old EXCEPT !.status = "UPLOADING", !.key = TRUE,
                            !.upload = tx[p].upload, !.seconds = tx[p].seconds]
    OBVIOUS
  <2>2. new \in Row
    BY <1>3, <2>1 DEF Row, Committed, Transient, Status
  <2>3. Write(p, new) /\ Close(p)
    BY <1>8, <2>1 DEF CommitStartUpload
  <2> QED
    BY <1>1, <1>2, <2>2, <2>3, WriteType, CloseType
<1>9. CASE CommitFinalize(p)
  <2>1. row' \in [Meeting -> Row]
    BY <1>1, <1>2, <1>9, DeadlineType
  <2>2. tx' \in [Slot -> Tx \cup {Idle}]
    BY <1>1, <1>2, <1>9, StepType, CloseType DEF CommitFinalize, Steps
  <2> QED
    BY <2>1, <2>2
<1>10. CASE CommitAbandon(p)
  <2>1. PICK u : u = IF tx[p].ok THEN 0 ELSE tx[p].old.upload
    OBVIOUS
  <2>2. PICK new : new = [tx[p].old EXCEPT !.status = "CANCELLED", !.upload = u]
    OBVIOUS
  <2>3. u \in UploadId /\ "CANCELLED" \in Committed
    BY <1>4, <2>1 DEF Committed, Transient, Status
  <2>4. new \in Row
    BY <1>3, <2>2, <2>3 DEF Row
  <2>5. Write(p, new) /\ Close(p)
    BY <1>10, <2>1, <2>2 DEF CommitAbandon
  <2> QED
    BY <1>1, <1>2, <2>4, <2>5, WriteType, CloseType
<1>11. CASE CommitRetry(p)
  <2>1. PICK s : s = IF tx[p].ok THEN "ANALYZING" ELSE "QUEUED"
    OBVIOUS
  <2>2. PICK new : new = [tx[p].old EXCEPT !.status = s]
    OBVIOUS
  <2>3. s \in Committed
    BY <2>1 DEF Committed, Transient, Status
  <2>4. new \in Row
    BY <1>3, <2>2, <2>3 DEF Row
  <2>5. Write(p, new) /\ Step(p, "committed")
    BY <1>11, <2>1, <2>2 DEF CommitRetry
  <2> QED
    BY <1>1, <1>2, <2>4, <2>5, WriteType, StepType DEF Steps
<1> QED
  BY <1>6, <1>7, <1>8, <1>9, <1>10, <1>11 DEF RequestCommits

\* Every step of a request keeps the types.
LEMMA RequestType ==
  ASSUME TypeOK, PipelineAssumption, NEW p \in Api, RequestStep(p)
  PROVE  TypeOK'
<1>1. p \in Slot
  BY DEF Slot
<1>2. CASE Dispatch(p)
  <2>1. tx[p] \in Tx
    BY <1>1, <1>2, Running, NotIdle DEF Dispatch
  <2>2. [stage |-> DispatchedStage(tx[p]), m |-> tx[p].m, try |-> 0] \in Message
    BY <2>1, PipelineAssumption DEF Tx, Message, Stage, DispatchedStage, PipelineAssumption
  <2>3. queue' \in [Message -> Nat] /\ tx' \in [Slot -> Tx \cup {Idle}]
    BY <1>1, <1>2, <2>2, SendType, CloseType DEF Dispatch
  <2> QED
    BY <1>2, <2>3 DEF Dispatch, TypeOK, tables, store
<1>3. CASE LoseDispatch(p)
  <2>1. tx' \in [Slot -> Tx \cup {Idle}] /\ faults' \in Nat
    BY <1>1, <1>3, CloseType DEF LoseDispatch, TypeOK
  <2> QED
    BY <1>3, <2>1 DEF LoseDispatch, TypeOK, tables, store
<1>4. CASE RequestFails(p)
  <2>1. tx' \in [Slot -> Tx \cup {Idle}]
    BY <1>1, <1>4, CloseType DEF RequestFails
  <2> QED
    BY <1>4, <2>1 DEF RequestFails, TypeOK, tables, store
<1> QED
  BY <1>2, <1>3, <1>4, RequestBeginsType, RequestCallsType, RequestCommitsType
     DEF RequestStep

\* Taking a task keeps the types.
LEMMA TaskTakenType ==
  ASSUME TypeOK, PipelineAssumption, NEW p \in Worker, TaskTaken(p)
  PROVE  TypeOK'
<1> USE DEF Steps, WorkerOp, Stage
<1>1. p \in Slot
  BY DEF Slot
<1>2. PICK m \in Meeting, try \in 0 .. MaxRetries :
        TakeTranscribe(p, m, try) \/ TakeAnalyse(p, m, try)
  BY DEF TaskTaken
<1>3. ASSUME NEW s \in Steps, NEW op \in {"transcribe", "analyse"}
      PROVE  [Open(op, m, s) EXCEPT !.try = try] \in Tx
  <2>1. Open(op, m, s) \in Tx
    BY OpenType
  <2> QED
    BY <2>1, <1>2 DEF Tx
<1>4. CASE TakeTranscribe(p, m, try)
  <2> DEFINE t == IF row[m].status = "QUEUED"
                  THEN [Open("transcribe", m, IF row[m].key THEN "read" ELSE "ready")
                          EXCEPT !.try = try]
                  ELSE [Open("transcribe", m,
                             IF row[m].status = "ANALYZING" THEN "committed" ELSE "sent")
                          EXCEPT !.try = try]
  <2>1. t \in Tx
    BY <1>3
  <2>2. tx' \in [Slot -> Tx \cup {Idle}]
    BY <1>1, <1>4, <2>1, BeginType DEF TakeTranscribe
  <2>3. [stage |-> "transcribe", m |-> m, try |-> try] \in Message
    BY <1>2 DEF Message
  <2>4. queue' \in [Message -> Nat]
    BY <1>4, <2>3, TakeType DEF TakeTranscribe
  <2> QED
    BY <1>4, <2>2, <2>4 DEF TakeTranscribe, TypeOK, tables, store
<1>5. CASE TakeAnalyse(p, m, try)
  <2>1. HasTranscript(m) \in BOOLEAN
    BY DEF HasTranscript
  <2>2. [Open("analyse", m, "read") EXCEPT !.try = try, !.ok = HasTranscript(m)] \in Tx
    <3>1. PICK r : r = [Open("analyse", m, "read") EXCEPT !.try = try]
      OBVIOUS
    <3>2. r \in Tx
      BY <1>3, <3>1
    <3>3. [Open("analyse", m, "read") EXCEPT !.try = try, !.ok = HasTranscript(m)]
            = [r EXCEPT !.ok = HasTranscript(m)]
      BY <3>1
    <3> QED
      BY <2>1, <3>2, <3>3 DEF Tx
  <2> DEFINE t == IF row[m].status = "ANALYZING"
                  THEN [Open("analyse", m, "read") EXCEPT !.try = try,
                                                          !.ok = HasTranscript(m)]
                  ELSE [Open("analyse", m, "sent") EXCEPT !.try = try]
  <2>3. t \in Tx
    BY <1>3, <2>2
  <2>4. tx' \in [Slot -> Tx \cup {Idle}]
    BY <1>1, <1>5, <2>3, BeginType DEF TakeAnalyse
  <2>5. [stage |-> "analyse", m |-> m, try |-> try] \in Message
    BY <1>2 DEF Message
  <2>6. queue' \in [Message -> Nat]
    BY <1>5, <2>5, TakeType DEF TakeAnalyse
  <2> QED
    BY <1>5, <2>4, <2>6 DEF TakeAnalyse, TypeOK, tables, store
<1> QED
  BY <1>2, <1>4, <1>5

\* A task's message is well formed.
LEMMA TaskMessageType ==
  ASSUME PipelineAssumption, NEW p \in Slot, tx[p] \in Tx, tx[p].op \in Stage,
         NEW try \in 0 .. MaxRetries
  PROVE  TaskMessage(p, try) \in Message
  BY DEF TaskMessage, Message, Tx

\* The message a task is retried with is well formed, and so is the broker.
LEMMA RetriedType ==
  ASSUME TypeOK, PipelineAssumption, NEW p \in Slot, tx[p] \in Tx, tx[p].op \in Stage,
         IF tx[p].try < MaxRetries
         THEN Send(TaskMessage(p, tx[p].try + 1)) ELSE UNCHANGED queue
  PROVE  queue' \in [Message -> Nat]
<1>1. CASE tx[p].try < MaxRetries
  <2>1. tx[p].try + 1 \in 0 .. MaxRetries
    BY <1>1, PipelineAssumption DEF Tx, PipelineAssumption
  <2>2. TaskMessage(p, tx[p].try + 1) \in Message
    BY <2>1, TaskMessageType
  <2> QED
    BY <1>1, <2>2, SendType
<1>2. CASE ~ (tx[p].try < MaxRetries)
  BY <1>2 DEF TypeOK
<1> QED
  BY <1>1, <1>2

\* Every step of a task keeps the types.
LEMMA TaskWorksType ==
  ASSUME TypeOK, PipelineAssumption, NEW p \in Worker, TaskWorks(p)
  PROVE  TypeOK'
<1> USE DEF Steps, Committed, Transient, Status
<1>1. p \in Slot
  BY DEF Slot
<1>2. tx[p] \in Tx
  BY <1>1, Running, NotIdle
     DEF TaskWorks, Transcribed, TranscriptionFailed, CommitTranscript,
         CommitTranscriptionFailure, DispatchAnalysis, Publish,
         CommitAnalysisFailure, InsertRefused, Acknowledge, At, Stage
<1>3. tx[p].m \in Meeting /\ tx[p].old \in Row /\ tx[p].seconds \in Seconds
  BY <1>2 DEF Tx
<1>4. tx[p].old.seconds \in Seconds
  BY <1>3 DEF Row
<1>5. ASSUME NEW d \in Seconds, Transcribed(p, d)
      PROVE  TypeOK'
  <2> DEFINE s == IF d = 0 THEN tx[p].old.seconds ELSE d
  <2>1. s \in Seconds
    BY <1>4
  <2>2. [tx[p] EXCEPT !.ok = TRUE, !.step = "ready", !.seconds = s] \in Tx
    BY <1>2, <2>1 DEF Tx
  <2>3. tx' = [tx EXCEPT ![p] = [tx[p] EXCEPT !.ok = TRUE, !.step = "ready",
                                              !.seconds = s]]
    BY <1>5 DEF Transcribed
  <2>4. tx' \in [Slot -> Tx \cup {Idle}]
    BY <1>1, <2>2, <2>3, BeginType
  <2> QED
    BY <1>5, <2>4 DEF Transcribed, TypeOK, tables, store
<1>6. CASE TranscriptionFailed(p)
  <2>1. tx' \in [Slot -> Tx \cup {Idle}]
    BY <1>1, <1>2, <1>6, StepType DEF TranscriptionFailed
  <2> QED
    BY <1>6, <2>1 DEF TranscriptionFailed, TypeOK, tables, store
<1>7. CASE CommitTranscript(p)
  <2>1. [tx[p].old EXCEPT !.status = "ANALYZING", !.seconds = tx[p].seconds] \in Row
    BY <1>3 DEF Row
  <2>2. row' \in [Meeting -> Row]
    BY <1>1, <1>2, <1>7, <2>1, WriteType DEF CommitTranscript
  <2>3. tx' \in [Slot -> Tx \cup {Idle}]
    BY <1>1, <1>2, <1>7, StepType DEF CommitTranscript
  <2> QED
    BY <1>3, <1>7, <2>2, <2>3 DEF CommitTranscript, TypeOK, store
<1>8. CASE CommitTranscriptionFailure(p)
  <2>1. [tx[p].old EXCEPT !.status = "FAILED"] \in Row
    BY <1>3 DEF Row
  <2>2. row' \in [Meeting -> Row]
    BY <1>1, <1>2, <1>8, <2>1, WriteType DEF CommitTranscriptionFailure
  <2>3. tx' \in [Slot -> Tx \cup {Idle}]
    BY <1>1, <1>2, <1>8, StepType DEF CommitTranscriptionFailure
  <2> QED
    BY <1>8, <2>2, <2>3 DEF CommitTranscriptionFailure, TypeOK, tables, store
<1>9. CASE DispatchAnalysis(p)
  <2>1. [stage |-> "analyse", m |-> tx[p].m, try |-> 0] \in Message
    BY <1>3, PipelineAssumption DEF Message, Stage, PipelineAssumption
  <2>2. queue' \in [Message -> Nat]
    BY <1>9, <2>1, SendType DEF DispatchAnalysis
  <2>3. tx' \in [Slot -> Tx \cup {Idle}]
    BY <1>1, <1>2, <1>9, StepType DEF DispatchAnalysis
  <2> QED
    BY <1>9, <2>2, <2>3 DEF DispatchAnalysis, TypeOK, tables, store
<1>10. CASE Publish(p)
  <2> DEFINE title == IF tx[p].old.title = "blank" THEN "model" ELSE tx[p].old.title
  <2>1. title \in {"blank", "typed", "model"}
    BY <1>3 DEF Row
  <2>2. [tx[p].old EXCEPT !.status = "PUBLISHED", !.title = title] \in Row
    BY <1>3, <2>1 DEF Row
  <2>3. row' \in [Meeting -> Row]
    BY <1>1, <1>2, <1>10, <2>2, WriteType DEF Publish
  <2>4. tx' \in [Slot -> Tx \cup {Idle}]
    BY <1>1, <1>2, <1>10, StepType DEF Publish
  <2>5. tx[p].old.seconds \in Nat
    BY <1>4, SecondsType
  <2>6. consumed' \in Nat
    BY <1>10, <2>5 DEF Publish, TypeOK
  <2>7. entries' \in [Meeting -> Nat] /\ billed' \in [Meeting -> Nat]
    BY <1>3, <1>10, <2>5 DEF Publish, TypeOK
  <2>8. reports' \subseteq Meeting
    BY <1>3, <1>10 DEF Publish, TypeOK
  <2> QED
    BY <1>10, <2>3, <2>4, <2>6, <2>7, <2>8 DEF Publish, TypeOK, store
<1>11. CASE CommitAnalysisFailure(p)
  <2>1. [tx[p].old EXCEPT !.status = "FAILED"] \in Row
    BY <1>3 DEF Row
  <2>2. row' \in [Meeting -> Row]
    BY <1>1, <1>2, <1>11, <2>1, WriteType DEF CommitAnalysisFailure
  <2>3. tx' \in [Slot -> Tx \cup {Idle}]
    BY <1>1, <1>2, <1>11, StepType DEF CommitAnalysisFailure
  <2> QED
    BY <1>11, <2>2, <2>3 DEF CommitAnalysisFailure, TypeOK, tables, store
<1>12. CASE InsertRefused(p)
  <2>1. tx[p].op \in Stage
    BY <1>12 DEF InsertRefused, At, Stage
  <2>2. queue' \in [Message -> Nat]
    BY <1>1, <1>2, <1>12, <2>1, RetriedType DEF InsertRefused
  <2>3. tx' \in [Slot -> Tx \cup {Idle}]
    BY <1>1, <1>12, CloseType DEF InsertRefused
  <2> QED
    BY <1>12, <2>2, <2>3 DEF InsertRefused, TypeOK, tables, store
<1>13. CASE Acknowledge(p)
  <2>1. tx' \in [Slot -> Tx \cup {Idle}]
    BY <1>1, <1>13, CloseType DEF Acknowledge
  <2> QED
    BY <1>13, <2>1 DEF Acknowledge, TypeOK, tables, store
<1> QED
  BY <1>5, <1>6, <1>7, <1>8, <1>9, <1>10, <1>11, <1>12, <1>13 DEF TaskWorks

\* What Celery does with a task that raised or was lost keeps the types.
LEMMA TaskFaultType ==
  ASSUME TypeOK, PipelineAssumption, NEW p \in Worker, TaskRaises(p) \/ WorkerLost(p)
  PROVE  TypeOK'
<1>1. p \in Slot
  BY DEF Slot
<1>2. tx[p] \in Tx /\ tx[p].op \in Stage
  BY <1>1, Running, NotIdle DEF TaskRaises, WorkerLost, Stage
<1>3. tx' \in [Slot -> Tx \cup {Idle}]
  BY <1>1, CloseType DEF TaskRaises, WorkerLost
<1>4. faults' \in Nat
  BY DEF TaskRaises, WorkerLost, TypeOK
<1>5. CASE TaskRaises(p)
  <2>1. queue' \in [Message -> Nat]
    BY <1>1, <1>2, <1>5, RetriedType DEF TaskRaises
  <2> QED
    BY <1>3, <1>4, <1>5, <2>1 DEF TaskRaises, TypeOK, tables, store
<1>6. CASE WorkerLost(p)
  <2>1. TaskMessage(p, tx[p].try) \in Message
    BY <1>1, <1>2, TaskMessageType DEF Tx
  <2>2. queue' \in [Message -> Nat]
    BY <1>6, <2>1, SendType DEF WorkerLost
  <2> QED
    BY <1>3, <1>4, <1>6, <2>2 DEF WorkerLost, TypeOK, tables, store
<1> QED
  BY <1>5, <1>6

\* Every step of the sweep keeps the types.
LEMMA SweepType ==
  ASSUME TypeOK, PipelineAssumption, NEW p \in Worker, SweepStep(p)
  PROVE  TypeOK'
<1> USE DEF Steps, Committed, Transient, Status
<1>1. p \in Slot
  BY DEF Slot
<1>2. ASSUME NEW m \in Meeting, BeginSweep(p, m)
      PROVE  TypeOK'
  <2> DEFINE s == IF row[m].key /\ row[m].upload # 0 THEN "read" ELSE "aborted"
  <2>1. Open("sweep", m, s) \in Tx
    BY OpenType DEF WorkerOp
  <2>2. tx' \in [Slot -> Tx \cup {Idle}]
    BY <1>1, <1>2, <2>1, BeginType DEF BeginSweep, Begin
  <2> QED
    BY <1>2, <2>2 DEF BeginSweep, TypeOK, tables, store
<1>3. CASE SweepFails(p)
  <2>1. tx' \in [Slot -> Tx \cup {Idle}]
    BY <1>1, <1>3, CloseType DEF SweepFails
  <2> QED
    BY <1>3, <2>1 DEF SweepFails, TypeOK, tables, store
<1>4. ASSUME tx[p].op = "sweep"
      PROVE  tx[p] \in Tx
  BY <1>1, <1>4, Running, NotIdle
<1>5. CASE SweepAbort(p)
  <2>1. tx[p] \in Tx
    BY <1>4, <1>5 DEF SweepAbort, At
  <2>2. [tx[p] EXCEPT !.ok = TRUE, !.step = "aborted"] \in Tx
    BY <2>1 DEF Tx
  <2>3. tx' = [tx EXCEPT ![p] = [tx[p] EXCEPT !.ok = TRUE, !.step = "aborted"]]
    BY <1>5 DEF SweepAbort
  <2>4. tx' \in [Slot -> Tx \cup {Idle}]
    BY <1>1, <2>2, <2>3, BeginType
  <2> QED
    BY <1>5, <2>4 DEF SweepAbort, TypeOK, tables
<1>6. CASE SweepDelete(p)
  <2>1. tx' \in [Slot -> Tx \cup {Idle}]
    BY <1>1, <1>4, <1>6, StepType DEF SweepDelete, At
  <2> QED
    BY <1>6, <2>1 DEF SweepDelete, TypeOK, tables
<1>7. CASE SweepDeleteRefused(p)
  <2>1. tx' \in [Slot -> Tx \cup {Idle}]
    BY <1>1, <1>4, <1>7, StepType DEF SweepDeleteRefused, At
  <2> QED
    BY <1>7, <2>1 DEF SweepDeleteRefused, TypeOK, tables, store
<1>8. CASE CommitSweep(p)
  <2>1. tx[p] \in Tx
    BY <1>4, <1>8 DEF CommitSweep
  <2>2. tx[p].old \in Row
    BY <2>1 DEF Tx
  <2> DEFINE r == tx[p].old
             s == IF r.status = "PUBLISHED" /\ tx[p].step = "ready"
                  THEN "AUDIO_PURGED" ELSE r.status
             k == r.key /\ tx[p].step = "kept"
             u == IF tx[p].ok THEN 0 ELSE r.upload
  <2>3. s \in Committed \cup {"ABSENT"}
    BY <2>2 DEF Row
  <2>4. k \in BOOLEAN
    BY <2>2 DEF Row
  <2>5. u \in UploadId
    BY <2>2, PipelineAssumption DEF Row, UploadId, PipelineAssumption
  <2>6. [r EXCEPT !.status = s, !.key = k, !.upload = u] \in Row
    <3> HIDE DEF s, k, u
    <3> QED
      BY <2>2, <2>3, <2>4, <2>5 DEF Row
  <2>7. Write(p, [r EXCEPT !.status = s, !.key = k, !.upload = u])
    BY <1>8 DEF CommitSweep
  <2>8. row' \in [Meeting -> Row]
    BY <1>1, <2>1, <2>6, <2>7, WriteType
  <2>9. tx' \in [Slot -> Tx \cup {Idle}]
    BY <1>1, <1>8, CloseType DEF CommitSweep
  <2> QED
    BY <1>8, <2>8, <2>9 DEF CommitSweep, TypeOK, tables, store
<1> QED
  BY <1>2, <1>3, <1>5, <1>6, <1>7, <1>8 DEF SweepStep

\* Every step of the system keeps the types.
LEMMA StepTypeOK ==
  ASSUME TypeOK, PipelineAssumption, [Next]_vars
  PROVE  TypeOK'
<1>1. ASSUME NEW m \in Meeting, NEW title \in {"blank", "typed"}, Declare(m, title)
      PROVE  TypeOK'
  <2>1. NoRow \in Row
    BY PipelineAssumption
       DEF NoRow, Row, Committed, Transient, Status, UploadId, Seconds, PipelineAssumption
  <2>2. [NoRow EXCEPT !.status = "CREATED", !.title = title] \in Row
    BY <2>1 DEF Row, Committed, Transient, Status
  <2>3. row' \in [Meeting -> Row]
    BY <1>1, <2>2 DEF Declare, TypeOK
  <2> QED
    BY <1>1, <2>3 DEF Declare, TypeOK, tables, store
<1>2. ASSUME NEW m \in Meeting, DeadlinePasses(m)
      PROVE  TypeOK'
  <2>1. [row[m] EXCEPT !.purge = "past"] \in Row
    BY DEF TypeOK, Row
  <2>2. row' = [row EXCEPT ![m] = [row[m] EXCEPT !.purge = "past"]]
    BY <1>2 DEF DeadlinePasses
  <2>3. row' \in [Meeting -> Row]
    BY <2>1, <2>2 DEF TypeOK
  <2> QED
    BY <1>2, <2>3 DEF DeadlinePasses, TypeOK, tables, store
<1>3. ASSUME NEW p \in Worker, WorkerStep(p)
      PROVE  TypeOK'
  BY <1>3, TaskTakenType, TaskWorksType, TaskFaultType, SweepType DEF WorkerStep
<1>4. CASE UNCHANGED vars
  BY <1>4 DEF vars, tables, store, TypeOK
<1> QED
  BY <1>1, <1>2, <1>3, <1>4, RequestType DEF Next

\* Type correctness of the pipeline, for every value of its constants.
THEOREM TypeCorrect == Spec => []TypeOK
<1>1. Init => TypeOK
  BY InitType, PipelineAssumption
<1>2. TypeOK /\ [Next]_vars => TypeOK'
  BY StepTypeOK, PipelineAssumption
<1> QED
  BY <1>1, <1>2, PTL DEF Spec

-----------------------------------------------------------------------------
(* Billing: the inductive invariant, in three kinds of facts about a step. *)

\* What a transaction checked of the state it read before it goes on to decide
\* another.
Checked(t) ==
  /\ t.op \in ApiOp \cup {"sweep"} => t.old.status \in Committed
  /\ t.op = "remove" => "DELETED" \in AllowedFrom(t.old.status)
  /\ t.op = "start_upload" => t.old.status = "CREATED"
  /\ t.op = "retry" => t.old.status = "FAILED"
  /\ t.op = "transcribe" /\ t.step \in {"read", "ready"} => t.old.status = "QUEUED"
  /\ t.op = "analyse" /\ t.step = "read" => t.old.status = "ANALYZING"

ChecksHold == \A p \in Slot : tx[p] # Idle => Checked(tx[p])

Inv ==
  /\ TypeOK
  /\ ChargedOnce /\ PublishedIsCharged /\ AnalysingHasTranscript /\ RememberedHolds
  /\ ChecksHold

\* A step never loses a transcript or a report.
TablesGrow == transcripts \subseteq transcripts' /\ reports \subseteq reports'

\* A step that changes a status to one that promises a report or a
\* transcript finds it there.
StatusBacked ==
  \A m \in Meeting :
    \/ row'[m].status = row[m].status
    \/ /\ row'[m].status \in {"PUBLISHED", "AUDIO_PURGED"} => m \in reports'
       /\ row'[m].status = "ANALYZING" => m \in transcripts'

\* A step leaves what a running transaction remembers as it is, or begins a
\* transaction with the row as it stands.
Carries(q) ==
  /\ tx[q] # Idle
  /\ tx'[q].op = tx[q].op /\ tx'[q].m = tx[q].m /\ tx'[q].old = tx[q].old
  /\ tx[q].op \in {"retry", "analyse"} => tx'[q].ok = tx[q].ok
  /\ tx'[q].step = "read" => tx[q].step = "read"
  /\ tx'[q].step = "ready" /\ tx[q].op = "transcribe" => tx[q].step \in {"read", "ready"}

Starts(q) ==
  /\ tx'[q].m \in Meeting /\ tx'[q].old = row[tx'[q].m]
  /\ tx'[q].op \in {"retry", "analyse"} /\ tx'[q].ok => tx'[q].m \in transcripts
  /\ Checked(tx'[q])

MemoryKept == \A q \in Slot : tx'[q] # Idle => Carries(q) \/ Starts(q)

\* The three facts about a step carry the invariant over it.
LEMMA Preserved ==
  ASSUME Inv, TypeOK', ChargedOnce', TablesGrow, StatusBacked, MemoryKept
  PROVE  Inv'
<1>1. PublishedIsCharged'
  BY DEF Inv, PublishedIsCharged, TablesGrow, StatusBacked
<1>2. AnalysingHasTranscript'
  BY DEF Inv, AnalysingHasTranscript, TablesGrow, StatusBacked
<1>3. ASSUME NEW q \in Slot, tx'[q] # Idle
      PROVE  /\ tx'[q].old.status \in {"PUBLISHED", "AUDIO_PURGED"} => tx'[q].m \in reports'
             /\ tx'[q].op \in {"retry", "analyse"} /\ tx'[q].ok => tx'[q].m \in transcripts'
  <2>1. CASE Carries(q)
    BY <1>3, <2>1 DEF Inv, RememberedHolds, TablesGrow, Carries
  <2>2. CASE Starts(q)
    BY <1>3, <2>2 DEF Inv, PublishedIsCharged, TablesGrow, Starts
  <2> QED
    BY <1>3, <2>1, <2>2 DEF MemoryKept
<1>4. RememberedHolds'
  BY <1>3 DEF RememberedHolds
<1>5. ASSUME NEW q \in Slot, tx'[q] # Idle
      PROVE  Checked(tx'[q])
  <2>1. CASE Carries(q)
    <3>1. tx[q] # Idle /\ Checked(tx[q])
      BY <2>1 DEF Carries, Inv, ChecksHold
    <3> QED
      BY <2>1, <3>1 DEF Carries, Checked
  <2>2. CASE Starts(q)
    BY <2>2 DEF Starts
  <2> QED
    BY <1>5, <2>1, <2>2 DEF MemoryKept
<1>6. ChecksHold'
  BY <1>5 DEF ChecksHold
<1> QED
  BY <1>1, <1>2, <1>4, <1>6 DEF Inv

\* Ending a transaction, and advancing one, leave what is remembered.
LEMMA CloseKeeps ==
  ASSUME TypeOK, NEW p \in Slot, Close(p)
  PROVE  MemoryKept
  BY DEF TypeOK, Close, MemoryKept, Carries

LEMMA StepKeeps ==
  ASSUME TypeOK, NEW p \in Slot, tx[p] \in Tx, tx[p] # Idle, NEW s \in Steps, Step(p, s),
         s # "read", s = "ready" => tx[p].op # "transcribe" \/ tx[p].step = "read"
  PROVE  MemoryKept
  BY DEF TypeOK, Step, MemoryKept, Carries, Tx

\* So does a step on no transaction at all.
LEMMA IdleKeeps ==
  ASSUME UNCHANGED tx
  PROVE  MemoryKept
  BY DEF MemoryKept, Carries

\* A transaction that begins reads the row as it stands.
LEMMA BeginKeeps ==
  ASSUME TypeOK, NEW p \in Slot, NEW m \in Meeting, NEW t \in Tx,
         t.m = m, t.old = row[m], t.op \in {"retry", "analyse"} /\ t.ok => m \in transcripts,
         Checked(t), tx' = [tx EXCEPT ![p] = t]
  PROVE  MemoryKept
<1>1. Starts(p)
  BY DEF Starts, TypeOK
<1>2. \A q \in Slot \ {p} : tx'[q] = tx[q]
  BY DEF TypeOK
<1> QED
  BY <1>1, <1>2 DEF MemoryKept, Carries

\* Every step of a request keeps what transactions remember.
LEMMA RequestKeeps ==
  ASSUME TypeOK, PipelineAssumption, NEW p \in Api, RequestStep(p)
  PROVE  MemoryKept
<1> USE DEF Steps, ApiOp
<1>1. p \in Slot
  BY DEF Slot
<1>2. ASSUME tx[p] # Idle
      PROVE  tx[p] \in Tx
  BY <1>1, <1>2, Running
<1>3. CASE RequestBegins(p)
  <2>1. PICK m \in Meeting, c \in Caller :
          \/ \E typed \in BOOLEAN : BeginUpdate(p, m, c, typed)
          \/ BeginRemove(p, m, c)
          \/ \E s \in Durations : BeginStartUpload(p, m, c, s)
          \/ BeginFinalize(p, m, c)
          \/ BeginAbandon(p, m, c)
          \/ BeginRetry(p, m, c)
    BY <1>3 DEF RequestBegins
  <2>2. TypeOK'
    BY RequestType
  <2>3. tx'[p] \in Tx \cup {Idle}
    BY <1>1, <2>2 DEF TypeOK
  <2>4. \A q \in Slot \ {p} : tx'[q] = tx[q]
    BY <2>1 DEF TypeOK, Begin, BeginUpdate, BeginRemove, BeginStartUpload,
                BeginFinalize, BeginAbandon, BeginRetry
  <2> DEFINE Fresh == /\ tx'[p].m = m /\ tx'[p].old = row[m]
                      /\ \/ tx'[p].op \notin {"retry", "analyse"}
                         \/ tx'[p].ok = HasTranscript(m)
  <2>5. Fresh
    <3>1. CASE BeginRetry(p, m, c)
      BY <1>1, <3>1 DEF TypeOK, Begin, BeginRetry, Open
    <3>2. ASSUME NEW typed \in BOOLEAN, BeginUpdate(p, m, c, typed)
          PROVE  Fresh
      BY <1>1, <3>2 DEF TypeOK, Begin, BeginUpdate, Open
    <3>3. CASE BeginRemove(p, m, c)
      BY <1>1, <3>3 DEF TypeOK, Begin, BeginRemove, Open
    <3>4. ASSUME NEW s \in Durations, BeginStartUpload(p, m, c, s)
          PROVE  Fresh
      BY <1>1, <3>4 DEF TypeOK, Begin, BeginStartUpload, Open
    <3>5. CASE BeginFinalize(p, m, c)
      BY <1>1, <3>5 DEF TypeOK, Begin, BeginFinalize, Open
    <3>6. CASE BeginAbandon(p, m, c)
      BY <1>1, <3>6 DEF TypeOK, Begin, BeginAbandon, Open
    <3> QED
      BY <2>1, <3>1, <3>2, <3>3, <3>4, <3>5, <3>6
  <2> HIDE DEF Fresh
  <2>6. row[m].status \in Committed
    BY <2>1 DEF TypeOK, Row, Visible, BeginUpdate, BeginRemove, BeginStartUpload,
                BeginFinalize, BeginAbandon, BeginRetry
  <2>7. Checked(tx'[p])
    <3>1. CASE BeginRetry(p, m, c)
      BY <1>1, <2>6, <3>1 DEF TypeOK, Begin, BeginRetry, Open, Checked
    <3>2. ASSUME NEW typed \in BOOLEAN, BeginUpdate(p, m, c, typed)
          PROVE  Checked(tx'[p])
      BY <1>1, <2>6, <3>2 DEF TypeOK, Begin, BeginUpdate, Open, Checked
    <3>3. CASE BeginRemove(p, m, c)
      BY <1>1, <2>6, <3>3 DEF TypeOK, Begin, BeginRemove, Open, Checked
    <3>4. ASSUME NEW s \in Durations, BeginStartUpload(p, m, c, s)
          PROVE  Checked(tx'[p])
      <4>1. row[m].status = "CREATED"
        BY <2>6, <3>4, Moves DEF BeginStartUpload
      <4> QED
        BY <1>1, <2>6, <3>4, <4>1 DEF TypeOK, Begin, BeginStartUpload, Open, Checked
    <3>5. CASE BeginFinalize(p, m, c)
      BY <1>1, <2>6, <3>5 DEF TypeOK, Begin, BeginFinalize, Open, Checked
    <3>6. CASE BeginAbandon(p, m, c)
      BY <1>1, <2>6, <3>6 DEF TypeOK, Begin, BeginAbandon, Open, Checked
    <3> QED
      BY <2>1, <3>1, <3>2, <3>3, <3>4, <3>5, <3>6
  <2>8. Starts(p)
    BY <2>5, <2>7 DEF Fresh, Starts, HasTranscript
  <2> QED
    BY <2>4, <2>8 DEF MemoryKept, Carries
<1>4. CASE RequestCalls(p)
  <2>1. tx[p] # Idle
    BY <1>1, <1>4, NotIdle
       DEF RequestCalls, StartMultipart, CompleteMultipart, RefuseMismatch, AbandonAbort, At
  <2>2. tx[p] \in Tx
    BY <1>2, <2>1
  <2>3. CASE StartMultipart(p)
    BY <1>1, <2>1, <2>2, <2>3 DEF StartMultipart, At, MemoryKept, Carries, TypeOK, Tx
  <2>4. ASSUME NEW matches \in BOOLEAN, CompleteMultipart(p, matches)
        PROVE  MemoryKept
    BY <1>1, <2>1, <2>2, <2>4, StepKeeps DEF CompleteMultipart, At
  <2>5. CASE RefuseMismatch(p)
    BY <1>1, <2>5, CloseKeeps DEF RefuseMismatch
  <2>6. ASSUME NEW works \in BOOLEAN, AbandonAbort(p, works)
        PROVE  MemoryKept
    BY <1>1, <2>1, <2>2, <2>6 DEF AbandonAbort, At, MemoryKept, Carries, TypeOK, Tx
  <2> QED
    BY <1>4, <2>3, <2>4, <2>5, <2>6 DEF RequestCalls
<1>5. CASE RequestCommits(p)
  <2>1. tx[p] # Idle
    BY <1>1, <1>5, NotIdle
       DEF RequestCommits, CommitUpdate, CommitRemove, CommitStartUpload,
           CommitFinalize, CommitAbandon, CommitRetry, At
  <2>2. Close(p) \/ Step(p, "committed")
    BY <1>5 DEF RequestCommits, CommitUpdate, CommitRemove, CommitStartUpload,
                CommitFinalize, CommitAbandon, CommitRetry
  <2> QED
    BY <1>1, <1>2, <2>1, <2>2, CloseKeeps, StepKeeps
<1>6. CASE Dispatch(p) \/ LoseDispatch(p) \/ RequestFails(p)
  BY <1>1, <1>6, CloseKeeps DEF Dispatch, LoseDispatch, RequestFails
<1> QED
  BY <1>3, <1>4, <1>5, <1>6 DEF RequestStep

\* Every step of a worker keeps what transactions remember.
LEMMA WorkerKeeps ==
  ASSUME TypeOK, PipelineAssumption, NEW p \in Worker, WorkerStep(p)
  PROVE  MemoryKept
<1> USE DEF Steps, WorkerOp, Stage
<1>1. p \in Slot
  BY DEF Slot
<1>2. ASSUME tx[p] # Idle
      PROVE  tx[p] \in Tx
  BY <1>1, <1>2, Running
<1>3. CASE TaskTaken(p)
  <2>1. PICK m \in Meeting, try \in 0 .. MaxRetries :
          TakeTranscribe(p, m, try) \/ TakeAnalyse(p, m, try)
    BY <1>3 DEF TaskTaken
  <2>2. \A q \in Slot \ {p} : tx'[q] = tx[q]
    BY <2>1 DEF TypeOK, TakeTranscribe, TakeAnalyse
  <2>3. /\ tx'[p].m = m /\ tx'[p].old = row[m]
        /\ \/ tx'[p].op \notin {"retry", "analyse"}
           \/ tx'[p].ok = FALSE
           \/ tx'[p].ok = HasTranscript(m)
    <3>1. CASE TakeTranscribe(p, m, try)
      BY <1>1, <3>1 DEF TypeOK, TakeTranscribe, Open
    <3>2. CASE TakeAnalyse(p, m, try) /\ row[m].status = "ANALYZING"
      BY <1>1, <3>2 DEF TypeOK, TakeAnalyse, Open
    <3>3. CASE TakeAnalyse(p, m, try) /\ row[m].status # "ANALYZING"
      BY <1>1, <3>3 DEF TypeOK, TakeAnalyse, Open
    <3> QED
      BY <2>1, <3>1, <3>2, <3>3
  <2>4. Checked(tx'[p])
    <3>1. CASE TakeTranscribe(p, m, try)
      BY <1>1, <3>1 DEF TypeOK, TakeTranscribe, Open, Checked, ApiOp
    <3>2. CASE TakeAnalyse(p, m, try)
      BY <1>1, <3>2 DEF TypeOK, TakeAnalyse, Open, Checked, ApiOp
    <3> QED
      BY <2>1, <3>1, <3>2
  <2>5. Starts(p)
    BY <2>3, <2>4 DEF Starts, HasTranscript
  <2> QED
    BY <2>2, <2>5 DEF MemoryKept, Carries
<1>4. CASE TaskWorks(p)
  <2>1. tx[p] # Idle
    BY <1>1, <1>4, NotIdle
       DEF TaskWorks, Transcribed, TranscriptionFailed, CommitTranscript,
           CommitTranscriptionFailure, DispatchAnalysis, Publish,
           CommitAnalysisFailure, InsertRefused, Acknowledge, At
  <2>2. ASSUME NEW d \in Seconds, Transcribed(p, d)
        PROVE  MemoryKept
    BY <1>1, <1>2, <2>1, <2>2 DEF Transcribed, At, MemoryKept, Carries, TypeOK, Tx
  <2>3. CASE TranscriptionFailed(p)
    BY <1>1, <1>2, <2>1, <2>3, StepKeeps DEF TranscriptionFailed, At
  <2>4. CASE Close(p) \/ Step(p, "committed") \/ Step(p, "sent")
    BY <1>1, <1>2, <2>1, <2>4, CloseKeeps, StepKeeps
  <2> QED
    BY <1>4, <2>2, <2>3, <2>4
       DEF TaskWorks, CommitTranscript, CommitTranscriptionFailure,
           DispatchAnalysis, Publish, CommitAnalysisFailure, InsertRefused, Acknowledge
<1>5. CASE TaskRaises(p) \/ WorkerLost(p)
  BY <1>1, <1>5, CloseKeeps DEF TaskRaises, WorkerLost
<1>6. ASSUME NEW m \in Meeting, BeginSweep(p, m)
      PROVE  MemoryKept
  <2>1. \A q \in Slot \ {p} : tx'[q] = tx[q]
    BY <1>6 DEF TypeOK, BeginSweep, Begin
  <2>2. Starts(p)
    <3>1. row[m].status \in Committed
      BY <1>6 DEF BeginSweep, Due, Committed, Transient, Status
    <3> QED
      BY <1>1, <1>6, <3>1 DEF TypeOK, BeginSweep, Begin, Open, Starts, Checked, ApiOp
  <2> QED
    BY <2>1, <2>2 DEF MemoryKept, Carries
<1>7. CASE SweepAbort(p)
  <2>1. tx[p] # Idle
    BY <1>1, <1>7, NotIdle DEF SweepAbort, At
  <2> QED
    BY <1>1, <1>2, <1>7, <2>1 DEF SweepAbort, At, MemoryKept, Carries, TypeOK, Tx
<1>8. CASE SweepDelete(p) \/ SweepDeleteRefused(p)
  <2>1. tx[p] # Idle
    BY <1>1, <1>8, NotIdle DEF SweepDelete, SweepDeleteRefused, At
  <2> QED
    BY <1>1, <1>2, <1>8, <2>1, StepKeeps DEF SweepDelete, SweepDeleteRefused, At
<1>9. CASE CommitSweep(p) \/ SweepFails(p)
  BY <1>1, <1>9, CloseKeeps DEF CommitSweep, SweepFails
<1> QED
  BY <1>3, <1>4, <1>5, <1>6, <1>7, <1>8, <1>9 DEF WorkerStep, SweepStep

\* A step that leaves the tables alone leaves every charge where it was.
LEMMA TablesAlone ==
  ASSUME ChargedOnce, UNCHANGED tables
  PROVE  ChargedOnce' /\ TablesGrow
  BY DEF ChargedOnce, TablesGrow, tables

\* A commit is backed if the state it decides is, or if it decides none.
LEMMA WriteBacked ==
  ASSUME TypeOK, NEW p \in Slot, tx[p] \in Tx, NEW new \in Row, Write(p, new),
         \/ new.status = tx[p].old.status
         \/ /\ new.status \in {"PUBLISHED", "AUDIO_PURGED"} => tx[p].m \in reports'
            /\ new.status = "ANALYZING" => tx[p].m \in transcripts'
  PROVE  StatusBacked
  BY WriteStatus DEF StatusBacked

\* A request never decides a state that lacks its report or transcript.
LEMMA RequestBacked ==
  ASSUME Inv, PipelineAssumption, NEW p \in Api, RequestStep(p)
  PROVE  StatusBacked /\ ChargedOnce' /\ TablesGrow
<1> USE DEF Committed, Transient, Status
<1>1. p \in Slot /\ TypeOK /\ ChargedOnce
  <2>1. p \in Slot
    BY DEF Slot
  <2>2. TypeOK /\ ChargedOnce
    BY DEF Inv
  <2> QED
    BY <2>1, <2>2
<1>2. UNCHANGED tables
  BY DEF RequestStep, RequestBegins, BeginUpdate, BeginRemove, BeginStartUpload,
     BeginFinalize, BeginAbandon, BeginRetry, RequestCalls, StartMultipart,
     CompleteMultipart, RefuseMismatch, AbandonAbort, RequestCommits, CommitUpdate,
     CommitRemove, CommitStartUpload, CommitFinalize, CommitAbandon, CommitRetry,
     Dispatch, LoseDispatch, RequestFails, tables
<1> SUFFICES StatusBacked
  BY <1>1, <1>2, TablesAlone
<1>3. CASE RequestCommits(p)
  <2>1. tx[p] # Idle
    BY <1>1, <1>3, NotIdle
       DEF RequestCommits, CommitUpdate, CommitRemove, CommitStartUpload,
           CommitFinalize, CommitAbandon, CommitRetry, At
  <2>2. tx[p] \in Tx
    BY <1>1, <2>1, Running
  <2>3. tx[p].old \in Row /\ tx[p].upload \in UploadId /\ tx[p].seconds \in Seconds
    BY <2>2 DEF Tx
  <2>4. tx[p].old.upload \in UploadId /\ 0 \in UploadId
    BY <2>3, PipelineAssumption DEF Row, UploadId, PipelineAssumption
  <2>5. CASE CommitUpdate(p)
    BY <1>1, <2>2, <2>5, TitleType DEF StatusBacked
  <2>6. CASE CommitRemove(p)
    <3> DEFINE new == [tx[p].old EXCEPT !.status = "DELETED"]
    <3>1. new \in Row /\ new.status = "DELETED"
      BY <2>3 DEF Row
    <3>2. Write(p, new)
      BY <2>6 DEF CommitRemove
    <3> HIDE DEF new
    <3> QED
      BY <1>1, <2>2, <3>1, <3>2, WriteBacked
  <2>7. CASE CommitStartUpload(p)
    <3> DEFINE new == [tx[p].old EXCEPT !.status = "UPLOADING", !.key = TRUE,
                         !.upload = tx[p].upload, !.seconds = tx[p].seconds]
    <3>1. new \in Row /\ new.status = "UPLOADING"
      BY <2>3 DEF Row
    <3>2. Write(p, new)
      BY <2>7 DEF CommitStartUpload
    <3> HIDE DEF new
    <3> QED
      BY <1>1, <2>2, <3>1, <3>2, WriteBacked
  <2>8. CASE CommitFinalize(p)
    BY <1>1, <2>2, <2>8, DeadlineType DEF StatusBacked
  <2>9. CASE CommitAbandon(p)
    <3> DEFINE u == IF tx[p].ok THEN 0 ELSE tx[p].old.upload
               new == [tx[p].old EXCEPT !.status = "CANCELLED", !.upload = u]
    <3>1. new \in Row /\ new.status = "CANCELLED"
      BY <2>3, <2>4 DEF Row
    <3>2. Write(p, new)
      BY <2>9 DEF CommitAbandon
    <3> HIDE DEF new
    <3> QED
      BY <1>1, <2>2, <3>1, <3>2, WriteBacked
  <2>10. CASE CommitRetry(p)
    <3> DEFINE s == IF tx[p].ok THEN "ANALYZING" ELSE "QUEUED"
               new == [tx[p].old EXCEPT !.status = s]
    <3>1. new \in Row /\ new.status = s
      BY <2>3 DEF Row
    <3>2. s = "ANALYZING" => tx[p].m \in transcripts
      BY <1>1, <2>1, <2>10 DEF CommitRetry, At, Inv, RememberedHolds
    <3>3. tx[p].m \in transcripts => tx[p].m \in transcripts'
      BY <1>2 DEF tables
    <3>4. Write(p, new)
      BY <2>10 DEF CommitRetry
    <3>5. s \notin {"PUBLISHED", "AUDIO_PURGED"}
      OBVIOUS
    <3> HIDE DEF s, new
    <3> QED
      BY <1>1, <2>2, <3>1, <3>2, <3>3, <3>4, <3>5, WriteBacked
  <2> QED
    BY <1>3, <2>5, <2>6, <2>7, <2>8, <2>9, <2>10 DEF RequestCommits
<1>4. CASE ~ RequestCommits(p)
  <2>1. UNCHANGED row
    BY <1>4 DEF RequestStep, RequestBegins, BeginUpdate, BeginRemove, BeginStartUpload,
       BeginFinalize, BeginAbandon, BeginRetry, RequestCalls, StartMultipart,
       CompleteMultipart, RefuseMismatch, AbandonAbort, Dispatch, LoseDispatch, RequestFails
  <2> QED
    BY <2>1 DEF StatusBacked
<1> QED
  BY <1>3, <1>4

\* The two steps of a task that write the tables.
LEMMA TranscriptBacked ==
  ASSUME Inv, NEW p \in Slot, tx[p] \in Tx, CommitTranscript(p)
  PROVE  StatusBacked /\ ChargedOnce' /\ TablesGrow
<1>1. TypeOK /\ ChargedOnce
  BY DEF Inv
<1>2. ChargedOnce' /\ TablesGrow
  BY <1>1 DEF CommitTranscript, ChargedOnce, TablesGrow
<1> DEFINE new == [tx[p].old EXCEPT !.status = "ANALYZING", !.seconds = tx[p].seconds]
<1>3. new \in Row /\ new.status = "ANALYZING"
  BY DEF Tx, Row, Committed, Transient, Status
<1>4. Write(p, new) /\ tx[p].m \in transcripts'
  BY DEF CommitTranscript
<1>5. StatusBacked
  <2> HIDE DEF new
  <2> QED
    BY <1>1, <1>3, <1>4, WriteBacked
<1> QED
  BY <1>2, <1>5

LEMMA PublishBacked ==
  ASSUME Inv, NEW p \in Slot, tx[p] \in Tx, tx[p] # Idle, Publish(p)
  PROVE  StatusBacked /\ ChargedOnce' /\ TablesGrow
<1>1. TypeOK /\ ChargedOnce
  BY DEF Inv
<1>2. tx[p].m \in Meeting /\ tx[p].old \in Row
  BY DEF Tx
<1>3. tx[p].m \in transcripts
  BY DEF Publish, At, Inv, RememberedHolds
<1>4. tx[p].m \notin reports /\ reports' = reports \cup {tx[p].m}
      /\ transcripts' = transcripts
  BY DEF Publish
<1>5. TablesGrow
  BY <1>4 DEF TablesGrow
<1>6. entries' = [entries EXCEPT ![tx[p].m] = entries[tx[p].m] + 1]
  BY DEF Publish
<1>7. ChargedOnce'
  <2>1. reports' \subseteq transcripts'
    BY <1>1, <1>3, <1>4 DEF ChargedOnce
  <2>2. entries[tx[p].m] = 0
    BY <1>1, <1>2, <1>4 DEF ChargedOnce
  <2>3. ASSUME NEW m \in Meeting
        PROVE  entries'[m] = IF m \in reports' THEN 1 ELSE 0
    <3>1. CASE m = tx[p].m
      BY <1>1, <1>4, <1>6, <2>2, <3>1 DEF TypeOK
    <3>2. CASE m # tx[p].m
      BY <1>1, <1>4, <1>6, <3>2 DEF TypeOK, ChargedOnce
    <3> QED
      BY <3>1, <3>2
  <2> QED
    BY <2>1, <2>3 DEF ChargedOnce
<1> DEFINE title == IF tx[p].old.title = "blank" THEN "model" ELSE tx[p].old.title
           new == [tx[p].old EXCEPT !.status = "PUBLISHED", !.title = title]
<1>8. title \in {"blank", "typed", "model"}
  BY <1>2 DEF Row
<1>9. new \in Row /\ new.status = "PUBLISHED"
  BY <1>2, <1>8 DEF Row, Committed, Transient, Status
<1>10. Write(p, new) /\ tx[p].m \in reports'
  BY <1>4 DEF Publish
<1>11. StatusBacked
  <2> HIDE DEF new
  <2> QED
    BY <1>1, <1>9, <1>10, WriteBacked
<1> QED
  BY <1>5, <1>7, <1>11

\* A task or a sweep never decides a state that lacks its report or transcript.
LEMMA WorkerBacked ==
  ASSUME Inv, PipelineAssumption, NEW p \in Worker, WorkerStep(p)
  PROVE  StatusBacked /\ ChargedOnce' /\ TablesGrow
<1> USE DEF Committed, Transient, Status
<1>1. p \in Slot /\ TypeOK /\ ChargedOnce
  <2>1. p \in Slot
    BY DEF Slot
  <2>2. TypeOK /\ ChargedOnce
    BY DEF Inv
  <2> QED
    BY <2>1, <2>2
<1>2. ASSUME tx[p] # Idle
      PROVE  tx[p] \in Tx
  BY <1>1, <1>2, Running
<1>3. CASE CommitTranscript(p) \/ Publish(p)
  <2>1. tx[p] # Idle
    BY <1>1, <1>3, NotIdle DEF CommitTranscript, Publish, At
  <2> QED
    BY <1>1, <1>2, <1>3, <2>1, TranscriptBacked, PublishBacked
<1>4. CASE CommitTranscriptionFailure(p) \/ CommitAnalysisFailure(p)
  <2>1. tx[p] # Idle
    BY <1>1, <1>4, NotIdle DEF CommitTranscriptionFailure, CommitAnalysisFailure, At
  <2> DEFINE new == [tx[p].old EXCEPT !.status = "FAILED"]
  <2>2. new \in Row /\ new.status = "FAILED"
    BY <1>2, <2>1 DEF Tx, Row
  <2>3. Write(p, new) /\ UNCHANGED tables
    BY <1>4 DEF CommitTranscriptionFailure, CommitAnalysisFailure
  <2> HIDE DEF new
  <2>4. StatusBacked
    BY <1>1, <1>2, <2>1, <2>2, <2>3, WriteBacked
  <2> QED
    BY <1>1, <2>3, <2>4, TablesAlone
<1>5. CASE CommitSweep(p)
  <2>1. tx[p] # Idle
    BY <1>1, <1>5, NotIdle DEF CommitSweep
  <2>2. tx[p] \in Tx /\ tx[p].old \in Row
    BY <1>2, <2>1 DEF Tx
  <2> DEFINE r == tx[p].old
             s == IF r.status = "PUBLISHED" /\ tx[p].step = "ready"
                  THEN "AUDIO_PURGED" ELSE r.status
             k == r.key /\ tx[p].step = "kept"
             u == IF tx[p].ok THEN 0 ELSE r.upload
             new == [r EXCEPT !.status = s, !.key = k, !.upload = u]
  <2>3. /\ s \in Committed \cup {"ABSENT"}
        /\ s = r.status \/ (s = "AUDIO_PURGED" /\ r.status = "PUBLISHED")
    BY <2>2 DEF Row
  <2>4. k \in BOOLEAN
    BY <2>2 DEF Row
  <2>5. u \in UploadId
    BY <2>2, PipelineAssumption DEF Row, UploadId, PipelineAssumption
  <2>6. new \in Row /\ new.status = s
    <3> HIDE DEF s, k, u
    <3> QED
      BY <2>2, <2>3, <2>4, <2>5 DEF Row
  <2>7. Write(p, new) /\ UNCHANGED tables
    BY <1>5 DEF CommitSweep
  <2>8. s # r.status => s = "AUDIO_PURGED" /\ tx[p].m \in reports'
    BY <1>1, <2>1, <2>3, <2>7 DEF Inv, RememberedHolds, tables
  <2>9. StatusBacked
    <3> HIDE DEF new, s
    <3> QED
      BY <1>1, <2>2, <2>6, <2>7, <2>8, WriteBacked
  <2> QED
    BY <1>1, <2>7, <2>9, TablesAlone
<1>6. CASE ~ \/ CommitTranscript(p) \/ Publish(p) \/ CommitTranscriptionFailure(p)
             \/ CommitAnalysisFailure(p) \/ CommitSweep(p)
  <2>1. UNCHANGED << row, tables >>
    BY <1>6 DEF WorkerStep, TaskTaken, TakeTranscribe, TakeAnalyse, TaskWorks, Transcribed,
       TranscriptionFailed, DispatchAnalysis, InsertRefused, Acknowledge, TaskRaises,
       WorkerLost, SweepStep, BeginSweep, SweepAbort, SweepDelete, SweepDeleteRefused,
       SweepFails
  <2> QED
    BY <1>1, <2>1, TablesAlone DEF StatusBacked
<1> QED
  BY <1>3, <1>4, <1>5, <1>6

\* The invariant holds initially.
LEMMA InitInv ==
  ASSUME PipelineAssumption, Init
  PROVE  Inv
<1>1. TypeOK
  BY InitType
<1>2. ChargedOnce /\ PublishedIsCharged /\ AnalysingHasTranscript /\ RememberedHolds
      /\ ChecksHold
  BY DEF Init, ChargedOnce, PublishedIsCharged, AnalysingHasTranscript,
         RememberedHolds, ChecksHold, NoRow
<1> QED
  BY <1>1, <1>2 DEF Inv

\* Every step preserves the invariant.
LEMMA NextInv ==
  ASSUME Inv, PipelineAssumption, [Next]_vars
  PROVE  Inv'
<1>1. TypeOK /\ ChargedOnce /\ TypeOK'
  BY StepTypeOK DEF Inv
<1>2. ASSUME NEW m \in Meeting, NEW title \in {"blank", "typed"}, Declare(m, title)
      PROVE  Inv'
  <2>1. StatusBacked
    BY <1>1, <1>2 DEF Declare, StatusBacked, TypeOK, NoRow
  <2> QED
    BY <1>1, <1>2, <2>1, TablesAlone, IdleKeeps, Preserved DEF Declare
<1>3. ASSUME NEW m \in Meeting, DeadlinePasses(m)
      PROVE  Inv'
  <2>1. StatusBacked
    BY <1>1, <1>3 DEF DeadlinePasses, StatusBacked, TypeOK, Row
  <2> QED
    BY <1>1, <1>3, <2>1, TablesAlone, IdleKeeps, Preserved DEF DeadlinePasses
<1>4. ASSUME NEW p \in Api, RequestStep(p)
      PROVE  Inv'
  BY <1>1, <1>4, RequestBacked, RequestKeeps, Preserved
<1>5. ASSUME NEW p \in Worker, WorkerStep(p)
      PROVE  Inv'
  BY <1>1, <1>5, WorkerBacked, WorkerKeeps, Preserved
<1>6. CASE UNCHANGED vars
  <2>1. UNCHANGED tables /\ UNCHANGED tx /\ UNCHANGED row
    BY <1>6 DEF vars, tables
  <2>2. StatusBacked
    BY <2>1 DEF StatusBacked
  <2> QED
    BY <1>1, <2>1, <2>2, TablesAlone, IdleKeeps, Preserved
<1> QED
  BY <1>2, <1>3, <1>4, <1>5, <1>6 DEF Next

\* Inv is an invariant of the pipeline.
THEOREM InvHolds == Spec => []Inv
<1>1. Init => Inv
  BY InitInv, PipelineAssumption
<1>2. Inv /\ [Next]_vars => Inv'
  BY NextInv, PipelineAssumption
<1> QED
  BY <1>1, <1>2, PTL DEF Spec

\* However requests, tasks, redeliveries and sweeps overlap, a meeting is
\* charged exactly once if it has a report and never otherwise.
THEOREM Billing == Spec => []ChargedOnce
<1>1. Inv => ChargedOnce
  BY DEF Inv
<1> QED
  BY <1>1, InvHolds, PTL

\* Whichever of two overlapping transactions wrote the row last, the state it
\* shows is backed by the tables.
THEOREM Backing == Spec => []StateIsBacked
<1>1. Inv => StateIsBacked
  BY DEF Inv, StateIsBacked
<1> QED
  BY <1>1, InvHolds, PTL

\* The facts a transaction read before its external calls still hold when it
\* commits.
THEOREM Memory == Spec => []RememberedHolds
<1>1. Inv => RememberedHolds
  BY DEF Inv
<1> QED
  BY <1>1, InvHolds, PTL


-----------------------------------------------------------------------------
(* The table: every commit decides a state the table allows from the one   *)
(* its transaction read, so a meeting strays only where the row has moved  *)
(* under the transaction.                                                  *)

Still(m) == row'[m].status = row[m].status /\ entries'[m] = entries[m]

\* A step is lawful for every meeting, and moves one at most.
Lawful == \A m \in Meeting : KeepsToTable(m) \/ Strays(m)
OneMoves ==
  \/ \A m \in Meeting : Still(m)
  \/ \E m \in Meeting : \A n \in Meeting \ {m} : Still(n)

\* What a commit makes of the row: the state it decided, unless that is the
\* state it read, and no other row.
Decides(p, s) ==
  /\ row'[tx[p].m].status = Column(row[tx[p].m].status, tx[p].old.status, s)
  /\ \A n \in Meeting \ {tx[p].m} : row'[n].status = row[n].status

LEMMA Quiet ==
  ASSUME entries' = entries, \A m \in Meeting : row'[m].status = row[m].status
  PROVE  Lawful /\ OneMoves
  BY DEF Lawful, OneMoves, Still, KeepsToTable

LEMMA WriteDecides ==
  ASSUME TypeOK, NEW p \in Slot, tx[p] \in Tx, NEW new \in Row, Write(p, new)
  PROVE  Decides(p, new.status)
<1>1. tx[p].m \in Meeting /\ row \in [Meeting -> Row]
  BY DEF TypeOK, Tx
<1>2. row' = [row EXCEPT ![tx[p].m] = Merge(row[tx[p].m], tx[p].old, new)]
  BY DEF Write, Written
<1> QED
  BY <1>1, <1>2 DEF Decides, Merge

LEMMA FinalizeDecides ==
  ASSUME TypeOK, PipelineAssumption, NEW p \in Slot, tx[p] \in Tx, CommitFinalize(p)
  PROVE  Decides(p, Destination(tx[p]))
<1> DEFINE d == Destination(tx[p])
           new == [tx[p].old EXCEPT !.status = d, !.upload = 0]
<1>1. /\ tx[p].m \in Meeting /\ row \in [Meeting -> Row]
      /\ tx[p].old \in Row /\ row[tx[p].m] \in Row
  BY DEF TypeOK, Tx
<1>2. d \in {"QUEUED", "QUOTA_HOLD"} /\ 0 \in UploadId
  BY PipelineAssumption DEF Destination, UploadId, PipelineAssumption
<1>3. new \in Row /\ new.status = d
  BY <1>1, <1>2 DEF Row, Committed, Transient, Status
<1>4. Finalized(p) = Merge(row[tx[p].m], tx[p].old, new)
  BY DEF Finalized, Written
<1> HIDE DEF new, d
<1>5. Finalized(p) \in Row
  BY <1>1, <1>3, <1>4, MergeType
<1>6. Finalized(p).status = Column(row[tx[p].m].status, tx[p].old.status, d)
  BY <1>3, <1>4 DEF Merge
<1>7. row' = [row EXCEPT ![tx[p].m] = [Finalized(p) EXCEPT !.purge = "ahead"]]
  BY DEF CommitFinalize
<1>8. [Finalized(p) EXCEPT !.purge = "ahead"].status = Finalized(p).status
  BY <1>5 DEF Row
<1>9. Decides(p, d)
  BY <1>1, <1>6, <1>7, <1>8 DEF Decides
<1> QED
  BY <1>9 DEF d

LEMMA RetryDecides ==
  ASSUME TypeOK, NEW p \in Slot, tx[p] \in Tx, CommitRetry(p)
  PROVE  Decides(p, IF tx[p].ok THEN "ANALYZING" ELSE "QUEUED")
<1> DEFINE s == IF tx[p].ok THEN "ANALYZING" ELSE "QUEUED"
           new == [tx[p].old EXCEPT !.status = s]
<1>1. tx[p].old \in Row
  BY DEF Tx
<1>2. new \in Row /\ new.status = s /\ Write(p, new)
  BY <1>1 DEF Row, CommitRetry, Committed, Transient, Status
<1>3. Decides(p, s)
  <2> HIDE DEF new, s
  <2> QED
    BY <1>2, WriteDecides
<1> QED
  BY <1>3

\* A state the table allows, written over the state that was read, is a move
\* along the table; written over another, it is a lost update.
LEMMA DecidesLawfully ==
  ASSUME TypeOK, NEW p \in Slot, tx[p] \in Tx, tx[p] # Idle, tx'[p] # tx[p],
         entries' = entries, NEW s, Decides(p, s),
         \/ s = tx[p].old.status
         \/ /\ tx[p].old.status \in Committed /\ s \in Committed \ {"PUBLISHED"}
            /\ Reaches(tx[p].old.status, s)
  PROVE  Lawful /\ OneMoves
<1>1. PICK m \in Meeting : m = tx[p].m
  BY DEF Tx
<1>2. \A n \in Meeting \ {m} : Still(n)
  BY <1>1 DEF Decides, Still
<1>3. KeepsToTable(m) \/ Strays(m)
  <2>1. CASE row'[m].status = row[m].status
    BY <2>1 DEF KeepsToTable
  <2>2. CASE row'[m].status # row[m].status /\ row[m].status # tx[p].old.status
    BY <1>1, <2>2 DEF Strays, LostUpdate
  <2>3. CASE row'[m].status # row[m].status /\ row[m].status = tx[p].old.status
    <3>1. row'[m].status = s /\ s # tx[p].old.status
      BY <1>1, <2>3 DEF Decides, Column
    <3> QED
      BY <2>3, <3>1 DEF KeepsToTable
  <2> QED
    BY <2>1, <2>2, <2>3
<1>4. Lawful
  BY <1>2, <1>3 DEF Lawful, Still, KeepsToTable
<1> QED
  BY <1>2, <1>4 DEF OneMoves

\* Ending a transaction, or advancing it to its commit, changes its slot.
LEMMA SlotChanges ==
  ASSUME TypeOK, NEW p \in Slot, tx[p] \in Tx, tx[p] # Idle,
         Close(p) \/ \E s \in {"committed", "sent"} : Step(p, s) /\ tx[p].step # s
  PROVE  tx'[p] # tx[p]
<1>1. CASE Close(p)
  BY <1>1 DEF Close, TypeOK
<1>2. ASSUME NEW s \in {"committed", "sent"}, Step(p, s), tx[p].step # s
      PROVE  tx'[p] # tx[p]
  <2>1. tx'[p] = [tx[p] EXCEPT !.step = s]
    BY <1>2 DEF Step, TypeOK
  <2>2. tx'[p].step = s
    BY <2>1 DEF Tx
  <2> QED
    BY <1>2, <2>2
<1> QED
  BY <1>1, <1>2

\* The commits of requests.
LEMMA RequestCommitsLawfully ==
  ASSUME Inv, PipelineAssumption, NEW p \in Api, RequestCommits(p)
  PROVE  Lawful /\ OneMoves
<1> USE DEF Committed, Transient, Status
<1>1. p \in Slot /\ TypeOK
  BY DEF Slot, Inv
<1>2. tx[p] # Idle
  BY <1>1, NotIdle
     DEF RequestCommits, CommitUpdate, CommitRemove, CommitStartUpload,
         CommitFinalize, CommitAbandon, CommitRetry, At
<1>3. tx[p] \in Tx /\ Checked(tx[p])
  BY <1>1, <1>2, Running DEF Inv, ChecksHold
<1>4. /\ tx[p].old \in Row /\ tx[p].upload \in UploadId /\ tx[p].seconds \in Seconds
      /\ tx[p].old.upload \in UploadId /\ 0 \in UploadId
  <2>1. tx[p].old \in Row /\ tx[p].upload \in UploadId /\ tx[p].seconds \in Seconds
    BY <1>3 DEF Tx
  <2> QED
    BY <2>1, PipelineAssumption DEF Row, UploadId, PipelineAssumption
<1>5. entries' = entries
  BY DEF RequestCommits, CommitUpdate, CommitRemove, CommitStartUpload,
         CommitFinalize, CommitAbandon, CommitRetry, tables
<1>6. tx'[p] # tx[p]
  <2>1. Close(p) \/ (Step(p, "committed") /\ tx[p].step = "ready")
    BY DEF RequestCommits, CommitUpdate, CommitRemove, CommitStartUpload,
           CommitFinalize, CommitAbandon, CommitRetry, At
  <2> QED
    BY <1>1, <1>2, <1>3, <2>1, SlotChanges
<1>7. CASE CommitUpdate(p)
  BY <1>1, <1>3, <1>5, <1>7, TitleType, Quiet
<1>8. CASE CommitRemove(p)
  <2> DEFINE new == [tx[p].old EXCEPT !.status = "DELETED"]
  <2>1. new \in Row /\ new.status = "DELETED" /\ Write(p, new)
    BY <1>4, <1>8 DEF Row, CommitRemove
  <2>2. Decides(p, "DELETED")
    <3> HIDE DEF new
    <3> QED
      BY <1>1, <1>3, <2>1, WriteDecides
  <2>3. tx[p].old.status \in Committed /\ Reaches(tx[p].old.status, "DELETED")
    BY <1>3, <1>8 DEF Checked, CommitRemove, At, Reaches, ApiOp
  <2> QED
    BY <1>1, <1>2, <1>3, <1>5, <1>6, <2>2, <2>3, DecidesLawfully
<1>9. CASE CommitStartUpload(p)
  <2> DEFINE new == [tx[p].old EXCEPT !.status = "UPLOADING", !.key = TRUE,
                       !.upload = tx[p].upload, !.seconds = tx[p].seconds]
  <2>1. new \in Row /\ new.status = "UPLOADING" /\ Write(p, new)
    BY <1>4, <1>9 DEF Row, CommitStartUpload
  <2>2. Decides(p, "UPLOADING")
    <3> HIDE DEF new
    <3> QED
      BY <1>1, <1>3, <2>1, WriteDecides
  <2>3. tx[p].old.status = "CREATED" /\ Reaches("CREATED", "UPLOADING")
    BY <1>3, <1>9, Reached DEF Checked, CommitStartUpload, At
  <2> QED
    BY <1>1, <1>2, <1>3, <1>5, <1>6, <2>2, <2>3, DecidesLawfully
<1>10. CASE CommitFinalize(p)
  <2>1. Decides(p, Destination(tx[p]))
    BY <1>1, <1>3, <1>10, FinalizeDecides
  <2>2. Destination(tx[p]) \in Committed \ {"PUBLISHED"}
    BY DEF Destination
  <2>3. tx[p].old.status \in Committed /\ Reaches(tx[p].old.status, Destination(tx[p]))
    BY <1>3, <1>10 DEF Checked, CommitFinalize, At, Reaches, ApiOp
  <2> QED
    BY <1>1, <1>2, <1>3, <1>5, <1>6, <2>1, <2>2, <2>3, DecidesLawfully
<1>11. CASE CommitAbandon(p)
  <2> DEFINE u == IF tx[p].ok THEN 0 ELSE tx[p].old.upload
             new == [tx[p].old EXCEPT !.status = "CANCELLED", !.upload = u]
  <2>1. new \in Row /\ new.status = "CANCELLED" /\ Write(p, new)
    BY <1>4, <1>11 DEF Row, CommitAbandon
  <2>2. Decides(p, "CANCELLED")
    <3> HIDE DEF new
    <3> QED
      BY <1>1, <1>3, <2>1, WriteDecides
  <2>3. tx[p].old.status \in Committed /\ Reaches(tx[p].old.status, "CANCELLED")
    BY <1>3, <1>11 DEF Checked, CommitAbandon, At, Reaches, ApiOp
  <2> QED
    BY <1>1, <1>2, <1>3, <1>5, <1>6, <2>2, <2>3, DecidesLawfully
<1>12. CASE CommitRetry(p)
  <2> DEFINE s == IF tx[p].ok THEN "ANALYZING" ELSE "QUEUED"
  <2>1. Decides(p, s)
    BY <1>1, <1>3, <1>12, RetryDecides
  <2>2. tx[p].old.status = "FAILED" /\ Reaches("FAILED", s)
    BY <1>3, <1>12, Reached DEF Checked, CommitRetry, At
  <2>3. s \in Committed \ {"PUBLISHED"} /\ "FAILED" \in Committed
    OBVIOUS
  <2> HIDE DEF s
  <2> QED
    BY <1>1, <1>2, <1>3, <1>5, <1>6, <2>1, <2>2, <2>3, DecidesLawfully
<1> QED
  BY <1>7, <1>8, <1>9, <1>10, <1>11, <1>12 DEF RequestCommits

\* The commits of tasks and of the sweep.
LEMMA TaskCommitsLawfully ==
  ASSUME Inv, NEW p \in Worker,
         CommitTranscript(p) \/ CommitTranscriptionFailure(p) \/ CommitAnalysisFailure(p)
  PROVE  Lawful /\ OneMoves
<1> USE DEF Committed, Transient, Status
<1>1. p \in Slot /\ TypeOK
  BY DEF Slot, Inv
<1>2. tx[p] # Idle
  BY <1>1, NotIdle DEF CommitTranscript, CommitTranscriptionFailure, CommitAnalysisFailure, At
<1>3. tx[p] \in Tx /\ Checked(tx[p])
  BY <1>1, <1>2, Running DEF Inv, ChecksHold
<1>4. tx[p].old \in Row /\ tx[p].seconds \in Seconds
  BY <1>3 DEF Tx
<1>5. entries' = entries
  BY DEF CommitTranscript, CommitTranscriptionFailure, CommitAnalysisFailure, tables
<1>6. tx'[p] # tx[p]
  <2>1. \/ Step(p, "committed") /\ tx[p].step = "ready"
        \/ Step(p, "sent") /\ tx[p].step \in {"read", "ready"}
    BY DEF CommitTranscript, CommitTranscriptionFailure, CommitAnalysisFailure, At
  <2> QED
    BY <1>1, <1>2, <1>3, <2>1, SlotChanges
<1>7. PICK new \in Row :
        /\ Write(p, new)
        /\ \/ tx[p].old.status = "QUEUED" /\ new.status \in {"ANALYZING", "FAILED"}
           \/ tx[p].old.status = "ANALYZING" /\ new.status = "FAILED"
  <2>1. CASE CommitTranscript(p)
    <3>1. PICK new : new = [tx[p].old EXCEPT !.status = "ANALYZING", !.seconds = tx[p].seconds]
      OBVIOUS
    <3>2. new \in Row /\ new.status = "ANALYZING" /\ Write(p, new)
      BY <1>4, <2>1, <3>1 DEF Row, CommitTranscript
    <3>3. tx[p].old.status = "QUEUED"
      BY <1>3, <2>1 DEF Checked, CommitTranscript, At
    <3> QED
      BY <3>2, <3>3
  <2>2. CASE CommitTranscriptionFailure(p) \/ CommitAnalysisFailure(p)
    <3>1. PICK new : new = [tx[p].old EXCEPT !.status = "FAILED"]
      OBVIOUS
    <3>2. new \in Row /\ new.status = "FAILED" /\ Write(p, new)
      BY <1>4, <2>2, <3>1 DEF Row, CommitTranscriptionFailure, CommitAnalysisFailure
    <3>3. tx[p].old.status \in {"QUEUED", "ANALYZING"}
      BY <1>3, <2>2 DEF Checked, CommitTranscriptionFailure, CommitAnalysisFailure, At
    <3> QED
      BY <3>2, <3>3
  <2> QED
    BY <2>1, <2>2
<1>8. Decides(p, new.status)
  BY <1>1, <1>3, <1>7, WriteDecides
<1>9. /\ tx[p].old.status \in Committed /\ new.status \in Committed \ {"PUBLISHED"}
      /\ Reaches(tx[p].old.status, new.status)
  BY <1>7, Reached
<1> QED
  BY <1>1, <1>2, <1>3, <1>5, <1>6, <1>8, <1>9, DecidesLawfully

LEMMA SweepCommitsLawfully ==
  ASSUME Inv, PipelineAssumption, NEW p \in Worker, CommitSweep(p)
  PROVE  Lawful /\ OneMoves
<1> USE DEF Committed, Transient, Status
<1>1. p \in Slot /\ TypeOK
  BY DEF Slot, Inv
<1>2. tx[p] # Idle
  BY <1>1, NotIdle DEF CommitSweep
<1>3. tx[p] \in Tx /\ tx[p].old \in Row
  BY <1>1, <1>2, Running DEF Tx
<1>4. entries' = entries /\ tx'[p] # tx[p]
  BY <1>1, <1>2, <1>3, SlotChanges DEF CommitSweep, tables
<1> DEFINE r == tx[p].old
           s == IF r.status = "PUBLISHED" /\ tx[p].step = "ready"
                THEN "AUDIO_PURGED" ELSE r.status
           k == r.key /\ tx[p].step = "kept"
           u == IF tx[p].ok THEN 0 ELSE r.upload
           new == [r EXCEPT !.status = s, !.key = k, !.upload = u]
<1>5. /\ s \in Committed \cup {"ABSENT"}
      /\ s = r.status \/ (s = "AUDIO_PURGED" /\ r.status = "PUBLISHED")
  BY <1>3 DEF Row
<1>6. k \in BOOLEAN
  BY <1>3 DEF Row
<1>7. u \in UploadId
  BY <1>3, PipelineAssumption DEF Row, UploadId, PipelineAssumption
<1>8. new \in Row /\ new.status = s
  <2> HIDE DEF s, k, u
  <2> QED
    BY <1>3, <1>5, <1>6, <1>7 DEF Row
<1>9. Write(p, new)
  BY DEF CommitSweep
<1>10. Decides(p, s)
  <2> HIDE DEF new, s
  <2> QED
    BY <1>1, <1>3, <1>8, <1>9, WriteDecides
<1> HIDE DEF new, s
<1>11. s = r.status \/ /\ r.status \in Committed /\ s \in Committed \ {"PUBLISHED"}
                       /\ Reaches(r.status, s)
  BY <1>5, Reached
<1> QED
  BY <1>1, <1>2, <1>3, <1>4, <1>10, <1>11, DecidesLawfully

\* A meeting that has no report yet does not show as published, so publishing
\* it moves it, and charges it once.
LEMMA PublishesLawfully ==
  ASSUME Inv, NEW p \in Worker, Publish(p)
  PROVE  Lawful /\ OneMoves
<1>1. p \in Slot /\ TypeOK
  BY DEF Slot, Inv
<1>2. tx[p] # Idle
  BY <1>1, NotIdle DEF Publish, At
<1>3. tx[p] \in Tx /\ Checked(tx[p])
  BY <1>1, <1>2, Running DEF Inv, ChecksHold
<1>4. PICK m \in Meeting : m = tx[p].m
  BY <1>3 DEF Tx
<1>5. tx'[p] # tx[p]
  BY <1>1, <1>2, <1>3, SlotChanges DEF Publish, At
<1>6. tx[p].old \in Row /\ tx[p].old.status = "ANALYZING"
  BY <1>3 DEF Tx, Checked, Publish, At
<1> DEFINE title == IF tx[p].old.title = "blank" THEN "model" ELSE tx[p].old.title
           new == [tx[p].old EXCEPT !.status = "PUBLISHED", !.title = title]
<1>7. title \in {"blank", "typed", "model"}
  BY <1>6 DEF Row
<1>8. new \in Row /\ new.status = "PUBLISHED"
  BY <1>6, <1>7 DEF Row, Committed, Transient, Status
<1>9. Write(p, new)
  BY DEF Publish
<1>10. Decides(p, "PUBLISHED")
  <2> HIDE DEF new
  <2> QED
    BY <1>1, <1>3, <1>8, <1>9, WriteDecides
<1>11. entries' = [entries EXCEPT ![m] = entries[m] + 1]
  BY <1>4 DEF Publish
<1>12. /\ entries'[m] = entries[m] + 1
       /\ \A n \in Meeting \ {m} : entries'[n] = entries[n]
  BY <1>1, <1>11 DEF TypeOK
<1>13. \A n \in Meeting \ {m} : Still(n)
  BY <1>4, <1>10, <1>12 DEF Decides, Still
<1>14. row[m].status # "PUBLISHED" /\ row'[m].status = "PUBLISHED"
  <2>1. m \notin reports
    BY <1>4 DEF Publish
  <2> QED
    BY <1>4, <1>6, <1>10, <2>1 DEF Inv, PublishedIsCharged, Decides, Column
<1>15. KeepsToTable(m) \/ Strays(m)
  <2>1. CASE row[m].status = "ANALYZING"
    BY <1>12, <1>14, <2>1 DEF KeepsToTable
  <2>2. CASE row[m].status # "ANALYZING"
    BY <1>1, <1>2, <1>4, <1>5, <1>6, <1>14, <2>2 DEF Strays, LostUpdate
  <2> QED
    BY <2>1, <2>2
<1>16. Lawful
  BY <1>13, <1>15 DEF Lawful, Still, KeepsToTable
<1> QED
  BY <1>13, <1>16 DEF OneMoves

\* Every step is lawful.
LEMMA NextLawful ==
  ASSUME Inv, PipelineAssumption, [Next]_vars
  PROVE  Lawful /\ OneMoves
<1>1. ASSUME NEW m \in Meeting, NEW title \in {"blank", "typed"}, Declare(m, title)
      PROVE  Lawful /\ OneMoves
  <2>1. row' = [row EXCEPT ![m] = [NoRow EXCEPT !.status = "CREATED", !.title = title]]
    BY <1>1 DEF Declare
  <2>2. /\ row[m].status = "ABSENT" /\ row'[m].status = "CREATED"
        /\ \A n \in Meeting \ {m} : row'[n] = row[n]
    BY <1>1, <2>1 DEF Declare, NoRow, Inv, TypeOK
  <2>3. entries' = entries
    BY <1>1 DEF Declare, tables
  <2> QED
    BY <2>2, <2>3 DEF Lawful, OneMoves, Still, KeepsToTable
<1>2. ASSUME NEW m \in Meeting, DeadlinePasses(m)
      PROVE  Lawful /\ OneMoves
  <2>1. entries' = entries
    BY <1>2 DEF DeadlinePasses, tables
  <2>2. \A n \in Meeting : row'[n].status = row[n].status
    BY <1>2 DEF DeadlinePasses, Inv, TypeOK, Row
  <2> QED
    BY <2>1, <2>2, Quiet
<1>3. ASSUME NEW p \in Api, RequestStep(p)
      PROVE  Lawful /\ OneMoves
  <2>1. CASE RequestCommits(p)
    BY <2>1, RequestCommitsLawfully
  <2>2. CASE ~ RequestCommits(p)
    <3>1. row' = row /\ entries' = entries
      BY <1>3, <2>2 DEF RequestStep, RequestBegins, BeginUpdate, BeginRemove,
         BeginStartUpload, BeginFinalize, BeginAbandon, BeginRetry, RequestCalls,
         StartMultipart, CompleteMultipart, RefuseMismatch, AbandonAbort, Dispatch,
         LoseDispatch, RequestFails, tables
    <3> QED
      BY <3>1, Quiet
  <2> QED
    BY <2>1, <2>2
<1>4. ASSUME NEW p \in Worker, WorkerStep(p)
      PROVE  Lawful /\ OneMoves
  <2>1. CASE \/ CommitTranscript(p) \/ CommitTranscriptionFailure(p)
             \/ CommitAnalysisFailure(p)
    BY <2>1, TaskCommitsLawfully
  <2>2. CASE Publish(p)
    BY <2>2, PublishesLawfully
  <2>3. CASE CommitSweep(p)
    BY <2>3, SweepCommitsLawfully
  <2>4. CASE ~ \/ CommitTranscript(p) \/ Publish(p) \/ CommitTranscriptionFailure(p)
               \/ CommitAnalysisFailure(p) \/ CommitSweep(p)
    <3>1. row' = row /\ entries' = entries
      BY <1>4, <2>4 DEF WorkerStep, TaskTaken, TakeTranscribe, TakeAnalyse, TaskWorks,
         Transcribed, TranscriptionFailed, DispatchAnalysis, InsertRefused, Acknowledge,
         TaskRaises, WorkerLost, SweepStep, BeginSweep, SweepAbort, SweepDelete,
         SweepDeleteRefused, SweepFails, tables
    <3> QED
      BY <3>1, Quiet
  <2> QED
    BY <2>1, <2>2, <2>3, <2>4
<1>5. CASE UNCHANGED vars
  BY <1>5, Quiet DEF vars
<1> QED
  BY <1>1, <1>2, <1>3, <1>4, <1>5 DEF Next

\* However transactions overlap, a meeting strays from the table only in a
\* lost update.
THEOREM OnTheTable == Spec => StraysOnlyWhenStale
<1>1. Inv /\ [Next]_vars =>
        [\A m \in Meeting : KeepsToTable(m) \/ Strays(m)]_vars
  BY NextLawful, PipelineAssumption DEF Lawful
<1> QED
  BY <1>1, InvHolds, PTL DEF Spec, StraysOnlyWhenStale

-----------------------------------------------------------------------------
(* What a lost update is to blame for: where none happens, transactions    *)
(* may overlap as they like and the pipeline implements the life cycle.    *)

\* No commit decides a state over one it has not read.  The server does not
\* see to it (there is no row lock and no version column): this is what the
\* theorems below say would be enough, and a hypothesis of theirs.
NoLostUpdate == [][\A p \in Slot : ~ LostUpdate(p)]_vars

\* The states before a recording was accepted for processing, and those of a
\* meeting that was published.
Early == {"ABSENT", "CREATED", "UPLOADING", "QUOTA_HOLD"}
Shown == {"PUBLISHED", "AUDIO_PURGED", "DELETED"}

\* The table leads neither back to an early state nor out of a published one.
LEMMA EarlyRows ==
  ASSUME NEW s \in Status, NEW t \in AllowedFrom(s)
  PROVE  /\ t \in Status
         /\ t \in Early => s \in Early
         /\ s \in Shown => t \in Shown
         /\ s \in Transient => t \notin Early
         /\ t \in Transient => s \notin Shown
<1>1. AllowedFrom(s) = TRANSITIONS[s]
  BY DEF AllowedFrom
<1> USE DEF Early, Shown, Transient
<1>2. CASE s \in {"CREATED", "UPLOADING", "QUOTA_HOLD"}
  BY <1>1, <1>2 DEF TRANSITIONS, Status
<1>3. CASE s \in {"QUEUED", "TRANSCRIBING", "FALLBACK_STT"}
  BY <1>1, <1>3 DEF TRANSITIONS, Status
<1>4. CASE s \in {"ANALYZING", "COMPLETED", "PUBLISHED", "AUDIO_PURGED"}
  BY <1>1, <1>4 DEF TRANSITIONS, Status
<1>5. CASE s \in {"FAILED", "CANCELLED", "DELETED"}
  BY <1>1, <1>5 DEF TRANSITIONS, Status
<1> QED
  BY <1>2, <1>3, <1>4, <1>5 DEF Status

LEMMA NoWayBack ==
  ASSUME NEW s \in Committed, NEW t \in Committed, Reaches(s, t)
  PROVE  (t \in Early => s \in Early) /\ (s \in Shown => t \in Shown)
<1>1. s \in Status /\ Transient \subseteq Status
  BY DEF Committed, Transient, Status
<1>2. CASE t \in AllowedFrom(s)
  BY <1>1, <1>2, EarlyRows
<1>3. ASSUME NEW u \in Transient, u \in AllowedFrom(s), t \in AllowedFrom(u)
      PROVE  t \notin Early /\ s \notin Shown
  BY <1>1, <1>3, EarlyRows
<1>4. ASSUME NEW u \in Transient, NEW v \in Transient,
             u \in AllowedFrom(s), v \in AllowedFrom(u), t \in AllowedFrom(v)
      PROVE  t \notin Early /\ s \notin Shown
  BY <1>1, <1>4, EarlyRows
<1> QED
  BY <1>2, <1>3, <1>4 DEF Reaches

\* What is charged stays published.
ChargedIsShown == \A m \in Meeting : entries[m] # 0 => row[m].status \in Shown

LEMMA ChargedStaysShown ==
  ASSUME Inv, ChargedIsShown, \A m \in Meeting : KeepsToTable(m)
  PROVE  ChargedIsShown'
<1> SUFFICES ASSUME NEW m \in Meeting, entries'[m] # 0
             PROVE  row'[m].status \in Shown
  BY DEF ChargedIsShown
<1>1. CASE entries'[m] = entries[m] /\ row'[m].status = row[m].status
  BY <1>1 DEF ChargedIsShown
<1>2. CASE entries'[m] = entries[m] /\ row[m].status = "ABSENT"
  BY <1>2 DEF ChargedIsShown, Shown
<1>3. CASE /\ entries'[m] = entries[m] /\ row[m].status \in Committed
           /\ row'[m].status \in Committed /\ Reaches(row[m].status, row'[m].status)
  <2>1. row[m].status \in Shown
    BY <1>3 DEF ChargedIsShown
  <2> QED
    BY <1>3, <2>1, NoWayBack
<1>4. CASE row'[m].status = "PUBLISHED"
  BY <1>4 DEF Shown
<1> QED
  BY <1>1, <1>2, <1>3, <1>4 DEF KeepsToTable

\* Where no update is lost a step keeps every meeting to the table.
LEMMA KeepsAll ==
  ASSUME Inv, PipelineAssumption, [Next]_vars, [\A p \in Slot : ~ LostUpdate(p)]_vars
  PROVE  \A m \in Meeting : KeepsToTable(m)
<1>1. CASE UNCHANGED vars
  BY <1>1 DEF vars, KeepsToTable
<1>2. CASE \A p \in Slot : ~ LostUpdate(p)
  BY <1>2, NextLawful DEF Lawful, Strays
<1> QED
  BY <1>1, <1>2

\* No quota is decremented for a failed meeting, however its transactions
\* overlap, unless one of them loses an update.
THEOREM FailedIsFree == Spec /\ NoLostUpdate => []FailedNeverBilled
<1>1. Init => ChargedIsShown
  BY DEF Init, ChargedIsShown
<1>2. Inv /\ ChargedIsShown /\ [Next]_vars /\ [\A p \in Slot : ~ LostUpdate(p)]_vars
        => ChargedIsShown'
  BY KeepsAll, ChargedStaysShown, PipelineAssumption
<1>3. Inv /\ ChargedIsShown => FailedNeverBilled
  BY DEF ChargedIsShown, Shown, FailedNeverBilled
<1> QED
  BY <1>1, <1>2, <1>3, InvHolds, PTL DEF Spec, NoLostUpdate

-----------------------------------------------------------------------------
(* Held meetings: until a meeting is accepted for processing no task, no   *)
(* message and no transcript of it exists.                                 *)

\* A transaction that sends, or is, a task of a meeting.
Works(q) == tx[q].op \in Stage \/ tx[q].step = "committed"

Unstarted(m) ==
  /\ m \notin transcripts
  /\ \A msg \in Message : msg.m = m => queue[msg] = 0
  /\ \A q \in Slot : tx[q] # Idle /\ tx[q].m = m => ~ Works(q)

EarlyIsUnstarted == \A m \in Meeting : row[m].status \in Early => Unstarted(m)

\* A step on one slot that neither takes up work on the meeting nor sends any.
LEMMA StaysOut ==
  ASSUME NEW m \in Meeting, Unstarted(m), NEW p \in Slot,
         \A q \in Slot \ {p} : tx'[q] = tx[q],
         tx'[p] = Idle \/ tx'[p].m # m \/ ~ Works(p)',
         m \in transcripts' => m \in transcripts,
         \A msg \in Message : msg.m = m => queue'[msg] = queue[msg]
  PROVE  Unstarted(m)'
<1>1. ASSUME NEW q \in Slot, tx'[q] # Idle, tx'[q].m = m
      PROVE  ~ Works(q)'
  <2>1. CASE q = p
    BY <1>1, <2>1
  <2>2. CASE q # p
    BY <1>1, <2>2 DEF Unstarted, Works
  <2> QED
    BY <2>1, <2>2
<1> QED
  BY <1>1 DEF Unstarted

LEMMA RequestBeginsOut ==
  ASSUME Inv, NEW m \in Meeting, Unstarted(m), NEW p \in Api, RequestBegins(p)
  PROVE  Unstarted(m)'
<1>1. PICK n \in Meeting, c \in Caller :
        \/ \E typed \in BOOLEAN : BeginUpdate(p, n, c, typed)
        \/ BeginRemove(p, n, c)
        \/ \E s \in Durations : BeginStartUpload(p, n, c, s)
        \/ BeginFinalize(p, n, c)
        \/ BeginAbandon(p, n, c)
        \/ BeginRetry(p, n, c)
  BY DEF RequestBegins
<1>2. p \in Slot /\ TypeOK
  BY DEF Slot, Inv
<1>3. UNCHANGED << transcripts, queue >> /\ \A q \in Slot \ {p} : tx'[q] = tx[q]
  BY <1>1, <1>2 DEF TypeOK, Begin, BeginUpdate, BeginRemove, BeginStartUpload,
     BeginFinalize, BeginAbandon, BeginRetry, tables
<1> USE DEF ApiOp
<1> DEFINE Request == tx'[p].op \in ApiOp /\ tx'[p].step \in {"read", "ready"}
<1>4. Request
  <2>1. ASSUME NEW typed \in BOOLEAN, BeginUpdate(p, n, c, typed) PROVE Request
    BY <1>2, <2>1 DEF TypeOK, Begin, BeginUpdate, Open
  <2>2. CASE BeginRemove(p, n, c)
    BY <1>2, <2>2 DEF TypeOK, Begin, BeginRemove, Open
  <2>3. ASSUME NEW s \in Durations, BeginStartUpload(p, n, c, s) PROVE Request
    BY <1>2, <2>3 DEF TypeOK, Begin, BeginStartUpload, Open
  <2>4. CASE BeginFinalize(p, n, c)
    BY <1>2, <2>4 DEF TypeOK, Begin, BeginFinalize, Open
  <2>5. CASE BeginAbandon(p, n, c)
    BY <1>2, <2>5 DEF TypeOK, Begin, BeginAbandon, Open
  <2>6. CASE BeginRetry(p, n, c)
    BY <1>2, <2>6 DEF TypeOK, Begin, BeginRetry, Open
  <2> QED
    BY <1>1, <2>1, <2>2, <2>3, <2>4, <2>5, <2>6
<1>5. ~ Works(p)'
  BY <1>4 DEF Works, Stage
<1> QED
  BY <1>2, <1>3, <1>5, StaysOut

LEMMA RequestCallsOut ==
  ASSUME Inv, NEW m \in Meeting, Unstarted(m), NEW p \in Api, RequestCalls(p)
  PROVE  Unstarted(m)'
<1>1. p \in Slot /\ TypeOK /\ tx[p] # Idle
  BY NotIdle DEF Slot, Inv, RequestCalls, StartMultipart, CompleteMultipart,
                 RefuseMismatch, AbandonAbort, At
<1>2. tx[p] \in Tx
  BY <1>1, Running
<1>3. UNCHANGED << transcripts, queue >> /\ \A q \in Slot \ {p} : tx'[q] = tx[q]
  BY <1>1 DEF TypeOK, RequestCalls, StartMultipart, CompleteMultipart, RefuseMismatch,
              AbandonAbort, Close, Step, tables
<1> DEFINE Out == tx'[p] = Idle \/ ~ Works(p)'
<1>4. Out
  <2>1. CASE StartMultipart(p)
    BY <1>1, <1>2, <2>1 DEF StartMultipart, At, TypeOK, Tx, Works, Stage
  <2>2. ASSUME NEW matches \in BOOLEAN, CompleteMultipart(p, matches) PROVE Out
    BY <1>1, <1>2, <2>2 DEF CompleteMultipart, At, Step, TypeOK, Tx, Works, Stage
  <2>3. CASE RefuseMismatch(p)
    BY <1>1, <2>3 DEF RefuseMismatch, Close, TypeOK
  <2>4. ASSUME NEW works \in BOOLEAN, AbandonAbort(p, works) PROVE Out
    BY <1>1, <1>2, <2>4 DEF AbandonAbort, At, TypeOK, Tx, Works, Stage
  <2> QED
    BY <2>1, <2>2, <2>3, <2>4 DEF RequestCalls
<1> QED
  BY <1>1, <1>3, <1>4, StaysOut

\* A commit that has a task to send leaves its meeting accepted.
LEMMA RequestCommitsOut ==
  ASSUME Inv, PipelineAssumption, NEW m \in Meeting, Unstarted(m),
         row'[m].status \in Early, NEW p \in Api, RequestCommits(p)
  PROVE  Unstarted(m)'
<1>1. p \in Slot /\ TypeOK /\ tx[p] # Idle
  BY NotIdle DEF Slot, Inv, RequestCommits, CommitUpdate, CommitRemove, CommitStartUpload,
                 CommitFinalize, CommitAbandon, CommitRetry, At
<1>2. tx[p] \in Tx /\ Checked(tx[p])
  BY <1>1, Running DEF Inv, ChecksHold
<1>3. UNCHANGED << transcripts, queue >>
  BY DEF RequestCommits, CommitUpdate, CommitRemove, CommitStartUpload, CommitFinalize,
         CommitAbandon, CommitRetry, tables
<1>4. Close(p) \/ Step(p, "committed")
  BY DEF RequestCommits, CommitUpdate, CommitRemove, CommitStartUpload, CommitFinalize,
         CommitAbandon, CommitRetry
<1>5. \A q \in Slot \ {p} : tx'[q] = tx[q]
  BY <1>1, <1>4 DEF TypeOK, Close, Step
<1>6. tx'[p] = Idle \/ tx[p].m # m
  <2>1. CASE Close(p)
    BY <1>1, <2>1 DEF TypeOK, Close
  <2>2. CASE CommitFinalize(p) /\ tx[p].ok
    <3>1. tx[p].old.status \in Committed /\ "QUEUED" \in AllowedFrom(tx[p].old.status)
      BY <1>2, <2>2 DEF Checked, CommitFinalize, At, ApiOp, Destination
    <3>2. tx[p].old.status \in {"UPLOADING", "QUOTA_HOLD", "FAILED"}
      BY <3>1, Moves
    <3>3. Decides(p, "QUEUED")
      BY <1>1, <1>2, <2>2, FinalizeDecides DEF Destination
    <3>4. row'[tx[p].m].status = "QUEUED"
      BY <3>2, <3>3 DEF Decides, Column
    <3> QED
      BY <3>4 DEF Early
  <2>3. CASE CommitRetry(p)
    <3>1. tx[p].old.status = "FAILED"
      BY <1>2, <2>3 DEF Checked, CommitRetry, At
    <3>2. \E s \in {"ANALYZING", "QUEUED"} : Decides(p, s)
      BY <1>1, <1>2, <2>3, RetryDecides
    <3>3. row'[tx[p].m].status \in {"ANALYZING", "QUEUED"}
      BY <3>1, <3>2 DEF Decides, Column
    <3> QED
      BY <3>3 DEF Early
  <2> QED
    BY <2>1, <2>2, <2>3 DEF RequestCommits, CommitUpdate, CommitRemove, CommitStartUpload,
       CommitFinalize, CommitAbandon
<1>7. tx'[p] = Idle \/ tx'[p].m = tx[p].m
  BY <1>1, <1>2, <1>4 DEF TypeOK, Close, Step, Tx
<1> QED
  BY <1>1, <1>3, <1>5, <1>6, <1>7, StaysOut

\* A message that is sent is of the meeting of the transaction that sends it.
LEMMA SendsElsewhere ==
  ASSUME TypeOK, NEW m, NEW to \in Message, to.m # m, Send(to)
  PROVE  \A msg \in Message : msg.m = m => queue'[msg] = queue[msg]
  BY DEF Send, TypeOK

LEMMA RequestEndsOut ==
  ASSUME Inv, PipelineAssumption, NEW m \in Meeting, Unstarted(m), NEW p \in Api,
         Dispatch(p) \/ LoseDispatch(p) \/ RequestFails(p)
  PROVE  Unstarted(m)'
<1>1. p \in Slot /\ TypeOK /\ tx[p] # Idle
  BY NotIdle DEF Slot, Inv, Dispatch, LoseDispatch, RequestFails, ApiOp
<1>2. tx[p] \in Tx
  BY <1>1, Running
<1>3. Close(p) /\ UNCHANGED transcripts
  BY DEF Dispatch, LoseDispatch, RequestFails, tables
<1>4. tx'[p] = Idle /\ \A q \in Slot \ {p} : tx'[q] = tx[q]
  BY <1>1, <1>3 DEF TypeOK, Close
<1>5. \A msg \in Message : msg.m = m => queue'[msg] = queue[msg]
  <2>1. CASE Dispatch(p)
    <3>1. PICK to : to = [stage |-> DispatchedStage(tx[p]), m |-> tx[p].m, try |-> 0]
      OBVIOUS
    <3>2. to \in Message /\ to.m = tx[p].m
      BY <1>2, <3>1, PipelineAssumption
      DEF Message, Tx, DispatchedStage, Stage, PipelineAssumption
    <3>3. tx[p].m # m
      BY <1>1, <2>1 DEF Unstarted, Works, Dispatch
    <3>4. Send(to)
      BY <2>1, <3>1 DEF Dispatch
    <3> QED
      BY <1>1, <3>2, <3>3, <3>4, SendsElsewhere
  <2>2. CASE LoseDispatch(p) \/ RequestFails(p)
    BY <2>2 DEF LoseDispatch, RequestFails
  <2> QED
    BY <2>1, <2>2
<1> QED
  BY <1>1, <1>3, <1>4, <1>5, StaysOut

\* A task that is taken was sent.
LEMMA TakenOut ==
  ASSUME Inv, NEW m \in Meeting, Unstarted(m), NEW p \in Worker, TaskTaken(p)
  PROVE  Unstarted(m)'
<1>1. PICK n \in Meeting, try \in 0 .. MaxRetries :
        TakeTranscribe(p, n, try) \/ TakeAnalyse(p, n, try)
  BY DEF TaskTaken
<1>2. p \in Slot /\ TypeOK /\ UNCHANGED transcripts
  BY <1>1 DEF Slot, Inv, TakeTranscribe, TakeAnalyse, tables
<1>3. PICK stage \in Stage : Take(p, [stage |-> stage, m |-> n, try |-> try])
  BY <1>1 DEF TakeTranscribe, TakeAnalyse, Stage
<1>4. PICK of : of = [stage |-> stage, m |-> n, try |-> try]
  OBVIOUS
<1>5. of \in Message /\ of.m = n /\ queue[of] > 0 /\ queue' = [queue EXCEPT ![of] = @ - 1]
  BY <1>3, <1>4 DEF Message, Take
<1>6. n # m
  BY <1>5 DEF Unstarted
<1>7. \A msg \in Message : msg.m = m => queue'[msg] = queue[msg]
  BY <1>2, <1>5, <1>6 DEF TypeOK
<1>8. tx'[p].m = n /\ \A q \in Slot \ {p} : tx'[q] = tx[q]
  <2>1. CASE TakeTranscribe(p, n, try)
    BY <1>2, <2>1 DEF TypeOK, TakeTranscribe, Open
  <2>2. CASE TakeAnalyse(p, n, try)
    BY <1>2, <2>2 DEF TypeOK, TakeAnalyse, Open
  <2> QED
    BY <1>1, <2>1, <2>2
<1> QED
  BY <1>2, <1>6, <1>7, <1>8, StaysOut

\* A task that runs is of another meeting, and so is all it does.
LEMMA WorkElsewhere ==
  ASSUME Inv, PipelineAssumption, NEW m \in Meeting, Unstarted(m), NEW p \in Worker,
         TaskWorks(p) \/ TaskRaises(p) \/ WorkerLost(p)
  PROVE  Unstarted(m)'
<1>1. p \in Slot /\ TypeOK /\ tx[p].op \in Stage
  BY DEF Slot, Inv, TaskWorks, TaskRaises, WorkerLost, Transcribed, TranscriptionFailed,
         CommitTranscript, CommitTranscriptionFailure, DispatchAnalysis, Publish,
         CommitAnalysisFailure, InsertRefused, Acknowledge, At, Stage
<1>2. tx[p] # Idle /\ tx[p] \in Tx
  BY <1>1, NotIdle, Running DEF Stage
<1>3. tx[p].m # m /\ tx[p].m \in Meeting
  BY <1>1, <1>2 DEF Unstarted, Works, Tx
<1>4. m \in transcripts' => m \in transcripts
  BY <1>3 DEF TaskWorks, TaskRaises, WorkerLost, Transcribed, TranscriptionFailed,
         CommitTranscript, CommitTranscriptionFailure, DispatchAnalysis, Publish,
         CommitAnalysisFailure, InsertRefused, Acknowledge, tables
<1>5. \/ Close(p)
      \/ \E s \in {"ready", "committed", "sent"} : Step(p, s)
      \/ \E s \in Seconds : Transcribed(p, s)
  BY DEF TaskWorks, TaskRaises, WorkerLost, TranscriptionFailed,
         CommitTranscript, CommitTranscriptionFailure, DispatchAnalysis, Publish,
         CommitAnalysisFailure, InsertRefused, Acknowledge
<1>6. tx'[p] = Idle \/ tx'[p].m = tx[p].m
  <2>1. CASE Close(p)
    BY <1>1, <2>1 DEF TypeOK, Close
  <2>2. CASE \E s \in {"ready", "committed", "sent"} : Step(p, s)
    BY <1>1, <1>2, <2>2 DEF TypeOK, Step, Tx
  <2>3. CASE \E s \in Seconds : Transcribed(p, s)
    BY <1>1, <1>2, <2>3 DEF TypeOK, Transcribed, Tx
  <2> QED
    BY <1>5, <2>1, <2>2, <2>3
<1>7. \A q \in Slot \ {p} : tx'[q] = tx[q]
  BY <1>1, <1>5 DEF TypeOK, Close, Step, Transcribed
<1>8. \/ UNCHANGED queue
      \/ Send([stage |-> "analyse", m |-> tx[p].m, try |-> 0])
      \/ \E try \in 0 .. MaxRetries : Send([stage |-> tx[p].op, m |-> tx[p].m, try |-> try])
  <2>1. tx[p].try \in 0 .. MaxRetries /\ (tx[p].try < MaxRetries => tx[p].try + 1 \in 0 .. MaxRetries)
    BY <1>2, PipelineAssumption DEF Tx, PipelineAssumption
  <2>2. CASE TaskWorks(p) /\ ~ InsertRefused(p)
    BY <2>2 DEF TaskWorks, Transcribed, TranscriptionFailed, CommitTranscript,
         CommitTranscriptionFailure, DispatchAnalysis, Publish, CommitAnalysisFailure,
         Acknowledge
  <2>3. CASE InsertRefused(p) \/ TaskRaises(p) \/ WorkerLost(p)
    BY <2>1, <2>3 DEF InsertRefused, TaskRaises, WorkerLost, TaskMessage
  <2> QED
    BY <2>2, <2>3
<1>9. \A msg \in Message : msg.m = m => queue'[msg] = queue[msg]
  <2>1. CASE UNCHANGED queue
    BY <2>1
  <2>2. ASSUME NEW stage \in Stage, NEW try \in 0 .. MaxRetries,
               Send([stage |-> stage, m |-> tx[p].m, try |-> try])
        PROVE  \A msg \in Message : msg.m = m => queue'[msg] = queue[msg]
    <3>1. PICK to : to = [stage |-> stage, m |-> tx[p].m, try |-> try]
      OBVIOUS
    <3>2. to \in Message /\ to.m = tx[p].m /\ Send(to)
      BY <1>3, <2>2, <3>1 DEF Message
    <3> QED
      BY <1>1, <1>3, <3>2, SendsElsewhere
  <2>3. 0 \in 0 .. MaxRetries /\ "analyse" \in Stage
    BY PipelineAssumption DEF PipelineAssumption, Stage
  <2> QED
    BY <1>1, <1>8, <2>1, <2>2, <2>3
<1> QED
  BY <1>1, <1>3, <1>4, <1>6, <1>7, <1>9, StaysOut

LEMMA SweepOut ==
  ASSUME Inv, NEW m \in Meeting, Unstarted(m), NEW p \in Worker, SweepStep(p)
  PROVE  Unstarted(m)'
<1>1. p \in Slot /\ TypeOK
  BY DEF Slot, Inv
<1>2. UNCHANGED << transcripts, queue >> /\ \A q \in Slot \ {p} : tx'[q] = tx[q]
  BY <1>1 DEF TypeOK, SweepStep, BeginSweep, SweepAbort, SweepDelete, SweepDeleteRefused,
              CommitSweep, SweepFails, Begin, Close, Step, tables
<1> DEFINE Out == tx'[p] = Idle \/ ~ Works(p)'
<1>3. Out
  <2>1. ASSUME NEW n \in Meeting, BeginSweep(p, n) PROVE Out
    BY <1>1, <2>1 DEF TypeOK, BeginSweep, Begin, Open, Works, Stage
  <2>2. CASE SweepAbort(p)
    <3>1. tx[p] \in Tx
      BY <1>1, <2>2, NotIdle, Running DEF SweepAbort, At
    <3> QED
      BY <1>1, <2>2, <3>1 DEF SweepAbort, At, TypeOK, Tx, Works, Stage
  <2>3. CASE SweepDelete(p) \/ SweepDeleteRefused(p)
    <3>1. tx[p] \in Tx
      BY <1>1, <2>3, NotIdle, Running DEF SweepDelete, SweepDeleteRefused, At
    <3> QED
      BY <1>1, <2>3, <3>1
      DEF SweepDelete, SweepDeleteRefused, At, Step, TypeOK, Tx, Works, Stage
  <2>4. CASE CommitSweep(p) \/ SweepFails(p)
    BY <1>1, <2>4 DEF CommitSweep, SweepFails, Close, TypeOK
  <2> QED
    BY <2>1, <2>2, <2>3, <2>4 DEF SweepStep
<1> QED
  BY <1>1, <1>2, <1>3, StaysOut

LEMMA EarlyStaysUnstarted ==
  ASSUME Inv, PipelineAssumption, EarlyIsUnstarted, [Next]_vars,
         \A m \in Meeting : KeepsToTable(m)
  PROVE  EarlyIsUnstarted'
<1> SUFFICES ASSUME NEW m \in Meeting, row'[m].status \in Early
             PROVE  Unstarted(m)'
  BY DEF EarlyIsUnstarted
<1>1. row[m].status \in Early
  <2>1. KeepsToTable(m)
    OBVIOUS
  <2>2. CASE row'[m].status = row[m].status \/ row[m].status = "ABSENT"
    BY <2>2 DEF Early
  <2>3. CASE /\ row[m].status \in Committed /\ row'[m].status \in Committed
             /\ Reaches(row[m].status, row'[m].status)
    BY <2>3, NoWayBack
  <2>4. row'[m].status # "PUBLISHED"
    BY DEF Early
  <2> QED
    BY <2>1, <2>2, <2>3, <2>4 DEF KeepsToTable
<1>2. Unstarted(m)
  BY <1>1 DEF EarlyIsUnstarted
<1>3. ASSUME UNCHANGED << transcripts, queue, tx >>
      PROVE  Unstarted(m)'
  BY <1>2, <1>3 DEF Unstarted, Works
<1>4. ASSUME NEW n \in Meeting, NEW title \in {"blank", "typed"}, Declare(n, title)
      PROVE  Unstarted(m)'
  BY <1>3, <1>4 DEF Declare, tables
<1>5. ASSUME NEW n \in Meeting, DeadlinePasses(n)
      PROVE  Unstarted(m)'
  BY <1>3, <1>5 DEF DeadlinePasses, tables
<1>6. ASSUME NEW p \in Api, RequestStep(p)
      PROVE  Unstarted(m)'
  BY <1>2, <1>6, RequestBeginsOut, RequestCallsOut, RequestCommitsOut, RequestEndsOut
  DEF RequestStep
<1>7. ASSUME NEW p \in Worker, WorkerStep(p)
      PROVE  Unstarted(m)'
  BY <1>2, <1>7, TakenOut, WorkElsewhere, SweepOut DEF WorkerStep
<1>8. CASE UNCHANGED vars
  BY <1>3, <1>8 DEF vars
<1> QED
  BY <1>4, <1>5, <1>6, <1>7, <1>8 DEF Next

\* Nothing works on a meeting held for quota, however its transactions
\* overlap, unless one of them loses an update.
THEOREM Holding == Spec /\ NoLostUpdate => []HeldIsNotProcessed
<1>1. Init => EarlyIsUnstarted
  BY DEF Init, EarlyIsUnstarted, Unstarted, Message
<1>2. Inv /\ EarlyIsUnstarted /\ [Next]_vars /\ [\A p \in Slot : ~ LostUpdate(p)]_vars
        => EarlyIsUnstarted'
  BY KeepsAll, EarlyStaysUnstarted, PipelineAssumption
<1>3. EarlyIsUnstarted => HeldIsNotProcessed
  <2> SUFFICES ASSUME EarlyIsUnstarted, NEW m \in Meeting, row[m].status = "QUOTA_HOLD"
               PROVE  /\ m \notin transcripts
                      /\ \A msg \in Message : msg.m = m => queue[msg] = 0
                      /\ \A q \in Slot : tx[q].op \in Stage => tx[q].m # m
    BY DEF HeldIsNotProcessed
  <2>1. Unstarted(m)
    BY DEF EarlyIsUnstarted, Early
  <2>2. ASSUME NEW q \in Slot, tx[q].op \in Stage PROVE tx[q].m # m
    <3>1. tx[q] # Idle
      BY <2>2, NotIdle DEF Stage
    <3> QED
      BY <2>1, <2>2, <3>1 DEF Unstarted, Works
  <2> QED
    BY <2>1, <2>2 DEF Unstarted
<1> QED
  BY <1>1, <1>2, <1>3, InvHolds, PTL DEF Spec, NoLostUpdate

-----------------------------------------------------------------------------
(* The refinement: a step along the table is a step of the life cycle.     *)

LEMMA SameTable ==
  /\ Lifecycle!Committed = Committed
  /\ \A s, t : Lifecycle!Reaches(s, t) = Reaches(s, t)
<1>1. Lifecycle!Status = Status /\ Lifecycle!Transient = Transient
  BY DEF Lifecycle!Status, Status, Lifecycle!Transient, Transient
<1>2. Lifecycle!TRANSITIONS = TRANSITIONS
  BY <1>1 DEF Lifecycle!TRANSITIONS, TRANSITIONS
<1>3. \A s : Lifecycle!AllowedFrom(s) = AllowedFrom(s)
  BY <1>2 DEF Lifecycle!AllowedFrom, AllowedFrom
<1>4. Lifecycle!Committed = Committed
  BY <1>1 DEF Lifecycle!Committed, Committed
<1>5. \A s, t : Lifecycle!Reaches(s, t) = Reaches(s, t)
  BY <1>1, <1>3 DEF Lifecycle!Reaches, Reaches
<1> QED
  BY <1>4, <1>5

\* The states and the charges the life cycle sees, after a step that moves
\* one meeting.
LEMMA Seen ==
  ASSUME TypeOK, TypeOK', NEW m \in Meeting, \A n \in Meeting \ {m} : Still(n)
  PROVE  /\ [n \in Meeting |-> row'[n].status]
              = [[n \in Meeting |-> row[n].status] EXCEPT ![m] = row'[m].status]
         /\ entries' = [entries EXCEPT ![m] = entries'[m]]
<1>1. entries \in [Meeting -> Nat] /\ entries' \in [Meeting -> Nat]
  BY DEF TypeOK
<1>2. entries' = [entries EXCEPT ![m] = entries'[m]]
  BY <1>1 DEF Still
<1>3. [n \in Meeting |-> row'[n].status]
        = [[n \in Meeting |-> row[n].status] EXCEPT ![m] = row'[m].status]
  BY DEF Still
<1> QED
  BY <1>2, <1>3

LEMMA TableIsNext ==
  ASSUME TypeOK, TypeOK', OneMoves, \A m \in Meeting : KeepsToTable(m)
  PROVE  [Lifecycle!Next]_(Lifecycle!vars)
<1>1. entries \in [Meeting -> Nat] /\ entries' \in [Meeting -> Nat]
  BY DEF TypeOK
<1>2. CASE \A m \in Meeting : Still(m)
  <2>1. [n \in Meeting |-> row'[n].status] = [n \in Meeting |-> row[n].status]
    BY <1>2 DEF Still
  <2>2. entries' = entries
    BY <1>1, <1>2 DEF Still
  <2> QED
    BY <2>1, <2>2 DEF Lifecycle!vars
<1>3. ASSUME NEW m \in Meeting, \A n \in Meeting \ {m} : Still(n), ~ Still(m)
      PROVE  Lifecycle!Next
  <2>1. /\ [n \in Meeting |-> row'[n].status]
             = [[n \in Meeting |-> row[n].status] EXCEPT ![m] = row'[m].status]
        /\ entries' = [entries EXCEPT ![m] = entries'[m]]
    BY <1>3, Seen
  <2>2. PICK s : s = row'[m].status
    OBVIOUS
  <2>3. KeepsToTable(m)
    OBVIOUS
  <2>4. entries'[m] = entries[m] => entries' = entries
    BY <1>1, <2>1
  <2>5. CASE row[m].status = "ABSENT" /\ s = "CREATED" /\ entries'[m] = entries[m]
    <3>1. Lifecycle!Declared(m)
      BY <2>1, <2>2, <2>4, <2>5 DEF Lifecycle!Declared
    <3> QED
      BY <3>1 DEF Lifecycle!Next
  <2>6. CASE /\ row[m].status \in Committed /\ Reaches(row[m].status, s)
             /\ s \in Committed \ {"PUBLISHED"} /\ entries'[m] = entries[m]
    <3>1. /\ row[m].status \in Lifecycle!Committed /\ s \in Lifecycle!Committed
          /\ Lifecycle!Reaches(row[m].status, s) /\ s # "PUBLISHED"
      BY <2>6, SameTable
    <3>2. Lifecycle!Moved(m, s)
      BY <2>1, <2>2, <2>4, <2>6, <3>1 DEF Lifecycle!Moved
    <3> QED
      BY <3>1, <3>2 DEF Lifecycle!Next
  <2>7. CASE row[m].status = "ANALYZING" /\ s = "PUBLISHED" /\ entries'[m] = entries[m] + 1
    <3>1. entries' = [entries EXCEPT ![m] = entries[m] + 1]
      BY <2>1, <2>7
    <3>2. Lifecycle!Published(m)
      BY <2>1, <2>2, <2>7, <3>1 DEF Lifecycle!Published
    <3> QED
      BY <3>2 DEF Lifecycle!Next
  <2> QED
    BY <1>3, <2>2, <2>3, <2>5, <2>6, <2>7 DEF KeepsToTable, Still
<1> QED
  BY <1>2, <1>3 DEF OneMoves

\* The pipeline implements the life cycle, with every overlap of requests,
\* tasks and sweeps, every crash, redelivery and refusal, as long as no commit
\* loses an update: each step is a move along the table TRANSITIONS, charged
\* if and only if it publishes, or changes neither a state nor the ledger.
THEOREM Refinement == Spec /\ NoLostUpdate => RefinesLifecycle
<1>1. Init => Lifecycle!Init
  BY DEF Init, NoRow, Lifecycle!Init
<1>2. Inv /\ [Next]_vars /\ [\A p \in Slot : ~ LostUpdate(p)]_vars
        => [Lifecycle!Next]_(Lifecycle!vars)
  <2> SUFFICES ASSUME Inv, [Next]_vars, [\A p \in Slot : ~ LostUpdate(p)]_vars
               PROVE  [Lifecycle!Next]_(Lifecycle!vars)
    OBVIOUS
  <2>1. TypeOK /\ TypeOK'
    BY StepTypeOK, PipelineAssumption DEF Inv
  <2>2. OneMoves /\ \A m \in Meeting : KeepsToTable(m)
    BY NextLawful, KeepsAll, PipelineAssumption
  <2> QED
    BY <2>1, <2>2, TableIsNext
<1> QED
  BY <1>1, <1>2, InvHolds, PTL DEF Spec, NoLostUpdate, RefinesLifecycle, Lifecycle!Spec
=============================================================================
