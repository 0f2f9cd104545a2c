----------------------------- MODULE Processing ------------------------------
(***************************************************************************)
(* What one worker does with one meeting between QUEUED and PUBLISHED:     *)
(* the chain of transcription suppliers with its circuit breakers          *)
(* (TranscriptionRouter), the merging of fragments, and the three attempts *)
(* at a report whose items must point at the transcript (extract_report).  *)
(* MeetingPipeline has the same tasks seen from the tables; here they are  *)
(* opened up.                                                              *)
(*                                                                         *)
(* A moment is half a second.                                              *)
(***************************************************************************)
EXTENDS Integers, Sequences, SequencesExt, Deadlines

CONSTANTS
  Order,          \* the configured suppliers that have a key, in order
  Speaker,
  Horizon,        \* moments of a recording
  MaxUtterances,  \* what a supplier tells apart in it
  Threshold,      \* failures that open a breaker
  MaxRetries,     \* of a task that raises
  MaxAttempts     \* at a report

MinSegment == 2   \* _MIN_SEGMENT_MS
Tolerance == 2    \* tolerance_ms

ASSUME ProcessingConstants ==
  /\ Order \in Seq(STRING) /\ Horizon \in Nat /\ MaxUtterances \in Nat
  /\ {Threshold, MaxAttempts} \subseteq Nat \ {0} /\ MaxRetries \in Nat

VARIABLES
  task,        \* the stage, how many times it was tried again, what the last try raised,
               \* and whether a transcript is stored, by another than the first supplier
  chain,       \* the router of this try: who is asked next, the breakers, the answers
  heard,       \* the utterances of the supplier that answered
  transcript,  \* the segments in the tables
  attempt,     \* attempts at a report in this try
  report       \* the moments the published report points at

vars == << task, chain, heard, transcript, attempt, report >>

Moment == 0 .. Horizon

Utterance == {u \in [tag : Speaker, start : Moment, end : Moment] : u.start < u.end}

\* A supplier's utterances come in the order they begin, and nobody speaks over
\* himself.
Diarised(s) ==
  \A i, j \in DOMAIN s : i < j =>
    /\ s[i].start <= s[j].start
    /\ s[i].tag = s[j].tag => s[i].end <= s[j].start

Result == {s \in SeqOf(Utterance, MaxUtterances) : Diarised(s)}

At(step) == task.step = step

\* Who could still be asked, and what came of those who were.
NewRouter == [next |-> 1, failures |-> [i \in DOMAIN Order |-> 0],
              asked |-> [i \in DOMAIN Order |-> "no"]]

Init ==
  /\ task = [step |-> "queued", tries |-> 0, raised |-> "nothing",
             stored |-> FALSE, fallback |-> FALSE]
  /\ chain = NewRouter
  /\ heard = << >> /\ transcript = << >>
  /\ attempt = 0 /\ report = {}

-----------------------------------------------------------------------------
(* Transcription. *)

\* work builds a router for each meeting and each try, so its breakers are new.
TakeTranscribe ==
  /\ At("queued")
  /\ chain' = NewRouter
  /\ task' = [task EXCEPT !.step = "transcribe", !.raised = "nothing"]
  /\ UNCHANGED << heard, transcript, attempt, report >>

\* verify_audio: unreachable or altered audio fails the meeting at once.
AudioRefused ==
  /\ At("transcribe") /\ chain = NewRouter
  /\ task' = [task EXCEPT !.step = "failed"]
  /\ UNCHANGED << chain, heard, transcript, attempt, report >>

Asking == At("transcribe") /\ chain.next \in DOMAIN Order

\* The two minutes after which an open breaker half-opens never pass within the
\* one call a router lives for.
IsOpen == chain.failures[chain.next] >= Threshold

\* The supplier is failing, out of reach or past its time budget, and its
\* breaker counts it; or its breaker is open and it is not asked.
NoAnswer ==
  /\ Asking
  /\ chain' = IF IsOpen
              THEN [chain EXCEPT !.next = @ + 1, !.asked[chain.next] = "open"]
              ELSE [chain EXCEPT !.next = @ + 1, !.failures[chain.next] = @ + 1,
                                 !.asked[chain.next] = "failed"]
  /\ UNCHANGED << task, heard, transcript, attempt, report >>

\* A task that raised is tried again until its retries are used up, and leaves
\* the meeting in the state it found.
Raises(from, what) ==
  task' = IF task.tries < MaxRetries
          THEN [task EXCEPT !.step = from, !.tries = @ + 1, !.raised = what]
          ELSE [task EXCEPT !.step = "stranded", !.raised = what]

\* HTTP 4xx: "another supplier would reject it identically".
SupplierRefuses ==
  /\ Asking /\ ~ IsOpen
  /\ chain' = [chain EXCEPT !.asked[chain.next] = "refused"]
  /\ Raises("queued", "TranscriptionError")
  /\ UNCHANGED << heard, transcript, attempt, report >>

\* AllProvidersFailedError; a router is not built for nobody.
NobodyLeft ==
  /\ At("transcribe") /\ Order # << >> /\ chain.next \notin DOMAIN Order
  /\ Raises("queued", "AllProvidersFailedError")
  /\ UNCHANGED << chain, heard, transcript, attempt, report >>

\* Anything else raises and is tried again: no key for any supplier, no address
\* for the audio, an error of the supplier that is not a TranscriptionError, or
\* of the worker itself.
TranscriptionRaises ==
  /\ At("transcribe")
  /\ Raises("queued", "other")
  /\ UNCHANGED << chain, heard, transcript, attempt, report >>

\* Mutant of Merged: whoever spoke.
MergedAcross(u, so_far) ==
  IF so_far # << >> /\ u.end - u.start < MinSegment
  THEN [so_far EXCEPT ![Len(so_far)].end = u.end]
  ELSE Append(so_far, u)

\* One turn of merge_micro_segments: a fragment goes into what its speaker
\* said just before, however long before.
Merged(u, so_far) ==
  IF so_far # << >> /\ u.end - u.start < MinSegment /\ Last(so_far).tag = u.tag
  THEN [so_far EXCEPT ![Len(so_far)].end = u.end]
  ELSE Append(so_far, u)

MergeMicroSegments(s) == FoldLeft(LAMBDA so_far, u : Merged(u, so_far), << >>, s)

Answering ==
  /\ Asking /\ ~ IsOpen
  /\ chain' = [chain EXCEPT !.failures[chain.next] = 0, !.asked[chain.next] = "answered"]
  /\ UNCHANGED << attempt, report >>

\* A flush or the commit fails, and with it goes what the supplier heard.
AnswerLost ==
  /\ Answering
  /\ Raises("queued", "other")
  /\ UNCHANGED << heard, transcript >>

\* The supplier answers and the transcript is committed.
SupplierAnswers(s) ==
  /\ Answering
  /\ heard' = s
  /\ transcript' = MergeMicroSegments(s)
  /\ task' = [task EXCEPT !.step = "dispatch", !.stored = TRUE, !.fallback = chain.next > 1]

\* The analysis is sent after the commit.  When that raises, the retry finds the
\* meeting ANALYZING, asks nobody and sends it again.
Dispatch ==
  /\ At("dispatch")
  /\ \/ task' = [task EXCEPT !.step = "analysing", !.tries = 0, !.raised = "nothing"]
     \/ Raises("dispatch", "other")
  /\ UNCHANGED << chain, heard, transcript, attempt, report >>

-----------------------------------------------------------------------------
(* Analysis. *)

TakeAnalyse ==
  /\ At("analysing")
  /\ task' = [task EXCEPT !.step = IF transcript = << >> THEN "failed" ELSE "analyse"]
  /\ attempt' = 0
  /\ UNCHANGED << chain, heard, transcript, report >>

\* check_sources: a moment is in a window, give or take a second.
Sourced(moment) ==
  \E i \in DOMAIN transcript :
    /\ transcript[i].start - Tolerance <= moment
    /\ moment <= transcript[i].end + Tolerance

Trying == At("analyse") /\ attempt < MaxAttempts

\* The answer does not fit the schema, or the model is out of reach.
ModelFails ==
  /\ Trying
  /\ attempt' = attempt + 1
  /\ UNCHANGED << task, chain, heard, transcript, report >>

\* The answer fits the schema and points somewhere that is not in the windows.
Unsourced(sources) ==
  /\ Trying /\ \E moment \in sources : ~ Sourced(moment)
  /\ attempt' = attempt + 1
  /\ UNCHANGED << task, chain, heard, transcript, report >>

Published(sources) ==
  /\ Trying /\ \A moment \in sources : Sourced(moment)
  /\ report' = sources
  /\ task' = [task EXCEPT !.step = "published"]
  /\ UNCHANGED << chain, heard, transcript, attempt >>

\* LLM_REFUSED, and INVALID_MODEL_OUTPUT once the attempts are used up.
ModelRefuses ==
  /\ Trying
  /\ task' = [task EXCEPT !.step = "failed"]
  /\ UNCHANGED << chain, heard, transcript, attempt, report >>

NoValidReport ==
  /\ At("analyse") /\ attempt = MaxAttempts
  /\ task' = [task EXCEPT !.step = "failed"]
  /\ UNCHANGED << chain, heard, transcript, attempt, report >>

\* Anything else raises: no key for the model, the database, the worker.
AnalysisRaises ==
  /\ At("analyse")
  /\ Raises("analysing", "other")
  /\ UNCHANGED << chain, heard, transcript, attempt, report >>

\* Mutant of Retry: every retry goes to QUEUED, as it once did.
RetryFromTheTop ==
  /\ At("failed")
  /\ task' = [task EXCEPT !.step = "queued", !.tries = 0, !.raised = "nothing"]
  /\ UNCHANGED << chain, heard, transcript, attempt, report >>

\* retry: from what is there, be it a transcript of nothing.
Retry ==
  /\ At("failed")
  /\ task' = [task EXCEPT !.step = IF task.stored THEN "analysing" ELSE "queued",
                          !.tries = 0, !.raised = "nothing"]
  /\ UNCHANGED << chain, heard, transcript, attempt, report >>

Pointing == {{}} \cup {{a, b} : a, b \in Moment}

Next ==
  \/ TakeTranscribe \/ AudioRefused \/ NoAnswer \/ SupplierRefuses
  \/ NobodyLeft \/ TranscriptionRaises \/ AnswerLost
  \/ (\E s \in Result : SupplierAnswers(s)) \/ Dispatch
  \/ TakeAnalyse \/ ModelFails \/ ModelRefuses \/ NoValidReport \/ AnalysisRaises
  \/ (\E sources \in Pointing : Unsourced(sources) \/ Published(sources))
  \/ Retry

Spec == Init /\ [][Next]_vars
-----------------------------------------------------------------------------
Passed(i) == chain.asked[i] \in {"failed", "open"}

\* In one try a supplier is asked only when all those before it failed or had
\* their breakers open, so never after one answered or refused ("stop rather
\* than pay twice"); AllProvidersFailedError says so of every one of them; and
\* once a transcript is stored no try, of a task or of a customer, asks anybody
\* again, whatever raised since, and the mark of a fallback it was stored with
\* is true (TranscriptionRouter.transcribe, retry, EF-45).
AskedInTurn ==
  /\ \A i, j \in DOMAIN Order : i < j /\ chain.asked[j] # "no" => Passed(i)
  /\ task.raised = "AllProvidersFailedError" => \A i \in DOMAIN Order : Passed(i)
  /\ task.stored =>
       /\ task.step \notin {"queued", "transcribe"}
       /\ \E i \in DOMAIN Order : chain.asked[i] = "answered" /\ (task.fallback <=> i > 1)

\* From its first utterance to its last one a speaker was not interrupted.
OneTurn(i, j) ==
  i <= j /\ \A k \in i .. j : heard[k].tag = heard[i].tag

\* An item of a published report points, give or take a second, into the turn
\* of somebody the supplier heard; and whatever was heard is within a segment
\* of who said it, so an item that points at it is never refused as invented
\* (EF-43, merge_micro_segments and check_sources).
CitesWhatWasHeard ==
  /\ At("published") =>
       \A moment \in report : \E i, j \in DOMAIN heard :
         /\ OneTurn(i, j)
         /\ heard[i].start - Tolerance <= moment /\ moment <= heard[j].end + Tolerance
  /\ \A i \in DOMAIN heard : \E n \in DOMAIN transcript :
       /\ transcript[n].tag = heard[i].tag
       /\ transcript[n].start <= heard[i].start /\ heard[i].end <= transcript[n].end

\* The dates a published report may carry, whatever was said and on whatever
\* day, are never behind the meeting and never a later one than the first that
\* fits the words ("a wrong date on a task is worse than no date",
\* normalise_deadline).  The state does not carry them: they depend on nothing
\* in it.
DeadlineIsComing == At("published") => DatesAreComing
=============================================================================
