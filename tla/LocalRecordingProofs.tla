------------------------ MODULE LocalRecordingProofs ------------------------
(***************************************************************************)
(* Theorems about LocalRecording for every number of recordings, length of *)
(* a segment, limit and depth of the queue, and however many commands,     *)
(* failures and crashes: what the manifest names is whole, what is billed  *)
(* is kept, what is paused is not, and a brutal stop costs one segment.    *)
(*                                                                         *)
(* The inductive invariant says of every recording by itself what its      *)
(* thread, encoder and files hold (Local), and of all of them together who *)
(* holds the one in progress (Held).  A step changes one recording; each   *)
(* action has a lemma that says what it does (XDoes) and one that says it  *)
(* keeps Local (XLocal).  FlattenSeq is recursive over the segments: what  *)
(* is needed of it is proved by taking a least counterexample.             *)
(***************************************************************************)
EXTENDS LocalRecording, SequenceTheorems, WellFoundedInduction, TLAPS

-----------------------------------------------------------------------------
(* The inductive invariant: types, who holds a recording in progress, and   *)
(* for every recording by itself what its thread, encoder and files hold.   *)

Manifest == [state : {"absent", "recording", "uploading"}, segments : Seq(Seq(Chunk)), paused : Nat]
Message  == [op : Command, awaited : BOOLEAN]
Device   == [queue : Seq(Chunk), live : BOOLEAN, open : BOOLEAN]
Session  == [state : AppState, recorded : Nat, discarded : Nat, warned : BOOLEAN]
Writer   == [pending : Seq(Chunk), current : Seq(Chunk), closed : Nat, named : Nat]
Thread   == [step : Step, phase : Phase, polled : Nat, failed : BOOLEAN, ok : BOOLEAN]
Past     == [kept : Seq(Chunk), failures : Nat, resumed : Nat]
Holder   == [engine : Recording \cup {None}, asking : Command \cup {"none"},
             joining : SUBSET Recording, completed : Recording \cup {None}, fault : BOOLEAN]
Allowance == [{"asked", "timeouts", "failures", "crashes"} -> Nat]

Types ==
  /\ disk \in [Recording -> Manifest]
  /\ files \in [Recording -> [Index -> Seq(Chunk)]]
  /\ recorder \in Holder
  /\ mailbox \in [Recording -> Seq(Message)]
  /\ device \in [Recording -> Device]
  /\ session \in [Recording -> Session]
  /\ writer \in [Recording -> Writer]
  /\ thread \in [Recording -> Thread]
  /\ past \in [Recording -> Past]
  /\ heard \in 0 .. MaxHeard
  /\ left \in Allowance

\* A request somebody waits for is the last one of the engine the recorder
\* holds; a thread that is over has left no request behind.
Mail ==
  \A r \in Recording :
    /\ ~ Running(r) => mailbox[r] = << >>
    /\ \A i \in DOMAIN mailbox[r] :
         mailbox[r][i].awaited =>
           recorder.engine = r /\ recorder.asking # "none" /\ i = Len(mailbox[r])

Held == RunningIsHeld /\ Mail

Writing(r) == thread[r].step \in {"write", "put", "save"}

\* What is in memory at each step of the thread.
Shape(r) ==
  /\ thread[r].step # "poll"
  /\ thread[r].step \in {"off", "top", "drain"} => thread[r].phase = "loop"
  /\ thread[r].step = "write" => thread[r].phase # "finish"
  /\ thread[r].step \in {"flush", "note", "state", "ended"} => thread[r].phase = "finish"
  /\ thread[r].step \in {"put", "save"} => writer[r].current # << >>
  /\ ~ Running(r) => writer[r].pending = << >> /\ writer[r].current = << >> /\ writer[r].closed = 0
  /\ thread[r].step = "off" => session[r].recorded = 0
  /\ thread[r].step = "off" \/ thread[r].phase # "loop" => device[r].queue = << >> /\ ~ device[r].live
  /\ Writing(r) /\ thread[r].phase # "finish" => session[r].state = "recording"
  /\ disk[r].state = "absent" =>
       thread[r].step = "off" /\ disk[r].segments = << >> /\ past[r].kept = << >>

\* How far the budget may be spent at each step.
Spent(r) ==
  /\ Len(device[r].queue) <= Depth
  /\ thread[r].step = "top" => session[r].recorded < Limit
  /\ Writing(r) /\ thread[r].phase = "loop" =>
       session[r].recorded < Limit /\ thread[r].polled <= Depth
  /\ thread[r].step = "drain" => session[r].recorded < Limit + Depth
  /\ Writing(r) /\ thread[r].phase = "tail" =>
       session[r].recorded < Limit + Depth /\ thread[r].polled <= Depth
  /\ session[r].recorded < Limit + 2 * Depth

Fits(a, c, b, q, n) == Len(a) + Len(c) + Len(b) + Len(q) <= n

\* The files are those the manifest names; a file is written only past them,
\* and there is always one more, since no more is kept than was heard.
Durable(r) ==
  /\ \A i \in DOMAIN disk[r].segments : files[r][i] = disk[r].segments[i]
  /\ Running(r) => writer[r].closed = Len(disk[r].segments)
  /\ thread[r].step = "save" => files[r][writer[r].closed + 1] = writer[r].current
  /\ Fits(disk[r].segments, writer[r].current, writer[r].pending, device[r].queue, heard)

Rising(s)    == \A i, j \in DOMAIN s : i < j => s[i].at < s[j].at
Before(s, t) == \A i \in DOMAIN s, j \in DOMAIN t : s[i].at < t[j].at
UpTo(s, n)   == \A i \in DOMAIN s : s[i].at <= n

\* Disk, open segment, what is handed over and what is queued hold the audio
\* in the order it was heard.
InLine(a, c, b, q, n) ==
  /\ Rising(a) /\ Rising(c) /\ Rising(b) /\ Rising(q)
  /\ Before(a, c) /\ Before(a, b) /\ Before(a, q)
  /\ Before(c, b) /\ Before(c, q) /\ Before(b, q)
  /\ UpTo(a, n) /\ UpTo(c, n) /\ UpTo(b, n) /\ UpTo(q, n)

Ordered(r) ==
  InLine(Audio(r), writer[r].current, writer[r].pending, device[r].queue, heard)

\* As long as no write failed: what was kept is on the disk and in the open
\* segment, and the session has billed it or is about to.
Faithful(r) ==
  Clean(r) =>
    /\ ~ Running(r) => /\ IsPrefix(Audio(r), past[r].kept)
                       /\ Len(past[r].kept) <= Len(Audio(r)) + SegmentChunks
    /\ Running(r) => /\ past[r].kept = Audio(r) \o writer[r].current
                     /\ Len(writer[r].current) <= SegmentChunks
    /\ Running(r) /\ ~ (Writing(r) /\ thread[r].phase # "finish") =>
         writer[r].pending = << >> /\ session[r].recorded = Len(past[r].kept)
    /\ Writing(r) /\ thread[r].phase # "finish" =>
         session[r].recorded + thread[r].polled = Len(past[r].kept) + Len(writer[r].pending)
    /\ thread[r].step \in {"note", "state"} => writer[r].current = << >>
    /\ thread[r].step \in {"state", "ended"} => disk[r].paused = session[r].discarded
    /\ thread[r].step = "ended" =>
         /\ disk[r].state = "uploading" /\ past[r].kept = Audio(r)
         /\ session[r].recorded = Len(past[r].kept)

\* The pauses in which audio was heard that may still be kept.
Discreet(r) ==
  /\ \A i \in DOMAIN past[r].kept : past[r].kept[i].pause <= past[r].resumed
  /\ \A i \in DOMAIN writer[r].pending : writer[r].pending[i].pause <= past[r].resumed
  /\ \A i \in DOMAIN device[r].queue :
       device[r].queue[i].pause <=
         IF session[r].state = "recording" THEN past[r].resumed ELSE past[r].resumed + 1

Local(r) == Shape(r) /\ Spent(r) /\ Durable(r) /\ Ordered(r) /\ Faithful(r) /\ Discreet(r)

RecordingInv == Types /\ Held /\ \A r \in Recording : Local(r)

-----------------------------------------------------------------------------
(* FlattenSeq, and cutting a sequence in two.                              *)

\* A set of numbers with an element has a least one: what stands in for
\* induction over sequences below.
LEMMA LeastOf ==
  ASSUME NEW X \in SUBSET Nat, X # {}
  PROVE  \E n \in X : \A m \in X : m >= n
<1>1. PICK n \in X : \A m \in X : <<m, n>> \notin OpToRel(<, Nat)
  BY NatLessThanWellFounded, WFMin
<1>2. \A m \in X : ~ (m < n)
  BY <1>1 DEF OpToRel
<1> QED
  BY <1>2

\* f is what the first, the first two... of ss come to.
Unfolds(f, ss) ==
  f = [i \in 1 .. Len(ss) |-> IF i = 1 THEN ss[i] ELSE f[i-1] \o ss[i]]

\* FlattenSeq, at its last element.
LEMMA FlattenDef ==
  ASSUME NEW ss, Len(ss) # 0
  PROVE  FlattenSeq(ss) = (CHOOSE f : Unfolds(f, ss))[Len(ss)]
  BY DEF FlattenSeq, Unfolds

\* No two functions unfold a sequence: take the least place they differ.
LEMMA OneUnfolding ==
  ASSUME NEW S, NEW ss \in Seq(Seq(S)), NEW f, NEW g, Unfolds(f, ss), Unfolds(g, ss)
  PROVE  f = g
<1> DEFINE N == Len(ss)
           X == {i \in 1 .. N : f[i] # g[i]}
<1>1. N \in Nat
  BY LenProperties
<1> HIDE DEF N
<1>2. f = [i \in 1 .. N |-> IF i = 1 THEN ss[i] ELSE f[i-1] \o ss[i]]
  BY DEF Unfolds, N
<1>3. g = [i \in 1 .. N |-> IF i = 1 THEN ss[i] ELSE g[i-1] \o ss[i]]
  BY DEF Unfolds, N
<1>4. X = {}
  <2> SUFFICES ASSUME X # {} PROVE FALSE
    OBVIOUS
  <2>1. X \in SUBSET Nat
    BY <1>1
  <2>2. PICK n \in X : \A m \in X : m >= n
    BY <2>1, LeastOf
  <2>3. n \in 1 .. N /\ f[n] # g[n]
    BY <2>2
  <2>4. n # 1
    BY <2>3, <1>2, <1>3
  <2>5. n - 1 \in 1 .. N /\ n - 1 \notin X
    BY <1>1, <2>2, <2>3, <2>4
  <2>6. f[n - 1] = g[n - 1]
    BY <2>5, Zenon
  <2>7. f[n] = f[n - 1] \o ss[n] /\ g[n] = g[n - 1] \o ss[n]
    BY <1>2, <1>3, <2>3, <2>4, Zenon
  <2> QED
    BY <2>3, <2>6, <2>7
<1>5. \A i \in 1 .. N : f[i] = g[i]
  BY <1>4
<1> QED
  BY <1>2, <1>3, <1>5

\* A sequence one longer unfolds too.
LEMMA OneMore ==
  ASSUME NEW S, NEW ss \in Seq(Seq(S)), NEW e \in Seq(S), NEW f, Unfolds(f, ss)
  PROVE  Unfolds([i \in 1 .. Len(ss) + 1 |-> IF i <= Len(ss) THEN f[i]
                                             ELSE IF i = 1 THEN e ELSE f[i-1] \o e],
                 Append(ss, e))
<1> DEFINE N == Len(ss)
           tt == Append(ss, e)
           g == [i \in 1 .. N + 1 |-> IF i <= N THEN f[i]
                                      ELSE IF i = 1 THEN e ELSE f[i-1] \o e]
<1>1. N \in Nat /\ Len(tt) = N + 1 /\ (\A i \in 1 .. N : tt[i] = ss[i]) /\ tt[N + 1] = e
  BY AppendProperties, LenProperties
<1>2. f = [i \in 1 .. N |-> IF i = 1 THEN ss[i] ELSE f[i-1] \o ss[i]]
  BY DEF Unfolds
<1> HIDE DEF N, tt
<1>3. ASSUME NEW i \in 1 .. N + 1
      PROVE  g[i] = IF i = 1 THEN tt[i] ELSE g[i-1] \o tt[i]
  <2>1. CASE i <= N
    <3>1. i \in 1 .. N /\ g[i] = f[i]
      BY <1>1, <2>1
    <3>2. i # 1 => g[i-1] = f[i-1]
      BY <1>1, <2>1
    <3>3. f[i] = IF i = 1 THEN ss[i] ELSE f[i-1] \o ss[i]
      BY <1>2, <3>1
    <3> QED
      BY <1>1, <3>1, <3>2, <3>3
  <2>2. CASE i = N + 1
    <3>1. g[i] = IF i = 1 THEN e ELSE f[i-1] \o e
      BY <1>1, <2>2
    <3>2. i # 1 => g[i-1] = f[i-1]
      BY <1>1, <2>2
    <3> QED
      BY <1>1, <2>2, <3>1, <3>2
  <2> QED
    BY <1>1, <2>1, <2>2
<1>4. g = [i \in 1 .. Len(tt) |-> IF i = 1 THEN tt[i] ELSE g[i-1] \o tt[i]]
  BY <1>1, <1>3
<1> QED
  BY <1>4 DEF Unfolds, N, tt

\* Every sequence unfolds: take a shortest one that does not.
LEMMA SomeUnfolding ==
  ASSUME NEW S, NEW ss \in Seq(Seq(S))
  PROVE  \E f : Unfolds(f, ss)
<1> DEFINE X == {n \in Nat : \E tt \in Seq(Seq(S)) : Len(tt) = n /\ ~ \E f : Unfolds(f, tt)}
<1>1. X = {}
  <2> SUFFICES ASSUME X # {} PROVE FALSE
    OBVIOUS
  <2>1. PICK n \in X : \A m \in X : m >= n
    BY LeastOf
  <2>2. PICK tt \in Seq(Seq(S)) : Len(tt) = n /\ ~ \E f : Unfolds(f, tt)
    BY <2>1
  <2>3. CASE tt = << >>
    <3>1. Unfolds([i \in 1 .. Len(tt) |-> << >>], tt)
      BY <2>3, EmptySeq DEF Unfolds
    <3> QED
      BY <3>1, <2>2
  <2>4. CASE tt # << >>
    <3>1. PICK uu \in Seq(Seq(S)), e \in Seq(S) : tt = Append(uu, e)
      BY <2>4, SequenceEmptyOrAppend
    <3>2. Len(uu) \in Nat
      BY LenProperties
    <3>5. Len(Append(uu, e)) = Len(uu) + 1
      BY AppendProperties
    <3>6. n = Len(uu) + 1
      BY <3>1, <3>5, <2>2
    <3>3. Len(uu) \notin X
      <4> HIDE DEF X
      <4> QED
        BY <3>2, <3>6, <2>1
    <3>4. \E f : Unfolds(f, uu)
      BY <3>3, <3>2
    <3> QED
      BY <3>4, <3>1, <2>2, OneMore
  <2> QED
    BY <2>3, <2>4
<1> QED
  BY <1>1, LenProperties

\* No segment, no audio.
LEMMA FlattenNone == FlattenSeq(<< >>) = << >>
  BY DEF FlattenSeq

\* One more segment is its audio at the end: why naming a segment is saving it.
LEMMA FlattenAppend ==
  ASSUME NEW S, NEW ss \in Seq(Seq(S)), NEW e \in Seq(S)
  PROVE  FlattenSeq(Append(ss, e)) = FlattenSeq(ss) \o e
<1> DEFINE N == Len(ss)
           tt == Append(ss, e)
<1>1. N \in Nat /\ Len(tt) = N + 1 /\ tt \in Seq(Seq(S))
  BY AppendProperties, LenProperties
<1>2. PICK f : Unfolds(f, ss)
  BY SomeUnfolding
<1> DEFINE g == [i \in 1 .. N + 1 |-> IF i <= N THEN f[i]
                                      ELSE IF i = 1 THEN e ELSE f[i-1] \o e]
<1>3. Unfolds(g, tt)
  BY <1>2, OneMore
<1>4. (CHOOSE h : Unfolds(h, tt)) = g
  BY <1>1, <1>3, OneUnfolding
<1>5. FlattenSeq(tt) = g[N + 1]
  <2> HIDE DEF g, tt, N
  <2>1. Len(tt) # 0
    BY <1>1
  <2> QED
    BY <1>1, <1>4, <2>1, FlattenDef
<1>6. CASE N = 0
  <2>1. ss = << >>
    BY <1>6, EmptySeq
  <2>2. g[N + 1] = e
    BY <1>6
  <2>3. << >> \o e = e
    BY ConcatEmptySeq
  <2> QED
    BY <1>5, <2>1, <2>2, <2>3, FlattenNone
<1>7. CASE N # 0
  <2>1. (CHOOSE h : Unfolds(h, ss)) = f
    BY <1>2, OneUnfolding
  <2>2. FlattenSeq(ss) = f[N]
    BY <1>7, <2>1, FlattenDef
  <2>3. g[N + 1] = f[N] \o e
    BY <1>1, <1>7
  <2> QED
    BY <1>5, <2>2, <2>3
<1> QED
  BY <1>6, <1>7

\* The audio of segments is a sequence of chunks: take a shortest exception.
LEMMA FlattenType ==
  ASSUME NEW S, NEW ss \in Seq(Seq(S))
  PROVE  FlattenSeq(ss) \in Seq(S)
<1> DEFINE X == {n \in Nat : \E tt \in Seq(Seq(S)) : Len(tt) = n /\ FlattenSeq(tt) \notin Seq(S)}
<1>1. X = {}
  <2> SUFFICES ASSUME X # {} PROVE FALSE
    OBVIOUS
  <2>1. PICK n \in X : \A m \in X : m >= n
    BY LeastOf
  <2>2. PICK tt \in Seq(Seq(S)) : Len(tt) = n /\ FlattenSeq(tt) \notin Seq(S)
    BY <2>1
  <2>3. tt # << >>
    BY <2>2, FlattenNone, EmptySeq
  <2>4. PICK uu \in Seq(Seq(S)), e \in Seq(S) : tt = Append(uu, e)
    BY <2>3, SequenceEmptyOrAppend
  <2>5. Len(uu) \in Nat
    BY LenProperties
  <2>9. Len(Append(uu, e)) = Len(uu) + 1
    BY AppendProperties
  <2>10. n = Len(uu) + 1
    BY <2>4, <2>9, <2>2
  <2>6. Len(uu) \notin X
    <3> HIDE DEF X
    <3> QED
      BY <2>5, <2>10, <2>1
  <2>7. FlattenSeq(uu) \in Seq(S)
    BY <2>6, <2>5
  <2>8. FlattenSeq(tt) = FlattenSeq(uu) \o e
    BY <2>4, FlattenAppend
  <2> QED
    BY <2>7, <2>8, <2>2, ConcatProperties
<1> QED
  BY <1>1, LenProperties

\* Cutting a sequence after its first k elements.
LEMMA Cut ==
  ASSUME NEW S, NEW s \in Seq(S), NEW k \in Int, k <= Len(s)
  PROVE  /\ SubSeq(s, 1, k) \in Seq(S)
         /\ SubSeq(s, Len(SubSeq(s, 1, k)) + 1, Len(s)) \in Seq(S)
         /\ Len(SubSeq(s, 1, k)) = IF k > 0 THEN k ELSE 0
         /\ Len(SubSeq(s, Len(SubSeq(s, 1, k)) + 1, Len(s))) = Len(s) - Len(SubSeq(s, 1, k))
         /\ \A i \in 1 .. Len(SubSeq(s, 1, k)) : SubSeq(s, 1, k)[i] = s[i]
         /\ \A i \in 1 .. Len(s) - Len(SubSeq(s, 1, k)) :
              SubSeq(s, Len(SubSeq(s, 1, k)) + 1, Len(s))[i] = s[i + Len(SubSeq(s, 1, k))]
<1>1. Len(s) \in Nat /\ \A i \in 1 .. Len(s) : s[i] \in S
  BY LenProperties, ElementOfSeq
<1> DEFINE a == SubSeq(s, 1, k)
<1>2. /\ a \in Seq(S) /\ Len(a) = IF k > 0 THEN k ELSE 0
      /\ \A i \in 1 .. k : a[i] = s[i]
  <2>1. \A i \in 1 .. k : s[i] \in S
    BY <1>1
  <2>2. /\ a \in Seq(S) /\ Len(a) = IF 1 <= k THEN k - 1 + 1 ELSE 0
        /\ \A i \in 1 .. k - 1 + 1 : a[i] = s[1 + i - 1]
    BY <2>1, SubSeqProperties
  <2> QED
    BY <2>2
<1> DEFINE m == Len(a)
<1>3. m \in Nat /\ m <= Len(s)
  BY <1>1, <1>2
<1> HIDE DEF m
<1> DEFINE b == SubSeq(s, m + 1, Len(s))
<1>4. /\ b \in Seq(S) /\ Len(b) = Len(s) - m
      /\ \A i \in 1 .. Len(s) - m : b[i] = s[i + m]
  <2>1. \A i \in m + 1 .. Len(s) : s[i] \in S
    BY <1>1, <1>3
  <2>2. /\ b \in Seq(S) /\ Len(b) = IF m + 1 <= Len(s) THEN Len(s) - (m + 1) + 1 ELSE 0
        /\ \A i \in 1 .. Len(s) - (m + 1) + 1 : b[i] = s[m + 1 + i - 1]
    BY <1>1, <1>3, <2>1, SubSeqProperties
  <2> QED
    BY <1>1, <1>3, <2>2
<1>5. \A i \in 1 .. m : a[i] = s[i]
  BY <1>2 DEF m
<1> QED
  BY <1>2, <1>4, <1>5 DEF m

\* What is cut off and what is left are what there was.
LEMMA TwoHalves ==
  ASSUME NEW S, NEW s \in Seq(S), NEW k \in Int, k <= Len(s)
  PROVE  SubSeq(s, 1, k) \o SubSeq(s, Len(SubSeq(s, 1, k)) + 1, Len(s)) = s
<1> DEFINE a == SubSeq(s, 1, k)
           b == SubSeq(s, Len(a) + 1, Len(s))
<1>1. /\ a \in Seq(S) /\ b \in Seq(S) /\ Len(b) = Len(s) - Len(a)
      /\ \A i \in 1 .. Len(a) : a[i] = s[i]
      /\ \A i \in 1 .. Len(s) - Len(a) : b[i] = s[i + Len(a)]
  BY Cut
<1> HIDE DEF a, b
<1>2. Len(s) \in Nat /\ Len(a) \in Nat /\ Len(b) \in Nat
  BY <1>1, LenProperties
<1>3. /\ a \o b \in Seq(S) /\ Len(a \o b) = Len(a) + Len(b)
      /\ \A i \in 1 .. Len(a) + Len(b) : (a \o b)[i] = IF i <= Len(a) THEN a[i] ELSE b[i - Len(a)]
  BY <1>1, ConcatProperties
<1>4. Len(a \o b) = Len(s)
  BY <1>1, <1>2, <1>3
<1>5. ASSUME NEW i \in 1 .. Len(s) PROVE (a \o b)[i] = s[i]
  <2>1. CASE i <= Len(a)
    <3>1. i \in 1 .. Len(a) /\ i \in 1 .. Len(a) + Len(b)
      BY <1>2, <2>1
    <3> QED
      BY <1>1, <1>3, <2>1, <3>1
  <2>2. CASE i > Len(a)
    <3>1. i - Len(a) \in 1 .. Len(s) - Len(a)
      BY <1>1, <1>2, <2>2
    <3>2. b[i - Len(a)] = s[i]
      BY <1>1, <1>2, <3>1
    <3> QED
      BY <1>1, <1>2, <1>3, <2>2, <3>2
  <2>3. i <= Len(a) \/ i > Len(a)
    BY <1>2
  <2> QED
    BY <2>1, <2>2, <2>3
<1>6. a \o b = s
  BY <1>3, <1>4, <1>5, SeqEqual
<1> QED
  BY <1>6 DEF a, b

-----------------------------------------------------------------------------
(* Audio in line.                                                          *)

\* A chunk in a sequence has a time and a pause.
LEMMA ChunkAt ==
  ASSUME NEW s \in Seq(Chunk), NEW i \in DOMAIN s
  PROVE  s[i] \in Chunk /\ s[i].at \in Nat /\ s[i].pause \in Nat
<1>1. DOMAIN s = 1 .. Len(s) /\ Len(s) \in Nat
  BY LenProperties
<1>2. s[i] \in Chunk
  BY <1>1, ElementOfSeq
<1> QED
  BY <1>2, RecordingAssumption DEF Chunk

\* An element of two sequences joined is one of the first or of the second.
LEMMA Joint ==
  ASSUME NEW s \in Seq(Chunk), NEW t \in Seq(Chunk), NEW i \in DOMAIN (s \o t)
  PROVE  \/ i \in DOMAIN s /\ (s \o t)[i] = s[i]
         \/ i \notin DOMAIN s /\ i - Len(s) \in DOMAIN t /\ (s \o t)[i] = t[i - Len(s)]
<1>1. /\ DOMAIN s = 1 .. Len(s) /\ Len(s) \in Nat
      /\ DOMAIN t = 1 .. Len(t) /\ Len(t) \in Nat
  BY LenProperties
<1>2. /\ s \o t \in Seq(Chunk) /\ Len(s \o t) = Len(s) + Len(t)
      /\ \A k \in 1 .. Len(s) + Len(t) : (s \o t)[k] = IF k <= Len(s) THEN s[k] ELSE t[k - Len(s)]
  BY ConcatProperties
<1>3. DOMAIN (s \o t) = 1 .. Len(s) + Len(t)
  BY <1>2, LenProperties
<1> QED
  BY <1>1, <1>2, <1>3

\* Audio in order followed by later audio in order is in order.
LEMMA RisingJoint ==
  ASSUME NEW s \in Seq(Chunk), NEW t \in Seq(Chunk), Rising(s), Rising(t), Before(s, t)
  PROVE  Rising(s \o t)
<1>1. SUFFICES ASSUME NEW i \in DOMAIN (s \o t), NEW j \in DOMAIN (s \o t), i < j
               PROVE (s \o t)[i].at < (s \o t)[j].at
  BY DEF Rising
<1>2. /\ DOMAIN s = 1 .. Len(s) /\ Len(s) \in Nat
      /\ DOMAIN t = 1 .. Len(t) /\ Len(t) \in Nat
      /\ DOMAIN (s \o t) = 1 .. Len(s \o t) /\ Len(s \o t) \in Nat
  BY LenProperties, ConcatProperties
<1>3. CASE i \in DOMAIN s /\ j \in DOMAIN s
  BY <1>1, <1>2, <1>3, Joint DEF Rising
<1>4. CASE i \in DOMAIN s /\ j \notin DOMAIN s
  BY <1>1, <1>2, <1>4, Joint DEF Before
<1>5. CASE i \notin DOMAIN s /\ j \notin DOMAIN s
  <2>1. i - Len(s) \in DOMAIN t /\ j - Len(s) \in DOMAIN t
    BY <1>5, Joint
  <2>2. (s \o t)[i] = t[i - Len(s)] /\ (s \o t)[j] = t[j - Len(s)]
    BY <1>5, Joint
  <2>3. i - Len(s) < j - Len(s)
    BY <1>1, <1>2
  <2> QED
    BY <2>1, <2>2, <2>3 DEF Rising
<1>6. CASE i \notin DOMAIN s /\ j \in DOMAIN s
  BY <1>1, <1>2, <1>6
<1> QED
  BY <1>3, <1>4, <1>5, <1>6

\* What comes before, or after, both comes so of the two joined.
LEMMA BeforeJoint ==
  ASSUME NEW s \in Seq(Chunk), NEW t \in Seq(Chunk), NEW u
  PROVE  /\ Before(s, u) /\ Before(t, u) => Before(s \o t, u)
         /\ Before(u, s) /\ Before(u, t) => Before(u, s \o t)
  BY Joint DEF Before

\* Neither was heard later, so nor was the two joined.
LEMMA UpToJoint ==
  ASSUME NEW s \in Seq(Chunk), NEW t \in Seq(Chunk), NEW n, UpTo(s, n), UpTo(t, n)
  PROVE  UpTo(s \o t, n)
  BY Joint DEF UpTo

\* An element of either sequence is one of the two joined.
LEMMA Parts ==
  ASSUME NEW s \in Seq(Chunk), NEW t \in Seq(Chunk)
  PROVE  /\ \A i \in DOMAIN s : i \in DOMAIN (s \o t) /\ (s \o t)[i] = s[i]
         /\ \A i \in DOMAIN t : i + Len(s) \in DOMAIN (s \o t) /\ (s \o t)[i + Len(s)] = t[i]
<1>1. /\ DOMAIN s = 1 .. Len(s) /\ Len(s) \in Nat
      /\ DOMAIN t = 1 .. Len(t) /\ Len(t) \in Nat
  BY LenProperties
<1>2. /\ s \o t \in Seq(Chunk) /\ Len(s \o t) = Len(s) + Len(t)
      /\ \A k \in 1 .. Len(s) + Len(t) : (s \o t)[k] = IF k <= Len(s) THEN s[k] ELSE t[k - Len(s)]
  BY ConcatProperties
<1>3. DOMAIN (s \o t) = 1 .. Len(s) + Len(t)
  BY <1>2, LenProperties
<1> QED
  BY <1>1, <1>2, <1>3

\* A sequence in order is so on both sides of any cut, and the one before the other.
LEMMA RisingParts ==
  ASSUME NEW s \in Seq(Chunk), NEW t \in Seq(Chunk), Rising(s \o t)
  PROVE  Rising(s) /\ Rising(t) /\ Before(s, t)
<1>1. /\ DOMAIN s = 1 .. Len(s) /\ Len(s) \in Nat
      /\ DOMAIN t = 1 .. Len(t) /\ Len(t) \in Nat
  BY LenProperties
<1>2. Rising(s)
  BY Parts DEF Rising
<1>3. Rising(t)
  <2>1. SUFFICES ASSUME NEW i \in DOMAIN t, NEW j \in DOMAIN t, i < j PROVE t[i].at < t[j].at
    BY DEF Rising
  <2>2. i + Len(s) < j + Len(s)
    BY <1>1, <2>1
  <2> QED
    BY <2>2, Parts DEF Rising
<1>4. Before(s, t)
  <2>1. SUFFICES ASSUME NEW i \in DOMAIN s, NEW j \in DOMAIN t PROVE s[i].at < t[j].at
    BY DEF Before
  <2>2. i < j + Len(s)
    BY <1>1, <2>1
  <2> QED
    BY <2>2, Parts DEF Rising
<1> QED
  BY <1>2, <1>3, <1>4

\* What comes before, or after, a sequence comes so of its two halves.
LEMMA BeforeParts ==
  ASSUME NEW s \in Seq(Chunk), NEW t \in Seq(Chunk), NEW u
  PROVE  /\ Before(s \o t, u) => Before(s, u) /\ Before(t, u)
         /\ Before(u, s \o t) => Before(u, s) /\ Before(u, t)
<1>1. Before(s \o t, u) => Before(s, u)
  BY Parts DEF Before
<1>2. Before(s \o t, u) => Before(t, u)
  BY Parts DEF Before
<1>3. Before(u, s \o t) => Before(u, s)
  BY Parts DEF Before
<1>4. Before(u, s \o t) => Before(u, t)
  BY Parts DEF Before
<1> QED
  BY <1>1, <1>2, <1>3, <1>4

\* The two halves were heard when the whole was.
LEMMA UpToParts ==
  ASSUME NEW s \in Seq(Chunk), NEW t \in Seq(Chunk), NEW n, UpTo(s \o t, n)
  PROVE  UpTo(s, n) /\ UpTo(t, n)
  BY Parts DEF UpTo

\* Nothing is in order with anything.
LEMMA NothingInLine ==
  ASSUME NEW s, NEW n
  PROVE  /\ Rising(<< >>) /\ UpTo(<< >>, n)
         /\ Before(<< >>, s) /\ Before(s, << >>)
  BY DEF Rising, UpTo, Before

\* Hear: the chunk heard now goes last.
LEMMA LineHears ==
  ASSUME NEW a \in Seq(Chunk), NEW c \in Seq(Chunk), NEW b \in Seq(Chunk), NEW q \in Seq(Chunk),
         NEW n \in Nat, InLine(a, c, b, q, n), NEW x \in Chunk, x.at = n + 1
  PROVE  InLine(a, c, b, Append(q, x), n + 1)
<1>1. << x >> \in Seq(Chunk) /\ Append(q, x) = q \o << x >>
  BY AppendIsConcat
<1>2. \A s \in Seq(Chunk) : UpTo(s, n) => UpTo(s, n + 1) /\ Before(s, << x >>)
  BY ChunkAt DEF UpTo, Before
<1>3. Rising(<< x >>) /\ UpTo(<< x >>, n + 1)
  BY DEF Rising, UpTo
<1>4. Rising(q \o << x >>)
  BY <1>1, <1>2, <1>3, RisingJoint DEF InLine
<1>5. Before(a, q \o << x >>) /\ Before(c, q \o << x >>) /\ Before(b, q \o << x >>)
  BY <1>1, <1>2, BeforeJoint DEF InLine
<1>6. UpTo(q \o << x >>, n + 1)
  BY <1>1, <1>2, <1>3, UpToJoint DEF InLine
<1> QED
  BY <1>1, <1>2, <1>4, <1>5, <1>6 DEF InLine

\* Poll, Drain: the queue follows what is handed over.
LEMMA LinePolls ==
  ASSUME NEW a \in Seq(Chunk), NEW c \in Seq(Chunk), NEW b \in Seq(Chunk), NEW q \in Seq(Chunk),
         NEW n, InLine(a, c, b, q, n)
  PROVE  InLine(a, c, b \o q, << >>, n)
<1>1. Rising(b \o q)
  BY RisingJoint DEF InLine
<1>2. Before(a, b \o q) /\ Before(c, b \o q)
  BY BeforeJoint DEF InLine
<1>3. UpTo(b \o q, n)
  BY UpToJoint DEF InLine
<1> QED
  BY <1>1, <1>2, <1>3, NothingInLine DEF InLine

\* Encode, Flush: the first of what is handed over follows the open segment.
LEMMA LineEncodes ==
  ASSUME NEW a \in Seq(Chunk), NEW c \in Seq(Chunk), NEW u \in Seq(Chunk), NEW v \in Seq(Chunk),
         NEW q \in Seq(Chunk), NEW n, InLine(a, c, u \o v, q, n)
  PROVE  InLine(a, c \o u, v, q, n)
<1>1. Rising(u) /\ Rising(v) /\ Before(u, v)
  BY RisingParts DEF InLine
<1>2. /\ Before(a, u) /\ Before(a, v) /\ Before(c, u) /\ Before(c, v)
      /\ Before(u, q) /\ Before(v, q)
  BY BeforeParts DEF InLine
<1>3. UpTo(u, n) /\ UpTo(v, n)
  BY UpToParts DEF InLine
<1>4. Rising(c \o u)
  BY <1>1, <1>2, RisingJoint DEF InLine
<1>5. Before(a, c \o u) /\ Before(c \o u, v) /\ Before(c \o u, q)
  BY <1>1, <1>2, BeforeJoint DEF InLine
<1>6. UpTo(c \o u, n)
  BY <1>3, UpToJoint DEF InLine
<1> QED
  BY <1>1, <1>2, <1>3, <1>4, <1>5, <1>6 DEF InLine

\* SaveSegment: the open segment follows what is on the disk.
LEMMA LineSaves ==
  ASSUME NEW a \in Seq(Chunk), NEW c \in Seq(Chunk), NEW b \in Seq(Chunk), NEW q \in Seq(Chunk),
         NEW n, InLine(a, c, b, q, n)
  PROVE  InLine(a \o c, << >>, b, q, n)
<1>1. Rising(a \o c)
  BY RisingJoint DEF InLine
<1>2. Before(a \o c, b) /\ Before(a \o c, q)
  BY BeforeJoint DEF InLine
<1>3. UpTo(a \o c, n)
  BY UpToJoint DEF InLine
<1> QED
  BY <1>1, <1>2, <1>3, NothingInLine DEF InLine

\* Whatever is dropped, what is left is in line.
LEMMA LineDrops ==
  ASSUME NEW a, NEW c, NEW b, NEW q, NEW n, InLine(a, c, b, q, n)
  PROVE  /\ InLine(a, << >>, b, q, n) /\ InLine(a, c, << >>, q, n) /\ InLine(a, c, b, << >>, n)
         /\ InLine(a, << >>, << >>, << >>, n) /\ InLine(a, << >>, << >>, q, n)
  BY NothingInLine DEF InLine

\* As time passes, everything was heard by now.
LEMMA LineLater ==
  ASSUME NEW a \in Seq(Chunk), NEW c \in Seq(Chunk), NEW b \in Seq(Chunk), NEW q \in Seq(Chunk),
         NEW n \in Nat, NEW k \in Nat, n <= k, InLine(a, c, b, q, n)
  PROVE  InLine(a, c, b, q, k)
<1>1. \A s \in Seq(Chunk) : UpTo(s, n) => UpTo(s, k)
  BY ChunkAt DEF UpTo
<1> QED
  BY <1>1 DEF InLine

-----------------------------------------------------------------------------
(* No more audio than was heard.                                           *)

\* As more is heard.
LEMMA FitsLater ==
  ASSUME NEW a \in Seq(Seq(Chunk)), NEW c \in Seq(Chunk), NEW b \in Seq(Chunk), NEW q \in Seq(Chunk),
         NEW n \in Nat, NEW k \in Nat, n <= k, Fits(a, c, b, q, n)
  PROVE  Fits(a, c, b, q, k)
<1>1. Len(a) \in Nat /\ Len(c) \in Nat /\ Len(b) \in Nat /\ Len(q) \in Nat
  BY LenProperties
<1> QED
  BY <1>1 DEF Fits

\* Hear: one more heard, one more queued.
LEMMA FitsHears ==
  ASSUME NEW a \in Seq(Seq(Chunk)), NEW c \in Seq(Chunk), NEW b \in Seq(Chunk), NEW q \in Seq(Chunk),
         NEW n \in Nat, NEW x \in Chunk, Fits(a, c, b, q, n)
  PROVE  Fits(a, c, b, Append(q, x), n + 1)
<1>1. Len(a) \in Nat /\ Len(c) \in Nat /\ Len(b) \in Nat /\ Len(q) \in Nat
  BY LenProperties
<1>2. PICK m \in Nat : m = Len(Append(q, x)) /\ m = Len(q) + 1
  BY <1>1, AppendProperties
<1>3. Len(a) + Len(c) + Len(b) + m <= n + 1
  BY <1>1, <1>2 DEF Fits
<1> QED
  BY <1>2, <1>3 DEF Fits

\* Poll, Drain: what leaves the queue is handed over.
LEMMA FitsPolls ==
  ASSUME NEW a \in Seq(Seq(Chunk)), NEW c \in Seq(Chunk), NEW b \in Seq(Chunk), NEW q \in Seq(Chunk),
         NEW n \in Nat, Fits(a, c, b, q, n)
  PROVE  Fits(a, c, b \o q, << >>, n)
<1>1. Len(a) \in Nat /\ Len(c) \in Nat /\ Len(b) \in Nat /\ Len(q) \in Nat
  BY LenProperties
<1>2. PICK m \in Nat : m = Len(b \o q) /\ m = Len(b) + Len(q)
  BY <1>1, ConcatProperties
<1>3. PICK z \in Nat : z = Len(<< >>) /\ z = 0
  OBVIOUS
<1>4. Len(a) + Len(c) + m + z <= n
  BY <1>1, <1>2, <1>3 DEF Fits
<1> QED
  BY <1>2, <1>3, <1>4 DEF Fits

\* Encode, Flush: what is taken goes into the open segment.
LEMMA FitsEncodes ==
  ASSUME NEW a \in Seq(Seq(Chunk)), NEW c \in Seq(Chunk), NEW u \in Seq(Chunk), NEW v \in Seq(Chunk),
         NEW q \in Seq(Chunk), NEW n \in Nat, Fits(a, c, u \o v, q, n)
  PROVE  Fits(a, c \o u, v, q, n)
<1>1. /\ Len(a) \in Nat /\ Len(c) \in Nat /\ Len(u) \in Nat /\ Len(v) \in Nat
      /\ Len(q) \in Nat
  BY LenProperties
<1>2. PICK m \in Nat : m = Len(u \o v) /\ m = Len(u) + Len(v)
  BY <1>1, ConcatProperties
<1>3. PICK k \in Nat : k = Len(c \o u) /\ k = Len(c) + Len(u)
  BY <1>1, ConcatProperties
<1>4. Len(a) + Len(c) + m + Len(q) <= n
  BY <1>2 DEF Fits
<1>5. Len(a) + k + Len(v) + Len(q) <= n
  BY <1>1, <1>2, <1>3, <1>4
<1> QED
  BY <1>3, <1>5 DEF Fits

\* SaveSegment: a segment holds at least a chunk, so there were enough.
LEMMA FitsSaves ==
  ASSUME NEW a \in Seq(Seq(Chunk)), NEW c \in Seq(Chunk), NEW b \in Seq(Chunk), NEW q \in Seq(Chunk),
         NEW n \in Nat, Fits(a, c, b, q, n), c # << >>
  PROVE  Fits(Append(a, c), << >>, b, q, n) /\ Len(a) + 1 <= n
<1>1. Len(a) \in Nat /\ Len(c) \in Nat /\ Len(b) \in Nat /\ Len(q) \in Nat /\ Len(c) # 0
  BY LenProperties, EmptySeq
<1>2. PICK m \in Nat : m = Len(Append(a, c)) /\ m = Len(a) + 1
  BY <1>1, AppendProperties
<1>3. PICK z \in Nat : z = Len(<< >>) /\ z = 0
  OBVIOUS
<1>4. m + z + Len(b) + Len(q) <= n
  BY <1>1, <1>2, <1>3 DEF Fits
<1>5. Len(a) + 1 <= n
  BY <1>1 DEF Fits
<1> QED
  BY <1>2, <1>3, <1>4, <1>5 DEF Fits

\* Whatever is dropped, the rest still fits.
LEMMA FitsDrops ==
  ASSUME NEW a \in Seq(Seq(Chunk)), NEW c \in Seq(Chunk), NEW b \in Seq(Chunk), NEW q \in Seq(Chunk),
         NEW n \in Nat, Fits(a, c, b, q, n)
  PROVE  /\ Fits(a, << >>, b, q, n) /\ Fits(a, c, << >>, q, n) /\ Fits(a, c, b, << >>, n)
         /\ Fits(a, << >>, << >>, << >>, n) /\ Fits(a, << >>, << >>, q, n)
         /\ Len(a) <= n
<1>1. Len(a) \in Nat /\ Len(c) \in Nat /\ Len(b) \in Nat /\ Len(q) \in Nat
  BY LenProperties
<1>2. PICK z \in Nat : z = Len(<< >>) /\ z = 0
  OBVIOUS
<1>3. /\ Len(a) + z + Len(b) + Len(q) <= n /\ Len(a) + Len(c) + z + Len(q) <= n
      /\ Len(a) + Len(c) + Len(b) + z <= n
      /\ Len(a) + z + z + z <= n /\ Len(a) + z + z + Len(q) <= n
      /\ Len(a) <= n
  BY <1>1, <1>2 DEF Fits
<1> QED
  BY <1>2, <1>3 DEF Fits

\* A segment that is not empty has a file to go to.
LEMMA RoomForMore ==
  ASSUME NEW a \in Seq(Seq(Chunk)), NEW c \in Seq(Chunk), NEW b \in Seq(Chunk), NEW q \in Seq(Chunk),
         NEW n \in Nat, n <= MaxHeard, Fits(a, c, b, q, n)
  PROVE  /\ DOMAIN a \subseteq Index
         /\ c # << >> => Len(a) + 1 \in Index
<1>1. Len(a) \in Nat /\ DOMAIN a = 1 .. Len(a) /\ MaxHeard \in Nat
  BY LenProperties, RecordingAssumption
<1>2. Len(a) <= n
  BY FitsDrops
<1>3. c # << >> => Len(a) + 1 <= n
  BY FitsSaves
<1> QED
  BY <1>1, <1>2, <1>3 DEF Index

-----------------------------------------------------------------------------
(* Types, and what each step does.                                         *)

Same(r) ==
  /\ disk'[r] = disk[r] /\ files'[r] = files[r] /\ device'[r] = device[r]
  /\ session'[r] = session[r] /\ writer'[r] = writer[r]
  /\ thread'[r] = thread[r] /\ past'[r] = past[r]

\* No other recording is touched.
Elsewhere(r) == \A q \in Recording \ {r} : Same(q)

\* The recorder and the other threads are not; the thread goes on, or ends
\* and leaves no request behind.
Quiet(r) ==
  /\ recorder' = recorder /\ Running(r)
  /\ \A q \in Recording \ {r} : mailbox'[q] = mailbox[q] /\ thread'[q] = thread[q]
  /\ mailbox'[r] = << >> \/ (mailbox'[r] = mailbox[r] /\ Running(r)')

\* The initial state has its types.
LEMMA InitTypes ==
  ASSUME Init PROVE Types
<1> USE RecordingAssumption DEF Init, Absent, Torn, Begun, Fresh, Off, Silent, AtRest
<1>1. << >> \in Seq(Chunk) /\ << >> \in Seq(Seq(Chunk)) /\ << >> \in Seq(Message)
  BY EmptySeq
<1>2. disk \in [Recording -> Manifest] /\ files \in [Recording -> [Index -> Seq(Chunk)]]
  BY <1>1 DEF Manifest
<1>3. recorder \in Holder
  BY DEF Holder
<1>4. mailbox \in [Recording -> Seq(Message)] /\ device \in [Recording -> Device]
  BY <1>1 DEF Device
<1>5. session \in [Recording -> Session] /\ writer \in [Recording -> Writer]
  BY <1>1 DEF Session, Writer, AppState
<1>6. thread \in [Recording -> Thread] /\ past \in [Recording -> Past]
  BY <1>1 DEF Thread, Past, Step, Phase
<1>7. heard \in 0 .. MaxHeard /\ left \in Allowance
  BY DEF Allowance
<1> QED
  BY <1>2, <1>3, <1>4, <1>5, <1>6, <1>7 DEF Types

\* The types of everything a recording's steps look at.
LEMMA Fields ==
  ASSUME Types, NEW r \in Recording
  PROVE  /\ disk[r].segments \in Seq(Seq(Chunk)) /\ Audio(r) \in Seq(Chunk)
         /\ disk[r].paused \in Nat /\ Len(disk[r].segments) \in Nat
         /\ writer[r].pending \in Seq(Chunk) /\ writer[r].current \in Seq(Chunk)
         /\ writer[r].closed \in Nat /\ writer[r].named \in Nat
         /\ Len(writer[r].pending) \in Nat /\ Len(writer[r].current) \in Nat
         /\ device[r].queue \in Seq(Chunk) /\ Len(device[r].queue) \in Nat
         /\ session[r] \in Session
         /\ session[r].recorded \in Nat /\ session[r].discarded \in Nat
         /\ session[r].state \in AppState
         /\ thread[r].step \in Step /\ thread[r].phase \in Phase /\ thread[r].polled \in Nat
         /\ past[r].kept \in Seq(Chunk) /\ past[r].failures \in Nat /\ past[r].resumed \in Nat
         /\ heard \in Nat /\ heard <= MaxHeard
<1>1. /\ disk[r] \in Manifest /\ writer[r] \in Writer /\ device[r] \in Device
      /\ session[r] \in Session /\ thread[r] \in Thread /\ past[r] \in Past
  BY DEF Types
<1>2. disk[r].segments \in Seq(Seq(Chunk)) /\ disk[r].paused \in Nat
  BY <1>1 DEF Manifest
<1>3. Audio(r) \in Seq(Chunk)
  BY <1>2, FlattenType DEF Audio
<1>4. /\ writer[r].pending \in Seq(Chunk) /\ writer[r].current \in Seq(Chunk)
      /\ writer[r].closed \in Nat /\ writer[r].named \in Nat
  BY <1>1 DEF Writer
<1>5. device[r].queue \in Seq(Chunk)
  BY <1>1 DEF Device
<1>6. /\ session[r].recorded \in Nat /\ session[r].discarded \in Nat
      /\ session[r].state \in AppState
  BY <1>1 DEF Session
<1>7. thread[r].step \in Step /\ thread[r].phase \in Phase /\ thread[r].polled \in Nat
  BY <1>1 DEF Thread
<1>8. past[r].kept \in Seq(Chunk) /\ past[r].failures \in Nat /\ past[r].resumed \in Nat
  BY <1>1 DEF Past
<1>9. /\ Len(disk[r].segments) \in Nat /\ Len(writer[r].pending) \in Nat
      /\ Len(writer[r].current) \in Nat /\ Len(device[r].queue) \in Nat
  BY <1>2, <1>4, <1>5, LenProperties
<1>10. heard \in Nat /\ heard <= MaxHeard
  BY RecordingAssumption DEF Types
<1> QED
  BY <1>1, <1>2, <1>3, <1>4, <1>5, <1>6, <1>7, <1>8, <1>9, <1>10

\* A fault that happens leaves one less to come.
LEMMA SpendTypes ==
  ASSUME left \in Allowance, NEW c \in {"asked", "timeouts", "failures", "crashes"}, Spend(c)
  PROVE  left' \in Allowance
  BY DEF Spend, Allowance

\* Goes: only where the thread of the recording is.
LEMMA GoesTo ==
  ASSUME thread \in [Recording -> Thread], NEW r \in Recording, NEW step \in Step, Goes(r, step)
  PROVE  /\ thread' \in [Recording -> Thread]
         /\ thread'[r].step = step /\ thread'[r].phase = thread[r].phase
         /\ thread'[r].polled = thread[r].polled /\ thread'[r].ok = thread[r].ok
         /\ \A q \in Recording \ {r} : thread'[q] = thread[q]
<1>1. PICK t : t = [thread[r] EXCEPT !.step = step]
  OBVIOUS
<1>2. thread[r] \in Thread
  OBVIOUS
<1>3. t \in Thread
  BY <1>1, <1>2 DEF Thread
<1>4. t.step = step /\ t.phase = thread[r].phase /\ t.polled = thread[r].polled /\ t.ok = thread[r].ok
  BY <1>1, <1>2 DEF Thread
<1>5. thread' = [thread EXCEPT ![r] = t]
  BY <1>1 DEF Goes
<1> QED
  BY <1>3, <1>4, <1>5

\* Refused: a failure more, of this recording only.
LEMMA RefusedDoes ==
  ASSUME Types, NEW r \in Recording, NEW write, Refused(r, write)
  PROVE  /\ past' \in [Recording -> Past] /\ left' \in Allowance
         /\ past'[r].failures = past[r].failures + 1
         /\ past'[r].kept = past[r].kept /\ past'[r].resumed = past[r].resumed
         /\ \A q \in Recording \ {r} : past'[q] = past[q]
<1>1. left' \in Allowance
  BY SpendTypes DEF Refused, Types
<1>2. past[r] \in Past /\ past \in [Recording -> Past]
  BY DEF Types
<1>6. past[r].failures + 1 \in Nat
  BY <1>2 DEF Past
<1>7. PICK n \in Nat : n = past[r].failures + 1
  BY <1>6
<1>3. PICK p : p = [past[r] EXCEPT !.failures = n]
  OBVIOUS
<1>4. p \in Past /\ p.failures = n /\ p.kept = past[r].kept /\ p.resumed = past[r].resumed
  BY <1>2, <1>3 DEF Past
<1>5. past' = [past EXCEPT ![r] = p]
  BY <1>3, <1>7 DEF Refused
<1> QED
  BY <1>1, <1>2, <1>4, <1>5, <1>7

\* Counted: audio is billed while recording, discarded otherwise.
LEMMA CountedDoes ==
  ASSUME NEW s \in Session, NEW n \in Nat
  PROVE  /\ Counted(s, n) \in Session
         /\ Counted(s, n).state = s.state
         /\ Keeps(s) => Counted(s, n).recorded = s.recorded + n /\ Counted(s, n).discarded = s.discarded
         /\ ~ Keeps(s) => Counted(s, n).recorded = s.recorded /\ Counted(s, n).discarded = s.discarded + n
<1>1. CASE Keeps(s)
  <2>1. PICK b \in BOOLEAN : b = (s.warned \/ (s.recorded + n < Limit /\ s.recorded + n + WarnBefore >= Limit))
    OBVIOUS
  <2>5. PICK m \in Nat : m = s.recorded + n
    BY DEF Session
  <2>2. PICK v : v = [s EXCEPT !.recorded = m, !.warned = b]
    OBVIOUS
  <2>3. v \in Session /\ v.state = s.state /\ v.recorded = m /\ v.discarded = s.discarded
    BY <2>2 DEF Session
  <2>4. Counted(s, n) = v
    BY <1>1, <2>1, <2>2, <2>5 DEF Counted
  <2> QED
    BY <1>1, <2>3, <2>4, <2>5
<1>2. CASE ~ Keeps(s)
  <2>1. PICK v : v = [s EXCEPT !.discarded = s.discarded + n]
    OBVIOUS
  <2>2. v \in Session /\ v.state = s.state /\ v.recorded = s.recorded /\ v.discarded = s.discarded + n
    BY <2>1 DEF Session
  <2>3. Counted(s, n) = v
    BY <1>2, <2>1 DEF Counted
  <2> QED
    BY <1>2, <2>2, <2>3
<1> QED
  BY <1>1, <1>2

\* CountedThenFinished: the tail is counted as it was kept, then the session ends.
LEMMA FinishedDoes ==
  ASSUME NEW s \in Session, NEW n \in Nat
  PROVE  /\ CountedThenFinished(s, n) \in Session
         /\ CountedThenFinished(s, n).state = "uploading"
         /\ Keeps(s) => /\ CountedThenFinished(s, n).recorded = s.recorded + n
                        /\ CountedThenFinished(s, n).discarded = s.discarded
         /\ CountedThenFinished(s, n).recorded <= s.recorded + n
<1>1. PICK v : v = [Counted(s, n) EXCEPT !.state = "uploading"]
  OBVIOUS
<1>2. Counted(s, n) \in Session
  BY CountedDoes
<1>3. /\ v \in Session /\ v.state = "uploading" /\ v.recorded = Counted(s, n).recorded
      /\ v.discarded = Counted(s, n).discarded
  <2> PICK c : c = Counted(s, n)
    OBVIOUS
  <2> QED
    BY <1>1, <1>2 DEF Session, AppState
<1>4. CountedThenFinished(s, n) = v
  BY <1>1 DEF CountedThenFinished
<1>5. s.recorded \in Nat
  BY DEF Session
<1>6. /\ Keeps(s) => v.recorded = s.recorded + n /\ v.discarded = s.discarded
      /\ ~ Keeps(s) => v.recorded = s.recorded
  BY <1>3, CountedDoes
<1>7. v.recorded <= s.recorded + n
  BY <1>5, <1>6
<1> QED
  BY <1>3, <1>4, <1>6, <1>7

\* StartWith: a recording that was nowhere is held, and its thread at the top.
LEMMA StartDoes ==
  ASSUME Types, NEW r \in Recording, StartWith(r)
  PROVE  /\ Types' /\ Elsewhere(r)
         /\ disk[r].state = "absent" /\ disk'[r].state = "recording"
         /\ disk'[r].segments = disk[r].segments /\ disk'[r].paused = disk[r].paused
         /\ files' = files /\ session' = session /\ writer' = writer /\ past' = past
         /\ heard' = heard
         /\ device'[r].queue = << >>
         /\ thread'[r].step = "top" /\ thread'[r].phase = thread[r].phase
         /\ recorder.engine = None /\ recorder.asking = "none" /\ mailbox' = mailbox
         /\ recorder'.engine = r /\ recorder'.asking = "none"
         /\ recorder'.joining = recorder.joining
<1>1. disk[r] \in Manifest /\ disk[r].state = "absent"
  BY DEF Types, StartWith, MayStart, Absent
<1>2. PICK m : m = [disk[r] EXCEPT !.state = "recording"]
  OBVIOUS
<1>3. m \in Manifest /\ m.state = "recording" /\ m.segments = disk[r].segments /\ m.paused = disk[r].paused
  BY <1>1, <1>2 DEF Manifest
<1>4. disk' = [disk EXCEPT ![r] = m]
  BY <1>2 DEF StartWith
<1>5. PICK d : d = [queue |-> << >>, live |-> TRUE, open |-> TRUE]
  OBVIOUS
<1>6. d \in Device /\ d.queue = << >>
  BY <1>5, EmptySeq DEF Device
<1>7. device' = [device EXCEPT ![r] = d]
  BY <1>5 DEF StartWith
<1>8. PICK h : h = [recorder EXCEPT !.engine = r]
  OBVIOUS
<1>9. recorder \in Holder
  BY DEF Types
<1>10. h \in Holder /\ h.engine = r /\ h.asking = recorder.asking /\ h.joining = recorder.joining
  BY <1>8, <1>9 DEF Holder
<1>11. recorder' = h /\ recorder.engine = None /\ recorder.asking = "none"
  BY <1>8 DEF StartWith, MayStart
<1>12. Goes(r, "top") /\ "top" \in Step
  BY DEF StartWith, Step
<1>13. /\ thread' \in [Recording -> Thread] /\ thread'[r].step = "top"
       /\ thread'[r].phase = thread[r].phase
       /\ \A q \in Recording \ {r} : thread'[q] = thread[q]
  BY <1>12, GoesTo DEF Types
<1>14. UNCHANGED << files, mailbox, session, writer, past, heard, left >>
  BY DEF StartWith
<1>15. Types'
  BY <1>3, <1>4, <1>6, <1>7, <1>10, <1>11, <1>13, <1>14 DEF Types
<1>16. Elsewhere(r)
  BY <1>4, <1>7, <1>13, <1>14 DEF Elsewhere, Same, Types
<1>17. disk'[r] = m /\ device'[r] = d
  BY <1>4, <1>7 DEF Types
<1> QED
  BY <1>1, <1>3, <1>6, <1>10, <1>11, <1>13, <1>14, <1>15, <1>16, <1>17

\* StartFails: at most a manifest without a segment.
LEMMA StartFailsDoes ==
  ASSUME Types, NEW r \in Recording, StartFails(r)
  PROVE  /\ Types' /\ Elsewhere(r)
         /\ disk[r].state = "absent"
         /\ disk'[r].segments = disk[r].segments
         /\ files' = files /\ device' = device /\ session' = session /\ writer' = writer
         /\ thread' = thread /\ heard' = heard
         /\ past'[r].failures = past[r].failures + 1
         /\ past'[r].kept = past[r].kept /\ past'[r].resumed = past[r].resumed
         /\ recorder' = recorder /\ mailbox' = mailbox
<1>1. disk[r] \in Manifest /\ disk[r].state = "absent"
  BY DEF Types, StartFails, MayStart, Absent
<1>2. PICK m : m = [disk[r] EXCEPT !.state = "recording"]
  OBVIOUS
<1>3. m \in Manifest /\ m.state = "recording" /\ m.segments = disk[r].segments
  BY <1>1, <1>2 DEF Manifest
<1>4. disk' = disk \/ disk' = [disk EXCEPT ![r] = m]
  BY <1>2 DEF StartFails
<1>5. /\ past' \in [Recording -> Past] /\ left' \in Allowance
      /\ past'[r].failures = past[r].failures + 1
      /\ past'[r].kept = past[r].kept /\ past'[r].resumed = past[r].resumed
      /\ \A q \in Recording \ {r} : past'[q] = past[q]
  BY RefusedDoes DEF StartFails
<1>6. UNCHANGED << files, recorder, mailbox, device, session, writer, thread, heard >>
  BY DEF StartFails, engine
<1>7. disk' \in [Recording -> Manifest]
  BY <1>3, <1>4 DEF Types
<1>8. Types'
  BY <1>5, <1>6, <1>7 DEF Types
<1>9. Elsewhere(r)
  BY <1>4, <1>5, <1>6 DEF Elsewhere, Same, Types
<1>10. disk'[r].segments = disk[r].segments
  BY <1>3, <1>4 DEF Types
<1> QED
  BY <1>1, <1>5, <1>6, <1>8, <1>9, <1>10

\* Hear: at most one chunk more in the queue, heard now.
LEMMA HearDoes ==
  ASSUME Types, NEW r \in Recording, Hear(r)
  PROVE  /\ Types' /\ Elsewhere(r)
         /\ heard' = heard + 1 /\ device[r].live
         /\ \/ device' = device
            \/ \E x \in Chunk :
                 /\ Len(device[r].queue) < Depth /\ device'[r].queue = Append(device[r].queue, x)
                 /\ x.at = heard + 1
                 /\ x.pause = IF session[r].state = "paused" THEN past[r].resumed + 1 ELSE 0
         /\ UNCHANGED << disk, files, recorder, mailbox, session, writer, thread, past >>
<1>1. heard' = heard + 1 /\ heard < MaxHeard /\ heard \in Nat /\ device[r].live
  BY RecordingAssumption DEF Hear, Types
<1>2. heard' \in 0 .. MaxHeard /\ heard' \in 1 .. MaxHeard
  BY <1>1, RecordingAssumption
<1>3. past[r].resumed \in Nat /\ device[r].queue \in Seq(Chunk)
  BY Fields
<1>4. PICK x : x = [at |-> heard', pause |-> IF Paused(r) THEN past[r].resumed + 1 ELSE 0]
  OBVIOUS
<1>5. /\ x \in Chunk /\ x.at = heard + 1
      /\ x.pause = IF session[r].state = "paused" THEN past[r].resumed + 1 ELSE 0
  BY <1>1, <1>2, <1>3, <1>4 DEF Chunk, Paused
<1>6. PICK d : d = [device[r] EXCEPT !.queue = Append(device[r].queue, x)]
  OBVIOUS
<1>7. Append(device[r].queue, x) \in Seq(Chunk)
  BY <1>3, <1>5, AppendProperties
<1>8. d \in Device /\ d.queue = Append(device[r].queue, x)
  BY <1>6, <1>7 DEF Types, Device
<1>9. device' = device \/ (Len(device[r].queue) < Depth /\ device' = [device EXCEPT ![r] = d])
  BY <1>4, <1>6 DEF Hear, Heard
<1>10. UNCHANGED << disk, files, recorder, mailbox, session, writer, thread, past, left >>
  BY DEF Hear, vault
<1>11. device' \in [Recording -> Device]
  BY <1>8, <1>9 DEF Types
<1>12. Types'
  BY <1>2, <1>10, <1>11 DEF Types
<1>13. Elsewhere(r)
  BY <1>9, <1>10 DEF Elsewhere, Same, Types
<1>14. device' = device \/ (Len(device[r].queue) < Depth /\ device'[r].queue = Append(device[r].queue, x))
  BY <1>8, <1>9 DEF Types
<1> QED
  BY <1>1, <1>5, <1>10, <1>12, <1>13, <1>14

\* EndpointsDie: the queue stays.
LEMMA DieDoes ==
  ASSUME Types, NEW r \in Recording, EndpointsDie(r)
  PROVE  /\ Types' /\ Elsewhere(r)
         /\ device[r].live /\ device'[r].queue = device[r].queue
         /\ UNCHANGED << disk, files, recorder, mailbox, session, writer, thread, past, heard >>
<1>1. device[r] \in Device /\ device[r].live
  BY DEF Types, EndpointsDie
<1>2. PICK d : d = [device[r] EXCEPT !.live = FALSE]
  OBVIOUS
<1>3. d \in Device /\ d.queue = device[r].queue
  BY <1>1, <1>2 DEF Device
<1>4. device' = [device EXCEPT ![r] = d]
  BY <1>2 DEF EndpointsDie
<1>5. UNCHANGED << disk, files, recorder, mailbox, session, writer, thread, past, heard, left >>
  BY DEF EndpointsDie, vault
<1>6. Types'
  BY <1>3, <1>4, <1>5 DEF Types
<1>7. Elsewhere(r)
  BY <1>4, <1>5 DEF Elsewhere, Same, Types
<1>8. device'[r] = d
  BY <1>4 DEF Types
<1> QED
  BY <1>1, <1>3, <1>5, <1>6, <1>7, <1>8

\* Obey: one request less; the session changes state, or the thread drains.
LEMMA ObeyDoes ==
  ASSUME Types, NEW r \in Recording, Obey(r)
  PROVE  /\ Types' /\ Elsewhere(r)
         /\ thread[r].step = "top" /\ thread'[r].step \in {"top", "drain"}
         /\ thread'[r].phase = thread[r].phase
         /\ session'[r].recorded = session[r].recorded
         /\ session'[r].discarded = session[r].discarded
         /\ past'[r].kept = past[r].kept /\ past'[r].failures = past[r].failures
         /\ \/ past'[r].resumed = past[r].resumed /\ session'[r].state = session[r].state
            \/ past'[r].resumed = past[r].resumed /\ session'[r].state # "recording"
            \/ past'[r].resumed = past[r].resumed + 1 /\ session'[r].state = "recording"
         /\ UNCHANGED << disk, files, device, writer, heard >>
         /\ mailbox[r] # << >> /\ mailbox'[r] = Tail(mailbox[r])
         /\ \A q \in Recording \ {r} : mailbox'[q] = mailbox[q]
         /\ ~ Head(mailbox[r]).awaited => recorder' = recorder
         /\ Head(mailbox[r]).awaited =>
              /\ recorder'.engine = recorder.engine \/ (recorder'.engine = None /\ r \in recorder'.joining)
              /\ recorder.joining \subseteq recorder'.joining
<1> DEFINE q == Head(mailbox[r])
           ok == Accepts(session[r], q.op)
           stop == ok /\ q.op = "finish"
<1>1. /\ thread[r].step = "top" /\ mailbox[r] # << >>
      /\ mailbox' = [mailbox EXCEPT ![r] = Tail(mailbox[r])]
      /\ session' = IF ok /\ ~ stop THEN [session EXCEPT ![r].state = Target[q.op]] ELSE session
      /\ past' = IF ok /\ q.op = "resume" THEN [past EXCEPT ![r].resumed = past[r].resumed + 1] ELSE past
      /\ recorder' = IF ~ q.awaited THEN recorder
                     ELSE IF stop THEN [recorder EXCEPT !.asking = "none", !.engine = None,
                                                        !.joining = recorder.joining \cup {r}]
                     ELSE [recorder EXCEPT !.asking = "none"]
      /\ Goes(r, IF stop THEN "drain" ELSE "top")
      /\ UNCHANGED << disk, files, device, writer, heard, left >>
  BY DEF Obey, At, vault
<1>2. q \in Message /\ Tail(mailbox[r]) \in Seq(Message)
  BY <1>1, HeadTailProperties DEF Types
<1>3. q.op \in Command
  BY <1>2 DEF Message
<1>4. ok /\ q.op = "resume" => session[r].state = "paused"
  BY DEF Accepts
<1>5. /\ q.op = "pause" => Target[q.op] = "paused"
      /\ q.op = "resume" => Target[q.op] = "recording"
      /\ q.op = "finish" => Target[q.op] = "uploading"
  BY DEF Target
<1> HIDE DEF q, ok
<1>6. PICK s : s = [session[r] EXCEPT !.state = Target[q.op]]
  OBVIOUS
<1>7. /\ s \in Session /\ s.state = Target[q.op] /\ s.recorded = session[r].recorded
      /\ s.discarded = session[r].discarded
  <2>1. session[r] \in Session
    BY DEF Types
  <2>2. Target[q.op] \in AppState
    BY <1>3, <1>5 DEF Command, AppState
  <2> QED
    BY <1>6, <2>1, <2>2 DEF Session
<1>8. \/ session' = session /\ (ok => stop)
      \/ session' = [session EXCEPT ![r] = s] /\ ok /\ ~ stop
  BY <1>1, <1>6
<1>9. PICK n \in Nat : n = past[r].resumed + 1
  BY Fields
<1>10. PICK p : p = [past[r] EXCEPT !.resumed = n]
  OBVIOUS
<1>11. p \in Past /\ p.resumed = past[r].resumed + 1 /\ p.kept = past[r].kept /\ p.failures = past[r].failures
  <2>1. past[r] \in Past
    BY DEF Types
  <2> QED
    BY <1>9, <1>10, <2>1 DEF Past
<1>12. \/ past' = past /\ ~ (ok /\ q.op = "resume")
       \/ past' = [past EXCEPT ![r] = p] /\ ok /\ q.op = "resume"
  BY <1>1, <1>9, <1>10
<1>13. /\ thread' \in [Recording -> Thread] /\ thread'[r].step \in {"top", "drain"}
       /\ thread'[r].phase = thread[r].phase
       /\ \A x \in Recording \ {r} : thread'[x] = thread[x]
  <2>1. CASE stop
    <3>1. Goes(r, "drain") /\ "drain" \in Step
      BY <1>1, <2>1 DEF Step
    <3> QED
      BY <3>1, GoesTo DEF Types
  <2>2. CASE ~ stop
    <3>1. Goes(r, "top") /\ "top" \in Step
      BY <1>1, <2>2 DEF Step
    <3> QED
      BY <3>1, GoesTo DEF Types
  <2> QED
    BY <2>1, <2>2
<1> HIDE DEF stop
<1>14. PICK h : h = [recorder EXCEPT !.asking = "none", !.engine = None,
                                     !.joining = recorder.joining \cup {r}]
  OBVIOUS
<1>15. PICK g : g = [recorder EXCEPT !.asking = "none"]
  OBVIOUS
<1>16. recorder \in Holder
  BY DEF Types
<1>17. /\ h \in Holder /\ h.engine = None /\ h.joining = recorder.joining \cup {r}
       /\ g \in Holder /\ g.engine = recorder.engine /\ g.joining = recorder.joining
  BY <1>14, <1>15, <1>16 DEF Holder
<1>18. /\ ~ q.awaited => recorder' = recorder
       /\ q.awaited => recorder' = h \/ recorder' = g
  BY <1>1, <1>14, <1>15
<1>19. /\ session' \in [Recording -> Session] /\ past' \in [Recording -> Past]
       /\ mailbox' \in [Recording -> Seq(Message)] /\ recorder' \in Holder
  <2>1. session' \in [Recording -> Session]
    BY <1>7, <1>8 DEF Types
  <2>2. past' \in [Recording -> Past]
    BY <1>11, <1>12 DEF Types
  <2>3. mailbox' \in [Recording -> Seq(Message)]
    BY <1>1, <1>2 DEF Types
  <2>4. recorder' \in Holder
    BY <1>16, <1>17, <1>18
  <2> QED
    BY <2>1, <2>2, <2>3, <2>4
<1>20. Types'
  BY <1>1, <1>13, <1>19 DEF Types
<1>21. Elsewhere(r)
  BY <1>1, <1>8, <1>12, <1>13 DEF Elsewhere, Same, Types
<1>22. /\ session'[r].recorded = session[r].recorded
       /\ session'[r].discarded = session[r].discarded
       /\ past'[r].kept = past[r].kept /\ past'[r].failures = past[r].failures
  BY <1>7, <1>8, <1>11, <1>12 DEF Types
<1>23. \/ past'[r].resumed = past[r].resumed /\ session'[r].state = session[r].state
       \/ past'[r].resumed = past[r].resumed /\ session'[r].state # "recording"
       \/ past'[r].resumed = past[r].resumed + 1 /\ session'[r].state = "recording"
  <2>1. CASE ok /\ q.op = "resume"
    <3>1. ~ stop
      BY <2>1 DEF stop
    <3>2. session'[r] = s /\ past'[r] = p
      BY <1>8, <1>12, <2>1, <3>1 DEF Types
    <3> QED
      BY <1>5, <1>7, <1>11, <2>1, <3>2
  <2>2. CASE ok /\ q.op = "pause"
    <3>1. ~ stop
      BY <2>2 DEF stop
    <3>2. session'[r] = s /\ past'[r] = past[r]
      BY <1>8, <1>12, <2>2, <3>1 DEF Types
    <3> QED
      BY <1>5, <1>7, <2>2, <3>2
  <2>3. CASE ~ ok \/ q.op = "finish"
    <3>1. session'[r] = session[r] /\ past'[r] = past[r]
      BY <1>8, <1>12, <2>3 DEF Types, stop
    <3> QED
      BY <3>1
  <2> QED
    BY <1>3, <2>1, <2>2, <2>3 DEF Command
<1>24. mailbox'[r] = Tail(mailbox[r]) /\ \A x \in Recording \ {r} : mailbox'[x] = mailbox[x]
  BY <1>1 DEF Types
<1>25. q.awaited =>
         /\ recorder'.engine = recorder.engine \/ (recorder'.engine = None /\ r \in recorder'.joining)
         /\ recorder.joining \subseteq recorder'.joining
  BY <1>17, <1>18
<1> QED
  BY <1>1, <1>13, <1>18, <1>20, <1>21, <1>22, <1>23, <1>24, <1>25 DEF q

\* Poll: the queue is handed over to the encoder, or dropped.
LEMMA PollDoes ==
  ASSUME Types, NEW r \in Recording, Poll(r)
  PROVE  /\ Types' /\ Elsewhere(r) /\ Quiet(r)
         /\ thread[r].step = "top" /\ thread'[r].phase = thread[r].phase
         /\ device'[r].queue = << >>
         /\ UNCHANGED << disk, files, past, heard >>
         /\ writer'[r].current = writer[r].current /\ writer'[r].closed = writer[r].closed
         /\ \/ /\ device[r].queue = << >> /\ UNCHANGED << writer, thread, session >>
            \/ /\ session[r].state = "recording" /\ UNCHANGED session
               /\ writer'[r].pending = writer[r].pending \o device[r].queue
               /\ thread'[r].step = "write" /\ thread'[r].polled = Len(device[r].queue)
            \/ /\ session[r].state # "recording" /\ UNCHANGED << writer, thread >>
               /\ session'[r].state = session[r].state
               /\ session'[r].recorded = session[r].recorded
<1> DEFINE batch == device[r].queue
<1>1. /\ thread[r].step = "top" /\ mailbox[r] = << >>
      /\ UNCHANGED << disk, files, recorder, mailbox, past, heard, left >>
  BY DEF Poll, At, vault
<1>2. PICK d : d = [queue |-> << >>, live |-> device[r].live, open |-> device[r].live]
  OBVIOUS
<1>3. d \in Device /\ d.queue = << >>
  BY <1>2, EmptySeq DEF Types, Device
<1>4. device' = [device EXCEPT ![r] = d]
  BY <1>2 DEF Poll
<1>5. /\ batch \in Seq(Chunk) /\ Len(batch) \in Nat /\ writer[r].pending \in Seq(Chunk)
      /\ session[r] \in Session
  BY Fields
<1> HIDE DEF batch
<1>6. writer[r].pending \o batch \in Seq(Chunk)
  BY <1>5, ConcatProperties
<1>7. PICK w : w = [writer[r] EXCEPT !.pending = writer[r].pending \o batch]
  OBVIOUS
<1>8. /\ w \in Writer /\ w.pending = writer[r].pending \o batch
      /\ w.current = writer[r].current /\ w.closed = writer[r].closed
  BY <1>6, <1>7 DEF Types, Writer
<1>9. PICK t : t = [thread[r] EXCEPT !.step = "write", !.polled = Len(batch)]
  OBVIOUS
<1>10. t \in Thread /\ t.step = "write" /\ t.polled = Len(batch) /\ t.phase = thread[r].phase
  BY <1>5, <1>9 DEF Types, Thread, Step
<1>11. PICK s : s = Counted(session[r], Len(batch))
  OBVIOUS
<1>12. /\ s \in Session /\ s.state = session[r].state
       /\ ~ Keeps(session[r]) => s.recorded = session[r].recorded
  BY <1>5, <1>11, CountedDoes
<1>13. \/ batch = << >> /\ UNCHANGED << writer, thread, session >>
       \/ /\ session[r].state = "recording" /\ UNCHANGED session
          /\ writer' = [writer EXCEPT ![r] = w] /\ thread' = [thread EXCEPT ![r] = t]
       \/ /\ session[r].state # "recording" /\ UNCHANGED << writer, thread >>
          /\ session' = [session EXCEPT ![r] = s]
  BY <1>7, <1>9, <1>11 DEF Poll, Keeps, batch
<1>14. Types'
  BY <1>1, <1>3, <1>4, <1>8, <1>10, <1>12, <1>13 DEF Types
<1>15. Elsewhere(r)
  BY <1>1, <1>4, <1>13 DEF Elsewhere, Same, Types
<1>16. device'[r] = d
  BY <1>4 DEF Types
<1>17. \/ batch = << >> /\ UNCHANGED << writer, thread, session >>
       \/ /\ session[r].state = "recording" /\ UNCHANGED session
          /\ writer'[r] = w /\ thread'[r] = t
       \/ /\ session[r].state # "recording" /\ UNCHANGED << writer, thread >>
          /\ session'[r] = s
  BY <1>13 DEF Types
<1>18. /\ writer'[r].current = writer[r].current /\ writer'[r].closed = writer[r].closed
       /\ thread'[r].phase = thread[r].phase /\ thread'[r].step \in {"top", "write"}
  BY <1>1, <1>8, <1>10, <1>17
<1>19. Quiet(r)
  BY <1>1, <1>15, <1>18 DEF Quiet, Running, Elsewhere, Same
<1>20. \/ batch = << >> /\ UNCHANGED << writer, thread, session >>
       \/ /\ session[r].state = "recording" /\ UNCHANGED session
          /\ writer'[r].pending = writer[r].pending \o batch
          /\ thread'[r].step = "write" /\ thread'[r].polled = Len(batch)
       \/ /\ session[r].state # "recording" /\ UNCHANGED << writer, thread >>
          /\ session'[r].state = session[r].state
          /\ session'[r].recorded = session[r].recorded
  BY <1>8, <1>10, <1>12, <1>17 DEF Keeps
<1> QED
  BY <1>1, <1>3, <1>14, <1>15, <1>16, <1>18, <1>19, <1>20 DEF batch

\* NothingRuns: the thread drains.
LEMMA NothingRunsDoes ==
  ASSUME Types, NEW r \in Recording, NothingRuns(r)
  PROVE  /\ Types' /\ Elsewhere(r) /\ Quiet(r)
         /\ thread[r].step = "top" /\ thread'[r].step = "drain"
         /\ thread'[r].phase = thread[r].phase
         /\ UNCHANGED << disk, files, device, session, writer, past, heard >>
<1>1. /\ thread[r].step = "top" /\ Goes(r, "drain") /\ "drain" \in Step
      /\ UNCHANGED << disk, files, recorder, mailbox, device, session, writer, past, heard, left >>
  BY DEF NothingRuns, At, vault, Step
<1>2. /\ thread' \in [Recording -> Thread] /\ thread'[r].step = "drain"
      /\ thread'[r].phase = thread[r].phase
      /\ \A q \in Recording \ {r} : thread'[q] = thread[q]
  BY <1>1, GoesTo DEF Types
<1> QED
  BY <1>1, <1>2 DEF Types, Elsewhere, Same, Quiet, Running

\* Encode: the open segment takes the first of what is handed over.
LEMMA EncodeDoes ==
  ASSUME Types, NEW r \in Recording, Encode(r)
  PROVE  /\ Types' /\ Elsewhere(r) /\ Quiet(r)
         /\ thread[r].step = "write" /\ thread'[r].step \in {"write", "put"}
         /\ thread'[r].phase = thread[r].phase /\ thread'[r].polled = thread[r].polled
         /\ \E taken, rest \in Seq(Chunk) :
              /\ writer[r].pending = taken \o rest
              /\ Len(writer[r].current) <= SegmentChunks
                   => Len(writer[r].current) + Len(taken) <= SegmentChunks
              /\ writer'[r].pending = rest
              /\ writer'[r].current = writer[r].current \o taken
              /\ past'[r].kept = past[r].kept \o taken
         /\ thread'[r].step = "put" => writer'[r].current # << >>
         /\ writer'[r].closed = writer[r].closed
         /\ past'[r].failures = past[r].failures /\ past'[r].resumed = past[r].resumed
         /\ UNCHANGED << disk, files, device, session, heard >>
<1> DEFINE w == writer[r]
           room == Capacity - Len(w.current)
           k == IF Len(w.pending) < room THEN Len(w.pending) ELSE room
           taken == SubSeq(w.pending, 1, k)
           rest == SubSeq(w.pending, Len(taken) + 1, Len(w.pending))
           after == [w EXCEPT !.pending = rest, !.current = w.current \o taken]
<1>1. w \in Writer /\ past[r] \in Past
  BY DEF Types
<1>2. /\ w.pending \in Seq(Chunk) /\ w.current \in Seq(Chunk) /\ past[r].kept \in Seq(Chunk)
      /\ Len(w.pending) \in Nat /\ Len(w.current) \in Nat
  BY Fields
<1>20. SegmentChunks \in Int /\ room = SegmentChunks - Len(w.current)
  BY RecordingAssumption DEF Capacity
<1>21. room \in Int
  BY <1>2, <1>20
<1> HIDE DEF room
<1>4. k \in Int /\ k <= Len(w.pending) /\ k <= room
  BY <1>2, <1>21
<1> HIDE DEF k
<1>5. taken \in Seq(Chunk) /\ rest \in Seq(Chunk) /\ Len(taken) = IF k > 0 THEN k ELSE 0
  BY <1>2, <1>4, Cut
<1>3. w.pending = taken \o rest
  BY <1>2, <1>4, TwoHalves
<1>6. w.current \o taken \in Seq(Chunk) /\ past[r].kept \o taken \in Seq(Chunk)
  BY <1>2, <1>5, ConcatProperties
<1>7. writer' = [writer EXCEPT ![r] = after]
  BY DEF Encode, k, room
<1>8. past' = [past EXCEPT ![r].kept = past[r].kept \o taken]
  BY DEF Encode, k, room
<1>9. /\ thread[r].step = "write"
      /\ UNCHANGED << disk, files, recorder, mailbox, device, session, heard, left >>
  BY DEF Encode, vault, At
<1>16. (Full(after) /\ Goes(r, "put")) \/ UNCHANGED thread
  BY DEF Encode, k, room
<1>17. Len(w.current) <= SegmentChunks => Len(w.current) + Len(taken) <= SegmentChunks
  <2>1. CASE k > 0
    <3>1. Len(taken) = k
      BY <1>5, <2>1
    <3>2. Len(w.current) + k <= SegmentChunks
      BY <1>2, <1>4, <1>20, <1>21
    <3> QED
      BY <3>1, <3>2
  <2>2. CASE ~ (k > 0)
    <3>1. Len(taken) = 0
      BY <1>5, <2>2
    <3>2. Len(w.current) + 0 = Len(w.current)
      BY <1>2
    <3> QED
      BY <3>1, <3>2
  <2> QED
    BY <2>1, <2>2
<1> HIDE DEF taken, rest
<1>10. /\ writer' \in [Recording -> Writer] /\ past' \in [Recording -> Past]
       /\ after.current = w.current \o taken
  BY <1>1, <1>5, <1>6, <1>7, <1>8 DEF Types, Writer, Past
<1>11. /\ thread' \in [Recording -> Thread] /\ thread'[r].step \in {"write", "put"}
       /\ thread'[r].phase = thread[r].phase /\ thread'[r].polled = thread[r].polled
       /\ \A q \in Recording \ {r} : thread'[q] = thread[q]
  <2>1. CASE Goes(r, "put")
    <3>1. "put" \in Step
      BY DEF Step
    <3> QED
      BY <2>1, <3>1, GoesTo DEF Types
  <2>2. CASE UNCHANGED thread
    BY <1>9, <2>2 DEF Types
  <2> QED
    BY <1>16, <2>1, <2>2
<1>12. Types'
  BY <1>9, <1>10, <1>11 DEF Types
<1>14. Elsewhere(r)
  BY <1>7, <1>8, <1>9, <1>11 DEF Elsewhere, Same, Types
<1>15. /\ writer'[r].pending = rest
       /\ writer'[r].current = writer[r].current \o taken
       /\ past'[r].kept = past[r].kept \o taken
       /\ writer'[r].closed = writer[r].closed
       /\ past'[r].failures = past[r].failures /\ past'[r].resumed = past[r].resumed
  BY <1>7, <1>8 DEF Types, Writer, Past
<1>18. thread'[r].step = "put" => writer'[r].current # << >>
  <2>1. ASSUME thread'[r].step = "put" PROVE writer'[r].current # << >>
    <3>1. Full(after)
      BY <2>1, <1>9, <1>16
    <3>2. Len(w.current \o taken) >= SegmentChunks
      BY <1>10, <3>1 DEF Full, Capacity
    <3>3. w.current \o taken # << >>
      BY <3>2, EmptySeq, RecordingAssumption
    <3> QED
      BY <1>15, <3>3
  <2> QED
    BY <2>1
<1>19. Quiet(r)
  BY <1>9, <1>11 DEF Quiet, Running
<1> QED
  BY <1>3, <1>5, <1>9, <1>11, <1>12, <1>14, <1>15, <1>17, <1>18, <1>19

\* Written: the poll is billed, and the loop goes on within its budget.
LEMMA WrittenDoes ==
  ASSUME Types, NEW r \in Recording, Written(r), session[r].state = "recording"
  PROVE  /\ Types' /\ Elsewhere(r) /\ Quiet(r)
         /\ thread[r].step = "write" /\ thread[r].phase = "loop"
         /\ thread'[r].step \in {"top", "drain"} /\ thread'[r].phase = "loop"
         /\ writer[r].pending = << >>
         /\ session'[r].recorded = session[r].recorded + thread[r].polled
         /\ session'[r].discarded = session[r].discarded
         /\ session'[r].state = "recording"
         /\ thread'[r].step = "top" => session'[r].recorded < Limit
         /\ UNCHANGED << disk, files, device, writer, past, heard >>
<1>1. session[r] \in Session /\ thread[r].polled \in Nat /\ thread[r] \in Thread
  BY Fields DEF Types
<1>2. PICK s : s = Counted(session[r], thread[r].polled)
  OBVIOUS
<1>3. /\ s \in Session /\ s.state = "recording"
      /\ s.recorded = session[r].recorded + thread[r].polled
      /\ s.discarded = session[r].discarded
  BY <1>1, <1>2, CountedDoes DEF Keeps
<1>4. PICK x \in {"top", "drain"} : x = IF OverLimit(s) THEN "drain" ELSE "top"
  OBVIOUS
<1>5. PICK t : t = [thread[r] EXCEPT !.step = x, !.polled = 0]
  OBVIOUS
<1>6. t \in Thread /\ t.step = x /\ t.phase = thread[r].phase
  BY <1>1, <1>4, <1>5 DEF Thread, Step
<1>7. /\ thread[r].step = "write" /\ thread[r].phase = "loop" /\ writer[r].pending = << >>
      /\ session' = [session EXCEPT ![r] = s] /\ thread' = [thread EXCEPT ![r] = t]
      /\ UNCHANGED << disk, files, recorder, mailbox, device, writer, past, heard, left >>
  BY <1>2, <1>4, <1>5 DEF Written, At, vault
<1>8. session'[r] = s /\ thread'[r] = t
  BY <1>7 DEF Types
<1>9. Types'
  BY <1>3, <1>6, <1>7 DEF Types
<1>10. Elsewhere(r)
  BY <1>7 DEF Elsewhere, Same, Types
<1>11. x = "top" => s.recorded < Limit
  BY <1>3, <1>4, RecordingAssumption DEF OverLimit, Keeps, Session
<1>12. Quiet(r)
  BY <1>4, <1>6, <1>7, <1>8, <1>10 DEF Quiet, Running, Elsewhere, Same
<1> QED
  BY <1>3, <1>4, <1>6, <1>7, <1>8, <1>9, <1>10, <1>11, <1>12

\* Drain: the devices are silent, their tail handed over or dropped.
LEMMA DrainDoes ==
  ASSUME Types, NEW r \in Recording, Drain(r)
  PROVE  /\ Types' /\ Elsewhere(r) /\ Quiet(r)
         /\ thread[r].step = "drain"
         /\ device'[r].queue = << >> /\ ~ device'[r].live
         /\ writer'[r].current = writer[r].current /\ writer'[r].closed = writer[r].closed
         /\ session'[r].recorded = session[r].recorded
         /\ session'[r].discarded = session[r].discarded
         /\ UNCHANGED << disk, files, past, heard >>
         /\ \/ /\ session[r].state = "recording" /\ UNCHANGED session
               /\ writer'[r].pending = writer[r].pending \o device[r].queue
               /\ thread'[r].step = "write" /\ thread'[r].phase = "tail"
               /\ thread'[r].polled = Len(device[r].queue)
            \/ /\ UNCHANGED writer
               /\ thread'[r].step = "flush" /\ thread'[r].phase = "finish"
               /\ session'[r].state = "uploading"
<1> DEFINE tail == device[r].queue
<1>1. /\ thread[r].step = "drain"
      /\ UNCHANGED << disk, files, recorder, mailbox, past, heard, left >>
  BY DEF Drain, At, vault
<1>2. Silent \in Device /\ Silent.queue = << >> /\ ~ Silent.live
  BY EmptySeq DEF Silent, Device
<1>3. device' = [device EXCEPT ![r] = Silent]
  BY DEF Drain
<1>4. /\ tail \in Seq(Chunk) /\ Len(tail) \in Nat /\ writer[r].pending \in Seq(Chunk)
      /\ session[r] \in Session /\ thread[r] \in Thread /\ writer[r] \in Writer
  BY Fields DEF Types
<1> HIDE DEF tail
<1>5. writer[r].pending \o tail \in Seq(Chunk)
  BY <1>4, ConcatProperties
<1>6. PICK w : w = [writer[r] EXCEPT !.pending = writer[r].pending \o tail]
  OBVIOUS
<1>7. /\ w \in Writer /\ w.pending = writer[r].pending \o tail
      /\ w.current = writer[r].current /\ w.closed = writer[r].closed
  BY <1>4, <1>5, <1>6 DEF Writer
<1>8. PICK t : t = [thread[r] EXCEPT !.step = "write", !.phase = "tail", !.polled = Len(tail)]
  OBVIOUS
<1>9. t \in Thread /\ t.step = "write" /\ t.phase = "tail" /\ t.polled = Len(tail)
  BY <1>4, <1>8 DEF Thread, Step, Phase
<1>10. PICK u : u = [thread[r] EXCEPT !.step = "flush", !.phase = "finish"]
  OBVIOUS
<1>11. u \in Thread /\ u.step = "flush" /\ u.phase = "finish"
  BY <1>4, <1>10 DEF Thread, Step, Phase
<1>12. PICK s : s = [session[r] EXCEPT !.state = "uploading"]
  OBVIOUS
<1>13. /\ s \in Session /\ s.state = "uploading" /\ s.recorded = session[r].recorded
       /\ s.discarded = session[r].discarded
  BY <1>4, <1>12 DEF Session, AppState
<1>14. \/ /\ session[r].state = "recording" /\ UNCHANGED session
          /\ writer' = [writer EXCEPT ![r] = w] /\ thread' = [thread EXCEPT ![r] = t]
       \/ /\ UNCHANGED writer /\ session' = [session EXCEPT ![r] = s]
          /\ thread' = [thread EXCEPT ![r] = u]
  BY <1>6, <1>8, <1>10, <1>12 DEF Drain, KeepsTail, Keeps, tail
<1>15. Types'
  BY <1>1, <1>2, <1>3, <1>7, <1>9, <1>11, <1>13, <1>14 DEF Types
<1>16. Elsewhere(r)
  BY <1>1, <1>3, <1>14 DEF Elsewhere, Same, Types
<1>17. device'[r] = Silent
  BY <1>3 DEF Types
<1>18. \/ /\ session[r].state = "recording" /\ UNCHANGED session
          /\ writer'[r] = w /\ thread'[r] = t
       \/ /\ UNCHANGED writer /\ session'[r] = s /\ thread'[r] = u
  BY <1>14 DEF Types
<1>19. Quiet(r)
  BY <1>1, <1>9, <1>11, <1>16, <1>18 DEF Quiet, Running, Elsewhere, Same
<1>20. /\ writer'[r].current = writer[r].current /\ writer'[r].closed = writer[r].closed
       /\ session'[r].recorded = session[r].recorded
       /\ session'[r].discarded = session[r].discarded
  BY <1>7, <1>13, <1>18
<1>21. \/ /\ session[r].state = "recording" /\ UNCHANGED session
          /\ writer'[r].pending = writer[r].pending \o tail
          /\ thread'[r].step = "write" /\ thread'[r].phase = "tail"
          /\ thread'[r].polled = Len(tail)
       \/ /\ UNCHANGED writer
          /\ thread'[r].step = "flush" /\ thread'[r].phase = "finish"
          /\ session'[r].state = "uploading"
  BY <1>7, <1>9, <1>11, <1>13, <1>18
<1> QED
  BY <1>1, <1>2, <1>15, <1>16, <1>17, <1>19, <1>20, <1>21 DEF tail

\* TailWritten: the tail is billed.
LEMMA TailWrittenDoes ==
  ASSUME Types, NEW r \in Recording, TailWritten(r), session[r].state = "recording"
  PROVE  /\ Types' /\ Elsewhere(r) /\ Quiet(r)
         /\ thread[r].step = "write" /\ thread[r].phase = "tail"
         /\ thread'[r].step = "flush" /\ thread'[r].phase = "finish"
         /\ writer[r].pending = << >>
         /\ session'[r].recorded = session[r].recorded + thread[r].polled
         /\ UNCHANGED << disk, files, device, writer, past, heard >>
<1>1. session[r] \in Session /\ thread[r].polled \in Nat /\ thread[r] \in Thread
  BY Fields DEF Types
<1>2. PICK s : s = CountedThenFinished(session[r], thread[r].polled)
  OBVIOUS
<1>3. s \in Session /\ s.recorded = session[r].recorded + thread[r].polled
  BY <1>1, <1>2, FinishedDoes DEF Keeps
<1>5. PICK t : t = [thread[r] EXCEPT !.step = "flush", !.phase = "finish"]
  OBVIOUS
<1>6. t \in Thread /\ t.step = "flush" /\ t.phase = "finish"
  BY <1>1, <1>5 DEF Thread, Step, Phase
<1>7. /\ thread[r].step = "write" /\ thread[r].phase = "tail" /\ writer[r].pending = << >>
      /\ session' = [session EXCEPT ![r] = s] /\ thread' = [thread EXCEPT ![r] = t]
      /\ UNCHANGED << disk, files, recorder, mailbox, device, writer, past, heard, left >>
  BY <1>2, <1>5 DEF TailWritten, At, vault
<1>8. session'[r] = s /\ thread'[r] = t
  BY <1>7 DEF Types
<1>9. Types'
  BY <1>3, <1>6, <1>7 DEF Types
<1>10. Elsewhere(r)
  BY <1>7 DEF Elsewhere, Same, Types
<1>12. Quiet(r)
  BY <1>6, <1>7, <1>8, <1>10 DEF Quiet, Running, Elsewhere, Same
<1> QED
  BY <1>3, <1>6, <1>7, <1>8, <1>9, <1>10, <1>12

\* Flush: one chunk of what is left goes into the open segment.
LEMMA FlushDoes ==
  ASSUME Types, NEW r \in Recording, Flush(r)
  PROVE  /\ Types' /\ Elsewhere(r) /\ Quiet(r)
         /\ thread[r].step = "flush" /\ thread'[r].step \in {"note", "put"}
         /\ thread'[r].phase = thread[r].phase
         /\ writer'[r].pending = << >> /\ writer'[r].closed = writer[r].closed
         /\ past'[r].failures = past[r].failures /\ past'[r].resumed = past[r].resumed
         /\ \E rest, lost \in Seq(Chunk) :
              /\ writer[r].pending = rest \o lost
              /\ writer'[r].current = writer[r].current \o rest
              /\ past'[r].kept = past[r].kept \o rest
         /\ thread'[r].step = "put" <=> writer'[r].current # << >>
         /\ UNCHANGED << disk, files, device, session, heard >>
<1> DEFINE w == writer[r]
           k == IF w.pending = << >> THEN 0 ELSE 1
           rest == SubSeq(w.pending, 1, k)
           lost == SubSeq(w.pending, Len(rest) + 1, Len(w.pending))
           after == [w EXCEPT !.pending = << >>, !.current = w.current \o rest]
<1>1. w \in Writer /\ past[r] \in Past
  BY DEF Types
<1>2. /\ w.pending \in Seq(Chunk) /\ w.current \in Seq(Chunk) /\ past[r].kept \in Seq(Chunk)
      /\ Len(w.pending) \in Nat /\ Len(w.current) \in Nat
  BY Fields
<1>4. k \in Int /\ k <= Len(w.pending)
  BY <1>2, EmptySeq
<1> HIDE DEF k
<1>5. rest \in Seq(Chunk) /\ lost \in Seq(Chunk)
  BY <1>2, <1>4, Cut
<1>3. w.pending = rest \o lost
  BY <1>2, <1>4, TwoHalves
<1>6. w.current \o rest \in Seq(Chunk) /\ past[r].kept \o rest \in Seq(Chunk) /\ << >> \in Seq(Chunk)
  BY <1>2, <1>5, ConcatProperties, EmptySeq
<1>7. writer' = [writer EXCEPT ![r] = after]
  BY DEF Flush, k
<1>8. past' = [past EXCEPT ![r].kept = past[r].kept \o rest]
  BY DEF Flush, k
<1>9. /\ thread[r].step = "flush"
      /\ UNCHANGED << disk, files, recorder, mailbox, device, session, heard, left >>
  BY DEF Flush, vault, At
<1>16. Goes(r, IF w.current \o rest = << >> THEN "note" ELSE "put")
  BY DEF Flush, k
<1> HIDE DEF rest, lost
<1>10. /\ writer' \in [Recording -> Writer] /\ past' \in [Recording -> Past]
  BY <1>1, <1>5, <1>6, <1>7, <1>8 DEF Types, Writer, Past
<1>11. /\ thread' \in [Recording -> Thread]
       /\ thread'[r].step = IF w.current \o rest = << >> THEN "note" ELSE "put"
       /\ thread'[r].phase = thread[r].phase
       /\ \A q \in Recording \ {r} : thread'[q] = thread[q]
  <2>1. PICK x \in Step : x = IF w.current \o rest = << >> THEN "note" ELSE "put"
    BY DEF Step
  <2> QED
    BY <1>16, <2>1, GoesTo DEF Types
<1>12. Types'
  BY <1>9, <1>10, <1>11 DEF Types
<1>14. Elsewhere(r)
  BY <1>7, <1>8, <1>9, <1>11 DEF Elsewhere, Same, Types
<1>15. /\ writer'[r].pending = << >>
       /\ writer'[r].current = writer[r].current \o rest
       /\ past'[r].kept = past[r].kept \o rest
       /\ writer'[r].closed = writer[r].closed
       /\ past'[r].failures = past[r].failures /\ past'[r].resumed = past[r].resumed
  BY <1>7, <1>8 DEF Types, Writer, Past
<1>18. thread'[r].step = "put" <=> writer'[r].current # << >>
  BY <1>11, <1>15
<1>20. thread'[r].step \in {"note", "put"}
  BY <1>11
<1>19. Quiet(r)
  BY <1>9, <1>11, <1>20 DEF Quiet, Running
<1> QED
  BY <1>3, <1>5, <1>9, <1>11, <1>12, <1>14, <1>15, <1>18, <1>19, <1>20

\* Ends: the thread is over, with its encoder and its requests.
LEMMA EndsDoes ==
  ASSUME Types, NEW r \in Recording, NEW success \in BOOLEAN, Ends(r, success)
  PROVE  /\ thread' \in [Recording -> Thread] /\ writer' \in [Recording -> Writer]
         /\ mailbox' \in [Recording -> Seq(Message)]
         /\ thread'[r].step = "ended" /\ thread'[r].phase = thread[r].phase
         /\ writer'[r].pending = << >> /\ writer'[r].current = << >> /\ writer'[r].closed = 0
         /\ mailbox'[r] = << >>
         /\ \A q \in Recording \ {r} :
              thread'[q] = thread[q] /\ writer'[q] = writer[q] /\ mailbox'[q] = mailbox[q]
<1>1. PICK t : t = [thread[r] EXCEPT !.step = "ended", !.polled = 0, !.ok = success]
  OBVIOUS
<1>2. thread[r] \in Thread
  BY DEF Types
<1>3. t \in Thread /\ t.step = "ended" /\ t.phase = thread[r].phase
  BY <1>1, <1>2 DEF Thread, Step
<1>4. thread' = [thread EXCEPT ![r] = t]
  BY <1>1 DEF Ends
<1>5. Fresh \in Writer /\ Fresh.pending = << >> /\ Fresh.current = << >> /\ Fresh.closed = 0
  BY EmptySeq DEF Fresh, Writer
<1>6. writer' = [writer EXCEPT ![r] = Fresh] /\ mailbox' = [mailbox EXCEPT ![r] = << >>]
  BY DEF Ends
<1>7. << >> \in Seq(Message)
  BY EmptySeq
<1> HIDE DEF Fresh
<1>8. thread'[r] = t /\ writer'[r] = Fresh /\ mailbox'[r] = << >>
  BY <1>4, <1>6 DEF Types
<1>9. /\ thread' \in [Recording -> Thread] /\ writer' \in [Recording -> Writer]
      /\ mailbox' \in [Recording -> Seq(Message)]
  BY <1>3, <1>4, <1>5, <1>6, <1>7 DEF Types
<1>10. \A q \in Recording \ {r} :
         thread'[q] = thread[q] /\ writer'[q] = writer[q] /\ mailbox'[q] = mailbox[q]
  BY <1>4, <1>6 DEF Types
<1> QED
  BY <1>3, <1>5, <1>8, <1>9, <1>10

\* What becomes of a recording of which a write failed: the loop goes to the
\* tail, the tail is counted, and the end is the end.
Aftermath(r) ==
  /\ writer'[r].current = << >>
  /\ thread'[r].step \in {"drain", "flush"} =>
       writer'[r].pending = writer[r].pending /\ writer'[r].closed = writer[r].closed
  /\ \/ /\ thread[r].phase = "loop" /\ session'[r] = session[r]
        /\ thread'[r].step = "drain" /\ thread'[r].phase = "loop"
     \/ /\ thread[r].phase = "tail" /\ session'[r].recorded <= session[r].recorded + thread[r].polled
        /\ thread'[r].step = "flush" /\ thread'[r].phase = "finish"
     \/ /\ thread[r].phase = "finish" /\ session'[r] = session[r]
        /\ thread'[r].step = "ended" /\ thread'[r].phase = "finish"
        /\ writer'[r].pending = << >> /\ writer'[r].closed = 0

\* Fails: the thread goes on as Aftermath says, in each phase.
LEMMA FailsDoes ==
  ASSUME Types, NEW r \in Recording, NEW failing \in Writer, Fails(r, failing), Running(r),
         recorder' = recorder,
         failing.current = << >>, failing.pending = writer[r].pending, failing.closed = writer[r].closed
  PROVE  /\ thread' \in [Recording -> Thread] /\ writer' \in [Recording -> Writer]
         /\ mailbox' \in [Recording -> Seq(Message)] /\ session' \in [Recording -> Session]
         /\ \A q \in Recording \ {r} :
              thread'[q] = thread[q] /\ writer'[q] = writer[q] /\ session'[q] = session[q]
         /\ Quiet(r) /\ Aftermath(r)
<1>1. /\ session[r] \in Session /\ thread[r].polled \in Nat /\ thread[r] \in Thread
      /\ thread[r].phase \in Phase
  BY Fields DEF Types
<1>2. CASE thread[r].phase = "loop"
  <2>1. PICK t : t = [thread[r] EXCEPT !.step = "drain", !.failed = TRUE]
    OBVIOUS
  <2>2. t \in Thread /\ t.step = "drain" /\ t.phase = "loop"
    BY <1>1, <1>2, <2>1 DEF Thread, Step
  <2>3. /\ thread' = [thread EXCEPT ![r] = t] /\ writer' = [writer EXCEPT ![r] = failing]
        /\ session' = session /\ mailbox' = mailbox
    BY <1>2, <2>1 DEF Fails
  <2>4. thread'[r] = t /\ writer'[r] = failing
    BY <2>3 DEF Types
  <2>5. /\ thread' \in [Recording -> Thread] /\ writer' \in [Recording -> Writer]
        /\ mailbox' \in [Recording -> Seq(Message)] /\ session' \in [Recording -> Session]
    BY <2>2, <2>3 DEF Types
  <2>6. \A q \in Recording \ {r} :
          thread'[q] = thread[q] /\ writer'[q] = writer[q] /\ session'[q] = session[q]
    BY <2>3 DEF Types
  <2>7. Quiet(r)
    BY <2>2, <2>3, <2>4, <2>6 DEF Quiet, Running
  <2>8. Aftermath(r)
    BY <1>2, <2>2, <2>3, <2>4 DEF Aftermath
  <2> QED
    BY <2>5, <2>6, <2>7, <2>8
<1>3. CASE thread[r].phase = "tail"
  <2>1. PICK t : t = [thread[r] EXCEPT !.step = "flush", !.phase = "finish", !.failed = TRUE]
    OBVIOUS
  <2>2. t \in Thread /\ t.step = "flush" /\ t.phase = "finish"
    BY <1>1, <1>3, <2>1 DEF Thread, Step, Phase
  <2>9. PICK s : s = CountedThenFinished(session[r], thread[r].polled)
    OBVIOUS
  <2>10. s \in Session /\ s.recorded <= session[r].recorded + thread[r].polled
    BY <1>1, <2>9, FinishedDoes
  <2>11. thread[r].phase # "loop"
    BY <1>3
  <2>3. /\ thread' = [thread EXCEPT ![r] = t] /\ writer' = [writer EXCEPT ![r] = failing]
        /\ session' = [session EXCEPT ![r] = s] /\ mailbox' = mailbox
    BY <1>3, <2>1, <2>9, <2>11 DEF Fails
  <2>4. thread'[r] = t /\ writer'[r] = failing /\ session'[r] = s
    BY <2>3 DEF Types
  <2>5. /\ thread' \in [Recording -> Thread] /\ writer' \in [Recording -> Writer]
        /\ mailbox' \in [Recording -> Seq(Message)] /\ session' \in [Recording -> Session]
    BY <2>2, <2>3, <2>10 DEF Types
  <2>6. \A q \in Recording \ {r} :
          thread'[q] = thread[q] /\ writer'[q] = writer[q] /\ session'[q] = session[q]
    BY <2>3 DEF Types
  <2>7. Quiet(r)
    BY <2>2, <2>3, <2>4, <2>6 DEF Quiet, Running
  <2>8. Aftermath(r)
    BY <1>3, <2>2, <2>4, <2>10 DEF Aftermath
  <2> QED
    BY <2>5, <2>6, <2>7, <2>8
<1>4. CASE thread[r].phase = "finish"
  <2>1. thread[r].phase # "loop" /\ thread[r].phase # "tail"
    BY <1>4
  <2>2. Ends(r, FALSE) /\ session' = session
    BY <1>4, <2>1 DEF Fails
  <2>3. /\ thread' \in [Recording -> Thread] /\ writer' \in [Recording -> Writer]
        /\ mailbox' \in [Recording -> Seq(Message)]
        /\ thread'[r].step = "ended" /\ thread'[r].phase = thread[r].phase
        /\ writer'[r].pending = << >> /\ writer'[r].current = << >> /\ writer'[r].closed = 0
        /\ mailbox'[r] = << >>
        /\ \A q \in Recording \ {r} :
             thread'[q] = thread[q] /\ writer'[q] = writer[q] /\ mailbox'[q] = mailbox[q]
    BY <2>2, EndsDoes
  <2>4. session' \in [Recording -> Session]
    BY <2>2 DEF Types
  <2>5. Quiet(r)
    BY <2>3 DEF Quiet
  <2>6. Aftermath(r)
    BY <1>4, <2>2, <2>3 DEF Aftermath
  <2> QED
    BY <2>2, <2>3, <2>4, <2>5, <2>6
<1> QED
  BY <1>1, <1>2, <1>3, <1>4 DEF Phase

\* What every failed write has in common.
Failure(r) ==
  /\ Running(r) /\ Aftermath(r)
  /\ past'[r].failures = past[r].failures + 1
  /\ past'[r].kept = past[r].kept /\ past'[r].resumed = past[r].resumed
  /\ \A i \in Index : i # writer[r].closed + 1 => files'[r][i] = files[r][i]
  /\ UNCHANGED << disk, device, heard >>

\* Emptied: only the open segment goes.
LEMMA EmptiedDoes ==
  ASSUME Types, NEW r \in Recording
  PROVE  /\ Emptied(writer[r]) \in Writer
         /\ Emptied(writer[r]).current = << >> /\ Emptied(writer[r]).pending = writer[r].pending
         /\ Emptied(writer[r]).closed = writer[r].closed /\ Emptied(writer[r]).named = writer[r].named
<1>1. PICK w : w = [writer[r] EXCEPT !.current = << >>]
  OBVIOUS
<1>2. writer[r] \in Writer
  BY DEF Types
<1>3. << >> \in Seq(Chunk)
  BY EmptySeq
<1>4. /\ w \in Writer /\ w.current = << >> /\ w.pending = writer[r].pending
      /\ w.closed = writer[r].closed /\ w.named = writer[r].named
  BY <1>1, <1>2, <1>3 DEF Writer
<1> QED
  BY <1>1, <1>4 DEF Emptied

\* PutSegment: one file, the one after those the encoder closed.
LEMMA PutSegmentDoes ==
  ASSUME Types, NEW r \in Recording, PutSegment(r)
  PROVE  /\ Types' /\ Elsewhere(r) /\ Quiet(r)
         /\ thread[r].step = "put" /\ thread'[r].step = "save"
         /\ thread'[r].phase = thread[r].phase /\ thread'[r].polled = thread[r].polled
         /\ \A i \in Index : i # writer[r].closed + 1 => files'[r][i] = files[r][i]
         /\ writer[r].closed + 1 \in Index => files'[r][writer[r].closed + 1] = writer[r].current
         /\ UNCHANGED << disk, device, session, writer, past, heard >>
<1>1. /\ thread[r].step = "put" /\ Goes(r, "save") /\ "save" \in Step
      /\ files' = [files EXCEPT ![r][writer[r].closed + 1] = writer[r].current]
      /\ UNCHANGED << disk, recorder, mailbox, device, session, writer, past, heard, left >>
  BY DEF PutSegment, At, Step
<1>2. /\ thread' \in [Recording -> Thread] /\ thread'[r].step = "save"
      /\ thread'[r].phase = thread[r].phase /\ thread'[r].polled = thread[r].polled
      /\ \A q \in Recording \ {r} : thread'[q] = thread[q]
  BY <1>1, GoesTo DEF Types
<1>3. writer[r].closed \in Nat /\ writer[r].current \in Seq(Chunk) /\ files[r] \in [Index -> Seq(Chunk)]
  BY Fields DEF Types
<1>4. PICK n \in Nat : n = writer[r].closed + 1
  BY <1>3
<1>5. PICK f : f = [files[r] EXCEPT ![n] = writer[r].current]
  OBVIOUS
<1>6. /\ f \in [Index -> Seq(Chunk)]
      /\ \A i \in Index : f[i] = IF i = n THEN writer[r].current ELSE files[r][i]
  BY <1>3, <1>5
<1>7. files' = [files EXCEPT ![r] = f]
  BY <1>1, <1>4, <1>5
<1>8. files' \in [Recording -> [Index -> Seq(Chunk)]] /\ files'[r] = f
  BY <1>6, <1>7 DEF Types
<1>9. \A i \in Index : i # n => f[i] = files[r][i]
  BY <1>3, <1>5
<1>10. Types'
  BY <1>1, <1>2, <1>8 DEF Types
<1>11. Elsewhere(r)
  BY <1>1, <1>2, <1>7 DEF Elsewhere, Same, Types
<1>12. Quiet(r)
  BY <1>1, <1>2 DEF Quiet, Running
<1> QED
  BY <1>1, <1>2, <1>4, <1>6, <1>8, <1>9, <1>10, <1>11, <1>12

\* PutFails is a Failure, in that same file.
LEMMA PutFailsDoes ==
  ASSUME Types, NEW r \in Recording, PutFails(r)
  PROVE  /\ Types' /\ Elsewhere(r) /\ Quiet(r) /\ Failure(r)
         /\ thread[r].step = "put"
<1>1. /\ thread[r].step = "put" /\ Refused(r, "put") /\ Fails(r, Emptied(writer[r]))
      /\ files' = [files EXCEPT ![r][writer[r].closed + 1] = Torn]
      /\ UNCHANGED << disk, recorder, device, heard >>
  BY DEF PutFails, At
<1>2. /\ past' \in [Recording -> Past] /\ left' \in Allowance
      /\ past'[r].failures = past[r].failures + 1
      /\ past'[r].kept = past[r].kept /\ past'[r].resumed = past[r].resumed
      /\ \A q \in Recording \ {r} : past'[q] = past[q]
  BY <1>1, RefusedDoes
<1>3. writer[r].closed \in Nat /\ files[r] \in [Index -> Seq(Chunk)] /\ Torn \in Seq(Chunk)
  BY Fields, EmptySeq DEF Types, Torn
<1>4. PICK n \in Nat : n = writer[r].closed + 1
  BY <1>3
<1>5. PICK f : f = [files[r] EXCEPT ![n] = Torn]
  OBVIOUS
<1>16. f \in [Index -> Seq(Chunk)]
  BY <1>3, <1>5
<1>17. \A i \in Index : i # n => f[i] = files[r][i]
  BY <1>3, <1>5
<1>6. f \in [Index -> Seq(Chunk)] /\ \A i \in Index : i # n => f[i] = files[r][i]
  BY <1>16, <1>17
<1>7. files' = [files EXCEPT ![r] = f]
  BY <1>1, <1>4, <1>5
<1>8. files' \in [Recording -> [Index -> Seq(Chunk)]] /\ files'[r] = f
  BY <1>6, <1>7 DEF Types
<1>9. Running(r)
  BY <1>1 DEF Running
<1>10. PICK w \in Writer : /\ w = Emptied(writer[r])
                           /\ w.current = << >> /\ w.pending = writer[r].pending
                           /\ w.closed = writer[r].closed
  BY EmptiedDoes
<1>11. Fails(r, w) /\ recorder' = recorder
  BY <1>1, <1>10
<1>12. /\ thread' \in [Recording -> Thread] /\ writer' \in [Recording -> Writer]
       /\ mailbox' \in [Recording -> Seq(Message)] /\ session' \in [Recording -> Session]
       /\ \A q \in Recording \ {r} :
            thread'[q] = thread[q] /\ writer'[q] = writer[q] /\ session'[q] = session[q]
       /\ Quiet(r) /\ Aftermath(r)
  BY <1>9, <1>10, <1>11, FailsDoes
<1>13. Types'
  BY <1>1, <1>2, <1>8, <1>12 DEF Types
<1>14. Elsewhere(r)
  BY <1>1, <1>2, <1>7, <1>12 DEF Elsewhere, Same, Types
<1>15. Failure(r)
  BY <1>1, <1>2, <1>4, <1>6, <1>8, <1>9, <1>12 DEF Failure
<1> QED
  BY <1>1, <1>12, <1>13, <1>14, <1>15

\* OutOfOrder is a Failure that writes nothing.
LEMMA OutOfOrderDoes ==
  ASSUME Types, NEW r \in Recording, OutOfOrder(r)
  PROVE  /\ Types' /\ Elsewhere(r) /\ Quiet(r) /\ Failure(r)
         /\ thread[r].step = "put"
<1>1. /\ thread[r].step = "put" /\ Fails(r, Emptied(writer[r]))
      /\ past' = [past EXCEPT ![r].failures = past[r].failures + 1]
      /\ UNCHANGED << disk, files, recorder, device, heard, left >>
  BY DEF OutOfOrder, At, vault
<1>2. past[r] \in Past /\ past[r].failures + 1 \in Nat
  BY Fields DEF Types
<1>3. PICK n \in Nat : n = past[r].failures + 1
  BY <1>2
<1>4. PICK p : p = [past[r] EXCEPT !.failures = n]
  OBVIOUS
<1>5. p \in Past /\ p.failures = n /\ p.kept = past[r].kept /\ p.resumed = past[r].resumed
  BY <1>2, <1>4 DEF Past
<1>6. past' = [past EXCEPT ![r] = p]
  BY <1>1, <1>3, <1>4
<1>7. past' \in [Recording -> Past] /\ past'[r] = p
  BY <1>5, <1>6 DEF Types
<1>9. Running(r)
  BY <1>1 DEF Running
<1>10. PICK w \in Writer : /\ w = Emptied(writer[r])
                           /\ w.current = << >> /\ w.pending = writer[r].pending
                           /\ w.closed = writer[r].closed
  BY EmptiedDoes
<1>11. Fails(r, w) /\ recorder' = recorder
  BY <1>1, <1>10
<1>12. /\ thread' \in [Recording -> Thread] /\ writer' \in [Recording -> Writer]
       /\ mailbox' \in [Recording -> Seq(Message)] /\ session' \in [Recording -> Session]
       /\ \A q \in Recording \ {r} :
            thread'[q] = thread[q] /\ writer'[q] = writer[q] /\ session'[q] = session[q]
       /\ Quiet(r) /\ Aftermath(r)
  BY <1>9, <1>10, <1>11, FailsDoes
<1>13. Types'
  BY <1>1, <1>7, <1>12 DEF Types
<1>14. Elsewhere(r)
  BY <1>1, <1>6, <1>12 DEF Elsewhere, Same, Types
<1>15. Failure(r)
  BY <1>1, <1>3, <1>5, <1>7, <1>9, <1>12 DEF Failure
<1> QED
  BY <1>1, <1>12, <1>13, <1>14, <1>15

\* SaveSegment: the manifest names the open segment.
LEMMA SaveSegmentDoes ==
  ASSUME Types, NEW r \in Recording, SaveSegment(r)
  PROVE  /\ Types' /\ Elsewhere(r) /\ Quiet(r)
         /\ thread[r].step = "save" /\ thread'[r].phase = thread[r].phase
         /\ thread'[r].polled = thread[r].polled
         /\ thread'[r].step = IF thread[r].phase = "finish" THEN "note" ELSE "write"
         /\ disk'[r].segments = Append(disk[r].segments, writer[r].current)
         /\ disk'[r].state = disk[r].state
         /\ writer'[r].pending = writer[r].pending /\ writer'[r].current = << >>
         /\ writer'[r].closed = writer[r].closed + 1
         /\ UNCHANGED << files, device, session, past, heard >>
<1>1. /\ thread[r].step = "save" /\ Goes(r, AfterSegment[thread[r].phase])
      /\ disk' = [disk EXCEPT ![r].segments = Append(disk[r].segments, writer[r].current)]
      /\ writer' = [writer EXCEPT ![r] = [Emptied(writer[r]) EXCEPT !.closed = Emptied(writer[r]).closed + 1,
                                                                    !.named = Emptied(writer[r]).named + 1]]
      /\ UNCHANGED << files, recorder, mailbox, device, session, past, heard, left >>
  BY DEF SaveSegment, At
<1>2. PICK x \in Step : x = IF thread[r].phase = "finish" THEN "note" ELSE "write"
  BY DEF Step
<1>3. AfterSegment[thread[r].phase] = x
  <2>1. thread[r].phase \in {"loop", "tail", "finish"}
    BY Fields DEF Phase
  <2> QED
    BY <1>2, <2>1 DEF AfterSegment
<1>4. /\ thread' \in [Recording -> Thread] /\ thread'[r].step = x
      /\ thread'[r].phase = thread[r].phase /\ thread'[r].polled = thread[r].polled
      /\ \A q \in Recording \ {r} : thread'[q] = thread[q]
  BY <1>1, <1>3, GoesTo DEF Types
<1>5. disk[r] \in Manifest /\ Append(disk[r].segments, writer[r].current) \in Seq(Seq(Chunk))
  <2>1. disk[r].segments \in Seq(Seq(Chunk)) /\ writer[r].current \in Seq(Chunk)
    BY Fields
  <2> QED
    BY <2>1, AppendProperties DEF Types
<1>6. PICK m : m = [disk[r] EXCEPT !.segments = Append(disk[r].segments, writer[r].current)]
  OBVIOUS
<1>7. m \in Manifest /\ m.segments = Append(disk[r].segments, writer[r].current) /\ m.state = disk[r].state
  BY <1>5, <1>6 DEF Manifest
<1>8. PICK e \in Writer : /\ e = Emptied(writer[r])
                          /\ e.current = << >> /\ e.pending = writer[r].pending
                          /\ e.closed = writer[r].closed
  BY EmptiedDoes
<1>9. PICK c \in Nat, n \in Nat : c = e.closed + 1 /\ n = e.named + 1
  BY DEF Writer
<1>10. PICK w : w = [e EXCEPT !.closed = c, !.named = n]
  OBVIOUS
<1>11. w \in Writer /\ w.current = << >> /\ w.pending = writer[r].pending /\ w.closed = writer[r].closed + 1
  BY <1>8, <1>9, <1>10 DEF Writer
<1>12. disk' = [disk EXCEPT ![r] = m] /\ writer' = [writer EXCEPT ![r] = w]
  BY <1>1, <1>6, <1>8, <1>9, <1>10
<1>13. disk'[r] = m /\ writer'[r] = w
  BY <1>12 DEF Types
<1>14. Types'
  <2>1. disk' \in [Recording -> Manifest]
    BY <1>7, <1>12 DEF Types
  <2>2. writer' \in [Recording -> Writer]
    BY <1>11, <1>12 DEF Types
  <2> QED
    BY <1>1, <1>4, <2>1, <2>2 DEF Types
<1>15. Elsewhere(r)
  BY <1>1, <1>4, <1>12 DEF Elsewhere, Same, Types
<1>16. Quiet(r)
  BY <1>1, <1>2, <1>4 DEF Quiet, Running
<1> QED
  BY <1>1, <1>2, <1>4, <1>7, <1>11, <1>13, <1>14, <1>15, <1>16

\* SaveFails is a Failure that names nothing.
LEMMA SaveFailsDoes ==
  ASSUME Types, NEW r \in Recording, SaveFails(r)
  PROVE  /\ Types' /\ Elsewhere(r) /\ Quiet(r) /\ Failure(r)
         /\ thread[r].step = "save"
<1>1. /\ thread[r].step = "save" /\ Refused(r, "save")
      /\ Fails(r, [Emptied(writer[r]) EXCEPT !.named = Emptied(writer[r]).named + 1])
      /\ UNCHANGED << disk, files, recorder, device, heard >>
  BY DEF SaveFails, At, vault
<1>2. /\ past' \in [Recording -> Past] /\ left' \in Allowance
      /\ past'[r].failures = past[r].failures + 1
      /\ past'[r].kept = past[r].kept /\ past'[r].resumed = past[r].resumed
      /\ \A q \in Recording \ {r} : past'[q] = past[q]
  BY <1>1, RefusedDoes
<1>9. Running(r)
  BY <1>1 DEF Running
<1>8. PICK e \in Writer : /\ e = Emptied(writer[r])
                          /\ e.current = << >> /\ e.pending = writer[r].pending
                          /\ e.closed = writer[r].closed
  BY EmptiedDoes
<1>7. PICK n \in Nat : n = e.named + 1
  BY DEF Writer
<1>6. PICK w : w = [e EXCEPT !.named = n]
  OBVIOUS
<1>10. /\ w \in Writer /\ w.current = << >> /\ w.pending = writer[r].pending
       /\ w.closed = writer[r].closed
  BY <1>6, <1>7, <1>8 DEF Writer
<1>11. Fails(r, w) /\ recorder' = recorder
  BY <1>1, <1>6, <1>7, <1>8
<1>12. /\ thread' \in [Recording -> Thread] /\ writer' \in [Recording -> Writer]
       /\ mailbox' \in [Recording -> Seq(Message)] /\ session' \in [Recording -> Session]
       /\ \A q \in Recording \ {r} :
            thread'[q] = thread[q] /\ writer'[q] = writer[q] /\ session'[q] = session[q]
       /\ Quiet(r) /\ Aftermath(r)
  BY <1>9, <1>10, <1>11, FailsDoes
<1>13. Types'
  BY <1>1, <1>2, <1>12 DEF Types
<1>14. Elsewhere(r)
  BY <1>1, <1>2, <1>12 DEF Elsewhere, Same, Types
<1>15. Failure(r)
  BY <1>1, <1>2, <1>9, <1>12 DEF Failure
<1> QED
  BY <1>1, <1>12, <1>13, <1>14, <1>15

\* NotePaused: the manifest has the pauses.
LEMMA NotePausedDoes ==
  ASSUME Types, NEW r \in Recording, NotePaused(r)
  PROVE  /\ Types' /\ Elsewhere(r) /\ Quiet(r)
         /\ thread[r].step = "note" /\ thread'[r].step = "state"
         /\ thread'[r].phase = thread[r].phase
         /\ disk'[r].segments = disk[r].segments /\ disk'[r].state = disk[r].state
         /\ disk'[r].paused = session[r].discarded
         /\ UNCHANGED << files, device, session, writer, past, heard >>
<1>1. /\ thread[r].step = "note" /\ Goes(r, "state") /\ "state" \in Step
      /\ disk' = [disk EXCEPT ![r].paused = session[r].discarded]
      /\ UNCHANGED << files, recorder, mailbox, device, session, writer, past, heard, left >>
  BY DEF NotePaused, At, Step
<1>2. /\ thread' \in [Recording -> Thread] /\ thread'[r].step = "state"
      /\ thread'[r].phase = thread[r].phase
      /\ \A q \in Recording \ {r} : thread'[q] = thread[q]
  BY <1>1, GoesTo DEF Types
<1>3. disk[r] \in Manifest /\ session[r].discarded \in Nat
  BY Fields DEF Types
<1>4. PICK m : m = [disk[r] EXCEPT !.paused = session[r].discarded]
  OBVIOUS
<1>5. /\ m \in Manifest /\ m.paused = session[r].discarded /\ m.segments = disk[r].segments
      /\ m.state = disk[r].state
  BY <1>3, <1>4 DEF Manifest
<1>6. disk' = [disk EXCEPT ![r] = m]
  BY <1>1, <1>4
<1>7. disk'[r] = m
  BY <1>6 DEF Types
<1>8. Types'
  BY <1>1, <1>2, <1>5, <1>6 DEF Types
<1>9. Elsewhere(r)
  BY <1>1, <1>2, <1>6 DEF Elsewhere, Same, Types
<1>10. Quiet(r)
  BY <1>1, <1>2 DEF Quiet, Running
<1> QED
  BY <1>1, <1>2, <1>5, <1>7, <1>8, <1>9, <1>10

\* SetUploading: the recording is offered, and its thread over.
LEMMA SetUploadingDoes ==
  ASSUME Types, NEW r \in Recording, SetUploading(r)
  PROVE  /\ Types' /\ Elsewhere(r) /\ Quiet(r)
         /\ thread[r].step = "state" /\ thread'[r].step = "ended"
         /\ thread'[r].phase = thread[r].phase
         /\ disk'[r].segments = disk[r].segments /\ disk'[r].state = "uploading"
         /\ disk'[r].paused = disk[r].paused
         /\ writer'[r].pending = << >> /\ writer'[r].current = << >> /\ writer'[r].closed = 0
         /\ UNCHANGED << files, device, session, past, heard >>
<1>1. /\ thread[r].step = "state" /\ Ends(r, TRUE)
      /\ disk' = [disk EXCEPT ![r].state = "uploading"]
      /\ UNCHANGED << files, recorder, device, session, past, heard, left >>
  BY DEF SetUploading, At
<1>2. /\ thread' \in [Recording -> Thread] /\ writer' \in [Recording -> Writer]
      /\ mailbox' \in [Recording -> Seq(Message)]
      /\ thread'[r].step = "ended" /\ thread'[r].phase = thread[r].phase
      /\ writer'[r].pending = << >> /\ writer'[r].current = << >> /\ writer'[r].closed = 0
      /\ mailbox'[r] = << >>
      /\ \A q \in Recording \ {r} :
           thread'[q] = thread[q] /\ writer'[q] = writer[q] /\ mailbox'[q] = mailbox[q]
  BY <1>1, EndsDoes
<1>3. disk[r] \in Manifest
  BY DEF Types
<1>4. PICK m : m = [disk[r] EXCEPT !.state = "uploading"]
  OBVIOUS
<1>5. /\ m \in Manifest /\ m.paused = disk[r].paused /\ m.segments = disk[r].segments
      /\ m.state = "uploading"
  BY <1>3, <1>4 DEF Manifest
<1>6. disk' = [disk EXCEPT ![r] = m]
  BY <1>1, <1>4
<1>7. disk'[r] = m
  BY <1>6 DEF Types
<1>8. Types'
  BY <1>1, <1>2, <1>5, <1>6 DEF Types
<1>9. Elsewhere(r)
  BY <1>1, <1>2, <1>6 DEF Elsewhere, Same, Types
<1>10. Quiet(r)
  BY <1>1, <1>2 DEF Quiet, Running
<1> QED
  BY <1>1, <1>2, <1>5, <1>7, <1>8, <1>9, <1>10

\* CloseFails is a Failure that closes nothing.
LEMMA CloseFailsDoes ==
  ASSUME Types, NEW r \in Recording, CloseFails(r), thread[r].phase = "finish"
  PROVE  /\ Types' /\ Elsewhere(r) /\ Quiet(r) /\ Failure(r)
         /\ thread[r].step \in {"note", "state"}
<1>1. /\ thread[r].step \in {"note", "state"} /\ Ends(r, FALSE)
      /\ \E write : Refused(r, write)
      /\ UNCHANGED << disk, files, recorder, device, session, heard >>
  BY DEF CloseFails, At, vault
<1>2. /\ past' \in [Recording -> Past] /\ left' \in Allowance
      /\ past'[r].failures = past[r].failures + 1
      /\ past'[r].kept = past[r].kept /\ past'[r].resumed = past[r].resumed
      /\ \A q \in Recording \ {r} : past'[q] = past[q]
  BY <1>1, RefusedDoes
<1>3. /\ thread' \in [Recording -> Thread] /\ writer' \in [Recording -> Writer]
      /\ mailbox' \in [Recording -> Seq(Message)]
      /\ thread'[r].step = "ended" /\ thread'[r].phase = thread[r].phase
      /\ writer'[r].pending = << >> /\ writer'[r].current = << >> /\ writer'[r].closed = 0
      /\ mailbox'[r] = << >>
      /\ \A q \in Recording \ {r} :
           thread'[q] = thread[q] /\ writer'[q] = writer[q] /\ mailbox'[q] = mailbox[q]
  BY <1>1, EndsDoes
<1>4. Running(r)
  BY <1>1 DEF Running
<1>5. Types'
  BY <1>1, <1>2, <1>3 DEF Types
<1>6. Elsewhere(r)
  BY <1>1, <1>2, <1>3 DEF Elsewhere, Same, Types
<1>7. Quiet(r)
  BY <1>1, <1>3, <1>4 DEF Quiet
<1>8. Aftermath(r)
  BY <1>1, <1>3 DEF Aftermath
<1>9. Failure(r)
  BY <1>1, <1>2, <1>4, <1>8 DEF Failure
<1> QED
  BY <1>1, <1>5, <1>6, <1>7, <1>9

-----------------------------------------------------------------------------
(* Every step keeps what is known of its recording, and every other one.   *)

\* A recording no step touches stays as it was, however much others hear.
LEMMA SameLocal ==
  ASSUME Types, Types', NEW r \in Recording, Local(r), Same(r), heard' >= heard
  PROVE  Local(r)'
<1>1. heard \in Nat /\ heard' \in Nat /\ heard <= heard'
  BY RecordingAssumption DEF Types
<1>2. Shape(r)' /\ Spent(r)' /\ Faithful(r)' /\ Discreet(r)'
  <2>1. Shape(r)'
    BY DEF Local, Same, Shape, Running, Writing
  <2>2. Spent(r)'
    BY DEF Local, Same, Spent, Writing
  <2>3. Faithful(r)'
    BY DEF Local, Same, Faithful, Running, Writing, Clean, Audio
  <2>4. Discreet(r)'
    BY DEF Local, Same, Discreet
  <2> QED
    BY <2>1, <2>2, <2>3, <2>4
<1>3. Durable(r)'
  <2>1. Fits(disk[r].segments, writer[r].current, writer[r].pending, device[r].queue, heard')
    BY <1>1, Fields, FitsLater DEF Local, Durable
  <2> QED
    BY <2>1 DEF Local, Same, Durable, Running
<1>4. Ordered(r)'
  <2>1. InLine(Audio(r), writer[r].current, writer[r].pending, device[r].queue, heard')
    BY <1>1, Fields, LineLater DEF Local, Ordered
  <2> QED
    BY <2>1 DEF Same, Ordered, Audio
<1> QED
  BY <1>2, <1>3, <1>4 DEF Local

\* What is empty.
LEMMA NoAudio ==
  /\ Len(<< >>) = 0
  /\ << >> \o << >> = << >>
  /\ \A i \in DOMAIN << >> : FALSE
<1>1. << >> \in Seq(Chunk)
  BY EmptySeq
<1> QED
  BY <1>1, EmptySeq, ConcatEmptySeq, LenProperties

\* StartWith keeps what is known of the recording: nothing of it is anywhere.
LEMMA StartLocal ==
  ASSUME Types, NEW r \in Recording, Local(r), StartWith(r)
  PROVE  Local(r)'
<1>1. /\ disk[r].state = "absent" /\ disk'[r].state = "recording"
      /\ disk'[r].segments = disk[r].segments /\ disk'[r].paused = disk[r].paused
      /\ files' = files /\ session' = session /\ writer' = writer /\ past' = past
      /\ heard' = heard
      /\ device'[r].queue = << >>
      /\ thread'[r].step = "top" /\ thread'[r].phase = thread[r].phase
  BY StartDoes
<1>2. /\ thread[r].step = "off" /\ disk[r].segments = << >> /\ past[r].kept = << >>
      /\ thread[r].phase = "loop" /\ session[r].recorded = 0
      /\ writer[r].pending = << >> /\ writer[r].current = << >> /\ writer[r].closed = 0
  BY <1>1 DEF Local, Shape, Running
<1>3. Limit \in Nat /\ Limit > 0 /\ Depth \in Nat /\ SegmentChunks \in Nat /\ heard \in Nat
  BY RecordingAssumption, Fields
<1>4. Audio(r) = << >> /\ Audio(r)' = << >>
  BY <1>1, <1>2, FlattenNone DEF Audio
<1>5. Shape(r)'
  BY <1>1, <1>2 DEF Shape, Running, Writing
<1>6. Spent(r)'
  BY <1>1, <1>2, <1>3, NoAudio DEF Spent, Writing
<1>7. Durable(r)'
  BY <1>1, <1>2, <1>3, NoAudio DEF Durable, Running, Fits
<1>8. Ordered(r)'
  BY <1>1, <1>2, <1>4, NothingInLine DEF Ordered, InLine
<1>9. Faithful(r)'
  BY <1>1, <1>2, <1>3, <1>4, NoAudio DEF Faithful, Running, Writing, Clean
<1>10. Discreet(r)'
  BY <1>1, <1>2, NoAudio DEF Discreet
<1> QED
  BY <1>5, <1>6, <1>7, <1>8, <1>9, <1>10 DEF Local

\* StartFails: a failure is on record from then on.
LEMMA StartFailsLocal ==
  ASSUME Types, NEW r \in Recording, Local(r), StartFails(r)
  PROVE  Local(r)'
<1>1. /\ disk[r].state = "absent"
      /\ disk'[r].segments = disk[r].segments
      /\ files' = files /\ device' = device /\ session' = session /\ writer' = writer
      /\ thread' = thread /\ heard' = heard
      /\ past'[r].failures = past[r].failures + 1
      /\ past'[r].kept = past[r].kept /\ past'[r].resumed = past[r].resumed
  BY StartFailsDoes
<1>2. ~ Clean(r)'
  BY <1>1, Fields DEF Clean
<1>3. Audio(r)' = Audio(r)
  BY <1>1 DEF Audio
<1>4. Shape(r)'
  BY <1>1 DEF Local, Shape, Running, Writing
<1>5. Spent(r)'
  BY <1>1 DEF Local, Spent, Writing
<1>6. Durable(r)'
  BY <1>1 DEF Local, Durable, Running
<1>7. Ordered(r)'
  BY <1>1, <1>3 DEF Local, Ordered
<1>8. Faithful(r)'
  BY <1>2 DEF Faithful
<1>9. Discreet(r)'
  BY <1>1 DEF Local, Discreet
<1> QED
  BY <1>4, <1>5, <1>6, <1>7, <1>8, <1>9 DEF Local

\* Hear: the chunk is last in line, and of the pause it was heard in.
LEMMA HearLocal ==
  ASSUME Types, NEW r \in Recording, Local(r), Hear(r)
  PROVE  Local(r)'
<1>1. /\ Types' /\ heard' = heard + 1 /\ device[r].live
      /\ UNCHANGED << disk, files, recorder, mailbox, session, writer, thread, past >>
  BY HearDoes
<1>2. heard \in Nat
  BY Fields
<1>3. CASE device' = device
  <2>1. Same(r) /\ heard' >= heard
    BY <1>1, <1>2, <1>3 DEF Same
  <2> QED
    BY <1>1, <2>1, SameLocal
<1>4. CASE device' # device
  <2>1. PICK x \in Chunk :
          /\ Len(device[r].queue) < Depth /\ device'[r].queue = Append(device[r].queue, x)
          /\ x.at = heard + 1
          /\ x.pause = IF session[r].state = "paused" THEN past[r].resumed + 1 ELSE 0
    BY <1>4, HearDoes
  <2>2. /\ device[r].queue \in Seq(Chunk) /\ Len(device[r].queue) \in Nat
        /\ DOMAIN device[r].queue = 1 .. Len(device[r].queue)
    BY Fields, LenProperties
  <2>3. /\ device'[r].queue \in Seq(Chunk)
        /\ Len(device'[r].queue) = Len(device[r].queue) + 1
        /\ \A i \in 1 .. Len(device[r].queue) : device'[r].queue[i] = device[r].queue[i]
        /\ device'[r].queue[Len(device[r].queue) + 1] = x
    BY <2>1, <2>2, AppendProperties
  <2>4. DOMAIN device'[r].queue = 1 .. Len(device[r].queue) + 1
    BY <2>3, LenProperties
  <2>5. Audio(r)' = Audio(r)
    BY <1>1 DEF Audio
  <2>6. Shape(r)'
    BY <1>1 DEF Local, Shape, Running, Writing
  <2>7. Spent(r)'
    <3>1. Len(device'[r].queue) <= Depth
      BY <2>1, <2>2, <2>3, RecordingAssumption
    <3>2. Spent(r)
      BY DEF Local
    <3> QED
      BY <1>1, <3>1, <3>2 DEF Spent, Writing
  <2>8. Durable(r)'
    <3>1. Fits(disk[r].segments, writer[r].current, writer[r].pending, device'[r].queue, heard')
      BY <1>1, <2>1, Fields, FitsHears DEF Local, Durable
    <3> QED
      BY <1>1, <3>1 DEF Local, Durable, Running
  <2>9. Ordered(r)'
    BY <1>1, <1>2, <2>1, <2>5, Fields, LineHears DEF Local, Ordered
  <2>10. Faithful(r)'
    BY <1>1, <2>5 DEF Local, Faithful, Running, Writing, Clean
  <2>11. Discreet(r)'
    <3>1. past[r].resumed \in Nat
      BY Fields
    <3>2. ASSUME NEW i \in DOMAIN device'[r].queue
          PROVE device'[r].queue[i].pause <=
                  IF session[r].state = "recording" THEN past[r].resumed ELSE past[r].resumed + 1
      <4>1. CASE i \in DOMAIN device[r].queue
        BY <2>2, <2>3, <4>1 DEF Local, Discreet
      <4>2. CASE i \notin DOMAIN device[r].queue
        <5>1. i = Len(device[r].queue) + 1
          BY <2>2, <2>4, <4>2
        <5> QED
          BY <2>1, <2>3, <3>1, <5>1
      <4> QED
        BY <4>1, <4>2
    <3> QED
      BY <1>1, <3>2 DEF Local, Discreet
  <2> QED
    BY <2>6, <2>7, <2>8, <2>9, <2>10, <2>11 DEF Local
<1> QED
  BY <1>3, <1>4

\* EndpointsDie.
LEMMA DieLocal ==
  ASSUME Types, NEW r \in Recording, Local(r), EndpointsDie(r)
  PROVE  Local(r)'
<1>1. /\ device[r].live /\ device'[r].queue = device[r].queue
      /\ UNCHANGED << disk, files, recorder, mailbox, session, writer, thread, past, heard >>
  BY DieDoes
<1>2. Audio(r)' = Audio(r)
  BY <1>1 DEF Audio
<1>3. Shape(r)'
  BY <1>1 DEF Local, Shape, Running, Writing
<1>4. Spent(r)' /\ Durable(r)' /\ Ordered(r)'
  BY <1>1, <1>2 DEF Local, Spent, Durable, Ordered, Writing, Running
<1>5. Faithful(r)' /\ Discreet(r)'
  BY <1>1, <1>2 DEF Local, Faithful, Discreet, Running, Writing, Clean
<1> QED
  BY <1>3, <1>4, <1>5 DEF Local

\* Obey: a resumption lets in the pause it ends, and no other.
LEMMA ObeyLocal ==
  ASSUME Types, NEW r \in Recording, Local(r), Obey(r)
  PROVE  Local(r)'
<1>1. /\ thread[r].step = "top" /\ thread'[r].step \in {"top", "drain"}
      /\ thread'[r].phase = thread[r].phase
      /\ session'[r].recorded = session[r].recorded
      /\ session'[r].discarded = session[r].discarded
      /\ past'[r].kept = past[r].kept /\ past'[r].failures = past[r].failures
      /\ UNCHANGED << disk, files, device, writer, heard >>
  BY ObeyDoes
<1>2. \/ past'[r].resumed = past[r].resumed /\ session'[r].state = session[r].state
      \/ past'[r].resumed = past[r].resumed /\ session'[r].state # "recording"
      \/ past'[r].resumed = past[r].resumed + 1 /\ session'[r].state = "recording"
  BY ObeyDoes
<1>3. Audio(r)' = Audio(r)
  BY <1>1 DEF Audio
<1>4. Shape(r)'
  BY <1>1 DEF Local, Shape, Running, Writing
<1>5. Spent(r)'
  <2>1. /\ session[r].recorded < Limit /\ session[r].recorded \in Nat
        /\ Limit \in Nat /\ Depth \in Nat
    BY <1>1, Fields, RecordingAssumption DEF Local, Spent
  <2> QED
    BY <1>1, <2>1 DEF Local, Spent, Writing
<1>6. Durable(r)' /\ Ordered(r)'
  BY <1>1, <1>3 DEF Local, Durable, Ordered, Running
<1>7. Faithful(r)'
  BY <1>1, <1>3 DEF Local, Faithful, Running, Writing, Clean
<1>8. Discreet(r)'
  <2>1. past[r].resumed \in Nat
    BY Fields
  <2>2. past'[r].resumed >= past[r].resumed /\ past'[r].resumed \in Nat
    BY <1>2, <2>1
  <2>3. \A i \in DOMAIN past'[r].kept : past'[r].kept[i].pause <= past'[r].resumed
    BY <1>1, <2>1, <2>2, Fields, ChunkAt DEF Local, Discreet
  <2>4. \A i \in DOMAIN writer'[r].pending : writer'[r].pending[i].pause <= past'[r].resumed
    BY <1>1, <2>1, <2>2, Fields, ChunkAt DEF Local, Discreet
  <2>5. ASSUME NEW i \in DOMAIN device'[r].queue
        PROVE device'[r].queue[i].pause <=
                IF session'[r].state = "recording" THEN past'[r].resumed ELSE past'[r].resumed + 1
    <3>1. /\ device[r].queue[i].pause \in Nat
          /\ device[r].queue[i].pause <=
               IF session[r].state = "recording" THEN past[r].resumed ELSE past[r].resumed + 1
      BY <1>1, Fields, ChunkAt DEF Local, Discreet
    <3>2. device'[r].queue[i].pause = device[r].queue[i].pause
      BY <1>1
    <3>3. CASE past'[r].resumed = past[r].resumed /\ session'[r].state = session[r].state
      BY <3>1, <3>2, <3>3
    <3>4. CASE past'[r].resumed = past[r].resumed /\ session'[r].state # "recording"
      BY <2>1, <3>1, <3>2, <3>4
    <3>5. CASE past'[r].resumed = past[r].resumed + 1 /\ session'[r].state = "recording"
      BY <2>1, <3>1, <3>2, <3>5
    <3> QED
      BY <1>2, <3>3, <3>4, <3>5
  <2> QED
    BY <2>3, <2>4, <2>5 DEF Discreet
<1> QED
  BY <1>4, <1>5, <1>6, <1>7, <1>8 DEF Local

\* Two sequences joined are of the pauses both are of.
LEMMA PauseJoint ==
  ASSUME NEW s \in Seq(Chunk), NEW t \in Seq(Chunk), NEW n
  PROVE  /\ (\A i \in DOMAIN s : s[i].pause <= n) /\ (\A i \in DOMAIN t : t[i].pause <= n)
              => \A i \in DOMAIN (s \o t) : (s \o t)[i].pause <= n
         /\ (\A i \in DOMAIN (s \o t) : (s \o t)[i].pause <= n)
              => (\A i \in DOMAIN s : s[i].pause <= n) /\ (\A i \in DOMAIN t : t[i].pause <= n)
<1>1. (\A i \in DOMAIN s : s[i].pause <= n) /\ (\A i \in DOMAIN t : t[i].pause <= n)
        => \A i \in DOMAIN (s \o t) : (s \o t)[i].pause <= n
  BY Joint
<1>2. (\A i \in DOMAIN (s \o t) : (s \o t)[i].pause <= n)
        => (\A i \in DOMAIN s : s[i].pause <= n)
  BY Parts
<1>3. (\A i \in DOMAIN (s \o t) : (s \o t)[i].pause <= n)
        => (\A i \in DOMAIN t : t[i].pause <= n)
  BY Parts
<1> QED
  BY <1>1, <1>2, <1>3

\* A sequence is the beginning of itself followed by another.
LEMMA PrefixJoint ==
  ASSUME NEW s \in Seq(Chunk), NEW t \in Seq(Chunk)
  PROVE  IsPrefix(s, s \o t) /\ Len(s \o t) = Len(s) + Len(t)
<1>1. Len(s) \in Nat /\ Len(t) \in Nat
  BY LenProperties
<1>2. PICK m \in Nat : m = Len(s \o t) /\ m = Len(s) + Len(t)
  BY <1>1, ConcatProperties
<1>3. SubSeq(s, 1, Len(s)) = s
  BY SubSeqFull
<1>4. SubSeq(s \o t, 1, Len(s)) = s
  BY <1>3, SubSeqOfConcat1
<1> QED
  BY <1>1, <1>2, <1>3, <1>4 DEF IsPrefix

\* Joining in either order.
LEMMA Regrouped ==
  ASSUME NEW s \in Seq(Chunk), NEW t \in Seq(Chunk), NEW u \in Seq(Chunk)
  PROVE  (s \o t) \o u = s \o (t \o u)
  BY ConcatAssociative

\* Poll: only a queue heard while recording is handed over.
LEMMA PollLocal ==
  ASSUME Types, NEW r \in Recording, Local(r), Poll(r)
  PROVE  Local(r)'
<1>1. /\ thread[r].step = "top" /\ thread'[r].phase = thread[r].phase
      /\ device'[r].queue = << >>
      /\ UNCHANGED << disk, files, past, heard >>
      /\ writer'[r].current = writer[r].current /\ writer'[r].closed = writer[r].closed
  BY PollDoes
<1>2. /\ thread[r].phase = "loop" /\ session[r].recorded < Limit
      /\ Len(device[r].queue) <= Depth /\ Running(r)
  BY <1>1 DEF Local, Shape, Spent, Running
<1>3. Audio(r)' = Audio(r)
  BY <1>1 DEF Audio
<1>4. /\ Limit \in Nat /\ Depth \in Nat /\ session[r].recorded \in Nat
      /\ Len(device[r].queue) \in Nat /\ Len(<< >>) = 0
  BY RecordingAssumption, Fields, NoAudio
<1>5. CASE /\ session[r].state = "recording" /\ UNCHANGED session
           /\ writer'[r].pending = writer[r].pending \o device[r].queue
           /\ thread'[r].step = "write" /\ thread'[r].polled = Len(device[r].queue)
  <2>1. Shape(r)'
    BY <1>1, <1>2, <1>5 DEF Local, Shape, Running, Writing
  <2>2. Spent(r)'
    BY <1>1, <1>2, <1>4, <1>5 DEF Local, Spent, Writing
  <2>3. Durable(r)'
    <3>1. Fits(disk[r].segments, writer[r].current, writer[r].pending \o device[r].queue, << >>, heard)
      BY Fields, FitsPolls DEF Local, Durable
    <3> QED
      BY <1>1, <1>2, <1>5, <3>1 DEF Local, Durable, Running
  <2>4. Ordered(r)'
    <3>1. InLine(Audio(r), writer[r].current, writer[r].pending \o device[r].queue, << >>, heard)
      BY Fields, LinePolls DEF Local, Ordered
    <3> QED
      BY <1>1, <1>3, <1>5, <3>1 DEF Ordered
  <2>5. Faithful(r)'
    <3>1. Clean(r) => /\ past[r].kept = Audio(r) \o writer[r].current
                      /\ Len(writer[r].current) <= SegmentChunks
                      /\ writer[r].pending = << >> /\ session[r].recorded = Len(past[r].kept)
      BY <1>1, <1>2 DEF Local, Faithful, Writing
    <3>2. Clean(r) => writer'[r].pending = device[r].queue
      BY <1>5, <3>1, Fields, ConcatEmptySeq
    <3> QED
      BY <1>1, <1>2, <1>3, <1>5, <3>1, <3>2 DEF Faithful, Running, Writing, Clean
  <2>6. Discreet(r)'
    <3>1. \A i \in DOMAIN writer'[r].pending : writer'[r].pending[i].pause <= past[r].resumed
      <4>1. /\ \A i \in DOMAIN writer[r].pending : writer[r].pending[i].pause <= past[r].resumed
            /\ \A i \in DOMAIN device[r].queue : device[r].queue[i].pause <= past[r].resumed
        BY <1>5 DEF Local, Discreet
      <4>2. writer[r].pending \in Seq(Chunk) /\ device[r].queue \in Seq(Chunk)
        BY Fields
      <4> QED
        BY <1>5, <4>1, <4>2, PauseJoint
    <3> QED
      BY <1>1, <3>1, NoAudio DEF Local, Discreet
  <2> QED
    BY <2>1, <2>2, <2>3, <2>4, <2>5, <2>6 DEF Local
<1>6. CASE /\ UNCHANGED << writer, thread >>
           /\ session'[r].state = session[r].state
           /\ session'[r].recorded = session[r].recorded
  <2>1. Shape(r)'
    BY <1>1, <1>2, <1>6 DEF Local, Shape, Running, Writing
  <2>2. Spent(r)'
    BY <1>1, <1>2, <1>4, <1>6 DEF Local, Spent, Writing
  <2>3. Durable(r)'
    <3>1. Fits(disk[r].segments, writer[r].current, writer[r].pending, << >>, heard)
      BY Fields, FitsDrops DEF Local, Durable
    <3> QED
      BY <1>1, <1>2, <1>6, <3>1 DEF Local, Durable, Running
  <2>4. Ordered(r)'
    <3>1. InLine(Audio(r), writer[r].current, writer[r].pending, << >>, heard)
      BY LineDrops DEF Local, Ordered
    <3> QED
      BY <1>1, <1>3, <1>6, <3>1 DEF Ordered
  <2>5. Faithful(r)'
    BY <1>1, <1>2, <1>3, <1>6 DEF Local, Faithful, Running, Writing, Clean
  <2>6. Discreet(r)'
    BY <1>1, <1>6, NoAudio DEF Local, Discreet
  <2> QED
    BY <2>1, <2>2, <2>3, <2>4, <2>5, <2>6 DEF Local
<1> QED
  BY <1>5, <1>6, PollDoes

\* NothingRuns.
LEMMA NothingRunsLocal ==
  ASSUME Types, NEW r \in Recording, Local(r), NothingRuns(r)
  PROVE  Local(r)'
<1>1. /\ thread[r].step = "top" /\ thread'[r].step = "drain"
      /\ thread'[r].phase = thread[r].phase
      /\ UNCHANGED << disk, files, device, session, writer, past, heard >>
  BY NothingRunsDoes
<1>2. Audio(r)' = Audio(r)
  BY <1>1 DEF Audio
<1>3. /\ Limit \in Nat /\ Depth \in Nat /\ session[r].recorded \in Nat
      /\ session[r].recorded < Limit
  BY <1>1, RecordingAssumption, Fields DEF Local, Spent
<1>4. Shape(r)'
  BY <1>1 DEF Local, Shape, Running, Writing
<1>5. Spent(r)'
  BY <1>1, <1>3 DEF Local, Spent, Writing
<1>6. Durable(r)' /\ Ordered(r)' /\ Discreet(r)'
  BY <1>1, <1>2 DEF Local, Durable, Ordered, Discreet, Running
<1>7. Faithful(r)'
  BY <1>1, <1>2 DEF Local, Faithful, Running, Writing, Clean
<1> QED
  BY <1>4, <1>5, <1>6, <1>7 DEF Local

\* Encode: what was kept grows by what the open segment takes.
LEMMA EncodeLocal ==
  ASSUME Types, NEW r \in Recording, Local(r), Encode(r)
  PROVE  Local(r)'
<1>1. /\ thread[r].step = "write" /\ thread'[r].step \in {"write", "put"}
      /\ thread'[r].phase = thread[r].phase /\ thread'[r].polled = thread[r].polled
      /\ thread'[r].step = "put" => writer'[r].current # << >>
      /\ writer'[r].closed = writer[r].closed
      /\ past'[r].failures = past[r].failures /\ past'[r].resumed = past[r].resumed
      /\ UNCHANGED << disk, files, device, session, heard >>
  BY EncodeDoes
<1>2. PICK taken, rest \in Seq(Chunk) :
        /\ writer[r].pending = taken \o rest
        /\ Len(writer[r].current) <= SegmentChunks
             => Len(writer[r].current) + Len(taken) <= SegmentChunks
        /\ writer'[r].pending = rest
        /\ writer'[r].current = writer[r].current \o taken
        /\ past'[r].kept = past[r].kept \o taken
  BY EncodeDoes
<1>3. Audio(r)' = Audio(r)
  BY <1>1 DEF Audio
<1>4. thread[r].phase # "finish"
  BY <1>1 DEF Local, Shape
<1>5. Shape(r)'
  BY <1>1, <1>4 DEF Local, Shape, Running, Writing
<1>6. Spent(r)'
  BY <1>1 DEF Local, Spent, Writing
<1>7. Durable(r)'
  <2>1. Fits(disk[r].segments, writer[r].current \o taken, rest, device[r].queue, heard)
    BY <1>2, Fields, FitsEncodes DEF Local, Durable
  <2> QED
    BY <1>1, <1>2, <2>1 DEF Local, Durable, Running
<1>8. Ordered(r)'
  <2>1. InLine(Audio(r), writer[r].current \o taken, rest, device[r].queue, heard)
    BY <1>2, Fields, LineEncodes DEF Local, Ordered
  <2> QED
    BY <1>1, <1>2, <1>3, <2>1 DEF Ordered
<1>9. Faithful(r)'
  <2>1. SUFFICES ASSUME Clean(r) PROVE Faithful(r)'
    BY <1>1 DEF Faithful, Clean
  <2>2. /\ past[r].kept = Audio(r) \o writer[r].current
        /\ Len(writer[r].current) <= SegmentChunks
        /\ session[r].recorded + thread[r].polled = Len(past[r].kept) + Len(writer[r].pending)
    BY <1>1, <1>4, <2>1 DEF Local, Faithful, Running, Writing
  <2>3. past'[r].kept = Audio(r) \o writer'[r].current
    <3>1. past'[r].kept = (Audio(r) \o writer[r].current) \o taken
      BY <1>2, <2>2
    <3>2. Audio(r) \in Seq(Chunk) /\ writer[r].current \in Seq(Chunk)
      BY Fields
    <3>3. (Audio(r) \o writer[r].current) \o taken = Audio(r) \o (writer[r].current \o taken)
      BY <3>2, Regrouped
    <3> QED
      BY <1>2, <3>1, <3>3
  <2>4. Len(taken) \in Nat /\ Len(rest) \in Nat /\ Len(past[r].kept) \in Nat
    BY Fields, LenProperties
  <2>5. Len(writer'[r].current) = Len(writer[r].current) + Len(taken)
    BY <1>2, Fields, ConcatProperties
  <2>6. Len(writer[r].pending) = Len(taken) + Len(rest)
    BY <1>2, Fields, ConcatProperties
  <2>7. Len(past'[r].kept) = Len(past[r].kept) + Len(taken)
    BY <1>2, Fields, ConcatProperties
  <2>8. Len(writer'[r].current) <= SegmentChunks
    BY <1>2, <2>2, <2>5
  <2>9. session[r].recorded + thread[r].polled = Len(past'[r].kept) + Len(writer'[r].pending)
    <3>1. PICK k \in Nat, t \in Nat, u \in Nat :
            k = Len(past[r].kept) /\ t = Len(taken) /\ u = Len(rest)
      BY <2>4
    <3>2. Len(past'[r].kept) = k + t /\ Len(writer'[r].pending) = u /\ Len(writer[r].pending) = t + u
      BY <1>2, <2>6, <2>7, <3>1
    <3>3. session[r].recorded + thread[r].polled = k + (t + u)
      BY <2>2, <3>1, <3>2
    <3>4. k + (t + u) = (k + t) + u
      OBVIOUS
    <3> QED
      BY <3>2, <3>3, <3>4
  <2> QED
    BY <1>1, <1>3, <1>4, <2>3, <2>8, <2>9 DEF Faithful, Running, Writing
<1>10. Discreet(r)'
  <2>1. \A i \in DOMAIN (taken \o rest) : (taken \o rest)[i].pause <= past[r].resumed
    BY <1>2 DEF Local, Discreet
  <2>2. /\ \A i \in DOMAIN taken : taken[i].pause <= past[r].resumed
        /\ \A i \in DOMAIN rest : rest[i].pause <= past[r].resumed
    BY <2>1, PauseJoint
  <2>3. \A i \in DOMAIN past'[r].kept : past'[r].kept[i].pause <= past[r].resumed
    <3>1. past[r].kept \in Seq(Chunk) /\ \A i \in DOMAIN past[r].kept : past[r].kept[i].pause <= past[r].resumed
      BY Fields DEF Local, Discreet
    <3>2. \A i \in DOMAIN (past[r].kept \o taken) : (past[r].kept \o taken)[i].pause <= past[r].resumed
      BY <2>2, <3>1, PauseJoint
    <3> QED
      BY <1>2, <3>2
  <2> QED
    BY <1>1, <1>2, <2>2, <2>3 DEF Local, Discreet
<1> QED
  BY <1>5, <1>6, <1>7, <1>8, <1>9, <1>10 DEF Local

\* Written: the bill catches up with what was kept.
LEMMA WrittenLocal ==
  ASSUME Types, NEW r \in Recording, Local(r), Written(r)
  PROVE  Local(r)'
<1>1. thread[r].step = "write" /\ thread[r].phase = "loop" /\ writer[r].pending = << >>
  BY DEF Written, At
<1>2. /\ session[r].state = "recording" /\ session[r].recorded < Limit
      /\ thread[r].polled <= Depth
  BY <1>1 DEF Local, Shape, Spent, Writing
<1>3. /\ thread'[r].step \in {"top", "drain"} /\ thread'[r].phase = "loop"
      /\ session'[r].recorded = session[r].recorded + thread[r].polled
      /\ session'[r].discarded = session[r].discarded
      /\ session'[r].state = "recording"
      /\ thread'[r].step = "top" => session'[r].recorded < Limit
      /\ UNCHANGED << disk, files, device, writer, past, heard >>
  BY <1>2, WrittenDoes
<1>4. Audio(r)' = Audio(r)
  BY <1>3 DEF Audio
<1>5. /\ Limit \in Nat /\ Depth \in Nat /\ session[r].recorded \in Nat /\ thread[r].polled \in Nat
      /\ Len(past[r].kept) \in Nat /\ Len(<< >>) = 0
  BY RecordingAssumption, Fields, LenProperties, NoAudio
<1>6. Shape(r)'
  BY <1>1, <1>3 DEF Local, Shape, Running, Writing
<1>7. Spent(r)'
  <2>1. /\ session[r].recorded + thread[r].polled < Limit + Depth
        /\ session[r].recorded + thread[r].polled < Limit + 2 * Depth
    BY <1>2, <1>5
  <2> QED
    BY <1>1, <1>3, <2>1 DEF Local, Spent, Writing
<1>8. Durable(r)' /\ Ordered(r)'
  BY <1>1, <1>3, <1>4 DEF Local, Durable, Ordered, Running
<1>9. Faithful(r)'
  <2>1. Clean(r) => /\ past[r].kept = Audio(r) \o writer[r].current
                    /\ Len(writer[r].current) <= SegmentChunks
                    /\ session[r].recorded + thread[r].polled = Len(past[r].kept) + Len(writer[r].pending)
    BY <1>1 DEF Local, Faithful, Running, Writing
  <2>2. Clean(r) => session'[r].recorded = Len(past[r].kept)
    BY <1>1, <1>3, <1>5, <2>1
  <2> QED
    BY <1>1, <1>3, <1>4, <2>1, <2>2 DEF Faithful, Running, Writing, Clean
<1>10. Discreet(r)'
  BY <1>2, <1>3 DEF Local, Discreet
<1> QED
  BY <1>6, <1>7, <1>8, <1>9, <1>10 DEF Local

\* Drain: the tail is as long as the queue is deep.
LEMMA DrainLocal ==
  ASSUME Types, NEW r \in Recording, Local(r), Drain(r)
  PROVE  Local(r)'
<1>1. /\ thread[r].step = "drain"
      /\ device'[r].queue = << >> /\ ~ device'[r].live
      /\ writer'[r].current = writer[r].current /\ writer'[r].closed = writer[r].closed
      /\ session'[r].recorded = session[r].recorded
      /\ session'[r].discarded = session[r].discarded
      /\ UNCHANGED << disk, files, past, heard >>
  BY DrainDoes
<1>2. /\ thread[r].phase = "loop" /\ session[r].recorded < Limit + Depth
      /\ session[r].recorded < Limit + 2 * Depth
      /\ Len(device[r].queue) <= Depth /\ Running(r)
  BY <1>1 DEF Local, Shape, Spent, Running
<1>3. Audio(r)' = Audio(r)
  BY <1>1 DEF Audio
<1>4. /\ Depth \in Nat /\ Len(<< >>) = 0
  BY RecordingAssumption, NoAudio
<1>20. Clean(r) => /\ past[r].kept = Audio(r) \o writer[r].current
                   /\ Len(writer[r].current) <= SegmentChunks
                   /\ writer[r].pending = << >> /\ session[r].recorded = Len(past[r].kept)
  BY <1>1, <1>2 DEF Local, Faithful, Writing
<1>5. CASE /\ session[r].state = "recording" /\ UNCHANGED session
           /\ writer'[r].pending = writer[r].pending \o device[r].queue
           /\ thread'[r].step = "write" /\ thread'[r].phase = "tail"
           /\ thread'[r].polled = Len(device[r].queue)
  <2>1. Shape(r)'
    BY <1>1, <1>2, <1>5 DEF Local, Shape, Running, Writing
  <2>2. Spent(r)'
    BY <1>1, <1>2, <1>4, <1>5 DEF Local, Spent, Writing
  <2>3. Durable(r)'
    <3>1. Fits(disk[r].segments, writer[r].current, writer[r].pending \o device[r].queue, << >>, heard)
      BY Fields, FitsPolls DEF Local, Durable
    <3> QED
      BY <1>1, <1>2, <1>5, <3>1 DEF Local, Durable, Running
  <2>4. Ordered(r)'
    <3>1. InLine(Audio(r), writer[r].current, writer[r].pending \o device[r].queue, << >>, heard)
      BY Fields, LinePolls DEF Local, Ordered
    <3> QED
      BY <1>1, <1>3, <1>5, <3>1 DEF Ordered
  <2>5. Faithful(r)'
    <3>2. Clean(r) => writer'[r].pending = device[r].queue
      BY <1>5, <1>20, Fields, ConcatEmptySeq
    <3> QED
      BY <1>1, <1>2, <1>3, <1>5, <1>20, <3>2 DEF Faithful, Running, Writing, Clean
  <2>6. Discreet(r)'
    <3>1. \A i \in DOMAIN writer'[r].pending : writer'[r].pending[i].pause <= past[r].resumed
      <4>1. /\ \A i \in DOMAIN writer[r].pending : writer[r].pending[i].pause <= past[r].resumed
            /\ \A i \in DOMAIN device[r].queue : device[r].queue[i].pause <= past[r].resumed
        BY <1>5 DEF Local, Discreet
      <4>2. writer[r].pending \in Seq(Chunk) /\ device[r].queue \in Seq(Chunk)
        BY Fields
      <4> QED
        BY <1>5, <4>1, <4>2, PauseJoint
    <3> QED
      BY <1>1, <3>1, NoAudio DEF Local, Discreet
  <2> QED
    BY <2>1, <2>2, <2>3, <2>4, <2>5, <2>6 DEF Local
<1>6. CASE /\ UNCHANGED writer
           /\ thread'[r].step = "flush" /\ thread'[r].phase = "finish"
  <2>1. Shape(r)'
    BY <1>1, <1>2, <1>6 DEF Local, Shape, Running, Writing
  <2>2. Spent(r)'
    BY <1>1, <1>2, <1>4, <1>6 DEF Local, Spent, Writing
  <2>3. Durable(r)'
    <3>1. Fits(disk[r].segments, writer[r].current, writer[r].pending, << >>, heard)
      BY Fields, FitsDrops DEF Local, Durable
    <3> QED
      BY <1>1, <1>2, <1>6, <3>1 DEF Local, Durable, Running
  <2>4. Ordered(r)'
    <3>1. InLine(Audio(r), writer[r].current, writer[r].pending, << >>, heard)
      BY LineDrops DEF Local, Ordered
    <3> QED
      BY <1>1, <1>3, <1>6, <3>1 DEF Ordered
  <2>5. Faithful(r)'
    BY <1>1, <1>2, <1>3, <1>6, <1>20 DEF Faithful, Running, Writing, Clean
  <2>6. Discreet(r)'
    BY <1>1, <1>6, NoAudio DEF Local, Discreet
  <2> QED
    BY <2>1, <2>2, <2>3, <2>4, <2>5, <2>6 DEF Local
<1> QED
  BY <1>5, <1>6, DrainDoes

\* TailWritten: the bill catches up with the tail.
LEMMA TailWrittenLocal ==
  ASSUME Types, NEW r \in Recording, Local(r), TailWritten(r)
  PROVE  Local(r)'
<1>1. thread[r].step = "write" /\ thread[r].phase = "tail" /\ writer[r].pending = << >>
  BY DEF TailWritten, At
<1>2. /\ session[r].state = "recording" /\ session[r].recorded < Limit + Depth
      /\ thread[r].polled <= Depth
      /\ device[r].queue = << >> /\ ~ device[r].live
  BY <1>1 DEF Local, Shape, Spent, Writing
<1>3. /\ thread'[r].step = "flush" /\ thread'[r].phase = "finish"
      /\ session'[r].recorded = session[r].recorded + thread[r].polled
      /\ UNCHANGED << disk, files, device, writer, past, heard >>
  BY <1>2, TailWrittenDoes
<1>4. Audio(r)' = Audio(r)
  BY <1>3 DEF Audio
<1>5. /\ Limit \in Nat /\ Depth \in Nat /\ session[r].recorded \in Nat /\ thread[r].polled \in Nat
      /\ Len(past[r].kept) \in Nat /\ Len(<< >>) = 0
  BY RecordingAssumption, Fields, LenProperties, NoAudio
<1>6. Shape(r)'
  BY <1>1, <1>2, <1>3 DEF Local, Shape, Running, Writing
<1>7. Spent(r)'
  <2>1. session[r].recorded + thread[r].polled < Limit + 2 * Depth
    BY <1>2, <1>5
  <2> QED
    BY <1>1, <1>3, <2>1 DEF Local, Spent, Writing
<1>8. Durable(r)' /\ Ordered(r)'
  BY <1>1, <1>3, <1>4 DEF Local, Durable, Ordered, Running
<1>9. Faithful(r)'
  <2>1. Clean(r) => /\ past[r].kept = Audio(r) \o writer[r].current
                    /\ Len(writer[r].current) <= SegmentChunks
                    /\ session[r].recorded + thread[r].polled = Len(past[r].kept) + Len(writer[r].pending)
    BY <1>1 DEF Local, Faithful, Running, Writing
  <2>2. Clean(r) => session'[r].recorded = Len(past[r].kept)
    BY <1>1, <1>3, <1>5, <2>1
  <2> QED
    BY <1>1, <1>3, <1>4, <2>1, <2>2 DEF Faithful, Running, Writing, Clean
<1>10. Discreet(r)'
  BY <1>2, <1>3, NoAudio DEF Local, Discreet
<1> QED
  BY <1>6, <1>7, <1>8, <1>9, <1>10 DEF Local

\* Flush: after a clean run there is nothing left to take.
LEMMA FlushLocal ==
  ASSUME Types, NEW r \in Recording, Local(r), Flush(r)
  PROVE  Local(r)'
<1>1. /\ thread[r].step = "flush" /\ thread'[r].step \in {"note", "put"}
      /\ thread'[r].phase = thread[r].phase
      /\ writer'[r].pending = << >> /\ writer'[r].closed = writer[r].closed
      /\ past'[r].failures = past[r].failures /\ past'[r].resumed = past[r].resumed
      /\ thread'[r].step = "put" <=> writer'[r].current # << >>
      /\ UNCHANGED << disk, files, device, session, heard >>
  BY FlushDoes
<1>2. PICK rest, lost \in Seq(Chunk) :
        /\ writer[r].pending = rest \o lost
        /\ writer'[r].current = writer[r].current \o rest
        /\ past'[r].kept = past[r].kept \o rest
  BY FlushDoes
<1>3. thread[r].phase = "finish" /\ Running(r)
  BY <1>1 DEF Local, Shape, Running
<1>4. Audio(r)' = Audio(r)
  BY <1>1 DEF Audio
<1>5. Shape(r)'
  BY <1>1, <1>3 DEF Local, Shape, Running, Writing
<1>6. Spent(r)'
  BY <1>1, <1>3 DEF Local, Spent, Writing
<1>7. writer[r].current \o rest \in Seq(Chunk) /\ heard \in Nat
  BY Fields, ConcatProperties
<1>8. Durable(r)'
  <2>1. Fits(disk[r].segments, writer[r].current \o rest, lost, device[r].queue, heard)
    BY <1>2, Fields, FitsEncodes DEF Local, Durable
  <2>2. Fits(disk[r].segments, writer[r].current \o rest, << >>, device[r].queue, heard)
    BY <1>7, <2>1, Fields, FitsDrops
  <2> QED
    BY <1>1, <1>2, <1>3, <2>2 DEF Local, Durable, Running
<1>9. Ordered(r)'
  <2>1. InLine(Audio(r), writer[r].current \o rest, lost, device[r].queue, heard)
    BY <1>2, Fields, LineEncodes DEF Local, Ordered
  <2>2. InLine(Audio(r), writer[r].current \o rest, << >>, device[r].queue, heard)
    BY <2>1, LineDrops
  <2> QED
    BY <1>1, <1>2, <1>4, <2>2 DEF Ordered
<1>10. Faithful(r)'
  <2>1. Clean(r) => /\ past[r].kept = Audio(r) \o writer[r].current
                    /\ Len(writer[r].current) <= SegmentChunks
                    /\ writer[r].pending = << >> /\ session[r].recorded = Len(past[r].kept)
    BY <1>1, <1>3 DEF Local, Faithful, Writing
  <2>2. Clean(r) => rest = << >>
    BY <1>2, <2>1, ConcatEqualIffEmpty
  <2>3. Clean(r) => writer'[r].current = writer[r].current /\ past'[r].kept = past[r].kept
    BY <1>2, <2>2, Fields, ConcatEmptySeq
  <2> QED
    BY <1>1, <1>3, <1>4, <2>1, <2>3 DEF Faithful, Running, Writing, Clean
<1>11. Discreet(r)'
  <2>1. \A i \in DOMAIN (rest \o lost) : (rest \o lost)[i].pause <= past[r].resumed
    BY <1>2 DEF Local, Discreet
  <2>2. \A i \in DOMAIN rest : rest[i].pause <= past[r].resumed
    BY <2>1, PauseJoint
  <2>3. past[r].kept \in Seq(Chunk) /\ \A i \in DOMAIN past[r].kept : past[r].kept[i].pause <= past[r].resumed
    BY Fields DEF Local, Discreet
  <2>4. \A i \in DOMAIN (past[r].kept \o rest) : (past[r].kept \o rest)[i].pause <= past[r].resumed
    BY <2>2, <2>3, PauseJoint
  <2> QED
    BY <1>1, <1>2, <2>4, NoAudio DEF Local, Discreet
<1> QED
  BY <1>5, <1>6, <1>8, <1>9, <1>10, <1>11 DEF Local

\* PutSegment: no file that is named is written.
LEMMA PutSegmentLocal ==
  ASSUME Types, NEW r \in Recording, Local(r), PutSegment(r)
  PROVE  Local(r)'
<1>1. /\ thread[r].step = "put" /\ thread'[r].step = "save"
      /\ thread'[r].phase = thread[r].phase /\ thread'[r].polled = thread[r].polled
      /\ \A i \in Index : i # writer[r].closed + 1 => files'[r][i] = files[r][i]
      /\ writer[r].closed + 1 \in Index => files'[r][writer[r].closed + 1] = writer[r].current
      /\ UNCHANGED << disk, device, session, writer, past, heard >>
  BY PutSegmentDoes
<1>2. Audio(r)' = Audio(r)
  BY <1>1 DEF Audio
<1>3. Shape(r)'
  BY <1>1 DEF Local, Shape, Running, Writing
<1>4. Spent(r)'
  BY <1>1 DEF Local, Spent, Writing
<1>5. Durable(r)'
  <2>1. /\ writer[r].closed = Len(disk[r].segments) /\ writer[r].current # << >>
        /\ Fits(disk[r].segments, writer[r].current, writer[r].pending, device[r].queue, heard)
        /\ \A i \in DOMAIN disk[r].segments : files[r][i] = disk[r].segments[i]
    BY <1>1 DEF Local, Shape, Durable, Running
  <2>2. DOMAIN disk[r].segments \subseteq Index /\ Len(disk[r].segments) + 1 \in Index
    BY <2>1, Fields, RoomForMore
  <2>3. DOMAIN disk[r].segments = 1 .. Len(disk[r].segments) /\ Len(disk[r].segments) \in Nat
    BY Fields, LenProperties
  <2>4. \A i \in DOMAIN disk[r].segments : files'[r][i] = disk[r].segments[i]
    BY <1>1, <2>1, <2>2, <2>3
  <2> QED
    BY <1>1, <2>1, <2>2, <2>4 DEF Durable, Running
<1>6. Ordered(r)' /\ Discreet(r)'
  BY <1>1, <1>2 DEF Local, Ordered, Discreet
<1>7. Faithful(r)'
  BY <1>1, <1>2 DEF Local, Faithful, Running, Writing, Clean
<1> QED
  BY <1>3, <1>4, <1>5, <1>6, <1>7 DEF Local

\* SaveSegment: what the manifest names is in its file.
LEMMA SaveSegmentLocal ==
  ASSUME Types, NEW r \in Recording, Local(r), SaveSegment(r)
  PROVE  Local(r)'
<1>1. /\ thread[r].step = "save" /\ thread'[r].phase = thread[r].phase
      /\ thread'[r].polled = thread[r].polled
      /\ thread'[r].step = IF thread[r].phase = "finish" THEN "note" ELSE "write"
      /\ disk'[r].segments = Append(disk[r].segments, writer[r].current)
      /\ disk'[r].state = disk[r].state
      /\ writer'[r].pending = writer[r].pending /\ writer'[r].current = << >>
      /\ writer'[r].closed = writer[r].closed + 1
      /\ UNCHANGED << files, device, session, past, heard >>
  BY SaveSegmentDoes
<1>2. Audio(r)' = Audio(r) \o writer[r].current
  <2>1. disk[r].segments \in Seq(Seq(Chunk)) /\ writer[r].current \in Seq(Chunk)
    BY Fields
  <2>2. FlattenSeq(Append(disk[r].segments, writer[r].current))
          = FlattenSeq(disk[r].segments) \o writer[r].current
    BY <2>1, FlattenAppend
  <2> QED
    BY <1>1, <2>2 DEF Audio
<1>3. disk[r].state # "absent"
  BY <1>1 DEF Local, Shape
<1>4. Shape(r)'
  BY <1>1, <1>3 DEF Local, Shape, Running, Writing
<1>5. Spent(r)'
  BY <1>1 DEF Local, Spent, Writing
<1>6. Durable(r)'
  <2> DEFINE a == disk[r].segments
             c == writer[r].current
  <2>1. /\ writer[r].closed = Len(a) /\ c # << >>
        /\ Fits(a, c, writer[r].pending, device[r].queue, heard)
        /\ \A i \in DOMAIN a : files[r][i] = a[i]
        /\ files[r][writer[r].closed + 1] = c
    BY <1>1 DEF Local, Shape, Durable, Running
  <2>2. a \in Seq(Seq(Chunk)) /\ c \in Seq(Chunk) /\ Len(a) \in Nat /\ DOMAIN a = 1 .. Len(a)
    BY Fields, LenProperties
  <2>3. /\ Append(a, c) \in Seq(Seq(Chunk)) /\ Len(Append(a, c)) = Len(a) + 1
        /\ \A i \in 1 .. Len(a) : Append(a, c)[i] = a[i]
        /\ Append(a, c)[Len(a) + 1] = c
    BY <2>2, AppendProperties
  <2>4. DOMAIN Append(a, c) = 1 .. Len(a) + 1
    BY <2>3, LenProperties
  <2>5. Fits(Append(a, c), << >>, writer[r].pending, device[r].queue, heard)
    BY <2>1, <2>2, Fields, FitsSaves
  <2> HIDE DEF a, c
  <2>6. \A i \in DOMAIN Append(a, c) : files[r][i] = Append(a, c)[i]
    BY <2>1, <2>2, <2>3, <2>4
  <2> QED
    BY <1>1, <2>1, <2>3, <2>5, <2>6 DEF Durable, Running, a, c
<1>7. Ordered(r)'
  <2>1. InLine(Audio(r) \o writer[r].current, << >>, writer[r].pending, device[r].queue, heard)
    BY Fields, LineSaves DEF Local, Ordered
  <2> QED
    BY <1>1, <1>2, <2>1 DEF Ordered
<1>8. Faithful(r)'
  <2>1. Clean(r) => past[r].kept = Audio(r) \o writer[r].current
    BY <1>1 DEF Local, Faithful, Running
  <2>2. Clean(r) => past[r].kept = Audio(r)' \o << >>
    BY <1>2, <2>1, Fields, ConcatEmptySeq
  <2>3. Len(<< >>) = 0 /\ SegmentChunks \in Nat /\ 0 <= SegmentChunks
    BY NoAudio, RecordingAssumption
  <2>4. CASE thread[r].phase = "finish"
    <3>1. Clean(r) => writer[r].pending = << >> /\ session[r].recorded = Len(past[r].kept)
      BY <1>1, <2>4 DEF Local, Faithful, Running, Writing
    <3> QED
      BY <1>1, <2>2, <2>3, <2>4, <3>1 DEF Faithful, Running, Writing, Clean
  <2>5. CASE thread[r].phase # "finish"
    <3>1. Clean(r) => session[r].recorded + thread[r].polled = Len(past[r].kept) + Len(writer[r].pending)
      BY <1>1, <2>5 DEF Local, Faithful, Running, Writing
    <3> QED
      BY <1>1, <2>2, <2>3, <2>5, <3>1 DEF Faithful, Running, Writing, Clean
  <2> QED
    BY <2>4, <2>5
<1>9. Discreet(r)'
  BY <1>1 DEF Local, Discreet
<1> QED
  BY <1>4, <1>5, <1>6, <1>7, <1>8, <1>9 DEF Local

\* NotePaused.
LEMMA NotePausedLocal ==
  ASSUME Types, NEW r \in Recording, Local(r), NotePaused(r)
  PROVE  Local(r)'
<1>1. /\ thread[r].step = "note" /\ thread'[r].step = "state"
      /\ thread'[r].phase = thread[r].phase
      /\ disk'[r].segments = disk[r].segments /\ disk'[r].state = disk[r].state
      /\ disk'[r].paused = session[r].discarded
      /\ UNCHANGED << files, device, session, writer, past, heard >>
  BY NotePausedDoes
<1>2. Audio(r)' = Audio(r)
  BY <1>1 DEF Audio
<1>3. Shape(r)'
  BY <1>1 DEF Local, Shape, Running, Writing
<1>4. Spent(r)'
  BY <1>1 DEF Local, Spent, Writing
<1>5. Durable(r)' /\ Ordered(r)' /\ Discreet(r)'
  BY <1>1, <1>2 DEF Local, Durable, Ordered, Discreet, Running
<1>6. Faithful(r)'
  BY <1>1, <1>2 DEF Local, Faithful, Running, Writing, Clean
<1> QED
  BY <1>3, <1>4, <1>5, <1>6 DEF Local

\* SetUploading: what is offered is all that was kept, and billed.
LEMMA SetUploadingLocal ==
  ASSUME Types, NEW r \in Recording, Local(r), SetUploading(r)
  PROVE  Local(r)'
<1>1. /\ thread[r].step = "state" /\ thread'[r].step = "ended"
      /\ thread'[r].phase = thread[r].phase
      /\ disk'[r].segments = disk[r].segments /\ disk'[r].state = "uploading"
      /\ disk'[r].paused = disk[r].paused
      /\ writer'[r].pending = << >> /\ writer'[r].current = << >> /\ writer'[r].closed = 0
      /\ UNCHANGED << files, device, session, past, heard >>
  BY SetUploadingDoes
<1>2. Audio(r)' = Audio(r)
  BY <1>1 DEF Audio
<1>3. Shape(r)'
  BY <1>1 DEF Local, Shape, Running, Writing
<1>4. Spent(r)'
  BY <1>1 DEF Local, Spent, Writing
<1>5. Durable(r)'
  <2>1. Fits(disk[r].segments, << >>, << >>, device[r].queue, heard)
    BY Fields, FitsDrops DEF Local, Durable
  <2> QED
    BY <1>1, <2>1 DEF Local, Durable, Running
<1>6. Ordered(r)'
  <2>1. InLine(Audio(r), << >>, << >>, device[r].queue, heard)
    BY LineDrops DEF Local, Ordered
  <2> QED
    BY <1>1, <1>2, <2>1 DEF Ordered
<1>7. Faithful(r)'
  <2>1. Clean(r) => /\ past[r].kept = Audio(r) \o writer[r].current /\ writer[r].current = << >>
                    /\ session[r].recorded = Len(past[r].kept)
                    /\ disk[r].paused = session[r].discarded
    BY <1>1 DEF Local, Shape, Faithful, Running, Writing
  <2>2. Audio(r) \o << >> = Audio(r) /\ IsPrefix(Audio(r), Audio(r) \o << >>) /\ Len(Audio(r)) \in Nat
    <3>1. Audio(r) \in Seq(Chunk) /\ << >> \in Seq(Chunk)
      BY Fields, EmptySeq
    <3> QED
      BY <3>1, ConcatEmptySeq, PrefixJoint, LenProperties
  <2>3. SegmentChunks \in Nat
    BY RecordingAssumption
  <2>4. Clean(r) => /\ past[r].kept = Audio(r) /\ IsPrefix(Audio(r), past[r].kept)
                    /\ Len(past[r].kept) <= Len(Audio(r)) + SegmentChunks
    <3>1. SUFFICES ASSUME Clean(r)
                   PROVE  /\ past[r].kept = Audio(r) /\ IsPrefix(Audio(r), past[r].kept)
                          /\ Len(past[r].kept) <= Len(Audio(r)) + SegmentChunks
      OBVIOUS
    <3>2. past[r].kept = Audio(r) \o << >>
      BY <2>1, <3>1
    <3>3. past[r].kept = Audio(r)
      BY <2>2, <3>2
    <3>4. IsPrefix(Audio(r), past[r].kept)
      BY <2>2, <3>2
    <3>5. Len(past[r].kept) <= Len(Audio(r)) + SegmentChunks
      BY <2>2, <2>3, <3>3
    <3> QED
      BY <3>3, <3>4, <3>5
  <2> QED
    BY <1>1, <1>2, <2>1, <2>4 DEF Faithful, Running, Writing, Clean
<1>8. Discreet(r)'
  BY <1>1, NoAudio DEF Local, Discreet
<1> QED
  BY <1>3, <1>4, <1>5, <1>6, <1>7, <1>8 DEF Local

\* A failed write loses the open segment and no file that is named.
LEMMA FailureLocal ==
  ASSUME Types, Types', NEW r \in Recording, Local(r), Failure(r),
         thread[r].step \in {"put", "save", "note", "state"}
  PROVE  Local(r)'
<1>1. /\ past'[r].failures = past[r].failures + 1
      /\ past'[r].kept = past[r].kept /\ past'[r].resumed = past[r].resumed
      /\ \A i \in Index : i # writer[r].closed + 1 => files'[r][i] = files[r][i]
      /\ UNCHANGED << disk, device, heard >>
      /\ writer'[r].current = << >>
      /\ thread'[r].step \in {"drain", "flush"} =>
           writer'[r].pending = writer[r].pending /\ writer'[r].closed = writer[r].closed
  BY DEF Failure, Aftermath
<1>2. \/ /\ thread[r].phase = "loop" /\ session'[r] = session[r]
         /\ thread'[r].step = "drain" /\ thread'[r].phase = "loop"
      \/ /\ thread[r].phase = "tail" /\ session'[r].recorded <= session[r].recorded + thread[r].polled
         /\ thread'[r].step = "flush" /\ thread'[r].phase = "finish"
      \/ /\ thread[r].phase = "finish" /\ session'[r] = session[r]
         /\ thread'[r].step = "ended" /\ thread'[r].phase = "finish"
         /\ writer'[r].pending = << >> /\ writer'[r].closed = 0
  BY DEF Failure, Aftermath
<1>3. Audio(r)' = Audio(r)
  BY <1>1 DEF Audio
<1>4. /\ disk[r].state # "absent" /\ Running(r)
      /\ thread[r].step \in {"note", "state"} => thread[r].phase = "finish"
      /\ thread[r].phase # "loop" => device[r].queue = << >> /\ ~ device[r].live
  BY DEF Local, Shape, Running
<1>5. writer'[r].pending = writer[r].pending \/ writer'[r].pending = << >>
  BY <1>1, <1>2
<1>6. Shape(r)'
  BY <1>1, <1>2, <1>4 DEF Shape, Running, Writing
<1>7. Spent(r)'
  <2>1. /\ Limit \in Nat /\ Depth \in Nat /\ session[r].recorded \in Nat /\ thread[r].polled \in Nat
        /\ session[r].recorded < Limit + 2 * Depth /\ Len(device[r].queue) <= Depth
    BY RecordingAssumption, Fields DEF Local, Spent
  <2>2. CASE thread[r].phase = "loop"
    <3>1. session[r].recorded < Limit
      BY <1>4, <2>2 DEF Local, Spent, Writing
    <3>2. session'[r] = session[r] /\ thread'[r].step = "drain"
      BY <1>2, <2>2
    <3> QED
      BY <1>1, <2>1, <3>1, <3>2 DEF Spent, Writing
  <2>3. CASE thread[r].phase = "tail"
    <3>1. session[r].recorded < Limit + Depth /\ thread[r].polled <= Depth
      BY <1>4, <2>3 DEF Local, Spent, Writing
    <3>2. session'[r].recorded <= session[r].recorded + thread[r].polled /\ thread'[r].step = "flush"
      BY <1>2, <2>3
    <3>3. session'[r].recorded \in Nat
      BY DEF Types, Session
    <3>4. session'[r].recorded < Limit + 2 * Depth
      BY <2>1, <3>1, <3>2, <3>3
    <3> QED
      BY <1>1, <2>1, <3>2, <3>4 DEF Spent, Writing
  <2>4. CASE thread[r].phase = "finish"
    <3>1. session'[r] = session[r] /\ thread'[r].step = "ended"
      BY <1>2, <2>4
    <3> QED
      BY <1>1, <2>1, <3>1 DEF Spent, Writing
  <2> QED
    BY <1>2, <2>2, <2>3, <2>4
<1>8. Durable(r)'
  <2>1. /\ writer[r].closed = Len(disk[r].segments)
        /\ Fits(disk[r].segments, writer[r].current, writer[r].pending, device[r].queue, heard)
        /\ \A i \in DOMAIN disk[r].segments : files[r][i] = disk[r].segments[i]
    BY <1>4 DEF Local, Durable
  <2>2. DOMAIN disk[r].segments \subseteq Index
    BY <2>1, Fields, RoomForMore
  <2>3. DOMAIN disk[r].segments = 1 .. Len(disk[r].segments) /\ Len(disk[r].segments) \in Nat
    BY Fields, LenProperties
  <2>4. \A i \in DOMAIN disk[r].segments : files'[r][i] = disk[r].segments[i]
    BY <1>1, <2>1, <2>2, <2>3
  <2>5. /\ Fits(disk[r].segments, << >>, writer[r].pending, device[r].queue, heard)
        /\ Fits(disk[r].segments, << >>, << >>, device[r].queue, heard)
    BY <2>1, Fields, FitsDrops
  <2> QED
    BY <1>1, <1>2, <1>5, <2>1, <2>4, <2>5 DEF Durable, Running
<1>9. Ordered(r)'
  <2>1. /\ InLine(Audio(r), << >>, writer[r].pending, device[r].queue, heard)
        /\ InLine(Audio(r), << >>, << >>, device[r].queue, heard)
    BY LineDrops DEF Local, Ordered
  <2> QED
    BY <1>1, <1>3, <1>5, <2>1 DEF Ordered
<1>10. Faithful(r)'
  BY <1>1, Fields DEF Faithful, Clean
<1>11. Discreet(r)'
  <2>1. /\ \A i \in DOMAIN writer'[r].pending : writer'[r].pending[i].pause <= past[r].resumed
    BY <1>5, NoAudio DEF Local, Discreet
  <2>2. CASE thread[r].phase = "loop"
    <3>1. session'[r] = session[r]
      BY <1>2, <2>2
    <3> QED
      BY <1>1, <2>1, <3>1 DEF Local, Discreet
  <2>3. CASE thread[r].phase # "loop"
    BY <1>1, <1>4, <2>1, <2>3, NoAudio DEF Local, Discreet
  <2> QED
    BY <2>2, <2>3
<1> QED
  BY <1>6, <1>7, <1>8, <1>9, <1>10, <1>11 DEF Local

\* Crash: the disk stays, but for the file that was being written.
LEMMA CrashDoes ==
  ASSUME Types, Crash
  PROVE  /\ Types'
         /\ recorder' = AtRest /\ UNCHANGED << disk, past, heard >>
         /\ \A r \in Recording :
              /\ mailbox'[r] = << >> /\ device'[r] = Silent /\ session'[r] = Begun
              /\ writer'[r] = Fresh /\ thread'[r] = Off
              /\ \/ files'[r] = files[r]
                 \/ /\ thread[r].step = "put"
                    /\ \A i \in Index : i # writer[r].closed + 1 => files'[r][i] = files[r][i]
<1>1. << >> \in Seq(Chunk) /\ << >> \in Seq(Message)
  BY EmptySeq
<1>2. /\ recorder' = AtRest
      /\ mailbox' = [r \in Recording |-> << >>] /\ device' = [r \in Recording |-> Silent]
      /\ session' = [r \in Recording |-> Begun] /\ writer' = [r \in Recording |-> Fresh]
      /\ thread' = [r \in Recording |-> Off]
      /\ UNCHANGED << disk, past, heard >>
  BY DEF Crash
<1>3. Silent \in Device /\ Begun \in Session
  BY <1>1 DEF Silent, Device, Begun, Session, AppState
<1>4. Fresh \in Writer /\ Off \in Thread
  BY <1>1 DEF Fresh, Writer, Off, Thread, Step, Phase
<1>5. AtRest \in Holder
  BY DEF AtRest, Holder
<1>6. left' \in Allowance
  BY SpendTypes DEF Crash, Types
<1>7. /\ files' \in [Recording -> [Index -> Seq(Chunk)]]
      /\ \A r \in Recording :
           \/ files'[r] = files[r]
           \/ /\ thread[r].step = "put"
              /\ \A i \in Index : i # writer[r].closed + 1 => files'[r][i] = files[r][i]
  <2>1. CASE files' = files
    BY <2>1 DEF Types
  <2>2. CASE files' # files
    <3>1. PICK q \in Recording :
            /\ thread[q].step = "put"
            /\ files' = [files EXCEPT ![q][writer[q].closed + 1] = Torn]
      BY <2>2 DEF Crash, At
    <3>2. files[q] \in [Index -> Seq(Chunk)] /\ Torn \in Seq(Chunk) /\ writer[q].closed \in Nat
      BY <1>1, Fields DEF Types, Torn
    <3>3. PICK n \in Nat : n = writer[q].closed + 1
      BY <3>2
    <3>4. PICK f : f = [files[q] EXCEPT ![n] = Torn]
      OBVIOUS
    <3>5. f \in [Index -> Seq(Chunk)]
      BY <3>2, <3>4
    <3>6. \A i \in Index : i # n => f[i] = files[q][i]
      BY <3>2, <3>4
    <3>7. files' = [files EXCEPT ![q] = f]
      BY <3>1, <3>3, <3>4
    <3>8. files' \in [Recording -> [Index -> Seq(Chunk)]] /\ files'[q] = f
      BY <3>5, <3>7 DEF Types
    <3>9. \A r \in Recording \ {q} : files'[r] = files[r]
      BY <3>7 DEF Types
    <3> QED
      BY <3>1, <3>3, <3>6, <3>8, <3>9
  <2> QED
    BY <2>1, <2>2
<1>8. Types'
  BY <1>2, <1>3, <1>4, <1>5, <1>6, <1>7, <1>1 DEF Types
<1> QED
  BY <1>2, <1>7, <1>8

\* What was kept is on the disk but for the open segment.
LEMMA KeptIsClose ==
  ASSUME Types, NEW r \in Recording, Local(r)
  PROVE  Clean(r) => /\ IsPrefix(Audio(r), past[r].kept)
                     /\ Len(past[r].kept) <= Len(Audio(r)) + SegmentChunks
<1>1. SUFFICES ASSUME Clean(r)
               PROVE  /\ IsPrefix(Audio(r), past[r].kept)
                      /\ Len(past[r].kept) <= Len(Audio(r)) + SegmentChunks
  OBVIOUS
<1>2. CASE ~ Running(r)
  BY <1>1, <1>2 DEF Local, Faithful
<1>3. CASE Running(r)
  <2>1. /\ past[r].kept = Audio(r) \o writer[r].current
        /\ Len(writer[r].current) <= SegmentChunks
    BY <1>1, <1>3 DEF Local, Faithful
  <2>2. /\ Audio(r) \in Seq(Chunk) /\ writer[r].current \in Seq(Chunk)
        /\ Len(writer[r].current) \in Nat /\ Len(Audio(r)) \in Nat /\ SegmentChunks \in Nat
    BY Fields, LenProperties, RecordingAssumption
  <2>3. /\ IsPrefix(Audio(r), past[r].kept)
        /\ Len(past[r].kept) = Len(Audio(r)) + Len(writer[r].current)
    BY <2>1, <2>2, PrefixJoint
  <2> QED
    BY <2>1, <2>2, <2>3
<1> QED
  BY <1>2, <1>3

\* Crash: memory is lost, and with it the open segment at most.
LEMMA CrashLocal ==
  ASSUME Types, NEW r \in Recording, Local(r), Crash
  PROVE  Local(r)'
<1>1. /\ UNCHANGED << disk, past, heard >>
      /\ device'[r].queue = << >> /\ ~ device'[r].live
      /\ session'[r].recorded = 0
      /\ writer'[r].pending = << >> /\ writer'[r].current = << >> /\ writer'[r].closed = 0
      /\ thread'[r].step = "off" /\ thread'[r].phase = "loop"
  BY CrashDoes DEF Silent, Begun, Fresh, Off
<1>2. Audio(r)' = Audio(r)
  BY <1>1 DEF Audio
<1>3. Shape(r)'
  BY <1>1 DEF Local, Shape, Running, Writing
<1>4. Spent(r)'
  <2>1. /\ Limit \in Nat /\ Limit > 0 /\ Depth \in Nat /\ Len(<< >>) = 0
        /\ 0 < Limit + 2 * Depth
    BY RecordingAssumption, NoAudio
  <2> QED
    BY <1>1, <2>1 DEF Spent, Writing
<1>5. Durable(r)'
  <2>1. /\ Fits(disk[r].segments, writer[r].current, writer[r].pending, device[r].queue, heard)
        /\ \A i \in DOMAIN disk[r].segments : files[r][i] = disk[r].segments[i]
    BY DEF Local, Durable
  <2>2. DOMAIN disk[r].segments \subseteq Index
    BY <2>1, Fields, RoomForMore
  <2>3. DOMAIN disk[r].segments = 1 .. Len(disk[r].segments) /\ Len(disk[r].segments) \in Nat
    BY Fields, LenProperties
  <2>4. \A i \in DOMAIN disk[r].segments : files'[r][i] = disk[r].segments[i]
    <3>1. CASE files'[r] = files[r]
      BY <2>1, <3>1
    <3>2. CASE files'[r] # files[r]
      <4>1. /\ thread[r].step = "put"
            /\ \A i \in Index : i # writer[r].closed + 1 => files'[r][i] = files[r][i]
        BY <3>2, CrashDoes
      <4>2. writer[r].closed = Len(disk[r].segments)
        BY <4>1 DEF Local, Durable, Running
      <4> QED
        BY <2>1, <2>2, <2>3, <4>1, <4>2
    <3> QED
      BY <3>1, <3>2
  <2>5. Fits(disk[r].segments, << >>, << >>, << >>, heard)
    BY <2>1, Fields, FitsDrops
  <2> QED
    BY <1>1, <2>4, <2>5 DEF Durable, Running
<1>6. Ordered(r)'
  <2>1. InLine(Audio(r), << >>, << >>, << >>, heard)
    BY LineDrops DEF Local, Ordered
  <2> QED
    BY <1>1, <1>2, <2>1 DEF Ordered
<1>7. Faithful(r)'
  <2>1. Clean(r) => /\ IsPrefix(Audio(r), past[r].kept)
                    /\ Len(past[r].kept) <= Len(Audio(r)) + SegmentChunks
    BY KeptIsClose
  <2> QED
    BY <1>1, <1>2, <2>1 DEF Faithful, Running, Writing, Clean
<1>8. Discreet(r)'
  BY <1>1, NoAudio DEF Local, Discreet
<1> QED
  BY <1>3, <1>4, <1>5, <1>6, <1>7, <1>8 DEF Local

-----------------------------------------------------------------------------
(* Who holds a recording in progress.                                      *)

\* Nothing the hold depends on changes.
LEMMA HeldStays ==
  ASSUME Held, UNCHANGED << recorder, mailbox, thread >>
  PROVE  Held'
  BY DEF Held, RunningIsHeld, Mail, Running

\* A thread's own steps change nobody's hold.
LEMMA QuietHeld ==
  ASSUME Held, NEW r \in Recording, Quiet(r)
  PROVE  Held'
<1>1. RunningIsHeld'
  BY DEF Held, RunningIsHeld, Quiet, Running
<1>2. ASSUME NEW q \in Recording, ~ Running(q)' PROVE mailbox'[q] = << >>
  BY <1>2 DEF Held, Mail, Quiet, Running
<1>3. ASSUME NEW q \in Recording, NEW i \in DOMAIN mailbox'[q], mailbox'[q][i].awaited
      PROVE recorder'.engine = q /\ recorder'.asking # "none" /\ i = Len(mailbox'[q])
  <2>1. mailbox'[q] = mailbox[q]
    BY <1>3, NoAudio DEF Quiet
  <2> QED
    BY <1>3, <2>1 DEF Held, Mail, Quiet
<1> QED
  BY <1>1, <1>2, <1>3 DEF Held, Mail

\* Obey: an answered stop moves the recording to those waited for.
LEMMA ObeyHeld ==
  ASSUME Types, Held, NEW r \in Recording, Obey(r)
  PROVE  Held'
<1>1. /\ Elsewhere(r) /\ thread[r].step = "top" /\ thread'[r].step \in {"top", "drain"}
      /\ mailbox[r] # << >> /\ mailbox'[r] = Tail(mailbox[r])
      /\ \A q \in Recording \ {r} : mailbox'[q] = mailbox[q]
      /\ ~ Head(mailbox[r]).awaited => recorder' = recorder
      /\ Head(mailbox[r]).awaited =>
           /\ recorder'.engine = recorder.engine \/ (recorder'.engine = None /\ r \in recorder'.joining)
           /\ recorder.joining \subseteq recorder'.joining
  BY ObeyDoes
<1>2. mailbox[r] \in Seq(Message)
  BY DEF Types
<1>3. /\ Len(mailbox[r]) \in Nat /\ Len(mailbox[r]) # 0
      /\ DOMAIN mailbox[r] = 1 .. Len(mailbox[r]) /\ Head(mailbox[r]) = mailbox[r][1]
  BY <1>1, <1>2, LenProperties, EmptySeq
<1>4. /\ mailbox'[r] \in Seq(Message) /\ Len(mailbox'[r]) = Len(mailbox[r]) - 1
      /\ \A i \in 1 .. Len(mailbox[r]) - 1 : mailbox'[r][i] = mailbox[r][i + 1]
  BY <1>1, <1>2, HeadTailProperties
<1>5. DOMAIN mailbox'[r] = 1 .. Len(mailbox[r]) - 1
  BY <1>4, LenProperties
<1>6. Running(r) /\ Running(r)' /\ \A q \in Recording \ {r} : Running(q)' = Running(q)
  BY <1>1 DEF Running, Elsewhere, Same
<1>7. CASE Head(mailbox[r]).awaited
  <2>1. recorder.engine = r /\ Len(mailbox[r]) = 1
    <3>1. 1 \in DOMAIN mailbox[r] /\ mailbox[r][1].awaited
      BY <1>3, <1>7
    <3> QED
      BY <3>1 DEF Held, Mail
  <2>2. DOMAIN mailbox'[r] = {}
    BY <1>5, <2>1
  <2>3. ASSUME NEW q \in Recording, Running(q)' PROVE recorder'.engine = q \/ q \in recorder'.joining
    BY <1>1, <1>6, <1>7, <2>1, <2>3 DEF Held, RunningIsHeld
  <2>4. ASSUME NEW q \in Recording, ~ Running(q)' PROVE mailbox'[q] = << >>
    BY <1>1, <1>6, <2>4 DEF Held, Mail
  <2>5. ASSUME NEW q \in Recording, NEW i \in DOMAIN mailbox'[q], mailbox'[q][i].awaited
        PROVE FALSE
    <3>1. q # r
      BY <2>2, <2>5
    <3>2. mailbox'[q] = mailbox[q]
      BY <1>1, <3>1
    <3> QED
      BY <2>1, <2>5, <3>1, <3>2 DEF Held, Mail
  <2> QED
    BY <2>3, <2>4, <2>5 DEF Held, RunningIsHeld, Mail
<1>8. CASE ~ Head(mailbox[r]).awaited
  <2>1. recorder' = recorder
    BY <1>1, <1>8
  <2>3. ASSUME NEW q \in Recording, Running(q)' PROVE recorder'.engine = q \/ q \in recorder'.joining
    BY <1>6, <2>1, <2>3 DEF Held, RunningIsHeld
  <2>4. ASSUME NEW q \in Recording, ~ Running(q)' PROVE mailbox'[q] = << >>
    BY <1>1, <1>6, <2>4 DEF Held, Mail
  <2>5. ASSUME NEW q \in Recording, NEW i \in DOMAIN mailbox'[q], mailbox'[q][i].awaited
        PROVE recorder'.engine = q /\ recorder'.asking # "none" /\ i = Len(mailbox'[q])
    <3>1. CASE q # r
      BY <1>1, <2>1, <2>5, <3>1 DEF Held, Mail
    <3>2. CASE q = r
      <4>1. i \in 1 .. Len(mailbox[r]) - 1 /\ mailbox[r][i + 1].awaited
        BY <1>4, <1>5, <2>5, <3>2
      <4>2. i + 1 \in DOMAIN mailbox[r]
        BY <1>3, <4>1
      <4>3. recorder.engine = r /\ recorder.asking # "none" /\ i + 1 = Len(mailbox[r])
        BY <4>1, <4>2 DEF Held, Mail
      <4> QED
        BY <1>3, <1>4, <2>1, <3>2, <4>1, <4>3
    <3> QED
      BY <3>1, <3>2
  <2> QED
    BY <2>3, <2>4, <2>5 DEF Held, RunningIsHeld, Mail
<1> QED
  BY <1>7, <1>8

\* StartWith: the recorder holds the one it starts, and held none.
LEMMA StartHeld ==
  ASSUME Types, Held, NEW r \in Recording, StartWith(r)
  PROVE  Held'
<1>1. /\ Elsewhere(r) /\ thread'[r].step = "top"
      /\ recorder.engine = None /\ recorder.asking = "none" /\ mailbox' = mailbox
      /\ recorder'.engine = r /\ recorder'.asking = "none"
      /\ recorder'.joining = recorder.joining
  BY StartDoes
<1>2. Running(r)' /\ \A q \in Recording \ {r} : Running(q)' = Running(q)
  BY <1>1 DEF Running, Elsewhere, Same
<1>3. RunningIsHeld'
  <2>1. ASSUME NEW q \in Recording, Running(q)' PROVE recorder'.engine = q \/ q \in recorder'.joining
    <3>1. CASE q = r
      BY <1>1, <3>1
    <3>2. CASE q # r
      BY <1>1, <1>2, <2>1, <3>2, RecordingAssumption DEF Held, RunningIsHeld
    <3> QED
      BY <3>1, <3>2
  <2> QED
    BY <2>1 DEF RunningIsHeld
<1>4. Mail'
  BY <1>1, <1>2 DEF Held, Mail
<1> QED
  BY <1>3, <1>4 DEF Held

\* Crash: nothing runs.
LEMMA CrashHeld ==
  ASSUME Types, Crash
  PROVE  Held'
<1>1. \A r \in Recording : mailbox'[r] = << >> /\ ~ Running(r)'
  BY CrashDoes DEF Running, Off
<1> QED
  BY <1>1, NoAudio DEF Held, RunningIsHeld, Mail

\* What the window does touches no recording.
Aside == UNCHANGED << disk, files, device, session, writer, thread, past, heard >>

\* Reap: the engine let go of is over.
LEMMA ReapDoes ==
  ASSUME Types, Held, Reap
  PROVE  Types' /\ Held' /\ Aside
<1> DEFINE r == recorder.engine
<1>1. /\ r # None /\ thread[r].step = "ended" /\ recorder.asking = "none"
      /\ recorder' = IF thread[r].ok
                     THEN [recorder EXCEPT !.engine = None, !.completed = r]
                     ELSE [recorder EXCEPT !.engine = None, !.fault = TRUE]
      /\ UNCHANGED << disk, files, mailbox, device, session, writer, thread, past, heard, left >>
  BY DEF Reap, At, vault, engine
<1>2. recorder \in Holder
  BY DEF Types
<1> HIDE DEF r
<1>3. r \in Recording
  BY <1>1, <1>2 DEF Holder, r
<1>4. PICK g : g = [recorder EXCEPT !.engine = None, !.completed = r]
  OBVIOUS
<1>5. PICK h : h = [recorder EXCEPT !.engine = None, !.fault = TRUE]
  OBVIOUS
<1>6. /\ g \in Holder /\ g.engine = None /\ g.asking = recorder.asking /\ g.joining = recorder.joining
      /\ h \in Holder /\ h.engine = None /\ h.asking = recorder.asking /\ h.joining = recorder.joining
  BY <1>2, <1>3, <1>4, <1>5 DEF Holder
<1>7. recorder' = g \/ recorder' = h
  BY <1>1, <1>4, <1>5
<1>8. recorder' \in Holder /\ recorder'.asking = "none" /\ recorder'.joining = recorder.joining
  BY <1>1, <1>6, <1>7
<1>9. Types'
  BY <1>1, <1>8 DEF Types
<1>10. RunningIsHeld'
  <2>1. ~ Running(r)
    BY <1>1 DEF Running
  <2> QED
    BY <1>1, <1>8, <2>1 DEF Held, RunningIsHeld, Running, r
<1>11. Mail'
  BY <1>1, <1>8 DEF Held, Mail, Running
<1> QED
  BY <1>1, <1>9, <1>10, <1>11 DEF Held, Aside

\* Ask: the request waited for is the last in the mailbox.
LEMMA AskDoes ==
  ASSUME Types, Held, NEW op \in Command, Ask(op)
  PROVE  Types' /\ Held' /\ Aside
<1> DEFINE r == recorder.engine
<1>1. /\ r # None /\ recorder.asking = "none" /\ Running(r)
      /\ mailbox' = [mailbox EXCEPT ![r] = Append(mailbox[r], [op |-> op, awaited |-> TRUE])]
      /\ recorder' = [recorder EXCEPT !.asking = op]
      /\ UNCHANGED << disk, files, device, session, writer, thread, past, heard >>
  BY DEF Ask, vault
<1>2. recorder \in Holder /\ left' \in Allowance
  BY SpendTypes DEF Ask, Types
<1>3. r \in Recording
  BY <1>1, <1>2 DEF Holder
<1>4. PICK g : g = [recorder EXCEPT !.asking = op]
  OBVIOUS
<1>5. /\ g \in Holder /\ g.engine = r /\ g.asking = op /\ g.joining = recorder.joining
  BY <1>2, <1>4 DEF Holder
<1> HIDE DEF r
<1>6. PICK m : m = [op |-> op, awaited |-> TRUE]
  OBVIOUS
<1>7. m \in Message
  BY <1>6 DEF Message
<1>8. mailbox[r] \in Seq(Message) /\ mailbox \in [Recording -> Seq(Message)]
  BY <1>3 DEF Types
<1>9. PICK n : n = Append(mailbox[r], m)
  OBVIOUS
<1>10. /\ n \in Seq(Message) /\ Len(n) = Len(mailbox[r]) + 1 /\ Len(mailbox[r]) \in Nat
       /\ \A i \in 1 .. Len(mailbox[r]) : n[i] = mailbox[r][i]
       /\ DOMAIN mailbox[r] = 1 .. Len(mailbox[r])
  BY <1>7, <1>8, <1>9, AppendProperties, LenProperties
<1>11. DOMAIN n = 1 .. Len(mailbox[r]) + 1
  BY <1>10, LenProperties
<1>12. mailbox' = [mailbox EXCEPT ![r] = n] /\ recorder' = g
  BY <1>1, <1>4, <1>6, <1>9
<1>13. /\ mailbox' \in [Recording -> Seq(Message)] /\ mailbox'[r] = n
       /\ \A q \in Recording \ {r} : mailbox'[q] = mailbox[q]
  BY <1>3, <1>8, <1>10, <1>12
<1>14. Types'
  BY <1>1, <1>2, <1>5, <1>12, <1>13 DEF Types
<1>15. RunningIsHeld'
  BY <1>1, <1>5, <1>12 DEF Held, RunningIsHeld, Running, r
<1>16. ASSUME NEW q \in Recording, ~ Running(q)' PROVE mailbox'[q] = << >>
  <2>1. q # r
    BY <1>1, <1>16 DEF Running
  <2> QED
    BY <1>1, <1>13, <1>16, <2>1 DEF Held, Mail, Running
<1>17. ASSUME NEW q \in Recording, NEW i \in DOMAIN mailbox'[q], mailbox'[q][i].awaited
       PROVE recorder'.engine = q /\ recorder'.asking # "none" /\ i = Len(mailbox'[q])
  <2>1. q = r
    BY <1>1, <1>13, <1>17 DEF Held, Mail
  <2>2. ~ (i \in 1 .. Len(mailbox[r]))
    <3> SUFFICES ASSUME i \in 1 .. Len(mailbox[r]) PROVE FALSE
      OBVIOUS
    <3>1. i \in DOMAIN mailbox[r] /\ mailbox[r][i].awaited
      BY <1>10, <1>13, <1>17, <2>1
    <3> QED
      BY <1>1, <1>3, <3>1 DEF Held, Mail
  <2>3. i = Len(mailbox[r]) + 1
    BY <1>10, <1>11, <1>13, <1>17, <2>1, <2>2
  <2>4. op # "none"
    BY DEF Command
  <2> QED
    BY <1>5, <1>10, <1>12, <1>13, <2>1, <2>3, <2>4
<1> QED
  BY <1>1, <1>14, <1>15, <1>16, <1>17 DEF Held, Mail, Aside

\* LastUnawaited: the last request is not waited for any more, the others as before.
LEMMA Unawaiting ==
  ASSUME NEW q \in Seq(Message)
  PROVE  /\ LastUnawaited(q) \in Seq(Message) /\ DOMAIN LastUnawaited(q) = DOMAIN q
         /\ q = << >> => LastUnawaited(q) = << >>
         /\ \A i \in DOMAIN q : LastUnawaited(q)[i].awaited => q[i].awaited /\ i # Len(q)
<1>1. Len(q) \in Nat /\ DOMAIN q = 1 .. Len(q) /\ q \in [1 .. Len(q) -> Message]
  BY LenProperties
<1> DEFINE n == Len(q)
<1> HIDE DEF n
<1>2. n \in Nat /\ DOMAIN q = 1 .. n /\ q \in [1 .. n -> Message]
  BY <1>1 DEF n
<1>3. PICK m : m = [q[n] EXCEPT !.awaited = FALSE]
  OBVIOUS
<1>4. n # 0 => m \in Message /\ ~ m.awaited
  <2>1. n # 0 => q[n] \in Message
    BY <1>2
  <2> QED
    BY <1>3, <2>1 DEF Message
<1>5. PICK p : p = [q EXCEPT ![n] = m]
  OBVIOUS
<1>6. /\ p \in [1 .. n -> Message] /\ DOMAIN p = 1 .. n
      /\ \A i \in 1 .. n : p[i] = IF i = n THEN m ELSE q[i]
  <2>1. DOMAIN p = 1 .. n /\ p = [i \in 1 .. n |-> IF i = n THEN m ELSE q[i]]
    BY <1>2, <1>5
  <2>2. \A i \in 1 .. n : p[i] = IF i = n THEN m ELSE q[i]
    BY <2>1
  <2>3. \A i \in 1 .. n : p[i] \in Message
    BY <1>2, <1>4, <2>2
  <2> QED
    BY <2>1, <2>2, <2>3
<1>7. p \in Seq(Message)
  BY <1>2, <1>6, SeqDef
<1>8. LastUnawaited(q) = p
  BY <1>3, <1>5 DEF LastUnawaited, n
<1>9. q = << >> => p = << >>
  BY <1>2, <1>6, <1>7, EmptySeq DEF n
<1>10. ASSUME NEW i \in 1 .. n, p[i].awaited PROVE q[i].awaited /\ i # n
  BY <1>2, <1>4, <1>6, <1>10
<1> QED
  BY <1>2, <1>6, <1>7, <1>8, <1>9, <1>10 DEF n

\* TimesOut: nothing is waited for, and the engine is still held.
LEMMA TimesOutDoes ==
  ASSUME Types, Held, TimesOut
  PROVE  Types' /\ Held' /\ Aside
<1> DEFINE r == recorder.engine
<1>1. /\ mailbox' = [mailbox EXCEPT ![r] = LastUnawaited(mailbox[r])]
      /\ recorder' = [recorder EXCEPT !.asking = "none"]
      /\ UNCHANGED << disk, files, device, session, writer, thread, past, heard >>
  BY DEF TimesOut, vault
<1>2. recorder \in Holder /\ left' \in Allowance
  BY SpendTypes DEF TimesOut, Types
<1>4. PICK g : g = [recorder EXCEPT !.asking = "none"]
  OBVIOUS
<1>5. /\ g \in Holder /\ g.engine = r /\ g.asking = "none" /\ g.joining = recorder.joining
  BY <1>2, <1>4 DEF Holder
<1> HIDE DEF r
<1>6. mailbox \in [Recording -> Seq(Message)]
  BY DEF Types
<1>7. PICK n : n = LastUnawaited(mailbox[r])
  OBVIOUS
<1>8. r \in Recording =>
        /\ n \in Seq(Message) /\ DOMAIN n = DOMAIN mailbox[r]
        /\ mailbox[r] = << >> => n = << >>
        /\ \A i \in DOMAIN n : n[i].awaited => mailbox[r][i].awaited /\ i # Len(mailbox[r])
  BY <1>6, <1>7, Unawaiting
<1>9. mailbox' = [mailbox EXCEPT ![r] = n] /\ recorder' = g
  BY <1>1, <1>4, <1>7
<1>10. /\ mailbox' \in [Recording -> Seq(Message)]
       /\ r \in Recording => mailbox'[r] = n
       /\ \A q \in Recording \ {r} : mailbox'[q] = mailbox[q]
  BY <1>6, <1>8, <1>9
<1>11. Types'
  BY <1>1, <1>2, <1>5, <1>9, <1>10 DEF Types
<1>12. RunningIsHeld'
  BY <1>1, <1>5, <1>9 DEF Held, RunningIsHeld, Running, r
<1>13. ASSUME NEW q \in Recording, ~ Running(q)' PROVE mailbox'[q] = << >>
  <2>1. mailbox[q] = << >>
    BY <1>1, <1>13 DEF Held, Mail, Running
  <2> QED
    BY <1>8, <1>10, <2>1
<1>14. ASSUME NEW q \in Recording, NEW i \in DOMAIN mailbox'[q], mailbox'[q][i].awaited
       PROVE FALSE
  <2>1. CASE q = r
    <3>1. mailbox'[r] = n /\ r \in Recording
      BY <1>10, <2>1
    <3>2. i \in DOMAIN mailbox[r] /\ mailbox[r][i].awaited /\ i # Len(mailbox[r])
      BY <1>8, <1>14, <2>1, <3>1
    <3> QED
      BY <3>1, <3>2 DEF Held, Mail
  <2>2. CASE q # r
    <3>1. mailbox'[q] = mailbox[q]
      BY <1>10, <2>2
    <3> QED
      BY <1>14, <2>2, <3>1 DEF Held, Mail, r
  <2> QED
    BY <2>1, <2>2
<1> QED
  BY <1>1, <1>11, <1>12, <1>13, <1>14 DEF Held, Mail, Aside

\* Unanswered: a thread that is over has no request left.
LEMMA UnansweredDoes ==
  ASSUME Types, Held, Unanswered
  PROVE  Types' /\ Held' /\ Aside
<1>1. /\ thread[recorder.engine].step = "ended"
      /\ recorder' = [recorder EXCEPT !.asking = "none"]
      /\ UNCHANGED << disk, files, mailbox, device, session, writer, thread, past, heard, left >>
  BY DEF Unanswered, At, vault, engine
<1>2. recorder \in Holder
  BY DEF Types
<1>3. PICK g : g = [recorder EXCEPT !.asking = "none"]
  OBVIOUS
<1>4. g \in Holder /\ g.engine = recorder.engine /\ g.joining = recorder.joining
  BY <1>2, <1>3 DEF Holder
<1>5. recorder' = g
  BY <1>1, <1>3
<1>6. Types'
  BY <1>1, <1>4, <1>5 DEF Types
<1>7. RunningIsHeld'
  BY <1>1, <1>4, <1>5 DEF Held, RunningIsHeld, Running
<1>8. ASSUME NEW q \in Recording, NEW i \in DOMAIN mailbox'[q], mailbox'[q][i].awaited
      PROVE FALSE
  <2>1. mailbox[q] # << >> /\ recorder.engine = q
    BY <1>1, <1>8, NoAudio DEF Held, Mail
  <2> QED
    BY <1>1, <2>1 DEF Held, Mail, Running
<1>9. Mail'
  BY <1>1, <1>8 DEF Held, Mail, Running
<1> QED
  BY <1>1, <1>6, <1>7, <1>9 DEF Held, Aside

\* Joined: the recording let go of is over.
LEMMA JoinedDoes ==
  ASSUME Types, Held, NEW r \in Recording, Joined(r)
  PROVE  Types' /\ Held' /\ Aside
<1>1. /\ thread[r].step = "ended"
      /\ recorder' = IF thread[r].ok
                     THEN [recorder EXCEPT !.joining = recorder.joining \ {r}, !.completed = r]
                     ELSE [recorder EXCEPT !.joining = recorder.joining \ {r}]
      /\ UNCHANGED << disk, files, mailbox, device, session, writer, thread, past, heard, left >>
  BY DEF Joined, At, vault, engine
<1>2. recorder \in Holder
  BY DEF Types
<1>3. PICK g : g = [recorder EXCEPT !.joining = recorder.joining \ {r}, !.completed = r]
  OBVIOUS
<1>4. PICK h : h = [recorder EXCEPT !.joining = recorder.joining \ {r}]
  OBVIOUS
<1>5. /\ g \in Holder /\ g.engine = recorder.engine /\ g.asking = recorder.asking
      /\ g.joining = recorder.joining \ {r}
  BY <1>2, <1>3 DEF Holder
<1>6. /\ h \in Holder /\ h.engine = recorder.engine /\ h.asking = recorder.asking
      /\ h.joining = recorder.joining \ {r}
  BY <1>2, <1>4 DEF Holder
<1>7. recorder' = g \/ recorder' = h
  BY <1>1, <1>3, <1>4
<1>8. /\ recorder' \in Holder /\ recorder'.engine = recorder.engine
      /\ recorder'.asking = recorder.asking /\ recorder'.joining = recorder.joining \ {r}
  BY <1>5, <1>6, <1>7
<1>9. Types'
  BY <1>1, <1>8 DEF Types
<1>10. RunningIsHeld'
  BY <1>1, <1>8 DEF Held, RunningIsHeld, Running
<1>11. Mail'
  BY <1>1, <1>8 DEF Held, Mail, Running
<1> QED
  BY <1>1, <1>9, <1>10, <1>11 DEF Held, Aside

-----------------------------------------------------------------------------
(* The invariant holds.                                                    *)

\* The invariant holds at first.
LEMMA InitInv ==
  ASSUME Init PROVE RecordingInv
<1>1. Types
  BY InitTypes
<1>2. ASSUME NEW r \in Recording
      PROVE  /\ disk[r].state = "absent" /\ disk[r].segments = << >>
             /\ mailbox[r] = << >> /\ device[r].queue = << >> /\ ~ device[r].live
             /\ session[r].recorded = 0
             /\ writer[r].pending = << >> /\ writer[r].current = << >> /\ writer[r].closed = 0
             /\ thread[r].step = "off" /\ thread[r].phase = "loop"
             /\ past[r].kept = << >> /\ heard = 0
  BY DEF Init, Absent, Silent, Begun, Fresh, Off
<1>3. Held
  BY <1>2, NoAudio DEF Held, RunningIsHeld, Mail, Running
<1>4. ASSUME NEW r \in Recording PROVE Local(r)
  <2>1. Audio(r) = << >>
    BY <1>2, FlattenNone DEF Audio
  <2>2. /\ Limit \in Nat /\ Limit > 0 /\ Depth \in Nat /\ SegmentChunks \in Nat
        /\ 0 < Limit + 2 * Depth
    BY RecordingAssumption
  <2>3. Shape(r)
    BY <1>2 DEF Shape, Running, Writing
  <2>4. Spent(r)
    BY <1>2, <2>2, NoAudio DEF Spent, Writing
  <2>5. Durable(r)
    <3>1. Fits(<< >>, << >>, << >>, << >>, 0)
      BY NoAudio DEF Fits
    <3> QED
      BY <1>2, <3>1, NoAudio DEF Durable, Running
  <2>6. Ordered(r)
    BY <1>2, <2>1, NothingInLine DEF Ordered, InLine
  <2>7. Faithful(r)
    <3>1. IsPrefix(<< >>, << >>)
      BY EmptySeq DEF IsPrefix
    <3>2. Len(<< >>) <= Len(<< >>) + SegmentChunks
      BY <2>2, NoAudio
    <3>3. IsPrefix(Audio(r), past[r].kept) /\ Len(past[r].kept) <= Len(Audio(r)) + SegmentChunks
      BY <1>2, <2>1, <3>1, <3>2
    <3> QED
      BY <1>2, <3>3 DEF Faithful, Running, Writing
  <2>8. Discreet(r)
    BY <1>2, NoAudio DEF Discreet
  <2> QED
    BY <2>3, <2>4, <2>5, <2>6, <2>7, <2>8 DEF Local
<1> QED
  BY <1>1, <1>3, <1>4 DEF RecordingInv

\* A step of one recording.
LEMMA Others ==
  ASSUME Types, Types', \A q \in Recording : Local(q), NEW r \in Recording,
         Elsewhere(r), Local(r)', heard' >= heard, Held'
  PROVE  RecordingInv'
<1>1. \A q \in Recording \ {r} : Local(q)'
  BY SameLocal DEF Elsewhere
<1> QED
  BY <1>1 DEF RecordingInv

\* A step of one recording's thread.
LEMMA Onward ==
  ASSUME RecordingInv, Types', NEW r \in Recording, Elsewhere(r), Quiet(r), Local(r)', heard' = heard
  PROVE  RecordingInv'
<1>1. heard \in Nat /\ heard' >= heard
  BY Fields DEF RecordingInv
<1> QED
  BY <1>1, QuietHeld, Others DEF RecordingInv

\* A step of no recording.
LEMMA Nobody ==
  ASSUME Types, Types', \A q \in Recording : Local(q), Aside, Held'
  PROVE  RecordingInv'
<1>1. \A q \in Recording : Same(q)
  BY DEF Aside, Same
<1>2. heard' >= heard
  BY RecordingAssumption DEF Aside, Types
<1>3. \A q \in Recording : Local(q)'
  BY <1>1, <1>2, SameLocal
<1> QED
  BY <1>3 DEF RecordingInv

\* The window's steps keep the invariant.
LEMMA WindowInv ==
  ASSUME RecordingInv, WindowStep
  PROVE  RecordingInv'
<1> USE DEF RecordingInv
<1>1. CASE Reap
  BY <1>1, ReapDoes, Nobody
<1>2. CASE TimesOut
  BY <1>2, TimesOutDoes, Nobody
<1>3. CASE Unanswered
  BY <1>3, UnansweredDoes, Nobody
<1>4. ASSUME NEW op \in Command, Ask(op) PROVE RecordingInv'
  BY <1>4, AskDoes, Nobody
<1>5. ASSUME NEW r \in Recording, Joined(r) PROVE RecordingInv'
  BY <1>5, JoinedDoes, Nobody
<1>6. ASSUME NEW r \in Recording, StartWith(r) PROVE RecordingInv'
  <2>1. Types' /\ Elsewhere(r) /\ heard' >= heard
    BY <1>6, StartDoes, Fields
  <2> QED
    BY <1>6, <2>1, StartLocal, StartHeld, Others
<1>7. ASSUME NEW r \in Recording, StartFails(r) PROVE RecordingInv'
  <2>1. /\ Types' /\ Elsewhere(r) /\ heard' >= heard
        /\ UNCHANGED << recorder, mailbox, thread >>
    BY <1>7, StartFailsDoes, Fields
  <2> QED
    BY <1>7, <2>1, StartFailsLocal, HeldStays, Others
<1> QED
  BY <1>1, <1>2, <1>3, <1>4, <1>5, <1>6, <1>7 DEF WindowStep

\* The devices' steps keep the invariant.
LEMMA DeviceInv ==
  ASSUME RecordingInv, DeviceStep
  PROVE  RecordingInv'
<1> USE DEF RecordingInv
<1>1. ASSUME NEW r \in Recording, Hear(r) PROVE RecordingInv'
  <2>1. /\ Types' /\ Elsewhere(r) /\ heard' >= heard
        /\ UNCHANGED << recorder, mailbox, thread >>
    BY <1>1, HearDoes, Fields
  <2> QED
    BY <1>1, <2>1, HearLocal, HeldStays, Others
<1>2. ASSUME NEW r \in Recording, EndpointsDie(r) PROVE RecordingInv'
  <2>1. /\ Types' /\ Elsewhere(r) /\ heard' >= heard
        /\ UNCHANGED << recorder, mailbox, thread >>
    BY <1>2, DieDoes, Fields
  <2> QED
    BY <1>2, <2>1, DieLocal, HeldStays, Others
<1> QED
  BY <1>1, <1>2 DEF DeviceStep

\* The steps of a recording's thread keep the invariant.
LEMMA ThreadInv ==
  ASSUME RecordingInv, NEW r \in Recording, ThreadStep(r)
  PROVE  RecordingInv'
<1> USE DEF RecordingInv
<1> heard \in Nat /\ Local(r)
  BY Fields
<1>1. CASE Obey(r)
  <2>1. Types' /\ Elsewhere(r) /\ heard' >= heard
    BY <1>1, ObeyDoes
  <2> QED
    BY <1>1, <2>1, ObeyLocal, ObeyHeld, Others
<1>2. CASE Poll(r)
  <2>1. Types' /\ Elsewhere(r) /\ Quiet(r)
    BY <1>2, PollDoes
  <2>9. heard' = heard
    BY <1>2, PollDoes
  <2> QED
    BY <1>2, <2>1, <2>9, PollLocal, Onward
<1>3. CASE NothingRuns(r)
  <2>1. Types' /\ Elsewhere(r) /\ Quiet(r)
    BY <1>3, NothingRunsDoes
  <2>9. heard' = heard
    BY <1>3, NothingRunsDoes
  <2> QED
    BY <1>3, <2>1, <2>9, NothingRunsLocal, Onward
<1>4. CASE Encode(r)
  <2>1. Types' /\ Elsewhere(r) /\ Quiet(r)
    BY <1>4, EncodeDoes
  <2>9. heard' = heard
    BY <1>4, EncodeDoes
  <2> QED
    BY <1>4, <2>1, <2>9, EncodeLocal, Onward
<1>5. CASE Written(r)
  <2>1. session[r].state = "recording"
    BY <1>5 DEF Written, At, Local, Shape, Writing
  <2>2. Types' /\ Elsewhere(r) /\ Quiet(r)
    BY <1>5, <2>1, WrittenDoes
  <2>9. heard' = heard
    BY <1>5, <2>1, WrittenDoes
  <2> QED
    BY <1>5, <2>2, <2>9, WrittenLocal, Onward
<1>6. CASE Drain(r)
  <2>1. Types' /\ Elsewhere(r) /\ Quiet(r)
    BY <1>6, DrainDoes
  <2>9. heard' = heard
    BY <1>6, DrainDoes
  <2> QED
    BY <1>6, <2>1, <2>9, DrainLocal, Onward
<1>7. CASE TailWritten(r)
  <2>1. session[r].state = "recording"
    BY <1>7 DEF TailWritten, At, Local, Shape, Writing
  <2>2. Types' /\ Elsewhere(r) /\ Quiet(r)
    BY <1>7, <2>1, TailWrittenDoes
  <2>9. heard' = heard
    BY <1>7, <2>1, TailWrittenDoes
  <2> QED
    BY <1>7, <2>2, <2>9, TailWrittenLocal, Onward
<1>8. CASE Flush(r)
  <2>1. Types' /\ Elsewhere(r) /\ Quiet(r)
    BY <1>8, FlushDoes
  <2>9. heard' = heard
    BY <1>8, FlushDoes
  <2> QED
    BY <1>8, <2>1, <2>9, FlushLocal, Onward
<1>9. CASE PutSegment(r)
  <2>1. Types' /\ Elsewhere(r) /\ Quiet(r)
    BY <1>9, PutSegmentDoes
  <2>9. heard' = heard
    BY <1>9, PutSegmentDoes
  <2> QED
    BY <1>9, <2>1, <2>9, PutSegmentLocal, Onward
<1>10. CASE SaveSegment(r)
  <2>1. Types' /\ Elsewhere(r) /\ Quiet(r)
    BY <1>10, SaveSegmentDoes
  <2>9. heard' = heard
    BY <1>10, SaveSegmentDoes
  <2> QED
    BY <1>10, <2>1, <2>9, SaveSegmentLocal, Onward
<1>11. CASE NotePaused(r)
  <2>1. Types' /\ Elsewhere(r) /\ Quiet(r)
    BY <1>11, NotePausedDoes
  <2>9. heard' = heard
    BY <1>11, NotePausedDoes
  <2> QED
    BY <1>11, <2>1, <2>9, NotePausedLocal, Onward
<1>12. CASE SetUploading(r)
  <2>1. Types' /\ Elsewhere(r) /\ Quiet(r)
    BY <1>12, SetUploadingDoes
  <2>9. heard' = heard
    BY <1>12, SetUploadingDoes
  <2> QED
    BY <1>12, <2>1, <2>9, SetUploadingLocal, Onward
<1>13. CASE PutFails(r) \/ OutOfOrder(r) \/ SaveFails(r) \/ CloseFails(r)
  <2>1. CloseFails(r) => thread[r].phase = "finish"
    BY DEF CloseFails, At, Local, Shape
  <2>2. /\ Types' /\ Elsewhere(r) /\ Quiet(r) /\ Failure(r)
        /\ thread[r].step \in {"put", "save", "note", "state"}
    BY <1>13, <2>1, PutFailsDoes, OutOfOrderDoes, SaveFailsDoes, CloseFailsDoes
  <2>3. heard' = heard
    BY <2>2 DEF Failure
  <2> QED
    BY <2>2, <2>3, FailureLocal, Onward
<1> QED
  BY <1>1, <1>2, <1>3, <1>4, <1>5, <1>6, <1>7, <1>8, <1>9, <1>10, <1>11, <1>12, <1>13
     DEF ThreadStep, SegmentStep

\* Every step keeps the invariant.
LEMMA NextInv ==
  ASSUME RecordingInv, [Next]_vars
  PROVE  RecordingInv'
<1>1. CASE WindowStep
  BY <1>1, WindowInv
<1>2. CASE DeviceStep
  BY <1>2, DeviceInv
<1>3. ASSUME NEW r \in Recording, ThreadStep(r) PROVE RecordingInv'
  BY <1>3, ThreadInv
<1>4. CASE Crash
  <2>1. Types' /\ Held'
    BY <1>4, CrashDoes, CrashHeld DEF RecordingInv
  <2>2. \A r \in Recording : Local(r)'
    BY <1>4, CrashLocal DEF RecordingInv
  <2> QED
    BY <2>1, <2>2 DEF RecordingInv
<1>5. CASE UNCHANGED vars
  <2>1. Aside /\ UNCHANGED << recorder, mailbox, thread >>
    BY <1>5 DEF vars, Aside
  <2>2. Types'
    BY <1>5 DEF RecordingInv, Types, vars
  <2> QED
    BY <2>1, <2>2, HeldStays, Nobody DEF RecordingInv
<1> QED
  BY <1>1, <1>2, <1>3, <1>4, <1>5 DEF Next

\* Through everything the window, the devices, the disk and the machine may
\* do, the thread, the encoder and the files of each recording agree.
THEOREM RecordingInvariant == Spec => []RecordingInv
  BY InitInv, NextInv, PTL DEF Spec

\* Every value stays in the range the code can give it, and the devices'
\* queue within its depth (pipeline.rs).
THEOREM RecordingTypes == Spec => []TypeOK
<1>1. RecordingInv => TypeOK
  <2>1. SUFFICES ASSUME RecordingInv PROVE TypeOK
    OBVIOUS
  <2>2. Types /\ \A r \in Recording : Len(device[r].queue) <= Depth
    BY <2>1 DEF RecordingInv, Local, Spent
  <2> QED
    BY <2>2 DEF Types, TypeOK, Manifest, Message, Device, Session, Writer, Thread, Past, Holder, Allowance
<1> QED
  BY <1>1, RecordingInvariant, PTL

\* A recording in progress is always within somebody's reach (lib.rs, finish).
THEOREM HeldAlways == Spec => []RunningIsHeld
<1>1. RecordingInv => RunningIsHeld
  BY DEF RecordingInv, Held
<1> QED
  BY <1>1, RecordingInvariant, PTL

\* The loop never goes on with its budget spent, and the overrun is at most
\* what one poll and the tail hold (EF-34).
THEOREM BudgetKept == Spec => []WithinBudget
<1>1. RecordingInv => WithinBudget
  BY DEF RecordingInv, Local, Spent, WithinBudget, At
<1> QED
  BY <1>1, RecordingInvariant, PTL

\* Audio heard in a pause reaches the encoder only if the recording was
\* resumed after it was heard (session.rs).
THEOREM PausesDropped == Spec => []PauseKeepsNothing
<1>1. RecordingInv => PauseKeepsNothing
  BY DEF RecordingInv, Local, Discreet, PauseKeepsNothing
<1> QED
  BY <1>1, RecordingInvariant, PTL

\* A manifest names only segments that are whole on the disk, whatever failed
\* or died meanwhile (store.rs).
THEOREM ManifestTrue == Spec => []NamedIsDurable
<1>1. RecordingInv => NamedIsDurable
  BY DEF RecordingInv, Local, Durable, NamedIsDurable
<1> QED
  BY <1>1, RecordingInvariant, PTL

\* The audio on the disk is in order and without repetition, and a brutal
\* stop costs at most one segment (EF-17).
THEOREM OneSegmentLost == Spec => []LosesOneSegment
<1>1. RecordingInv => LosesOneSegment
  <2>1. SUFFICES ASSUME RecordingInv, NEW r \in Recording
                 PROVE  /\ \A i, j \in DOMAIN Audio(r) : i < j => Audio(r)[i].at < Audio(r)[j].at
                        /\ Clean(r) => /\ IsPrefix(Audio(r), past[r].kept)
                                       /\ Len(past[r].kept) <= Len(Audio(r)) + SegmentChunks
    BY DEF LosesOneSegment
  <2>2. Types /\ Local(r)
    BY <2>1 DEF RecordingInv
  <2>3. \A i, j \in DOMAIN Audio(r) : i < j => Audio(r)[i].at < Audio(r)[j].at
    BY <2>2 DEF Local, Ordered, InLine, Rising
  <2>4. Clean(r) => /\ IsPrefix(Audio(r), past[r].kept)
                    /\ Len(past[r].kept) <= Len(Audio(r)) + SegmentChunks
    BY <2>2, KeptIsClose
  <2> QED
    BY <2>3, <2>4
<1> QED
  BY <1>1, RecordingInvariant, PTL

\* A recording that ended without a failed write is offered to the uploader
\* with exactly the audio that was billed and the pauses that were discarded
\* (EF-33, engine.rs and session.rs).
THEOREM BilledKept == Spec => []BilledIsKept
<1>1. RecordingInv => BilledIsKept
  BY DEF RecordingInv, Local, Faithful, BilledIsKept, At
<1> QED
  BY <1>1, RecordingInvariant, PTL
=============================================================================
