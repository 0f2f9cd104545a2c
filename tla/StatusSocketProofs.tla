-------------------------- MODULE StatusSocketProofs --------------------------
(***************************************************************************)
(* What the limiter grants, for every limit, window, number of tokens,     *)
(* replicas and requests at once, and whatever sockets do beside it.       *)
(* Then the types: that a ticket opens one socket, and that no counter     *)
(* runs past the requests that were made.                                  *)
(***************************************************************************)
EXTENDS StatusSocket, FiniteSetTheorems, TLAPS

Hits == Seq([at : Nat, ok : BOOLEAN])

\* The hits of a log up to the i-th with no silent window between them.
Run(q, i) == {j \in 1 .. i : \A g \in j .. i - 1 : q[g + 1].at < q[g].at + Window}

LEMMA RunIsFinite ==
  ASSUME NEW q, NEW i \in Nat
  PROVE  IsFiniteSet(Run(q, i))
<1>1. IsFiniteSet(1 .. i)
  BY FS_Interval
<1> QED
  BY <1>1, FS_Subset DEF Run

\* A later hit changes nothing of the runs before it.
LEMMA RunIsKept ==
  ASSUME NEW q \in Hits, NEW e, NEW i \in DOMAIN q
  PROVE  Run(Append(q, e), i) = Run(q, i)
<1>1. i \in 1 .. Len(q) /\ Len(q) \in Nat /\ q \in Seq([at : Nat, ok : BOOLEAN])
  BY DEF Hits
<1>2. \A g \in 1 .. Len(q) : Append(q, e)[g] = q[g]
  BY <1>1
<1>3. \A j \in 1 .. i : \A g \in j .. i - 1 : g \in 1 .. Len(q) /\ g + 1 \in 1 .. Len(q)
  BY <1>1
<1> QED
  BY <1>2, <1>3 DEF Run

\* A hit within a window of the last one lengthens its run by one.
LEMMA RunGoesOn ==
  ASSUME NEW q \in Hits, q # << >>, NEW e \in [at : Nat, ok : BOOLEAN],
         e.at < q[Len(q)].at + Window
  PROVE  Cardinality(Run(Append(q, e), Len(q) + 1)) = Cardinality(Run(q, Len(q))) + 1
<1> DEFINE n == Len(q)
<1>1. n \in Nat \ {0} /\ q \in Seq([at : Nat, ok : BOOLEAN]) /\ DOMAIN q = 1 .. n
  BY DEF Hits
<1>2. Append(q, e)[n + 1] = e /\ \A g \in 1 .. n : Append(q, e)[g] = q[g]
  BY <1>1
<1>3. Run(Append(q, e), n) = Run(q, n)
  BY <1>1, RunIsKept
<1>4. Run(Append(q, e), n + 1) = Run(Append(q, e), n) \cup {n + 1}
  <2> DEFINE p == Append(q, e)
  <2>1. p[n + 1].at < p[n].at + Window
    <3>1. p[n + 1] = e /\ n \in 1 .. n
      BY <1>1, <1>2
    <3>2. p[n] = q[n]
      BY <1>2, <3>1
    <3> QED
      BY <3>1, <3>2
  <2> HIDE DEF p, n
  <2>2. ASSUME NEW j \in 1 .. n
        PROVE  n + 1 - 1 = n /\ j .. n = (j .. n - 1) \cup {n}
    BY <1>1
  <2>3. ASSUME NEW j \in 1 .. n
        PROVE  j \in Run(p, n + 1) <=> j \in Run(p, n)
    <3>1. j \in 1 .. n + 1
      BY <1>1
    <3> DEFINE Close(g) == p[g + 1].at < p[g].at + Window
    <3>2. j \in Run(p, n + 1) <=> \A g \in j .. n : Close(g)
      BY <2>2, <3>1 DEF Run
    <3>3. j \in Run(p, n) <=> \A g \in j .. n - 1 : Close(g)
      BY DEF Run
    <3>4. Close(n)
      BY <2>1
    <3> HIDE DEF Close
    <3> QED
      BY <2>2, <3>2, <3>3, <3>4
  <2>4. n + 1 \in Run(p, n + 1) /\ n + 1 \notin 1 .. n
    BY <1>1 DEF Run
  <2>5. Run(p, n) \subseteq 1 .. n /\ Run(p, n + 1) \subseteq 1 .. n + 1
    BY DEF Run
  <2>6. 1 .. n + 1 = (1 .. n) \cup {n + 1}
    BY <1>1
  <2> QED
    BY <2>3, <2>4, <2>5, <2>6 DEF p
<1>5. n + 1 \notin Run(q, n)
  BY <1>1 DEF Run
<1> QED
  BY <1>1, <1>3, <1>4, <1>5, RunIsFinite, FS_AddElement

\* The first hit, or one after a silent window, is a run of its own.
LEMMA RunStarts ==
  ASSUME NEW q \in Hits, NEW e \in [at : Nat, ok : BOOLEAN],
         q = << >> \/ ~ (e.at < q[Len(q)].at + Window)
  PROVE  Cardinality(Run(Append(q, e), Len(q) + 1)) = 1
<1> DEFINE n == Len(q)
           p == Append(q, e)
<1>1. n \in Nat /\ q \in Seq([at : Nat, ok : BOOLEAN]) /\ (q = << >> <=> n = 0)
  BY DEF Hits
<1>2. p[n + 1] = e /\ \A g \in 1 .. n : p[g] = q[g]
  BY <1>1
<1>3. n # 0 => ~ (p[n + 1].at < p[n].at + Window)
  BY <1>1, <1>2
<1> HIDE DEF n, p
<1>4. n + 1 \in Run(p, n + 1)
  BY <1>1 DEF Run
<1>5. ASSUME NEW j \in Run(p, n + 1), j # n + 1
      PROVE  FALSE
  <2>1. j \in 1 .. n /\ n \in j .. n + 1 - 1
    BY <1>1, <1>5 DEF Run
  <2>2. p[n + 1].at < p[n].at + Window
    BY <2>1, <1>5 DEF Run
  <2> QED
    BY <1>1, <1>3, <2>1, <2>2
<1>6. Run(p, n + 1) = {n + 1}
  BY <1>4, <1>5
<1> QED
  BY <1>6, FS_Singleton DEF n, p

-----------------------------------------------------------------------------
(* The counter of a key is the run of its last hit, and goes a window after *)
(* it, whether or not that moment has come.                                *)

Tables ==
  /\ now \in Nat /\ late \in [Key -> Nat]
  /\ counter \in [Key -> [count : Nat, until : Nat]]
  /\ log \in [Key -> Hits]

CountsTheRun(k) ==
  IF log[k] = << >> THEN counter[k].until = 0
  ELSE /\ counter[k].until = log[k][Len(log[k])].at + Window
       /\ counter[k].count = Cardinality(Run(log[k], Len(log[k])))

\* A hit is granted exactly when it is among the first of its run.
GrantedFirst(k) ==
  \A i \in DOMAIN log[k] : log[k][i].ok <=> Cardinality(Run(log[k], i)) <= Limit

Ordered(k) ==
  \A h \in DOMAIN log[k] :
    /\ log[k][h].at <= now
    /\ \A g \in DOMAIN log[k] : g <= h => log[k][g].at <= log[k][h].at

Inv ==
  /\ Tables
  /\ \A k \in Key : CountsTheRun(k) /\ GrantedFirst(k) /\ Ordered(k)

LEMMA InitInv ==
  ASSUME LimiterConstants, Init
  PROVE  Inv
<1>1. /\ now = 0 /\ counter = [k \in Key |-> [count |-> 0, until |-> 0]]
      /\ log = [k \in Key |-> << >>] /\ late = [k \in Key |-> 0]
  BY DEF Init, InitLimiter
<1>2. Tables
  BY <1>1 DEF Tables, Hits
<1>3. \A k \in Key : CountsTheRun(k) /\ GrantedFirst(k) /\ Ordered(k)
  BY <1>1 DEF CountsTheRun, GrantedFirst, Ordered
<1> QED
  BY <1>2, <1>3 DEF Inv

LEMMA Item ==
  ASSUME NEW A, NEW q \in Seq(A)
  PROVE  Len(q) \in Nat /\ DOMAIN q = 1 .. Len(q) /\ \A i \in DOMAIN q : q[i] \in A
  OBVIOUS

LEMMA HitType ==
  ASSUME NEW q \in Hits, NEW i \in DOMAIN q
  PROVE  q[i] \in [at : Nat, ok : BOOLEAN] /\ q[i].at \in Nat
<1>1. q \in Seq([at : Nat, ok : BOOLEAN])
  BY DEF Hits
<1>2. q[i] \in [at : Nat, ok : BOOLEAN]
  BY <1>1, Item
<1> QED
  BY <1>2

LEMMA UntouchedKeeps ==
  ASSUME Inv, UNCHANGED << counter, log >>, late' \in [Key -> Nat],
         now' = now \/ now' = now + 1
  PROVE  Inv'
<1>1. counter' = counter /\ log' = log
  OBVIOUS
<1>2. now \in Nat /\ now' \in Nat /\ now <= now'
  BY DEF Inv, Tables
<1>3. Tables'
  BY <1>1, <1>2 DEF Inv, Tables
<1>4. (\A k \in Key : CountsTheRun(k) /\ GrantedFirst(k))'
  BY <1>1 DEF Inv, CountsTheRun, GrantedFirst
<1>5. ASSUME NEW k \in Key
      PROVE  Ordered(k)'
  <2>1. Ordered(k) /\ log[k] \in Hits
    BY DEF Inv, Tables
  <2>2. ASSUME NEW h \in DOMAIN log[k]
        PROVE  log[k][h].at <= now'
    <3>1. log[k][h].at \in Nat /\ log[k][h].at <= now
      BY <2>1, HitType DEF Ordered
    <3> QED
      BY <1>2, <3>1
  <2> QED
    BY <1>1, <2>1, <2>2 DEF Ordered
<1> QED
  BY <1>3, <1>4, <1>5 DEF Inv

LEMMA OutageKeeps ==
  ASSUME Inv, GoesDown
  PROVE  Inv'
<1>1. /\ now' = now /\ counter' = [k \in Key |-> [count |-> 0, until |-> 0]]
      /\ log' = [k \in Key |-> << >>] /\ late' = [k \in Key |-> 0]
  BY DEF GoesDown
<1>2. Tables'
  BY <1>1 DEF Inv, Tables, Hits
<1>3. (\A k \in Key : CountsTheRun(k) /\ GrantedFirst(k) /\ Ordered(k))'
  BY <1>1 DEF CountsTheRun, GrantedFirst, Ordered
<1> QED
  BY <1>2, <1>3 DEF Inv

\* One more hit, granted or not, of a key that exists.
LEMMA HitKeeps ==
  ASSUME LimiterConstants, Inv, NEW k \in Key, now' = now, late' \in [Key -> Nat],
         CountsHit(k)
  PROVE  Inv'
<1>0. /\ counter' = [counter EXCEPT ![k] = Incremented(k)]
      /\ log' = [log EXCEPT ![k] =
                   Append(@, [at |-> now, ok |-> Incremented(k).count <= Limit])]
  BY DEF CountsHit, Allowed
<1> DEFINE e == [at |-> now, ok |-> Incremented(k).count <= Limit]
           q == log[k]
           n == Len(q)
<1>1. /\ q \in Hits /\ now \in Nat /\ Window \in Nat /\ counter[k] \in [count : Nat, until : Nat]
      /\ CountsTheRun(k) /\ n \in Nat /\ q \in Seq([at : Nat, ok : BOOLEAN])
  BY DEF Inv, Tables, LimiterConstants, Hits
<1>2. Incremented(k) \in [count : Nat, until : Nat] /\ Incremented(k).until = now + Window
  <2>1. PICK c \in Nat : c = IF now < counter[k].until THEN counter[k].count + 1 ELSE 1
    <3>1. counter[k].count \in Nat
      BY <1>1
    <3> QED
      BY <3>1
  <2>2. PICK until \in Nat : until = now + Window
    BY <1>1
  <2>3. Incremented(k) = [count |-> c, until |-> until]
    BY <2>1, <2>2 DEF Incremented
  <2> QED
    BY <2>2, <2>3
<1>3. e \in [at : Nat, ok : BOOLEAN] /\ e.at = now
      /\ (e.ok <=> Incremented(k).count <= Limit)
  <2> DEFINE granted == Incremented(k).count <= Limit
  <2>1. granted \in BOOLEAN
    OBVIOUS
  <2> HIDE DEF granted
  <2>2. /\ [at |-> now, ok |-> granted] \in [at : Nat, ok : BOOLEAN]
        /\ [at |-> now, ok |-> granted].at = now /\ [at |-> now, ok |-> granted].ok = granted
    BY <1>1, <2>1
  <2> QED
    BY <2>2 DEF granted
<1>4. /\ log' = [log EXCEPT ![k] = Append(q, e)] /\ log'[k] = Append(q, e)
      /\ Append(q, e) \in Hits /\ Len(Append(q, e)) = n + 1 /\ Append(q, e)[n + 1] = e
      /\ DOMAIN Append(q, e) = 1 .. n + 1
  BY <1>0, <1>1, <1>3 DEF Inv, Tables, Hits
<1>5. Incremented(k).count = Cardinality(Run(Append(q, e), n + 1))
  <2>1. CASE q # << >> /\ now < q[n].at + Window
    <3>1. Incremented(k).count = Cardinality(Run(q, n)) + 1
      BY <1>1, <2>1 DEF Incremented, CountsTheRun
    <3> HIDE DEF e
    <3> QED
      BY <1>1, <1>3, <2>1, <3>1, RunGoesOn
  <2>2. CASE q = << >> \/ ~ (now < q[n].at + Window)
    <3>1. ~ (now < counter[k].until)
      <4>1. CASE q = << >>
        <5>1. counter[k].until = 0
          BY <1>1, <4>1 DEF CountsTheRun
        <5> QED
          BY <1>1, <5>1
      <4>2. CASE q # << >>
        <5>1. counter[k].until = q[n].at + Window
          BY <1>1, <4>2 DEF CountsTheRun
        <5> QED
          BY <2>2, <4>2, <5>1
      <4> QED
        BY <4>1, <4>2
    <3>2. Incremented(k).count = 1
      BY <3>1 DEF Incremented
    <3> HIDE DEF e
    <3> QED
      BY <1>1, <1>3, <2>2, <3>2, RunStarts
  <2> QED
    BY <2>1, <2>2
<1> HIDE DEF e, n
<1>6. Tables'
  BY <1>0, <1>1, <1>2, <1>4 DEF Inv, Tables
<1>7. ASSUME NEW x \in Key
      PROVE  CountsTheRun(x)'
  <2>1. CASE x = k
    <3>1. counter'[k] = Incremented(k) /\ Append(q, e) # << >>
      <4>1. k \in DOMAIN counter
        BY DEF Inv, Tables
      <4>2. n + 1 # 0
        BY <1>1
      <4> QED
        BY <1>0, <1>4, <4>1, <4>2
    <3> QED
      BY <1>2, <1>3, <1>4, <1>5, <2>1, <3>1 DEF CountsTheRun
  <2>2. CASE x # k
    <3>1. counter'[x] = counter[x] /\ log'[x] = log[x]
      BY <1>0, <1>4, <2>2 DEF Inv, Tables
    <3> QED
      BY <3>1 DEF Inv, CountsTheRun
  <2> QED
    BY <2>1, <2>2
<1>8. ASSUME NEW x \in Key, NEW i \in DOMAIN log'[x]
      PROVE  log'[x][i].ok <=> Cardinality(Run(log'[x], i)) <= Limit
  <2>1. CASE x = k /\ i = n + 1
    BY <1>3, <1>4, <1>5, <2>1
  <2>2. CASE x = k /\ i # n + 1
    <3>1. i \in DOMAIN q /\ Append(q, e)[i] = q[i]
      <4>1. DOMAIN q = 1 .. n /\ n \in Nat /\ \A g \in 1 .. n : Append(q, e)[g] = q[g]
        BY <1>1 DEF n
      <4>2. i \in 1 .. n + 1
        BY <1>4, <1>8, <2>2
      <4> QED
        BY <2>2, <4>1, <4>2
    <3>2. Run(Append(q, e), i) = Run(q, i)
      BY <1>1, <3>1, RunIsKept
    <3>3. q[i].ok <=> Cardinality(Run(q, i)) <= Limit
      BY <3>1 DEF Inv, GrantedFirst
    <3> QED
      BY <1>4, <2>2, <3>1, <3>2, <3>3
  <2>3. CASE x # k
    <3>1. log'[x] = log[x]
      BY <1>4, <2>3 DEF Inv, Tables
    <3> QED
      BY <1>8, <3>1 DEF Inv, GrantedFirst
  <2> QED
    BY <2>1, <2>2, <2>3
<1>9. ASSUME NEW x \in Key
      PROVE  Ordered(x)'
  <2>1. Ordered(x)
    BY DEF Inv
  <2>2. CASE x = k
    <3>0. DOMAIN q = 1 .. n /\ \A h \in 1 .. n : Append(q, e)[h] = q[h]
      BY <1>1 DEF n
    <3>1. \A h \in 1 .. n : q[h].at <= now /\ Append(q, e)[h] = q[h]
      BY <2>1, <2>2, <3>0 DEF Ordered
    <3>2. \A g, h \in 1 .. n : g <= h => q[g].at <= q[h].at
      BY <2>1, <2>2, <3>0 DEF Ordered
    <3>n. n \in Nat
      BY <1>1
    <3>3. ASSUME NEW h \in 1 .. n + 1
          PROVE  /\ Append(q, e)[h].at <= now
                 /\ \A g \in 1 .. n + 1 : g <= h => Append(q, e)[g].at <= Append(q, e)[h].at
      <4>1. h \in 1 .. n \/ h = n + 1
        BY <3>n
      <4>2. \A g \in 1 .. n + 1 : g \in 1 .. n \/ g = n + 1
        BY <3>n
      <4>3. now <= now
        BY <1>1
      <4>4. CASE h = n + 1
        BY <1>3, <1>4, <3>1, <4>2, <4>3, <4>4
      <4>5. CASE h \in 1 .. n
        <5>1. \A g \in 1 .. n + 1 : g <= h => g \in 1 .. n
          BY <3>n, <4>5
        <5> QED
          BY <3>1, <3>2, <4>5, <5>1
      <4> QED
        BY <4>1, <4>4, <4>5
    <3> QED
      BY <1>4, <2>2, <3>3 DEF Ordered
  <2>3. CASE x # k
    <3>1. log'[x] = log[x]
      BY <1>0, <1>4, <2>3 DEF Inv, Tables
    <3> QED
      BY <2>1, <3>1 DEF Ordered
  <2> QED
    BY <2>2, <2>3
<1>10. ASSUME NEW x \in Key
       PROVE  GrantedFirst(x)'
  BY <1>8 DEF GrantedFirst, Run
<1> QED
  BY <1>6, <1>7, <1>9, <1>10 DEF Inv

LEMMA StepInv ==
  ASSUME LimiterConstants, Inv, [Next]_vars
  PROVE  Inv'
<1>1. now \in Nat /\ late \in [Key -> Nat] /\ counter \in [Key -> [count : Nat, until : Nat]]
      /\ log \in [Key -> Hits]
  BY DEF Inv, Tables
<1>2. CASE \E s \in Slot : Counts(s)
  <2>1. PICK s \in Slot : Counts(s)
    BY <1>2
  <2>2. PICK k : k = request[s].key
    OBVIOUS
  <2>3. now' = now /\ late' = late /\ CountsHit(k)
    BY <2>1, <2>2 DEF Counts
  <2>4. CASE k \in Key
    BY <1>1, <2>3, <2>4, HitKeeps
  <2>5. CASE k \notin Key
    <3>1. counter' = counter /\ log' = log
      BY <1>1, <2>3, <2>5 DEF CountsHit
    <3> QED
      BY <1>1, <2>3, <3>1, UntouchedKeeps
  <2> QED
    BY <2>4, <2>5
<1>3. CASE Outage
  BY <1>3, OutageKeeps DEF Outage
<1>4. CASE \E k \in Key : CountsLate(k)
  <2>1. PICK k \in Key : CountsLate(k)
    BY <1>4
  <2>2. late' = [late EXCEPT ![k] = @ - 1] /\ late[k] > 0 /\ late[k] \in Nat
    BY <1>1, <2>1 DEF CountsLate
  <2>3. late' \in [Key -> Nat]
    BY <1>1, <2>2
  <2>4. now' = now /\ CountsHit(k)
    BY <2>1 DEF CountsLate
  <2> QED
    BY <2>3, <2>4, HitKeeps
<1>5. CASE \E s \in Slot : TimesOut(s)
  <2>1. PICK s \in Slot : TimesOut(s)
    BY <1>5
  <2>2. PICK n \in {0, 1} : late' = late \/ late' = [late EXCEPT ![request[s].key] = @ + n]
    BY <2>1 DEF TimesOut
  <2>3. late' \in [Key -> Nat]
    BY <1>1, <2>2
  <2>4. UNCHANGED << counter, log >> /\ now' = now
    BY <2>1 DEF TimesOut
  <2> QED
    BY <2>3, <2>4, UntouchedKeeps
<1>6. CASE LimiterStep /\ ~ (\E s \in Slot : Counts(s) \/ TimesOut(s))
                       /\ ~ (\E k \in Key : CountsLate(k))
  <2>1. UNCHANGED << counter, log, late >> /\ (now' = now \/ now' = now + 1)
    BY <1>6 DEF LimiterStep, Arrives, AsksAgain, Decided, FailsOpen, ComesBack, Tick
  <2> QED
    BY <1>1, <2>1, UntouchedKeeps
<1>7. CASE UNCHANGED vars \/ Moves \/ Erased \/ (\E s \in Slot : IssueTicket(s) \/ Handled(s))
  <2>1. UNCHANGED << counter, log, late >> /\ now' = now
    BY <1>7 DEF vars, limiterVars, Moves, Erased, IssueTicket, Handled
  <2> QED
    BY <1>1, <2>1, UntouchedKeeps
<1>8. CASE \E k \in Socket : Frame(k) \/ EndsUntold(k) \/ Leaves(k)
                            \/ \E y \in Ticket : OpenSocket(k, y)
  <2>1. UNCHANGED << counter, log, late >> /\ now' = now
    BY <1>8 DEF limiterVars, Frame, EndsUntold, Leaves, OpenSocket
  <2> QED
    BY <1>1, <2>1, UntouchedKeeps
<1> QED
  BY <1>2, <1>3, <1>4, <1>5, <1>6, <1>7, <1>8 DEF Next

\* Every hit between two granted ones of a window belongs to the run of the
\* later, so that its run is at least as long as the stretch.
LEMMA InvGrants ==
  ASSUME LimiterConstants, Inv
  PROVE  NeverOverLimit
<1> SUFFICES ASSUME NEW k \in Key, NEW i \in DOMAIN log[k]
             PROVE  Cardinality(GrantedInWindow(k, i)) <= Limit
  BY DEF NeverOverLimit
<1> DEFINE q == log[k]
           n == Len(q)
           last == i + Limit - 1
<1>1. /\ q \in Hits /\ n \in Nat /\ DOMAIN q = 1 .. n /\ i \in 1 .. n
      /\ GrantedFirst(k) /\ Ordered(k)
  BY DEF Inv, Tables, Hits
<1>2. \A g \in 1 .. n : q[g].at \in Nat
  BY <1>1, HitType
<1>3. Limit \in Nat \ {0} /\ Window \in Nat \ {0}
  BY DEF LimiterConstants
<1>4. ASSUME NEW j \in GrantedInWindow(k, i)
      PROVE  j \in i .. last
  <2>1. j \in i .. n /\ q[j].ok /\ q[j].at < q[i].at + Window /\ j \in 1 .. n
    BY <1>1 DEF GrantedInWindow
  <2>2. ASSUME NEW g \in i .. j - 1
        PROVE  q[g + 1].at < q[g].at + Window
    <3>1. g \in 1 .. n /\ g + 1 \in 1 .. n /\ i <= g /\ g + 1 <= j
      BY <1>1, <2>1
    <3>2. q[i].at <= q[g].at /\ q[g + 1].at <= q[j].at
      BY <1>1, <2>1, <3>1 DEF Ordered
    <3>3. PICK a \in Nat, b \in Nat, c \in Nat, d \in Nat :
            a = q[i].at /\ b = q[g].at /\ c = q[g + 1].at /\ d = q[j].at
      BY <1>1, <1>2, <2>1, <3>1
    <3>4. a <= b /\ c <= d /\ d < a + Window
      BY <2>1, <3>2, <3>3
    <3>5. c < b + Window
      BY <1>3, <3>4
    <3> QED
      BY <3>3, <3>5
  <2>3. i .. j \subseteq Run(q, j)
    <3> SUFFICES ASSUME NEW h \in i .. j
                 PROVE  h \in Run(q, j)
      OBVIOUS
    <3>1. h \in 1 .. j /\ \A g \in h .. j - 1 : g \in i .. j - 1
      BY <1>1, <2>1
    <3> QED
      BY <2>2, <3>1 DEF Run
  <2>4. Cardinality(Run(q, j)) <= Limit /\ Cardinality(Run(q, j)) \in Nat
    BY <1>1, <2>1, RunIsFinite, FS_CardinalityType DEF GrantedFirst
  <2>5. Cardinality(i .. j) <= Cardinality(Run(q, j)) /\ IsFiniteSet(Run(q, j))
    BY <2>1, <2>3, RunIsFinite, FS_Subset
  <2>6. Cardinality(i .. j) = j - i + 1
    BY <1>1, <2>1, FS_Interval
  <2> HIDE DEF q
  <2> QED
    BY <1>1, <1>3, <2>1, <2>4, <2>5, <2>6
<1>5. GrantedInWindow(k, i) \subseteq i .. last
  BY <1>4
<1>6. IsFiniteSet(i .. last) /\ Cardinality(i .. last) = Limit
  <2>1. last \in Int /\ i \in Int /\ i <= last /\ last - i + 1 = Limit
    BY <1>1, <1>3
  <2> HIDE DEF last
  <2> QED
    BY <2>1, FS_Interval
<1> QED
  BY <1>5, <1>6, FS_Subset

\* For every limit, window, number of tokens, replicas and requests at once,
\* whatever overlaps, times out, arrives late or fails open: of the hits of a
\* key that Redis counted since it last forgot, no window holds more granted
\* ones than the limit (RedisRateLimiter.hit).
THEOREM Allowance == Spec => []NeverOverLimit
<1>1. Init => Inv
  BY InitInv, LimiterConstants
<1>2. Inv /\ [Next]_vars => Inv'
  BY StepInv, LimiterConstants
<1>3. Inv => NeverOverLimit
  BY InvGrants, LimiterConstants
<1> QED
  BY <1>1, <1>2, <1>3, PTL DEF Spec

-----------------------------------------------------------------------------
(* Types.  That failures and tickets stay within the requests there were   *)
(* needs to know which requests are unsettled: each is spoken for once.    *)

Requested == Handling \cup {NoHandling} \cup {Passed(k) : k \in Key}

Waiting(st) == st \in {"asking", "counted", "broken"}

Pending == {s \in Slot : Waiting(request[s].step)}
Busy    == {s \in Slot : ~ In(s, "idle")}

Places ==
  /\ now \in 0 .. MaxNow /\ up \in BOOLEAN /\ faults \in 0 .. MaxFaults
  /\ breaker \in [Replica -> [failures : Nat, skip : Nat]]
  /\ request \in [Slot -> Requested]
  /\ arrived \in 0 .. MaxRequests /\ issued \in Nat

\* Nothing is later than a call of this moment can make it.
Times ==
  /\ \A k \in Key : counter[k].until <= now + Window
  /\ \A r \in Replica : breaker[r].skip <= now + Cooldown
  /\ \A s \in Pending : request[s].at <= now

\* A request settles one call of its replica, and is worth one ticket.
Shares ==
  /\ IsFiniteSet(Busy)
  /\ issued + Cardinality(Busy) <= arrived
  /\ \A r \in Replica : breaker[r].failures + Cardinality(Pending) <= arrived

\* A ticket that opened a socket is not stored any more.
Tickets ==
  /\ stored \in [1 .. issued -> 0 .. MaxNow + TicketLife]
  /\ opened \in [Ticket -> 0 .. 1]
  /\ \A t \in Ticket : opened[t] = 1 => t \in 1 .. issued /\ stored[t] = 0

Sockets ==
  /\ status \in Committed \cup {Gone} /\ moves \in 0 .. MaxMoves
  /\ socket \in [Socket -> [step : {"new", "refused", "watching", "ended", "left"},
                            sent : Committed \cup {Unsent}]]

Limits == Places /\ Times /\ Shares

LEMMA Kinds ==
  ASSUME NEW q \in Requested
  PROVE  /\ q.step \in {"asking", "counted", "broken", "idle", "passed"}
         /\ Waiting(q.step) <=> q \in Handling
         /\ q.step # "idle" => q.key \in Key
<1>1. CASE q \in Handling
  BY <1>1 DEF Handling, Waiting
<1>2. CASE q = NoHandling
  BY <1>2 DEF NoHandling, Handling, Waiting
<1>3. CASE \E k \in Key : q = Passed(k)
  BY <1>3 DEF Passed, Handling, Waiting
<1> QED
  BY <1>1, <1>2, <1>3 DEF Requested

LEMMA Fewer ==
  ASSUME NEW S, NEW T, IsFiniteSet(S), T \subseteq S
  PROVE  /\ IsFiniteSet(T) /\ Cardinality(S) \in Nat /\ Cardinality(T) \in Nat
         /\ Cardinality(T) <= Cardinality(S)
  BY FS_Subset, FS_CardinalityType

LEMMA OneFewer ==
  ASSUME NEW S, NEW T, NEW s \in S, IsFiniteSet(S), T \subseteq S \ {s}
  PROVE  /\ IsFiniteSet(T) /\ Cardinality(S) \in Nat /\ Cardinality(T) \in Nat
         /\ Cardinality(T) + 1 <= Cardinality(S)
<1>1. IsFiniteSet(S \ {s}) /\ Cardinality(S \ {s}) = Cardinality(S) - 1
  BY FS_RemoveElement
<1>2. /\ IsFiniteSet(T) /\ Cardinality(T) \in Nat /\ Cardinality(S) \in Nat
      /\ Cardinality(T) <= Cardinality(S \ {s})
  BY <1>1, FS_Subset, FS_CardinalityType
<1> QED
  BY <1>1, <1>2

LEMMA OneMore ==
  ASSUME NEW S, NEW T, NEW s, IsFiniteSet(S), T \subseteq S \cup {s}
  PROVE  /\ IsFiniteSet(T) /\ Cardinality(S) \in Nat /\ Cardinality(T) \in Nat
         /\ Cardinality(T) <= Cardinality(S) + 1
<1>1. /\ IsFiniteSet(S \cup {s}) /\ Cardinality(S) \in Nat
      /\ Cardinality(S \cup {s}) = IF s \in S THEN Cardinality(S) ELSE Cardinality(S) + 1
  BY FS_AddElement, FS_CardinalityType
<1>2. /\ IsFiniteSet(T) /\ Cardinality(T) \in Nat
      /\ Cardinality(T) <= Cardinality(S \cup {s})
  BY <1>1, FS_Subset, FS_CardinalityType
<1> QED
  BY <1>1, <1>2

\* How many there are of each, and that they are counted.
LEMMA Counted ==
  ASSUME Places, Shares
  PROVE  /\ Pending \subseteq Busy /\ IsFiniteSet(Pending) /\ IsFiniteSet(Busy)
         /\ Cardinality(Pending) \in Nat /\ Cardinality(Busy) \in Nat
<1>1. \A s \in Slot : Waiting(request[s].step) => ~ In(s, "idle")
  BY DEF In, Waiting
<1>2. Pending \subseteq Busy /\ IsFiniteSet(Busy)
  BY <1>1 DEF Pending, Busy, Shares
<1> QED
  BY <1>2, Fewer

\* One request goes on, to q.
GoesOn(s, q) ==
  /\ request' = [request EXCEPT ![s] = q]
  /\ q \in Requested

LEMMA GoneOn ==
  ASSUME Places, NEW s \in Slot, NEW q, GoesOn(s, q)
  PROVE  /\ request' \in [Slot -> Requested] /\ request'[s] = q
         /\ \A x \in Slot \ {s} : request'[x] = request[x]
         /\ Pending' \subseteq Pending \cup {s} /\ Busy' \subseteq Busy \cup {s}
         /\ s \in Pending' => Waiting(q.step)
         /\ s \in Busy' => q.step # "idle"
<1>1. request \in [Slot -> Requested]
  BY DEF Places
<1>2. /\ request' \in [Slot -> Requested] /\ request'[s] = q
      /\ \A x \in Slot \ {s} : request'[x] = request[x]
  BY <1>1 DEF GoesOn
<1>4. Pending' = {x \in Slot : Waiting(request'[x].step)}
  BY DEF Pending, Waiting
<1>5. Busy' = {x \in Slot : request'[x].step # "idle"}
  BY DEF Busy, In
<1>7. Pending' \subseteq Pending \cup {s} /\ (s \in Pending' => Waiting(q.step))
  BY <1>2, <1>4 DEF Pending
<1>8. Busy' \subseteq Busy \cup {s} /\ (s \in Busy' => q.step # "idle")
  BY <1>2, <1>5 DEF Busy, In
<1> QED
  BY <1>2, <1>7, <1>8

\* What a call that waits looks like, and what it becomes.
LEMMA Waits ==
  ASSUME Limits, NEW s \in Pending
  PROVE  /\ s \in Slot /\ request[s] \in Handling /\ request[s].key \in Key
         /\ request[s].by \in Replica /\ request[s].at \in 0 .. MaxNow /\ request[s].at <= now
         /\ Passed(request[s].key) \in Requested /\ Passed(request[s].key).step = "passed"
         /\ s \in Busy
<1>1. s \in Slot /\ request[s] \in Requested /\ Waiting(request[s].step)
  BY DEF Pending, Limits, Places
<1>2. request[s] \in Handling /\ request[s].at <= now
  BY <1>1, Kinds DEF Limits, Times
<1>3. /\ request[s].key \in Key /\ request[s].by \in Replica
      /\ request[s].at \in 0 .. MaxNow
  BY <1>2 DEF Handling
<1>4. Passed(request[s].key) \in Requested /\ Passed(request[s].key).step = "passed"
  BY <1>3 DEF Requested, Passed
<1>5. s \in Busy
  BY <1>1 DEF Busy, In, Waiting
<1> QED
  BY <1>1, <1>2, <1>3, <1>4, <1>5

LEMMA ArrivesLimits ==
  ASSUME LimiterConstants, Tables, Limits,
         NEW s \in Slot, NEW r \in Replica, NEW k \in Key, Arrives(s, r, k), UNCHANGED socketVars
  PROVE  Limits'
<1>1. /\ UNCHANGED << now, up, faults, counter, breaker, issued >>
      /\ arrived' = arrived + 1 /\ arrived < MaxRequests /\ In(s, "idle")
  BY DEF Arrives, socketVars
<1>2. now \in 0 .. MaxNow /\ arrived \in 0 .. MaxRequests /\ MaxRequests \in Nat /\ issued \in Nat
  BY DEF Limits, Places, LimiterConstants
<1>3. PICK q \in Requested : GoesOn(s, q) /\ q.step # "idle" /\ (Waiting(q.step) => q.at = now)
  <2>1. CASE now < breaker[r].skip
    <3>1. request' = [request EXCEPT ![s] = Passed(k)]
      BY <2>1 DEF Arrives
    <3>2. Passed(k) \in Requested /\ Passed(k).step = "passed"
      BY DEF Requested, Passed
    <3> QED
      BY <3>1, <3>2 DEF GoesOn, Waiting
  <2>2. CASE ~ (now < breaker[r].skip)
    <3>1. PICK q : q = [step |-> "asking", key |-> k, at |-> now, by |-> r, ok |-> TRUE]
      OBVIOUS
    <3>2. request' = [request EXCEPT ![s] = q]
      BY <2>2, <3>1 DEF Arrives
    <3>3. q \in Handling /\ q.step = "asking" /\ q.at = now
      BY <1>2, <3>1 DEF Handling
    <3> QED
      BY <3>2, <3>3 DEF GoesOn, Requested
  <2> QED
    BY <2>1, <2>2
<1>4. /\ request' \in [Slot -> Requested] /\ request'[s] = q
      /\ \A x \in Slot \ {s} : request'[x] = request[x]
      /\ Pending' \subseteq Pending \cup {s}
      /\ Busy' \subseteq Busy \cup {s} /\ (s \in Pending' => Waiting(q.step))
  BY <1>3, GoneOn DEF Limits
<1>5. Places'
  BY <1>1, <1>2, <1>4 DEF Limits, Places
<1>6. \A x \in Pending' : request'[x].at <= now'
  BY <1>1, <1>2, <1>3, <1>4 DEF Limits, Times, Pending
<1>7. Times'
  BY <1>1, <1>6 DEF Limits, Times
<1>8. /\ IsFiniteSet(Busy') /\ Cardinality(Busy) \in Nat /\ Cardinality(Busy') \in Nat
      /\ Cardinality(Busy') <= Cardinality(Busy) + 1
      /\ Cardinality(Pending) \in Nat /\ Cardinality(Pending') \in Nat
      /\ Cardinality(Pending') <= Cardinality(Pending) + 1
  BY <1>4, Counted, OneMore DEF Limits
<1> arrived' = arrived + 1 /\ issued' = issued /\ arrived \in Nat /\ issued \in Nat
  BY <1>1, <1>2
<1>9. issued' + Cardinality(Busy') <= arrived'
  <2>1. issued + Cardinality(Busy) <= arrived
    BY DEF Limits, Shares
  <2> QED
    BY <1>8, <2>1
<1>10. ASSUME NEW x \in Replica
       PROVE  breaker'[x].failures + Cardinality(Pending') <= arrived'
  <2>1. /\ breaker'[x].failures = breaker[x].failures /\ breaker[x].failures \in Nat
        /\ breaker[x].failures + Cardinality(Pending) <= arrived
    BY <1>1 DEF Limits, Places, Shares
  <2> QED
    BY <1>8, <2>1
<1>11. Shares'
  BY <1>8, <1>9, <1>10 DEF Shares
<1> QED
  BY <1>5, <1>7, <1>11 DEF Limits

\* Time stands still for a call that goes on waiting: for its answer, in vain,
\* or once more.
LEMMA WaitingLimits ==
  ASSUME LimiterConstants, Tables, Limits, NEW s \in Pending, NEW q \in Handling,
         request' = [request EXCEPT ![s] = q], q.at = request[s].at,
         UNCHANGED << now, up, breaker, arrived, issued >>, faults' \in 0 .. MaxFaults,
         \A k \in Key : counter'[k].until <= now' + Window
  PROVE  Limits'
<1>1. s \in Slot /\ request[s].at <= now /\ s \in Busy
  BY Waits
<1>2. GoesOn(s, q)
  BY DEF GoesOn, Requested
<1>3. /\ request' \in [Slot -> Requested] /\ request'[s] = q
      /\ \A x \in Slot \ {s} : request'[x] = request[x]
      /\ Pending' \subseteq Pending /\ Busy' \subseteq Busy
  BY <1>1, <1>2, GoneOn DEF Limits
<1>4. Places'
  BY <1>3 DEF Limits, Places
<1>5. \A x \in Pending' : request'[x].at <= now'
  BY <1>1, <1>3 DEF Limits, Times
<1>6. Times'
  BY <1>5 DEF Limits, Times
<1>7. /\ IsFiniteSet(Busy') /\ Cardinality(Busy') \in Nat /\ Cardinality(Busy) \in Nat
      /\ Cardinality(Busy') <= Cardinality(Busy)
      /\ Cardinality(Pending') \in Nat /\ Cardinality(Pending) \in Nat
      /\ Cardinality(Pending') <= Cardinality(Pending)
  BY <1>3, Counted, Fewer DEF Limits
<1>8. arrived \in Nat /\ issued \in Nat /\ arrived' = arrived /\ issued' = issued
  BY DEF Limits, Places
<1>9. issued' + Cardinality(Busy') <= arrived'
  <2>1. issued + Cardinality(Busy) <= arrived
    BY DEF Limits, Shares
  <2> QED
    BY <1>7, <1>8, <2>1
<1>10. ASSUME NEW x \in Replica
       PROVE  breaker'[x].failures + Cardinality(Pending') <= arrived'
  <2>1. /\ breaker'[x].failures = breaker[x].failures /\ breaker[x].failures \in Nat
        /\ breaker[x].failures + Cardinality(Pending) <= arrived
    BY DEF Limits, Places, Shares
  <2> QED
    BY <1>7, <1>8, <2>1
<1>11. Shares'
  BY <1>7, <1>9, <1>10 DEF Shares
<1> QED
  BY <1>4, <1>6, <1>11 DEF Limits

\* A hit keeps its key for a window from now, and no longer.
LEMMA HitExpires ==
  ASSUME LimiterConstants, Tables, Limits, NEW k, CountsHit(k), now' = now
  PROVE  \A x \in Key : counter'[x].until <= now' + Window
<1> SUFFICES ASSUME NEW x \in Key
             PROVE  counter'[x].until <= now' + Window
  OBVIOUS
<1>1. counter' = [counter EXCEPT ![k] = Incremented(k)] /\ now \in Nat /\ Window \in Nat
  BY DEF CountsHit, Tables, LimiterConstants
<1>2. CASE x = k
  <2>1. counter'[x].until = now + Window
    BY <1>1, <1>2 DEF Tables, Incremented
  <2> QED
    BY <1>1, <2>1
<1>3. CASE x # k
  <2>1. counter'[x] = counter[x]
    BY <1>1, <1>3 DEF Tables
  <2> QED
    BY <2>1 DEF Limits, Times
<1> QED
  BY <1>2, <1>3

LEMMA Stepped ==
  ASSUME NEW h \in Handling, NEW st \in {"asking", "counted", "broken"}, NEW ok \in BOOLEAN
  PROVE  /\ [h EXCEPT !.step = st, !.ok = ok] \in Handling
         /\ [h EXCEPT !.step = st, !.ok = ok].at = h.at
         /\ [h EXCEPT !.step = st, !.ok = ok].step = st
         /\ [h EXCEPT !.step = st] \in Handling /\ [h EXCEPT !.step = st].at = h.at
  BY DEF Handling

LEMMA CountsLimits ==
  ASSUME LimiterConstants, Tables, Limits, NEW s \in Slot, Counts(s), UNCHANGED socketVars
  PROVE  Limits'
<1>0. PICK k : k = request[s].key
  OBVIOUS
<1>1. PICK ok \in BOOLEAN : ok = Allowed(Incremented(k).count)
  <2>1. Allowed(Incremented(k).count) \in BOOLEAN
    BY DEF Allowed
  <2> QED
    BY <2>1
<1>2. /\ UNCHANGED << now, up, faults, breaker, arrived, issued >> /\ CountsHit(k)
      /\ request' = [request EXCEPT ![s].step = "counted", ![s].ok = ok]
      /\ In(s, "asking")
  BY <1>0, <1>1 DEF Counts, socketVars
<1>3. s \in Pending
  BY <1>2 DEF Pending, In, Waiting
<1>4. PICK h \in Handling : h = request[s]
  BY <1>3, Waits
<1>5. PICK q \in Handling : q = [h EXCEPT !.step = "counted", !.ok = ok] /\ q.at = h.at
  <2>1. PICK w : w = [h EXCEPT !.step = "counted", !.ok = ok]
    OBVIOUS
  <2>2. w \in Handling /\ w.at = h.at
    BY <2>1 DEF Handling
  <2> QED
    BY <2>1, <2>2
<1>6. request' = [request EXCEPT ![s] = q]
  BY <1>2, <1>4, <1>5
<1>7. faults' \in 0 .. MaxFaults /\ \A x \in Key : counter'[x].until <= now' + Window
  BY <1>2, HitExpires DEF Limits, Places
<1> QED
  BY <1>2, <1>3, <1>4, <1>5, <1>6, <1>7, WaitingLimits

LEMMA TimesOutLimits ==
  ASSUME LimiterConstants, Tables, Limits, NEW s \in Slot, TimesOut(s), UNCHANGED socketVars
  PROVE  Limits'
<1>1. /\ UNCHANGED << now, up, counter, breaker, arrived, issued >>
      /\ faults < MaxFaults /\ faults' = faults + 1
      /\ request' = [request EXCEPT ![s].step = "broken", ![s].ok = TRUE]
      /\ In(s, "counted") \/ In(s, "asking")
  BY DEF TimesOut, socketVars
<1>2. s \in Pending
  BY <1>1 DEF Pending, In, Waiting
<1>3. PICK h \in Handling : h = request[s]
  BY <1>2, Waits
<1>4. PICK q \in Handling : q = [h EXCEPT !.step = "broken", !.ok = TRUE] /\ q.at = h.at
  <2>1. [h EXCEPT !.step = "broken", !.ok = TRUE] \in Handling /\ [h EXCEPT !.step = "broken", !.ok = TRUE].at = h.at
    BY Stepped
  <2> QED
    BY <2>1
<1>5. request' = [request EXCEPT ![s] = q]
  BY <1>1, <1>3, <1>4
<1>6. faults' \in 0 .. MaxFaults
  BY <1>1 DEF Limits, Places, LimiterConstants
<1>7. \A x \in Key : counter'[x].until <= now' + Window
  BY <1>1 DEF Limits, Times
<1> QED
  BY <1>1, <1>2, <1>3, <1>4, <1>5, <1>6, <1>7, WaitingLimits

LEMMA AsksAgainLimits ==
  ASSUME LimiterConstants, Tables, Limits, NEW s \in Slot, AsksAgain(s), UNCHANGED socketVars
  PROVE  Limits'
<1>1. /\ UNCHANGED << now, up, faults, counter, breaker, arrived, issued >>
      /\ request' = [request EXCEPT ![s].step = "asking"] /\ In(s, "broken")
  BY DEF AsksAgain, socketVars
<1>2. s \in Pending
  BY <1>1 DEF Pending, In, Waiting
<1>3. PICK h \in Handling : h = request[s]
  BY <1>2, Waits
<1>4. PICK q \in Handling : q = [h EXCEPT !.step = "asking"] /\ q.at = h.at
  <2>1. [h EXCEPT !.step = "asking"] \in Handling /\ [h EXCEPT !.step = "asking"].at = h.at
    BY Stepped
  <2> QED
    BY <2>1
<1>5. request' = [request EXCEPT ![s] = q]
  BY <1>1, <1>3, <1>4
<1>6. faults' \in 0 .. MaxFaults /\ \A x \in Key : counter'[x].until <= now' + Window
  BY <1>1 DEF Limits, Places, Times
<1> QED
  BY <1>1, <1>2, <1>3, <1>4, <1>5, <1>6, WaitingLimits

\* Shares are kept by a request that leaves, or whose call is settled, and
\* costs its replica no more than that.
LEMMA SharesKept ==
  ASSUME Tables, Limits, UNCHANGED arrived, issued' \in Nat,
         \A x \in Replica : breaker'[x].failures \in Nat,
         Pending' \subseteq Pending, Busy' \subseteq Busy,
         NEW s \in Busy,
         issued' <= issued \/ (issued' <= issued + 1 /\ Busy' \subseteq Busy \ {s}),
         \/ \A x \in Replica : breaker'[x].failures <= breaker[x].failures
         \/ /\ s \in Pending /\ Pending' \subseteq Pending \ {s}
            /\ \A x \in Replica : breaker'[x].failures <= breaker[x].failures + 1
  PROVE  Shares'
<1> arrived' = arrived /\ arrived \in Nat /\ issued \in Nat /\ issued' \in Nat
  BY DEF Limits, Places
<1>1. IsFiniteSet(Pending) /\ IsFiniteSet(Busy)
  BY Counted DEF Limits
<1>2. /\ IsFiniteSet(Busy') /\ Cardinality(Busy) \in Nat /\ Cardinality(Busy') \in Nat
      /\ Cardinality(Busy') <= Cardinality(Busy)
      /\ (Busy' \subseteq Busy \ {s} => Cardinality(Busy') + 1 <= Cardinality(Busy))
  BY <1>1, Fewer, OneFewer
<1>3. /\ Cardinality(Pending) \in Nat /\ Cardinality(Pending') \in Nat
      /\ Cardinality(Pending') <= Cardinality(Pending)
      /\ s \in Pending /\ Pending' \subseteq Pending \ {s}
           => Cardinality(Pending') + 1 <= Cardinality(Pending)
  BY <1>1, Fewer, OneFewer
<1>5. issued' + Cardinality(Busy') <= arrived'
  <2>1. issued + Cardinality(Busy) <= arrived
    BY DEF Limits, Shares
  <2> QED
    BY <1>2, <2>1
<1>6. ASSUME NEW x \in Replica
      PROVE  breaker'[x].failures + Cardinality(Pending') <= arrived'
  <2>1. /\ breaker'[x].failures \in Nat /\ breaker[x].failures \in Nat
        /\ breaker[x].failures + Cardinality(Pending) <= arrived
    BY DEF Limits, Places, Shares
  <2> QED
    BY <1>3, <2>1
<1> QED
  BY <1>2, <1>5, <1>6 DEF Shares

LEMMA DecidedLimits ==
  ASSUME LimiterConstants, Tables, Limits, NEW s \in Slot, Decided(s), UNCHANGED socketVars
  PROVE  Limits'
<1>1. /\ UNCHANGED << now, up, faults, counter, arrived, issued >> /\ In(s, "counted")
      /\ breaker' = [breaker EXCEPT ![request[s].by].failures = 0]
  BY DEF Decided, socketVars
<1>2. s \in Pending
  BY <1>1 DEF Pending, In, Waiting
<1>3. PICK q \in Requested : GoesOn(s, q) /\ q.step \in {"idle", "passed"}
  <2>1. NoHandling \in Requested /\ NoHandling.step = "idle"
    BY DEF Requested, NoHandling
  <2> QED
    BY <1>2, <2>1, Waits DEF Decided, LetThrough, GoesOn
<1>4. /\ request' \in [Slot -> Requested] /\ request'[s] = q
      /\ \A x \in Slot \ {s} : request'[x] = request[x]
      /\ Pending' \subseteq Pending \ {s} /\ Busy' \subseteq Busy
  BY <1>2, <1>3, Waits, GoneOn DEF Limits, Waiting
<1>5. /\ breaker' \in [Replica -> [failures : Nat, skip : Nat]]
      /\ \A x \in Replica : /\ breaker'[x].failures <= breaker[x].failures
                            /\ breaker'[x].skip = breaker[x].skip
  <2>1. breaker \in [Replica -> [failures : Nat, skip : Nat]]
    BY DEF Limits, Places
  <2>2. PICK b : b = [breaker[request[s].by] EXCEPT !.failures = 0]
    OBVIOUS
  <2>3. breaker' = [breaker EXCEPT ![request[s].by] = b]
    BY <1>1, <2>2
  <2>4. request[s].by \in Replica
    BY <1>2, Waits
  <2>5. /\ b \in [failures : Nat, skip : Nat] /\ b.failures = 0
        /\ b.skip = breaker[request[s].by].skip
    BY <2>1, <2>2, <2>4
  <2>6. \A x \in Replica : breaker[x].failures \in Nat
    BY <2>1
  <2> QED
    BY <2>1, <2>3, <2>4, <2>5, <2>6
<1>6. Places'
  BY <1>1, <1>4, <1>5 DEF Limits, Places
<1>7. Times'
  BY <1>1, <1>4, <1>5 DEF Limits, Times, Pending
<1>8. Shares'
  <2>2. issued' \in Nat /\ issued' <= issued
    BY <1>1 DEF Limits, Places
  <2>3. \A x \in Replica : breaker'[x].failures \in Nat
    BY <1>5
  <2>4. s \in Busy
    BY <1>2, Waits
  <2> QED
    BY <1>1, <1>4, <1>5, <2>2, <2>3, <2>4, SharesKept
<1> QED
  BY <1>6, <1>7, <1>8 DEF Limits

LEMMA FailsOpenLimits ==
  ASSUME LimiterConstants, Tables, Limits, NEW s \in Slot, FailsOpen(s), UNCHANGED socketVars
  PROVE  Limits'
<1> DEFINE r == request[s].by
<1>1. /\ UNCHANGED << now, up, faults, counter, arrived, issued >>
      /\ In(s, "broken") \/ In(s, "asking")
      /\ breaker' = [breaker EXCEPT ![r] =
           [failures |-> breaker[r].failures + 1,
            skip |-> IF breaker[r].failures + 1 >= Threshold
                     THEN request[s].at + Cooldown ELSE @.skip]]
      /\ request' = [request EXCEPT ![s] = Passed(request[s].key)]
  BY DEF FailsOpen, socketVars, LetThrough
<1>2. s \in Pending
  BY <1>1 DEF Pending, In, Waiting
<1>3. PICK q \in Requested : GoesOn(s, q) /\ q.step = "passed"
  BY <1>1, <1>2, Waits DEF GoesOn
<1>4. /\ request' \in [Slot -> Requested] /\ request'[s] = q
      /\ \A x \in Slot \ {s} : request'[x] = request[x]
      /\ Pending' \subseteq Pending \ {s} /\ Busy' \subseteq Busy
  BY <1>2, <1>3, Waits, GoneOn DEF Limits, Waiting
<1>5. /\ breaker' \in [Replica -> [failures : Nat, skip : Nat]]
      /\ \A x \in Replica : /\ breaker'[x].failures <= breaker[x].failures + 1
                            /\ breaker'[x].skip <= now + Cooldown
  <2>1. /\ breaker \in [Replica -> [failures : Nat, skip : Nat]]
        /\ \A x \in Replica : breaker[x].skip <= now + Cooldown
    BY DEF Limits, Places, Times
  <2>2. r \in Replica /\ request[s].at \in Nat /\ request[s].at <= now
    BY <1>2, Waits
  <2>3. now \in Nat /\ Cooldown \in Nat
    BY DEF LimiterConstants, Tables
  <2>4. PICK n \in Nat : n = breaker[r].failures + 1
    BY <2>1, <2>2
  <2>5. PICK until \in Nat : /\ until = IF n >= Threshold THEN request[s].at + Cooldown
                                        ELSE breaker[r].skip
                             /\ until <= now + Cooldown
    BY <2>1, <2>2, <2>3
  <2>6. PICK b \in [failures : Nat, skip : Nat] : b = [failures |-> n, skip |-> until]
    OBVIOUS
  <2>7. breaker' = [breaker EXCEPT ![r] = b] /\ b.failures = n /\ b.skip = until
    BY <1>1, <2>4, <2>5, <2>6
  <2>8. \A x \in Replica : breaker[x].failures \in Nat
    BY <2>1
  <2> HIDE DEF r
  <2> QED
    BY <2>1, <2>2, <2>4, <2>5, <2>6, <2>7, <2>8
<1>6. Places'
  BY <1>1, <1>4, <1>5 DEF Limits, Places
<1>7. Times'
  BY <1>1, <1>4, <1>5 DEF Limits, Times, Pending
<1>8. Shares'
  <2>2. issued' \in Nat /\ issued' <= issued
    BY <1>1 DEF Limits, Places
  <2>3. \A x \in Replica : breaker'[x].failures \in Nat
    BY <1>5
  <2>4. s \in Busy
    BY <1>2, Waits
  <2>5. arrived' = arrived /\ Pending' \subseteq Pending
    BY <1>1, <1>4
  <2> QED
    BY <1>2, <1>4, <1>5, <2>2, <2>3, <2>4, <2>5, SharesKept
<1> QED
  BY <1>6, <1>7, <1>8 DEF Limits

\* A request that was let through ends, with a ticket or without.
LEMMA EndsLimits ==
  ASSUME LimiterConstants, Tables, Limits, NEW s \in Slot, In(s, "passed"), Done(s),
         UNCHANGED << now, up, faults, counter, breaker, arrived >>,
         issued' \in {issued, issued + 1}
  PROVE  Limits' /\ issued < MaxRequests
<1>1. s \in Busy /\ s \notin Pending
  BY DEF Busy, Pending, In, Waiting
<1>2. PICK q : q = NoHandling /\ GoesOn(s, q) /\ q.step = "idle"
  <2>1. NoHandling \in Requested /\ NoHandling.step = "idle"
    BY DEF Requested, NoHandling
  <2>2. GoesOn(s, NoHandling)
    BY <2>1 DEF Done, GoesOn
  <2> QED
    BY <2>1, <2>2
<1>3. /\ request' \in [Slot -> Requested] /\ request'[s] = q
      /\ \A x \in Slot \ {s} : request'[x] = request[x]
      /\ Pending' \subseteq Pending /\ Busy' \subseteq Busy \ {s}
  BY <1>1, <1>2, GoneOn DEF Limits, Waiting
<1>4. issued \in Nat /\ issued' \in Nat /\ issued' <= issued + 1
  BY DEF Limits, Places
<1>5. Places'
  BY <1>3, <1>4 DEF Limits, Places
<1>6. Times'
  BY <1>1, <1>3 DEF Limits, Times, Pending
<1>7. Shares'
  <2>2. \A x \in Replica : /\ breaker'[x].failures \in Nat
                           /\ breaker'[x].failures <= breaker[x].failures
    BY DEF Limits, Places
  <2>3. Busy' \subseteq Busy
    BY <1>3
  <2> QED
    BY <1>1, <1>3, <1>4, <2>2, <2>3, SharesKept
<1>8. issued < MaxRequests
  <2>1. issued + Cardinality(Busy) <= arrived /\ IsFiniteSet(Busy)
    BY DEF Limits, Shares
  <2>2. Cardinality(Busy) \in Nat /\ Cardinality(Busy) >= 1
    <3>1. Cardinality({}) + 1 <= Cardinality(Busy) /\ Cardinality(Busy) \in Nat
      BY <1>1, <2>1, OneFewer
    <3> QED
      BY <3>1, FS_EmptySet
  <2>3. arrived \in 0 .. MaxRequests /\ MaxRequests \in Nat
    BY DEF Limits, Places, LimiterConstants
  <2> QED
    BY <1>4, <2>1, <2>2, <2>3
<1> QED
  BY <1>5, <1>6, <1>7, <1>8 DEF Limits

LEMMA OutageLimits ==
  ASSUME LimiterConstants, Tables, Limits, Outage
  PROVE  Limits'
<1>0. /\ UNCHANGED << now, breaker, arrived, issued >> /\ faults < MaxFaults
      /\ up' = FALSE /\ faults' = faults + 1
      /\ counter' = [k \in Key |-> [count |-> 0, until |-> 0]]
  BY DEF Outage, GoesDown
<1>1. request' = [s \in Slot |->
           IF In(s, "asking") \/ In(s, "counted")
           THEN [request[s] EXCEPT !.step = "broken", !.ok = TRUE] ELSE request[s]]
  BY DEF Outage, GoesDown
<1>2. \A s \in Slot : request[s] \in Requested
  BY DEF Limits, Places
<1>3. \A h \in Handling :
        LET g == [h EXCEPT !.step = "broken", !.ok = TRUE]
        IN  g \in Handling /\ g.step = "broken" /\ g.at = h.at
  BY Stepped
<1>4. ASSUME NEW s \in Slot
      PROVE  /\ request'[s] \in Requested
             /\ Waiting(request'[s].step) => s \in Pending /\ request'[s].at = request[s].at
             /\ request'[s].step # "idle" => s \in Busy
  <2>1. CASE In(s, "asking") \/ In(s, "counted")
    <3>1. s \in Pending /\ request[s] \in Handling /\ s \in Busy
      <4>1. Waiting(request[s].step)
        BY <2>1 DEF In, Waiting
      <4>2. request[s] \in Handling
        BY <1>2, <4>1, Kinds
      <4> QED
        BY <2>1, <4>1, <4>2 DEF Pending, Busy, In
    <3>2. request'[s] = [request[s] EXCEPT !.step = "broken", !.ok = TRUE]
      BY <1>1, <2>1
    <3> QED
      BY <1>3, <3>1, <3>2 DEF Requested
  <2>2. CASE ~ (In(s, "asking") \/ In(s, "counted"))
    <3>1. request'[s] = request[s]
      BY <1>1, <2>2
    <3> QED
      BY <1>2, <2>2, <3>1 DEF In, Pending, Busy
  <2> QED
    BY <2>1, <2>2
<1>5. /\ request' \in [Slot -> Requested]
      /\ Pending' \subseteq Pending /\ Busy' \subseteq Busy
      /\ \A x \in Pending' : request'[x].at = request[x].at
  <2>2. Pending' = {s \in Slot : Waiting(request'[s].step)}
    BY DEF Pending, Waiting
  <2>3. Busy' = {s \in Slot : request'[s].step # "idle"}
    BY DEF Busy, In
  <2>4. request' \in [Slot -> Requested]
    BY <1>1, <1>4
  <2> QED
    BY <1>4, <2>2, <2>3, <2>4
<1>6. Places'
  <2>1. faults' \in 0 .. MaxFaults
    <3>1. faults \in 0 .. MaxFaults /\ MaxFaults \in Nat
      BY DEF Limits, Places, LimiterConstants
    <3> QED
      BY <1>0, <3>1
  <2> QED
    BY <1>0, <1>5, <2>1 DEF Limits, Places
<1>7. Times'
  <2>1. now \in Nat /\ Window \in Nat
    BY DEF Tables, LimiterConstants
  <2> QED
    BY <1>0, <1>5, <2>1 DEF Limits, Times
<1>8. Shares'
  <2>1. IsFiniteSet(Busy') /\ Cardinality(Busy') <= Cardinality(Busy)
        /\ Cardinality(Busy) \in Nat /\ Cardinality(Busy') \in Nat
        /\ Cardinality(Pending') <= Cardinality(Pending)
        /\ Cardinality(Pending) \in Nat /\ Cardinality(Pending') \in Nat
    BY <1>5, Counted, Fewer DEF Limits
  <2>2. arrived' = arrived /\ issued' = issued /\ arrived \in Nat /\ issued \in Nat
    BY <1>0 DEF Limits, Places
  <2>3. issued' + Cardinality(Busy') <= arrived'
    BY <2>1, <2>2 DEF Limits, Shares
  <2>4. ASSUME NEW x \in Replica
        PROVE  breaker'[x].failures + Cardinality(Pending') <= arrived'
    <3>1. /\ breaker'[x].failures = breaker[x].failures /\ breaker[x].failures \in Nat
          /\ breaker[x].failures + Cardinality(Pending) <= arrived
      BY <1>0 DEF Limits, Places, Shares
    <3> QED
      BY <2>1, <2>2, <3>1
  <2> QED
    BY <2>1, <2>3, <2>4 DEF Shares
<1> QED
  BY <1>6, <1>7, <1>8 DEF Limits

LEMMA Sequence ==
  ASSUME NEW A, NEW B, NEW q \in Seq(A), \A i \in DOMAIN q : q[i] \in B
  PROVE  q \in Seq(B)
  OBVIOUS

\* Time passes, the store comes back, or a socket or the meeting moves.
LEMMA QuietLimits ==
  ASSUME LimiterConstants, Tables, Limits,
         UNCHANGED << faults, breaker, request, arrived, issued >>,
         \A k \in Key : counter'[k].until <= now' + Window,
         up' \in BOOLEAN, now' = now \/ (now' = now + 1 /\ now < MaxNow)
  PROVE  Limits'
<1>1. Pending' = Pending /\ Busy' = Busy
  BY DEF Pending, Busy, In
<1>2. now \in Nat /\ MaxNow \in Nat /\ now \in 0 .. MaxNow /\ Window \in Nat /\ Cooldown \in Nat
  BY DEF Tables, LimiterConstants, Limits, Places
<1>3. Places'
  BY <1>2 DEF Limits, Places
<1>4. now' \in Nat /\ now <= now'
  BY <1>2
<1>5. Times'
  <2>3. ASSUME NEW r \in Replica
        PROVE  breaker'[r].skip <= now' + Cooldown
    <3>1. breaker[r].skip \in Nat /\ breaker[r].skip <= now + Cooldown
      BY DEF Limits, Places, Times
    <3> QED
      BY <1>2, <1>4, <3>1
  <2>4. ASSUME NEW s \in Pending'
        PROVE  request'[s].at <= now'
    <3>1. request[s].at \in 0 .. MaxNow /\ request[s].at <= now
      BY <1>1, Waits
    <3> QED
      BY <1>2, <1>4, <3>1
  <2> QED
    BY <2>3, <2>4 DEF Times
<1>6. Shares'
  BY <1>1 DEF Limits, Shares
<1> QED
  BY <1>3, <1>5, <1>6 DEF Limits

\* As time goes on, no key outlives a window from now.
LEMMA KeysStay ==
  ASSUME LimiterConstants, Tables, Limits, UNCHANGED counter,
         now' = now \/ now' = now + 1
  PROVE  \A k \in Key : counter'[k].until <= now' + Window
<1> SUFFICES ASSUME NEW k \in Key
             PROVE  counter'[k].until <= now' + Window
  OBVIOUS
<1>1. /\ counter[k].until \in Nat /\ counter[k].until <= now + Window /\ counter' = counter
      /\ now \in Nat /\ Window \in Nat
  BY DEF Tables, Limits, Times, LimiterConstants
<1> QED
  BY <1>1

LEMMA StepLimits ==
  ASSUME LimiterConstants, Tables, Limits, [Next]_vars
  PROVE  Limits'
<1> now \in Nat /\ up \in BOOLEAN /\ issued \in Nat
  BY DEF Tables, Limits, Places
<1>1. CASE LimiterStep /\ UNCHANGED socketVars
  <2>1. CASE \E s \in Slot, r \in Replica, k \in Key : Arrives(s, r, k)
    BY <1>1, <2>1, ArrivesLimits
  <2>2. CASE \E s \in Slot : Counts(s)
    BY <1>1, <2>2, CountsLimits
  <2>3. CASE \E s \in Slot : TimesOut(s)
    BY <1>1, <2>3, TimesOutLimits
  <2>4. CASE \E s \in Slot : AsksAgain(s)
    BY <1>1, <2>4, AsksAgainLimits
  <2>5. CASE \E s \in Slot : Decided(s)
    BY <1>1, <2>5, DecidedLimits
  <2>6. CASE \E s \in Slot : FailsOpen(s)
    BY <1>1, <2>6, FailsOpenLimits
  <2>7. CASE \E k \in Key : CountsLate(k)
    <3>1. PICK k \in Key : CountsLate(k)
      BY <2>7
    <3>2. UNCHANGED << now, up, faults, breaker, request, arrived, issued >> /\ CountsHit(k)
      BY <1>1, <3>1 DEF CountsLate, socketVars
    <3>3. \A x \in Key : counter'[x].until <= now' + Window
      BY <3>2, HitExpires
    <3> QED
      BY <3>2, <3>3, QuietLimits
  <2>8. CASE ComesBack \/ Tick
    <3>1. /\ UNCHANGED << faults, counter, breaker, request, arrived, issued >>
          /\ up' \in BOOLEAN /\ (now' = now \/ (now' = now + 1 /\ now < MaxNow))
      BY <1>1, <2>8 DEF ComesBack, Tick, socketVars
    <3>2. \A x \in Key : counter'[x].until <= now' + Window
      BY <3>1, KeysStay
    <3> QED
      BY <3>1, <3>2, QuietLimits
  <2> QED
    BY <1>1, <2>1, <2>2, <2>3, <2>4, <2>5, <2>6, <2>7, <2>8 DEF LimiterStep
<1>2. CASE Outage
  BY <1>2, OutageLimits
<1>3. CASE \E s \in Slot : IssueTicket(s) \/ Handled(s)
  <2>1. PICK s \in Slot : IssueTicket(s) \/ Handled(s)
    BY <1>3
  <2>2. /\ In(s, "passed") /\ Done(s) /\ issued' \in {issued, issued + 1}
        /\ UNCHANGED << now, up, faults, counter, breaker, arrived >>
    BY <2>1 DEF IssueTicket, Handled, socketVars
  <2> QED
    BY <2>2, EndsLimits
<1>4. CASE UNCHANGED vars \/ Moves \/ Erased
  <2>1. UNCHANGED << now, up, faults, counter, breaker, request, arrived, issued >>
    BY <1>4 DEF vars, limiterVars, socketVars, Moves, Erased
  <2> QED
    BY <2>1, KeysStay, QuietLimits
<1>5. CASE \E k \in Socket : Frame(k) \/ EndsUntold(k) \/ Leaves(k)
                            \/ \E y \in Ticket : OpenSocket(k, y)
  <2>1. UNCHANGED << now, up, faults, counter, breaker, request, arrived, issued >>
    BY <1>5 DEF limiterVars, Frame, EndsUntold, Leaves, OpenSocket
  <2> QED
    BY <2>1, KeysStay, QuietLimits
<1> QED
  BY <1>1, <1>2, <1>3, <1>4, <1>5 DEF Next

-----------------------------------------------------------------------------
(* Tickets and sockets.                                                    *)

LEMMA IssueTickets ==
  ASSUME LimiterConstants, Tables, Limits, Tickets, NEW s \in Slot, IssueTicket(s)
  PROVE  Tickets'
<1>1. /\ In(s, "passed") /\ Done(s) /\ issued' = issued + 1 /\ opened' = opened
      /\ stored' = Append(stored, now + TicketLife)
      /\ UNCHANGED << now, up, faults, counter, breaker, arrived >>
  BY DEF IssueTicket
<1>2. issued \in Nat /\ issued < MaxRequests /\ issued + 1 \in Ticket
  <2>1. issued < MaxRequests /\ issued \in Nat /\ MaxRequests \in Nat
    BY <1>1, EndsLimits DEF Limits, Places, LimiterConstants
  <2> QED
    BY <2>1 DEF Ticket
<1>3. now + TicketLife \in 0 .. MaxNow + TicketLife
  BY DEF Limits, Places, LimiterConstants, TicketLife
<1>4. PICK A : A = 0 .. MaxNow + TicketLife
  OBVIOUS
<1>5. stored \in [1 .. issued -> A] /\ now + TicketLife \in A
  BY <1>3, <1>4 DEF Tickets
<1>6. stored \in Seq(A) /\ Len(stored) = issued
  BY <1>2, <1>5
<1>7. /\ stored' \in [1 .. issued' -> A]
      /\ \A t \in 1 .. issued : stored'[t] = stored[t]
  <2>1. PICK e \in A : stored' = Append(stored, e)
    BY <1>1, <1>5
  <2>2. Len(stored') = issued + 1 /\ stored' \in Seq(A)
    BY <1>6, <2>1
  <2>3. \A t \in 1 .. issued : stored'[t] = stored[t]
    BY <1>2, <1>6, <2>1
  <2>4. stored' \in [1 .. Len(stored') -> A]
    BY <2>2
  <2> QED
    BY <1>1, <2>2, <2>3, <2>4
<1>8. \A t \in Ticket : opened'[t] = 1 => t \in 1 .. issued' /\ stored'[t] = 0
  BY <1>1, <1>2, <1>7 DEF Tickets
<1> QED
  BY <1>1, <1>4, <1>7, <1>8 DEF Tickets

LEMMA OpenTickets ==
  ASSUME LimiterConstants, Tables, Tickets, NEW k, NEW t \in Ticket, OpenSocket(k, t)
  PROVE  Tickets'
<1>1. t \in 1 .. issued /\ issued' = issued /\ up' = up /\ now' = now
  BY DEF OpenSocket, limiterVars
<1>2. PICK A : A = 0 .. MaxNow + TicketLife
  OBVIOUS
<1>3. stored \in [1 .. issued -> A] /\ 0 \in A /\ opened \in [Ticket -> 0 .. 1]
  BY <1>2 DEF Tickets, LimiterConstants, TicketLife
<1>4. CASE Opens(t)
  <2>1. stored' = [stored EXCEPT ![t] = 0] /\ opened' = [opened EXCEPT ![t] = @ + 1]
    BY <1>4 DEF OpenSocket, Opens, Redeemed
  <2>2. stored[t] # 0
    BY <1>4 DEF Opens, Tables
  <2>3. opened[t] = 0
    BY <1>3, <2>2 DEF Tickets
  <2>4. /\ stored' \in [1 .. issued -> A] /\ stored'[t] = 0
        /\ \A x \in 1 .. issued : x # t => stored'[x] = stored[x]
    BY <1>1, <1>3, <2>1
  <2>5. /\ opened' \in [Ticket -> 0 .. 1]
        /\ \A x \in Ticket : x # t => opened'[x] = opened[x]
    BY <1>3, <2>1, <2>3
  <2>6. \A x \in Ticket : opened'[x] = 1 => x \in 1 .. issued' /\ stored'[x] = 0
    BY <1>1, <2>4, <2>5 DEF Tickets
  <2> QED
    BY <1>1, <1>2, <2>4, <2>5, <2>6 DEF Tickets
<1>5. CASE ~ Opens(t)
  <2>1. opened' = opened /\ (stored' = stored \/ stored' = [stored EXCEPT ![t] = 0])
    BY <1>5 DEF OpenSocket, Redeemed
  <2>2. /\ stored' \in [1 .. issued -> A]
        /\ \A x \in 1 .. issued : stored'[x] = stored[x] \/ stored'[x] = 0
    BY <1>1, <1>3, <2>1
  <2> QED
    BY <1>1, <1>2, <2>1, <2>2 DEF Tickets
<1> QED
  BY <1>4, <1>5

LEMMA StepTickets ==
  ASSUME LimiterConstants, Tables, Limits, Tickets, [Next]_vars
  PROVE  Tickets'
<1>1. CASE Outage
  <2>1. stored' = [t \in 1 .. issued |-> 0] /\ issued' = issued /\ opened' = opened
    BY <1>1 DEF Outage
  <2>2. 0 \in 0 .. MaxNow + TicketLife
    BY DEF LimiterConstants, TicketLife
  <2> QED
    BY <2>1, <2>2 DEF Tickets
<1>2. CASE \E s \in Slot : IssueTicket(s)
  BY <1>2, IssueTickets
<1>3. CASE \E k \in Socket : \E t \in Ticket : OpenSocket(k, t)
  BY <1>3, OpenTickets
<1>4. CASE \/ LimiterStep /\ UNCHANGED socketVars
           \/ Moves \/ Erased \/ UNCHANGED vars
           \/ \E s \in Slot : Handled(s)
           \/ \E k \in Socket : Frame(k) \/ EndsUntold(k) \/ Leaves(k)
  <2>1. UNCHANGED << stored, issued, opened >>
    BY <1>4 DEF socketVars, vars, Moves, Erased, Handled, Frame, EndsUntold, Leaves
  <2> QED
    BY <2>1 DEF Tickets
<1> QED
  BY <1>1, <1>2, <1>3, <1>4 DEF Next

LEMMA StepSockets ==
  ASSUME SocketConstants, Sockets, [Next]_vars
  PROVE  Sockets'
<1> DEFINE State == [step : {"new", "refused", "watching", "ended", "left"},
                     sent : Committed \cup {Unsent}]
<1>1. /\ socket \in [Socket -> State] /\ status \in Committed \cup {Gone}
      /\ moves \in 0 .. MaxMoves
  BY DEF Sockets
<1>2. CASE Moves
  <2>1. moves' = moves + 1 /\ moves < MaxMoves /\ status' \in Committed /\ socket' = socket
    BY <1>2 DEF Moves
  <2>2. moves' \in 0 .. MaxMoves
    BY <1>1, <2>1 DEF SocketConstants
  <2> QED
    BY <1>1, <2>1, <2>2 DEF Sockets
<1>3. CASE \E k \in Socket : Frame(k) \/ EndsUntold(k) \/ Leaves(k)
                            \/ \E t \in Ticket : OpenSocket(k, t)
  <2>1. PICK k \in Socket : Frame(k) \/ EndsUntold(k) \/ Leaves(k)
                              \/ \E t \in Ticket : OpenSocket(k, t)
    BY <1>3
  <2>2. PICK old \in State : old = socket[k]
    BY <1>1
  <2>3. PICK w \in State : socket' = [socket EXCEPT ![k] = w]
    <3>1. CASE Frame(k)
      <4>1. PICK st \in {"ended", "watching"} :
              socket' = [socket EXCEPT ![k] = [step |-> st, sent |-> status]]
        BY <3>1 DEF Frame
      <4>2. status \in Committed
        BY <1>1, <3>1 DEF Frame
      <4>3. [step |-> st, sent |-> status] \in State
        BY <4>2
      <4> QED
        BY <4>1, <4>3
    <3>2. CASE Leaves(k)
      <4>1. [step |-> "left", sent |-> Unsent] \in State
        OBVIOUS
      <4> QED
        BY <3>2, <4>1 DEF Leaves
    <3>3. CASE \E t \in Ticket : OpenSocket(k, t)
      <4>1. PICK st \in {"watching", "refused"} :
              socket' = [socket EXCEPT ![k] = [step |-> st, sent |-> Unsent]]
        BY <3>3 DEF OpenSocket
      <4>2. [step |-> st, sent |-> Unsent] \in State
        OBVIOUS
      <4> QED
        BY <4>1, <4>2
    <3>4. CASE EndsUntold(k)
      <4>1. socket' = [socket EXCEPT ![k].step = "ended"]
        BY <3>4 DEF EndsUntold
      <4>2. PICK w : w = [old EXCEPT !.step = "ended"]
        OBVIOUS
      <4>3. w \in State
        BY <4>2
      <4> QED
        BY <2>2, <4>1, <4>2, <4>3
    <3> QED
      BY <2>1, <3>1, <3>2, <3>3, <3>4
  <2>4. socket' \in [Socket -> State]
    <3> HIDE DEF State
    <3> QED
      BY <1>1, <2>3
  <2>5. UNCHANGED << status, moves >>
    BY <2>1 DEF Frame, EndsUntold, Leaves, OpenSocket
  <2> QED
    BY <1>1, <2>4, <2>5 DEF Sockets
<1>4. CASE Erased
  <2>1. status' = Gone /\ moves' = moves /\ socket' = socket
    BY <1>4 DEF Erased
  <2> QED
    BY <1>1, <2>1 DEF Sockets
<1>5. CASE \/ LimiterStep /\ UNCHANGED socketVars
           \/ Outage \/ UNCHANGED vars
           \/ \E s \in Slot : IssueTicket(s) \/ Handled(s)
  <2>1. UNCHANGED << status, moves, socket >>
    BY <1>5 DEF socketVars, vars, Outage, IssueTicket, Handled
  <2> QED
    BY <2>1 DEF Sockets
<1> QED
  BY <1>2, <1>3, <1>4, <1>5 DEF Next

LEMMA InitTypes ==
  ASSUME LimiterConstants, SocketConstants, Init
  PROVE  Limits /\ Tickets /\ Sockets
<1>1. /\ now = 0 /\ up = TRUE /\ faults = 0 /\ arrived = 0 /\ issued = 0
      /\ counter = [k \in Key |-> [count |-> 0, until |-> 0]]
      /\ breaker = [r \in Replica |-> [failures |-> 0, skip |-> 0]]
      /\ request = [s \in Slot |-> NoHandling] /\ log = [k \in Key |-> << >>]
      /\ status = First /\ moves = 0 /\ stored = << >>
      /\ socket = [k \in Socket |-> [step |-> "new", sent |-> Unsent]]
      /\ opened = [t \in Ticket |-> 0]
  BY DEF Init, InitLimiter
<1>2. NoHandling \in Requested /\ NoHandling.step = "idle"
  BY DEF Requested, NoHandling
<1>3. Pending = {} /\ Busy = {}
  BY <1>1, <1>2 DEF Pending, Busy, In, Waiting
<1>4. IsFiniteSet({}) /\ Cardinality({}) = 0
  BY FS_EmptySet
<1>5. Places
  BY <1>1, <1>2 DEF Places, LimiterConstants
<1>6. Times
  BY <1>1, <1>3 DEF Times, LimiterConstants
<1>7. Shares
  BY <1>1, <1>3, <1>4 DEF Shares
<1>8. Tickets
  <2>1. 1 .. 0 = {} /\ << >> \in [{} -> 0 .. MaxNow + TicketLife]
    OBVIOUS
  <2> QED
    BY <1>1, <2>1 DEF Tickets
<1>9. Sockets
  BY <1>1 DEF Sockets, SocketConstants
<1> QED
  BY <1>5, <1>6, <1>7, <1>8, <1>9 DEF Limits

LEMMA TypesHold ==
  ASSUME LimiterConstants, Inv, Limits, Tickets, Sockets
  PROVE  TypeOK
<1>1. /\ IsFiniteSet(Busy) /\ Cardinality(Busy) \in Nat /\ Cardinality(Pending) \in Nat
  BY Counted DEF Limits
<1>2. /\ now \in 0 .. MaxNow /\ now \in Nat /\ arrived \in 0 .. MaxRequests
      /\ {MaxRequests, MaxNow, Window, Cooldown} \subseteq Nat /\ issued \in Nat
  BY DEF Inv, Limits, Places, Tables, LimiterConstants
<1>3. ASSUME NEW k \in Key
      PROVE  counter[k] \in [count : Nat, until : 0 .. now + Window]
  <2>1. /\ counter[k] \in [count : Nat, until : Nat]
        /\ counter[k].until <= now + Window
    BY DEF Inv, Tables, Limits, Times
  <2>2. counter[k].until \in 0 .. now + Window
    BY <1>2, <2>1
  <2> QED
    BY <2>1, <2>2
<1>4. ASSUME NEW r \in Replica
      PROVE  breaker[r] \in [failures : 0 .. MaxRequests, skip : 0 .. now + Cooldown]
  <2>1. /\ breaker[r] \in [failures : Nat, skip : Nat]
        /\ breaker[r].skip <= now + Cooldown
        /\ breaker[r].failures + Cardinality(Pending) <= arrived
    BY DEF Limits, Places, Times, Shares
  <2>2. breaker[r].failures \in 0 .. MaxRequests /\ breaker[r].skip \in 0 .. now + Cooldown
    BY <1>1, <1>2, <2>1
  <2> QED
    BY <2>1, <2>2
<1>5. ASSUME NEW k \in Key
      PROVE  log[k] \in Seq([at : 0 .. now, ok : BOOLEAN])
  <2>1. log[k] \in Hits
    BY DEF Inv, Tables
  <2>2. \A i \in DOMAIN log[k] : log[k][i] \in [at : 0 .. now, ok : BOOLEAN]
    <3> SUFFICES ASSUME NEW i \in DOMAIN log[k]
                 PROVE  log[k][i] \in [at : 0 .. now, ok : BOOLEAN]
      OBVIOUS
    <3>1. log[k][i].at \in Nat /\ log[k][i].at <= now
      BY <2>1, HitType DEF Inv, Ordered
    <3>2. log[k][i] \in [at : Nat, ok : BOOLEAN]
      BY <2>1, HitType
    <3>3. log[k][i].at \in 0 .. now
      BY <1>2, <3>1
    <3> QED
      BY <3>2, <3>3
  <2> QED
    BY <2>1, <2>2, Sequence DEF Hits
<1>6. /\ counter \in [Key -> [count : Nat, until : 0 .. now + Window]]
      /\ breaker \in [Replica -> [failures : 0 .. MaxRequests, skip : 0 .. now + Cooldown]]
  BY <1>3, <1>4 DEF Inv, Tables, Limits, Places
<1>7. LimiterTypeOK
  BY <1>5, <1>6 DEF LimiterTypeOK, Inv, Tables, Limits, Places, Requested
<1>8. issued \in {0} \cup Ticket
  <2>1. issued + Cardinality(Busy) <= arrived
    BY DEF Limits, Shares
  <2>2. issued <= MaxRequests
    BY <1>1, <1>2, <2>1
  <2> QED
    BY <1>2, <2>2 DEF Ticket
<1>9. DOMAIN stored = 1 .. issued /\ \A t \in DOMAIN stored : stored[t] \in 0 .. MaxNow + TicketLife
  BY DEF Tickets
<1> QED
  BY <1>7, <1>8, <1>9 DEF TypeOK, Tickets, Sockets

\* Whatever the limits, the replicas and the requests at once, whatever is
\* lost with the store and whoever presents it: a ticket opens one socket, no
\* breaker counts more failures, and no store more tickets, than there were
\* requests, and what sockets are shown is a state the meeting can be seen in.
THEOREM Types == Spec => []TypeOK
<1>1. Init => Inv /\ Limits /\ Tickets /\ Sockets
  BY InitInv, InitTypes, LimiterConstants, SocketConstants
<1>2. Inv /\ Limits /\ Tickets /\ Sockets /\ [Next]_vars
        => Inv' /\ Limits' /\ Tickets' /\ Sockets'
  BY StepInv, StepLimits, StepTickets, StepSockets, LimiterConstants, SocketConstants DEF Inv
<1>3. Inv /\ Limits /\ Tickets /\ Sockets => TypeOK
  BY TypesHold, LimiterConstants
<1> QED
  BY <1>1, <1>2, <1>3, PTL DEF Spec
=============================================================================
