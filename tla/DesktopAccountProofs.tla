------------------------- MODULE DesktopAccountProofs -------------------------
(***************************************************************************)
(* Theorems about Accounts and DesktopAccount for every number of          *)
(* accounts, slots, tokens, links and faults: what ends a session reaches  *)
(* its tokens, a token and a link are used once, and a linked machine      *)
(* stays linked.                                                           *)
(*                                                                         *)
(* A request writes what it decided when it read, so the invariant of the  *)
(* server is about the requests still open.  Each knows whether another    *)
(* commit was there first (Aware), and each that ends sessions has named   *)
(* every token that still works, but for those minted since by requests    *)
(* that overlapped it (Warned).  The invariant of the machine says where   *)
(* its one working token is: on disk while the lock is free; else spent by *)
(* a request under way, or in the answer nobody but its thread has.        *)
(***************************************************************************)
EXTENDS DesktopAccount, FiniteSetTheorems, WellFoundedInduction, TLAPS

-----------------------------------------------------------------------------
(* What an open request holds, and what it will write.                     *)

Minting == {s \in Slot : Busy(s) /\ tx[s].issue}
Sending == {s \in Slot : Busy(s) /\ tx[s].send # "none"}
Mailed == {l \in Link : link[l].kind # "none"}

\* There is a row left for what every open request will insert.
Room ==
  /\ Cardinality(Issued) + Cardinality(Minting) <= MaxTokens
  /\ Cardinality(Mailed) + Cardinality(Sending) <= MaxLinks

Formed(w) ==
  /\ w.issue <=> w.op \in {"register", "authenticate", "refresh"}
  /\ w.spend # 0 <=> w.op = "refresh"
  /\ w.kill # {} => Ends(w)

Grounded(w) ==
  /\ w.spend # 0 => w.spend \in Issued /\ token[w.spend].who = w.who
  /\ \A t \in w.kill : t \in Issued /\ token[t].who = w.who
  /\ w.redeem # 0 => link[w.redeem].kind # "none"
  /\ w.op \in {"revoke", "authenticate"} => Account(w.who)

\* Used up since the request read it: the request has been beaten to it.
Aware(w) ==
  /\ w.spend # 0 /\ token[w.spend].spent # 0 => w.beaten
  /\ w.redeem # 0 /\ link[w.redeem].spent # 0 => w.beaten

\* The session is over, and a token of it that is spared belongs to a request
\* that overlapped its end.
Gone(t) == token[t].family \in ended \/ user[token[t].who].revoked
Out(w, t) == t \in w.kill \/ token[t].revoked \/ token[t].late

Warned(w) ==
  /\ w.spend # 0 /\ Gone(w.spend) => w.met \/ token[w.spend].late
  /\ w.op = "authenticate" /\ user[w.who].revoked => w.met
  /\ w.op = "end" =>
       \A t \in w.kill, u \in Issued : token[u].family = token[t].family => Out(w, u)
  /\ w.op \in {"revoke", "confirm_reset"} =>
       \A u \in Issued : token[u].who = w.who => Out(w, u)

Open(w) == Formed(w) /\ Grounded(w) /\ Aware(w) /\ Warned(w)
Requests == \A s \in Slot : Busy(s) => Open(tx[s])

Families ==
  \A t \in Issued :
    /\ token[t].family \in Issued
    /\ \A u \in Issued : token[u].family = token[t].family => token[u].who = token[t].who

NoGhosts == \A a \in Address : ~ Account(a) => ~ user[a].revoked

AccountsInv ==
  /\ TypeOK /\ Room /\ Requests
  /\ ended \subseteq Issued /\ Families /\ NoGhosts
  /\ SpentOnce /\ RevocationReaches

-----------------------------------------------------------------------------
(* Rows left, and the first of them.                                       *)

\* What FirstFree picks is one of the free rows.
LEMMA FirstFreeIsFree ==
  ASSUME NEW S \in SUBSET Nat, S # {}
  PROVE  FirstFree(S) \in S
<1>1. PICK n \in S : \A k \in S : <<k, n>> \notin OpToRel(<, Nat)
  BY NatLessThanWellFounded, WFMin
<1>2. \A k \in S : ~ (k < n)
  BY <1>1 DEF OpToRel
<1>3. \A k \in S : n <= k
  BY <1>2
<1> QED
  BY <1>3 DEF FirstFree

\* Rows and slots are finite, and as many as their bounds say.
LEMMA FiniteThings ==
  /\ IsFiniteSet(Token) /\ Cardinality(Token) = MaxTokens
  /\ IsFiniteSet(Link) /\ Cardinality(Link) = MaxLinks
  /\ IsFiniteSet(Slot)
<1>1. MaxTokens \in Nat /\ MaxLinks \in Nat /\ IsFiniteSet(Slot)
  BY AccountsAssumption
<1>2. \A n \in Nat : IsFiniteSet(1 .. n) /\ Cardinality(1 .. n) = n
  <2> TAKE n \in Nat
  <2>1. IsFiniteSet(1 .. n) /\ Cardinality(1 .. n) = IF 1 > n THEN 0 ELSE n - 1 + 1
    BY FS_Interval
  <2>2. CASE n = 0
    BY <2>1, <2>2
  <2>3. CASE n # 0
    BY <2>1, <2>3
  <2> QED
    BY <2>2, <2>3
<1> QED
  BY <1>1, <1>2 DEF Token, Link

\* A set with room in it is not the whole interval.
LEMMA RoomLeft ==
  ASSUME NEW N, IsFiniteSet(N), NEW S \in SUBSET N, NEW P \in SUBSET Slot, NEW s \in P,
         Cardinality(S) + Cardinality(P) <= Cardinality(N)
  PROVE  N \ S # {}
<1>1. IsFiniteSet(P) /\ IsFiniteSet(S)
  BY FiniteThings, FS_Subset
<1>2. Cardinality(P) \in Nat /\ Cardinality(S) \in Nat /\ Cardinality(N) \in Nat
  BY <1>1, FS_CardinalityType
<1>3. Cardinality(P) # 0
  BY <1>1, FS_EmptySet
<1>4. ASSUME N \ S = {} PROVE FALSE
  <2>1. S = N
    BY <1>4
  <2> QED
    BY <1>2, <1>3, <2>1
<1> QED
  BY <1>4

\* A commit that mints finds a row nobody has.
LEMMA NewTokenIsFree ==
  ASSUME TypeOK, Room, NEW s \in Slot, Busy(s), tx[s].issue
  PROVE  NewToken \in Token \ Issued
<1>1. Issued \in SUBSET Token /\ Minting \in SUBSET Slot /\ s \in Minting
  BY DEF Issued, Minting
<1>2. Token \ Issued # {}
  BY <1>1, RoomLeft, FiniteThings DEF Room
<1>3. Token \ Issued \in SUBSET Nat
  BY DEF Token
<1> QED
  BY <1>2, <1>3, FirstFreeIsFree DEF NewToken

\* So does a commit that sends a link.
LEMMA NewLinkIsFree ==
  ASSUME TypeOK, Room, NEW s \in Slot, Busy(s), tx[s].send # "none"
  PROVE  NewLink \in Link \ Mailed
<1>1. Mailed \in SUBSET Link /\ Sending \in SUBSET Slot /\ s \in Sending
  BY DEF Mailed, Sending
<1>2. Link \ Mailed # {}
  BY <1>1, RoomLeft, FiniteThings DEF Room
<1>3. Link \ Mailed \in SUBSET Nat /\ Link \ Mailed = {l \in Link : link[l].kind = "none"}
  BY DEF Link, Mailed
<1> QED
  BY <1>2, <1>3, FirstFreeIsFree DEF NewLink

-----------------------------------------------------------------------------
(* Requests read: what joins the open requests is well formed.             *)

\* The write set of an open request is one.
LEMMA OpenIsTyped ==
  ASSUME TypeOK, NEW s \in Slot, Busy(s)
  PROVE  tx[s] \in Tx
  BY DEF TypeOK, Busy, Op, Answer, Idle

\* A request that writes w has read, and there is room for what w inserts.
Admitted(s, w) ==
  /\ tx[s] = Idle /\ w \in Tx /\ Open(w)
  /\ w.issue => MayIssue
  /\ w.send # "none" => MaySend
  /\ w.issue => ~ user[w.who].revoked
  /\ tx' = [tx EXCEPT ![s] = w]
  /\ asked < MaxRequests /\ asked' = asked + 1
  /\ UNCHANGED << user, token, link, faults, ended >>

Refusal(s) ==
  /\ tx[s] = Idle /\ s \in Client
  /\ tx' = [tx EXCEPT ![s] = [op |-> "answer", token |-> 0]]
  /\ asked < MaxRequests /\ asked' = asked + 1
  /\ UNCHANGED << user, token, link, faults, ended >>

\* A request that reads under the guards joins the open ones.
LEMMA ReadAdmits ==
  ASSUME NEW s \in Slot, NEW w \in Tx, Open(w), Read(s, w), w.issue => ~ user[w.who].revoked
  PROVE  Admitted(s, w)
  BY DEF Read, Asks, Admitted

\* Nothing is the identifier of nothing.
LEMMA ZeroInRange == 0 \in 0 .. MaxTokens /\ 0 \in 0 .. MaxLinks
  BY AccountsAssumption

\* A write that touches no token.
LEMMA PlainOpens ==
  ASSUME NEW w \in Tx, w.spend = 0, w.kill = {}, w.op # "refresh", ~ Ends(w),
         w.issue <=> w.op \in {"register", "authenticate"},
         w.redeem # 0 => link[w.redeem].kind # "none" /\ link[w.redeem].spent = 0,
         w.op = "authenticate" => Account(w.who) /\ ~ user[w.who].revoked
  PROVE  Open(w)
  BY DEF Open, Formed, Grounded, Aware, Warned, Ends

\* _revoke_family: it names every token of the login that still works.
LEMMA EndsOpen ==
  ASSUME AccountsInv, NEW s \in Slot, NEW t \in Issued, EndFamily(s, t)
  PROVE  \E w \in Tx : Admitted(s, w)
<1> DEFINE w == [Write("end", token[t].who) EXCEPT !.kill = FamilyOf(t)]
<1>1. token[t].who \in Address /\ FamilyOf(t) \in SUBSET Token
  BY DEF AccountsInv, TypeOK, RefreshToken, Issued, FamilyOf
<1>2. /\ w \in Tx /\ w.op = "end" /\ w.who = token[t].who /\ w.spend = 0 /\ w.kill = FamilyOf(t)
      /\ w.issue = FALSE /\ w.redeem = 0 /\ w.send = "none"
  BY <1>1, ZeroInRange DEF Write, Tx, Op
<1>3. Read(s, w)
  BY DEF EndFamily
<1> HIDE DEF w
<1>4. Formed(w) /\ Aware(w)
  BY <1>2 DEF Formed, Aware, Ends
<1>5. Grounded(w)
  <2>1. \A u \in FamilyOf(t) : u \in Issued /\ token[u].family = token[t].family
    BY DEF FamilyOf
  <2>2. \A u \in FamilyOf(t) : token[u].who = token[t].who
    BY <2>1 DEF AccountsInv, Families
  <2> QED
    BY <1>2, <2>1, <2>2 DEF Grounded
<1>6. Warned(w)
  <2>1. ASSUME NEW u \in FamilyOf(t), NEW v \in Issued, token[v].family = token[u].family
        PROVE  v \in FamilyOf(t) \/ token[v].revoked
    BY <2>1 DEF FamilyOf
  <2> QED
    BY <1>2, <2>1 DEF Warned, Out
<1> QED
  BY <1>2, <1>3, <1>4, <1>5, <1>6, ReadAdmits DEF Open

\* A revoked member, a new password: they name every token of the account.
LEMMA SessionsOpen ==
  ASSUME AccountsInv, NEW w \in Tx, w.op \in {"revoke", "confirm_reset"}, w.spend = 0,
         w.issue = FALSE, w.kill = SessionsOf(w.who),
         w.op = "revoke" => Account(w.who),
         w.redeem # 0 => link[w.redeem].kind # "none" /\ link[w.redeem].spent = 0
  PROVE  Open(w)
<1>1. Formed(w) /\ Aware(w)
  BY DEF Formed, Aware, Ends
<1>2. Grounded(w)
  BY DEF Grounded, SessionsOf
<1>3. Warned(w)
  BY DEF Warned, Out, SessionsOf
<1> QED
  BY <1>1, <1>2, <1>3 DEF Open

\* A rotation reads a token unspent, unrevoked, and of an account that is not
\* revoked: were its session over, the token would be late.
LEMMA RotateOpens ==
  ASSUME AccountsInv, NEW s \in Slot, NEW t \in Issued, Rotate(s, t),
         ~ Reused(t), ~ Rejected(t), ~ user[token[t].who].revoked
  PROVE  \E w \in Tx : /\ Admitted(s, w) /\ w.op = "refresh" /\ w.spend = t
                       /\ w.who = token[t].who
<1> DEFINE w == [Write("refresh", token[t].who) EXCEPT !.spend = t, !.issue = TRUE]
<1>1. token[t].who \in Address /\ t \in 0 .. MaxTokens /\ t # 0
  BY AccountsAssumption DEF AccountsInv, TypeOK, RefreshToken, Issued, Token
<1>2. /\ w \in Tx /\ w.op = "refresh" /\ w.who = token[t].who /\ w.spend = t /\ w.kill = {}
      /\ w.issue = TRUE /\ w.redeem = 0 /\ w.send = "none"
  BY <1>1, ZeroInRange DEF Write, Tx, Op
<1>3. Read(s, w)
  BY DEF Rotate
<1> HIDE DEF w
<1>4. Live(t)
  BY DEF Live, Reused, Rejected
<1>5. Gone(t) => token[t].late
  BY <1>4 DEF AccountsInv, RevocationReaches, Gone, Issued
<1>6. Open(w)
  BY <1>1, <1>2, <1>4, <1>5 DEF Open, Formed, Grounded, Aware, Warned, Live, Ends
<1> QED
  BY <1>2, <1>3, <1>6, ReadAdmits

\* Every request that reads is refused at once, or admitted with a sound write set.
LEMMA RequestAdmits ==
  ASSUME AccountsInv, NEW s \in Slot, Request(s)
  PROVE  Refusal(s) \/ \E w \in Tx : Admitted(s, w)
<1>1. ASSUME NEW a \in Address, Register(s, a) PROVE \E w \in Tx : Admitted(s, w)
  <2> DEFINE w == [Write("register", a) EXCEPT !.issue = TRUE, !.send = "verify"]
  <2>1. Read(s, w) /\ ~ user[a].revoked
    BY <1>1 DEF Register, AccountsInv, NoGhosts
  <2>2. /\ w \in Tx /\ w.op = "register" /\ w.who = a /\ w.spend = 0 /\ w.kill = {} /\ w.issue = TRUE
        /\ w.redeem = 0
    BY ZeroInRange DEF Write, Tx, Op
  <2> HIDE DEF w
  <2> QED
    BY <2>1, <2>2, PlainOpens, ReadAdmits DEF Ends
<1>2. ASSUME NEW a \in Address, Authenticate(s, a) PROVE \E w \in Tx : Admitted(s, w)
  <2> DEFINE w == [Write("authenticate", a) EXCEPT !.issue = TRUE]
  <2>1. Read(s, w) /\ Account(a) /\ ~ user[a].revoked
    BY <1>2 DEF Authenticate
  <2>2. /\ w \in Tx /\ w.op = "authenticate" /\ w.who = a /\ w.spend = 0 /\ w.kill = {}
        /\ w.issue = TRUE /\ w.redeem = 0
    BY ZeroInRange DEF Write, Tx, Op
  <2> HIDE DEF w
  <2> QED
    BY <2>1, <2>2, PlainOpens, ReadAdmits DEF Ends
<1>3. ASSUME NEW a \in Address, NEW op \in {"invite", "request_reset", "resend"},
             NEW kind \in {"invite", "reset", "verify"},
             Read(s, [Write(op, a) EXCEPT !.send = kind])
      PROVE \E w \in Tx : Admitted(s, w)
  <2> DEFINE w == [Write(op, a) EXCEPT !.send = kind]
  <2>1. Read(s, w)
    BY <1>3
  <2>2. /\ w \in Tx /\ w.op = op /\ w.spend = 0 /\ w.kill = {} /\ w.issue = FALSE /\ w.redeem = 0
    BY ZeroInRange DEF Write, Tx, Op
  <2> HIDE DEF w
  <2> QED
    BY <2>1, <2>2, PlainOpens, ReadAdmits DEF Ends
<1>4. ASSUME NEW op \in {"accept", "verify"}, NEW kind \in {"invite", "verify"}, NEW l \in Link,
             Opens(l, kind), Read(s, [Write(op, link[l].who) EXCEPT !.redeem = l])
      PROVE \E w \in Tx : Admitted(s, w)
  <2> DEFINE w == [Write(op, link[l].who) EXCEPT !.redeem = l]
  <2>1. Read(s, w)
    BY <1>4
  <2>2. link[l].who \in Address /\ l \in 0 .. MaxLinks
    BY AccountsAssumption DEF AccountsInv, TypeOK, LinkRow, Link
  <2>3. /\ w \in Tx /\ w.op = op /\ w.spend = 0 /\ w.kill = {} /\ w.issue = FALSE /\ w.redeem = l
    BY <2>2, ZeroInRange DEF Write, Tx, Op
  <2>4. link[l].kind # "none" /\ link[l].spent = 0
    BY <1>4 DEF Opens
  <2> HIDE DEF w
  <2> QED
    BY <2>1, <2>3, <2>4, PlainOpens, ReadAdmits DEF Ends
<1>5. ASSUME NEW a \in Address, RevokeMember(s, a) PROVE \E w \in Tx : Admitted(s, w)
  <2> DEFINE w == [Write("revoke", a) EXCEPT !.kill = SessionsOf(a)]
  <2>1. Read(s, w) /\ Account(a)
    BY <1>5 DEF RevokeMember, Account
  <2>2. SessionsOf(a) \in SUBSET Token
    BY DEF SessionsOf, Issued
  <2>3. /\ w \in Tx /\ w.op = "revoke" /\ w.who = a /\ w.spend = 0 /\ w.kill = SessionsOf(a)
        /\ w.issue = FALSE /\ w.redeem = 0
    BY <2>2, ZeroInRange DEF Write, Tx, Op
  <2> HIDE DEF w
  <2> QED
    BY <2>1, <2>3, SessionsOpen, ReadAdmits
<1>6. ASSUME NEW l \in Link, ConfirmReset(s, l) PROVE \E w \in Tx : Admitted(s, w)
  <2> DEFINE a == link[l].who
             w == [Write("confirm_reset", a) EXCEPT !.redeem = l, !.kill = SessionsOf(a)]
  <2>1. Read(s, w) /\ link[l].kind # "none" /\ link[l].spent = 0
    BY <1>6 DEF ConfirmReset, Opens
  <2>2. SessionsOf(a) \in SUBSET Token /\ a \in Address /\ l \in 0 .. MaxLinks
    BY AccountsAssumption DEF SessionsOf, Issued, AccountsInv, TypeOK, LinkRow, Link
  <2>3. /\ w \in Tx /\ w.op = "confirm_reset" /\ w.who = a /\ w.spend = 0
        /\ w.kill = SessionsOf(a) /\ w.issue = FALSE /\ w.redeem = l
    BY <2>2, ZeroInRange DEF Write, Tx, Op
  <2> HIDE DEF w, a
  <2> QED
    BY <2>1, <2>3, SessionsOpen, ReadAdmits
<1>7. ASSUME NEW t \in Token, Refresh(s, t) PROVE Refusal(s) \/ \E w \in Tx : Admitted(s, w)
  <2>1. t \in Issued
    BY <1>7 DEF Refresh
  <2>2. CASE EndFamily(s, t)
    BY <2>1, <2>2, EndsOpen
  <2>3. CASE Refuse(s)
    BY <2>3 DEF Refuse, Asks, Refusal
  <2>4. CASE ~ Reused(t) /\ ~ Rejected(t) /\ ~ user[token[t].who].revoked /\ Rotate(s, t)
    BY <2>1, <2>4, RotateOpens
  <2> QED
    BY <1>7, <2>2, <2>3, <2>4 DEF Refresh
<1>8. ASSUME NEW t \in Token, Logout(s, t) PROVE \E w \in Tx : Admitted(s, w)
  BY <1>8, EndsOpen DEF Logout
<1>9. ASSUME NEW a \in Address, Invite(s, a) \/ RequestReset(s, a) \/ Resend(s, a)
      PROVE \E w \in Tx : Admitted(s, w)
  BY <1>3, <1>9 DEF Invite, RequestReset, Resend
<1>10. ASSUME NEW l \in Link, AcceptInvitation(s, l) \/ Verify(s, l)
      PROVE \E w \in Tx : Admitted(s, w)
  BY <1>4, <1>10 DEF AcceptInvitation, Verify
<1> QED
  BY <1>1, <1>2, <1>5, <1>6, <1>7, <1>8, <1>9, <1>10 DEF Request

-----------------------------------------------------------------------------
(* Steps that leave the tables alone.                                      *)

Tables == << user, token, link, ended >>

\* A step that writes no table keeps what is said of the tables, and every open
\* request's reading of them.
LEMMA TablesStay ==
  ASSUME AccountsInv, UNCHANGED Tables
  PROVE  /\ Issued' = Issued /\ Mailed' = Mailed
         /\ ended' \subseteq Issued' /\ Families' /\ NoGhosts'
         /\ SpentOnce' /\ RevocationReaches'
         /\ \A w : Open(w) => Open(w)'
<1>1. user' = user /\ token' = token /\ link' = link /\ ended' = ended
  BY DEF Tables
<1>2. Issued' = Issued /\ Mailed' = Mailed
  BY <1>1 DEF Issued, Mailed
<1>3. ended' \subseteq Issued' /\ Families' /\ NoGhosts'
  BY <1>1, <1>2 DEF AccountsInv, Families, NoGhosts, Account
<1>4. SpentOnce' /\ RevocationReaches'
  BY <1>1, <1>2 DEF AccountsInv, SpentOnce, RevocationReaches, Live
<1>5. ASSUME NEW w, Open(w) PROVE Open(w)'
  <2>1. Formed(w)' /\ Grounded(w)' /\ Aware(w)'
    BY <1>1, <1>2, <1>5 DEF Open, Formed, Grounded, Aware, Account, Ends
  <2>2. Warned(w)'
    BY <1>1, <1>2, <1>5 DEF Open, Warned, Gone, Out
  <2> QED
    BY <2>1, <2>2 DEF Open
<1> QED
  BY <1>2, <1>3, <1>4, <1>5

\* An answer, and nothing, are no request.
LEMMA NotBusy == \A x \in Answer \cup {Idle} : x.op \notin Op
  BY DEF Answer, Idle, Op

\* A request that reads keeps the invariant, the room for its rows included.
LEMMA AdmittedKeeps ==
  ASSUME AccountsInv, NEW s \in Slot, NEW w, Admitted(s, w)
  PROVE  AccountsInv'
<1>1. UNCHANGED Tables
  BY DEF Admitted, Tables
<1>2. /\ w \in Tx /\ Open(w) /\ tx' = [tx EXCEPT ![s] = w] /\ ~ Busy(s)
  BY NotBusy DEF Admitted, Busy
<1>3. \A r \in Slot : tx'[r] = IF r = s THEN w ELSE tx[r]
  BY <1>2 DEF AccountsInv, TypeOK
<1>4. w.op \in Op
  BY <1>2 DEF Tx
<1>5. \A r \in Slot : Busy(r)' <=> (r = s \/ Busy(r))
  BY <1>3, <1>4 DEF Busy
<1>6. TypeOK'
  <2>1. tx' \in [Slot -> Tx \cup Answer \cup {Idle}]
    BY <1>2 DEF AccountsInv, TypeOK
  <2>2. asked' \in 0 .. MaxRequests
    BY AccountsAssumption DEF Admitted, AccountsInv, TypeOK
  <2> QED
    BY <2>1, <2>2 DEF Admitted, AccountsInv, TypeOK
<1>7. Requests'
  BY <1>1, <1>2, <1>3, <1>5, TablesStay DEF AccountsInv, Requests
<1>8. Room'
  <2>1. Issued' = Issued /\ Mailed' = Mailed
    BY <1>1, TablesStay
  <2>2. /\ Minting' = IF w.issue THEN Minting \cup {s} ELSE Minting
        /\ s \notin Minting
    BY <1>2, <1>3, <1>5 DEF Minting
  <2>3. /\ Sending' = IF w.send # "none" THEN Sending \cup {s} ELSE Sending
        /\ s \notin Sending
    BY <1>2, <1>3, <1>5 DEF Sending
  <2>4. IsFiniteSet(Minting) /\ IsFiniteSet(Sending) /\ IsFiniteSet(Issued) /\ IsFiniteSet(Mailed)
    BY FiniteThings, FS_Subset DEF Minting, Sending, Issued, Mailed
  <2>5. /\ Cardinality(Minting) \in Nat /\ Cardinality(Sending) \in Nat
        /\ Cardinality(Issued) \in Nat /\ Cardinality(Mailed) \in Nat
        /\ MaxTokens \in Nat /\ MaxLinks \in Nat
    BY <2>4, FS_CardinalityType, AccountsAssumption
  <2>6. /\ Cardinality(Minting \cup {s}) = Cardinality(Minting) + 1
        /\ Cardinality(Sending \cup {s}) = Cardinality(Sending) + 1
    BY <2>2, <2>3, <2>4, FS_AddElement
  <2>7. /\ w.issue => Cardinality(Issued) + Cardinality(Minting) < MaxTokens
        /\ w.send # "none" => Cardinality(Mailed) + Cardinality(Sending) < MaxLinks
    BY DEF Admitted, MayIssue, MaySend, Minting, Sending, Mailed
  <2>8. Cardinality(Issued') + Cardinality(Minting') <= MaxTokens
    BY <2>1, <2>2, <2>5, <2>6, <2>7 DEF AccountsInv, Room
  <2>9. Cardinality(Mailed') + Cardinality(Sending') <= MaxLinks
    BY <2>1, <2>3, <2>5, <2>6, <2>7 DEF AccountsInv, Room
  <2> QED
    BY <2>8, <2>9 DEF Room
<1> QED
  BY <1>1, <1>6, <1>7, <1>8, TablesStay DEF AccountsInv

\* A slot is answered, or its answer is taken, and nothing is written.
Freed(s, x) ==
  /\ x \in Answer \cup {Idle}
  /\ tx' = [tx EXCEPT ![s] = x]
  /\ asked' \in 0 .. MaxRequests /\ faults' \in 0 .. MaxFaults
  /\ UNCHANGED << user, token, link, ended >>

\* So does a slot that is answered, or whose answer is taken.
LEMMA FreedKeeps ==
  ASSUME AccountsInv, NEW s \in Slot, NEW x, Freed(s, x)
  PROVE  AccountsInv'
<1>1. UNCHANGED Tables
  BY DEF Freed, Tables
<1>2. \A r \in Slot : tx'[r] = IF r = s THEN x ELSE tx[r]
  BY DEF Freed, AccountsInv, TypeOK
<1>3. \A r \in Slot : Busy(r)' => r # s /\ Busy(r) /\ tx'[r] = tx[r]
  BY <1>2, NotBusy DEF Busy, Freed
<1>4. TypeOK'
  <2>1. tx' \in [Slot -> Tx \cup Answer \cup {Idle}]
    BY DEF Freed, AccountsInv, TypeOK
  <2> QED
    BY <2>1 DEF Freed, AccountsInv, TypeOK
<1>5. Requests'
  BY <1>1, <1>3, TablesStay DEF AccountsInv, Requests
<1>6. Room'
  <2>1. Issued' = Issued /\ Mailed' = Mailed
    BY <1>1, TablesStay
  <2>2. Minting' \subseteq Minting /\ Sending' \subseteq Sending
    BY <1>3 DEF Minting, Sending
  <2>3. IsFiniteSet(Minting) /\ IsFiniteSet(Sending) /\ IsFiniteSet(Issued) /\ IsFiniteSet(Mailed)
    BY FiniteThings, FS_Subset DEF Minting, Sending, Issued, Mailed
  <2>4. /\ IsFiniteSet(Minting') /\ Cardinality(Minting') <= Cardinality(Minting)
        /\ IsFiniteSet(Sending') /\ Cardinality(Sending') <= Cardinality(Sending)
    BY <2>2, <2>3, FS_Subset
  <2>5. /\ Cardinality(Minting) \in Nat /\ Cardinality(Sending) \in Nat
        /\ Cardinality(Minting') \in Nat /\ Cardinality(Sending') \in Nat
        /\ Cardinality(Issued) \in Nat /\ Cardinality(Mailed) \in Nat
        /\ MaxTokens \in Nat /\ MaxLinks \in Nat
    BY <2>3, <2>4, FS_CardinalityType, AccountsAssumption
  <2>6. Cardinality(Issued') + Cardinality(Minting') <= MaxTokens
    BY <2>1, <2>4, <2>5 DEF AccountsInv, Room
  <2>7. Cardinality(Mailed') + Cardinality(Sending') <= MaxLinks
    BY <2>1, <2>4, <2>5 DEF AccountsInv, Room
  <2> QED
    BY <2>6, <2>7 DEF Room
<1> QED
  BY <1>1, <1>4, <1>5, <1>6, TablesStay DEF AccountsInv

\* So does a step that leaves the server alone.
LEMMA ServerStays ==
  ASSUME AccountsInv, UNCHANGED server
  PROVE  AccountsInv'
<1>1. UNCHANGED Tables /\ tx' = tx /\ asked' = asked /\ faults' = faults
  BY DEF server, Tables
<1>2. TypeOK'
  BY <1>1 DEF AccountsInv, TypeOK, Tables
<1>3. Requests'
  BY <1>1, TablesStay DEF AccountsInv, Requests, Busy
<1>4. Minting' = Minting /\ Sending' = Sending /\ Issued' = Issued /\ Mailed' = Mailed
  BY <1>1, TablesStay DEF Minting, Sending, Busy
<1> QED
  BY <1>1, <1>2, <1>3, <1>4, TablesStay DEF AccountsInv, Room

-----------------------------------------------------------------------------
(* A commit, table by table.                                               *)

\* What is known of a request when it commits: what it spends, kills and opens
\* exists, and what it mints and sends does not yet.
LEMMA CommitReads ==
  ASSUME AccountsInv, NEW s \in Slot, Busy(s)
  PROVE  /\ tx[s] \in Tx /\ Formed(tx[s]) /\ Grounded(tx[s]) /\ Aware(tx[s]) /\ Warned(tx[s])
         /\ tx[s].issue => NewToken \in Token \ Issued
         /\ tx[s].send # "none" => NewLink \in Link \ Mailed
         /\ tx[s].spend # 0 => tx[s].spend \in Issued
         /\ tx[s].kill \subseteq Issued
         /\ tx[s].redeem # 0 => tx[s].redeem \in Mailed
         /\ ~ (tx[s].spend # 0 /\ tx[s].kill # {})
         /\ tx[s].issue => ~ Ends(tx[s])
<1>1. tx[s] \in Tx
  BY OpenIsTyped DEF AccountsInv
<1>2. Formed(tx[s]) /\ Grounded(tx[s]) /\ Aware(tx[s]) /\ Warned(tx[s])
  BY DEF AccountsInv, Requests, Open
<1>3. tx[s].issue => NewToken \in Token \ Issued
  BY NewTokenIsFree DEF AccountsInv
<1>4. tx[s].send # "none" => NewLink \in Link \ Mailed
  BY NewLinkIsFree DEF AccountsInv
<1>5. /\ tx[s].spend # 0 => tx[s].spend \in Issued
      /\ tx[s].kill \subseteq Issued
  BY <1>2 DEF Grounded
<1>6. tx[s].redeem # 0 => tx[s].redeem \in Mailed
  <2>1. tx[s].redeem # 0 => tx[s].redeem \in Link
    BY <1>1, AccountsAssumption DEF Tx, Link
  <2> QED
    BY <1>2, <2>1 DEF Grounded, Mailed
<1>7. /\ ~ (tx[s].spend # 0 /\ tx[s].kill # {})
      /\ tx[s].issue => ~ Ends(tx[s])
  BY <1>2 DEF Formed, Ends
<1> QED
  BY <1>1, <1>2, <1>3, <1>4, <1>5, <1>6, <1>7

\* What a commit never takes from a token that was issued.
Carries(t) ==
  /\ token'[t].who = token[t].who /\ token'[t].family = token[t].family
  /\ token'[t].late = token[t].late
  /\ token[t].revoked => token'[t].revoked

\* Using a token up changes nothing else of it.
LEMMA SpentToken ==
  ASSUME NEW x \in RefreshToken, NEW b \in BOOLEAN
  PROVE  /\ Spent(x, b) \in RefreshToken
         /\ Spent(x, b).spent = IF x.spent = 2 THEN 2 ELSE x.spent + 1
         /\ Spent(x, b).raced = (x.raced \/ b)
         /\ Spent(x, b).who = x.who /\ Spent(x, b).family = x.family
         /\ Spent(x, b).late = x.late /\ Spent(x, b).revoked = x.revoked
<1> DEFINE n == IF x.spent = 2 THEN 2 ELSE x.spent + 1
           r == x.raced \/ b
<1>1. n \in 0 .. 2 /\ r \in BOOLEAN
  BY DEF RefreshToken
<1>2. Spent(x, b) = [[x EXCEPT !.spent = n] EXCEPT !.raced = r]
  BY DEF Spent
<1> HIDE DEF n, r
<1>3. PICK y : y = [[x EXCEPT !.spent = n] EXCEPT !.raced = r]
  OBVIOUS
<1>4. /\ y \in RefreshToken /\ y.spent = n /\ y.raced = r
      /\ y.who = x.who /\ y.family = x.family /\ y.late = x.late /\ y.revoked = x.revoked
  BY <1>1, <1>3 DEF RefreshToken
<1>5. Spent(x, b) = y
  BY <1>2, <1>3
<1> QED
  BY <1>4, <1>5 DEF n, r

\* Using a link up changes nothing else of it.
LEMMA SpentLink ==
  ASSUME NEW x \in LinkRow, NEW b \in BOOLEAN
  PROVE  /\ Spent(x, b) \in LinkRow
         /\ Spent(x, b).spent = IF x.spent = 2 THEN 2 ELSE x.spent + 1
         /\ Spent(x, b).raced = (x.raced \/ b)
         /\ Spent(x, b).who = x.who /\ Spent(x, b).kind = x.kind
<1> DEFINE n == IF x.spent = 2 THEN 2 ELSE x.spent + 1
           r == x.raced \/ b
<1>1. n \in 0 .. 2 /\ r \in BOOLEAN
  BY DEF LinkRow
<1>2. Spent(x, b) = [[x EXCEPT !.spent = n] EXCEPT !.raced = r]
  BY DEF Spent
<1> HIDE DEF n, r
<1>3. PICK y : y = [[x EXCEPT !.spent = n] EXCEPT !.raced = r]
  OBVIOUS
<1>4. /\ y \in LinkRow /\ y.spent = n /\ y.raced = r
      /\ y.who = x.who /\ y.kind = x.kind
  BY <1>1, <1>3 DEF LinkRow
<1>5. Spent(x, b) = y
  BY <1>2, <1>3
<1> QED
  BY <1>4, <1>5 DEF n, r

\* Revoking a token changes nothing else of it.
LEMMA RevokedRow ==
  ASSUME NEW x \in RefreshToken
  PROVE  LET y == [x EXCEPT !.revoked = TRUE]
         IN  /\ y \in RefreshToken /\ y.revoked
             /\ y.who = x.who /\ y.family = x.family /\ y.late = x.late
             /\ y.spent = x.spent /\ y.raced = x.raced
  BY DEF RefreshToken

\* What a minted token is: of the request's account, of the login of the token it
\* replaces, and late if the request was overlapped or its parent is late.
LEMMA MintedRow ==
  ASSUME AccountsInv, NEW s \in Slot, Busy(s), tx[s].issue
  PROVE  /\ Minted(s) \in RefreshToken /\ Minted(s).who = tx[s].who
         /\ Minted(s).family = IF tx[s].spend = 0 THEN NewToken ELSE token[tx[s].spend].family
         /\ Minted(s).late = (Overlapped(s) \/ (tx[s].spend # 0 /\ token[tx[s].spend].late))
         /\ Minted(s).spent = 0 /\ Minted(s).revoked = FALSE /\ Minted(s).old = FALSE
<1> DEFINE w == tx[s]
           f == IF w.spend = 0 THEN NewToken ELSE token[w.spend].family
           n == Overlapped(s) \/ (w.spend # 0 /\ token[w.spend].late)
<1>1. w \in Tx /\ NewToken \in Token /\ (w.spend # 0 => w.spend \in Token)
  BY CommitReads DEF Issued
<1>2. f \in 0 .. MaxTokens
  BY <1>1 DEF AccountsInv, TypeOK, RefreshToken, Token
<1>3. n \in BOOLEAN
  <2>1. Overlapped(s) \in BOOLEAN
    BY <1>1 DEF Overlapped, Tx
  <2>2. w.spend # 0 => token[w.spend].late \in BOOLEAN
    BY <1>1 DEF AccountsInv, TypeOK, RefreshToken
  <2> QED
    BY <2>1, <2>2
<1>3a. Minted(s) = [NoToken EXCEPT !.who = w.who, !.family = f, !.late = n]
  BY DEF Minted
<1>5. w.who \in Address
  BY <1>1 DEF Tx
<1> HIDE DEF w, f, n
<1>4. Minted(s) = [ who |-> w.who, family |-> f, spent |-> 0, raced |-> FALSE,
                    revoked |-> FALSE, old |-> FALSE, late |-> n ]
  BY <1>3a DEF NoToken
<1>6. Minted(s) \in RefreshToken
  BY <1>2, <1>3, <1>4, <1>5 DEF RefreshToken
<1>7. /\ Minted(s).who = w.who /\ Minted(s).family = f /\ Minted(s).late = n
      /\ Minted(s).spent = 0 /\ Minted(s).revoked = FALSE /\ Minted(s).old = FALSE
  BY <1>4
<1> QED
  BY <1>6, <1>7 DEF w, f, n

\* What a commit does to refresh_tokens.
LEMMA CommitTokens ==
  ASSUME AccountsInv, NEW s \in Slot, Commit(s)
  PROVE  /\ token' \in [Token -> RefreshToken]
         /\ Issued' = IF tx[s].issue THEN Issued \cup {NewToken} ELSE Issued
         /\ \A t \in Issued : t # tx[s].spend /\ t \notin tx[s].kill => token'[t] = token[t]
         /\ \A t \in Issued : /\ Carries(t)
                              /\ t \in tx[s].kill => token'[t].revoked
                              /\ t # tx[s].spend => token'[t].spent = token[t].spent
                              /\ t = tx[s].spend => token'[t].spent # 0
         /\ tx[s].issue => token'[NewToken] = Minted(s)
         /\ \A t \in Token : token'[t].spent = 2 => token'[t].raced
<1> DEFINE w == tx[s]
<1>1. /\ w \in Tx /\ (w.issue => NewToken \in Token \ Issued)
      /\ (w.spend # 0 => w.spend \in Issued)
      /\ w.kill \subseteq Issued /\ ~ (w.spend # 0 /\ w.kill # {})
  BY CommitReads DEF Commit
<1>2. \A t \in Token : token'[t] = TokenAfter(s, t)
  BY DEF Commit
<1>3. Issued \subseteq Token /\ 0 \notin Token /\ (\A t \in Token : token[t] \in RefreshToken)
  BY DEF Issued, Token, AccountsInv, TypeOK
<1>4. w.beaten \in BOOLEAN /\ w.spend \in 0 .. MaxTokens /\ w.issue \in BOOLEAN
  BY <1>1 DEF Tx
<1>5. w.issue => token'[NewToken] = Minted(s)
  <2> SUFFICES ASSUME w.issue PROVE token'[NewToken] = Minted(s)
    OBVIOUS
  <2>1. NewToken \in Token /\ NewToken # w.spend /\ NewToken \notin w.kill
    BY <1>1, <1>3
  <2> QED
    BY <1>2, <2>1, Zenon DEF TokenAfter
<1>6. \A t \in Token : t = w.spend => token'[t] = Spent(token[t], w.beaten)
  BY <1>1, <1>2, <1>3 DEF TokenAfter
<1>7. \A t \in w.kill : token'[t] = [token[t] EXCEPT !.revoked = TRUE]
  <2> TAKE t \in w.kill
  <2>1. t \in Token /\ ~ (w.issue /\ t = NewToken) /\ t # w.spend
    BY <1>1, <1>3
  <2> QED
    BY <1>2, <2>1 DEF TokenAfter
<1>8. \A t \in Token : t # w.spend /\ t \notin w.kill /\ (w.issue => t # NewToken)
        => token'[t] = token[t]
  BY <1>1, <1>2 DEF TokenAfter
<1>9. ASSUME NEW t \in Token, t = w.spend
      PROVE  /\ token'[t] \in RefreshToken /\ Carries(t) /\ token'[t].spent # 0
             /\ token'[t].spent = 2 => token'[t].raced
  <2>1. token[t] \in RefreshToken /\ t \in Issued
    BY <1>1, <1>3, <1>9
  <2>2. token'[t] = Spent(token[t], w.beaten)
    BY <1>6, <1>9
  <2>3. token[t].spent \in 0 .. 2 /\ token[t].raced \in BOOLEAN
    BY <2>1 DEF RefreshToken
  <2>4. /\ token'[t] \in RefreshToken
        /\ token'[t].spent = IF token[t].spent = 2 THEN 2 ELSE token[t].spent + 1
        /\ token'[t].raced = (token[t].raced \/ w.beaten)
    BY <1>4, <2>1, <2>2, SpentToken
  <2>5. Carries(t)
    BY <1>4, <2>1, <2>2, SpentToken DEF Carries
  <2>6. token[t].spent = 2 => token[t].raced
    BY DEF AccountsInv, SpentOnce
  <2>7. token[t].spent # 0 => w.beaten
    <3>1. Aware(w) /\ w.spend # 0
      BY <1>3, <1>9, CommitReads DEF Commit
    <3> QED
      BY <1>9, <3>1 DEF Aware
  <2> QED
    BY <1>4, <2>3, <2>4, <2>5, <2>6, <2>7
<1>10. ASSUME NEW t \in w.kill
       PROVE  /\ token'[t] \in RefreshToken /\ Carries(t) /\ token'[t].revoked
              /\ token'[t].spent = token[t].spent /\ token'[t].raced = token[t].raced
  <2>1. token[t] \in RefreshToken
    BY <1>1, <1>3
  <2> QED
    BY <1>7, <2>1, RevokedRow DEF Carries
<1>11. w.issue => /\ token'[NewToken] \in RefreshToken /\ token'[NewToken].family # 0
                  /\ token'[NewToken].spent = 0
  <2> SUFFICES ASSUME w.issue PROVE /\ token'[NewToken] \in RefreshToken
                                    /\ token'[NewToken].family # 0 /\ token'[NewToken].spent = 0
    OBVIOUS
  <2>1. Busy(s)
    BY DEF Commit
  <2>2. /\ Minted(s) \in RefreshToken /\ Minted(s).spent = 0
        /\ Minted(s).family = IF w.spend = 0 THEN NewToken ELSE token[w.spend].family
    BY <2>1, MintedRow
  <2>3. Minted(s).family # 0
    BY <1>1, <1>3, <2>2 DEF Issued
  <2> QED
    BY <1>5, <2>2, <2>3
<1>12. \A t \in Token : token'[t] \in RefreshToken
  BY <1>3, <1>8, <1>9, <1>10, <1>11
<1>13. token' \in [Token -> RefreshToken]
  BY <1>12 DEF Commit
<1>14. \A t \in Issued : /\ Carries(t)
                         /\ t \in w.kill => token'[t].revoked
                         /\ t # w.spend => token'[t].spent = token[t].spent
                         /\ t = w.spend => token'[t].spent # 0
  BY <1>1, <1>3, <1>8, <1>9, <1>10 DEF Carries
<1>15. Issued' = IF w.issue THEN Issued \cup {NewToken} ELSE Issued
  <2>1. \A t \in Issued : token'[t].family # 0
    BY <1>14 DEF Carries, Issued
  <2>2. \A t \in Token \ Issued : token'[t].family = 0 \/ (w.issue /\ t = NewToken)
    BY <1>1, <1>3, <1>8 DEF Issued
  <2> QED
    BY <1>1, <1>3, <1>11, <2>1, <2>2 DEF Issued
<1>16. \A t \in Token : token'[t].spent = 2 => token'[t].raced
  <2> TAKE t \in Token
  <2>1. token[t].spent = 2 => token[t].raced
    BY DEF AccountsInv, SpentOnce
  <2> QED
    BY <1>8, <1>9, <1>10, <1>11, <2>1
<1>17. \A t \in Issued : t # w.spend /\ t \notin w.kill => token'[t] = token[t]
  BY <1>1, <1>3, <1>8
<1> QED
  BY <1>5, <1>13, <1>14, <1>15, <1>16, <1>17

\* What a commit does to the links sent by mail.
LEMMA CommitLinks ==
  ASSUME AccountsInv, NEW s \in Slot, Commit(s)
  PROVE  /\ link' \in [Link -> LinkRow]
         /\ Mailed' = IF tx[s].send # "none" THEN Mailed \cup {NewLink} ELSE Mailed
         /\ \A l \in Mailed : /\ l # tx[s].redeem => link'[l].spent = link[l].spent
                              /\ l = tx[s].redeem => link'[l].spent # 0
         /\ \A l \in Link : link'[l].spent = 2 => link'[l].raced
<1> DEFINE w == tx[s]
           new == [NoLink EXCEPT !.kind = w.send, !.who = w.who]
<1>1. /\ w \in Tx /\ (w.send # "none" => NewLink \in Link \ Mailed)
      /\ (w.redeem # 0 => w.redeem \in Mailed)
  BY CommitReads DEF Commit
<1>2. \A l \in Link : link'[l] = LinkAfter(s, l)
  BY DEF Commit
<1>3. Mailed \subseteq Link /\ 0 \notin Link /\ (\A l \in Link : link[l] \in LinkRow)
  BY DEF Mailed, Link, AccountsInv, TypeOK
<1>4. /\ w.beaten \in BOOLEAN /\ w.redeem \in 0 .. MaxLinks /\ w.who \in Address
      /\ w.send \in {"none", "invite", "reset", "verify"}
  BY <1>1 DEF Tx
<1>5. w.send # "none" => link'[NewLink] = new
  <2> SUFFICES ASSUME w.send # "none" PROVE link'[NewLink] = new
    OBVIOUS
  <2>1. NewLink \in Link /\ NewLink # w.redeem
    BY <1>1, <1>3
  <2> QED
    BY <1>2, <2>1, Zenon DEF LinkAfter
<1>6. new \in LinkRow /\ new.kind = w.send /\ new.spent = 0
  <2> HIDE DEF w
  <2>1. PICK y : y = [NoLink EXCEPT !.kind = w.send, !.who = w.who]
    OBVIOUS
  <2>2. y = [ kind |-> w.send, who |-> w.who, spent |-> 0, raced |-> FALSE, old |-> FALSE ]
    BY <2>1 DEF NoLink
  <2>3. y \in LinkRow /\ y.kind = w.send /\ y.spent = 0
    BY <1>4, <2>2 DEF LinkRow
  <2> QED
    BY <2>1, <2>3
<1>7. \A l \in Link : l = w.redeem => link'[l] = Spent(link[l], w.beaten)
  <2> SUFFICES ASSUME NEW l \in Link, l = w.redeem PROVE link'[l] = Spent(link[l], w.beaten)
    OBVIOUS
  <2>1. ~ (w.send # "none" /\ l = NewLink)
    BY <1>1, <1>3
  <2> QED
    BY <1>2, <2>1 DEF LinkAfter
<1>8. \A l \in Link : (l # w.redeem /\ (w.send # "none" => l # NewLink)) => link'[l] = link[l]
  BY <1>2 DEF LinkAfter
<1> HIDE DEF new
<1>9. ASSUME NEW l \in Link, l = w.redeem
      PROVE  /\ link'[l] \in LinkRow /\ link'[l].spent # 0 /\ link'[l].kind # "none"
             /\ link'[l].spent = 2 => link'[l].raced
  <2>1. link[l] \in LinkRow /\ l \in Mailed
    BY <1>1, <1>3, <1>9
  <2>2. link'[l] = Spent(link[l], w.beaten)
    BY <1>7, <1>9
  <2>3. link[l].spent \in 0 .. 2 /\ link[l].raced \in BOOLEAN
    BY <2>1 DEF LinkRow
  <2>4. /\ link'[l] \in LinkRow /\ link'[l].kind = link[l].kind
        /\ link'[l].spent = IF link[l].spent = 2 THEN 2 ELSE link[l].spent + 1
        /\ link'[l].raced = (link[l].raced \/ w.beaten)
    BY <1>4, <2>1, <2>2, SpentLink
  <2>5. link[l].spent = 2 => link[l].raced
    BY DEF AccountsInv, SpentOnce
  <2>6. link[l].spent # 0 => w.beaten
    <3>1. Aware(w) /\ w.redeem # 0
      BY <1>3, <1>9, CommitReads DEF Commit
    <3> QED
      BY <1>9, <3>1 DEF Aware
  <2>7. link[l].kind # "none"
    BY <2>1 DEF Mailed
  <2> QED
    BY <1>4, <2>3, <2>4, <2>5, <2>6, <2>7
<1>10. \A l \in Link : link'[l] \in LinkRow
  BY <1>3, <1>5, <1>6, <1>8, <1>9
<1>11. link' \in [Link -> LinkRow]
  BY <1>10 DEF Commit
<1>12. \A l \in Mailed : /\ l # w.redeem => link'[l].spent = link[l].spent
                         /\ l = w.redeem => link'[l].spent # 0
  BY <1>1, <1>3, <1>8, <1>9
<1>13. Mailed' = IF w.send # "none" THEN Mailed \cup {NewLink} ELSE Mailed
  <2>1. \A l \in Mailed : link'[l].kind # "none"
    BY <1>1, <1>3, <1>8, <1>9 DEF Mailed
  <2>2. \A l \in Link \ Mailed : link'[l].kind = "none" \/ (w.send # "none" /\ l = NewLink)
    BY <1>1, <1>3, <1>8 DEF Mailed
  <2> QED
    BY <1>1, <1>3, <1>5, <1>6, <2>1, <2>2 DEF Mailed
<1>14. \A l \in Link : link'[l].spent = 2 => link'[l].raced
  <2> TAKE l \in Link
  <2>1. link[l].spent = 2 => link[l].raced
    BY DEF AccountsInv, SpentOnce
  <2> QED
    BY <1>5, <1>6, <1>8, <1>9, <2>1
<1> QED
  BY <1>11, <1>12, <1>13, <1>14

\* What a commit does to a row of users: a role is never lost, and only a
\* revocation revokes.
LEMMA UserAfterRow ==
  ASSUME NEW w \in Tx, NEW u \in User
  PROVE  /\ UserAfter(w, u) \in User
         /\ UserAfter(w, u).revoked = (u.revoked \/ w.op = "revoke")
         /\ u.role # "none" => UserAfter(w, u).role # "none"
<1>1. CASE w.op = "register"
  BY <1>1 DEF UserAfter, User
<1>2. CASE w.op = "accept"
  BY <1>2 DEF UserAfter, User
<1>3. CASE w.op = "revoke"
  BY <1>3 DEF UserAfter, User
<1>4. CASE w.op = "verify"
  BY <1>4 DEF UserAfter, User
<1>5. CASE w.op \notin {"register", "accept", "revoke", "verify"}
  BY <1>5 DEF UserAfter, User
<1> QED
  BY <1>1, <1>2, <1>3, <1>4, <1>5

\* What a commit does to the users table.
LEMMA CommitUsers ==
  ASSUME AccountsInv, NEW s \in Slot, Commit(s)
  PROVE  /\ user' \in [Address -> User]
         /\ \A a \in Address : Account(a) => Account(a)'
         /\ \A a \in Address :
              user'[a].revoked = (user[a].revoked \/ (tx[s].op = "revoke" /\ tx[s].who = a))
<1> DEFINE w == tx[s]
<1>1. w \in Tx /\ w.who \in Address
  BY CommitReads DEF Commit, Tx
<1>2. user \in [Address -> User] /\ user' = [user EXCEPT ![w.who] = UserAfter(w, user[w.who])]
  BY DEF AccountsInv, TypeOK, Commit
<1> HIDE DEF w
<1>3. user' \in [Address -> User]
  BY <1>1, <1>2, UserAfterRow
<1>4. \A a \in Address : user'[a] = IF a = w.who THEN UserAfter(w, user[a]) ELSE user[a]
  BY <1>2
<1>5. \A a \in Address : user[a].revoked \in BOOLEAN
  BY <1>2 DEF User
<1>6. \A a \in Address : Account(a) => Account(a)'
  BY <1>1, <1>2, <1>4, UserAfterRow DEF Account
<1>7. \A a \in Address : user'[a].revoked = (user[a].revoked \/ (w.op = "revoke" /\ w.who = a))
  BY <1>1, <1>2, <1>4, <1>5, UserAfterRow
<1> QED
  BY <1>3, <1>6, <1>7 DEF w

\* What the others have been through: v is what was w.
Noted(w, v, x) ==
  /\ v \in Tx
  /\ v.op = w.op /\ v.who = w.who /\ v.spend = w.spend /\ v.kill = w.kill
  /\ v.issue = w.issue /\ v.redeem = w.redeem /\ v.send = w.send
  /\ (w.met \/ (Ends(x) /\ w.who = x.who)) => v.met
  /\ (w.beaten \/ Same(x, w)) => v.beaten

\* What a commit tells the other open requests.
LEMMA CommitOthers ==
  ASSUME AccountsInv, NEW s \in Slot, Commit(s)
  PROVE  /\ tx' \in [Slot -> Tx \cup Answer \cup {Idle}]
         /\ ~ Busy(s)'
         /\ tx'[s] = Answered(s, IF tx[s].issue THEN NewToken ELSE 0)
         /\ \A r \in Slot \ {s} : /\ ~ Busy(r) => tx'[r] = tx[r]
                                  /\ Busy(r)' => Busy(r)
                                  /\ Busy(r) => Noted(tx[r], tx'[r], tx[s])
<1> DEFINE w == tx[s]
           n == IF w.issue THEN NewToken ELSE 0
           x == Answered(s, n)
<1>1. /\ w \in Tx /\ w.spend \in 0 .. MaxTokens /\ w.redeem \in 0 .. MaxLinks
      /\ w.who \in Address /\ w.issue \in BOOLEAN
      /\ w.issue => NewToken \in Token
  BY CommitReads DEF Commit, Tx
<1>2. tx' = Met(s, [tx EXCEPT ![s] = x])
  BY DEF Commit
<1>3. n \in 0 .. Phantom
  BY <1>1, AccountsAssumption DEF Token, Phantom
<1> HIDE DEF n
<1>4. x \in Answer \cup {Idle}
  BY <1>3 DEF Answered, Answer
<1>5. x.op \notin Op
  BY <1>4, NotBusy
<1> HIDE DEF x
<1> DEFINE t == [tx EXCEPT ![s] = x]
<1>6. \A r \in Slot : t[r] = IF r = s THEN x ELSE tx[r]
  BY DEF AccountsInv, TypeOK
<1>7. tx' = [r \in Slot |-> IF r = s \/ t[r].op \notin Op THEN t[r]
                           ELSE [t[r] EXCEPT !.met = t[r].met \/ (Ends(w) /\ t[r].who = w.who),
                                             !.beaten = t[r].beaten \/ Same(w, t[r])]]
  BY <1>2 DEF Met
<1> HIDE DEF t
<1>8. tx'[s] = x
  BY <1>6, <1>7
<1>9. \A r \in Slot \ {s} : ~ Busy(r) => tx'[r] = tx[r]
  BY <1>6, <1>7 DEF Busy
<1>10. ASSUME NEW r \in Slot \ {s}, Busy(r)
       PROVE  Noted(tx[r], tx'[r], w) /\ Busy(r)'
  <2> DEFINE m == tx[r].met \/ (Ends(w) /\ tx[r].who = w.who)
             b == tx[r].beaten \/ Same(w, tx[r])
  <2>1. tx[r] \in Tx
    BY <1>10, OpenIsTyped DEF AccountsInv
  <2>2. m \in BOOLEAN /\ b \in BOOLEAN
    BY <2>1 DEF Tx, Same
  <2>3. tx'[r] = [tx[r] EXCEPT !.met = m, !.beaten = b]
    BY <1>6, <1>7, <1>10 DEF Busy
  <2> HIDE DEF m, b
  <2>4. PICK v : v = [tx[r] EXCEPT !.met = m, !.beaten = b]
    OBVIOUS
  <2>5. /\ v \in Tx
        /\ v.op = tx[r].op /\ v.who = tx[r].who /\ v.spend = tx[r].spend /\ v.kill = tx[r].kill
        /\ v.issue = tx[r].issue /\ v.redeem = tx[r].redeem /\ v.send = tx[r].send
        /\ v.met = m /\ v.beaten = b
    BY <2>1, <2>2, <2>4 DEF Tx
  <2>6. tx'[r] = v
    BY <2>3, <2>4
  <2>7. Noted(tx[r], v, w)
    BY <2>5 DEF Noted, m, b
  <2> QED
    BY <1>10, <2>5, <2>6, <2>7 DEF Busy
<1>11. tx' \in [Slot -> Tx \cup Answer \cup {Idle}]
  <2>1. \A r \in Slot : tx'[r] \in Tx \cup Answer \cup {Idle}
    BY <1>4, <1>8, <1>9, <1>10 DEF Noted, AccountsInv, TypeOK
  <2> QED
    BY <1>7, <2>1
<1>12. ~ Busy(s)'
  BY <1>5, <1>8 DEF Busy
<1>13. \A r \in Slot \ {s} : Busy(r)' => Busy(r)
  BY <1>9 DEF Busy
<1> QED
  BY <1>8, <1>9, <1>10, <1>11, <1>12, <1>13 DEF x, n

-----------------------------------------------------------------------------
(* A commit, invariant by invariant.                                       *)

\* A commit keeps the types, and ends sessions that exist.
LEMMA CommitTypes ==
  ASSUME AccountsInv, NEW s \in Slot, Commit(s)
  PROVE  TypeOK' /\ ended' \subseteq Issued'
<1>1. token' \in [Token -> RefreshToken] /\ Issued \subseteq Issued'
  BY CommitTokens
<1>2. link' \in [Link -> LinkRow] /\ user' \in [Address -> User]
      /\ tx' \in [Slot -> Tx \cup Answer \cup {Idle}]
  BY CommitLinks, CommitUsers, CommitOthers
<1>3. asked' \in 0 .. MaxRequests /\ faults' \in 0 .. MaxFaults
  BY DEF Commit, AccountsInv, TypeOK
<1>4. ended' \subseteq Issued'
  <2>1. EndedBy(tx[s]) \subseteq Issued
    BY CommitReads DEF EndedBy, AccountsInv, Families, Commit
  <2> QED
    BY <1>1, <2>1 DEF Commit, AccountsInv
<1>5. ended' \subseteq Token
  BY <1>4 DEF Issued
<1> QED
  BY <1>1, <1>2, <1>3, <1>4, <1>5 DEF TypeOK

\* A commit takes the row it had kept free.
LEMMA CommitRoom ==
  ASSUME AccountsInv, NEW s \in Slot, Commit(s)
  PROVE  Room'
<1>1. Busy(s)
  BY DEF Commit
<1>2. \A r \in Slot : Busy(r)' <=> (r # s /\ Busy(r))
  BY CommitOthers DEF Busy, Noted
<1>3. \A r \in Slot : Busy(r)' => tx'[r].issue = tx[r].issue /\ tx'[r].send = tx[r].send
  BY <1>2, CommitOthers DEF Noted
<1>4. Minting' = Minting \ {s} /\ Sending' = Sending \ {s}
  BY <1>2, <1>3 DEF Minting, Sending
<1>5. IsFiniteSet(Minting) /\ IsFiniteSet(Sending) /\ IsFiniteSet(Issued) /\ IsFiniteSet(Mailed)
  BY FiniteThings, FS_Subset DEF Minting, Sending, Issued, Mailed
<1>6. /\ Cardinality(Minting) \in Nat /\ Cardinality(Sending) \in Nat
      /\ Cardinality(Issued) \in Nat /\ Cardinality(Mailed) \in Nat
      /\ MaxTokens \in Nat /\ MaxLinks \in Nat
  BY <1>5, FS_CardinalityType, AccountsAssumption
<1>7. Cardinality(Issued') + Cardinality(Minting') <= MaxTokens
  <2>1. CASE tx[s].issue
    <3>1. s \in Minting /\ NewToken \notin Issued /\ Issued' = Issued \cup {NewToken}
      BY <1>1, <2>1, CommitReads, CommitTokens DEF Minting
    <3>2. Cardinality(Minting') = Cardinality(Minting) - 1
      BY <1>4, <1>5, <3>1, FS_RemoveElement
    <3>3. Cardinality(Issued') = Cardinality(Issued) + 1
      BY <1>5, <3>1, FS_AddElement
    <3> QED
      BY <1>6, <3>2, <3>3 DEF AccountsInv, Room
  <2>2. CASE ~ tx[s].issue
    <3>1. Minting' = Minting /\ Issued' = Issued
      BY <1>4, <2>2, CommitTokens DEF Minting
    <3> QED
      BY <3>1 DEF AccountsInv, Room
  <2> QED
    BY <2>1, <2>2
<1>8. Cardinality(Mailed') + Cardinality(Sending') <= MaxLinks
  <2>1. CASE tx[s].send # "none"
    <3>1. s \in Sending /\ NewLink \notin Mailed /\ Mailed' = Mailed \cup {NewLink}
      BY <1>1, <2>1, CommitReads, CommitLinks DEF Sending
    <3>2. Cardinality(Sending') = Cardinality(Sending) - 1
      BY <1>4, <1>5, <3>1, FS_RemoveElement
    <3>3. Cardinality(Mailed') = Cardinality(Mailed) + 1
      BY <1>5, <3>1, FS_AddElement
    <3> QED
      BY <1>6, <3>2, <3>3 DEF AccountsInv, Room
  <2>2. CASE tx[s].send = "none"
    <3>1. Sending' = Sending /\ Mailed' = Mailed
      BY <1>4, <2>2, CommitLinks DEF Sending
    <3> QED
      BY <3>1 DEF AccountsInv, Room
  <2> QED
    BY <2>1, <2>2
<1> QED
  BY <1>7, <1>8 DEF Room

\* A token that was just issued: of whom, and of which login.
LEMMA NewIsOf ==
  ASSUME AccountsInv, NEW s \in Slot, Commit(s), tx[s].issue
  PROVE  /\ NewToken \in Token /\ NewToken \notin Issued
         /\ token'[NewToken].who = tx[s].who
         /\ tx[s].spend = 0 => token'[NewToken].family = NewToken
         /\ tx[s].spend # 0 =>
              /\ tx[s].spend \in Issued /\ token[tx[s].spend].who = tx[s].who
              /\ token'[NewToken].family = token[tx[s].spend].family
              /\ token[tx[s].spend].late => token'[NewToken].late
         /\ Overlapped(s) => token'[NewToken].late
         /\ token'[NewToken].spent = 0 /\ ~ token'[NewToken].revoked /\ ~ token'[NewToken].old
<1>1. Busy(s)
  BY DEF Commit
<1>2. token'[NewToken] = Minted(s)
  BY CommitTokens
<1>3. NewToken \in Token /\ NewToken \notin Issued
  BY <1>1, CommitReads
<1>4. tx[s].spend # 0 => tx[s].spend \in Issued /\ token[tx[s].spend].who = tx[s].who
  BY <1>1, CommitReads DEF Grounded
<1> QED
  BY <1>1, <1>2, <1>3, <1>4, MintedRow

\* A login stays one account's: a new token begins one, or joins its parent's.
LEMMA CommitFamilies ==
  ASSUME AccountsInv, NEW s \in Slot, Commit(s)
  PROVE  Families'
<1>1. \A t \in Issued : token'[t].who = token[t].who /\ token'[t].family = token[t].family
  BY CommitTokens DEF Carries
<1>2. Families
  BY DEF AccountsInv
<1>3. CASE ~ tx[s].issue
  <2>1. Issued' = Issued
    BY <1>3, CommitTokens
  <2> QED
    BY <1>1, <1>2, <2>1 DEF Families
<1>4. CASE tx[s].issue
  <2> DEFINE n == NewToken
  <2>1. Issued' = Issued \cup {n}
    BY <1>4, CommitTokens
  <2>2. /\ n \notin Issued /\ token'[n].who = tx[s].who
        /\ tx[s].spend = 0 => token'[n].family = n
        /\ tx[s].spend # 0 => /\ tx[s].spend \in Issued /\ token[tx[s].spend].who = tx[s].who
                              /\ token'[n].family = token[tx[s].spend].family
    BY <1>4, NewIsOf
  <2>3. PICK m : m = n
    OBVIOUS
  <2>4. \A t \in Issued : token[t].family # m
    BY <1>2, <2>2, <2>3 DEF Families
  <2>5. \A t \in Issued : token'[m].family = token[t].family => token[t].who = tx[s].who
    BY <1>2, <2>2, <2>3, <2>4 DEF Families
  <2>6. token'[m].family \in Issued \cup {m}
    BY <1>2, <2>2, <2>3 DEF Families
  <2>7. Issued' = Issued \cup {m} /\ token'[m].who = tx[s].who
    BY <2>1, <2>2, <2>3
  <2>8. ASSUME NEW t \in Issued' PROVE token'[t].family \in Issued'
    BY <1>1, <1>2, <2>6, <2>7 DEF Families
  <2>9. ASSUME NEW t \in Issued', NEW u \in Issued', token'[u].family = token'[t].family
        PROVE  token'[u].who = token'[t].who
    BY <1>1, <1>2, <2>5, <2>7, <2>9 DEF Families
  <2> QED
    BY <2>8, <2>9 DEF Families
<1> QED
  BY <1>3, <1>4

\* What a commit has ended beyond what was over: sessions of its own account,
\* by a request that ends sessions.
LEMMA NewlyGone ==
  ASSUME AccountsInv, NEW s \in Slot, Commit(s), NEW t \in Issued, Gone(t)', ~ Gone(t)
  PROVE  /\ Ends(tx[s]) /\ token[t].who = tx[s].who
         /\ \/ tx[s].op = "end" /\ \E u \in tx[s].kill : token[u].family = token[t].family
            \/ tx[s].op \in {"revoke", "confirm_reset"}
<1> DEFINE w == tx[s]
<1>1. token'[t].family = token[t].family /\ token'[t].who = token[t].who /\ token[t].who \in Address
  BY CommitTokens DEF Carries, AccountsInv, TypeOK, RefreshToken, Issued
<1>2. /\ w \in Tx /\ w.kill \subseteq Issued
      /\ \A u \in w.kill : token[u].who = w.who
  BY CommitReads DEF Commit, Grounded
<1>3. CASE token[t].family \in ended'
  <2>1. Ends(w) /\ token[t].family \in EndedBy(w)
    BY <1>3 DEF Commit, Gone
  <2>2. CASE w.op = "end"
    <3>1. PICK u \in w.kill : token[u].family = token[t].family
      BY <2>1, <2>2 DEF EndedBy
    <3> QED
      BY <1>2, <2>1, <2>2, <3>1 DEF AccountsInv, Families
  <2>3. CASE w.op # "end"
    <3>1. PICK u \in Issued : token[u].who = w.who /\ token[u].family = token[t].family
      BY <2>1, <2>3 DEF EndedBy
    <3> QED
      BY <2>1, <2>3, <3>1 DEF AccountsInv, Families, Ends
  <2> QED
    BY <2>2, <2>3
<1>4. CASE user'[token[t].who].revoked
  <2>1. w.op = "revoke" /\ w.who = token[t].who
    BY <1>1, <1>4, CommitUsers DEF Gone
  <2> QED
    BY <2>1 DEF Ends
<1> QED
  BY <1>1, <1>3, <1>4 DEF Gone

\* The requests still open know when another commit used up what they read.
LEMMA StillAware ==
  ASSUME AccountsInv, NEW s \in Slot, Commit(s), NEW r \in Slot \ {s}, Busy(r),
         NEW v, v = tx'[r]
  PROVE  Formed(v)' /\ Grounded(v)' /\ Aware(v)'
<1> DEFINE w == tx[s]
           o == tx[r]
<1>1. /\ v.op = o.op /\ v.who = o.who /\ v.spend = o.spend /\ v.kill = o.kill
      /\ v.issue = o.issue /\ v.redeem = o.redeem
      /\ (o.beaten \/ Same(w, o)) => v.beaten
  BY CommitOthers DEF Noted
<1>2. /\ o \in Tx /\ Formed(o) /\ Grounded(o) /\ Aware(o)
      /\ o.spend # 0 => o.spend \in Issued
      /\ o.kill \subseteq Issued
      /\ o.redeem # 0 => o.redeem \in Mailed
  BY CommitReads
<1>3. o.who \in Address
  BY <1>2 DEF Tx
<1>4. /\ \A t \in Issued : token'[t].who = token[t].who /\ t \in Issued'
      /\ \A t \in Issued : t # w.spend => token'[t].spent = token[t].spent
  BY CommitTokens DEF Carries
<1>5. /\ \A l \in Mailed : l \in Mailed'
      /\ \A l \in Mailed : l # w.redeem => link'[l].spent = link[l].spent
  BY CommitLinks
<1>6. \A a \in Address : Account(a) => Account(a)'
  BY CommitUsers
<1>7. Formed(v)'
  BY <1>1, <1>2 DEF Formed, Ends
<1>8. Grounded(v)'
  <2>1. v.op \in {"revoke", "authenticate"} => Account(v.who)'
    BY <1>1, <1>2, <1>3, <1>6 DEF Grounded
  <2>2. v.redeem # 0 => link'[v.redeem].kind # "none"
    BY <1>1, <1>2, <1>5 DEF Mailed
  <2>3. \A t \in v.kill : t \in Issued' /\ token'[t].who = v.who
    BY <1>1, <1>2, <1>4 DEF Grounded
  <2>4. v.spend # 0 => v.spend \in Issued' /\ token'[v.spend].who = v.who
    BY <1>1, <1>2, <1>4 DEF Grounded
  <2> QED
    BY <2>1, <2>2, <2>3, <2>4 DEF Grounded
<1>9. Aware(v)'
  <2>1. v.spend # 0 /\ token'[v.spend].spent # 0 => v.beaten
    BY <1>1, <1>2, <1>4 DEF Aware, Same
  <2>2. v.redeem # 0 /\ link'[v.redeem].spent # 0 => v.beaten
    BY <1>1, <1>2, <1>5 DEF Aware, Same
  <2> QED
    BY <2>1, <2>2 DEF Aware
<1> QED
  BY <1>7, <1>8, <1>9

\* A request that ends sessions of the account marks what is minted under it.
LEMMA MintedLate ==
  ASSUME AccountsInv, NEW s \in Slot, Commit(s), tx[s].issue,
         NEW r \in Slot \ {s}, Busy(r), Ends(tx[r]), tx[r].who = tx[s].who
  PROVE  token'[NewToken].late
  BY NewIsOf DEF Overlapped

\* And they know when another commit ended the sessions they write to.  What was
\* minted meanwhile is late, for the request that ends the sessions is open.
LEMMA StillWarned ==
  ASSUME AccountsInv, NEW s \in Slot, Commit(s), NEW r \in Slot \ {s}, Busy(r),
         NEW v, v = tx'[r]
  PROVE  Warned(v)'
<1> DEFINE w == tx[s]
           o == tx[r]
<1>1. /\ v.op = o.op /\ v.who = o.who /\ v.spend = o.spend /\ v.kill = o.kill
      /\ (o.met \/ (Ends(w) /\ o.who = w.who)) => v.met
  BY CommitOthers DEF Noted
<1>2. /\ o \in Tx /\ Grounded(o) /\ Warned(o)
      /\ o.spend # 0 => o.spend \in Issued /\ token[o.spend].who = o.who
      /\ \A t \in o.kill : t \in Issued /\ token[t].who = o.who
  BY CommitReads DEF Grounded
<1>3. o.who \in Address
  BY <1>2 DEF Tx
<1>4. \A t \in Issued : Carries(t)
  BY CommitTokens
<1>5. PICK n : n = NewToken
  OBVIOUS
<1>6. Issued' = IF w.issue THEN Issued \cup {n} ELSE Issued
  BY <1>5, CommitTokens
<1>7. ASSUME w.issue
      PROVE  /\ n \notin Issued /\ token'[n].who = w.who
             /\ w.spend = 0 => token'[n].family = n
             /\ w.spend # 0 => /\ w.spend \in Issued /\ token[w.spend].who = w.who
                               /\ token'[n].family = token[w.spend].family
             /\ Ends(o) /\ o.who = w.who => token'[n].late
  BY <1>5, <1>7, NewIsOf, MintedLate
<1>8. v.spend # 0 /\ Gone(v.spend)' => v.met \/ token'[v.spend].late
  <2> SUFFICES ASSUME v.spend # 0, Gone(v.spend)' PROVE v.met \/ token'[v.spend].late
    OBVIOUS
  <2>1. v.spend \in Issued /\ token[v.spend].who = o.who /\ token'[v.spend].late = token[v.spend].late
    BY <1>1, <1>2, <1>4 DEF Carries
  <2>2. CASE Gone(v.spend)
    BY <1>1, <1>2, <2>1, <2>2 DEF Warned
  <2>3. CASE ~ Gone(v.spend)
    BY <1>1, <2>1, <2>3, NewlyGone
  <2> QED
    BY <2>2, <2>3
<1>9. v.op = "authenticate" /\ user'[v.who].revoked => v.met
  <2>1. user'[v.who].revoked => user[o.who].revoked \/ (w.op = "revoke" /\ w.who = o.who)
    BY <1>1, <1>3, CommitUsers
  <2> QED
    BY <1>1, <1>2, <2>1 DEF Warned, Ends
<1>10. ASSUME v.op = "end", NEW t \in v.kill, NEW u \in Issued',
              token'[u].family = token'[t].family
       PROVE  Out(v, u)'
  <2>1. t \in Issued /\ token[t].who = o.who /\ token'[t].family = token[t].family
    BY <1>1, <1>2, <1>4 DEF Carries
  <2>2. CASE u \in Issued
    <3>1. Out(o, u)
      BY <1>1, <1>2, <1>4, <1>10, <2>1, <2>2 DEF Warned, Carries
    <3> QED
      BY <1>1, <1>4, <2>2, <3>1 DEF Out, Carries
  <2>3. CASE u \notin Issued
    <3>1. w.issue /\ u = n
      BY <1>6, <2>3
    <3>2. token[t].family \in Issued /\ Families
      BY <2>1 DEF AccountsInv, Families
    <3>3. w.spend # 0
      BY <1>7, <1>10, <2>1, <2>3, <3>1, <3>2
    <3>4. token[t].who = w.who
      BY <1>7, <1>10, <2>1, <3>1, <3>2, <3>3 DEF Families
    <3> QED
      BY <1>1, <1>7, <1>10, <2>1, <3>1, <3>4 DEF Out, Ends
  <2> QED
    BY <2>2, <2>3
<1>11. ASSUME v.op \in {"revoke", "confirm_reset"}, NEW u \in Issued', token'[u].who = v.who
       PROVE  Out(v, u)'
  <2>1. CASE u \in Issued
    <3>1. Out(o, u)
      BY <1>1, <1>2, <1>4, <1>11, <2>1 DEF Warned, Carries
    <3> QED
      BY <1>1, <1>4, <2>1, <3>1 DEF Out, Carries
  <2>2. CASE u \notin Issued
    BY <1>1, <1>6, <1>7, <1>11, <2>2 DEF Out, Ends
  <2> QED
    BY <2>1, <2>2
<1> QED
  BY <1>8, <1>9, <1>10, <1>11 DEF Warned

\* So the open requests stay sound under a commit.
LEMMA CommitRequests ==
  ASSUME AccountsInv, NEW s \in Slot, Commit(s)
  PROVE  Requests'
<1>1. ASSUME NEW r \in Slot, Busy(r)', NEW v, v = tx'[r] PROVE Open(v)'
  <2>1. r \in Slot \ {s} /\ Busy(r)
    BY <1>1, CommitOthers
  <2> QED
    BY <1>1, <2>1, StillAware, StillWarned DEF Open
<1> QED
  BY <1>1 DEF Requests

\* A commit that ends sessions reaches every token of them that is not late; one
\* that mints into a session that is over mints late.
LEMMA CommitReaches ==
  ASSUME AccountsInv, NEW s \in Slot, Commit(s)
  PROVE  RevocationReaches'
<1> DEFINE w == tx[s]
<1>1. w \in Tx /\ Formed(w) /\ Grounded(w) /\ Warned(w)
  BY CommitReads DEF Commit
<1>2. w.who \in Address
  BY <1>1 DEF Tx
<1>3. ASSUME NEW t \in Issued, Live(t)', Gone(t)' PROVE token'[t].late
  <2>1. /\ Carries(t) /\ (t \in w.kill => token'[t].revoked)
        /\ t # w.spend => token'[t].spent = token[t].spent
        /\ t = w.spend => token'[t].spent # 0
    BY CommitTokens
  <2>2. Live(t) /\ t \notin w.kill /\ ~ token[t].revoked
    BY <1>3, <2>1 DEF Live, Carries
  <2>3. CASE Gone(t)
    BY <2>1, <2>2, <2>3 DEF AccountsInv, RevocationReaches, Gone, Carries, Issued
  <2>4. CASE ~ Gone(t)
    <3>1. /\ token[t].who = w.who
          /\ \/ w.op = "end" /\ \E u \in w.kill : token[u].family = token[t].family
             \/ w.op \in {"revoke", "confirm_reset"}
      BY <1>3, <2>4, NewlyGone
    <3>2. Out(w, t)
      BY <1>1, <3>1 DEF Warned
    <3> QED
      BY <2>1, <2>2, <3>2 DEF Out, Carries
  <2> QED
    BY <2>3, <2>4
<1>4. ASSUME NEW t \in Issued' \ Issued, Gone(t)' PROVE token'[t].late
  <2>1. w.issue /\ t = NewToken
    BY CommitTokens
  <2>2. PICK n : n = NewToken
    OBVIOUS
  <2>3. /\ token'[t].who = w.who
        /\ w.spend = 0 => token'[t].family = t
        /\ w.spend # 0 =>
              /\ w.spend \in Issued /\ token[w.spend].who = w.who
              /\ token'[t].family = token[w.spend].family
              /\ token[w.spend].late => token'[t].late
        /\ Overlapped(s) => token'[t].late
    BY <2>1, NewIsOf
  <2>4. ~ Ends(w)
    BY <2>1, CommitReads DEF Commit
  <2>5. ended' = ended /\ ended \subseteq Issued
    BY <2>4 DEF Commit, AccountsInv
  <2>6. user'[w.who].revoked = user[w.who].revoked
    BY <1>2, <2>4, CommitUsers DEF Ends, AccountsInv, TypeOK, User
  <2>7. w.met => Overlapped(s)
    BY DEF Overlapped
  <2>8. CASE w.spend = 0
    <3>1. user[w.who].revoked
      BY <1>4, <2>3, <2>5, <2>6, <2>8 DEF Gone
    <3>2. w.op \in {"register", "authenticate"}
      BY <1>1, <2>1, <2>8 DEF Formed
    <3>3. w.op # "register"
      BY <1>2, <3>1 DEF Commit, Conflict, Creates, AccountsInv, NoGhosts
    <3> QED
      BY <1>1, <2>3, <2>7, <3>1, <3>2, <3>3 DEF Warned
  <2>9. CASE w.spend # 0
    <3>1. Gone(w.spend)
      BY <1>4, <2>3, <2>5, <2>6, <2>9 DEF Gone
    <3> QED
      BY <1>1, <2>3, <2>7, <2>9, <3>1 DEF Warned
  <2> QED
    BY <2>8, <2>9
<1>5. ASSUME NEW t \in Token, Live(t)', token'[t].family \in ended' \/ user'[token'[t].who].revoked
      PROVE  token'[t].late
  <2>1. t \in Issued' /\ Gone(t)'
    BY <1>5 DEF Live, Gone
  <2> QED
    BY <1>3, <1>4, <1>5, <2>1
<1> QED
  BY <1>5 DEF RevocationReaches

\* A commit keeps the invariant.
LEMMA CommitKeeps ==
  ASSUME AccountsInv, NEW s \in Slot, Commit(s)
  PROVE  AccountsInv'
<1>1. SpentOnce'
  BY CommitTokens, CommitLinks DEF SpentOnce
<1>2. NoGhosts'
  <2> SUFFICES ASSUME NEW a \in Address, ~ Account(a)' PROVE ~ user'[a].revoked
    BY DEF NoGhosts
  <2>1. ~ Account(a) /\ ~ user[a].revoked
    BY CommitUsers DEF AccountsInv, NoGhosts
  <2>2. ~ (tx[s].op = "revoke" /\ tx[s].who = a)
    BY <2>1, CommitReads DEF Commit, Grounded
  <2> QED
    BY <2>1, <2>2, CommitUsers
<1> QED
  BY <1>1, <1>2, CommitTypes, CommitRoom, CommitRequests, CommitFamilies, CommitReaches
     DEF AccountsInv

-----------------------------------------------------------------------------
(* Thirty days, or the life of a link, go by.                              *)

\* Growing old changes nothing else of a row.
LEMMA ExpireTables ==
  ASSUME AccountsInv, Expire
  PROVE  /\ UNCHANGED << user, tx, asked, ended >> /\ faults' \in 0 .. MaxFaults
         /\ token' \in [Token -> RefreshToken]
         /\ \A t \in Token : /\ Carries(t) /\ token'[t].revoked = token[t].revoked
                              /\ token'[t].spent = token[t].spent
                              /\ token'[t].raced = token[t].raced
         /\ link' \in [Link -> LinkRow]
         /\ \A l \in Link : /\ link'[l].kind = link[l].kind
                             /\ link'[l].spent = link[l].spent
                             /\ link'[l].raced = link[l].raced
         /\ Issued' = Issued /\ Mailed' = Mailed
<1>1. UNCHANGED << user, tx, asked, ended >> /\ faults' \in 0 .. MaxFaults
  BY AccountsAssumption DEF Expire, AccountsInv, TypeOK
<1>2. /\ token \in [Token -> RefreshToken] /\ link \in [Link -> LinkRow]
  BY DEF AccountsInv, TypeOK
<1>3. /\ token' \in [Token -> RefreshToken]
      /\ \A t \in Token : /\ Carries(t) /\ token'[t].revoked = token[t].revoked
                           /\ token'[t].spent = token[t].spent
                           /\ token'[t].raced = token[t].raced
  <2>1. CASE UNCHANGED token
    BY <1>2, <2>1 DEF Carries
  <2>2. CASE \E t \in Issued : token' = [token EXCEPT ![t].old = TRUE]
    <3>1. PICK t \in Issued : token' = [token EXCEPT ![t].old = TRUE]
      BY <2>2
    <3>2. t \in Token
      BY DEF Issued
    <3>3. PICK y : y = [token[t] EXCEPT !.old = TRUE]
      OBVIOUS
    <3>4. /\ y \in RefreshToken /\ y.revoked = token[t].revoked
          /\ y.who = token[t].who /\ y.family = token[t].family /\ y.late = token[t].late
          /\ y.spent = token[t].spent /\ y.raced = token[t].raced
      BY <1>2, <3>2, <3>3 DEF RefreshToken
    <3>5. token' = [token EXCEPT ![t] = y]
      BY <3>1, <3>3
    <3> QED
      BY <1>2, <3>2, <3>4, <3>5 DEF Carries
  <2> QED
    BY <2>1, <2>2 DEF Expire
<1>4. /\ link' \in [Link -> LinkRow]
      /\ \A l \in Link : /\ link'[l].kind = link[l].kind
                          /\ link'[l].spent = link[l].spent
                          /\ link'[l].raced = link[l].raced
  <2>1. CASE UNCHANGED link
    BY <1>2, <2>1
  <2>2. CASE \E l \in Link : link' = [link EXCEPT ![l].old = TRUE]
    <3>1. PICK l \in Link : link' = [link EXCEPT ![l].old = TRUE]
      BY <2>2
    <3>3. PICK y : y = [link[l] EXCEPT !.old = TRUE]
      OBVIOUS
    <3>4. /\ y \in LinkRow /\ y.kind = link[l].kind
          /\ y.spent = link[l].spent /\ y.raced = link[l].raced
      BY <1>2, <3>3 DEF LinkRow
    <3>5. link' = [link EXCEPT ![l] = y]
      BY <3>1, <3>3
    <3> QED
      BY <1>2, <3>4, <3>5
  <2> QED
    BY <2>1, <2>2 DEF Expire
<1>5. Issued' = Issued /\ Mailed' = Mailed
  BY <1>3, <1>4 DEF Issued, Mailed, Carries
<1> QED
  BY <1>1, <1>3, <1>4, <1>5

\* And keeps the invariant.
LEMMA ExpireKeeps ==
  ASSUME AccountsInv, Expire
  PROVE  AccountsInv'
<1>1. UNCHANGED << user, tx, asked, ended >> /\ faults' \in 0 .. MaxFaults
  BY ExpireTables
<1>3. /\ token' \in [Token -> RefreshToken]
      /\ \A t \in Token : /\ Carries(t) /\ token'[t].revoked = token[t].revoked
                           /\ token'[t].spent = token[t].spent
                           /\ token'[t].raced = token[t].raced
  BY ExpireTables
<1>4. /\ link' \in [Link -> LinkRow]
      /\ \A l \in Link : /\ link'[l].kind = link[l].kind
                          /\ link'[l].spent = link[l].spent
                          /\ link'[l].raced = link[l].raced
  BY ExpireTables
<1>5. Issued' = Issued /\ Mailed' = Mailed
  BY ExpireTables
<1>6. TypeOK'
  BY <1>1, <1>3, <1>4 DEF AccountsInv, TypeOK
<1>7. Room'
  BY <1>1, <1>5 DEF AccountsInv, Room, Minting, Sending, Busy
<1>8. Families' /\ NoGhosts' /\ ended' \subseteq Issued'
  <2>1. \A t \in Issued : t \in Token
    BY DEF Issued
  <2> QED
    BY <1>1, <1>3, <1>5, <2>1 DEF AccountsInv, Families, NoGhosts, Account, Carries
<1>9. SpentOnce' /\ RevocationReaches'
  BY <1>1, <1>3, <1>4, <1>5 DEF AccountsInv, SpentOnce, RevocationReaches, Live, Carries
<1>10. ASSUME NEW s \in Slot, Busy(s), NEW w, w = tx[s] PROVE Open(w)'
  <2>1. /\ w.spend # 0 => w.spend \in Token
        /\ \A t \in w.kill : t \in Token
        /\ w.redeem # 0 => w.redeem \in Link
        /\ \A t \in Issued : t \in Token
    BY <1>10, CommitReads DEF Issued, Mailed
  <2>2. Formed(w) /\ Grounded(w) /\ Aware(w) /\ Warned(w)
    BY <1>10, CommitReads
  <2>3. Formed(w)' /\ Grounded(w)' /\ Aware(w)'
    BY <1>1, <1>3, <1>4, <1>5, <2>1, <2>2 DEF Formed, Grounded, Aware, Account, Ends, Carries
  <2>4. Warned(w)'
    BY <1>1, <1>3, <1>5, <2>1, <2>2 DEF Warned, Gone, Out, Carries
  <2> QED
    BY <2>3, <2>4 DEF Open
<1>11. Requests'
  BY <1>1, <1>10 DEF Requests, Busy
<1> QED
  BY <1>6, <1>7, <1>8, <1>9, <1>11 DEF AccountsInv

-----------------------------------------------------------------------------
(* The server's steps, and the machine's, are these steps.                 *)

\* A rollback only answers.
LEMMA RollbackFrees ==
  ASSUME AccountsInv, NEW s \in Slot, Rollback(s)
  PROVE  \E x : Freed(s, x)
<1> DEFINE x == Answered(s, IF tx[s].issue THEN Phantom ELSE 0)
<1>1. x \in Answer \cup {Idle}
  BY AccountsAssumption DEF Answered, Answer, Phantom
<1>2. asked' \in 0 .. MaxRequests /\ faults' \in 0 .. MaxFaults
  BY AccountsAssumption DEF Rollback, AccountsInv, TypeOK
<1>3. Freed(s, x)
  BY <1>1, <1>2 DEF Freed, Rollback
<1> QED
  BY <1>3

\* So does a refusal.
LEMMA RefusalFrees ==
  ASSUME AccountsInv, NEW s \in Slot, Refusal(s)
  PROVE  \E x : Freed(s, x)
<1> DEFINE x == [op |-> "answer", token |-> 0]
<1>1. x \in Answer \cup {Idle}
  BY AccountsAssumption DEF Answer, Phantom
<1>2. asked' \in 0 .. MaxRequests /\ faults' \in 0 .. MaxFaults
  BY AccountsAssumption DEF Refusal, AccountsInv, TypeOK
<1>3. Freed(s, x)
  BY <1>1, <1>2 DEF Freed, Refusal
<1> QED
  BY <1>3

\* Any request that reads keeps the invariant.
LEMMA RequestKeeps ==
  ASSUME AccountsInv, NEW s \in Slot, Request(s)
  PROVE  AccountsInv'
  BY RequestAdmits, AdmittedKeeps, RefusalFrees, FreedKeeps

\* Every step of the server does.
LEMMA ServerKeeps ==
  ASSUME AccountsInv, AccountsNext
  PROVE  AccountsInv'
<1>1. ASSUME NEW s \in Slot \ Client, Request(s) PROVE AccountsInv'
  BY <1>1, RequestKeeps
<1>2. ASSUME NEW s \in Slot, Commit(s) PROVE AccountsInv'
  BY <1>2, CommitKeeps
<1>3. ASSUME NEW s \in Slot, Rollback(s) PROVE AccountsInv'
  BY <1>3, RollbackFrees, FreedKeeps
<1> QED
  BY <1>1, <1>2, <1>3, ExpireKeeps DEF AccountsNext

\* No request is open and nothing is issued at first.
LEMMA AccountsStart ==
  ASSUME AccountsInit
  PROVE  AccountsInv
<1>1. Issued = {} /\ Mailed = {} /\ Minting = {} /\ Sending = {}
  BY DEF AccountsInit, Issued, Mailed, Minting, Sending, Busy, NoToken, NoLink, Idle, Op
<1>2. Someone \in Address
  BY AccountsAssumption DEF Someone
<1>3. TypeOK
  <2>1. NoToken \in RefreshToken
    BY <1>2, AccountsAssumption DEF NoToken, RefreshToken
  <2>2. NoLink \in LinkRow
    BY <1>2 DEF NoLink, LinkRow
  <2>3. 0 \in 0 .. MaxRequests /\ 0 \in 0 .. MaxFaults
    BY AccountsAssumption
  <2>4. user \in [Address -> User]
    BY AccountsAssumption DEF AccountsInit
  <2> QED
    BY <2>1, <2>2, <2>3, <2>4 DEF AccountsInit, TypeOK
<1>4. Room
  <2>1. Cardinality({}) = 0
    BY FS_EmptySet
  <2> QED
    BY <1>1, <2>1, AccountsAssumption DEF Room
<1>5. Requests /\ Families /\ ended \subseteq Issued
  BY <1>1 DEF AccountsInit, Requests, Families, Busy, Idle, Op
<1>6. NoGhosts
  BY AccountsAssumption DEF AccountsInit, NoGhosts, Account
<1>7. SpentOnce
  BY DEF AccountsInit, SpentOnce, NoToken, NoLink
<1>8. RevocationReaches
  BY <1>1 DEF RevocationReaches, Live
<1> QED
  BY <1>3, <1>4, <1>5, <1>6, <1>7, <1>8 DEF AccountsInv

\* The machine's threads ask through slots of the server.
LEMMA ClientIsSlot == \A c \in Client : c \in Slot
  BY AccountsAssumption

\* A refresh by the machine is a request, or a refusal.
LEMMA PresentsRequests ==
  ASSUME AccountsInv, NEW c \in Client, NEW n, Presents(c, n)
  PROVE  AccountsInv'
<1>1. CASE n = Phantom
  <2>1. Refuse(c)
    BY <1>1 DEF Presents
  <2>2. Refusal(c)
    BY <2>1 DEF Refuse, Refusal, Asks
  <2> QED
    BY <2>2, ClientIsSlot, RefusalFrees, FreedKeeps
<1>2. CASE n # Phantom
  <2>1. Refresh(c, n) /\ n \in Token
    BY <1>2 DEF Presents, Refresh, Issued
  <2>2. Request(c)
    BY <2>1 DEF Request
  <2> QED
    BY <2>2, ClientIsSlot, RequestKeeps
<1> QED
  BY <1>1, <1>2

\* An answer that somebody takes.
LEMMA TakenKeeps ==
  ASSUME AccountsInv, NEW c \in Client, Takes(c), faults' \in 0 .. MaxFaults,
         UNCHANGED << user, token, link, asked, ended >>
  PROVE  AccountsInv'
<1>1. Freed(c, Idle)
  BY DEF Freed, Takes, AccountsInv, TypeOK
<1> QED
  BY <1>1, ClientIsSlot, FreedKeeps

Thread(c) ==
  \/ SignIn(c) \/ SignedIn(c) \/ Restore(c) \/ RestoreAsks(c) \/ Renew(c)
  \/ Renewed(c) \/ Refused(c) \/ Unanswered(c) \/ SignOut(c) \/ Forget(c)
  \/ ToNobody(c)

\* Every step of a thread keeps the server's invariant.
LEMMA ThreadKeeps ==
  ASSUME AccountsInv, NEW c \in Client, Thread(c)
  PROVE  AccountsInv'
<1>1. faults < MaxFaults /\ faults' = faults + 1 => faults' \in 0 .. MaxFaults
  BY AccountsAssumption DEF AccountsInv, TypeOK
<1>2. faults' = faults => faults' \in 0 .. MaxFaults
  BY DEF AccountsInv, TypeOK
<1>3. CASE SignIn(c)
  <2>1. Request(c)
    BY <1>3, DesktopAssumption DEF SignIn, Request
  <2> QED
    BY <2>1, ClientIsSlot, RequestKeeps
<1>4. CASE SignedIn(c)
  BY <1>1, <1>2, <1>4, TakenKeeps DEF SignedIn, Installs, StoreFails
<1>5. CASE Restore(c) \/ SignOut(c) \/ Forget(c)
  BY <1>5, ServerStays DEF Restore, SignOut, Forget
<1>6. CASE RestoreAsks(c) \/ Renew(c)
  BY <1>6, PresentsRequests DEF RestoreAsks, Renew
<1>7. CASE Renewed(c)
  BY <1>1, <1>2, <1>7, TakenKeeps DEF Renewed, Release, Installs, StoreFails
<1>8. CASE Refused(c)
  BY <1>2, <1>8, TakenKeeps DEF Refused, Release, Server
<1>9. CASE Unanswered(c)
  BY <1>1, <1>9, TakenKeeps DEF Unanswered, Release
<1>10. CASE ToNobody(c)
  BY <1>2, <1>10, TakenKeeps DEF ToNobody, Server
<1> QED
  BY <1>3, <1>4, <1>5, <1>6, <1>7, <1>8, <1>9, <1>10 DEF Thread

\* The steps of the two together.
LEMMA StepsOfNext ==
  ASSUME Next
  PROVE  ServerStep \/ (\E c \in Client : Thread(c)) \/ Ages \/ Quit
  BY DEF Next, Thread

\* Every step keeps the server's invariant.
LEMMA AccountsStep ==
  ASSUME AccountsInv, [Next]_vars
  PROVE  AccountsInv'
<1>1. CASE ServerStep
  BY <1>1, ServerKeeps DEF ServerStep
<1>2. ASSUME NEW c \in Client, Thread(c) PROVE AccountsInv'
  BY <1>2, ThreadKeeps
<1>3. CASE Ages \/ Quit \/ UNCHANGED vars
  BY <1>3, ServerStays DEF Ages, Quit, vars
<1> QED
  BY <1>1, <1>2, <1>3, StepsOfNext

\* The rows kept free, the open requests and the tables tell one story.
THEOREM AccountsInvariant == Spec => []AccountsInv
<1>1. Init => AccountsInv
  BY AccountsStart DEF Init
<1>2. AccountsInv /\ [Next]_vars => AccountsInv'
  BY AccountsStep
<1> QED
  BY <1>1, <1>2, PTL DEF Spec

\* Signing out, reusing a token, revoking a member and resetting a password reach
\* every token of the sessions they end, however many requests run at once: what
\* still works was issued by a request that overlapped them, or descends from one
\* (services/auth.py, _revoke_family and its callers).
THEOREM SessionsEnd == Spec => []RevocationReaches
<1>1. AccountsInv => RevocationReaches
  BY DEF AccountsInv
<1> QED
  BY <1>1, AccountsInvariant, PTL

\* A refresh token is rotated twice, or a link opened twice, only by two requests
\* that had both read it unused.
THEOREM RotatedOnce == Spec => []SpentOnce
<1>1. AccountsInv => SpentOnce
  BY DEF AccountsInv
<1> QED
  BY <1>1, AccountsInvariant, PTL

-----------------------------------------------------------------------------
(* The machine's own state.                                                *)

\* A lock nobody or one thread holds.
LEMMA LockTypes ==
  /\ Cardinality({}) <= 1
  /\ \A c : Cardinality({c}) <= 1
  /\ \A L \in SUBSET Client : \A c : Cardinality(L) <= 1 => Cardinality(L \ {c}) <= 1
<1>1. Cardinality({}) <= 1
  BY FS_EmptySet
<1>2. ASSUME NEW c PROVE Cardinality({c}) <= 1
  <2>1. Cardinality({c}) = 1
    BY FS_Singleton
  <2> QED
    BY <2>1
<1>3. ASSUME NEW L \in SUBSET Client, NEW c, Cardinality(L) <= 1
      PROVE  Cardinality(L \ {c}) <= 1
  <2>1. IsFiniteSet(L)
    BY AccountsAssumption, FS_Subset
  <2>2. IsFiniteSet(L \ {c}) /\ Cardinality(L \ {c}) <= Cardinality(L)
    BY <2>1, FS_Subset
  <2>3. Cardinality(L \ {c}) \in Nat /\ Cardinality(L) \in Nat
    BY <2>1, <2>2, FS_CardinalityType
  <2> QED
    BY <1>3, <2>2, <2>3
<1> QED
  BY <1>1, <1>2, <1>3

\* What an answer may carry.
LEMMA AnswersAreTokens ==
  ASSUME TypeOK, NEW c \in Client, Got(c)
  PROVE  tx[c].token \in 0 .. Phantom
<1>1. tx[c] \in Tx \cup Answer \cup {Idle}
  BY ClientIsSlot DEF TypeOK
<1>2. tx[c] \in Answer
  BY <1>1 DEF Got, Tx, Op, Idle
<1> QED
  BY <1>2 DEF Answer

\* The machine's types are kept.
LEMMA MachineTypes ==
  ASSUME DesktopTypeOK, AccountsInv, [Next]_vars
  PROVE  DesktopTypeOK'
<1>1. TypeOK'
  BY AccountsStep DEF AccountsInv
<1>2. ASSUME NEW c \in Client, Thread(c) PROVE DesktopTypeOK'
  <2>1. Got(c) => tx[c].token \in 0 .. Phantom
    BY AnswersAreTokens DEF AccountsInv
  <2>2. 0 \in 0 .. Phantom
    BY AccountsAssumption DEF Phantom
  <2>3. /\ live \in BOOLEAN /\ linked \in BOOLEAN /\ excused \in BOOLEAN
        /\ disk \in 0 .. Phantom /\ lock \subseteq Client
        /\ at \in [Client -> Where] /\ kept \in [Client -> 0 .. Phantom]
    BY DEF DesktopTypeOK
  <2>4. disk' \in 0 .. Phantom
    BY <1>2, <2>1, <2>2, <2>3 DEF Thread, SignIn, SignedIn, Restore, RestoreAsks, Renew,
       Renewed, Refused, Unanswered, SignOut, Forget, ToNobody, Installs, StoreFails, Asking
  <2>5. at' \in [Client -> Where]
    BY <1>2, <2>3 DEF Thread, SignIn, SignedIn, Restore, RestoreAsks, Renew,
       Renewed, Refused, Unanswered, SignOut, Forget, ToNobody, Release, Goes, Where
  <2>6. kept' \in [Client -> 0 .. Phantom]
    BY <1>2, <2>3 DEF Thread, SignIn, SignedIn, Restore, RestoreAsks, Renew,
       Renewed, Refused, Unanswered, SignOut, Forget, ToNobody
  <2>7. lock' \subseteq Client /\ Cardinality(lock') <= 1
    <3>1. lock' \in {lock, {c}, lock \ {c}}
      BY <1>2 DEF Thread, SignIn, SignedIn, Restore, RestoreAsks, Renew,
         Renewed, Refused, Unanswered, SignOut, Forget, ToNobody, Release
    <3> QED
      BY <2>3, <3>1, LockTypes DEF DesktopTypeOK
  <2>8. live' \in BOOLEAN /\ linked' \in BOOLEAN
    BY <1>2, <2>3 DEF Thread, SignIn, SignedIn, Restore, RestoreAsks, Renew,
       Renewed, Refused, Unanswered, SignOut, Forget, ToNobody, Installs, StoreFails
  <2>9. excused' \in BOOLEAN
    BY <1>2, <2>3 DEF Thread, SignIn, SignedIn, Restore, RestoreAsks, Renew,
       Renewed, Refused, Unanswered, SignOut, Forget, ToNobody
  <2> QED
    BY <1>1, <2>4, <2>5, <2>6, <2>7, <2>8, <2>9 DEF DesktopTypeOK
<1>3. CASE ServerStep
  BY <1>1, <1>3 DEF ServerStep, Elsewhere, DesktopTypeOK
<1>4. CASE Ages \/ UNCHANGED vars
  BY <1>1, <1>4 DEF Ages, vars, DesktopTypeOK
<1>5. CASE Quit
  <2>1. at' \in [Client -> Where] /\ Cardinality(lock') <= 1 /\ lock' \subseteq Client
    BY <1>5, LockTypes DEF Quit, Where
  <2> QED
    BY <1>1, <1>5, <2>1 DEF Quit, DesktopTypeOK
<1> QED
  BY <1>2, <1>3, <1>4, <1>5, StepsOfNext

\* Types, and one thread at most behind the session lock (auth.rs).
THEOREM DesktopTypes == Spec => []DesktopTypeOK
<1>1. Init => DesktopTypeOK
  <2>1. ASSUME Init PROVE DesktopTypeOK
    <3>1. TypeOK
      BY <2>1, AccountsStart DEF Init, AccountsInv
    <3>2. 0 \in 0 .. Phantom
      BY AccountsAssumption DEF Phantom
    <3> QED
      BY <2>1, <3>1, <3>2, LockTypes DEF Init, DesktopTypeOK, Where
  <2> QED
    BY <2>1
<1>2. DesktopTypeOK /\ AccountsInv /\ [Next]_vars => DesktopTypeOK'
  BY MachineTypes
<1> QED
  BY <1>1, <1>2, AccountsInvariant, PTL DEF Spec

-----------------------------------------------------------------------------
(* The machine's link.                                                     *)

Good(n) == Live(n) /\ ~ token[n].old /\ token[n].who = Me
Mine(w) == w.op = "authenticate" /\ w.who = Me
Rotating(w) == w.op = "refresh" /\ w.who = Me
Holds(c) == at[c] \in {"restoring", "renewing"}
Awaits(c) == at[c] \in {"signing", "restoring", "renewing"}

\* Whoever asks under the lock holds it, and nobody else does.
Held == \A c \in Client : Holds(c) <=> lock = {c}
Alone == lock = {} \/ \E c \in Client : lock = {c}

\* No token comes from nowhere.
Known ==
  /\ disk \in Issued \cup {0, Phantom}
  /\ \A c \in Client : Got(c) => tx[c].token \in Issued \cup {0, Phantom}

Unrevoked ==
  user[Me].revoked =>
    /\ \A t \in Issued : token[t].who # Me
    /\ \A s \in Slot : Busy(s) /\ tx[s].issue => tx[s].who # Me

\* What a thread asks for: a session, or a new token for the one on disk.
Calls(c) ==
  Busy(c) => \/ Mine(tx[c]) /\ ~ Holds(c)
             \/ Rotating(tx[c]) /\ Holds(c) /\ Good(tx[c].spend) /\ disk \in {0, tx[c].spend}
Waits(c) == Awaits(c) => Busy(c) \/ Got(c)

\* What it has been given works, and is no other thread's.
Gets(c) == Awaits(c) /\ Got(c) => tx[c].token = Phantom \/ Good(tx[c].token)
Fresh(c) ==
  at[c] = "signing" /\ Got(c) =>
    /\ tx[c].token # disk
    /\ \A d \in Client \ {c} :
         /\ Busy(d) => tx[d].spend # tx[c].token
         /\ Got(d) => tx[c].token = Phantom \/ tx[d].token # tx[c].token

OnDisk ==
  /\ disk # Phantom
  /\ lock = {} => disk = 0 \/ Good(disk)
  /\ lock = {} /\ linked => disk # 0

Linked ==
  /\ Unrevoked /\ OnDisk
  /\ \A c \in Client : Calls(c) /\ Waits(c) /\ Gets(c) /\ Fresh(c)

MachineInv == Held /\ Alone /\ Known /\ (~ excused => Linked)

\* A phantom, and nothing, are no token.
LEMMA NoPhantom == Phantom \notin Token /\ 0 \notin Token /\ Phantom # 0
  BY AccountsAssumption DEF Phantom, Token

\* A token that works was issued.
LEMMA GoodIsIssued == \A n : Good(n) => n \in Issued /\ n \in Token /\ n # 0 /\ n # Phantom
  BY NoPhantom DEF Good, Live, Issued

\* The session lock is taken to ask, and left when the answer is dealt with.
LEMMA HeldKeeps ==
  ASSUME DesktopTypeOK, Held, Alone, [Next]_vars
  PROVE  Held' /\ Alone'
<1> USE DEF Held, Alone, Holds
<1>0. at \in [Client -> Where]
  BY DEF DesktopTypeOK
<1>1. ASSUME NEW c \in Client, SignIn(c) \/ SignedIn(c) \/ Restore(c) \/ SignOut(c) \/ Forget(c)
             \/ ToNobody(c)
      PROVE  Held' /\ Alone'
  BY <1>0, <1>1 DEF SignIn, SignedIn, Restore, SignOut, Forget, ToNobody, Goes, Try
<1>2. ASSUME NEW c \in Client, RestoreAsks(c) \/ Renew(c)
      PROVE  Held' /\ Alone'
  BY <1>0, <1>2 DEF RestoreAsks, Renew, Goes
<1>3. ASSUME NEW c \in Client, Renewed(c) \/ Refused(c)
      PROVE  Held' /\ Alone'
  <2>1. lock = {c} /\ lock' = {} /\ at' = [at EXCEPT ![c] = "rest"]
    BY <1>3 DEF Renewed, Refused, Asking, Release, Goes
  <2> QED
    BY <1>0, <2>1
<1>4. ASSUME NEW c \in Client, Unanswered(c)
      PROVE  Held' /\ Alone'
  <2>1. lock' = lock \ {c} /\ at' = [at EXCEPT ![c] = "rest"]
    BY <1>4 DEF Unanswered, Release, Goes
  <2>2. CASE lock = {c}
    BY <1>0, <2>1, <2>2
  <2>3. CASE lock # {c}
    BY <1>0, <2>1, <2>3
  <2> QED
    BY <2>2, <2>3
<1>5. CASE ServerStep \/ Ages \/ UNCHANGED vars
  BY <1>5 DEF ServerStep, Ages, vars
<1>6. CASE Quit
  BY <1>6 DEF Quit
<1> QED
  BY <1>1, <1>2, <1>3, <1>4, <1>5, <1>6 DEF Next

\* What becomes of the issued tokens and of the answers.
LEMMA CommitKnown ==
  ASSUME AccountsInv, NEW s \in Slot, Commit(s)
  PROVE  /\ Issued \subseteq Issued'
         /\ \A c \in Client : Got(c)' => \/ Got(c) /\ tx'[c].token = tx[c].token
                                         \/ tx'[c].token \in Issued' \cup {0}
<1>1. Issued' = IF tx[s].issue THEN Issued \cup {NewToken} ELSE Issued
  BY CommitTokens
<1>2. \A c \in Client : c \in Slot
  BY ClientIsSlot
<1>3. ASSUME NEW c \in Client, Got(c)', c # s
      PROVE  Got(c) /\ tx'[c].token = tx[c].token
  <2>1. ~ Busy(c)
    <3>1. Busy(c) => Busy(c)'
      BY <1>2, <1>3, CommitOthers DEF Noted, Busy
    <3> QED
      BY <1>3, <3>1 DEF Busy, Got, Op
  <2>2. tx'[c] = tx[c]
    BY <1>2, <1>3, <2>1, CommitOthers
  <2> QED
    BY <1>3, <2>2 DEF Got
<1>4. ASSUME s \in Client PROVE tx'[s].token \in Issued' \cup {0}
  <2>1. tx'[s] = [op |-> "answer", token |-> IF tx[s].issue THEN NewToken ELSE 0]
    BY <1>4, CommitOthers DEF Answered
  <2> QED
    BY <1>1, <2>1
<1> QED
  BY <1>1, <1>3, <1>4

\* The answer, if any, that a request read leaves in its slot.
LEMMA AdmittedSlots ==
  ASSUME AccountsInv, NEW s \in Slot, NEW w, Admitted(s, w)
  PROVE  /\ UNCHANGED Tables
         /\ ~ Busy(s) /\ ~ Got(s) /\ tx'[s] = w /\ w \in Tx /\ w.op \in Op
         /\ \A c \in Slot \ {s} : tx'[c] = tx[c]
  BY NotBusy DEF Admitted, Tables, AccountsInv, TypeOK, Busy, Got, Idle, Tx

\* Nobody waits for the answer to a request of somebody else's: its refusal is no step
\* here.
LEMMA WebRequest ==
  ASSUME AccountsInv, NEW s \in Slot \ Client, Request(s)
  PROVE  \E w \in Tx : Admitted(s, w)
<1>1. ~ Refusal(s)
  BY DEF Refusal
<1> QED
  BY <1>1, RequestAdmits

\* A refresh by the machine is refused, or admitted.
LEMMA PresentsAdmits ==
  ASSUME AccountsInv, NEW c \in Client, NEW n, Presents(c, n)
  PROVE  Refusal(c) \/ \E w \in Tx : Admitted(c, w)
<1>1. CASE n = Phantom
  BY <1>1 DEF Presents, Refuse, Refusal, Asks
<1>2. CASE n # Phantom
  <2>1. Request(c)
    BY <1>2 DEF Presents, Refresh, Issued, Request
  <2> QED
    BY <2>1, ClientIsSlot, RequestAdmits
<1> QED
  BY <1>1, <1>2

\* The slots after a refusal.
LEMMA RefusalSlots ==
  ASSUME AccountsInv, NEW c \in Client, Refusal(c)
  PROVE  /\ UNCHANGED Tables /\ tx'[c] = [op |-> "answer", token |-> 0]
         /\ \A d \in Slot \ {c} : tx'[d] = tx[d]
  BY ClientIsSlot DEF Refusal, Tables, AccountsInv, TypeOK

\* The slots after an answer is taken.
LEMMA TakenSlots ==
  ASSUME AccountsInv, NEW c \in Client, Takes(c)
  PROVE  /\ tx'[c] = Idle /\ ~ Got(c)' /\ ~ Busy(c)'
         /\ \A d \in Slot \ {c} : tx'[d] = tx[d]
  BY ClientIsSlot DEF Takes, AccountsInv, TypeOK, Got, Busy, Idle, Op

\* The slots after a rollback.
LEMMA RollbackSlots ==
  ASSUME AccountsInv, NEW s \in Slot, Rollback(s)
  PROVE  /\ UNCHANGED Tables /\ Busy(s) /\ ~ Busy(s)'
         /\ s \in Client => /\ tx'[s].op = "answer"
                           /\ tx'[s].token = IF tx[s].issue THEN Phantom ELSE 0
         /\ \A d \in Slot \ {s} : tx'[d] = tx[d]
<1>1. UNCHANGED Tables /\ Busy(s)
  BY DEF Rollback, Tables
<1>2. tx'[s] = Answered(s, IF tx[s].issue THEN Phantom ELSE 0)
  BY DEF Rollback, AccountsInv, TypeOK
<1>3. \A d \in Slot \ {s} : tx'[d] = tx[d]
  BY DEF Rollback, AccountsInv, TypeOK
<1> QED
  BY <1>1, <1>2, <1>3 DEF Answered, Busy, Idle, Op

\* Every token the machine sees was issued, or its commit failed.
LEMMA KnownKeeps ==
  ASSUME AccountsInv, Known, [Next]_vars
  PROVE  Known'
<1>1. \A c \in Client : c \in Slot
  BY ClientIsSlot
<1>2. UNCHANGED Tables => Issued' = Issued
  BY TablesStay
<1>3. ASSUME NEW c \in Client, RestoreAsks(c) \/ Renew(c) \/ SignIn(c) PROVE Known'
  <2>1. disk' = disk
    BY <1>3 DEF RestoreAsks, Renew, SignIn
  <2>2. Refusal(c) \/ \E w \in Tx : Admitted(c, w)
    <3>1. CASE SignIn(c)
      <4>1. Request(c)
        BY <3>1, DesktopAssumption DEF SignIn, Request
      <4> QED
        BY <1>1, <4>1, RequestAdmits
    <3>2. CASE RestoreAsks(c) \/ Renew(c)
      BY <3>2, PresentsAdmits DEF RestoreAsks, Renew
    <3> QED
      BY <1>3, <3>1, <3>2
  <2>3. CASE Refusal(c)
    BY <1>1, <1>2, <2>1, <2>3, RefusalSlots DEF Known, Got
  <2>4. ASSUME NEW w \in Tx, Admitted(c, w) PROVE Known'
    BY <1>1, <1>2, <2>1, <2>4, AdmittedSlots DEF Known, Got, Op
  <2> QED
    BY <2>2, <2>3, <2>4
<1>4. ASSUME NEW c \in Client, SignedIn(c) \/ Renewed(c) \/ Refused(c) \/ Unanswered(c) \/ ToNobody(c)
      PROVE  Known'
  <2>1. Takes(c) /\ UNCHANGED Tables /\ disk' \in {0, disk, tx[c].token} /\ Got(c)
    BY <1>4 DEF SignedIn, Renewed, Refused, Unanswered, ToNobody, Release, Asking, Installs,
       StoreFails, Server, Tables
  <2> QED
    BY <1>1, <1>2, <2>1, TakenSlots DEF Known, Got
<1>5. ASSUME NEW c \in Client, Restore(c) \/ SignOut(c) \/ Forget(c) PROVE Known'
  <2>1. UNCHANGED server /\ disk' \in {0, disk}
    BY <1>5 DEF Restore, SignOut, Forget
  <2> QED
    BY <1>2, <2>1 DEF Known, Got, server, Tables
<1>6. CASE Ages \/ Quit \/ UNCHANGED vars
  <2>1. UNCHANGED server /\ disk' = disk
    BY <1>6 DEF Ages, Quit, vars
  <2> QED
    BY <1>2, <2>1 DEF Known, Got, server, Tables
<1>7. CASE ServerStep
  <2>1. disk' = disk /\ AccountsNext
    BY <1>7 DEF ServerStep
  <2>2. ASSUME NEW s \in Slot \ Client, Request(s) PROVE Known'
    <3>1. PICK w \in Tx : Admitted(s, w)
      BY <2>2, WebRequest
    <3> QED
      BY <1>1, <1>2, <2>1, <3>1, AdmittedSlots DEF Known, Got
  <2>3. ASSUME NEW s \in Slot, Commit(s) PROVE Known'
    BY <2>1, <2>3, CommitKnown DEF Known
  <2>4. ASSUME NEW s \in Slot, Rollback(s) PROVE Known'
    <3>1. /\ UNCHANGED Tables
          /\ s \in Client => tx'[s].token \in {0, Phantom}
          /\ \A d \in Slot \ {s} : tx'[d] = tx[d]
      BY <2>4, RollbackSlots
    <3>2. \A c \in Client : Got(c)' => tx'[c].token \in Issued \cup {0, Phantom}
      BY <1>1, <3>1 DEF Known, Got
    <3> QED
      BY <1>2, <2>1, <3>1, <3>2 DEF Known
  <2>5. CASE Expire
    <3>1. tx' = tx /\ Issued' = Issued
      BY <2>5, ExpireTables
    <3> QED
      BY <2>1, <3>1 DEF Known, Got
  <2> QED
    BY <2>1, <2>2, <2>3, <2>4, <2>5 DEF AccountsNext
<1> QED
  BY <1>3, <1>4, <1>5, <1>6, <1>7 DEF Next

\* Tokens keep working while the tables stay.
LEMMA GoodStays ==
  ASSUME UNCHANGED Tables
  PROVE  \A n : Good(n)' <=> Good(n)
  BY DEF Tables, Good, Live, Issued

\* So it stays that a revoked account has no token, and mints none.
LEMMA UnrevokedStays ==
  ASSUME UNCHANGED Tables, Unrevoked,
         \A s \in Slot : Busy(s)' => \/ Busy(s) /\ tx'[s] = tx[s]
                                     \/ tx'[s].issue => ~ user[tx'[s].who].revoked
  PROVE  Unrevoked'
<1>1. user' = user /\ token' = token /\ Issued' = Issued
  BY DEF Tables, Issued
<1> QED
  BY <1>1 DEF Unrevoked

\* Steps of a thread that neither ask nor take an answer.
LEMMA QuietLinks ==
  ASSUME AccountsInv, MachineInv, Linked, UNCHANGED server,
         \/ \E c \in Client : Restore(c) \/ SignOut(c) \/ Forget(c)
         \/ Ages \/ Quit \/ UNCHANGED vars,
         ~ excused', DesktopTypeOK
  PROVE  Linked'
<1>1. UNCHANGED Tables /\ tx' = tx
  BY DEF server, Tables
<1>2. \A n : Good(n)' <=> Good(n)
  BY <1>1, GoodStays
<1>3. Unrevoked'
  BY <1>1, UnrevokedStays DEF Linked, Busy
<1>4. at \in [Client -> Where]
  BY DEF DesktopTypeOK
<1>5. /\ disk' \in {0, disk} /\ (linked' => linked /\ disk' = disk)
      /\ lock' = lock
      /\ \A c \in Client : (Awaits(c)' \/ Holds(c)') => at'[c] = at[c]
      /\ \A c \in Client : Holds(c) => at'[c] = at[c]
  <2>1. ASSUME NEW c \in Client, Restore(c) \/ SignOut(c) \/ Forget(c)
        PROVE  /\ disk' \in {0, disk} /\ (linked' => linked /\ disk' = disk)
               /\ lock' = lock
               /\ \A d \in Client : (Awaits(d)' \/ Holds(d)') => at'[d] = at[d]
               /\ \A d \in Client : Holds(d) => at'[d] = at[d]
    BY <1>4, <2>1 DEF Restore, SignOut, Forget, Goes, Awaits, Holds, Try
  <2>2. CASE Ages \/ UNCHANGED vars
    BY <2>2 DEF Ages, vars
  <2>3. CASE Quit
    <3>1. lock = {} /\ lock' = {} /\ disk' = disk /\ linked' = linked
      BY <2>3 DEF Quit
    <3>2. \A d \in Client : ~ Awaits(d)' /\ ~ Holds(d)'
      BY <2>3 DEF Quit, Awaits, Holds
    <3>3. \A d \in Client : ~ Holds(d)
      BY <3>1 DEF MachineInv, Held
    <3> QED
      BY <3>1, <3>2, <3>3
  <2> QED
    BY <2>1, <2>2, <2>3
<1>6. OnDisk'
  BY <1>2, <1>5, NoPhantom DEF Linked, OnDisk
<1>7. ASSUME NEW c \in Client PROVE Calls(c)' /\ Waits(c)' /\ Gets(c)' /\ Fresh(c)'
  <2>1. Calls(c) /\ Waits(c) /\ Gets(c) /\ Fresh(c)
    BY DEF Linked
  <2>2. Calls(c)'
    BY <1>1, <1>2, <1>5, <2>1 DEF Calls, Holds, Busy, Mine, Rotating
  <2>3. Waits(c)' /\ Gets(c)'
    BY <1>1, <1>2, <1>5, <2>1 DEF Waits, Gets, Awaits, Busy, Got
  <2>4. Fresh(c)'
    <3>1. at[c] = "signing" /\ Got(c) => tx[c].token # 0
      BY <2>1, GoodIsIssued, NoPhantom DEF Gets, Awaits
    <3>2. at'[c] = "signing" => at[c] = "signing"
      BY <1>5 DEF Awaits
    <3> QED
      BY <1>1, <1>5, <2>1, <3>1, <3>2 DEF Fresh, Busy, Got
  <2> QED
    BY <2>2, <2>3, <2>4
<1> QED
  BY <1>3, <1>6, <1>7 DEF Linked

\* A sign-in asks.
LEMMA SignInLinks ==
  ASSUME AccountsInv, MachineInv, Linked, DesktopTypeOK, NEW c \in Client, SignIn(c), ~ excused'
  PROVE  Linked'
<1>1. c \in Slot /\ Me \in Address
  BY ClientIsSlot, DesktopAssumption
<1> DEFINE e == [Write("authenticate", Me) EXCEPT !.issue = TRUE]
<1>2. PICK w : w = e
  OBVIOUS
<1>3. Read(c, w) /\ ~ user[Me].revoked
  BY <1>2 DEF SignIn, Authenticate
<1>4. w.op = "authenticate" /\ w.who = Me /\ w.spend = 0 /\ w.issue = TRUE
  BY <1>2 DEF Write
<1>5. /\ UNCHANGED Tables /\ tx[c] = Idle /\ tx' = [tx EXCEPT ![c] = w]
      /\ disk' = disk /\ lock' = lock /\ linked' = linked /\ at' = [at EXCEPT ![c] = "signing"]
      /\ at[c] = "rest"
  BY <1>3 DEF Read, Asks, SignIn, Tables, Goes, Try
<1>6. tx \in [Slot -> Tx \cup Answer \cup {Idle}] /\ at \in [Client -> Where]
  BY DEF DesktopTypeOK, TypeOK
<1>7. tx'[c] = w /\ \A s \in Slot \ {c} : tx'[s] = tx[s]
  BY <1>1, <1>5, <1>6
<1>8. \A n : Good(n)' <=> Good(n)
  BY <1>5, GoodStays
<1>9. Unrevoked'
  <2>1. \A s \in Slot : Busy(s)' => \/ Busy(s) /\ tx'[s] = tx[s]
                                    \/ tx'[s].issue => ~ user[tx'[s].who].revoked
    BY <1>3, <1>4, <1>7 DEF Busy
  <2> QED
    BY <1>5, <2>1, UnrevokedStays DEF Linked
<1>10. OnDisk'
  BY <1>5, <1>8 DEF Linked, OnDisk
<1>11. Busy(c)' /\ ~ Got(c)' /\ at'[c] = "signing" /\ ~ Busy(c) /\ ~ Got(c)
  BY <1>4, <1>5, <1>6, <1>7 DEF Busy, Got, Op, Idle
<1>12. ASSUME NEW d \in Client, d # c PROVE Calls(d)' /\ Waits(d)' /\ Gets(d)' /\ Fresh(d)'
  <2>1. Calls(d) /\ Waits(d) /\ Gets(d) /\ Fresh(d)
    BY DEF Linked
  <2>2. tx'[d] = tx[d] /\ at'[d] = at[d]
    BY <1>5, <1>6, <1>7, <1>12, ClientIsSlot
  <2>3. Calls(d)'
    BY <1>5, <1>8, <2>1, <2>2 DEF Calls, Holds, Busy, Mine, Rotating
  <2>4. Waits(d)' /\ Gets(d)'
    BY <1>8, <2>1, <2>2 DEF Waits, Gets, Awaits, Busy, Got
  <2>5. Fresh(d)'
    <3>1. Awaits(d) /\ Got(d) => tx[d].token # 0
      BY <2>1, GoodIsIssued, NoPhantom DEF Gets
    <3>2. \A f \in Client \ {c} : tx'[f] = tx[f]
      BY <1>7, ClientIsSlot
    <3> QED
      BY <1>4, <1>5, <1>7, <1>11, <2>1, <2>2, <3>1, <3>2 DEF Fresh, Busy, Got, Awaits
  <2> QED
    BY <2>3, <2>4, <2>5
<1>13. Calls(c)' /\ Waits(c)' /\ Gets(c)' /\ Fresh(c)'
  BY <1>4, <1>7, <1>11 DEF Calls, Waits, Gets, Fresh, Holds, Mine
<1> QED
  BY <1>9, <1>10, <1>12, <1>13 DEF Linked

\* A thread takes its answer and stores what it says, or does not.
LEMMA TakingLinks ==
  ASSUME AccountsInv, MachineInv, Linked, DesktopTypeOK, NEW c \in Client,
         SignedIn(c) \/ Renewed(c) \/ Refused(c) \/ Unanswered(c) \/ ToNobody(c),
         ~ excused'
  PROVE  Linked'
<1>1. /\ Takes(c) /\ Got(c) /\ UNCHANGED Tables
      /\ at' = at \/ at' = [at EXCEPT ![c] = "rest"]
      /\ ToNobody(c) => at[c] = "rest" /\ lock' = lock
  BY DEF SignedIn, Renewed, Refused, Unanswered, ToNobody, Release, Asking, Goes, Server, Tables
<1>2. at \in [Client -> Where]
  BY DEF DesktopTypeOK
<1>3. /\ ~ Got(c)' /\ ~ Busy(c)' /\ \A s \in Slot \ {c} : tx'[s] = tx[s]
  BY <1>1, TakenSlots
<1>4. \A n : Good(n)' <=> Good(n)
  BY <1>1, GoodStays
<1>5. Unrevoked'
  <2>1. \A s \in Slot : Busy(s)' => Busy(s) /\ tx'[s] = tx[s]
    BY <1>3 DEF Busy
  <2> QED
    BY <1>1, <2>1, UnrevokedStays DEF Linked
<1>6. Calls(c) /\ Waits(c) /\ Gets(c) /\ Fresh(c) /\ OnDisk /\ Held /\ Alone
  BY DEF Linked, MachineInv
<1>7. Awaits(c) /\ tx[c].token # Phantom => Good(tx[c].token)
  BY <1>1, <1>6 DEF Gets
\* What the disk holds then, and what the lock.
<1>8. /\ at'[c] = "rest" /\ ~ Awaits(c)'
      /\ \/ disk' = disk /\ (linked' => linked) /\ (lock # {} => lock' = lock)
         \/ disk' = tx[c].token /\ Awaits(c) /\ tx[c].token # Phantom /\ (lock = {} \/ lock = {c})
      /\ lock' = {} \/ lock' = lock
  <2>1. CASE SignedIn(c)
    <3>1. at' = [at EXCEPT ![c] = "rest"] /\ at[c] = "signing" /\ lock = {} /\ lock' = lock
      BY <2>1 DEF SignedIn, Goes
    <3>2. at'[c] = "rest" /\ ~ Awaits(c)' /\ Awaits(c)
      BY <1>2, <3>1 DEF Awaits
    <3>3. CASE Installs(tx[c].token) /\ excused' = (excused \/ tx[c].token = Phantom)
      <4>1. tx[c].token # Phantom
        BY <3>3, Zenon
      <4>2. disk' = tx[c].token
        BY <3>3 DEF Installs
      <4> QED
        BY <3>1, <3>2, <4>1, <4>2
    <3>4. CASE StoreFails /\ UNCHANGED linked
      <4>1. disk' = disk /\ linked' = linked
        BY <3>4 DEF StoreFails
      <4> QED
        BY <3>1, <3>2, <4>1
    <3> QED
      BY <2>1, <3>3, <3>4 DEF SignedIn
  <2>2. CASE Renewed(c)
    <3>1. lock = {c} /\ lock' = {}
      BY <1>6, <2>2 DEF Renewed, Asking, Release, Held, Holds
    <3> QED
      BY <1>2, <2>2, <3>1 DEF Renewed, Installs, Asking, Release, Goes, Awaits
  <2>3. CASE Refused(c)
    <3>1. Awaits(c) /\ tx[c].token = 0
      BY <2>3 DEF Refused, Asking, Awaits
    <3> QED
      BY <1>7, <3>1, GoodIsIssued, NoPhantom
  <2>4. CASE Unanswered(c)
    <3>1. at[c] = "signing"
      BY <2>4 DEF Unanswered
    <3>2. lock # {c}
      BY <1>6, <3>1 DEF Held, Holds
    <3>3. lock' = lock
      BY <1>6, <2>4, <3>2 DEF Unanswered, Release, Alone
    <3> QED
      BY <1>2, <2>4, <3>3 DEF Unanswered, Release, Goes, Awaits
  <2>5. CASE ToNobody(c)
    BY <2>5 DEF ToNobody, Awaits
  <2> QED
    BY <2>1, <2>2, <2>3, <2>4, <2>5
<1>9. OnDisk'
  <2>1. CASE disk' = disk /\ (linked' => linked) /\ (lock # {} => lock' = lock)
    BY <1>4, <1>6, <1>8, <2>1 DEF OnDisk
  <2>2. CASE disk' = tx[c].token /\ Awaits(c) /\ tx[c].token # Phantom
    <3>1. Good(tx[c].token)
      BY <1>7, <2>2
    <3>2. PICK n : n = tx[c].token
      OBVIOUS
    <3> QED
      BY <1>4, <2>2, <3>1, <3>2, GoodIsIssued DEF OnDisk
  <2> QED
    BY <1>8, <2>1, <2>2
<1>10. ASSUME NEW d \in Client, d # c PROVE Calls(d)' /\ Waits(d)' /\ Gets(d)' /\ Fresh(d)'
  <2>1. Calls(d) /\ Waits(d) /\ Gets(d) /\ Fresh(d)
    BY DEF Linked
  <2>2. tx'[d] = tx[d] /\ at'[d] = at[d]
    BY <1>1, <1>2, <1>3, <1>10, ClientIsSlot
  <2>3. Calls(d)'
    <3>1. Holds(d) => disk' = disk
      BY <1>6, <1>8, <1>10 DEF Held
    <3> QED
      BY <1>4, <2>1, <2>2, <3>1 DEF Calls, Holds, Busy, Mine, Rotating
  <2>4. Waits(d)' /\ Gets(d)'
    BY <1>4, <2>1, <2>2 DEF Waits, Gets, Awaits, Busy, Got
  <2>5. Fresh(d)'
    <3>1. \A f \in Client \ {c} : tx'[f] = tx[f]
      BY <1>3, ClientIsSlot
    <3>2. at[d] = "signing" /\ Got(d) => tx[d].token # disk'
      <4>1. at[d] = "signing" /\ Got(d) => tx[d].token # disk
        BY <2>1 DEF Fresh
      <4>2. at[d] = "signing" /\ Got(d) => tx[d].token = Phantom \/ tx[c].token # tx[d].token
        BY <1>1, <1>10, <2>1 DEF Fresh
      <4> QED
        BY <1>8, <4>1, <4>2
    <3> QED
      BY <1>3, <2>1, <2>2, <3>1, <3>2 DEF Fresh, Busy, Got
  <2> QED
    BY <2>3, <2>4, <2>5
<1>11. Calls(c)' /\ Waits(c)' /\ Gets(c)' /\ Fresh(c)'
  BY <1>3, <1>8 DEF Calls, Waits, Gets, Fresh, Awaits
<1> QED
  BY <1>5, <1>9, <1>10, <1>11 DEF Linked

\* The token on disk works: presenting it asks for the next one.
LEMMA PresentsRotates ==
  ASSUME AccountsInv, Unrevoked, NEW c \in Client, NEW n, Good(n), Presents(c, n)
  PROVE  \E w : Read(c, w) /\ Rotating(w) /\ w.spend = n /\ w.issue = TRUE
                /\ ~ user[w.who].revoked
<1>1. n \in Issued /\ n # Phantom /\ Live(n) /\ ~ token[n].old /\ token[n].who = Me
  BY GoodIsIssued DEF Good
<1>2. ~ user[Me].revoked
  BY <1>1 DEF Unrevoked
<1>3. Refresh(c, n)
  BY <1>1 DEF Presents
<1>4. ~ Reused(n) /\ ~ Rejected(n)
  BY <1>1 DEF Live, Reused, Rejected
<1>5. Rotate(c, n)
  BY <1>1, <1>2, <1>3, <1>4 DEF Refresh
<1> DEFINE e == [Write("refresh", token[n].who) EXCEPT !.spend = n, !.issue = TRUE]
<1>6. PICK w : w = e
  OBVIOUS
<1>7. w.op = "refresh" /\ w.who = token[n].who /\ w.spend = n /\ w.issue = TRUE
  BY <1>6 DEF Write
<1>8. Read(c, w)
  BY <1>5, <1>6 DEF Rotate
<1> QED
  BY <1>1, <1>2, <1>7, <1>8 DEF Rotating

\* Who asks under the lock presents what is on disk.
LEMMA AskingLinks ==
  ASSUME AccountsInv, MachineInv, Linked, DesktopTypeOK, NEW c \in Client,
         RestoreAsks(c) \/ Renew(c), ~ excused'
  PROVE  Linked'
<1>1. /\ Presents(c, disk) /\ lock = {} /\ lock' = {c}
      /\ disk' = disk /\ linked' = linked
      /\ \/ at' = [at EXCEPT ![c] = "restoring"]
         \/ at' = [at EXCEPT ![c] = "renewing"]
  <2>1. CASE RestoreAsks(c)
    <3>1. kept[c] = disk
      BY <2>1, Zenon DEF RestoreAsks
    <3> QED
      BY <2>1, <3>1 DEF RestoreAsks, Goes
  <2>2. CASE Renew(c)
    BY <2>2 DEF Renew, Goes
  <2> QED
    BY <2>1, <2>2
<1>2. Unrevoked /\ OnDisk /\ Held /\ Known
  BY DEF Linked, MachineInv
<1>3. Good(disk)
  <2>1. disk # 0
    <3>1. disk = 0 => disk # Phantom /\ disk \notin Issued
      BY NoPhantom DEF Issued
    <3> QED
      BY <1>1, <3>1 DEF Presents, Refresh
  <2> QED
    BY <1>1, <1>2, <2>1 DEF OnDisk
<1>4. PICK w : Read(c, w) /\ Rotating(w) /\ w.spend = disk /\ w.issue = TRUE
               /\ ~ user[w.who].revoked
  BY <1>1, <1>2, <1>3, PresentsRotates
<1>5. UNCHANGED Tables /\ tx[c] = Idle /\ tx' = [tx EXCEPT ![c] = w]
  BY <1>4 DEF Read, Asks, Tables
<1>6. tx \in [Slot -> Tx \cup Answer \cup {Idle}] /\ at \in [Client -> Where]
  BY DEF DesktopTypeOK, TypeOK
<1>7. tx'[c] = w /\ \A s \in Slot \ {c} : tx'[s] = tx[s]
  BY <1>5, <1>6, ClientIsSlot
<1>8. \A n : Good(n)' <=> Good(n)
  BY <1>5, GoodStays
<1>9. Unrevoked'
  <2>1. \A s \in Slot : Busy(s)' => \/ Busy(s) /\ tx'[s] = tx[s]
                                    \/ tx'[s].issue => ~ user[tx'[s].who].revoked
    BY <1>4, <1>7 DEF Busy
  <2> QED
    BY <1>2, <1>5, <2>1, UnrevokedStays
<1>10. OnDisk'
  BY <1>1, <1>2 DEF OnDisk
<1>11. Busy(c)' /\ ~ Got(c)' /\ Holds(c)' /\ ~ Busy(c) /\ ~ Got(c) /\ at'[c] # "signing"
  BY <1>1, <1>4, <1>5, <1>6, <1>7 DEF Busy, Got, Op, Idle, Rotating, Holds
<1>12. ASSUME NEW d \in Client, d # c PROVE Calls(d)' /\ Waits(d)' /\ Gets(d)' /\ Fresh(d)'
  <2>1. Calls(d) /\ Waits(d) /\ Gets(d) /\ Fresh(d)
    BY DEF Linked
  <2>2. tx'[d] = tx[d] /\ at'[d] = at[d]
    BY <1>1, <1>6, <1>7, <1>12, ClientIsSlot
  <2>3. Calls(d)'
    BY <1>1, <1>8, <2>1, <2>2 DEF Calls, Holds, Busy, Mine, Rotating
  <2>4. Waits(d)' /\ Gets(d)'
    BY <1>8, <2>1, <2>2 DEF Waits, Gets, Awaits, Busy, Got
  <2>5. Fresh(d)'
    <3>1. \A f \in Client \ {c} : tx'[f] = tx[f]
      BY <1>7, ClientIsSlot
    <3> QED
      BY <1>1, <1>4, <1>7, <1>11, <2>1, <2>2, <3>1 DEF Fresh, Busy, Got
  <2> QED
    BY <2>3, <2>4, <2>5
<1>13. Calls(c)' /\ Waits(c)' /\ Gets(c)' /\ Fresh(c)'
  <2>1. PICK n : n = disk
    OBVIOUS
  <2>2. Good(n)' /\ tx'[c].spend = n /\ disk' = n
    BY <1>1, <1>3, <1>4, <1>7, <1>8, <2>1
  <2>3. Rotating(tx[c])'
    BY <1>4, <1>7 DEF Rotating
  <2> QED
    BY <1>11, <2>2, <2>3 DEF Calls, Waits, Gets, Fresh
<1> QED
  BY <1>9, <1>10, <1>12, <1>13 DEF Linked

\* A request of somebody else's is read.
LEMMA WebRequestLinks ==
  ASSUME AccountsInv, MachineInv, Linked, NEW s \in Slot \ Client, Request(s),
         UNCHANGED << disk, lock, at, linked >>
  PROVE  Linked'
<1>1. PICK w \in Tx : Admitted(s, w)
  BY WebRequest
<1>2. UNCHANGED Tables /\ tx'[s] = w /\ \A r \in Slot \ {s} : tx'[r] = tx[r]
  BY <1>1, AdmittedSlots
<1>3. \A n : Good(n)' <=> Good(n)
  BY <1>2, GoodStays
<1>4. Unrevoked'
  <2>1. \A r \in Slot : Busy(r)' => \/ Busy(r) /\ tx'[r] = tx[r]
                                    \/ tx'[r].issue => ~ user[tx'[r].who].revoked
    BY <1>1, <1>2 DEF Busy, Admitted
  <2> QED
    BY <1>2, <2>1, UnrevokedStays DEF Linked
<1>5. OnDisk'
  BY <1>3 DEF Linked, OnDisk
<1>6. \A d \in Client : tx'[d] = tx[d]
  BY <1>2, ClientIsSlot
<1>7. ASSUME NEW d \in Client PROVE Calls(d)' /\ Waits(d)' /\ Gets(d)' /\ Fresh(d)'
  <2>1. Calls(d) /\ Waits(d) /\ Gets(d) /\ Fresh(d)
    BY DEF Linked
  <2>2. Calls(d)'
    BY <1>3, <1>6, <2>1 DEF Calls, Holds, Busy, Mine, Rotating
  <2>3. Waits(d)' /\ Gets(d)' /\ Fresh(d)'
    BY <1>3, <1>6, <2>1 DEF Waits, Gets, Fresh, Awaits, Busy, Got
  <2> QED
    BY <2>2, <2>3
<1> QED
  BY <1>4, <1>5, <1>7 DEF Linked

\* An answer whose transaction failed: nothing was spent for it.
LEMMA RollbackLinks ==
  ASSUME AccountsInv, MachineInv, Linked, NEW s \in Slot, Rollback(s),
         UNCHANGED << disk, lock, at, linked >>
  PROVE  Linked'
<1>1. /\ UNCHANGED Tables /\ Busy(s) /\ ~ Busy(s)'
      /\ s \in Client => /\ tx'[s].op = "answer"
                         /\ tx'[s].token = IF tx[s].issue THEN Phantom ELSE 0
      /\ \A r \in Slot \ {s} : tx'[r] = tx[r]
  BY RollbackSlots
<1>2. \A n : Good(n)' <=> Good(n)
  BY <1>1, GoodStays
<1>3. Unrevoked'
  <2>1. \A r \in Slot : Busy(r)' => Busy(r) /\ tx'[r] = tx[r]
    BY <1>1 DEF Busy
  <2> QED
    BY <1>1, <2>1, UnrevokedStays DEF Linked
<1>4. OnDisk'
  BY <1>2 DEF Linked, OnDisk
<1>5. \A d \in Client \ {s} : tx'[d] = tx[d]
  BY <1>1, ClientIsSlot
<1>6. s \in Client => tx'[s].token = Phantom
  <2>1. s \in Client => tx[s].op \in {"authenticate", "refresh"}
    BY <1>1 DEF Linked, Calls, Mine, Rotating
  <2>2. Formed(tx[s])
    BY <1>1, CommitReads
  <2> QED
    BY <1>1, <2>1, <2>2 DEF Formed
<1>7. ASSUME NEW d \in Client, d # s PROVE Calls(d)' /\ Waits(d)' /\ Gets(d)' /\ Fresh(d)'
  <2>1. Calls(d) /\ Waits(d) /\ Gets(d) /\ Fresh(d)
    BY DEF Linked
  <2>2. tx'[d] = tx[d]
    BY <1>5, <1>7
  <2>3. Calls(d)'
    BY <1>2, <2>1, <2>2 DEF Calls, Holds, Busy, Mine, Rotating
  <2>4. Waits(d)' /\ Gets(d)'
    BY <1>2, <2>1, <2>2 DEF Waits, Gets, Awaits, Busy, Got
  <2>5. Fresh(d)'
    BY <1>1, <1>5, <1>6, <2>1, <2>2 DEF Fresh, Busy, Got
  <2> QED
    BY <2>3, <2>4, <2>5
<1>8. ASSUME s \in Client PROVE Calls(s)' /\ Waits(s)' /\ Gets(s)' /\ Fresh(s)'
  <2>1. Got(s)' /\ ~ Busy(s)' /\ tx'[s].token = Phantom
    BY <1>1, <1>6, <1>8 DEF Got
  <2>2. disk # Phantom
    BY DEF Linked, OnDisk
  <2>3. \A d \in Client \ {s} : Busy(d)' => tx'[d].spend # Phantom
    <3>1. \A d \in Client \ {s} : Busy(d) => tx[d].spend # Phantom
      BY ClientIsSlot, CommitReads, NoPhantom DEF Issued
    <3> QED
      BY <1>5, <3>1 DEF Busy
  <2> QED
    BY <2>1, <2>2, <2>3 DEF Calls, Waits, Gets, Fresh
<1> QED
  BY <1>3, <1>4, <1>7, <1>8 DEF Linked

\* Nothing of the machine's expires.
LEMMA ExpireLinks ==
  ASSUME AccountsInv, MachineInv, Linked, Expire, ~ Elsewhere,
         UNCHANGED << disk, lock, at, linked >>
  PROVE  Linked'
<1>1. UNCHANGED << user, tx >> /\ Issued' = Issued
  BY ExpireTables
<1>2. token' = token
  <2>1. ASSUME NEW t \in Issued, ~ token[t].old, token' = [token EXCEPT ![t].old = TRUE]
        PROVE  FALSE
    <3>1. t \in Token /\ token[t] \in RefreshToken /\ token \in [Token -> RefreshToken]
      BY DEF Issued, AccountsInv, TypeOK
    <3>2. token'[t].old = TRUE
      BY <2>1, <3>1 DEF RefreshToken
    <3>3. token'[t].old = token[t].old
      BY <3>1 DEF Elsewhere
    <3> QED
      BY <2>1, <3>2, <3>3
  <2> QED
    BY <2>1 DEF Expire
<1>3. \A n : Good(n)' <=> Good(n)
  BY <1>1, <1>2 DEF Good, Live
<1>4. Unrevoked' /\ OnDisk'
  BY <1>1, <1>2, <1>3 DEF Linked, Unrevoked, OnDisk, Busy
<1>5. ASSUME NEW d \in Client PROVE Calls(d)' /\ Waits(d)' /\ Gets(d)' /\ Fresh(d)'
  <2>1. Calls(d) /\ Waits(d) /\ Gets(d) /\ Fresh(d)
    BY DEF Linked
  <2>2. Calls(d)'
    BY <1>1, <1>3, <2>1 DEF Calls, Holds, Busy, Mine, Rotating
  <2>3. Waits(d)' /\ Gets(d)' /\ Fresh(d)'
    BY <1>1, <1>3, <2>1 DEF Waits, Gets, Fresh, Awaits, Busy, Got
  <2> QED
    BY <2>2, <2>3
<1> QED
  BY <1>4, <1>5 DEF Linked

\* What a commit leaves working, when it is excused by nothing.
LEMMA CommitLeavesGood ==
  ASSUME AccountsInv, Linked, NEW s \in Slot, Commit(s), s \notin Client => ~ Elsewhere
  PROVE  /\ s \in Client => Mine(tx[s]) \/ (Rotating(tx[s]) /\ Holds(s))
         /\ ~ (tx[s].who = Me /\ Ends(tx[s]))
         /\ s \notin Client => \A n : Good(n) => Good(n)'
         /\ \A n : Good(n) /\ n # tx[s].spend => Good(n)'
<1>1. /\ tx[s] \in Tx /\ Formed(tx[s]) /\ Grounded(tx[s]) /\ tx[s].kill \subseteq Issued
      /\ Busy(s)
  BY CommitReads DEF Commit
<1>2. s \in Client => Mine(tx[s]) \/ (Rotating(tx[s]) /\ Holds(s))
  BY <1>1 DEF Linked, Calls
<1>3. s \notin Client => tx'[s] = Idle
  BY CommitOthers DEF Answered
<1>4. s \notin Client => ~ (tx[s].who = Me /\ (Ends(tx[s]) \/ tx[s].spend # 0))
  BY <1>1, <1>3 DEF Elsewhere
<1>5. ~ (tx[s].who = Me /\ Ends(tx[s]))
  BY <1>2, <1>4 DEF Mine, Rotating, Ends
<1>6. ASSUME NEW n, Good(n), n # tx[s].spend PROVE Good(n)'
  <2>1. n \in Issued /\ n \in Token /\ token[n].who = Me
    BY <1>6, GoodIsIssued DEF Good
  <2>2. n \notin tx[s].kill
    BY <1>1, <1>5, <2>1 DEF Grounded, Formed
  <2>3. token'[n] = token[n] /\ n \in Issued'
    BY <1>6, <2>1, <2>2, CommitTokens
  <2> QED
    BY <1>6, <2>3 DEF Good, Live
<1>7. ASSUME s \notin Client, NEW n, Good(n) PROVE Good(n)'
  <2>1. n \in Issued /\ n # 0 /\ token[n].who = Me
    BY <1>7, GoodIsIssued DEF Good
  <2>2. n # tx[s].spend
    BY <1>1, <1>4, <1>7, <2>1 DEF Grounded
  <2> QED
    BY <1>6, <1>7, <2>2
<1> QED
  BY <1>2, <1>5, <1>6, <1>7

\* A commit nothing excuses keeps a revoked account without tokens.
LEMMA CommitUnrevoked ==
  ASSUME AccountsInv, Linked, NEW s \in Slot, Commit(s), s \notin Client => ~ Elsewhere
  PROVE  Unrevoked'
<1> SUFFICES ASSUME user'[Me].revoked
             PROVE  /\ \A t \in Issued' : token'[t].who # Me
                    /\ \A r \in Slot : Busy(r)' /\ tx'[r].issue => tx'[r].who # Me
  BY DEF Unrevoked
<1>1. user[Me].revoked
  <2>1. ~ (tx[s].op = "revoke" /\ tx[s].who = Me)
    BY CommitLeavesGood DEF Ends
  <2> QED
    BY <2>1, CommitUsers, DesktopAssumption
<1>2. /\ \A t \in Issued : token[t].who # Me
      /\ \A r \in Slot : Busy(r) /\ tx[r].issue => tx[r].who # Me
  BY <1>1 DEF Linked, Unrevoked
<1>3. \A t \in Issued : token'[t].who = token[t].who
  BY CommitTokens DEF Carries
<1>4. \A r \in Slot : Busy(r)' => Busy(r) /\ tx'[r].issue = tx[r].issue /\ tx'[r].who = tx[r].who
  BY CommitOthers DEF Noted
<1>5. ASSUME NEW t \in Issued', t \notin Issued PROVE token'[t].who # Me
  <2>1. tx[s].issue /\ t = NewToken
    BY <1>5, CommitTokens
  <2>2. token'[t].who = tx[s].who
    BY <2>1, NewIsOf
  <2> QED
    BY <1>2, <2>1, <2>2 DEF Commit
<1> QED
  BY <1>2, <1>3, <1>4, <1>5

\* A commit keeps the machine linked: the token it spends is the one whose
\* replacement the holder of the lock waits for, or it is not the machine's.
LEMMA CommitLinked ==
  ASSUME AccountsInv, MachineInv, Linked, NEW s \in Slot, Commit(s),
         s \notin Client => ~ Elsewhere, UNCHANGED << disk, lock, at, linked >>
  PROVE  Linked'
<1> DEFINE w == tx[s]
<1>1. /\ s \in Client => Mine(w) \/ (Rotating(w) /\ Holds(s))
      /\ s \notin Client => \A n : Good(n) => Good(n)'
      /\ \A n : Good(n) /\ n # w.spend => Good(n)'
  BY CommitLeavesGood
<1>2. Formed(w) /\ Busy(s) /\ ~ Busy(s)'
  BY CommitReads, CommitOthers DEF Commit
<1>3. s \in Client /\ w.spend # 0 => lock = {s}
  BY <1>1, <1>2 DEF Formed, Mine, MachineInv, Held
<1>4. \A d \in Client \ {s} :
        /\ Busy(d)' <=> Busy(d)
        /\ Busy(d) => tx'[d].op = tx[d].op /\ tx'[d].who = tx[d].who /\ tx'[d].spend = tx[d].spend
        /\ Got(d)' <=> Got(d)
        /\ Got(d) => tx'[d].token = tx[d].token
  <2> SUFFICES ASSUME NEW d \in Client \ {s}
               PROVE  /\ Busy(d)' <=> Busy(d)
                      /\ Busy(d) => tx'[d].op = tx[d].op /\ tx'[d].who = tx[d].who /\ tx'[d].spend = tx[d].spend
                      /\ Got(d)' <=> Got(d)
                      /\ Got(d) => tx'[d].token = tx[d].token
    OBVIOUS
  <2>1. CASE Busy(d)
    <3>1. tx'[d].op = tx[d].op /\ tx'[d].who = tx[d].who /\ tx'[d].spend = tx[d].spend
      BY <2>1, ClientIsSlot, CommitOthers DEF Noted
    <3>2. ~ Got(d) /\ ~ Got(d)' /\ Busy(d)'
      BY <2>1, <3>1 DEF Busy, Got, Op
    <3> QED
      BY <2>1, <3>1, <3>2
  <2>2. CASE ~ Busy(d)
    <3>1. tx'[d] = tx[d]
      BY <2>2, ClientIsSlot, CommitOthers
    <3> QED
      BY <2>2, <3>1 DEF Busy, Got
  <2> QED
    BY <2>1, <2>2
<1>5. PICK n : n = NewToken
  OBVIOUS
\* Nothing the machine knows is the token that was just issued.
<1>6. s \in Client => /\ Got(s)' /\ tx'[s].token = n /\ Good(n)'
                      /\ n \notin Issued /\ n # 0 /\ n # Phantom
  <2> SUFFICES ASSUME s \in Client
               PROVE  /\ Got(s)' /\ tx'[s].token = n /\ Good(n)'
                      /\ n \notin Issued /\ n # 0 /\ n # Phantom
    OBVIOUS
  <2>1. w.issue /\ w.who = Me
    BY <1>1, <1>2 DEF Formed, Mine, Rotating
  <2>2. tx'[s].op = "answer" /\ tx'[s].token = n
    <3>1. tx'[s] = [op |-> "answer", token |-> n]
      BY <1>5, <2>1, CommitOthers DEF Answered
    <3> QED
      BY <3>1
  <2>3. /\ n \in Token /\ n \notin Issued /\ token'[n].who = w.who
        /\ token'[n].spent = 0 /\ ~ token'[n].revoked /\ ~ token'[n].old
        /\ n \in Issued'
    BY <1>5, <2>1, NewIsOf, CommitTokens
  <2>4. Good(n)'
    BY <2>1, <2>3 DEF Good, Live
  <2> QED
    BY <2>2, <2>3, <2>4, NoPhantom DEF Got
<1>7. Unrevoked'
  BY CommitUnrevoked
<1>8. OnDisk'
  <2>1. Good(disk) /\ lock = {} => Good(disk)'
    <3>1. PICK m : m = disk
      OBVIOUS
    <3>2. Good(m) /\ lock = {} => Good(m)'
      BY <1>1, <1>3, GoodIsIssued
    <3> QED
      BY <3>1, <3>2
  <2> QED
    BY <2>1 DEF Linked, OnDisk
<1>9. \A d \in Client : Got(d) => tx[d].token \in Issued \cup {0, Phantom}
  BY DEF MachineInv, Known
<1>10. \A d \in Client : Busy(d) => tx[d].spend \in Issued \cup {0}
  BY ClientIsSlot, CommitReads
<1>11. ASSUME NEW d \in Client, d # s PROVE Calls(d)' /\ Waits(d)' /\ Gets(d)' /\ Fresh(d)'
  <2>1. Calls(d) /\ Waits(d) /\ Gets(d) /\ Fresh(d)
    BY DEF Linked
  <2>2. at'[d] = at[d] /\ disk' = disk
    OBVIOUS
  <2>3. Holds(d) => \A m : Good(m) => Good(m)'
    <3>1. Holds(d) /\ s \in Client => w.spend = 0
      BY <1>3, <1>11 DEF MachineInv, Held
    <3> QED
      BY <1>1, <3>1, GoodIsIssued
  <2>4. Calls(d)'
    BY <1>4, <1>11, <2>1, <2>2, <2>3 DEF Calls, Holds, Mine, Rotating
  <2>5. Waits(d)'
    BY <1>4, <1>11, <2>1, <2>2 DEF Waits, Awaits
  <2>6. Gets(d)'
    <3>1. PICK m : m = tx[d].token
      OBVIOUS
    <3>2. at[d] = "signing" /\ Got(d) /\ Good(m) => Good(m)'
      <4>1. at[d] = "signing" /\ Got(d) /\ s \in Client => w.spend # m
        BY <1>2, <1>11, <2>1, <3>1 DEF Fresh
      <4> QED
        BY <1>1, <4>1
    <3>3. Awaits(d) /\ Got(d) /\ Good(m) => Good(m)'
      BY <2>3, <3>2 DEF Awaits, Holds
    <3>4. Got(d)' => Got(d) /\ tx'[d].token = m
      BY <1>4, <1>11, <3>1
    <3> QED
      BY <2>1, <2>2, <3>1, <3>3, <3>4 DEF Gets, Awaits
  <2>7. Fresh(d)'
    <3> SUFFICES ASSUME at'[d] = "signing", Got(d)'
                 PROVE  /\ tx'[d].token # disk'
                        /\ \A e \in Client \ {d} :
                             /\ Busy(e)' => tx'[e].spend # tx'[d].token
                             /\ Got(e)' => tx'[d].token = Phantom \/ tx'[e].token # tx'[d].token
      BY DEF Fresh
    <3>1. Got(d) /\ tx'[d].token = tx[d].token /\ at[d] = "signing"
      BY <1>4, <1>11, <2>2
    <3>2. /\ tx[d].token # disk
          /\ \A e \in Client \ {d} :
               /\ Busy(e) => tx[e].spend # tx[d].token
               /\ Got(e) => tx[d].token = Phantom \/ tx[e].token # tx[d].token
      BY <2>1, <3>1 DEF Fresh
    <3>3. ASSUME NEW e \in Client \ {d}, e # s
          PROVE  /\ Busy(e)' => tx'[e].spend # tx'[d].token
                 /\ Got(e)' => tx'[d].token = Phantom \/ tx'[e].token # tx'[d].token
      BY <1>4, <3>1, <3>2, <3>3
    <3>4. s \in Client => tx'[s].token # tx'[d].token
      BY <1>6, <1>9, <3>1
    <3> QED
      BY <1>2, <2>2, <3>1, <3>2, <3>3, <3>4
  <2> QED
    BY <2>4, <2>5, <2>6, <2>7
<1>12. ASSUME s \in Client PROVE Calls(s)' /\ Waits(s)' /\ Gets(s)' /\ Fresh(s)'
  <2>1. /\ Got(s)' /\ tx'[s].token = n /\ Good(n)'
        /\ n \notin Issued /\ n # 0 /\ n # Phantom
    BY <1>6, <1>12
  <2>2. disk' # n
    BY <2>1 DEF MachineInv, Known
  <2>3. \A e \in Client \ {s} : /\ Busy(e)' => tx'[e].spend # n
                                /\ Got(e)' => tx'[e].token # n
    BY <1>4, <1>9, <1>10, <2>1
  <2>4. Calls(s)' /\ Waits(s)' /\ Gets(s)'
    BY <1>2, <2>1 DEF Calls, Waits, Gets
  <2>5. Fresh(s)'
    BY <2>1, <2>2, <2>3 DEF Fresh
  <2> QED
    BY <2>4, <2>5
<1> QED
  BY <1>7, <1>8, <1>11, <1>12 DEF Linked

\* Every step nothing excuses keeps the machine linked.
LEMMA LinkedKeeps ==
  ASSUME AccountsInv, DesktopTypeOK, MachineInv, [Next]_vars, ~ excused'
  PROVE  Linked'
<1>1. ~ excused
  BY DEF Next, ServerStep, SignIn, SignedIn, Restore, RestoreAsks, Renew, Renewed, Refused,
     Unanswered, SignOut, Forget, ToNobody, Ages, Quit, vars
<1>2. Linked
  BY <1>1 DEF MachineInv
<1>3. CASE ServerStep
  <2>1. AccountsNext /\ ~ Elsewhere /\ UNCHANGED << disk, lock, at, linked >>
    BY <1>3 DEF ServerStep
  <2>2. ASSUME NEW s \in Slot \ Client, Request(s) PROVE Linked'
    BY <1>2, <2>1, <2>2, WebRequestLinks
  <2>3. ASSUME NEW s \in Slot, Commit(s) PROVE Linked'
    BY <1>2, <2>1, <2>3, CommitLinked
  <2>4. ASSUME NEW s \in Slot, Rollback(s) PROVE Linked'
    BY <1>2, <2>1, <2>4, RollbackLinks
  <2>5. CASE Expire
    BY <1>2, <2>1, <2>5, ExpireLinks
  <2> QED
    BY <2>1, <2>2, <2>3, <2>4, <2>5 DEF AccountsNext
<1>4. ASSUME NEW c \in Client, SignIn(c) PROVE Linked'
  BY <1>2, <1>4, SignInLinks
<1>5. ASSUME NEW c \in Client, RestoreAsks(c) \/ Renew(c) PROVE Linked'
  BY <1>2, <1>5, AskingLinks
<1>6. ASSUME NEW c \in Client,
             SignedIn(c) \/ Renewed(c) \/ Refused(c) \/ Unanswered(c) \/ ToNobody(c)
      PROVE  Linked'
  BY <1>2, <1>6, TakingLinks
<1>7. CASE \/ \E c \in Client : Restore(c) \/ SignOut(c) \/ Forget(c)
           \/ Ages \/ Quit \/ UNCHANGED vars
  <2>1. UNCHANGED server
    BY <1>7 DEF Restore, SignOut, Forget, Ages, Quit, vars
  <2> QED
    BY <1>2, <1>7, <2>1, QuietLinks
<1> QED
  BY <1>3, <1>4, <1>5, <1>6, <1>7 DEF Next

\* At first the machine holds nothing.
LEMMA MachineStart ==
  ASSUME Init
  PROVE  MachineInv
<1>1. AccountsInv
  BY AccountsStart DEF Init
<1>2. \A s \in Slot : ~ Busy(s) /\ ~ (tx[s].op = "answer")
  BY DEF Init, AccountsInit, Busy, Idle, Op
<1>3. Issued = {}
  BY DEF Init, AccountsInit, Issued, NoToken
<1>4. \A c \in Client : ~ Awaits(c) /\ ~ Holds(c) /\ ~ Got(c) /\ ~ Busy(c)
  BY <1>2, ClientIsSlot DEF Init, Awaits, Holds, Got
<1>5. lock = {} /\ disk = 0 /\ linked = FALSE
  BY DEF Init
<1>6. Held /\ Alone /\ Known
  BY <1>4, <1>5 DEF Held, Alone, Known
<1>7. Linked
  BY <1>2, <1>3, <1>4, <1>5, NoPhantom
     DEF Linked, Unrevoked, OnDisk, Calls, Waits, Gets, Fresh, Awaits
<1> QED
  BY <1>6, <1>7 DEF MachineInv

\* The lock, the answers under way and the disk tell where the machine's one
\* working token is.
THEOREM MachineInvariant == Spec => []MachineInv
<1>1. Init => MachineInv
  BY MachineStart
<1>2. MachineInv /\ AccountsInv /\ DesktopTypeOK /\ [Next]_vars => MachineInv'
  <2> SUFFICES ASSUME MachineInv, AccountsInv, DesktopTypeOK, [Next]_vars PROVE MachineInv'
    OBVIOUS
  <2>1. Held' /\ Alone'
    BY HeldKeeps DEF MachineInv
  <2>2. Known'
    BY KnownKeeps DEF MachineInv
  <2> QED
    BY <2>1, <2>2, LinkedKeeps DEF MachineInv
<1> QED
  BY <1>1, <1>2, AccountsInvariant, DesktopTypes, PTL DEF Spec

\* "Once linked, never sign in again unless revoked" (credentials.rs), for every
\* number of threads, requests and faults: a machine at rest holds a token that
\* works, unless one of the named excuses happened.
THEOREM StaysLinked == Spec => []MachineStaysLinked
<1>1. MachineInv => MachineStaysLinked
  <2> SUFFICES ASSUME MachineInv, linked, ~ excused, \A c \in Client : at[c] = "rest"
               PROVE  disk \in Issued /\ Live(disk) /\ ~ token[disk].old
    BY DEF MachineStaysLinked
  <2>1. lock = {}
    BY DEF MachineInv, Held, Alone, Holds
  <2> QED
    BY <2>1 DEF MachineInv, Linked, OnDisk, Good, Live
<1> QED
  BY <1>1, MachineInvariant, PTL
=============================================================================
