------------------------------- MODULE Accounts -------------------------------
(***************************************************************************)
(* Accounts and sessions on the server: signing up and in, the rotation of *)
(* refresh tokens and what ends a session, invitations, revoked members,   *)
(* password resets and address verification.                               *)
(*                                                                         *)
(* Every request is one READ COMMITTED transaction without row locks.  It  *)
(* decides on what it has read, and at commit writes what it decided: the  *)
(* model keeps the two apart, as a write set built when the request reads  *)
(* and applied when it commits.                                            *)
(***************************************************************************)
EXTENDS Naturals, FiniteSets

CONSTANTS
  Address,     \* email addresses: one account each, users_email_unique
  Slot,        \* requests at once
  Client,      \* the slots whose answer somebody waits for
  InitUsers,   \* the users tables a behaviour may begin with
  MaxRequests, \* bound: requests made
  MaxTokens,   \* bound: refresh tokens issued
  MaxLinks,    \* bound: links sent by mail
  MaxFaults    \* bound: failed commits, tokens and links that expire

User == [ role : {"none", "owner", "member"}, revoked : BOOLEAN,
          verified : BOOLEAN ]

ASSUME AccountsAssumption ==
  /\ Client \subseteq Slot /\ Address # {}
  /\ InitUsers \subseteq [Address -> User]
  /\ \A table \in InitUsers, a \in Address : table[a].role = "none" => ~ table[a].revoked
  /\ IsFiniteSet(Slot)
  /\ MaxRequests \in Nat /\ MaxTokens \in Nat /\ MaxLinks \in Nat /\ MaxFaults \in Nat

VARIABLES
  user,     \* the users table, by address
  token,    \* refresh_tokens
  link,     \* invitations, password_resets and email_verifications
  tx,       \* the request each slot runs, or the answer it got
  asked,    \* requests so far
  faults,   \* faults so far
  ended     \* history: the families somebody has ended

server == << user, token, link, tx, asked, faults, ended >>

Token == 1 .. MaxTokens
Link == 1 .. MaxLinks

\* family: the token the login began with, 0 for a token not issued yet.
\* spent: 2 when two requests rotated it; raced: and they overlapped.  late:
\* the token, or one it descends from, was issued by a request that overlapped
\* one that ended sessions of the same account.
RefreshToken == [ who : Address, family : 0 .. MaxTokens, spent : 0 .. 2,
                  raced : BOOLEAN, revoked : BOOLEAN, old : BOOLEAN,
                  late : BOOLEAN ]
LinkRow == [ kind : {"none", "invite", "reset", "verify"}, who : Address,
             spent : 0 .. 2, raced : BOOLEAN, old : BOOLEAN ]

Op == {"register", "authenticate", "refresh", "end", "invite", "accept",
       "revoke", "request_reset", "confirm_reset", "verify", "resend"}

\* spend and redeem: the token and the link used up; kill: the tokens revoked,
\* as they were read; issue: a token is minted; send: a link is.
Tx == [ op : Op, who : Address, spend : 0 .. MaxTokens, kill : SUBSET Token,
        issue : BOOLEAN, redeem : 0 .. MaxLinks,
        send : {"none", "invite", "reset", "verify"}, met : BOOLEAN,
        beaten : BOOLEAN ]

Idle == [op |-> "idle"]

\* 0: refused.  Phantom: a pair whose commit failed, for the answer is on its
\* way before the transaction ends.
Phantom == MaxTokens + 1
Answer == [ op : {"answer"}, token : 0 .. Phantom ]

Someone == CHOOSE a \in Address : TRUE
NoToken == [ who |-> Someone, family |-> 0, spent |-> 0, raced |-> FALSE,
             revoked |-> FALSE, old |-> FALSE, late |-> FALSE ]
NoLink == [ kind |-> "none", who |-> Someone, spent |-> 0, raced |-> FALSE,
            old |-> FALSE ]

Issued == {t \in Token : token[t].family # 0}
Live(t) == t \in Issued /\ token[t].spent = 0 /\ ~token[t].revoked
Busy(s) == tx[s].op \in Op
Account(a) == user[a].role # "none"

TypeOK ==
  /\ user \in [Address -> User]
  /\ token \in [Token -> RefreshToken] /\ link \in [Link -> LinkRow]
  /\ tx \in [Slot -> Tx \cup Answer \cup {Idle}]
  /\ asked \in 0 .. MaxRequests /\ faults \in 0 .. MaxFaults /\ ended \subseteq Token

AccountsInit ==
  /\ user \in InitUsers
  /\ token = [t \in Token |-> NoToken] /\ link = [l \in Link |-> NoLink]
  /\ tx = [s \in Slot |-> Idle]
  /\ asked = 0 /\ faults = 0 /\ ended = {}

-----------------------------------------------------------------------------
(* Reading: a request decides what it will write.                          *)

Write(op, a) ==
  [ op |-> op, who |-> a, spend |-> 0, kill |-> {}, issue |-> FALSE,
    redeem |-> 0, send |-> "none", met |-> FALSE,
    beaten |-> FALSE ]

\* Identifiers left for what the open requests will mint.
MayIssue == Cardinality(Issued) + Cardinality({s \in Slot : Busy(s) /\ tx[s].issue})
              < MaxTokens
MaySend == Cardinality({l \in Link : link[l].kind # "none"})
             + Cardinality({s \in Slot : Busy(s) /\ tx[s].send # "none"}) < MaxLinks

Asks(s) == tx[s] = Idle /\ asked < MaxRequests /\ asked' = asked + 1

Read(s, write) ==
  /\ Asks(s)
  /\ write.issue => MayIssue
  /\ write.send # "none" => MaySend
  /\ tx' = [tx EXCEPT ![s] = write]
  /\ UNCHANGED << user, token, link, faults, ended >>

Refuse(s) ==
  /\ Asks(s) /\ s \in Client
  /\ tx' = [tx EXCEPT ![s] = [op |-> "answer", token |-> 0]]
  /\ UNCHANGED << user, token, link, faults, ended >>

Register(s, a) ==
  /\ ~Account(a)
  /\ Read(s, [Write("register", a) EXCEPT !.issue = TRUE, !.send = "verify"])

Authenticate(s, a) ==
  /\ Account(a) /\ ~user[a].revoked
  /\ Read(s, [Write("authenticate", a) EXCEPT !.issue = TRUE])

\* Mutants: only the token presented is revoked; a used one is not noticed.
FamilyPresented(t) == {t} \ {u \in Issued : token[u].revoked}
ReusedUnnoticed(t) == FALSE

\* What _revoke_family will write: the tokens of the login it sees unrevoked.
FamilyOf(t) == {u \in Issued : token[u].family = token[t].family
                               /\ ~token[u].revoked}
SessionsOf(a) == {u \in Issued : token[u].who = a /\ ~token[u].revoked}

EndFamily(s, t) == Read(s, [Write("end", token[t].who) EXCEPT !.kill = FamilyOf(t)])

\* Presented a second time: the login ends, and so it does for a revoked user.
Reused(t) == token[t].spent # 0
Rejected(t) == token[t].revoked \/ token[t].old
Rotate(s, t) ==
  Read(s, [Write("refresh", token[t].who) EXCEPT !.spend = t, !.issue = TRUE])

Refresh(s, t) ==
  /\ t \in Issued
  /\ \/ Reused(t) /\ EndFamily(s, t)
     \/ ~Reused(t) /\ Rejected(t) /\ Refuse(s)
     \/ /\ ~Reused(t) /\ ~Rejected(t)
        /\ IF user[token[t].who].revoked THEN EndFamily(s, t) ELSE Rotate(s, t)

Logout(s, t) == t \in Issued /\ EndFamily(s, t)

\* The caller is somebody's owner; one invitation may be pending per address.
Invite(s, a) ==
  /\ \E b \in Address : user[b].role = "owner"
  /\ ~Account(a)
  /\ ~\E l \in Link : link[l].kind = "invite" /\ link[l].who = a
                      /\ link[l].spent = 0 /\ ~link[l].old
  /\ Read(s, [Write("invite", a) EXCEPT !.send = "invite"])

Opens(l, kind) == link[l].kind = kind /\ link[l].spent = 0 /\ ~link[l].old

AcceptInvitation(s, l) ==
  /\ Opens(l, "invite")
  /\ Read(s, [Write("accept", link[l].who) EXCEPT !.redeem = l])

RevokeMember(s, a) ==
  /\ user[a].role = "member"
  /\ Read(s, [Write("revoke", a) EXCEPT !.kill = SessionsOf(a)])

RequestReset(s, a) ==
  Account(a) /\ Read(s, [Write("request_reset", a) EXCEPT !.send = "reset"])

\* Neither the account's revocation nor its other links are looked at.
ConfirmReset(s, l) ==
  /\ Opens(l, "reset")
  /\ Read(s, [Write("confirm_reset", link[l].who) EXCEPT
                !.redeem = l, !.kill = SessionsOf(link[l].who)])

Verify(s, l) ==
  /\ Opens(l, "verify")
  /\ Read(s, [Write("verify", link[l].who) EXCEPT !.redeem = l])

Resend(s, a) ==
  /\ Account(a) /\ ~user[a].revoked /\ ~user[a].verified
  /\ Read(s, [Write("resend", a) EXCEPT !.send = "verify"])

-----------------------------------------------------------------------------
(* Committing.                                                             *)

FirstFree(S) == CHOOSE n \in S : \A k \in S : n <= k
NewToken == FirstFree(Token \ Issued)
NewLink == FirstFree({l \in Link : link[l].kind = "none"})

Creates(w) == w.op \in {"register", "accept"}
Ends(w) == w.op \in {"end", "revoke", "confirm_reset"}

\* users_email_unique: the address got an account meanwhile.
Conflict(w) == Creates(w) /\ Account(w.who)

UserAfter(w, u) ==
  CASE w.op = "register" -> [u EXCEPT !.role = "owner"]
    [] w.op = "accept"   -> [u EXCEPT !.role = "member", !.verified = TRUE]
    [] w.op = "revoke"   -> [u EXCEPT !.revoked = TRUE]
    [] w.op = "verify"   -> [u EXCEPT !.verified = TRUE]
    [] OTHER             -> u

\* beaten: another request used it up while this one was open.
Spent(x, beaten) == [x EXCEPT !.spent = IF @ = 2 THEN 2 ELSE @ + 1,
                              !.raced = @ \/ beaten]

\* A request of the same account that ends sessions was open with this one.
Overlapped(s) ==
  \/ tx[s].met
  \/ \E r \in Slot \ {s} : Busy(r) /\ Ends(tx[r]) /\ tx[r].who = tx[s].who

Minted(s) ==
  LET w == tx[s] IN
  [ NoToken EXCEPT !.who = w.who,
      !.family = IF w.spend = 0 THEN NewToken ELSE token[w.spend].family,
      !.late = Overlapped(s) \/ (w.spend # 0 /\ token[w.spend].late) ]

TokenAfter(s, t) ==
  LET w == tx[s] IN
  CASE w.issue /\ t = NewToken -> Minted(s)
    [] t = w.spend             -> Spent(token[t], w.beaten)
    [] t \in w.kill            -> [token[t] EXCEPT !.revoked = TRUE]
    [] OTHER                   -> token[t]

LinkAfter(s, l) ==
  LET w == tx[s] IN
  CASE w.send # "none" /\ l = NewLink -> [NoLink EXCEPT !.kind = w.send, !.who = w.who]
    [] l = w.redeem                   -> Spent(link[l], w.beaten)
    [] OTHER                          -> link[l]

\* Which logins a request has ended: the one it named, or all of the account.
EndedBy(w) ==
  IF w.op = "end" THEN {token[t].family : t \in w.kill}
  ELSE {token[t].family : t \in {u \in Issued : token[u].who = w.who}}

Answered(s, n) == IF s \in Client THEN [op |-> "answer", token |-> n] ELSE Idle

\* What the other open requests have been through since they read.
Same(w, v) == \/ w.spend # 0 /\ w.spend = v.spend
              \/ w.redeem # 0 /\ w.redeem = v.redeem

Met(s, t) == [r \in Slot |->
  IF r = s \/ t[r].op \notin Op THEN t[r]
  ELSE [t[r] EXCEPT !.met = @ \/ (Ends(tx[s]) /\ t[r].who = tx[s].who),
                    !.beaten = @ \/ Same(tx[s], t[r])]]

Commit(s) ==
  /\ Busy(s) /\ ~Conflict(tx[s])
  /\ user' = [user EXCEPT ![tx[s].who] = UserAfter(tx[s], @)]
  /\ token' = [t \in Token |-> TokenAfter(s, t)]
  /\ link' = [l \in Link |-> LinkAfter(s, l)]
  /\ ended' = IF Ends(tx[s]) THEN ended \cup EndedBy(tx[s]) ELSE ended
  /\ tx' = Met(s, [tx EXCEPT ![s] =
                     Answered(s, IF tx[s].issue THEN NewToken ELSE 0)])
  /\ UNCHANGED << asked, faults >>

\* The unique constraint, or the database, says no: nothing is written.
Rollback(s) ==
  /\ Busy(s)
  /\ \/ Conflict(tx[s]) /\ UNCHANGED faults
     \/ ~Conflict(tx[s]) /\ faults < MaxFaults /\ faults' = faults + 1
  /\ tx' = [tx EXCEPT ![s] = Answered(s, IF tx[s].issue THEN Phantom ELSE 0)]
  /\ UNCHANGED << user, token, link, asked, ended >>

Expire ==
  /\ faults < MaxFaults /\ faults' = faults + 1
  /\ \/ \E t \in Issued : ~token[t].old /\ token' = [token EXCEPT ![t].old = TRUE]
                          /\ UNCHANGED link
     \/ \E l \in Link : link[l].kind # "none" /\ ~link[l].old
                        /\ link' = [link EXCEPT ![l].old = TRUE]
                        /\ UNCHANGED token
  /\ UNCHANGED << user, tx, asked, ended >>

-----------------------------------------------------------------------------
Request(s) ==
  \/ \E a \in Address : \/ Register(s, a) \/ Authenticate(s, a) \/ Invite(s, a)
                        \/ RevokeMember(s, a) \/ RequestReset(s, a) \/ Resend(s, a)
  \/ \E t \in Token : Refresh(s, t) \/ Logout(s, t)
  \/ \E l \in Link : AcceptInvitation(s, l) \/ ConfirmReset(s, l) \/ Verify(s, l)

AccountsNext ==
  \/ \E s \in Slot \ Client : Request(s)
  \/ \E s \in Slot : Commit(s) \/ Rollback(s)
  \/ Expire

AccountsSpec == AccountsInit /\ [][AccountsNext]_server

-----------------------------------------------------------------------------
(* Properties.                                                             *)

\* Signing out, presenting a token twice, a revoked member and a new password
\* reach every token of the sessions they end: what still works after them
\* was issued by a request that overlapped them, or descends from one.
RevocationReaches ==
  \A t \in Token :
    Live(t) /\ (token[t].family \in ended \/ user[token[t].who].revoked)
      => token[t].late

\* A refresh token is rotated once, a link opens once: a second time needs two
\* requests that had both read it unused.
SpentOnce ==
  /\ \A t \in Token : token[t].spent = 2 => token[t].raced
  /\ \A l \in Link : link[l].spent = 2 => link[l].raced
=============================================================================
