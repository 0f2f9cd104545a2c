---------------------------- MODULE DesktopAccount ----------------------------
(***************************************************************************)
(* The desktop's half of a session (src-tauri/src/auth.rs), against the    *)
(* server of Accounts: the refresh token on disk, the access token in      *)
(* memory behind the session lock, and the threads that sign in, restore,  *)
(* renew and sign out.  A refresh token works once, so every answer has to *)
(* reach the disk; between the server's commit and that write the machine  *)
(* has nothing.                                                            *)
(***************************************************************************)
EXTENDS Accounts

CONSTANT Me  \* the account this machine is signed in to

ASSUME DesktopAssumption == Me \in Address

VARIABLES
  disk,      \* the token in the credential store, 0 when there is none
  live,      \* an access token in memory, not about to expire
  lock,      \* who holds the session lock: nobody, or one thread
  at,        \* where each thread is
  kept,      \* the token each restore has read
  linked,    \* history: signed in, and not signed out since
  excused    \* history: what ends a machine's link has happened to it

vars == << server, disk, live, lock, at, kept, linked, excused >>

Where == {"rest", "signing", "waiting", "restoring", "renewing", "forgetting"}

\* Accounts.TypeOK, and one thread at most behind the session lock.
DesktopTypeOK ==
  /\ TypeOK
  /\ disk \in 0 .. Phantom /\ live \in BOOLEAN /\ lock \subseteq Client
  /\ at \in [Client -> Where] /\ kept \in [Client -> 0 .. Phantom]
  /\ Cardinality(lock) <= 1
  /\ linked \in BOOLEAN /\ excused \in BOOLEAN

Init ==
  /\ AccountsInit
  /\ disk = 0 /\ live = FALSE /\ lock = {}
  /\ at = [c \in Client |-> "rest"] /\ kept = [c \in Client |-> 0]
  /\ linked = FALSE /\ excused = FALSE

-----------------------------------------------------------------------------
Try(c) == at[c] = "rest" /\ tx[c] = Idle
Goes(c, where) == at' = [at EXCEPT ![c] = where]
Got(c) == tx[c].op = "answer"
Takes(c) == tx' = [tx EXCEPT ![c] = Idle]
Server == << user, token, link, asked, faults, ended >>

\* sign_in asks the server before it takes the lock.
SignIn(c) ==
  /\ Try(c) /\ Authenticate(c, Me) /\ Goes(c, "signing")
  /\ UNCHANGED << disk, live, lock, kept, linked, excused >>

\* install: the token is stored first; a store that fails is an error.
Installs(n) == disk' = n /\ live' = TRUE /\ UNCHANGED faults
StoreFails ==
  /\ faults < MaxFaults /\ faults' = faults + 1
  /\ UNCHANGED << disk, live >>

SignedIn(c) ==
  /\ at[c] = "signing" /\ Got(c) /\ lock = {}
  /\ \/ Installs(tx[c].token) /\ linked' = TRUE
        /\ excused' = (excused \/ tx[c].token = Phantom)
     \/ StoreFails /\ UNCHANGED << linked, excused >>
  /\ Takes(c) /\ Goes(c, "rest")
  /\ UNCHANGED << user, token, link, asked, ended, lock, kept >>

\* A token the server does not know is refused like a dead one.
Presents(c, n) == IF n = Phantom THEN Refuse(c) ELSE Refresh(c, n)

\* restore reads the stored token before it takes the lock.
Restore(c) ==
  /\ Try(c) /\ disk # 0
  /\ kept' = [kept EXCEPT ![c] = disk] /\ Goes(c, "waiting")
  /\ UNCHANGED << server, disk, live, lock, linked, excused >>

\* Mutant: and does not take it at all.
RestoreUnlocked(c) ==
  /\ at[c] = "waiting" /\ Presents(c, kept[c])
  /\ lock' = lock \cup {c} /\ Goes(c, "restoring")
  /\ excused' = (excused \/ kept[c] # disk)
  /\ UNCHANGED << disk, live, kept, linked >>

RestoreAsks(c) ==
  /\ at[c] = "waiting" /\ lock = {} /\ Presents(c, kept[c])
  /\ lock' = {c} /\ Goes(c, "restoring")
  /\ excused' = (excused \/ kept[c] # disk)
  /\ UNCHANGED << disk, live, kept, linked >>

\* Mutant: the lock is released while the server is asked.
RenewUnlocked(c) ==
  /\ Try(c) /\ lock = {} /\ ~live /\ disk # 0 /\ Presents(c, disk)
  /\ Goes(c, "renewing")
  /\ UNCHANGED << disk, live, lock, kept, linked, excused >>

\* access_token, when what is in memory is too old: the lock is held until the
\* answer is on disk.
Renew(c) ==
  /\ Try(c) /\ lock = {} /\ ~live /\ disk # 0 /\ Presents(c, disk)
  /\ lock' = {c} /\ Goes(c, "renewing")
  /\ UNCHANGED << disk, live, kept, linked, excused >>

Release(c) == lock' = lock \ {c} /\ Goes(c, "rest") /\ Takes(c)
Asking(c) == at[c] \in {"restoring", "renewing"} /\ Got(c)

Renewed(c) ==
  /\ Asking(c) /\ tx[c].token # 0 /\ Release(c)
  /\ \/ Installs(tx[c].token) /\ excused' = (excused \/ tx[c].token = Phantom)
     \/ StoreFails /\ excused' = TRUE
  /\ UNCHANGED << user, token, link, asked, ended, kept, linked >>

\* A refused token is forgotten by a restore, and kept by a renewal.
Refused(c) ==
  /\ Asking(c) /\ tx[c].token = 0 /\ Release(c)
  /\ disk' = IF at[c] = "restoring" THEN 0 ELSE disk
  /\ UNCHANGED << Server, live, kept, linked, excused >>

\* The answer never arrives: not a refusal, so nothing is forgotten.
Unanswered(c) ==
  /\ at[c] \in {"signing", "restoring", "renewing"} /\ Got(c) /\ tx[c].token # 0
  /\ faults < MaxFaults /\ faults' = faults + 1
  /\ Release(c) /\ excused' = (excused \/ at[c] # "signing")
  /\ UNCHANGED << user, token, link, asked, ended, disk, live, kept, linked >>

\* The session is dropped under the lock, the stored token after it.
SignOut(c) ==
  /\ Try(c) /\ lock = {}
  /\ live' = FALSE /\ linked' = FALSE /\ Goes(c, "forgetting")
  /\ UNCHANGED << server, disk, lock, kept, excused >>

Forget(c) ==
  /\ at[c] = "forgetting" /\ disk' = 0 /\ linked' = FALSE /\ Goes(c, "rest")
  /\ UNCHANGED << server, live, lock, kept, excused >>

Ages ==
  /\ live /\ live' = FALSE
  /\ UNCHANGED << server, disk, lock, at, kept, linked, excused >>

\* The process ends; what it asked is answered to nobody.
Quit ==
  /\ \E c \in Client : at[c] # "rest"
  /\ live' = FALSE /\ lock' = {} /\ at' = [c \in Client |-> "rest"]
  /\ excused' = (excused \/ lock # {})
  /\ UNCHANGED << server, disk, kept, linked >>

ToNobody(c) ==
  /\ at[c] = "rest" /\ Got(c) /\ Takes(c)
  /\ UNCHANGED << Server, disk, live, lock, at, kept, linked, excused >>

\* Somebody else ended the sessions of the account or rotated one of its
\* tokens, or thirty days went by.
Elsewhere ==
  \/ \E s \in Slot \ Client : /\ Busy(s) /\ tx'[s] = Idle /\ tx[s].who = Me
                              /\ Ends(tx[s]) \/ tx[s].spend # 0
  \/ \E t \in Token : token'[t].old # token[t].old

ServerStep ==
  /\ AccountsNext
  /\ excused' = (excused \/ Elsewhere)
  /\ UNCHANGED << disk, live, lock, at, kept, linked >>

Next ==
  \/ ServerStep
  \/ \E c \in Client :
       \/ SignIn(c) \/ SignedIn(c) \/ Restore(c) \/ RestoreAsks(c) \/ Renew(c)
       \/ Renewed(c) \/ Refused(c) \/ Unanswered(c) \/ SignOut(c) \/ Forget(c)
       \/ ToNobody(c)
  \/ Ages \/ Quit

Spec == Init /\ [][Next]_vars

-----------------------------------------------------------------------------
\* "Once linked, never sign in again unless revoked" (credentials.rs): a
\* machine at rest holds a token that works, unless the account's sessions were
\* ended or this one expired, an answer or a write was lost on the way to the
\* disk, the server's commit failed after the answer had left, or a restore
\* presented a token it had read before another thread replaced it.
MachineStaysLinked ==
  linked /\ ~excused /\ (\A c \in Client : at[c] = "rest")
    => disk \in Issued /\ Live(disk) /\ ~token[disk].old
=============================================================================
