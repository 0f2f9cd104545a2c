---------------------------- MODULE StatusSocket -----------------------------
(***************************************************************************)
(* Watching one meeting: the limited request that issues a ticket, the     *)
(* ticket in Redis, and the socket that polls the database and closes on a *)
(* state it calls final, or when the row has gone.  The meeting moves as   *)
(* MeetingStates lets it seen from outside a transaction, until its        *)
(* organization is erased.  Tickets and counters share one Redis.          *)
(***************************************************************************)
EXTENDS RateLimit, MeetingStates

CONSTANTS
  Socket,       \* sockets open at once
  First,        \* where the meeting is when somebody starts to watch
  MaxMoves      \* bound of the checks

ASSUME SocketConstants == First \in Committed /\ MaxMoves \in Nat

VARIABLES
  status,    \* of the meeting, or Gone
  moves,
  stored,    \* Redis: until when each ticket opens a socket
  issued,    \* tickets handed to the client
  socket,    \* the sockets
  opened     \* history: how many sockets each ticket opened

socketVars == << status, moves, stored, issued, socket, opened >>
vars == << limiterVars, socketVars >>

Ticket == 1 .. MaxRequests
TicketLife == Window   \* TICKET_TTL_SECONDS and WINDOW_SECONDS are both 60

\* _FINAL: nothing is expected to follow these.
Final == {"PUBLISHED", "AUDIO_PURGED", "FAILED", "CANCELLED", "DELETED", "QUOTA_HOLD"}

Unsent == "nothing"
Gone == "gone"      \* no such row: session.get answers None

Init ==
  /\ InitLimiter
  /\ status = First /\ moves = 0
  /\ stored = << >> /\ issued = 0
  /\ socket = [k \in Socket |-> [step |-> "new", sent |-> Unsent]]
  /\ opened = [t \in Ticket |-> 0]

\* Whatever the rest of the system does to the meeting.
Moves ==
  /\ status # Gone /\ moves < MaxMoves /\ moves' = moves + 1
  /\ \E s \in Committed : Reaches(status, s) /\ status' = s
  /\ UNCHANGED << limiterVars, stored, issued, socket, opened >>

\* The organization's deletion cascades to its meetings.
Erased ==
  /\ status # Gone /\ status' = Gone
  /\ UNCHANGED << limiterVars, moves, stored, issued, socket, opened >>

Done(s) == request' = [request EXCEPT ![s] = NoHandling]

\* issue_ticket: a token, and a meeting that is there and not deleted; a ticket
\* lives sixty seconds.
IssueTicket(s) ==
  /\ In(s, "passed") /\ request[s].key \in {KeyFor("api", t) : t \in Token}
  /\ up /\ status \notin {"DELETED", Gone}
  /\ issued' = issued + 1
  /\ stored' = Append(stored, now + TicketLife)
  /\ Done(s)
  /\ UNCHANGED << now, up, faults, late, counter, breaker, arrived, log >>
  /\ UNCHANGED << status, moves, socket, opened >>

\* Any other request let through, and a ticket that is refused or not stored.
Handled(s) ==
  /\ In(s, "passed")
  /\ Done(s)
  /\ UNCHANGED << now, up, faults, late, counter, breaker, arrived, log, socketVars >>

\* Mutant of Redeemed: GET, and nothing deleted.
RedeemedAndKept(t) == stored

\* redeem: GETDEL, so what is stored goes with the answer.
Redeemed(t) == [stored EXCEPT ![t] = 0]

Opens(t) == up /\ now < stored[t]

\* meeting_status, up to accept: whatever the ticket says, it is consumed.  A
\* client whose socket has ended may open another with any ticket it was given.
OpenSocket(k, t) ==
  /\ socket[k].step # "watching" /\ t \in 1 .. issued
  /\ stored' = IF up THEN Redeemed(t) ELSE stored
  /\ socket' = [socket EXCEPT ![k] =
       [step |-> IF Opens(t) THEN "watching" ELSE "refused", sent |-> Unsent]]
  /\ opened' = IF Opens(t) THEN [opened EXCEPT ![t] = @ + 1] ELSE opened
  /\ UNCHANGED << limiterVars, status, moves, issued >>

\* Mutant of Frame: the end is looked for in what was sent before.
FrameEndsLate(k) ==
  /\ socket[k].step = "watching" /\ status # Gone
  /\ status # socket[k].sent
  /\ socket' = [socket EXCEPT ![k] =
       [step |-> IF @.sent \in Final THEN "ended" ELSE "watching", sent |-> status]]
  /\ UNCHANGED << limiterVars, status, moves, stored, issued, opened >>

\* One turn of the loop: the state is read in a session of its own, and what
\* follows uses that reading only, so it is one step: a frame when there is
\* news, and the end when nothing is expected to follow.
Frame(k) ==
  /\ socket[k].step = "watching" /\ status # Gone
  /\ status # socket[k].sent \/ status \in Final
  /\ socket' = [socket EXCEPT ![k] =
       [step |-> IF status \in Final THEN "ended" ELSE "watching", sent |-> status]]
  /\ UNCHANGED << limiterVars, status, moves, stored, issued, opened >>

\* The row has gone: the socket ends, and no frame says so.
EndsUntold(k) ==
  /\ socket[k].step = "watching" /\ status = Gone
  /\ socket' = [socket EXCEPT ![k].step = "ended"]
  /\ UNCHANGED << limiterVars, status, moves, stored, issued, opened >>

\* The client goes, or the poll's session fails.
Leaves(k) ==
  /\ socket[k].step = "watching"
  /\ socket' = [socket EXCEPT ![k] = [step |-> "left", sent |-> Unsent]]
  /\ UNCHANGED << limiterVars, status, moves, stored, issued, opened >>

\* An outage takes the tickets with the counters.
Outage == GoesDown /\ stored' = [t \in 1 .. issued |-> 0]
          /\ UNCHANGED << status, moves, issued, socket, opened >>

Next ==
  \/ LimiterStep /\ UNCHANGED socketVars
  \/ Outage \/ Moves \/ Erased
  \/ \E s \in Slot : IssueTicket(s) \/ Handled(s)
  \/ \E k \in Socket :
       \/ Frame(k) \/ EndsUntold(k) \/ Leaves(k)
       \/ \E t \in Ticket : OpenSocket(k, t)

\* The loop of an open socket goes round; nobody else owes anything.
Fairness == \A k \in Socket : WF_vars(Frame(k) \/ EndsUntold(k))

Spec == Init /\ [][Next]_vars /\ Fairness
-----------------------------------------------------------------------------
\* Every value stays in the range the code can give it; in particular a ticket
\* has opened no socket or one, however many present it (tickets.py, "works
\* once").
TypeOK ==
  /\ LimiterTypeOK
  /\ opened \in [Ticket -> 0 .. 1]
  /\ status \in Committed \cup {Gone} /\ moves \in 0 .. MaxMoves
  /\ issued \in {0} \cup Ticket /\ DOMAIN stored = 1 .. issued
  /\ \A t \in DOMAIN stored : stored[t] \in 0 .. MaxNow + TicketLife
  /\ socket \in [Socket -> [step : {"new", "refused", "watching", "ended", "left"},
                            sent : Committed \cup {Unsent}]]

\* Somebody watching a meeting that has come to rest is shown where: the last
\* frame before the server ends the socket is a final state, unless first the
\* meeting moves on, its row goes, or the socket breaks (meeting_status).
ViewerLearnsTheEnd ==
  \A k \in Socket :
    socket[k].step = "watching" /\ status \in Final ~>
      \/ socket[k].step = "ended" /\ socket[k].sent \in Final
      \/ socket[k].step = "left"
      \/ status \notin Final
=============================================================================
