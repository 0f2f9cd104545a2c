--------------------------- MODULE MCDesktopAccount ---------------------------
(* Two addresses.  A behaviour begins with nobody registered, or with an     *)
(* owner whose machine this is and a member or nobody at the other address.  *)
EXTENDS DesktopAccount, TLC

CONSTANTS a, b

Nobody == [role |-> "none", revoked |-> FALSE, verified |-> FALSE]
Known(r) == [role |-> r, revoked |-> FALSE, verified |-> TRUE]
Table(x, y) == [c \in Address |-> IF c = a THEN x ELSE y]

Threads == Permutations(Client)

MCInitUsers == { Table(Nobody, Nobody), Table(Known("owner"), Nobody),
                 Table(Known("member"), Known("owner")) }
=============================================================================
