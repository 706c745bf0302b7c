----------------------------- MODULE WorkSlots -----------------------------
(***************************************************************************)
(* What the rest of the client relies on in a work-connection pool: at     *)
(* most Max attempts are under way at once, each gives back what it took,  *)
(* and none starts after the pool is stopped.  Nothing is said of sockets, *)
(* messages, hooks or statistics; module WorkConnPool implements this.     *)
(***************************************************************************)
EXTENDS Naturals, FiniteSets

CONSTANTS
    Worker,     \* the attempts that can be told apart
    Max         \* the pool's limit

VARIABLES
    accepting,  \* the pool has not been stopped
    busy        \* the attempts under way

slotVars == <<accepting, busy>>

Init == accepting = TRUE /\ busy = {}

Take(w) ==
    /\ accepting
    /\ w \notin busy
    /\ Cardinality(busy) < Max
    /\ busy' = busy \cup {w}
    /\ UNCHANGED accepting

GiveBack(w) ==
    /\ w \in busy
    /\ busy' = busy \ {w}
    /\ UNCHANGED accepting

Close == accepting' = FALSE /\ UNCHANGED busy

Next == (\E w \in Worker : Take(w) \/ GiveBack(w)) \/ Close

Safety == Init /\ [][Next]_slotVars
=============================================================================
