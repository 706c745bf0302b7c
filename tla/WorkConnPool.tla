--------------------------- MODULE WorkConnPool ---------------------------
(***************************************************************************)
(* The work-connection pool of src/src/control/pool.ts.                    *)
(*                                                                         *)
(* Every ReqWorkConn of the server calls expand(), which starts a worker:  *)
(* an async function that dials the server, announces itself with          *)
(* NewWorkConn, waits for StartWorkConn and hands the connection to the    *)
(* handler of the named proxy.  pc[w] is the await at which worker w is    *)
(* suspended; an action is what runs from one await to the next.  stop()   *)
(* and the proxy map's changes come from the control channel at any time.  *)
(*                                                                         *)
(* A worker is a slot that is used again once the promise chain in         *)
(* #spawn has run its finally, so Worker needs no more than Max members.   *)
(***************************************************************************)
EXTENDS Naturals, FiniteSets

CONSTANTS
    Worker,         \* worker slots
    Name,           \* proxy names StartWorkConn can carry
    Max,            \* cfg.max
    MaxRequests     \* bound on requested: stops the counters in a run

ASSUME WorkerAssumption == IsFiniteSet(Worker) /\ Cardinality(Worker) >= Max
ASSUME NumberAssumption == Max \in Nat /\ MaxRequests \in Nat

VARIABLES
    live,           \* not stopped
    total,          \* workers whose promise chain has not finished
    active,         \* workers that hold an assigned connection
    requested,      \* calls of expand
    accepted,       \* StartWorkConn received without an error
    rejected,       \* StartWorkConn received with an error
    failed,         \* failures, those of assigned connections included
    completed,      \* assigned connections that ended
    limited,        \* requests refused because the pool was full
    conns,          \* the connections stop() destroys
    wire,           \* cfg.wireProtocol, never changed
    proxies,        \* names in the map shared with the control channel
    pc,             \* where each worker is suspended
    socket          \* each worker's socket: none yet, open, or destroyed

counters == <<requested, accepted, rejected, failed, completed, limited>>
config == <<wire, proxies>>
vars == <<live, total, active, counters, conns, config, pc, socket>>

(* The awaits.  "preparing" is #wrapWorkConn and the onConnect hook: a     *)
(* throw there skips onDisconnect.  "opening" is a handler that has still  *)
(* to reach its backend, "handling" one that joined it with the work       *)
(* connection, and "deaf" one that joined it with a connection destroyed   *)
(* before, whose close event it has missed (codec.ts, pipeConn).           *)
(* "settled..." is the time between the end of #worker and the catch and   *)
(* finally that #spawn chained to it.                                      *)
Unassigned == {"dialing", "magic", "announcing", "reading"}
AssignedAt == {"preparing", "opening", "handling", "deaf", "disconnectOk",
               "disconnectErr", "unwindOk", "unwindErr"}
Settled    == {"settledOk", "settledErr"}
Pc == {"idle"} \cup Unassigned \cup AssignedAt \cup Settled

\* The awaits inside the try of #worker: its finally has still to run.
InTry == {"announcing", "reading"} \cup AssignedAt

Busy     == {w \in Worker : pc[w] # "idle"}
Assigned == {w \in Worker : pc[w] \in AssignedAt}

Init ==
    /\ live = TRUE
    /\ total = 0 /\ active = 0
    /\ requested = 0 /\ accepted = 0 /\ rejected = 0
    /\ failed = 0 /\ completed = 0 /\ limited = 0
    /\ conns = {}
    /\ wire \in {"v1", "v2"} /\ proxies \in SUBSET Name
    /\ pc = [w \in Worker |-> "idle"]
    /\ socket = [w \in Worker |-> "none"]

-----------------------------------------------------------------------------
(* expand() and #spawn() *)

\* A plausible slip: the limit is tested against the assigned connections.
MutantFull == active >= Max
Full == total >= Max

Spawn(w) ==
    /\ live
    /\ ~Full
    /\ pc[w] = "idle"
    /\ total' = total + 1
    /\ pc' = [pc EXCEPT ![w] = "dialing"]
    /\ socket' = [socket EXCEPT ![w] = "none"]
    /\ UNCHANGED limited

RefuseFull ==
    /\ live
    /\ Full
    /\ limited' = limited + 1
    /\ UNCHANGED <<total, pc, socket>>

RefuseStopped ==
    /\ ~live
    /\ UNCHANGED <<limited, total, pc, socket>>

Expand ==
    /\ requested < MaxRequests
    /\ requested' = requested + 1
    /\ (\E w \in Worker : Spawn(w)) \/ RefuseFull \/ RefuseStopped
    /\ UNCHANGED <<live, active, accepted, rejected, failed, completed, conns,
                   config>>

-----------------------------------------------------------------------------
(* #connect() *)

\* #worker after its first await: a stopped pool destroys the late socket,
\* otherwise the socket is put where stop() finds it.
\* The slip: nothing is asked about live after the await.
MutantEnter(w) ==
    /\ conns' = conns \cup {w}
    /\ socket' = [socket EXCEPT ![w] = "open"]
    /\ pc' = [pc EXCEPT ![w] = "announcing"]
Enter(w) ==
    \/ /\ live
       /\ conns' = conns \cup {w}
       /\ socket' = [socket EXCEPT ![w] = "open"]
       /\ pc' = [pc EXCEPT ![w] = "announcing"]
    \/ /\ ~live
       /\ socket' = [socket EXCEPT ![w] = "destroyed"]
       /\ pc' = [pc EXCEPT ![w] = "settledOk"]
       /\ UNCHANGED conns

DialOk(w) ==
    /\ pc[w] = "dialing"
    /\ \/ wire = "v1" /\ Enter(w)
       \/ /\ wire = "v2"
          /\ socket' = [socket EXCEPT ![w] = "open"]
          /\ pc' = [pc EXCEPT ![w] = "magic"]
          /\ UNCHANGED conns
    /\ UNCHANGED <<live, total, active, counters, config>>

MagicWritten(w) ==
    /\ pc[w] = "magic"
    /\ Enter(w)
    /\ UNCHANGED <<live, total, active, counters, config>>

ConnectFails(w) ==
    /\ \/ pc[w] = "dialing" /\ UNCHANGED socket
       \/ pc[w] = "magic" /\ socket' = [socket EXCEPT ![w] = "destroyed"]
    /\ pc' = [pc EXCEPT ![w] = "settledErr"]
    /\ UNCHANGED <<live, total, active, counters, conns, config>>

-----------------------------------------------------------------------------
(* #worker() *)

\* The finally of #worker: forget the socket and destroy it.
Cleanup(w, how) ==
    /\ conns' = conns \ {w}
    /\ socket' = [socket EXCEPT ![w] = "destroyed"]
    /\ pc' = [pc EXCEPT ![w] = how]

AnnounceOk(w) ==
    /\ pc[w] = "announcing"
    /\ pc' = [pc EXCEPT ![w] = "reading"]
    /\ UNCHANGED <<live, total, active, counters, conns, config, socket>>

\* Authentication or the write of NewWorkConn fails.
AnnounceFails(w) ==
    /\ pc[w] = "announcing"
    /\ Cleanup(w, "settledErr")
    /\ UNCHANGED <<live, total, active, counters, config>>

ReadWrongType(w) ==
    /\ pc[w] = "reading"
    /\ failed' = failed + 1
    /\ Cleanup(w, "settledOk")
    /\ UNCHANGED <<live, total, active, requested, accepted, rejected,
                   completed, limited, config>>

\* The connection ends before StartWorkConn; a stopped pool does not count it.
\* The slip: the early return forgets the count.
MutantReadFails(w) ==
    /\ pc[w] = "reading"
    /\ UNCHANGED failed
    /\ Cleanup(w, "settledOk")
    /\ UNCHANGED <<live, total, active, requested, accepted, rejected,
                   completed, limited, config>>
ReadFails(w) ==
    /\ pc[w] = "reading"
    /\ failed' = IF live THEN failed + 1 ELSE failed
    /\ Cleanup(w, "settledOk")
    /\ UNCHANGED <<live, total, active, requested, accepted, rejected,
                   completed, limited, config>>

\* A plausible slip: the finally does not ask whether it was assigned.
MutantServerRejects(w) ==
    /\ pc[w] = "reading"
    /\ rejected' = rejected + 1
    /\ active' = active - 1
    /\ Cleanup(w, "settledOk")
    /\ UNCHANGED <<live, total, requested, accepted, failed, completed,
                   limited, config>>
ServerRejects(w) ==
    /\ pc[w] = "reading"
    /\ rejected' = rejected + 1
    /\ Cleanup(w, "settledOk")
    /\ UNCHANGED <<live, total, active, requested, accepted, failed,
                   completed, limited, config>>

\* StartWorkConn for p: counted as assigned, then #dispatch looks p up.  The
\* code does not look at live here: an answer delivered just before stop()
\* is still dispatched.
Assign(w, p) ==
    /\ pc[w] = "reading"
    /\ active' = active + 1
    /\ accepted' = accepted + 1
    /\ \/ /\ p \in proxies
          /\ pc' = [pc EXCEPT ![w] = "preparing"]
          /\ UNCHANGED failed
       \/ /\ p \notin proxies
          /\ pc' = [pc EXCEPT ![w] = "unwindOk"]
          /\ failed' = failed + 1
    /\ UNCHANGED <<live, total, requested, rejected, completed, limited, conns,
                   config, socket>>

-----------------------------------------------------------------------------
(* #dispatch() *)

Goto(w, from, to) ==
    /\ pc[w] = from
    /\ pc' = [pc EXCEPT ![w] = to]
    /\ UNCHANGED <<live, total, active, counters, conns, config, socket>>

PrepareOk(w)    == Goto(w, "preparing", "opening")
PrepareFails(w) == Goto(w, "preparing", "unwindErr")
\* A connection that stop() destroyed meanwhile has had its close event, and
\* so has one that the server closed; socket shows the former only.
HandlerJoins(w) ==
    \/ socket[w] # "destroyed" /\ Goto(w, "opening", "handling")
    \/ Goto(w, "opening", "deaf")
HandlerEnds(w) ==
    \E from \in {"handling", "deaf"} : Goto(w, from, "disconnectOk")
HandlerFails(w) ==
    \E from \in {"opening", "handling", "deaf"} : Goto(w, from, "disconnectErr")

\* The awaited onDisconnect hook; it runs in a finally, so a throw of its
\* own replaces the handler's outcome.
HookReturns(w) ==
    \/ Goto(w, "disconnectOk", "unwindOk")
    \/ Goto(w, "disconnectErr", "unwindErr")
HookThrows(w) ==
    \/ Goto(w, "disconnectOk", "unwindErr")
    \/ Goto(w, "disconnectErr", "unwindErr")

\* The finally of #worker for an assigned connection; the slip forgets active.
MutantUnwind(w) ==
    /\ pc[w] \in {"unwindOk", "unwindErr"}
    /\ completed' = completed + 1
    /\ Cleanup(w, IF pc[w] = "unwindOk" THEN "settledOk" ELSE "settledErr")
    /\ UNCHANGED <<live, total, active, requested, accepted, rejected, failed,
                   limited, config>>
Unwind(w) ==
    /\ pc[w] \in {"unwindOk", "unwindErr"}
    /\ active' = active - 1
    /\ completed' = completed + 1
    /\ Cleanup(w, IF pc[w] = "unwindOk" THEN "settledOk" ELSE "settledErr")
    /\ UNCHANGED <<live, total, requested, accepted, rejected, failed,
                   limited, config>>

-----------------------------------------------------------------------------
(* The catch and the finally chained in #spawn() *)

CatchError(w) ==
    /\ pc[w] = "settledErr"
    /\ failed' = IF live THEN failed + 1 ELSE failed
    /\ pc' = [pc EXCEPT ![w] = "settledOk"]
    /\ UNCHANGED <<live, total, active, requested, accepted, rejected,
                   completed, limited, conns, config, socket>>

Release(w) ==
    /\ pc[w] = "settledOk"
    /\ total' = total - 1
    /\ pc' = [pc EXCEPT ![w] = "idle"]
    /\ UNCHANGED <<live, active, counters, conns, config, socket>>

-----------------------------------------------------------------------------
(* Calls of the control channel *)

\* A plausible slip: stop() forgets the connections without destroying them.
MutantStop ==
    /\ live' = FALSE
    /\ conns' = {}
    /\ UNCHANGED <<total, active, counters, config, pc, socket>>
Stop ==
    /\ live' = FALSE
    /\ socket' = [w \in Worker |-> IF w \in conns THEN "destroyed"
                                                  ELSE socket[w]]
    /\ conns' = {}
    /\ UNCHANGED <<total, active, counters, config, pc>>

ChangeProxies ==
    /\ \E p \in Name :
          \/ p \notin proxies /\ proxies' = proxies \cup {p}
          \/ p \in proxies /\ proxies' = proxies \ {p}
    /\ UNCHANGED <<live, total, active, counters, conns, wire, pc, socket>>

WorkerStep(w) ==
    \/ DialOk(w) \/ MagicWritten(w) \/ ConnectFails(w)
    \/ AnnounceOk(w) \/ AnnounceFails(w)
    \/ ReadWrongType(w) \/ ReadFails(w) \/ ServerRejects(w)
    \/ \E p \in Name : Assign(w, p)
    \/ PrepareOk(w) \/ PrepareFails(w)
    \/ HandlerJoins(w) \/ HandlerEnds(w) \/ HandlerFails(w)
    \/ HookReturns(w) \/ HookThrows(w)
    \/ Unwind(w) \/ CatchError(w) \/ Release(w)

Next == Expand \/ Stop \/ ChangeProxies \/ \E w \in Worker : WorkerStep(w)

(* What the runtime and the network owe.  Dials and writes settle, user    *)
(* hooks return, chained callbacks run.  A read and a handler end for      *)
(* certain only when their socket is destroyed under them: an idle server  *)
(* may keep a connection in "reading", and a user one in "handling", for   *)
(* ever.  A handler in "deaf" waits for its backend to close.              *)
Dial(w)     == DialOk(w) \/ MagicWritten(w) \/ ConnectFails(w)
Announce(w) == AnnounceOk(w) \/ AnnounceFails(w)
Opened(w)   == HandlerJoins(w) \/ (pc[w] = "opening" /\ HandlerFails(w))
Aborted(w)  == /\ socket[w] = "destroyed"
               /\ \/ ReadFails(w)
                  \/ pc[w] = "handling" /\ (HandlerEnds(w) \/ HandlerFails(w))
Local(w)    == PrepareOk(w) \/ PrepareFails(w) \/ HookReturns(w)
               \/ HookThrows(w) \/ Unwind(w) \/ CatchError(w) \/ Release(w)

Fairness == \A w \in Worker : WF_vars(Dial(w) \/ Announce(w) \/ Opened(w)
                                      \/ Aborted(w) \/ Local(w))

Safety == Init /\ [][Next]_vars
Spec == Safety /\ Fairness

-----------------------------------------------------------------------------
TypeOK ==
    /\ live \in BOOLEAN
    /\ total \in Nat /\ active \in Nat
    /\ requested \in Nat /\ accepted \in Nat /\ rejected \in Nat
    /\ failed \in Nat /\ completed \in Nat /\ limited \in Nat
    /\ conns \subseteq Worker
    /\ wire \in {"v1", "v2"} /\ proxies \subseteq Name
    /\ pc \in [Worker -> Pc]
    /\ socket \in [Worker -> {"none", "open", "destroyed"}]

\* The two gauges the dashboard shows are exact: total counts the workers
\* whose promise chain has not ended (and so never passes the limit), active
\* those that hold an assigned connection, whatever went wrong in between.
GaugesExact ==
    /\ total = Cardinality(Busy)
    /\ total <= Max
    /\ active = Cardinality(Assigned)
    /\ accepted = active + completed

\* Every socket that is open is one stop() will find, save the one whose v2
\* magic is still being written; and after stop() no other is left open.
\* This is what pool.test.ts:149 samples with one late connection.
OpenSocketsTracked ==
    \A w \in Worker :
        socket[w] = "open" => (live /\ w \in conns) \/ pc[w] = "magic"

\* While the pool is live no request vanishes from its statistics: what is
\* not refused is still running or was counted as an outcome at least once.
Unfinished == {w \in Worker : pc[w] \notin {"idle", "settledOk"}}
RequestsAccountedFor ==
    live => requested <=
            limited + Cardinality(Unfinished) + completed + rejected + failed

\* The pool does what the rest of the client relies on.
Slots == INSTANCE WorkSlots WITH accepting <- live, busy <- Busy
SlotsSpec == Slots!Safety

\* A stopped pool runs empty, whatever its workers were waiting for, except for
\* handlers that had not reached their backend when stop() destroyed their
\* connection: these keep their slot as long as the backend likes.
StopDrains == \A w \in Worker : ~live ~> pc[w] \in {"idle", "deaf"}
=============================================================================
