------------------------- MODULE WorkConnPoolProofs -------------------------
(***************************************************************************)
(* Safety of WorkConnPool for every set of slots, limit and set of names:  *)
(* its types, its gauges, its sockets, its statistics, and that it         *)
(* implements WorkSlots.  Everything rests on one inductive invariant.     *)
(***************************************************************************)
EXTENDS WorkConnPool, FiniteSetTheorems, TLAPS

(* Where a socket may be open.  OpenSocketsTracked alone is not inductive: *)
(* that stop() reaches every open socket needs the connection of each      *)
(* worker inside the try of #worker to be in conns, and that a worker that *)
(* has left the try owns no open socket.                                   *)
SocketPlaces ==
    \A w \in Worker :
        /\ live /\ pc[w] \in InTry => w \in conns
        /\ ~live /\ pc[w] \in InTry => socket[w] # "open"
        /\ socket[w] = "open" => pc[w] \in InTry \cup {"magic"}

IInv == TypeOK /\ GaugesExact /\ SocketPlaces /\ RequestsAccountedFor

-----------------------------------------------------------------------------
One(b) == IF b THEN 1 ELSE 0

\* Sets of workers are finite, so their cardinalities are numbers.
LEMMA FiniteWorkers ==
    ASSUME NEW S, S \subseteq Worker
    PROVE  IsFiniteSet(S) /\ Cardinality(S) \in Nat
BY WorkerAssumption, FS_Subset, FS_CardinalityType

\* How the number of workers suspended in a set S of awaits changes when one
\* worker moves: the fact behind every gauge of the pool.
LEMMA MoveCount ==
    ASSUME pc \in [Worker -> Pc], NEW w \in Worker, NEW q \in Pc,
           pc' = [pc EXCEPT ![w] = q], NEW S
    PROVE  Cardinality({v \in Worker : pc'[v] \in S}) + One(pc[w] \in S) =
           Cardinality({v \in Worker : pc[v] \in S}) + One(q \in S)
<1> DEFINE A == {v \in Worker : pc[v] \in S}
           B == {v \in Worker : pc'[v] \in S}
<1>1. /\ IsFiniteSet(A) /\ Cardinality(A) \in Nat
      /\ IsFiniteSet(B) /\ Cardinality(B) \in Nat
  BY FiniteWorkers
<1>2. CASE (q \in S) <=> (pc[w] \in S)
  <2>1. A = B
    BY <1>2
  <2> QED
    BY <1>1, <1>2, <2>1 DEF One
<1>3. CASE q \in S /\ pc[w] \notin S
  <2>1. w \notin A /\ B = A \cup {w}
    BY <1>3
  <2>2. Cardinality(B) = Cardinality(A) + 1
    BY <1>1, <2>1, FS_AddElement
  <2> QED
    BY <1>1, <1>3, <2>2 DEF One
<1>4. CASE q \notin S /\ pc[w] \in S
  <2>1. w \in A /\ B = A \ {w}
    BY <1>4
  <2> HIDE DEF A, B
  <2>2. Cardinality(B) = Cardinality(A) - 1
    BY <1>1, <2>1, FS_RemoveElement
  <2>3. Cardinality(B) + 1 = Cardinality(A) + 0
    BY <1>1, <2>2
  <2> QED
    BY <1>4, <2>3 DEF One, A, B
<1> QED
  BY <1>2, <1>3, <1>4

\* What the move of worker w to the await q does to the three counts the
\* invariant speaks of.
Moved(w, q) ==
    /\ pc' \in [Worker -> Pc]
    /\ Cardinality(Busy) \in Nat /\ Cardinality(Busy') \in Nat
    /\ Cardinality(Assigned) \in Nat /\ Cardinality(Assigned') \in Nat
    /\ Cardinality(Unfinished) \in Nat /\ Cardinality(Unfinished') \in Nat
    /\ Cardinality(Busy') + One(pc[w] # "idle") =
       Cardinality(Busy) + One(q # "idle")
    /\ Cardinality(Assigned') + One(pc[w] \in AssignedAt) =
       Cardinality(Assigned) + One(q \in AssignedAt)
    /\ Cardinality(Unfinished') + One(pc[w] \notin {"idle", "settledOk"}) =
       Cardinality(Unfinished) + One(q \notin {"idle", "settledOk"})

LEMMA Move ==
    ASSUME TypeOK, NEW w \in Worker, NEW q \in Pc, pc' = [pc EXCEPT ![w] = q]
    PROVE  Moved(w, q)
<1> DEFINE At(S) == {v \in Worker : pc[v] \in S}
           AtNext(S) == {v \in Worker : pc'[v] \in S}
<1>1. pc \in [Worker -> Pc] /\ pc' \in [Worker -> Pc]
  BY DEF TypeOK
<1>2. /\ Busy = At(Pc \ {"idle"}) /\ Busy' = AtNext(Pc \ {"idle"})
      /\ Assigned = At(AssignedAt) /\ Assigned' = AtNext(AssignedAt)
      /\ Unfinished = At(Pc \ {"idle", "settledOk"})
      /\ Unfinished' = AtNext(Pc \ {"idle", "settledOk"})
  BY <1>1 DEF Busy, Assigned, Unfinished
<1>3. \A S : /\ Cardinality(At(S)) \in Nat /\ Cardinality(AtNext(S)) \in Nat
             /\ Cardinality(AtNext(S)) + One(pc[w] \in S) =
                Cardinality(At(S)) + One(q \in S)
  BY <1>1, MoveCount, FiniteWorkers
<1>4. /\ (pc[w] \in Pc \ {"idle"}) <=> (pc[w] # "idle")
      /\ (q \in Pc \ {"idle"}) <=> (q # "idle")
      /\ (pc[w] \in Pc \ {"idle", "settledOk"})
            <=> (pc[w] \notin {"idle", "settledOk"})
      /\ (q \in Pc \ {"idle", "settledOk"}) <=> (q \notin {"idle", "settledOk"})
  BY <1>1
<1> HIDE DEF At, AtNext
<1> QED
  BY <1>1, <1>2, <1>3, <1>4 DEF Moved
\* A move between two awaits on the same side of the assignment, with the
\* gauges left alone.
LEMMA SameSide ==
    ASSUME IInv, NEW w \in Worker, NEW q \in Pc, Moved(w, q),
           pc[w] # "idle", q # "idle", pc[w] \in AssignedAt <=> q \in AssignedAt,
           UNCHANGED <<total, active, accepted, completed>>
    PROVE  GaugesExact'
<1>1. /\ Cardinality(Busy') = Cardinality(Busy)
      /\ Cardinality(Assigned') = Cardinality(Assigned)
  BY DEF Moved, One
<1> QED
  BY <1>1 DEF IInv, GaugesExact

-----------------------------------------------------------------------------
(* The invariant is inductive *)

LEMMA InitIInv == Init => IInv
<1> SUFFICES ASSUME Init PROVE IInv
  OBVIOUS
<1>1. TypeOK
  BY DEF Init, TypeOK, Pc
<1>2. Busy = {} /\ Assigned = {} /\ Unfinished = {}
  BY DEF Init, Busy, Assigned, Unfinished, AssignedAt
<1>3. GaugesExact
  BY <1>2, NumberAssumption, FS_EmptySet DEF Init, GaugesExact
<1>4. SocketPlaces
  BY DEF Init, SocketPlaces, InTry, AssignedAt
<1>5. RequestsAccountedFor
  BY <1>2, FS_EmptySet DEF Init, RequestsAccountedFor
<1> QED
  BY <1>1, <1>3, <1>4, <1>5 DEF IInv

\* expand: a new worker is counted once in total, and the request either in
\* the unfinished workers or in limited.
LEMMA ExpandIInv == IInv /\ Expand => IInv'
<1> SUFFICES ASSUME IInv, Expand PROVE IInv'
  OBVIOUS
<1> USE DEF IInv
<1>1. ASSUME NEW w \in Worker, Spawn(w) PROVE IInv'
  <2> USE DEF Expand, Spawn, Full, config
  <2>1. pc' = [pc EXCEPT ![w] = "dialing"] /\ "dialing" \in Pc /\ pc[w] = "idle"
    BY <1>1 DEF Pc, Unassigned
  <2>m. Moved(w, "dialing")
    BY <2>1, Move
  <2>2. TypeOK'
    BY <1>1, <2>m DEF TypeOK, Moved
  <2>3. GaugesExact'
    BY <1>1, <2>1, <2>m, NumberAssumption
       DEF TypeOK, GaugesExact, One, AssignedAt, Moved
  <2>4. SocketPlaces'
    BY <1>1, <2>1 DEF TypeOK, SocketPlaces, InTry, AssignedAt
  <2>5. RequestsAccountedFor'
    BY <1>1, <2>1, <2>m DEF TypeOK, RequestsAccountedFor, One, Moved
  <2> QED
    BY <2>2, <2>3, <2>4, <2>5
<1>2. CASE RefuseFull \/ RefuseStopped
  <2> USE DEF Expand, RefuseFull, RefuseStopped, config
  <2>1. Busy' = Busy /\ Assigned' = Assigned /\ Unfinished' = Unfinished
    BY <1>2 DEF Busy, Assigned, Unfinished
  <2>2. Cardinality(Unfinished) \in Nat
    BY FiniteWorkers DEF Unfinished
  <2>3. TypeOK'
    BY <1>2 DEF TypeOK
  <2>4. GaugesExact' /\ SocketPlaces'
    BY <1>2, <2>1 DEF GaugesExact, SocketPlaces
  <2>5. RequestsAccountedFor'
    BY <1>2, <2>1, <2>2 DEF TypeOK, RequestsAccountedFor
  <2> QED
    BY <2>3, <2>4, <2>5
<1> QED
  BY <1>1, <1>2 DEF Expand

\* The first part of #worker, whether or not the pool was stopped meanwhile.
LEMMA EnterIInv ==
    ASSUME IInv, NEW w \in Worker, pc[w] \in {"dialing", "magic"}, Enter(w),
           UNCHANGED <<live, total, active, counters, config>>
    PROVE  IInv'
<1> USE DEF IInv, counters, config
<1>1. PICK q \in {"announcing", "settledOk"} : pc' = [pc EXCEPT ![w] = q]
  BY DEF Enter
<1>2. q \in Pc /\ (live => q = "announcing")
  BY <1>1 DEF Enter, TypeOK, Pc, Unassigned, Settled
<1>m. Moved(w, q)
  BY <1>1, <1>2, Move
<1>3. TypeOK'
  BY <1>m DEF TypeOK, Enter, Moved
<1>4. GaugesExact'
  BY <1>2, <1>m DEF TypeOK, GaugesExact, One, AssignedAt, Moved
<1>5. SocketPlaces'
  BY DEF TypeOK, SocketPlaces, Enter, InTry, AssignedAt
<1>6. RequestsAccountedFor'
  BY <1>2, <1>m DEF TypeOK, RequestsAccountedFor, One, Moved
<1> QED
  BY <1>3, <1>4, <1>5, <1>6

\* The steps that only move a worker on, inside its try.
LEMMA GotoIInv ==
    ASSUME IInv, NEW w \in Worker, NEW from \in AssignedAt, NEW to \in AssignedAt,
           Goto(w, from, to)
    PROVE  IInv'
<1> USE DEF IInv, Goto, counters, config
<1>1. from \in Pc /\ to \in Pc /\ from # "idle" /\ to # "idle"
      /\ from # "settledOk" /\ to # "settledOk"
  BY DEF Pc, AssignedAt
<1>m. Moved(w, to)
  BY <1>1, Move
<1>2. TypeOK'
  BY <1>m DEF TypeOK, Moved
<1>3. GaugesExact'
  BY <1>1, <1>m DEF TypeOK, GaugesExact, One, Moved
<1>4. SocketPlaces'
  BY DEF TypeOK, SocketPlaces, InTry
<1>5. RequestsAccountedFor'
  BY <1>1, <1>m DEF TypeOK, RequestsAccountedFor, One, Moved
<1> QED
  BY <1>2, <1>3, <1>4, <1>5

\* The ends of a worker that was never assigned: its finally runs and at most
\* one of failed and rejected counts it.
LEMMA UnassignedEndIInv ==
    ASSUME IInv, NEW w \in Worker,
           \/ AnnounceFails(w) \/ ReadWrongType(w) \/ ReadFails(w)
           \/ ServerRejects(w)
    PROVE  IInv'
<1> USE DEF IInv, AnnounceFails, ReadWrongType, ReadFails, ServerRejects,
            Cleanup, counters, config
<1>1. PICK q \in Settled : pc' = [pc EXCEPT ![w] = q]
  BY DEF Settled
<1>2. /\ q \in Pc /\ q # "idle" /\ q \notin AssignedAt
      /\ pc[w] \in {"announcing", "reading"} /\ pc[w] \notin AssignedAt
  BY DEF Pc, Settled, AssignedAt
<1>m. Moved(w, q)
  BY <1>1, <1>2, Move
<1>3. TypeOK'
  BY <1>m DEF TypeOK, Moved
<1>4. GaugesExact'
  BY <1>2, <1>m, SameSide
<1>5. SocketPlaces'
  BY DEF TypeOK, SocketPlaces, InTry, AssignedAt
<1>6. ASSUME live PROVE RequestsAccountedFor'
  <2>1. CASE AnnounceFails(w)
    <3>1. pc[w] = "announcing" /\ q = "settledErr"
      BY <1>1, <2>1 DEF TypeOK
    <3> QED
      BY <2>1, <3>1, <1>m DEF TypeOK, RequestsAccountedFor, One, Moved
  <2>2. CASE ReadWrongType(w) \/ ReadFails(w)
    <3>1. pc[w] = "reading" /\ failed' = failed + 1
      BY <1>6, <2>2
    <3>2. UNCHANGED <<requested, limited, completed, rejected>>
      BY <2>2
    <3>3. Cardinality(Unfinished') + 1 >= Cardinality(Unfinished)
      BY <1>m, <3>1 DEF Moved, One
    <3> HIDE DEF ReadWrongType, ReadFails
    <3> QED
      BY <1>6, <3>1, <3>2, <3>3, <1>m DEF TypeOK, RequestsAccountedFor, Moved
  <2>3. CASE ServerRejects(w)
    <3>1. Cardinality(Unfinished') + 1 >= Cardinality(Unfinished)
      BY <1>2, <1>m DEF Moved, One
    <3> QED
      BY <1>6, <2>3, <3>1, <1>m DEF TypeOK, RequestsAccountedFor, Moved
  <2> QED
    BY <2>1, <2>2, <2>3
<1>7. live' = live
  OBVIOUS
<1>8. RequestsAccountedFor'
  BY <1>6, <1>7 DEF RequestsAccountedFor
<1> QED
  BY <1>3, <1>4, <1>5, <1>8

LEMMA AssignIInv ==
    ASSUME IInv, NEW w \in Worker, NEW p \in Name, Assign(w, p)
    PROVE  IInv'
<1> USE DEF IInv, Assign, config
<1>1. PICK q \in {"preparing", "unwindOk"} : pc' = [pc EXCEPT ![w] = q]
  OBVIOUS
<1>2. q \in Pc /\ q \in AssignedAt /\ pc[w] = "reading"
  BY DEF Pc, AssignedAt
<1>m. Moved(w, q)
  BY <1>1, <1>2, Move
<1>3. TypeOK'
  BY <1>m DEF TypeOK, Moved
<1>4. GaugesExact'
  BY <1>2, <1>m DEF TypeOK, GaugesExact, One, AssignedAt, Moved
<1>5. SocketPlaces'
  BY DEF TypeOK, SocketPlaces, InTry, AssignedAt
<1>6. RequestsAccountedFor'
  BY <1>2, <1>m DEF TypeOK, RequestsAccountedFor, One, Moved, AssignedAt
<1> QED
  BY <1>3, <1>4, <1>5, <1>6

\* The finally of an assigned connection: active falls by one, which the
\* gauge allows because w itself is among the assigned.
LEMMA UnwindIInv ==
    ASSUME IInv, NEW w \in Worker, Unwind(w)
    PROVE  IInv'
<1> USE DEF IInv, Unwind, Cleanup, config
<1>1. PICK q \in Settled : pc' = [pc EXCEPT ![w] = q]
  BY DEF Settled
<1>2. /\ q \in Pc /\ q # "idle" /\ q \notin AssignedAt
      /\ pc[w] \in AssignedAt
  BY DEF Pc, Settled, AssignedAt
<1>m. Moved(w, q)
  BY <1>1, <1>2, Move
<1>3. active - 1 \in Nat
  BY <1>2, <1>m DEF TypeOK, GaugesExact, One, Moved
<1>4. TypeOK'
  BY <1>3, <1>m DEF TypeOK, Moved
<1>5. GaugesExact'
  BY <1>2, <1>m DEF TypeOK, GaugesExact, One, Moved, AssignedAt
<1>6. SocketPlaces'
  BY DEF TypeOK, SocketPlaces, InTry, AssignedAt
<1>7. RequestsAccountedFor'
  BY <1>2, <1>m DEF TypeOK, RequestsAccountedFor, One, Moved, AssignedAt
<1> QED
  BY <1>4, <1>5, <1>6, <1>7

\* The remaining steps of a worker outside its try.
LEMMA OutsideIInv ==
    ASSUME IInv, NEW w \in Worker,
           ConnectFails(w) \/ CatchError(w) \/ Release(w)
    PROVE  IInv'
<1> USE DEF IInv, ConnectFails, CatchError, Release, counters, config
<1>1. PICK q \in Settled \cup {"idle"} : pc' = [pc EXCEPT ![w] = q]
  BY DEF Settled
<1>2. q \in Pc /\ q \notin AssignedAt /\ pc[w] \notin AssignedAt
  BY DEF Pc, Settled, AssignedAt
<1>m. Moved(w, q)
  BY <1>1, <1>2, Move
<1>3. TypeOK' /\ GaugesExact'
  <2>1. CASE Release(w)
    <3>1. q = "idle" /\ pc[w] = "settledOk"
      BY <1>1, <2>1 DEF TypeOK
    <3>2. total - 1 \in Nat
      BY <3>1, <1>m DEF TypeOK, GaugesExact, One, Moved
    <3>3. TypeOK'
      BY <2>1, <3>2, <1>m DEF TypeOK, Moved
    <3>4. GaugesExact'
      BY <2>1, <3>1, <3>2, <1>2, <1>m, NumberAssumption
         DEF TypeOK, GaugesExact, One, Moved
    <3> QED
      BY <3>3, <3>4
  <2>2. CASE ConnectFails(w) \/ CatchError(w)
    <3>1. q # "idle" /\ pc[w] # "idle"
      BY <1>1, <2>2 DEF TypeOK
    <3>2. TypeOK'
      BY <2>2, <1>m DEF TypeOK, Moved
    <3>3. GaugesExact'
      BY <2>2, <3>1, <1>2, <1>m DEF TypeOK, GaugesExact, One, Moved
    <3> QED
      BY <3>2, <3>3
  <2> QED
    BY <2>1, <2>2
<1>4. SocketPlaces'
  BY DEF TypeOK, SocketPlaces, InTry, AssignedAt
<1>5. RequestsAccountedFor'
  <2>1. CASE ConnectFails(w)
    <3>1. pc[w] \in {"dialing", "magic"} /\ q = "settledErr"
      BY <1>1, <2>1 DEF TypeOK
    <3> QED
      BY <2>1, <3>1, <1>m DEF TypeOK, RequestsAccountedFor, One, Moved
  <2>2. CASE CatchError(w)
    <3>1. pc[w] = "settledErr" /\ q = "settledOk"
      BY <1>1, <2>2 DEF TypeOK
    <3> QED
      BY <2>2, <3>1, <1>m DEF TypeOK, RequestsAccountedFor, One, Moved
  <2>3. CASE Release(w)
    <3>1. pc[w] = "settledOk" /\ q = "idle"
      BY <1>1, <2>3 DEF TypeOK
    <3> QED
      BY <2>3, <3>1, <1>m DEF TypeOK, RequestsAccountedFor, One, Moved
  <2> QED
    BY <2>1, <2>2, <2>3
<1> QED
  BY <1>3, <1>4, <1>5

\* A step that leaves every worker where it is and every counter as it was.
LEMMA PlacesUnmoved ==
    ASSUME IInv, pc' = pc, UNCHANGED <<total, active, counters>>, live' => live
    PROVE  GaugesExact' /\ RequestsAccountedFor'
<1>1. Busy' = Busy /\ Assigned' = Assigned /\ Unfinished' = Unfinished
  BY DEF Busy, Assigned, Unfinished
<1> QED
  BY <1>1 DEF IInv, counters, GaugesExact, RequestsAccountedFor

\* stop() destroys exactly the tracked sockets; SocketPlaces says that these
\* are all the open ones of the workers inside the try.
LEMMA StopIInv == IInv /\ Stop => IInv'
<1> SUFFICES ASSUME IInv, Stop PROVE IInv'
  OBVIOUS
<1> USE DEF Stop, counters, config
<1>1. TypeOK'
  BY DEF IInv, TypeOK
<1>2. GaugesExact' /\ RequestsAccountedFor'
  BY PlacesUnmoved
<1>3. SocketPlaces'
  BY DEF IInv, TypeOK, SocketPlaces
<1> QED
  BY <1>1, <1>2, <1>3 DEF IInv

LEMMA ChangeProxiesIInv == IInv /\ (ChangeProxies \/ UNCHANGED vars) => IInv'
<1> SUFFICES ASSUME IInv, ChangeProxies \/ UNCHANGED vars PROVE IInv'
  OBVIOUS
<1> USE DEF ChangeProxies, vars, counters, config
<1>1. TypeOK'
  BY DEF IInv, TypeOK
<1>2. GaugesExact' /\ RequestsAccountedFor'
  BY PlacesUnmoved
<1>3. SocketPlaces'
  BY DEF IInv, TypeOK, SocketPlaces
<1> QED
  BY <1>1, <1>2, <1>3 DEF IInv

LEMMA WorkerIInv == ASSUME IInv, NEW w \in Worker, WorkerStep(w) PROVE IInv'
<1>1. CASE DialOk(w)
  <2>1. CASE wire = "v1"
    BY <1>1, <2>1, EnterIInv DEF DialOk
  <2>2. CASE wire # "v1"
    <3> USE DEF DialOk, counters, config, IInv
    <3>1. /\ pc' = [pc EXCEPT ![w] = "magic"] /\ pc[w] = "dialing"
          /\ "magic" \in Pc /\ pc[w] \notin AssignedAt /\ "magic" \notin AssignedAt
      BY <1>1, <2>2 DEF Pc, Unassigned, AssignedAt
    <3>m. Moved(w, "magic")
      BY <3>1, Move
    <3>2. TypeOK'
      BY <1>1, <2>2, <3>m DEF TypeOK, Moved
    <3>u. UNCHANGED <<live, total, active, counters>>
      BY <1>1
    <3>3. GaugesExact'
      BY <3>1, <3>m, <3>u, SameSide
    <3>4. SocketPlaces'
      BY <1>1, <2>2 DEF TypeOK, SocketPlaces, InTry, AssignedAt
    <3>5. RequestsAccountedFor'
      BY <1>1, <2>2, <3>1, <3>m DEF TypeOK, RequestsAccountedFor, One, Moved
    <3> QED
      BY <3>2, <3>3, <3>4, <3>5
  <2> QED
    BY <2>1, <2>2
<1>2. CASE MagicWritten(w)
  BY <1>2, EnterIInv DEF MagicWritten
<1>3. CASE AnnounceOk(w)
  <2> USE DEF AnnounceOk, counters, config, IInv
  <2>1. /\ pc' = [pc EXCEPT ![w] = "reading"] /\ pc[w] = "announcing"
        /\ "reading" \in Pc /\ pc[w] \notin AssignedAt /\ "reading" \notin AssignedAt
    BY <1>3 DEF Pc, Unassigned, AssignedAt
  <2>m. Moved(w, "reading")
    BY <2>1, Move
  <2>2. TypeOK'
    BY <1>3, <2>m DEF TypeOK, Moved
  <2>3. GaugesExact'
    BY <1>3, <2>1, <2>m, SameSide
  <2>4. SocketPlaces'
    BY <1>3 DEF TypeOK, SocketPlaces, InTry, AssignedAt
  <2>5. RequestsAccountedFor'
    BY <1>3, <2>1, <2>m DEF TypeOK, RequestsAccountedFor, One, Moved
  <2> QED
    BY <2>2, <2>3, <2>4, <2>5
<1>4. CASE AnnounceFails(w) \/ ReadWrongType(w) \/ ReadFails(w) \/ ServerRejects(w)
  BY <1>4, UnassignedEndIInv
<1>5. CASE \E p \in Name : Assign(w, p)
  BY <1>5, AssignIInv
<1>6. CASE \/ PrepareOk(w) \/ PrepareFails(w) \/ HandlerJoins(w)
           \/ HandlerEnds(w) \/ HandlerFails(w) \/ HookReturns(w) \/ HookThrows(w)
  <2>1. PICK from \in AssignedAt, to \in AssignedAt : Goto(w, from, to)
    BY <1>6 DEF PrepareOk, PrepareFails, HandlerJoins, HandlerEnds, HandlerFails,
                HookReturns, HookThrows, AssignedAt
  <2> QED
    BY <2>1, GotoIInv
<1>7. CASE Unwind(w)
  BY <1>7, UnwindIInv
<1>8. CASE ConnectFails(w) \/ CatchError(w) \/ Release(w)
  BY <1>8, OutsideIInv
<1> QED
  BY <1>1, <1>2, <1>3, <1>4, <1>5, <1>6, <1>7, <1>8 DEF WorkerStep

LEMMA NextIInv == IInv /\ [Next]_vars => IInv'
BY ExpandIInv, StopIInv, ChangeProxiesIInv, WorkerIInv DEF Next

THEOREM Invariance == Safety => []IInv
<1>1. Init => IInv
  BY InitIInv
<1>2. IInv /\ [Next]_vars => IInv'
  BY NextIInv
<1> QED
  BY <1>1, <1>2, PTL DEF Safety

\* The statements a run checks on small instances, for every instance.

THEOREM TypeCorrect == Safety => []TypeOK
BY Invariance, PTL DEF IInv

\* The gauges and the limit hold however many slots and requests there are.
THEOREM Gauges == Safety => []GaugesExact
BY Invariance, PTL DEF IInv

THEOREM Statistics == Safety => []RequestsAccountedFor
BY Invariance, PTL DEF IInv

\* No open socket escapes stop().
THEOREM Tracking == Safety => []OpenSocketsTracked
<1>1. IInv => OpenSocketsTracked
  BY DEF IInv, TypeOK, SocketPlaces, OpenSocketsTracked
<1> QED
  BY <1>1, Invariance, PTL

-----------------------------------------------------------------------------
(* WorkConnPool implements WorkSlots *)

\* WorkSlots extends FiniteSets in its own name.
LEMMA SlotsCardinality == \A S : Slots!Cardinality(S) = Cardinality(S)
BY DEF Slots!Cardinality, Cardinality

LEMMA BusyUnlessReleased ==
    ASSUME IInv, NEW w \in Worker, WorkerStep(w), ~Release(w)
    PROVE  Busy' = Busy /\ live' = live
<1>1. PICK q \in Pc \ {"idle"} : pc' = [pc EXCEPT ![w] = q]
  BY DEF WorkerStep, DialOk, MagicWritten, Enter, ConnectFails, AnnounceOk,
         AnnounceFails, ReadWrongType, ReadFails, ServerRejects, Cleanup, Assign,
         PrepareOk, PrepareFails, HandlerJoins, HandlerEnds, HandlerFails, HookReturns,
         HookThrows, Goto, Unwind, CatchError, Pc, Unassigned, AssignedAt, Settled
<1>2. pc[w] # "idle"
  BY DEF WorkerStep, DialOk, MagicWritten, ConnectFails, AnnounceOk,
         AnnounceFails, ReadWrongType, ReadFails, ServerRejects, Assign,
         PrepareOk, PrepareFails, HandlerJoins, HandlerEnds, HandlerFails, HookReturns,
         HookThrows, Goto, Unwind, CatchError
<1>3. live' = live
  BY DEF WorkerStep, DialOk, MagicWritten, ConnectFails, AnnounceOk,
         AnnounceFails, ReadWrongType, ReadFails, ServerRejects, Assign,
         PrepareOk, PrepareFails, HandlerJoins, HandlerEnds, HandlerFails, HookReturns,
         HookThrows, Goto, Unwind, CatchError
<1> QED
  BY <1>1, <1>2, <1>3 DEF Busy, IInv, TypeOK

LEMMA StepRefines ==
    ASSUME IInv, [Next]_vars
    PROVE  [Slots!Next]_<<live, Busy>>
<1>1. CASE Expand
  <2>1. ASSUME NEW w \in Worker, Spawn(w) PROVE Slots!Take(w)
    <3>1. w \notin Busy /\ Busy' = Busy \cup {w}
      BY <2>1 DEF Spawn, Busy, IInv, TypeOK
    <3>2. Cardinality(Busy) < Max
      BY <2>1, NumberAssumption DEF Spawn, Full, IInv, TypeOK, GaugesExact
    <3>3. live /\ live' = live
      BY <1>1, <2>1 DEF Spawn, Expand
    <3> QED
      BY <3>1, <3>2, <3>3, SlotsCardinality DEF Slots!Take
  <2>2. CASE RefuseFull \/ RefuseStopped
    BY <1>1, <2>2 DEF RefuseFull, RefuseStopped, Expand, Busy
  <2> QED
    BY <1>1, <2>1, <2>2 DEF Expand, Slots!Next
<1>2. CASE Stop
  <2>1. Busy' = Busy
    BY <1>2 DEF Stop, Busy
  <2> QED
    BY <1>2, <2>1 DEF Stop, Slots!Next, Slots!Close
<1>3. CASE ChangeProxies \/ UNCHANGED vars
  BY <1>3 DEF ChangeProxies, vars, Busy
<1>4. ASSUME NEW w \in Worker, WorkerStep(w) PROVE [Slots!Next]_<<live, Busy>>
  <2>1. CASE Release(w)
    <3>1. w \in Busy /\ Busy' = Busy \ {w}
      BY <2>1 DEF Release, Busy, IInv, TypeOK
    <3> QED
      BY <2>1, <3>1 DEF Release, Slots!Next, Slots!GiveBack
  <2>2. CASE ~Release(w)
    BY <1>4, <2>2, BusyUnlessReleased
  <2> QED
    BY <2>1, <2>2
<1> QED
  BY <1>1, <1>2, <1>3, <1>4 DEF Next

\* The pool is a correct implementation of the slots the control channel
\* counts on: never more than Max attempts, none begun after stop().
THEOREM Refinement == Safety => SlotsSpec
<1>1. Init => Slots!Init
  BY DEF Init, Slots!Init, Busy
<1>2. IInv /\ [Next]_vars => [Slots!Next]_<<live, Busy>>
  BY StepRefines
<1> QED
  BY <1>1, <1>2, Invariance, PTL DEF Safety, SlotsSpec, Slots!Safety, Slots!slotVars
=============================================================================
