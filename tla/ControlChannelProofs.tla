------------------------ MODULE ControlChannelProofs ------------------------
(***************************************************************************)
(* Theorems about the control channel, for all proxies, visitors, hooks,   *)
(* knobs and bounds.                                                       *)
(*   Listeners  the sockets of the visitors.  The only way to lose one is  *)
(*              an action that touches listener or visitors, so the first  *)
(*              lemma finds those actions among all of Next.               *)
(*   Held       what the channel holds between sessions.                   *)
(*   Waiters    the registrations that wait for an answer.  One lemma for  *)
(*              each way the shared table pending can change, and then one *)
(*              step for each action, which says which of these it is.     *)
(*   TypeCorrect  the types, of which the range of the counter of the      *)
(*              startups' loops is the one that needs an invariant.        *)
(*   NoPhantoms  the client offers no proxy the server has closed.         *)
(*   Agreed     the server holds no proxy the client does not offer.       *)
(* The last two are about two parties and need assumptions on both.        *)
(***************************************************************************)
EXTENDS ControlChannel, TLAPS

Sockets == [Runtime -> {"none", "starting", "open", "stopped"}]

\* What one step can do to the visitors.
VisitorStep == \/ UNCHANGED visVars
               \/ StopVisitors
               \/ \E t \in Startups : \/ VisitorListens(t) \/ VisitorReady(t)
                                      \/ VisitorFails(t)

LEMMA TaskActions ==
    ASSUME NEW t \in Task
    PROVE  /\ RunOn(t) => VisitorStep
           /\ WakeUp(t) => VisitorStep
           /\ Event(t) => VisitorStep
<1>1. Register(t) => UNCHANGED visVars  BY DEF Register, visVars
<1>2. VisitorsBegin(t) => StopVisitors  BY DEF VisitorsBegin
<1>3. /\ Answered(t) => UNCHANGED visVars
      /\ StartupContinues(t) => UNCHANGED visVars
      /\ MonitorsStart(t) => UNCHANGED visVars
      /\ MonitorContinues(t) => UNCHANGED visVars
  BY DEF Answered, StartupContinues, MonitorsStart, MonitorContinues, visVars
<1>4. /\ WriteOk(t) => UNCHANGED visVars
      /\ WriteFails(t) => UNCHANGED visVars
      /\ RespTimeout(t) => UNCHANGED visVars
      /\ HookReturns(t) => UNCHANGED visVars
      /\ HookThrows(t) => UNCHANGED visVars
  BY DEF WriteOk, WriteFails, RespTimeout, HookReturns, HookThrows, visVars
<1>5. /\ Tick(t) => UNCHANGED visVars
      /\ CheckOk(t) => UNCHANGED visVars
      /\ CheckFails(t) => UNCHANGED visVars
      /\ CloseWritten(t) => UNCHANGED visVars
      /\ CloseWriteFails(t) => UNCHANGED visVars
  BY DEF Tick, CheckOk, CheckFails, CloseWritten, CloseWriteFails, visVars
<1> QED
  BY <1>1, <1>2, <1>3, <1>4, <1>5 DEF RunOn, WakeUp, Event, VisitorStep

LEMMA StepsOnVisitors == ASSUME [Next]_vars PROVE VisitorStep
<1>1. CASE UNCHANGED vars
  BY <1>1 DEF VisitorStep, vars, visVars
<1>2. /\ RunEvent => VisitorStep
      /\ Stop => VisitorStep
      /\ SessionEnds => VisitorStep
  <2>1. /\ Run => UNCHANGED visVars
        /\ ReconnectHook => UNCHANGED visVars
        /\ Wake => UNCHANGED visVars
        /\ DialFails => UNCHANGED visVars
        /\ DialOk => UNCHANGED visVars
        /\ DialTooLate => UNCHANGED visVars
        /\ LoginOk => UNCHANGED visVars
        /\ SessionStarts => UNCHANGED visVars
    BY DEF Run, ReconnectHook, Wake, DialFails, DialOk, DialTooLate, LoginOk,
           SessionStarts, visVars
  <2>2. /\ SetupFails => StopVisitors
        /\ SessionEnds => StopVisitors
        /\ Stop => StopVisitors
    BY DEF SetupFails, SessionEnds, Stop, Teardown
  <2> QED  BY <2>1, <2>2 DEF RunEvent, VisitorStep
<1>3. /\ ReadMsg => UNCHANGED visVars
      /\ ReaderClosed => UNCHANGED visVars
      /\ ReaderBroken => UNCHANGED visVars
      /\ HeartbeatFails => UNCHANGED visVars
      /\ LinkLost => UNCHANGED visVars
      /\ \A n \in Name : ServerCloses(n) => UNCHANGED visVars
  BY DEF ReadMsg, ReaderClosed, ReaderBroken, ReadLoopFails, HeartbeatFails,
         LinkLost, ServerCloses, visVars
<1>4. CASE Next
  BY <1>2, <1>3, <1>4, TaskActions
      DEF Next, ReadRejects, ConnectReturns, VisitorStep
<1> QED  BY <1>1, <1>4

\* No visitor's listening socket is lost sight of, however many startup tasks
\* of ended sessions are still running.
THEOREM Listeners == Safety => []ListenersTracked
<1> DEFINE Inv == listener \in Sockets /\ ListenersTracked
<1>1. Init => Inv
  BY DEF Init, ListenersTracked, Sockets
<1>2. Inv /\ [Next]_vars => Inv'
  <2> SUFFICES ASSUME Inv, [Next]_vars PROVE Inv'
    OBVIOUS
  <2>1. VisitorStep  BY StepsOnVisitors
  <2>2. CASE UNCHANGED visVars
    BY <2>2 DEF visVars, ListenersTracked, Sockets
  <2>3. CASE StopVisitors
    BY <2>3 DEF StopVisitors, ListenersTracked, Sockets
  <2>4. ASSUME NEW t \in Startups, VisitorListens(t) PROVE Inv'
    <3>1. /\ visitors' = visitors \cup {VisitorOf(t)}
          /\ listener' = [listener EXCEPT ![VisitorOf(t)] = "starting"]
      BY <2>4 DEF VisitorListens
    <3> QED  BY <3>1 DEF ListenersTracked, Sockets
  <2>5. ASSUME NEW t \in Startups, VisitorReady(t) PROVE Inv'
    <3>1. /\ visitors' = visitors
          /\ listener' = [listener EXCEPT ![VisitorOf(t)] =
                              IF @ = "starting" THEN "open" ELSE @]
      BY <2>5 DEF VisitorReady
    <3> QED  BY <3>1 DEF ListenersTracked, Sockets
  <2>6. ASSUME NEW t \in Startups, VisitorFails(t) PROVE Inv'
    <3>1. /\ visitors' = visitors \ {VisitorOf(t)}
          /\ listener' = [listener EXCEPT ![VisitorOf(t)] = "stopped"]
      BY <2>6 DEF VisitorFails
    <3> QED  BY <3>1 DEF ListenersTracked, Sockets
  <2> QED  BY <2>1, <2>2, <2>3, <2>4, <2>5, <2>6 DEF VisitorStep
<1>3. Inv => ListenersTracked
  OBVIOUS
<1> QED  BY <1>1, <1>2, <1>3, PTL DEF Safety
-----------------------------------------------------------------------------
(* NothingHeld is inductive as it stands: what takes a connection or a pool  *)
(* moves phase on to a session, and what moves it away tears both down.      *)

\* A step outside run() holds nothing new.
Lets == UNCHANGED <<phase, conn, pool>> /\ (linkUp' => linkUp)

\* The end of a session, or of its beginnings, lets go of everything.
Freed == conn' = 0 /\ ~linkUp' /\ ~pool'

LEMMA TasksLet ==
    ASSUME NEW t \in Task
    PROVE  /\ RunOn(t) => Lets
           /\ WakeUp(t) => Lets
           /\ Event(t) => Lets
<1>1. ASSUME Register(t) PROVE Lets
  <2>1. linkUp' = linkUp \/ Spoil
    BY <1>1, Zenon DEF Register
  <2>2. linkUp' => linkUp
    BY <2>1, Zenon DEF Spoil
  <2> QED  BY <1>1, <2>2 DEF Register, Lets, runVars
<1>2. ASSUME CheckFails(t) PROVE Lets
  <2>1. linkUp' = linkUp \/ Spoil
    BY <1>2, Zenon DEF CheckFails
  <2>2. linkUp' => linkUp
    BY <2>1, Zenon DEF Spoil
  <2> QED  BY <1>2, <2>2 DEF CheckFails, Lets, runVars
<1>3. /\ VisitorsBegin(t) => Lets
      /\ VisitorListens(t) => Lets
      /\ VisitorReady(t) => Lets
      /\ VisitorFails(t) => Lets
  BY DEF VisitorsBegin, VisitorListens, VisitorReady, VisitorFails, Lets,
         runVars, connVars
<1>4. /\ Answered(t) => Lets
      /\ StartupContinues(t) => Lets
      /\ MonitorsStart(t) => Lets
      /\ MonitorContinues(t) => Lets
  BY DEF Answered, StartupContinues, MonitorsStart, MonitorContinues, Lets,
         runVars, connVars
<1>5. /\ WriteOk(t) => Lets
      /\ WriteFails(t) => Lets
      /\ RespTimeout(t) => Lets
      /\ HookReturns(t) => Lets
      /\ HookThrows(t) => Lets
  BY DEF WriteOk, WriteFails, RespTimeout, HookReturns, HookThrows, Lets,
         runVars, connVars
<1>6. Tick(t) \/ CheckOk(t) \/ CloseWritten(t) \/ CloseWriteFails(t) => Lets
  <2>1. /\ Tick(t) => UNCHANGED <<runVars, connVars>>
        /\ CheckOk(t) => UNCHANGED <<runVars, connVars>>
        /\ CloseWritten(t) => UNCHANGED <<runVars, connVars>>
        /\ CloseWriteFails(t) => UNCHANGED <<runVars, connVars>>
    BY Zenon DEF Tick, CheckOk, CloseWritten, CloseWriteFails
  <2> QED  BY <2>1 DEF Lets, runVars, connVars
<1> QED
  BY <1>1, <1>2, <1>3, <1>4, <1>5, <1>6 DEF RunOn, WakeUp, Event

LEMMA OthersLet ==
    /\ ReadMsg => Lets
    /\ ReaderClosed => Lets
    /\ ReaderBroken => Lets
    /\ HeartbeatFails => Lets
    /\ LinkLost => Lets
    /\ \A n \in Name : ServerCloses(n) => Lets
BY DEF ReadMsg, ReaderClosed, ReaderBroken, ReadLoopFails, HeartbeatFails,
       LinkLost, ServerCloses, Lets, runVars, connVars

\* Whatever ends a session, or keeps one from starting, leaves no connection
\* and no live pool behind, also with a stop() in the middle of #connect().
THEOREM Held == Safety => []NothingHeld
<1>1. Init => NothingHeld
  BY DEF Init, NothingHeld
<1>2. NothingHeld /\ [Next]_vars => NothingHeld'
  <2> SUFFICES ASSUME NothingHeld, [Next]_vars PROVE NothingHeld'
    OBVIOUS
  <2>1. CASE Lets
    BY <2>1 DEF Lets, NothingHeld
  <2>2. CASE Freed
    BY <2>2 DEF Freed, NothingHeld
  <2>3. CASE UNCHANGED vars
    BY <2>1, <2>3 DEF Lets, vars, runVars, connVars
  <2>4. SetupFails \/ SessionEnds \/ Stop => Freed
    BY DEF SetupFails, SessionEnds, Stop, Teardown, CloseTransport, Freed
  <2>5. CASE DialOk \/ LoginOk \/ SessionStarts
    <3>1. phase' \in {"login", "crypto", "up"}
      BY <2>5 DEF DialOk, LoginOk, SessionStarts
    <3> QED  BY <3>1 DEF NothingHeld
  <2>6. CASE Run \/ ReconnectHook \/ Wake \/ DialFails \/ DialTooLate
    <3>1. /\ phase \notin {"login", "crypto", "up"}
          /\ UNCHANGED <<conn, linkUp, pool>>
      BY <2>6 DEF Run, ReconnectHook, Wake, DialFails, DialTooLate, connVars
    <3> QED  BY <3>1 DEF NothingHeld
  <2>7. RunEvent \/ SessionEnds \/ Stop => NothingHeld'
    BY <2>2, <2>4, <2>5, <2>6 DEF RunEvent
  <2>8. ASSUME NEW t \in Task, RunOn(t) \/ WakeUp(t) \/ Event(t)
        PROVE  NothingHeld'
    BY <2>1, <2>8, TasksLet
  <2> QED  BY <2>1, <2>3, <2>7, <2>8, OthersLet
      DEF Next, ReadRejects, ConnectReturns
<1> QED  BY <1>1, <1>2, PTL DEF Safety
-----------------------------------------------------------------------------
(* WaitersReachable.  A task waits while its promise is open.  The invariant *)
(* adds the types of what is indexed (Types); that whoever may delete an     *)
(* entry by name has one (Named); that a monitor only begins when its        *)
(* startup is done, and is not waiting when it is set to begin (Later); and  *)
(* that the startup of a session that is about to begin has not begun        *)
(* (Fresh).                                                                  *)

Wait       == {"writing", "awaiting"}
Waiting(t) == at[t] \in Wait /\ answer[t] = "none"
NamedAt    == Wait \cup {"okHook", "errHook"}
Msg == [type : {"NewProxyResp", "CloseProxy"}, name : Name,
        how : {"ok", "error"}]

Types == /\ at \in [Task -> At]
         /\ answer \in [Task -> {"none", "ok", "error", "rejected"}]
         /\ pending \in [Name -> Task \cup {NoTask}]
         /\ step \in [Session -> Nat \ {0}]
         /\ toClient \in Seq(Msg)
Named == \A t \in Task : at[t] \in NamedAt => NameOf(t) \in Name
Later == \A t \in Startups, u \in Monitors :
             u[1] = t[1] /\ at[t] # "done" => at[u] = "none"
Fresh == /\ session \in 0..MaxSessions
         /\ \A t \in Startups : t[1] > session => at[t] = "none"
         /\ phase \in {"login", "crypto"} =>
                /\ session \in Session
                /\ \A t \in Startups : t[1] = session => at[t] = "none"
Entries == \A t \in Task : Waiting(t) => pending[NameOf(t)] = t
Owners == \A n \in Name :
             pending[n] # NoTask => /\ Waiting(pending[n])
                                    /\ NameOf(pending[n]) = n
Connected == \A n \in Name : pending[n] # NoTask => conn # 0

WInv == Types /\ Named /\ Later /\ Entries /\ Owners /\ Connected

LEMMA Shape == WInv => WaitersReachable
BY DEF WInv, WaitersReachable, Entries, Owners, Connected, Waiting, Wait

LEMMA NoTaskIsNone == NoTask \notin Task
BY DEF NoTask, Task, Session

LEMMA MonitorNames == \A t \in Monitors : NameOf(t) = t[2] /\ NameOf(t) \in Name
BY DEF Monitors, Startups, Task, NameOf, Name

\* Nothing of what WInv says of a task moves.
Still == UNCHANGED <<at, answer, pending, step>>

LEMMA StillKeeps ==
    ASSUME WInv, Still, toClient' \in Seq(Msg), conn' = 0 => conn = 0
    PROVE  WInv'
BY DEF WInv, Types, Named, Later, Entries, Owners, Connected, Waiting, Still,
       NameOf

\* A task that does not wait goes on, to where it does not wait either.
Hop(t, to) == /\ at' = [at EXCEPT ![t] = to]
              /\ UNCHANGED <<answer, pending, step, toClient, conn>>

LEMMA HopKeeps ==
    ASSUME WInv, NEW t \in Task, NEW to \in At \ (Wait \cup {"none", "done"}),
           at[t] \notin {"none", "done"}, ~Waiting(t),
           to \in NamedAt => at[t] \in NamedAt,
           Hop(t, to)
    PROVE  WInv'
<1>1. /\ at' = [at EXCEPT ![t] = to]
      /\ answer' = answer /\ pending' = pending /\ step' = step
      /\ toClient' = toClient /\ conn' = conn
  BY DEF Hop
<1>2. at'[t] = to /\ \A u \in Task : u # t => at'[u] = at[u]
  BY <1>1 DEF WInv, Types
<1>3. \A u \in Task : NameOf(u)' = NameOf(u)
  BY <1>1 DEF NameOf
<1>4. \A u \in Task : Waiting(u)' <=> Waiting(u)
  BY <1>1, <1>2 DEF Waiting, Wait
<1>5. Types'
  BY <1>1 DEF WInv, Types
<1>6. Named'
  BY <1>2, <1>3 DEF WInv, Named
<1>7. Later'
  <2> SUFFICES ASSUME NEW v \in Startups, NEW u \in Monitors,
                      u[1] = v[1], at'[v] # "done"
               PROVE  at'[u] = "none"
    BY DEF Later
  <2>1. v \in Task /\ u \in Task /\ u # v
    BY DEF Startups, Monitors
  <2>2. at[v] # "done"
    BY <1>2, <2>1
  <2>3. at[u] = "none"
    BY <2>2 DEF WInv, Later
  <2> QED  BY <1>2, <2>1, <2>3
<1>8. Entries' /\ Owners' /\ Connected'
  BY <1>1, <1>3, <1>4, NoTaskIsNone DEF WInv, Entries, Owners, Connected, Types
<1> QED  BY <1>5, <1>6, <1>7, <1>8 DEF WInv

\* All waiters are refused, and the scheduled monitors of the registry end.
LEMMA RejectKeeps ==
    ASSUME WInv, RejectPending, step' = step, toClient' \in Seq(Msg),
           \/ at' = at
           \/ at' = [t \in Task |-> IF InRegistry(t) /\ at[t] = "timer"
                                    THEN "ended" ELSE at[t]]
    PROVE  WInv'
<1>1. /\ at' \in [Task -> At]
      /\ \A t \in Task : at'[t] = at[t] \/ (at[t] = "timer" /\ at'[t] = "ended")
      /\ \A t \in Startups : at'[t] = at[t]
  BY DEF WInv, Types, InRegistry, Monitors, Startups, At, RestAt
<1>2. /\ pending' = [n \in Name |-> NoTask]
      /\ answer' = [t \in Task |-> IF \E n \in Name : pending[n] = t
                                   THEN "rejected" ELSE answer[t]]
  BY DEF RejectPending
<1>3. \A t \in Task : NameOf(t)' = NameOf(t)
  BY DEF NameOf
<1>4. ASSUME NEW t \in Task PROVE ~Waiting(t)'
  <2>1. CASE Waiting(t)
    <3>1. NameOf(t) \in Name /\ pending[NameOf(t)] = t
      BY <2>1 DEF WInv, Named, Entries, Waiting, NamedAt
    <3> QED  BY <3>1, <1>2 DEF Waiting
  <2>2. CASE ~Waiting(t)
    BY <2>2, <1>1, <1>2 DEF Waiting, Wait
  <2> QED  BY <2>1, <2>2
<1>5. Types'
  BY <1>1, <1>2 DEF WInv, Types
<1>6. Named'
  BY <1>1, <1>3 DEF WInv, Named, NamedAt, Wait
<1>7. Later'
  BY <1>1 DEF WInv, Later, Monitors
<1>8. Entries' /\ Owners' /\ Connected'
  BY <1>2, <1>4 DEF Entries, Owners, Connected
<1> QED  BY <1>5, <1>6, <1>7, <1>8 DEF WInv

\* One entry is deleted, by name, and its waiter is given an answer.
Settle(n, how) ==
    /\ answer' = [u \in Task |-> IF pending[n] = u THEN how ELSE answer[u]]
    /\ pending' = [pending EXCEPT ![n] = NoTask]
    /\ UNCHANGED <<step, conn>>

LEMMA SettleKeeps ==
    ASSUME WInv, NEW n \in Name, NEW how \in {"ok", "error", "rejected"},
           Settle(n, how), at' = at, toClient' \in Seq(Msg)
    PROVE  WInv'
<1>1. /\ answer' = [u \in Task |-> IF pending[n] = u THEN how ELSE answer[u]]
      /\ pending' = [pending EXCEPT ![n] = NoTask]
      /\ step' = step /\ conn' = conn
  BY DEF Settle
<1>2. \A u \in Task : NameOf(u)' = NameOf(u)
  BY <1>1 DEF NameOf
<1>3. \A u \in Task : Waiting(u)' <=> Waiting(u) /\ pending[n] # u
  BY <1>1 DEF Waiting
<1>4. /\ pending'[n] = NoTask
      /\ \A m \in Name : m # n => pending'[m] = pending[m]
  BY <1>1 DEF WInv, Types
<1>5. Types'
  BY <1>1 DEF WInv, Types
<1>6. Named' /\ Later'
  BY <1>1, <1>2 DEF WInv, Named, Later
<1>7. Entries'
  BY <1>2, <1>3, <1>4 DEF WInv, Entries, Named, Waiting, NamedAt
<1>8. Owners'
  <2> SUFFICES ASSUME NEW m \in Name, pending'[m] # NoTask
               PROVE  Waiting(pending[m])' /\ NameOf(pending[m])' = m
                      /\ pending'[m] = pending[m]
    BY DEF Owners, Waiting, NameOf
  <2>1. m # n /\ pending'[m] = pending[m]
    BY <1>4
  <2>2. pending[m] \in Task /\ Waiting(pending[m]) /\ NameOf(pending[m]) = m
    BY <2>1, NoTaskIsNone DEF WInv, Owners, Types
  <2>3. pending[n] # pending[m]
    BY <2>1, <2>2, NoTaskIsNone DEF WInv, Owners
  <2> QED  BY <1>2, <1>3, <2>1, <2>2, <2>3
<1>9. Connected'
  BY <1>1, <1>4 DEF WInv, Connected
<1> QED  BY <1>5, <1>6, <1>7, <1>8, <1>9 DEF WInv

\* The catch of a registration: the entry under its name goes, whoever waits
\* there, and the task goes on.
LEMMA CatchKeeps ==
    ASSUME WInv, NEW t \in Task, at[t] \in NamedAt, Catch(t),
           step' = step, conn' = conn, toClient' = toClient
    PROVE  WInv'
<1> DEFINE n  == NameOf(t)
           to == IF readErr THEN "threw" ELSE "noResp"
<1>1. /\ answer' = [u \in Task |-> IF pending[n] = u THEN "rejected"
                                                     ELSE answer[u]]
      /\ pending' = [pending EXCEPT ![n] = NoTask]
      /\ at' = [at EXCEPT ![t] = to]
  BY DEF Catch, Goto
<1>2. n \in Name
  BY DEF WInv, Named
<1>3. to \in {"threw", "noResp"} /\ to \in At
  BY DEF At
<1> HIDE DEF n, to
<1>4. \A u \in Task : NameOf(u)' = NameOf(u)
  BY DEF NameOf
<1>5. at'[t] = to /\ \A u \in Task : u # t => at'[u] = at[u]
  BY <1>1 DEF WInv, Types
<1>6. Waiting(t) => pending[n] = t
  BY DEF WInv, Entries, n
<1>7. \A u \in Task : Waiting(u)' <=> Waiting(u) /\ pending[n] # u
  BY <1>1, <1>3, <1>5, <1>6 DEF Waiting, Wait
<1>8. /\ pending'[n] = NoTask
      /\ \A m \in Name : m # n => pending'[m] = pending[m]
  BY <1>1, <1>2 DEF WInv, Types
<1>9. Types'
  BY <1>1, <1>2, <1>3 DEF WInv, Types
<1>10. Named'
  BY <1>3, <1>4, <1>5 DEF WInv, Named, NamedAt, Wait
<1>11. Later'
  <2> SUFFICES ASSUME NEW v \in Startups, NEW u \in Monitors,
                      u[1] = v[1], at'[v] # "done"
               PROVE  at'[u] = "none"
    BY DEF Later
  <2>1. v \in Task /\ u \in Task /\ at[t] \notin {"none", "done"}
    BY DEF Startups, Monitors, NamedAt, Wait
  <2>2. at[v] # "done"
    BY <1>5, <2>1
  <2>3. at[u] = "none"
    BY <2>2 DEF WInv, Later
  <2> QED  BY <1>5, <2>1, <2>3
<1>12. Entries'
  BY <1>2, <1>4, <1>7, <1>8 DEF WInv, Entries, Named, Waiting, NamedAt
<1>13. Owners'
  <2> SUFFICES ASSUME NEW m \in Name, pending'[m] # NoTask
               PROVE  Waiting(pending[m])' /\ NameOf(pending[m])' = m
    BY DEF Owners, Waiting, NameOf
  <2>1. m # n /\ pending'[m] = pending[m]
    BY <1>8
  <2>2. pending[m] \in Task /\ Waiting(pending[m]) /\ NameOf(pending[m]) = m
    BY <2>1, NoTaskIsNone DEF WInv, Owners, Types
  <2>3. pending[n] # pending[m]
    BY <1>2, <2>1, <2>2, NoTaskIsNone DEF WInv, Owners
  <2> QED  BY <1>4, <1>7, <2>1, <2>2, <2>3 DEF Waiting, NameOf
<1>14. Connected'
  BY <1>8 DEF WInv, Connected
<1> QED  BY <1>9, <1>10, <1>11, <1>12, <1>13, <1>14 DEF WInv

\* A task begins to wait under a name that is free.
LEMMA RegisterKeeps ==
    ASSUME WInv, NEW t \in Task, Register(t)
    PROVE  WInv'
<1> DEFINE n == NameOf(t)
<1>1. /\ at[t] = "register"
      /\ step' = step /\ conn' = conn /\ toClient' = toClient
      /\ t \in Startups => step[t[1]] <= Len(Plain)
  BY DEF Register, netVars
<1>2. CASE at' = [at EXCEPT ![t] = "noResp"] /\ UNCHANGED <<answer, pending>>
  BY <1>1, <1>2, HopKeeps DEF Hop, At, Wait, Waiting, NamedAt
<1>3. CASE at' = [at EXCEPT ![t] = "threw"] /\ UNCHANGED <<answer, pending>>
  BY <1>1, <1>3, HopKeeps DEF Hop, At, Wait, Waiting, NamedAt
<1>4. CASE /\ conn # 0 /\ pending[n] = NoTask
           /\ pending' = [pending EXCEPT ![n] = t]
           /\ answer' = [answer EXCEPT ![t] = "none"]
           /\ at' = [at EXCEPT ![t] = "writing"]
  <2>1. n \in Name
    <3>1. CASE t \in Monitors
      BY <3>1, MonitorNames
    <3>2. CASE t \in Startups
      BY <3>2, <1>1, ConfigAssumption
         DEF WInv, Types, Startups, Task, NameOf, Name
    <3> QED  BY <3>1, <3>2 DEF Monitors
  <2> HIDE DEF n
  <2>2. /\ at'[t] = "writing" /\ answer'[t] = "none"
        /\ \A u \in Task : u # t => at'[u] = at[u] /\ answer'[u] = answer[u]
    BY <1>4 DEF WInv, Types
  <2>3. /\ pending'[n] = t
        /\ \A m \in Name : m # n => pending'[m] = pending[m]
    BY <1>4, <2>1 DEF WInv, Types
  <2>4. \A u \in Task : NameOf(u)' = NameOf(u)
    BY <1>1 DEF NameOf
  <2>5. ~Waiting(t) /\ \A u \in Task : u # t => (Waiting(u)' <=> Waiting(u))
    BY <1>1, <2>2 DEF Waiting, Wait
  <2>6. Types'
    BY <1>1, <1>4, <2>1 DEF WInv, Types, At
  <2>7. Named'
    BY <2>1, <2>2, <2>4 DEF WInv, Named, n
  <2>8. Later'
    <3> SUFFICES ASSUME NEW v \in Startups, NEW u \in Monitors,
                        u[1] = v[1], at'[v] # "done"
                 PROVE  at'[u] = "none"
      BY DEF Later
    <3>1. v \in Task /\ u \in Task
      BY DEF Startups, Monitors
    <3>2. at[u] = "none"
      BY <1>1, <2>2, <3>1 DEF WInv, Later
    <3> QED  BY <1>1, <2>2, <3>1, <3>2
  <2>9. Entries'
    <3> SUFFICES ASSUME NEW u \in Task, Waiting(u)'
                 PROVE  pending'[NameOf(u)] = u
      BY <2>4 DEF Entries
    <3>1. CASE u = t
      BY <3>1, <2>3 DEF n
    <3>2. CASE u # t
      <4>1. Waiting(u) /\ pending[NameOf(u)] = u /\ NameOf(u) \in Name
        BY <3>2, <2>5 DEF WInv, Entries, Named, Waiting, NamedAt
      <4> QED  BY <4>1, <1>4, <2>3, NoTaskIsNone
    <3> QED  BY <3>1, <3>2
  <2>10. Owners'
    <3> SUFFICES ASSUME NEW m \in Name, pending'[m] # NoTask
                 PROVE  /\ Waiting(pending[m])' /\ NameOf(pending[m])' = m
      BY DEF Owners, Waiting, NameOf
    <3>1. CASE m = n
      BY <3>1, <2>2, <2>3, <2>4 DEF Waiting, Wait, NameOf, n
    <3>2. CASE m # n
      <4>1. pending'[m] = pending[m] /\ pending[m] \in Task
            /\ Waiting(pending[m]) /\ NameOf(pending[m]) = m
        BY <3>2, <2>3, NoTaskIsNone DEF WInv, Owners, Types
      <4>2. pending[m] # t
        BY <4>1, <2>5
      <4> QED  BY <4>1, <4>2, <2>2, <2>4 DEF Waiting, NameOf
    <3> QED  BY <3>1, <3>2
  <2>11. Connected'
    BY <1>1, <1>4 DEF Connected
  <2> QED  BY <2>6, <2>7, <2>8, <2>9, <2>10, <2>11 DEF WInv
<1> QED
  BY <1>1, <1>2, <1>3, <1>4 DEF Register, Goto

LEMMA WriteOkKeeps ==
    ASSUME WInv, NEW t \in Task, WriteOk(t)
    PROVE  WInv'
<1>1. /\ at[t] = "writing" /\ at' = [at EXCEPT ![t] = "awaiting"]
      /\ answer' = answer /\ pending' = pending /\ step' = step /\ conn' = conn
      /\ \/ toClient' = toClient
         \/ \E how \in {"ok", "error"} :
                toClient' = Append(toClient, Resp(NameOf(t), how))
  BY DEF WriteOk, Goto, netVars, connVars
<1>2. at'[t] = "awaiting" /\ \A u \in Task : u # t => at'[u] = at[u]
  BY <1>1 DEF WInv, Types
<1>3. \A u \in Task : /\ NameOf(u)' = NameOf(u)
                      /\ Waiting(u)' <=> Waiting(u)
                      /\ at'[u] \in NamedAt <=> at[u] \in NamedAt
  BY <1>1, <1>2 DEF NameOf, Waiting, Wait, NamedAt
<1>4. NameOf(t) \in Name
  BY <1>1 DEF WInv, Named, NamedAt, Wait
<1>5. toClient' \in Seq(Msg)
  <2>1. CASE toClient' = toClient
    BY <2>1 DEF WInv, Types
  <2>2. ASSUME NEW how \in {"ok", "error"},
               toClient' = Append(toClient, Resp(NameOf(t), how))
        PROVE  toClient' \in Seq(Msg)
    <3>1. Resp(NameOf(t), how) \in Msg
      BY <1>4 DEF Resp, Msg
    <3> QED  BY <2>2, <3>1 DEF WInv, Types
  <2> QED  BY <1>1, <2>1, <2>2
<1>6. Types'
  BY <1>1, <1>5 DEF WInv, Types, At
<1>7. Named'
  BY <1>3 DEF WInv, Named
<1>8. Later'
  <2> SUFFICES ASSUME NEW v \in Startups, NEW u \in Monitors,
                      u[1] = v[1], at'[v] # "done"
               PROVE  at'[u] = "none"
    BY DEF Later
  <2>1. v \in Task /\ u \in Task
    BY DEF Startups, Monitors
  <2>2. at[u] = "none"
    BY <1>1, <1>2, <2>1 DEF WInv, Later
  <2> QED  BY <1>1, <1>2, <2>1, <2>2
<1>9. Entries' /\ Owners' /\ Connected'
  BY <1>1, <1>3, NoTaskIsNone DEF WInv, Entries, Owners, Connected, Types
<1> QED  BY <1>6, <1>7, <1>8, <1>9 DEF WInv

LEMMA StartupIsUnique ==
    \A t, u \in Startups : t[1] = u[1] => t = u
BY DEF Startups, Task

\* A startup that does not wait goes on, to the next proxy or visitor.
Advance(t, to, k) == /\ at' = [at EXCEPT ![t] = to]
                     /\ step' = [step EXCEPT ![t[1]] = k]
                     /\ UNCHANGED <<answer, pending, toClient, conn>>

LEMMA AdvanceKeeps ==
    ASSUME WInv, NEW t \in Startups, NEW to \in {"register", "visit"},
           NEW k \in Nat \ {0}, at[t] \notin Wait \cup {"none", "done"},
           Advance(t, to, k)
    PROVE  WInv'
<1>1. /\ at' = [at EXCEPT ![t] = to] /\ step' = [step EXCEPT ![t[1]] = k]
      /\ answer' = answer /\ pending' = pending
      /\ toClient' = toClient /\ conn' = conn
  BY DEF Advance
<1>2. t \in Task /\ t[1] \in Session
  BY DEF Startups, Task
<1>3. at'[t] = to /\ \A u \in Task : u # t => at'[u] = at[u]
  BY <1>1, <1>2 DEF WInv, Types
<1>4. \A u \in Task : u # t => NameOf(u)' = NameOf(u)
  <2> SUFFICES ASSUME NEW u \in Task, u # t PROVE NameOf(u)' = NameOf(u)
    OBVIOUS
  <2>1. CASE u \in Startups
    <3>1. u[1] # t[1] /\ u[1] \in Session
      BY <2>1, StartupIsUnique DEF Startups, Task
    <3>2. step'[u[1]] = step[u[1]]
      BY <1>1, <3>1 DEF WInv, Types
    <3> QED  BY <3>2 DEF NameOf
  <2>2. CASE u \notin Startups
    BY <2>2 DEF NameOf, Startups
  <2> QED  BY <2>1, <2>2
<1>5. /\ ~Waiting(t) /\ ~Waiting(t)'
      /\ \A u \in Task : u # t => (Waiting(u)' <=> Waiting(u))
  BY <1>1, <1>3 DEF Waiting, Wait
<1>6. Types'
  BY <1>1, <1>2 DEF WInv, Types, At
<1>7. Named'
  BY <1>3, <1>4 DEF WInv, Named, NamedAt, Wait
<1>8. Later'
  <2> SUFFICES ASSUME NEW v \in Startups, NEW u \in Monitors,
                      u[1] = v[1], at'[v] # "done"
               PROVE  at'[u] = "none"
    BY DEF Later
  <2>1. v \in Task /\ u \in Task
    BY DEF Startups, Monitors
  <2>2. at[u] = "none"
    BY <1>3, <2>1 DEF WInv, Later
  <2> QED  BY <1>3, <2>1, <2>2
<1>9. Entries' /\ Owners' /\ Connected'
  BY <1>1, <1>4, <1>5, NoTaskIsNone
     DEF WInv, Entries, Owners, Connected, Types
<1> QED  BY <1>6, <1>7, <1>8, <1>9 DEF WInv

LEMMA MonitorsStartKeeps ==
    ASSUME WInv, NEW t \in Startups, MonitorsStart(t)
    PROVE  WInv'
<1>1. /\ at[t] = "visit"
      /\ at' = [u \in Task |-> IF u = t THEN "done"
                               ELSE IF u[1] = t[1] THEN "timer" ELSE at[u]]
      /\ answer' = answer /\ pending' = pending /\ step' = step
      /\ toClient' = toClient /\ conn' = conn
  BY DEF MonitorsStart, connVars, netVars
<1>2. \A u \in Task : u # t /\ u[1] = t[1] => at[u] = "none" /\ u \in Monitors
  BY <1>1, StartupIsUnique DEF WInv, Later, Monitors
<1>3. \A u \in Task : \/ at'[u] = at[u]
                      \/ /\ at[u] \in {"none", "visit"}
                         /\ at'[u] \in {"done", "timer"}
  BY <1>1, <1>2
<1>4. \A u \in Task : NameOf(u)' = NameOf(u) /\ (Waiting(u)' <=> Waiting(u))
  BY <1>1, <1>3 DEF NameOf, Waiting, Wait
<1>5. Types'
  <2>1. at' \in [Task -> At]
    BY <1>1 DEF WInv, Types, At, RestAt
  <2> QED  BY <1>1, <2>1 DEF WInv, Types
<1>6. Named'
  BY <1>3, <1>4 DEF WInv, Named, NamedAt, Wait
<1>7. Later'
  <2> SUFFICES ASSUME NEW v \in Startups, NEW u \in Monitors,
                      u[1] = v[1], at'[v] # "done"
               PROVE  at'[u] = "none"
    BY DEF Later
  <2>1. v \in Task /\ u \in Task /\ u # t
    BY DEF Startups, Monitors
  <2>2. v # t /\ v[1] # t[1]
    BY <1>1, <2>1, StartupIsUnique
  <2>3. at'[v] = at[v] /\ at'[u] = at[u]
    BY <1>1, <2>1, <2>2
  <2> QED  BY <2>3 DEF WInv, Later
<1>8. Entries' /\ Owners' /\ Connected'
  BY <1>1, <1>4, NoTaskIsNone DEF WInv, Entries, Owners, Connected, Types
<1> QED  BY <1>5, <1>6, <1>7, <1>8 DEF WInv

LEMMA SessionStartsKeeps ==
    ASSUME WInv, Fresh, SessionStarts
    PROVE  WInv'
<1> DEFINE t  == <<session, "startup">>
           to == IF "onLogin" \in Hooks THEN "onLogin" ELSE "register"
<1>1. /\ phase = "crypto" /\ conn' = session
      /\ at' = [at EXCEPT ![t] = to]
      /\ answer' = answer /\ pending' = pending /\ step' = step
      /\ toClient' = toClient
  BY DEF SessionStarts, Goto, netVars
<1>2. t \in Startups /\ t \in Task /\ t[1] = session /\ session # 0
  BY <1>1 DEF Fresh, Startups, Task, Session
<1>3. at[t] = "none"
  BY <1>1, <1>2 DEF Fresh
<1>4. to \in {"onLogin", "register"} /\ to \in At
  BY DEF At, HookAt
<1> HIDE DEF t, to
<1>5. at'[t] = to /\ \A u \in Task : u # t => at'[u] = at[u]
  BY <1>1, <1>2 DEF WInv, Types
<1>6. \A u \in Task : NameOf(u)' = NameOf(u) /\ (Waiting(u)' <=> Waiting(u))
  BY <1>1, <1>3, <1>4, <1>5 DEF NameOf, Waiting, Wait
<1>7. Types'
  BY <1>1, <1>4 DEF WInv, Types
<1>8. Named'
  BY <1>4, <1>5, <1>6 DEF WInv, Named, NamedAt, Wait
<1>9. Later'
  <2> SUFFICES ASSUME NEW v \in Startups, NEW u \in Monitors,
                      u[1] = v[1], at'[v] # "done"
               PROVE  at'[u] = "none"
    BY DEF Later
  <2>1. v \in Task /\ u \in Task /\ u # t
    BY <1>2 DEF Startups, Monitors
  <2>2. at[v] # "done"
    BY <1>3, <1>5, <2>1
  <2>3. at[u] = "none"
    BY <2>2 DEF WInv, Later
  <2> QED  BY <1>5, <2>1, <2>3
<1>10. Entries' /\ Owners' /\ Connected'
  BY <1>1, <1>2, <1>6, NoTaskIsNone
     DEF WInv, Entries, Owners, Connected, Types
<1> QED  BY <1>7, <1>8, <1>9, <1>10 DEF WInv

\* What else a task's step leaves alone: no startup begins by itself.
Unbegun == /\ UNCHANGED <<phase, session>>
           /\ \A u \in Startups : at[u] = "none" => at'[u] = "none"

LEMMA UnbegunByMove ==
    ASSUME Types, UNCHANGED <<phase, session>>, NEW t \in Task,
           at[t] # "none", NEW to,
           at' = [at EXCEPT ![t] = to] \/ at' = at
    PROVE  Unbegun
BY DEF Unbegun, Types, Startups

LEMMA HopStep ==
    ASSUME WInv, UNCHANGED <<phase, session>>, NEW t \in Task,
           NEW to \in At \ (Wait \cup {"none", "done"}),
           at[t] \notin {"none", "done"}, ~Waiting(t),
           to \in NamedAt => at[t] \in NamedAt,
           Hop(t, to)
    PROVE  WInv' /\ Unbegun
BY HopKeeps, UnbegunByMove DEF WInv, Hop

LEMMA CatchStep ==
    ASSUME WInv, UNCHANGED <<phase, session>>, NEW t \in Task,
           at[t] \in NamedAt, Catch(t), UNCHANGED <<step, conn, toClient>>
    PROVE  WInv' /\ Unbegun
BY CatchKeeps, UnbegunByMove DEF WInv, Catch, Goto, NamedAt, Wait

LEMMA AdvanceStep ==
    ASSUME WInv, UNCHANGED <<phase, session>>, NEW t \in Startups,
           NEW to \in {"register", "visit"}, NEW k \in Nat \ {0},
           at[t] \notin Wait \cup {"none", "done"}, Advance(t, to, k)
    PROVE  WInv' /\ Unbegun
<1>1. t \in Task  BY DEF Startups
<1> QED  BY <1>1, AdvanceKeeps, UnbegunByMove DEF WInv, Advance

LEMMA RunOnKeeps ==
    ASSUME WInv, NEW t \in Task, RunOn(t)
    PROVE  WInv' /\ Unbegun
<1>1. CASE Register(t)
  <2>1. Unbegun
    BY <1>1, UnbegunByMove DEF Register, Goto, runVars, WInv
  <2> QED  BY <1>1, <2>1, RegisterKeeps
<1>2. CASE VisitorsBegin(t)
  <2>1. Hop(t, "visit") /\ at[t] = "register" /\ UNCHANGED <<phase, session>>
    BY <1>2 DEF VisitorsBegin, Goto, Hop, runVars, connVars, netVars
  <2> QED  BY <2>1, HopStep DEF At, Wait, Waiting, NamedAt
<1>3. CASE VisitorListens(t)
  <2>1. Hop(t, "listening") /\ at[t] = "visit" /\ UNCHANGED <<phase, session>>
    BY <1>3 DEF VisitorListens, Goto, Hop, runVars, connVars, netVars
  <2> QED  BY <2>1, HopStep DEF At, Wait, Waiting, NamedAt
<1> QED  BY <1>1, <1>2, <1>3 DEF RunOn

LEMMA WakeUpKeeps ==
    ASSUME WInv, NEW t \in Task, WakeUp(t)
    PROVE  WInv' /\ Unbegun
<1>1. CASE Answered(t)
  <2>1. /\ at[t] = "awaiting"
        /\ UNCHANGED <<phase, session, step, conn, toClient>>
    BY <1>1 DEF Answered, runVars, connVars, netVars
  <2>2. CASE answer[t] # "rejected"
    <3>1. /\ answer[t] \in {"ok", "error"}
          /\ \E to \in {"okHook", "gotResp", "errHook", "noResp"} : Hop(t, to)
      BY <1>1, <2>1, <2>2 DEF Answered, Goto, Hop
    <3> QED  BY <2>1, <3>1, HopStep DEF At, HookAt, Wait, Waiting, NamedAt
  <2>3. CASE answer[t] = "rejected"
    <3>1. Catch(t)
      BY <1>1, <2>3 DEF Answered
    <3> QED  BY <2>1, <3>1, CatchStep DEF NamedAt, Wait
  <2> QED  BY <2>2, <2>3
<1>2. CASE StartupContinues(t)
  <2>1. /\ t \in Startups /\ t[1] \in Session /\ step[t[1]] + 1 \in Nat \ {0}
        /\ UNCHANGED <<phase, session>>
    BY <1>2 DEF StartupContinues, runVars, Startups, Task, WInv, Types
  <2>2. CASE at[t] \in {"gotResp", "noResp"}
    <3>1. Advance(t, "register", step[t[1]] + 1)
      BY <1>2, <2>1, <2>2
         DEF StartupContinues, Goto, Advance, connVars, netVars
    <3> QED  BY <2>1, <2>2, <3>1, AdvanceStep DEF Wait
  <2>3. CASE at[t] = "threw"
    <3>1. Hop(t, "failed")
      BY <1>2, <2>3 DEF StartupContinues, Goto, Hop, connVars, netVars
    <3> QED  BY <2>1, <2>3, <3>1, HopStep DEF At, RestAt, Wait, Waiting, NamedAt
  <2> QED  BY <1>2, <2>2, <2>3 DEF StartupContinues
<1>3. CASE t \in Startups /\ MonitorsStart(t)
  <2>1. Unbegun
    BY <1>3, StartupIsUnique
       DEF MonitorsStart, Unbegun, runVars, Startups
  <2> QED  BY <1>3, <2>1, MonitorsStartKeeps
<1>4. CASE t \in Monitors /\ MonitorContinues(t)
  <2>1. /\ at[t] \in {"gotResp", "noResp", "threw"}
        /\ \E to \in {"ended", "timer"} : Hop(t, to)
        /\ UNCHANGED <<phase, session>>
    BY <1>4 DEF MonitorContinues, Rest, Goto, Hop, runVars, connVars, netVars
  <2> QED  BY <2>1, HopStep DEF At, RestAt, Wait, Waiting, NamedAt
<1> QED  BY <1>1, <1>2, <1>3, <1>4 DEF WakeUp

LEMMA MonitorEventKeeps ==
    ASSUME WInv, NEW t \in Task,
           \/ Tick(t) \/ CheckOk(t) \/ CheckFails(t)
           \/ CloseWritten(t) \/ CloseWriteFails(t)
    PROVE  WInv' /\ Unbegun
<1>1. /\ at[t] \in {"timer", "checking", "closing"}
      /\ \E to \in {"checking", "ended", "timer", "register", "closing"} :
             Hop(t, to)
      /\ UNCHANGED <<phase, session>>
  BY DEF Tick, CheckOk, CheckFails, CloseWritten, CloseWriteFails, Rest, Goto,
         Hop, runVars, connVars, netVars
<1> QED  BY <1>1, HopStep DEF At, RestAt, Wait, Waiting, NamedAt

LEMMA EventKeeps ==
    ASSUME WInv, NEW t \in Task, Event(t)
    PROVE  WInv' /\ Unbegun
<1>1. CASE WriteOk(t)
  <2>1. Unbegun
    BY <1>1, UnbegunByMove DEF WriteOk, Goto, runVars, WInv
  <2> QED  BY <1>1, <2>1, WriteOkKeeps
<1>2. CASE WriteFails(t)
  BY <1>2, CatchStep
     DEF WriteFails, NamedAt, Wait, runVars, connVars, netVars
<1>3. CASE RespTimeout(t)
  <2>1. /\ at[t] = "awaiting" /\ pending[NameOf(t)] = t /\ at' = at
        /\ pending' = [pending EXCEPT ![NameOf(t)] = NoTask]
        /\ answer' = [answer EXCEPT ![t] = "rejected"]
        /\ UNCHANGED <<phase, session, step, conn, toClient>>
    BY <1>3 DEF RespTimeout, runVars, connVars, netVars
  <2>2. NameOf(t) \in Name
    BY <2>1 DEF WInv, Named, NamedAt, Wait
  <2>3. Settle(NameOf(t), "rejected")
    BY <2>1 DEF Settle, WInv, Types
  <2>4. toClient' \in Seq(Msg)
    BY <2>1 DEF WInv, Types
  <2>5. WInv'
    BY <2>1, <2>2, <2>3, <2>4, SettleKeeps
  <2> QED  BY <2>1, <2>5 DEF Unbegun
<1>4. CASE HookReturns(t)
  <2>1. /\ UNCHANGED <<phase, session>>
        /\ \/ at[t] = "onLogin" /\ Hop(t, "register")
           \/ at[t] = "okHook" /\ Hop(t, "gotResp")
           \/ at[t] = "errHook" /\ Hop(t, "noResp")
    BY <1>4 DEF HookReturns, Goto, Hop, runVars, connVars, netVars
  <2> QED  BY <2>1, HopStep DEF At, Wait, Waiting, NamedAt
<1>5. CASE HookThrows(t)
  <2>1. UNCHANGED <<phase, session, step, conn, toClient>>
    BY <1>5 DEF HookThrows, runVars, connVars, netVars
  <2>2. CASE at[t] = "onLogin"
    <3>1. Hop(t, "failed")
      BY <1>5, <2>1, <2>2 DEF HookThrows, Goto, Hop
    <3> QED  BY <2>1, <2>2, <3>1, HopStep DEF At, RestAt, Wait, Waiting, NamedAt
  <2>3. CASE at[t] \in {"okHook", "errHook"} /\ Catch(t)
    BY <2>1, <2>3, CatchStep DEF NamedAt
  <2> QED  BY <1>5, <2>2, <2>3 DEF HookThrows
<1>6. CASE t \in Startups /\ VisitorReady(t)
  <2> DEFINE k == IF conn = 0 THEN Len(Plain) + Len(Visitors) + 1
                  ELSE step[t[1]] + 1
  <2>1. /\ t[1] \in Session /\ at[t] = "listening"
        /\ at' = [at EXCEPT ![t] = "visit"]
        /\ step' = [step EXCEPT ![t[1]] =
                        IF conn = 0 THEN Len(Plain) + Len(Visitors) + 1
                                    ELSE @ + 1]
        /\ UNCHANGED <<phase, session, answer, pending, toClient, conn>>
    BY <1>6 DEF VisitorReady, Goto, runVars, connVars, netVars, Startups, Task
  <2>2. step[t[1]] \in Nat \ {0}
    BY <2>1 DEF WInv, Types
  <2>3. k \in Nat \ {0}
    BY <2>2, ConfigAssumption
  <2>4. step' = [step EXCEPT ![t[1]] = k]
    BY <2>1 DEF WInv, Types
  <2>5. Advance(t, "visit", k)
    BY <2>1, <2>4 DEF Advance
  <2> HIDE DEF k
  <2> QED  BY <1>6, <2>1, <2>3, <2>5, AdvanceStep DEF Wait
<1>7. CASE t \in Startups /\ VisitorFails(t)
  <2>1. Hop(t, "failed") /\ at[t] = "listening" /\ UNCHANGED <<phase, session>>
    BY <1>7 DEF VisitorFails, Goto, Hop, runVars, connVars, netVars
  <2> QED  BY <2>1, HopStep DEF At, RestAt, Wait, Waiting, NamedAt
<1> QED
  BY <1>1, <1>2, <1>3, <1>4, <1>5, <1>6, <1>7, MonitorEventKeeps DEF Event

LEMMA FreshKeeps ==
    ASSUME Fresh, Unbegun
    PROVE  Fresh'
BY DEF Fresh, Unbegun

\* The steps of run(), #connect() and stop().
LEMMA RunEventKeeps ==
    ASSUME WInv, Fresh, RunEvent \/ SessionEnds \/ Stop
    PROVE  WInv' /\ Fresh'
<1> DEFINE Ends == [t \in Task |-> IF InRegistry(t) /\ at[t] = "timer"
                                   THEN "ended" ELSE at[t]]
<1>1. toClient \in Seq(Msg) /\ <<>> \in Seq(Msg)
  BY DEF WInv, Types
<1>2. \A t \in Startups : ~InRegistry(t) /\ t \in Task
  BY DEF InRegistry, Monitors, Startups
<1>3. CASE SetupFails \/ SessionEnds \/ Stop
  <2>1. /\ RejectPending /\ step' = step /\ toClient' = <<>>
        /\ at' = Ends /\ session' = session
    BY <1>3 DEF SetupFails, SessionEnds, Stop, Teardown, StopMonitors,
                CloseTransport
  <2>2. WInv'
    BY <1>1, <2>1, RejectKeeps
  <2>3. phase' \in {"login", "crypto"} => phase \in {"login", "crypto"}
    BY <1>3 DEF SetupFails, SessionEnds, Stop, Retry
  <2>4. \A t \in Startups : at'[t] = at[t]
    BY <1>2, <2>1
  <2>5. Fresh'
    BY <2>1, <2>3, <2>4 DEF Fresh
  <2> QED  BY <2>2, <2>5
<1>4. CASE Run \/ ReconnectHook \/ Wake \/ DialFails \/ DialTooLate \/ LoginOk
  <2>1. Still /\ toClient' = toClient /\ conn' = conn /\ session' = session
    BY <1>4 DEF Run, ReconnectHook, Wake, DialFails, DialTooLate, LoginOk,
                Still, runVars, connVars, regVars, netVars
  <2>2. phase' \in {"login", "crypto"} => phase \in {"login", "crypto"}
    BY <1>4 DEF Run, ReconnectHook, Wake, DialFails, DialTooLate, LoginOk,
                Retry
  <2>3. WInv'
    BY <1>1, <2>1, StillKeeps
  <2>4. Fresh'
    BY <2>1, <2>2 DEF Fresh, Still
  <2> QED  BY <2>3, <2>4
<1>5. CASE DialOk
  <2>1. /\ Still /\ toClient' = toClient /\ conn' = session + 1
        /\ session' = session + 1 /\ session < MaxSessions
    BY <1>5 DEF DialOk, Still, regVars, netVars
  <2>2. session + 1 \in Session /\ session + 1 # 0
    BY <2>1, BoundAssumption DEF Fresh, Session
  <2>3. WInv'
    BY <1>1, <2>1, <2>2, StillKeeps
  <2>4. \A t \in Startups : t[1] \in Session
    BY DEF Startups, Task
  <2>5. \A t \in Startups : t[1] >= session + 1 => at[t] = "none"
    BY <2>4, <2>1 DEF Fresh, Session
  <2>6. Fresh'
    <3>1. session' \in 0..MaxSessions /\ session' \in Session
      BY <2>1, <2>2, BoundAssumption DEF Session
    <3>2. \A t \in Startups : t[1] > session + 1 => at[t] = "none"
      BY <2>4, <2>5, <2>2 DEF Session
    <3>3. \A t \in Startups : t[1] = session + 1 => at[t] = "none"
      BY <2>4, <2>5, <2>2 DEF Session
    <3> QED  BY <2>1, <3>1, <3>2, <3>3 DEF Fresh, Still
  <2> QED  BY <2>3, <2>6
<1>6. CASE SessionStarts
  <2>1. WInv'
    BY <1>6, SessionStartsKeeps
  <2>2. /\ phase = "crypto" /\ phase' = "up" /\ session' = session
        /\ \E to : at' = [at EXCEPT ![<<session, "startup">>] = to]
    BY <1>6 DEF SessionStarts, Goto
  <2>3. \A t \in Startups : t[1] > session => at'[t] = at[t]
    BY <1>2, <2>2 DEF Fresh, WInv, Types, Session, Startups, Task
  <2>4. Fresh'
    BY <2>2, <2>3 DEF Fresh
  <2> QED  BY <2>1, <2>4
<1> QED  BY <1>3, <1>4, <1>5, <1>6 DEF RunEvent

\* The steps of the read loop, the heartbeat, the network and the server.
LEMMA ReaderKeeps ==
    ASSUME WInv, Fresh,
           \/ ReadMsg \/ ReaderClosed \/ ReaderBroken
           \/ HeartbeatFails \/ LinkLost \/ \E n \in Name : ServerCloses(n)
    PROVE  WInv' /\ Fresh'
<1>1. toClient \in Seq(Msg) /\ <<>> \in Seq(Msg)
  BY DEF WInv, Types
<1>2. Unbegun
  BY DEF Unbegun, ReadMsg, ReaderClosed, ReaderBroken, ReadLoopFails,
         HeartbeatFails, LinkLost, ServerCloses, runVars, regVars
<1>3. CASE ReadMsg
  <2>1. /\ toClient # <<>> /\ toClient' = Tail(toClient)
        /\ at' = at /\ step' = step /\ conn' = conn
    BY <1>3 DEF ReadMsg, connVars
  <2>2. Head(toClient) \in Msg /\ toClient' \in Seq(Msg)
    BY <1>1, <2>1
  <2>3. CASE UNCHANGED <<answer, pending>>
    BY <1>2, <2>1, <2>2, <2>3, StillKeeps, FreshKeeps DEF Still
  <2>4. CASE Resolve(Head(toClient))
    <3> DEFINE m == Head(toClient)
    <3>1. m.name \in Name /\ m.how \in {"ok", "error", "rejected"}
      BY <2>2 DEF Msg
    <3>2. Settle(m.name, m.how)
      BY <2>1, <2>4 DEF Settle, Resolve
    <3> HIDE DEF m
    <3> QED  BY <1>2, <2>1, <2>2, <3>1, <3>2, SettleKeeps, FreshKeeps
  <2> QED  BY <1>3, <2>3, <2>4 DEF ReadMsg
<1>4. CASE ReaderClosed \/ ReaderBroken
  <2>1. RejectPending /\ at' = at /\ step' = step /\ toClient' = toClient
    BY <1>4 DEF ReaderClosed, ReaderBroken, ReadLoopFails, netVars
  <2> QED  BY <1>1, <1>2, <2>1, RejectKeeps, FreshKeeps
<1>5. CASE HeartbeatFails \/ LinkLost
  <2>1. Still /\ conn' = conn /\ toClient' \in {toClient, <<>>}
    BY <1>5 DEF HeartbeatFails, LinkLost, Still, regVars, netVars
  <2> QED  BY <1>1, <1>2, <2>1, StillKeeps, FreshKeeps
<1>6. ASSUME NEW n \in Name, ServerCloses(n) PROVE WInv' /\ Fresh'
  <2>1. /\ Still /\ conn' = conn
        /\ toClient' = Append(toClient, Close(n))
    BY <1>6 DEF ServerCloses, Still, regVars, connVars
  <2>2. Close(n) \in Msg
    BY DEF Close, Msg
  <2>3. toClient' \in Seq(Msg)
    BY <1>1, <2>1, <2>2
  <2> QED  BY <1>2, <2>1, <2>3, StillKeeps, FreshKeeps
<1> QED  BY <1>3, <1>4, <1>5, <1>6

LEMMA WaitAlways == Safety => [](WInv /\ Fresh)
<1>1. Init => WInv /\ Fresh
  <2> SUFFICES ASSUME Init PROVE WInv /\ Fresh
    OBVIOUS
  <2>1. /\ \A t \in Task : at[t] = "none"
        /\ \A n \in Name : pending[n] = NoTask
    BY DEF Init
  <2>2. Types
    BY DEF Init, Types, At, RestAt
  <2>3. Named /\ Later /\ Entries /\ Owners /\ Connected
    BY <2>1 DEF Named, Later, Entries, Owners, Connected, Waiting, NamedAt,
                Wait, Monitors, Startups
  <2>4. Fresh
    BY <2>1, BoundAssumption DEF Init, Fresh, Startups
  <2> QED  BY <2>2, <2>3, <2>4 DEF WInv
<1>2. WInv /\ Fresh /\ [Next]_vars => WInv' /\ Fresh'
  <2> SUFFICES ASSUME WInv, Fresh, [Next]_vars PROVE WInv' /\ Fresh'
    OBVIOUS
  <2>1. CASE UNCHANGED vars
    <3>1. Still /\ Unbegun /\ conn' = conn /\ toClient' = toClient
      BY <2>1 DEF vars, runVars, connVars, regVars, netVars, Still, Unbegun
    <3>2. toClient' \in Seq(Msg)
      BY <3>1 DEF WInv, Types
    <3> QED  BY <3>1, <3>2, StillKeeps, FreshKeeps
  <2>2. ASSUME NEW t \in Task, RunOn(t) \/ WakeUp(t) \/ Event(t)
        PROVE  WInv' /\ Fresh'
    BY <2>2, RunOnKeeps, WakeUpKeeps, EventKeeps, FreshKeeps
  <2>3. CASE RunEvent \/ SessionEnds \/ Stop
    BY <2>3, RunEventKeeps
  <2>4. CASE \/ ReadMsg \/ ReaderClosed \/ ReaderBroken
             \/ HeartbeatFails \/ LinkLost \/ \E n \in Name : ServerCloses(n)
    BY <2>4, ReaderKeeps
  <2> QED  BY <2>1, <2>2, <2>3, <2>4 DEF Next, ReadRejects, ConnectReturns
<1> QED  BY <1>1, <1>2, PTL DEF Safety

\* Whatever overtakes what, a registration that waits is found by its answer,
\* its timer and the teardown, and what these find is waiting.
THEOREM Waiters == Safety => []WaitersReachable
BY WaitAlways, Shape, PTL
-----------------------------------------------------------------------------
(* TypeOK.  What is indexed is typed above; here is the rest.  The loops over *)
(* Plain and Visitors share one counter, which only its place in the startup *)
(* keeps in the range of the one or the other (Placed).                      *)

LastStep == Len(Plain) + Len(Visitors) + 1
Registers == NamedAt \cup {"gotResp", "noResp", "threw"}
Fits(a, k) == /\ a \in Registers => k <= Len(Plain)
              /\ a = "visit" => k > Len(Plain)
              /\ a = "listening" => k > Len(Plain) /\ k < LastStep
Placed == /\ \A s \in Session : step[s] <= LastStep
          /\ \A t \in Startups : Fits(at[t], step[t[1]])

Phases == {"idle", "dialing", "login", "crypto", "up", "reconnectHook", "backoff"}
            \cup Returned
RunTypes == /\ phase \in Phases /\ stopped \in BOOLEAN
            /\ attempt \in Nat /\ failures \in Nat
ConnTypes == /\ conn \in 0..MaxSessions
             /\ linkUp \in BOOLEAN /\ pool \in BOOLEAN /\ readErr \in BOOLEAN
             /\ reader \in {"off", "reading", "deaf", "closed"}
             /\ done \in {"none", "rejected", "resolved"}
MonTypes == /\ monitors \in [Health -> 0..MaxSessions]
            /\ healthy \in [Monitors -> BOOLEAN] /\ halted \in [Monitors -> BOOLEAN]
VisTypes == /\ visitors \subseteq Runtime
            /\ listener \in [Runtime -> {"none", "starting", "open", "stopped"}]
NameTypes == proxyMap \subseteq Name /\ srv \subseteq Name
Bounded == Placed /\ RunTypes /\ ConnTypes /\ MonTypes /\ VisTypes /\ NameTypes

LEMMA Lengths == Len(Plain) \in Nat /\ Len(Visitors) \in Nat /\ LastStep \in Nat
<1>1. Plain \in Seq(STRING) /\ Visitors \in Seq(STRING)
  BY ConfigAssumption
<1> QED  BY <1>1 DEF LastStep

LEMMA StartupIs == \A t \in Startups : t \in Task /\ t[1] \in Session
BY DEF Startups, Task

LEMMA PlacedHop ==
    ASSUME Types, Placed, NEW t \in Task, NEW to, at' = [at EXCEPT ![t] = to],
           step' = step, t \in Startups => Fits(to, step[t[1]])
    PROVE  Placed'
<1>1. at'[t] = to /\ \A u \in Task : u # t => at'[u] = at[u]
  BY DEF Types
<1>2. ASSUME NEW u \in Startups PROVE Fits(at'[u], step'[u[1]])
  <2>1. CASE u = t
    BY <1>1, <2>1
  <2>2. CASE u # t
    <3>1. at'[u] = at[u] /\ Fits(at[u], step[u[1]])
      BY <1>1, <2>2, StartupIs DEF Placed
    <3> QED  BY <3>1
  <2> QED  BY <2>1, <2>2
<1> QED  BY <1>2 DEF Placed, Fits

LEMMA PlacedAdvance ==
    ASSUME Types, Placed, NEW t \in Startups, NEW to, NEW k \in Nat,
           at' = [at EXCEPT ![t] = to], step' = [step EXCEPT ![t[1]] = k],
           k <= LastStep, Fits(to, k)
    PROVE  Placed'
<1>1. t \in Task /\ t[1] \in Session
  BY StartupIs
<1>2. at'[t] = to /\ \A u \in Task : u # t => at'[u] = at[u]
  BY <1>1 DEF Types
<1>3. step'[t[1]] = k /\ \A s \in Session : s # t[1] => step'[s] = step[s]
  BY <1>1 DEF Types
<1>4. ASSUME NEW u \in Startups PROVE Fits(at'[u], step'[u[1]])
  <2>1. CASE u = t
    BY <1>2, <1>3, <2>1
  <2>2. CASE u # t
    <3>1. u[1] # t[1] /\ u \in Task /\ u[1] \in Session
      BY <2>2, StartupIsUnique, StartupIs
    <3>2. at'[u] = at[u] /\ step'[u[1]] = step[u[1]] /\ Fits(at[u], step[u[1]])
      BY <1>2, <1>3, <2>2, <3>1 DEF Placed
    <3> QED  BY <3>2
  <2> QED  BY <2>1, <2>2
<1>5. \A s \in Session : step'[s] <= LastStep
  BY <1>3 DEF Placed
<1> QED  BY <1>4, <1>5, Lengths DEF Placed, Fits, LastStep

LEMMA PlacedStill ==
    ASSUME Placed, step' = step, \A t \in Startups : at'[t] = at[t]
    PROVE  Placed'
BY DEF Placed, Fits

\* A startup that catches is in the middle of a registration.
LEMMA PlacedCatch ==
    ASSUME Types, Placed, NEW t \in Task, at[t] \in NamedAt, Catch(t), step' = step
    PROVE  Placed'
<1>1. \E to \in {"threw", "noResp"} : at' = [at EXCEPT ![t] = to]
  BY DEF Catch, Goto
<1>2. t \in Startups => step[t[1]] <= Len(Plain)
  BY DEF Placed, Fits, Registers
<1> QED  BY <1>1, <1>2, PlacedHop DEF Fits

LEMMA PlacedOn ==
    ASSUME Types, Placed, NEW t \in Task, RunOn(t)
    PROVE  Placed'
<1>1. CASE Register(t)
  <2>1. /\ step' = step /\ (t \in Startups => step[t[1]] <= Len(Plain))
        /\ \E to \in {"noResp", "threw", "writing"} : at' = [at EXCEPT ![t] = to]
    BY <1>1 DEF Register, Goto
  <2> QED  BY <2>1, PlacedHop DEF Fits
<1>2. CASE VisitorsBegin(t)
  <2>1. /\ step' = step /\ step[t[1]] > Len(Plain)
        /\ at' = [at EXCEPT ![t] = "visit"]
    BY <1>2 DEF VisitorsBegin, Goto
  <2> QED  BY <2>1, PlacedHop DEF Fits, Registers, NamedAt, Wait
<1>3. CASE t \in Startups /\ VisitorListens(t)
  <2>1. /\ step' = step /\ step[t[1]] <= Len(Plain) + Len(Visitors) /\ at[t] = "visit"
        /\ at' = [at EXCEPT ![t] = "listening"]
    BY <1>3 DEF VisitorListens, Goto
  <2>2. step[t[1]] > Len(Plain) /\ step[t[1]] < LastStep
    <3>1. step[t[1]] \in Nat
      BY <1>3, StartupIs DEF Types
    <3> QED  BY <1>3, <2>1, <3>1, Lengths DEF Placed, Fits, LastStep
  <2> QED  BY <2>1, <2>2, PlacedHop DEF Fits, Registers, NamedAt, Wait
<1> QED  BY <1>1, <1>2, <1>3 DEF RunOn

LEMMA PlacedWake ==
    ASSUME Types, Placed, NEW t \in Task, WakeUp(t)
    PROVE  Placed'
<1>1. CASE Answered(t)
  <2>1. at[t] = "awaiting" /\ step' = step
    BY <1>1 DEF Answered
  <2>2. t \in Startups => step[t[1]] <= Len(Plain)
    BY <2>1 DEF Placed, Fits, Registers, NamedAt, Wait
  <2>3. CASE \E to \in {"okHook", "gotResp", "errHook", "noResp"} :
                 at' = [at EXCEPT ![t] = to]
    BY <2>1, <2>2, <2>3, PlacedHop DEF Fits
  <2>4. CASE Catch(t)
    BY <2>1, <2>4, PlacedCatch DEF NamedAt, Wait
  <2> QED  BY <1>1, <2>3, <2>4 DEF Answered, Goto
<1>2. CASE t \in Startups /\ StartupContinues(t)
  <2>1. t[1] \in Session /\ step[t[1]] \in Nat
    BY <1>2, StartupIs DEF Types
  <2>2. CASE at[t] \in {"gotResp", "noResp"}
    <3>1. /\ at' = [at EXCEPT ![t] = "register"]
          /\ step' = [step EXCEPT ![t[1]] = step[t[1]] + 1]
      BY <1>2, <2>2 DEF StartupContinues, Goto
    <3>2. step[t[1]] <= Len(Plain)
      BY <1>2, <2>2 DEF Placed, Fits, Registers
    <3>3. step[t[1]] + 1 \in Nat /\ step[t[1]] + 1 <= LastStep
      BY <2>1, <3>2, Lengths DEF LastStep
    <3>4. Fits("register", step[t[1]] + 1)
      BY DEF Fits, Registers, NamedAt, Wait
    <3> QED  BY <1>2, <3>1, <3>3, <3>4, PlacedAdvance
  <2>3. CASE at[t] = "threw"
    <3>1. at' = [at EXCEPT ![t] = "failed"] /\ step' = step
      BY <1>2, <2>3 DEF StartupContinues, Goto
    <3> QED  BY <3>1, PlacedHop DEF Fits, Registers, NamedAt, Wait
  <2> QED  BY <1>2, <2>2, <2>3 DEF StartupContinues
<1>3. CASE t \in Startups /\ MonitorsStart(t)
  <2>1. /\ step' = step
        /\ at' = [u \in Task |-> IF u = t THEN "done"
                                 ELSE IF u[1] = t[1] THEN "timer" ELSE at[u]]
    BY <1>3 DEF MonitorsStart
  <2>2. ASSUME NEW u \in Startups PROVE Fits(at'[u], step[u[1]])
    <3>1. u \in Task /\ (u # t => u[1] # t[1])
      BY <1>3, StartupIsUnique, StartupIs
    <3>2. at'[u] = at[u] \/ at'[u] = "done"
      BY <2>1, <3>1
    <3> QED  BY <3>2 DEF Placed, Fits, Registers, NamedAt, Wait
  <2> QED  BY <2>1, <2>2 DEF Placed, Fits
<1>4. CASE t \in Monitors /\ MonitorContinues(t)
  <2>1. /\ step' = step /\ t \notin Startups
        /\ \E to : at' = [at EXCEPT ![t] = to]
    BY <1>4 DEF MonitorContinues, Rest, Goto, Monitors
  <2> QED  BY <2>1, PlacedHop
<1> QED  BY <1>1, <1>2, <1>3, <1>4 DEF WakeUp

LEMMA PlacedEvent ==
    ASSUME Types, Placed, NEW t \in Task, Event(t)
    PROVE  Placed'
<1>1. CASE WriteOk(t)
  <2>1. at[t] = "writing" /\ step' = step /\ at' = [at EXCEPT ![t] = "awaiting"]
    BY <1>1 DEF WriteOk, Goto
  <2>2. t \in Startups => step[t[1]] <= Len(Plain)
    BY <2>1 DEF Placed, Fits, Registers, NamedAt, Wait
  <2> QED  BY <2>1, <2>2, PlacedHop DEF Fits
<1>2. CASE WriteFails(t)
  BY <1>2, PlacedCatch DEF WriteFails, NamedAt, Wait
<1>3. CASE RespTimeout(t)
  BY <1>3, PlacedStill DEF RespTimeout
<1>4. CASE HookReturns(t)
  <2>1. step' = step
    BY <1>4 DEF HookReturns
  <2>2. CASE at' = [at EXCEPT ![t] = "register"]
    BY <2>1, <2>2, PlacedHop DEF Fits, Registers, NamedAt, Wait
  <2>3. CASE /\ at[t] \in {"okHook", "errHook"}
             /\ \E to \in {"gotResp", "noResp"} : at' = [at EXCEPT ![t] = to]
    <3>1. t \in Startups => step[t[1]] <= Len(Plain)
      BY <2>3 DEF Placed, Fits, Registers, NamedAt
    <3> QED  BY <2>1, <2>3, <3>1, PlacedHop DEF Fits
  <2> QED  BY <1>4, <2>2, <2>3 DEF HookReturns, Goto
<1>5. CASE HookThrows(t)
  <2>1. step' = step
    BY <1>5 DEF HookThrows
  <2>2. CASE at' = [at EXCEPT ![t] = "failed"]
    BY <2>1, <2>2, PlacedHop DEF Fits, Registers, NamedAt, Wait
  <2>3. CASE at[t] \in {"okHook", "errHook"} /\ Catch(t)
    BY <2>1, <2>3, PlacedCatch DEF NamedAt
  <2> QED  BY <1>5, <2>2, <2>3 DEF HookThrows, Goto
<1>6. CASE t \in Startups /\ VisitorReady(t)
  <2> DEFINE k == IF conn = 0 THEN LastStep ELSE step[t[1]] + 1
  <2>1. t[1] \in Session /\ step[t[1]] \in Nat /\ at[t] = "listening"
    BY <1>6, StartupIs DEF Types, VisitorReady
  <2>2. step[t[1]] > Len(Plain) /\ step[t[1]] < LastStep
    BY <1>6, <2>1 DEF Placed, Fits
  <2>3. k \in Nat /\ k <= LastStep /\ k > Len(Plain)
    BY <2>1, <2>2, Lengths DEF LastStep
  <2>4. /\ at' = [at EXCEPT ![t] = "visit"]
        /\ step' = [step EXCEPT ![t[1]] = k]
    BY <1>6, <2>1 DEF VisitorReady, Goto, LastStep, Types
  <2> HIDE DEF k
  <2>5. Fits("visit", k)
    BY <2>3 DEF Fits, Registers, NamedAt, Wait
  <2> QED  BY <1>6, <2>3, <2>4, <2>5, PlacedAdvance
<1>7. CASE VisitorFails(t)
  <2>1. step' = step /\ at' = [at EXCEPT ![t] = "failed"]
    BY <1>7 DEF VisitorFails, Goto
  <2> QED  BY <2>1, PlacedHop DEF Fits, Registers, NamedAt, Wait
<1>8. CASE t \in Monitors /\ (\/ Tick(t) \/ CheckOk(t) \/ CheckFails(t)
                              \/ CloseWritten(t) \/ CloseWriteFails(t))
  <2>1. /\ step' = step /\ t \notin Startups
        /\ \E to : at' = [at EXCEPT ![t] = to]
    BY <1>8 DEF Tick, CheckOk, CheckFails, CloseWritten, CloseWriteFails, Rest,
                Goto, Monitors
  <2> QED  BY <2>1, PlacedHop
<1> QED  BY <1>1, <1>2, <1>3, <1>4, <1>5, <1>6, <1>7, <1>8 DEF Event

LEMMA PlacedStep ==
    ASSUME Types, Placed, [Next]_vars
    PROVE  Placed'
<1>1. CASE UNCHANGED vars
  BY <1>1, PlacedStill DEF vars, regVars
<1>2. CASE SetupFails \/ SessionEnds \/ Stop
  <2>1. /\ step' = step
        /\ at' = [t \in Task |-> IF InRegistry(t) /\ at[t] = "timer"
                                 THEN "ended" ELSE at[t]]
    BY <1>2 DEF SetupFails, SessionEnds, Stop, Teardown, StopMonitors
  <2>2. \A t \in Startups : at'[t] = at[t]
    BY <2>1 DEF InRegistry, Monitors, Startups
  <2> QED  BY <2>1, <2>2, PlacedStill
<1>3. CASE SessionStarts
  <2>1. /\ step' = step
        /\ \E to \in {"onLogin", "register"} :
             at' = [at EXCEPT ![<<session, "startup">>] = to]
    BY <1>3 DEF SessionStarts, Goto
  <2>2. CASE <<session, "startup">> \in Task
    BY <2>1, <2>2, PlacedHop DEF Fits, Registers, NamedAt, Wait
  <2>3. CASE <<session, "startup">> \notin Task
    <3>1. \A t \in Startups : at'[t] = at[t]
      BY <2>1, <2>3, StartupIs DEF Types
    <3> QED  BY <2>1, <3>1, PlacedStill
  <2> QED  BY <2>2, <2>3
<1>4. CASE \/ Run \/ ReconnectHook \/ Wake \/ DialFails \/ DialOk \/ DialTooLate
           \/ LoginOk \/ ReadMsg \/ ReaderClosed \/ ReaderBroken
           \/ HeartbeatFails \/ LinkLost \/ \E n \in Name : ServerCloses(n)
  <2>1. step' = step /\ at' = at
    BY <1>4 DEF Run, ReconnectHook, Wake, DialFails, DialOk, DialTooLate, LoginOk,
                ReadMsg, ReaderClosed, ReaderBroken, ReadLoopFails, HeartbeatFails,
                LinkLost, ServerCloses, regVars
  <2> QED  BY <2>1, PlacedStill
<1>5. ASSUME NEW t \in Task, RunOn(t) \/ WakeUp(t) \/ Event(t) PROVE Placed'
  BY <1>5, PlacedOn, PlacedWake, PlacedEvent
<1> QED  BY <1>1, <1>2, <1>3, <1>4, <1>5
    DEF Next, ReadRejects, ConnectReturns, RunEvent

\* What a task does to the fields of the connection: it may spoil the handshake.
TaskOnly == /\ UNCHANGED <<runVars, conn, pool, reader, readErr, done>>
            /\ linkUp' = linkUp \/ Spoil

LEMMA TaskFields ==
    ASSUME NEW t \in Task, RunOn(t) \/ WakeUp(t) \/ Event(t)
    PROVE  TaskOnly
<1>1. CASE Register(t)
  BY <1>1, Zenon DEF Register, TaskOnly
<1>2. CASE CheckFails(t)
  BY <1>2, Zenon DEF CheckFails, TaskOnly
<1>3. CASE UNCHANGED <<runVars, connVars>>
  BY <1>3 DEF TaskOnly, connVars
<1>4. VisitorsBegin(t) \/ VisitorListens(t) \/ VisitorReady(t) \/ VisitorFails(t)
        => UNCHANGED <<runVars, connVars>>
  BY DEF VisitorsBegin, VisitorListens, VisitorReady, VisitorFails
<1>5. Answered(t) \/ StartupContinues(t) \/ MonitorsStart(t) \/ MonitorContinues(t)
        => UNCHANGED <<runVars, connVars>>
  BY DEF Answered, StartupContinues, MonitorsStart, MonitorContinues
<1>6. WriteOk(t) \/ WriteFails(t) \/ RespTimeout(t) \/ HookReturns(t) \/ HookThrows(t)
        => UNCHANGED <<runVars, connVars>>
  BY DEF WriteOk, WriteFails, RespTimeout, HookReturns, HookThrows
<1>7. Tick(t) \/ CheckOk(t) \/ CloseWritten(t) \/ CloseWriteFails(t)
        => UNCHANGED <<runVars, connVars>>
  BY Zenon DEF Tick, CheckOk, CloseWritten, CloseWriteFails
<1> QED
  BY <1>1, <1>2, <1>3, <1>4, <1>5, <1>6, <1>7 DEF RunOn, WakeUp, Event

LEMMA RetryTypes ==
    ASSUME RunTypes, Retry, stopped' \in BOOLEAN
    PROVE  RunTypes'
BY DEF RunTypes, Retry, Phases, Returned

LEMMA RunEventTypes ==
    ASSUME RunTypes, ConnTypes, session \in 0..MaxSessions,
           RunEvent \/ SessionEnds \/ Stop
    PROVE  RunTypes' /\ ConnTypes'
<1>1. CASE Run \/ ReconnectHook \/ Wake \/ DialTooLate \/ LoginOk
  <2>1. /\ phase' \in Phases /\ UNCHANGED <<stopped, connVars>>
        /\ attempt' \in {attempt, 0} /\ failures' \in {failures, 0}
    BY <1>1 DEF Run, ReconnectHook, Wake, DialTooLate, LoginOk, Phases, Returned
  <2> QED  BY <2>1 DEF RunTypes, ConnTypes, connVars
<1>2. CASE DialFails
  <2>1. Retry /\ UNCHANGED <<stopped, connVars>>
    BY <1>2 DEF DialFails
  <2>2. stopped' \in BOOLEAN
    BY <2>1 DEF RunTypes
  <2> QED  BY <2>1, <2>2, RetryTypes DEF ConnTypes, connVars
<1>3. CASE DialOk
  <2>1. /\ phase' = "login" /\ UNCHANGED <<stopped, attempt, failures>>
        /\ conn' = session + 1 /\ session < MaxSessions /\ linkUp' = TRUE
        /\ UNCHANGED <<pool, reader, readErr, done>>
    BY <1>3 DEF DialOk
  <2>2. conn' \in 0..MaxSessions
    BY <2>1, BoundAssumption
  <2> QED  BY <2>1, <2>2 DEF RunTypes, ConnTypes, Phases
<1>4. CASE SessionStarts
  <2>1. /\ phase' = "up" /\ UNCHANGED <<stopped, attempt, failures, linkUp>>
        /\ conn' = session /\ pool' = TRUE /\ readErr' = FALSE
        /\ reader' \in ReaderAfterSetup /\ done' \in {"resolved", "none"}
    BY <1>4 DEF SessionStarts
  <2>2. reader' \in {"off", "reading", "deaf"}
    BY <2>1 DEF ReaderAfterSetup
  <2> QED  BY <2>1, <2>2 DEF RunTypes, ConnTypes, Phases
<1>5. CASE SetupFails \/ SessionEnds \/ Stop
  <2>1. /\ conn' = 0 /\ linkUp' = FALSE /\ pool' = FALSE /\ readErr' = readErr
        /\ reader' \in {reader, "closed"} /\ done' \in {done, "none"}
    BY <1>5 DEF SetupFails, SessionEnds, Stop, Teardown, CloseTransport, CloseReader
  <2>2. 0 \in 0..MaxSessions
    BY BoundAssumption
  <2>3. ConnTypes'
    BY <2>1, <2>2 DEF ConnTypes
  <2>4. CASE Stop
    BY <2>3, <2>4 DEF Stop, RunTypes
  <2>5. CASE SetupFails \/ SessionEnds
    <3>1. Retry /\ stopped' = stopped
      BY <2>5 DEF SetupFails, SessionEnds
    <3>2. stopped' \in BOOLEAN
      BY <3>1 DEF RunTypes
    <3> QED  BY <2>3, <3>1, <3>2, RetryTypes
  <2> QED  BY <1>5, <2>4, <2>5
<1> QED  BY <1>1, <1>2, <1>3, <1>4, <1>5 DEF RunEvent

LEMMA FieldTypes ==
    ASSUME RunTypes, ConnTypes, session \in 0..MaxSessions, [Next]_vars
    PROVE  RunTypes' /\ ConnTypes'
<1>1. CASE TaskOnly
  <2>1. linkUp' \in BOOLEAN
    <3>1. CASE linkUp' = linkUp
      BY <3>1 DEF ConnTypes
    <3>2. CASE Spoil
      BY <3>2, Zenon DEF Spoil
    <3> QED  BY <1>1, <3>1, <3>2 DEF TaskOnly
  <2> QED  BY <1>1, <2>1 DEF TaskOnly, RunTypes, ConnTypes, runVars
<1>2. CASE UNCHANGED vars
  BY <1>2 DEF vars, runVars, connVars, RunTypes, ConnTypes
<1>3. CASE \/ ReadMsg \/ ReaderClosed \/ ReaderBroken \/ HeartbeatFails \/ LinkLost
           \/ \E n \in Name : ServerCloses(n)
  <2>1. /\ UNCHANGED <<runVars, conn, pool>>
        /\ linkUp' \in {linkUp, FALSE} /\ readErr' \in {readErr, TRUE}
        /\ reader' \in {reader, "off"} /\ done' \in {done, "rejected"}
    BY <1>3 DEF ReadMsg, ReaderClosed, ReaderBroken, ReadLoopFails, HeartbeatFails,
                LinkLost, ServerCloses, connVars
  <2> QED  BY <2>1 DEF RunTypes, ConnTypes, runVars
<1> QED
  BY <1>1, <1>2, <1>3, TaskFields, RunEventTypes
      DEF Next, ReadRejects, ConnectReturns

\* What one step can do to the monitors' fields.
MonitorStep ==
    \/ UNCHANGED monVars
    \/ StopMonitors /\ healthy' = healthy
    \/ \E t \in Startups : MonitorsStart(t)
    \/ /\ UNCHANGED <<monitors, halted>>
       /\ \E t \in Monitors, b \in BOOLEAN : healthy' = [healthy EXCEPT ![t] = b]

LEMMA StepsOnMonitors == ASSUME [Next]_vars PROVE MonitorStep
<1>1. CASE UNCHANGED vars
  BY <1>1 DEF MonitorStep, vars
<1>2. CASE SetupFails \/ SessionEnds \/ Stop
  BY <1>2 DEF SetupFails, SessionEnds, Stop, Teardown, MonitorStep
<1>3. CASE \/ Run \/ ReconnectHook \/ Wake \/ DialFails \/ DialOk \/ DialTooLate
           \/ LoginOk \/ SessionStarts \/ ReadMsg \/ ReaderClosed \/ ReaderBroken
           \/ HeartbeatFails \/ LinkLost \/ \E n \in Name : ServerCloses(n)
  BY <1>3 DEF Run, ReconnectHook, Wake, DialFails, DialOk, DialTooLate, LoginOk,
              SessionStarts, ReadMsg, ReaderClosed, ReaderBroken, ReadLoopFails,
              HeartbeatFails, LinkLost, ServerCloses, MonitorStep
<1>4. ASSUME NEW t \in Task, RunOn(t) PROVE MonitorStep
  BY <1>4 DEF RunOn, Register, VisitorsBegin, VisitorListens, MonitorStep
<1>5. ASSUME NEW t \in Task, WakeUp(t) PROVE MonitorStep
  BY <1>5 DEF WakeUp, Answered, StartupContinues, MonitorContinues, monVars, MonitorStep
<1>6. ASSUME NEW t \in Task, Event(t) PROVE MonitorStep
  <2>1. CASE \/ WriteOk(t) \/ WriteFails(t) \/ RespTimeout(t) \/ HookReturns(t)
             \/ HookThrows(t) \/ VisitorReady(t) \/ VisitorFails(t)
             \/ Tick(t) \/ CloseWriteFails(t)
    BY <2>1 DEF WriteOk, WriteFails, RespTimeout, HookReturns, HookThrows,
                VisitorReady, VisitorFails, Tick, CloseWriteFails, MonitorStep
  <2>2. CASE t \in Monitors /\ (CheckOk(t) \/ CheckFails(t) \/ CloseWritten(t))
    BY <2>2 DEF CheckOk, CheckFails, CloseWritten, monVars, MonitorStep
  <2> QED  BY <1>6, <2>1, <2>2 DEF Event
<1> QED  BY <1>1, <1>2, <1>3, <1>4, <1>5, <1>6
    DEF Next, ReadRejects, ConnectReturns, RunEvent

LEMMA MonitorTypes ==
    ASSUME MonTypes, [Next]_vars
    PROVE  MonTypes'
<1>1. CASE UNCHANGED monVars
  BY <1>1 DEF MonTypes, monVars
<1>2. CASE StopMonitors /\ healthy' = healthy
  <2>1. /\ monitors' = [h \in Health |-> 0]
        /\ halted' = [t \in Monitors |-> halted[t] \/ InRegistry(t)]
    BY <1>2 DEF StopMonitors
  <2>2. \A t \in Monitors : (halted[t] \/ InRegistry(t)) \in BOOLEAN
    BY Zenon
  <2>3. halted' \in [Monitors -> BOOLEAN]
    BY <2>1, <2>2, Zenon
  <2>4. monitors' \in [Health -> 0..MaxSessions]
    BY <2>1, BoundAssumption
  <2> QED  BY <1>2, <2>3, <2>4 DEF MonTypes
<1>3. ASSUME NEW t \in Startups, MonitorsStart(t) PROVE MonTypes'
  <2>1. /\ monitors' = [h \in Health |-> t[1]] /\ UNCHANGED <<healthy, halted>>
        /\ t[1] \in 0..MaxSessions
    BY <1>3, StartupIs DEF MonitorsStart, Session
  <2> QED  BY <2>1 DEF MonTypes
<1>4. CASE /\ UNCHANGED <<monitors, halted>>
           /\ \E t \in Monitors, b \in BOOLEAN : healthy' = [healthy EXCEPT ![t] = b]
  BY <1>4 DEF MonTypes
<1> QED  BY <1>1, <1>2, <1>3, <1>4, StepsOnMonitors DEF MonitorStep

LEMMA VisitorTypes ==
    ASSUME Types, Placed, VisTypes, [Next]_vars
    PROVE  VisTypes'
<1> USE DEF VisTypes
<1>1. CASE UNCHANGED visVars
  BY <1>1 DEF visVars
<1>2. CASE StopVisitors
  BY <1>2 DEF StopVisitors
<1>3. ASSUME NEW t \in Startups, VisitorListens(t) PROVE VisTypes'
  <2>1. step[t[1]] \in Nat /\ t[1] \in Session
    BY StartupIs DEF Types
  <2>2. /\ step[t[1]] <= Len(Plain) + Len(Visitors) /\ step[t[1]] > Len(Plain)
    BY <1>3 DEF VisitorListens, Placed, Fits
  <2>3. step[t[1]] - Len(Plain) \in 1..Len(Visitors)
    BY <2>1, <2>2, Lengths
  <2>4. VisitorOf(t) \in Runtime
    BY <2>1, <2>3, ConfigAssumption DEF VisitorOf, Runtime
  <2> QED  BY <1>3, <2>4 DEF VisitorListens
<1>4. ASSUME NEW t \in Startups, VisitorReady(t) PROVE VisTypes'
  <2>1. /\ visitors' = visitors
        /\ listener' = [listener EXCEPT ![VisitorOf(t)] =
                            IF @ = "starting" THEN "open" ELSE @]
    BY <1>4 DEF VisitorReady
  <2> QED  BY <2>1
<1>5. ASSUME NEW t \in Startups, VisitorFails(t) PROVE VisTypes'
  BY <1>5 DEF VisitorFails
<1> QED  BY <1>1, <1>2, <1>3, <1>4, <1>5, StepsOnVisitors DEF VisitorStep

LEMMA TaskNames ==
    ASSUME WInv, Placed, NEW t \in Task, NameTypes, RunOn(t) \/ WakeUp(t) \/ Event(t)
    PROVE  NameTypes'
<1> USE DEF NameTypes
<1>1. CASE WriteOk(t)
  <2>1. NameOf(t) \in Name
    BY <1>1 DEF WriteOk, WInv, Named, NamedAt, Wait
  <2> QED  BY <1>1, <2>1 DEF WriteOk, netVars
<1>2. CASE t \in Startups /\ StartupContinues(t)
  <2>1. CASE at[t] = "gotResp"
    <3>1. step[t[1]] \in Nat \ {0} /\ step[t[1]] <= Len(Plain)
      BY <1>2, <2>1, StartupIs DEF WInv, Types, Placed, Fits, Registers
    <3>2. NameOf(t) \in Name
      BY <1>2, <3>1, ConfigAssumption DEF Startups, NameOf, Name
    <3>3. proxyMap' = proxyMap \cup {NameOf(t)} /\ srv' = srv
      BY <1>2, <2>1 DEF StartupContinues, netVars
    <3> QED  BY <3>2, <3>3
  <2>2. CASE at[t] # "gotResp"
    BY <1>2, <2>2 DEF StartupContinues, netVars
  <2> QED  BY <2>1, <2>2
<1>3. CASE t \in Monitors /\ MonitorContinues(t)
  <2>1. t[2] \in Name
    BY <1>3, MonitorNames
  <2> QED  BY <1>3, <2>1 DEF MonitorContinues, netVars
<1>4. CASE CloseWritten(t)
  BY <1>4 DEF CloseWritten
<1>5. CASE UNCHANGED <<proxyMap, srv>>
  BY <1>5
<1>6. Register(t) \/ VisitorsBegin(t) \/ VisitorListens(t) => UNCHANGED <<proxyMap, srv>>
  BY DEF Register, VisitorsBegin, VisitorListens, netVars
<1>7. Answered(t) \/ MonitorsStart(t) => UNCHANGED <<proxyMap, srv>>
  BY DEF Answered, MonitorsStart, netVars
<1>8. WriteFails(t) \/ RespTimeout(t) \/ HookReturns(t) \/ HookThrows(t)
        \/ VisitorReady(t) \/ VisitorFails(t) => UNCHANGED <<proxyMap, srv>>
  BY DEF WriteFails, RespTimeout, HookReturns, HookThrows, VisitorReady, VisitorFails,
         netVars
<1>9. Tick(t) \/ CheckOk(t) \/ CheckFails(t) \/ CloseWriteFails(t)
        => UNCHANGED <<proxyMap, srv>>
  BY DEF Tick, CheckOk, CheckFails, CloseWriteFails, netVars
<1> QED
  BY <1>1, <1>2, <1>3, <1>4, <1>5, <1>6, <1>7, <1>8, <1>9 DEF RunOn, WakeUp, Event

LEMMA NamesTyped ==
    ASSUME WInv, Placed, NameTypes, [Next]_vars
    PROVE  NameTypes'
<1>1. CASE UNCHANGED vars
  BY <1>1 DEF NameTypes, vars, netVars
<1>2. CASE RunEvent \/ SessionEnds \/ Stop
  <2>1. proxyMap' \in {proxyMap, {}} /\ srv' \in {srv, {}}
    BY <1>2 DEF RunEvent, Run, ReconnectHook, Wake, DialFails, DialOk, DialTooLate,
                LoginOk, SessionStarts, SetupFails, SessionEnds, Stop, Teardown,
                CloseTransport, netVars
  <2> QED  BY <2>1 DEF NameTypes
<1>3. CASE \/ ReadMsg \/ ReaderClosed \/ ReaderBroken \/ HeartbeatFails \/ LinkLost
           \/ \E n \in Name : ServerCloses(n)
  <2>1. proxyMap' \subseteq proxyMap /\ srv' \subseteq srv
    BY <1>3 DEF ReadMsg, ReaderClosed, ReaderBroken, ReadLoopFails, HeartbeatFails,
                LinkLost, ServerCloses, netVars
  <2> QED  BY <2>1 DEF NameTypes
<1> QED  BY <1>1, <1>2, <1>3, TaskNames DEF Next, ReadRejects, ConnectReturns

LEMMA BoundedAlways == Safety => [](WInv /\ Fresh /\ Bounded)
<1>1. Init => Bounded
  <2> SUFFICES ASSUME Init PROVE Bounded
    OBVIOUS
  <2>1. Placed
    <3>1. \A s \in Session : step[s] = 1
      BY DEF Init
    <3>2. \A t \in Startups : at[t] = "none"
      BY StartupIs DEF Init
    <3> QED  BY <3>1, <3>2, Lengths DEF Placed, Fits, LastStep, Registers, NamedAt, Wait
  <2>2. RunTypes
    BY DEF Init, RunTypes, Phases
  <2>3. ConnTypes
    <3>1. 0 \in 0..MaxSessions
      BY BoundAssumption
    <3> QED  BY <3>1 DEF Init, ConnTypes
  <2>4. MonTypes /\ VisTypes /\ NameTypes
    BY BoundAssumption DEF Init, MonTypes, VisTypes, NameTypes
  <2> QED  BY <2>1, <2>2, <2>3, <2>4 DEF Bounded
<1>2. WInv /\ Fresh /\ Bounded /\ [Next]_vars => Bounded'
  <2> SUFFICES ASSUME WInv, Fresh, Bounded, [Next]_vars PROVE Bounded'
    OBVIOUS
  <2>1. Types /\ session \in 0..MaxSessions
    BY DEF WInv, Fresh
  <2> QED
    BY <2>1, PlacedStep, FieldTypes, MonitorTypes, VisitorTypes, NamesTyped DEF Bounded
<1> QED  BY <1>1, <1>2, WaitAlways, PTL DEF Safety

\* Every field of the channel keeps its type; above all the loops over proxies and
\* visitors stay in their sequences, whatever session their startup belongs to
\* by then, and no name is registered that is not configured.
THEOREM TypeCorrect == Safety => []TypeOK
<1>1. WInv /\ Fresh /\ Bounded => TypeOK
  <2> SUFFICES ASSUME WInv, Fresh, Bounded PROVE TypeOK
    OBVIOUS
  <2>1. step \in [Session -> 1..LastStep]
    BY Lengths DEF WInv, Types, Bounded, Placed
  <2> QED
    BY <2>1 DEF WInv, Fresh, Bounded, Types, RunTypes, ConnTypes, MonTypes, VisTypes,
                NameTypes, Phases, LastStep, TypeOK
<1> QED  BY <1>1, BoundedAlways, PTL
-----------------------------------------------------------------------------
(* NoPhantom and Agreement.  The client's map and the server's follow each    *)
(* other by messages that are matched by the proxy's name alone, and tasks   *)
(* of ended sessions may still be there to send some.  Neither property      *)
(* holds for every configuration, so the theorems name what they need.       *)
(*   Settled  no startup may go on after its session, to start monitors that *)
(*            the next session replaces in the map without stopping them: a  *)
(*            hook, a listener and a session ended by its heartbeat would    *)
(*            each let it.  Without monitors there is nothing to start.      *)
(*   Calm     moreover the server closes no proxy that the client has not    *)
(*            entered in its map yet, no hook outlasts the pause before a    *)
(*            reconnect, and no two proxies share a name.                    *)
(*   Prompt   moreover no answer comes after its request has timed out, and  *)
(*            no hook stands between an answer and the map, for one that     *)
(*            throws leaves a proxy at the server that the client has not.   *)

Distinct == \A i, j \in DOMAIN Plain : Plain[i] = Plain[j] => i = j
Settled == Health # {} => Hooks \subseteq {"onReconnect"} /\ ~Heartbeats /\ Visitors = <<>>
Calm == ~EarlyClose /\ ~SlowHooks /\ Distinct /\ Settled
Prompt == Calm /\ ~LateAnswers /\ "onProxyRegister" \notin Hooks

(* The first half of the invariant is about whose turn it is.                *)

\* At rest, and if a monitor then one that ends with its next step.
Resting(t) == /\ at[t] \in RestAt
              /\ t \in Monitors /\ at[t] \notin {"none", "ended"} => halted[t]

\* A server has proxies of, and a client messages from, a live session only.
Linked == /\ linkUp => ~stopped
          /\ phase = "up" /\ ~stopped => reader # "closed"
          /\ reader = "reading" => ~readErr
          /\ ~linkUp \/ phase # "up" => srv = {} /\ toClient = <<>>

\* The pause before a reconnect leaves no task of an ended session at work.
Between == {"idle", "dialing", "login", "crypto"}
Rested == ~stopped => /\ phase \in Between => \A t \in Task : Resting(t)
                      /\ phase = "up" => \A t \in Task : t[1] # session => Resting(t)

\* A monitor that is not stopped is the present session's, and in its map.
Monitored ==
    ~stopped => \A t \in Monitors :
        at[t] \notin {"none", "ended"} =>
            halted[t] \/ (phase = "up" /\ t[1] = session /\ monitors[t[2]] = session)

\* A session that ends without a heartbeat was ended by its read loop, which
\* told the startup: where there are monitors to start, the startup has been
\* refused and goes no further.
Refused(t) == at[t] = "threw" \/ (at[t] \in Wait /\ answer[t] = "rejected")
Told == ~Heartbeats /\ ~stopped /\ phase = "up" /\ done = "rejected" => readErr
Doomed ==
    Health # {} =>
        /\ \A t \in Startups : at[t] \notin HookAt \cup {"closing"}
        /\ ~stopped /\ (phase # "up" \/ readErr) =>
               \A t \in Startups : at[t] \in RestAt \/ (readErr /\ Refused(t))

\* No answer is there for a startup that has not sent its request.
Unanswered ==
    phase = "up" /\ ~stopped /\ ~readErr =>
        \A t \in Startups : at[t] = "writing" => answer[t] = "none"

(* The other half is about the names, on a live session.                     *)

Live == phase = "up" /\ linkUp

\* What the server accepted and the client is about to enter, it holds.
Accepted(t) == at[t] = "gotResp" \/ (at[t] \in Wait /\ answer[t] = "ok")
Adding(t) == at[t] = "okHook" \/ Accepted(t)
AddedHeld == Live => \A t \in Task : Adding(t) => NameOf(t) \in srv

\* Nobody asks for a proxy that is in the map: the startup is past the names it
\* entered, and a monitor looks before it asks.
Asking == {"onLogin", "register", "writing", "awaiting", "okHook", "gotResp"}
NewNames ==
    Live => /\ \A i \in DOMAIN Plain, t \in Startups :
                   t[1] = session /\ Plain[i] \in proxyMap => i < step[t[1]]
            /\ \A t \in Monitors : at[t] \in Asking => t[2] \notin proxyMap

\* A yes on its way is the only one for its proxy, which the server holds, the
\* client does not, and no task is about to enter or to close.
Granted ==
    Live => \A i \in DOMAIN toClient, n \in Name :
        toClient[i] = Resp(n, "ok") =>
            /\ n \in srv /\ n \notin proxyMap
            /\ \A j \in DOMAIN toClient : toClient[j] = Resp(n, "ok") => i = j
            /\ \A t \in Task : Adding(t) => NameOf(t) # n
            /\ \A t \in Monitors : at[t] = "closing" => t[2] # n

\* Answers on their way are for names the startup has asked for.
Begins == {"onLogin", "register", "writing"}
AskedOnce ==
    Live => \A i \in DOMAIN toClient, k \in DOMAIN Plain, t \in Startups :
        t[1] = session /\ toClient[i].type = "NewProxyResp" /\ toClient[i].name = Plain[k] =>
            /\ k <= step[t[1]]
            /\ at[t] \in Begins => k < step[t[1]]

Map == AddedHeld /\ NewNames /\ Granted /\ AskedOnce /\ NoPhantom
CInv == Rested /\ Monitored /\ Linked /\ Told /\ Doomed /\ Unanswered /\ Map

Acts(t) == RunOn(t) \/ WakeUp(t) \/ Event(t)

\* A task moves itself; the answers of others it can only refuse.
Alone(t) == /\ \A u \in Task : u # t => /\ at'[u] = at[u]
                                        /\ answer'[u] \in {answer[u], "rejected"}
            /\ UNCHANGED <<monitors, halted>>
            /\ at[t] \notin {"none", "ended"}
            /\ t \in Startups => at[t] \notin RestAt
            /\ at[t] \in RestAt /\ halted[t] => at'[t] \in {"checking", "ended"}

LEMMA AloneByMove ==
    ASSUME Types, NEW t \in Task, NEW to,
           at' = [at EXCEPT ![t] = to] \/ at' = at,
           UNCHANGED <<monitors, halted>>,
           \A u \in Task : u # t => answer'[u] \in {answer[u], "rejected"},
           at[t] \notin RestAt
    PROVE  Alone(t)
BY DEF Alone, Types, RestAt

LEMMA CatchAnswers ==
    ASSUME NEW t \in Task, Catch(t)
    PROVE  \A u \in Task : answer'[u] \in {answer[u], "rejected"}
BY DEF Catch

LEMMA ActsAlone ==
    ASSUME Types, NEW t \in Task, Acts(t)
    PROVE  (t \in Startups /\ MonitorsStart(t)) \/ Alone(t)
<1> USE DEF RestAt
<1>1. CASE Register(t)
  <2>1. /\ at[t] = "register" /\ UNCHANGED <<monitors, halted>>
        /\ \E to : at' = [at EXCEPT ![t] = to]
        /\ \/ answer' = answer
           \/ answer' = [answer EXCEPT ![t] = "none"]
    BY <1>1 DEF Register, Goto, monVars
  <2>2. \A u \in Task : u # t => answer'[u] = answer[u]
    BY <2>1 DEF Types
  <2> QED  BY <2>1, <2>2, AloneByMove
<1>2. CASE t \in Startups /\ (VisitorsBegin(t) \/ VisitorListens(t))
  <2>1. /\ at[t] \in {"register", "visit"} /\ UNCHANGED <<monitors, halted, answer>>
        /\ \E to : at' = [at EXCEPT ![t] = to]
    BY <1>2 DEF VisitorsBegin, VisitorListens, Goto, monVars
  <2> QED  BY <2>1, AloneByMove
<1>3. CASE Answered(t)
  <2>1. /\ at[t] = "awaiting" /\ UNCHANGED <<monitors, halted>>
        /\ \E to : at' = [at EXCEPT ![t] = to]
        /\ answer' = answer \/ Catch(t)
    BY <1>3 DEF Answered, Goto, Catch, monVars
  <2> QED  BY <2>1, AloneByMove, CatchAnswers
<1>4. CASE t \in Startups /\ StartupContinues(t)
  <2>1. /\ at[t] \in {"gotResp", "noResp", "threw"}
        /\ UNCHANGED <<monitors, halted, answer>>
        /\ \E to : at' = [at EXCEPT ![t] = to]
    BY <1>4 DEF StartupContinues, Goto, monVars
  <2> QED  BY <2>1, AloneByMove
<1>5. CASE t \in Monitors /\ MonitorContinues(t)
  <2>1. /\ at[t] \in {"gotResp", "noResp", "threw"}
        /\ UNCHANGED <<monitors, halted, answer>>
        /\ \E to : at' = [at EXCEPT ![t] = to]
    BY <1>5 DEF MonitorContinues, Rest, Goto
  <2> QED  BY <2>1, AloneByMove
<1>6. CASE WriteOk(t)
  <2>1. /\ at[t] = "writing" /\ UNCHANGED <<monitors, halted, answer>>
        /\ at' = [at EXCEPT ![t] = "awaiting"]
    BY <1>6 DEF WriteOk, Goto, monVars
  <2> QED  BY <2>1, AloneByMove
<1>7. CASE WriteFails(t)
  <2>1. /\ at[t] = "writing" /\ UNCHANGED <<monitors, halted>>
        /\ \E to : at' = [at EXCEPT ![t] = to]
    BY <1>7 DEF WriteFails, Catch, Goto, monVars
  <2>2. Catch(t)
    BY <1>7 DEF WriteFails
  <2> QED  BY <2>1, <2>2, AloneByMove, CatchAnswers
<1>8. CASE RespTimeout(t)
  <2>1. /\ at[t] = "awaiting" /\ UNCHANGED <<monitors, halted, at>>
        /\ answer' = [answer EXCEPT ![t] = "rejected"]
    BY <1>8 DEF RespTimeout, monVars
  <2>2. \A u \in Task : u # t => answer'[u] = answer[u]
    BY <2>1 DEF Types
  <2> QED  BY <2>1, <2>2, AloneByMove
<1>9. CASE HookReturns(t)
  <2>1. /\ at[t] \in HookAt /\ UNCHANGED <<monitors, halted, answer>>
        /\ \E to : at' = [at EXCEPT ![t] = to]
    BY <1>9 DEF HookReturns, Goto, monVars, HookAt
  <2> QED  BY <2>1, AloneByMove DEF HookAt
<1>10. CASE HookThrows(t)
  <2>1. /\ at[t] \in HookAt /\ UNCHANGED <<monitors, halted>>
        /\ \E to : at' = [at EXCEPT ![t] = to]
        /\ answer' = answer \/ Catch(t)
    BY <1>10 DEF HookThrows, Catch, Goto, monVars, HookAt
  <2> QED  BY <2>1, AloneByMove, CatchAnswers DEF HookAt
<1>11. CASE t \in Startups /\ (VisitorReady(t) \/ VisitorFails(t))
  <2>1. /\ at[t] = "listening" /\ UNCHANGED <<monitors, halted, answer>>
        /\ \E to : at' = [at EXCEPT ![t] = to]
    BY <1>11 DEF VisitorReady, VisitorFails, Goto, monVars
  <2> QED  BY <2>1, AloneByMove
<1>12. CASE t \in Monitors /\ (Tick(t) \/ CheckOk(t) \/ CheckFails(t))
  <2>1. /\ at[t] \in {"timer", "checking"} /\ UNCHANGED <<monitors, halted, answer>>
        /\ \E to : at' = [at EXCEPT ![t] = to] /\ (halted[t] => to \in {"checking", "ended"})
    BY <1>12 DEF Tick, CheckOk, CheckFails, Rest, Goto, monVars
  <2>2. /\ \A u \in Task : u # t => at'[u] = at[u]
        /\ halted[t] => at'[t] \in {"checking", "ended"}
    BY <2>1 DEF Types
  <2>3. t \notin Startups
    BY <1>12 DEF Monitors
  <2> QED  BY <2>1, <2>2, <2>3 DEF Alone
<1>13. CASE t \in Monitors /\ (CloseWritten(t) \/ CloseWriteFails(t))
  <2>1. /\ at[t] = "closing" /\ UNCHANGED <<monitors, halted, answer>>
        /\ \E to : at' = [at EXCEPT ![t] = to]
    BY <1>13 DEF CloseWritten, CloseWriteFails, Rest, Goto, monVars
  <2> QED  BY <2>1, AloneByMove
<1> QED
  BY <1>1, <1>2, <1>3, <1>4, <1>5, <1>6, <1>7, <1>8, <1>9, <1>10, <1>11, <1>12, <1>13
     DEF Acts, RunOn, WakeUp, Event

Others == \/ ReadMsg \/ ReaderClosed \/ ReaderBroken \/ HeartbeatFails \/ LinkLost
          \/ \E n \in Name : ServerCloses(n)

LEMMA OthersStay ==
    ASSUME Others
    PROVE  UNCHANGED <<runVars, at, step, monVars>> /\ (linkUp' => linkUp)
BY DEF Others, ReadMsg, ReaderClosed, ReaderBroken, ReadLoopFails, HeartbeatFails,
       LinkLost, ServerCloses, connVars, regVars

LEMMA MonitorIs == \A t \in Monitors : t \in Task /\ t \notin Startups /\ t[2] \in Health
BY DEF Monitors, Startups, Task

LEMMA RestingStays ==
    ASSUME NEW t \in Task, Resting(t), at'[t] = at[t], halted' = halted
    PROVE  Resting(t)'
BY DEF Resting

\* A task at rest that acts is a stopped monitor, and goes to rest.
LEMMA RestingActs ==
    ASSUME Types, NEW t \in Task, Acts(t), NEW u \in Task, Resting(u),
           (t \in Startups /\ MonitorsStart(t)) => u[1] # t[1]
    PROVE  Resting(u)'
<1>1. CASE t \in Startups /\ MonitorsStart(t)
  <2>1. at'[u] = at[u] /\ halted' = halted
    BY <1>1 DEF MonitorsStart
  <2> QED  BY <2>1, RestingStays
<1>2. CASE Alone(t) /\ u # t
  BY <1>2, RestingStays DEF Alone
<1>3. CASE Alone(t) /\ u = t
  <2>1. at[t] \in RestAt /\ at[t] \notin {"none", "ended"} /\ t \in Monitors
    BY <1>3 DEF Alone, Resting, Monitors
  <2>2. halted[t] /\ at'[t] \in {"checking", "ended"} /\ halted' = halted
    BY <1>3, <2>1 DEF Alone, Resting
  <2> QED  BY <1>3, <2>2 DEF Resting, RestAt
<1> QED  BY <1>1, <1>2, <1>3, ActsAlone

LEMMA RestedStep ==
    ASSUME Types, Fresh, Rested, Monitored, ~SlowHooks, [Next]_vars
    PROVE  Rested'
<1>1. CASE UNCHANGED vars
  BY <1>1 DEF vars, runVars, regVars, monVars, Rested, Resting
<1>2. ASSUME NEW t \in Task, Acts(t) PROVE Rested'
  <2>1. UNCHANGED <<phase, stopped, session>>
    BY <1>2, TaskFields DEF Acts, TaskOnly, runVars
  <2>2. CASE t \in Startups /\ MonitorsStart(t)
    <3>1. ~Resting(t)
      BY <2>2 DEF MonitorsStart, Resting, RestAt
    <3> QED  BY <1>2, <2>1, <3>1, RestingActs DEF Rested
  <2>3. CASE ~(t \in Startups /\ MonitorsStart(t))
    BY <1>2, <2>1, <2>3, RestingActs DEF Rested
  <2> QED  BY <2>2, <2>3
<1>3. CASE Others
  BY <1>3, OthersStay DEF Rested, Resting, runVars, monVars
<1>4. CASE SetupFails \/ SessionEnds \/ Stop
  <2>1. stopped' \/ phase' \notin Between \cup {"up"}
    BY <1>4 DEF SetupFails, SessionEnds, Stop, Retry, Between
  <2> QED  BY <2>1 DEF Rested
<1>5. CASE DialFails \/ DialTooLate \/ ReconnectHook
  <2>1. stopped' \/ phase' \notin Between \cup {"up"}
    BY <1>5 DEF DialFails, DialTooLate, ReconnectHook, Retry, Between
  <2> QED  BY <2>1 DEF Rested
<1>6. CASE Run \/ DialOk \/ LoginOk
  <2>1. /\ phase \in Between /\ phase' # "up"
        /\ UNCHANGED <<stopped, at, halted>>
    BY <1>6 DEF Run, DialOk, LoginOk, Between, regVars, monVars
  <2> QED  BY <2>1 DEF Rested, Resting
<1>7. CASE Wake
  <2>1. /\ phase = "backoff" /\ phase' # "up"
        /\ stopped \/ Quiet
        /\ UNCHANGED <<stopped, at, halted>>
    BY <1>7 DEF Wake, regVars, monVars
  <2>2. Quiet => \A t \in Task : at[t] \in RestAt
    BY DEF Quiet
  <2>3. ASSUME ~stopped, NEW t \in Task PROVE Resting(t)
    <3>1. at[t] \in RestAt
      BY <2>1, <2>2, <2>3
    <3>2. t \in Monitors /\ at[t] \notin {"none", "ended"} => halted[t]
      BY <2>1, <2>3 DEF Monitored
    <3> QED  BY <3>1, <3>2 DEF Resting
  <2> QED  BY <2>1, <2>3 DEF Rested, Resting
<1>8. CASE SessionStarts
  <2>1. /\ phase = "crypto" /\ phase' = "up" /\ UNCHANGED <<stopped, session, halted>>
        /\ \E to : at' = [at EXCEPT ![<<session, "startup">>] = to]
    BY <1>8 DEF SessionStarts, Goto, monVars
  <2>2. \A t \in Task : t[1] # session => at'[t] = at[t]
    BY <2>1 DEF Types
  <2> QED  BY <2>1, <2>2, RestingStays DEF Rested, Between
<1> QED
  BY <1>1, <1>2, <1>3, <1>4, <1>5, <1>6, <1>7, <1>8
      DEF Next, ReadRejects, ConnectReturns, RunEvent, Others, Acts

\* Only the startup of the present session starts monitors.
LEMMA MonitoredStep ==
    ASSUME Types, Fresh, Rested, Monitored, Doomed, [Next]_vars,
           monitors \in [Health -> 0..MaxSessions]
    PROVE  Monitored'
<1> SUFFICES ASSUME ~stopped', NEW u \in Monitors, at'[u] \notin {"none", "ended"},
                    ~halted'[u]
             PROVE  phase' = "up" /\ u[1] = session' /\ monitors'[u[2]] = session'
  BY DEF Monitored
<1>0. u \in Task /\ u \notin Startups /\ u[2] \in Health
  BY MonitorIs
<1>1. CASE UNCHANGED vars
  BY <1>1 DEF vars, runVars, regVars, monVars, Monitored
<1>2. ASSUME NEW t \in Task, Acts(t)
      PROVE  phase' = "up" /\ u[1] = session' /\ monitors'[u[2]] = session'
  <2>1. UNCHANGED <<phase, stopped, session>>
    BY <1>2, TaskFields DEF Acts, TaskOnly, runVars
  <2>2. CASE t \in Startups /\ MonitorsStart(t)
    <3>1. /\ at[t] = "visit" /\ monitors' = [h \in Health |-> t[1]]
          /\ halted' = halted
          /\ at' = [v \in Task |-> IF v = t THEN "done"
                                   ELSE IF v[1] = t[1] THEN "timer" ELSE at[v]]
      BY <2>2 DEF MonitorsStart
    <3>2. phase = "up"
      BY <1>0, <2>1, <2>2, <3>1 DEF Doomed, Refused, RestAt, Wait
    <3>3. t[1] = session
      BY <2>1, <3>1, <3>2 DEF Rested, Resting, RestAt
    <3>4. monitors'[u[2]] = session
      BY <1>0, <3>1, <3>3
    <3>5. CASE u[1] = t[1]
      BY <2>1, <3>2, <3>3, <3>4, <3>5
    <3>6. CASE u[1] # t[1]
      <4>1. at'[u] = at[u]
        BY <1>0, <3>1, <3>6
      <4> QED  BY <2>1, <3>1, <3>2, <3>3, <3>6, <4>1 DEF Monitored
    <3> QED  BY <3>5, <3>6
  <2>3. CASE Alone(t)
    <3>1. halted' = halted /\ monitors' = monitors /\ at[u] \notin {"none", "ended"}
      BY <1>0, <2>3 DEF Alone
    <3> QED  BY <2>1, <3>1 DEF Monitored
  <2> QED  BY <1>2, <2>2, <2>3, ActsAlone
<1>3. CASE Others
  BY <1>3, OthersStay DEF Monitored, runVars, monVars
<1>4. CASE SetupFails \/ SessionEnds
  <2>1. StopMonitors /\ stopped' = stopped
    BY <1>4 DEF SetupFails, SessionEnds, Teardown
  <2>2. /\ at'[u] = at[u] \/ at'[u] = "ended"
        /\ halted'[u] = (halted[u] \/ InRegistry(u))
    BY <1>0, <2>1 DEF StopMonitors
  <2>3. at[u] \notin {"none", "ended"} /\ ~halted[u] /\ ~InRegistry(u)
    BY <2>2
  <2> QED  BY <2>1, <2>3 DEF Monitored, InRegistry
<1>5. CASE Stop
  BY <1>5 DEF Stop
<1>6. CASE \/ DialFails \/ DialTooLate \/ ReconnectHook \/ Run \/ DialOk \/ LoginOk
           \/ Wake
  <2>1. phase # "up" /\ UNCHANGED <<stopped, at, halted>>
    BY <1>6 DEF DialFails, DialTooLate, ReconnectHook, Run, DialOk, LoginOk, Wake,
                regVars, monVars
  <2> QED  BY <2>1 DEF Monitored
<1>7. CASE SessionStarts
  <2>1. /\ phase = "crypto" /\ phase' = "up" /\ UNCHANGED <<stopped, session, halted>>
        /\ \E to : at' = [at EXCEPT ![<<session, "startup">>] = to]
    BY <1>7 DEF SessionStarts, Goto, monVars
  <2>2. u # <<session, "startup">>
    BY <1>0 DEF Startups
  <2>3. at'[u] = at[u]
    BY <1>0, <2>1, <2>2 DEF Types
  <2> QED  BY <2>1, <2>3 DEF Monitored
<1> QED
  BY <1>1, <1>2, <1>3, <1>4, <1>5, <1>6, <1>7
      DEF Next, ReadRejects, ConnectReturns, RunEvent, Others, Acts

\* What a task does to the server: it asks it to take a proxy, or to let one go.
LEMMA ActsOnServer ==
    ASSUME NEW t \in Task, Acts(t)
    PROVE  \/ UNCHANGED netVars
           \/ WriteOk(t) /\ linkUp
           \/ CloseWritten(t)
<1>1. CASE WriteOk(t) /\ ~linkUp
  BY <1>1 DEF WriteOk
<1>2. Register(t) \/ VisitorsBegin(t) \/ VisitorListens(t) => UNCHANGED netVars
  BY DEF Register, VisitorsBegin, VisitorListens
<1>3. Answered(t) \/ StartupContinues(t) \/ MonitorsStart(t) \/ MonitorContinues(t)
        => UNCHANGED netVars
  BY DEF Answered, StartupContinues, MonitorsStart, MonitorContinues
<1>4. WriteFails(t) \/ RespTimeout(t) \/ HookReturns(t) \/ HookThrows(t)
        \/ VisitorReady(t) \/ VisitorFails(t) => UNCHANGED netVars
  BY DEF WriteFails, RespTimeout, HookReturns, HookThrows, VisitorReady, VisitorFails
<1>5. Tick(t) \/ CheckOk(t) \/ CheckFails(t) \/ CloseWriteFails(t) => UNCHANGED netVars
  BY DEF Tick, CheckOk, CheckFails, CloseWriteFails
<1> QED  BY <1>1, <1>2, <1>3, <1>4, <1>5 DEF Acts, RunOn, WakeUp, Event

LEMMA LinkedStep ==
    ASSUME Types, ConnTypes, NothingHeld, Rested, Linked, [Next]_vars
    PROVE  Linked'
<1>1. CASE UNCHANGED vars
  BY <1>1 DEF vars, runVars, connVars, netVars, Linked
<1>2. ASSUME NEW t \in Task, Acts(t) PROVE Linked'
  <2>1. UNCHANGED <<phase, stopped, reader, readErr>> /\ (linkUp' = linkUp \/ Spoil)
    BY <1>2, TaskFields DEF Acts, TaskOnly, runVars
  <2>2. linkUp' => linkUp
    <3>1. CASE Spoil
      BY <3>1, Zenon DEF Spoil
    <3> QED  BY <2>1, <3>1
  <2>3. CASE linkUp /\ phase = "up"
    <3>1. CASE Spoil
      <4>1. linkUp' = (linkUp /\ phase = "up")
        BY <3>1 DEF Spoil
      <4>2. linkUp'
        BY <2>3, <4>1, Zenon
      <4> QED  BY <2>1, <2>2, <2>3, <4>2 DEF Linked
    <3>2. CASE linkUp' = linkUp
      BY <2>1, <2>3, <3>2 DEF Linked
    <3> QED  BY <2>1, <3>1, <3>2
  <2>4. CASE ~linkUp \/ phase # "up"
    <3>1. srv = {} /\ toClient = <<>>
      BY <2>4 DEF Linked
    <3>2. ~(WriteOk(t) /\ linkUp)
      <4>1. linkUp => phase \in {"login", "crypto"} /\ ~stopped
        BY <2>4 DEF NothingHeld, Linked
      <4>2. linkUp => Resting(t)
        BY <4>1 DEF Rested, Between
      <4> QED  BY <4>2 DEF Resting, RestAt, WriteOk
    <3>3. srv' = {} /\ toClient' = <<>>
      BY <1>2, <3>1, <3>2, ActsOnServer DEF netVars, CloseWritten
    <3> QED  BY <2>1, <2>2, <3>3 DEF Linked
  <2> QED  BY <2>3, <2>4
<1>3. CASE LinkLost \/ HeartbeatFails
  BY <1>3 DEF LinkLost, HeartbeatFails, Linked, runVars, netVars
<1>4. CASE ReadMsg
  <2>1. toClient # <<>> /\ UNCHANGED <<phase, stopped, linkUp, reader, readErr>>
    BY <1>4 DEF ReadMsg, runVars, connVars
  <2> QED  BY <2>1 DEF Linked
<1>5. CASE ReaderClosed \/ ReaderBroken
  <2>1. reader' = "off" /\ UNCHANGED <<phase, stopped, linkUp, srv, toClient>>
    BY <1>5 DEF ReaderClosed, ReaderBroken, ReadLoopFails, runVars, netVars
  <2> QED  BY <2>1 DEF Linked
<1>6. ASSUME NEW n \in Name, ServerCloses(n) PROVE Linked'
  <2>1. srv # {} /\ UNCHANGED <<phase, stopped, linkUp, reader, readErr>>
    BY <1>6 DEF ServerCloses, runVars, connVars
  <2> QED  BY <2>1 DEF Linked
<1>7. CASE SetupFails \/ SessionEnds \/ Stop
  <2>1. /\ linkUp' = FALSE /\ srv' = {} /\ toClient' = <<>>
        /\ reader' = "reading" => FALSE
        /\ stopped' \/ phase' # "up"
    BY <1>7 DEF SetupFails, SessionEnds, Stop, Retry, Teardown, CloseTransport,
                CloseReader
  <2> QED  BY <2>1 DEF Linked
<1>8. CASE DialFails \/ DialTooLate \/ ReconnectHook \/ Run \/ Wake \/ LoginOk
  <2>1. /\ phase # "up" /\ phase' # "up"
        /\ UNCHANGED <<stopped, linkUp, reader, readErr, srv, toClient>>
    BY <1>8 DEF DialFails, DialTooLate, ReconnectHook, Run, Wake, LoginOk, Retry,
                connVars, netVars
  <2> QED  BY <2>1 DEF Linked
<1>9. CASE DialOk
  <2>1. /\ phase # "up" /\ phase' = "login" /\ ~stopped
        /\ UNCHANGED <<stopped, reader, readErr, srv, toClient>>
    BY <1>9 DEF DialOk, netVars
  <2> QED  BY <2>1 DEF Linked
<1>10. CASE SessionStarts
  <2>1. /\ phase # "up" /\ readErr' = FALSE /\ reader' # "closed"
        /\ UNCHANGED <<stopped, linkUp, srv, toClient>>
    BY <1>10 DEF SessionStarts, ReaderAfterSetup, netVars
  <2> QED  BY <2>1 DEF Linked
<1> QED
  BY <1>1, <1>2, <1>3, <1>4, <1>5, <1>6, <1>7, <1>8, <1>9, <1>10
     DEF Next, ReadRejects, ConnectReturns, RunEvent, Acts

-----------------------------------------------------------------------------
\* On a session that stop() has not ended, a name has one task.
Going == phase = "up" /\ ~stopped

LEMMA StartupName ==
    ASSUME Types, Placed, NEW t \in Startups, at[t] \in Registers
    PROVE  /\ step[t[1]] \in DOMAIN Plain /\ NameOf(t) = Plain[step[t[1]]]
           /\ NameOf(t) \in Name /\ NameOf(t) \notin Health
<1>1. t[1] \in Session /\ step[t[1]] \in Nat \ {0}
  BY StartupIs DEF Types
<1>2. step[t[1]] <= Len(Plain)
  BY DEF Placed, Fits
<1>3. step[t[1]] \in DOMAIN Plain
  <2>1. Plain \in Seq(STRING)
    BY ConfigAssumption
  <2> QED  BY <1>1, <1>2, <2>1
<1>4. NameOf(t) = Plain[step[t[1]]]
  BY DEF NameOf, Startups
<1> QED  BY <1>3, <1>4, ConfigAssumption DEF Name

LEMMA NameIsOwn ==
    ASSUME Types, Placed, Rested, Going,
           NEW t \in Task, NEW u \in Task, at[t] \notin RestAt, at[u] \notin RestAt,
           t \in Startups => at[t] \in Registers,
           u \in Startups => at[u] \in Registers,
           NameOf(t) = NameOf(u)
    PROVE  t = u
<1>1. t[1] = session /\ u[1] = session
  BY DEF Rested, Resting, Going
<1>2. CASE t \in Startups /\ u \in Startups
  BY <1>1, <1>2, StartupIsUnique
<1>3. CASE t \notin Startups /\ u \notin Startups
  <2>1. t \in Monitors /\ u \in Monitors
    BY <1>3 DEF Monitors
  <2>2. t[2] = u[2]
    BY <2>1, MonitorNames
  <2> QED  BY <1>1, <2>2 DEF Task
<1>4. \A v \in Startups, w \in Task : w \notin Startups /\ at[v] \in Registers
        => NameOf(v) # NameOf(w)
  BY StartupName, MonitorNames, MonitorIs DEF Monitors
<1> QED  BY <1>2, <1>3, <1>4

\* So the catch, which deletes by name, deletes what is the task's own.
LEMMA CatchIsOwn ==
    ASSUME WInv, Placed, Rested, Going, NEW t \in Task, at[t] \in NamedAt, Catch(t)
    PROVE  \A u \in Task : u # t \/ ~Waiting(u) => answer'[u] = answer[u]
<1> SUFFICES ASSUME NEW u \in Task, pending[NameOf(t)] = u, u # t \/ ~Waiting(u)
             PROVE  FALSE
  BY DEF Catch
<1>1. NameOf(t) \in Name /\ pending[NameOf(t)] # NoTask
  BY NoTaskIsNone DEF WInv, Named
<1>2. Waiting(u) /\ NameOf(u) = NameOf(t)
  BY <1>1 DEF WInv, Owners
<1>3. at[u] \in Registers /\ at[t] \in Registers
  BY <1>2 DEF Waiting, Registers, NamedAt, Wait
<1>4. at[u] \notin RestAt /\ at[t] \notin RestAt
  BY <1>3 DEF Registers, NamedAt, Wait, RestAt
<1> QED  BY <1>2, <1>3, <1>4, NameIsOwn DEF WInv

\* A task answers for nobody else, and for itself only while it waits.
LEMMA ActsAnswers ==
    ASSUME WInv, Placed, Rested, Going, NEW t \in Task, Acts(t)
    PROVE  \A u \in Task : u # t \/ (~Waiting(u) /\ at[u] # "register")
                             => answer'[u] = answer[u]
<1>1. CASE answer' = answer
  BY <1>1
<1>2. CASE at[t] \in NamedAt /\ Catch(t)
  BY <1>2, CatchIsOwn
<1>3. CASE Register(t)
  <2>1. at[t] = "register" /\ answer' \in {answer, [answer EXCEPT ![t] = "none"]}
    BY <1>3 DEF Register
  <2> QED  BY <2>1 DEF WInv, Types
<1>4. CASE RespTimeout(t)
  <2>1. /\ at[t] = "awaiting" /\ pending[NameOf(t)] = t
        /\ answer' = [answer EXCEPT ![t] = "rejected"]
    BY <1>4 DEF RespTimeout
  <2>2. NameOf(t) \in Name /\ pending[NameOf(t)] # NoTask
    BY <2>1, NoTaskIsNone DEF WInv, Named, NamedAt, Wait
  <2>3. Waiting(t)
    BY <2>1, <2>2 DEF WInv, Owners
  <2> QED  BY <2>1, <2>3 DEF WInv, Types
<1>5. \/ Answered(t) \/ WriteFails(t) \/ HookThrows(t)
        => answer' = answer \/ (at[t] \in NamedAt /\ Catch(t))
  BY DEF Answered, WriteFails, HookThrows, NamedAt, Wait
<1>6. VisitorsBegin(t) \/ VisitorListens(t) \/ StartupContinues(t) \/ MonitorsStart(t)
        \/ MonitorContinues(t) => answer' = answer
  BY DEF VisitorsBegin, VisitorListens, StartupContinues, MonitorsStart, MonitorContinues
<1>7. WriteOk(t) \/ HookReturns(t) \/ VisitorReady(t) \/ VisitorFails(t)
        => answer' = answer
  BY DEF WriteOk, HookReturns, VisitorReady, VisitorFails
<1>8. Tick(t) \/ CheckOk(t) \/ CheckFails(t) \/ CloseWritten(t) \/ CloseWriteFails(t)
        => answer' = answer
  BY DEF Tick, CheckOk, CheckFails, CloseWritten, CloseWriteFails
<1> QED
  BY <1>1, <1>2, <1>3, <1>4, <1>5, <1>6, <1>7, <1>8 DEF Acts, RunOn, WakeUp, Event

\* Where a task can have come from, and what it does on the way there.
LEMMA ActsTo ==
    ASSUME Types, NEW t \in Task, Acts(t)
    PROVE  /\ at'[t] = "writing" => answer'[t] = "none"
           /\ at'[t] \in HookAt \cup {"closing"} =>
                  \/ at[t] = "awaiting" /\ ("onProxyRegister" \in Hooks \/ "onProxyError" \in Hooks)
                  \/ t \in Monitors /\ at[t] = "checking"
<1> USE DEF HookAt
<1>1. CASE Register(t)
  <2>1. \/ at' = [at EXCEPT ![t] = "noResp"] \/ at' = [at EXCEPT ![t] = "threw"]
        \/ /\ at' = [at EXCEPT ![t] = "writing"]
           /\ answer' = [answer EXCEPT ![t] = "none"]
    BY <1>1 DEF Register, Goto
  <2> QED  BY <2>1 DEF Types
<1>2. CASE at[t] = "awaiting" /\ at' = at
  BY <1>2
<1>3. CASE Answered(t)
  <2>1. /\ at[t] = "awaiting"
        /\ \E to \in {"threw", "noResp", "gotResp", "okHook", "errHook"} :
               /\ at' = [at EXCEPT ![t] = to]
               /\ to = "okHook" => "onProxyRegister" \in Hooks
               /\ to = "errHook" => "onProxyError" \in Hooks
    BY <1>3 DEF Answered, Catch, Goto
  <2> QED  BY <2>1 DEF Types
<1>4. CASE t \in Monitors /\ CheckFails(t)
  <2>1. at[t] = "checking" /\ \E to \in {"ended", "timer", "closing"} : at' = [at EXCEPT ![t] = to]
    BY <1>4 DEF CheckFails, Rest, Goto
  <2> QED  BY <1>4, <2>1 DEF Types
<1>5. CASE t \in Startups /\ MonitorsStart(t)
  BY <1>5 DEF MonitorsStart
<1>6. CASE \E to \in {"visit", "listening", "failed", "register", "threw", "noResp", "gotResp",
                      "ended", "timer", "awaiting", "checking"} :
               at' = [at EXCEPT ![t] = to]
  BY <1>6 DEF Types
<1> DEFINE Moves == \E to \in {"visit", "listening", "failed", "register", "threw", "noResp",
                               "gotResp", "ended", "timer", "awaiting", "checking"} :
                        at' = [at EXCEPT ![t] = to]
<1>7. VisitorsBegin(t) \/ VisitorListens(t) \/ StartupContinues(t) \/ MonitorContinues(t)
        => Moves
  BY DEF VisitorsBegin, VisitorListens, StartupContinues, MonitorContinues, Rest, Goto
<1>8. WriteOk(t) \/ WriteFails(t) \/ HookReturns(t) \/ HookThrows(t)
        \/ VisitorReady(t) \/ VisitorFails(t) => Moves
  BY DEF WriteOk, WriteFails, Catch, HookReturns, HookThrows, VisitorReady, VisitorFails, Goto
<1>9. RespTimeout(t) => at[t] = "awaiting" /\ at' = at
  BY DEF RespTimeout
<1>10. Tick(t) \/ CheckOk(t) \/ CloseWritten(t) \/ CloseWriteFails(t) => Moves
  BY DEF Tick, CheckOk, CloseWritten, CloseWriteFails, Rest, Goto
<1> QED
  BY <1>1, <1>2, <1>3, <1>4, <1>5, <1>6, <1>7, <1>8, <1>9, <1>10
     DEF Acts, RunOn, WakeUp, Event

LEMMA FirstIs ==
    ASSUME toClient \in Seq(Msg), toClient # <<>>
    PROVE  /\ 1 \in DOMAIN toClient /\ Head(toClient) = toClient[1]
           /\ Head(toClient) \in Msg
OBVIOUS

\* No answer comes to a startup that has not finished asking.
LEMMA UnansweredStep ==
    ASSUME WInv, Placed, Rested, Linked, AskedOnce, Unanswered, [Next]_vars
    PROVE  Unanswered'
<1> SUFFICES ASSUME phase' = "up", ~stopped', ~readErr', NEW v \in Startups,
                    at'[v] = "writing"
             PROVE  answer'[v] = "none"
  BY DEF Unanswered
<1>0. v \in Task
  BY StartupIs
<1>1. CASE UNCHANGED <<phase, stopped, readErr, at, answer>>
  BY <1>1 DEF Unanswered
<1>2. ASSUME NEW t \in Task, Acts(t) PROVE answer'[v] = "none"
  <2>1. UNCHANGED <<phase, stopped, readErr>>
    BY <1>2, TaskFields DEF Acts, TaskOnly, runVars
  <2>2. CASE t = v
    BY <1>2, <2>2, ActsTo DEF WInv
  <2>3. CASE t # v
    <3>1. at[v] = "writing"
      <4>1. MonitorsStart(t) => at'[v] = at[v] \/ at'[v] \in {"timer", "done"}
        BY <1>0 DEF MonitorsStart
      <4> QED  BY <1>0, <1>2, <2>3, <4>1, ActsAlone DEF WInv, Alone
    <3>2. answer'[v] = answer[v]
      BY <1>0, <1>2, <2>1, <2>3, ActsAnswers DEF Going
    <3> QED  BY <2>1, <3>1, <3>2 DEF Unanswered
  <2> QED  BY <2>2, <2>3
<1>3. CASE ReadMsg
  <2>1. /\ toClient # <<>> /\ UNCHANGED <<phase, stopped, readErr, at>>
        /\ \/ answer' = answer
           \/ Head(toClient).type = "NewProxyResp" /\ Resolve(Head(toClient))
    BY <1>3 DEF ReadMsg, runVars, connVars
  <2>2. CASE Head(toClient).type = "NewProxyResp" /\ Resolve(Head(toClient))
    <3> DEFINE m == Head(toClient)
    <3>1. toClient[1] = m /\ 1 \in DOMAIN toClient /\ m \in Msg /\ m.name \in Name
      BY <2>1, FirstIs DEF WInv, Types, Msg
    <3>2. answer' = [u \in Task |-> IF pending[m.name] = u THEN m.how ELSE answer[u]]
      BY <2>2 DEF Resolve
    <3>3. answer[v] = "none"
      BY <2>1 DEF Unanswered
    <3>4. ASSUME pending[m.name] = v PROVE FALSE
      <4>1. NameOf(v) = m.name
        BY <1>0, <3>1, <3>4, NoTaskIsNone DEF WInv, Owners
      <4>2. at[v] = "writing" /\ at[v] \in Registers
        BY <2>1 DEF Registers, NamedAt, Wait
      <4>3. step[v[1]] \in DOMAIN Plain /\ NameOf(v) = Plain[step[v[1]]]
        BY <4>2, StartupName DEF WInv
      <4>4. v[1] = session
        BY <1>0, <2>1, <4>2 DEF Rested, Resting, RestAt
      <4>5. step[v[1]] \in Nat
        BY StartupIs DEF WInv, Types
      <4>6. at[v] \in Begins
        BY <4>2 DEF Begins
      <4>7. Live
        BY <2>1 DEF Linked, Live
      <4>8. step[v[1]] < step[v[1]]
        BY <2>2, <3>1, <4>1, <4>3, <4>4, <4>6, <4>7 DEF AskedOnce
      <4> QED  BY <4>5, <4>8
    <3> HIDE DEF m
    <3> QED  BY <1>0, <3>2, <3>3, <3>4
  <2> QED  BY <2>1, <2>2 DEF Unanswered
<1>4. CASE ReaderClosed \/ ReaderBroken
  BY <1>4 DEF ReaderClosed, ReaderBroken, ReadLoopFails
<1>5. HeartbeatFails \/ LinkLost \/ (\E n \in Name : ServerCloses(n))
        => UNCHANGED <<phase, stopped, readErr, at, answer>>
  BY DEF HeartbeatFails, LinkLost, ServerCloses, runVars, connVars, regVars
<1>6. CASE SessionStarts
  <2>1. /\ phase = "crypto" /\ UNCHANGED <<stopped, answer>>
        /\ \E to \in {"onLogin", "register"} :
               at' = [at EXCEPT ![<<session, "startup">>] = to]
    BY <1>6 DEF SessionStarts, Goto
  <2>2. at[v] = "writing"
    BY <1>0, <2>1 DEF WInv, Types
  <2>3. Resting(v)
    BY <1>0, <2>1 DEF Rested, Between
  <2> QED  BY <2>2, <2>3 DEF Resting, RestAt
<1>7. SetupFails \/ SessionEnds \/ Stop => phase' # "up" \/ stopped'
  BY DEF SetupFails, SessionEnds, Stop, Retry
<1>8. DialFails \/ DialTooLate \/ ReconnectHook \/ Run \/ DialOk \/ LoginOk \/ Wake
        => phase' # "up"
  BY DEF DialFails, DialTooLate, ReconnectHook, Run, DialOk, LoginOk, Wake, Retry
<1>9. UNCHANGED vars => UNCHANGED <<phase, stopped, readErr, at, answer>>
  BY DEF vars, runVars, connVars, regVars
<1> QED
  BY <1>1, <1>2, <1>3, <1>4, <1>5, <1>6, <1>7, <1>8, <1>9
      DEF Next, ReadRejects, ConnectReturns, RunEvent, Acts

\* A refused registration, of a session whose read loop failed, ends its startup.
LEMMA RefusedActs ==
    ASSUME WInv, readErr, NEW t \in Startups, Refused(t), Acts(t)
    PROVE  at'[t] \in RestAt \/ Refused(t)'
<1> USE DEF Wait
<1>0. t \in Task /\ t \notin Monitors /\ at[t] \in {"threw", "writing", "awaiting"}
  BY StartupIs, MonitorIs DEF Refused
<1>1. CASE Answered(t) \/ WriteFails(t)
  <2>1. at' = [at EXCEPT ![t] = "threw"]
    BY <1>0, <1>1 DEF Answered, WriteFails, Catch, Goto, Refused
  <2> QED  BY <1>0, <2>1 DEF Refused, WInv, Types
<1>2. CASE StartupContinues(t)
  <2>1. at' = [at EXCEPT ![t] = "failed"]
    BY <1>0, <1>2 DEF StartupContinues, Goto
  <2> QED  BY <1>0, <2>1 DEF RestAt, WInv, Types
<1>3. CASE WriteOk(t)
  <2>1. /\ at[t] = "writing" /\ at' = [at EXCEPT ![t] = "awaiting"] /\ answer' = answer
    BY <1>3 DEF WriteOk, Goto
  <2> QED  BY <1>0, <2>1 DEF Refused, WInv, Types
<1>4. CASE RespTimeout(t)
  <2>1. at[t] = "awaiting" /\ at' = at /\ answer' = [answer EXCEPT ![t] = "rejected"]
    BY <1>4 DEF RespTimeout
  <2> QED  BY <1>0, <2>1 DEF Refused, WInv, Types
<1>5. ~Register(t) /\ ~VisitorsBegin(t) /\ ~VisitorListens(t) /\ ~MonitorsStart(t)
      /\ ~HookReturns(t) /\ ~HookThrows(t) /\ ~VisitorReady(t) /\ ~VisitorFails(t)
  BY <1>0 DEF Register, VisitorsBegin, VisitorListens, MonitorsStart, HookReturns,
              HookThrows, VisitorReady, VisitorFails
<1> QED
  BY <1>0, <1>1, <1>2, <1>3, <1>4, <1>5 DEF Acts, RunOn, WakeUp, Event

\* When the read loop breaks nothing is about to run, so that the startup of a
\* session with monitors is at rest or waits.
LEMMA BreakRefuses ==
    ASSUME WInv, Placed, Rested, Linked, Doomed, Unanswered, Health # {}, Settled,
           ~stopped, ReaderBroken, \A t \in Task : ~InRun(t) /\ ~Woken(t),
           NEW v \in Startups
    PROVE  at[v] \in RestAt \/ (at[v] \in Wait /\ answer'[v] = "rejected")
<1>1. /\ v \in Task /\ reader = "reading" /\ ~readErr /\ RejectPending
      /\ at[v] \notin HookAt \cup {"closing"}
  BY StartupIs DEF ReaderBroken, ReadLoopFails, Linked, Doomed
<1>2. CASE phase # "up"
  BY <1>1, <1>2 DEF Doomed
<1>3. CASE phase = "up"
  <2>1. at[v] # "listening"
    <3>1. Len(Visitors) = 0
      BY ConfigAssumption DEF Settled
    <3>2. step[v[1]] \in Nat
      BY StartupIs DEF WInv, Types
    <3> QED  BY <3>1, <3>2, Lengths DEF Placed, Fits, LastStep
  <2>2. at[v] \notin {"register", "visit", "gotResp", "noResp", "threw"}
        /\ (at[v] = "awaiting" => answer[v] = "none")
    BY <1>1 DEF InRun, Woken, HasAnswer
  <2>3. at[v] \in RestAt \/ (at[v] \in Wait /\ answer[v] = "none")
    <3>1. at[v] \in At
      BY <1>1 DEF WInv, Types
    <3>2. at[v] = "writing" => answer[v] = "none"
      BY <1>1, <1>3 DEF Unanswered
    <3> QED  BY <1>1, <2>1, <2>2, <3>1, <3>2 DEF At, RestAt, HookAt, Wait
  <2>4. Waiting(v) => pending[NameOf(v)] = v /\ NameOf(v) \in Name
    BY <1>1 DEF WInv, Entries, Named, Waiting, NamedAt
  <2>5. Waiting(v) => answer'[v] = "rejected"
    BY <1>1, <2>4 DEF RejectPending
  <2> QED  BY <2>3, <2>5 DEF Waiting
<1> QED  BY <1>2, <1>3

LEMMA RejectRefuses ==
    ASSUME NEW t \in Task, RejectPending, answer[t] = "rejected"
    PROVE  answer'[t] = "rejected"
BY DEF RejectPending

LEMMA ToldStep ==
    ASSUME Told, [Next]_vars
    PROVE  Told'
<1>1. CASE UNCHANGED <<stopped, phase, done, readErr>>
  BY <1>1 DEF Told
<1>2. ASSUME NEW t \in Task, Acts(t) PROVE UNCHANGED <<stopped, phase, done, readErr>>
  BY <1>2, TaskFields DEF Acts, TaskOnly, runVars
<1>3. CASE ReaderClosed \/ ReaderBroken
  BY <1>3 DEF ReaderClosed, ReaderBroken, ReadLoopFails, Told
<1>4. CASE HeartbeatFails
  BY <1>4 DEF HeartbeatFails, Told
<1>5. ReadMsg \/ LinkLost \/ (\E n \in Name : ServerCloses(n)) \/ UNCHANGED vars
        => UNCHANGED <<stopped, phase, done, readErr>>
  BY DEF ReadMsg, LinkLost, ServerCloses, vars, runVars, connVars
<1>6. SetupFails \/ SessionEnds \/ Stop => phase' # "up" \/ stopped'
  BY DEF SetupFails, SessionEnds, Stop, Retry
<1>7. DialFails \/ DialTooLate \/ ReconnectHook \/ Run \/ DialOk \/ LoginOk \/ Wake
        => phase' # "up"
  BY DEF DialFails, DialTooLate, ReconnectHook, Run, DialOk, LoginOk, Wake, Retry
<1>8. SessionStarts => stopped' \/ done' = "none"
  BY DEF SessionStarts
<1> QED
  BY <1>1, <1>2, <1>3, <1>4, <1>5, <1>6, <1>7, <1>8
      DEF Next, ReadRejects, ConnectReturns, RunEvent, Acts, Told

LEMMA DoomedStep ==
    ASSUME WInv, Fresh, Placed, Rested, Linked, Unanswered, Told, Doomed, Calm, [Next]_vars
    PROVE  Doomed'
<1> SUFFICES ASSUME Health # {}, NEW v \in Startups
             PROVE  /\ at'[v] \notin HookAt \cup {"closing"}
                    /\ ~stopped' /\ (phase' # "up" \/ readErr') =>
                           at'[v] \in RestAt \/ (readErr' /\ Refused(v)')
  BY DEF Doomed, Refused
<1> DEFINE Quits == at'[v] \in RestAt \/ (readErr' /\ Refused(v)')
           Goal == /\ at'[v] \notin HookAt \cup {"closing"}
                   /\ ~stopped' /\ (phase' # "up" \/ readErr') => Quits
<1>0. /\ v \in Task /\ v \notin Monitors /\ ~InRegistry(v)
      /\ at[v] \notin HookAt \cup {"closing"}
      /\ Hooks \subseteq {"onReconnect"} /\ ~Heartbeats
  BY StartupIs, MonitorIs DEF InRegistry, Doomed, Calm, Settled
<1> SUFFICES Goal
  OBVIOUS
<1>1. CASE UNCHANGED <<phase, stopped, readErr, at, answer>>
  BY <1>0, <1>1 DEF Doomed, Refused
<1>2. ASSUME NEW t \in Task, Acts(t) PROVE Goal
  <2>1. UNCHANGED <<phase, stopped, readErr>>
    BY <1>2, TaskFields DEF Acts, TaskOnly, runVars
  <2>2. at'[v] \notin HookAt \cup {"closing"}
    <3>1. CASE t = v
      BY <1>0, <1>2, <3>1, ActsTo DEF WInv
    <3>2. CASE t # v /\ Alone(t)
      BY <1>0, <3>2 DEF Alone
    <3>3. CASE t # v /\ MonitorsStart(t)
      BY <1>0, <3>3 DEF MonitorsStart, HookAt
    <3> QED  BY <1>2, <3>1, <3>2, <3>3, ActsAlone DEF WInv
  <2>3. ASSUME ~stopped, phase # "up" \/ readErr PROVE Quits
    <3>1. \A w \in Startups : at[w] \in RestAt \/ (readErr /\ Refused(w))
      BY <2>3 DEF Doomed
    <3>2. ~(t \in Startups /\ MonitorsStart(t))
      BY <3>1 DEF MonitorsStart, Refused, RestAt, Wait
    <3>3. Alone(t)
      BY <1>2, <3>2, ActsAlone DEF WInv
    <3>4. CASE t = v
      <4>1. readErr /\ Refused(t)
        BY <3>1, <3>3, <3>4 DEF Alone
      <4> QED  BY <1>2, <2>1, <3>4, <4>1, RefusedActs
    <3>5. CASE t # v
      BY <1>0, <2>1, <3>1, <3>3, <3>5 DEF Alone, Refused
    <3> QED  BY <3>4, <3>5
  <2> QED  BY <2>1, <2>2, <2>3 DEF Doomed
<1>3. CASE ReadMsg
  <2>1. /\ toClient # <<>> /\ reader = "reading"
        /\ UNCHANGED <<phase, stopped, readErr, at>>
    BY <1>3 DEF ReadMsg, runVars, connVars
  <2>2. phase = "up" /\ ~readErr
    BY <2>1 DEF Linked
  <2> QED  BY <1>0, <2>1, <2>2 DEF Doomed
<1>4. CASE ReaderClosed
  <2>1. /\ reader = "closed" /\ readErr' = TRUE /\ RejectPending
        /\ UNCHANGED <<phase, stopped, at>>
    BY <1>4 DEF ReaderClosed, ReadLoopFails, runVars
  <2>2. ~stopped => phase # "up"
    BY <2>1 DEF Linked
  <2> QED  BY <1>0, <2>1, <2>2, RejectRefuses DEF Doomed, Refused
<1>5. CASE ReaderBroken /\ \A t \in Task : ~InRun(t) /\ ~Woken(t)
  <2>1. readErr' = TRUE /\ UNCHANGED <<phase, stopped, at>>
    BY <1>5 DEF ReaderBroken, ReadLoopFails, runVars
  <2>2. ~stopped => at[v] \in RestAt \/ (at[v] \in Wait /\ answer'[v] = "rejected")
    BY <1>5, BreakRefuses DEF Calm
  <2> QED  BY <1>0, <2>1, <2>2 DEF Refused
<1>6. HeartbeatFails => FALSE
  BY <1>0 DEF HeartbeatFails
<1>7. LinkLost \/ (\E n \in Name : ServerCloses(n))
        => UNCHANGED <<phase, stopped, readErr, at, answer>>
  BY DEF LinkLost, ServerCloses, runVars, connVars, regVars
<1>8. CASE SetupFails \/ SessionEnds \/ Stop
  <2>1. /\ StopMonitors /\ RejectPending /\ readErr' = readErr
        /\ stopped' \/ (stopped' = stopped /\ phase' # "up")
    BY <1>8 DEF SetupFails, SessionEnds, Stop, Teardown, Retry
  <2>2. at'[v] = at[v]
    BY <1>0, <2>1 DEF StopMonitors
  <2>3. ASSUME ~stopped, SetupFails \/ SessionEnds
        PROVE  at[v] \in RestAt \/ (readErr /\ Refused(v))
    <3>1. CASE SetupFails
      BY <1>0, <2>3, <3>1 DEF SetupFails, Rested, Between, Resting
    <3>2. CASE SessionEnds /\ v[1] # session
      BY <1>0, <2>3, <3>2 DEF SessionEnds, SessionOver, Rested, Resting
    <3>3. CASE SessionEnds /\ v[1] = session
      <4>1. v = <<session, "startup">>
        BY <3>3 DEF Startups, Task
      <4>2. done = "rejected" \/ at[v] \in {"failed", "done"}
        BY <3>3, <4>1 DEF SessionEnds, SessionOver
      <4>3. phase = "up" /\ (done = "rejected" => readErr)
        BY <1>0, <2>3, <3>3 DEF SessionEnds, SessionOver, Told
      <4> QED  BY <2>3, <4>2, <4>3 DEF Doomed, RestAt
    <3> QED  BY <2>3, <3>1, <3>2, <3>3
  <2>4. Refused(v) => Refused(v)'
    BY <1>0, <2>1, <2>2, RejectRefuses DEF Refused
  <2>5. Stop => stopped'
    BY DEF Stop
  <2> QED  BY <1>0, <1>8, <2>1, <2>2, <2>3, <2>4, <2>5
<1>9. CASE DialFails \/ DialTooLate \/ ReconnectHook \/ Run \/ DialOk \/ LoginOk \/ Wake
  <2>1. phase # "up" /\ phase' # "up" /\ UNCHANGED <<stopped, readErr, at, answer>>
    BY <1>9 DEF DialFails, DialTooLate, ReconnectHook, Run, DialOk, LoginOk, Wake, Retry,
                connVars, regVars
  <2> QED  BY <1>0, <2>1 DEF Doomed, Refused
<1>10. CASE SessionStarts
  <2>1. /\ phase' = "up" /\ readErr' = FALSE
        /\ at' = [at EXCEPT ![<<session, "startup">>] = "register"]
    BY <1>0, <1>10 DEF SessionStarts, Goto
  <2>2. at'[v] = at[v] \/ at'[v] = "register"
    BY <1>0, <2>1 DEF WInv, Types
  <2> QED  BY <1>0, <2>1, <2>2 DEF HookAt
<1>11. UNCHANGED vars => UNCHANGED <<phase, stopped, readErr, at, answer>>
  BY DEF vars, runVars, connVars, regVars
<1> QED
  BY <1>1, <1>2, <1>3, <1>4, <1>5, <1>6, <1>7, <1>8, <1>9, <1>10, <1>11
     DEF Next, ReadRejects, ConnectReturns, RunEvent, Acts

-----------------------------------------------------------------------------
\* What no step of a task does to it: begin to add a proxy, to close one that
\* is not in the map, to ask for one that is, or to ask twice.
Passes(u) == /\ Adding(u)' => Adding(u) /\ NameOf(u)' = NameOf(u)
             /\ u \in Monitors =>
                    /\ at'[u] = "closing" => at[u] = "closing" \/ u[2] \in proxyMap
                    /\ at'[u] \in Asking => at[u] \in Asking \/ u[2] \notin proxyMap
             /\ u \in Startups =>
                    /\ step[u[1]] <= step'[u[1]]
                    /\ at'[u] \in Begins => at[u] \in Begins \/ step[u[1]] < step'[u[1]]

LEMMA PassesBy ==
    ASSUME Types, NEW t \in Task, step' = step,
           at'[t] = at[t] \/ at'[t] \notin {"writing", "awaiting", "okHook", "gotResp",
                                            "register", "onLogin", "closing"},
           answer'[t] = answer[t] \/ answer'[t] # "ok"
    PROVE  Passes(t)
<1>1. Adding(t)' => Adding(t)
  BY DEF Adding, Accepted, Wait
<1>2. NameOf(t)' = NameOf(t)
  BY DEF NameOf
<1>3. t \in Startups => step[t[1]] <= step'[t[1]]
  BY StartupIs DEF Types
<1> QED  BY <1>1, <1>2, <1>3 DEF Passes, Asking, Begins

LEMMA PassesSelf ==
    ASSUME Types, Placed, NEW t \in Task, Acts(t)
    PROVE  Passes(t)
<1>0. /\ step' = step => NameOf(t)' = NameOf(t)
      /\ t \in Startups => step[t[1]] \in Nat /\ t[1] \in Session
      /\ t \in Startups => t \notin Monitors
  BY StartupIs DEF Types, NameOf, Monitors
<1>1. CASE Register(t)
  <2>1. /\ at[t] = "register" /\ step' = step
        /\ at' = [at EXCEPT ![t] = "noResp"] \/ at' = [at EXCEPT ![t] = "threw"]
           \/ (at' = [at EXCEPT ![t] = "writing"] /\ answer' = [answer EXCEPT ![t] = "none"])
    BY <1>1 DEF Register, Goto
  <2>2. ~Adding(t)'
    BY <2>1 DEF Adding, Accepted, Wait, Types
  <2> QED  BY <1>0, <2>1, <2>2 DEF Passes, Asking, Begins, Types
<1>2. CASE t \in Startups /\ (VisitorsBegin(t) \/ VisitorListens(t))
  <2>1. /\ step' = step /\ answer' = answer
        /\ at' = [at EXCEPT ![t] = "visit"] \/ at' = [at EXCEPT ![t] = "listening"]
    BY <1>2 DEF VisitorsBegin, VisitorListens, Goto
  <2>2. at'[t] \in {"visit", "listening"}
    BY <2>1 DEF Types
  <2> QED  BY <2>1, <2>2, PassesBy
<1>3. CASE Catch(t) /\ step' = step
  <2>1. \E to \in {"threw", "noResp"} : at' = [at EXCEPT ![t] = to]
    BY <1>3 DEF Catch, Goto
  <2>2. at'[t] \in {"threw", "noResp"}
    BY <2>1 DEF Types
  <2>3. answer'[t] \in {answer[t], "rejected"}
    BY <1>3, CatchAnswers
  <2> QED  BY <1>3, <2>2, <2>3, PassesBy
<1>4. CASE Answered(t) /\ ~Catch(t)
  <2>1. /\ at[t] = "awaiting" /\ UNCHANGED <<step, answer>>
        /\ \/ answer[t] = "ok"
           \/ at' = [at EXCEPT ![t] = "errHook"] \/ at' = [at EXCEPT ![t] = "noResp"]
        /\ \E to \in {"okHook", "gotResp", "errHook", "noResp"} : at' = [at EXCEPT ![t] = to]
    BY <1>4 DEF Answered, Goto
  <2>2. /\ at'[t] \in {"okHook", "gotResp", "errHook", "noResp"}
        /\ answer[t] = "ok" \/ at'[t] \in {"errHook", "noResp"}
    BY <2>1 DEF Types
  <2> QED  BY <1>0, <2>1, <2>2 DEF Passes, Adding, Accepted, Asking, Begins, Wait
<1>5. CASE t \in Startups /\ StartupContinues(t)
  <2>1. CASE at[t] \in {"gotResp", "noResp"}
    <3>1. /\ at' = [at EXCEPT ![t] = "register"]
          /\ step' = [step EXCEPT ![t[1]] = step[t[1]] + 1]
      BY <1>5, <2>1 DEF StartupContinues, Goto
    <3>2. at'[t] = "register" /\ step'[t[1]] = step[t[1]] + 1
      BY <1>0, <1>5, <3>1 DEF Types
    <3> QED  BY <1>0, <1>5, <3>2 DEF Passes, Adding, Accepted, Wait
  <2>2. CASE at[t] = "threw"
    <3>1. at' = [at EXCEPT ![t] = "failed"] /\ step' = step /\ answer' = answer
      BY <1>5, <2>2 DEF StartupContinues, Goto
    <3>2. at'[t] = "failed"
      BY <3>1 DEF Types
    <3> QED  BY <3>1, <3>2, PassesBy
  <2> QED  BY <1>5, <2>1, <2>2 DEF StartupContinues
<1>6. CASE t \in Startups /\ MonitorsStart(t)
  <2>1. step' = step /\ answer' = answer /\ at'[t] = "done"
    BY <1>6 DEF MonitorsStart
  <2> QED  BY <2>1, PassesBy
<1>7. CASE t \in Monitors /\ (\/ MonitorContinues(t) \/ Tick(t)
                              \/ CloseWritten(t) \/ CloseWriteFails(t))
  <2>1. /\ step' = step /\ answer' = answer
        /\ \E to \in {"ended", "timer", "checking"} : at' = [at EXCEPT ![t] = to]
    BY <1>7 DEF MonitorContinues, Tick, CloseWritten, CloseWriteFails, Rest, Goto
  <2>2. at'[t] \in {"ended", "timer", "checking"}
    BY <2>1 DEF Types
  <2> QED  BY <2>1, <2>2, PassesBy
<1>8. CASE WriteOk(t)
  <2>1. /\ at[t] = "writing" /\ UNCHANGED <<step, answer>>
        /\ at' = [at EXCEPT ![t] = "awaiting"]
    BY <1>8 DEF WriteOk, Goto
  <2>2. at'[t] = "awaiting"
    BY <2>1 DEF Types
  <2> QED  BY <1>0, <2>1, <2>2 DEF Passes, Adding, Accepted, Asking, Begins, Wait
<1>9. CASE RespTimeout(t)
  <2>1. at' = at /\ step' = step /\ answer' = [answer EXCEPT ![t] = "rejected"]
    BY <1>9 DEF RespTimeout
  <2>2. answer'[t] = "rejected"
    BY <2>1 DEF Types
  <2> QED  BY <2>1, <2>2, PassesBy
<1>10. CASE HookReturns(t)
  <2>1. /\ UNCHANGED <<step, answer>>
        /\ \/ at[t] = "onLogin" /\ at' = [at EXCEPT ![t] = "register"]
           \/ at[t] = "okHook" /\ at' = [at EXCEPT ![t] = "gotResp"]
           \/ at[t] = "errHook" /\ at' = [at EXCEPT ![t] = "noResp"]
    BY <1>10 DEF HookReturns, Goto
  <2>2. \/ at[t] = "onLogin" /\ at'[t] = "register"
        \/ at[t] = "okHook" /\ at'[t] = "gotResp"
        \/ at[t] = "errHook" /\ at'[t] = "noResp"
    BY <2>1 DEF Types
  <2> QED  BY <1>0, <2>1, <2>2 DEF Passes, Adding, Accepted, Asking, Begins, Wait
<1>11. CASE HookThrows(t) /\ ~Catch(t)
  <2>1. UNCHANGED <<step, answer>> /\ at' = [at EXCEPT ![t] = "failed"]
    BY <1>11 DEF HookThrows, Goto
  <2>2. at'[t] = "failed"
    BY <2>1 DEF Types
  <2> QED  BY <2>1, <2>2, PassesBy
<1>12. CASE t \in Startups /\ VisitorReady(t)
  <2>1. /\ answer' = answer /\ at' = [at EXCEPT ![t] = "visit"] /\ at[t] = "listening"
        /\ step' = [step EXCEPT ![t[1]] = IF conn = 0
                                      THEN Len(Plain) + Len(Visitors) + 1
                                      ELSE @ + 1]
    BY <1>12 DEF VisitorReady, Goto
  <2>2. at'[t] = "visit"
    BY <2>1 DEF Types
  <2>3. step[t[1]] <= step'[t[1]]
    <3>1. step'[t[1]] \in {LastStep, step[t[1]] + 1}
      BY <1>0, <1>12, <2>1 DEF Types, LastStep
    <3>2. step[t[1]] <= LastStep
      BY <1>0, <1>12 DEF Placed
    <3> QED  BY <1>0, <1>12, <3>1, <3>2, Lengths
  <2> QED  BY <1>0, <1>12, <2>2, <2>3 DEF Passes, Adding, Accepted, Begins, Wait
<1>13. CASE t \in Startups /\ VisitorFails(t)
  <2>1. UNCHANGED <<step, answer>> /\ at' = [at EXCEPT ![t] = "failed"]
    BY <1>13 DEF VisitorFails, Goto
  <2>2. at'[t] = "failed"
    BY <2>1 DEF Types
  <2> QED  BY <2>1, <2>2, PassesBy
<1>14. CASE t \in Monitors /\ (CheckOk(t) \/ CheckFails(t))
  <2>1. /\ UNCHANGED <<step, answer>>
        /\ \E to \in {"ended", "timer", "register", "closing"} :
               /\ at' = [at EXCEPT ![t] = to]
               /\ to = "register" => t[2] \notin proxyMap
               /\ to = "closing" => t[2] \in proxyMap
    BY <1>14 DEF CheckOk, CheckFails, NothingToDo, Rest, Goto
  <2>2. /\ at'[t] \in {"ended", "timer", "register", "closing"}
        /\ at'[t] = "register" => t[2] \notin proxyMap
        /\ at'[t] = "closing" => t[2] \in proxyMap
    BY <2>1 DEF Types
  <2> QED  BY <1>0, <1>14, <2>2 DEF Passes, Adding, Accepted, Asking, Wait
<1>15. (Answered(t) \/ WriteFails(t) \/ HookThrows(t)) => step' = step
       /\ (WriteFails(t) => Catch(t))
  BY DEF Answered, WriteFails, HookThrows
<1> QED
  BY <1>1, <1>2, <1>3, <1>4, <1>5, <1>6, <1>7, <1>8, <1>9, <1>10, <1>11, <1>12, <1>13, <1>14, <1>15
     DEF Acts, RunOn, WakeUp, Event

LEMMA StepsAlone ==
    ASSUME Types, NEW t \in Task, Acts(t)
    PROVE  \A s \in Session : s # t[1] \/ t \notin Startups => step'[s] = step[s]
<1>1. CASE step' = step
  BY <1>1
<1>2. CASE t \in Startups /\ \E k : step' = [step EXCEPT ![t[1]] = k]
  BY <1>2 DEF Types
<1>3. t \in Startups /\ (StartupContinues(t) \/ VisitorReady(t))
        => step' = step \/ \E k : step' = [step EXCEPT ![t[1]] = k]
  <2>1. StartupContinues(t) => step' = step \/ step' = [step EXCEPT ![t[1]] = step[t[1]] + 1]
    BY DEF StartupContinues
  <2>2. VisitorReady(t) => step' = [step EXCEPT ![t[1]] = IF conn = 0
                                      THEN Len(Plain) + Len(Visitors) + 1
                                      ELSE step[t[1]] + 1]
    BY DEF VisitorReady
  <2> QED  BY <2>1, <2>2
<1>4. Register(t) \/ VisitorsBegin(t) \/ VisitorListens(t) \/ Answered(t)
        \/ MonitorsStart(t) \/ MonitorContinues(t) => step' = step
  BY DEF Register, VisitorsBegin, VisitorListens, Answered, MonitorsStart, MonitorContinues
<1>5. WriteOk(t) \/ WriteFails(t) \/ RespTimeout(t) \/ HookReturns(t) \/ HookThrows(t)
        \/ VisitorFails(t) => step' = step
  BY DEF WriteOk, WriteFails, RespTimeout, HookReturns, HookThrows, VisitorFails
<1>6. Tick(t) \/ CheckOk(t) \/ CheckFails(t) \/ CloseWritten(t) \/ CloseWriteFails(t)
        => step' = step
  BY DEF Tick, CheckOk, CheckFails, CloseWritten, CloseWriteFails
<1> QED  BY <1>1, <1>2, <1>3, <1>4, <1>5, <1>6 DEF Acts, RunOn, WakeUp, Event

LEMMA PassesAll ==
    ASSUME WInv, Placed, Rested, Going, NEW t \in Task, Acts(t)
    PROVE  \A u \in Task : Passes(u)
<1> SUFFICES ASSUME NEW u \in Task PROVE Passes(u)
  OBVIOUS
<1>1. CASE u = t
  BY <1>1, PassesSelf DEF WInv
<1>2. CASE u # t
  <2>1. answer'[u] = answer[u]
    BY <1>2, ActsAnswers
  <2>2. /\ u \in Startups => step'[u[1]] = step[u[1]]
        /\ u \in Startups => step[u[1]] \in Nat
        /\ NameOf(u)' = NameOf(u)
    <3>1. CASE u \notin Startups
      BY <3>1 DEF Startups, NameOf
    <3>2. CASE u \in Startups
      <4>1. step'[u[1]] = step[u[1]] /\ step[u[1]] \in Nat
        BY <1>2, <3>2, StartupIs, StartupIsUnique, StepsAlone DEF WInv, Types
      <4> QED  BY <3>2, <4>1 DEF NameOf
    <3> QED  BY <3>1, <3>2
  <2>3. at'[u] = at[u] \/ at'[u] = "timer"
    <3>1. MonitorsStart(t) => at'[u] = at[u] \/ at'[u] = "timer"
      BY <1>2 DEF MonitorsStart
    <3> QED  BY <1>2, <3>1, ActsAlone DEF WInv, Alone
  <2> QED  BY <2>1, <2>2, <2>3 DEF Passes, Adding, Accepted, Asking, Begins, Wait
<1> QED  BY <1>1, <1>2

\* What a task does to the map and to the server.
Enters(t) == /\ at[t] = "gotResp" /\ proxyMap' = proxyMap \cup {NameOf(t)}
             /\ t \in Startups => step[t[1]] < step'[t[1]]
             /\ t \in Monitors => at'[t] \notin Asking
             /\ UNCHANGED netVars

LEMMA ActsOnMap ==
    ASSUME Types, NEW t \in Task, Acts(t)
    PROVE  \/ UNCHANGED <<proxyMap, srv, toClient>>
           \/ Enters(t)
           \/ WriteOk(t) /\ linkUp
           \/ t \in Monitors /\ CloseWritten(t)
<1>1. CASE t \in Startups /\ StartupContinues(t)
  <2>1. CASE at[t] = "gotResp"
    <3>1. /\ at' = [at EXCEPT ![t] = "register"] /\ UNCHANGED netVars
          /\ step' = [step EXCEPT ![t[1]] = step[t[1]] + 1]
          /\ proxyMap' = proxyMap \cup {NameOf(t)}
      BY <1>1, <2>1 DEF StartupContinues, Goto
    <3>2. step[t[1]] < step'[t[1]]
      BY <1>1, <3>1, StartupIs DEF Types
    <3> QED  BY <1>1, <2>1, <3>1, <3>2, MonitorIs DEF Enters
  <2>2. CASE at[t] # "gotResp"
    BY <1>1, <2>2 DEF StartupContinues, netVars
  <2> QED  BY <2>1, <2>2
<1>2. CASE t \in Monitors /\ MonitorContinues(t)
  <2>1. CASE at[t] = "gotResp"
    <3>1. /\ \E to \in {"ended", "timer"} : at' = [at EXCEPT ![t] = to]
          /\ UNCHANGED netVars /\ proxyMap' = proxyMap \cup {t[2]}
      BY <1>2, <2>1 DEF MonitorContinues, Rest, Goto
    <3>2. at'[t] \in {"ended", "timer"}
      BY <3>1 DEF Types
    <3> QED  BY <1>2, <2>1, <3>1, <3>2, MonitorNames, MonitorIs DEF Enters, Asking
  <2>2. CASE at[t] # "gotResp"
    BY <1>2, <2>2 DEF MonitorContinues, netVars
  <2> QED  BY <2>1, <2>2
<1>3. CASE WriteOk(t) /\ ~linkUp
  BY <1>3 DEF WriteOk, netVars
<1>4. Register(t) \/ VisitorsBegin(t) \/ VisitorListens(t) \/ Answered(t) \/ MonitorsStart(t)
        => UNCHANGED <<proxyMap, srv, toClient>>
  BY DEF Register, VisitorsBegin, VisitorListens, Answered, MonitorsStart, netVars
<1>5. WriteFails(t) \/ RespTimeout(t) \/ HookReturns(t) \/ HookThrows(t)
        \/ VisitorReady(t) \/ VisitorFails(t) => UNCHANGED <<proxyMap, srv, toClient>>
  BY DEF WriteFails, RespTimeout, HookReturns, HookThrows, VisitorReady, VisitorFails, netVars
<1>6. Tick(t) \/ CheckOk(t) \/ CheckFails(t) \/ CloseWriteFails(t)
        => UNCHANGED <<proxyMap, srv, toClient>>
  BY DEF Tick, CheckOk, CheckFails, CloseWriteFails, netVars
<1> QED  BY <1>1, <1>2, <1>3, <1>4, <1>5, <1>6 DEF Acts, RunOn, WakeUp, Event

-----------------------------------------------------------------------------
LEMMA AppendAt ==
    ASSUME NEW s \in Seq(Msg), NEW m \in Msg
    PROVE  /\ \A i \in DOMAIN s : i \in DOMAIN Append(s, m) /\ Append(s, m)[i] = s[i]
           /\ \A i \in DOMAIN Append(s, m) :
                  \/ i \in DOMAIN s /\ Append(s, m)[i] = s[i]
                  \/ i = Len(s) + 1 /\ Append(s, m)[i] = m
           /\ Len(s) + 1 \in DOMAIN Append(s, m) /\ Append(s, m)[Len(s) + 1] = m
           /\ Len(s) + 1 \notin DOMAIN s
           /\ \A i \in DOMAIN s : i < Len(s) + 1
OBVIOUS

LEMMA TailAt ==
    ASSUME NEW s \in Seq(Msg), s # <<>>
    PROVE  /\ \A i \in DOMAIN Tail(s) : i \in Nat /\ i + 1 \in DOMAIN s /\ i + 1 # 1
                                        /\ Tail(s)[i] = s[i + 1]
           /\ \A i \in DOMAIN s : i \in Nat /\ (i # 1 => i - 1 \in DOMAIN Tail(s)
                                                    /\ Tail(s)[i - 1] = s[i])
<1>1. Len(s) \in Nat \ {0} /\ DOMAIN s = 1..Len(s)
  OBVIOUS
<1>2. Len(Tail(s)) = Len(s) - 1 /\ Tail(s) \in Seq(Msg)
  OBVIOUS
<1>3. DOMAIN Tail(s) = 1..(Len(s) - 1)
  BY <1>2
<1>4. ASSUME NEW i \in 1..(Len(s) - 1) PROVE Tail(s)[i] = s[i + 1]
  BY <1>1
<1>5. ASSUME NEW i \in DOMAIN s, i # 1
      PROVE  i - 1 \in 1..(Len(s) - 1) /\ Tail(s)[i - 1] = s[i]
  <2>1. i - 1 \in 1..(Len(s) - 1) /\ (i - 1) + 1 = i
    BY <1>1, <1>5
  <2> QED  BY <2>1, <1>4
<1>6. ASSUME NEW i \in 1..(Len(s) - 1) PROVE i \in Nat /\ i + 1 \in DOMAIN s /\ i + 1 # 1
  BY <1>1
<1> QED  BY <1>1, <1>3, <1>4, <1>5, <1>6

\* The part of it that is about the tasks, after a step in which they pass.
LEMMA Passed ==
    ASSUME Types, Types', Live, Map, session' = session, \A u \in Task : Passes(u)
    PROVE  /\ \A u \in Task : Adding(u)' => /\ Adding(u) /\ NameOf(u)' = NameOf(u)
                                            /\ NameOf(u) \in srv
           /\ \A u \in Monitors : at'[u] \in Asking => u[2] \notin proxyMap
           /\ \A u \in Monitors : at'[u] = "closing" => at[u] = "closing" \/ u[2] \in proxyMap
           /\ \A i \in DOMAIN Plain, v \in Startups :
                  v[1] = session /\ Plain[i] \in proxyMap => i < step'[v[1]]
           /\ \A i \in DOMAIN toClient, n \in Name : toClient[i] = Resp(n, "ok") =>
                  /\ \A u \in Task : Adding(u)' => NameOf(u)' # n
                  /\ \A u \in Monitors : at'[u] = "closing" => u[2] # n
           /\ \A i \in DOMAIN toClient, k \in DOMAIN Plain, v \in Startups :
                  v[1] = session /\ toClient[i].type = "NewProxyResp"
                  /\ toClient[i].name = Plain[k] =>
                      /\ k <= step'[v[1]]
                      /\ at'[v] \in Begins => k < step'[v[1]]
<1>1. \A u \in Task : Adding(u)' => /\ Adding(u) /\ NameOf(u)' = NameOf(u)
                                    /\ NameOf(u) \in srv
  BY DEF Passes, Map, AddedHeld
<1>2. \A u \in Monitors : /\ at'[u] \in Asking => u[2] \notin proxyMap
                          /\ at'[u] = "closing" => at[u] = "closing" \/ u[2] \in proxyMap
  BY MonitorIs DEF Passes, Map, NewNames
<1>3. /\ \A v \in Startups : /\ step[v[1]] \in Nat /\ step'[v[1]] \in Nat
                             /\ step[v[1]] <= step'[v[1]]
                             /\ at'[v] \in Begins => at[v] \in Begins \/ step[v[1]] < step'[v[1]]
      /\ DOMAIN Plain \subseteq Nat
  BY StartupIs, ConfigAssumption DEF Passes, Types
<1>4. \A i \in DOMAIN Plain, v \in Startups :
          v[1] = session /\ Plain[i] \in proxyMap => i < step'[v[1]]
  <2> SUFFICES ASSUME NEW i \in DOMAIN Plain, NEW v \in Startups, v[1] = session,
                      Plain[i] \in proxyMap
               PROVE  i < step'[v[1]]
    OBVIOUS
  <2>1. i < step[v[1]]
    BY DEF Map, NewNames
  <2> QED  BY <2>1, <1>3
<1>5. \A i \in DOMAIN toClient, n \in Name : toClient[i] = Resp(n, "ok") =>
          /\ \A u \in Task : Adding(u)' => NameOf(u)' # n
          /\ \A u \in Monitors : at'[u] = "closing" => u[2] # n
  BY <1>1, <1>2 DEF Map, Granted
<1>6. \A i \in DOMAIN toClient, k \in DOMAIN Plain, v \in Startups :
          v[1] = session /\ toClient[i].type = "NewProxyResp"
          /\ toClient[i].name = Plain[k] =>
              /\ k <= step'[v[1]]
              /\ at'[v] \in Begins => k < step'[v[1]]
  <2> SUFFICES ASSUME NEW i \in DOMAIN toClient, NEW k \in DOMAIN Plain,
                      NEW v \in Startups, v[1] = session,
                      toClient[i].type = "NewProxyResp", toClient[i].name = Plain[k]
               PROVE  /\ k <= step'[v[1]]
                      /\ at'[v] \in Begins => k < step'[v[1]]
    OBVIOUS
  <2>1. k <= step[v[1]] /\ (at[v] \in Begins => k < step[v[1]])
    BY DEF Map, AskedOnce
  <2>2. k \in Nat /\ step[v[1]] \in Nat /\ step'[v[1]] \in Nat
    BY <1>3
  <2> QED  BY <2>1, <2>2, <1>3
<1> QED  BY <1>1, <1>2, <1>4, <1>5, <1>6

\* Nothing is sent, read or entered in the map.
LEMMA SilentKeeps ==
    ASSUME Types, Types', Live, Map, \A u \in Task : Passes(u),
           UNCHANGED <<session, proxyMap, srv, toClient>>, Live' => Live
    PROVE  Map'
<1>1. AddedHeld' /\ NewNames' /\ AskedOnce'
  BY Passed DEF AddedHeld, NewNames, AskedOnce
<1>2. Granted'
  BY Passed DEF Granted, Map
<1>3. NoPhantom'
  BY DEF NoPhantom, Map, Live
<1> QED  BY <1>1, <1>2, <1>3 DEF Map

\* Another task of the session that has, or asks for, the name of t is t.
LEMMA AskerIs ==
    ASSUME Types, Placed, Rested, Going, NEW t \in Task, at[t] \notin RestAt,
           t \in Startups => at[t] \in Registers,
           NEW u \in Monitors, at[u] \notin RestAt, NameOf(t) = u[2]
    PROVE  u = t
BY NameIsOwn, MonitorNames, MonitorIs

\* The name a startup registers is no monitor's, and has one place in Plain.
LEMMA PlaceIs ==
    ASSUME Types, Placed, Distinct, NEW t \in Task, at[t] \in Registers,
           NEW i \in DOMAIN Plain, Plain[i] = NameOf(t)
    PROVE  t \in Startups /\ i = step[t[1]]
<1>1. t \in Startups
  <2>1. t \in Monitors => NameOf(t) \in Health
    BY MonitorNames, MonitorIs
  <2> QED  BY <2>1, ConfigAssumption DEF Monitors
<1> QED  BY <1>1, StartupName DEF Distinct

LEMMA EntersKeeps ==
    ASSUME Types, Types', Placed, Rested, Linked, Live, Map, Distinct,
           UNCHANGED <<phase, session, linkUp>>, \A u \in Task : Passes(u),
           NEW t \in Task, Alone(t), Enters(t)
    PROVE  Map'
<1> DEFINE n == NameOf(t)
<1>1. /\ at[t] = "gotResp" /\ proxyMap' = proxyMap \cup {n}
      /\ srv' = srv /\ toClient' = toClient
  BY DEF Enters, netVars
<1>2. Going /\ at[t] \in Registers /\ at[t] \notin RestAt /\ Adding(t)
  BY <1>1 DEF Going, Live, Linked, Registers, RestAt, Adding, Accepted
<1>3. t[1] = session
  BY <1>2 DEF Rested, Resting, Going
<1>4. n \in srv
  BY <1>2 DEF Map, AddedHeld
<1>5. AddedHeld'
  BY <1>1, Passed DEF AddedHeld
<1>6. NewNames'
  <2>1. ASSUME NEW i \in DOMAIN Plain, NEW v \in Startups, v[1] = session, Plain[i] = n
        PROVE  i < step'[v[1]]
    <3>1. t \in Startups /\ i = step[t[1]] /\ v = t
      BY <1>2, <1>3, <2>1, PlaceIs, StartupIsUnique
    <3> QED  BY <3>1 DEF Enters
  <2>2. ASSUME NEW u \in Monitors, at'[u] \in Asking, u[2] = n
        PROVE  FALSE
    <3>1. u # t
      BY <2>2 DEF Enters
    <3>2. at[u] \in Asking /\ at[u] \notin RestAt
      BY <2>2, <3>1, MonitorIs DEF Alone, Asking, RestAt
    <3> QED  BY <1>2, <2>2, <3>1, <3>2, AskerIs
  <2> QED  BY <1>1, <2>1, <2>2, Passed DEF NewNames
<1>7. Granted'
  <2>1. \A i \in DOMAIN toClient, m \in Name : toClient[i] = Resp(m, "ok") => m # n
    BY <1>2 DEF Map, Granted
  <2> QED  BY <1>1, <2>1, Passed DEF Granted, Map
<1>8. AskedOnce'
  BY <1>1, Passed DEF AskedOnce
<1>9. NoPhantom'
  BY <1>1, <1>4 DEF NoPhantom, Map, Live
<1> QED  BY <1>5, <1>6, <1>7, <1>8, <1>9 DEF Map

\* The server takes the proxy, or refuses it, and answers.
LEMMA WriteKeeps ==
    ASSUME WInv, Types', Placed, Rested, Linked, Live, Map, Distinct,
           UNCHANGED <<phase, session, linkUp>>, \A u \in Task : Passes(u),
           NEW t \in Task, Alone(t), WriteOk(t)
    PROVE  Map'
<1> DEFINE n == NameOf(t)
           z == Len(toClient) + 1
<1>0. Types
  BY DEF WInv
<1>1. /\ at[t] = "writing" /\ at' = [at EXCEPT ![t] = "awaiting"]
      /\ UNCHANGED <<answer, step, proxyMap>>
      /\ \/ n \notin srv /\ srv' = srv \cup {n} /\ toClient' = Append(toClient, Resp(n, "ok"))
         \/ srv' = srv /\ toClient' = Append(toClient, Resp(n, "error"))
  BY DEF WriteOk, Goto, Live
<1>2. Going /\ at[t] \in Registers /\ at[t] \notin RestAt /\ n \in Name
  BY <1>1 DEF Going, Live, Linked, Registers, NamedAt, Wait, RestAt, WInv, Named
<1>3. t[1] = session /\ at'[t] = "awaiting"
  BY <1>1, <1>2 DEF Rested, Resting, Going, WInv, Types
<1>4. PICK how \in {"ok", "error"} : toClient' = Append(toClient, Resp(n, how))
  BY <1>1
<1>5. Resp(n, how) \in Msg /\ toClient \in Seq(Msg)
  BY <1>2 DEF Resp, Msg, WInv, Types
<1> HIDE DEF n, z
<1>6. /\ \A i \in DOMAIN toClient : i \in DOMAIN toClient' /\ toClient'[i] = toClient[i]
      /\ \A i \in DOMAIN toClient' : \/ i \in DOMAIN toClient /\ toClient'[i] = toClient[i]
                                     \/ i = z /\ toClient'[i] = Resp(n, how)
  BY <1>4, <1>5, AppendAt DEF z
<1>7. srv \subseteq srv' /\ (how = "ok" => n \in srv')
  <2>1. Resp(n, "ok") # Resp(n, "error")
    BY DEF Resp
  <2>2. toClient'[z] = Resp(n, how) /\ (toClient' = Append(toClient, Resp(n, "error"))
                                          => toClient'[z] = Resp(n, "error"))
    <3>1. Resp(n, "error") \in Msg
      BY <1>2 DEF Resp, Msg
    <3> QED  BY <1>4, <1>5, <3>1, AppendAt DEF z
  <2> QED  BY <1>1, <2>1, <2>2 DEF n
<1>8. how = "ok" => n \notin srv
  <2>1. Resp(n, "ok") # Resp(n, "error")
    BY DEF Resp
  <2>2. toClient'[z] = Resp(n, how) /\ (toClient' = Append(toClient, Resp(n, "error"))
                                          => toClient'[z] = Resp(n, "error"))
    <3>1. Resp(n, "error") \in Msg
      BY <1>2 DEF Resp, Msg
    <3> QED  BY <1>4, <1>5, <3>1, AppendAt DEF z
  <2> QED  BY <1>1, <2>1, <2>2 DEF n
<1>9. n \notin proxyMap
  <2>1. CASE t \in Monitors
    BY <1>1, <2>1, MonitorNames DEF Map, NewNames, Asking, n
  <2>2. CASE t \in Startups
    <3>1. step[t[1]] \in DOMAIN Plain /\ n = Plain[step[t[1]]] /\ step[t[1]] \in Nat
      BY <1>0, <1>2, <2>2, StartupName, StartupIs DEF n, Types
    <3>2. n \in proxyMap => step[t[1]] < step[t[1]]
      BY <1>3, <2>2, <3>1 DEF Map, NewNames
    <3> QED  BY <3>1, <3>2
  <2> QED  BY <2>1, <2>2 DEF Monitors
<1>10. AddedHeld' /\ NewNames'
  BY <1>0, <1>1, <1>7, Passed DEF AddedHeld, NewNames
<1>11. Granted'
  <2> SUFFICES ASSUME NEW i \in DOMAIN toClient', NEW m \in Name,
                      toClient'[i] = Resp(m, "ok")
               PROVE  /\ m \in srv' /\ m \notin proxyMap'
                      /\ \A j \in DOMAIN toClient' : toClient'[j] = Resp(m, "ok") => i = j
                      /\ \A u \in Task : Adding(u)' => NameOf(u)' # m
                      /\ \A u \in Monitors : at'[u] = "closing" => u[2] # m
    BY DEF Granted
  <2>0. \A h : Resp(n, h) = Resp(m, "ok") => n = m /\ h = "ok"
    BY DEF Resp
  <2>1. CASE i \in DOMAIN toClient /\ toClient'[i] = toClient[i]
    <3>1. m \in srv /\ m \notin proxyMap
      BY <2>1 DEF Map, Granted
    <3>2. ASSUME NEW j \in DOMAIN toClient', toClient'[j] = Resp(m, "ok") PROVE i = j
      <4>1. CASE j \in DOMAIN toClient /\ toClient'[j] = toClient[j]
        BY <2>1, <3>2, <4>1 DEF Map, Granted
      <4>2. CASE j = z /\ toClient'[j] = Resp(n, how)
        BY <1>8, <2>0, <3>1, <3>2, <4>2
      <4> QED  BY <1>6, <4>1, <4>2
    <3> QED  BY <1>0, <1>1, <1>7, <2>1, <3>1, <3>2, Passed
  <2>2. CASE i = z /\ toClient'[i] = Resp(n, how)
    <3>1. m = n /\ how = "ok"
      BY <2>0, <2>2
    <3>2. ASSUME NEW j \in DOMAIN toClient', toClient'[j] = Resp(m, "ok") PROVE i = j
      <4>1. CASE j \in DOMAIN toClient /\ toClient'[j] = toClient[j]
        BY <1>8, <3>1, <3>2, <4>1 DEF Map, Granted
      <4> QED  BY <1>6, <2>2, <4>1
    <3>3. \A u \in Task : Adding(u)' => NameOf(u)' # m
      BY <1>0, <1>8, <3>1, Passed
    <3>4. ASSUME NEW u \in Monitors, at'[u] = "closing" PROVE u[2] # m
      <4>1. CASE u[2] \in proxyMap
        BY <1>9, <3>1, <4>1
      <4>2. CASE at[u] = "closing"
        <5>1. u # t /\ at[u] \notin RestAt
          BY <1>1, <4>2 DEF RestAt
        <5> QED  BY <1>0, <1>2, <3>1, <5>1, AskerIs DEF n
      <4> QED  BY <1>0, <3>4, <4>1, <4>2, Passed
    <3> QED  BY <1>1, <1>7, <1>9, <3>1, <3>2, <3>3, <3>4
  <2> QED  BY <1>6, <2>1, <2>2
<1>12. AskedOnce'
  <2> SUFFICES ASSUME NEW i \in DOMAIN toClient', NEW k \in DOMAIN Plain,
                      NEW v \in Startups, v[1] = session,
                      toClient'[i].type = "NewProxyResp", toClient'[i].name = Plain[k]
               PROVE  /\ k <= step'[v[1]]
                      /\ at'[v] \in Begins => k < step'[v[1]]
    BY DEF AskedOnce
  <2>1. CASE i \in DOMAIN toClient /\ toClient'[i] = toClient[i]
    BY <1>0, <2>1, Passed
  <2>2. CASE toClient'[i] = Resp(n, how)
    <3>1. Plain[k] = n
      BY <2>2 DEF Resp
    <3>2. t \in Startups /\ k = step[t[1]] /\ v = t
      BY <1>0, <1>2, <1>3, <3>1, PlaceIs, StartupIsUnique DEF n
    <3>3. k = step'[v[1]] /\ k \in Nat /\ at'[v] \notin Begins
      BY <1>1, <1>3, <3>2, StartupIs DEF Begins, WInv, Types
    <3> QED  BY <3>3
  <2> QED  BY <1>6, <2>1, <2>2
<1>13. NoPhantom'
  BY <1>1, <1>6, <1>7 DEF NoPhantom, Map, Live
<1> QED  BY <1>10, <1>11, <1>12, <1>13 DEF Map

LEMMA CloseKeeps ==
    ASSUME Types, Types', Placed, Rested, Linked, Live, Map,
           UNCHANGED <<phase, session, linkUp>>, \A u \in Task : Passes(u),
           NEW t \in Monitors, Alone(t), CloseWritten(t)
    PROVE  Map'
<1> DEFINE n == t[2]
<1>1. /\ at[t] = "closing" /\ srv' = srv \ {n} /\ proxyMap' = proxyMap \ {n}
      /\ toClient' = toClient
  BY DEF CloseWritten
<1>2. t \in Task /\ Going /\ at[t] \notin RestAt /\ NameOf(t) = n /\ t \notin Startups
  BY <1>1, MonitorIs, MonitorNames DEF Going, Live, Linked, RestAt
<1>3. AddedHeld'
  <2>1. ASSUME NEW u \in Task, Adding(u), NameOf(u) = n PROVE FALSE
    <3>1. at[u] \in Registers /\ at[u] \notin RestAt /\ u # t
      BY <1>1, <2>1 DEF Adding, Accepted, Wait, Registers, NamedAt, RestAt
    <3> QED  BY <1>2, <2>1, <3>1, NameIsOwn
  <2> QED  BY <1>1, <2>1, Passed DEF AddedHeld
<1>4. NewNames' /\ AskedOnce'
  BY <1>1, Passed DEF NewNames, AskedOnce
<1>5. Granted'
  <2>1. \A i \in DOMAIN toClient, m \in Name : toClient[i] = Resp(m, "ok") => m # n
    BY <1>1 DEF Map, Granted
  <2> QED  BY <1>1, <2>1, Passed DEF Granted, Map
<1>6. NoPhantom'
  BY <1>1 DEF NoPhantom, Map, Live
<1> QED  BY <1>3, <1>4, <1>5, <1>6 DEF Map

\* What the read loop has not read yet is what it finds next.
LEMMA TailKeeps ==
    ASSUME WInv, Live, Map,
           toClient # <<>>, toClient' = Tail(toClient),
           UNCHANGED <<session, srv, at, step>>, proxyMap' \subseteq proxyMap,
           \A u \in Task : Adding(u)' => Adding(u) \/ toClient[1] = Resp(NameOf(u), "ok"),
           \A n \in proxyMap' : toClient[1] # Close(n)
    PROVE  Map'
<1>1. /\ \A i \in DOMAIN toClient' : /\ i \in Nat /\ i + 1 \in DOMAIN toClient /\ i + 1 # 1
                                     /\ toClient'[i] = toClient[i + 1]
      /\ \A i \in DOMAIN toClient : i # 1 => /\ i - 1 \in DOMAIN toClient'
                                             /\ toClient'[i - 1] = toClient[i]
      /\ 1 \in DOMAIN toClient
  BY TailAt, FirstIs DEF WInv, Types
<1>2. \A u \in Task : NameOf(u)' = NameOf(u)
  BY DEF NameOf
<1>3. ASSUME NEW u \in Task, Adding(u)', ~Adding(u)
      PROVE  /\ NameOf(u) \in Name /\ NameOf(u) \in srv
             /\ toClient[1] = Resp(NameOf(u), "ok")
  <2>1. toClient[1] = Resp(NameOf(u), "ok")
    BY <1>3
  <2>2. NameOf(u) \in Name
    BY <1>3 DEF Adding, Accepted, WInv, Named, NamedAt
  <2> QED  BY <1>1, <2>1, <2>2 DEF Map, Granted
<1>4. AddedHeld'
  BY <1>2, <1>3 DEF AddedHeld, Map
<1>5. NewNames'
  BY DEF NewNames, Map
<1>6. Granted'
  <2> SUFFICES ASSUME NEW i \in DOMAIN toClient', NEW n \in Name, toClient'[i] = Resp(n, "ok")
               PROVE  /\ n \in srv /\ n \notin proxyMap
                      /\ \A j \in DOMAIN toClient' : toClient'[j] = Resp(n, "ok") => i = j
                      /\ \A u \in Task : Adding(u)' => NameOf(u) # n
                      /\ \A u \in Monitors : at[u] = "closing" => u[2] # n
    BY <1>2 DEF Granted
  <2>1. /\ n \in srv /\ n \notin proxyMap
        /\ \A j \in DOMAIN toClient : toClient[j] = Resp(n, "ok") => i + 1 = j
        /\ \A u \in Task : Adding(u) => NameOf(u) # n
        /\ \A u \in Monitors : at[u] = "closing" => u[2] # n
    BY <1>1 DEF Map, Granted
  <2>2. \A j \in DOMAIN toClient' : toClient'[j] = Resp(n, "ok") => i = j
    BY <1>1, <2>1
  <2>3. \A u \in Task : Adding(u)' => NameOf(u) # n
    BY <1>1, <1>3, <2>1
  <2> QED  BY <2>1, <2>2, <2>3
<1>7. AskedOnce'
  BY <1>1 DEF AskedOnce, Map
<1>8. NoPhantom'
  <2> SUFFICES ASSUME NEW n \in proxyMap', n \notin srv
               PROVE  \E i \in DOMAIN toClient' : toClient'[i] = Close(n)
    BY DEF NoPhantom
  <2>1. PICK i \in DOMAIN toClient : toClient[i] = Close(n)
    BY DEF Map, NoPhantom, Live
  <2>2. i # 1
    BY <2>1
  <2> QED  BY <1>1, <2>1, <2>2 DEF Close
<1> QED  BY <1>4, <1>5, <1>6, <1>7, <1>8 DEF Map

LEMMA ReadKeeps ==
    ASSUME WInv, Live, Map, ReadMsg
    PROVE  Map'
<1> DEFINE m == Head(toClient)
<1>1. /\ toClient # <<>> /\ toClient' = Tail(toClient)
      /\ UNCHANGED <<session, srv, at, step>>
      /\ \/ m.type = "NewProxyResp" /\ Resolve(m) /\ UNCHANGED proxyMap
         \/ /\ m.type = "CloseProxy" /\ proxyMap' = proxyMap \ {m.name}
            /\ UNCHANGED answer
  BY DEF ReadMsg, runVars
<1>2. 1 \in DOMAIN toClient /\ m = toClient[1] /\ m \in Msg
  BY <1>1, FirstIs DEF WInv, Types
<1> HIDE DEF m
<1>3. \A n \in proxyMap' : toClient[1] # Close(n)
  BY <1>1, <1>2 DEF Close
<1>4. ASSUME NEW u \in Task, Adding(u)', ~Adding(u)
      PROVE  toClient[1] = Resp(NameOf(u), "ok")
  <2>1. answer'[u] = "ok" /\ answer[u] # "ok"
    BY <1>1, <1>4 DEF Adding, Accepted
  <2>2. Resolve(m) /\ m.type = "NewProxyResp"
    BY <1>1, <2>1
  <2>3. pending[m.name] = u /\ m.how = "ok"
    BY <2>1, <2>2 DEF Resolve
  <2>4. m.name \in Name /\ m.name = NameOf(u)
    BY <1>2, <2>3, NoTaskIsNone DEF Msg, WInv, Owners
  <2>5. m = Resp(m.name, "ok")
    BY <1>2, <2>2, <2>3 DEF Msg, Resp
  <2> QED  BY <1>2, <2>4, <2>5
<1> QED  BY <1>1, <1>3, <1>4, TailKeeps

\* The server closes a proxy it has answered for, and says so.
LEMMA ServerClosesKeeps ==
    ASSUME WInv, Types', Placed, Rested, Linked, Live, Map, ~EarlyClose,
           NEW n \in Name, ServerCloses(n)
    PROVE  Map'
<1>1. /\ n \in srv /\ n \in proxyMap /\ srv' = srv \ {n}
      /\ toClient' = Append(toClient, Close(n))
      /\ UNCHANGED <<phase, session, linkUp, at, answer, step, proxyMap>>
  BY DEF ServerCloses, runVars, connVars, regVars
<1>2. Close(n) \in Msg /\ toClient \in Seq(Msg) /\ Types
  BY DEF Close, Msg, WInv, Types
<1>3. /\ \A i \in DOMAIN toClient : i \in DOMAIN toClient' /\ toClient'[i] = toClient[i]
      /\ \A i \in DOMAIN toClient' : \/ i \in DOMAIN toClient /\ toClient'[i] = toClient[i]
                                     \/ toClient'[i] = Close(n)
      /\ \E i \in DOMAIN toClient' : toClient'[i] = Close(n)
  BY <1>1, <1>2, AppendAt
<1>4. \A u \in Task : NameOf(u)' = NameOf(u) /\ (Adding(u)' <=> Adding(u))
  BY <1>1 DEF NameOf, Adding, Accepted
<1>5. ASSUME NEW u \in Task, Adding(u) PROVE NameOf(u) # n
  <2>1. CASE u \in Monitors
    BY <1>1, <1>5, <2>1, MonitorNames DEF Map, NewNames, Adding, Accepted, Asking, Wait
  <2>2. CASE u \in Startups
    <3>1. at[u] \in Registers /\ at[u] \notin RestAt
      BY <1>5 DEF Adding, Accepted, Wait, Registers, NamedAt, RestAt
    <3>2. u[1] = session
      BY <3>1 DEF Live, Linked, Rested, Resting
    <3>3. step[u[1]] \in DOMAIN Plain /\ NameOf(u) = Plain[step[u[1]]] /\ step[u[1]] \in Nat
      BY <1>2, <2>2, <3>1, StartupName, StartupIs DEF Types
    <3>4. NameOf(u) = n => step[u[1]] < step[u[1]]
      BY <1>1, <2>2, <3>2, <3>3 DEF Map, NewNames
    <3> QED  BY <3>3, <3>4
  <2> QED  BY <2>1, <2>2 DEF Monitors
<1>6. AddedHeld'
  BY <1>1, <1>4, <1>5 DEF AddedHeld, Map
<1>7. NewNames'
  BY <1>1 DEF NewNames, Map
<1>8. Granted'
  <2>1. \A m \in Name : Close(n) # Resp(m, "ok")
    BY DEF Close, Resp
  <2> SUFFICES ASSUME NEW i \in DOMAIN toClient', NEW m \in Name,
                      toClient'[i] = Resp(m, "ok")
               PROVE  /\ m \in srv' /\ m \notin proxyMap'
                      /\ \A j \in DOMAIN toClient' : toClient'[j] = Resp(m, "ok") => i = j
                      /\ \A u \in Task : Adding(u)' => NameOf(u)' # m
                      /\ \A u \in Monitors : at'[u] = "closing" => u[2] # m
    BY DEF Granted
  <2>2. i \in DOMAIN toClient /\ toClient[i] = Resp(m, "ok")
    BY <1>3, <2>1
  <2>3. /\ m \in srv /\ m \notin proxyMap
        /\ \A j \in DOMAIN toClient : toClient[j] = Resp(m, "ok") => i = j
        /\ \A u \in Task : Adding(u) => NameOf(u) # m
        /\ \A u \in Monitors : at[u] = "closing" => u[2] # m
    BY <2>2 DEF Map, Granted
  <2>4. \A j \in DOMAIN toClient' : toClient'[j] = Resp(m, "ok") => i = j
    BY <1>3, <2>1, <2>3
  <2> QED  BY <1>1, <1>4, <2>3, <2>4
<1>9. AskedOnce'
  <2>1. Close(n).type # "NewProxyResp"
    BY DEF Close
  <2> QED  BY <1>1, <1>3, <2>1 DEF AskedOnce, Map
<1>10. NoPhantom'
  BY <1>1, <1>3 DEF NoPhantom, Map, Live
<1> QED  BY <1>6, <1>7, <1>8, <1>9, <1>10 DEF Map

\* A failing read rejects the waiters, which starts nothing.
LEMMA RejectPasses ==
    ASSUME Types, UNCHANGED <<at, step>>, RejectPending \/ UNCHANGED answer
    PROVE  \A u \in Task : Passes(u)
<1>1. \A u \in Task : answer'[u] = answer[u] \/ answer'[u] # "ok"
  BY DEF RejectPending
<1> QED  BY <1>1, PassesBy

\* At its start a session has no proxies.
LEMMA StartKeeps ==
    ASSUME Types, Rested, Linked, Live', SessionStarts
    PROVE  Map'
<1>1. /\ phase = "crypto" /\ proxyMap' = {} /\ UNCHANGED <<session, linkUp, srv, toClient>>
      /\ \E to \in {"onLogin", "register"} : at' = [at EXCEPT ![<<session, "startup">>] = to]
      /\ UNCHANGED stopped
  BY DEF SessionStarts, Goto, netVars
<1>2. toClient' = <<>> /\ ~stopped
  BY <1>1 DEF Linked, Live
<1>3. \A u \in Task : at[u] \in RestAt
  BY <1>1, <1>2 DEF Rested, Resting, Between
<1>4. \A u \in Task : at'[u] = at[u] \/ at'[u] \in {"onLogin", "register"}
  BY <1>1 DEF Types
<1>5. \A u \in Task : ~Adding(u)'
  BY <1>3, <1>4 DEF Adding, Accepted, Wait, RestAt
<1>6. DOMAIN toClient' = {}
  BY <1>2
<1> QED
  BY <1>1, <1>5, <1>6 DEF Map, AddedHeld, NewNames, Granted, AskedOnce, NoPhantom

LEMMA MapStep ==
    ASSUME WInv, WInv', Bounded, Bounded', Rested, Linked, Map, Distinct, ~EarlyClose,
           [Next]_vars
    PROVE  Map'
<1> SUFFICES ASSUME Live' PROVE Map'
  BY DEF Map, AddedHeld, NewNames, Granted, AskedOnce, NoPhantom, Live
<1>0. Types /\ Types' /\ Placed /\ linkUp \in BOOLEAN /\ linkUp' \in BOOLEAN
  BY DEF WInv, Bounded, ConnTypes
<1>1. CASE SessionStarts
  BY <1>0, <1>1, StartKeeps
<1>2. ASSUME NEW t \in Task, Acts(t) PROVE Map'
  <2>1. UNCHANGED <<phase, stopped, session>> /\ (linkUp' = linkUp \/ Spoil)
    BY <1>2, TaskFields DEF Acts, TaskOnly, runVars
  <2>2. linkUp' => linkUp
    <3>1. CASE Spoil
      BY <3>1, Zenon DEF Spoil
    <3> QED  BY <2>1, <3>1
  <2>3. Live /\ Going /\ linkUp' = linkUp
    BY <1>0, <2>1, <2>2 DEF Live, Going, Linked
  <2>4. \A u \in Task : Passes(u)
    BY <1>0, <1>2, <2>3, PassesAll
  <2>5. CASE UNCHANGED <<proxyMap, srv, toClient>>
    BY <1>0, <2>1, <2>3, <2>4, <2>5, SilentKeeps
  <2>6. CASE ~UNCHANGED <<proxyMap, srv, toClient>>
    <3>1. \/ Enters(t)
          \/ WriteOk(t)
          \/ t \in Monitors /\ CloseWritten(t)
      BY <1>0, <1>2, <2>6, ActsOnMap
    <3>2. ~(t \in Startups /\ MonitorsStart(t))
      BY <3>1, MonitorIs DEF MonitorsStart, Enters, WriteOk
    <3>3. Alone(t)
      BY <1>0, <1>2, <3>2, ActsAlone
    <3> QED
      BY <1>0, <2>1, <2>3, <2>4, <3>1, <3>3, EntersKeeps, WriteKeeps, CloseKeeps
  <2> QED  BY <2>5, <2>6
<1>3. CASE ReadMsg
  <2>1. Live
    BY <1>3 DEF ReadMsg, runVars, connVars, Live
  <2> QED  BY <1>3, <2>1, ReadKeeps
<1>4. ASSUME NEW n \in Name, ServerCloses(n) PROVE Map'
  <2>1. Live
    BY <1>4 DEF ServerCloses, runVars, connVars, Live
  <2> QED  BY <1>0, <1>4, <2>1, ServerClosesKeeps
<1>5. CASE ReaderClosed \/ ReaderBroken \/ HeartbeatFails \/ UNCHANGED vars
  <2>1. /\ UNCHANGED <<phase, session, linkUp, proxyMap, srv, toClient, at, step>>
        /\ RejectPending \/ UNCHANGED answer
    BY <1>5 DEF ReaderClosed, ReaderBroken, ReadLoopFails, HeartbeatFails, vars, runVars,
                connVars, regVars, netVars
  <2>2. Live /\ \A u \in Task : Passes(u)
    BY <1>0, <2>1, RejectPasses DEF Live
  <2> QED  BY <1>0, <2>1, <2>2, SilentKeeps
<1>6. LinkLost \/ SetupFails \/ SessionEnds \/ Stop => ~linkUp'
  BY DEF LinkLost, SetupFails, SessionEnds, Stop, Teardown, CloseTransport
<1>7. DialFails \/ DialTooLate \/ ReconnectHook \/ Run \/ DialOk \/ LoginOk \/ Wake
        => phase' # "up"
  BY DEF DialFails, DialTooLate, ReconnectHook, Run, DialOk, LoginOk, Wake, Retry
<1> QED
  BY <1>1, <1>2, <1>3, <1>4, <1>5, <1>6, <1>7
      DEF Next, ReadRejects, ConnectReturns, RunEvent, Acts, Live

LEMMA CalmStart == ASSUME Init PROVE CInv
<1>1. /\ phase = "idle" /\ srv = {} /\ toClient = <<>> /\ ~linkUp /\ ~stopped
      /\ reader = "off" /\ \A t \in Task : at[t] = "none"
  BY DEF Init
<1>2. \A t \in Startups : t \in Task
  BY StartupIs
<1> QED
  BY <1>1, <1>2, MonitorIs
     DEF CInv, Rested, Monitored, Linked, Told, Doomed, Unanswered, Resting, RestAt, HookAt,
         Map, AddedHeld, NewNames, Granted, AskedOnce, NoPhantom, Live

LEMMA CalmStep ==
    ASSUME Calm, WInv, WInv', Fresh, Bounded, Bounded', NothingHeld, CInv, [Next]_vars
    PROVE  CInv'
<1>1. Types /\ Placed /\ ConnTypes /\ MonTypes /\ ~SlowHooks /\ ~EarlyClose /\ Distinct
  BY DEF WInv, Bounded, Calm
<1>2. Rested' /\ Linked'
  BY <1>1, RestedStep, LinkedStep DEF CInv
<1>3. Monitored'
  BY <1>1, MonitoredStep DEF CInv, MonTypes
<1>4. Told' /\ Doomed'
  BY <1>1, ToldStep, DoomedStep DEF CInv
<1>5. Unanswered'
  BY <1>1, UnansweredStep DEF CInv, Map
<1>6. Map'
  BY <1>1, MapStep DEF CInv
<1> QED  BY <1>2, <1>3, <1>4, <1>5, <1>6 DEF CInv

LEMMA CalmAlways == ASSUME Calm PROVE Safety => []CInv
<1>1. Init => CInv
  BY CalmStart
<1>2. /\ WInv /\ Fresh /\ Bounded /\ NothingHeld /\ CInv /\ [Next]_vars
      /\ (WInv /\ Fresh /\ Bounded)'
      => CInv'
  BY CalmStep
<1> QED  BY <1>1, <1>2, BoundedAlways, Held, PTL DEF Safety

\* Whatever is lost, refused, closed or late, and whatever tasks an ended session
\* leaves behind, every proxy in the map of a live session is one the server
\* holds, or the news of its closing is on the way.
THEOREM NoPhantoms == Calm => (Safety => []NoPhantom)
<1> SUFFICES ASSUME Calm PROVE Safety => []NoPhantom
  OBVIOUS
<1>1. CInv => NoPhantom
  BY DEF CInv, Map
<1> QED  BY <1>1, CalmAlways, PTL
-----------------------------------------------------------------------------
(* Agreement.  What NoPhantom leaves open is a proxy the server holds and the *)
(* client does not: somebody must still be going to enter it.                *)

\* An answer that is on its way finds a waiter, the one that asked.
Awaited ==
    Live /\ ~readErr =>
        \A i \in DOMAIN toClient : toClient[i].type = "NewProxyResp" =>
            /\ pending[toClient[i].name] # NoTask
            /\ at[pending[toClient[i].name]] = "awaiting"
            /\ \A j \in DOMAIN toClient :
                   /\ toClient[j].type = "NewProxyResp"
                   /\ toClient[j].name = toClient[i].name
                   => i = j
Writers == Live /\ ~readErr =>
               \A t \in Task : at[t] = "writing" => answer[t] = "none"

\* A proxy that was closed and is held again was accepted again.
ClosedFirst ==
    Live => \A i \in DOMAIN toClient, n \in Name :
        toClient[i].type = "CloseProxy" /\ toClient[i].name = n /\ n \in srv =>
            \E j \in DOMAIN toClient : j > i /\ toClient[j] = Resp(n, "ok")

\* What the server holds is in the map, or a task is about to enter it, or the
\* answer that will make it do so is on its way.
Claimed ==
    Live => \A n \in srv :
        \/ n \in proxyMap
        \/ \E t \in Task : Accepted(t) /\ NameOf(t) = n
        \/ \E i \in DOMAIN toClient : toClient[i] = Resp(n, "ok")
Books == Awaited /\ Writers /\ ClosedFirst /\ Claimed

LEMMA OwnersAre ==
    ASSUME WInv, NEW n \in Name, pending[n] # NoTask
    PROVE  /\ pending[n] \in Task /\ at[pending[n]] \in Wait /\ answer[pending[n]] = "none"
           /\ NameOf(pending[n]) = n
BY DEF WInv, Types, Owners, Waiting

\* On an intact connection with a prompt server nothing but an answer takes a
\* waiter's entry: a catch finds none under its name.
LEMMA CatchTakesNone ==
    ASSUME WInv, Placed, Rested, Going, NEW t \in Task, at[t] \in NamedAt, ~Waiting(t),
           Catch(t)
    PROVE  pending' = pending
<1>1. NameOf(t) \in Name
  BY DEF WInv, Named
<1>2. pending[NameOf(t)] = NoTask
  <2> SUFFICES ASSUME pending[NameOf(t)] # NoTask PROVE FALSE
    OBVIOUS
  <2> DEFINE u == pending[NameOf(t)]
  <2>1. u \in Task /\ at[u] \in Wait /\ Waiting(u) /\ NameOf(u) = NameOf(t)
    BY <1>1, OwnersAre DEF Waiting
  <2>2. at[u] \in Registers /\ at[t] \in Registers /\ at[u] \notin RestAt /\ at[t] \notin RestAt
    BY <2>1 DEF Registers, NamedAt, Wait, RestAt
  <2> HIDE DEF u
  <2>3. u = t
    BY <2>1, <2>2, NameIsOwn DEF WInv
  <2> QED  BY <2>1, <2>3
<1>3. pending' = [pending EXCEPT ![NameOf(t)] = NoTask]
  BY DEF Catch
<1> QED  BY <1>1, <1>2, <1>3 DEF WInv, Types

LEMMA EntriesStay ==
    ASSUME WInv, Placed, Rested, Going, linkUp, ~LateAnswers, NEW t \in Task, Acts(t),
           NEW n \in Name, pending[n] # NoTask
    PROVE  pending'[n] = pending[n]
<1>1. CASE pending' = pending
  BY <1>1
<1>2. CASE Register(t)
  <2>1. \/ pending' = pending
        \/ /\ pending[NameOf(t)] = NoTask
           /\ pending' = [pending EXCEPT ![NameOf(t)] = t]
    BY <1>2 DEF Register
  <2> QED  BY <2>1 DEF WInv, Types
<1>3. Answered(t) \/ HookThrows(t)
        => pending' = pending \/ (at[t] \in NamedAt /\ ~Waiting(t) /\ Catch(t))
  BY DEF Answered, HookThrows, NamedAt, Wait, Waiting
<1>4. ~WriteFails(t) /\ ~RespTimeout(t)
  BY DEF WriteFails, RespTimeout
<1>5. VisitorsBegin(t) \/ VisitorListens(t) \/ StartupContinues(t) \/ MonitorsStart(t)
        \/ MonitorContinues(t) => pending' = pending
  BY DEF VisitorsBegin, VisitorListens, StartupContinues, MonitorsStart, MonitorContinues
<1>6. WriteOk(t) \/ HookReturns(t) \/ VisitorReady(t) \/ VisitorFails(t)
        => pending' = pending
  BY DEF WriteOk, HookReturns, VisitorReady, VisitorFails
<1>7. Tick(t) \/ CheckOk(t) \/ CheckFails(t) \/ CloseWritten(t) \/ CloseWriteFails(t)
        => pending' = pending
  BY DEF Tick, CheckOk, CheckFails, CloseWritten, CloseWriteFails
<1> QED
  BY <1>1, <1>2, <1>3, <1>4, <1>5, <1>6, <1>7, CatchTakesNone
     DEF Acts, RunOn, WakeUp, Event

\* Starting the monitors of a session moves no task that has begun.
LEMMA StartsNone ==
    ASSUME WInv, NEW t \in Startups, MonitorsStart(t), NEW u \in Task, u # t,
           at[u] # "none"
    PROVE  at'[u] = at[u]
<1>1. at[t] # "done"
  BY DEF MonitorsStart
<1>2. ASSUME u[1] = t[1] PROVE FALSE
  <2>1. u \in Monitors
    BY <1>2, StartupIsUnique DEF Monitors
  <2> QED  BY <1>1, <1>2, <2>1 DEF WInv, Later
<1> QED  BY <1>2 DEF MonitorsStart

LEMMA OtherStays ==
    ASSUME WInv, NEW t \in Task, Acts(t), NEW u \in Task, u # t, at[u] # "none"
    PROVE  at'[u] = at[u]
BY ActsAlone, StartsNone DEF WInv, Alone

LEMMA NameStays ==
    ASSUME WInv, NEW t \in Task, Acts(t), NEW u \in Task, u # t
    PROVE  NameOf(u)' = NameOf(u)
<1>1. CASE u \notin Startups
  BY <1>1 DEF Startups, NameOf
<1>2. CASE u \in Startups
  <2>1. step'[u[1]] = step[u[1]]
    BY <1>2, StartupIs, StartupIsUnique, StepsAlone DEF WInv
  <2> QED  BY <1>2, <2>1 DEF NameOf
<1> QED  BY <1>1, <1>2

\* A waiter whose promise is open can do nothing about it.
LEMMA AwaitingStays ==
    ASSUME WInv, linkUp, ~LateAnswers, NEW t \in Task, Acts(t),
           NEW u \in Task, at[u] = "awaiting", answer[u] = "none"
    PROVE  at'[u] = "awaiting"
<1>1. CASE u # t
  BY <1>1, OtherStays
<1>2. CASE u = t
  <2>1. ~Register(t) /\ ~VisitorsBegin(t) /\ ~VisitorListens(t) /\ ~StartupContinues(t)
        /\ ~MonitorsStart(t) /\ ~MonitorContinues(t)
    BY <1>2 DEF Register, VisitorsBegin, VisitorListens, StartupContinues, MonitorsStart,
                MonitorContinues
  <2>2. ~Answered(t) /\ ~WriteOk(t) /\ ~WriteFails(t) /\ ~RespTimeout(t) /\ ~HookReturns(t)
        /\ ~HookThrows(t) /\ ~VisitorReady(t) /\ ~VisitorFails(t)
    BY <1>2 DEF Answered, WriteOk, WriteFails, RespTimeout, HookReturns, HookThrows,
                VisitorReady, VisitorFails
  <2>3. ~Tick(t) /\ ~CheckOk(t) /\ ~CheckFails(t) /\ ~CloseWritten(t) /\ ~CloseWriteFails(t)
    BY <1>2 DEF Tick, CheckOk, CheckFails, CloseWritten, CloseWriteFails
  <2> QED  BY <2>1, <2>2, <2>3 DEF Acts, RunOn, WakeUp, Event
<1> QED  BY <1>1, <1>2

\* A registration the server accepted goes on to the map.
LEMMA AcceptedActs ==
    ASSUME WInv, linkUp, ~LateAnswers, "onProxyRegister" \notin Hooks,
           NEW t \in Task, Acts(t), Accepted(t)
    PROVE  \/ Accepted(t)' /\ NameOf(t)' = NameOf(t)
           \/ NameOf(t) \in proxyMap'
<1> USE DEF Wait
<1>0. Types /\ at[t] \in {"gotResp", "writing", "awaiting"}
      /\ (at[t] # "gotResp" => answer[t] = "ok")
  BY DEF WInv, Accepted
<1>1. CASE Answered(t)
  <2>1. at' = [at EXCEPT ![t] = "gotResp"] /\ step' = step
    BY <1>0, <1>1 DEF Answered, Goto
  <2>2. at'[t] = "gotResp"
    BY <1>0, <2>1 DEF Types
  <2> QED  BY <2>1, <2>2 DEF Accepted, NameOf
<1>2. CASE WriteOk(t)
  <2>1. at[t] = "writing" /\ at' = [at EXCEPT ![t] = "awaiting"] /\ UNCHANGED <<answer, step>>
    BY <1>2 DEF WriteOk, Goto
  <2>2. at'[t] = "awaiting" /\ answer'[t] = "ok"
    BY <1>0, <2>1 DEF Types
  <2> QED  BY <2>1, <2>2 DEF Accepted, NameOf
<1>3. CASE t \in Startups /\ StartupContinues(t)
  BY <1>0, <1>3 DEF StartupContinues
<1>4. CASE t \in Monitors /\ MonitorContinues(t)
  BY <1>0, <1>4, MonitorNames DEF MonitorContinues
<1>5. ~Register(t) /\ ~VisitorsBegin(t) /\ ~VisitorListens(t) /\ ~MonitorsStart(t)
  BY <1>0 DEF Register, VisitorsBegin, VisitorListens, MonitorsStart
<1>6. ~WriteFails(t) /\ ~RespTimeout(t) /\ ~HookReturns(t)
      /\ ~HookThrows(t) /\ ~VisitorReady(t) /\ ~VisitorFails(t)
  BY <1>0 DEF WriteFails, RespTimeout, HookReturns, HookThrows, VisitorReady, VisitorFails
<1>7. ~Tick(t) /\ ~CheckOk(t) /\ ~CheckFails(t) /\ ~CloseWritten(t) /\ ~CloseWriteFails(t)
  BY <1>0 DEF Tick, CheckOk, CheckFails, CloseWritten, CloseWriteFails
<1> QED  BY <1>1, <1>2, <1>3, <1>4, <1>5, <1>6, <1>7 DEF Acts, RunOn, WakeUp, Event

\* What a task sends is its own question's answer, and what it does not take
\* from the server stays there.
LEMMA ActsSends ==
    ASSUME Types, linkUp, NEW t \in Task, Acts(t)
    PROVE  \/ WriteOk(t)
           \/ /\ toClient' = toClient /\ proxyMap \subseteq proxyMap' /\ srv' = srv
           \/ /\ t \in Monitors /\ toClient' = toClient
              /\ srv' = srv \ {t[2]} /\ proxyMap' = proxyMap \ {t[2]}
<1>1. Enters(t) => toClient' = toClient /\ proxyMap \subseteq proxyMap' /\ srv' = srv
  BY DEF Enters, netVars
<1>2. CloseWritten(t) => /\ toClient' = toClient
                         /\ srv' = srv \ {t[2]} /\ proxyMap' = proxyMap \ {t[2]}
  BY DEF CloseWritten
<1> QED  BY <1>1, <1>2, ActsOnMap

LEMMA Writes ==
    ASSUME WInv, linkUp, NEW t \in Task, WriteOk(t)
    PROVE  \E how \in {"ok", "error"} :
               LET n == NameOf(t)
                   z == Len(toClient) + 1
               IN  /\ n \in Name /\ toClient' = Append(toClient, Resp(n, how))
                   /\ srv' = IF how = "ok" THEN srv \cup {n} ELSE srv
                   /\ UNCHANGED <<pending, answer, step, proxyMap>>
                   /\ at[t] = "writing" /\ at' = [at EXCEPT ![t] = "awaiting"]
                   /\ \A i \in DOMAIN toClient : /\ i \in DOMAIN toClient' /\ i < z
                                                 /\ toClient'[i] = toClient[i]
                   /\ \A i \in DOMAIN toClient' :
                          \/ i \in DOMAIN toClient /\ toClient'[i] = toClient[i]
                          \/ i = z /\ toClient'[i] = Resp(n, how)
                   /\ z \in DOMAIN toClient' /\ toClient'[z] = Resp(n, how)
<1> DEFINE n == NameOf(t)
<1>1. /\ at[t] = "writing" /\ at' = [at EXCEPT ![t] = "awaiting"]
      /\ UNCHANGED <<pending, answer, step, proxyMap>>
      /\ \/ srv' = srv \cup {n} /\ toClient' = Append(toClient, Resp(n, "ok"))
         \/ srv' = srv /\ toClient' = Append(toClient, Resp(n, "error"))
  BY DEF WriteOk, Goto
<1>2. n \in Name /\ toClient \in Seq(Msg)
  BY <1>1 DEF WInv, Named, NamedAt, Wait, Types
<1>3. Resp(n, "ok") \in Msg /\ Resp(n, "error") \in Msg
  BY <1>2 DEF Resp, Msg
<1>4. PICK how \in {"ok", "error"} : /\ srv' = IF how = "ok" THEN srv \cup {n} ELSE srv
                                     /\ toClient' = Append(toClient, Resp(n, how))
  BY <1>1
<1>5. Resp(n, how) \in Msg
  BY <1>3
<1> HIDE DEF n
<1>6. LET z == Len(toClient) + 1
      IN  /\ \A i \in DOMAIN toClient : /\ i \in DOMAIN toClient' /\ i < z
                                        /\ toClient'[i] = toClient[i]
          /\ \A i \in DOMAIN toClient' :
                 \/ i \in DOMAIN toClient /\ toClient'[i] = toClient[i]
                 \/ i = z /\ toClient'[i] = Resp(n, how)
          /\ z \in DOMAIN toClient' /\ toClient'[z] = Resp(n, how)
  BY <1>2, <1>4, <1>5, AppendAt
<1> QED  BY <1>1, <1>2, <1>4, <1>6 DEF n

LEMMA BooksActs ==
    ASSUME WInv, WInv', Placed, Rested, Linked, Live, Books, ~LateAnswers,
           "onProxyRegister" \notin Hooks,
           UNCHANGED <<phase, session, linkUp, readErr>>, NEW t \in Task, Acts(t)
    PROVE  Books'
<1>1. Types /\ Going /\ linkUp
  BY DEF WInv, Live, Going, Linked
<1>2. Writers'
  <2> SUFFICES ASSUME ~readErr, NEW u \in Task, at'[u] = "writing" PROVE answer'[u] = "none"
    BY DEF Writers
  <2>1. CASE u = t
    BY <1>1, <2>1, ActsTo
  <2>2. CASE u # t
    <3>1. at[u] = "writing"
      <4>1. MonitorsStart(t) => at'[u] = at[u] \/ at'[u] \in {"timer", "done"}
        BY DEF MonitorsStart
      <4> QED  BY <1>1, <2>2, <4>1, ActsAlone DEF Alone
    <3> QED  BY <1>1, <2>2, <3>1, ActsAnswers DEF Books, Writers
  <2> QED  BY <2>1, <2>2
<1>3. Awaited'
  <2> SUFFICES ASSUME ~readErr, NEW i \in DOMAIN toClient',
                      toClient'[i].type = "NewProxyResp"
               PROVE  /\ pending'[toClient'[i].name] # NoTask
                      /\ at'[pending'[toClient'[i].name]] = "awaiting"
                      /\ \A j \in DOMAIN toClient' :
                             /\ toClient'[j].type = "NewProxyResp"
                             /\ toClient'[j].name = toClient'[i].name
                             => i = j
    BY DEF Awaited
  <2>1. ASSUME NEW k \in DOMAIN toClient, toClient[k].type = "NewProxyResp"
        PROVE  LET n == toClient[k].name
               IN  pending[n] # NoTask /\ pending'[n] # NoTask /\ at[pending[n]] = "awaiting"
                   /\ pending'[n] = pending[n] /\ at'[pending[n]] = "awaiting"
    <3> DEFINE n == toClient[k].name
    <3>1. n \in Name
      <4>1. toClient[k] \in Msg
        BY <1>1 DEF Types
      <4> QED  BY <4>1 DEF Msg
    <3>2. pending[n] # NoTask /\ at[pending[n]] = "awaiting"
      BY <2>1 DEF Books, Awaited
    <3>3. pending'[n] = pending[n]
      BY <1>1, <3>1, <3>2, EntriesStay
    <3>4. at'[pending[n]] = "awaiting"
      BY <1>1, <3>1, <3>2, OwnersAre, AwaitingStays
    <3> QED  BY <3>2, <3>3, <3>4
  <2>2. CASE toClient' = toClient
    BY <2>1, <2>2 DEF Books, Awaited
  <2>3. CASE WriteOk(t)
    <3> DEFINE n == NameOf(t)
               z == Len(toClient) + 1
    <3>1. PICK how \in {"ok", "error"} :
              /\ n \in Name /\ pending' = pending /\ at[t] = "writing"
              /\ at' = [at EXCEPT ![t] = "awaiting"]
              /\ \A k \in DOMAIN toClient' :
                     \/ k \in DOMAIN toClient /\ toClient'[k] = toClient[k]
                     \/ k = z /\ toClient'[k] = Resp(n, how)
      BY <1>1, <2>3, Writes
    <3>2. answer[t] = "none"
      BY <3>1 DEF Books, Writers
    <3>3. pending[n] = t /\ t # NoTask
      BY <3>1, <3>2, NoTaskIsNone DEF WInv, Entries, Waiting, Wait
    <3>4. at'[t] = "awaiting"
      BY <1>1, <3>1 DEF Types
    <3> HIDE DEF n, z
    <3>5. \A k \in DOMAIN toClient : toClient[k].type = "NewProxyResp" => toClient[k].name # n
      BY <2>1, <3>1, <3>3
    <3>6. Resp(n, how).name = n
      BY DEF Resp
    <3>7. CASE i \in DOMAIN toClient /\ toClient'[i] = toClient[i]
      <4>1. \A j \in DOMAIN toClient' : /\ toClient'[j].type = "NewProxyResp"
                                        /\ toClient'[j].name = toClient'[i].name
                                        => i = j
        BY <3>1, <3>5, <3>6, <3>7 DEF Books, Awaited
      <4> QED  BY <2>1, <3>7, <4>1
    <3>8. CASE i = z /\ toClient'[i] = Resp(n, how)
      <4>1. \A j \in DOMAIN toClient' : /\ toClient'[j].type = "NewProxyResp"
                                        /\ toClient'[j].name = toClient'[i].name
                                        => i = j
        BY <3>1, <3>5, <3>6, <3>8
      <4> QED  BY <3>1, <3>3, <3>4, <3>6, <3>8, <4>1
    <3> QED  BY <3>1, <3>7, <3>8
  <2> QED  BY <1>1, <2>2, <2>3, ActsSends
<1>4. ClosedFirst'
  <2> SUFFICES ASSUME NEW i \in DOMAIN toClient', NEW n \in Name,
                      toClient'[i].type = "CloseProxy", toClient'[i].name = n, n \in srv'
               PROVE  \E j \in DOMAIN toClient' : j > i /\ toClient'[j] = Resp(n, "ok")
    BY DEF ClosedFirst
  <2>1. CASE toClient' = toClient /\ srv' \subseteq srv
    BY <2>1 DEF Books, ClosedFirst
  <2>2. CASE WriteOk(t)
    <3> DEFINE m == NameOf(t)
               z == Len(toClient) + 1
    <3>1. PICK how \in {"ok", "error"} :
              /\ srv' = IF how = "ok" THEN srv \cup {m} ELSE srv
              /\ \A k \in DOMAIN toClient : /\ k \in DOMAIN toClient' /\ k < z
                                            /\ toClient'[k] = toClient[k]
              /\ \A k \in DOMAIN toClient' :
                     \/ k \in DOMAIN toClient /\ toClient'[k] = toClient[k]
                     \/ k = z /\ toClient'[k] = Resp(m, how)
              /\ z \in DOMAIN toClient' /\ toClient'[z] = Resp(m, how)
      BY <1>1, <2>2, Writes
    <3> HIDE DEF m, z
    <3>2. Resp(m, how).type # "CloseProxy"
      BY DEF Resp
    <3>3. /\ i \in DOMAIN toClient /\ i < z
          /\ toClient[i].type = "CloseProxy" /\ toClient[i].name = n
      BY <3>1, <3>2
    <3>4. CASE n \in srv
      BY <3>1, <3>3, <3>4 DEF Books, ClosedFirst
    <3>5. CASE n \notin srv
      <4>1. how = "ok" /\ n = m
        BY <3>1, <3>5
      <4>2. z \in Nat /\ i \in Nat
        BY <1>1, <3>3 DEF Types, z
      <4> QED  BY <3>1, <3>3, <4>1, <4>2
    <3> QED  BY <3>4, <3>5
  <2> QED  BY <1>1, <2>1, <2>2, ActsSends
<1>5. Claimed'
  <2> SUFFICES ASSUME NEW n \in srv'
               PROVE  \/ n \in proxyMap'
                      \/ \E u \in Task : Accepted(u)' /\ NameOf(u)' = n
                      \/ \E i \in DOMAIN toClient' : toClient'[i] = Resp(n, "ok")
    BY DEF Claimed
  <2>1. ASSUME NEW u \in Task, Accepted(u), NameOf(u) = n, n \notin proxyMap'
        PROVE  Accepted(u)' /\ NameOf(u)' = n
    <3>1. CASE u = t
      BY <1>1, <2>1, <3>1, AcceptedActs
    <3>2. CASE u # t
      <4>1. at[u] # "none" /\ at'[u] = at[u]
        BY <2>1, <3>2, OtherStays DEF Accepted, Wait
      <4>2. answer'[u] = answer[u] /\ NameOf(u)' = NameOf(u)
        BY <1>1, <3>2, ActsAnswers, NameStays
      <4> QED  BY <2>1, <4>1, <4>2 DEF Accepted
    <3> QED  BY <3>1, <3>2
  <2>2. CASE /\ toClient' = toClient /\ srv' \subseteq srv
             /\ \A m \in srv' : m \in proxyMap => m \in proxyMap'
    BY <2>1, <2>2 DEF Books, Claimed
  <2>3. CASE WriteOk(t)
    <3> DEFINE m == NameOf(t)
               z == Len(toClient) + 1
    <3>1. PICK how \in {"ok", "error"} :
              /\ srv' = IF how = "ok" THEN srv \cup {m} ELSE srv
              /\ proxyMap' = proxyMap
              /\ \A k \in DOMAIN toClient : /\ k \in DOMAIN toClient' /\ k < z
                                            /\ toClient'[k] = toClient[k]
              /\ z \in DOMAIN toClient' /\ toClient'[z] = Resp(m, how)
      BY <1>1, <2>3, Writes
    <3> HIDE DEF m, z
    <3> QED  BY <2>1, <3>1 DEF Books, Claimed
  <2> QED  BY <1>1, <2>2, <2>3, ActsSends
<1> QED  BY <1>2, <1>3, <1>4, <1>5 DEF Books

LEMMA AcceptedStays ==
    ASSUME NEW u \in Task, Accepted(u), UNCHANGED <<at, step>>, answer'[u] = answer[u]
    PROVE  Accepted(u)' /\ NameOf(u)' = NameOf(u)
BY DEF Accepted, NameOf

LEMMA BooksRead ==
    ASSUME WInv, NameTypes, Linked, Live, Books, ReadMsg
    PROVE  Books'
<1> DEFINE m == Head(toClient)
<1>1. /\ toClient # <<>> /\ toClient' = Tail(toClient) /\ ~readErr
      /\ UNCHANGED <<phase, linkUp, readErr, srv, at, step>>
      /\ \/ m.type = "NewProxyResp" /\ Resolve(m) /\ UNCHANGED proxyMap
         \/ /\ m.type = "CloseProxy" /\ proxyMap' = proxyMap \ {m.name}
            /\ UNCHANGED <<answer, pending>>
  BY DEF ReadMsg, runVars, connVars, Linked
<1>2. 1 \in DOMAIN toClient /\ m = toClient[1] /\ m \in Msg /\ Types
  BY <1>1, FirstIs DEF WInv, Types
<1> HIDE DEF m
<1>3. /\ \A i \in DOMAIN toClient' : /\ i \in Nat /\ i + 1 \in DOMAIN toClient /\ i + 1 # 1
                                     /\ toClient'[i] = toClient[i + 1]
      /\ \A i \in DOMAIN toClient : i \in Nat /\ (i # 1 => /\ i - 1 \in DOMAIN toClient'
                                                           /\ toClient'[i - 1] = toClient[i])
  BY <1>1, <1>2, TailAt DEF Types
<1>4. m.name \in Name
  BY <1>2 DEF Msg
<1>5. m.type = "NewProxyResp"
        => /\ pending[m.name] # NoTask /\ at[pending[m.name]] = "awaiting"
           /\ answer' = [t \in Task |-> IF pending[m.name] = t THEN m.how ELSE answer[t]]
           /\ pending' = [pending EXCEPT ![m.name] = NoTask]
  BY <1>1, <1>2 DEF Books, Awaited, Resolve
<1>6. Writers'
  BY <1>1, <1>5 DEF Books, Writers
<1>7. Awaited'
  <2> SUFFICES ASSUME NEW i \in DOMAIN toClient', toClient'[i].type = "NewProxyResp"
               PROVE  /\ pending'[toClient'[i].name] # NoTask
                      /\ at[pending'[toClient'[i].name]] = "awaiting"
                      /\ \A j \in DOMAIN toClient' :
                             /\ toClient'[j].type = "NewProxyResp"
                             /\ toClient'[j].name = toClient'[i].name
                             => i = j
    BY <1>1 DEF Awaited
  <2> DEFINE n == toClient'[i].name
  <2>1. /\ i + 1 \in DOMAIN toClient /\ i + 1 # 1 /\ toClient'[i] = toClient[i + 1]
    BY <1>3
  <2>2. n \in Name
    <3>1. toClient[i + 1] \in Msg
      BY <1>2, <2>1 DEF Types
    <3> QED  BY <2>1, <3>1 DEF Msg
  <2>3. /\ pending[n] # NoTask /\ at[pending[n]] = "awaiting"
        /\ \A j \in DOMAIN toClient :
               toClient[j].type = "NewProxyResp" /\ toClient[j].name = n => i + 1 = j
    BY <1>1, <2>1 DEF Books, Awaited
  <2>4. pending'[n] = pending[n]
    <3>1. CASE m.type = "NewProxyResp"
      <4>1. m.name # n
        BY <1>2, <2>1, <2>3, <3>1
      <4> QED  BY <1>2, <1>4, <1>5, <2>2, <3>1, <4>1 DEF Types
    <3>2. CASE m.type # "NewProxyResp"
      BY <1>1, <3>2
    <3> QED  BY <3>1, <3>2
  <2>5. \A j \in DOMAIN toClient' :
            toClient'[j].type = "NewProxyResp" /\ toClient'[j].name = n => i = j
    BY <1>3, <2>3
  <2> QED  BY <2>3, <2>4, <2>5
<1>8. ClosedFirst'
  <2> SUFFICES ASSUME NEW i \in DOMAIN toClient', NEW n \in Name,
                      toClient'[i].type = "CloseProxy", toClient'[i].name = n, n \in srv
               PROVE  \E j \in DOMAIN toClient' : j > i /\ toClient'[j] = Resp(n, "ok")
    BY <1>1 DEF ClosedFirst
  <2>1. PICK j \in DOMAIN toClient : j > i + 1 /\ toClient[j] = Resp(n, "ok")
    BY <1>3 DEF Books, ClosedFirst
  <2>2. i \in Nat /\ j \in Nat /\ j # 1 /\ j - 1 > i
    BY <1>3, <2>1
  <2>3. j - 1 \in DOMAIN toClient' /\ toClient'[j - 1] = Resp(n, "ok")
    BY <1>3, <2>1, <2>2
  <2> QED  BY <2>2, <2>3
<1>9. Claimed'
  <2> SUFFICES ASSUME NEW n \in srv, n \in Name
               PROVE  \/ n \in proxyMap'
                      \/ \E u \in Task : Accepted(u)' /\ NameOf(u)' = n
                      \/ \E i \in DOMAIN toClient' : toClient'[i] = Resp(n, "ok")
    BY <1>1 DEF Claimed, NameTypes
  <2>1. ASSUME NEW u \in Task, Accepted(u) PROVE Accepted(u)' /\ NameOf(u)' = NameOf(u)
    <3>1. answer[u] # "none" \/ at[u] = "gotResp"
      BY <2>1 DEF Accepted
    <3>2. answer'[u] = answer[u]
      <4>1. pending[m.name] # u \/ answer' = answer
        BY <1>1, <1>4, <1>5, <3>1, OwnersAre
      <4> QED  BY <1>1, <1>5, <4>1
    <3> QED  BY <1>1, <2>1, <3>2, AcceptedStays
  <2>2. CASE n \in proxyMap /\ n \notin proxyMap'
    <3>1. m.type = "CloseProxy" /\ m.name = n
      BY <1>1, <2>2
    <3>2. PICK j \in DOMAIN toClient : j > 1 /\ toClient[j] = Resp(n, "ok")
      BY <1>2, <3>1 DEF Books, ClosedFirst
    <3> QED  BY <1>3, <3>2
  <2>3. CASE \E i \in DOMAIN toClient : i # 1 /\ toClient[i] = Resp(n, "ok")
    BY <1>3, <2>3
  <2>4. CASE toClient[1] = Resp(n, "ok")
    <3>1. m.type = "NewProxyResp" /\ m.name = n /\ m.how = "ok"
      BY <1>2, <2>4 DEF Resp
    <3>2. PICK u \in Task : pending[n] = u /\ NameOf(u) = n /\ at[u] = "awaiting"
      BY <1>4, <1>5, <3>1, OwnersAre
    <3>3. answer'[u] = "ok" /\ at'[u] = "awaiting" /\ NameOf(u)' = n
      BY <1>1, <1>5, <3>1, <3>2 DEF NameOf
    <3> QED  BY <3>3 DEF Accepted, Wait
  <2> QED  BY <2>1, <2>2, <2>3, <2>4 DEF Books, Claimed
<1> QED  BY <1>6, <1>7, <1>8, <1>9 DEF Books

LEMMA BooksClose ==
    ASSUME WInv, Live, Books, NEW n \in Name, ServerCloses(n)
    PROVE  Books'
<1>1. /\ srv' = srv \ {n} /\ toClient' = Append(toClient, Close(n))
      /\ UNCHANGED <<phase, linkUp, readErr, at, answer, step, pending, proxyMap>>
  BY DEF ServerCloses, runVars, connVars, regVars
<1>2. Close(n) \in Msg /\ toClient \in Seq(Msg)
  BY DEF Close, Msg, WInv, Types
<1>3. /\ \A i \in DOMAIN toClient : i \in DOMAIN toClient' /\ toClient'[i] = toClient[i]
      /\ \A i \in DOMAIN toClient' : \/ i \in DOMAIN toClient /\ toClient'[i] = toClient[i]
                                     \/ toClient'[i] = Close(n)
  BY <1>1, <1>2, AppendAt
<1>4. Close(n).type # "NewProxyResp" /\ Close(n).name = n
  BY DEF Close
<1>5. Writers'
  BY <1>1 DEF Writers, Books, Live
<1>6. Awaited'
  <2> SUFFICES ASSUME ~readErr, NEW i \in DOMAIN toClient', toClient'[i].type = "NewProxyResp"
               PROVE  /\ pending[toClient'[i].name] # NoTask
                      /\ at[pending[toClient'[i].name]] = "awaiting"
                      /\ \A j \in DOMAIN toClient' :
                             /\ toClient'[j].type = "NewProxyResp"
                             /\ toClient'[j].name = toClient'[i].name
                             => i = j
    BY <1>1 DEF Awaited
  <2> QED  BY <1>3, <1>4 DEF Awaited, Books
<1>7. ClosedFirst'
  <2> SUFFICES ASSUME NEW i \in DOMAIN toClient', NEW m \in Name,
                      toClient'[i].type = "CloseProxy", toClient'[i].name = m, m \in srv'
               PROVE  \E j \in DOMAIN toClient' : j > i /\ toClient'[j] = Resp(m, "ok")
    BY DEF ClosedFirst
  <2>1. i \in DOMAIN toClient /\ toClient'[i] = toClient[i] /\ m \in srv
    BY <1>1, <1>3, <1>4
  <2> QED  BY <1>3, <2>1 DEF ClosedFirst, Books
<1>8. Claimed'
  <2>1. \A u \in Task : Accepted(u) => Accepted(u)' /\ NameOf(u)' = NameOf(u)
    BY <1>1, AcceptedStays
  <2> QED  BY <1>1, <1>3, <2>1 DEF Claimed, Books
<1> QED  BY <1>5, <1>6, <1>7, <1>8 DEF Books

\* A read loop that fails rejects who waits, and so no accepted registration.
LEMMA BooksReject ==
    ASSUME WInv, Live, Books, readErr', RejectPending,
           UNCHANGED <<srv, toClient, at, step, proxyMap>>
    PROVE  Books'
<1>1. ASSUME NEW u \in Task, Accepted(u) PROVE Accepted(u)' /\ NameOf(u)' = NameOf(u)
  <2>1. answer[u] # "none" \/ at[u] \notin Wait
    BY <1>1 DEF Accepted, Wait
  <2>2. answer'[u] = answer[u]
    BY <2>1, OwnersAre, NoTaskIsNone DEF RejectPending
  <2> QED  BY <1>1, <2>2, AcceptedStays
<1>2. Claimed'
  BY <1>1 DEF Claimed, Books
<1> QED  BY <1>2 DEF Books, Awaited, Writers, ClosedFirst

LEMMA BooksStart ==
    ASSUME WInv, Rested, Linked, Live', SessionStarts
    PROVE  Books'
<1>1. /\ phase = "crypto" /\ UNCHANGED <<linkUp, srv, toClient, stopped>>
      /\ \E to \in {"onLogin", "register"} : at' = [at EXCEPT ![<<session, "startup">>] = to]
  BY DEF SessionStarts, Goto, netVars
<1>2. srv' = {} /\ DOMAIN toClient' = {} /\ ~stopped
  <2>1. srv' = {} /\ toClient' = <<>> /\ ~stopped
    BY <1>1 DEF Linked, Live
  <2> QED  BY <2>1
<1>3. \A u \in Task : at[u] \in RestAt
  BY <1>1, <1>2 DEF Rested, Resting, Between
<1>4. \A u \in Task : at'[u] = at[u] \/ at'[u] \in {"onLogin", "register"}
  BY <1>1 DEF WInv, Types
<1>5. Writers'
  BY <1>3, <1>4 DEF Writers, RestAt
<1> QED  BY <1>2, <1>5 DEF Books, Awaited, ClosedFirst, Claimed

LEMMA BooksStep ==
    ASSUME WInv, WInv', Bounded, Bounded', Rested, Linked, Books, ~LateAnswers,
           "onProxyRegister" \notin Hooks, [Next]_vars
    PROVE  Books'
<1> SUFFICES ASSUME Live' PROVE Books'
  BY DEF Books, Awaited, Writers, ClosedFirst, Claimed
<1>0. Placed /\ NameTypes /\ linkUp \in BOOLEAN /\ linkUp' \in BOOLEAN
  BY DEF Bounded, ConnTypes
<1>1. CASE SessionStarts
  BY <1>1, BooksStart
<1>2. ASSUME NEW t \in Task, Acts(t) PROVE Books'
  <2>1. UNCHANGED <<phase, stopped, session, readErr>> /\ (linkUp' = linkUp \/ Spoil)
    BY <1>2, TaskFields DEF Acts, TaskOnly, runVars
  <2>2. linkUp' => linkUp
    <3>1. CASE Spoil
      BY <3>1, Zenon DEF Spoil
    <3> QED  BY <2>1, <3>1
  <2>3. Live /\ linkUp' = linkUp
    BY <1>0, <2>1, <2>2 DEF Live
  <2> QED  BY <1>0, <1>2, <2>1, <2>3, BooksActs
<1>3. CASE ReadMsg
  <2>1. Live
    BY <1>3 DEF ReadMsg, runVars, connVars, Live
  <2> QED  BY <1>0, <1>3, <2>1, BooksRead
<1>4. ASSUME NEW n \in Name, ServerCloses(n) PROVE Books'
  <2>1. Live
    BY <1>4 DEF ServerCloses, runVars, connVars, Live
  <2> QED  BY <1>4, <2>1, BooksClose
<1>5. CASE ReaderClosed \/ ReaderBroken
  <2>1. /\ UNCHANGED <<phase, linkUp, proxyMap, srv, toClient, at, step>>
        /\ RejectPending /\ readErr'
    BY <1>5 DEF ReaderClosed, ReaderBroken, ReadLoopFails, runVars, netVars
  <2>2. Live
    BY <2>1 DEF Live
  <2> QED  BY <2>1, <2>2, BooksReject
<1>6. CASE HeartbeatFails \/ UNCHANGED vars
  <2>1. UNCHANGED <<phase, linkUp, readErr, proxyMap, srv, toClient, at, step, answer, pending>>
    BY <1>6 DEF HeartbeatFails, vars, runVars, connVars, regVars, netVars
  <2>2. Claimed'
    BY <2>1 DEF Claimed, Books, Live, Accepted, NameOf
  <2> QED  BY <2>1, <2>2 DEF Books, Awaited, Writers, ClosedFirst, Live
<1>7. LinkLost \/ SetupFails \/ SessionEnds \/ Stop => ~linkUp'
  BY DEF LinkLost, SetupFails, SessionEnds, Stop, Teardown, CloseTransport
<1>8. DialFails \/ DialTooLate \/ ReconnectHook \/ Run \/ DialOk \/ LoginOk \/ Wake
        => phase' # "up"
  BY DEF DialFails, DialTooLate, ReconnectHook, Run, DialOk, LoginOk, Wake, Retry
<1> QED
  BY <1>1, <1>2, <1>3, <1>4, <1>5, <1>6, <1>7, <1>8
      DEF Next, ReadRejects, ConnectReturns, RunEvent, Acts, Live

LEMMA BooksAgree == CInv /\ Books /\ NameTypes => Agreement
<1> SUFFICES ASSUME CInv, Books, NameTypes, Live, toClient = <<>>,
                    \A t \in Task : at[t] \in RestAt
             PROVE  srv = proxyMap
  BY DEF Agreement, Live
<1>1. DOMAIN toClient = {}
  OBVIOUS
<1>2. \A n \in proxyMap : n \in srv
  BY <1>1 DEF CInv, Map, NoPhantom, Live
<1>3. \A t \in Task : ~Accepted(t)
  BY DEF Accepted, Wait, RestAt
<1>4. \A n \in srv : n \in proxyMap
  BY <1>1, <1>3 DEF Books, Claimed
<1> QED  BY <1>2, <1>4

\* With a server that answers in time, client and server come to the same proxies
\* whenever nothing is on the way and every task of the client is at rest.
THEOREM Agreed == Prompt => (Safety => []Agreement)
<1> SUFFICES ASSUME Prompt PROVE Safety => []Agreement
  OBVIOUS
<1>1. Calm
  BY DEF Prompt
<1>2. Safety => []CInv
  BY <1>1, CalmAlways
<1>3. Init => Books
  BY DEF Init, Books, Awaited, Writers, ClosedFirst, Claimed, Live
<1>4. /\ WInv /\ Fresh /\ Bounded /\ CInv /\ Books /\ [Next]_vars
      /\ (WInv /\ Fresh /\ Bounded)'
      => Books'
  BY BooksStep DEF CInv, Prompt
<1>5. Bounded /\ CInv /\ Books => Agreement
  BY BooksAgree DEF Bounded
<1> QED  BY <1>2, <1>3, <1>4, <1>5, BoundedAlways, PTL DEF Safety
=============================================================================
