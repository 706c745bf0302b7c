--------------------------- MODULE ControlChannel ---------------------------
(***************************************************************************)
(* The control channel of src/src/control/channel.ts with the health       *)
(* monitors of src/src/control/health.ts that it owns: the retry loop of   *)
(* run(), one #connect() per session, the read loop, the startup task that *)
(* registers proxies and starts visitors and monitors, and stop().         *)
(*                                                                         *)
(* Several async functions share the fields of one object.  A task is one  *)
(* of them that registers proxies: <<s, "startup">>, the startup of session *)
(* s, or <<s, h>>, the monitor of proxy h which that startup created.      *)
(* at[t] is the await task t is suspended at.  Nothing cancels a task when *)
(* its session ends: it goes on with whatever the fields hold by then.     *)
(***************************************************************************)
EXTENDS Naturals, Sequences, FiniteSets

CONSTANTS
    Plain,          \* sequence of the proxies without a health check
    Health,         \* set of the proxies with one
    Visitors,       \* sequence of the STCP visitors
    Hooks,          \* user hooks that are defined, and may take their time
    Retries,        \* connectionOptions(cfg).retries, 0 for no limit
    Heartbeats,     \* the heartbeat interval is positive (tcpMux is off)
    SlowHooks,      \* a hook may outlast the pause before a reconnect (2 s)
    LateAnswers,    \* the server may take more than 20 s to answer NewProxy
    EarlyClose,     \* the server may close a proxy right after accepting it
    MaxSessions,    \* bound on the connections made
    MaxDialFailures \* bound on attempt reached by failed dials

ASSUME ConfigAssumption ==
    /\ {Plain, Visitors} \subseteq Seq(STRING) /\ Health \subseteq STRING
    /\ \A i \in DOMAIN Plain : Plain[i] \notin Health
    /\ "startup" \notin Health
    /\ Hooks \subseteq {"onLogin", "onProxyRegister", "onProxyError",
                        "onReconnect"}
    /\ Retries \in Nat
    /\ {Heartbeats, SlowHooks, LateAnswers, EarlyClose} \subseteq BOOLEAN
ASSUME BoundAssumption == MaxSessions \in Nat /\ MaxDialFailures \in Nat

Session == 1..MaxSessions
Name    == {Plain[i] : i \in DOMAIN Plain} \cup Health
Task    == Session \X ({"startup"} \cup Health)
NoTask  == <<0, "startup">>
Startups == {t \in Task : t[2] = "startup"}
Monitors == Task \ Startups
Runtime == Session \X DOMAIN Visitors

VARIABLES
    phase,      \* where run() is suspended
    stopped,    \* this.stopped
    attempt,    \* the retry counter of run()
    failures,   \* connection attempts that failed since the last login
    session,    \* how many connections were made
    conn,       \* this.conn: the session it belongs to, 0 for null
    linkUp,     \* that connection is intact
    pool,       \* this.pool is not null, and not stopped
    reader,     \* the read loop: off, reading, deaf, or closed under its read
    readErr,    \* this.controlReadError is set
    done,       \* controlDone: none yet, rejected or resolved
    at,         \* where each task is suspended
    step,       \* how far each startup got in Plain and then in Visitors
    answer,     \* how the promise each task waits for was settled
    pending,    \* this.pendingProxyResp: the task waiting under each name
    proxyMap,   \* this.proxyMap, shared with the pool
    monitors,   \* this.healthMonitors: the session of each monitor, 0 for none
    healthy,    \* the healthy flag of each monitor
    halted,     \* the stopped flag of each monitor
    visitors,   \* this.visitors
    listener,   \* the listening socket of each visitor runtime
    srv,        \* the proxies the server holds for this connection
    toClient    \* messages the server sent and the read loop has not read

runVars  == <<phase, stopped, attempt, failures, session>>
connVars == <<conn, linkUp, pool, reader, readErr, done>>
regVars  == <<at, step, answer, pending>>
monVars  == <<monitors, healthy, halted>>
visVars  == <<visitors, listener>>
netVars  == <<srv, toClient>>
vars == <<runVars, connVars, regVars, monVars, visVars, proxyMap, netVars>>

(* Awaits.  A hook is user code; everything else that is not at rest is    *)
(* local work that ends within the two seconds of the shortest backoff.    *)
HookAt == {"onLogin", "okHook", "errHook"}
RestAt == {"none", "done", "failed", "ended", "timer", "checking"}
At == HookAt \cup RestAt \cup
      {"register", "writing", "awaiting", "gotResp", "noResp", "threw",
       "visit", "listening", "closing"}
Quiet == /\ reader = "off"
         /\ \A t \in Task :
                at[t] \in RestAt \cup (IF SlowHooks THEN HookAt ELSE {})

Returned == {"returned", "gaveUp", "hookThrew"}

Init ==
    /\ phase = "idle" /\ stopped = FALSE
    /\ attempt = 0 /\ failures = 0 /\ session = 0
    /\ conn = 0 /\ linkUp = FALSE /\ pool = FALSE
    /\ reader = "off" /\ readErr = FALSE /\ done = "none"
    /\ at = [t \in Task |-> "none"]
    /\ step = [s \in Session |-> 1]
    /\ answer = [t \in Task |-> "none"]
    /\ pending = [n \in Name |-> NoTask]
    /\ proxyMap = {}
    /\ monitors = [h \in Health |-> 0]
    /\ healthy = [t \in Monitors |-> FALSE]
    /\ halted = [t \in Monitors |-> FALSE]
    /\ visitors = {}
    /\ listener = [r \in Runtime |-> "none"]
    /\ srv = {} /\ toClient = <<>>

Goto(t, to) == at' = [at EXCEPT ![t] = to]
NameOf(t) == IF t[2] = "startup" THEN Plain[step[t[1]]] ELSE t[2]

-----------------------------------------------------------------------------
(* The pieces stop() and the finally of #connect() are made of *)

RejectPending ==
    /\ answer' = [t \in Task |-> IF \E n \in Name : pending[n] = t
                                 THEN "rejected" ELSE answer[t]]
    /\ pending' = [n \in Name |-> NoTask]

\* A monitor that is no longer in the map is not found here.
InRegistry(t) == t \in Monitors /\ monitors[t[2]] = t[1]
StopMonitors ==
    /\ at' = [t \in Task |-> IF InRegistry(t) /\ at[t] = "timer"
                             THEN "ended" ELSE at[t]]
    /\ halted' = [t \in Monitors |-> halted[t] \/ InRegistry(t)]
    /\ monitors' = [h \in Health |-> 0]

StopVisitors ==
    /\ listener' = [r \in Runtime |-> IF r \in visitors THEN "stopped"
                                                        ELSE listener[r]]
    /\ visitors' = {}

CloseTransport ==
    /\ conn' = 0 /\ linkUp' = FALSE
    /\ srv' = {} /\ toClient' = <<>>

\* Closing the reader rejects the read loop's pending read: ReaderClosed.
CloseReader ==
    reader' = IF reader \in {"reading", "deaf"} THEN "closed" ELSE reader

\* A plausible slip: the pool of the session is not stopped.
MutantTeardown ==
    /\ StopMonitors /\ StopVisitors /\ RejectPending
    /\ UNCHANGED pool
    /\ CloseReader /\ CloseTransport
Teardown ==
    /\ StopMonitors /\ StopVisitors /\ RejectPending
    /\ pool' = FALSE
    /\ CloseReader /\ CloseTransport

-----------------------------------------------------------------------------
(* run() *)

Run ==
    /\ phase = "idle"
    /\ phase' = IF stopped THEN "returned" ELSE "dialing"
    /\ UNCHANGED <<stopped, attempt, failures, session, connVars, regVars,
                   monVars, visVars, proxyMap, netVars>>

\* The catch of run(): give up, or pause before the next attempt.
Retry ==
    IF stopped
    THEN phase' = "returned" /\ UNCHANGED <<attempt, failures>>
    ELSE /\ attempt' = attempt + 1
         /\ failures' = failures + 1
         /\ phase' = IF Retries > 0 /\ attempt + 1 > Retries THEN "gaveUp"
                     ELSE IF "onReconnect" \in Hooks THEN "reconnectHook"
                     ELSE "backoff"

ReconnectHook ==
    /\ phase = "reconnectHook"
    /\ phase' \in {"backoff", "hookThrew"}
    /\ UNCHANGED <<stopped, attempt, failures, session, connVars, regVars,
                   monVars, visVars, proxyMap, netVars>>

\* The sleep ends, at once when stop() aborts it.
Wake ==
    /\ phase = "backoff"
    /\ stopped \/ Quiet
    /\ phase' = IF stopped THEN "returned" ELSE "dialing"
    /\ UNCHANGED <<stopped, attempt, failures, session, connVars, regVars,
                   monVars, visVars, proxyMap, netVars>>

-----------------------------------------------------------------------------
(* #connect(), up to the start of the session *)

\* A failed dial leaves #connect before its try: no teardown.
DialFails ==
    /\ phase = "dialing"
    /\ attempt < MaxDialFailures \/ stopped
    /\ Retry
    /\ UNCHANGED <<stopped, session, connVars, regVars, monVars, visVars,
                   proxyMap, netVars>>

DialOk ==
    /\ phase = "dialing" /\ ~stopped
    /\ session < MaxSessions
    /\ session' = session + 1
    /\ conn' = session + 1 /\ linkUp' = TRUE
    /\ phase' = "login"
    /\ UNCHANGED <<stopped, attempt, failures, pool, reader, readErr, done,
                   regVars, monVars, visVars, proxyMap, netVars>>

\* stop() was called during the dial: the socket is destroyed.
DialTooLate ==
    /\ phase = "dialing" /\ stopped
    /\ attempt' = 0
    /\ phase' = "returned"
    /\ UNCHANGED <<stopped, failures, session, connVars, regVars, monVars,
                   visVars, proxyMap, netVars>>

\* The answer may have been read from a connection that is broken by now.
LoginOk ==
    /\ phase = "login" /\ conn # 0
    /\ failures' = 0
    /\ phase' = "crypto"
    /\ UNCHANGED <<stopped, attempt, session, connVars, regVars, monVars,
                   visVars, proxyMap, netVars>>

\* A TCP socket that is lost while the key is derived has emitted its end to
\* nobody, and the read loop waits in vain; a mux stream keeps its end until
\* it is read.
ReaderAfterSetup ==
    IF stopped THEN {"off"}
    ELSE {"reading"} \cup (IF ~linkUp /\ Heartbeats THEN {"deaf"} ELSE {})

\* A plausible slip: a read loop that ends without an error is not noticed.
MutantSessionStarts ==
    /\ phase = "crypto"
    /\ phase' = "up"
    /\ conn' = session
    /\ pool' = TRUE
    /\ readErr' = FALSE
    /\ proxyMap' = {}
    /\ reader' \in ReaderAfterSetup
    /\ done' = "none"
    /\ Goto(<<session, "startup">>,
            IF "onLogin" \in Hooks THEN "onLogin" ELSE "register")
    /\ UNCHANGED <<stopped, attempt, failures, session, linkUp, step, answer,
                   pending, monVars, visVars, netVars>>

\* The encrypted connection is ready: the session starts.  After a stop()
\* conn is set all the same, to a connection that is already destroyed, and
\* the read loop ends before its first read.
SessionStarts ==
    /\ phase = "crypto"
    /\ phase' = "up"
    /\ conn' = session
    /\ pool' = TRUE
    /\ readErr' = FALSE
    /\ proxyMap' = {}
    /\ reader' \in ReaderAfterSetup
    /\ done' = IF stopped THEN "resolved" ELSE "none"
    /\ Goto(<<session, "startup">>,
            IF "onLogin" \in Hooks THEN "onLogin" ELSE "register")
    /\ UNCHANGED <<stopped, attempt, failures, session, linkUp, step, answer,
                   pending, monVars, visVars, netVars>>

\* Any error of #connect() before the session starts.
SetupFails ==
    /\ phase \in {"login", "crypto"}
    /\ Teardown
    /\ Retry
    /\ UNCHANGED <<stopped, session, readErr, done, step, healthy, proxyMap>>

\* #connect() stops waiting when the startup or controlDone rejects, or when
\* both have resolved.
SessionOver ==
    /\ phase = "up"
    /\ \/ done = "rejected"
       \/ at[<<session, "startup">>] = "failed"
       \/ done = "resolved" /\ at[<<session, "startup">>] = "done"

\* Its finally tears the session down; the startup task is not cancelled.
\* A plausible slip: the waiting registrations are forgotten.
MutantSessionEnds ==
    /\ SessionOver
    /\ StopMonitors /\ StopVisitors /\ UNCHANGED <<answer, pending>>
    /\ pool' = FALSE /\ CloseReader /\ CloseTransport
    /\ done' = "none"
    /\ Retry
    /\ UNCHANGED <<stopped, session, readErr, step, healthy, proxyMap>>
SessionEnds ==
    /\ SessionOver
    /\ Teardown
    /\ done' = "none"
    /\ Retry
    /\ UNCHANGED <<stopped, session, readErr, step, healthy, proxyMap>>

Stop ==
    /\ ~stopped
    /\ stopped' = TRUE
    /\ Teardown
    /\ UNCHANGED <<phase, attempt, failures, session, readErr, done, step,
                   healthy, proxyMap>>

-----------------------------------------------------------------------------
(* #readLoop() and #heartbeat() *)

\* The read fails: the connection is gone, the server's Pong carries an
\* error, or the reader was closed.  It is the second of the two that an
\* ended session leaves behind.
ReadLoopFails ==
    /\ reader \in {"reading", "closed"}
    /\ reader' = "off"
    /\ readErr' = TRUE
    /\ RejectPending
    /\ done' = IF phase = "up" /\ done = "none" THEN "rejected" ELSE done
    /\ UNCHANGED <<runVars, conn, linkUp, pool, at, step, monVars, visVars,
                   proxyMap, netVars>>

\* A plausible slip: the timeout is only logged.
MutantHeartbeatFails ==
    /\ Heartbeats
    /\ phase = "up" /\ ~stopped /\ done = "none"
    /\ UNCHANGED <<runVars, connVars, regVars, monVars, visVars, proxyMap,
                   netVars>>

\* A Ping cannot be written, or no Pong came in time.
HeartbeatFails ==
    /\ Heartbeats
    /\ phase = "up" /\ ~stopped /\ done = "none"
    /\ done' = "rejected"
    /\ UNCHANGED <<runVars, conn, linkUp, pool, reader, readErr, regVars,
                   monVars, visVars, proxyMap, netVars>>

Resp(n, how) == [type |-> "NewProxyResp", name |-> n, how |-> how]
Close(n)     == [type |-> "CloseProxy", name |-> n, how |-> "ok"]

\* #resolvePendingProxyResponse: the waiter is found by the proxy's name.
Resolve(m) ==
    /\ answer' = [t \in Task |-> IF pending[m.name] = t THEN m.how
                                                        ELSE answer[t]]
    /\ pending' = [pending EXCEPT ![m.name] = NoTask]

MutantReadMsg ==
    /\ reader = "reading" /\ toClient # <<>>
    /\ toClient' = Tail(toClient)
    /\ \/ /\ Head(toClient).type = "NewProxyResp"
          /\ Resolve(Head(toClient))
          /\ UNCHANGED proxyMap
       \/ /\ Head(toClient).type = "CloseProxy"
          /\ UNCHANGED <<answer, pending, proxyMap>>
    /\ UNCHANGED <<runVars, connVars, at, step, monVars, visVars, srv>>
ReadMsg ==
    /\ reader = "reading" /\ toClient # <<>>
    /\ toClient' = Tail(toClient)
    /\ \/ /\ Head(toClient).type = "NewProxyResp"
          /\ Resolve(Head(toClient))
          /\ UNCHANGED proxyMap
       \/ /\ Head(toClient).type = "CloseProxy"
          /\ proxyMap' = proxyMap \ {Head(toClient).name}
          /\ UNCHANGED <<answer, pending>>
    /\ UNCHANGED <<runVars, connVars, at, step, monVars, visVars, srv>>

-----------------------------------------------------------------------------
(* #registerProxyDuringReadLoop(), for a startup or a monitor *)

\* A monitor that outlived its session finds conn set while the next one is
\* still logging in, and writes into the handshake: the server hangs up.
Spoil == linkUp' = (linkUp /\ phase = "up")

Register(t) ==
    /\ at[t] = "register"
    /\ t \in Startups => step[t[1]] <= Len(Plain)
    /\ \/ /\ conn = 0
          /\ Goto(t, "noResp") /\ UNCHANGED <<answer, pending, linkUp>>
       \/ /\ conn # 0
          /\ readErr \/ pending[NameOf(t)] # NoTask
          /\ Goto(t, "threw") /\ UNCHANGED <<answer, pending, linkUp>>
       \/ /\ conn # 0 /\ ~readErr /\ pending[NameOf(t)] = NoTask
          /\ pending' = [pending EXCEPT ![NameOf(t)] = t]
          /\ answer' = [answer EXCEPT ![t] = "none"]
          /\ Goto(t, "writing") /\ Spoil
    /\ UNCHANGED <<runVars, conn, pool, reader, readErr, done, step, monVars,
                   visVars, proxyMap, netVars>>

\* The write is done; on an intact connection the server handles NewProxy and
\* answers, refusing a name it already holds, or any name it likes.
WriteOk(t) ==
    /\ at[t] = "writing"
    /\ Goto(t, "awaiting")
    /\ \/ ~linkUp /\ UNCHANGED netVars
       \/ /\ linkUp
          /\ \/ /\ NameOf(t) \notin srv
                /\ srv' = srv \cup {NameOf(t)}
                /\ toClient' = Append(toClient, Resp(NameOf(t), "ok"))
             \/ /\ srv' = srv
                /\ toClient' = Append(toClient, Resp(NameOf(t), "error"))
    /\ UNCHANGED <<runVars, connVars, step, answer, pending, monVars, visVars,
                   proxyMap>>

\* The catch of the function.  It removes the entry under its proxy's name,
\* whoever waits there.
Catch(t) ==
    /\ answer' = [u \in Task |-> IF pending[NameOf(t)] = u THEN "rejected"
                                                           ELSE answer[u]]
    /\ pending' = [pending EXCEPT ![NameOf(t)] = NoTask]
    /\ Goto(t, IF readErr THEN "threw" ELSE "noResp")

WriteFails(t) ==
    /\ at[t] = "writing" /\ ~linkUp
    /\ Catch(t)
    /\ UNCHANGED <<runVars, connVars, step, monVars, visVars, proxyMap,
                   netVars>>

\* A plausible slip: the timer drops the entry and settles nothing.
MutantRespTimeout(t) ==
    /\ at[t] = "awaiting" /\ pending[NameOf(t)] = t
    /\ LateAnswers \/ ~linkUp
    /\ pending' = [pending EXCEPT ![NameOf(t)] = NoTask]
    /\ UNCHANGED <<runVars, connVars, at, step, answer, monVars, visVars, proxyMap,
                   netVars>>

\* The 20 s timer of the pending entry.
RespTimeout(t) ==
    /\ at[t] = "awaiting" /\ pending[NameOf(t)] = t
    /\ LateAnswers \/ ~linkUp
    /\ pending' = [pending EXCEPT ![NameOf(t)] = NoTask]
    /\ answer' = [answer EXCEPT ![t] = "rejected"]
    /\ UNCHANGED <<runVars, connVars, at, step, monVars, visVars, proxyMap,
                   netVars>>

Answered(t) ==
    /\ at[t] = "awaiting"
    /\ \/ /\ answer[t] = "ok"
          /\ Goto(t, IF "onProxyRegister" \in Hooks THEN "okHook"
                                                    ELSE "gotResp")
          /\ UNCHANGED <<answer, pending>>
       \/ /\ answer[t] = "error"
          /\ Goto(t, IF "onProxyError" \in Hooks THEN "errHook" ELSE "noResp")
          /\ UNCHANGED <<answer, pending>>
       \/ answer[t] = "rejected" /\ Catch(t)
    /\ UNCHANGED <<runVars, connVars, step, monVars, visVars, proxyMap,
                   netVars>>

HookReturns(t) ==
    /\ \/ at[t] = "onLogin" /\ Goto(t, "register")
       \/ at[t] = "okHook" /\ Goto(t, "gotResp")
       \/ at[t] = "errHook" /\ Goto(t, "noResp")
    /\ UNCHANGED <<runVars, connVars, step, answer, pending, monVars, visVars,
                   proxyMap, netVars>>

HookThrows(t) ==
    /\ \/ /\ at[t] = "onLogin"
          /\ Goto(t, "failed")
          /\ UNCHANGED <<answer, pending>>
       \/ at[t] \in {"okHook", "errHook"} /\ Catch(t)
    /\ UNCHANGED <<runVars, connVars, step, monVars, visVars, proxyMap,
                   netVars>>

-----------------------------------------------------------------------------
(* The startup task: #registerProxies, #startVisitors, #startHealthMonitors *)

\* Back in #registerProxies with the outcome of one registration.
StartupContinues(t) ==
    /\ t \in Startups
    /\ \/ /\ at[t] = "gotResp"
          /\ proxyMap' = proxyMap \cup {NameOf(t)}
          /\ step' = [step EXCEPT ![t[1]] = @ + 1]
          /\ Goto(t, "register")
       \/ /\ at[t] = "noResp"
          /\ step' = [step EXCEPT ![t[1]] = @ + 1]
          /\ Goto(t, "register")
          /\ UNCHANGED proxyMap
       \/ /\ at[t] = "threw"
          /\ Goto(t, "failed")
          /\ UNCHANGED <<proxyMap, step>>
    /\ UNCHANGED <<runVars, connVars, answer, pending, monVars, visVars,
                   netVars>>

VisitorOf(t) == <<t[1], step[t[1]] - Len(Plain)>>

\* The proxies are done: #startVisitors first stops the visitors it finds.
MutantVisitorsBegin(t) ==
    /\ t \in Startups /\ at[t] = "register"
    /\ step[t[1]] > Len(Plain)
    /\ visitors' = {} /\ UNCHANGED listener
    /\ Goto(t, "visit")
    /\ UNCHANGED <<runVars, connVars, step, answer, pending, monVars,
                   proxyMap, netVars>>
VisitorsBegin(t) ==
    /\ t \in Startups /\ at[t] = "register"
    /\ step[t[1]] > Len(Plain)
    /\ StopVisitors
    /\ Goto(t, "visit")
    /\ UNCHANGED <<runVars, connVars, step, answer, pending, monVars,
                   proxyMap, netVars>>

\* A plausible slip: the loop runs once too often.
MutantVisitorListens(t) ==
    /\ t \in Startups /\ at[t] = "visit"
    /\ step[t[1]] <= Len(Plain) + Len(Visitors) + 1
    /\ visitors' = visitors \cup {VisitorOf(t)}
    /\ listener' = [listener EXCEPT ![VisitorOf(t)] = "starting"]
    /\ Goto(t, "listening")
    /\ UNCHANGED <<runVars, connVars, step, answer, pending, monVars,
                   proxyMap, netVars>>

VisitorListens(t) ==
    /\ t \in Startups /\ at[t] = "visit"
    /\ step[t[1]] <= Len(Plain) + Len(Visitors)
    /\ visitors' = visitors \cup {VisitorOf(t)}
    /\ listener' = [listener EXCEPT ![VisitorOf(t)] = "starting"]
    /\ Goto(t, "listening")
    /\ UNCHANGED <<runVars, connVars, step, answer, pending, monVars,
                   proxyMap, netVars>>

\* start() resolves, with the listener closed again if stop() came first.
\* Without a connection #startVisitors returns, and the monitors follow.
VisitorReady(t) ==
    /\ t \in Startups /\ at[t] = "listening"
    /\ listener' = [listener EXCEPT ![VisitorOf(t)] =
                        IF @ = "starting" THEN "open" ELSE @]
    /\ step' = [step EXCEPT ![t[1]] = IF conn = 0
                                      THEN Len(Plain) + Len(Visitors) + 1
                                      ELSE @ + 1]
    /\ Goto(t, "visit")
    /\ UNCHANGED <<runVars, connVars, answer, pending, visitors, monVars,
                   proxyMap, netVars>>

\* The port cannot be bound.
VisitorFails(t) ==
    /\ t \in Startups /\ at[t] = "listening"
    /\ listener' = [listener EXCEPT ![VisitorOf(t)] = "stopped"]
    /\ visitors' = visitors \ {VisitorOf(t)}
    /\ Goto(t, "failed")
    /\ UNCHANGED <<runVars, connVars, step, answer, pending, monVars,
                   proxyMap, netVars>>

\* #startHealthMonitors asks neither whether the session is still there nor
\* whether the map holds a monitor already.
MonitorsStart(t) ==
    /\ t \in Startups /\ at[t] = "visit"
    /\ step[t[1]] > Len(Plain) + Len(Visitors)
    /\ monitors' = [h \in Health |-> t[1]]
    /\ at' = [u \in Task |-> IF u = t THEN "done"
                             ELSE IF u[1] = t[1] THEN "timer" ELSE at[u]]
    /\ UNCHANGED <<runVars, connVars, step, answer, pending, healthy, halted,
                   visVars, proxyMap, netVars>>

-----------------------------------------------------------------------------
(* A health monitor: #tick() and the callbacks the channel gave it *)

\* The finally of #tick: schedule the next one, unless stopped.
Rest(t) == Goto(t, IF halted[t] THEN "ended" ELSE "timer")

Tick(t) ==
    /\ at[t] = "timer"
    /\ Goto(t, "checking")
    /\ UNCHANGED <<runVars, connVars, step, answer, pending, monVars, visVars,
                   proxyMap, netVars>>

\* #activateProxy and #deactivateProxy do nothing for this proxy.
NothingToDo(t, wanted) ==
    \/ stopped \/ conn = 0
    \/ (t[2] \in proxyMap) = wanted

\* The backend answers.  A healthy monitor, or one stopped during the check,
\* does nothing; otherwise #activateProxy is called.
CheckOk(t) ==
    /\ at[t] = "checking"
    /\ \/ /\ halted[t] \/ healthy[t]
          /\ Rest(t) /\ UNCHANGED healthy
       \/ /\ ~halted[t] /\ ~healthy[t]
          /\ \/ /\ NothingToDo(t, TRUE)
                /\ healthy' = [healthy EXCEPT ![t] = TRUE]
                /\ Rest(t)
             \/ /\ ~NothingToDo(t, TRUE)
                /\ Goto(t, "register")
                /\ UNCHANGED healthy
    /\ UNCHANGED <<runVars, connVars, step, answer, pending, monitors, halted,
                   visVars, proxyMap, netVars>>

\* The backend does not answer; maxFailed is its default, 1.
CheckFails(t) ==
    /\ at[t] = "checking"
    /\ \/ /\ halted[t] \/ ~healthy[t]
          /\ Rest(t) /\ UNCHANGED <<healthy, linkUp>>
       \/ /\ ~halted[t] /\ healthy[t]
          /\ \/ /\ NothingToDo(t, FALSE)
                /\ healthy' = [healthy EXCEPT ![t] = FALSE]
                /\ Rest(t) /\ UNCHANGED linkUp
             \/ /\ ~NothingToDo(t, FALSE)
                /\ Goto(t, "closing") /\ Spoil
                /\ UNCHANGED healthy
    /\ UNCHANGED <<runVars, conn, pool, reader, readErr, done, step, answer,
                   pending, monitors, halted, visVars, proxyMap, netVars>>

\* Back in #activateProxy and #tick.  A registration that was refused or
\* failed is no error to the monitor: only a throw leaves it unhealthy.
MonitorContinues(t) ==
    /\ t \in Monitors
    /\ \/ /\ at[t] = "gotResp"
          /\ proxyMap' = proxyMap \cup {t[2]}
          /\ healthy' = [healthy EXCEPT ![t] = TRUE]
       \/ /\ at[t] = "noResp"
          /\ healthy' = [healthy EXCEPT ![t] = TRUE]
          /\ UNCHANGED proxyMap
       \/ /\ at[t] = "threw"
          /\ UNCHANGED <<proxyMap, healthy>>
    /\ Rest(t)
    /\ UNCHANGED <<runVars, connVars, step, answer, pending, monitors, halted,
                   visVars, netVars>>

\* CloseProxy is written, and only then the proxy forgotten.
\* A plausible slip: the proxy is not forgotten.
MutantCloseWritten(t) ==
    /\ at[t] = "closing"
    /\ srv' = srv \ {t[2]}
    /\ healthy' = [healthy EXCEPT ![t] = FALSE]
    /\ Rest(t)
    /\ UNCHANGED <<runVars, connVars, step, answer, pending, monitors, halted,
                   visVars, proxyMap, toClient>>
CloseWritten(t) ==
    /\ at[t] = "closing"
    /\ srv' = srv \ {t[2]}
    /\ proxyMap' = proxyMap \ {t[2]}
    /\ healthy' = [healthy EXCEPT ![t] = FALSE]
    /\ Rest(t)
    /\ UNCHANGED <<runVars, connVars, step, answer, pending, monitors, halted,
                   visVars, toClient>>

CloseWriteFails(t) ==
    /\ at[t] = "closing" /\ ~linkUp
    /\ Rest(t)
    /\ UNCHANGED <<runVars, connVars, step, answer, pending, monVars, visVars,
                   proxyMap, netVars>>

-----------------------------------------------------------------------------
(* The network and the server *)

LinkLost ==
    /\ linkUp
    /\ linkUp' = FALSE
    /\ srv' = {} /\ toClient' = <<>>
    /\ UNCHANGED <<runVars, conn, pool, reader, readErr, done, regVars,
                   monVars, visVars, proxyMap>>

ServerCloses(n) ==
    /\ linkUp /\ n \in srv
    /\ EarlyClose \/ n \in proxyMap
    /\ srv' = srv \ {n}
    /\ toClient' = Append(toClient, Close(n))
    /\ UNCHANGED <<runVars, connVars, regVars, monVars, visVars, proxyMap>>

-----------------------------------------------------------------------------
(* The event loop.  A task between two awaits runs alone.  What it wakes are  *)
(* microtasks, which all run before the next event: the tasks with an answer, *)
(* the read loop with the messages that are already there or with the         *)
(* rejection of a closed reader, and #connect() when its session is over.     *)

InRun(t) == \/ at[t] = "register"
            \/ at[t] = "visit" /\ step[t[1]] <= Len(Plain) + Len(Visitors)
HasAnswer(t) == at[t] = "awaiting" /\ answer[t] # "none"
Woken(t) == at[t] \in {"gotResp", "noResp", "threw", "visit"} \/ HasAnswer(t)

RunOn(t) == \/ Register(t)
            \/ t \in Startups /\ (VisitorsBegin(t) \/ VisitorListens(t))
WakeUp(t) == \/ Answered(t)
             \/ t \in Startups /\ (StartupContinues(t) \/ MonitorsStart(t))
             \/ t \in Monitors /\ MonitorContinues(t)
Event(t) == \/ WriteOk(t) \/ WriteFails(t) \/ RespTimeout(t)
            \/ HookReturns(t) \/ HookThrows(t)
            \/ t \in Startups /\ (VisitorReady(t) \/ VisitorFails(t))
            \/ t \in Monitors /\ (\/ Tick(t) \/ CheckOk(t) \/ CheckFails(t)
                                  \/ CloseWritten(t) \/ CloseWriteFails(t))
RunEvent == \/ Run \/ ReconnectHook \/ Wake
            \/ DialFails \/ DialOk \/ DialTooLate
            \/ LoginOk \/ SessionStarts \/ SetupFails
ReaderClosed == reader = "closed" /\ ReadLoopFails
ReaderBroken == reader = "reading" /\ ReadLoopFails

\* Microtasks run in the order they were queued.  stop() and the finally
\* reject the registrations before they close the reader, so their catch runs
\* before that of the read loop sets controlReadError.
ReadRejects == ReaderClosed /\ \A t \in Task : ~HasAnswer(t)

\* From the catch of the read loop to the finally of #connect() it takes three
\* microtasks (two races and an await), and from the catch of the last
\* registration to #startHealthMonitors as many, queued before them.  Every
\* further proxy to register takes one more: with several, either is first.
ConnectReturns ==
    SessionEnds /\ (Len(Plain) > 1 \/ \A t \in Startups : ~Woken(t))

Next ==
    \/ \E t \in Task : RunOn(t)
    \/ /\ \A t \in Task : ~InRun(t)
       /\ \/ \E t \in Task : WakeUp(t)
          \/ ReadMsg \/ ReadRejects \/ ConnectReturns
    \/ /\ \A t \in Task : ~InRun(t) /\ ~Woken(t)
       /\ reader # "closed" /\ ~SessionOver
       /\ \/ \E t \in Task : Event(t)
          \/ RunEvent \/ Stop \/ HeartbeatFails \/ ReaderBroken
          \/ LinkLost \/ \E n \in Name : ServerCloses(n)

Safety == Init /\ [][Next]_vars

\* Timers fire, hooks settle, writes complete or fail, and a read that can
\* return does.  Nothing obliges the server, the network, a backend or the
\* caller of stop() to do anything.
Fairness ==
    /\ WF_vars(RunEvent) /\ WF_vars(SessionEnds)
    /\ WF_vars(ReadMsg) /\ WF_vars(ReaderClosed)
    /\ WF_vars(~linkUp /\ ReaderBroken) /\ WF_vars(~linkUp /\ HeartbeatFails)
    /\ \A t \in Task : WF_vars(RunOn(t)) /\ WF_vars(WakeUp(t)) /\ WF_vars(Event(t))
Spec == Safety /\ Fairness

-----------------------------------------------------------------------------
TypeOK ==
    /\ phase \in {"idle", "dialing", "login", "crypto", "up", "reconnectHook",
                  "backoff"} \cup Returned
    /\ {stopped, linkUp, pool, readErr} \subseteq BOOLEAN
    /\ {attempt, failures} \subseteq Nat
    /\ {session, conn} \subseteq 0..MaxSessions
    /\ reader \in {"off", "reading", "deaf", "closed"}
    /\ done \in {"none", "rejected", "resolved"}
    /\ at \in [Task -> At]
    /\ step \in [Session -> 1..(Len(Plain) + Len(Visitors) + 1)]
    /\ answer \in [Task -> {"none", "ok", "error", "rejected"}]
    /\ pending \in [Name -> Task \cup {NoTask}]
    /\ proxyMap \subseteq Name /\ srv \subseteq Name
    /\ monitors \in [Health -> 0..MaxSessions]
    /\ healthy \in [Monitors -> BOOLEAN] /\ halted \in [Monitors -> BOOLEAN]
    /\ visitors \subseteq Runtime
    /\ listener \in [Runtime -> {"none", "starting", "open", "stopped"}]

\* A registration waits exactly as long as an entry with its name leads to
\* it, and only while there is a connection the answer could come from.  So
\* no path through the answers, the timer, the catch that deletes by name, the
\* end of a session and stop() forgets a waiter or strands its entry, which
\* would refuse the name to the next session ("already pending").
WaitersReachable ==
    /\ \A t \in Task :
           LET waits == at[t] \in {"writing", "awaiting"} /\ answer[t] = "none"
           IN  waits => pending[NameOf(t)] = t
    /\ \A n \in Name :
           pending[n] # NoTask =>
               /\ conn # 0
               /\ at[pending[n]] \in {"writing", "awaiting"}
               /\ answer[pending[n]] = "none"
               /\ NameOf(pending[n]) = n

\* Every visitor socket that is bound, or is about to be, belongs to a runtime
\* that the next #stopVisitors stops, also when the startup task of an ended
\* session and that of the current one overlap.
ListenersTracked ==
    \A r \in Runtime : listener[r] \in {"starting", "open"} => r \in visitors

\* Between sessions, and once run() has ended, the channel holds no connection
\* and no live pool, also when stop() came while the encryption was set up and
\* #connect() went on to create both.
NothingHeld ==
    phase \notin {"login", "crypto", "up"} => conn = 0 /\ ~linkUp /\ ~pool

\* On a live session the client only offers work connections a proxy the
\* server still holds, unless the news of its closing is on the way.
NoPhantom ==
    (phase = "up" /\ linkUp) =>
        \A n \in proxyMap :
            n \in srv \/ \E i \in DOMAIN toClient : toClient[i] = Close(n)

\* When nothing is on the way on a live session, client and server agree on
\* the registered proxies: no name is held by the server, as the source of
\* work connections the pool would refuse, that the client gave up on.
Agreement ==
    (/\ phase = "up" /\ linkUp /\ toClient = <<>>
     /\ \A t \in Task : at[t] \in RestAt) => srv = proxyMap

\* run() ends after stop(), whatever it was waiting for.
StopEnds == (stopped /\ phase # "idle") ~> (phase \in Returned)

\* The startup task of every session comes to an end, also when the session
\* ended under it: no registration waits forever.
StartupSettles ==
    \A s \in Session :
        (at[<<s, "startup">>] \notin RestAt)
            ~> (at[<<s, "startup">>] \in {"done", "failed"})

\* A session does not outlive its connection.
LossDetected == (phase = "up" /\ ~linkUp) ~> (phase # "up")

-----------------------------------------------------------------------------
(* What a comment or a test of the repository says, and the code does not do *)

\* "Runs indefinitely (reconnects on disconnect)", with a limit on retries:
\* run() gives up only after more than Retries failures in a row.
GivesUpLate == phase = "gaveUp" => failures > Retries

\* "Graceful shutdown": once run() has returned after stop() and every task
\* is at rest, no visitor accepts connections and no monitor is scheduled.
\* A startup that waits for a hook when stop() comes starts both afterwards.
StopIsFinal ==
    (phase = "returned" /\ Quiet) =>
        /\ \A r \in Runtime : listener[r] # "open"
        /\ \A t \in Monitors : at[t] # "timer"
=============================================================================
