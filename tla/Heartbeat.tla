------------------------------ MODULE Heartbeat ------------------------------
(***************************************************************************)
(* The heartbeat of the control connection, over the sessions of a client: *)
(* #heartbeat, #sendHeartbeats, #watchHeartbeatTimeout and the Pongs of    *)
(* the read loop (src/control/channel.ts), with its options                *)
(* (src/types.ts).                                                         *)
(*                                                                         *)
(* The sender of a session asks for credentials, writes a Ping and sleeps; *)
(* the watcher compares lastPong with the clock every second.  lastPong is *)
(* set before the login, and the login asks for credentials, too.  Nothing *)
(* cancels a sender that waits for them when its session ends.             *)
(***************************************************************************)
EXTENDS ClientAuth

CONSTANTS
    MaxSessions,    \* bound: connections made
    MaxNow,         \* bound: length of a run
    Settings,       \* the configurations to choose from
    DefaultInterval, DefaultTimeout,    \* 30 s and 90 s without the mux
    Poll,           \* the watcher's sleep: 1 s
    LoginTime,      \* no login takes longer than this
    Delay           \* an answering server sends a Pong within this time

Session == 1..MaxSessions
Login == <<"login", 0>>
Ping(s) == <<"ping", s>>
Work == {c \in Caller : c[1] = "work"}

Setting == [mux : BOOLEAN, interval : Int \cup {Unset}, timeout : Int \cup {Unset},
            oldInterval : Int \cup {Unset}, oldTimeout : Int \cup {Unset}]

ASSUME HeartbeatAssumption ==
    /\ MaxSessions \in Nat /\ MaxNow \in Nat
    /\ Settings \subseteq Setting
    /\ DefaultInterval \in Nat \ {0} /\ DefaultTimeout \in Nat \ {0}
    /\ Poll \in Nat \ {0} /\ LoginTime \in Nat /\ Delay \in Nat
    /\ Login \in Caller /\ \A s \in Session : Ping(s) \in Caller

VARIABLES
    interval, timeout,  \* the options in use; never changed
    phase,      \* the await of #connect(): "down", "hello", "login", "answer",
                \* and "up" with the heartbeat running
    session,    \* connections made so far, the current one last
    conn,       \* this.conn, a session; 0 is null
    lastPong,
    sender,     \* per session: "none", "asking", "sleeping", "gone"
    target,     \* the connection the sender's next Ping is for
    wakeAt,     \* the end of its sleep
    watchAt,    \* the end of the watcher's sleep
    unanswered, \* when the Pings were sent that the server is to answer
    silent,     \* the server has ceased to answer
    why,        \* history: what ended the last session
    pinged      \* history: <<sender's session, connection>> of each Ping

senderVars == <<sender, target, wakeAt, pinged>>
linkVars == <<unanswered, silent>>
sessionVars == <<phase, session, conn, lastPong, watchAt, why>>
options == <<interval, timeout>>
vars == <<now, authVars, options, senderVars, linkVars, sessionVars>>
-----------------------------------------------------------------------------
(* connectionOptions.                                                        *)

Either(a, b) == IF a = Unset THEN b ELSE a
\* A plausible slip: an option that is not there is not looked for.
MutantNonZero(value, fallback) == IF value = 0 THEN fallback ELSE value

NonZero(value, fallback) == IF value \in {Unset, 0} THEN fallback ELSE value

IntervalOf(cfg) == NonZero(Either(cfg.interval, cfg.oldInterval),
                           IF cfg.mux THEN -1 ELSE DefaultInterval)
TimeoutOf(cfg) == NonZero(Either(cfg.timeout, cfg.oldTimeout),
                          IF cfg.mux THEN -1 ELSE DefaultTimeout)

Beating == interval > 0
Watching == Beating /\ timeout > 0

Init ==
    /\ AuthInit
    /\ \E cfg \in Settings : interval = IntervalOf(cfg) /\ timeout = TimeoutOf(cfg)
    /\ phase = "down" /\ session = 0 /\ conn = 0
    /\ lastPong = 0 /\ watchAt = 0 /\ why = "none"
    /\ sender = [s \in Session |-> "none"]
    /\ target = [s \in Session |-> 0]
    /\ wakeAt = [s \in Session |-> 0]
    /\ unanswered = {} /\ silent = FALSE /\ pinged = {}
-----------------------------------------------------------------------------
(* #connect, as far as the heartbeat has to do with it.                      *)

\* A plausible slip: lastPong is that of the session before.
MutantDial ==
    /\ phase = "down" /\ session < MaxSessions
    /\ phase' = "hello" /\ session' = session + 1 /\ conn' = session'
    /\ silent' = FALSE
    /\ UNCHANGED <<now, authVars, options, senderVars, unanswered, lastPong, watchAt,
                   why>>

Dial ==
    /\ phase = "down" /\ session < MaxSessions
    /\ phase' = "hello" /\ session' = session + 1 /\ conn' = session'
    /\ lastPong' = now
    /\ silent' = FALSE
    /\ UNCHANGED <<now, authVars, options, senderVars, unanswered, watchAt, why>>

AskForLogin ==
    /\ phase = "hello"
    /\ phase' = "login"
    /\ Ask(Login)
    /\ UNCHANGED <<now, options, senderVars, linkVars, session, conn, lastPong,
                   watchAt, why>>

\* The caller has its answer and goes on.
GoesOn(c) == /\ st' = [st EXCEPT ![c] = "idle"]
             /\ UNCHANGED <<method, scopes, cacheVars, asked>>

SendLogin ==
    /\ phase = "login" /\ st[Login] = "served"
    /\ phase' = "answer"
    /\ GoesOn(Login)
    /\ UNCHANGED <<now, options, senderVars, linkVars, session, conn, lastPong,
                   watchAt, why>>

\* The sender's next turn: this.conn is read before ping() is called.
NextPing(s) ==
    /\ sender' = [sender EXCEPT ![s] = "asking"]
    /\ target' = [target EXCEPT ![s] = conn]
    /\ Ask(Ping(s))
    /\ wakeAt' = [wakeAt EXCEPT ![s] = 0]
    /\ UNCHANGED pinged

\* The session is set up, and #heartbeat called.
LoginOk ==
    /\ phase = "answer"
    /\ phase' = "up"
    /\ watchAt' = now + Poll
    /\ IF Beating THEN NextPing(session) ELSE UNCHANGED <<authVars, senderVars>>
    /\ UNCHANGED <<now, options, linkVars, session, conn, lastPong, why>>

\* The finally of #connect: a sleep ends and with it its loop; a sender that
\* waits for credentials goes on waiting.
EndSession(reason) ==
    /\ phase' = "down" /\ conn' = 0 /\ why' = reason
    /\ sender' = [s \in Session |->
                    IF sender[s] = "sleeping" THEN "gone" ELSE sender[s]]
    /\ wakeAt' = [s \in Session |-> 0] /\ watchAt' = 0 /\ unanswered' = {}
    /\ UNCHANGED <<session, lastPong, silent, options, target, pinged>>

\* A login whose connection is lost learns of it when it writes or reads.
LoginFails ==
    /\ \/ phase \in {"hello", "answer"} /\ UNCHANGED authVars
       \/ /\ phase = "login" /\ st[Login] \in {"served", "refused"}
          /\ GoesOn(Login)
    /\ EndSession("login")
    /\ UNCHANGED now

\* The read loop, the startup, or a Pong with an error.
SessionFails ==
    /\ phase = "up"
    /\ EndSession("lost")
    /\ UNCHANGED <<now, authVars>>
-----------------------------------------------------------------------------
(* #sendHeartbeats.                                                          *)

\* A plausible slip: the connection is looked up when the token has come.
MutantSendPing(s) ==
    /\ sender[s] = "asking" /\ st[Ping(s)] = "served"
    /\ phase = "up"
    /\ sender' = [sender EXCEPT ![s] = "sleeping"]
    /\ wakeAt' = [wakeAt EXCEPT ![s] = now + interval]
    /\ unanswered' = unanswered \cup {now}
    /\ pinged' = pinged \cup {<<s, conn>>}
    /\ GoesOn(Ping(s))
    /\ UNCHANGED <<now, options, target, silent, sessionVars>>

\* The Ping is written to the connection it is for, if that is still there.
SendPing(s) ==
    /\ sender[s] = "asking" /\ st[Ping(s)] = "served"
    /\ target[s] = conn
    /\ sender' = [sender EXCEPT ![s] = "sleeping"]
    /\ wakeAt' = [wakeAt EXCEPT ![s] = now + interval]
    /\ unanswered' = unanswered \cup {now}
    /\ pinged' = pinged \cup {<<s, target[s]>>}
    /\ GoesOn(Ping(s))
    /\ UNCHANGED <<now, options, target, silent, sessionVars>>

\* No token, or a connection that is closed by now: nobody minds if the session
\* of this sender is over.
SendPingFails(s) ==
    /\ sender[s] = "asking"
    /\ \/ st[Ping(s)] = "refused"
       \/ st[Ping(s)] = "served" /\ target[s] # conn
    /\ GoesOn(Ping(s))
    /\ IF phase = "up" /\ session = s
       THEN /\ phase' = "down" /\ conn' = 0 /\ why' = "ping"
            /\ watchAt' = 0 /\ unanswered' = {}
            /\ UNCHANGED <<session, lastPong>>
       ELSE UNCHANGED <<sessionVars, unanswered>>
    /\ sender' = [sender EXCEPT ![s] = "gone"]
    /\ UNCHANGED <<now, options, silent, target, wakeAt, pinged>>

SenderWakes(s) ==
    /\ sender[s] = "sleeping" /\ now >= wakeAt[s]
    /\ NextPing(s)
    /\ UNCHANGED <<now, options, linkVars, sessionVars>>
-----------------------------------------------------------------------------
(* #watchHeartbeatTimeout, and the server.                                   *)

Overdue == now - lastPong > timeout

Watch ==
    /\ phase = "up" /\ Watching /\ now >= watchAt
    /\ \/ ~Overdue /\ watchAt' = now + Poll
          /\ UNCHANGED <<phase, session, conn, lastPong, why, options, senderVars,
                         linkVars>>
       \/ Overdue /\ EndSession("timeout")
    /\ UNCHANGED <<now, authVars>>

\* The read loop gets a Pong; it does not ask to which Ping.
Pong(t) ==
    /\ phase = "up" /\ t \in unanswered /\ ~silent
    /\ unanswered' = unanswered \ {t}
    /\ lastPong' = now
    /\ UNCHANGED <<now, authVars, options, senderVars, silent, phase, session, conn,
                   watchAt, why>>

ServerFallsSilent ==
    /\ phase = "up" /\ ~silent
    /\ silent' = TRUE
    /\ UNCHANGED <<now, authVars, options, senderVars, unanswered, sessionVars>>
-----------------------------------------------------------------------------
(* Work connections of the pool, and time.                                   *)

WorkerAsks(c) ==
    /\ phase = "up"
    /\ Ask(c)
    /\ UNCHANGED <<now, options, senderVars, linkVars, sessionVars>>

WorkerGoesOn(c) ==
    /\ st[c] \in {"served", "refused"}
    /\ GoesOn(c)
    /\ UNCHANGED <<now, options, senderVars, linkVars, sessionVars>>

\* Timers fire when they are due, and what is assumed to take a limited time
\* takes no more.
Timely ==
    /\ AuthTimely
    /\ \A s \in Session : sender[s] = "sleeping" => now < wakeAt[s]
    /\ phase = "up" /\ Watching => now < watchAt
    /\ phase \in {"hello", "login", "answer"} => now < lastPong + LoginTime
    /\ ~silent /\ phase = "up" => \A t \in unanswered : now < t + Delay

Tick ==
    /\ now < MaxNow /\ Timely
    /\ now' = now + 1
    /\ UNCHANGED <<authVars, options, senderVars, linkVars, sessionVars>>

SettlesHere ==
    TokenSettles /\ UNCHANGED <<options, senderVars, linkVars, sessionVars>>

Next ==
    \/ Dial \/ AskForLogin \/ SendLogin \/ LoginOk \/ LoginFails \/ SessionFails
    \/ \E s \in Session : SendPing(s) \/ SendPingFails(s) \/ SenderWakes(s)
    \/ Watch \/ (\E t \in unanswered : Pong(t)) \/ ServerFallsSilent
    \/ \E c \in Work : WorkerAsks(c) \/ WorkerGoesOn(c)
    \/ SettlesHere \/ Tick

Spec == Init /\ [][Next]_vars
-----------------------------------------------------------------------------
TypeOK ==
    /\ AuthTypeOK
    /\ interval \in Int /\ timeout \in Int
    /\ phase \in {"down", "hello", "login", "answer", "up"}
    /\ session \in 0..MaxSessions /\ conn \in 0..MaxSessions
    /\ lastPong \in Nat /\ watchAt \in Nat
    /\ sender \in [Session -> {"none", "asking", "sleeping", "gone"}]
    /\ target \in [Session -> 0..MaxSessions] /\ wakeAt \in [Session -> Int]
    /\ unanswered \subseteq Nat /\ silent \in BOOLEAN
    /\ why \in {"none", "login", "lost", "ping", "timeout"}
    /\ pinged \subseteq Session \X (0..MaxSessions)

\* A timeout that leaves room for the longest time between two Pings, or for
\* the login, with the credentials of the Ping and its way to the server and back.
Patient == timeout >= Greater(LoginTime, interval) + FetchTime + Delay

\* No session of a server that answers its Pings is ended for a lack of Pongs,
\* if the timeout is patient.
AnsweringKept == Patient /\ why = "timeout" /\ phase = "down" => silent

\* A server that answers no more is noticed: the last Pong, or the beginning of
\* the session, is never further back than the timeout and one look at the clock.
SilenceNoticed ==
    phase = "up" /\ Watching =>
        now - lastPong <= Greater(timeout, LoginTime) + Poll

\* The timeout ends the sessions it is for, and no other.
TimeoutExact == AnsweringKept /\ SilenceNoticed

\* A Ping goes to the connection of its own session, however long its
\* credentials took and whatever has become of the session.
OwnSession == \A p \in pinged : p[1] = p[2]
=============================================================================
