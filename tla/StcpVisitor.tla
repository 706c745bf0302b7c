----------------------------- MODULE StcpVisitor -----------------------------
(***************************************************************************)
(* One STCP visitor (src/visitor/stcp.ts): a local listener, and for each  *)
(* user who connects to it an async function that dials the frp server,    *)
(* performs a handshake and joins the two connections.  The actions are    *)
(* the stretches between two awaits; stop() may come between any of them,  *)
(* and either peer may close its connection.                               *)
(***************************************************************************)
EXTENDS Naturals

CONSTANT Conn   \* places for user connections, each used again and again

VARIABLES
    opts,            \* the options that matter, never changed: see Options
    listener,        \* the listening socket, as the operating system sees it
    server,          \* this.server is set
    stopped,         \* this.stopped
    sockets,         \* this.sockets
    visitorSockets,  \* this.visitorSockets, by user connection
    pc,              \* the await at which #handleUserConn is suspended
    user,            \* the user's socket
    raw,             \* the connection to the frp server
    unheard          \* destroy(err) was called on a socket without a listener

vars == <<opts, listener, server, stopped, sockets, visitorSockets, pc, user, raw,
          unheard>>

\* wireProtocol is 'v2', which writes a magic first; transport.useEncryption;
\* openConnection gives a stream of the mux session.
Options == [v2 : BOOLEAN, encrypted : BOOLEAN, mux : BOOLEAN]

Handshake == {"magic", "key", "announcing", "reading"}
Pc == {"idle", "dialing", "encrypting", "piping", "deaf", "failed", "ended"}
      \cup Handshake

TypeOK ==
    /\ opts \in Options
    /\ listener \in {"none", "starting", "open", "closed"}
    /\ server \in BOOLEAN /\ stopped \in BOOLEAN /\ unheard \in BOOLEAN
    /\ sockets \subseteq Conn
    /\ visitorSockets \subseteq sockets
    /\ pc \in [Conn -> Pc]
    /\ user \in [Conn -> {"none", "arriving", "open", "destroyed"}]
    /\ raw \in [Conn -> {"none", "open", "destroyed"}]

Init ==
    /\ opts \in Options
    /\ listener = "none"
    /\ server = FALSE /\ stopped = FALSE /\ unheard = FALSE
    /\ sockets = {} /\ visitorSockets = {}
    /\ pc = [c \in Conn |-> "idle"]
    /\ user = [c \in Conn |-> "none"]
    /\ raw = [c \in Conn |-> "none"]

connVars == <<opts, sockets, visitorSockets, pc, user, raw, unheard>>
listenVars == <<opts, listener, server, stopped>>

Goto(c, to) == pc' = [pc EXCEPT ![c] = to]
-----------------------------------------------------------------------------
(* The listener.                                                             *)

\* start(), which the channel calls once, before any stop().
Start ==
    /\ listener = "none"
    /\ listener' = "starting" /\ server' = TRUE
    /\ UNCHANGED <<stopped, connVars>>

ListenFails ==
    /\ listener = "starting"
    /\ listener' = "closed" /\ server' = FALSE
    /\ UNCHANGED <<stopped, connVars>>

\* The listen callback.  A stop() in the meantime called close() on a server
\* that did not listen yet.
Listening ==
    /\ listener = "starting"
    /\ listener' = IF stopped THEN "closed" ELSE "open"
    /\ server' = (server /\ ~stopped)
    /\ UNCHANGED <<stopped, connVars>>

\* A plausible slip: stop() closes the server's side only.
MutantStop ==
    /\ listener # "none"
    /\ stopped' = TRUE
    /\ raw' = [c \in Conn |->
                  IF c \in visitorSockets THEN "destroyed" ELSE raw[c]]
    /\ sockets' = {} /\ visitorSockets' = {}
    /\ listener' = IF server /\ listener = "open" THEN "closed" ELSE listener
    /\ server' = FALSE
    /\ UNCHANGED <<opts, pc, user, unheard>>

Stop ==
    /\ listener # "none"
    /\ stopped' = TRUE
    /\ user' = [c \in Conn |-> IF c \in sockets THEN "destroyed" ELSE user[c]]
    /\ raw' = [c \in Conn |->
                  IF c \in visitorSockets THEN "destroyed" ELSE raw[c]]
    /\ sockets' = {} /\ visitorSockets' = {}
    /\ listener' = IF server /\ listener = "open" THEN "closed" ELSE listener
    /\ server' = FALSE
    /\ UNCHANGED <<opts, pc, unheard>>
-----------------------------------------------------------------------------
(* Users and the network.                                                    *)

\* A user is accepted by the operating system; the callback comes later.
Connect(c) ==
    /\ listener = "open"
    /\ pc[c] = "idle" /\ user[c] \in {"none", "destroyed"}
    /\ user' = [user EXCEPT ![c] = "arriving"]
    /\ UNCHANGED <<listenVars, sockets, visitorSockets, pc, raw, unheard>>

\* The listener was closed with the user still in its backlog.
Refused(c) ==
    /\ listener = "closed" /\ user[c] = "arriving"
    /\ user' = [user EXCEPT ![c] = "destroyed"]
    /\ UNCHANGED <<listenVars, sockets, visitorSockets, pc, raw, unheard>>

UserCloses(c) ==
    /\ user[c] = "open"
    /\ user' = [user EXCEPT ![c] = "destroyed"]
    /\ UNCHANGED <<listenVars, sockets, visitorSockets, pc, raw, unheard>>

RawCloses(c) ==
    /\ raw[c] = "open"
    /\ raw' = [raw EXCEPT ![c] = "destroyed"]
    /\ UNCHANGED <<listenVars, sockets, visitorSockets, pc, user, unheard>>
-----------------------------------------------------------------------------
(* One user connection: #handleUserConn, #proxyUserConn, #dialVisitorConn.   *)

Accept(c) ==
    /\ user[c] = "arriving"
    /\ \/ /\ stopped
          /\ user' = [user EXCEPT ![c] = "destroyed"]
          /\ UNCHANGED <<sockets, pc, raw>>
       \/ /\ ~stopped
          /\ user' = [user EXCEPT ![c] = "open"]
          /\ sockets' = sockets \cup {c}
          /\ raw' = [raw EXCEPT ![c] = "none"]
          /\ Goto(c, "dialing")
    /\ UNCHANGED <<listenVars, visitorSockets, unheard>>

DialFails(c) ==
    /\ pc[c] = "dialing"
    /\ Goto(c, "failed")
    /\ UNCHANGED <<listenVars, sockets, visitorSockets, user, raw, unheard>>

\* A plausible slip: the catch of the dial forgets the connection without
\* destroying it.
MutantAbandon(c) ==
    /\ visitorSockets' = visitorSockets \ {c}
    /\ Goto(c, "failed")
    /\ UNCHANGED raw

\* The catch of #dialVisitorConn.  connectTo leaves its error listener on a
\* TCP or TLS socket; a stream of the mux session has none.
Abandon(c) ==
    /\ visitorSockets' = visitorSockets \ {c}
    /\ raw' = [raw EXCEPT ![c] = "destroyed"]
    /\ Goto(c, "failed")

\* A plausible slip: the dial does not look at stopped when it is done.
MutantDialOk(c) ==
    /\ pc[c] = "dialing"
    /\ visitorSockets' = visitorSockets \cup {c}
    /\ raw' = [raw EXCEPT ![c] = "open"]
    /\ Goto(c, IF opts.v2 THEN "magic" ELSE "key")
    /\ UNCHANGED <<listenVars, sockets, user, unheard>>

DialOk(c) ==
    /\ pc[c] = "dialing"
    /\ \/ /\ stopped
          /\ Abandon(c)
          /\ unheard' = (unheard \/ opts.mux)
       \/ /\ ~stopped
          /\ visitorSockets' = visitorSockets \cup {c}
          /\ raw' = [raw EXCEPT ![c] = "open"]
          /\ Goto(c, IF opts.v2 THEN "magic" ELSE "key")
          /\ UNCHANGED unheard
    /\ UNCHANGED <<listenVars, sockets, user>>

\* A step of the handshake succeeds.  Signing needs no connection.
Proceed(c) ==
    /\ \/ pc[c] = "magic" /\ raw[c] = "open" /\ Goto(c, "key")
       \/ pc[c] = "key" /\ Goto(c, "announcing")
       \/ pc[c] = "announcing" /\ raw[c] = "open" /\ Goto(c, "reading")
       \/ /\ pc[c] = "reading" /\ raw[c] = "open" /\ opts.encrypted
          /\ Goto(c, "encrypting")
    /\ UNCHANGED <<listenVars, sockets, visitorSockets, user, raw, unheard>>

\* A write or the read fails, or the server answers with an error.  A mux
\* stream that its peer has closed is not destroyed yet, and emits the error.
HandshakeFails(c) ==
    /\ \/ pc[c] \in {"magic", "announcing"} /\ raw[c] = "destroyed"
       \/ pc[c] = "reading"
    /\ Abandon(c)
    /\ unheard' = (unheard \/ (opts.mux /\ ~stopped))
    /\ UNCHANGED <<listenVars, sockets, user>>

\* The last await of the dial is over: the read, or deriving the key.
DialDone(c) ==
    \/ pc[c] = "reading" /\ raw[c] = "open" /\ ~opts.encrypted
    \/ pc[c] = "encrypting"

\* A TCP connection that closes while the key is derived has its close event
\* when nobody listens, unless data is left to be read; a mux stream keeps its
\* end until it is read.
JoinPipe(c) ==
    \/ Goto(c, "piping")
    \/ raw[c] = "destroyed" /\ ~opts.mux /\ Goto(c, "deaf")

\* A plausible slip: the early return of #proxyUserConn leaves the entry in
\* the set.
MutantDialed(c) ==
    /\ DialDone(c)
    /\ \/ /\ stopped \/ user[c] = "destroyed"
          /\ raw' = [raw EXCEPT ![c] = "destroyed"]
          /\ Goto(c, "ended")
       \/ /\ ~stopped /\ user[c] = "open"
          /\ JoinPipe(c)
          /\ UNCHANGED raw
    /\ UNCHANGED <<listenVars, sockets, visitorSockets, user, unheard>>

\* #proxyUserConn goes on.
Dialed(c) ==
    /\ DialDone(c)
    /\ \/ /\ stopped \/ user[c] = "destroyed"
          /\ raw' = [raw EXCEPT ![c] = "destroyed"]
          /\ visitorSockets' = visitorSockets \ {c}
          /\ Goto(c, "ended")
       \/ /\ ~stopped /\ user[c] = "open"
          /\ JoinPipe(c)
          /\ UNCHANGED <<raw, visitorSockets>>
    /\ UNCHANGED <<listenVars, sockets, user, unheard>>

\* pipeConn resolves, and the finally of #proxyUserConn runs.
Unpipe(c) ==
    /\ visitorSockets' = visitorSockets \ {c}
    /\ user' = [user EXCEPT ![c] = "destroyed"]
    /\ raw' = [raw EXCEPT ![c] = "destroyed"]
    /\ Goto(c, "ended")
    /\ UNCHANGED <<listenVars, sockets, unheard>>

PipeEnds(c) ==
    /\ \/ pc[c] = "piping" /\ (user[c] = "destroyed" \/ raw[c] = "destroyed")
       \/ pc[c] = "deaf" /\ user[c] = "destroyed"
    /\ Unpipe(c)

\* The user happens to send something, which cannot be written.
PipeWriteFails(c) ==
    /\ pc[c] = "deaf" /\ user[c] = "open"
    /\ Unpipe(c)

\* The catch of #handleUserConn.  destroy(err) makes the socket emit an error
\* unless it is destroyed already; pipeConn, which has a listener, never
\* rejects.
Catch(c) ==
    /\ pc[c] = "failed"
    /\ user' = [user EXCEPT ![c] = "destroyed"]
    /\ unheard' = (unheard \/ user[c] = "open")
    /\ Goto(c, "ended")
    /\ UNCHANGED <<listenVars, sockets, visitorSockets, raw>>

Finally(c) ==
    /\ pc[c] = "ended"
    /\ sockets' = sockets \ {c}
    /\ Goto(c, "idle")
    /\ UNCHANGED <<listenVars, visitorSockets, user, raw, unheard>>

ConnStep(c) ==
    \/ Connect(c) \/ Refused(c) \/ UserCloses(c) \/ RawCloses(c)
    \/ Accept(c) \/ DialFails(c) \/ DialOk(c) \/ Proceed(c)
    \/ HandshakeFails(c) \/ Dialed(c) \/ PipeEnds(c) \/ PipeWriteFails(c)
    \/ Catch(c) \/ Finally(c)

Next ==
    \/ Start \/ ListenFails \/ Listening \/ Stop
    \/ \E c \in Conn : ConnStep(c)

Safety == Init /\ [][Next]_vars

\* Dials, writes and key derivations settle, a read does when its connection
\* is destroyed, and a pipe ends when both of its ends are.  Nothing is expected
\* of a server or a user who keeps a connection open, or does not read from it.
Settles(c) ==
    \/ Refused(c) \/ Accept(c) \/ DialFails(c) \/ DialOk(c)
    \/ pc[c] # "reading" /\ (Proceed(c) \/ Dialed(c))
    \/ raw[c] = "destroyed" /\ HandshakeFails(c)
    \/ raw[c] = "destroyed" /\ user[c] = "destroyed" /\ PipeEnds(c)
    \/ Catch(c) \/ Finally(c)

Fairness == /\ WF_vars(ListenFails \/ Listening)
            /\ \A c \in Conn : WF_vars(Settles(c))

Spec == Safety /\ Fairness
-----------------------------------------------------------------------------
\* What is open: the listener through server, the users and the connections to
\* the frp server through the two sets.
OpenTracked ==
    /\ listener = "open" => server
    /\ \A c \in Conn : /\ user[c] = "open" => c \in sockets
                       /\ raw[c] = "open" => c \in visitorSockets

\* Once stopped, nothing is open, and a dial or a listen that was under way
\* opens nothing any more.
NothingAfterStop ==
    stopped => /\ listener # "open"
               /\ \A c \in Conn : user[c] # "open" /\ raw[c] # "open"

\* The sets hold connections in progress only.
NoLeftover ==
    \A c \in Conn : /\ c \in sockets => pc[c] # "idle"
                    /\ c \in visitorSockets => pc[c] \notin {"idle", "ended"}

\* The sets are neither too small nor too large: stop() reaches every socket that
\* is open, whatever failed on the way, and the sets do not grow with the number
\* of users who have come and gone.
SocketsTracked == OpenTracked /\ NoLeftover

\* After stop() every function that serves a user comes to its end, at
\* whichever await it was.
StopDrains == \A c \in Conn : stopped ~> pc[c] = "idle" /\ user[c] # "arriving"

\* Destroying a user's socket after a failed dial is no failure of the client:
\* the comment at stcp.ts:106 says it is ignored.
ErrorsIgnored == ~unheard
=============================================================================
