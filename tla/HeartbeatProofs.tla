-------------------------- MODULE HeartbeatProofs --------------------------
(* For every set of callers, number of sessions, setting and time.           *)
EXTENDS Heartbeat, TLAPS

(* What a step does to the credentials: nothing, or one of five things.      *)
Asks == \E c \in Caller : Ask(c) /\ now' = now
GoOn == \E c \in Caller : /\ st[c] \in {"served", "refused"}
                          /\ GoesOn(c) /\ now' = now
Passes == /\ AuthTimely /\ now' = now + 1
          /\ UNCHANGED authVars

AuthStep == Asks \/ GoOn \/ TokenSettles \/ Passes \/ UNCHANGED <<now, authVars>>

\* A caller waits for a request that is under way, and never for long.
OneRequest ==
    /\ pending => requests # {}
    /\ requests # {} => pending
    /\ \A r1, r2 \in requests : r1 = r2
    /\ \A r \in requests : st[r] = "waiting"
    /\ requests # {} => method = "oidc"
    /\ method = "oidc" => \A c \in Caller : st[c] = "waiting" => requests # {}

ShortWaits == \A c \in Caller : st[c] = "waiting" =>
                  asked[c] <= now /\ now <= asked[c] + FetchTime

Cached == cachedUntil <= now \/ cachedUntil + Margin <= cachedGood + FetchTime

AuthInv == AuthTypeOK /\ OneRequest /\ ShortWaits /\ Cached

LEMMA AuthParts == AuthInv => TokensGood
  BY TimeAssumption
  DEF AuthInv, AuthTypeOK, OneRequest, Cached, TokensGood, SharedRequest, CacheHonest

LEMMA AuthStarts == AuthInit => AuthInv
<1> SUFFICES ASSUME AuthInit PROVE AuthInv
  OBVIOUS
<1>1. AuthTypeOK
  BY TimeAssumption DEF AuthInit, AuthTypeOK
<1>2. ShortWaits /\ Cached
  BY DEF AuthInit, ShortWaits, Cached
<1>3. OneRequest
  BY DEF AuthInit, OneRequest
<1> QED
  BY <1>1, <1>2, <1>3 DEF AuthInv

LEMMA AskKeeps ==
  ASSUME AuthInv, NEW c \in Caller, Ask(c), now' = now
  PROVE  AuthInv'
<1> USE TimeAssumption DEF AuthInv, AuthTypeOK
<1>1. \/ Serve(c)
      \/ method = "source" /\ Wait(c) /\ UNCHANGED cacheVars
      \/ method = "oidc" /\ pending /\ Wait(c) /\ UNCHANGED cacheVars
      \/ /\ method = "oidc" /\ ~pending /\ pending' = TRUE
         /\ requests' = requests \cup {c}
         /\ Wait(c) /\ UNCHANGED <<cachedUntil, cachedGood>>
  BY DEF Ask, AccessToken
<1>2. st[c] = "idle" /\ UNCHANGED <<method, scopes>>
  BY DEF Ask
<1>3. CASE Serve(c)
  BY <1>2, <1>3 DEF Serve, cacheVars, OneRequest, ShortWaits, Cached
<1>4. CASE method = "source" /\ Wait(c) /\ UNCHANGED cacheVars
  BY <1>2, <1>4 DEF Wait, cacheVars, OneRequest, ShortWaits, Cached
<1>5. CASE method = "oidc" /\ pending /\ Wait(c) /\ UNCHANGED cacheVars
  BY <1>2, <1>5 DEF Wait, cacheVars, OneRequest, ShortWaits, Cached
<1>6. CASE /\ method = "oidc" /\ ~pending /\ pending' = TRUE
           /\ requests' = requests \cup {c}
           /\ Wait(c) /\ UNCHANGED <<cachedUntil, cachedGood>>
  <2>1. requests' = {c}
    BY <1>6 DEF OneRequest
  <2>2. OneRequest'
    BY <1>2, <1>6, <2>1 DEF Wait, OneRequest
  <2>3. AuthTypeOK' /\ ShortWaits' /\ Cached'
    BY <1>2, <1>6 DEF Wait, ShortWaits, Cached
  <2> QED
    BY <2>2, <2>3
<1> QED
  BY <1>1, <1>3, <1>4, <1>5, <1>6

LEMMA GoOnKeeps ==
  ASSUME AuthInv, NEW c \in Caller, st[c] \in {"served", "refused"}, GoesOn(c),
         now' = now
  PROVE  AuthInv'
<1> USE DEF AuthInv, AuthTypeOK, GoesOn, cacheVars
<1>1. AuthTypeOK'
  OBVIOUS
<1>2. OneRequest'
  BY DEF OneRequest
<1>3. ShortWaits' /\ Cached'
  BY DEF ShortWaits, Cached
<1> QED
  BY <1>1, <1>2, <1>3

\* Whoever shared the request is settled with it.
LEMMA SettleKeeps ==
  ASSUME AuthInv, NEW r \in requests, NEW answer \in {"served", "refused"},
         Settle(r, answer)
  PROVE  /\ requests' = {} /\ OneRequest' /\ ShortWaits'
         /\ st' \in [Caller -> {"idle", "waiting", "served", "refused"}]
         /\ asked' \in [Caller -> Nat]
<1> USE DEF AuthInv, AuthTypeOK, OneRequest, Settle
<1>1. requests' = {}
  OBVIOUS
<1>2. \A c \in Caller : st'[c] # "waiting"
  OBVIOUS
<1>3. OneRequest' /\ ShortWaits'
  BY <1>1, <1>2 DEF ShortWaits
<1> QED
  BY <1>1, <1>3

LEMMA ArrivalKeeps ==
  ASSUME AuthInv, NEW r \in requests, TokenArrives(r)
  PROVE  AuthInv'
<1>1. /\ Settle(r, "served") /\ r \in Caller
      /\ now \in Nat /\ asked[r] \in Nat /\ now' = now
      /\ now <= asked[r] + FetchTime
  BY DEF TokenArrives, Settle, AuthInv, AuthTypeOK, OneRequest, ShortWaits
<1>2. PICK life \in Lives :
        IF life = Unset THEN UNCHANGED <<cachedUntil, cachedGood>>
        ELSE /\ cachedUntil' = now + Greater(0, life - Margin)
             /\ \E issued \in asked[r]..now : cachedGood' = issued + life
  BY DEF TokenArrives
<1>3. cachedUntil' \in Nat /\ cachedGood' \in Nat /\ Cached'
  <2>1. CASE life = Unset
    BY <1>1, <1>2, <2>1 DEF AuthInv, AuthTypeOK, Cached
  <2>2. CASE life # Unset
    <3>1. life \in Nat /\ Margin \in Nat /\ FetchTime \in Nat
      BY <2>2, TimeAssumption
    <3>2. PICK issued \in asked[r]..now : cachedGood' = issued + life
      BY <1>2, <2>2
    <3>3. /\ Greater(0, life - Margin) \in Nat
          /\ Greater(0, life - Margin) \in {0, life - Margin}
      BY <3>1 DEF Greater
    <3>4. cachedUntil' = now + Greater(0, life - Margin)
      BY <1>2, <2>2
    <3> QED
      BY <1>1, <3>1, <3>2, <3>3, <3>4 DEF Cached
  <2> QED
    BY <2>1, <2>2
<1>4. OneRequest' /\ ShortWaits' /\ requests' = {}
      /\ st' \in [Caller -> {"idle", "waiting", "served", "refused"}]
      /\ asked' \in [Caller -> Nat]
  BY <1>1, SettleKeeps
<1> QED
  BY <1>1, <1>3, <1>4 DEF AuthInv, AuthTypeOK, OneRequest, Settle

LEMMA AuthKeeps == ASSUME AuthInv, AuthStep PROVE AuthInv'
<1>1. CASE Asks
  BY <1>1, AskKeeps DEF Asks
<1>2. CASE GoOn
  BY <1>2, GoOnKeeps DEF GoOn
<1>3. CASE TokenSettles
  <2>1. ASSUME NEW r \in requests, FetchFails(r)
        PROVE  AuthInv'
    <3>1. OneRequest' /\ ShortWaits' /\ requests' = {}
          /\ st' \in [Caller -> {"idle", "waiting", "served", "refused"}]
          /\ asked' \in [Caller -> Nat]
      BY <2>1, SettleKeeps DEF FetchFails
    <3> QED
      BY <2>1, <3>1 DEF FetchFails, Settle, AuthInv, AuthTypeOK, Cached, OneRequest
  <2>2. ASSUME NEW c \in Caller, SourceSettles(c)
        PROVE  AuthInv'
    <3> USE <2>2 DEF SourceSettles, cacheVars, AuthInv, AuthTypeOK
    <3>1. AuthTypeOK'
      OBVIOUS
    <3>2. OneRequest'
      BY DEF OneRequest
    <3>3. ShortWaits' /\ Cached'
      BY DEF ShortWaits, Cached
    <3> QED
      BY <3>1, <3>2, <3>3
  <2> QED
    BY <1>3, <2>1, <2>2, ArrivalKeeps DEF TokenSettles
<1>4. CASE Passes
  <2> USE <1>4, TimeAssumption DEF Passes, AuthInv, AuthTypeOK, authVars, cacheVars
  <2>1. AuthTypeOK' /\ OneRequest'
    BY DEF OneRequest
  <2>2. ShortWaits'
    BY DEF ShortWaits, AuthTimely
  <2>3. Cached'
    BY DEF Cached
  <2> QED
    BY <2>1, <2>2, <2>3
<1>5. CASE UNCHANGED <<now, authVars>>
  BY <1>5 DEF authVars, cacheVars, AuthInv, AuthTypeOK, OneRequest, ShortWaits, Cached
<1> QED
  BY <1>1, <1>2, <1>3, <1>4, <1>5 DEF AuthStep

-----------------------------------------------------------------------------
(* Every step of the heartbeat is one of these for the credentials.          *)

LEMMA CallersKnown ==
  /\ Login \in Caller /\ Work \subseteq Caller
  /\ \A s \in Session : Ping(s) \in Caller /\ Ping(s) # Login /\ Ping(s) \notin Work
  /\ \A r, s \in Session : Ping(r) = Ping(s) => r = s
<1>1. Login \in Caller /\ \A s \in Session : Ping(s) \in Caller
  BY HeartbeatAssumption
<1> QED
  BY <1>1 DEF Login, Ping, Work

LEMMA StepsAuth == ASSUME TypeOK, phase # "down" => session \in Session, Next
  PROVE  AuthStep
<1> USE CallersKnown DEF AuthStep, TypeOK
<1>1. CASE \/ Dial \/ SessionFails \/ Watch \/ ServerFallsSilent
           \/ \E t \in unanswered : Pong(t)
  BY <1>1 DEF Dial, SessionFails, Watch, ServerFallsSilent, Pong
<1>2. CASE AskForLogin
  BY <1>2 DEF AskForLogin, Asks
<1>3. CASE SendLogin
  BY <1>3 DEF SendLogin, GoOn
<1>4. CASE LoginOk
  <2>1. CASE Beating
    BY <1>4, <2>1 DEF LoginOk, NextPing, Asks
  <2>2. CASE ~Beating
    BY <1>4, <2>2 DEF LoginOk
  <2> QED
    BY <2>1, <2>2
<1>5. CASE LoginFails
  BY <1>5 DEF LoginFails, GoOn
<1>6. CASE \E s \in Session : SendPing(s) \/ SendPingFails(s)
  BY <1>6 DEF SendPing, SendPingFails, GoOn
<1>7. CASE \E s \in Session : SenderWakes(s)
  BY <1>7 DEF SenderWakes, NextPing, Asks
<1>8. CASE \E c \in Work : WorkerAsks(c) \/ WorkerGoesOn(c)
  BY <1>8 DEF WorkerAsks, WorkerGoesOn, Asks, GoOn
<1>9. CASE SettlesHere \/ Tick
  BY <1>9 DEF SettlesHere, Tick, Timely, Passes
<1> QED
  BY <1>1, <1>2, <1>3, <1>4, <1>5, <1>6, <1>7, <1>8, <1>9 DEF Next
-----------------------------------------------------------------------------
(* The sessions, their senders and their connections.                        *)

\* A sender belongs to a session that has been up, and pings its connection; it
\* sleeps only while the session lasts.
Senders ==
    \A s \in Session :
        /\ sender[s] # "none" =>
              s < session \/ (s = session /\ phase \in {"up", "down"})
        /\ sender[s] \in {"asking", "sleeping"} => target[s] = s
        /\ sender[s] = "sleeping" => phase = "up" /\ session = s
        /\ sender[s] = "asking" => st[Ping(s)] # "idle"

Connected ==
    /\ conn = IF phase = "down" THEN 0 ELSE session
    /\ phase # "down" => session \in Session
    /\ phase = "up" /\ Beating => sender[session] \in {"asking", "sleeping"}
    /\ phase # "up" => unanswered = {}

SInv == TypeOK /\ AuthInv /\ Senders /\ Connected /\ OwnSession

LEMMA SessionStarts == Init => SInv
<1> SUFFICES ASSUME Init PROVE SInv
  OBVIOUS
<1>1. AuthInv
  BY AuthStarts DEF Init
<1>2. PICK cfg \in Settings : interval = IntervalOf(cfg) /\ timeout = TimeoutOf(cfg)
  BY DEF Init
<1>3. interval \in Int /\ timeout \in Int
  <2>1. cfg \in Setting
    BY HeartbeatAssumption
  <2>2. DefaultInterval \in Int /\ DefaultTimeout \in Int
    BY HeartbeatAssumption
  <2> QED
    BY <1>2, <2>1, <2>2 DEF IntervalOf, TimeoutOf, NonZero, Either, Setting
<1>4. 0 \in 0..MaxSessions
  BY HeartbeatAssumption
<1>5. TypeOK
  <2>1. /\ sender \in [Session -> {"none", "asking", "sleeping", "gone"}]
        /\ target \in [Session -> 0..MaxSessions] /\ wakeAt \in [Session -> Int]
    BY <1>4 DEF Init
  <2>2. silent \in BOOLEAN
    BY DEF Init
  <2> QED
    BY <1>1, <1>3, <1>4, <2>1, <2>2 DEF Init, TypeOK, AuthInv
<1>6. Senders /\ Connected /\ OwnSession
  BY DEF Init, Senders, Connected, OwnSession
<1> QED
  BY <1>1, <1>5, <1>6 DEF SInv

LEMMA TypeKeeps ==
  ASSUME SInv, [Next]_vars, AuthInv'
  PROVE  TypeOK'
<1> USE DEF SInv, TypeOK, AuthInv, Connected, options, senderVars, linkVars,
            sessionVars
<1>0. 0 \in 0..MaxSessions /\ Poll \in Nat /\ now \in Nat /\ now' \in Nat
  BY HeartbeatAssumption DEF AuthTypeOK
<1>1. CASE Dial
  <2>1. session + 1 \in 0..MaxSessions
    BY <1>1, HeartbeatAssumption DEF Dial
  <2>2. silent' \in BOOLEAN /\ lastPong' \in Nat
    BY <1>0, <1>1 DEF Dial
  <2> QED
    BY <1>1, <2>1, <2>2 DEF Dial
<1>2. CASE AskForLogin \/ SendLogin
  BY <1>2 DEF AskForLogin, SendLogin
<1>3. CASE LoginOk
  <2>1. watchAt' \in Nat
    BY <1>0, <1>3 DEF LoginOk
  <2>2. CASE Beating
    BY <1>0, <1>3, <2>1, <2>2 DEF LoginOk, NextPing
  <2>3. CASE ~Beating
    BY <1>3, <2>1, <2>3 DEF LoginOk
  <2> QED
    BY <2>2, <2>3
<1>4. CASE LoginFails \/ SessionFails
  BY <1>0, <1>4 DEF LoginFails, SessionFails, EndSession
<1>5. ASSUME NEW s \in Session, SendPing(s)
      PROVE  TypeOK'
  <2>1. now + interval \in Int
    BY <1>0
  <2> QED
    BY <1>0, <1>5, <2>1 DEF SendPing
<1>6. ASSUME NEW s \in Session, SendPingFails(s)
      PROVE  TypeOK'
  <2>1. CASE phase = "up" /\ session = s
    BY <1>0, <1>6, <2>1 DEF SendPingFails
  <2>2. CASE ~(phase = "up" /\ session = s)
    BY <1>6, <2>2 DEF SendPingFails
  <2> QED
    BY <2>1, <2>2
<1>7. ASSUME NEW s \in Session, SenderWakes(s)
      PROVE  TypeOK'
  <2>1. /\ sender' \in [Session -> {"none", "asking", "sleeping", "gone"}]
        /\ target' \in [Session -> 0..MaxSessions] /\ wakeAt' \in [Session -> Int]
        /\ pinged' = pinged
    BY <1>7 DEF SenderWakes, NextPing
  <2> QED
    BY <1>7, <2>1 DEF SenderWakes
<1>8. CASE Watch
  <2>1. CASE Overdue
    BY <1>0, <1>8, <2>1 DEF Watch, EndSession
  <2>2. CASE ~Overdue
    <3>1. watchAt' \in Nat
      BY <1>0, <1>8, <2>2 DEF Watch
    <3> QED
      BY <1>8, <2>2, <3>1 DEF Watch
  <2> QED
    BY <2>1, <2>2
<1>9. ASSUME NEW t \in unanswered, Pong(t)
      PROVE  TypeOK'
  BY <1>0, <1>9 DEF Pong
<1>10. CASE ServerFallsSilent
  BY <1>10 DEF ServerFallsSilent
<1>11. CASE \/ \E c \in Work : WorkerAsks(c) \/ WorkerGoesOn(c)
            \/ SettlesHere \/ Tick \/ UNCHANGED vars
  BY <1>11 DEF WorkerAsks, WorkerGoesOn, SettlesHere, Tick, vars
<1> QED
  BY <1>1, <1>2, <1>3, <1>4, <1>5, <1>6, <1>7, <1>8, <1>9, <1>10, <1>11 DEF Next

\* Only its own next step ends what a sender waits for.
LEMMA StillWaits ==
  ASSUME SInv, [Next]_vars, NEW s \in Session, st[Ping(s)] # "idle",
         ~SendPing(s), ~SendPingFails(s)
  PROVE  st'[Ping(s)] # "idle"
<1> USE CallersKnown DEF SInv, AuthInv, AuthTypeOK, TypeOK
<1>1. ASSUME NEW c \in Caller, Ask(c)
      PROVE  st'[Ping(s)] # "idle"
  BY <1>1 DEF Ask, Serve, Wait, AccessToken
<1>2. ASSUME NEW c \in Caller, c # Ping(s), GoesOn(c)
      PROVE  st'[Ping(s)] # "idle"
  BY <1>2 DEF GoesOn
<1>3. CASE UNCHANGED authVars
  BY <1>3 DEF authVars
<1>4. CASE \/ Dial \/ SessionFails \/ Watch \/ ServerFallsSilent \/ Tick
           \/ (\E t \in unanswered : Pong(t)) \/ UNCHANGED vars
  BY <1>3, <1>4
  DEF Dial, SessionFails, Watch, ServerFallsSilent, Tick, Pong, vars
<1>5. CASE AskForLogin
  BY <1>1, <1>5 DEF AskForLogin
<1>6. CASE SendLogin \/ LoginFails
  BY <1>2, <1>3, <1>6 DEF SendLogin, LoginFails
<1>7. CASE LoginOk
  BY <1>1, <1>3, <1>7 DEF LoginOk, NextPing, Connected
<1>8. ASSUME NEW r \in Session, SendPing(r) \/ SendPingFails(r) \/ SenderWakes(r)
      PROVE  st'[Ping(s)] # "idle"
  <2>1. CASE SenderWakes(r)
    BY <1>1, <2>1 DEF SenderWakes, NextPing
  <2>2. CASE SendPing(r) \/ SendPingFails(r)
    <3>1. r # s
      BY <2>2
    <3>2. Ping(r) \in Caller /\ Ping(r) # Ping(s)
      BY <3>1
    <3> QED
      BY <1>2, <2>2, <3>2 DEF SendPing, SendPingFails
  <2> QED
    BY <1>8, <2>1, <2>2
<1>9. ASSUME NEW c \in Work, WorkerAsks(c) \/ WorkerGoesOn(c)
      PROVE  st'[Ping(s)] # "idle"
  BY <1>1, <1>2, <1>9 DEF WorkerAsks, WorkerGoesOn
<1>10. CASE SettlesHere
  BY <1>10
  DEF SettlesHere, TokenSettles, TokenArrives, FetchFails, Settle, SourceSettles
<1> QED
  BY <1>4, <1>5, <1>6, <1>7, <1>8, <1>9, <1>10 DEF Next

\* The session ends; its sender may wait on.
LEMMA EndKeeps ==
  ASSUME SInv, NEW reason, EndSession(reason),
         \A s \in Session : sender[s] = "asking" => st'[Ping(s)] # "idle"
  PROVE  Senders' /\ Connected' /\ OwnSession'
<1> USE DEF SInv, TypeOK
<1>1. Senders'
  BY DEF EndSession, Senders
<1>2. Connected' /\ OwnSession'
  BY DEF EndSession, Connected, OwnSession
<1> QED
  BY <1>1, <1>2

\* A sender asks for the connection of its session.
LEMMA NextPingKeeps ==
  ASSUME SInv, NEW s \in Session, s = session, conn = s, phase' = "up",
         phase \in {"answer", "up"}, NextPing(s), UNCHANGED <<session, conn, interval>>,
         unanswered' = unanswered,
         \A r \in Session : sender[r] = "asking" => st'[Ping(r)] # "idle"
  PROVE  Senders' /\ Connected' /\ OwnSession'
<1> USE CallersKnown DEF SInv, TypeOK
<1>1. st'[Ping(s)] # "idle"
  BY DEF NextPing, Ask, Serve, Wait, AccessToken, AuthTypeOK
<1>2. /\ sender' = [sender EXCEPT ![s] = "asking"]
      /\ target' = [target EXCEPT ![s] = s] /\ pinged' = pinged
  BY DEF NextPing
<1>3. Senders'
  BY <1>1, <1>2 DEF Senders
<1>4. Connected' /\ OwnSession'
  BY <1>2 DEF Connected, OwnSession, Beating
<1> QED
  BY <1>3, <1>4

LEMMA SessionKeeps == ASSUME SInv, [Next]_vars PROVE SInv'
<1>1. AuthInv'
  <2>1. CASE UNCHANGED vars
    BY <2>1, AuthKeeps DEF SInv, vars, AuthStep
  <2>2. CASE Next
    BY <2>2, AuthKeeps, StepsAuth DEF SInv, Connected
  <2> QED
    BY <2>1, <2>2
<1>2. TypeOK'
  BY <1>1, TypeKeeps
<1>3. Senders' /\ Connected' /\ OwnSession'
  <2> DEFINE Goal == Senders' /\ Connected' /\ OwnSession'
  <2> USE DEF SInv, TypeOK
  <2>0. \A s \in Session : sender[s] = "asking" /\ ~SendPing(s) /\ ~SendPingFails(s)
                             => st'[Ping(s)] # "idle"
    BY StillWaits DEF Senders
  <2>1. CASE \E s \in Session : SendPing(s)
    <3>1. PICK s \in Session : SendPing(s)
      BY <2>1
    <3>2. /\ target[s] = s /\ conn = s /\ s = session /\ phase = "up"
          /\ sender' = [sender EXCEPT ![s] = "sleeping"]
          /\ pinged' = pinged \cup {<<s, s>>}
          /\ UNCHANGED <<target, phase, session, conn, interval>>
      BY <3>1 DEF SendPing, Senders, Connected, sessionVars, options, Session
    <3>3. \A r \in Session : sender'[r] = "asking" => st'[Ping(r)] # "idle"
      BY <3>1, <3>2, CallersKnown DEF SendPing, GoesOn, Senders
    <3>4. Senders'
      BY <3>2, <3>3 DEF Senders
    <3>5. Connected' /\ OwnSession'
      BY <3>2 DEF Connected, OwnSession, Beating
    <3> QED
      BY <3>4, <3>5
  <2>2. CASE \E s \in Session : SendPingFails(s)
    <3>1. PICK s \in Session : SendPingFails(s)
      BY <2>2
    <3>2. /\ sender' = [sender EXCEPT ![s] = "gone"]
          /\ UNCHANGED <<target, pinged, interval, session>>
          /\ sender[s] = "asking"
      BY <3>1 DEF SendPingFails, sessionVars, options
    <3>3. \A r \in Session : sender'[r] = "asking" => st'[Ping(r)] # "idle"
      BY <3>1, <3>2, CallersKnown DEF SendPingFails, GoesOn, Senders, AuthInv, AuthTypeOK
    <3>4. CASE phase = "up" /\ session = s
      <4>1. phase' = "down" /\ conn' = 0 /\ unanswered' = {}
        BY <3>1, <3>4 DEF SendPingFails
      <4> QED
        BY <3>2, <3>3, <3>4, <4>1 DEF Senders, Connected, OwnSession
    <3>5. CASE ~(phase = "up" /\ session = s)
      <4>1. UNCHANGED <<phase, conn, unanswered>>
        BY <3>1, <3>5 DEF SendPingFails, sessionVars
      <4>2. Senders'
        BY <3>2, <3>3, <3>5, <4>1 DEF Senders
      <4> QED
        BY <3>2, <3>5, <4>1, <4>2 DEF Connected, OwnSession, Beating
    <3> QED
      BY <3>4, <3>5
  <2>3. ASSUME \A s \in Session : ~SendPing(s) /\ ~SendPingFails(s)
        PROVE  Goal
    <3>0. \A s \in Session : sender[s] = "asking" => st'[Ping(s)] # "idle"
      BY <2>0, <2>3
    <3>1. CASE Dial
      <4>1. /\ phase = "down" /\ phase' = "hello" /\ session' = session + 1
            /\ conn' = session' /\ session' \in Session
            /\ UNCHANGED <<sender, target, pinged, interval, unanswered>>
        BY <3>1, HeartbeatAssumption DEF Dial, senderVars, options, Session
      <4> QED
        BY <3>0, <4>1 DEF Senders, Connected, OwnSession
    <3>2. CASE AskForLogin \/ SendLogin
      <4>1. /\ phase \in {"hello", "login"} /\ phase' \in {"login", "answer"}
            /\ UNCHANGED <<session, conn, sender, target, pinged, interval, unanswered>>
        BY <3>2 DEF AskForLogin, SendLogin, senderVars, options, linkVars
      <4> QED
        BY <3>0, <4>1 DEF Senders, Connected, OwnSession
    <3>3. CASE LoginOk
      <4>1. CASE Beating
        BY <3>0, <3>3, <4>1, NextPingKeeps
        DEF LoginOk, Connected, options, linkVars
      <4>2. CASE ~Beating
        BY <3>0, <3>3, <4>2
        DEF LoginOk, Senders, Connected, OwnSession, options, linkVars, senderVars,
            Beating
      <4> QED
        BY <4>1, <4>2
    <3>4. CASE LoginFails \/ SessionFails \/ (Watch /\ Overdue)
      BY <3>0, <3>4, EndKeeps DEF LoginFails, SessionFails, Watch
    <3>5. CASE \E s \in Session : SenderWakes(s)
      <4>1. PICK s \in Session : SenderWakes(s)
        BY <3>5
      <4>2. s = session /\ phase = "up" /\ conn = s
        BY <4>1 DEF SenderWakes, Senders, Connected
      <4>3. UNCHANGED <<phase, session, conn, interval, unanswered>>
        BY <4>1 DEF SenderWakes, options, linkVars, sessionVars
      <4> QED
        BY <3>0, <4>1, <4>2, <4>3, NextPingKeeps DEF SenderWakes
    <3>6. CASE \/ (Watch /\ ~Overdue) \/ ServerFallsSilent \/ SettlesHere \/ Tick
               \/ (\E t \in unanswered : Pong(t))
               \/ (\E c \in Work : WorkerAsks(c) \/ WorkerGoesOn(c))
               \/ UNCHANGED vars
      <4>1. UNCHANGED <<phase, session, conn, sender, target, pinged, interval>>
        BY <3>6
        DEF Watch, ServerFallsSilent, SettlesHere, Tick, Pong, WorkerAsks,
            WorkerGoesOn, vars, options, senderVars, linkVars, sessionVars
      <4>2. phase = "up" \/ unanswered' = unanswered
        BY <3>6
        DEF Watch, ServerFallsSilent, SettlesHere, Tick, Pong, WorkerAsks,
            WorkerGoesOn, vars, options, senderVars, linkVars, sessionVars
      <4> QED
        BY <3>0, <4>1, <4>2 DEF Senders, Connected, OwnSession, Beating
    <3> QED
      BY <2>3, <3>1, <3>2, <3>3, <3>4, <3>5, <3>6 DEF Next
  <2> QED
    BY <2>1, <2>2, <2>3
<1> QED
  BY <1>1, <1>2, <1>3 DEF SInv

\* Every variable keeps its type.
THEOREM TypeCorrect == Spec => []TypeOK
<1>1. SInv => TypeOK
  BY DEF SInv
<1> QED
  BY SessionStarts, SessionKeeps, <1>1, PTL DEF Spec

\* One request at a time, nobody waits for none, and the cache hands out no token
\* that has less time left than the margin without the time of its request.
THEOREM TokensAreGood == Spec => []TokensGood
<1>1. SInv => TokensGood
  BY AuthParts DEF SInv
<1> QED
  BY SessionStarts, SessionKeeps, <1>1, PTL DEF Spec

\* However long its credentials take, a Ping goes to the session it was meant for.
THEOREM PingsStay == Spec => []OwnSession
<1>1. SInv => OwnSession
  BY DEF SInv
<1> QED
  BY SessionStarts, SessionKeeps, <1>1, PTL DEF Spec
-----------------------------------------------------------------------------
(* The clock.                                                                *)

Longest == Greater(LoginTime, interval)
Mine == Ping(session)

\* What is known of the next Ping while no Ping is unanswered: when it is sent
\* at the latest.
NextPingDue ==
    /\ sender[session] = "sleeping" => wakeAt[session] <= lastPong + interval
    /\ sender[session] = "asking" =>
          IF st[Mine] = "waiting" THEN asked[Mine] <= lastPong + Longest
          ELSE now <= lastPong + Longest + FetchTime

\* A server that answers has answered the last Ping, or is about to.
Answering ==
    /\ \A t \in unanswered : t <= now /\ now <= t + Delay
    /\ sender[session] = "sleeping" =>
          now <= wakeAt[session] /\ wakeAt[session] <= now + interval
    /\ IF unanswered = {} THEN NextPingDue
       ELSE \E t \in unanswered : t <= lastPong + Longest + FetchTime

LoginShort == phase \in {"hello", "login", "answer"} => now <= lastPong + LoginTime
Watched == phase = "up" /\ Watching =>
              now <= watchAt /\ watchAt <= lastPong + Greater(timeout, LoginTime) + Poll

TInv == /\ lastPong <= now
        /\ LoginShort /\ Watched
        /\ phase = "up" /\ Beating /\ ~silent => Answering
        /\ AnsweringKept

LEMMA Numbers ==
  ASSUME SInv
  PROVE  /\ now \in Nat /\ lastPong \in Nat /\ watchAt \in Nat
         /\ interval \in Int /\ timeout \in Int
         /\ LoginTime \in Nat /\ FetchTime \in Nat /\ Delay \in Nat /\ Poll \in Nat
         /\ Longest \in Int /\ Longest >= LoginTime /\ Longest >= interval
         /\ Greater(timeout, LoginTime) \in Int
         /\ Greater(timeout, LoginTime) >= timeout
         /\ Greater(timeout, LoginTime) >= LoginTime
         /\ \A t \in unanswered : t \in Nat
         /\ \A s \in Session : wakeAt[s] \in Int /\ asked[Ping(s)] \in Nat
  BY TimeAssumption, HeartbeatAssumption, CallersKnown
  DEF SInv, TypeOK, AuthTypeOK, Longest, Greater

\* No Pong is overdue at a server that answers.
LEMMA Punctual ==
  ASSUME SInv, TInv, phase = "up", Beating, ~silent
  PROVE  now - lastPong <= Longest + FetchTime + Delay
<1> USE Numbers
<1>1. session \in Session /\ sender[session] \in {"asking", "sleeping"}
  BY DEF SInv, Connected
<1>2. Answering
  BY DEF TInv
<1>3. CASE unanswered # {}
  BY <1>2, <1>3 DEF Answering
<1>4. CASE unanswered = {}
  <2>1. NextPingDue
    BY <1>2, <1>4 DEF Answering
  <2>2. CASE sender[session] = "sleeping"
    BY <1>1, <1>2, <2>1, <2>2 DEF Answering, NextPingDue
  <2>3. CASE sender[session] = "asking" /\ st[Mine] = "waiting"
    <3>1. now <= asked[Mine] + FetchTime
      BY <1>1, <2>3, CallersKnown DEF SInv, AuthInv, ShortWaits, Mine
    <3> QED
      BY <1>1, <2>1, <2>3, <3>1 DEF NextPingDue, Mine
  <2>4. CASE sender[session] = "asking" /\ st[Mine] # "waiting"
    BY <1>1, <2>1, <2>4 DEF NextPingDue
  <2> QED
    BY <1>1, <2>2, <2>3, <2>4
<1> QED
  BY <1>3, <1>4

LEMMA TimeParts == SInv /\ TInv => TimeoutExact
<1> SUFFICES ASSUME SInv, TInv PROVE SilenceNoticed
  BY DEF TInv, TimeoutExact
<1> QED
  BY Numbers DEF TInv, Watched, SilenceNoticed

LEMMA TimeStarts == Init => TInv
  BY DEF Init, AuthInit, TInv, LoginShort, Watched, AnsweringKept

\* What others do leaves a caller waiting as it is, or gives it its answer.
LEMMA OthersDo ==
  ASSUME SInv, NEW s \in Session,
         \/ SettlesHere \/ UNCHANGED authVars
         \/ \E c \in Caller : c # Ping(s) /\ (Ask(c) \/ GoesOn(c))
  PROVE  \/ /\ st'[Ping(s)] = st[Ping(s)]
            /\ st[Ping(s)] = "waiting" => asked'[Ping(s)] = asked[Ping(s)]
         \/ st[Ping(s)] = "waiting" /\ st'[Ping(s)] # "waiting"
<1> USE CallersKnown DEF SInv, AuthInv, AuthTypeOK
<1>1. CASE SettlesHere
  BY <1>1
  DEF SettlesHere, TokenSettles, TokenArrives, FetchFails, Settle, SourceSettles
<1>2. CASE UNCHANGED authVars
  BY <1>2 DEF authVars
<1>3. ASSUME NEW c \in Caller, c # Ping(s), Ask(c) \/ GoesOn(c)
      PROVE  st'[Ping(s)] = st[Ping(s)] /\ asked'[Ping(s)] = asked[Ping(s)]
  BY <1>3 DEF Ask, GoesOn, Serve, Wait, AccessToken
<1> QED
  BY <1>1, <1>2, <1>3

LEMMA AnsweringStays ==
  ASSUME SInv, SInv', session \in Session, Answering,
         UNCHANGED <<now, lastPong, unanswered, sender, wakeAt, session, interval>>,
         \/ SettlesHere \/ UNCHANGED authVars
         \/ \E c \in Caller : c # Mine /\ (Ask(c) \/ GoesOn(c))
  PROVE  Answering'
<1> USE Numbers
<1>1. \/ st'[Mine] = st[Mine] /\ (st[Mine] = "waiting" => asked'[Mine] = asked[Mine])
      \/ st[Mine] = "waiting" /\ st'[Mine] # "waiting"
  BY OthersDo DEF Mine
<1>2. st[Mine] = "waiting" => now <= asked[Mine] + FetchTime
  BY CallersKnown DEF SInv, AuthInv, ShortWaits, Mine
<1>3. Mine' = Mine /\ Longest' = Longest
  BY DEF Mine, Longest, Ping
<1>4. asked[Mine] \in Nat
  BY DEF Mine
<1>5. NextPingDue => NextPingDue'
  BY <1>1, <1>2, <1>3, <1>4 DEF NextPingDue
<1> QED
  BY <1>3, <1>5 DEF Answering

\* Whoever ends the session for a lack of Pongs is right.
LEMMA EndTimely ==
  ASSUME SInv, TInv, NEW reason, EndSession(reason), now' = now,
         reason = "timeout" => phase = "up" /\ Watching /\ Overdue
  PROVE  TInv'
<1> USE Numbers
<1>1. /\ phase' = "down" /\ why' = reason
      /\ UNCHANGED <<lastPong, silent, interval, timeout>>
  BY DEF EndSession, options
<1>2. AnsweringKept'
  <2> SUFFICES ASSUME Patient, reason = "timeout", ~silent PROVE FALSE
    BY <1>1 DEF AnsweringKept, Patient
  <2>1. now - lastPong <= Longest + FetchTime + Delay
    BY Punctual DEF Watching
  <2>2. timeout >= Longest + FetchTime + Delay
    BY DEF Patient, Longest
  <2> QED
    BY <2>1, <2>2 DEF Overdue
<1> QED
  BY <1>1, <1>2 DEF TInv, LoginShort, Watched

\* The sender of a session asks, soon after its last Pong.
LEMMA NextPingTimely ==
  ASSUME SInv, SInv', NEW s \in Session, s = session, NextPing(s),
         UNCHANGED <<now, lastPong, session, interval, unanswered>>,
         unanswered = {} => now <= lastPong + Longest,
         \A t \in unanswered : t <= now /\ now <= t + Delay,
         unanswered # {} => \E t \in unanswered : t <= lastPong + Longest + FetchTime
  PROVE  Answering'
<1> USE Numbers, CallersKnown
<1>1. Mine' = Mine /\ Longest' = Longest /\ Mine = Ping(s)
  BY DEF Mine, Longest, Ping
<1>2. sender'[session] = "asking"
  BY DEF NextPing, SInv, TypeOK
<1>3. st'[Mine] = "waiting" => asked'[Mine] = now
  BY <1>1 DEF NextPing, Ask, Serve, Wait, AccessToken, SInv, TypeOK, AuthTypeOK
<1>4. unanswered = {} => NextPingDue'
  BY <1>1, <1>2, <1>3 DEF NextPingDue
<1> QED
  BY <1>1, <1>2, <1>4 DEF Answering

LEMMA TimeKeeps == ASSUME SInv, TInv, [Next]_vars PROVE TInv'
<1>0. SInv'
  BY SessionKeeps
<1> USE Numbers
<1>1. CASE Dial
  BY <1>1
  DEF Dial, TInv, LoginShort, Watched, AnsweringKept, Patient, options
<1>2. CASE AskForLogin \/ SendLogin
  <2>1. /\ phase \in {"hello", "login"} /\ phase' \in {"login", "answer"}
        /\ UNCHANGED <<now, lastPong>>
    BY <1>2 DEF AskForLogin, SendLogin
  <2> QED
    BY <2>1 DEF TInv, LoginShort, Watched, AnsweringKept
<1>3. CASE LoginOk
  <2>1. /\ phase = "answer" /\ phase' = "up" /\ watchAt' = now + Poll
        /\ UNCHANGED <<now, lastPong, interval, timeout, session, unanswered, silent>>
        /\ now <= lastPong + LoginTime /\ unanswered = {}
    BY <1>3
    DEF LoginOk, options, linkVars, TInv, LoginShort, SInv, Connected, authVars,
        NextPing, Ask
  <2>2. Beating => Answering'
    <3> SUFFICES ASSUME Beating PROVE Answering'
      OBVIOUS
    <3>1. session \in Session
      BY <2>1 DEF SInv, Connected
    <3>2. now <= lastPong + Longest
      BY <2>1
    <3> QED
      BY <1>0, <1>3, <2>1, <3>1, <3>2, NextPingTimely DEF LoginOk
  <2>3. Watched'
    BY <2>1 DEF Watched
  <2> QED
    BY <2>1, <2>2, <2>3 DEF TInv, LoginShort, AnsweringKept, Beating
<1>4. CASE LoginFails \/ SessionFails \/ (Watch /\ Overdue)
  BY <1>4, EndTimely DEF LoginFails, SessionFails, Watch
<1>5. ASSUME NEW s \in Session, SendPing(s)
      PROVE  TInv'
  <2>1. s = session /\ phase = "up" /\ sender[s] = "asking" /\ st[Mine] = "served"
    BY <1>5
    DEF SendPing, SInv, Senders, Connected, Mine, Session
  <2>2. /\ sender' = [sender EXCEPT ![s] = "sleeping"]
        /\ wakeAt' = [wakeAt EXCEPT ![s] = now + interval]
        /\ unanswered' = unanswered \cup {now}
        /\ UNCHANGED <<now, interval, timeout, silent, phase, session, lastPong,
                       watchAt, why>>
    BY <1>5 DEF SendPing, options, sessionVars
  <2>3. Beating /\ ~silent => Answering'
    <3> SUFFICES ASSUME Beating, Answering PROVE Answering'
      BY <2>1 DEF TInv
    <3>1. now \in unanswered' /\ Longest' = Longest
      BY <2>2 DEF Longest
    <3>2. \E t \in unanswered' : t <= lastPong + Longest + FetchTime
      BY <2>1, <2>2, <3>1 DEF Answering, NextPingDue
    <3>3. sender'[s] = "sleeping" /\ wakeAt'[s] = now + interval
      BY <2>2 DEF SInv, TypeOK
    <3> QED
      BY <2>1, <2>2, <3>1, <3>2, <3>3 DEF Answering, Beating
  <2> QED
    BY <2>1, <2>2, <2>3
    DEF TInv, LoginShort, Watched, Watching, Beating, AnsweringKept
<1>6. ASSUME NEW s \in Session, SendPingFails(s)
      PROVE  TInv'
  <2>1. CASE phase = "up" /\ session = s
    <3>1. /\ phase' = "down" /\ why' = "ping"
          /\ UNCHANGED <<now, lastPong>>
      BY <1>6, <2>1 DEF SendPingFails
    <3> QED
      BY <3>1 DEF TInv, LoginShort, Watched, AnsweringKept
  <2>2. CASE ~(phase = "up" /\ session = s)
    <3>1. /\ UNCHANGED <<now, interval, timeout, silent, sessionVars, unanswered, wakeAt>>
          /\ sender' = [sender EXCEPT ![s] = "gone"] /\ GoesOn(Ping(s))
      BY <1>6, <2>2 DEF SendPingFails, options
    <3>2. phase = "up" /\ Beating /\ ~silent => Answering'
      <4> SUFFICES ASSUME phase = "up", Answering PROVE Answering'
        BY DEF TInv
      <4>1. s # session /\ session \in Session /\ session' = session
        BY <2>2, <3>1 DEF SInv, Connected, sessionVars
      <4>2. sender'[session] = sender[session]
        BY <3>1, <4>1 DEF SInv, TypeOK
      <4>3. st'[Mine] = st[Mine] /\ asked'[Mine] = asked[Mine] /\ Mine' = Mine
        BY <3>1, <4>1, CallersKnown DEF GoesOn, Mine, SInv, TypeOK, AuthTypeOK
      <4> QED
        BY <3>1, <4>1, <4>2, <4>3
        DEF Answering, NextPingDue, Longest, sessionVars
    <3> QED
      BY <3>1, <3>2
      DEF TInv, LoginShort, Watched, Watching, Beating, AnsweringKept, Patient,
          sessionVars
  <2> QED
    BY <2>1, <2>2
<1>7. ASSUME NEW s \in Session, SenderWakes(s)
      PROVE  TInv'
  <2>1. /\ s = session /\ phase = "up" /\ sender[s] = "sleeping" /\ now >= wakeAt[s]
        /\ NextPing(s)
        /\ UNCHANGED <<now, interval, timeout, silent, unanswered, phase, session,
                       lastPong, watchAt, why>>
    BY <1>7 DEF SenderWakes, SInv, Senders, options, linkVars, sessionVars
  <2>2. Beating /\ ~silent => Answering'
    <3> SUFFICES ASSUME Answering PROVE Answering'
      BY <2>1 DEF TInv
    <3>1. /\ unanswered = {} => now <= lastPong + Longest
          /\ unanswered # {} => \E t \in unanswered : t <= lastPong + Longest + FetchTime
      BY <2>1 DEF Answering, NextPingDue
    <3> QED
      BY <1>0, <2>1, <3>1, NextPingTimely DEF Answering
  <2> QED
    BY <2>1, <2>2
    DEF TInv, LoginShort, Watched, Watching, Beating, AnsweringKept
<1>8. ASSUME NEW t \in unanswered, Pong(t)
      PROVE  TInv'
  <2>1. /\ phase = "up" /\ unanswered' = unanswered \ {t} /\ lastPong' = now
        /\ UNCHANGED <<now, authVars, interval, timeout, sender, wakeAt, silent,
                       phase, session, watchAt, why>>
    BY <1>8 DEF Pong, options, senderVars
  <2>2. lastPong <= now
    BY DEF TInv
  <2>3. Beating /\ ~silent => Answering'
    <3> SUFFICES ASSUME Answering PROVE Answering'
      BY <2>1 DEF TInv
    <3>1. session \in Session
      BY <2>1 DEF SInv, Connected
    <3>2. st[Mine] = "waiting" => asked[Mine] <= now
      BY <3>1, CallersKnown DEF SInv, AuthInv, ShortWaits, Mine
    <3>3. NextPingDue'
      BY <2>1, <3>1, <3>2, Numbers
      DEF NextPingDue, Answering, Mine, Longest, Ping, authVars
    <3>4. \A u \in unanswered' : u <= lastPong' + Longest' + FetchTime
      BY <2>1 DEF Answering, Longest
    <3>5. unanswered' # {} => \E u \in unanswered' : u <= lastPong' + Longest' + FetchTime
      BY <3>4
    <3> QED
      BY <2>1, <3>3, <3>5 DEF Answering
  <2> QED
    BY <2>1, <2>2, <2>3
    DEF TInv, LoginShort, Watched, Watching, Beating, AnsweringKept
<1>9. CASE Watch /\ ~Overdue
  <2>1. /\ phase = "up" /\ watchAt' = now + Poll /\ now - lastPong <= timeout
        /\ UNCHANGED <<now, authVars, interval, timeout, senderVars, linkVars, phase,
                       session, lastPong, why>>
    BY <1>9 DEF Watch, Overdue, options
  <2>2. Beating /\ ~silent => Answering'
    <3> SUFFICES ASSUME Answering PROVE Answering'
      BY <2>1 DEF TInv
    <3> QED
      BY <1>0, <2>1, AnsweringStays DEF SInv, Connected, senderVars, linkVars
  <2> QED
    BY <2>1, <2>2
    DEF TInv, LoginShort, Watched, Watching, Beating, AnsweringKept, linkVars
<1>10. CASE ServerFallsSilent
  BY <1>10
  DEF ServerFallsSilent, TInv, LoginShort, Watched, Watching, Beating, AnsweringKept,
      Patient, options, sessionVars
<1>11. CASE SettlesHere \/ (\E c \in Work : WorkerAsks(c) \/ WorkerGoesOn(c))
            \/ UNCHANGED vars
  <2>1. /\ UNCHANGED <<now, interval, timeout, senderVars, linkVars, sessionVars>>
        /\ \/ SettlesHere \/ UNCHANGED authVars
           \/ \E c \in Work : Ask(c) \/ GoesOn(c)
    BY <1>11
    DEF SettlesHere, WorkerAsks, WorkerGoesOn, vars, options, TokenSettles,
        TokenArrives, FetchFails, Settle, SourceSettles
  <2>2. phase = "up" /\ Beating /\ ~silent => Answering'
    <3> SUFFICES ASSUME phase = "up", Answering PROVE Answering'
      BY DEF TInv
    <3>1. session \in Session
      BY DEF SInv, Connected
    <3>2. \/ SettlesHere \/ UNCHANGED authVars
          \/ \E c \in Caller : c # Mine /\ (Ask(c) \/ GoesOn(c))
      BY <2>1, <3>1, CallersKnown DEF Mine
    <3> QED
      BY <1>0, <2>1, <3>1, <3>2, AnsweringStays DEF senderVars, linkVars, sessionVars
  <2> QED
    BY <2>1, <2>2
    DEF TInv, LoginShort, Watched, Watching, Beating, AnsweringKept, Patient,
        linkVars, sessionVars
<1>12. CASE Tick
  <2>1. /\ Timely /\ now' = now + 1
        /\ UNCHANGED <<authVars, interval, timeout, senderVars, linkVars, sessionVars>>
    BY <1>12 DEF Tick, options
  <2>2. phase = "up" /\ Beating /\ ~silent => Answering'
    <3> SUFFICES ASSUME phase = "up", ~silent, Answering PROVE Answering'
      BY DEF TInv
    <3>1. session \in Session /\ Mine \in Caller
      BY CallersKnown DEF SInv, Connected, Mine
    <3>2. sender[session] = "asking" => st[Mine] = "waiting"
      BY <2>1, <3>1 DEF Timely, AuthTimely, SInv, Senders, Mine
    <3>3. /\ \A t \in unanswered : now < t + Delay
          /\ sender[session] = "sleeping" => now < wakeAt[session]
      BY <2>1, <3>1 DEF Timely
    <3>4. NextPingDue => NextPingDue'
      BY <2>1, <3>1, <3>2
      DEF NextPingDue, Mine, Longest, Ping, authVars, senderVars, sessionVars
    <3> QED
      BY <2>1, <3>1, <3>3, <3>4
      DEF Answering, Longest, senderVars, linkVars, sessionVars
  <2> QED
    BY <2>1, <2>2
    DEF TInv, LoginShort, Watched, Watching, Beating, AnsweringKept, Patient, Timely,
        linkVars, sessionVars
<1> QED
  BY <1>1, <1>2, <1>3, <1>4, <1>5, <1>6, <1>7, <1>8, <1>9, <1>10, <1>11, <1>12
  DEF Next

\* With a timeout longer than the way of a Ping, from the time it is due to its
\* Pong, and than the login, no session of a server that answers is given up; one
\* that does not answer is, within the timeout and one look at the clock.
THEOREM TimeoutIsExact == Spec => []TimeoutExact
<1>1. Init => SInv /\ TInv
  BY SessionStarts, TimeStarts
<1>2. (SInv /\ TInv) /\ [Next]_vars => (SInv /\ TInv)'
  BY SessionKeeps, TimeKeeps
<1> QED
  BY <1>1, <1>2, TimeParts, PTL DEF Spec
=============================================================================
