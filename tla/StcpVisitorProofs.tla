-------------------------- MODULE StcpVisitorProofs --------------------------
(***************************************************************************)
(* Theorems about the STCP visitor, for any number of user connections and *)
(* all options.                                                            *)
(***************************************************************************)
EXTENDS StcpVisitor, TLAPS

\* Where the function that serves a user is when a socket of its cannot be open.
NoRaw == {"idle", "dialing", "failed", "ended"}

Places ==
    \A c \in Conn : /\ user[c] = "arriving" => pc[c] = "idle"
                    /\ user[c] = "open" => pc[c] \notin {"idle", "ended"}
                    /\ c \in sockets => pc[c] # "idle"
                    /\ pc[c] # "idle" => c \in sockets \/ stopped
                    /\ pc[c] \in NoRaw => raw[c] # "open" /\ c \notin visitorSockets

\* A listen under way is one whose server is still set, unless stopped.
Starting == listener = "starting" => server \/ stopped

IInv == TypeOK /\ OpenTracked /\ NothingAfterStop /\ Places /\ Starting

LEMMA Parts == IInv => TypeOK /\ SocketsTracked /\ NothingAfterStop
BY DEF IInv, Places, NoRaw, NoLeftover, SocketsTracked

LEMMA InitInv == Init => IInv
BY DEF Init, IInv, TypeOK, OpenTracked, NothingAfterStop, Places, Starting, Pc

\* The listener's actions and stop().
LEMMA ListenerSteps ==
    ASSUME IInv, Start \/ ListenFails \/ Listening \/ Stop
    PROVE  IInv'
<1>1. CASE Start \/ ListenFails
  <2>1. TypeOK' /\ Starting'
    BY <1>1 DEF Start, ListenFails, connVars, IInv, TypeOK, Starting
  <2>2. listener' # "open" /\ UNCHANGED <<stopped, connVars>>
    BY <1>1 DEF Start, ListenFails
  <2> QED
    BY <2>1, <2>2 DEF connVars, IInv, OpenTracked, NothingAfterStop, Places
<1>2. CASE Listening
  <2>1. TypeOK'
    BY <1>2 DEF Listening, connVars, IInv, TypeOK
  <2>2. listener' = "open" => server' /\ ~stopped'
    BY <1>2 DEF Listening, IInv, Starting
  <2>3. listener' # "starting" /\ UNCHANGED <<stopped, connVars>>
    BY <1>2 DEF Listening
  <2> QED
    BY <2>1, <2>2, <2>3
       DEF connVars, IInv, OpenTracked, NothingAfterStop, Places, Starting
<1>3. CASE Stop
  <2>1. TypeOK' /\ Starting'
    BY <1>3 DEF Stop, IInv, TypeOK, Starting
  <2>2. listener' # "open"
    BY <1>3 DEF Stop, IInv, OpenTracked
  <2>3. \A c \in Conn : user'[c] # "open" /\ raw'[c] # "open"
    BY <1>3 DEF Stop, IInv, OpenTracked
  <2>4. Places'
    BY <1>3 DEF Stop, IInv, Places
  <2> QED  BY <2>1, <2>2, <2>3, <2>4 DEF IInv, OpenTracked, NothingAfterStop
<1> QED  BY <1>1, <1>2, <1>3

\* What a step of one connection leaves alone, and what has to be said of the
\* connection itself.
Others(c) ==
    /\ \A d \in Conn \ {c} : /\ pc'[d] = pc[d] /\ user'[d] = user[d]
                             /\ raw'[d] = raw[d]
                             /\ d \in sockets' <=> d \in sockets
                             /\ d \in visitorSockets' <=> d \in visitorSockets
    /\ UNCHANGED listenVars

Here(c) ==
    /\ user[c] = "open" => c \in sockets /\ ~stopped
    /\ raw[c] = "open" => c \in visitorSockets /\ ~stopped
    /\ user[c] = "arriving" => pc[c] = "idle"
    /\ user[c] = "open" => pc[c] \notin {"idle", "ended"}
    /\ c \in sockets => pc[c] # "idle"
    /\ pc[c] # "idle" => c \in sockets \/ stopped
    /\ pc[c] \in NoRaw => raw[c] # "open" /\ c \notin visitorSockets

LEMMA Everywhere == IInv => \A c \in Conn : Here(c)
BY DEF IInv, OpenTracked, NothingAfterStop, Places, Here

LEMMA LocalStep ==
    ASSUME IInv, NEW c \in Conn, TypeOK', Others(c), Here(c)'
    PROVE  IInv'
BY DEF IInv, OpenTracked, NothingAfterStop, Places, Starting, Here, Others,
       listenVars

LEMMA ConnTypes ==
    ASSUME IInv, NEW c \in Conn, ConnStep(c)
    PROVE  TypeOK' /\ Others(c)
<1> USE DEF IInv, TypeOK, Others, Places, NoRaw, listenVars, Goto, Pc, Handshake,
           Options
<1>1. CASE Connect(c) \/ Refused(c) \/ UserCloses(c) \/ RawCloses(c)
  BY <1>1 DEF Connect, Refused, UserCloses, RawCloses
<1>2. CASE Accept(c)
  BY <1>2 DEF Accept
<1>3. CASE DialFails(c) \/ Proceed(c) \/ Finally(c)
  BY <1>3 DEF DialFails, Proceed, Finally
<1>4. CASE DialOk(c) \/ HandshakeFails(c)
  BY <1>4 DEF DialOk, HandshakeFails, Abandon
<1>5. CASE Dialed(c)
  BY <1>5 DEF Dialed, DialDone, JoinPipe
<1>6. CASE PipeEnds(c) \/ PipeWriteFails(c)
  BY <1>6 DEF PipeEnds, PipeWriteFails, Unpipe
<1>7. CASE Catch(c)
  BY <1>7 DEF Catch
<1> QED  BY <1>1, <1>2, <1>3, <1>4, <1>5, <1>6, <1>7 DEF ConnStep

LEMMA ConnPlaces ==
    ASSUME IInv, NEW c \in Conn, ConnStep(c)
    PROVE  Here(c)'
<1>1. Here(c) /\ TypeOK
  BY Everywhere DEF IInv
<1> USE DEF TypeOK, Here, listenVars, Goto, NoRaw, Handshake
<1>2. CASE Connect(c) \/ Refused(c) \/ UserCloses(c) \/ RawCloses(c)
  BY <1>1, <1>2 DEF Connect, Refused, UserCloses, RawCloses
<1>3. CASE Accept(c)
  BY <1>1, <1>3 DEF Accept
<1>4. CASE DialFails(c) \/ Proceed(c) \/ Finally(c)
  BY <1>1, <1>4 DEF DialFails, Proceed, Finally
<1>5. CASE DialOk(c) \/ HandshakeFails(c)
  BY <1>1, <1>5 DEF DialOk, HandshakeFails, Abandon
<1>6. CASE Dialed(c)
  BY <1>1, <1>6 DEF Dialed, DialDone, JoinPipe
<1>7. CASE PipeEnds(c) \/ PipeWriteFails(c)
  BY <1>1, <1>7 DEF PipeEnds, PipeWriteFails, Unpipe
<1>8. CASE Catch(c)
  BY <1>1, <1>8 DEF Catch
<1> QED  BY <1>2, <1>3, <1>4, <1>5, <1>6, <1>7, <1>8 DEF ConnStep

LEMMA Inductive == IInv /\ [Next]_vars => IInv'
<1> SUFFICES ASSUME IInv, [Next]_vars PROVE IInv'
  OBVIOUS
<1>1. CASE UNCHANGED vars
  BY <1>1 DEF vars, IInv, TypeOK, OpenTracked, NothingAfterStop, Places,
              Starting
<1>2. CASE Start \/ ListenFails \/ Listening \/ Stop
  BY <1>2, ListenerSteps
<1>3. ASSUME NEW c \in Conn, ConnStep(c) PROVE IInv'
  BY <1>3, ConnTypes, ConnPlaces, LocalStep
<1> QED  BY <1>1, <1>2, <1>3 DEF Next

\* Every variable keeps its type; in particular a connection to the frp server
\* is in its set only while its user is in the other.
THEOREM TypeCorrect == Safety => []TypeOK
<1>1. IInv => TypeOK  BY Parts
<1> QED  BY InitInv, Inductive, <1>1, PTL DEF Safety

\* stop() reaches every socket of the visitor, whatever step each of its
\* connections has come to, and the sets never hold one that is over.
THEOREM Tracking == Safety => []SocketsTracked
<1>1. IInv => SocketsTracked  BY Parts
<1> QED  BY InitInv, Inductive, <1>1, PTL DEF Safety

\* After stop() no step of any connection opens a socket again.
THEOREM StopIsFinal == Safety => []NothingAfterStop
<1>1. IInv => NothingAfterStop  BY Parts
<1> QED  BY InitInv, Inductive, <1>1, PTL DEF Safety
=============================================================================
