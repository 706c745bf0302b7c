---------------------------- MODULE FrameReader ----------------------------
(***************************************************************************)
(* How the bytes of a connection pass from one reader to the next:         *)
(* readWireFrame (src/protocol/wire.ts), MessageReader and readMsgWithTail *)
(* (src/protocol/codec.ts) while it is set up, then whoever uses it: a     *)
(* pipe or a cipher, or the loop of handleUdp (src/handler/udp.ts).        *)
(*                                                                         *)
(* Each reader gets chunks cut anywhere, stops after its message, and must *)
(* give back what it has read beyond it.  A byte is a pair <<i, k>>, the   *)
(* k-th of item i of the script: a frame has a header and a payload, in    *)
(* v1 and v2 alike, and can be told to be complete only from both.         *)
(***************************************************************************)
EXTENDS Integers, Sequences, SequencesExt

\* The connections to choose from.  Each has a job, which gives its readers; a
\* script of items, with the sizes of their header and body, of which total
\* bytes are sent before the peer ends or falls silent; whether it is a stream
\* of the mux session, is wrapped in encryption, and has a client that sends
\* without waiting for responses.
CONSTANT Plans

VARIABLES
    plan,       \* this connection: its job, options and script; never changed
    stream,     \* what the socket has yet to emit, in the buffer or underway
    end,        \* "open", "fin": the peer has ended, "due": end is emitted
                \* next, resumed or not, "heard": it has been
    closed,     \* the socket is destroyed
    flowing,    \* resumed
    step,       \* which reader of the job has its turn
    at,         \* what it waits for
    buf,        \* what the reader has and has not used
    tail,       \* bytes on the way from a reader to the next one's owner
    taken       \* history: the bytes of messages resolved, or used as data

socketVars == <<stream, end, closed, flowing>>
readerVars == <<step, at, buf, tail, taken>>
frameVars == <<plan, socketVars, readerVars>>

\* The readers of each kind of connection, in turn.
Readers == [control   |-> <<"msg", "data">>,    \* LoginResp; and a visitor's
            controlV2 |-> <<"wire", "msg", "data">>, \* ServerHello first
            work      |-> <<"tail", "data">>,   \* StartWorkConn, then a pipe
            udp       |-> <<"tail", "loop">>,
            http      |-> <<"tail", "http">>,
            backend   |-> <<"response">>]

\* Nobody sends more than the script.  No item is empty, nor is the header of a
\* request or a response; and nothing comes behind a response without a length,
\* which lasts until the connection ends.
Whole(script) ==
    FlattenSeq([i \in DOMAIN script |->
                  [k \in 1..(script[i].head + script[i].body) |-> <<i, k>>]])
ASSUME PlansAssumption ==
    /\ Plans \subseteq
         [job : DOMAIN Readers, mux : BOOLEAN, encrypted : BOOLEAN, pipelines : BOOLEAN,
          script : Seq([kind : STRING, head : Nat, body : Nat, close : BOOLEAN]),
          total : Nat]
    /\ \A p \in Plans :
         /\ p.total <= Len(Whole(p.script))
         /\ \A i \in DOMAIN p.script :
              /\ p.script[i].head + p.script[i].body > 0
              /\ p.job = "http" => p.script[i].head > 0
         /\ p.job = "backend" /\ p.script # <<>> =>
              /\ p.script[1].head > 0
              /\ \/ p.script[1].kind \in {"sized", "chunked", "head", "bad"}
                 \/ Len(p.script) = 1

Reader == Readers[plan.job][step]
FrameReaders == {"wire", "msg", "tail", "loop"}
HttpReaders == {"http", "response"}     \* see HttpConnection and HttpBackend

Item(i) == plan.script[i]
Size(i) == Item(i).head + Item(i).body
Bytes(i) == [k \in 1..Size(i) |-> <<i, k>>]
AllBytes(n) == FlattenSeq([i \in 1..n |-> Bytes(i)])
Sent == SubSeq(AllBytes(Len(plan.script)), 1, plan.total)

FrameInit ==
    /\ plan \in Plans
    /\ stream = Sent /\ end = "open" /\ closed = FALSE /\ flowing = FALSE
    /\ step = 1 /\ at = "gap" /\ buf = <<>> /\ tail = <<>> /\ taken = <<>>
-----------------------------------------------------------------------------
(* The socket as the readers use it.                                         *)

\* A chunk is any first part of what is to come.  The end is bound to follow
\* the last chunk, even if that makes the reader pause.
Chunk(n) == SubSeq(stream, 1, n)
Rest(n) == SubSeq(stream, n + 1, Len(stream))
EndAfter(rest) == IF end = "fin" /\ rest = <<>> THEN "due" ELSE end

\* unshift() puts bytes back in front; after the end has been emitted it is an
\* error that destroys the socket.
Unshift(b) ==
    \/ b = <<>> /\ UNCHANGED <<stream, end, closed>>
    \/ /\ b # <<>> /\ end # "heard"
       /\ stream' = b \o stream
       /\ end' = IF end = "due" THEN "fin" ELSE end
       /\ UNCHANGED closed
    \/ /\ b # <<>> /\ end = "heard"
       /\ closed' = TRUE
       /\ UNCHANGED <<stream, end>>

\* A TCP socket ends its own side when the peer has; a stream of the mux
\* session does not.
CanWrite == ~closed /\ (end = "heard" => plan.mux)
-----------------------------------------------------------------------------
(* MessageBuffer.tryReadMsg and WireFrameBuffer.tryReadFrame.                *)

\* A plausible slip: the payload is not waited for.
MutantFrameLen(b) ==
    IF b # <<>> /\ Len(b) >= Item(b[1][1]).head
    THEN IF Len(b) < Size(b[1][1]) THEN Len(b) ELSE Size(b[1][1]) ELSE 0

\* The length of the frame b begins with, 0 when it is not complete.
FrameLen(b) ==
    IF b # <<>> /\ Len(b) >= Size(b[1][1]) THEN Size(b[1][1]) ELSE 0

Frame(b) == SubSeq(b, 1, FrameLen(b))
Beyond(b) == SubSeq(b, FrameLen(b) + 1, Len(b))
Good(b) == FrameLen(b) > 0 /\ Item(b[1][1]).kind = "frame"
Bad(b) == FrameLen(b) > 0 /\ ~Good(b)

\* The owner of a connection destroys it when it is through with it.
Finish == at' = "done" /\ closed' = TRUE
-----------------------------------------------------------------------------
(* A reader takes its turn.  Between two readers there are awaits: a digest, *)
(* a key, hooks, a dial.  A socket that was closed in this time will emit    *)
(* nothing, and its new reader is deaf.                                      *)

Attach == /\ at' = IF closed THEN "deaf" ELSE "reading"
          /\ flowing' = ~closed

Install ==
    /\ at = "gap" /\ Reader \in {"wire", "msg", "tail"}
    /\ Attach
    /\ UNCHANGED <<plan, stream, end, closed, step, buf, tail, taken>>

\* The tail is written to the backend, or given to the handler's stream.
UseData ==
    /\ at = "gap" /\ Reader = "data"
    /\ Attach
    /\ taken' = taken \o tail /\ tail' = <<>>
    /\ UNCHANGED <<plan, stream, end, closed, step, buf>>

\* #wrapWorkConn has given the tail to the encrypted stream, from which it
\* comes first; handleUdp is not given it.
HandleUdp ==
    /\ at = "gap" /\ Reader = "loop"
    /\ Attach
    /\ \/ /\ plan.encrypted /\ tail # <<>>
          /\ stream' = tail \o stream
          /\ end' = IF end \in {"due", "heard"} THEN "fin" ELSE end
       \/ /\ ~plan.encrypted \/ tail = <<>>
          /\ UNCHANGED <<stream, end>>
    /\ tail' = <<>>
    /\ UNCHANGED <<plan, closed, step, buf, taken>>

\* The socket emits n bytes to the listeners of a reader.  A client that does
\* not pipeline sends no second request until the first is answered; item 1 is
\* StartWorkConn then.
Emit(n) == /\ ~closed /\ flowing /\ n \in 1..Len(stream)
           /\ plan.pipelines \/ stream[n][1] <= 2

\* Bytes of a frame that is not complete, or that nobody has asked for yet.
Buffer(n) ==
    /\ Emit(n) /\ Reader \in FrameReaders
    /\ at = "reading" => FrameLen(buf \o Chunk(n)) = 0
    /\ buf' = buf \o Chunk(n)
    /\ stream' = Rest(n) /\ end' = EndAfter(Rest(n))
    /\ UNCHANGED <<plan, closed, flowing, step, at, tail, taken>>

\* MessageReader: the promise is resolved; the listeners stay.
ReadMsg(n) ==
    /\ Emit(n) /\ at = "reading" /\ Reader \in {"msg", "loop"}
    /\ LET b == buf \o Chunk(n) IN
        /\ Good(b)
        /\ taken' = taken \o Frame(b)
        /\ buf' = Beyond(b)
    /\ at' = IF Reader = "loop" THEN "handling" ELSE "resolved"
    /\ stream' = Rest(n) /\ end' = EndAfter(Rest(n))
    /\ UNCHANGED <<plan, closed, flowing, step, tail>>

\* A plausible slip: the buffer is forgotten when the reader is closed.
MutantCloseReader ==
    /\ at = "resolved"
    /\ at' = "gap" /\ step' = step + 1
    /\ flowing' = FALSE /\ buf' = <<>>
    /\ UNCHANGED <<plan, stream, end, closed, tail, taken>>

\* The owner of the promise closes the reader.
CloseReader ==
    /\ at = "resolved"
    /\ at' = "gap" /\ step' = step + 1
    /\ flowing' = FALSE /\ buf' = <<>>
    /\ Unshift(buf)
    /\ UNCHANGED <<plan, tail, taken>>

\* readMsgWithTail pauses in the listener and hands out what is left.
ReadTail(n) ==
    /\ Emit(n) /\ at = "reading" /\ Reader = "tail"
    /\ LET b == buf \o Chunk(n) IN
        /\ Good(b)
        /\ taken' = taken \o Frame(b)
        /\ tail' = Beyond(b)
    /\ at' = "gap" /\ step' = step + 1 /\ buf' = <<>>
    /\ flowing' = FALSE
    /\ stream' = Rest(n) /\ end' = EndAfter(Rest(n))
    /\ UNCHANGED <<plan, closed>>

\* readWireFrame pauses, too, and puts back what is left.
ReadWire(n) ==
    /\ Emit(n) /\ at = "reading" /\ Reader = "wire"
    /\ LET b == buf \o Chunk(n) IN
        /\ Good(b)
        /\ taken' = taken \o Frame(b)
        /\ stream' = Beyond(b) \o Rest(n)
        /\ end' = EndAfter(Beyond(b) \o Rest(n))
    /\ at' = "gap" /\ step' = step + 1 /\ buf' = <<>>
    /\ flowing' = FALSE
    /\ UNCHANGED <<plan, closed, tail>>

\* A frame that cannot be decoded rejects the read.
ReadBad(n) ==
    /\ Emit(n) /\ at = "reading" /\ Reader \in FrameReaders
    /\ Bad(buf \o Chunk(n))
    /\ Finish
    /\ buf' = buf \o Chunk(n)
    /\ stream' = Rest(n) /\ end' = EndAfter(Rest(n))
    /\ UNCHANGED <<plan, flowing, step, tail, taken>>

ReadData(n) ==
    /\ Emit(n) /\ at = "reading" /\ Reader = "data"
    /\ taken' = taken \o Chunk(n)
    /\ stream' = Rest(n) /\ end' = EndAfter(Rest(n))
    /\ UNCHANGED <<plan, closed, flowing, step, at, buf, tail>>
-----------------------------------------------------------------------------
(* The loop of handleUdp: one packet, or Ping of the server, at a time.      *)

HandlerReturns ==
    /\ at = "handling"
    /\ at' = "sending"
    /\ UNCHANGED <<plan, socketVars, step, buf, tail, taken>>

\* The handler throws, or the backend has not answered for 10 s.
HandlerFails ==
    /\ at = "handling"
    /\ Finish
    /\ UNCHANGED <<plan, stream, end, flowing, step, buf, tail, taken>>

\* A plausible slip: the next read waits for the socket with a packet at hand.
MutantSendOk ==
    /\ at = "sending" /\ CanWrite
    /\ at' = "reading"
    /\ UNCHANGED <<plan, socketVars, step, buf, tail, taken>>

\* The answer is written, and the next packet asked for: it may be there.
SendOk ==
    /\ at = "sending" /\ CanWrite
    /\ \/ /\ Good(buf)
          /\ taken' = taken \o Frame(buf) /\ buf' = Beyond(buf)
          /\ at' = "handling"
          /\ UNCHANGED closed
       \/ /\ Bad(buf)
          /\ Finish
          /\ UNCHANGED <<taken, buf>>
       \/ /\ FrameLen(buf) = 0
          /\ at' = "reading"
          /\ UNCHANGED <<taken, buf, closed>>
    /\ UNCHANGED <<plan, stream, end, flowing, step, tail>>

SendFails ==
    /\ at = "sending" /\ ~CanWrite
    /\ Finish
    /\ UNCHANGED <<plan, stream, end, flowing, step, buf, tail, taken>>
-----------------------------------------------------------------------------
(* The end of the connection.  A read that waits is rejected, a stream in    *)
(* use ends; events that find no read are lost.                              *)

PeerEnds ==
    /\ end = "open"
    /\ end' = "fin"
    /\ UNCHANGED <<plan, stream, closed, flowing, readerVars>>

\* A TCP socket with nothing to emit hears the end though it is paused, a stream
\* of the mux session does not.
EndDue == ~closed /\ stream = <<>> /\ end \in {"fin", "due"}

EndHeard ==
    /\ EndDue /\ Reader \notin HttpReaders
    /\ end = "fin" => flowing \/ ~plan.mux
    /\ end' = "heard"
    /\ IF at = "reading" THEN Finish ELSE UNCHANGED <<at, closed>>
    /\ UNCHANGED <<plan, stream, flowing, step, buf, tail, taken>>

\* A reset, or the ordinary end of a socket whose both sides have ended.
SocketCloses ==
    /\ ~closed /\ Reader \notin HttpReaders
    /\ closed' = TRUE
    /\ at' = IF at = "reading" THEN "done" ELSE at
    /\ UNCHANGED <<plan, stream, end, flowing, step, buf, tail, taken>>
-----------------------------------------------------------------------------
FrameNext ==
    \/ Install \/ UseData \/ HandleUdp \/ CloseReader
    \/ \E n \in 1..Len(stream) :
        \/ Buffer(n) \/ ReadMsg(n) \/ ReadTail(n) \/ ReadWire(n)
        \/ ReadBad(n) \/ ReadData(n)
    \/ HandlerReturns \/ HandlerFails \/ SendOk \/ SendFails
    \/ PeerEnds \/ EndHeard \/ SocketCloses

\* Both sides of a TCP socket that has heard the end are done.
BothEnded == end = "heard" /\ ~plan.mux
=============================================================================
