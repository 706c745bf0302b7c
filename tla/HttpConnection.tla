--------------------------- MODULE HttpConnection ---------------------------
(***************************************************************************)
(* The connections of FrameReader with those of HTTP proxies among them:   *)
(* the loop of handleHttp (src/handler/http.ts) over serveHttp             *)
(* (src/http/parser.ts), which starts with the tail of StartWorkConn and   *)
(* reads requests, with and without bodies, until the connection ends.     *)
(*                                                                         *)
(* buf is headerBuf and the chunks of the body, tail the pending bytes of  *)
(* the SocketReader, which reads from the socket only if there are none.   *)
(***************************************************************************)
EXTENDS HttpBackend

VARIABLES
    req,        \* the bytes of the request that is served, or <<>>
    answered,   \* responses written
    ended       \* a response has closed the connection: end() was called

httpVars == <<req, answered, ended>>
vars == <<frameVars, httpVars>>

Init == FrameInit /\ req = <<>> /\ answered = 0 /\ ended = FALSE

Serving == Reader = "http"
Waiting == Serving /\ at = "reading" /\ tail = <<>> /\ ~closed
Busy == at = "reading" /\ tail # <<>>   \* until the next microtask: no events

\* A client that does not pipeline sends a request only after the response to
\* the one before.
Allowed(n) == plan.pipelines \/ stream[n][1] <= answered + 2

HandleHttp ==
    /\ at = "gap" /\ Serving
    /\ at' = IF closed THEN "done" ELSE "reading"
    /\ UNCHANGED <<plan, socketVars, step, buf, tail, taken, httpVars>>
-----------------------------------------------------------------------------
(* readOneRequest.  b is what it has got.                                    *)

Request(b) == Item(b[1][1])

Yield(r) == at' = "serving" /\ req' = r /\ taken' = taken \o r /\ buf' = <<>>

\* What is left behind a body becomes pending; behind a header without a body
\* it is not put back.
Behind(b) == IF Request(b).kind = "bare" THEN <<>> ELSE Beyond(b)

Proceed(b) ==
    \/ /\ ~Complete(b)
       /\ buf' = b /\ tail' = <<>>
       /\ UNCHANGED <<at, req, taken>>
    \/ /\ Complete(b)
       /\ Yield(Frame(b))
       /\ tail' = Behind(b)

ReadPending ==
    /\ Serving /\ Busy
    /\ Proceed(buf \o tail)
    /\ UNCHANGED <<plan, socketVars, step, answered, ended>>

\* The reader resumes the socket, and pauses it with the first chunk.
ReadSocket(n) ==
    /\ Waiting /\ n \in 1..Len(stream) /\ Allowed(n)
    /\ Proceed(buf \o Chunk(n))
    /\ stream' = Rest(n) /\ end' = EndAfter(Rest(n))
    /\ UNCHANGED <<plan, closed, flowing, step, answered, ended>>

\* read() returns null: before the end of a header this is the end, and in a
\* body the request is served with what there is of it, or with nothing.
ReadNull ==
    \/ /\ ~HeaderIn(buf)
       /\ Finish
       /\ UNCHANGED <<req, taken, buf>>
    \/ /\ HeaderIn(buf)
       /\ Yield(IF Request(buf).kind = "chunked"
                THEN SubSeq(buf, 1, Request(buf).head) ELSE buf)
-----------------------------------------------------------------------------
(* handleHttp.                                                               *)

\* What the handler returns, or a status of 500 when its promise rejects.
HandlerAnswers ==
    /\ at = "serving"
    /\ at' = "responding"
    /\ UNCHANGED <<plan, socketVars, step, buf, tail, taken, httpVars>>

\* A handler that throws before it returns a promise ends the connection.
HandlerThrows ==
    /\ at = "serving"
    /\ Finish
    /\ req' = <<>>
    /\ UNCHANGED <<plan, stream, end, flowing, step, buf, tail, taken, answered,
                   ended>>

\* A plausible slip: the request is not forgotten.
MutantRespond ==
    /\ at = "responding" /\ CanWrite /\ ~ended
    /\ answered' = answered + 1
    /\ ended' = Request(req).close
    /\ at' = "reading"
    /\ UNCHANGED <<plan, socketVars, step, buf, tail, taken, req>>

\* The response is written, and the connection ended if it is to be the last;
\* the loop reads on in either case.
Respond ==
    /\ at = "responding" /\ CanWrite /\ ~ended
    /\ answered' = answered + 1 /\ req' = <<>>
    /\ ended' = Request(req).close
    /\ at' = "reading"
    /\ UNCHANGED <<plan, socketVars, step, buf, tail, taken>>

RespondFails ==
    /\ at = "responding"
    /\ ~CanWrite \/ ended
    /\ Finish
    /\ req' = <<>>
    /\ UNCHANGED <<plan, stream, end, flowing, step, buf, tail, taken, answered,
                   ended>>
-----------------------------------------------------------------------------
(* The end, for a SocketReader: only a read that waits hears of it.          *)

HttpEndHeard ==
    /\ EndDue /\ Serving /\ ~Busy
    /\ end = "fin" => Waiting \/ ~plan.mux
    /\ end' = "heard"
    /\ IF Waiting THEN ReadNull /\ closed' = (at' = "done")
                  ELSE UNCHANGED <<at, closed, req, taken, buf>>
    /\ UNCHANGED <<plan, stream, flowing, step, tail, answered, ended>>

\* A plausible slip: the reader listens to the end only.
MutantHttpSocketCloses ==
    /\ ~closed /\ Serving /\ ~Busy
    /\ closed' = TRUE
    /\ UNCHANGED <<plan, stream, end, flowing, readerVars, httpVars>>

HttpSocketCloses ==
    /\ ~closed /\ Serving /\ ~Busy
    /\ closed' = TRUE
    /\ IF Waiting THEN ReadNull ELSE UNCHANGED <<at, req, taken, buf>>
    /\ UNCHANGED <<plan, stream, end, flowing, step, tail, answered, ended>>
-----------------------------------------------------------------------------
HttpNext ==
    \/ HandleHttp \/ ReadPending \/ \E n \in 1..Len(stream) : ReadSocket(n)
    \/ HandlerAnswers \/ HandlerThrows \/ Respond \/ RespondFails
    \/ HttpEndHeard \/ HttpSocketCloses

Next == ((FrameNext \/ BackendNext) /\ UNCHANGED httpVars) \/ HttpNext

\* What was sent arrives, and so does the end; a TCP socket closes when both
\* sides have ended; what is pending is processed.  Nothing is expected of the
\* peer, of handlers or of backends.
Fairness ==
    /\ WF_vars(\E n \in 1..Len(stream) : ReadSocket(n)) /\ WF_vars(ReadPending)
    /\ WF_vars(EndHeard /\ UNCHANGED httpVars) /\ WF_vars(HttpEndHeard)
    /\ WF_vars(BothEnded /\ SocketCloses /\ UNCHANGED httpVars)
    /\ WF_vars(BothEnded /\ HttpSocketCloses)

Spec == Init /\ [][Next]_vars /\ Fairness /\ BackendFairness
-----------------------------------------------------------------------------
Byte == UNION {{<<i, k>> : k \in 1..Size(i)} : i \in DOMAIN plan.script}

TypeOK ==
    /\ plan \in Plans
    /\ {stream, buf, tail, taken, req} \subseteq Seq(Byte)
    /\ end \in {"open", "fin", "due", "heard"}
    /\ {closed, flowing, ended} \subseteq BOOLEAN
    /\ step \in DOMAIN Readers[plan.job]
    /\ at \in {"gap", "reading", "resolved", "handling", "sending", "serving",
               "responding", "asking", "returned", "crashed", "deaf", "done"}
    /\ answered \in 0..Len(plan.script)
    /\ (req # <<>>) = (at \in {"serving", "responding"})

\* As long as the connection lives, every byte is in one place, and in order:
\* used, read and not used yet, on its way to the next reader, or in the socket.
NothingLost ==
    ~closed /\ end # "heard" => taken \o buf \o tail \o stream = Sent

\* What is handed out is whole messages, whatever the chunks were: the readers
\* change at the border of a frame, and a request has its own header and body,
\* unless the connection ended in the middle of it.
MessagesWhole ==
    /\ Reader \notin {"data", "response"} /\ req = <<>> /\ end # "heard" /\ ~closed =>
        \E n \in 0..Len(plan.script) : taken = AllBytes(n)
    /\ req # <<>> =>
        \/ req = Bytes(answered + 2)
        \/ (closed \/ end = "heard") /\ IsPrefix(req, Bytes(answered + 2))
    /\ ResponseWhole

\* Nobody waits for the socket with a complete frame at hand.
NoFrameWaits == at = "reading" /\ Reader \in FrameReaders => FrameLen(buf) = 0

\* On TCP the end of the connection ends every read, even one that begins after
\* its event found nobody.  A read that is installed on a socket already closed
\* hears of nothing: it is at "deaf", which the property leaves out.
ReadsSettle ==
    ~plan.mux /\ at = "reading" /\ (end = "heard" \/ closed) ~> at # "reading"
=============================================================================
