---------------------------- MODULE HttpBackend ----------------------------
(***************************************************************************)
(* The other side of an HTTP proxy: httpBackendHandler (src/types.ts) asks *)
(* a local server, with one connection for each request.  The connection   *)
(* is one more of FrameReader's, of the job "backend"; its only item is    *)
(* the response, of the kind that says how its end is found.  The backend  *)
(* answers when it has the whole request.                                  *)
(***************************************************************************)
EXTENDS FrameReader

Asking == Reader = "response"

\* What b begins with is complete with its header, or with the length that its
\* header gives.
HeaderIn(b) == b # <<>> /\ Len(b) >= Item(b[1][1]).head
Complete(b) == b # <<>> /\ Len(b) >= Size(b[1][1])
Kind(b) == Item(b[1][1]).kind

\* connectHttpBackend: the finally of the handler is not reached without a
\* connection.
ConnectBackend ==
    /\ at = "gap" /\ Asking
    /\ at' = "asking"
    /\ UNCHANGED <<plan, socketVars, step, buf, tail, taken>>

\* No connection, or none within 10 s.
ConnectFails ==
    /\ at = "gap" /\ Asking
    /\ Finish
    /\ UNCHANGED <<plan, stream, end, flowing, step, buf, tail, taken>>

\* writeHttpBackendRequest resolves, and readSocketChunk resumes the socket.
RequestWritten ==
    /\ at = "asking"
    /\ at' = "reading" /\ flowing' = TRUE
    /\ UNCHANGED <<plan, stream, end, closed, step, buf, tail, taken>>

\* While the request is written nobody listens to the errors of the socket:
\* one rejects the write, and then ends the process.
RequestFails ==
    /\ at = "asking"
    /\ at' = "crashed" /\ closed' = TRUE
    /\ UNCHANGED <<plan, stream, end, flowing, step, buf, tail, taken>>

Return(b) == /\ at' = "returned" /\ closed' = TRUE
             /\ taken' = b /\ buf' = <<>>

\* The response that b has, whose end is known: that of its header for HEAD,
\* of its body, or of its last chunk.
ResponseOf(b) ==
    IF Kind(b) = "head" THEN SubSeq(b, 1, Item(b[1][1]).head) ELSE Frame(b)

Ends(b) == \/ Complete(b) /\ Kind(b) \in {"sized", "chunked"}
           \/ HeaderIn(b) /\ Kind(b) = "head"

\* A chunk arrives.  A body with a bad chunk in it rejects.
ReadResponse(n) ==
    /\ ~closed /\ flowing /\ at = "reading" /\ Asking
    /\ stream' = Rest(n) /\ end' = EndAfter(Rest(n))
    /\ LET b == buf \o Chunk(n) IN
        \/ /\ Ends(b)
           /\ Return(ResponseOf(b))
        \/ /\ Complete(b) /\ Kind(b) = "bad"
           /\ Finish
           /\ UNCHANGED <<buf, taken>>
        \/ /\ ~Ends(b) /\ (Complete(b) => Kind(b) # "bad")
           /\ buf' = b
           /\ UNCHANGED <<at, closed, taken>>
    /\ UNCHANGED <<plan, flowing, step, tail>>

\* readSocketChunk resolves null.  A response whose header is there is returned
\* all the same: with what there is of a body that has a length or lasts to the
\* end, and with no body if its last chunk is missing.
ResponseEnds ==
    \/ /\ HeaderIn(buf)
       /\ Return(IF Kind(buf) \in {"chunked", "bad"}
                 THEN SubSeq(buf, 1, Item(buf[1][1]).head) ELSE buf)
    \/ /\ ~HeaderIn(buf)
       /\ Finish
       /\ UNCHANGED <<buf, taken>>

BackendEndHeard ==
    /\ EndDue /\ Asking /\ at \in {"asking", "reading"}
    /\ end' = "heard"
    /\ IF at = "reading" THEN ResponseEnds ELSE UNCHANGED <<at, closed, buf, taken>>
    /\ UNCHANGED <<plan, stream, flowing, step, tail>>

\* The end was heard by nobody, the close that follows is.
BackendCloses ==
    /\ at = "reading" /\ Asking /\ end = "heard" /\ ~closed
    /\ ResponseEnds
    /\ UNCHANGED <<plan, stream, end, flowing, step, tail>>

\* A reset rejects.
BackendResets ==
    /\ at = "reading" /\ Asking
    /\ Finish
    /\ UNCHANGED <<plan, stream, end, flowing, step, buf, tail, taken>>

BackendNext ==
    \/ ConnectBackend \/ ConnectFails \/ RequestWritten \/ RequestFails
    \/ \E n \in 1..Len(stream) : ReadResponse(n)
    \/ BackendEndHeard \/ BackendCloses \/ BackendResets

BackendFairness == /\ WF_frameVars(\E n \in 1..Len(stream) : ReadResponse(n))
                   /\ WF_frameVars(BackendEndHeard) /\ WF_frameVars(BackendCloses)

\* The handler returns the response that was sent, to the byte, however it was
\* cut and whatever comes behind it: as little as the header of a response to
\* HEAD, and of one that the end of the connection cut off a part.
ResponseWhole ==
    Asking /\ at = "returned" =>
        /\ IsPrefix(taken, Bytes(1)) /\ HeaderIn(taken)
        /\ \/ taken = Bytes(1)
           \/ Kind(taken) = "head" /\ Len(taken) = Item(1).head
           \/ end = "heard"
=============================================================================
