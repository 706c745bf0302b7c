----------------------------- MODULE WorkStream -----------------------------
(***************************************************************************)
(* The streams that #wrapWorkConn of src/control/pool.ts puts around a     *)
(* work connection: RateLimitedConn (src/protocol/limit.ts) next to the    *)
(* socket, EncryptedConn (src/protocol/crypto.ts) above it, and            *)
(* CompressedConn (src/protocol/compression.ts) on top, any of them; and a *)
(* consumer, the pipe to a backend (src/protocol/codec.ts).                *)
(*                                                                         *)
(* What the peer sends is followed chunk by chunk through the promise      *)
(* chains and buffers, and so is what the backend writes.  A chunk is one  *)
(* byte to the bucket, and no chunk reaches over the end of a frame.       *)
(***************************************************************************)
EXTENDS TokenBucket, Sequences, SequencesExt

CONSTANTS
    Stacks,     \* the sets of layers to choose from
    Mux,        \* the socket is a stream of the mux session
    MaxSent,    \* bound on sent
    MaxWritten, \* bound on written
    MaxIdle     \* the clock stops here unless somebody sleeps

ASSUME StackAssumption ==
    Stacks \subseteq (SUBSET {"limited", "encrypted", "compressed"} \ {{}})
ASSUME BoundAssumption ==
    /\ Mux \in BOOLEAN
    /\ MaxSent \in Nat /\ MaxWritten \in Nat /\ MaxIdle \in Nat

VARIABLES
    layers,     \* the layers of this connection, never changed
    early,      \* chunks that came with StartWorkConn, never changed
    now,        \* the clock
    sent,       \* chunks the socket has emitted, the early ones included
    fin,        \* the socket has emitted end
    readQ,      \* readChain of RateLimitedConn
    takes,      \* chain of RateLimitedConn: who waits for bandwidth
    wake,       \* when the sleep at the head of takes ends, or Unset
    cipherQ,    \* readChain of EncryptedConn
    ended,      \* push(null) was called on the outermost layer
    partial,    \* what the decoder of CompressedConn has of a frame
    buf,        \* what the outermost layer has pushed and nobody has read
    closed,     \* the layers are destroyed; one takes the others with it
    reset,      \* history: the socket broke, or the peer sent nonsense
    consumer,   \* the pipe to the backend
    got,        \* what the consumer has read
    localEnded, \* the backend has ended its side
    written,    \* chunks the consumer has written to the outermost layer
    acked,      \* writes it has been told are done; the others it holds back
    outAt,      \* how far the first of the others is
    delivered,  \* history: chunks the socket has taken
    outEnd,     \* end() on the layers: "open", "ending", "ended" on the socket
    passed      \* history: bytes whose sleep is over, in both directions

bwVars == <<bucketVars, now, takes, wake, passed>>
config == <<layers, early>>
inVars == <<sent, fin, readQ, cipherQ, ended>>
top == <<partial, buf, closed, reset>>
pipe == <<consumer, got, localEnded, written>>
outVars == <<acked, outAt, delivered, outEnd>>
vars == <<config, bwVars, inVars, top, pipe, outVars>>

Unset == -1
End == 0    \* the marker of the end among the chunks, which are 1, 2, ...
Limited    == "limited" \in layers
Encrypted  == "encrypted" \in layers
Compressed == "compressed" \in layers

Chunks(n) == [i \in 1..n |-> i]

\* CompressedConn is given the early chunks if no layer below it has them.
\* They may be a frame or a part of one.
Early ==
    \/ /\ Compressed /\ ~Encrypted
       /\ \/ partial = Chunks(early) /\ buf = <<>>
          \/ partial = <<>> /\ buf = Chunks(early)
    \/ /\ ~Compressed \/ Encrypted
       /\ partial = <<>> /\ buf = <<>>

Init ==
    /\ BucketInit
    /\ layers \in Stacks /\ early \in 0..1
    /\ now = 0 /\ takes = <<>> /\ wake = Unset /\ passed = 0
    /\ sent = early /\ fin = FALSE
    /\ readQ = <<>>
    /\ cipherQ = IF Encrypted THEN Chunks(early) ELSE <<>>
    /\ ended = FALSE /\ Early
    /\ closed = FALSE /\ reset = FALSE
    /\ consumer = "opening" /\ got = <<>>
    /\ localEnded = FALSE /\ written = 0
    /\ acked = 0 /\ outAt = "idle" /\ delivered = 0 /\ outEnd = "open"
-----------------------------------------------------------------------------
(* What becomes of a chunk at the top.                                       *)

\* Every layer has put its destroy on the close event of the one below, and
\* drops what nobody has read.
Destroy == closed' = TRUE /\ buf' = <<>>

\* A chunk of a frame that does not decode, or of no frame.
BadFrame == Compressed /\ Destroy /\ reset' = TRUE /\ UNCHANGED partial

\* The decoder puts out a frame with its last chunk.
Decode(c) ==
    \/ /\ \/ Compressed /\ partial' = Append(partial, c) /\ UNCHANGED buf
          \/ Compressed /\ partial' = <<>> /\ buf' = buf \o Append(partial, c)
          \/ ~Compressed /\ buf' = Append(buf, c) /\ UNCHANGED partial
       /\ UNCHANGED <<closed, reset>>
    \/ BadFrame

\* push() of the layer under the top, or of the top.  After the end it is an
\* error of the stream, which destroys it.
Emit(c) ==
    \/ closed /\ UNCHANGED top
    \/ ~closed /\ ended /\ Destroy /\ UNCHANGED <<partial, reset>>
    \/ ~closed /\ ~ended /\ Decode(c)
-----------------------------------------------------------------------------
(* The socket.  It flows from the moment it is wrapped.                      *)

\* #take is called for a chunk when all before it are through.
TakeFor(q) == IF q # <<>> /\ Head(q) # End THEN <<"read">> ELSE <<>>

DataArrives ==
    /\ sent < MaxSent /\ ~fin /\ ~closed
    /\ sent' = sent + 1
    /\ \/ /\ Limited
          /\ readQ' = Append(readQ, sent')
          /\ takes' = IF readQ = <<>> THEN Append(takes, "read") ELSE takes
          /\ UNCHANGED <<cipherQ, top>>
       \/ /\ ~Limited /\ Encrypted
          /\ cipherQ' = Append(cipherQ, sent')
          /\ UNCHANGED <<readQ, takes, top>>
       \/ /\ ~Limited /\ ~Encrypted
          /\ Emit(sent')
          /\ UNCHANGED <<readQ, takes, cipherQ>>
    /\ UNCHANGED <<config, bucketVars, now, wake, passed, fin, ended, pipe, outVars>>

\* A plausible slip: the limiter passes the end on at once, too.
MutantEndArrives ==
    /\ ~fin /\ ~closed
    /\ fin' = TRUE /\ ended' = TRUE
    /\ UNCHANGED <<config, bwVars, sent, readQ, cipherQ, top, pipe, outVars>>

\* The limiter queues the end behind its chunks; the other layers do not.
EndArrives ==
    /\ ~fin /\ ~closed
    /\ fin' = TRUE
    /\ \/ /\ Limited
          /\ readQ' = Append(readQ, End)
          /\ UNCHANGED ended
       \/ /\ ~Limited
          /\ ended' = TRUE
          /\ UNCHANGED readQ
    /\ UNCHANGED <<config, bwVars, sent, cipherQ, top, pipe, outVars>>

\* A TCP socket ends its own side after end, and closes; a stream of the mux
\* session waits for the backend's end.
SocketCloses ==
    /\ fin /\ ~closed
    /\ Mux => outEnd = "ended"
    /\ Destroy
    /\ UNCHANGED <<config, bwVars, inVars, partial, reset, pipe, outVars>>

SocketBreaks ==
    /\ ~closed
    /\ Destroy /\ reset' = TRUE
    /\ UNCHANGED <<config, bwVars, inVars, partial, pipe, outVars>>
-----------------------------------------------------------------------------
(* RateLimitedConn.                                                          *)

\* The head of the chain asks the bucket and goes to sleep.
GoToSleep ==
    /\ takes # <<>> /\ Head(takes) # "end" /\ wake = Unset
    /\ Reserve(1, now)
    /\ wake' = AtLeast(now, updatedAt')
    /\ UNCHANGED <<config, now, takes, passed, inVars, top, pipe, outVars>>

\* push() of the limiter: to EncryptedConn, which is flowing, or to the top.
Push(c) ==
    \/ ~closed /\ Encrypted /\ cipherQ' = Append(cipherQ, c) /\ UNCHANGED top
    \/ (closed \/ ~Encrypted) /\ Emit(c) /\ UNCHANGED cipherQ

WakeUp ==
    /\ wake # Unset /\ now >= wake
    /\ wake' = Unset /\ passed' = passed + 1
    /\ \/ /\ Head(takes) = "read"
          /\ Push(Head(readQ))
          /\ readQ' = Tail(readQ)
          /\ takes' = Tail(takes) \o TakeFor(readQ')
          /\ UNCHANGED outAt
       \/ /\ Head(takes) = "write"
          /\ outAt' = IF closed THEN "idle" ELSE "socket"
          /\ takes' = Tail(takes)
          /\ UNCHANGED <<readQ, cipherQ, top>>
    /\ UNCHANGED <<config, bucketVars, now, sent, fin, ended, pipe, acked, delivered,
                   outEnd>>

\* A plausible slip: the end is taken for an empty chunk.
MutantLimiterEnds ==
    /\ readQ # <<>> /\ Head(readQ) = End
    /\ readQ' = Tail(readQ)
    /\ UNCHANGED <<config, bwVars, sent, fin, ended, cipherQ, top, pipe, outVars>>

\* The queued end: push(null), which the layers above pass on at once.
LimiterEnds ==
    /\ readQ # <<>> /\ Head(readQ) = End
    /\ readQ' = Tail(readQ)
    /\ ended' = (ended \/ ~closed)
    /\ UNCHANGED <<config, bwVars, sent, fin, cipherQ, top, pipe, outVars>>

Tick ==
    /\ now < MaxIdle \/ now < wake
    /\ now' = now + 1
    /\ UNCHANGED <<config, bucketVars, takes, wake, passed, inVars, top, pipe,
                   outVars>>
-----------------------------------------------------------------------------
(* EncryptedConn: the chunk at the head of the chain is decrypted.           *)

\* A plausible slip: the chunks are not chained, and the last is quick.
MutantDecrypt ==
    /\ cipherQ # <<>> /\ ~closed /\ ~ended
    /\ cipherQ' = Front(cipherQ)
    /\ Emit(Last(cipherQ))
    /\ UNCHANGED <<config, bwVars, sent, fin, readQ, ended, pipe, outVars>>

Decrypt ==
    /\ cipherQ # <<>>
    /\ cipherQ' = Tail(cipherQ)
    /\ Emit(Head(cipherQ))
    /\ UNCHANGED <<config, bwVars, sent, fin, readQ, ended, pipe, outVars>>
-----------------------------------------------------------------------------
(* The other direction.  A Duplex has one write under way and holds back the *)
(* others, and the end behind them.  CompressedConn encodes at once.         *)

\* A plausible slip: the callback does not wait for the socket.
MutantStartWrite ==
    /\ outAt = "idle" /\ acked < written /\ ~closed
    /\ outAt' = IF Encrypted THEN "encrypting" ELSE "socket"
    /\ acked' = acked + 1
    /\ UNCHANGED <<config, bwVars, inVars, top, pipe, delivered, outEnd>>

\* _write of the layers, from the top down to the first that takes time.
StartWrite ==
    /\ outAt = "idle" /\ acked < written /\ ~closed
    /\ \/ Encrypted /\ outAt' = "encrypting" /\ UNCHANGED takes
       \/ ~Encrypted /\ Limited /\ outAt' = "limited" /\ takes' = Append(takes, "write")
       \/ ~Encrypted /\ ~Limited /\ outAt' = "socket" /\ UNCHANGED takes
    /\ UNCHANGED <<config, bucketVars, now, wake, passed, inVars, top, pipe, acked,
                   delivered, outEnd>>

\* EncryptedConn writes what it has encrypted to the layer below, which takes
\* nothing after its destruction.
Encrypt ==
    /\ outAt = "encrypting"
    /\ \/ closed /\ outAt' = "idle" /\ UNCHANGED takes
       \/ ~closed /\ Limited /\ outAt' = "limited" /\ takes' = Append(takes, "write")
       \/ ~closed /\ ~Limited /\ outAt' = "socket" /\ UNCHANGED takes
    /\ UNCHANGED <<config, bucketVars, now, wake, passed, inVars, top, pipe, acked,
                   delivered, outEnd>>

\* The socket has taken the chunk, and calls back through the layers.
SocketWrites ==
    /\ outAt = "socket" /\ ~closed /\ outEnd # "ended"
    /\ Mux \/ ~fin
    /\ outAt' = "idle"
    /\ delivered' = delivered + 1
    /\ acked' = delivered'
    /\ UNCHANGED <<config, bwVars, inVars, top, pipe, outEnd>>

\* A TCP socket that has seen the peer's end takes no more; the error destroys
\* the layers.
WriteFails ==
    /\ outAt = "socket" /\ ~closed
    /\ ~Mux /\ fin
    /\ outAt' = "idle"
    /\ Destroy
    /\ UNCHANGED <<config, bwVars, inVars, partial, reset, pipe, acked, delivered,
                   outEnd>>

\* _final of the layers: the limiter's waits for its chain.
Finish ==
    /\ localEnded /\ acked = written /\ outEnd = "open" /\ ~closed
    /\ \/ Limited /\ outEnd' = "ending" /\ takes' = Append(takes, "end")
       \/ ~Limited /\ outEnd' = "ended" /\ UNCHANGED takes
    /\ UNCHANGED <<config, bucketVars, now, wake, passed, inVars, top, pipe, acked,
                   outAt, delivered>>

FinishLimited ==
    /\ takes # <<>> /\ Head(takes) = "end"
    /\ takes' = Tail(takes)
    /\ outEnd' = "ended"
    /\ UNCHANGED <<config, bucketVars, now, wake, passed, inVars, top, pipe, acked,
                   outAt, delivered>>
-----------------------------------------------------------------------------
(* The consumer: hooks and the dial of the backend come first, then the      *)
(* early chunks unless a layer has taken them, then the pipe.  A pipe to     *)
(* streams that are closed already is told nothing (see WorkConnPool).       *)

Join ==
    /\ consumer = "opening"
    /\ consumer' = IF closed THEN "deaf" ELSE "joined"
    /\ got' = IF Encrypted \/ Compressed THEN <<>> ELSE Chunks(early)
    /\ UNCHANGED <<config, bwVars, inVars, top, localEnded, written, outVars>>

Read ==
    /\ consumer = "joined" /\ buf # <<>>
    /\ got' = Append(got, Head(buf))
    /\ buf' = Tail(buf)
    /\ UNCHANGED <<config, bwVars, inVars, partial, closed, reset, consumer,
                   localEnded, written, outVars>>

SeesEnd ==
    /\ consumer = "joined" /\ ended /\ ~closed /\ buf = <<>>
    /\ consumer' = "sawEnd"
    /\ UNCHANGED <<config, bwVars, inVars, top, got, localEnded, written, outVars>>

SeesClose ==
    /\ consumer = "joined" /\ closed
    /\ consumer' = "sawClose"
    /\ UNCHANGED <<config, bwVars, inVars, top, got, localEnded, written, outVars>>

Open == consumer \in {"joined", "sawEnd"} /\ ~closed /\ ~localEnded

Write ==
    /\ Open /\ written < MaxWritten
    /\ written' = written + 1
    /\ UNCHANGED <<config, bwVars, inVars, top, consumer, got, localEnded, outVars>>

LocalEnds ==
    /\ Open
    /\ localEnded' = TRUE
    /\ UNCHANGED <<config, bwVars, inVars, top, consumer, got, written, outVars>>
-----------------------------------------------------------------------------
Incoming == WakeUp \/ LimiterEnds \/ Decrypt
Outgoing == StartWrite \/ Encrypt \/ SocketWrites \/ WriteFails
            \/ Finish \/ FinishLimited
Consume == Join \/ Read \/ SeesEnd \/ SeesClose

Next == \/ DataArrives \/ EndArrives \/ SocketCloses \/ SocketBreaks
        \/ GoToSleep \/ Tick \/ Incoming \/ Outgoing
        \/ Consume \/ Write \/ LocalEnds

Safety == Init /\ [][Next]_vars

\* Timers fire, promises settle, the backend is reached, and it and the peer
\* take what is written to them.  Nothing is expected of what they send.
Fairness == /\ WF_vars(Tick)
            /\ WF_vars(GoToSleep) /\ WF_vars(WakeUp) /\ WF_vars(LimiterEnds)
            /\ WF_vars(Decrypt) /\ WF_vars(Consume) /\ WF_vars(Outgoing)

Spec == Safety /\ Fairness
-----------------------------------------------------------------------------
TypeOK ==
    /\ layers \in Stacks /\ early \in 0..1
    /\ tokens \in 0..(Rate * Second) /\ updatedAt \in Nat /\ granted \in Nat
    /\ now \in Nat /\ wake \in Nat \cup {Unset} /\ passed \in Nat
    /\ takes \in Seq({"read", "write", "end"})
    /\ {sent, written, acked, delivered} \subseteq Nat
    /\ {fin, ended, closed, reset, localEnded} \subseteq BOOLEAN
    /\ readQ \in Seq(Nat) /\ {cipherQ, partial, buf, got} \subseteq Seq(Nat \ {End})
    /\ consumer \in {"opening", "joined", "deaf", "sawEnd", "sawClose"}
    /\ outAt \in {"idle", "encrypting", "limited", "socket"}
    /\ outEnd \in {"open", "ending", "ended"}

\* The chunks come out in order, each once and none left out in between,
\* those that came with StartWorkConn first; and as long as the layers are not
\* destroyed each of them is in exactly one place.
InLimiter == IF readQ # <<>> /\ Last(readQ) = End THEN Front(readQ) ELSE readQ
Awaited ==
    IF consumer = "opening" /\ ~Encrypted /\ ~Compressed THEN Chunks(early) ELSE <<>>
ReadsInOrder ==
    /\ got = Chunks(Len(got))
    /\ ~closed =>
         Awaited \o got \o buf \o partial \o cipherQ \o InLimiter = Chunks(sent)

\* At no moment have more bytes passed the limiter, in both directions
\* together, than the bandwidth allows after a burst of one second.
BandwidthKept == Second * passed <= Rate * (Second + now)

\* A connection that is not encrypted ends only after its data, but for a frame
\* that the peer did not complete.
EndIsLast ==
    consumer = "sawEnd" /\ ~Encrypted => Len(got) + Len(partial) = sent

\* When the peer ends or breaks the connection the pipe is told, and so does
\* not wait for ever.
EndNoticed == (fin \/ closed) /\ consumer = "joined" ~> consumer # "joined"

\* When the backend ends its side, the end reaches the socket, after all that
\* was written before it and however much the peer has in the same bucket.
EndDelivered ==
    localEnded ~> closed \/ (outEnd = "ended" /\ delivered = written)

\* What the peer sent before it ended the connection is read, as the tests of
\* the encrypted layer have it: crypto.test.ts:28 and :48.
ReadsPreserved ==
    fin /\ ~reset /\ consumer \in {"sawEnd", "sawClose"} => Len(got) = sent
=============================================================================
