--------------------------- MODULE ControlCipher ---------------------------
(***************************************************************************)
(* The encryption of the control connection: AeadCryptoConn for v2 and     *)
(* CryptoConn for v1 (src/protocol/crypto.ts), one direction of it, from   *)
(* the writer at one end to the reader at the other.                       *)
(*                                                                         *)
(* The startup, the heartbeat, the read loop and the monitors all write,   *)
(* none of them waiting for another: each write() is a link of writeChain. *)
(* Each chunk that arrives, cut anywhere, is a link of readChain.  Both    *)
(* ends count what they encrypt and decrypt: the nonce goes up with each   *)
(* frame, the register of CFB moves on with each byte.                     *)
(***************************************************************************)
EXTENDS Integers, Sequences, SequencesExt

\* The connections to choose from: aead tells the two classes apart, sameKey
\* whether both ends derived the same keys, and parts has for each message, in
\* the order of the calls of write(), how many parts it has: frames of 64 KiB,
\* or bytes.
CONSTANT Plans

ASSUME PlansAssumption ==
    Plans \subseteq [aead : BOOLEAN, sameKey : BOOLEAN, parts : Seq(Nat \ {0})]

VARIABLES
    plan,       \* this connection; never changed
    open,       \* the socket
    called,     \* messages for which write() was called
    acks,       \* what their callbacks were called with, "ok" or "failed"
    part,       \* parts sent of the message whose link runs
    link,       \* the await of this link: "next", "encrypting", "writing"
    failed,     \* writeChain is rejected, and every link chained to it
    counter,    \* writeNonce, or the place of the encryptor
    sent,       \* history: the parts given to the socket
    wire,       \* bytes underway
    chunks,     \* those that readChain has yet to handle
    readBuffer,
    started,    \* the nonce or vector in front has been read
    reading,    \* a link of readChain runs
    decrypting, \* the ciphertext it waits for, or <<>>
    place,      \* readNonce, or the place of the decryptor
    emitted,    \* what the owner of the reader got
    over        \* the owner was told of an end or an error: it listens no more

writeVars == <<called, acks, part, link, failed, counter, sent>>
readVars == <<chunks, readBuffer, started, reading, decrypting, place, emitted, over>>
vars == <<plan, open, writeVars, wire, readVars>>

Parts(m) == [p \in 1..plan.parts[m] |-> <<m, p>>]
Written(n) == FlattenSeq([m \in 1..n |-> Parts(m)])
Message == Len(acks) + 1    \* the one whose link runs

Init ==
    /\ plan \in Plans /\ open = TRUE
    /\ called = 0 /\ acks = <<>> /\ part = 0 /\ link = "next" /\ failed = FALSE
    /\ counter = 0 /\ sent = <<>> /\ wire = <<>>
    /\ chunks = <<>> /\ readBuffer = <<>> /\ started = FALSE /\ reading = FALSE
    /\ decrypting = <<>> /\ place = 0 /\ emitted = <<>> /\ over = FALSE
-----------------------------------------------------------------------------
(* write().  A byte underway is <<part, k, c>>, the k-th of this part, made  *)
(* at count c of the writer: a frame has a header and a ciphertext, which    *)
(* decrypts only at the same count; a part of CFB is a single byte.          *)

Prefix == <<<<"prefix", 1, 0>>, <<"prefix", 2, 0>>>>

\* What is encrypted at once: one frame, or the whole message.
Unit == IF plan.aead THEN <<<<Message, part + 1>>>> ELSE Parts(Message)

Ciphertext ==
    IF plan.aead THEN [k \in 1..2 |-> <<Unit[1], k, counter>>]
    ELSE [k \in 1..Len(Unit) |-> <<Unit[k], 1, counter + k - 1>>]

Write ==
    /\ called < Len(plan.parts)
    /\ called' = called + 1
    /\ UNCHANGED <<plan, open, acks, part, link, failed, counter, sent, wire, readVars>>

Answer(with) == acks' = Append(acks, with) /\ part' = 0 /\ link' = "next"

\* A plausible slip: each link begins whatever has become of the one before.
MutantEncrypt ==
    /\ link = "next" /\ Len(acks) < called
    /\ link' = "encrypting"
    /\ UNCHANGED <<plan, open, called, acks, part, failed, counter, sent, wire,
                   readVars>>

Encrypt ==
    /\ link = "next" /\ Len(acks) < called /\ ~failed
    /\ link' = "encrypting"
    /\ UNCHANGED <<plan, open, called, acks, part, failed, counter, sent, wire,
                   readVars>>

\* The nonce or the vector goes out in front of the first ciphertext.  The
\* count goes up before the write is waited for.
Encrypted ==
    /\ link = "encrypting"
    /\ link' = "writing"
    /\ counter' = counter + Len(Unit)
    /\ \/ /\ open
          /\ wire' = wire \o (IF counter = 0 THEN Prefix ELSE <<>>) \o Ciphertext
          /\ sent' = sent \o Unit
       \/ ~open /\ UNCHANGED <<wire, sent>>
    /\ UNCHANGED <<plan, open, called, acks, part, failed, readVars>>

WriteOk ==
    /\ link = "writing" /\ open
    /\ \/ part + Len(Unit) = plan.parts[Message] /\ Answer("ok")
       \/ /\ part + Len(Unit) < plan.parts[Message]
          /\ part' = part + 1 /\ link' = "next"
          /\ UNCHANGED acks
    /\ UNCHANGED <<plan, open, called, failed, counter, sent, wire, readVars>>

\* The encryption rejects, or the write does, as it always does on a socket
\* that is closed.
WriteFails ==
    /\ link = "encrypting" \/ (link = "writing" /\ ~open)
    /\ Answer("failed") /\ failed' = TRUE
    /\ UNCHANGED <<plan, open, called, counter, sent, wire, readVars>>

Rejected ==
    /\ failed /\ link = "next" /\ Len(acks) < called
    /\ Answer("failed")
    /\ UNCHANGED <<plan, open, called, failed, counter, sent, wire, readVars>>
-----------------------------------------------------------------------------
(* The reader.                                                               *)

\* What is decrypted next: a frame that is complete, or what there is.
NextLen == IF plan.aead THEN 2 ELSE Len(readBuffer)
Ready == started /\ readBuffer # <<>> /\ Len(readBuffer) >= NextLen

Arrive(n) ==
    /\ n \in 1..Len(wire)
    /\ chunks' = Append(chunks, SubSeq(wire, 1, n))
    /\ wire' = SubSeq(wire, n + 1, Len(wire))
    /\ UNCHANGED <<plan, open, writeVars, readBuffer, started, reading, decrypting,
                   place, emitted, over>>

LinkDone == ~reading \/ (decrypting = <<>> /\ ~Ready)

\* A plausible slip: what comes in one chunk with the vector is left out.
MutantTakeChunk ==
    /\ chunks # <<>> /\ LinkDone
    /\ chunks' = Tail(chunks) /\ reading' = TRUE
    /\ LET b == readBuffer \o Head(chunks)
           begins == ~started /\ Len(b) >= Len(Prefix) IN
        /\ started' = (started \/ begins)
        /\ readBuffer' = IF begins THEN <<>> ELSE b
    /\ UNCHANGED <<plan, open, writeVars, wire, decrypting, place, emitted, over>>

\* The next link of readChain: its chunk is put behind what is left, and the
\* nonce or the vector taken from the front.
TakeChunk ==
    /\ chunks # <<>> /\ LinkDone
    /\ chunks' = Tail(chunks) /\ reading' = TRUE
    /\ LET b == readBuffer \o Head(chunks)
           begins == ~started /\ Len(b) >= Len(Prefix) IN
        /\ started' = (started \/ begins)
        /\ readBuffer' = IF begins THEN SubSeq(b, Len(Prefix) + 1, Len(b)) ELSE b
    /\ UNCHANGED <<plan, open, writeVars, wire, decrypting, place, emitted, over>>

Decrypt ==
    /\ reading /\ decrypting = <<>> /\ Ready
    /\ decrypting' = SubSeq(readBuffer, 1, NextLen)
    /\ readBuffer' = SubSeq(readBuffer, NextLen + 1, Len(readBuffer))
    /\ UNCHANGED <<plan, open, writeVars, wire, chunks, started, reading, place,
                   emitted, over>>

Emit(parts) == emitted' = IF over THEN emitted ELSE emitted \o parts

\* A frame authenticates at the count it was made at, with the key it was made
\* with.  A byte of CFB always gives a byte, which is wrong elsewhere.
Authentic == plan.sameKey /\ decrypting[1][3] = place
Plain(k) == IF plan.sameKey /\ decrypting[k][3] = place + k - 1
            THEN decrypting[k][1] ELSE <<0, 0>>

Decrypted ==
    /\ decrypting # <<>> /\ decrypting' = <<>>
    /\ \/ /\ plan.aead /\ Authentic
          /\ Emit(<<decrypting[1][1]>>) /\ place' = place + 1
       \/ /\ ~plan.aead
          /\ Emit([k \in 1..Len(decrypting) |-> Plain(k)])
          /\ place' = place + Len(decrypting)
    /\ UNCHANGED <<plan, open, writeVars, wire, chunks, readBuffer, started, reading,
                   over>>

\* The link rejects: the error is emitted and the socket destroyed.  The links
\* behind it run all the same, at a nonce that no later frame was made with.
DecryptFails ==
    /\ decrypting # <<>> /\ decrypting' = <<>>
    /\ plan.aead /\ ~Authentic
    /\ over' = TRUE /\ open' = FALSE /\ reading' = FALSE
    /\ UNCHANGED <<plan, writeVars, wire, chunks, readBuffer, started, place, emitted>>
-----------------------------------------------------------------------------
(* The connection ends.                                                      *)

\* Either end closes it, or it is reset: some of what is underway is lost.
Close ==
    /\ open /\ open' = FALSE
    /\ \E n \in 0..Len(wire) : wire' = SubSeq(wire, 1, n)
    /\ UNCHANGED <<plan, writeVars, readVars>>

\* end, close and error are passed on at once, past the chunks that wait.
EndHeard ==
    /\ ~open /\ wire = <<>> /\ ~over
    /\ over' = TRUE
    /\ UNCHANGED <<plan, open, writeVars, wire, chunks, readBuffer, started, reading,
                   decrypting, place, emitted>>

Next ==
    \/ Write \/ Encrypt \/ Encrypted \/ WriteOk \/ WriteFails \/ Rejected
    \/ \E n \in 1..Len(wire) : Arrive(n)
    \/ TakeChunk \/ Decrypt \/ Decrypted \/ DecryptFails
    \/ Close \/ EndHeard

Spec == Init /\ [][Next]_vars
-----------------------------------------------------------------------------
\* What the reader's owner gets is what the writers wrote, part after part in
\* the order of their calls, and nothing behind a gap: however the calls of
\* write() overlap, the bytes are cut, and a write, a decryption or the
\* connection fails.  With keys that differ nothing authenticates.
InOrder ==
    plan.aead \/ plan.sameKey =>
        /\ IsPrefix(emitted, Written(called))
        /\ ~plan.sameKey => emitted = <<>>

\* A callback without an error means that the whole message went to the socket,
\* behind all the messages before it; after the first error none succeeds, and
\* no part of a message behind the one that failed goes out.
AckedIsSent ==
    /\ IsPrefix(sent, Written(called))
    /\ \A m \in DOMAIN acks :
        /\ acks[m] = "ok" => Len(sent) >= Len(Written(m))
        /\ acks[m] = "failed" =>
            /\ \A n \in m..Len(acks) : acks[n] = "failed"
            /\ \A k \in DOMAIN sent : sent[k][1] <= m
=============================================================================
