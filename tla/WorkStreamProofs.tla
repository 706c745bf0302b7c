--------------------------- MODULE WorkStreamProofs ---------------------------
(***************************************************************************)
(* The streams around a work connection: the bandwidth of a limited one,   *)
(* from what the token bucket promises to any caller; and the order of     *)
(* what the backend reads.  For any layers, any rate and resolution of the *)
(* clock, and any number of chunks.                                        *)
(***************************************************************************)
EXTENDS WorkStream, SequenceFacts

\* What is at hand has not been granted: together they stay within the limit.
BucketInv ==
    /\ tokens \in 0..(Rate * Second) /\ updatedAt \in Nat /\ granted \in Nat
    /\ Second * granted + tokens <= Rate * (Second + updatedAt)

\* Rounding the wait up covers what is needed.
LEMMA WaitCovers ==
    ASSUME NEW n \in Nat
    PROVE  WaitFor(n) \in Nat /\ n <= Rate * WaitFor(n)
<1> DEFINE q == (n + Rate - 1) \div Rate
<1>1. Rate \in Nat \ {0} /\ n + Rate - 1 \in Nat
  BY RateAssumption
<1>2. q \in Nat
  BY <1>1
<1>3. /\ n + Rate - 1 = Rate * q + ((n + Rate - 1) % Rate)
      /\ (n + Rate - 1) % Rate \in 0..(Rate - 1)
  BY <1>1
<1> QED  BY <1>1, <1>2, <1>3 DEF WaitFor

\* A refill adds what the bandwidth allows for the time, and no more than the
\* bucket holds.
LEMMA RefillBounded ==
    ASSUME BucketInv, NEW c \in Nat
    PROVE  /\ Current(c) \in Nat /\ updatedAt <= Current(c)
           /\ Refilled(c) \in 0..(Rate * Second)
           /\ Second * granted + Refilled(c) <= Rate * (Second + Current(c))
<1> DEFINE d == Current(c) - updatedAt
<1>1. Rate \in Nat /\ Second \in Nat
  BY RateAssumption
<1>2. Current(c) \in Nat /\ updatedAt <= Current(c)
  BY DEF Current, AtLeast, BucketInv
<1>3. d \in Nat /\ d * Rate \in Nat /\ Rate * Second \in Nat
  BY <1>1, <1>2 DEF BucketInv
<1>4. Refilled(c) \in 0..(Rate * Second) /\ Refilled(c) <= tokens + d * Rate
  BY <1>3 DEF Refilled, AtMost, BucketInv
<1>5. Rate * (Second + Current(c)) = Rate * (Second + updatedAt) + d * Rate
  BY <1>1, <1>2 DEF BucketInv
<1>6. Second * granted \in Nat /\ Rate * (Second + updatedAt) \in Nat
  BY <1>1 DEF BucketInv
<1>7. Second * granted + tokens <= Rate * (Second + updatedAt)
  BY DEF BucketInv
<1>8. tokens \in Nat
  BY <1>1 DEF BucketInv
<1> HIDE DEF d
<1>9. Second * granted + Refilled(c) <= Rate * (Second + updatedAt) + d * Rate
  BY <1>3, <1>4, <1>6, <1>7, <1>8
<1> QED  BY <1>2, <1>4, <1>5, <1>9

LEMMA ReserveKeeps ==
    ASSUME BucketInv, NEW bytes \in Nat, NEW c \in Nat, Reserve(bytes, c)
    PROVE  BucketInv'
<1> DEFINE need == bytes * Second
           r == Refilled(c)
           now1 == Current(c)
<1>1. Rate \in Nat /\ Second \in Nat /\ need \in Nat
  BY RateAssumption
<1>2. /\ now1 \in Nat /\ r \in 0..(Rate * Second)
      /\ Second * granted + r <= Rate * (Second + now1)
  BY RefillBounded
<1>3. granted \in Nat /\ granted' = granted + bytes
  BY DEF Reserve, BucketInv
<1>4. granted' \in Nat /\ Second * granted' = Second * granted + need
  BY <1>1, <1>3
<1>5. Second * granted \in Nat /\ Rate * (Second + now1) \in Nat
      /\ Rate * Second \in Nat
  BY <1>1, <1>2, <1>3
<1>6. \/ r >= need /\ tokens' = r - need /\ updatedAt' = now1
      \/ r < need /\ tokens' = 0 /\ updatedAt' = now1 + WaitFor(need - r)
  BY DEF Reserve
<1> HIDE DEF need, r, now1
<1>7. CASE r >= need /\ tokens' = r - need /\ updatedAt' = now1
  <2>1. tokens' \in 0..(Rate * Second)
    BY <1>1, <1>2, <1>5, <1>7
  <2>2. Second * granted' + tokens' <= Rate * (Second + updatedAt')
    <3>1. Rate * (Second + updatedAt') = Rate * (Second + now1)
      BY <1>7
    <3>2. Second * granted' + tokens' = Second * granted + r
      BY <1>1, <1>2, <1>4, <1>5, <1>7
    <3> QED  BY <1>2, <3>1, <3>2
  <2> QED  BY <1>2, <1>4, <1>7, <2>1, <2>2 DEF BucketInv
<1>8. CASE r < need /\ tokens' = 0 /\ updatedAt' = now1 + WaitFor(need - r)
  <2> DEFINE w == WaitFor(need - r)
  <2>1. need - r \in Nat
    BY <1>1, <1>2, <1>8
  <2>2. w \in Nat /\ need - r <= Rate * w
    BY <2>1, WaitCovers
  <2> HIDE DEF w
  <2>3. Rate * (Second + (now1 + w)) = Rate * (Second + now1) + Rate * w
        /\ Rate * w \in Nat
    BY <1>1, <1>2, <2>2
  <2>4. Second * granted + need <= Rate * (Second + now1) + Rate * w
    BY <1>1, <1>2, <1>5, <2>2, <2>3
  <2>5. updatedAt' = now1 + w
    BY <1>8 DEF w
  <2>6. tokens' \in 0..(Rate * Second)
    BY <1>5, <1>8
  <2>7. Second * granted' + tokens' <= Rate * (Second + updatedAt')
    <3>1. Rate * (Second + updatedAt') = Rate * (Second + (now1 + w))
      BY <2>5
    <3> QED  BY <1>1, <1>4, <1>5, <1>8, <2>3, <2>4, <3>1
  <2> QED  BY <1>2, <1>4, <2>2, <2>5, <2>6, <2>7 DEF BucketInv
<1> QED  BY <1>6, <1>7, <1>8

\* However its callers use it, the bucket has never granted more bytes than
\* the bandwidth and one burst allow by the end of the waits it asked for.
THEOREM Bucket == BucketSpec => []Bandwidth
<1>1. BucketInit => BucketInv
  BY RateAssumption DEF BucketInit, BucketInv
<1>2. BucketInv /\ [BucketNext]_bucketVars => BucketInv'
  <2>1. BucketInv /\ BucketNext => BucketInv'
    BY ReserveKeeps DEF BucketNext
  <2>2. BucketInv /\ UNCHANGED bucketVars => BucketInv'
    BY DEF BucketInv, bucketVars
  <2> QED  BY <2>1, <2>2
<1>3. BucketInv => Bandwidth
  BY RateAssumption DEF BucketInv, Bandwidth
<1> QED  BY <1>1, <1>2, <1>3, PTL DEF BucketSpec
-----------------------------------------------------------------------------
\* Only the head of the queue touches the bucket, the clock and the waits.
Other ==
    \/ DataArrives \/ EndArrives \/ SocketCloses \/ SocketBreaks
    \/ LimiterEnds \/ Decrypt \/ Outgoing \/ Consume \/ Write \/ LocalEnds

LEMMA OthersWait == Other => UNCHANGED <<bucketVars, now, wake, passed>>
<1>1. CASE DataArrives \/ EndArrives \/ SocketCloses \/ SocketBreaks \/ LimiterEnds
           \/ Decrypt
  BY <1>1 DEF DataArrives, EndArrives, SocketCloses, SocketBreaks, LimiterEnds,
              Decrypt, bwVars
<1>2. CASE Outgoing
  BY <1>2 DEF Outgoing, StartWrite, Encrypt, SocketWrites, WriteFails, Finish,
              FinishLimited, bwVars
<1>3. CASE Consume \/ Write \/ LocalEnds
  BY <1>3 DEF Consume, Join, Read, SeesEnd, SeesClose, Write, LocalEnds, bwVars
<1> QED  BY <1>1, <1>2, <1>3 DEF Other

LEMMA Split == Next => Other \/ GoToSleep \/ WakeUp \/ Tick
BY DEF Next, Incoming, Other

\* One caller sleeps at a time: what is granted is through, but for its byte.
Sleeper ==
    /\ now \in Nat /\ updatedAt \in Nat
    /\ wake = Unset => granted = passed /\ updatedAt <= now
    /\ wake # Unset => /\ wake \in Nat /\ updatedAt <= wake
                       /\ granted = passed + 1

StreamInv == BucketInv /\ Sleeper /\ passed \in Nat /\ BandwidthKept

LEMMA StreamInit == Init => StreamInv
<1> SUFFICES ASSUME Init PROVE StreamInv
  OBVIOUS
<1>1. Rate \in Nat /\ Second \in Nat /\ Rate * Second \in Nat
  BY RateAssumption
<1>2. Rate * (Second + 0) = Rate * Second /\ Second * 0 = 0
  BY <1>1
<1> QED
  BY <1>1, <1>2
     DEF Init, BucketInit, StreamInv, BucketInv, Sleeper, Unset, BandwidthKept

LEMMA StreamStep == StreamInv /\ [Next]_vars => StreamInv'
<1> SUFFICES ASSUME StreamInv, [Next]_vars PROVE StreamInv'
  OBVIOUS
<1>1. Rate \in Nat /\ Second \in Nat /\ now \in Nat /\ passed \in Nat
  BY RateAssumption DEF StreamInv, Sleeper
<1>2. CASE UNCHANGED <<bucketVars, now, wake, passed>>
  BY <1>2 DEF StreamInv, BucketInv, Sleeper, BandwidthKept, bucketVars
<1>3. CASE GoToSleep
  <2>1. Reserve(1, now) /\ UNCHANGED <<now, passed>> /\ wake = Unset
        /\ wake' = AtLeast(now, updatedAt')
    BY <1>3 DEF GoToSleep
  <2>2. BucketInv'
    BY <2>1, <1>1, ReserveKeeps DEF StreamInv
  <2>3. granted' = passed' + 1
    BY <2>1 DEF Reserve, StreamInv, Sleeper
  <2>4. wake' \in Nat /\ updatedAt' <= wake' /\ updatedAt' \in Nat
    BY <2>1, <2>2, <1>1 DEF AtLeast, BucketInv
  <2>5. Sleeper'
    BY <2>1, <2>3, <2>4, <1>1 DEF Sleeper, Unset
  <2> QED  BY <2>1, <2>2, <2>5, <1>1 DEF StreamInv, BandwidthKept
<1>4. CASE WakeUp
  <2>1. /\ wake # Unset /\ wake <= now /\ wake' = Unset /\ passed' = passed + 1
        /\ UNCHANGED <<tokens, updatedAt, granted, now>>
    BY <1>4, <1>1 DEF WakeUp, bucketVars, StreamInv, Sleeper
  <2>2. passed' = granted /\ updatedAt <= now /\ updatedAt \in Nat
    BY <2>1, <1>1 DEF StreamInv, Sleeper
  <2>3. BucketInv' /\ Sleeper'
    BY <2>1, <2>2, <1>1 DEF StreamInv, BucketInv, Sleeper
  <2>4. Rate * (Second + updatedAt) <= Rate * (Second + now)
    <3> DEFINE d == now - updatedAt
    <3>1. d \in Nat /\ Rate * d \in Nat
      BY <1>1, <2>2
    <3>2. Rate * (Second + now) = Rate * (Second + updatedAt) + Rate * d
      BY <1>1, <2>2
    <3>3. Rate * (Second + updatedAt) \in Nat
      BY <1>1, <2>2
    <3> HIDE DEF d
    <3> QED  BY <3>1, <3>2, <3>3
  <2>5. Second * granted <= Rate * (Second + updatedAt)
    <3>1. /\ tokens \in Nat /\ Second * granted \in Nat
          /\ Rate * (Second + updatedAt) \in Nat
          /\ Second * granted + tokens <= Rate * (Second + updatedAt)
      BY <1>1 DEF StreamInv, BucketInv
    <3> QED  BY <3>1
  <2>6. Second * passed' <= Rate * (Second + now')
    <3>1. /\ Second * granted \in Nat /\ Rate * (Second + updatedAt) \in Nat
          /\ Rate * (Second + now) \in Nat
      BY <1>1, <2>2 DEF StreamInv, BucketInv
    <3> QED  BY <2>1, <2>2, <2>4, <2>5, <3>1
  <2> QED  BY <2>1, <2>3, <2>6, <1>1 DEF StreamInv, BandwidthKept
<1>5. CASE Tick
  <2>1. /\ now' = now + 1
        /\ UNCHANGED <<tokens, updatedAt, granted, wake, passed>>
    BY <1>5 DEF Tick, bucketVars
  <2>2. BucketInv' /\ Sleeper'
    BY <2>1, <1>1 DEF StreamInv, BucketInv, Sleeper
  <2>3. Rate * (Second + (now + 1)) = Rate * (Second + now) + Rate
    BY <1>1
  <2>4. Second * passed \in Nat /\ Rate * (Second + now) \in Nat
        /\ Second * passed <= Rate * (Second + now)
    BY <1>1 DEF StreamInv, BandwidthKept
  <2> QED  BY <2>1, <2>2, <2>3, <2>4, <1>1 DEF StreamInv, BandwidthKept
<1>6. CASE UNCHANGED vars
  BY <1>6, <1>2 DEF vars, bwVars
<1> QED  BY <1>2, <1>3, <1>4, <1>5, <1>6, Split, OthersWait

\* The two directions of a connection share its bucket, and together keep to
\* the bandwidth by the clock, whatever is queued and whenever timers fire.
THEOREM Limit == Safety => []BandwidthKept
<1>1. StreamInv => BandwidthKept
  BY DEF StreamInv
<1> QED  BY StreamInit, StreamStep, <1>1, PTL DEF Safety
-----------------------------------------------------------------------------
(* The chunks in the layers.                                                 *)

Chunk == Nat \ {End}

LEMMA ChunksSeq ==
    ASSUME NEW n \in Nat
    PROVE  /\ Chunks(n) \in Seq(Chunk) /\ Len(Chunks(n)) = n
           /\ \A i \in 1..n : Chunks(n)[i] = i
BY DEF Chunks, Chunk, End

LEMMA ChunksStep ==
    ASSUME NEW n \in Nat
    PROVE  Chunks(n + 1) = Append(Chunks(n), n + 1)
<1>1. /\ n + 1 \in Nat /\ n + 1 \in Chunk /\ Chunks(n) \in Seq(Chunk)
      /\ Chunks(n + 1) \in Seq(Chunk) /\ Len(Chunks(n + 1)) = n + 1
      /\ Len(Chunks(n)) = n
      /\ \A i \in 1..n : Chunks(n)[i] = i
      /\ \A i \in 1..(n + 1) : Chunks(n + 1)[i] = i
  BY ChunksSeq DEF Chunk, End
<1> DEFINE t == Append(Chunks(n), n + 1)
<1>2. t \in Seq(Chunk) /\ Len(t) = n + 1 /\ (\A i \in 1..n : t[i] = i) /\ t[n + 1] = n + 1
  BY <1>1, AppendProperties
<1> HIDE DEF t
<1>3. \A i \in 1..(n + 1) : t[i] = Chunks(n + 1)[i]
  BY <1>1, <1>2
<1>4. t = Chunks(n + 1)
  BY <1>1, <1>2, <1>3, SeqEqual
<1> QED  BY <1>4 DEF t

\* What is left of Chunks when something at its end is taken off.
LEMMA ChunksPrefix ==
    ASSUME NEW n \in Nat, NEW x \in Seq(Chunk), NEW y \in Seq(Chunk),
           x \o y = Chunks(n)
    PROVE  x = Chunks(Len(x))
<1>1. Len(x) \in Nat /\ Len(y) \in Nat
  OBVIOUS
<1>2. n = Len(x) + Len(y) /\ \A i \in 1..Len(x) : x[i] = i
  <2>1. /\ Len(x \o y) = Len(x) + Len(y)
        /\ \A i \in 1..(Len(x) + Len(y)) :
             (x \o y)[i] = IF i <= Len(x) THEN x[i] ELSE y[i - Len(x)]
    BY ConcatProperties
  <2>2. Len(x \o y) = n /\ \A i \in 1..n : (x \o y)[i] = i
    BY ChunksSeq
  <2> QED  BY <1>1, <2>1, <2>2
<1>3. /\ Chunks(Len(x)) \in Seq(Chunk) /\ Len(Chunks(Len(x))) = Len(x)
      /\ \A i \in 1..Len(x) : Chunks(Len(x))[i] = i
  BY <1>1, ChunksSeq
<1>4. \A i \in 1..Len(x) : x[i] = Chunks(Len(x))[i]
  BY <1>2, <1>3
<1> QED  BY <1>3, <1>4, SeqEqual

(* What waits in the limiter *)
Before(q) == IF q # <<>> /\ Last(q) = End THEN Front(q) ELSE q

OneEnd(q) == \A i \in 1..Len(q) : q[i] = End => i = Len(q)

LEMMA BeforeIs ==
    ASSUME NEW p \in Seq(Nat), NEW e \in Nat
    PROVE  Before(Append(p, e)) = IF e = End THEN p ELSE Append(p, e)
<1>1. Append(p, e) # <<>>
  BY AppendProperties
<1> QED  BY <1>1, LastAppended DEF Before

LEMMA NoEnd ==
    ASSUME NEW p \in Seq(Nat), \A i \in 1..Len(p) : p[i] # End
    PROVE  p \in Seq(Chunk) /\ Before(p) = p
<1>1. \A i \in 1..Len(p) : p[i] \in Chunk
  BY DEF Chunk
<1>2. p \in Seq(Chunk)
  <2>1. Len(p) \in Nat /\ p = [i \in 1..Len(p) |-> p[i]]
    OBVIOUS
  <2> QED  BY <1>1, <2>1, IsASeq
<1>3. p # <<>> => Last(p) # End
  BY DEF Last
<1> QED  BY <1>2, <1>3 DEF Before

\* A queue with its last element apart.
LEMMA OneEndIs ==
    ASSUME NEW p \in Seq(Nat), NEW e \in Nat
    PROVE  OneEnd(Append(p, e)) <=> \A i \in 1..Len(p) : p[i] # End
<1>1. /\ Len(Append(p, e)) = Len(p) + 1 /\ Len(p) \in Nat
      /\ \A i \in 1..Len(p) : Append(p, e)[i] = p[i]
      /\ Append(p, e)[Len(p) + 1] = e
  BY AppendProperties
<1> QED  BY <1>1 DEF OneEnd

LEMMA BeforeType ==
    ASSUME NEW q \in Seq(Nat), OneEnd(q)
    PROVE  Before(q) \in Seq(Chunk)
<1>1. CASE q = <<>>
  BY <1>1 DEF Before
<1>2. CASE q # <<>>
  <2>1. PICK p \in Seq(Nat), e \in Nat : q = Append(p, e)
    BY <1>2, SequenceEmptyOrAppend
  <2>2. p \in Seq(Chunk)
    BY <2>1, OneEndIs, NoEnd
  <2>3. e # End => Append(p, e) \in Seq(Chunk)
    BY <2>2, AppendProperties DEF Chunk
  <2> QED  BY <2>1, <2>2, <2>3, BeforeIs
<1> QED  BY <1>1, <1>2

LEMMA BeforeTail ==
    ASSUME NEW q \in Seq(Nat), OneEnd(q), q # <<>>
    PROVE  /\ Tail(q) \in Seq(Nat) /\ OneEnd(Tail(q))
           /\ Head(q) # End => /\ Head(q) \in Chunk
                              /\ Before(q) = Cons(Head(q), Before(Tail(q)))
           /\ Head(q) = End => Tail(q) = <<>> /\ Before(q) = <<>>
<1>1. PICK p \in Seq(Nat), e \in Nat : q = Append(p, e)
  BY SequenceEmptyOrAppend
<1>2. \A i \in 1..Len(p) : p[i] # End
  BY <1>1, OneEndIs
<1>3. Before(q) = IF e = End THEN p ELSE q
  BY <1>1, BeforeIs
<1>4. q = Cons(Head(q), Tail(q)) /\ Head(q) \in Nat /\ Tail(q) \in Seq(Nat)
  BY Behead
<1>5. CASE p = <<>>
  <2>1. Head(q) = e /\ Tail(q) = <<>>
    BY <1>1, <1>5, HeadTailAppend
  <2>2. Before(<<>>) = <<>> /\ OneEnd(<<>>)
    BY DEF Before, OneEnd
  <2>3. e # End => Before(q) = Cons(Head(q), Before(Tail(q)))
    BY <1>3, <1>4, <2>1, <2>2
  <2> QED  BY <1>3, <1>4, <1>5, <2>1, <2>2, <2>3 DEF Chunk
<1>6. CASE p # <<>>
  <2>1. Head(q) = Head(p) /\ Tail(q) = Append(Tail(p), e)
    BY <1>1, <1>6, HeadTailAppend
  <2>2. p = Cons(Head(p), Tail(p)) /\ Tail(p) \in Seq(Nat)
    BY <1>6, Behead
  <2>3. /\ Head(p) = p[1] /\ Len(p) \in Nat /\ Len(p) > 0
        /\ Len(Tail(p)) = Len(p) - 1
        /\ \A i \in 1..(Len(p) - 1) : Tail(p)[i] = p[i + 1]
    BY <1>6
  <2>4. Head(q) # End /\ \A i \in 1..Len(Tail(p)) : Tail(p)[i] # End
    BY <1>2, <2>1, <2>3
  <2>5. OneEnd(Tail(q))
    BY <2>1, <2>2, <2>4, OneEndIs
  <2>6. Before(Tail(q)) = IF e = End THEN Tail(p) ELSE Tail(q)
    BY <2>1, <2>2, BeforeIs
  <2>7. Before(q) = Cons(Head(q), Before(Tail(q)))
    BY <1>3, <1>4, <2>1, <2>2, <2>6
  <2> QED  BY <1>4, <2>4, <2>5, <2>7 DEF Chunk
<1> QED  BY <1>5, <1>6
-----------------------------------------------------------------------------
(* The state of the layers, and how it changes.                              *)

DataTypes ==
    /\ layers \in Stacks /\ early \in 0..1 /\ sent \in Nat
    /\ fin \in BOOLEAN /\ ended \in BOOLEAN /\ closed \in BOOLEAN
    /\ reset \in BOOLEAN
    /\ readQ \in Seq(Nat) /\ cipherQ \in Seq(Chunk) /\ partial \in Seq(Chunk)
    /\ buf \in Seq(Chunk) /\ got \in Seq(Chunk)
    /\ consumer \in {"opening", "joined", "deaf", "sawEnd", "sawClose"}

\* Where nothing can be.
Layered ==
    /\ ~Limited => readQ = <<>>
    /\ ~Encrypted => cipherQ = <<>>
    /\ ~Compressed => partial = <<>>
    /\ closed => buf = <<>>
    /\ consumer = "opening" => got = <<>>

\* The end is behind everything else, and nothing is behind it.
EndLast == OneEnd(readQ) /\ (\A i \in 1..Len(readQ) : readQ[i] = End => fin)

Top == buf \o partial
Behind == cipherQ \o Before(readQ)
Through == Awaited \o got
Flow == ~closed => (Through \o Top) \o Behind = Chunks(sent)

Ends ==
    /\ ended => fin
    /\ ended /\ ~Encrypted => readQ = <<>>
    /\ consumer = "sawEnd" => ended

Ordered == got = Chunks(Len(got))

FlowInv ==
    DataTypes /\ Layered /\ EndLast /\ Flow /\ Ends /\ Ordered /\ EndIsLast

LEMMA FlowTypes ==
    ASSUME DataTypes, OneEnd(readQ)
    PROVE  /\ Awaited \in Seq(Chunk) /\ Through \in Seq(Chunk)
           /\ Top \in Seq(Chunk) /\ Behind \in Seq(Chunk)
           /\ Before(readQ) \in Seq(Chunk)
<1>1. early \in Nat /\ Chunks(early) \in Seq(Chunk)
  BY ChunksSeq DEF DataTypes
<1>2. Awaited \in Seq(Chunk)
  BY <1>1 DEF Awaited
<1>3. Before(readQ) \in Seq(Chunk)
  BY BeforeType DEF DataTypes
<1> QED
  BY <1>2, <1>3, ConcatProperties DEF Through, Top, Behind, DataTypes

\* What is pushed to the top is at its end, unless the layers are destroyed.
LEMMA EmitEffect ==
    ASSUME DataTypes, Layered, NEW c \in Chunk, Emit(c), config' = config,
           consumer' = consumer, got' = got
    PROVE  /\ closed' \in BOOLEAN /\ reset' \in BOOLEAN
           /\ partial' \in Seq(Chunk) /\ buf' \in Seq(Chunk)
           /\ ~Compressed => partial' = <<>>
           /\ closed' => buf' = <<>>
           /\ ~closed' => ~closed /\ ~ended /\ Top' = Append(Top, c)
           /\ partial' # partial => ~ended
<1>1. CASE closed /\ UNCHANGED top
  BY <1>1 DEF top, DataTypes, Layered
<1>2. CASE Destroy /\ (UNCHANGED <<partial, reset>> \/ BadFrame)
  <2>1. closed' = TRUE /\ buf' = <<>> /\ partial' = partial
    BY <1>2 DEF Destroy, BadFrame
  <2>2. reset' \in BOOLEAN /\ closed' \in BOOLEAN
    BY <1>2, Zenon DEF BadFrame, DataTypes, Destroy
  <2>3. partial \in Seq(Chunk) /\ buf' \in Seq(Chunk) /\ (~Compressed => partial = <<>>)
    BY <2>1 DEF DataTypes, Layered
  <2> QED  BY <2>1, <2>2, <2>3
<1>3. CASE ~closed /\ ~ended /\ Compressed /\ partial' = Append(partial, c)
           /\ UNCHANGED <<buf, closed, reset>>
  <2>1. Top' = Append(Top, c)
    BY <1>3, AppendBehind DEF Top, DataTypes
  <2> QED  BY <1>3, <2>1, AppendProperties DEF DataTypes, Layered
<1>4. CASE ~closed /\ ~ended /\ Compressed /\ partial' = <<>>
           /\ buf' = buf \o Append(partial, c) /\ UNCHANGED <<closed, reset>>
  <2>1. Append(partial, c) \in Seq(Chunk)
    BY AppendProperties DEF DataTypes
  <2>2. buf' \in Seq(Chunk) /\ Top' = buf'
    BY <1>4, <2>1, ConcatProperties, ConcatEmptySeq DEF Top, DataTypes
  <2>3. Top' = Append(Top, c)
    BY <1>4, <2>2, AppendBehind DEF Top, DataTypes
  <2> QED  BY <1>4, <2>2, <2>3 DEF DataTypes, Layered
<1>5. CASE ~closed /\ ~ended /\ ~Compressed /\ buf' = Append(buf, c)
           /\ UNCHANGED <<partial, closed, reset>>
  <2>1. partial = <<>> /\ Append(buf, c) \in Seq(Chunk)
    BY <1>5, AppendProperties DEF Layered, DataTypes
  <2>2. Top = buf /\ Top' = buf'
    BY <1>5, <2>1, ConcatEmptySeq DEF Top, DataTypes
  <2> QED  BY <1>5, <2>1, <2>2 DEF DataTypes, Layered
<1> QED
  BY <1>1, <1>2, <1>3, <1>4, <1>5 DEF Emit, Decode, BadFrame

\* The first chunk of those behind, or a new one if there are none, is pushed.
LEMMA EmitFlow ==
    ASSUME FlowInv, NEW c \in Chunk, Emit(c), config' = config,
           consumer' = consumer, got' = got, ended' = ended,
           readQ' \in Seq(Nat), cipherQ' \in Seq(Chunk), OneEnd(readQ'),
           Behind' \in Seq(Chunk),
           \/ sent' = sent /\ Behind = Cons(c, Behind')
           \/ sent' = sent + 1 /\ c = sent + 1 /\ Behind = <<>> /\ Behind' = <<>>
    PROVE  Flow'
<1> SUFFICES ASSUME ~closed' PROVE (Through' \o Top') \o Behind' = Chunks(sent')
  BY DEF Flow
<1>1. /\ DataTypes /\ Layered /\ OneEnd(readQ) /\ ~closed
      /\ Top' = Append(Top, c) /\ sent \in Nat
  BY EmitEffect DEF FlowInv, EndLast, DataTypes
<1>2. /\ Through \in Seq(Chunk) /\ Top \in Seq(Chunk) /\ Behind \in Seq(Chunk)
      /\ Through \o Top \in Seq(Chunk)
  BY <1>1, FlowTypes, ConcatProperties
<1>3. Through' = Through
  BY DEF Through, Awaited, config, Encrypted, Compressed
<1>4. (Through \o Top) \o Behind = Chunks(sent)
  BY <1>1 DEF FlowInv, Flow
<1>5. CASE sent' = sent /\ Behind = Cons(c, Behind')
  <2>1. Behind' \in Seq(Chunk)
    OBVIOUS
  <2>2. Moves(Through, Top, c, Behind')
    BY <1>2, <2>1, MoveOver
  <2> QED  BY <1>1, <1>3, <1>4, <1>5, <2>2 DEF Moves
<1>6. CASE sent' = sent + 1 /\ c = sent + 1 /\ Behind = <<>> /\ Behind' = <<>>
  <2>1. Through \o Top = Chunks(sent)
    BY <1>2, <1>4, <1>6, ConcatEmptySeq
  <2>2. Through \o Append(Top, c) = Append(Chunks(sent), c)
    <3>1. Through \o Append(Top, c) = Append(Through \o Top, c)
      BY <1>2, AppendBehind
    <3> QED  BY <2>1, <3>1
  <2>3. /\ Append(Chunks(sent), c) = Chunks(sent')
        /\ Chunks(sent') \in Seq(Chunk)
    <3>1. sent + 1 \in Nat /\ sent \in Nat
      BY <1>1
    <3>2. Chunks(sent + 1) = Append(Chunks(sent), sent + 1)
      BY <3>1, ChunksStep
    <3>3. Chunks(sent + 1) \in Seq(Chunk)
      BY <3>1, ChunksSeq
    <3> QED  BY <1>6, <3>2, <3>3
  <2> QED  BY <1>1, <1>3, <1>6, <2>2, <2>3, ConcatEmptySeq
<1> QED  BY <1>5, <1>6
-----------------------------------------------------------------------------
(* Every action keeps FlowInv.                                               *)

LEMMA FlowInit == Init => FlowInv
<1> SUFFICES ASSUME Init PROVE FlowInv
  OBVIOUS
<1>1. /\ early \in 0..1 /\ early \in Nat /\ sent = early /\ layers \in Stacks
      /\ fin = FALSE /\ ended = FALSE /\ closed = FALSE /\ reset = FALSE
      /\ readQ = <<>> /\ consumer = "opening" /\ got = <<>>
      /\ cipherQ = (IF Encrypted THEN Chunks(early) ELSE <<>>) /\ Early
  BY DEF Init
<1>2. Chunks(early) \in Seq(Chunk) /\ Len(Chunks(0)) = 0 /\ Chunks(0) \in Seq(Chunk)
  BY <1>1, ChunksSeq
<1>3. partial \in Seq(Chunk) /\ buf \in Seq(Chunk)
      /\ (~Compressed => partial = <<>>)
  BY <1>1, <1>2 DEF Early
<1>4. DataTypes
  <2>1. cipherQ \in Seq(Chunk) /\ readQ \in Seq(Nat) /\ got \in Seq(Chunk)
    BY <1>1, <1>2
  <2>2. sent \in Nat /\ consumer \in {"opening", "joined", "deaf", "sawEnd", "sawClose"}
    BY <1>1
  <2>3. fin \in BOOLEAN /\ ended \in BOOLEAN /\ closed \in BOOLEAN /\ reset \in BOOLEAN
    BY <1>1
  <2> QED  BY <1>1, <1>3, <2>1, <2>2, <2>3, Zenon DEF DataTypes
<1>5. Layered /\ EndLast /\ Ends /\ EndIsLast
  BY <1>1, <1>3 DEF Layered, EndLast, OneEnd, Ends, EndIsLast
<1>6. Ordered
  <2>1. got = Chunks(0)
    BY <1>1, <1>2
  <2> QED  BY <1>1, <2>1 DEF Ordered
<1>7. Flow
  <2>1. Before(readQ) = <<>> /\ Behind = cipherQ /\ Through = Awaited
    BY <1>1, <1>4, <1>5, FlowTypes, ConcatEmptySeq
       DEF Before, Behind, Through, DataTypes, EndLast
  <2>2. Awaited \in Seq(Chunk) /\ Top \in Seq(Chunk) /\ Behind \in Seq(Chunk)
    BY <1>4, <1>5, FlowTypes DEF EndLast
  <2>3. CASE Encrypted
    <3>1. Awaited = <<>> /\ Top = <<>> /\ Behind = Chunks(sent)
      BY <1>1, <2>1, <2>3, ConcatEmptySeq DEF Awaited, Top, Early
    <3> QED  BY <1>1, <1>2, <2>1, <3>1, ConcatEmptySeq DEF Flow
  <2>4. CASE ~Encrypted /\ Compressed
    <3>1. Awaited = <<>> /\ Top = Chunks(sent) /\ Behind = <<>>
      BY <1>1, <1>2, <2>1, <2>4, ConcatEmptySeq DEF Awaited, Top, Early
    <3> QED  BY <1>1, <1>2, <2>1, <3>1, ConcatEmptySeq DEF Flow
  <2>5. CASE ~Encrypted /\ ~Compressed
    <3>1. Awaited = Chunks(sent) /\ Top = <<>> /\ Behind = <<>>
      BY <1>1, <2>1, <2>5, ConcatEmptySeq DEF Awaited, Top, Early
    <3> QED  BY <1>1, <1>2, <2>1, <3>1, ConcatEmptySeq DEF Flow
  <2> QED  BY <2>3, <2>4, <2>5
<1> QED  BY <1>4, <1>5, <1>6, <1>7 DEF FlowInv

\* What leaves the data where they are.
LEMMA FlowQuiet ==
    ASSUME FlowInv, UNCHANGED <<config, inVars, top, consumer, got>>
    PROVE  FlowInv'
<1>1. DataTypes' /\ Layered' /\ EndLast' /\ Ends' /\ Ordered' /\ EndIsLast'
  BY DEF FlowInv, config, inVars, top, DataTypes, Layered, EndLast, Ends, Ordered,
         EndIsLast, Limited, Encrypted, Compressed
<1>2. Flow'
  BY DEF FlowInv, Flow, config, inVars, top, Through, Awaited, Top, Behind, Encrypted,
         Compressed
<1> QED  BY <1>1, <1>2 DEF FlowInv

\* What destroys the layers.
LEMMA FlowDestroyed ==
    ASSUME FlowInv, Destroy, reset' \in BOOLEAN,
           UNCHANGED <<config, inVars, partial, consumer, got>>
    PROVE  FlowInv'
<1>1. closed' = TRUE /\ buf' = <<>> /\ <<>> \in Seq(Chunk)
  BY DEF Destroy
<1>2. DataTypes'
  BY <1>1 DEF FlowInv, config, inVars, DataTypes
<1>3. Layered' /\ EndLast' /\ Ends' /\ Ordered' /\ EndIsLast'
  BY <1>1 DEF FlowInv, config, inVars, Layered, EndLast, Ends, Ordered, EndIsLast,
              Limited, Encrypted, Compressed
<1>4. Flow'
  BY <1>1 DEF Flow
<1> QED  BY <1>2, <1>3, <1>4 DEF FlowInv

\* What is pushed to the top.
LEMMA FlowEmit ==
    ASSUME FlowInv, NEW c \in Chunk, Emit(c),
           UNCHANGED <<config, consumer, got, ended>>,
           readQ' \in Seq(Nat), cipherQ' \in Seq(Chunk), EndLast',
           ~Limited => readQ' = <<>>, ~Encrypted => cipherQ' = <<>>,
           \/ UNCHANGED <<sent, fin>> /\ Behind = Cons(c, Behind')
              /\ (readQ' # readQ => readQ # <<>>)
              /\ (~Encrypted => readQ # <<>>)
           \/ /\ sent' = sent + 1 /\ c = sent + 1 /\ fin = FALSE /\ fin' = fin
              /\ Behind = <<>> /\ Behind' = <<>> /\ readQ' = readQ
    PROVE  FlowInv'
<1>1. DataTypes /\ Layered /\ Ends /\ sent \in Nat
  BY DEF FlowInv, DataTypes
<1>2. /\ closed' \in BOOLEAN /\ reset' \in BOOLEAN
      /\ partial' \in Seq(Chunk) /\ buf' \in Seq(Chunk)
      /\ ~Compressed => partial' = <<>>
      /\ closed' => buf' = <<>>
      /\ partial' # partial => ~ended
  BY <1>1, EmitEffect DEF config
<1>3. sent' \in Nat /\ fin' \in BOOLEAN
  BY <1>1 DEF DataTypes
<1>4. DataTypes'
  BY <1>1, <1>2, <1>3 DEF DataTypes, config
<1>5. Layered'
  BY <1>1, <1>2 DEF Layered, config, Limited, Encrypted, Compressed
<1>6. OneEnd(readQ') /\ Behind' \in Seq(Chunk)
  <2>1. OneEnd(readQ')
    BY DEF EndLast
  <2>2. Before(readQ') \in Seq(Chunk)
    BY <2>1, BeforeType
  <2> QED  BY <2>1, <2>2, ConcatProperties DEF Behind
<1>7. Flow'
  BY <1>6, EmitFlow DEF config
<1>8. Ends'
  BY <1>1, <1>3 DEF Ends, config, Encrypted
<1>9. Ordered' /\ EndIsLast'
  BY <1>1, <1>2 DEF FlowInv, Ordered, EndIsLast, Ends, config, Encrypted
<1> QED  BY <1>4, <1>5, <1>7, <1>8, <1>9 DEF FlowInv

LEMMA FlowArrives == FlowInv /\ DataArrives => FlowInv'
<1> SUFFICES ASSUME FlowInv, DataArrives PROVE FlowInv'
  OBVIOUS
<1> DEFINE c == sent + 1
<1>1. /\ DataTypes /\ Layered /\ EndLast /\ sent \in Nat /\ sent' = c /\ c \in Chunk
      /\ ~fin /\ ~closed
      /\ UNCHANGED <<config, fin, ended, consumer, got>>
  BY DEF FlowInv, DataTypes, DataArrives, pipe, Chunk, End
<1>2. \A i \in 1..Len(readQ) : readQ[i] # End
  BY <1>1 DEF EndLast
<1>3. readQ \in Seq(Chunk) /\ Before(readQ) = readQ /\ readQ \in Seq(Nat)
  BY <1>1, <1>2, NoEnd DEF DataTypes
<1>4. /\ Through \in Seq(Chunk) /\ Top \in Seq(Chunk) /\ Behind \in Seq(Chunk)
      /\ Through \o Top \in Seq(Chunk) /\ cipherQ \in Seq(Chunk)
  BY <1>1, FlowTypes, ConcatProperties DEF EndLast, DataTypes
<1>5. (Through \o Top) \o Behind = Chunks(sent)
  BY <1>1 DEF FlowInv, Flow
<1>6. Chunks(c) = Append(Chunks(sent), c)
  BY <1>1, ChunksStep
<1> HIDE DEF c
\* The chunk is queued: behind everything.
<1>7. ASSUME UNCHANGED top, Behind' = Append(Behind, c),
             readQ' \in Seq(Nat), cipherQ' \in Seq(Chunk), EndLast',
             ~Limited => readQ' = <<>>, ~Encrypted => cipherQ' = <<>>
      PROVE  FlowInv'
  <2>1. DataTypes'
    BY <1>1, <1>7 DEF DataTypes, config, top, Chunk
  <2>2. Layered' /\ Ordered'
    BY <1>1, <1>7 DEF FlowInv, Layered, Ordered, config, top, Limited, Encrypted,
                      Compressed
  <2>3. Ends' /\ EndIsLast'
    BY <1>1 DEF FlowInv, Ends, EndIsLast
  <2>4. Through' = Through /\ Top' = Top
    BY <1>1, <1>7 DEF Through, Awaited, Top, top, config, Encrypted, Compressed
  <2>5. (Through \o Top) \o Append(Behind, c) = Append((Through \o Top) \o Behind, c)
    BY <1>1, <1>4, AppendBehind
  <2>6. Flow'
    BY <1>1, <1>5, <1>6, <1>7, <2>4, <2>5 DEF Flow
  <2> QED  BY <1>7, <2>1, <2>2, <2>3, <2>6 DEF FlowInv
<1>8. CASE Limited /\ readQ' = Append(readQ, c) /\ UNCHANGED <<cipherQ, top>>
  <2>1. /\ readQ' \in Seq(Nat) /\ Len(readQ') = Len(readQ) + 1 /\ Len(readQ) \in Nat
        /\ \A i \in 1..Len(readQ) : readQ'[i] = readQ[i]
        /\ readQ'[Len(readQ) + 1] = c
    BY <1>1, <1>3, <1>8, AppendProperties DEF Chunk
  <2>2. \A i \in 1..Len(readQ') : readQ'[i] # End
    BY <1>1, <1>2, <2>1 DEF Chunk
  <2>3. EndLast'
    BY <2>2 DEF EndLast, OneEnd
  <2>4. Before(readQ') = Append(readQ, c)
    BY <1>8, <2>1, <2>2, NoEnd
  <2>5. Behind' = Append(Behind, c)
    <3>1. cipherQ \o Append(readQ, c) = Append(cipherQ \o readQ, c)
      BY <1>1, <1>3, <1>4, AppendBehind
    <3> QED  BY <1>3, <1>8, <2>4, <3>1 DEF Behind
  <2> QED  BY <1>1, <1>4, <1>7, <1>8, <2>1, <2>3, <2>5 DEF Layered
<1>9. CASE ~Limited /\ Encrypted /\ cipherQ' = Append(cipherQ, c)
           /\ UNCHANGED <<readQ, top>>
  <2>1. readQ = <<>> /\ cipherQ' \in Seq(Chunk)
    BY <1>1, <1>4, <1>9, AppendProperties DEF Layered
  <2>2. Behind = cipherQ /\ Behind' = cipherQ'
    BY <1>3, <1>4, <1>9, <2>1, ConcatEmptySeq DEF Behind
  <2>3. EndLast'
    BY <1>1, <1>9 DEF EndLast
  <2> QED  BY <1>3, <1>7, <1>9, <2>1, <2>2, <2>3
<1>10. CASE ~Limited /\ ~Encrypted /\ Emit(c) /\ UNCHANGED <<readQ, cipherQ>>
  <2>1. readQ = <<>> /\ cipherQ = <<>>
    BY <1>1, <1>10 DEF Layered
  <2>2. Behind = <<>> /\ Behind' = <<>>
    BY <1>3, <1>10, <2>1, ConcatEmptySeq DEF Behind
  <2>3. EndLast'
    BY <1>1, <1>10 DEF EndLast
  <2>4. fin = FALSE /\ sent' = sent + 1 /\ c = sent + 1
    BY <1>1 DEF c, DataTypes
  <2> QED  BY <1>1, <1>3, <1>4, <1>10, <2>1, <2>2, <2>3, <2>4, FlowEmit
<1> QED  BY <1>1, <1>8, <1>9, <1>10 DEF DataArrives

LEMMA FlowEnd == FlowInv /\ EndArrives => FlowInv'
<1> SUFFICES ASSUME FlowInv, EndArrives PROVE FlowInv'
  OBVIOUS
<1>1. /\ DataTypes /\ Layered /\ EndLast /\ Ends /\ fin' = TRUE /\ ~fin
      /\ UNCHANGED <<config, sent, cipherQ, top, consumer, got>>
  BY DEF FlowInv, EndArrives, pipe
<1>2. \A i \in 1..Len(readQ) : readQ[i] # End
  BY <1>1 DEF EndLast
<1>3. readQ \in Seq(Nat) /\ End \in Nat
  BY <1>1 DEF DataTypes, End
<1>4. ASSUME readQ' \in Seq(Nat), OneEnd(readQ'), Before(readQ') = Before(readQ),
             ~Limited => readQ' = <<>>, ended' \in BOOLEAN, ended => ended',
             ended' /\ ~Encrypted => readQ' = <<>>
      PROVE  FlowInv'
  <2>1. DataTypes'
    BY <1>1, <1>4 DEF DataTypes, config, top
  <2>2. Layered' /\ Ordered' /\ EndIsLast'
    BY <1>1, <1>4 DEF FlowInv, Layered, Ordered, EndIsLast, config, top, Limited,
                      Encrypted, Compressed
  <2>3. Ends' /\ EndLast'
    BY <1>1, <1>4 DEF Ends, EndLast, config, Encrypted
  <2>4. Flow'
    BY <1>1, <1>4 DEF FlowInv, Flow, Through, Awaited, Top, Behind, config, top,
                      Encrypted, Compressed
  <2> QED  BY <2>1, <2>2, <2>3, <2>4 DEF FlowInv
<1>5. CASE Limited /\ readQ' = Append(readQ, End) /\ UNCHANGED ended
  <2>1. readQ' \in Seq(Nat)
    BY <1>3, <1>5, AppendProperties
  <2>2. OneEnd(readQ')
    BY <1>2, <1>3, <1>5, OneEndIs
  <2>3. Before(readQ') = readQ /\ Before(readQ) = readQ
    BY <1>2, <1>3, <1>5, BeforeIs, NoEnd
  <2>4. ended \in BOOLEAN /\ ~ended
    BY <1>1, Zenon DEF DataTypes, Ends
  <2> QED  BY <1>4, <1>5, <2>1, <2>2, <2>3, <2>4
<1>6. CASE ~Limited /\ ended' = TRUE /\ UNCHANGED readQ
  <2>1. readQ' = <<>> /\ OneEnd(readQ')
    BY <1>1, <1>6 DEF Layered, EndLast
  <2> QED  BY <1>3, <1>4, <1>6, <2>1
<1> QED  BY <1>5, <1>6 DEF EndArrives

\* What goes from one queue to the next, or out of the last one unheard.
LEMMA FlowMoves ==
    ASSUME FlowInv, UNCHANGED <<config, sent, fin, top, consumer, got>>,
           readQ' \in Seq(Nat), cipherQ' \in Seq(Chunk), OneEnd(readQ'),
           \A i \in 1..Len(readQ') : readQ'[i] = End => fin,
           readQ' # <<>> => readQ # <<>>, ~Encrypted => cipherQ' = <<>>,
           closed \/ Behind' = Behind,
           ended' \in BOOLEAN, ended => ended',
           ended' => ended \/ (fin /\ readQ' = <<>>)
    PROVE  FlowInv'
<1>1. DataTypes'
  BY DEF FlowInv, DataTypes, config, top
<1>2. Layered' /\ EndLast' /\ Ordered'
  BY DEF FlowInv, Layered, EndLast, Ordered, config, top, Limited, Encrypted,
         Compressed
<1>3. Ends' /\ EndIsLast'
  BY DEF FlowInv, Ends, EndIsLast, config, top, Encrypted
<1>4. Flow'
  BY DEF FlowInv, Flow, Through, Awaited, Top, config, top, Encrypted, Compressed
<1> QED  BY <1>1, <1>2, <1>3, <1>4 DEF FlowInv

\* The head of the limiter's queue is a chunk.
LEMMA FlowPasses ==
    ASSUME FlowInv, readQ # <<>>, Head(readQ) # End, Push(Head(readQ)),
           readQ' = Tail(readQ), UNCHANGED <<config, sent, fin, ended, consumer, got>>
    PROVE  FlowInv'
<1> DEFINE h == Head(readQ)
<1>1. DataTypes /\ Layered /\ EndLast /\ OneEnd(readQ) /\ readQ \in Seq(Nat)
      /\ cipherQ \in Seq(Chunk) /\ ended \in BOOLEAN
  BY DEF FlowInv, EndLast, DataTypes
<1>2. /\ readQ' \in Seq(Nat) /\ OneEnd(readQ') /\ h \in Chunk
      /\ Before(readQ) = Cons(h, Before(readQ'))
  BY <1>1, BeforeTail
<1>3. Before(readQ') \in Seq(Chunk) /\ Behind' \in Seq(Chunk)
  <2>1. Before(readQ') \in Seq(Chunk)
    BY <1>2, BeforeType
  <2>2. cipherQ' \in Seq(Chunk)
    <3>1. Append(cipherQ, h) \in Seq(Chunk)
      BY <1>1, <1>2, AppendProperties
    <3> QED  BY <1>1, <3>1 DEF Push
  <2> QED  BY <2>1, <2>2, ConcatProperties DEF Behind
<1>4. \A i \in 1..Len(readQ') : readQ'[i] = End => fin
  <2>1. /\ Len(readQ) \in Nat /\ Len(Tail(readQ)) = Len(readQ) - 1
        /\ \A i \in 1..Len(Tail(readQ)) : Tail(readQ)[i] = readQ[i + 1]
    BY <1>1, HeadTailProperties
  <2> QED  BY <1>1, <2>1 DEF EndLast
<1>5. EndLast'
  BY <1>2, <1>4 DEF EndLast
<1>6. Limited
  BY <1>1 DEF Layered
<1> HIDE DEF h
<1>7. CASE ~closed /\ Encrypted /\ cipherQ' = Append(cipherQ, h) /\ UNCHANGED top
  <2>1. cipherQ' \in Seq(Chunk)
    BY <1>1, <1>2, <1>7, AppendProperties
  <2>2. Append(cipherQ, h) \o Before(readQ') = cipherQ \o Cons(h, Before(readQ'))
    <3>1. h \in Chunk /\ cipherQ \in Seq(Chunk) /\ Before(readQ') \in Seq(Chunk)
      BY <1>1, <1>2, <1>3
    <3> QED  BY <3>1, MoveAlone
  <2>4. Behind' = Behind
    BY <1>2, <1>7, <2>2 DEF Behind
  <2> QED  BY <1>1, <1>2, <1>4, <1>7, <2>1, <2>4, FlowMoves
<1>8. CASE closed /\ Encrypted /\ Emit(h) /\ UNCHANGED cipherQ
  <2>1. UNCHANGED top
    BY <1>8 DEF Emit
  <2> QED  BY <1>1, <1>2, <1>4, <1>8, <2>1, FlowMoves
<1>9. CASE ~Encrypted /\ Emit(h) /\ UNCHANGED cipherQ
  <2>1. cipherQ = <<>> /\ cipherQ' = <<>> /\ cipherQ' \in Seq(Chunk)
    BY <1>1, <1>9 DEF Layered
  <2>2. Behind = Before(readQ) /\ Behind' = Before(readQ')
    <3>1. Before(readQ) \in Seq(Chunk)
      BY <1>1, BeforeType
    <3> QED  BY <1>3, <2>1, <3>1, ConcatEmptySeq DEF Behind
  <2>3. Behind = Cons(h, Behind')
    BY <1>2, <2>2
  <2> QED  BY <1>2, <1>5, <1>6, <1>9, <2>1, <2>3, FlowEmit
<1> QED  BY <1>7, <1>8, <1>9 DEF Push, h

LEMMA FlowLimiterEnds == FlowInv /\ LimiterEnds => FlowInv'
<1> SUFFICES ASSUME FlowInv, LimiterEnds PROVE FlowInv'
  OBVIOUS
<1>1. /\ readQ # <<>> /\ Head(readQ) = End /\ readQ' = Tail(readQ)
      /\ ended' = (ended \/ ~closed)
      /\ UNCHANGED <<config, sent, fin, cipherQ, top, consumer, got>>
  BY DEF LimiterEnds, pipe
<1>2. DataTypes /\ Layered /\ EndLast /\ OneEnd(readQ) /\ readQ \in Seq(Nat)
      /\ cipherQ \in Seq(Chunk)
  BY DEF FlowInv, EndLast, DataTypes
<1>3. Tail(readQ) = <<>> /\ Before(readQ) = <<>>
  BY <1>1, <1>2, BeforeTail
<1>4. Behind' = Behind
  <2>1. Before(<<>>) = <<>>
    BY DEF Before
  <2> QED  BY <1>1, <1>3, <2>1 DEF Behind
<1>5. fin
  <2>1. Len(readQ) > 0 /\ Len(readQ) \in Nat /\ readQ[1] = Head(readQ)
    BY <1>1, <1>2
  <2> QED  BY <1>1, <1>2, <2>1 DEF EndLast
<1>6. ended' \in BOOLEAN /\ (ended => ended')
  BY <1>1, <1>2, Zenon DEF DataTypes
<1>7. readQ' = <<>> /\ readQ' \in Seq(Nat) /\ OneEnd(readQ')
      /\ \A i \in 1..Len(readQ') : readQ'[i] = End => fin
  <2>1. readQ' = <<>>
    BY <1>1, <1>3, Zenon
  <2> QED  BY <2>1, EmptySeq DEF OneEnd
<1>8. ~Encrypted => cipherQ' = <<>>
  BY <1>1, <1>2 DEF Layered
<1> QED  BY <1>1, <1>2, <1>4, <1>5, <1>6, <1>7, <1>8, FlowMoves

LEMMA FlowDecrypts == FlowInv /\ Decrypt => FlowInv'
<1> SUFFICES ASSUME FlowInv, Decrypt PROVE FlowInv'
  OBVIOUS
<1> DEFINE h == Head(cipherQ)
<1>1. /\ cipherQ # <<>> /\ cipherQ' = Tail(cipherQ) /\ Emit(h)
      /\ UNCHANGED <<config, sent, fin, readQ, ended, consumer, got>>
  BY DEF Decrypt, pipe
<1>2. /\ Layered /\ EndLast /\ OneEnd(readQ) /\ readQ \in Seq(Nat)
      /\ cipherQ \in Seq(Chunk)
  BY DEF FlowInv, EndLast, DataTypes
<1>3. cipherQ = Cons(h, cipherQ') /\ h \in Chunk /\ cipherQ' \in Seq(Chunk)
  BY <1>1, <1>2, Behead
<1>4. Encrypted
  BY <1>1, <1>2 DEF Layered
<1>5. Before(readQ) \in Seq(Chunk)
  BY <1>2, BeforeType
<1> HIDE DEF h
<1>6. Behind = Cons(h, Behind')
  <2>1. Cons(h, cipherQ') \o Before(readQ) = Cons(h, cipherQ' \o Before(readQ))
    <3>1. h \in Chunk /\ cipherQ' \in Seq(Chunk) /\ Before(readQ) \in Seq(Chunk)
      BY <1>3, <1>5
    <3> QED  BY <3>1, ConsConcat
  <2> QED  BY <1>1, <1>3, <2>1 DEF Behind
<1>7. EndLast' /\ readQ' \in Seq(Nat) /\ (~Limited => readQ' = <<>>)
  BY <1>1, <1>2 DEF EndLast, Layered
<1> QED  BY <1>1, <1>3, <1>4, <1>6, <1>7, FlowEmit

LEMMA FlowJoins == FlowInv /\ Join => FlowInv'
<1> SUFFICES ASSUME FlowInv, Join PROVE FlowInv'
  OBVIOUS
<1>1. /\ consumer = "opening" /\ consumer' \in {"deaf", "joined"}
      /\ got' = (IF Encrypted \/ Compressed THEN <<>> ELSE Chunks(early))
      /\ UNCHANGED <<config, inVars, top>>
  BY DEF Join
<1>2. /\ DataTypes /\ Layered /\ EndLast /\ got = <<>> /\ early \in Nat
  BY <1>1 DEF FlowInv, Layered, DataTypes
<1>3. got' = Awaited /\ Awaited \in Seq(Chunk) /\ got' = Chunks(Len(got'))
  <2>1. /\ Chunks(early) \in Seq(Chunk) /\ Len(Chunks(early)) = early
        /\ Chunks(0) \in Seq(Chunk) /\ Len(Chunks(0)) = 0
    BY <1>2, ChunksSeq
  <2>2. Chunks(0) = <<>> /\ Len(<<>>) = 0
    BY <2>1, EmptySeq
  <2> QED  BY <1>1, <2>1, <2>2 DEF Awaited
<1>4. Awaited' = <<>> /\ Through' = Through
  <2>1. Awaited' = <<>>
    BY <1>1 DEF Awaited
  <2> QED  BY <1>2, <1>3, <2>1, ConcatEmptySeq DEF Through
<1>5. DataTypes'
  BY <1>1, <1>2, <1>3 DEF DataTypes, config, inVars, top
<1>6. Layered' /\ EndLast' /\ Ordered'
  BY <1>1, <1>2, <1>3 DEF Layered, EndLast, Ordered, config, inVars, top, Limited,
                          Encrypted, Compressed
<1>7. Ends' /\ EndIsLast'
  BY <1>1 DEF FlowInv, Ends, EndIsLast, config, inVars, Encrypted
<1>8. Flow'
  BY <1>1, <1>4 DEF FlowInv, Flow, Top, Behind, config, inVars, top
<1> QED  BY <1>5, <1>6, <1>7, <1>8 DEF FlowInv

LEMMA FlowReads == FlowInv /\ Read => FlowInv'
<1> SUFFICES ASSUME FlowInv, Read PROVE FlowInv'
  OBVIOUS
<1> DEFINE h == Head(buf)
<1>1. /\ consumer = "joined" /\ buf # <<>> /\ got' = Append(got, h)
      /\ buf' = Tail(buf)
      /\ UNCHANGED <<config, inVars, partial, closed, reset, consumer>>
  BY DEF Read
<1>2. /\ DataTypes /\ Layered /\ EndLast /\ OneEnd(readQ) /\ ~closed
      /\ buf \in Seq(Chunk) /\ partial \in Seq(Chunk) /\ got \in Seq(Chunk)
      /\ sent \in Nat
  BY <1>1 DEF FlowInv, Layered, EndLast, DataTypes
<1>3. buf = Cons(h, buf') /\ h \in Chunk /\ buf' \in Seq(Chunk)
  BY <1>1, <1>2, Behead
<1> HIDE DEF h
<1>4. got' \in Seq(Chunk) /\ Top' \in Seq(Chunk) /\ Behind \in Seq(Chunk)
  BY <1>1, <1>2, <1>3, AppendProperties, ConcatProperties, FlowTypes DEF Top
<1>5. Through = got /\ Through' = got'
  <2>1. Awaited = <<>> /\ Awaited' = <<>>
    BY <1>1 DEF Awaited
  <2> QED  BY <1>2, <1>4, <2>1, ConcatEmptySeq DEF Through
<1>6. Top = Cons(h, Top')
  <2>1. Cons(h, buf') \o partial = Cons(h, buf' \o partial)
    <3>1. h \in Chunk /\ buf' \in Seq(Chunk) /\ partial \in Seq(Chunk)
      BY <1>2, <1>3
    <3> QED  BY <3>1, ConsConcat
  <2> QED  BY <1>1, <1>3, <2>1 DEF Top
<1>7. Through' \o Top' = Through \o Top
  <2>1. Append(got, h) \o Top' = got \o Cons(h, Top')
    <3>1. got \in Seq(Chunk) /\ h \in Chunk /\ Top' \in Seq(Chunk)
      BY <1>2, <1>3, <1>4
    <3> QED  BY <3>1, MoveAlone
  <2> QED  BY <1>1, <1>5, <1>6, <2>1
<1>8. (Through' \o Top') \o Behind' = Chunks(sent)
  <2>1. Behind' = Behind
    BY <1>1 DEF Behind, inVars
  <2> QED  BY <1>2, <1>7, <2>1 DEF FlowInv, Flow
<1>9. Flow'
  BY <1>1, <1>8 DEF Flow, inVars
<1>10. Ordered'
  <2>1. Behind' \in Seq(Chunk) /\ Top' \o Behind' \in Seq(Chunk)
    <3>1. Behind' = Behind
      BY <1>1 DEF Behind, inVars
    <3> QED  BY <1>4, <3>1, ConcatProperties
  <2>2. (got' \o Top') \o Behind' = got' \o (Top' \o Behind')
    BY <1>4, <2>1, ConcatAssociative
  <2>3. got' \o (Top' \o Behind') = Chunks(sent)
    BY <1>5, <1>8, <2>2
  <2> QED  BY <1>2, <1>4, <2>1, <2>3, ChunksPrefix DEF Ordered
<1>11. DataTypes'
  BY <1>1, <1>2, <1>3, <1>4 DEF DataTypes, config, inVars
<1>12. Layered' /\ EndLast'
  BY <1>1, <1>2 DEF Layered, EndLast, config, inVars, Limited, Encrypted, Compressed
<1>13. Ends' /\ EndIsLast'
  BY <1>1 DEF FlowInv, Ends, EndIsLast, config, inVars, Encrypted
<1> QED  BY <1>9, <1>10, <1>11, <1>12, <1>13 DEF FlowInv

LEMMA FlowSees == FlowInv /\ (SeesEnd \/ SeesClose) => FlowInv'
<1> SUFFICES ASSUME FlowInv, SeesEnd \/ SeesClose PROVE FlowInv'
  OBVIOUS
<1>1. /\ consumer = "joined" /\ consumer' \in {"sawEnd", "sawClose"}
      /\ consumer' = "sawEnd" => ended /\ ~closed /\ buf = <<>>
      /\ UNCHANGED <<config, inVars, top, got>>
  BY DEF SeesEnd, SeesClose
<1>2. /\ DataTypes /\ Layered /\ EndLast /\ OneEnd(readQ) /\ Ends
      /\ got \in Seq(Chunk) /\ partial \in Seq(Chunk) /\ sent \in Nat
      /\ Top \in Seq(Chunk)
  BY FlowTypes DEF FlowInv, EndLast, DataTypes
<1>3. Awaited = <<>> /\ Awaited' = <<>>
  BY <1>1 DEF Awaited
<1>4. DataTypes'
  BY <1>1, <1>2 DEF DataTypes, config, inVars, top
<1>5. Layered' /\ EndLast' /\ Ordered'
  BY <1>1, <1>2 DEF FlowInv, Layered, EndLast, Ordered, config, inVars, top, Limited,
                    Encrypted, Compressed
<1>6. Ends'
  BY <1>1, <1>2 DEF Ends, config, inVars, Encrypted
<1>7. Flow'
  BY <1>1, <1>3 DEF FlowInv, Flow, Through, Top, Behind, config, inVars, top
<1>8. EndIsLast'
  <2> SUFFICES ASSUME consumer' = "sawEnd", ~Encrypted'
               PROVE  Len(got') + Len(partial') = sent'
    BY DEF EndIsLast
  <2>1. ~Encrypted /\ ended /\ ~closed /\ buf = <<>>
    BY <1>1 DEF Encrypted, config
  <2>2. Behind = <<>>
    <3>1. readQ = <<>> /\ cipherQ = <<>> /\ Before(<<>>) = <<>>
      BY <1>2, <2>1 DEF Ends, Layered, Before
    <3> QED  BY <3>1, ConcatEmptySeq, EmptySeq DEF Behind
  <2>3. Through = got /\ Top = partial
    BY <1>2, <1>3, <2>1, ConcatEmptySeq DEF Through, Top
  <2>4. (got \o partial) \o <<>> = Chunks(sent) /\ got \o partial \in Seq(Chunk)
    BY <1>2, <2>1, <2>2, <2>3, ConcatProperties DEF FlowInv, Flow
  <2>5. got \o partial = Chunks(sent)
    BY <2>4, ConcatEmptySeq
  <2>6. Len(got \o partial) = Len(got) + Len(partial) /\ Len(Chunks(sent)) = sent
    BY <1>2, ConcatProperties, ChunksSeq
  <2> QED  BY <1>1, <2>5, <2>6 DEF inVars, top
<1> QED  BY <1>4, <1>5, <1>6, <1>7, <1>8 DEF FlowInv
-----------------------------------------------------------------------------
(* The queue for bandwidth.                                                  *)

Take == {"read", "write", "end"}

NoRead(s) == \A i \in 1..Len(s) : s[i] # "read"
OneRead(s) == \A i, j \in 1..Len(s) : s[i] = "read" /\ s[j] = "read" => i = j

\* Who sleeps is at the head; and one chunk at a time waits for bandwidth, the
\* first one there is.
QueueInv ==
    /\ takes \in Seq(Take)
    /\ wake # Unset => takes # <<>> /\ Head(takes) # "end"
    /\ OneRead(takes)
    /\ NoRead(takes) \/ (readQ # <<>> /\ Head(readQ) # End)

LEMMA TakeAppend ==
    ASSUME NEW s \in Seq(Take), NEW x \in Take
    PROVE  /\ Append(s, x) \in Seq(Take) /\ Append(s, x) # <<>>
           /\ s # <<>> => Head(Append(s, x)) = Head(s)
           /\ NoRead(Append(s, x)) <=> NoRead(s) /\ x # "read"
           /\ OneRead(s) /\ (NoRead(s) \/ x # "read") => OneRead(Append(s, x))
<1>1. /\ Len(Append(s, x)) = Len(s) + 1 /\ Len(s) \in Nat
      /\ \A i \in 1..Len(s) : Append(s, x)[i] = s[i]
      /\ Append(s, x)[Len(s) + 1] = x
      /\ Append(s, x) \in Seq(Take) /\ Append(s, x) # <<>>
  BY AppendProperties
<1>2. s # <<>> => Head(Append(s, x)) = Head(s)
  BY HeadTailAppend
<1>3. NoRead(Append(s, x)) <=> NoRead(s) /\ x # "read"
  BY <1>1 DEF NoRead
<1>4. OneRead(s) /\ (NoRead(s) \/ x # "read") => OneRead(Append(s, x))
  <2> SUFFICES ASSUME OneRead(s), NoRead(s) \/ x # "read",
                      NEW i \in 1..(Len(s) + 1), NEW j \in 1..(Len(s) + 1),
                      Append(s, x)[i] = "read", Append(s, x)[j] = "read"
               PROVE  i = j
    BY <1>1 DEF OneRead
  <2>1. CASE x = "read"
    <3>1. i \notin 1..Len(s) /\ j \notin 1..Len(s)
      BY <1>1, <2>1 DEF NoRead
    <3> QED  BY <1>1, <3>1
  <2>2. CASE x # "read"
    <3>1. i \in 1..Len(s) /\ j \in 1..Len(s)
      BY <1>1, <2>2
    <3> QED  BY <1>1, <3>1 DEF OneRead
  <2> QED  BY <2>1, <2>2
<1> QED  BY <1>1, <1>2, <1>3, <1>4

LEMMA TakeTail ==
    ASSUME NEW s \in Seq(Take), s # <<>>, OneRead(s)
    PROVE  /\ Tail(s) \in Seq(Take) /\ OneRead(Tail(s))
           /\ NoRead(s) \/ Head(s) = "read" => NoRead(Tail(s))
<1>1. /\ Tail(s) \in Seq(Take) /\ Len(Tail(s)) = Len(s) - 1 /\ Len(s) \in Nat
      /\ Head(s) = s[1] /\ Len(s) > 0
      /\ \A i \in 1..Len(Tail(s)) : Tail(s)[i] = s[i + 1]
  BY HeadTailProperties
<1>2. OneRead(Tail(s))
  <2> SUFFICES ASSUME NEW i \in 1..Len(Tail(s)), NEW j \in 1..Len(Tail(s)),
                      Tail(s)[i] = "read", Tail(s)[j] = "read"
               PROVE  i = j
    BY DEF OneRead
  <2>1. i + 1 \in 1..Len(s) /\ j + 1 \in 1..Len(s)
    BY <1>1
  <2>2. i + 1 = j + 1
    BY <1>1, <2>1 DEF OneRead
  <2> QED  BY <1>1, <2>2
<1>3. NoRead(s) => NoRead(Tail(s))
  BY <1>1 DEF NoRead
<1>4. Head(s) = "read" => NoRead(Tail(s))
  <2> SUFFICES ASSUME s[1] = "read", NEW i \in 1..Len(Tail(s))
               PROVE  Tail(s)[i] # "read"
    BY <1>1 DEF NoRead
  <2>1. i + 1 \in 1..Len(s) /\ 1 \in 1..Len(s) /\ i + 1 # 1
    BY <1>1
  <2> QED  BY <1>1, <2>1 DEF OneRead
<1> QED  BY <1>1, <1>2, <1>3, <1>4

\* Another chunk behind the first, or the end.
LEMMA HeadKept ==
    ASSUME readQ \in Seq(Nat), NEW c \in Nat, readQ # <<>>
    PROVE  Append(readQ, c) # <<>> /\ Head(Append(readQ, c)) = Head(readQ)
BY AppendProperties, HeadTailAppend

\* Actions that may add a write or an end, and leave the first chunk.
LEMMA QueueGrows ==
    ASSUME QueueInv, wake' = wake,
           takes' = takes \/ \E x \in Take \ {"read"} : takes' = Append(takes, x),
           readQ' = readQ \/ (readQ # <<>> => readQ' # <<>> /\ Head(readQ') = Head(readQ))
    PROVE  QueueInv'
<1>1. takes \in Seq(Take) /\ OneRead(takes)
  BY DEF QueueInv
<1>2. CASE takes' = takes
  BY <1>2 DEF QueueInv
<1>3. CASE \E x \in Take \ {"read"} : takes' = Append(takes, x)
  <2>1. PICK x \in Take \ {"read"} : takes' = Append(takes, x)
    BY <1>3
  <2>2. /\ takes' \in Seq(Take) /\ takes' # <<>> /\ OneRead(takes')
        /\ NoRead(takes') <=> NoRead(takes)
        /\ takes # <<>> => Head(takes') = Head(takes)
    BY <1>1, <2>1, TakeAppend
  <2> QED  BY <2>2 DEF QueueInv
<1> QED  BY <1>2, <1>3

LEMMA QueueStep == FlowInv /\ QueueInv /\ [Next]_vars => QueueInv'
<1> SUFFICES ASSUME FlowInv, QueueInv, [Next]_vars PROVE QueueInv'
  OBVIOUS
<1>1. readQ \in Seq(Nat) /\ takes \in Seq(Take) /\ OneRead(takes) /\ sent \in Nat
      /\ End \in Nat
  BY DEF FlowInv, DataTypes, QueueInv, End
<1>2. CASE UNCHANGED <<takes, wake, readQ>>
  BY <1>2, QueueGrows
<1>3. CASE DataArrives
  <2>1. wake' = wake /\ sent' \in Nat /\ sent' # End
    BY <1>1, <1>3 DEF DataArrives, End
  <2>2. CASE readQ' = Append(readQ, sent') /\ readQ # <<>> /\ takes' = takes
    BY <1>1, <2>1, <2>2, HeadKept, QueueGrows
  <2>3. CASE readQ' = Append(readQ, sent') /\ readQ = <<>>
             /\ takes' = Append(takes, "read")
    <3>1. NoRead(takes)
      BY <2>3 DEF QueueInv
    <3>2. "read" \in Take
      BY DEF Take
    <3>3. /\ takes' \in Seq(Take) /\ takes' # <<>> /\ OneRead(takes')
          /\ takes # <<>> => Head(takes') = Head(takes)
      BY <1>1, <2>3, <3>1, <3>2, TakeAppend
    <3>4. readQ' # <<>> /\ Head(readQ') # End
      BY <1>1, <2>1, <2>3, AppendProperties, HeadTailAppend
    <3> QED  BY <2>1, <3>3, <3>4 DEF QueueInv
  <2>4. CASE UNCHANGED <<readQ, takes>>
    BY <1>2, <2>1, <2>4
  <2> QED  BY <1>3, <2>2, <2>3, <2>4 DEF DataArrives
<1>4. CASE EndArrives
  <2>1. wake' = wake /\ takes' = takes
        /\ (readQ' = readQ \/ readQ' = Append(readQ, End))
    BY <1>4 DEF EndArrives, bwVars
  <2> QED  BY <1>1, <2>1, HeadKept, QueueGrows
<1>5. CASE GoToSleep
  <2>1. takes # <<>> /\ Head(takes) # "end" /\ UNCHANGED <<takes, readQ>>
    BY <1>5 DEF GoToSleep, inVars
  <2> QED  BY <2>1 DEF QueueInv
<1>6. CASE WakeUp
  <2>1. takes # <<>> /\ wake' = Unset
    BY <1>6 DEF WakeUp, QueueInv
  <2>2. /\ Tail(takes) \in Seq(Take) /\ OneRead(Tail(takes))
        /\ NoRead(takes) \/ Head(takes) = "read" => NoRead(Tail(takes))
    BY <1>1, <2>1, TakeTail
  <2>3. CASE Head(takes) = "read" /\ takes' = Tail(takes) \o TakeFor(readQ')
    <3>1. NoRead(Tail(takes))
      BY <2>2, <2>3
    <3>2. CASE readQ' # <<>> /\ Head(readQ') # End
      <4>1. takes' = Append(Tail(takes), "read") /\ "read" \in Take
        <5>1. "read" \in Take
          BY DEF Take
        <5>2. Append(Tail(takes), "read") = Tail(takes) \o <<"read">>
          BY <2>2, <5>1, AppendIsConcat
        <5> QED  BY <2>3, <3>2, <5>1, <5>2 DEF TakeFor
      <4>2. takes' \in Seq(Take) /\ OneRead(takes')
        BY <2>2, <3>1, <4>1, TakeAppend
      <4> QED  BY <2>1, <3>2, <4>2 DEF QueueInv
    <3>3. CASE ~(readQ' # <<>> /\ Head(readQ') # End)
      <4>1. takes' = Tail(takes)
        BY <2>2, <2>3, <3>3, ConcatEmptySeq DEF TakeFor
      <4> QED  BY <2>1, <2>2, <3>1, <4>1 DEF QueueInv
    <3> QED  BY <3>2, <3>3
  <2>4. CASE Head(takes) = "write" /\ takes' = Tail(takes) /\ UNCHANGED readQ
    BY <2>1, <2>2, <2>4 DEF QueueInv
  <2> QED  BY <1>6, <2>3, <2>4 DEF WakeUp
<1>7. CASE LimiterEnds
  <2>1. NoRead(takes) /\ UNCHANGED <<takes, wake>>
    BY <1>7 DEF LimiterEnds, QueueInv, bwVars
  <2> QED  BY <2>1 DEF QueueInv
<1>8. CASE StartWrite \/ Encrypt \/ Finish
  <2>1. /\ takes' = takes \/ takes' = Append(takes, "write")
                          \/ takes' = Append(takes, "end")
        /\ UNCHANGED <<wake, readQ>>
    BY <1>8 DEF StartWrite, Encrypt, Finish, inVars
  <2>2. "write" \in Take \ {"read"} /\ "end" \in Take \ {"read"}
    BY DEF Take
  <2> QED  BY <2>1, <2>2, QueueGrows
<1>9. CASE FinishLimited
  <2>1. takes # <<>> /\ Head(takes) = "end" /\ takes' = Tail(takes)
        /\ UNCHANGED <<wake, readQ>>
    BY <1>9 DEF FinishLimited, inVars
  <2>2. wake' = Unset
    BY <2>1 DEF QueueInv
  <2>3. takes' \in Seq(Take) /\ OneRead(takes') /\ (NoRead(takes) => NoRead(takes'))
    BY <1>1, <2>1, TakeTail
  <2> QED  BY <2>1, <2>2, <2>3 DEF QueueInv
<1>10. CASE SocketCloses \/ SocketBreaks \/ Tick \/ Decrypt \/ SocketWrites
            \/ WriteFails \/ Consume \/ Write \/ LocalEnds
  <2>1. UNCHANGED <<takes, wake, readQ>>
    BY <1>10 DEF SocketCloses, SocketBreaks, Tick, Decrypt, SocketWrites, WriteFails,
                 Consume, Join, Read, SeesEnd, SeesClose, Write, LocalEnds, bwVars,
                 inVars
  <2> QED  BY <1>2, <2>1
<1>11. CASE UNCHANGED vars
  <2>1. UNCHANGED <<takes, wake, readQ>>
    BY <1>11 DEF vars, bwVars, inVars
  <2> QED  BY <1>2, <2>1
<1> QED
  BY <1>3, <1>4, <1>5, <1>6, <1>7, <1>8, <1>9, <1>10, <1>11
     DEF Next, Incoming, Outgoing
-----------------------------------------------------------------------------
(* The invariants of the stream.                                             *)

LEMMA FlowStep == FlowInv /\ QueueInv /\ [Next]_vars => FlowInv'
<1> SUFFICES ASSUME FlowInv, QueueInv, [Next]_vars PROVE FlowInv'
  OBVIOUS
<1>1. CASE DataArrives
  BY <1>1, FlowArrives
<1>2. CASE EndArrives
  BY <1>2, FlowEnd
<1>3. CASE SocketCloses \/ SocketBreaks \/ WriteFails
  <2>1. Destroy /\ UNCHANGED <<config, inVars, partial, consumer, got>>
        /\ (reset' = TRUE \/ reset' = reset)
    BY <1>3 DEF SocketCloses, SocketBreaks, WriteFails, pipe
  <2>2. reset' \in BOOLEAN
    BY <2>1, Zenon DEF FlowInv, DataTypes
  <2> QED  BY <2>1, <2>2, FlowDestroyed
<1>4. CASE WakeUp
  <2>1. CASE Head(takes) = "read" /\ Push(Head(readQ)) /\ readQ' = Tail(readQ)
    <3>1. takes # <<>> /\ takes \in Seq(Take)
      BY <1>4 DEF WakeUp, QueueInv
    <3>2. ~NoRead(takes)
      <4>1. Len(takes) \in Nat /\ Len(takes) > 0 /\ Head(takes) = takes[1]
        BY <3>1
      <4> QED  BY <2>1, <4>1 DEF NoRead
    <3>3. readQ # <<>> /\ Head(readQ) # End
      BY <3>2 DEF QueueInv
    <3>4. UNCHANGED <<config, sent, fin, ended, consumer, got>>
      BY <1>4 DEF WakeUp, pipe
    <3> QED  BY <2>1, <3>3, <3>4, FlowPasses
  <2>2. CASE UNCHANGED <<readQ, cipherQ, top>>
    <3>1. UNCHANGED <<config, inVars, top, consumer, got>>
      BY <1>4, <2>2 DEF WakeUp, inVars, pipe
    <3> QED  BY <3>1, FlowQuiet
  <2> QED  BY <1>4, <2>1, <2>2 DEF WakeUp
<1>5. CASE LimiterEnds
  BY <1>5, FlowLimiterEnds
<1>6. CASE Decrypt
  BY <1>6, FlowDecrypts
<1>7. CASE Consume
  BY <1>7, FlowJoins, FlowReads, FlowSees DEF Consume
<1>8. CASE GoToSleep \/ Tick \/ StartWrite \/ Encrypt \/ SocketWrites \/ Finish
           \/ FinishLimited \/ Write \/ LocalEnds
  <2>1. UNCHANGED <<config, inVars, top, consumer, got>>
    BY <1>8 DEF GoToSleep, Tick, StartWrite, Encrypt, SocketWrites, Finish,
                FinishLimited, Write, LocalEnds, pipe
  <2> QED  BY <2>1, FlowQuiet
<1>9. CASE UNCHANGED vars
  BY <1>9, FlowQuiet DEF vars, pipe
<1> QED
  BY <1>1, <1>2, <1>3, <1>4, <1>5, <1>6, <1>7, <1>8, <1>9 DEF Next, Incoming, Outgoing

OutTypes ==
    /\ written \in Nat /\ acked \in Nat /\ delivered \in Nat
    /\ localEnded \in BOOLEAN
    /\ outAt \in {"idle", "encrypting", "limited", "socket"}
    /\ outEnd \in {"open", "ending", "ended"}

LEMMA OutStep == OutTypes /\ [Next]_vars => OutTypes'
<1> SUFFICES ASSUME OutTypes, [Next]_vars PROVE OutTypes'
  OBVIOUS
<1>1. CASE UNCHANGED <<localEnded, written, outVars>>
  BY <1>1 DEF OutTypes, outVars
<1>2. CASE DataArrives \/ EndArrives \/ SocketCloses \/ SocketBreaks \/ GoToSleep
           \/ Tick \/ LimiterEnds \/ Decrypt \/ Consume
  BY <1>1, <1>2 DEF DataArrives, EndArrives, SocketCloses, SocketBreaks, GoToSleep,
                    Tick, LimiterEnds, Decrypt, Consume, Join, Read, SeesEnd,
                    SeesClose, pipe
<1>3. CASE WakeUp
  BY <1>3 DEF WakeUp, OutTypes, pipe
<1>4. CASE Outgoing
  BY <1>4 DEF Outgoing, StartWrite, Encrypt, SocketWrites, WriteFails, Finish,
              FinishLimited, OutTypes, pipe
<1>5. CASE Write
  BY <1>5 DEF Write, OutTypes, outVars
<1>6. CASE LocalEnds
  <2>1. localEnded' = TRUE /\ UNCHANGED <<written, acked, outAt, delivered, outEnd>>
    BY <1>6 DEF LocalEnds, outVars
  <2> QED  BY <2>1, Zenon DEF OutTypes
<1>7. CASE UNCHANGED vars
  BY <1>1, <1>7 DEF vars, pipe
<1> QED
  BY <1>2, <1>3, <1>4, <1>5, <1>6, <1>7 DEF Next, Incoming

DataInv == FlowInv /\ QueueInv /\ OutTypes

LEMMA DataInit == Init => DataInv
<1> SUFFICES ASSUME Init PROVE DataInv
  OBVIOUS
<1>1. takes = <<>> /\ wake = Unset /\ takes \in Seq(Take)
  BY DEF Init
<1>2. QueueInv
  BY <1>1 DEF QueueInv, OneRead, NoRead
<1>3. OutTypes
  BY DEF Init, OutTypes
<1> QED  BY <1>2, <1>3, FlowInit DEF DataInv

LEMMA DataStep == DataInv /\ [Next]_vars => DataInv'
BY FlowStep, QueueStep, OutStep DEF DataInv

\* Every part of the stream keeps its type, whatever the rate of the limiter,
\* the layers, and the number of chunks.
THEOREM StreamTypes == Safety => []TypeOK
<1>1. StreamInv /\ DataInv => TypeOK
  <2> SUFFICES ASSUME StreamInv, DataInv PROVE TypeOK
    OBVIOUS
  <2>1. /\ tokens \in 0..(Rate * Second) /\ updatedAt \in Nat /\ granted \in Nat
        /\ now \in Nat /\ wake \in Nat \cup {Unset} /\ passed \in Nat
    BY DEF StreamInv, BucketInv, Sleeper
  <2>2. DataTypes /\ OutTypes /\ takes \in Seq(Take)
    BY DEF DataInv, FlowInv, QueueInv
  <2> QED  BY <2>1, <2>2, Zenon DEF TypeOK, DataTypes, OutTypes, Take, Chunk
<1> QED
  BY StreamInit, StreamStep, DataInit, DataStep, <1>1, PTL DEF Safety

\* What the backend reads is what the peer sent, in order and without a gap,
\* and nothing is lost between the layers as long as they are not destroyed.
THEOREM StreamOrder == Safety => []ReadsInOrder
<1>1. DataInv => ReadsInOrder
  <2> SUFFICES ASSUME DataInv PROVE ReadsInOrder
    OBVIOUS
  <2>1. got = Chunks(Len(got)) /\ DataTypes /\ OneEnd(readQ)
    BY DEF DataInv, FlowInv, Ordered, EndLast
  <2> DEFINE L == Before(readQ)
             Y == Through \o Top
  <2>2. /\ Through \in Seq(Chunk) /\ buf \in Seq(Chunk) /\ partial \in Seq(Chunk)
        /\ cipherQ \in Seq(Chunk) /\ L \in Seq(Chunk) /\ Top \in Seq(Chunk)
    BY <2>1, FlowTypes DEF DataTypes
  <2>3. InLimiter = L
    BY DEF InLimiter, Before
  <2> HIDE DEF L
  <2>4. (Through \o buf) \o partial = Y
    <3>1. Through \in Seq(Chunk) /\ buf \in Seq(Chunk) /\ partial \in Seq(Chunk)
      BY <2>2
    <3>2. (Through \o buf) \o partial = Through \o (buf \o partial)
      BY ONLY <3>1, ConcatAssociative
    <3> QED  BY <3>2 DEF Top
  <2>5. Y \in Seq(Chunk)
    BY <2>2, ConcatProperties
  <2> HIDE DEF Y
  <2>6. (Y \o cipherQ) \o L = Y \o (cipherQ \o L)
    <3>1. Y \in Seq(Chunk) /\ cipherQ \in Seq(Chunk) /\ L \in Seq(Chunk)
      BY <2>2, <2>5
    <3> QED  BY ONLY <3>1, ConcatAssociative
  <2>7. ~closed => Y \o Behind = Chunks(sent)
    BY DEF DataInv, FlowInv, Flow, Y
  <2>8. ~closed => (((Through \o buf) \o partial) \o cipherQ) \o L = Chunks(sent)
    BY <2>4, <2>6, <2>7 DEF Behind, L
  <2> QED  BY <2>1, <2>3, <2>8 DEF ReadsInOrder, Through
<1> QED
  BY DataInit, DataStep, <1>1, PTL DEF Safety

\* The end of a connection that is not encrypted does not overtake its data.
THEOREM EndBehindData == Safety => []EndIsLast
<1>1. DataInv => EndIsLast
  BY DEF DataInv, FlowInv
<1> QED
  BY DataInit, DataStep, <1>1, PTL DEF Safety
=============================================================================
