------------------------ MODULE HttpConnectionProofs ------------------------
(* For every set of connections, whatever their scripts and chunks.          *)
EXTENDS HttpConnection, SequenceFacts

\* Between two readers the socket is paused, so that nothing is emitted to
\* nobody, and the next one begins with nothing read.
Between == at = "gap" => ~flowing /\ buf = <<>>
Served == /\ at \in {"serving", "responding"} => Reader = "http"
          /\ at = "asking" => Reader = "response"
IInv == Between /\ Served /\ NoFrameWaits

LEMMA Starts == ASSUME Init PROVE IInv
  BY DEF Init, FrameInit, IInv, Between, Served, NoFrameWaits

\* The chunk that a reader gets and keeps holds no complete frame; one that does
\* ends the wait.
LEMMA ChunkKeeps ==
  ASSUME IInv, NEW n \in 1..Len(stream),
         Buffer(n) \/ ReadMsg(n) \/ ReadTail(n) \/ ReadWire(n) \/ ReadBad(n)
           \/ ReadData(n)
  PROVE  IInv'
<1> USE DEF IInv, Between, Served, NoFrameWaits
<1>1. CASE Buffer(n)
  <2>1. at' = at /\ buf' = buf \o Chunk(n) /\ UNCHANGED <<plan, step, flowing>>
    BY <1>1 DEF Buffer
  <2>2. at # "gap"
    BY <1>1 DEF Buffer, Emit
  <2>3. at = "reading" => FrameLen(buf)' = 0
    BY <1>1, <2>1 DEF Buffer, FrameLen, Size, Item
  <2>4. Reader' = Reader
    BY <2>1 DEF Reader
  <2> QED
    BY <2>1, <2>2, <2>3, <2>4 DEF FrameReaders
<1>2. CASE ReadMsg(n)
  BY <1>2 DEF ReadMsg
<1>3. CASE ReadTail(n)
  BY <1>3 DEF ReadTail
<1>4. CASE ReadWire(n)
  BY <1>4 DEF ReadWire
<1>5. CASE ReadBad(n)
  BY <1>5 DEF ReadBad, Finish
<1>6. CASE ReadData(n)
  BY <1>6 DEF ReadData, Emit, Reader, FrameReaders
<1> QED
  BY <1>1, <1>2, <1>3, <1>4, <1>5, <1>6

\* The turn of a reader begins, or is over.
LEMMA TurnKeeps ==
  ASSUME IInv, Install \/ UseData \/ HandleUdp \/ CloseReader
  PROVE  IInv'
<1> USE DEF IInv, Between, Served, NoFrameWaits, Attach
<1>0. buf = <<>> => FrameLen(buf) = 0
  BY DEF FrameLen
<1>1. CASE Install
  BY <1>0, <1>1 DEF Install, FrameLen, Size, Item
<1>2. CASE UseData
  BY <1>0, <1>2 DEF UseData, FrameLen, Size, Item
<1>3. CASE HandleUdp
  BY <1>0, <1>3 DEF HandleUdp, FrameLen, Size, Item
<1>4. CASE CloseReader
  BY <1>4 DEF CloseReader
<1> QED
  BY <1>1, <1>2, <1>3, <1>4

\* The loop of handleUdp, which takes the next packet from the buffer, and the
\* end of the connection.
LEMMA OtherKeeps ==
  ASSUME IInv,
         HandlerReturns \/ HandlerFails \/ SendOk \/ SendFails \/ PeerEnds
           \/ EndHeard \/ SocketCloses
  PROVE  IInv'
<1> USE DEF IInv, Between, Served, NoFrameWaits, Finish, socketVars, readerVars
<1>1. CASE HandlerReturns
  BY <1>1 DEF HandlerReturns
<1>2. CASE HandlerFails
  BY <1>2 DEF HandlerFails
<1>3. CASE SendOk
  <2>1. CASE at' = "reading"
    <3>1. FrameLen(buf) = 0 /\ UNCHANGED <<plan, buf>>
      BY <1>3, <2>1 DEF SendOk
    <3> QED
      BY <2>1, <3>1 DEF FrameLen, Size, Item
  <2>2. CASE at' # "reading"
    BY <1>3, <2>2 DEF SendOk
  <2> QED
    BY <2>1, <2>2
<1>4. CASE SendFails
  BY <1>4 DEF SendFails
<1>5. CASE PeerEnds
  BY <1>5 DEF PeerEnds, FrameLen, Size, Item, Reader
<1>6. CASE EndHeard
  BY <1>6 DEF EndHeard, FrameLen, Size, Item, Reader
<1>7. CASE SocketCloses
  BY <1>7 DEF SocketCloses, FrameLen, Size, Item, Reader
<1> QED
  BY <1>1, <1>2, <1>3, <1>4, <1>5, <1>6, <1>7

\* An HTTP connection that is served has no frame reader any more, and its loop
\* never comes back to where it began.
Stays == /\ Reader = "http" /\ UNCHANGED <<plan, step>>
         /\ at' = "gap" => at = "gap" /\ UNCHANGED <<flowing, buf>>
         /\ at' # "asking"

LEMMA HttpKeeps == ASSUME IInv, HttpNext PROVE IInv'
<1>1. Stays
  <2> USE DEF Stays, Serving, Waiting, Busy, socketVars, Finish, Yield
  <2>1. CASE HandleHttp
    BY <2>1 DEF HandleHttp
  <2>2. CASE ReadPending
    BY <2>2 DEF ReadPending, Proceed
  <2>3. ASSUME NEW n \in 1..Len(stream), ReadSocket(n)
        PROVE  Stays
    BY <2>3 DEF ReadSocket, Proceed, IInv, Served
  <2>4. CASE HandlerAnswers
    BY <2>4 DEF HandlerAnswers, IInv, Served
  <2>5. CASE Respond
    BY <2>5 DEF Respond, IInv, Served
  <2>6. CASE RespondFails
    BY <2>6 DEF RespondFails, IInv, Served
  <2>7. CASE HttpEndHeard
    BY <2>7 DEF HttpEndHeard, ReadNull, IInv, Served
  <2>8. CASE HttpSocketCloses
    BY <2>8 DEF HttpSocketCloses, ReadNull, IInv, Served
  <2>9. CASE HandlerThrows
    BY <2>9 DEF HandlerThrows, IInv, Served
  <2> QED
    BY <2>1, <2>2, <2>3, <2>4, <2>5, <2>6, <2>7, <2>8, <2>9 DEF HttpNext
<1>2. Reader' = "http"
  BY <1>1 DEF Stays, Reader
<1> QED
  BY <1>1, <1>2 DEF Stays, IInv, Between, Served, NoFrameWaits, FrameReaders

\* Nor has the connection to a backend.
LEMMA BackendKeeps == ASSUME IInv, BackendNext PROVE IInv'
<1>1. /\ Reader = "response" /\ UNCHANGED <<plan, step>>
      /\ at' \notin {"gap", "serving", "responding"}
  <2> USE DEF Asking, socketVars, Finish, Return
  <2>1. CASE ConnectBackend
    BY <2>1 DEF ConnectBackend
  <2>2. CASE ConnectFails
    BY <2>2 DEF ConnectFails
  <2>3. CASE RequestWritten
    BY <2>3 DEF RequestWritten, IInv, Served
  <2>4. CASE RequestFails
    BY <2>4 DEF RequestFails, IInv, Served
  <2>5. ASSUME NEW n \in 1..Len(stream), ReadResponse(n)
        PROVE  /\ Reader = "response" /\ UNCHANGED <<plan, step>>
               /\ at' \notin {"gap", "serving", "responding"}
    BY <2>5 DEF ReadResponse
  <2>6. CASE BackendEndHeard
    BY <2>6 DEF BackendEndHeard, ResponseEnds
  <2>7. CASE BackendCloses
    BY <2>7 DEF BackendCloses, ResponseEnds
  <2>8. CASE BackendResets
    BY <2>8 DEF BackendResets
  <2> QED
    BY <2>1, <2>2, <2>3, <2>4, <2>5, <2>6, <2>7, <2>8 DEF BackendNext
<1>2. Reader' = "response"
  BY <1>1 DEF Reader
<1> QED
  BY <1>1, <1>2 DEF IInv, Between, Served, NoFrameWaits, FrameReaders

\* Whatever the chunks, no reader waits for the socket while it holds a complete
\* frame: a message that has arrived is never stuck behind one that has not.
THEOREM NoStall == Spec => []NoFrameWaits
<1>1. Init => IInv
  BY Starts
<1>2. IInv /\ [Next]_vars => IInv'
  <2> SUFFICES ASSUME IInv, [Next]_vars PROVE IInv'
    OBVIOUS
  <2>1. CASE FrameNext
    BY <2>1, ChunkKeeps, TurnKeeps, OtherKeeps DEF FrameNext
  <2>2. CASE HttpNext
    BY <2>2, HttpKeeps
  <2>3. CASE BackendNext
    BY <2>3, BackendKeeps
  <2>4. CASE UNCHANGED vars
    BY <2>4 DEF vars, frameVars, socketVars, readerVars, IInv, Between,
                Served, NoFrameWaits, FrameLen, Size, Item, Reader
  <2> QED
    BY <2>1, <2>2, <2>3, <2>4 DEF Next
<1>3. IInv => NoFrameWaits
  BY DEF IInv
<1> QED
  BY <1>1, <1>2, <1>3, PTL DEF Spec
-----------------------------------------------------------------------------
(* The bytes of the script.                                                  *)

N == Len(plan.script)
Sizes == [i \in 1..N |-> Size(i)]
U(n) == Reach(Sizes, n)         \* where item n ends

\* What the assumption on Plans says of a plan, in terms of pieces.
LEMMA Planned ==
  ASSUME plan \in Plans
  PROVE  /\ plan.job \in DOMAIN Readers /\ N \in Nat /\ DOMAIN plan.script = 1..N
         /\ \A i \in 1..N :
              /\ Item(i).head \in Nat /\ Item(i).close \in BOOLEAN
              /\ Size(i) \in Nat /\ Size(i) > 0 /\ Item(i).head <= Size(i)
              /\ plan.job = "http" => Item(i).head > 0
         /\ Sizes \in Seq(Nat) /\ Len(Sizes) = N /\ \A i \in 1..N : Sizes[i] = Size(i)
         /\ \A i \in 1..N : Bytes(i) = Piece(Sizes, i)
         /\ \A n \in 0..N : AllBytes(n) = Pieces(Sizes, n)
         /\ plan.total \in 0..U(N)
<1> DEFINE Items == [kind : STRING, head : Nat, body : Nat, close : BOOLEAN]
           script == plan.script
<1>1. /\ plan.job \in DOMAIN Readers /\ script \in Seq(Items) /\ plan.total \in Nat
      /\ plan.total <= Len(Whole(script))
  BY PlansAssumption
<1>2. /\ \A i \in DOMAIN script :
           /\ script[i].head + script[i].body > 0
           /\ plan.job = "http" => script[i].head > 0
  BY PlansAssumption
<1>3. N \in Nat /\ DOMAIN script = 1..N /\ \A i \in 1..N : script[i] \in Items
  <2> HIDE DEF Items
  <2>1. N = Len(script) /\ script \in Seq(Items)
    BY <1>1 DEF N
  <2> HIDE DEF script
  <2> QED  BY <2>1, LenProperties
<1> HIDE DEF script
<1>4. /\ \A i \in 1..N :
           /\ script[i].head \in Nat /\ script[i].close \in BOOLEAN
           /\ Size(i) \in Nat /\ Size(i) > 0 /\ script[i].head <= Size(i)
           /\ plan.job = "http" => script[i].head > 0
  BY <1>2, <1>3 DEF Size, Item, script
<1>5. Sizes \in Seq(Nat) /\ Len(Sizes) = N /\ \A i \in 1..N : Sizes[i] = Size(i)
  BY <1>3, <1>4 DEF Sizes
<1>6. \A i \in 1..N : Bytes(i) = Piece(Sizes, i)
  BY <1>5 DEF Bytes, Piece
<1>7. \A n \in 0..N : AllBytes(n) = Pieces(Sizes, n)
  <2> TAKE n \in 0..N
  <2>1. \A i \in 1..n : i \in 1..N
    BY <1>3
  <2>2. [i \in 1..n |-> Bytes(i)] = [i \in 1..n |-> Piece(Sizes, i)]
    BY <1>6, <2>1
  <2> QED  BY <2>2 DEF AllBytes, Pieces
<1>8. Whole(script) = Pieces(Sizes, N)
  <2>1. [i \in DOMAIN script |-> [k \in 1..(script[i].head + script[i].body) |-> <<i, k>>]]
          = [i \in 1..N |-> Piece(Sizes, i)]
    BY <1>3, <1>5 DEF Piece, Size, Item, script
  <2> QED  BY <2>1 DEF Whole, Pieces
<1>9. plan.total \in 0..U(N)
  BY <1>1, <1>8 DEF U, Reach
<1> QED  BY <1>1, <1>3, <1>4, <1>5, <1>6, <1>7, <1>9 DEF Item, script

\* Whose byte it is.
LEMMA ByteAt ==
  ASSUME plan \in Plans, NEW j \in 1..U(N)
  PROVE  \E i \in 1..N : \E k \in 1..Size(i) :
            /\ j = U(i - 1) + k /\ AllBytes(N)[j] = <<i, k>> /\ <<i, k>> \in Byte
<1>1. /\ N \in Nat /\ N \in 0..Len(Sizes) /\ Sizes \in Seq(Nat) /\ Len(Sizes) = N
      /\ \A i \in 1..N : Sizes[i] = Size(i)
  BY Planned
<1>2. PICK i \in 1..N : \E k \in 1..Sizes[i] : j = U(i - 1) + k
  BY <1>1, PieceOf DEF U
<1>3. PICK k \in 1..Sizes[i] : j = U(i - 1) + k
  BY <1>2
<1>4. Pieces(Sizes, N)[U(i - 1) + k] = <<i, k>>
  BY <1>1, PieceAt DEF U
<1>5. AllBytes(N) = Pieces(Sizes, N)
  BY <1>1, Planned
<1>6. k \in 1..Size(i) /\ i \in DOMAIN plan.script
  BY <1>1, Planned
<1>7. <<i, k>> \in Byte
  BY <1>6 DEF Byte
<1> QED  BY <1>3, <1>4, <1>5, <1>6, <1>7

\* What is sent is bytes of the items, in their order.
LEMMA SentIs ==
  ASSUME plan \in Plans
  PROVE  /\ Sent \in Seq(Byte) /\ Len(Sent) = plan.total /\ plan.total <= U(N)
         /\ U(N) \in Nat /\ plan.total \in Nat
         /\ \A j \in 1..plan.total : Sent[j] = AllBytes(N)[j]
<1> DEFINE s == AllBytes(N)
           l == plan.total
<1>1. /\ N \in Nat /\ N \in 0..Len(Sizes) /\ Sizes \in Seq(Nat) /\ Len(Sizes) = N
      /\ s = Pieces(Sizes, N) /\ l \in 0..U(N)
  BY Planned
<1>2. s \in Seq(Numbered) /\ Len(s) = U(N) /\ U(N) \in Nat
  BY <1>1, PiecesType DEF U, Reach
<1>3. Sent = SubSeq(s, 1, l)
  BY DEF Sent, N
<1>4. \A j \in 1..U(N) : s[j] \in Byte
  BY ByteAt
<1> HIDE DEF s, l
<1>5. 1 \in Int /\ l \in Int /\ l - 1 + 1 = l /\ \A i \in 1..l : s[i] \in Byte
  BY <1>1, <1>2, <1>4
<1>6. /\ SubSeq(s, 1, l) \in Seq(Byte)
      /\ Len(SubSeq(s, 1, l)) = IF 1 <= l THEN l - 1 + 1 ELSE 0
      /\ \A i \in 1..(l - 1 + 1) : SubSeq(s, 1, l)[i] = s[1 + i - 1]
  BY <1>5, SubSeqProperties
<1>7. \A i \in 1..l : Sent[i] = s[i]
  <2> TAKE i \in 1..l
  <2>1. i \in 1..(l - 1 + 1) /\ 1 + i - 1 = i
    BY <1>1, <1>2
  <2>2. Sent[i] = s[1 + i - 1]
    BY <1>3, <1>6, <2>1
  <2> QED  BY <2>1, <2>2
<1>8. Len(Sent) = l
  BY <1>1, <1>2, <1>3, <1>6
<1> QED  BY <1>1, <1>2, <1>3, <1>6, <1>7, <1>8 DEF s, l

\* Where the items end.
LEMMA ItemEnds ==
  ASSUME plan \in Plans, NEW m \in 0..N
  PROVE  /\ U(m) \in Nat /\ U(m) <= U(N)
         /\ m > 0 => U(m) = U(m - 1) + Size(m) /\ U(m - 1) \in Nat
         /\ \A i \in 0..m : U(i) \in Nat /\ U(i) <= U(m)
<1>1. /\ N \in Nat /\ N \in 0..Len(Sizes) /\ Sizes \in Seq(Nat) /\ Len(Sizes) = N
      /\ \A i \in 1..N : Sizes[i] = Size(i)
  BY Planned
<1>2. \A i \in 0..N : U(i) \in Nat
  BY <1>1, PiecesType DEF U
<1>3. U(m) <= U(N)
  BY <1>1, PiecesBegin DEF U
<1>4. \A i \in 0..m : U(i) \in Nat /\ U(i) <= U(m)
  <2> TAKE i \in 0..m
  <2>1. i \in 0..Len(Sizes) /\ m \in 0..Len(Sizes) /\ i <= m
    BY <1>1
  <2> QED  BY <1>1, <1>2, <2>1, PiecesBegin DEF U
<1>5. m > 0 => U(m) = U(m - 1) + Size(m) /\ U(m - 1) \in Nat
  <2> SUFFICES ASSUME m > 0 PROVE U(m) = U(m - 1) + Size(m) /\ U(m - 1) \in Nat
    OBVIOUS
  <2>1. m - 1 \in Nat /\ m - 1 < Len(Sizes) /\ (m - 1) + 1 = m /\ Sizes[m] = Size(m)
    BY <1>1
  <2> QED  BY <1>1, <2>1, PiecesStep DEF U
<1> QED  BY <1>1, <1>2, <1>3, <1>4, <1>5

\* A byte that was read has an item, whose sizes are known.
LEMMA FirstByte ==
  ASSUME plan \in Plans, NEW b \in Seq(Byte), b # <<>>
  PROVE  /\ b[1][1] \in 1..N /\ Len(b) \in Nat /\ Len(b) > 0
         /\ Size(b[1][1]) \in Nat /\ Size(b[1][1]) > 0
         /\ Item(b[1][1]).head \in 0..Size(b[1][1])
         /\ Item(b[1][1]).close \in BOOLEAN
         /\ plan.job = "http" => Item(b[1][1]).head > 0
<1>1. Len(b) \in Nat /\ Len(b) > 0
  BY EmptySeq
<1>2. b[1] \in Byte
  BY <1>1, ElementOfSeq
<1>3. PICK i \in DOMAIN plan.script : \E k \in 1..Size(i) : b[1] = <<i, k>>
  BY <1>2 DEF Byte
<1>4. b[1][1] = i
  BY <1>3
<1>5. i \in 1..N /\ Item(i).head \in Nat /\ Size(i) \in Nat /\ Size(i) > 0
      /\ Item(i).head <= Size(i) /\ Item(i).close \in BOOLEAN
      /\ (plan.job = "http" => Item(i).head > 0)
  BY <1>3, Planned
<1>6. Item(i).head \in 0..Size(i)
  BY <1>5
<1> QED  BY <1>1, <1>4, <1>5, <1>6

\* What is read next, behind the first m items, is of a later item; a frame taken
\* from there ends no sooner than this item does.
LEMMA Later ==
  ASSUME plan \in Plans, NEW p \in Seq(Byte), NEW b \in Seq(Byte), NEW r \in Seq(Byte),
         p \o (b \o r) = Sent, b # <<>>, NEW m \in 0..N, Len(p) >= U(m)
  PROVE  /\ m + 1 \in 1..N /\ b[1][1] \in 1..N /\ m + 1 <= b[1][1]
         /\ Len(p) + Size(b[1][1]) >= U(m + 1)
<1>1. /\ Len(b) \in Nat /\ Len(b) > 0 /\ Len(p) \in Nat /\ Len(r) \in Nat
  BY EmptySeq, LenProperties
<1>2. /\ b \o r \in Seq(Byte) /\ Len(b \o r) = Len(b) + Len(r)
      /\ \A i \in 1..(Len(b) + Len(r)) : (b \o r)[i] = IF i <= Len(b) THEN b[i] ELSE r[i - Len(b)]
  BY ConcatProperties
<1> DEFINE c == b \o r
<1>3. c \in Seq(Byte) /\ Len(c) \in Nat /\ Len(c) > 0 /\ c[1] = b[1]
  BY <1>1, <1>2
<1> HIDE DEF c
<1>4. /\ Len(p \o c) = Len(p) + Len(c)
      /\ \A i \in 1..(Len(p) + Len(c)) : (p \o c)[i] = IF i <= Len(p) THEN p[i] ELSE c[i - Len(p)]
  BY <1>3, ConcatProperties
<1> DEFINE j == Len(p) + 1
<1>5. j \in 1..(Len(p) + Len(c)) /\ ~(j <= Len(p)) /\ j - Len(p) = 1
  BY <1>1, <1>3
<1>6. Len(Sent) = Len(p) + Len(c) /\ Sent[j] = b[1]
  BY <1>3, <1>4, <1>5 DEF c
<1>7. j \in 1..plan.total /\ j \in 1..U(N) /\ AllBytes(N)[j] = b[1]
  BY <1>5, <1>6, SentIs
<1>8. PICK i \in 1..N : \E k \in 1..Size(i) :
        j = U(i - 1) + k /\ AllBytes(N)[j] = <<i, k>> /\ <<i, k>> \in Byte
  BY <1>7, ByteAt
<1>9. PICK k \in 1..Size(i) : j = U(i - 1) + k /\ AllBytes(N)[j] = <<i, k>>
  BY <1>8
<1>10. b[1][1] = i
  BY <1>7, <1>9
<1>11. N \in Nat /\ Size(i) \in Nat /\ m \in Nat /\ m <= N /\ i \in Nat /\ i > 0 /\ i \in 0..N
  BY Planned
<1>12. U(i) = U(i - 1) + Size(i) /\ U(i - 1) \in Nat /\ U(m) \in Nat /\ U(i) \in Nat
  BY <1>11, ItemEnds
<1>13. m < i
  <2> SUFFICES ASSUME i <= m PROVE FALSE
    BY <1>11
  <2>1. U(i) <= U(m)
    <3>1. i \in 0..m
      BY <1>11
    <3> QED  BY <3>1, ItemEnds
  <2> QED  BY <1>1, <1>9, <1>11, <1>12, <2>1
<1>14. m + 1 \in 0..i /\ m + 1 \in 1..N
  BY <1>11, <1>13
<1>15. U(m + 1) \in Nat /\ U(m + 1) <= U(i)
  BY <1>11, <1>14, ItemEnds
<1>16. Len(p) + Size(i) >= U(m + 1)
  <2>1. Len(p) + 1 = U(i - 1) + k /\ k \in Nat /\ k >= 1
    BY <1>9, <1>11
  <2> DEFINE x == U(i - 1)
             y == U(i)
             w == U(m + 1)
             l == Size(i)
             q == Len(p)
  <2>2. q + 1 = x + k /\ y = x + l /\ w <= y
    BY <1>12, <1>15, <2>1
  <2>3. x \in Nat /\ y \in Nat /\ w \in Nat /\ l \in Nat /\ q \in Nat /\ k <= l
    BY <1>1, <1>11, <1>12, <1>15
  <2> HIDE DEF x, y, w, l, q
  <2>4. q + l >= w
    BY <2>1, <2>2, <2>3
  <2> QED  BY <2>4 DEF w, l, q
<1> QED  BY <1>10, <1>11, <1>13, <1>14, <1>16

\* Behind n whole items comes the next one.
LEMMA NextItem ==
  ASSUME plan \in Plans, NEW b \in Seq(Byte), NEW r \in Seq(Byte), NEW n \in 0..N,
         AllBytes(n) \o (b \o r) = Sent, b # <<>>
  PROVE  /\ n + 1 \in 1..N /\ b[1] = <<n + 1, 1>>
         /\ AllBytes(n) \in Seq(Byte) /\ Bytes(n + 1) \in Seq(Byte)
         /\ Len(AllBytes(n)) = U(n) /\ Len(Bytes(n + 1)) = Size(n + 1)
         /\ AllBytes(n + 1) = AllBytes(n) \o Bytes(n + 1)
         /\ Len(b) >= Size(n + 1) => SubSeq(b, 1, Size(n + 1)) = Bytes(n + 1)
         /\ Len(b) <= Size(n + 1) => IsPrefix(b, Bytes(n + 1))
<1> DEFINE p == AllBytes(n)
           c == b \o r
<1>0. /\ N \in Nat /\ N \in 0..Len(Sizes) /\ Sizes \in Seq(Nat) /\ Len(Sizes) = N
      /\ n \in Nat /\ n \in 0..Len(Sizes)
      /\ \A i \in 1..N : Sizes[i] = Size(i) /\ Size(i) \in Nat /\ Size(i) > 0
      /\ p = Pieces(Sizes, n) /\ AllBytes(N) = Pieces(Sizes, N)
  BY Planned
<1>1. p \in Seq(Numbered) /\ Len(p) = U(n) /\ U(n) \in Nat
  BY <1>0, PiecesType DEF U, Reach
<1>2. U(n) <= U(N) /\ U(N) \in Nat
  BY <1>0, ItemEnds, SentIs
<1>3. \A i \in 1..U(n) : p[i] \in Byte
  <2> TAKE i \in 1..U(n)
  <2>1. AllBytes(N)[i] = p[i]
    <3>1. n <= N /\ i \in 1..Reach(Sizes, n)
      BY <1>0 DEF U
    <3>2. Pieces(Sizes, N)[i] = Pieces(Sizes, n)[i]
      BY <1>0, <3>1, PiecesBegin
    <3> QED  BY <1>0, <3>2
  <2>2. i \in 1..U(N)
    BY <1>1, <1>2
  <2> QED  BY <2>1, <2>2, ByteAt
<1>4. p \in Seq(Byte)
  <2> HIDE DEF p
  <2> QED  BY <1>1, <1>3, OfElements
<1>5. /\ Len(b) \in Nat /\ Len(b) > 0 /\ Len(r) \in Nat
  BY EmptySeq, LenProperties
<1>6. /\ c \in Seq(Byte) /\ Len(c) = Len(b) + Len(r)
      /\ \A i \in 1..(Len(b) + Len(r)) : c[i] = IF i <= Len(b) THEN b[i] ELSE r[i - Len(b)]
  BY ConcatProperties
<1>7. \A i \in 1..Len(b) : c[i] = b[i] /\ i \in 1..Len(c)
  <2> HIDE DEF c
  <2> QED  BY <1>5, <1>6
<1> HIDE DEF c
<1> HIDE DEF p
<1>8. /\ Len(p \o c) = Len(p) + Len(c)
      /\ \A i \in 1..(Len(p) + Len(c)) : (p \o c)[i] = IF i <= Len(p) THEN p[i] ELSE c[i - Len(p)]
  <2>1. p \in Seq(Byte) /\ c \in Seq(Byte)
    BY <1>4, <1>6
  <2> QED  BY <2>1, ConcatProperties
<1>9. p \o c = Sent
  BY DEF p, c
<1>10. Len(Sent) = U(n) + Len(c) /\ Len(c) \in Nat /\ Len(c) > 0 /\ U(n) + Len(c) <= U(N)
  BY <1>1, <1>2, <1>5, <1>6, <1>8, <1>9, SentIs
<1>11. \A i \in 1..Len(b) : Sent[U(n) + i] = b[i] /\ U(n) + i \in 1..plan.total
  <2> TAKE i \in 1..Len(b)
  <2>1. /\ U(n) + i \in 1..(Len(p) + Len(c)) /\ ~(U(n) + i <= Len(p))
        /\ (U(n) + i) - Len(p) = i
    BY <1>1, <1>5, <1>7, <1>10
  <2>2. (p \o c)[U(n) + i] = c[i]
    BY <1>8, <2>1
  <2>3. U(n) + i \in 1..plan.total
    BY <1>1, <1>8, <1>9, <2>1, SentIs
  <2> QED  BY <1>7, <1>9, <2>2, <2>3
<1>12. n < N
  <2> SUFFICES ASSUME n = N PROVE FALSE
    BY <1>0
  <2> QED  BY <1>2, <1>10
<1> DEFINE m == n + 1
<1>13. m \in 1..N /\ m - 1 = n /\ m \in 1..Len(Sizes) /\ Size(m) \in Nat /\ Size(m) > 0
       /\ Sizes[m] = Size(m)
  BY <1>0, <1>12
<1>14. \A k \in 1..Size(m) : AllBytes(N)[U(n) + k] = <<m, k>>
  BY <1>0, <1>13, PieceAt DEF U
<1>15. \A k \in 1..Len(b) : k <= Size(m) => b[k] = <<m, k>>
  <2> SUFFICES ASSUME NEW k \in 1..Len(b), k <= Size(m) PROVE b[k] = <<m, k>>
    OBVIOUS
  <2>1. k \in 1..Size(m)
    BY <1>5, <1>13
  <2>2. AllBytes(N)[U(n) + k] = Sent[U(n) + k]
    BY <1>11, SentIs
  <2>3. AllBytes(N)[U(n) + k] = <<m, k>>
    <3> HIDE DEF m
    <3> QED  BY <1>14, <2>1
  <2>4. Sent[U(n) + k] = b[k]
    BY <1>11
  <2> QED  BY <2>2, <2>3, <2>4
<1>16. /\ Bytes(m) \in Seq(Numbered) /\ Len(Bytes(m)) = Size(m)
       /\ \A k \in 1..Size(m) : Bytes(m)[k] = <<m, k>>
  <2> HIDE DEF m
  <2>1. Bytes(m) = Piece(Sizes, m) /\ Sizes \in Seq(Nat)
    BY <1>0, <1>13, Planned
  <2>2. /\ Piece(Sizes, m) \in Seq(Numbered) /\ Len(Piece(Sizes, m)) = Sizes[m]
        /\ \A k \in 1..Sizes[m] : Piece(Sizes, m)[k] = <<m, k>>
    BY <1>13, <2>1, PieceType
  <2> QED  BY <1>13, <2>1, <2>2
<1>17. m \in DOMAIN plan.script
  BY <1>13, Planned
<1>18. \A k \in 1..Size(m) : <<m, k>> \in Byte
  BY <1>17 DEF Byte
<1>19. Bytes(m) \in Seq(Byte)
  <2> DEFINE t == Bytes(m)
  <2>1. t \in Seq(Numbered) /\ \A k \in 1..Len(t) : t[k] \in Byte
    BY <1>16, <1>18
  <2> HIDE DEF t
  <2>2. t \in Seq(Byte)
    BY <2>1, OfElements
  <2> QED  BY <2>2 DEF t
<1>20. AllBytes(m) = p \o Bytes(m)
  <2>1. n \in Nat /\ n < Len(Sizes) /\ m \in 0..N
    BY <1>0, <1>12
  <2>2. Pieces(Sizes, m) = Pieces(Sizes, n) \o Piece(Sizes, m)
    BY <1>0, <2>1, PiecesConcat
  <2>3. Bytes(m) = Piece(Sizes, m) /\ AllBytes(m) = Pieces(Sizes, m)
    BY <1>13, <2>1, Planned
  <2> QED  BY <1>0, <2>2, <2>3
<1> HIDE DEF m
<1>21. b[1] = <<m, 1>>
  <2>1. 1 \in 1..Len(b) /\ 1 <= Size(m)
    BY <1>5, <1>13
  <2> QED  BY <1>15, <2>1
<1>22. Len(b) >= Size(m) => SubSeq(b, 1, Size(m)) = Bytes(m)
  <2> SUFFICES ASSUME Len(b) >= Size(m) PROVE SubSeq(b, 1, Size(m)) = Bytes(m)
    OBVIOUS
  <2> DEFINE t == Bytes(m)
             l == Size(m)
  <2>1. \A i \in 1..l : b[i] = t[i]
    <3> TAKE i \in 1..l
    <3>1. i \in 1..Len(b) /\ i <= Size(m) /\ i \in 1..Size(m)
      BY <1>5, <1>13
    <3> QED  BY <1>15, <1>16, <3>1
  <2>2. l \in Nat /\ l <= Len(b) /\ l <= Len(t) /\ t \in Seq(Byte) /\ Len(t) = l
    BY <1>13, <1>16, <1>19
  <2> HIDE DEF t, l
  <2>3. SubSeq(b, 1, l) = SubSeq(t, 1, l)
    BY <2>1, <2>2, PrefixOfPrefix
  <2>4. SubSeq(t, 1, Len(t)) = t
    BY <2>2, SubSeqFull
  <2> QED  BY <2>2, <2>3, <2>4 DEF t, l
<1>23. Len(b) <= Size(m) => IsPrefix(b, Bytes(m))
  <2> SUFFICES ASSUME Len(b) <= Size(m) PROVE IsPrefix(b, Bytes(m))
    OBVIOUS
  <2> DEFINE t == Bytes(m)
  <2>1. \A i \in 1..Len(b) : b[i] = t[i]
    <3> TAKE i \in 1..Len(b)
    <3>1. i <= Size(m) /\ i \in 1..Size(m)
      BY <1>5, <1>13
    <3> QED  BY <1>15, <1>16, <3>1
  <2>2. Len(b) <= Len(t) /\ t \in Seq(Byte)
    BY <1>16, <1>19
  <2> HIDE DEF t
  <2>3. IsPrefix(b, t)
    BY <2>1, <2>2, PrefixIs
  <2> QED  BY <2>3 DEF t
<1> QED  BY <1>1, <1>4, <1>13, <1>16, <1>19, <1>20, <1>21, <1>22, <1>23 DEF p, m
-----------------------------------------------------------------------------
(* Whose turn it is.                                                         *)

ControlTypes ==
  /\ plan \in Plans
  /\ end \in {"open", "fin", "due", "heard"}
  /\ closed \in BOOLEAN /\ flowing \in BOOLEAN
  /\ step \in DOMAIN Readers[plan.job]
  /\ at \in {"gap", "reading", "resolved", "handling", "sending", "serving",
             "responding", "asking", "returned", "crashed", "deaf", "done"}

\* What waits where, and where there are bytes.
Turn ==
  /\ at = "resolved" => Reader = "msg"
  /\ at \in {"handling", "sending"} => Reader = "loop"
  /\ at = "reading" /\ Reader = "http" => ~closed
  /\ at = "returned" => Reader = "response" /\ closed
  /\ tail # <<>> => Reader = "http" \/ (Reader \in {"data", "loop"} /\ at = "gap")
  /\ Reader = "data" => buf = <<>>
  /\ Reader # "http" => answered = 0

\* The readers of a connection, and which follows which.
LEMMA ReaderTable ==
  ASSUME plan.job \in DOMAIN Readers, step \in DOMAIN Readers[plan.job]
  PROVE  /\ Reader \in FrameReaders \cup HttpReaders \cup {"data"}
         /\ Reader \in {"wire", "msg", "tail"} =>
              /\ step + 1 \in DOMAIN Readers[plan.job]
              /\ LET next == Readers[plan.job][step + 1] IN
                  /\ Reader = "wire" => next = "msg"
                  /\ Reader = "msg" => next = "data"
                  /\ Reader = "tail" => next \in {"data", "loop", "http"}
         /\ Reader = "http" => plan.job = "http"
         /\ Reader = "loop" => plan.job = "udp"
         /\ Reader = "response" => plan.job = "backend"
         /\ plan.job = "http" => Reader \in {"tail", "http"}
<1> USE DEF Reader, Readers, FrameReaders, HttpReaders
<1>0. plan.job \in {"control", "controlV2", "work", "udp", "http", "backend"}
  OBVIOUS
<1>1. CASE plan.job = "control"  BY <1>1
<1>2. CASE plan.job = "controlV2"  BY <1>2
<1>3. CASE plan.job = "work"  BY <1>3
<1>4. CASE plan.job = "udp"  BY <1>4
<1>5. CASE plan.job = "http"  BY <1>5
<1>6. CASE plan.job = "backend"  BY <1>6
<1> QED  BY <1>0, <1>1, <1>2, <1>3, <1>4, <1>5, <1>6

Control == ControlTypes /\ Turn

\* A reader keeps its turn, or passes it on.
LEMMA SameReader ==
  ASSUME UNCHANGED <<plan, step>> PROVE Reader' = Reader
  BY DEF Reader

LEMMA NextReader ==
  ASSUME ControlTypes, UNCHANGED plan, step' = step + 1, Reader \in {"wire", "msg", "tail"}
  PROVE  /\ step' \in DOMAIN Readers[plan'.job]
         /\ Reader = "wire" => Reader' = "msg"
         /\ Reader = "msg" => Reader' = "data"
         /\ Reader = "tail" => Reader' \in {"data", "loop", "http"}
<1>1. plan.job \in DOMAIN Readers
  BY Planned DEF ControlTypes
<1>2. Reader' = Readers[plan.job][step + 1]
  BY DEF Reader
<1> QED  BY <1>1, <1>2, ReaderTable DEF ControlTypes

\* The steps of the frame readers, of handleHttp and of the backend handler keep
\* to their turns.
LEMMA FrameControl ==
  ASSUME Control, IInv, FrameNext, UNCHANGED httpVars
  PROVE  Control'
<1> USE DEF httpVars
<1>0. ControlTypes /\ Turn /\ Between
  BY DEF Control, IInv
<1>1. CASE Install \/ UseData \/ HandleUdp
  <2>1. UNCHANGED <<plan, step, closed, buf>> /\ at = "gap" /\ Reader # "http"
    BY <1>1 DEF Install, UseData, HandleUdp
  <2>2. at' \in {"deaf", "reading"} /\ flowing' \in BOOLEAN
    BY <1>0, <1>1 DEF Install, UseData, HandleUdp, Attach, ControlTypes
  <2>3. end' \in {"open", "fin", "due", "heard"}
    BY <1>0, <1>1 DEF Install, UseData, HandleUdp, ControlTypes
  <2>4. tail' = <<>>
    BY <1>0, <1>1 DEF Install, UseData, HandleUdp, Turn
  <2>5. Reader' = Reader
    BY <2>1, SameReader
  <2>6. buf' = <<>>
    BY <1>0, <2>1 DEF Between
  <2>7. ControlTypes'
    BY <1>0, <2>1, <2>2, <2>3 DEF ControlTypes
  <2>8. Turn'
    BY <1>0, <2>1, <2>2, <2>4, <2>5, <2>6 DEF Turn
  <2> QED  BY <2>7, <2>8 DEF Control
<1>2. CASE CloseReader
  <2>1. at = "resolved" /\ UNCHANGED <<plan, tail>> /\ step' = step + 1
        /\ at' = "gap" /\ flowing' = FALSE /\ buf' = <<>>
    BY <1>2 DEF CloseReader
  <2>2. Reader = "msg" /\ tail' = <<>>
    BY <1>0, <2>1 DEF Turn
  <2>3. step' \in DOMAIN Readers[plan'.job] /\ Reader' = "data"
    BY <1>0, <2>1, <2>2, NextReader
  <2>4. end' \in {"open", "fin", "due", "heard"} /\ closed' \in BOOLEAN
    BY <1>0, <1>2 DEF CloseReader, Unshift, ControlTypes
  <2>5. ControlTypes'
    BY <1>0, <2>1, <2>3, <2>4 DEF ControlTypes
  <2>6. Turn'
    BY <1>0, <2>1, <2>2, <2>3 DEF Turn
  <2> QED  BY <2>5, <2>6 DEF Control
<1>3. ASSUME NEW n \in 1..Len(stream),
             Buffer(n) \/ ReadMsg(n) \/ ReadBad(n) \/ ReadData(n)
      PROVE  Control'
  <2>1. UNCHANGED <<plan, step, tail>> /\ Reader # "http"
    BY <1>3 DEF Buffer, ReadMsg, ReadBad, ReadData, FrameReaders
  <2>2. end' \in {"open", "fin", "due", "heard"}
    BY <1>0, <1>3 DEF Buffer, ReadMsg, ReadBad, ReadData, EndAfter, ControlTypes
  <2>3. closed' \in BOOLEAN /\ flowing' \in BOOLEAN
    BY <1>0, <1>3 DEF Buffer, ReadMsg, ReadBad, ReadData, Finish, ControlTypes
  <2>4. \/ UNCHANGED <<at, closed>> /\ at # "gap"
        \/ at = "reading" /\ at' = "done"
        \/ at = "reading" /\ Reader = "msg" /\ at' = "resolved"
        \/ at = "reading" /\ Reader = "loop" /\ at' = "handling"
    BY <1>0, <1>3 DEF Buffer, ReadMsg, ReadBad, ReadData, Finish, Emit, Between
  <2>5. Reader = "data" => buf' = buf
    BY <1>3 DEF Buffer, ReadMsg, ReadBad, ReadData, FrameReaders
  <2>6. Reader' = Reader
    BY <2>1, SameReader
  <2>7. ControlTypes'
    BY <1>0, <2>1, <2>2, <2>3, <2>4 DEF ControlTypes
  <2>8. Turn'
    BY <1>0, <2>1, <2>4, <2>5, <2>6 DEF Turn
  <2> QED  BY <2>7, <2>8 DEF Control
<1>4. ASSUME NEW n \in 1..Len(stream), ReadTail(n) \/ ReadWire(n)
      PROVE  Control'
  <2>1. UNCHANGED <<plan, closed>> /\ Reader \in {"wire", "tail"} /\ step' = step + 1
        /\ at' = "gap" /\ flowing' = FALSE /\ buf' = <<>> /\ at = "reading"
    BY <1>4 DEF ReadTail, ReadWire
  <2>2. end' \in {"open", "fin", "due", "heard"}
    BY <1>0, <1>4 DEF ReadTail, ReadWire, EndAfter, ControlTypes
  <2>3. step' \in DOMAIN Readers[plan'.job]
        /\ (Reader = "wire" => Reader' = "msg")
        /\ (Reader = "tail" => Reader' \in {"data", "loop", "http"})
    BY <1>0, <2>1, NextReader
  <2>4. Reader = "wire" => tail' = <<>>
    BY <1>0, <1>4, <2>1 DEF ReadTail, ReadWire, Turn
  <2>5. ControlTypes'
    BY <1>0, <2>1, <2>2, <2>3 DEF ControlTypes
  <2>6. Turn'
    BY <1>0, <2>1, <2>3, <2>4 DEF Turn
  <2> QED  BY <2>5, <2>6 DEF Control
<1>5. CASE HandlerReturns \/ HandlerFails \/ SendOk \/ SendFails
  <2>1. UNCHANGED <<plan, step, flowing, tail, end>>
        /\ at \in {"handling", "sending"}
        /\ at' \in {"sending", "done", "reading", "handling"} /\ closed' \in BOOLEAN
    BY <1>0, <1>5 DEF HandlerReturns, HandlerFails, SendOk, SendFails, Finish,
                      socketVars, ControlTypes
  <2>2. Reader = "loop"
    BY <1>0, <2>1 DEF Turn
  <2>3. Reader' = Reader
    BY <2>1, SameReader
  <2>4. ControlTypes'
    BY <1>0, <2>1 DEF ControlTypes
  <2>5. Turn'
    BY <1>0, <2>1, <2>2, <2>3 DEF Turn
  <2> QED  BY <2>4, <2>5 DEF Control
<1>6. CASE PeerEnds \/ EndHeard \/ SocketCloses
  <2>1. UNCHANGED <<plan, step, flowing, tail, buf>>
        /\ end' \in {"open", "fin", "due", "heard"} /\ closed' \in BOOLEAN
        /\ (at' = at \/ (at = "reading" /\ at' = "done"))
        /\ (closed' = closed \/ (closed' = TRUE /\ Reader # "http"))
    BY <1>0, <1>6 DEF PeerEnds, EndHeard, SocketCloses, Finish, readerVars,
                      ControlTypes, HttpReaders
  <2>2. Reader' = Reader
    BY <2>1, SameReader
  <2>3. ControlTypes'
    BY <1>0, <2>1 DEF ControlTypes
  <2>4. Turn'
    BY <1>0, <2>1, <2>2 DEF Turn
  <2> QED  BY <2>3, <2>4 DEF Control
<1> QED  BY <1>1, <1>2, <1>3, <1>4, <1>5, <1>6 DEF FrameNext

LEMMA HttpControl == ASSUME Control, IInv, HttpNext PROVE Control'
<1>0. ControlTypes /\ Turn /\ Between /\ Served
  BY DEF Control, IInv
<1>1. /\ Reader = "http" /\ UNCHANGED <<plan, step>>
      /\ end' \in {"open", "fin", "due", "heard"} /\ closed' \in BOOLEAN
      /\ UNCHANGED flowing
      /\ at' \in {"gap", "reading", "serving", "responding", "deaf", "done"} \/ at' = at
      /\ at' = "reading" => ~closed'
  <2> USE <1>0 DEF ControlTypes, Turn, Served, Finish, Yield, socketVars, readerVars,
                   Serving
  <2>1. CASE HandleHttp
    BY <2>1 DEF HandleHttp
  <2>2. CASE ReadPending
    BY <2>2 DEF ReadPending, Proceed, Busy
  <2>3. ASSUME NEW n \in 1..Len(stream), ReadSocket(n)
        PROVE  /\ Reader = "http" /\ UNCHANGED <<plan, step>>
               /\ end' \in {"open", "fin", "due", "heard"} /\ closed' \in BOOLEAN
               /\ UNCHANGED flowing
               /\ at' \in {"gap", "reading", "serving", "responding", "deaf", "done"} \/ at' = at
               /\ at' = "reading" => ~closed'
    BY <2>3 DEF ReadSocket, Proceed, Waiting, EndAfter
  <2>4. CASE HandlerAnswers
    BY <2>4 DEF HandlerAnswers
  <2>5. CASE HandlerThrows
    BY <2>5 DEF HandlerThrows
  <2>6. CASE Respond
    BY <2>6 DEF Respond, CanWrite
  <2>7. CASE RespondFails
    BY <2>7 DEF RespondFails
  <2>8. CASE HttpEndHeard
    BY <2>8 DEF HttpEndHeard, ReadNull, EndDue, Waiting
  <2>9. CASE HttpSocketCloses
    BY <2>9 DEF HttpSocketCloses, ReadNull, Waiting, Busy
  <2> QED  BY <2>1, <2>2, <2>3, <2>4, <2>5, <2>6, <2>7, <2>8, <2>9 DEF HttpNext
<1>2. Reader' = Reader
  BY <1>1, SameReader
<1>3. ControlTypes'
  BY <1>0, <1>1 DEF ControlTypes
<1>4. Turn'
  <2>1. at # "resolved" /\ at \notin {"handling", "sending"}
    BY <1>0, <1>1 DEF Turn
  <2>2. at' # "returned"
    <3>1. at # "returned"
      BY <1>0, <1>1 DEF Turn
    <3> QED  BY <1>1, <3>1
  <2> QED  BY <1>1, <1>2, <2>1, <2>2 DEF Turn
<1> QED  BY <1>3, <1>4 DEF Control

LEMMA BackendControl == ASSUME Control, IInv, BackendNext, UNCHANGED httpVars PROVE Control'
<1>0. ControlTypes /\ Turn /\ Between /\ Served
  BY DEF Control, IInv
<1>1. /\ Reader = "response" /\ UNCHANGED <<plan, step, tail, answered>>
      /\ end' \in {"open", "fin", "due", "heard"} /\ closed' \in BOOLEAN
      /\ flowing' \in BOOLEAN
      /\ at' \in {"asking", "reading", "done", "crashed"} \/ (at' = "returned" /\ closed' = TRUE)
  <2> USE <1>0 DEF ControlTypes, Turn, Served, Finish, Return, socketVars, httpVars, Asking
  <2>1. CASE ConnectBackend
    BY <2>1 DEF ConnectBackend
  <2>2. CASE ConnectFails
    BY <2>2 DEF ConnectFails
  <2>3. CASE RequestWritten
    BY <2>3 DEF RequestWritten
  <2>4. CASE RequestFails
    BY <2>4 DEF RequestFails
  <2>5. ASSUME NEW n \in 1..Len(stream), ReadResponse(n)
        PROVE  /\ Reader = "response" /\ UNCHANGED <<plan, step, tail, answered>>
               /\ end' \in {"open", "fin", "due", "heard"} /\ closed' \in BOOLEAN
               /\ flowing' \in BOOLEAN
               /\ at' \in {"asking", "reading", "done", "crashed"}
                    \/ (at' = "returned" /\ closed' = TRUE)
    BY <2>5 DEF ReadResponse, EndAfter
  <2>6. CASE BackendEndHeard
    BY <2>6 DEF BackendEndHeard, ResponseEnds
  <2>7. CASE BackendCloses
    BY <2>7 DEF BackendCloses, ResponseEnds
  <2>8. CASE BackendResets
    BY <2>8 DEF BackendResets
  <2> QED  BY <2>1, <2>2, <2>3, <2>4, <2>5, <2>6, <2>7, <2>8 DEF BackendNext
<1>2. Reader' = Reader
  BY <1>1, SameReader
<1>3. ControlTypes'
  BY <1>0, <1>1 DEF ControlTypes
<1>4. Turn'
  BY <1>0, <1>1, <1>2 DEF Turn
<1> QED  BY <1>3, <1>4 DEF Control

LEMMA StartsControlled == ASSUME Init PROVE Control
<1>1. plan \in Plans /\ end = "open" /\ closed = FALSE /\ flowing = FALSE /\ step = 1
      /\ at = "gap" /\ buf = <<>> /\ tail = <<>> /\ answered = 0
  BY DEF Init, FrameInit
<1>2. plan.job \in DOMAIN Readers
  BY <1>1, Planned
<1>3. 1 \in DOMAIN Readers[plan.job]
  BY <1>2 DEF Readers
<1> QED  BY <1>1, <1>3 DEF Control, ControlTypes, Turn
-----------------------------------------------------------------------------
(* What the bytes are.                                                       *)

\* A chunk and the rest make up what was to come.
LEMMA ChunkIs ==
  ASSUME stream \in Seq(Byte), NEW n \in 1..Len(stream)
  PROVE  /\ Chunk(n) \in Seq(Byte) /\ Rest(n) \in Seq(Byte) /\ Len(Chunk(n)) = n
         /\ Chunk(n) # <<>> /\ Chunk(n) \o Rest(n) = stream
         /\ Len(Rest(n)) = Len(stream) - n
<1>1. n \in 0..Len(stream) /\ n > 0
  OBVIOUS
<1>2. /\ Chunk(n) \in Seq(Byte) /\ Rest(n) \in Seq(Byte) /\ Len(Chunk(n)) = n
      /\ Chunk(n) \o Rest(n) = stream /\ Len(Rest(n)) = Len(stream) - n
  BY <1>1, CutAt DEF Chunk, Rest
<1>3. Chunk(n) # <<>>
  BY <1>1, <1>2, EmptySeq
<1> QED  BY <1>2, <1>3

\* So do a message and what was read beyond it.
LEMMA FrameIs ==
  ASSUME plan \in Plans, NEW b \in Seq(Byte)
  PROVE  /\ FrameLen(b) \in 0..Len(b) /\ Frame(b) \in Seq(Byte) /\ Beyond(b) \in Seq(Byte)
         /\ Frame(b) \o Beyond(b) = b
         /\ Len(Frame(b)) = FrameLen(b) /\ Len(Beyond(b)) = Len(b) - FrameLen(b)
         /\ Good(b) \/ Complete(b) =>
              /\ b # <<>> /\ FrameLen(b) = Size(b[1][1]) /\ Frame(b) # <<>>
              /\ Len(b) >= Size(b[1][1])
<1>1. Len(b) \in Nat
  OBVIOUS
<1>2. b # <<>> => Size(b[1][1]) \in Nat /\ Size(b[1][1]) > 0
  BY FirstByte
<1>3. FrameLen(b) \in 0..Len(b)
  BY <1>1, <1>2 DEF FrameLen
<1>4. /\ Frame(b) \in Seq(Byte) /\ Beyond(b) \in Seq(Byte) /\ Frame(b) \o Beyond(b) = b
      /\ Len(Frame(b)) = FrameLen(b) /\ Len(Beyond(b)) = Len(b) - FrameLen(b)
  BY <1>3, CutAt DEF Frame, Beyond
<1>5. Good(b) \/ Complete(b) => b # <<>> /\ FrameLen(b) = Size(b[1][1]) /\ FrameLen(b) > 0
                               /\ Len(b) >= Size(b[1][1])
  BY <1>1, <1>2 DEF Good, Complete, FrameLen
<1>6. FrameLen(b) > 0 => Frame(b) # <<>>
  BY <1>3, <1>4, EmptySeq
<1> QED  BY <1>3, <1>4, <1>5, <1>6

\* The script of a connection never changes.
LEMMA SameBytes ==
  ASSUME UNCHANGED plan
  PROVE  /\ Byte' = Byte /\ Sent' = Sent /\ N' = N
         /\ \A i : Bytes(i)' = Bytes(i) /\ AllBytes(i)' = AllBytes(i) /\ U(i)' = U(i)
         /\ \A i : Size(i)' = Size(i) /\ Item(i)' = Item(i)
<1> USE DEF Item, Size
<1>1. \A i : Size(i)' = Size(i) /\ Item(i)' = Item(i)
  OBVIOUS
<1>2. \A i : Bytes(i)' = Bytes(i)
  BY DEF Bytes
<1>3. \A i : AllBytes(i)' = AllBytes(i)
  BY DEF AllBytes, Bytes
<1>4. Byte' = Byte
  BY DEF Byte
<1>5. Sizes' = Sizes /\ N' = N
  BY DEF Sizes, N
<1>6. \A i : U(i)' = U(i)
  BY <1>5 DEF U
<1>7. Sent' = Sent
  BY <1>3 DEF Sent
<1> QED  BY <1>1, <1>2, <1>3, <1>4, <1>5, <1>6, <1>7

Streams ==
  /\ stream \in Seq(Byte) /\ buf \in Seq(Byte) /\ tail \in Seq(Byte)
  /\ taken \in Seq(Byte) /\ req \in Seq(Byte)
  /\ req # <<>> <=> at \in {"serving", "responding"}
  /\ ended \in BOOLEAN

\* Every step hands on bytes of the script, and nothing else.
LEMMA FrameStreams ==
  ASSUME Control, IInv, Streams, FrameNext, UNCHANGED httpVars
  PROVE  Streams'
<1> USE DEF httpVars
<1>0. ControlTypes /\ Turn /\ Between /\ Served /\ plan \in Plans /\ <<>> \in Seq(Byte)
      /\ (\A x, y \in Seq(Byte) : x \o y \in Seq(Byte))
      /\ (\A b \in Seq(Byte) : Frame(b) \in Seq(Byte) /\ Beyond(b) \in Seq(Byte))
  BY FrameIs, ConcatProperties DEF Control, ControlTypes, IInv
<1>1. \A n \in 1..Len(stream) : Chunk(n) \in Seq(Byte) /\ Rest(n) \in Seq(Byte)
  BY ChunkIs DEF Streams
<1>2. UNCHANGED <<plan, req, ended>>
  BY DEF FrameNext, Install, UseData, HandleUdp, CloseReader, Buffer, ReadMsg, ReadTail,
         ReadWire, ReadBad, ReadData, HandlerReturns, HandlerFails, SendOk, SendFails,
         PeerEnds, EndHeard, SocketCloses
<1>3. at \notin {"serving", "responding"} \/ at' = at
    BY DEF FrameNext, Install, UseData, HandleUdp, CloseReader, Buffer, ReadMsg, ReadTail,
         ReadWire, ReadBad, ReadData, HandlerReturns, HandlerFails, SendOk, SendFails,
         PeerEnds, EndHeard, SocketCloses, Finish, readerVars
<1>4. at' \notin {"serving", "responding"} \/ at' = at
    BY DEF FrameNext, Install, UseData, HandleUdp, CloseReader, Buffer, ReadMsg, ReadTail,
         ReadWire, ReadBad, ReadData, HandlerReturns, HandlerFails, SendOk, SendFails,
         PeerEnds, EndHeard, SocketCloses, Finish, readerVars, Attach
<1>5. /\ stream' \in Seq(Byte) /\ buf' \in Seq(Byte) /\ tail' \in Seq(Byte)
      /\ taken' \in Seq(Byte)
  <2> USE <1>0, <1>1 DEF Streams
  <2>1. CASE Install \/ UseData \/ HandleUdp \/ CloseReader
    <3>1. CASE Install \/ UseData
      BY <3>1 DEF Install, UseData
    <3>2. CASE HandleUdp
      BY <3>2 DEF HandleUdp
    <3>3. CASE CloseReader
      BY <3>3 DEF CloseReader, Unshift
    <3> QED  BY <2>1, <3>1, <3>2, <3>3
  <2>2. ASSUME NEW n \in 1..Len(stream), Buffer(n) \/ ReadMsg(n) \/ ReadTail(n)
        PROVE  /\ stream' \in Seq(Byte) /\ buf' \in Seq(Byte) /\ tail' \in Seq(Byte)
               /\ taken' \in Seq(Byte)
    <3> DEFINE b == buf \o Chunk(n)
    <3>1. /\ b \in Seq(Byte) /\ Frame(b) \in Seq(Byte) /\ Beyond(b) \in Seq(Byte)
          /\ Rest(n) \in Seq(Byte)
      OBVIOUS
    <3>2. taken \o Frame(b) \in Seq(Byte)
      BY <3>1
    <3>3. CASE Buffer(n)
      BY <3>1, <3>3 DEF Buffer
    <3>4. CASE ReadMsg(n)
      BY <3>1, <3>2, <3>4 DEF ReadMsg
    <3>5. CASE ReadTail(n)
      BY <3>1, <3>2, <3>5 DEF ReadTail
    <3> QED  BY <2>2, <3>3, <3>4, <3>5
  <2>3. ASSUME NEW n \in 1..Len(stream), ReadWire(n) \/ ReadBad(n) \/ ReadData(n)
        PROVE  /\ stream' \in Seq(Byte) /\ buf' \in Seq(Byte) /\ tail' \in Seq(Byte)
               /\ taken' \in Seq(Byte)
    <3> DEFINE b == buf \o Chunk(n)
    <3>1. /\ b \in Seq(Byte) /\ Frame(b) \in Seq(Byte) /\ Beyond(b) \in Seq(Byte)
          /\ Rest(n) \in Seq(Byte) /\ Chunk(n) \in Seq(Byte)
      OBVIOUS
    <3>2. /\ taken \o Frame(b) \in Seq(Byte) /\ Beyond(b) \o Rest(n) \in Seq(Byte)
          /\ taken \o Chunk(n) \in Seq(Byte)
      BY <3>1
    <3>3. CASE ReadWire(n)
      BY <3>1, <3>2, <3>3 DEF ReadWire
    <3>4. CASE ReadBad(n) \/ ReadData(n)
      BY <3>1, <3>2, <3>4 DEF ReadBad, ReadData
    <3> QED  BY <2>3, <3>3, <3>4
  <2>4. CASE HandlerReturns \/ HandlerFails \/ SendOk \/ SendFails
    BY <2>4 DEF HandlerReturns, HandlerFails, SendOk, SendFails, socketVars
  <2>5. CASE PeerEnds \/ EndHeard \/ SocketCloses
    BY <2>5 DEF PeerEnds, EndHeard, SocketCloses, readerVars
  <2> QED  BY <2>1, <2>2, <2>3, <2>4, <2>5 DEF FrameNext
<1>6. Byte' = Byte
  BY <1>2, SameBytes
<1> QED  BY <1>2, <1>3, <1>4, <1>5, <1>6 DEF Streams

\* The header of a message is at its beginning.
LEMMA HeaderIs ==
  ASSUME plan \in Plans, NEW b \in Seq(Byte), HeaderIn(b)
  PROVE  LET h == Item(b[1][1]).head IN
          /\ b # <<>> /\ h \in 0..Len(b) /\ SubSeq(b, 1, h) \in Seq(Byte)
          /\ Len(SubSeq(b, 1, h)) = h
          /\ h > 0 => SubSeq(b, 1, h) # <<>>
          /\ plan.job = "http" => h > 0
<1> DEFINE h == Item(b[1][1]).head
           s == SubSeq(b, 1, h)
<1>1. b # <<>> /\ Len(b) >= h
  BY DEF HeaderIn
<1>2. h \in 0..Len(b) /\ (plan.job = "http" => h > 0)
  BY <1>1, FirstByte
<1> HIDE DEF h
<1>3. s \in Seq(Byte) /\ Len(s) = h
  BY <1>2, CutAt
<1> HIDE DEF s
<1>4. h > 0 => s # <<>>
  BY <1>2, <1>3, EmptySeq
<1> QED  BY <1>1, <1>2, <1>3, <1>4 DEF h, s

LEMMA HttpStreams ==
  ASSUME Control, IInv, Streams, HttpNext
  PROVE  Streams'
<1>0. /\ ControlTypes /\ Turn /\ Served /\ plan \in Plans /\ <<>> \in Seq(Byte)
      /\ (\A x, y \in Seq(Byte) : x \o y \in Seq(Byte))
  BY EmptySeq, ConcatProperties DEF Control, ControlTypes, IInv
<1>1. Reader = "http" /\ UNCHANGED plan
  BY <1>0 DEF HttpNext, HandleHttp, ReadPending, ReadSocket, HandlerAnswers, HandlerThrows,
         Respond, RespondFails, HttpEndHeard, HttpSocketCloses, Serving, Waiting, Served
<1>2. plan.job = "http"
  BY <1>0, <1>1, ReaderTable, Planned DEF ControlTypes
<1>3. ASSUME NEW b \in Seq(Byte), Proceed(b), at = "reading"
      PROVE  /\ buf' \in Seq(Byte) /\ tail' \in Seq(Byte) /\ taken' \in Seq(Byte)
             /\ req' \in Seq(Byte) /\ (req' # <<>> <=> at' \in {"serving", "responding"})
  <2>0. req = <<>> /\ req \in Seq(Byte) /\ taken \in Seq(Byte)
    BY <1>3 DEF Streams
  <2>1. Frame(b) \in Seq(Byte) /\ Behind(b) \in Seq(Byte)
        /\ (Complete(b) => Frame(b) # <<>>)
    BY <1>0, FrameIs DEF Behind
  <2>2. taken \o Frame(b) \in Seq(Byte)
    BY <1>0, <2>0, <2>1
  <2>3. CASE Complete(b)
    BY <1>0, <1>3, <2>1, <2>2, <2>3 DEF Proceed, Yield
  <2>4. CASE ~Complete(b)
    BY <1>0, <1>3, <2>0, <2>4 DEF Proceed
  <2> QED  BY <2>3, <2>4
<1>4. ASSUME ReadNull, at = "reading"
      PROVE  /\ buf' \in Seq(Byte) /\ taken' \in Seq(Byte)
             /\ req' \in Seq(Byte) /\ (req' # <<>> <=> at' \in {"serving", "responding"})
  <2>0. req = <<>> /\ req \in Seq(Byte) /\ taken \in Seq(Byte) /\ buf \in Seq(Byte)
    BY <1>4 DEF Streams
  <2>1. CASE ~HeaderIn(buf)
    BY <1>4, <2>0, <2>1 DEF ReadNull, Finish
  <2>2. CASE HeaderIn(buf)
    <3> DEFINE r == IF Request(buf).kind = "chunked"
                    THEN SubSeq(buf, 1, Request(buf).head) ELSE buf
    <3>1. r \in Seq(Byte) /\ r # <<>>
      BY <1>0, <1>2, <2>0, <2>2, HeaderIs DEF Request
    <3>2. Yield(r)
      BY <1>4, <2>2 DEF ReadNull
    <3> HIDE DEF r
    <3>3. taken \o r \in Seq(Byte)
      BY <1>0, <2>0, <3>1
    <3> QED  BY <1>0, <3>1, <3>2, <3>3 DEF Yield
  <2> QED  BY <2>1, <2>2
<1>5. \A n \in 1..Len(stream) : Chunk(n) \in Seq(Byte) /\ Rest(n) \in Seq(Byte)
  BY ChunkIs DEF Streams
<1>6. /\ stream' \in Seq(Byte) /\ buf' \in Seq(Byte) /\ tail' \in Seq(Byte)
      /\ taken' \in Seq(Byte) /\ req' \in Seq(Byte)
      /\ (req' # <<>> <=> at' \in {"serving", "responding"})
      /\ ended' \in BOOLEAN
  <2> USE <1>0, <1>1 DEF Streams
  <2>1. CASE HandleHttp \/ HandlerAnswers \/ HandlerThrows
    BY <2>1 DEF HandleHttp, HandlerAnswers, HandlerThrows, socketVars, httpVars, Finish
  <2>2. CASE ReadPending
    <3>1. buf \o tail \in Seq(Byte) /\ at = "reading" /\ Proceed(buf \o tail)
          /\ UNCHANGED <<stream, ended>>
      BY <2>2 DEF ReadPending, Busy, socketVars
    <3> QED  BY <3>1, <1>3
  <2>3. ASSUME NEW n \in 1..Len(stream), ReadSocket(n)
        PROVE  /\ stream' \in Seq(Byte) /\ buf' \in Seq(Byte) /\ tail' \in Seq(Byte)
               /\ taken' \in Seq(Byte) /\ req' \in Seq(Byte)
               /\ (req' # <<>> <=> at' \in {"serving", "responding"})
               /\ ended' \in BOOLEAN
    <3>1. Chunk(n) \in Seq(Byte) /\ Rest(n) \in Seq(Byte)
      BY <1>5
    <3>2. buf \o Chunk(n) \in Seq(Byte) /\ at = "reading" /\ Proceed(buf \o Chunk(n))
          /\ UNCHANGED ended /\ stream' \in Seq(Byte)
      BY <2>3, <3>1 DEF ReadSocket, Waiting
    <3> QED  BY <3>2, <1>3
  <2>4. CASE Respond
    <3>1. req # <<>> /\ req \in Seq(Byte)
      BY <2>4 DEF Respond
    <3>2. Request(req).close \in BOOLEAN
      BY <3>1, FirstByte DEF Request
    <3> QED  BY <2>4, <3>2 DEF Respond, socketVars
  <2>5. CASE RespondFails
    BY <2>5 DEF RespondFails, Finish
  <2>6. CASE HttpEndHeard \/ HttpSocketCloses
    <3>1. UNCHANGED <<stream, tail, ended>>
      BY <2>6 DEF HttpEndHeard, HttpSocketCloses
    <3>2. CASE Waiting
      <4>1. ReadNull /\ at = "reading"
        BY <2>6, <3>2 DEF HttpEndHeard, HttpSocketCloses, Waiting
      <4> QED  BY <3>1, <4>1, <1>4
    <3>3. CASE ~Waiting
      BY <2>6, <3>1, <3>3 DEF HttpEndHeard, HttpSocketCloses
    <3> QED  BY <3>2, <3>3
  <2> QED  BY <2>1, <2>2, <2>3, <2>4, <2>5, <2>6 DEF HttpNext
<1>7. Byte' = Byte
  BY <1>1, SameBytes
<1> QED  BY <1>6, <1>7 DEF Streams

LEMMA BackendStreams ==
  ASSUME Control, IInv, Streams, BackendNext, UNCHANGED httpVars
  PROVE  Streams'
<1> USE DEF httpVars
<1>0. /\ ControlTypes /\ Turn /\ Served /\ plan \in Plans /\ <<>> \in Seq(Byte)
      /\ (\A x, y \in Seq(Byte) : x \o y \in Seq(Byte))
  BY EmptySeq, ConcatProperties DEF Control, ControlTypes, IInv
<1>1. /\ Reader = "response" /\ UNCHANGED <<plan, req, ended, tail>>
      /\ at' \notin {"serving", "responding"}
  BY <1>0 DEF BackendNext, ConnectBackend, ConnectFails, RequestWritten, RequestFails, ReadResponse,
         BackendEndHeard, BackendCloses, BackendResets, Asking, Served, Finish, Return,
         ResponseEnds
<1>2. req = <<>>
  BY <1>0, <1>1 DEF Streams, Served
<1>3. ASSUME NEW b \in Seq(Byte), HeaderIn(b)
      PROVE  ResponseOf(b) \in Seq(Byte) /\ SubSeq(b, 1, Item(b[1][1]).head) \in Seq(Byte)
  BY <1>0, <1>3, HeaderIs, FrameIs DEF ResponseOf
<1>4. ASSUME NEW b \in Seq(Byte), Ends(b)
      PROVE  ResponseOf(b) \in Seq(Byte)
  <2>1. CASE HeaderIn(b)
    BY <1>3, <2>1
  <2>2. CASE ~HeaderIn(b)
    <3>1. Complete(b) /\ Kind(b) \in {"sized", "chunked"}
      BY <1>4, <2>2 DEF Ends
    <3> QED  BY <1>0, <3>1, FrameIs DEF ResponseOf
  <2> QED  BY <2>1, <2>2
<1>5. \A n \in 1..Len(stream) : Chunk(n) \in Seq(Byte) /\ Rest(n) \in Seq(Byte)
  BY ChunkIs DEF Streams
<1>6. ASSUME ResponseEnds
      PROVE  buf' \in Seq(Byte) /\ taken' \in Seq(Byte)
  <2>1. CASE HeaderIn(buf)
    BY <1>0, <1>3, <1>6, <2>1 DEF ResponseEnds, Return, Streams
  <2>2. CASE ~HeaderIn(buf)
    BY <1>6, <2>2 DEF ResponseEnds, Streams
  <2> QED  BY <2>1, <2>2
<1>7. stream' \in Seq(Byte) /\ buf' \in Seq(Byte) /\ taken' \in Seq(Byte)
  <2> USE <1>0 DEF Streams
  <2>1. CASE ConnectBackend \/ ConnectFails \/ RequestWritten \/ RequestFails
    BY <2>1 DEF ConnectBackend, ConnectFails, RequestWritten, RequestFails, socketVars
  <2>2. ASSUME NEW n \in 1..Len(stream), ReadResponse(n)
        PROVE  stream' \in Seq(Byte) /\ buf' \in Seq(Byte) /\ taken' \in Seq(Byte)
    <3> DEFINE b == buf \o Chunk(n)
    <3>1. b \in Seq(Byte) /\ Rest(n) \in Seq(Byte) /\ stream' = Rest(n)
      BY <1>5, <2>2 DEF ReadResponse
    <3>2. CASE Ends(b)
      BY <1>4, <2>2, <3>1, <3>2 DEF ReadResponse, Return
    <3>3. CASE ~Ends(b)
      BY <2>2, <3>1, <3>3 DEF ReadResponse
    <3> QED  BY <3>2, <3>3
  <2>3. CASE BackendEndHeard
    BY <1>6, <2>3 DEF BackendEndHeard
  <2>4. CASE BackendCloses
    BY <1>6, <2>4 DEF BackendCloses
  <2>5. CASE BackendResets
    BY <2>5 DEF BackendResets
  <2> QED  BY <2>1, <2>2, <2>3, <2>4, <2>5 DEF BackendNext
<1>8. Byte' = Byte
  BY <1>1, SameBytes
<1> QED  BY <1>1, <1>2, <1>7, <1>8 DEF Streams

LEMMA StartsStreaming == ASSUME Init PROVE Streams
  BY EmptySeq, SentIs DEF Init, FrameInit, Streams
-----------------------------------------------------------------------------
(* What is left of what was sent.                                            *)

Left == buf \o (tail \o stream)

\* A message is resolved; data is used; handleUdp drops the tail it is not given.
Frames(f) == \E b, r \in Seq(Byte) :
                /\ Good(b) /\ Left = b \o r /\ f = Frame(b)
                /\ Reader \in FrameReaders /\ taken' = taken \o f
Uses(f) == Reader = "data" /\ Reader' = "data" /\ taken' = taken \o f
Drops == Reader = "loop" /\ Reader' = "loop" /\ ~plan.encrypted /\ UNCHANGED taken
Unmoved(f) == /\ f = <<>> /\ UNCHANGED taken
              /\ Reader' = Reader \/ (Reader = "msg" /\ Reader' = "data")

\* The algebra of sequences, for bytes.
LEMMA EmptySeqs ==
  /\ <<>> \in Seq(Byte)
  /\ \A x \in Seq(Byte) : x \o <<>> = x /\ <<>> \o x = x
  /\ \A x, y \in Seq(Byte) : x \o y \in Seq(Byte)
  /\ \A x, y, z \in Seq(Byte) : (x \o y) \o z = x \o (y \o z)
<1>1. \A x, y \in Seq(Byte) : x \o y \in Seq(Byte)
  BY ConcatProperties
<1>2. \A x, y, z \in Seq(Byte) : (x \o y) \o z = x \o (y \o z)
  BY ConcatAssociative
<1> QED  BY <1>1, <1>2, EmptySeq, ConcatEmptySeq
LEMMA Concat == \A x, y, z \in Seq(Byte) : (x \o y) \o z = x \o (y \o z)
  BY EmptySeqs
LEMMA ConcatType == \A x, y \in Seq(Byte) : x \o y \in Seq(Byte)
  BY EmptySeqs

\* Each step of a frame reader that leaves the socket alive takes bytes from the
\* front of what is left, or nothing.
LEMMA FrameLeft ==
  ASSUME Control, IInv, Streams, FrameNext, ~closed'
  PROVE  \E f \in Seq(Byte) :
           /\ Left = f \o Left'
           /\ Frames(f) \/ Uses(f) \/ Drops \/ Unmoved(f)
<1> DEFINE Goal == \E f \in Seq(Byte) :
           /\ Left = f \o Left'
           /\ Frames(f) \/ Uses(f) \/ Drops \/ Unmoved(f)
<1> HIDE DEF Goal
<1> SUFFICES Goal
  BY DEF Goal
<1>0. /\ ControlTypes /\ Turn /\ Between /\ plan \in Plans
      /\ stream \in Seq(Byte) /\ buf \in Seq(Byte) /\ tail \in Seq(Byte)
      /\ taken \in Seq(Byte)
  BY DEF Control, ControlTypes, IInv, Streams
<1>1. Left \in Seq(Byte) /\ Left = <<>> \o Left
  BY <1>0, EmptySeqs DEF Left
<1>2. ASSUME Left' = Left, Reader' = Reader, UNCHANGED taken PROVE Goal
  <2>1. Unmoved(<<>>)
    BY <1>2 DEF Unmoved
  <2> QED  BY <1>1, <1>2, <2>1, EmptySeqs DEF Goal
<1>3. ASSUME NEW b \in Seq(Byte), NEW r \in Seq(Byte), Good(b), Left = b \o r,
             Reader \in FrameReaders, taken' = taken \o Frame(b), Left' = Beyond(b) \o r
      PROVE  Goal
  <2>1. Frame(b) \in Seq(Byte) /\ Beyond(b) \in Seq(Byte) /\ Frame(b) \o Beyond(b) = b
    BY <1>0, FrameIs
  <2>2. (Frame(b) \o Beyond(b)) \o r = Frame(b) \o (Beyond(b) \o r)
    <3> DEFINE f == Frame(b)
               t == Beyond(b)
    <3>1. f \in Seq(Byte) /\ t \in Seq(Byte) /\ r \in Seq(Byte)
      BY <2>1
    <3> HIDE DEF f, t
    <3>2. (f \o t) \o r = f \o (t \o r)
      BY ONLY <3>1, Concat
    <3> QED  BY <3>2 DEF f, t
  <2>3. Left = Frame(b) \o Left'
    BY <1>3, <2>1, <2>2
  <2>4. Frames(Frame(b))
    BY <1>3 DEF Frames
  <2> QED  BY <2>1, <2>3, <2>4 DEF Goal
<1>4. ASSUME NEW n \in 1..Len(stream), tail = <<>>
      PROVE  /\ Left = (buf \o Chunk(n)) \o Rest(n) /\ buf \o Chunk(n) \in Seq(Byte)
             /\ Rest(n) \in Seq(Byte) /\ Chunk(n) \in Seq(Byte)
             /\ Chunk(n) \o Rest(n) = stream
  <2>1. Chunk(n) \in Seq(Byte) /\ Rest(n) \in Seq(Byte) /\ Chunk(n) \o Rest(n) = stream
    BY <1>0, ChunkIs
  <2>2. Left = buf \o stream
    BY <1>0, <1>4, EmptySeqs DEF Left
  <2>3. (buf \o Chunk(n)) \o Rest(n) = buf \o (Chunk(n) \o Rest(n))
    <3> DEFINE x == Chunk(n)
               y == Rest(n)
    <3>1. buf \in Seq(Byte) /\ x \in Seq(Byte) /\ y \in Seq(Byte)
      BY <1>0, <2>1
    <3> HIDE DEF x, y
    <3>2. (buf \o x) \o y = buf \o (x \o y)
      BY ONLY <3>1, Concat
    <3> QED  BY <3>2 DEF x, y
  <2> QED  BY <1>0, <2>1, <2>2, <2>3, EmptySeqs
<1>5. CASE Install
  BY <1>2, <1>5, SameReader DEF Install, Left
<1>6. CASE UseData
  <2>1. buf = <<>> /\ buf' = <<>> /\ tail' = <<>> /\ stream' = stream
    BY <1>0, <1>6 DEF UseData, Between
  <2>2. Left = tail \o stream /\ Left' = stream
    BY <1>0, <2>1, EmptySeqs DEF Left
  <2>3. Reader = "data" /\ Reader' = "data" /\ taken' = taken \o tail
    BY <1>6, SameReader DEF UseData
  <2>4. Uses(tail)
    BY <2>3 DEF Uses
  <2> QED  BY <1>0, <2>2, <2>4 DEF Goal
<1>7. CASE HandleUdp
  <2>1. buf = <<>> /\ buf' = <<>> /\ tail' = <<>> /\ UNCHANGED taken
        /\ Reader = "loop" /\ Reader' = "loop"
    BY <1>0, <1>7, SameReader DEF HandleUdp, Between
  <2>2. Left = tail \o stream
    BY <1>0, <2>1, EmptySeqs DEF Left
  <2>3. CASE stream' = tail \o stream
    <3>1. Left' = tail \o stream
      BY <1>0, <2>1, <2>3, EmptySeqs DEF Left
    <3> QED  BY <1>2, <2>1, <2>2, <3>1
  <2>4. CASE tail = <<>> /\ stream' = stream
    <3>1. Left' = Left
      BY <2>1, <2>4 DEF Left
    <3> QED  BY <1>2, <2>1, <3>1
  <2>5. CASE ~plan.encrypted /\ stream' = stream
    <3>1. Left' = stream /\ Drops
      BY <1>0, <2>1, <2>5, EmptySeqs DEF Left, Drops
    <3> QED  BY <1>0, <2>2, <3>1 DEF Goal
  <2> QED  BY <1>7, <2>3, <2>4, <2>5 DEF HandleUdp
<1>8. CASE CloseReader
  <2>1. Reader = "msg" /\ tail = <<>> /\ tail' = <<>> /\ buf' = <<>> /\ UNCHANGED taken
        /\ UNCHANGED plan /\ step' = step + 1
    BY <1>0, <1>8 DEF CloseReader, Turn
  <2>2. Reader' = "data"
    BY <1>0, <2>1, NextReader
  <2>3. stream' = buf \o stream
    BY <1>0, <1>8, EmptySeqs DEF CloseReader, Unshift
  <2>4. Left' = Left
    BY <1>0, <2>1, <2>3, EmptySeqs DEF Left
  <2>5. Unmoved(<<>>)
    BY <2>1, <2>2 DEF Unmoved
  <2> QED  BY <1>1, <2>4, <2>5, EmptySeqs DEF Goal
<1>9. ASSUME NEW n \in 1..Len(stream), Buffer(n) \/ ReadBad(n)
      PROVE  Goal
  <2>1. Buffer(n)
    BY <1>9 DEF ReadBad, Finish
  <2>2. tail = <<>> /\ tail' = <<>> /\ buf' = buf \o Chunk(n) /\ stream' = Rest(n)
        /\ Reader' = Reader /\ UNCHANGED taken
    BY <1>0, <2>1, SameReader DEF Buffer, Turn, Between, Emit, FrameReaders
  <2>3. Left' = Left
    BY <1>0, <1>4, <2>2, EmptySeqs DEF Left
  <2> QED  BY <1>2, <2>2, <2>3
<1>10. ASSUME NEW n \in 1..Len(stream), ReadMsg(n) \/ ReadTail(n) \/ ReadWire(n)
       PROVE  Goal
  <2> DEFINE b == buf \o Chunk(n)
  <2>1. tail = <<>> /\ Reader \in FrameReaders /\ Good(b) /\ taken' = taken \o Frame(b)
    BY <1>0, <1>10 DEF ReadMsg, ReadTail, ReadWire, Turn, FrameReaders
  <2>2. b \in Seq(Byte) /\ Rest(n) \in Seq(Byte) /\ Left = b \o Rest(n)
    BY <1>4, <2>1
  <2>3. Beyond(b) \in Seq(Byte)
    BY <1>0, <2>2, FrameIs
  <2>4. \/ buf' = Beyond(b) /\ tail' = <<>> /\ stream' = Rest(n)
        \/ buf' = <<>> /\ tail' = Beyond(b) /\ stream' = Rest(n)
        \/ buf' = <<>> /\ tail' = <<>> /\ stream' = Beyond(b) \o Rest(n)
    BY <1>10, <2>1 DEF ReadMsg, ReadTail, ReadWire
  <2> HIDE DEF b
  <2> DEFINE x == Beyond(b)
             y == Rest(n)
  <2>5. x \in Seq(Byte) /\ y \in Seq(Byte) /\ Left' = buf' \o (tail' \o stream')
    BY <2>2, <2>3 DEF Left
  <2> HIDE DEF x, y
  <2>6. <<>> \o y = y /\ <<>> \o (x \o y) = x \o y
    BY <2>5, EmptySeqs
  <2>7. \/ buf' = x /\ tail' = <<>> /\ stream' = y
        \/ buf' = <<>> /\ tail' = x /\ stream' = y
        \/ buf' = <<>> /\ tail' = <<>> /\ stream' = x \o y
    BY <2>4 DEF x, y
  <2>8. Left' = x \o y
    BY <2>5, <2>6, <2>7
  <2> QED  BY <1>3, <2>1, <2>2, <2>8 DEF x, y
<1>11. ASSUME NEW n \in 1..Len(stream), ReadData(n)
       PROVE  Goal
  <2>1. tail = <<>> /\ buf = <<>> /\ tail' = <<>> /\ buf' = <<>> /\ stream' = Rest(n)
        /\ Reader = "data" /\ Reader' = "data" /\ taken' = taken \o Chunk(n)
    BY <1>0, <1>11, SameReader DEF ReadData, Turn
  <2>2. Left' = Rest(n) /\ Left = Chunk(n) \o Rest(n) /\ Chunk(n) \in Seq(Byte)
    <3>1. /\ Chunk(n) \in Seq(Byte) /\ Rest(n) \in Seq(Byte)
          /\ Chunk(n) \o Rest(n) = stream
      BY <1>4, <2>1
    <3>2. <<>> \o stream = stream /\ <<>> \o Rest(n) = Rest(n)
      BY <1>0, <3>1, EmptySeqs
    <3>3. <<>> \o (<<>> \o stream) = stream /\ <<>> \o (<<>> \o Rest(n)) = Rest(n)
      BY ONLY <3>2
    <3> QED  BY <2>1, <3>1, <3>3 DEF Left
  <2>3. Uses(Chunk(n))
    BY <2>1 DEF Uses
  <2> QED  BY <2>2, <2>3 DEF Goal
<1>12. CASE HandlerReturns \/ HandlerFails \/ SendOk \/ SendFails
  <2>1. UNCHANGED <<plan, step, tail, stream>> /\ Reader = "loop" /\ tail = <<>>
        /\ Reader' = Reader
    BY <1>0, <1>12, SameReader DEF HandlerReturns, HandlerFails, SendOk, SendFails, Turn, socketVars
  <2>2. CASE UNCHANGED <<buf, taken>>
    BY <1>2, <2>1, <2>2 DEF Left
  <2>3. CASE ~UNCHANGED <<buf, taken>>
    <3>1. Good(buf) /\ taken' = taken \o Frame(buf) /\ buf' = Beyond(buf)
      BY <1>12, <2>3 DEF HandlerReturns, HandlerFails, SendOk, SendFails
    <3>2. Left = buf \o stream /\ Left' = Beyond(buf) \o stream
      BY <1>0, <2>1, <3>1, EmptySeqs DEF Left
    <3>3. Reader \in FrameReaders
      BY <2>1 DEF FrameReaders
    <3> QED  BY <1>0, <1>3, <3>1, <3>2, <3>3
  <2> QED  BY <2>2, <2>3
<1>13. CASE PeerEnds \/ EndHeard \/ SocketCloses
  <2>1. UNCHANGED <<plan, step, tail, stream, buf, taken>>
    BY <1>13 DEF PeerEnds, EndHeard, SocketCloses, readerVars
  <2> QED  BY <1>2, <2>1, SameReader DEF Left
<1> QED
  BY <1>5, <1>6, <1>7, <1>8, <1>9, <1>10, <1>11, <1>12, <1>13 DEF FrameNext

\* The steps of an HTTP connection, by what they do to what is left: nothing, a
\* request is served, the end cuts one off, the connection is given up, or a
\* response is written.
Still == Left' = Left /\ UNCHANGED <<req, answered, taken>>
Asks(b, g) ==
  /\ Left = b \o stream' /\ Complete(b) /\ req = <<>> /\ ~closed
  /\ taken' = taken \o Frame(b) /\ req' = Frame(b) /\ req' # <<>>
  /\ UNCHANGED answered
  /\ Left = (Frame(b) \o g) \o Left'
  /\ g = <<>> \/ (Request(b).kind = "bare" /\ g = Beyond(b))
CutOff ==
  /\ ~closed /\ req = <<>> /\ Left = buf \o stream /\ HeaderIn(buf) /\ ~Complete(buf)
  /\ UNCHANGED answered
  /\ req' = buf \/ req' = SubSeq(buf, 1, Item(buf[1][1]).head)
  /\ req' # <<>> /\ taken' = taken \o req'
  /\ closed' \/ (end' = "heard" /\ Left' = <<>>)
GivesUp == closed' /\ req' = <<>> /\ UNCHANGED answered
Answers == /\ Left' = Left /\ UNCHANGED taken
           /\ req # <<>> /\ req' = <<>> /\ answered' = answered + 1

\* A request is served with nothing read behind it; none is complete while the
\* loop reads.
Reads == Reader = "http" =>
           /\ at \in {"serving", "responding"} => buf = <<>>
           /\ at = "reading" => ~Complete(buf)

HttpStep == Still \/ (\E b, g \in Seq(Byte) : Asks(b, g)) \/ CutOff \/ GivesUp \/ Answers

\* These are all the steps of handleHttp.
LEMMA HttpLeft ==
  ASSUME Control, IInv, Streams, Reads, HttpNext
  PROVE  HttpStep /\ Reads'
<1>0. /\ ControlTypes /\ Turn /\ Between /\ Served /\ plan \in Plans
      /\ stream \in Seq(Byte) /\ buf \in Seq(Byte) /\ tail \in Seq(Byte)
      /\ taken \in Seq(Byte) /\ <<>> \in Seq(Byte)
      /\ (req # <<>> <=> at \in {"serving", "responding"})
  BY EmptySeqs DEF Control, ControlTypes, IInv, Streams
<1>1. Reader = "http" /\ UNCHANGED <<plan, step>> /\ Reader' = "http"
  <2>1. Reader = "http" /\ UNCHANGED <<plan, step>>
    BY <1>0 DEF HttpNext, HandleHttp, ReadPending, ReadSocket, HandlerAnswers, HandlerThrows,
         Respond, RespondFails, HttpEndHeard, HttpSocketCloses, Serving, Waiting, Served
  <2> QED  BY <2>1, SameReader
<1>2. Complete(<<>>) = FALSE
  BY DEF Complete
<1>3. Size(1)' = Size(1) /\ \A i : Size(i)' = Size(i)
  BY <1>1, SameBytes
<1>4. \A b : Complete(b)' <=> Complete(b)
  BY <1>3 DEF Complete
<1>5. ASSUME NEW b \in Seq(Byte), Left = b \o stream', stream' \in Seq(Byte),
             Proceed(b), at = "reading", ~closed, UNCHANGED answered
      PROVE  HttpStep /\ Reads'
  <2>1. req = <<>>
    BY <1>0, <1>5
  <2>2. CASE ~Complete(b)
    <3>1. buf' = b /\ tail' = <<>> /\ UNCHANGED <<at, req, taken>>
      BY <1>5, <2>2 DEF Proceed
    <3>2. Left' = Left
      BY <1>5, <3>1, EmptySeqs DEF Left
    <3>3. Reads'
      BY <1>4, <1>5, <2>2, <3>1 DEF Reads
    <3> QED  BY <1>5, <3>1, <3>2, <3>3 DEF HttpStep, Still
  <2>3. CASE Complete(b)
    <3>1. /\ at' = "serving" /\ req' = Frame(b) /\ taken' = taken \o Frame(b)
          /\ buf' = <<>> /\ tail' = Behind(b)
      BY <1>5, <2>3 DEF Proceed, Yield
    <3> DEFINE x == Frame(b)
               y == Beyond(b)
               s == stream'
    <3>2. x \in Seq(Byte) /\ y \in Seq(Byte) /\ x \o y = b /\ x # <<>>
      BY <1>0, <2>3, FrameIs
    <3>3. Left = (x \o y) \o s /\ s \in Seq(Byte) /\ Left' = buf' \o (tail' \o s)
      BY <1>5, <3>2 DEF Left
    <3>4. (Request(b).kind = "bare" /\ tail' = <<>>) \/ tail' = y
      BY <3>1 DEF Behind
    <3>5. req' = x /\ taken' = taken \o x
      BY <3>1
    <3>6. UNCHANGED answered /\ ~closed /\ Complete(b) /\ Left = b \o s /\ b \in Seq(Byte)
      BY <1>5, <2>3
    <3>7. Reads'
      BY <3>1 DEF Reads
    <3>8. CASE Request(b).kind = "bare" /\ tail' = <<>>
      <4> HIDE DEF x, y, s
      <4>1. Left' = s
        BY <3>1, <3>3, <3>8, EmptySeqs
      <4>2. Asks(b, y)
        BY <2>1, <3>2, <3>3, <3>5, <3>6, <3>8, <4>1 DEF Asks, x, y, s
      <4> QED  BY <3>2, <3>6, <3>7, <4>2 DEF HttpStep
    <3>9. CASE tail' = y
      <4> HIDE DEF x, y, s
      <4>1. Left' = y \o s
        BY <3>1, <3>2, <3>3, <3>9, EmptySeqs
      <4>2. (x \o y) \o s = x \o (y \o s) /\ x \o <<>> = x
        <5>1. x \in Seq(Byte) /\ y \in Seq(Byte) /\ s \in Seq(Byte)
          BY <3>2, <3>3
        <5>2. (x \o y) \o s = x \o (y \o s)
          BY ONLY <5>1, Concat
        <5>3. x \o <<>> = x
          BY ONLY <5>1, EmptySeqs
        <5> QED  BY <5>2, <5>3
      <4>3. Left = (x \o <<>>) \o Left'
        BY <3>3, <4>1, <4>2
      <4>4. Asks(b, <<>>)
        BY <2>1, <3>2, <3>5, <3>6, <4>3 DEF Asks, x, s
      <4> QED  BY <1>0, <3>6, <3>7, <4>4 DEF HttpStep
    <3> QED  BY <3>4, <3>8, <3>9
  <2> QED  BY <2>2, <2>3
<1>6. ASSUME ReadNull, Waiting, UNCHANGED <<answered, tail, stream>>,
             \/ closed' = TRUE
             \/ closed' = (at' = "done") /\ end' = "heard" /\ stream = <<>>
      PROVE  HttpStep /\ Reads'
  <2>1. at = "reading" /\ tail = <<>> /\ ~closed /\ req = <<>> /\ ~Complete(buf)
        /\ Left = buf \o stream
    <3>1. at = "reading" /\ tail = <<>> /\ ~closed
      BY <1>6 DEF Waiting
    <3> QED  BY <1>0, <1>1, <3>1, EmptySeqs DEF Reads, Left
  <2>2. CASE ~HeaderIn(buf)
    <3>1. at' = "done" /\ closed' = TRUE /\ UNCHANGED req
      BY <1>6, <2>2 DEF ReadNull, Finish
    <3>2. Reads' /\ GivesUp
      BY <1>6, <2>1, <3>1 DEF Reads, GivesUp
    <3> QED  BY <3>2 DEF HttpStep
  <2>3. CASE HeaderIn(buf)
    <3>1. /\ at' = "serving" /\ taken' = taken \o req' /\ buf' = <<>>
          /\ req' = buf \/ req' = SubSeq(buf, 1, Item(buf[1][1]).head)
      BY <1>6, <2>3 DEF ReadNull, Yield, Request
    <3>2. req' # <<>>
      <4>1. plan.job = "http"
        BY <1>0, <1>1, ReaderTable, Planned DEF ControlTypes
      <4> QED  BY <1>0, <2>3, <3>1, <4>1, HeaderIs
    <3>3. closed' \/ (end' = "heard" /\ Left' = <<>>)
      <4>1. CASE closed' = TRUE
        BY <4>1
      <4>2. CASE end' = "heard" /\ stream = <<>>
        <5>1. buf' = <<>> /\ tail' = <<>> /\ stream' = <<>>
          BY <1>6, <2>1, <3>1, <4>2
        <5>2. Left' = <<>>
          BY <1>0, <5>1, EmptySeqs DEF Left
        <5> QED  BY <4>2, <5>2
      <4> QED  BY <1>6, <4>1, <4>2
    <3>4. CutOff
      BY <1>6, <2>1, <2>3, <3>1, <3>2, <3>3 DEF CutOff
    <3>5. Reads'
      BY <3>1 DEF Reads
    <3> QED  BY <3>4, <3>5 DEF HttpStep
  <2> QED  BY <2>2, <2>3
<1>7. CASE HandleHttp \/ HandlerAnswers
  <2>1. UNCHANGED <<buf, tail, stream, req, answered, taken>>
    BY <1>7 DEF HandleHttp, HandlerAnswers, socketVars, httpVars
  <2>2. Still
    BY <2>1 DEF Still, Left
  <2>3. at = "gap" \/ (at' = "responding" /\ at = "serving")
    BY <1>7 DEF HandleHttp, HandlerAnswers
  <2>4. buf = <<>>
    BY <1>0, <1>1, <2>3 DEF Between, Reads
  <2>5. Reads'
    BY <1>2, <1>4, <2>1, <2>4 DEF Reads
  <2> QED  BY <2>2, <2>5 DEF HttpStep
<1>8. CASE HandlerThrows \/ RespondFails
  BY <1>8 DEF HandlerThrows, RespondFails, Finish, HttpStep, GivesUp, Reads
<1>9. CASE Respond
  <2>1. UNCHANGED <<buf, tail, stream, taken>> /\ req # <<>> /\ req' = <<>> /\ answered' = answered + 1
        /\ at' = "reading" /\ buf = <<>>
    BY <1>0, <1>1, <1>9 DEF Respond, socketVars, Reads
  <2>2. Answers
    BY <2>1 DEF Answers, Left
  <2>3. Reads'
    BY <1>2, <1>4, <2>1 DEF Reads
  <2> QED  BY <2>2, <2>3 DEF HttpStep
<1>10. CASE ReadPending
  <2> DEFINE b == buf \o tail
  <2>1. Proceed(b) /\ at = "reading" /\ UNCHANGED <<answered, stream>>
    BY <1>10 DEF ReadPending, Busy, socketVars
  <2>2. b \in Seq(Byte) /\ Left = b \o stream
    <3>1. buf \in Seq(Byte) /\ tail \in Seq(Byte) /\ stream \in Seq(Byte)
      BY <1>0
    <3>2. (buf \o tail) \o stream = buf \o (tail \o stream)
      BY ONLY <3>1, Concat
    <3>3. buf \o tail \in Seq(Byte)
      BY ONLY <3>1, ConcatType
    <3> QED  BY <3>2, <3>3 DEF Left
  <2>3. ~closed
    BY <1>0, <1>1, <2>1 DEF Turn
  <2> HIDE DEF b
  <2>4. stream' \in Seq(Byte) /\ Left = b \o stream'
    BY <1>0, <2>1, <2>2
  <2> QED  BY <1>5, <2>1, <2>2, <2>3, <2>4
<1>11. ASSUME NEW n \in 1..Len(stream), ReadSocket(n)
       PROVE  HttpStep /\ Reads'
  <2> DEFINE b == buf \o Chunk(n)
             x == Chunk(n)
             y == Rest(n)
  <2>1. Proceed(b) /\ at = "reading" /\ ~closed /\ tail = <<>> /\ UNCHANGED answered /\ stream' = y
    BY <1>11 DEF ReadSocket, Waiting
  <2>2. x \in Seq(Byte) /\ y \in Seq(Byte) /\ x \o y = stream
    BY <1>0, ChunkIs
  <2> HIDE DEF x, y
  <2>3. Left = buf \o (x \o y)
    BY <1>0, <2>1, <2>2, EmptySeqs DEF Left
  <2>4. buf \o (x \o y) = (buf \o x) \o y /\ buf \o x \in Seq(Byte)
    <3> HIDE DEF b
    <3>1. buf \in Seq(Byte) /\ x \in Seq(Byte) /\ y \in Seq(Byte)
      BY <1>0, <2>2
    <3>2. (buf \o x) \o y = buf \o (x \o y)
      BY ONLY <3>1, Concat
    <3>3. buf \o x \in Seq(Byte)
      BY ONLY <3>1, ConcatType
    <3> QED  BY <3>2, <3>3
  <2>5. b = buf \o x
    BY DEF x
  <2> HIDE DEF b
  <2> QED  BY <1>5, <2>1, <2>2, <2>3, <2>4, <2>5
<1>12. CASE HttpEndHeard \/ HttpSocketCloses
  <2>1. CASE Waiting
    BY <1>6, <1>12, <2>1 DEF HttpEndHeard, HttpSocketCloses, EndDue
  <2>2. CASE ~Waiting
    <3>1. UNCHANGED <<at, buf, tail, stream, req, answered, taken>>
      BY <1>12, <2>2 DEF HttpEndHeard, HttpSocketCloses
    <3>2. Still
      BY <3>1 DEF Still, Left
    <3>3. Reads'
      BY <1>1, <1>4, <3>1 DEF Reads
    <3> QED  BY <3>2, <3>3 DEF HttpStep
  <2> QED  BY <2>1, <2>2
<1> QED
  BY <1>7, <1>8, <1>9, <1>10, <1>11, <1>12 DEF HttpNext

\* Once the loop of handleHttp or the handler of the backend has its turn, the
\* frame readers do nothing.
LEMMA FrameStill ==
  ASSUME Control, IInv, FrameNext, Reader \in HttpReaders
  PROVE  /\ UNCHANGED <<plan, stream, closed, step, at, buf, tail, taken>>
         /\ end = "heard" => end' = "heard"
  BY DEF FrameNext, Install, UseData, HandleUdp, CloseReader, Buffer, ReadMsg, ReadTail,
         ReadWire, ReadBad, ReadData, HandlerReturns, HandlerFails, SendOk, SendFails,
         PeerEnds, EndHeard, SocketCloses, FrameReaders, HttpReaders, readerVars,
         Control, Turn

\* They are the only ones that Reads speaks of.
LEMMA FrameReads ==
  ASSUME Control, IInv, Reads, FrameNext
  PROVE  Reads'
<1>1. CASE Reader = "http"
  <2>1. UNCHANGED <<plan, at, buf>>
    BY <1>1, FrameStill DEF HttpReaders
  <2>2. \A i : Size(i)' = Size(i)
    BY <2>1, SameBytes
  <2> QED  BY <1>1, <2>1, <2>2 DEF Reads, Complete
<1>2. CASE Reader # "http" /\ Reader' = "http"
  <2>1. \E n \in 1..Len(stream) : ReadTail(n) \/ ReadWire(n)
    <3>1. CASE UNCHANGED <<plan, step>>
      BY <1>2, <3>1, SameReader
    <3>2. CASE CloseReader
      <4>1. Reader = "msg" /\ UNCHANGED plan /\ step' = step + 1 /\ ControlTypes
        BY <3>2 DEF CloseReader, Control, Turn
      <4> QED  BY <1>2, <4>1, NextReader
    <3> QED
      BY <3>1, <3>2 DEF FrameNext, Install, UseData, HandleUdp, Buffer, ReadMsg, ReadBad,
         ReadData, HandlerReturns, HandlerFails, SendOk, SendFails,
         PeerEnds, EndHeard, SocketCloses, readerVars
  <2>2. at' = "gap"
    BY <2>1 DEF ReadTail, ReadWire
  <2> QED  BY <2>2 DEF Reads
<1>3. CASE Reader' # "http"
  BY <1>3 DEF Reads
<1> QED  BY <1>1, <1>2, <1>3

\* The handler of the backend uses nothing until it returns, which ends it.
LEMMA BackendLeft ==
  ASSUME Control, IInv, Streams, BackendNext
  PROVE  /\ Reader = "response" /\ UNCHANGED <<plan, step>>
         /\ closed' \/ (Left' = Left /\ UNCHANGED taken)
<1>0. Turn /\ Served /\ stream \in Seq(Byte) /\ buf \in Seq(Byte) /\ ControlTypes
  BY DEF Control, IInv, Streams
<1>1. Reader = "response" /\ UNCHANGED <<plan, step>>
  BY <1>0 DEF BackendNext, ConnectBackend, ConnectFails, RequestWritten, RequestFails, ReadResponse,
         BackendEndHeard, BackendCloses, BackendResets, Asking, Served
<1>2. CASE ConnectBackend \/ RequestWritten
  BY <1>1, <1>2 DEF ConnectBackend, RequestWritten, Left, socketVars
<1>3. CASE ConnectFails \/ RequestFails \/ BackendResets
  BY <1>1, <1>3 DEF ConnectFails, RequestFails, BackendResets, Finish
<1>4. CASE BackendCloses
  BY <1>1, <1>4 DEF BackendCloses, ResponseEnds, Finish, Return
<1>5. CASE BackendEndHeard
  BY <1>1, <1>5 DEF BackendEndHeard, ResponseEnds, Finish, Return, Left
<1>6. ASSUME NEW n \in 1..Len(stream), ReadResponse(n)
      PROVE  closed' \/ (Left' = Left /\ UNCHANGED taken)
  <2> DEFINE x == Chunk(n)
             y == Rest(n)
  <2>1. CASE closed' = TRUE
    BY <2>1
  <2>2. CASE closed' # TRUE
    <3>1. buf' = buf \o x /\ stream' = y /\ UNCHANGED <<taken, tail>>
      BY <1>6, <2>2 DEF ReadResponse, Return, Finish
    <3>2. x \in Seq(Byte) /\ y \in Seq(Byte) /\ x \o y = stream
      BY <1>0, ChunkIs
    <3>3. tail = <<>> /\ tail' = <<>>
      BY <1>0, <1>1, <3>1 DEF Turn
    <3> HIDE DEF x, y
    <3>4. buf \in Seq(Byte) /\ x \in Seq(Byte) /\ y \in Seq(Byte)
      BY <1>0, <3>2
    <3>5. (buf \o x) \o y = buf \o (x \o y)
      BY ONLY <3>4, Concat
    <3>6. <<>> \o y = y /\ <<>> \o stream = stream
      BY <1>0, <3>4, ConcatEmptySeq
    <3>7. Left' = Left
      BY <3>1, <3>2, <3>3, <3>5, <3>6 DEF Left
    <3> QED  BY <3>1, <3>7
  <2> QED  BY <2>1, <2>2
<1> QED  BY <1>1, <1>2, <1>3, <1>4, <1>5, <1>6 DEF BackendNext
-----------------------------------------------------------------------------
(* Requests are served in the order they were sent, each from bytes of its    *)
(* own item or of a later one.                                               *)

\* What is left is the end of what was sent, and begins behind item m.
Past(m) == \E p \in Seq(Byte) : Sent = p \o Left /\ (Left = <<>> \/ Len(p) >= U(m))

\* Items that are done with, the request that is served among them.
Done == IF req = <<>> THEN answered + 1 ELSE answered + 2

Ordered ==
  /\ answered \in Nat
  /\ Reader = "http" => Done <= N
  /\ ~closed => Past(IF Reader = "http" THEN Done ELSE 0)

\* What has passed when f goes, and p was gone before.
LEMMA PastMoves ==
  ASSUME plan \in Plans, UNCHANGED plan, Left' \in Seq(Byte),
         NEW p \in Seq(Byte), NEW f \in Seq(Byte), NEW m \in 0..N,
         Sent = p \o Left, Left = f \o Left',
         Left' = <<>> \/ Len(p) + Len(f) >= U(m)
  PROVE  Past(m)'
<1> DEFINE q == p \o f
           r == Left'
<1>1. r \in Seq(Byte)
  OBVIOUS
<1> HIDE DEF r
<1>2. q \in Seq(Byte) /\ Len(q) = Len(p) + Len(f)
  BY ConcatProperties
<1>3. p \o (f \o r) = q \o r
  <2>1. p \in Seq(Byte) /\ f \in Seq(Byte) /\ r \in Seq(Byte)
    BY <1>1
  <2> HIDE DEF q
  <2>2. (p \o f) \o r = p \o (f \o r)
    BY ONLY <2>1, Concat
  <2> QED  BY <2>2 DEF q
<1>4. Sent = q \o r /\ (r = <<>> \/ Len(q) >= U(m))
  BY <1>2, <1>3 DEF r
<1>5. Byte' = Byte /\ Sent' = Sent /\ U(m)' = U(m)
  BY SameBytes
<1> QED  BY <1>2, <1>4, <1>5 DEF Past, r

\* What is past stays so.
LEMMA PastKeeps ==
  ASSUME plan \in Plans, UNCHANGED plan, Left \in Seq(Byte), Left' \in Seq(Byte),
         NEW f \in Seq(Byte), Left = f \o Left', NEW m \in 0..N, Past(m)
  PROVE  Past(m)'
<1>1. PICK p \in Seq(Byte) : Sent = p \o Left /\ (Left = <<>> \/ Len(p) >= U(m))
  BY DEF Past
<1> DEFINE r == Left'
<1>2. r \in Seq(Byte) /\ Left = f \o r
  OBVIOUS
<1> HIDE DEF r
<1>3. Left = <<>> => r = <<>>
  <2>1. f \in Seq(Byte) /\ r \in Seq(Byte)
    BY <1>2
  <2>2. f \o r = <<>> => r = <<>>
    BY ONLY <2>1, ConcatEqualIffEmpty
  <2> QED  BY <1>2, <2>2
<1>4. U(m) \in Nat /\ Len(p) \in Nat /\ Len(f) \in Nat
  BY ItemEnds, LenProperties
<1>5. r = <<>> \/ Len(p) + Len(f) >= U(m)
  BY <1>1, <1>3, <1>4
<1> QED  BY <1>1, <1>5, PastMoves DEF r

\* A complete message leaves nothing of its item.
LEMMA PastFrame ==
  ASSUME plan \in Plans, UNCHANGED plan, Left' \in Seq(Byte), NEW m \in 0..N, Past(m),
         NEW b \in Seq(Byte), NEW s \in Seq(Byte), NEW g \in Seq(Byte),
         Left = b \o s, Good(b) \/ Complete(b), Left = (Frame(b) \o g) \o Left'
  PROVE  m + 1 \in 1..N /\ Past(m + 1)'
<1>0. /\ b # <<>> /\ Frame(b) \in Seq(Byte) /\ Len(Frame(b)) = Size(b[1][1])
      /\ Size(b[1][1]) \in Nat
  BY FrameIs, FirstByte
<1>1. PICK p \in Seq(Byte) : Sent = p \o Left /\ (Left = <<>> \/ Len(p) >= U(m))
  BY DEF Past
<1>2. Len(p) >= U(m)
  <2>1. Left # <<>>
    <3>1. b \in Seq(Byte) /\ s \in Seq(Byte) /\ b # <<>>
      BY <1>0
    <3>2. b \o s # <<>>
      BY ONLY <3>1, ConcatEqualIffEmpty
    <3> QED  BY <3>2
  <2> QED  BY <1>1, <2>1
<1>3. m + 1 \in 1..N /\ Len(p) + Size(b[1][1]) >= U(m + 1)
  <2>1. p \o (b \o s) = Sent
    BY <1>1
  <2> QED  BY <1>0, <1>2, <2>1, Later
<1> DEFINE f == Frame(b) \o g
<1>4. f \in Seq(Byte) /\ Len(f) = Size(b[1][1]) + Len(g) /\ Len(g) \in Nat
  BY <1>0, ConcatProperties, LenProperties
<1>5. Left = f \o Left'
  OBVIOUS
<1> HIDE DEF f
<1>6. Len(p) + Len(f) >= U(m + 1) /\ m + 1 \in 0..N
  <2>1. U(m + 1) \in Nat /\ Len(p) \in Nat
    BY <1>3, ItemEnds, LenProperties
  <2> QED  BY <1>0, <1>3, <1>4, <2>1
<1>7. Past(m + 1)'
  BY <1>1, <1>4, <1>5, <1>6, PastMoves
<1> QED  BY <1>3, <1>7

\* What is left over at the end of the connection is of an item, too.
LEMMA PastRest ==
  ASSUME plan \in Plans, NEW m \in 0..N, Past(m),
         NEW b \in Seq(Byte), NEW s \in Seq(Byte), Left = b \o s, b # <<>>
  PROVE  m + 1 \in 1..N
<1>1. PICK p \in Seq(Byte) : Sent = p \o Left /\ (Left = <<>> \/ Len(p) >= U(m))
  BY DEF Past
<1>2. Len(p) >= U(m)
  <2>1. Left # <<>>
    <3>1. b \in Seq(Byte) /\ s \in Seq(Byte) /\ b # <<>>
      OBVIOUS
    <3>2. b \o s # <<>>
      BY ONLY <3>1, ConcatEqualIffEmpty
    <3> QED  BY <3>2
  <2> QED  BY <1>1, <2>1
<1>3. p \o (b \o s) = Sent
  BY <1>1
<1> QED  BY <1>2, <1>3, Later

\* Nothing is left: any item is past.
LEMMA PastAll ==
  ASSUME plan \in Plans, Left = <<>>, NEW m PROVE Past(m)
<1>1. Sent \in Seq(Byte) /\ Sent \o <<>> = Sent
  BY SentIs, ConcatEmptySeq
<1> QED  BY <1>1 DEF Past

\* A socket is destroyed for good.
LEMMA ClosedStays ==
  ASSUME Control, IInv, FrameNext \/ BackendNext \/ HttpNext
  PROVE  closed => closed'
<1>1. CASE FrameNext
  BY <1>1 DEF FrameNext, Install, UseData, HandleUdp, CloseReader, Buffer, ReadMsg, ReadTail,
         ReadWire, ReadBad, ReadData, HandlerReturns, HandlerFails, SendOk, SendFails,
         PeerEnds, EndHeard, SocketCloses, Finish, Unshift, socketVars
<1>2. CASE BackendNext
  BY <1>2 DEF BackendNext, ConnectBackend, ConnectFails, RequestWritten, RequestFails,
         ReadResponse, BackendEndHeard, BackendCloses, BackendResets, Finish, Return,
         ResponseEnds, socketVars
<1>3. CASE HttpNext
  BY <1>3 DEF HttpNext, HandleHttp, ReadPending, ReadSocket, HandlerAnswers, HandlerThrows,
         Respond, RespondFails, HttpEndHeard, HttpSocketCloses, Finish, EndDue, socketVars
<1> QED  BY <1>1, <1>2, <1>3

\* Nothing is past at first.
LEMMA StartsOrdered == ASSUME Init PROVE Ordered
<1>1. /\ plan \in Plans /\ Left = Sent /\ req = <<>> /\ answered = 0
      /\ Sent \in Seq(Byte) /\ Sent = <<>> \o Sent /\ <<>> \in Seq(Byte)
  <2>1. plan \in Plans
    BY DEF Init, FrameInit
  <2>2. Sent \in Seq(Byte)
    BY <2>1, SentIs
  <2> QED  BY <2>1, <2>2, EmptySeqs DEF Init, FrameInit, Left
<1>2. U(0) = 0
  <2>1. Sizes \in Seq(Nat)
    BY <1>1, Planned
  <2> QED  BY <2>1, PiecesNone DEF U, Reach
<1>3. Past(0)
  <2>1. Len(<<>>) >= U(0)
    BY <1>2, EmptySeq
  <2>2. Sent = <<>> \o Left /\ <<>> \in Seq(Byte)
    BY <1>1
  <2> QED  BY <2>1, <2>2, Zenon DEF Past
<1>4. Reader # "http"
  <2>1. plan.job \in DOMAIN Readers /\ step = 1
    BY <1>1, Planned DEF Init, FrameInit
  <2> QED  BY <2>1 DEF Reader, Readers
<1> QED  BY <1>1, <1>3, <1>4 DEF Ordered

\* The turn of handleHttp begins with the message of readMsgWithTail, on a
\* connection that lives.
LEMMA EntersHttp ==
  ASSUME Control, FrameNext, Reader # "http", Reader' = "http"
  PROVE  Reader = "tail" /\ ~closed /\ ~closed' /\ at' = "gap"
<1>1. \E n \in 1..Len(stream) : ReadTail(n) \/ ReadWire(n)
  <2>1. CASE UNCHANGED <<plan, step>>
    BY <2>1, SameReader
  <2>2. CASE CloseReader
    <3>1. Reader = "msg" /\ UNCHANGED plan /\ step' = step + 1 /\ ControlTypes
      BY <2>2 DEF CloseReader, Control, Turn
    <3> QED  BY <3>1, NextReader
  <2> QED
    BY <2>1, <2>2 DEF FrameNext, Install, UseData, HandleUdp, Buffer, ReadMsg, ReadBad,
       ReadData, HandlerReturns, HandlerFails, SendOk, SendFails,
       PeerEnds, EndHeard, SocketCloses, readerVars
<1>2. PICK n \in 1..Len(stream) : ReadTail(n) \/ ReadWire(n)
  BY <1>1
<1>3. ~ReadWire(n)
  <2>1. ReadWire(n) => Reader = "wire" /\ UNCHANGED plan /\ step' = step + 1
    BY DEF ReadWire
  <2> QED  BY <2>1, NextReader DEF Control
<1> QED  BY <1>2, <1>3 DEF ReadTail, Emit

\* Requests stay in order.
LEMMA FrameOrdered ==
  ASSUME Control, Control', IInv, Streams, Streams', Ordered, FrameNext, UNCHANGED httpVars
  PROVE  Ordered'
<1>0. /\ plan \in Plans /\ closed \in BOOLEAN /\ closed' \in BOOLEAN /\ Turn
      /\ Byte' = Byte /\ N' = N /\ UNCHANGED <<plan, req, answered>> /\ N \in Nat
  <2>1. UNCHANGED plan
    BY DEF FrameNext, Install, UseData, HandleUdp, CloseReader, Buffer, ReadMsg, ReadTail,
         ReadWire, ReadBad, ReadData, HandlerReturns, HandlerFails, SendOk, SendFails,
         PeerEnds, EndHeard, SocketCloses
  <2>2. plan \in Plans
    BY DEF Control, ControlTypes
  <2> QED  BY <2>1, <2>2, SameBytes, Planned DEF Control, ControlTypes, httpVars
<1>1. Left \in Seq(Byte) /\ Left' \in Seq(Byte)
  <2>1. Left \in Seq(Byte)
    BY EmptySeqs DEF Streams, Left
  <2>2. stream' \in Seq(Byte) /\ buf' \in Seq(Byte) /\ tail' \in Seq(Byte)
    BY <1>0 DEF Streams
  <2>3. Left' = buf' \o (tail' \o stream')
    BY DEF Left
  <2> QED  BY <2>1, <2>2, <2>3, EmptySeqs
<1>2. CASE Reader = "http"
  <2>1. UNCHANGED <<closed, step, stream, buf, tail>> /\ Reader' = "http"
    BY <1>0, <1>2, FrameStill, SameReader DEF HttpReaders
  <2>2. Left' = Left
    BY <2>1 DEF Left
  <2>3. Done' = Done
    BY <1>0 DEF Done
  <2>4. Past(Done) => Past(Done)'
    BY <1>0, <2>2, <2>3, SameBytes DEF Past
  <2> QED  BY <1>0, <1>2, <2>1, <2>3, <2>4 DEF Ordered
<1>3. CASE Reader # "http" /\ closed'
  BY <1>0, <1>3, EntersHttp DEF Ordered
<1>4. CASE Reader # "http" /\ ~closed'
  <2>1. ~closed
    BY <1>4, ClosedStays
  <2>2. Past(0) /\ 0 \in 0..N
    BY <1>0, <1>4, <2>1 DEF Ordered
  <2>3. PICK f \in Seq(Byte) : Left = f \o Left' /\ (Frames(f) \/ Uses(f) \/ Drops \/ Unmoved(f))
    BY <1>4, FrameLeft
  <2>4. CASE Reader' # "http"
    <3>1. Past(0)'
      BY <1>0, <1>1, <2>2, <2>3, PastKeeps
    <3> QED  BY <1>0, <2>4, <3>1 DEF Ordered
  <2>5. CASE Reader' = "http"
    <3>1. Frames(f)
      BY <1>4, <2>3, <2>5 DEF Uses, Drops, Unmoved
    <3>2. PICK b, r \in Seq(Byte) : Good(b) /\ Left = b \o r /\ f = Frame(b)
      BY <3>1 DEF Frames
    <3>3. <<>> \in Seq(Byte) /\ Left = (Frame(b) \o <<>>) \o Left'
      BY <2>3, <3>2, EmptySeqs
    <3>4. 0 + 1 \in 1..N /\ Past(0 + 1)'
      BY <1>0, <1>1, <2>2, <3>2, <3>3, PastFrame
    <3>5. Done' = 1 /\ answered = 0 /\ 0 + 1 = 1
      BY <1>0, <1>4 DEF Done, Turn, Streams, IInv, Served
    <3> QED  BY <1>0, <2>5, <3>4, <3>5 DEF Ordered
  <2> QED  BY <2>4, <2>5
<1> QED  BY <1>0, <1>2, <1>3, <1>4

LEMMA BackendOrdered ==
  ASSUME Control, Control', IInv, Streams, Ordered, BackendNext, UNCHANGED httpVars
  PROVE  Ordered'
<1>1. /\ Reader = "response" /\ Reader' = "response" /\ UNCHANGED <<plan, req, answered>>
      /\ closed' \/ Left' = Left
      /\ closed \in BOOLEAN /\ closed' \in BOOLEAN
  BY BackendLeft, SameReader DEF httpVars, Control, ControlTypes
<1>2. closed => closed'
  BY ClosedStays
<1>3. Left' = Left /\ Past(0) => Past(0)'
  BY <1>1, SameBytes DEF Past
<1> QED  BY <1>1, <1>2, <1>3 DEF Ordered

LEMMA HttpOrdered ==
  ASSUME Control, Control', IInv, Streams, Streams', Reads, Ordered, HttpNext
  PROVE  Ordered'
<1>0. /\ plan \in Plans /\ closed \in BOOLEAN /\ closed' \in BOOLEAN
      /\ Reader = "http" /\ Reader' = "http" /\ UNCHANGED plan
      /\ Byte' = Byte /\ N' = N /\ N \in Nat /\ answered \in Nat /\ Done \in 0..N
      /\ closed => closed'
  <2>1. Reader = "http" /\ UNCHANGED <<plan, step>>
    BY DEF HttpNext, HandleHttp, ReadPending, ReadSocket, HandlerAnswers, HandlerThrows,
         Respond, RespondFails, HttpEndHeard, HttpSocketCloses, Serving, Waiting, IInv, Served
  <2>2. plan \in Plans
    BY DEF Control, ControlTypes
  <2>3. answered \in Nat /\ Done <= N
    BY <2>1 DEF Ordered
  <2>4. Done \in 0..N /\ N \in Nat
    BY <2>2, <2>3, Planned DEF Done
  <2> QED  BY <2>1, <2>2, <2>3, <2>4, SameBytes, SameReader, ClosedStays
           DEF Control, ControlTypes
<1>1. Left \in Seq(Byte) /\ Left' \in Seq(Byte)
  <2>1. Left \in Seq(Byte)
    BY EmptySeqs DEF Streams, Left
  <2>2. stream' \in Seq(Byte) /\ buf' \in Seq(Byte) /\ tail' \in Seq(Byte)
    BY <1>0 DEF Streams
  <2>3. Left' = buf' \o (tail' \o stream')
    BY DEF Left
  <2> QED  BY <2>1, <2>2, <2>3, EmptySeqs
<1>2. ~closed => Past(Done)
  BY <1>0 DEF Ordered
<1>3. ASSUME NEW m \in 0..N, m = Done', answered' \in Nat, closed' \/ Past(m)' PROVE Ordered'
  <2>1. ~closed' => Past(Done)'
    BY <1>3 DEF Past
  <2> QED  BY <1>0, <1>3, <2>1 DEF Ordered
<1>4. ASSUME Left' = Left, closed' \/ Past(Done) PROVE closed' \/ (\A m : m = Done => Past(m)')
  BY <1>4, <1>0, SameBytes DEF Past
<1>5. \A m : Left' = <<>> => Past(m)'
  <2>1. Sent \in Seq(Byte) /\ Sent \o <<>> = Sent
    BY <1>0, SentIs, EmptySeqs
  <2> QED  BY <1>0, <2>1, SameBytes DEF Past
<1>6. CASE Still
  <2>1. Left' = Left /\ Done' = Done /\ answered' = answered
    BY <1>6 DEF Still, Done
  <2> QED  BY <1>0, <1>2, <1>3, <1>4, <2>1
<1>7. ASSUME NEW b \in Seq(Byte), NEW g \in Seq(Byte), Asks(b, g) PROVE Ordered'
  <2>1. /\ Left = b \o stream' /\ Complete(b) /\ Left = (Frame(b) \o g) \o Left'
        /\ Past(Done) /\ stream' \in Seq(Byte)
        /\ Done' = Done + 1 /\ answered' = answered
    BY <1>0, <1>2, <1>7 DEF Asks, Done, Streams
  <2>2. Done + 1 \in 1..N /\ \A m : m = Done + 1 => Past(m)'
    <3>1. PICK d \in 0..N : d = Done
      BY <1>0
    <3>2. Past(d)
      BY <2>1, <3>1
    <3>3. d + 1 \in 1..N /\ Past(d + 1)'
      BY <1>0, <1>1, <2>1, <3>2, PastFrame
    <3>4. PICK e : e = d + 1
      OBVIOUS
    <3>5. Past(e)'
      BY <3>3, <3>4
    <3> QED  BY <3>1, <3>3, <3>4, <3>5
  <2> QED  BY <1>0, <1>3, <2>1, <2>2
<1>8. CASE CutOff
  <2>1. /\ Left = buf \o stream /\ buf # <<>> /\ ~closed /\ buf \in Seq(Byte) /\ stream \in Seq(Byte)
        /\ closed' \/ Left' = <<>>
        /\ Done' = Done + 1 /\ answered' = answered
    BY <1>0, <1>8 DEF CutOff, HeaderIn, Done, Streams
  <2>2. Done + 1 \in 1..N
    BY <1>0, <1>2, <2>1, PastRest
  <2> QED  BY <1>0, <1>3, <1>5, <2>1, <2>2
<1>9. CASE GivesUp
  <2>1. Done' \in 0..N /\ closed' /\ answered' = answered
    BY <1>0, <1>9 DEF GivesUp, Done
  <2> QED  BY <1>0, <1>3, <2>1
<1>10. CASE Answers
  <2>1. Left' = Left /\ Done' = Done /\ answered' = answered + 1
    BY <1>0, <1>10 DEF Answers, Done
  <2> QED  BY <1>0, <1>2, <1>3, <1>4, <2>1
<1> QED  BY <1>6, <1>7, <1>8, <1>9, <1>10, HttpLeft DEF HttpStep

\* A step that changes nothing changes no order.
LEMMA OtherwiseOrdered == ASSUME Ordered, UNCHANGED vars PROVE Ordered'
<1>1. UNCHANGED <<plan, step, closed, req, answered, stream, buf, tail>>
  BY DEF vars, frameVars, socketVars, readerVars, httpVars
<1>2. Reader' = Reader /\ Done' = Done /\ Left' = Left
  BY <1>1, SameReader DEF Done, Left
<1>3. \A m : Past(m)' <=> Past(m)
  BY <1>1, <1>2, SameBytes DEF Past
<1> QED  BY <1>1, <1>2, <1>3, SameBytes DEF Ordered
-----------------------------------------------------------------------------
(* The types.                                                                *)

TInv == IInv /\ Control /\ Streams /\ Reads /\ Ordered

LEMMA StartsTyped == ASSUME Init PROVE TInv
<1>1. Reads
  BY DEF Init, FrameInit, Reads
<1> QED  BY <1>1, Starts, StartsControlled, StartsStreaming, StartsOrdered DEF TInv

LEMMA KeepsTypes == ASSUME TInv, [Next]_vars PROVE TInv'
<1> USE DEF TInv
<1>1. CASE FrameNext /\ UNCHANGED httpVars
  <2>1. IInv'
    BY <1>1, ChunkKeeps, TurnKeeps, OtherKeeps DEF FrameNext
  <2>2. Control' /\ Streams' /\ Reads'
    BY <1>1, FrameControl, FrameStreams, FrameReads
  <2>3. Ordered'
    BY <1>1, <2>2, FrameOrdered
  <2> QED  BY <2>1, <2>2, <2>3
<1>2. CASE BackendNext /\ UNCHANGED httpVars
  <2>1. IInv' /\ Control' /\ Streams'
    BY <1>2, BackendKeeps, BackendControl, BackendStreams
  <2>2. Reads'
    BY <1>2, BackendLeft, SameReader DEF Reads
  <2>3. Ordered'
    BY <1>2, <2>1, BackendOrdered
  <2> QED  BY <2>1, <2>2, <2>3
<1>3. CASE HttpNext
  <2>1. IInv' /\ Control' /\ Streams' /\ Reads'
    BY <1>3, HttpKeeps, HttpControl, HttpStreams, HttpLeft
  <2>2. Ordered'
    BY <1>3, <2>1, HttpOrdered
  <2> QED  BY <2>1, <2>2
<1>4. CASE UNCHANGED vars
  <2>1. UNCHANGED <<plan, end, closed, flowing, step, at, stream, buf, tail, taken, req,
                    answered, ended>>
    BY <1>4 DEF vars, frameVars, socketVars, readerVars, httpVars
  <2>2. Reader' = Reader
    BY <2>1, SameReader
  <2>3. IInv'
    BY <2>1, <2>2 DEF IInv, Between, Served, NoFrameWaits, FrameLen, Size, Item
  <2>4. Control'
    BY <2>1, <2>2 DEF Control, ControlTypes, Turn
  <2>5. Streams'
    BY <2>1, SameBytes DEF Streams
  <2>6. Reads'
    BY <2>1, <2>2 DEF Reads, Complete, Size, Item
  <2> QED  BY <1>4, <2>3, <2>4, <2>5, <2>6, OtherwiseOrdered
<1> QED  BY <1>1, <1>2, <1>3, <1>4 DEF Next

\* The invariant that the types follow from holds in every state.
LEMMA AlwaysTyped == Spec => []TInv
<1>1. Init => TInv
  BY StartsTyped
<1>2. TInv /\ [Next]_vars => TInv'
  BY KeepsTypes
<1> QED  BY <1>1, <1>2, PTL DEF Spec

\* Every variable has its type, whatever the plan and however its bytes are cut:
\* readers hold bytes of the script only, a request is at hand exactly while it
\* is served, and handleHttp writes no more responses than requests were sent.
THEOREM TypeCorrect == Spec => []TypeOK
<1>1. TInv => TypeOK
  <2> SUFFICES ASSUME TInv PROVE TypeOK
    OBVIOUS
  <2>1. ControlTypes /\ Turn /\ Streams /\ plan \in Plans
    BY DEF TInv, Control, ControlTypes
  <2>2. answered \in 0..Len(plan.script)
    <3>1. N \in Nat /\ answered \in Nat
      BY <2>1, Planned DEF TInv, Ordered
    <3>2. answered <= N
      BY <2>1, <3>1 DEF TInv, Ordered, Turn, Done
    <3> QED  BY <3>1, <3>2 DEF N
  <2> QED  BY <2>1, <2>2 DEF TypeOK, ControlTypes, Streams
<1> QED  BY <1>1, AlwaysTyped, PTL
-----------------------------------------------------------------------------
(* Nothing is lost, and messages are whole.                                  *)

\* There are two places where bytes that were read go nowhere: handleUdp is not
\* given the tail of StartWorkConn unless it is encrypted, and a request without
\* a body is served without what was read behind it.
TailsKept ==
  /\ plan.job = "udp" => plan.encrypted
  /\ plan.job = "http" /\ plan.pipelines => \A i \in 1..N : Item(i).kind = "bare" => i = N

\* Every byte is in one place, until the end cuts off a request.
Summed ==
  ~closed =>
    \/ taken \o Left = Sent /\ (Reader = "http" => taken = AllBytes(Done))
    \/ Reader = "http" /\ end = "heard" /\ Left = <<>>

\* Readers of frames stop at the border of one.
Framed ==
  /\ Reader \in FrameReaders => \E n \in 0..N : taken = AllBytes(n)
  /\ Reader = "tail" => taken = <<>>

\* The request that is served is the next, or as much of it as has come.
Requested ==
  req # <<>> =>
    \/ req = Bytes(answered + 2)
    \/ (closed \/ end = "heard") /\ IsPrefix(req, Bytes(answered + 2))

\* A client that waits for its response has sent nothing behind a request.
Ahead ==
  plan.job = "http" /\ ~plan.pipelines /\ answered + 2 <= N =>
    Len(Sent) - Len(stream) <= U(answered + 2)

\* The message that is complete is the next one.
LEMMA NextFrame ==
  ASSUME plan \in Plans, NEW b \in Seq(Byte), NEW r \in Seq(Byte), NEW n \in 0..N,
         AllBytes(n) \o (b \o r) = Sent, Good(b) \/ Complete(b)
  PROVE  /\ n + 1 \in 1..N /\ b[1][1] = n + 1
         /\ Frame(b) = Bytes(n + 1) /\ AllBytes(n) \o Frame(b) = AllBytes(n + 1)
         /\ Len(b) >= Size(n + 1) /\ AllBytes(n) \in Seq(Byte) /\ Len(AllBytes(n)) = U(n)
<1>1. b # <<>> /\ FrameLen(b) = Size(b[1][1]) /\ Len(b) >= Size(b[1][1])
  BY FrameIs
<1>2. b[1] = <<n + 1, 1>> /\ n + 1 \in 1..N
  BY <1>1, NextItem
<1>3. b[1][1] = n + 1
  BY <1>2
<1>4. Len(b) >= Size(n + 1) /\ Frame(b) = SubSeq(b, 1, Size(n + 1))
  BY <1>1, <1>3 DEF Frame
<1>5. /\ AllBytes(n) \in Seq(Byte) /\ Len(AllBytes(n)) = U(n)
      /\ AllBytes(n + 1) = AllBytes(n) \o Bytes(n + 1)
      /\ Len(b) >= Size(n + 1) => SubSeq(b, 1, Size(n + 1)) = Bytes(n + 1)
  BY <1>1, NextItem
<1>6. Frame(b) = Bytes(n + 1)
  BY <1>4, <1>5
<1> QED  BY <1>2, <1>3, <1>4, <1>5, <1>6

\* The bytes that have come are of the items allowed.
LEMMA AheadOf ==
  ASSUME plan \in Plans, stream \in Seq(Byte), NEW p \in Seq(Byte), Sent = p \o stream,
         NEW n \in 1..Len(stream), NEW a \in 0..N, stream[n][1] <= a
  PROVE  Len(Sent) - Len(Rest(n)) <= U(a)
<1>1. /\ Len(Sent) = Len(p) + Len(stream) /\ Len(p) \in Nat /\ Len(stream) \in Nat
      /\ Len(Rest(n)) = Len(stream) - n
      /\ \A i \in 1..(Len(p) + Len(stream)) :
            Sent[i] = IF i <= Len(p) THEN p[i] ELSE stream[i - Len(p)]
  BY ConcatProperties, LenProperties, ChunkIs
<1> DEFINE j == Len(p) + n
<1>2. j \in 1..(Len(p) + Len(stream)) /\ ~(j <= Len(p)) /\ j - Len(p) = n /\ j \in Nat
  BY <1>1
<1> HIDE DEF j
<1>3. Sent[j] = stream[n]
  BY <1>1, <1>2
<1>4. j \in 1..plan.total /\ j \in 1..U(N)
  BY <1>1, <1>2, SentIs
<1>5. PICK i \in 1..N : \E k \in 1..Size(i) : j = U(i - 1) + k /\ AllBytes(N)[j] = <<i, k>>
  BY <1>4, ByteAt
<1>6. PICK k \in 1..Size(i) : j = U(i - 1) + k /\ AllBytes(N)[j] = <<i, k>>
  BY <1>5
<1>7. stream[n][1] = i
  <2>1. Sent[j] = AllBytes(N)[j]
    BY <1>4, SentIs
  <2>2. stream[n] = <<i, k>>
    BY <1>3, <1>6, <2>1
  <2> QED  BY <2>2
<1>8. N \in Nat /\ Size(i) \in Nat /\ i \in 0..a /\ i \in 0..N /\ i > 0
  BY <1>7, Planned
<1>9. /\ U(i) = U(i - 1) + Size(i) /\ U(i - 1) \in Nat /\ U(i) <= U(a)
      /\ U(a) \in Nat /\ U(i) \in Nat
  <2>1. U(i) = U(i - 1) + Size(i) /\ U(i - 1) \in Nat
    BY <1>8, ItemEnds
  <2>2. U(i) <= U(a) /\ U(a) \in Nat /\ U(i) \in Nat
    BY <1>8, ItemEnds
  <2> QED  BY <2>1, <2>2
<1>10. j <= U(a)
  <2>1. j = U(i - 1) + k /\ k \in Nat /\ k <= Size(i)
    BY <1>6, <1>8
  <2>2. \A u, v, w, z \in Nat : v = u + w /\ v <= z /\ k <= w => u + k <= z
    BY ONLY <2>1
  <2> QED  BY ONLY <1>8, <1>9, <2>1, <2>2
<1>11. Len(Sent) - Len(Rest(n)) = j
  BY <1>1 DEF j
<1> QED  BY <1>10, <1>11

\* What has left the socket is the beginning of what was sent.
LEMMA StreamEnds ==
  ASSUME plan \in Plans, Streams, NEW m, Past(m)
  PROVE  \E p \in Seq(Byte) : Sent = p \o stream
<1>1. PICK p \in Seq(Byte) : Sent = p \o Left
  BY DEF Past
<1>2. buf \in Seq(Byte) /\ tail \in Seq(Byte) /\ stream \in Seq(Byte)
  BY DEF Streams
<1> DEFINE x == buf \o tail
           q == p \o x
<1>3. Left = x \o stream /\ x \in Seq(Byte)
  <2>1. (buf \o tail) \o stream = buf \o (tail \o stream)
    BY ONLY <1>2, Concat
  <2>2. buf \o tail \in Seq(Byte)
    BY ONLY <1>2, ConcatType
  <2> QED  BY <2>1, <2>2 DEF Left
<1> HIDE DEF x
<1>4. q \in Seq(Byte)
  BY <1>3, EmptySeqs
<1>5. Sent = q \o stream
  <2> HIDE DEF q
  <2>1. p \in Seq(Byte) /\ x \in Seq(Byte) /\ stream \in Seq(Byte)
    BY <1>2, <1>3
  <2>2. (p \o x) \o stream = p \o (x \o stream)
    BY ONLY <2>1, Concat
  <2> QED  BY <1>1, <1>3, <2>2 DEF q
<1> QED  BY <1>4, <1>5

\* How bytes come from a client that waits for its responses.
LEMMA Emits ==
  ASSUME Control, IInv, plan.job = "http", ~plan.pipelines,
         (FrameNext /\ UNCHANGED httpVars) \/ HttpNext
  PROVE  /\ UNCHANGED plan
         /\ \/ stream' = stream /\ answered' \in {answered, answered + 1}
            \/ /\ ~closed /\ answered' = answered
               /\ \E n \in 1..Len(stream) : stream' = Rest(n) /\ stream[n][1] <= answered + 2
<1> DEFINE Come == \E n \in 1..Len(stream) : stream' = Rest(n) /\ stream[n][1] <= answered + 2
           Goal == /\ UNCHANGED plan
                   /\ \/ stream' = stream /\ answered' \in {answered, answered + 1}
                      \/ ~closed /\ answered' = answered /\ Come
<1> SUFFICES Goal
  OBVIOUS
<1>0. Turn /\ Reader \in {"tail", "http"} /\ Served
  BY ReaderTable, Planned DEF Control, ControlTypes, IInv
<1>1. CASE FrameNext /\ UNCHANGED httpVars /\ Reader = "http"
  BY <1>1, FrameStill DEF httpVars, HttpReaders
<1>2. CASE FrameNext /\ UNCHANGED httpVars /\ Reader = "tail"
  <2>0. answered = 0 /\ answered' = answered
    BY <1>0, <1>2 DEF Turn, httpVars
  <2>1. ASSUME NEW n \in 1..Len(stream), Emit(n), stream' = Rest(n), UNCHANGED plan
        PROVE  Goal
    <3>1. stream[n][1] <= answered + 2
      BY <2>0, <2>1 DEF Emit
    <3> QED  BY <2>0, <2>1, <3>1 DEF Emit
  <2>2. CASE UNCHANGED <<plan, stream>>
    BY <2>0, <2>2
  <2>3. CASE \E n \in 1..Len(stream) : Buffer(n) \/ ReadTail(n) \/ ReadBad(n)
    BY <2>1, <2>3 DEF Buffer, ReadTail, ReadBad
  <2>4. UNCHANGED <<plan, stream>> \/ \E n \in 1..Len(stream) : Buffer(n) \/ ReadTail(n) \/ ReadBad(n)
    BY <1>0, <1>2 DEF FrameNext, Install, UseData, HandleUdp, CloseReader, ReadMsg, ReadWire,
       ReadData, HandlerReturns, HandlerFails, SendOk, SendFails,
       PeerEnds, EndHeard, SocketCloses, readerVars, socketVars, Turn
  <2> QED  BY <2>2, <2>3, <2>4
<1>3. CASE \E n \in 1..Len(stream) : ReadSocket(n)
  <2>1. PICK n \in 1..Len(stream) : ReadSocket(n)
    BY <1>3
  <2> QED  BY <2>1 DEF ReadSocket, Waiting, Allowed
<1>4. CASE HttpNext /\ ~\E n \in 1..Len(stream) : ReadSocket(n)
  BY <1>4 DEF HttpNext, HandleHttp, ReadPending, HandlerAnswers, HandlerThrows, Respond,
     RespondFails, HttpEndHeard, HttpSocketCloses, socketVars, httpVars
<1> QED  BY <1>0, <1>1, <1>2, <1>3, <1>4

\* No step lets such a client get ahead.
LEMMA AheadKeeps ==
  ASSUME Control, Control', IInv, Streams, Ordered, Ahead,
         (FrameNext /\ UNCHANGED httpVars) \/ HttpNext
  PROVE  Ahead'
<1>1. CASE plan.job = "http" /\ ~plan.pipelines
  <2>0. /\ UNCHANGED plan /\ N' = N /\ Sent' = Sent /\ (\A i : U(i)' = U(i))
        /\ N \in Nat /\ answered \in Nat /\ plan \in Plans
        /\ Sent \in Seq(Byte) /\ Len(Sent) \in Nat
    <3>1. plan \in Plans
      BY DEF Control, ControlTypes
    <3> QED  BY <1>1, <3>1, Emits, SameBytes, Planned, SentIs, LenProperties DEF Ordered
  <2>1. SUFFICES ASSUME answered' + 2 <= N
                 PROVE  Len(Sent) - Len(stream') <= U(answered' + 2)
    <3>1. U(answered + 2)' = U(answered' + 2)
      BY <2>0 DEF U
    <3>2. Len(stream)' = Len(stream')
      OBVIOUS
    <3> QED  BY <2>0, <2>1, <3>1, <3>2 DEF Ahead
  <2>2. CASE stream' = stream /\ answered' \in {answered, answered + 1}
    <3>1. /\ answered + 2 \in 0..N /\ answered' + 2 \in 0..N
          /\ answered + 2 \in 0..(answered' + 2)
      <4>1. answered \in Nat /\ N \in Nat /\ answered' + 2 <= N
            /\ (answered' = answered \/ answered' = answered + 1)
        BY <2>0, <2>1, <2>2
      <4> QED  BY ONLY <4>1
    <3>2. Len(Sent) - Len(stream) <= U(answered + 2)
      BY <1>1, <3>1 DEF Ahead
    <3>3. U(answered + 2) <= U(answered' + 2) /\ U(answered + 2) \in Nat /\ U(answered' + 2) \in Nat
      BY <2>0, <3>1, ItemEnds
    <3>4. Len(stream) \in Nat
      BY LenProperties DEF Streams
    <3> QED  BY <2>0, <2>2, <3>2, <3>3, <3>4
  <2>3. ASSUME ~closed, answered' = answered, NEW n \in 1..Len(stream), stream' = Rest(n),
               stream[n][1] <= answered + 2
        PROVE  Len(Sent) - Len(stream') <= U(answered' + 2)
    <3>1. PICK p \in Seq(Byte) : Sent = p \o stream
      BY <2>0, <2>3, StreamEnds DEF Ordered
    <3>2. answered + 2 \in 0..N
      BY <2>0, <2>1, <2>3
    <3>3. Len(Sent) - Len(Rest(n)) <= U(answered + 2)
      BY <2>0, <2>3, <3>1, <3>2, AheadOf DEF Streams
    <3> QED  BY <2>3, <3>3
  <2> QED  BY <1>1, <2>2, <2>3, Emits
<1>2. CASE ~(plan.job = "http" /\ ~plan.pipelines)
  <2>1. UNCHANGED plan
    BY DEF FrameNext, Install, UseData, HandleUdp, CloseReader, Buffer, ReadMsg, ReadTail,
         ReadWire, ReadBad, ReadData, HandlerReturns, HandlerFails, SendOk, SendFails,
         PeerEnds, EndHeard, SocketCloses, HttpNext, HandleHttp, ReadPending, ReadSocket,
         HandlerAnswers, HandlerThrows, Respond, RespondFails, HttpEndHeard, HttpSocketCloses
  <2> QED  BY <1>2, <2>1 DEF Ahead
<1> QED  BY <1>1, <1>2

\* A reader whose socket is destroyed hands out nothing.
LEMMA FrameClosed ==
  ASSUME Control, IInv, FrameNext, closed', Reader' \in FrameReaders
  PROVE  Reader' = Reader /\ UNCHANGED taken
<1>1. CASE CloseReader
  <2>1. Reader = "msg" /\ UNCHANGED plan /\ step' = step + 1 /\ ControlTypes
    BY <1>1 DEF CloseReader, Control, Turn
  <2> QED  BY <2>1, NextReader DEF FrameReaders
<1>2. CASE UseData
  BY <1>2, SameReader DEF UseData, FrameReaders
<1>3. CASE ~CloseReader /\ ~UseData
  <2>1. UNCHANGED <<plan, step, taken>>
    BY <1>3 DEF FrameNext, Install, HandleUdp, Buffer, ReadMsg, ReadTail,
       ReadWire, ReadBad, ReadData, HandlerReturns, HandlerFails, SendOk, SendFails,
       PeerEnds, EndHeard, SocketCloses, readerVars, Emit, CanWrite
  <2> QED  BY <2>1, SameReader
<1> QED  BY <1>1, <1>2, <1>3

\* readMsgWithTail is the first reader of its connection.
LEMMA TailFirst ==
  ASSUME Control, IInv, FrameNext, Reader' = "tail"
  PROVE  Reader = "tail" /\ UNCHANGED taken
<1>0. ControlTypes /\ Turn
  BY DEF Control
<1>1. CASE UNCHANGED <<plan, step>>
  <2>1. Reader = "tail"
    BY <1>1, SameReader
  <2>2. step + 1 # step
    <3>1. plan.job \in DOMAIN Readers /\ step \in DOMAIN Readers[plan.job]
      BY <1>0, Planned DEF ControlTypes
    <3>2. step \in Nat
      BY <3>1 DEF Readers
    <3> QED  BY <3>2
  <2> QED
    BY <1>0, <1>1, <2>1, <2>2 DEF FrameNext, Install, UseData, HandleUdp, CloseReader, Buffer, ReadMsg,
       ReadTail, ReadWire, ReadBad, ReadData, HandlerReturns, HandlerFails, SendOk, SendFails,
       PeerEnds, EndHeard, SocketCloses, readerVars, Turn
<1>2. CASE UNCHANGED plan /\ step' = step + 1 /\ Reader \in {"wire", "msg", "tail"}
  BY <1>0, <1>2, NextReader
<1>3. \/ UNCHANGED <<plan, step>>
      \/ UNCHANGED plan /\ step' = step + 1 /\ Reader \in {"wire", "msg", "tail"}
  BY <1>0 DEF FrameNext, Install, UseData, HandleUdp, CloseReader, Buffer, ReadMsg,
     ReadTail, ReadWire, ReadBad, ReadData, HandlerReturns, HandlerFails, SendOk, SendFails,
     PeerEnds, EndHeard, SocketCloses, readerVars, Turn
<1> QED  BY <1>1, <1>2, <1>3

\* The frame readers lose nothing, and stop at the border of a frame.
LEMMA FrameWhole ==
  ASSUME Control, Control', IInv, Streams, Streams', TailsKept, Summed, Framed, FrameNext,
         UNCHANGED httpVars
  PROVE  Summed' /\ Framed'
<1>0. /\ plan \in Plans /\ UNCHANGED <<plan, req, answered>>
      /\ Turn /\ Byte' = Byte /\ Sent' = Sent /\ N' = N
      /\ (\A i : AllBytes(i)' = AllBytes(i)) /\ N \in Nat
  <2>1. UNCHANGED plan
    BY DEF FrameNext, Install, UseData, HandleUdp, CloseReader, Buffer, ReadMsg, ReadTail,
         ReadWire, ReadBad, ReadData, HandlerReturns, HandlerFails, SendOk, SendFails,
         PeerEnds, EndHeard, SocketCloses
  <2>2. plan \in Plans
    BY DEF Control, ControlTypes
  <2> QED  BY <2>1, <2>2, SameBytes, Planned DEF Control, httpVars
<1>1. /\ Left \in Seq(Byte) /\ Left' \in Seq(Byte) /\ taken \in Seq(Byte)
      /\ taken' \in Seq(Byte)
  <2>1. Left \in Seq(Byte)
    BY EmptySeqs DEF Streams, Left
  <2>2. stream' \in Seq(Byte) /\ buf' \in Seq(Byte) /\ tail' \in Seq(Byte)
        /\ taken' \in Seq(Byte) /\ taken \in Seq(Byte)
    BY <1>0 DEF Streams
  <2>3. Left' = buf' \o (tail' \o stream')
    BY DEF Left
  <2> QED  BY <2>1, <2>2, <2>3, EmptySeqs
<1>2. CASE Reader \in HttpReaders
  <2>1. UNCHANGED <<closed, step, stream, buf, tail, taken>> /\ Reader' = Reader
        /\ (end = "heard" => end' = "heard")
    BY <1>0, <1>2, FrameStill, SameReader
  <2>2. Left' = Left /\ Done' = Done
    BY <1>0, <2>1 DEF Left, Done
  <2>3. Summed'
    BY <1>0, <2>1, <2>2 DEF Summed, AllBytes, Bytes, Size, Item
  <2>4. Framed'
    BY <1>2, <2>1 DEF Framed, FrameReaders, HttpReaders
  <2> QED  BY <2>3, <2>4
<1>3. CASE Reader \notin HttpReaders /\ closed'
  <2>1. Summed'
    BY <1>3 DEF Summed
  <2>2. Reader' \in FrameReaders => \E n \in 0..N : taken' = AllBytes(n)
    BY <1>3, FrameClosed DEF Framed
  <2>3. Reader' = "tail" => taken' = <<>>
    BY TailFirst DEF Framed
  <2>4. Framed'
    BY <1>0, <2>2, <2>3 DEF Framed
  <2> QED  BY <2>1, <2>4
<1>4. CASE Reader \notin HttpReaders /\ ~closed'
  <2>1. ~closed /\ Reader # "http"
    BY <1>4, ClosedStays DEF HttpReaders
  <2>2. taken \o Left = Sent
    BY <2>1 DEF Summed
  <2>3. PICK f \in Seq(Byte) : Left = f \o Left' /\ (Frames(f) \/ Uses(f) \/ Drops \/ Unmoved(f))
    BY <1>4, FrameLeft
  <2>4. ~Drops
    <3>1. Reader = "loop" => plan.job = "udp"
      BY <1>0, ReaderTable, Planned DEF Control, ControlTypes
    <3> QED  BY <3>1 DEF Drops, TailsKept
  <2>5. taken' \o Left' = Sent
    <3>1. CASE Unmoved(f)
      <4>1. Left = Left' /\ taken' = taken
        BY <1>1, <2>3, <3>1, EmptySeqs DEF Unmoved
      <4> QED  BY <2>2, <4>1
    <3>2. CASE taken' = taken \o f
      <4> DEFINE r == Left'
      <4>1. r \in Seq(Byte) /\ taken \in Seq(Byte) /\ f \in Seq(Byte)
        BY <1>1
      <4>2. Left = f \o r
        BY <2>3
      <4> HIDE DEF r
      <4>3. (taken \o f) \o r = taken \o (f \o r)
        BY ONLY <4>1, Concat
      <4>4. taken' \o r = Sent
        BY <2>2, <3>2, <4>2, <4>3
      <4> QED  BY <4>4 DEF r
    <3> QED  BY <2>3, <2>4, <3>1, <3>2 DEF Frames, Uses
  <2>6. ASSUME Frames(f), NEW n \in 0..N, taken = AllBytes(n)
        PROVE  n + 1 \in 0..N /\ taken' = AllBytes(n + 1)
    <3>1. PICK b, r \in Seq(Byte) : Good(b) /\ Left = b \o r /\ f = Frame(b)
      BY <2>6 DEF Frames
    <3>2. AllBytes(n) \o (b \o r) = Sent
      BY <2>2, <2>6, <3>1
    <3>3. n + 1 \in 1..N /\ AllBytes(n) \o Frame(b) = AllBytes(n + 1)
      BY <1>0, <3>1, <3>2, NextFrame
    <3>4. taken' = taken \o f
      BY <2>6 DEF Frames
    <3> QED  BY <1>0, <2>6, <3>1, <3>3, <3>4
  <2>7. CASE Reader' = "http"
    <3>1. Frames(f)
      BY <2>1, <2>3, <2>4, <2>7 DEF Uses, Unmoved
    <3>2. taken = <<>>
      BY <2>1, <2>7, EntersHttp DEF Framed
    <3>3. AllBytes(0) = <<>>
      <4>1. AllBytes(0) = Pieces(Sizes, 0) /\ Sizes \in Seq(Nat)
        BY <1>0, Planned
      <4> QED  BY <4>1, PiecesNone
    <3>4. taken' = AllBytes(0 + 1) /\ 0 + 1 = 1
      BY <1>0, <2>6, <3>1, <3>2, <3>3
    <3>5. Done' = 1
      BY <1>0, <2>1 DEF Done, Turn, Streams, IInv, Served
    <3>6. AllBytes(Done)' = AllBytes(1)
      BY <1>0, <3>5 DEF AllBytes, Bytes, Size, Item
    <3>7. Summed'
      BY <1>0, <2>5, <3>4, <3>6 DEF Summed
    <3>8. Framed'
      BY <2>7 DEF Framed, FrameReaders
    <3> QED  BY <3>7, <3>8
  <2>8. CASE Reader' # "http"
    <3>1. Summed'
      BY <1>0, <2>5, <2>8 DEF Summed
    <3>2. Reader' \in FrameReaders => \E n \in 0..N : taken' = AllBytes(n)
      <4> SUFFICES ASSUME Reader' \in FrameReaders PROVE \E n \in 0..N : taken' = AllBytes(n)
        OBVIOUS
      <4>1. Reader \in FrameReaders /\ (Frames(f) \/ UNCHANGED taken)
        BY <2>3, <2>4 DEF Frames, Uses, Unmoved, FrameReaders
      <4>2. PICK n \in 0..N : taken = AllBytes(n)
        BY <4>1 DEF Framed
      <4> QED  BY <2>6, <4>1, <4>2
    <3>3. Reader' = "tail" => taken' = <<>>
      BY TailFirst DEF Framed
    <3>4. Framed'
      BY <1>0, <3>2, <3>3 DEF Framed
    <3> QED  BY <3>1, <3>4
  <2> QED  BY <2>7, <2>8
<1> QED  BY <1>2, <1>3, <1>4

\* A request that is complete, with what is behind it in what was read.
LEMMA AsksNext ==
  ASSUME plan \in Plans, TailsKept, NEW n \in 1..N, NEW b \in Seq(Byte), NEW g \in Seq(Byte),
         NEW s \in Seq(Byte), plan.job = "http", AllBytes(n) \o (b \o s) = Sent, Complete(b),
         ~plan.pipelines /\ n + 1 <= N => Len(Sent) - Len(s) <= U(n + 1),
         g = <<>> \/ (Request(b).kind = "bare" /\ g = Beyond(b))
  PROVE  /\ n + 1 \in 1..N /\ Frame(b) = Bytes(n + 1) /\ g = <<>>
         /\ AllBytes(n) \o Frame(b) = AllBytes(n + 1)
<1>1. /\ n + 1 \in 1..N /\ b[1][1] = n + 1 /\ Frame(b) = Bytes(n + 1)
      /\ AllBytes(n) \o Frame(b) = AllBytes(n + 1)
      /\ Len(b) >= Size(n + 1) /\ AllBytes(n) \in Seq(Byte) /\ Len(AllBytes(n)) = U(n)
  <2>1. n \in 0..N
    OBVIOUS
  <2> QED  BY <2>1, NextFrame
<1>2. SUFFICES ASSUME Request(b).kind = "bare", g = Beyond(b) PROVE g = <<>>
  BY <1>1
<1>3. n + 1 \in 0..N /\ n + 1 > 0 /\ (n + 1) - 1 = n
  <2>1. n + 1 \in 1..N /\ n \in 1..N /\ N \in Nat
    BY <1>1, Planned
  <2> QED  BY ONLY <2>1
<1>4. U(n + 1) = U(n) + Size(n + 1) /\ U(n) \in Nat /\ U(n + 1) \in Nat /\ Size(n + 1) \in Nat
  <2>1. U(n + 1) = U((n + 1) - 1) + Size(n + 1) /\ U((n + 1) - 1) \in Nat /\ U(n + 1) \in Nat
    BY <1>3, ItemEnds
  <2>2. Size(n + 1) \in Nat
    BY <1>1, Planned
  <2> QED  BY <1>3, <2>1, <2>2
<1>5. Len(Sent) = U(n) + Len(b) + Len(s) /\ Len(b) \in Nat /\ Len(s) \in Nat
  <2> DEFINE p == AllBytes(n)
             c == b \o s
  <2>1. p \in Seq(Byte) /\ Len(p) = U(n)
    BY <1>1
  <2>2. c \in Seq(Byte) /\ Len(c) = Len(b) + Len(s) /\ Len(b) \in Nat /\ Len(s) \in Nat
    BY ConcatProperties, LenProperties
  <2>3. p \o c = Sent
    OBVIOUS
  <2> HIDE DEF p, c
  <2>4. Len(p \o c) = Len(p) + Len(c)
    BY <2>1, <2>2, ConcatProperties
  <2> QED  BY <1>4, <2>1, <2>2, <2>3, <2>4
<1>6. Len(b) <= Size(n + 1)
  <2>1. CASE plan.pipelines
    <3>1. n + 1 = N
      BY <1>1, <1>2, <2>1 DEF TailsKept, Request
    <3>2. Len(Sent) <= U(N)
      BY SentIs
    <3> QED  BY <1>4, <1>5, <3>1, <3>2
  <2>2. CASE ~plan.pipelines
    <3>1. Len(Sent) - Len(s) <= U(n + 1)
      BY <1>1, <2>2
    <3> QED  BY <1>4, <1>5, <3>1
  <2> QED  BY <2>1, <2>2
<1>7. FrameLen(b) = Size(n + 1) /\ Len(Beyond(b)) = Len(b) - FrameLen(b) /\ Beyond(b) \in Seq(Byte)
  BY <1>1, FrameIs
<1>8. Len(g) = 0
  BY <1>1, <1>2, <1>4, <1>5, <1>6, <1>7
<1> QED  BY <1>8, EmptySeq

\* A request that the end of the connection has cut off.
LEMMA CutPrefix ==
  ASSUME plan \in Plans, NEW n \in 0..N, NEW b \in Seq(Byte), NEW s \in Seq(Byte),
         AllBytes(n) \o (b \o s) = Sent, HeaderIn(b), ~Complete(b)
  PROVE  /\ IsPrefix(b, Bytes(n + 1))
         /\ IsPrefix(SubSeq(b, 1, Item(b[1][1]).head), Bytes(n + 1))
<1>1. b # <<>>
  BY DEF HeaderIn
<1>2. /\ n + 1 \in 1..N /\ b[1] = <<n + 1, 1>> /\ Bytes(n + 1) \in Seq(Byte)
      /\ Len(Bytes(n + 1)) = Size(n + 1)
      /\ Len(b) <= Size(n + 1) => IsPrefix(b, Bytes(n + 1))
  BY <1>1, NextItem
<1>3. Len(b) \in Nat /\ Size(n + 1) \in Nat
  BY <1>2, Planned, LenProperties
<1>4. Len(b) < Size(n + 1)
  <2>1. b[1][1] = n + 1
    BY <1>2
  <2>2. ~(Len(b) >= Size(n + 1))
    BY <1>1, <2>1 DEF Complete
  <2> QED  BY <1>3, <2>2
<1>5. IsPrefix(b, Bytes(n + 1))
  BY <1>2, <1>3, <1>4
<1>6. Item(b[1][1]).head \in 0..Len(b)
  BY HeaderIs
<1>7. IsPrefix(SubSeq(b, 1, Item(b[1][1]).head), Bytes(n + 1))
  BY <1>2, <1>5, <1>6, PrefixCut
<1> QED  BY <1>5, <1>7

\* An end that was heard stays heard.
LEMMA EndStays == ASSUME HttpNext, end = "heard" PROVE end' = "heard"
  BY DEF HttpNext, HandleHttp, ReadPending, ReadSocket, HandlerAnswers, HandlerThrows,
     Respond, RespondFails, HttpEndHeard, HttpSocketCloses, EndAfter, socketVars

\* handleHttp serves the next request, whole or cut off by the end.
LEMMA HttpWhole ==
  ASSUME Control, Control', IInv, Streams, Streams', Reads, Ordered, TailsKept, Summed,
         Requested, Ahead', HttpNext
  PROVE  Summed' /\ Framed' /\ Requested'
<1>0. /\ plan \in Plans /\ Reader = "http" /\ Reader' = "http" /\ UNCHANGED plan
      /\ Byte' = Byte /\ N' = N /\ N \in Nat /\ answered \in Nat /\ Done \in 1..N
      /\ plan.job = "http" /\ (closed => closed')
  <2>1. Reader = "http" /\ UNCHANGED <<plan, step>>
    BY DEF HttpNext, HandleHttp, ReadPending, ReadSocket, HandlerAnswers, HandlerThrows,
         Respond, RespondFails, HttpEndHeard, HttpSocketCloses, Serving, Waiting, IInv, Served
  <2>2. plan \in Plans /\ plan.job = "http"
    BY <2>1, ReaderTable, Planned DEF Control, ControlTypes
  <2>3. answered \in Nat /\ Done <= N
    BY <2>1 DEF Ordered
  <2>4. Done \in 1..N /\ N \in Nat
    BY <2>2, <2>3, Planned DEF Done
  <2> QED  BY <2>1, <2>2, <2>3, <2>4, SameBytes, SameReader, ClosedStays
           DEF Control, ControlTypes
<1>1. /\ Sent' = Sent /\ \A i : AllBytes(i)' = AllBytes(i) /\ Bytes(i)' = Bytes(i) /\ U(i)' = U(i)
  BY <1>0, SameBytes
<1>2. /\ Left \in Seq(Byte) /\ Left' \in Seq(Byte) /\ taken \in Seq(Byte)
      /\ stream' \in Seq(Byte) /\ stream \in Seq(Byte) /\ buf \in Seq(Byte)
  <2>1. Left \in Seq(Byte)
    BY EmptySeqs DEF Streams, Left
  <2>2. stream' \in Seq(Byte) /\ buf' \in Seq(Byte) /\ tail' \in Seq(Byte)
    BY <1>0 DEF Streams
  <2>3. Left' = buf' \o (tail' \o stream')
    BY DEF Left
  <2> QED  BY <2>1, <2>2, <2>3, EmptySeqs DEF Streams
<1>3. Framed'
  BY <1>0 DEF Framed, FrameReaders
<1>4. end = "heard" => end' = "heard"
  BY EndStays
<1>5. ASSUME \/ closed'
             \/ end' = "heard" /\ Left' = <<>>
             \/ taken' \o Left' = Sent /\ \E m : m = Done' /\ taken' = AllBytes(m)
      PROVE  Summed'
  <2>1. \A m : m = Done' => AllBytes(Done)' = AllBytes(m)
    BY <1>0 DEF AllBytes, Bytes, Size, Item
  <2> QED  BY <1>0, <1>1, <1>5, <2>1 DEF Summed
<1>6. ASSUME \/ req' = <<>>
             \/ \E m : /\ m = answered' + 2
                       /\ \/ req' = Bytes(m)
                          \/ (closed' \/ end' = "heard") /\ IsPrefix(req', Bytes(m))
      PROVE  Requested'
  <2>1. \A m : m = answered' + 2 => Bytes(answered + 2)' = Bytes(m)
    BY <1>0 DEF Bytes, Size, Item
  <2> QED  BY <1>6, <2>1 DEF Requested
<1>7. \/ closed
      \/ taken \o Left = Sent /\ taken = AllBytes(Done)
      \/ end = "heard" /\ Left = <<>>
  BY <1>0 DEF Summed
<1>8. CASE Still
  <2>1. Left' = Left /\ Done' = Done /\ UNCHANGED <<req, answered, taken>>
    BY <1>8 DEF Still, Done
  <2>2. Summed'
    BY <1>0, <1>4, <1>5, <1>7, <2>1
  <2>3. Requested'
    BY <1>0, <1>4, <1>6, <2>1 DEF Requested
  <2> QED  BY <1>3, <2>2, <2>3
<1>9. ASSUME NEW b \in Seq(Byte), NEW g \in Seq(Byte), Asks(b, g)
      PROVE  Summed' /\ Requested'
  <2>0. /\ Left = b \o stream' /\ Complete(b) /\ req = <<>> /\ ~closed
        /\ taken' = taken \o Frame(b) /\ req' = Frame(b) /\ UNCHANGED answered
        /\ Left = (Frame(b) \o g) \o Left'
        /\ g = <<>> \/ (Request(b).kind = "bare" /\ g = Beyond(b))
        /\ req' # <<>>
    BY <1>9 DEF Asks
  <2>1. Left # <<>>
    <3>1. b \in Seq(Byte) /\ stream' \in Seq(Byte) /\ b # <<>>
      BY <1>2, <2>0, FrameIs, <1>0
    <3> DEFINE s == stream'
    <3>2. s \in Seq(Byte)
      BY <3>1
    <3> HIDE DEF s
    <3>3. b \o s # <<>>
      BY <3>1, <3>2, ConcatEqualIffEmpty
    <3> QED  BY <2>0, <3>3 DEF s
  <2>2. taken \o Left = Sent /\ taken = AllBytes(Done)
    BY <1>7, <2>0, <2>1
  <2>3. Done = answered + 1 /\ Done' = Done + 1 /\ answered' + 2 = Done + 1
    BY <1>0, <2>0 DEF Done
  <2>4. ~plan.pipelines /\ Done + 1 <= N => Len(Sent) - Len(stream') <= U(Done + 1)
    <3> SUFFICES ASSUME ~plan.pipelines, Done + 1 <= N
                 PROVE  Len(Sent) - Len(stream') <= U(Done + 1)
      OBVIOUS
    <3>1. U(answered + 2)' = U(Done + 1)
      BY <1>0, <2>3 DEF U, Sizes, Size, Item, N
    <3>2. Len(stream)' = Len(stream') /\ Len(Sent)' = Len(Sent)
      BY <1>1
    <3> QED  BY <1>0, <2>3, <3>1, <3>2 DEF Ahead
  <2>5. AllBytes(Done) \o (b \o stream') = Sent
    BY <2>0, <2>2
  <2>6. /\ Frame(b) = Bytes(Done + 1) /\ g = <<>>
        /\ AllBytes(Done) \o Frame(b) = AllBytes(Done + 1)
    BY <1>0, <1>2, <2>0, <2>4, <2>5, AsksNext
  <2>7. taken' = AllBytes(Done + 1)
    BY <2>0, <2>2, <2>6
  <2>8. taken' \o Left' = Sent
    <3> DEFINE f == Frame(b)
               r == Left'
    <3>1. f \in Seq(Byte) /\ r \in Seq(Byte) /\ taken \in Seq(Byte)
      BY <1>0, <1>2, FrameIs
    <3>2. Left = (f \o <<>>) \o r /\ taken' = taken \o f
      BY <2>0, <2>6
    <3> HIDE DEF f, r
    <3>3. (taken \o f) \o r = taken \o (f \o r)
      BY ONLY <3>1, Concat
    <3>4. f \o <<>> = f
      BY ONLY <3>1, EmptySeqs
    <3>5. taken' \o r = Sent
      BY <2>2, <3>2, <3>3, <3>4
    <3> QED  BY <3>5 DEF r
  <2>9. Summed'
    BY <1>5, <2>3, <2>7, <2>8
  <2>10. Requested'
    BY <1>6, <2>0, <2>3, <2>6
  <2> QED  BY <2>9, <2>10
<1>10. CASE CutOff
  <2>0. /\ ~closed /\ req = <<>> /\ Left = buf \o stream /\ HeaderIn(buf) /\ ~Complete(buf)
        /\ UNCHANGED answered
        /\ req' = buf \/ req' = SubSeq(buf, 1, Item(buf[1][1]).head)
        /\ closed' \/ (end' = "heard" /\ Left' = <<>>)
    BY <1>10 DEF CutOff
  <2>1. Left # <<>>
    <3>1. buf \in Seq(Byte) /\ stream \in Seq(Byte) /\ buf # <<>>
      BY <1>2, <2>0 DEF HeaderIn
    <3>2. buf \o stream # <<>>
      BY <3>1, ConcatEqualIffEmpty
    <3> QED  BY <2>0, <3>2
  <2>2. taken \o Left = Sent /\ taken = AllBytes(Done)
    BY <1>7, <2>0, <2>1
  <2>3. Done = answered + 1 /\ answered' + 2 = Done + 1 /\ Done \in 0..N
    BY <1>0, <2>0 DEF Done
  <2>4. AllBytes(Done) \o (buf \o stream) = Sent
    BY <2>0, <2>2
  <2>5. IsPrefix(buf, Bytes(Done + 1)) /\ IsPrefix(SubSeq(buf, 1, Item(buf[1][1]).head), Bytes(Done + 1))
    BY <1>0, <1>2, <2>0, <2>3, <2>4, CutPrefix
  <2>6. Requested'
    BY <1>6, <2>0, <2>3, <2>5
  <2>7. Summed'
    BY <1>5, <2>0
  <2> QED  BY <1>3, <2>6, <2>7
<1>11. CASE GivesUp
  BY <1>3, <1>5, <1>6, <1>11 DEF GivesUp
<1>12. CASE Answers
  <2>1. Left' = Left /\ Done' = Done /\ req' = <<>> /\ taken' = taken
    BY <1>0, <1>12 DEF Answers, Done
  <2>2. Summed'
    BY <1>0, <1>4, <1>5, <1>7, <2>1
  <2>3. Requested'
    BY <1>6, <2>1
  <2> QED  BY <1>3, <2>2, <2>3
<1> QED  BY <1>3, <1>8, <1>9, <1>10, <1>11, <1>12, HttpLeft DEF HttpStep

-----------------------------------------------------------------------------
(* The response of a backend.                                                *)

\* As long as there is no answer, what has been read does not end a response.
Unended(b) == ~Ends(b) /\ (Complete(b) => Kind(b) # "bad")

\* What may be returned.
Answer(t, late) ==
  /\ IsPrefix(t, Bytes(1)) /\ HeaderIn(t)
  /\ t = Bytes(1) \/ (Kind(t) = "head" /\ Len(t) = Item(1).head) \/ late

Answering ==
  Reader = "response" =>
    IF at = "returned" THEN Answer(taken, end = "heard")
    ELSE taken = <<>> /\ (at \in {"asking", "reading"} => Unended(buf))

\* The invariant, in terms of values of the state that follows.
LEMMA AnsweringIf ==
  ASSUME UNCHANGED plan,
         IF at' = "returned"
         THEN \E t : t = taken' /\ Answer(t, end' = "heard")
         ELSE taken' = <<>> /\ (at' \in {"asking", "reading"} => \E t : t = buf' /\ Unended(t))
  PROVE  Answering'
<1>1. CASE at' = "returned"
  <2>1. PICK t : t = taken' /\ Answer(t, end' = "heard")
    BY <1>1
  <2>2. Answer(taken, end = "heard")'
    BY <2>1 DEF Answer, HeaderIn, Kind, Bytes, Size, Item
  <2> QED  BY <1>1, <2>2 DEF Answering
<1>2. CASE at' # "returned" /\ at' \in {"asking", "reading"}
  <2>1. PICK t : t = buf' /\ Unended(t)
    BY <1>2
  <2>2. Unended(buf)'
    BY <2>1 DEF Unended, Ends, Complete, HeaderIn, Kind, Bytes, Size, Item
  <2> QED  BY <1>2, <2>2 DEF Answering
<1>3. CASE at' # "returned" /\ at' \notin {"asking", "reading"}
  BY <1>3 DEF Answering
<1> QED  BY <1>1, <1>2, <1>3

\* What is read of a response begins it.
LEMMA ResponseBegins ==
  ASSUME plan \in Plans, plan.job = "backend", NEW b \in Seq(Byte), NEW r \in Seq(Byte),
         b \o r = Sent, b # <<>>
  PROVE  /\ 1 \in 1..N /\ b[1][1] = 1 /\ Bytes(1) \in Seq(Byte) /\ Len(Bytes(1)) = Size(1)
         /\ Size(1) \in Nat /\ Item(1).head \in 1..Size(1) /\ Len(b) \in Nat
         /\ Len(b) >= Size(1) => SubSeq(b, 1, Size(1)) = Bytes(1)
         /\ Len(b) <= Size(1) => IsPrefix(b, Bytes(1))
         /\ Kind(b) \in {"sized", "chunked", "head", "bad"} \/ Len(b) <= Size(1)
<1>0. AllBytes(0) = <<>> /\ N \in Nat /\ 0 \in 0..N
  <2>1. AllBytes(0) = Pieces(Sizes, 0) /\ Sizes \in Seq(Nat) /\ N \in Nat /\ 0 \in 0..N
    BY Planned
  <2> QED  BY <2>1, PiecesNone
<1>1. AllBytes(0) \o (b \o r) = Sent
  <2> DEFINE c == b \o r
  <2>1. c \in Seq(Byte) /\ c = Sent
    BY EmptySeqs
  <2> HIDE DEF c
  <2>2. <<>> \o c = c
    BY <2>1, EmptySeqs
  <2> QED  BY <1>0, <2>1, <2>2 DEF c
<1>2. /\ 0 + 1 \in 1..N /\ b[1] = <<0 + 1, 1>>
      /\ Bytes(0 + 1) \in Seq(Byte) /\ Len(Bytes(0 + 1)) = Size(0 + 1)
      /\ Len(b) >= Size(0 + 1) => SubSeq(b, 1, Size(0 + 1)) = Bytes(0 + 1)
      /\ Len(b) <= Size(0 + 1) => IsPrefix(b, Bytes(0 + 1))
  BY <1>0, <1>1, NextItem
<1>3. 0 + 1 = 1
  OBVIOUS
<1>4. b[1][1] = 1 /\ 1 \in 1..N
  BY <1>2, <1>3
<1>5. Size(1) \in Nat /\ Item(1).head \in Nat /\ Item(1).head <= Size(1)
  BY <1>4, Planned
<1>6. /\ Item(1).head > 0
      /\ Item(1).kind \in {"sized", "chunked", "head", "bad"} \/ N = 1
  <2>1. plan.script # <<>>
    BY <1>4, EmptySeq DEF N
  <2> QED  BY <2>1, PlansAssumption DEF Item, N
<1>7. N = 1 => Len(b) <= Size(1)
  <2> SUFFICES ASSUME N = 1 PROVE Len(b) <= Size(1)
    OBVIOUS
  <2>1. U(1) = U(0) + Size(1) /\ U(0) = 0
    <3>1. 1 \in 0..N /\ 1 > 0 /\ 1 - 1 = 0
      BY <1>4
    <3>2. Sizes \in Seq(Nat)
      BY Planned
    <3> QED  BY <3>1, <3>2, ItemEnds, PiecesNone DEF U
  <2>2. Len(Sent) = Len(b) + Len(r) /\ Len(b) \in Nat /\ Len(r) \in Nat
    BY ConcatProperties, LenProperties
  <2>3. Len(Sent) <= U(1)
    BY SentIs
  <2> QED  BY <1>5, <2>1, <2>2, <2>3
<1>8. Kind(b) = Item(1).kind
  BY <1>4 DEF Kind
<1>9. Item(1).head \in 1..Size(1) /\ Len(b) \in Nat
  BY <1>5, <1>6, LenProperties
<1> QED  BY <1>2, <1>3, <1>4, <1>5, <1>6, <1>7, <1>8, <1>9

\* A beginning with the header in it is of its kind.
LEMMA HeaderCut ==
  ASSUME plan \in Plans, 1 \in 1..N, Item(1).head > 0,
         NEW t \in Seq(Byte), IsPrefix(t, Bytes(1)), Len(t) >= Item(1).head
  PROVE  HeaderIn(t) /\ Kind(t) = Item(1).kind
<1>1. Item(1).head \in Nat /\ Size(1) \in Nat /\ Size(1) > 0
  BY Planned
<1>2. Len(t) \in Nat /\ Len(t) > 0
  BY <1>1, LenProperties
<1>3. t # <<>>
  BY <1>2, EmptySeq
<1>4. /\ Bytes(1) \in Seq(Numbered) /\ \A k \in 1..Size(1) : Bytes(1)[k] = <<1, k>>
  <2>1. /\ Sizes \in Seq(Nat) /\ Len(Sizes) = N /\ Sizes[1] = Size(1)
        /\ Bytes(1) = Piece(Sizes, 1)
    BY Planned
  <2> QED  BY <2>1, PieceType
<1>5. t[1][1] = 1
  <2>1. t \in Seq(Numbered)
    <3>1. \A i \in 1..Len(t) : t[i] \in Byte
      BY ElementOfSeq
    <3>2. Byte \subseteq Numbered
      <4> SUFFICES ASSUME NEW i \in DOMAIN plan.script, NEW k \in 1..Size(i)
                   PROVE  <<i, k>> \in Numbered
        BY DEF Byte
      <4>1. i \in 1..N
        BY Planned
      <4> QED  BY <4>1, Planned DEF Numbered
    <3> QED  BY <3>1, <3>2, OfElements
  <2>2. \A i \in 1..Len(t) : t[i] = Bytes(1)[i]
    BY <1>4, <2>1, PrefixAt
  <2>3. t[1] = Bytes(1)[1] /\ Bytes(1)[1] = <<1, 1>>
    BY <1>1, <1>2, <1>4, <2>2
  <2> QED  BY <2>3
<1> QED  BY <1>3, <1>5 DEF HeaderIn, Kind

\* What the header of a response, or its own end, ends.
LEMMA EndsAnswer ==
  ASSUME plan \in Plans, plan.job = "backend", NEW b \in Seq(Byte), NEW r \in Seq(Byte),
         b \o r = Sent, Ends(b)
  PROVE  Answer(ResponseOf(b), FALSE)
<1>1. b # <<>>
  BY DEF Ends, Complete, HeaderIn
<1>2. /\ 1 \in 1..N /\ b[1][1] = 1 /\ Bytes(1) \in Seq(Byte) /\ Len(Bytes(1)) = Size(1)
      /\ Size(1) \in Nat /\ Item(1).head \in 1..Size(1) /\ Len(b) \in Nat
      /\ Len(b) >= Size(1) => SubSeq(b, 1, Size(1)) = Bytes(1)
      /\ Len(b) <= Size(1) => IsPrefix(b, Bytes(1))
  BY <1>1, ResponseBegins
<1>3. CASE Kind(b) = "head"
  <2>1. Len(b) >= Item(1).head
    BY <1>2, <1>3 DEF Ends, HeaderIn, Complete
  <2> DEFINE h == Item(1).head
             t == SubSeq(b, 1, h)
  <2>2. ResponseOf(b) = t
    BY <1>2, <1>3 DEF ResponseOf
  <2>3. h \in 0..Len(b)
    BY <1>2, <2>1
  <2>4. t \in Seq(Byte) /\ Len(t) = h
    <3> HIDE DEF h
    <3> QED  BY <2>3, CutAt
  <2>5. IsPrefix(t, Bytes(1))
    <3>1. CASE Len(b) <= Size(1)
      <4>1. IsPrefix(b, Bytes(1))
        BY <1>2, <3>1
      <4> HIDE DEF h
      <4> QED  BY <1>2, <2>3, <4>1, PrefixCut
    <3>2. CASE Len(b) >= Size(1)
      <4> DEFINE s == Bytes(1)
      <4>1. SubSeq(b, 1, Size(1)) = s /\ s \in Seq(Byte) /\ Len(s) = Size(1)
        BY <1>2, <3>2
      <4>2. IsPrefix(SubSeq(b, 1, Size(1)), b)
        <5>1. IsPrefix(b, b)
          BY DEF IsPrefix
        <5>2. Size(1) \in 0..Len(b)
          BY <1>2, <3>2
        <5> QED  BY <5>1, <5>2, PrefixCut
      <4> HIDE DEF s
      <4>3. IsPrefix(s, b)
        BY <4>1, <4>2
      <4>4. \A i \in 1..Size(1) : s[i] = b[i]
        BY <4>1, <4>3, PrefixAt
      <4>5. SubSeq(b, 1, h) = SubSeq(s, 1, h)
        <5>1. h \in Nat /\ h <= Len(b) /\ h <= Len(s) /\ \A i \in 1..h : b[i] = s[i]
          BY <1>2, <2>3, <4>1, <4>4
        <5> HIDE DEF h
        <5> QED  BY <4>1, <5>1, PrefixOfPrefix
      <4>6. IsPrefix(SubSeq(s, 1, h), s)
        <5>1. IsPrefix(s, s)
          BY DEF IsPrefix
        <5>2. h \in 0..Len(s)
          BY <1>2, <4>1
        <5> HIDE DEF h
        <5> QED  BY <4>1, <5>1, <5>2, PrefixCut
      <4> QED  BY <4>5, <4>6 DEF s
    <3> QED  BY <1>2, <3>1, <3>2
  <2>6. HeaderIn(t) /\ Kind(t) = "head"
    <3>1. Kind(b) = Item(1).kind
      BY <1>2 DEF Kind
    <3> HIDE DEF t
    <3> QED  BY <1>2, <1>3, <2>4, <2>5, <3>1, HeaderCut
  <2> QED  BY <2>2, <2>4, <2>5, <2>6 DEF Answer
<1>4. CASE Kind(b) # "head"
  <2>1. Complete(b)
    BY <1>4 DEF Ends
  <2>2. ResponseOf(b) = Bytes(1)
    <3>1. FrameLen(b) = Size(1)
      BY <1>2, <2>1, FrameIs
    <3>2. Len(b) >= Size(1)
      BY <1>2, <2>1 DEF Complete
    <3> QED  BY <1>2, <1>4, <3>1, <3>2 DEF ResponseOf, Frame
  <2>3. IsPrefix(Bytes(1), Bytes(1))
    BY DEF IsPrefix
  <2>4. HeaderIn(Bytes(1))
    <3> DEFINE t == Bytes(1)
    <3>1. t \in Seq(Byte) /\ Len(t) >= Item(1).head /\ Item(1).head > 0 /\ 1 \in 1..N
      BY <1>2
    <3> QED  BY <2>3, <3>1, HeaderCut
  <2> QED  BY <2>2, <2>3, <2>4 DEF Answer
<1> QED  BY <1>3, <1>4

\* What the end of the connection makes a response.
LEMMA CutAnswer ==
  ASSUME plan \in Plans, plan.job = "backend", NEW b \in Seq(Byte), NEW r \in Seq(Byte),
         b \o r = Sent, HeaderIn(b), Unended(b)
  PROVE  Answer(IF Kind(b) \in {"chunked", "bad"} THEN SubSeq(b, 1, Item(b[1][1]).head) ELSE b,
                TRUE)
<1>1. b # <<>>
  BY DEF HeaderIn
<1>2. /\ 1 \in 1..N /\ b[1][1] = 1 /\ Bytes(1) \in Seq(Byte) /\ Len(Bytes(1)) = Size(1)
      /\ Size(1) \in Nat /\ Item(1).head \in 1..Size(1) /\ Len(b) \in Nat
      /\ Len(b) <= Size(1) => IsPrefix(b, Bytes(1))
      /\ Kind(b) \in {"sized", "chunked", "head", "bad"} \/ Len(b) <= Size(1)
  BY <1>1, ResponseBegins
<1>3. Len(b) <= Size(1)
  <2>1. Kind(b) \in {"sized", "chunked", "head", "bad"} => ~Complete(b)
    BY DEF Unended, Ends
  <2> QED  BY <1>1, <1>2, <2>1 DEF Complete
<1>4. IsPrefix(b, Bytes(1)) /\ Len(b) >= Item(1).head
  BY <1>2, <1>3 DEF HeaderIn
<1> DEFINE h == Item(1).head
           t == SubSeq(b, 1, h)
<1>5. h \in 0..Len(b)
  BY <1>2, <1>4
<1>6. t \in Seq(Byte) /\ Len(t) = h /\ IsPrefix(t, Bytes(1))
  <2> HIDE DEF h
  <2> QED  BY <1>2, <1>4, <1>5, CutAt, PrefixCut
<1>7. HeaderIn(t)
  <2> HIDE DEF t
  <2> QED  BY <1>2, <1>6, HeaderCut
<1>8. Answer(b, TRUE) /\ Answer(t, TRUE)
  BY <1>4, <1>6, <1>7 DEF Answer
<1> QED  BY <1>2, <1>8

\* The handler of the backend returns nothing but what it was sent.
LEMMA BackendAnswers ==
  ASSUME Control, IInv, Streams, Summed, Answering, BackendNext
  PROVE  Answering'
<1>0. /\ plan \in Plans /\ Reader = "response" /\ UNCHANGED plan /\ plan.job = "backend"
      /\ Turn /\ tail = <<>> /\ at \in {"gap", "asking", "reading"} /\ taken = <<>>
      /\ at \in {"asking", "reading"} => Unended(buf)
      /\ at = "gap" => buf = <<>>
      /\ buf \in Seq(Byte) /\ stream \in Seq(Byte)
  <2>1. at \in {"gap", "asking", "reading"}
    BY DEF BackendNext, ConnectBackend, ConnectFails, RequestWritten, RequestFails, ReadResponse,
           BackendEndHeard, BackendCloses, BackendResets
  <2>2. Reader = "response" /\ UNCHANGED plan
    BY BackendLeft
  <2>3. Turn /\ plan \in Plans /\ plan.job = "backend"
    BY <2>2, ReaderTable, Planned DEF Control, ControlTypes
  <2> QED  BY <2>1, <2>2, <2>3 DEF Turn, Answering, IInv, Between, Streams
<1>1. ~closed => buf \o stream = Sent
  <2> SUFFICES ASSUME ~closed PROVE buf \o stream = Sent
    OBVIOUS
  <2>1. taken \o Left = Sent
    BY <1>0 DEF Summed
  <2>2. Left = buf \o stream
    BY <1>0, EmptySeqs DEF Left
  <2>3. Left \in Seq(Byte)
    BY <1>0, <2>2, EmptySeqs
  <2>4. <<>> \o Left = Left
    BY <2>3, EmptySeqs
  <2> QED  BY <1>0, <2>1, <2>2, <2>4
<1>2. Unended(<<>>)
  BY DEF Unended, Ends, Complete, HeaderIn
<1>3. CASE ConnectBackend
  <2>1. at' = "asking" /\ taken' = <<>> /\ buf' = <<>>
    BY <1>0, <1>3 DEF ConnectBackend
  <2> QED  BY <1>0, <1>2, <2>1, AnsweringIf
<1>4. CASE ConnectFails \/ RequestFails \/ BackendResets
  <2>1. at' \notin {"returned", "asking", "reading"} /\ taken' = <<>>
    BY <1>0, <1>4 DEF ConnectFails, RequestFails, BackendResets, Finish
  <2> QED  BY <1>0, <2>1, AnsweringIf
<1>5. CASE RequestWritten
  <2>1. at' = "reading" /\ taken' = <<>> /\ buf' = buf /\ Unended(buf)
    BY <1>0, <1>5 DEF RequestWritten
  <2> QED  BY <1>0, <2>1, AnsweringIf
<1>6. ASSUME ResponseEnds, ~closed, end' = "heard", at = "reading"
      PROVE  Answering'
  <2>1. CASE HeaderIn(buf)
    <3> DEFINE t == IF Kind(buf) \in {"chunked", "bad"}
                    THEN SubSeq(buf, 1, Item(buf[1][1]).head) ELSE buf
    <3>1. Answer(t, TRUE)
      BY <1>0, <1>1, <1>6, <2>1, CutAnswer
    <3>2. at' = "returned" /\ taken' = t
      BY <1>6, <2>1 DEF ResponseEnds, Return
    <3> HIDE DEF t
    <3>3. Answer(t, end' = "heard")
      BY <1>6, <3>1 DEF Answer
    <3> QED  BY <1>0, <3>2, <3>3, AnsweringIf
  <2>2. CASE ~HeaderIn(buf)
    <3>1. at' = "done" /\ taken' = <<>>
      BY <1>0, <1>6, <2>2 DEF ResponseEnds, Finish
    <3> QED  BY <1>0, <3>1, AnsweringIf
  <2> QED  BY <2>1, <2>2
<1>7. CASE BackendEndHeard
  <2>1. CASE at = "reading"
    BY <1>6, <1>7, <2>1 DEF BackendEndHeard, EndDue
  <2>2. CASE at # "reading"
    <3>1. at' = "asking" /\ taken' = <<>> /\ buf' = buf /\ Unended(buf)
      BY <1>0, <1>7, <2>2 DEF BackendEndHeard
    <3> QED  BY <1>0, <3>1, AnsweringIf
  <2> QED  BY <2>1, <2>2
<1>8. CASE BackendCloses
  BY <1>6, <1>8 DEF BackendCloses
<1>9. ASSUME NEW n \in 1..Len(stream), ReadResponse(n)
      PROVE  Answering'
  <2> DEFINE x == Chunk(n)
             y == Rest(n)
             b == buf \o Chunk(n)
  <2>0. ~closed /\ at = "reading"
    BY <1>9 DEF ReadResponse
  <2>1. x \in Seq(Byte) /\ y \in Seq(Byte) /\ x \o y = stream
    BY <1>0, ChunkIs
  <2>2. b \in Seq(Byte) /\ b \o y = Sent
    <3>1. b = buf \o x
      OBVIOUS
    <3> HIDE DEF x, y, b
    <3>2. (buf \o x) \o y = buf \o (x \o y) /\ buf \o x \in Seq(Byte)
      <4>1. buf \in Seq(Byte) /\ x \in Seq(Byte) /\ y \in Seq(Byte)
        BY <1>0, <2>1
      <4>2. (buf \o x) \o y = buf \o (x \o y)
        BY ONLY <4>1, Concat
      <4> QED  BY <4>1, <4>2, EmptySeqs
    <3> QED  BY <1>1, <2>0, <2>1, <3>1, <3>2
  <2>3. CASE Ends(b) /\ at' = "returned" /\ taken' = ResponseOf(b)
    <3> HIDE DEF b, y
    <3>1. Answer(ResponseOf(b), FALSE)
      BY <1>0, <2>1, <2>2, <2>3, EndsAnswer DEF y
    <3>2. Answer(ResponseOf(b), end' = "heard")
      BY <3>1 DEF Answer
    <3> QED  BY <1>0, <2>3, <3>2, AnsweringIf
  <2>4. CASE at' = "done" /\ taken' = <<>>
    BY <1>0, <2>4, AnsweringIf
  <2>5. CASE at' = "reading" /\ taken' = <<>> /\ buf' = b /\ Unended(b)
    <3> HIDE DEF b
    <3> QED  BY <1>0, <2>5, AnsweringIf
  <2> QED
    BY <1>0, <1>9, <2>0, <2>3, <2>4, <2>5 DEF ReadResponse, Return, Finish, Unended
<1> QED  BY <1>3, <1>4, <1>5, <1>7, <1>8, <1>9 DEF BackendNext

\* The frame readers have no part in it.
LEMMA FrameAnswers ==
  ASSUME Control, IInv, Answering, FrameNext
  PROVE  Answering'
<1>1. CASE Reader = "response"
  <2>1. UNCHANGED <<plan, step, at, buf, taken>> /\ (end = "heard" => end' = "heard")
    BY <1>1, FrameStill DEF HttpReaders
  <2>2. CASE at = "returned"
    <3>1. Answer(taken, end' = "heard")
      BY <1>1, <2>1, <2>2 DEF Answering, Answer
    <3> QED  BY <2>1, <2>2, <3>1, AnsweringIf
  <2>3. CASE at # "returned"
    BY <1>1, <2>1, <2>3, AnsweringIf DEF Answering
  <2> QED  BY <2>2, <2>3
<1>2. CASE Reader # "response"
  <2>1. Reader' # "response"
    <3>1. CASE UNCHANGED <<plan, step>>
      BY <1>2, <3>1, SameReader
    <3>2. CASE UNCHANGED plan /\ step' = step + 1 /\ Reader \in {"wire", "msg", "tail"}
      BY <3>2, NextReader DEF Control
    <3>3. \/ UNCHANGED <<plan, step>>
          \/ UNCHANGED plan /\ step' = step + 1 /\ Reader \in {"wire", "msg", "tail"}
      BY DEF Control, FrameNext, Install, UseData, HandleUdp, CloseReader, Buffer, ReadMsg,
         ReadTail, ReadWire, ReadBad, ReadData, HandlerReturns, HandlerFails, SendOk, SendFails,
         PeerEnds, EndHeard, SocketCloses, readerVars, Turn
    <3> QED  BY <3>1, <3>2, <3>3
  <2> QED  BY <2>1 DEF Answering
<1> QED  BY <1>1, <1>2

-----------------------------------------------------------------------------
(* All of it.                                                                *)

WholeInv == TInv /\ (TailsKept => Summed /\ Framed /\ Requested /\ Ahead /\ Answering)

LEMMA StartsWhole == ASSUME Init PROVE WholeInv
<1>1. /\ TInv /\ plan \in Plans /\ Left = Sent /\ stream = Sent /\ req = <<>> /\ answered = 0
      /\ taken = <<>> /\ Sent \in Seq(Byte) /\ <<>> \o Sent = Sent /\ at = "gap"
  <2>1. plan \in Plans
    BY DEF Init, FrameInit
  <2>2. Sent \in Seq(Byte)
    BY <2>1, SentIs
  <2> QED  BY <2>1, <2>2, StartsTyped, EmptySeqs DEF Init, FrameInit, Left
<1>2. Reader # "http"
  <2>1. plan.job \in DOMAIN Readers /\ step = 1
    BY <1>1, Planned DEF Init, FrameInit
  <2> QED  BY <2>1 DEF Reader, Readers
<1>3. N \in Nat /\ AllBytes(0) = <<>>
  <2>1. AllBytes(0) = Pieces(Sizes, 0) /\ Sizes \in Seq(Nat) /\ N \in Nat /\ 0 \in 0..N
    BY <1>1, Planned
  <2> QED  BY <2>1, PiecesNone
<1>4. Summed
  BY <1>1, <1>2 DEF Summed
<1>5. Framed
  <2>1. 0 \in 0..N
    BY <1>3
  <2> QED  BY <1>1, <1>3, <2>1 DEF Framed
<1>6. Ahead
  <2> SUFFICES ASSUME answered + 2 <= N PROVE Len(Sent) - Len(stream) <= U(answered + 2)
    BY DEF Ahead
  <2>1. answered + 2 \in 0..N
    BY <1>1, <1>3
  <2>2. U(answered + 2) \in Nat /\ Len(Sent) \in Nat
    BY <1>1, <2>1, ItemEnds, LenProperties
  <2> QED  BY <1>1, <2>2
<1>7. Requested /\ Answering
  BY <1>1 DEF Requested, Answering
<1> QED  BY <1>1, <1>4, <1>5, <1>6, <1>7 DEF WholeInv

LEMMA KeepsWhole == ASSUME WholeInv, [Next]_vars PROVE WholeInv'
<1>0. TInv /\ TInv'
  BY KeepsTypes DEF WholeInv
<1>1. UNCHANGED plan
  BY DEF Next, FrameNext, Install, UseData, HandleUdp, CloseReader, Buffer, ReadMsg, ReadTail,
     ReadWire, ReadBad, ReadData, HandlerReturns, HandlerFails, SendOk, SendFails, PeerEnds,
     EndHeard, SocketCloses, HttpNext, HandleHttp, ReadPending, ReadSocket, HandlerAnswers,
     HandlerThrows, Respond, RespondFails, HttpEndHeard, HttpSocketCloses, BackendNext,
     ConnectBackend, ConnectFails, RequestWritten, RequestFails, ReadResponse,
     BackendEndHeard, BackendCloses, BackendResets, vars, frameVars
<1>2. TailsKept' => TailsKept
  BY <1>1 DEF TailsKept, N, Item
<1>3. SUFFICES ASSUME TailsKept
               PROVE  Summed' /\ Framed' /\ Requested' /\ Ahead' /\ Answering'
  BY <1>0, <1>2 DEF WholeInv
<1>4. /\ Summed /\ Framed /\ Requested /\ Ahead /\ Answering
      /\ Control /\ Control' /\ IInv /\ Streams /\ Streams' /\ Reads /\ Ordered
  BY <1>0, <1>3 DEF WholeInv, TInv
<1>5. CASE FrameNext /\ UNCHANGED httpVars
  <2>1. Summed' /\ Framed'
    BY <1>3, <1>4, <1>5, FrameWhole
  <2>2. Ahead' /\ Answering'
    BY <1>4, <1>5, AheadKeeps, FrameAnswers
  <2>3. Requested'
    <3>1. CASE Reader = "http"
      <4>1. UNCHANGED <<closed, req, answered>> /\ (end = "heard" => end' = "heard")
        BY <1>4, <1>5, <3>1, FrameStill DEF httpVars, HttpReaders
      <4>2. Bytes(answered + 2)' = Bytes(answered + 2)
        BY <1>1, <4>1 DEF Bytes, Size, Item
      <4> QED  BY <1>4, <4>1, <4>2 DEF Requested
    <3>2. CASE Reader # "http"
      BY <1>4, <1>5, <3>2 DEF Requested, Streams, IInv, Served, httpVars
    <3> QED  BY <3>1, <3>2
  <2> QED  BY <2>1, <2>2, <2>3
<1>6. CASE BackendNext /\ UNCHANGED httpVars
  <2>1. /\ Reader = "response" /\ Reader' = "response" /\ UNCHANGED <<plan, req>>
        /\ closed' \/ (Left' = Left /\ UNCHANGED taken)
        /\ closed => closed'
    BY <1>4, <1>6, BackendLeft, SameReader, ClosedStays DEF httpVars
  <2>2. Summed' /\ Framed'
    BY <1>4, <2>1, SameBytes DEF Summed, Framed, FrameReaders
  <2>3. Requested'
    BY <1>4, <2>1 DEF Requested, Streams, IInv, Served
  <2>4. Ahead'
    <3>1. plan.job = "backend"
      BY <1>4, <2>1, ReaderTable, Planned DEF Control, ControlTypes
    <3> QED  BY <2>1, <3>1 DEF Ahead
  <2>5. Answering'
    BY <1>4, <1>6, BackendAnswers
  <2> QED  BY <2>2, <2>3, <2>4, <2>5
<1>7. CASE HttpNext
  <2>1. Ahead'
    BY <1>4, <1>7, AheadKeeps
  <2>2. Summed' /\ Framed' /\ Requested'
    BY <1>3, <1>4, <1>7, <2>1, HttpWhole
  <2>3. Answering'
    <3>1. Reader = "http" /\ UNCHANGED <<plan, step>>
      BY <1>4, <1>7 DEF HttpNext, HandleHttp, ReadPending, ReadSocket, HandlerAnswers,
         HandlerThrows, Respond, RespondFails, HttpEndHeard, HttpSocketCloses, Serving,
         Waiting, IInv, Served
    <3> QED  BY <3>1, SameReader DEF Answering
  <2> QED  BY <2>1, <2>2, <2>3
<1>8. CASE UNCHANGED vars
  <2>1. UNCHANGED <<plan, step, end, closed, at, req, answered, taken, stream, buf, tail>>
    BY <1>8 DEF vars, frameVars, socketVars, readerVars, httpVars
  <2>2. Reader' = Reader /\ Left' = Left /\ Done' = Done /\ Sent' = Sent /\ N' = N
    BY <2>1, SameReader, SameBytes DEF Left, Done
  <2>3. \A m : AllBytes(m)' = AllBytes(m) /\ Bytes(m)' = Bytes(m) /\ U(m)' = U(m)
    BY <2>1, SameBytes
  <2>4. Summed' /\ Framed'
    BY <1>4, <2>1, <2>2, <2>3 DEF Summed, Framed, AllBytes, Bytes, Size, Item
  <2>5. Requested' /\ Ahead'
    BY <1>4, <2>1, <2>2, <2>3 DEF Requested, Ahead, Bytes, Size, Item, U, Sizes, N
  <2>6. Answering'
    BY <1>4, <2>1, <2>2 DEF Answering, Answer, Unended, Ends, Complete, HeaderIn, Kind, Bytes,
       Size, Item
  <2> QED  BY <2>4, <2>5, <2>6
<1> QED  BY <1>5, <1>6, <1>7, <1>8 DEF Next

\* The invariant of the two theorems holds in every state.
LEMMA AlwaysWhole == Spec => []WholeInv
<1>1. Init => WholeInv
  BY StartsWhole
<1>2. WholeInv /\ [Next]_vars => WholeInv'
  BY KeepsWhole
<1> QED  BY <1>1, <1>2, PTL DEF Spec

\* However the bytes are cut, each is used, read, handed on or still to come, in
\* the order they were sent, as long as the connection lives; but for a tail that
\* handleUdp is not given, and for what a client that pipelines has sent behind a
\* request without a body.
THEOREM AllKept == Spec => [](TailsKept => NothingLost)
<1>1. WholeInv => (TailsKept => NothingLost)
  <2> SUFFICES ASSUME WholeInv, TailsKept, ~closed, end # "heard"
               PROVE  taken \o buf \o tail \o stream = Sent
    BY DEF NothingLost
  <2>1. /\ taken \in Seq(Byte) /\ buf \in Seq(Byte) /\ tail \in Seq(Byte)
        /\ stream \in Seq(Byte)
    BY DEF WholeInv, TInv, Streams
  <2>2. taken \o (buf \o (tail \o stream)) = Sent
    BY DEF WholeInv, Summed, Left
  <2> DEFINE x == tail \o stream
             y == taken \o buf
  <2>3. x \in Seq(Byte) /\ y \in Seq(Byte)
    BY <2>1, EmptySeqs
  <2>4. (y \o tail) \o stream = y \o x
    <3> HIDE DEF y
    <3>1. y \in Seq(Byte) /\ tail \in Seq(Byte) /\ stream \in Seq(Byte)
      BY <2>1, <2>3
    <3>2. (y \o tail) \o stream = y \o (tail \o stream)
      BY ONLY <3>1, Concat
    <3> QED  BY <3>2
  <2>5. y \o x = taken \o (buf \o x)
    <3> HIDE DEF x
    <3>1. taken \in Seq(Byte) /\ buf \in Seq(Byte) /\ x \in Seq(Byte)
      BY <2>1, <2>3
    <3>2. (taken \o buf) \o x = taken \o (buf \o x)
      BY ONLY <3>1, Concat
    <3> QED  BY <3>2
  <2> QED  BY <2>2, <2>4, <2>5
<1> QED  BY <1>1, AlwaysWhole, PTL

\* What a reader hands out is whole messages, the requests that are served are
\* those that were sent, in order and complete unless the connection ended, and
\* the handler of a backend returns the response it was sent.
THEOREM AllWhole == Spec => [](TailsKept => MessagesWhole)
<1>1. WholeInv => (TailsKept => MessagesWhole)
  <2> SUFFICES ASSUME WholeInv, TailsKept PROVE MessagesWhole
    OBVIOUS
  <2>1. /\ Summed /\ Framed /\ Requested /\ Answering /\ Ordered /\ Control
        /\ plan \in Plans
    BY DEF WholeInv, TInv, Control, ControlTypes
  <2>2. ASSUME Reader \notin {"data", "response"}, req = <<>>, end # "heard", ~closed
        PROVE  \E n \in 0..Len(plan.script) : taken = AllBytes(n)
    <3>1. CASE Reader = "http"
      <4>1. Done \in 0..N
        BY <2>1, <3>1, Planned DEF Ordered, Done
      <4>2. taken = AllBytes(Done)
        BY <2>1, <2>2, <3>1 DEF Summed
      <4> QED  BY <4>1, <4>2 DEF N
    <3>2. CASE Reader # "http"
      <4>1. Reader \in FrameReaders
        BY <2>1, <2>2, <3>2, ReaderTable, Planned DEF Control, ControlTypes, HttpReaders
      <4> QED  BY <2>1, <4>1 DEF Framed, N
    <3> QED  BY <3>1, <3>2
  <2>3. ResponseWhole
    BY <2>1 DEF ResponseWhole, Answering, Answer, Asking
  <2> QED  BY <2>1, <2>2, <2>3 DEF MessagesWhole, Requested
<1> QED  BY <1>1, AlwaysWhole, PTL
=============================================================================
