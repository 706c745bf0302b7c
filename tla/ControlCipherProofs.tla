------------------------- MODULE ControlCipherProofs -------------------------
(***************************************************************************)
(* What the two ends of an encrypted control connection make of the calls  *)
(* of write(), for any number of messages and parts, whatever the cuts of  *)
(* the bytes, and whatever fails: a callback tells the truth, and the      *)
(* reader gets a prefix of what was written.                               *)
(***************************************************************************)
EXTENDS ControlCipher, SequenceFacts

N == Len(plan.parts)
Part == Nat \X Nat
Upto(n) == Len(Written(n))
All == Written(N)

PlanOK == plan \in [aead : BOOLEAN, sameKey : BOOLEAN, parts : Seq(Nat \ {0})]

LEMMA PlanType ==
    ASSUME PlanOK
    PROVE  N \in Nat /\ \A m \in 1..N : plan.parts[m] \in Nat \ {0}
BY DEF PlanOK, N
-----------------------------------------------------------------------------
(* What is written, message after message.                                   *)

LEMMA PartsType ==
    ASSUME PlanOK, NEW m \in 1..N
    PROVE  /\ Parts(m) \in Seq(Part) /\ Len(Parts(m)) = plan.parts[m]
           /\ \A p \in 1..plan.parts[m] : Parts(m)[p] = <<m, p>>
<1>1. plan.parts[m] \in Nat /\ m \in Nat
  BY PlanType
<1>2. \A p \in 1..plan.parts[m] : <<m, p>> \in Part
  BY <1>1 DEF Part
<1> QED  BY <1>1, <1>2, IsASeq DEF Parts

LEMMA WrittenStep ==
    ASSUME PlanOK, NEW n \in Nat, n < N
    PROVE  /\ Written(n) \in Seq(Part)
           /\ Written(n + 1) \in Seq(Part)
           /\ Written(n + 1) = Written(n) \o Parts(n + 1)
<1> DEFINE s == [m \in 1..(n + 1) |-> Parts(m)]
           t == [m \in 1..n |-> Parts(m)]
<1>1. N \in Nat /\ \A m \in 1..(n + 1) : m \in 1..N
  BY PlanType
<1>2. \A m \in 1..(n + 1) : Parts(m) \in Seq(Part)
  BY <1>1, PartsType
<1>3. s \in Seq(Seq(Part)) /\ Len(s) = n + 1 /\ t \in Seq(Seq(Part)) /\ Len(t) = n
  BY <1>2
<1>4. (\A m \in 1..n : t[m] = s[m]) /\ s[n + 1] = Parts(n + 1)
  OBVIOUS
<1> HIDE DEF s, t
<1>5. FlattenSeq(s) = FlattenSeq(t) \o Parts(n + 1)
  BY <1>3, <1>4, FlattenStep
<1>6. FlattenSeq(s) \in Seq(Part) /\ FlattenSeq(t) \in Seq(Part)
  BY <1>3, FlattenType
<1> QED  BY <1>5, <1>6 DEF Written, s, t

LEMMA WrittenNone == Written(0) = <<>> /\ Upto(0) = 0
<1> DEFINE s == [m \in 1..0 |-> Parts(m)]
<1>1. s = <<>> /\ s \in Seq(Seq(Part))
  OBVIOUS
<1> HIDE DEF s
<1>2. FlattenSeq(s) = <<>>
  BY <1>1, FlattenType
<1> QED  BY <1>2, EmptySeq DEF Written, Upto, s

LEMMA WrittenType ==
    ASSUME PlanOK, NEW n \in 0..N
    PROVE  Written(n) \in Seq(Part) /\ Upto(n) \in Nat
<1>1. Written(n) \in Seq(Part)
  <2>1. CASE n = 0
    BY <2>1, WrittenNone, EmptySeq
  <2>2. CASE n # 0
    <3>1. n - 1 \in Nat /\ n - 1 < N /\ (n - 1) + 1 = n
      BY <2>2, PlanType
    <3> QED  BY <3>1, WrittenStep
  <2> QED  BY <2>1, <2>2
<1> QED  BY <1>1 DEF Upto

\* A message goes behind the ones before it.
LEMMA UptoStep ==
    ASSUME PlanOK, NEW n \in Nat, n < N
    PROVE  /\ Upto(n) \in Nat /\ Upto(n + 1) = Upto(n) + plan.parts[n + 1]
           /\ \A i \in 1..Upto(n) : Written(n + 1)[i] = Written(n)[i]
           /\ \A p \in 1..plan.parts[n + 1] :
                Written(n + 1)[Upto(n) + p] = <<n + 1, p>>
<1>1. n + 1 \in 1..N /\ plan.parts[n + 1] \in Nat
  BY PlanType
<1>2. /\ Parts(n + 1) \in Seq(Part) /\ Len(Parts(n + 1)) = plan.parts[n + 1]
      /\ \A p \in 1..plan.parts[n + 1] : Parts(n + 1)[p] = <<n + 1, p>>
  BY <1>1, PartsType
<1>3. Written(n) \in Seq(Part) /\ Written(n + 1) = Written(n) \o Parts(n + 1)
  BY WrittenStep
<1> DEFINE w == Written(n)
           v == Parts(n + 1)
           k == plan.parts[n + 1]
<1> HIDE DEF w, v, k
<1>w. w \in Seq(Part) /\ v \in Seq(Part) /\ Len(v) = k /\ Len(w) \in Nat
  BY <1>2, <1>3 DEF w, v, k
<1>4. /\ Len(w \o v) = Len(w) + k /\ Len(w) \in Nat
      /\ \A i \in 1..(Len(w) + k) :
           (w \o v)[i] = IF i <= Len(w) THEN w[i] ELSE v[i - Len(w)]
  BY <1>w, ConcatProperties
<1>5. k \in Nat /\ \A p \in 1..k : v[p] = <<n + 1, p>>
  BY <1>1, <1>2 DEF k, v
<1>6. \A p \in 1..k : (w \o v)[Len(w) + p] = <<n + 1, p>>
  <2> TAKE p \in 1..k
  <2>1. Len(w) + p \in 1..(Len(w) + k) /\ ~(Len(w) + p <= Len(w))
        /\ (Len(w) + p) - Len(w) = p
    BY <1>4, <1>5
  <2> QED  BY <1>4, <1>5, <2>1
<1>7. \A i \in 1..Len(w) : (w \o v)[i] = w[i]
  BY <1>4, <1>5
<1> QED  BY <1>3, <1>4, <1>6, <1>7 DEF Upto, w, v, k

\* The first messages are the beginning of what is written.
LEMMA Earlier ==
    ASSUME PlanOK, NEW n \in 0..N, NEW m \in 0..N, n <= m
    PROVE  Upto(n) <= Upto(m) /\ \A i \in 1..Upto(n) : Written(m)[i] = Written(n)[i]
<1> DEFINE Begins(k) ==
             /\ Upto(n) <= Upto(n + k)
             /\ \A i \in 1..Upto(n) : Written(n + k)[i] = Written(n)[i]
           P == {k \in Nat : n + k <= N => Begins(k)}
<1>1. N \in Nat /\ Upto(n) \in Nat
  BY PlanType, WrittenType
<1>2. 0 \in P
  BY <1>1
<1>3. ASSUME NEW k \in Nat, k \in P PROVE k + 1 \in P
  <2> SUFFICES ASSUME n + (k + 1) <= N PROVE Begins(k + 1)
    OBVIOUS
  <2>1. n + k \in Nat /\ n + k < N /\ (n + k) + 1 = n + (k + 1) /\ Begins(k)
    BY <1>1, <1>3
  <2>2. plan.parts[(n + k) + 1] \in Nat
    BY <2>1, PlanType
  <2>3. /\ Upto(n + k) \in Nat
        /\ Upto((n + k) + 1) = Upto(n + k) + plan.parts[(n + k) + 1]
        /\ \A i \in 1..Upto(n + k) : Written((n + k) + 1)[i] = Written(n + k)[i]
    BY <2>1, UptoStep
  <2>4. Upto(n) <= Upto((n + k) + 1)
    BY <1>1, <2>1, <2>2, <2>3
  <2>5. \A i \in 1..Upto(n) : Written((n + k) + 1)[i] = Written(n)[i]
    BY <1>1, <2>1, <2>3
  <2> QED  BY <2>1, <2>4, <2>5
<1> HIDE DEF P
<1>4. m - n \in Nat /\ m - n \in P
  BY <1>1, <1>2, <1>3, Induction
<1>5. n + (m - n) = m /\ m <= N
  BY <1>1
<1> QED  BY <1>4, <1>5 DEF P

LEMMA AllAt ==
    ASSUME PlanOK, NEW m \in 1..N, NEW p \in 1..plan.parts[m]
    PROVE  All[Upto(m - 1) + p] = <<m, p>>
<1>1. m - 1 \in Nat /\ m - 1 < N /\ (m - 1) + 1 = m /\ m \in 0..N /\ N \in 0..N /\ m <= N
  BY PlanType
<1>2. /\ Upto(m - 1) \in Nat /\ Upto(m) = Upto(m - 1) + plan.parts[m]
      /\ Written(m)[Upto(m - 1) + p] = <<m, p>>
  BY <1>1, UptoStep
<1>3. Upto(m - 1) + p \in 1..Upto(m)
  BY <1>2, PlanType
<1> QED  BY <1>1, <1>2, <1>3, Earlier DEF All

\* No part of a message is among those of the messages before it.
LEMMA Owner ==
    ASSUME PlanOK, NEW n \in 0..N
    PROVE  \A i \in 1..Upto(n) : All[i][1] <= n
<1> DEFINE Owned(k) == \A i \in 1..Upto(k) : Written(k)[i][1] <= k
           P == {k \in Nat : k <= N => Owned(k)}
<1>1. N \in Nat
  BY PlanType
<1>2. 0 \in P
  BY WrittenNone
<1>3. ASSUME NEW k \in Nat, k \in P PROVE k + 1 \in P
  <2> SUFFICES ASSUME k + 1 <= N, NEW i \in 1..Upto(k + 1)
               PROVE  Written(k + 1)[i][1] <= k + 1
    OBVIOUS
  <2>1. k < N /\ Owned(k) /\ plan.parts[k + 1] \in Nat /\ k \in 0..N
    BY <1>1, <1>3, PlanType
  <2>2. /\ Upto(k) \in Nat /\ Upto(k + 1) = Upto(k) + plan.parts[k + 1]
        /\ \A j \in 1..Upto(k) : Written(k + 1)[j] = Written(k)[j]
        /\ \A p \in 1..plan.parts[k + 1] :
             Written(k + 1)[Upto(k) + p] = <<k + 1, p>>
    BY <2>1, UptoStep
  <2>3. CASE i <= Upto(k)
    <3>1. Written(k) \in Seq(Part) /\ i \in 1..Len(Written(k))
      BY <2>1, <2>2, <2>3, WrittenType DEF Upto
    <3>2. Written(k)[i] \in Part
      BY <3>1
    <3>3. Written(k)[i][1] \in Nat
      BY <3>2 DEF Part
    <3>4. Written(k + 1)[i] = Written(k)[i] /\ Written(k)[i][1] <= k
      BY <2>1, <2>2, <2>3
    <3> QED  BY <3>3, <3>4
  <2>4. CASE ~(i <= Upto(k))
    <3> DEFINE p == i - Upto(k)
    <3>1. p \in 1..plan.parts[k + 1] /\ i = Upto(k) + p
      BY <2>1, <2>2, <2>4
    <3> HIDE DEF p
    <3>2. Written(k + 1)[i] = <<k + 1, p>>
      BY <2>2, <3>1
    <3> QED  BY <3>2
  <2> QED  BY <2>3, <2>4
<1> HIDE DEF P
<1>4. n \in P
  BY <1>2, <1>3, Induction
<1>5. Owned(n)
  BY <1>1, <1>4 DEF P
<1>6. N \in 0..N /\ n <= N
  BY <1>1
<1> QED  BY <1>5, <1>6, Earlier DEF All
-----------------------------------------------------------------------------
(* The writer.                                                               *)

Answers == {"ok", "failed"}

\* What is encrypted at once has this many parts.
Size == IF plan.aead THEN 1 ELSE plan.parts[Message]

WriterTypes ==
    /\ PlanOK /\ open \in BOOLEAN /\ failed \in BOOLEAN
    /\ called \in 0..N /\ acks \in Seq(Answers) /\ Len(acks) <= called
    /\ part \in Nat /\ counter \in Nat /\ sent \in Seq(Part)
    /\ link \in {"next", "encrypting", "writing"}

\* One link runs, and where it is in its message.
Running ==
    /\ link # "next" \/ part # 0 => Len(acks) < called /\ ~failed
    /\ Len(acks) < N => part < plan.parts[Message]
    /\ ~plan.aead => part = 0

\* The count goes with what is sent as long as anything can be sent.
Counted == Len(sent) <= counter /\ (open => counter = Len(sent))

SentIs == Len(sent) <= Upto(N) /\ \A i \in 1..Len(sent) : sent[i] = All[i]

\* Before a failure all messages are sent that are acknowledged, and of the
\* next one what comes before part.
Going ==
    ~failed =>
        /\ \A m \in 1..Len(acks) : acks[m] = "ok"
        /\ link # "writing" => Len(sent) = Upto(Len(acks)) + part
        /\ link = "writing" =>
             \/ Len(sent) = Upto(Len(acks)) + part + Size
             \/ Len(sent) = Upto(Len(acks)) + part /\ ~open

\* After a failure nothing is sent, and of what was sent nothing is behind the
\* message m that failed.
StoppedAt(m) ==
    /\ \A i \in 1..Len(acks) : acks[i] = IF i < m THEN "ok" ELSE "failed"
    /\ Upto(m - 1) <= Len(sent) /\ Len(sent) <= Upto(m)
Stopped == failed => \E m \in 1..Len(acks) : StoppedAt(m)

WriterInv == WriterTypes /\ Running /\ Counted /\ SentIs /\ Going /\ Stopped

\* With the plan, all that is said of the plan stays.
LEMMA SamePlan ==
    ASSUME plan' = plan
    PROVE  /\ N' = N /\ PlanOK' = PlanOK /\ All' = All
           /\ \A n : Upto(n)' = Upto(n) /\ Written(n)' = Written(n)
BY DEF N, PlanOK, All, Upto, Written, Parts

LEMMA AcksUpto ==
    ASSUME plan' = plan, NEW n, Len(acks') = n
    PROVE  Upto(Len(acks))' = Upto(n)
BY DEF Upto, Written, Parts

LEMMA WriterInit == Init => WriterInv
<1> SUFFICES ASSUME Init PROVE WriterInv
  OBVIOUS
<1>1. /\ PlanOK /\ open = TRUE /\ called = 0 /\ acks = <<>> /\ part = 0
      /\ link = "next" /\ failed = FALSE /\ counter = 0 /\ sent = <<>>
  BY PlansAssumption DEF Init, PlanOK
<1>2. N \in Nat /\ \A m \in 1..N : plan.parts[m] \in Nat \ {0}
  BY <1>1, PlanType
<1>3. Len(acks) = 0 /\ Len(sent) = 0 /\ Upto(0) = 0 /\ Upto(N) \in Nat
  BY <1>1, <1>2, WrittenNone, WrittenType
<1>4. WriterTypes
  <2>1. acks \in Seq(Answers) /\ sent \in Seq(Part)
    BY <1>1
  <2>2. called \in 0..N /\ Len(acks) <= called /\ part \in Nat /\ counter \in Nat
    BY <1>1, <1>2, <1>3
  <2> QED  BY <1>1, <2>1, <2>2 DEF WriterTypes
<1>5. Running
  BY <1>1, <1>2, <1>3 DEF Running, Message
<1>6. Counted /\ SentIs
  BY <1>1, <1>3 DEF Counted, SentIs
<1>7. Going /\ Stopped
  BY <1>1, <1>3 DEF Going, Stopped
<1> QED  BY <1>4, <1>5, <1>6, <1>7 DEF WriterInv

\* What the reader and the network do leaves the writer alone, but that it may
\* find the socket closed.
LEMMA WriterQuiet ==
    ASSUME WriterInv, plan' = plan, UNCHANGED writeVars,
           open' \in BOOLEAN, open' => open
    PROVE  WriterInv'
<1>1. N' = N /\ PlanOK' = PlanOK /\ All' = All /\ Upto(N)' = Upto(N)
      /\ Upto(Len(acks))' = Upto(Len(acks))
      /\ \A n : Upto(n)' = Upto(n)
  BY SamePlan DEF writeVars
<1>2. open' \in BOOLEAN /\ (open' => open)
  OBVIOUS
<1>3. WriterTypes'
  BY <1>1, <1>2 DEF WriterInv, WriterTypes, writeVars
<1>4. Running'
  BY <1>1 DEF WriterInv, Running, writeVars, Message
<1>5. Counted' /\ SentIs'
  BY <1>1, <1>2 DEF WriterInv, Counted, SentIs, writeVars
<1>6. Going'
  BY <1>1, <1>2 DEF WriterInv, Going, writeVars, Size, Message
<1>7. Stopped'
  BY <1>1 DEF WriterInv, Stopped, StoppedAt, writeVars
<1> QED  BY <1>3, <1>4, <1>5, <1>6, <1>7 DEF WriterInv

LEMMA WriterWrite == WriterInv /\ Write => WriterInv'
<1> SUFFICES ASSUME WriterInv, Write PROVE WriterInv'
  OBVIOUS
<1>1. /\ called < N /\ called' = called + 1
      /\ UNCHANGED <<plan, open, acks, part, link, failed, counter, sent>>
  BY DEF Write, N
<1>2. N' = N /\ PlanOK' = PlanOK /\ All' = All /\ \A n : Upto(n)' = Upto(n)
  BY <1>1, SamePlan
<1>3. WriterTypes
  BY DEF WriterInv
<1>4. N \in Nat /\ called \in Nat /\ Len(acks) \in Nat /\ Len(acks) <= called
  BY <1>3, PlanType DEF WriterTypes
<1>5. called' \in 0..N' /\ Len(acks)' <= called'
  BY <1>1, <1>2, <1>4
<1>6. WriterTypes'
  BY <1>1, <1>2, <1>3, <1>5 DEF WriterTypes
<1>7. Running'
  BY <1>1, <1>2, <1>4 DEF WriterInv, Running, Message
<1>8. Counted' /\ SentIs'
  BY <1>1, <1>2 DEF WriterInv, Counted, SentIs
<1>9. Going' /\ Stopped'
  BY <1>1, <1>2 DEF WriterInv, Going, Stopped, StoppedAt, Size, Message
<1> QED  BY <1>6, <1>7, <1>8, <1>9 DEF WriterInv

LEMMA WriterEncrypt == WriterInv /\ Encrypt => WriterInv'
<1> SUFFICES ASSUME WriterInv, Encrypt PROVE WriterInv'
  OBVIOUS
<1>1. /\ link = "next" /\ Len(acks) < called /\ ~failed /\ link' = "encrypting"
      /\ UNCHANGED <<plan, open, called, acks, part, failed, counter, sent>>
  BY DEF Encrypt
<1>2. N' = N /\ PlanOK' = PlanOK /\ All' = All /\ \A n : Upto(n)' = Upto(n)
  BY <1>1, SamePlan
<1>3. WriterTypes'
  BY <1>1, <1>2 DEF WriterInv, WriterTypes
<1>4. Running'
  BY <1>1, <1>2 DEF WriterInv, Running, Message
<1>5. Counted' /\ SentIs'
  BY <1>1, <1>2 DEF WriterInv, Counted, SentIs
<1>6. Going' /\ Stopped'
  BY <1>1, <1>2 DEF WriterInv, Going, Stopped, StoppedAt, Size, Message
<1> QED  BY <1>3, <1>4, <1>5, <1>6 DEF WriterInv

\* The parts that a link gives to the socket are the next of what is written.
LEMMA UnitIs ==
    ASSUME WriterInv, link # "next"
    PROVE  /\ Len(acks) \in Nat /\ Len(acks) < N /\ Message \in 1..N
           /\ Size \in Nat \ {0} /\ part + Size <= plan.parts[Message]
           /\ Unit \in Seq(Part) /\ Len(Unit) = Size
           /\ \A i \in 1..Size : Unit[i] = <<Message, part + i>>
           /\ Upto(Len(acks)) \in Nat
           /\ Upto(Message) = Upto(Len(acks)) + plan.parts[Message]
<1>1. /\ PlanOK /\ called \in 0..N /\ Len(acks) <= called /\ Len(acks) < called
      /\ part \in Nat /\ acks \in Seq(Answers)
      /\ (Len(acks) < N => part < plan.parts[Message]) /\ (~plan.aead => part = 0)
  BY DEF WriterInv, WriterTypes, Running
<1>2. N \in Nat /\ \A m \in 1..N : plan.parts[m] \in Nat \ {0}
  BY <1>1, PlanType
<1>3. Len(acks) \in Nat /\ Len(acks) < N /\ Message \in 1..N /\ Message = Len(acks) + 1
  BY <1>1, <1>2 DEF Message
<1>4. Size \in Nat \ {0} /\ part + Size <= plan.parts[Message]
  BY <1>1, <1>2, <1>3 DEF Size
<1>5. /\ Parts(Message) \in Seq(Part) /\ Len(Parts(Message)) = plan.parts[Message]
      /\ \A p \in 1..plan.parts[Message] : Parts(Message)[p] = <<Message, p>>
  BY <1>1, <1>3, PartsType
<1>6. Unit \in Seq(Part) /\ Len(Unit) = Size
      /\ \A i \in 1..Size : Unit[i] = <<Message, part + i>>
  <2>1. CASE plan.aead
    <3>1. Unit = <<<<Message, part + 1>>>> /\ Size = 1 /\ <<Message, part + 1>> \in Part
      BY <1>1, <1>3, <2>1 DEF Unit, Size, Part
    <3> QED  BY <3>1
  <2>2. CASE ~plan.aead
    BY <1>1, <1>2, <1>3, <1>5, <2>2 DEF Unit, Size
  <2> QED  BY <2>1, <2>2
<1>7. Upto(Len(acks)) \in Nat /\ Upto(Message) = Upto(Len(acks)) + plan.parts[Message]
  BY <1>1, <1>3, UptoStep
<1> QED  BY <1>3, <1>4, <1>6, <1>7

LEMMA WriterEncrypted == WriterInv /\ Encrypted => WriterInv'
<1> SUFFICES ASSUME WriterInv, Encrypted PROVE WriterInv'
  OBVIOUS
<1>1. /\ link = "encrypting" /\ link' = "writing" /\ counter' = counter + Len(Unit)
      /\ ((open /\ sent' = sent \o Unit) \/ (~open /\ sent' = sent))
      /\ UNCHANGED <<plan, open, called, acks, part, failed>>
  BY DEF Encrypted
<1>2. N' = N /\ PlanOK' = PlanOK /\ All' = All /\ \A n : Upto(n)' = Upto(n)
  BY <1>1, SamePlan
<1>3. WriterTypes /\ Running /\ Counted /\ SentIs /\ Going /\ ~failed
  BY <1>1 DEF WriterInv, Running
<1> DEFINE k == Len(acks)
<1>4. /\ k \in Nat /\ k < N /\ Message \in 1..N /\ Message - 1 = k
      /\ Size \in Nat \ {0} /\ part + Size <= plan.parts[Message]
      /\ Unit \in Seq(Part) /\ Len(Unit) = Size
      /\ \A i \in 1..Size : Unit[i] = <<Message, part + i>>
      /\ Upto(k) \in Nat /\ Upto(Message) = Upto(k) + plan.parts[Message]
  BY <1>1, UnitIs DEF Message
<1>5. /\ Len(sent) = Upto(k) + part /\ sent \in Seq(Part) /\ Len(sent) \in Nat
      /\ part \in Nat /\ counter \in Nat /\ PlanOK
  BY <1>1, <1>3 DEF Going, WriterTypes
<1> HIDE DEF k
<1>6. Message \in 0..N /\ N \in 0..N /\ Message <= N /\ N \in Nat
  BY <1>4, <1>5, PlanType
<1>7. Upto(Message) <= Upto(N) /\ Upto(N) \in Nat /\ plan.parts[Message] \in Nat
  BY <1>4, <1>5, <1>6, Earlier, WrittenType, PlanType
<1>8. /\ sent \o Unit \in Seq(Part) /\ Len(sent \o Unit) = Len(sent) + Size
      /\ \A i \in 1..(Len(sent) + Size) :
           (sent \o Unit)[i] = IF i <= Len(sent) THEN sent[i] ELSE Unit[i - Len(sent)]
  BY <1>4, <1>5, ConcatProperties
<1>9. \A i \in 1..(Len(sent) + Size) : (sent \o Unit)[i] = All[i]
  <2> TAKE i \in 1..(Len(sent) + Size)
  <2>1. CASE i <= Len(sent)
    BY <1>3, <1>5, <1>8, <2>1 DEF SentIs
  <2>2. CASE ~(i <= Len(sent))
    <3> DEFINE j == i - Len(sent)
    <3>0. Size \in Nat /\ Len(sent) \in Nat /\ i \in Nat /\ i <= Len(sent) + Size
      BY <1>4, <1>5
    <3>1. j \in 1..Size /\ i = Len(sent) + j
      BY <2>2, <3>0
    <3>5. part + j \in 1..plan.parts[Message]
      <4> DEFINE pm == plan.parts[Message]
      <4>1. part + Size <= pm /\ pm \in Nat /\ part \in Nat
        BY <1>4, <1>5, <1>7
      <4> HIDE DEF j, pm
      <4>2. part + j \in 1..pm
        BY <3>0, <3>1, <4>1
      <4> QED  BY <4>2 DEF pm
    <3>2. (sent \o Unit)[i] = <<Message, part + j>>
      BY <1>4, <1>8, <2>2, <3>1
    <3> HIDE DEF j
    <3>3. All[Upto(Message - 1) + (part + j)] = <<Message, part + j>>
      BY <1>4, <1>5, <3>5, AllAt
    <3>4. Upto(Message - 1) + (part + j) = i
      BY <1>4, <1>5, <3>1
    <3> QED  BY <3>2, <3>3, <3>4
  <2> QED  BY <2>1, <2>2
<1>10. WriterTypes'
  <2>1. sent' \in Seq(Part)
    BY <1>1, <1>5, <1>8
  <2>2. counter' \in Nat
    <3>1. Len(Unit) \in Nat
      BY <1>4
    <3> QED  BY <1>1, <1>5, <3>1
  <2> QED  BY <1>1, <1>2, <1>3, <2>1, <2>2 DEF WriterTypes
<1>11. Running'
  BY <1>1, <1>2, <1>3 DEF Running, Message
<1>12. Counted'
  <2>1. Len(sent) <= counter /\ (open => counter = Len(sent))
    BY <1>3 DEF Counted
  <2> QED  BY <1>1, <1>4, <1>5, <1>8, <2>1 DEF Counted
<1>13. SentIs'
  <2>1. Len(sent) + Size <= Upto(N)
    <3> DEFINE pm == plan.parts[Message]
               u == Upto(Message)
               v == Upto(N)
               w == Upto(k)
    <3>1. u = w + pm /\ u <= v /\ part + Size <= pm /\ Len(sent) = w + part
      BY <1>4, <1>5, <1>7
    <3>2. /\ pm \in Nat /\ v \in Nat /\ w \in Nat /\ part \in Nat /\ Size \in Nat
          /\ Len(sent) \in Nat
      BY <1>4, <1>5, <1>7
    <3> HIDE DEF pm, u, v, w
    <3> QED  BY <3>1, <3>2 DEF v
  <2>2. CASE sent' = sent \o Unit
    <3>1. Len(sent') = Len(sent) + Size /\ \A i \in 1..Len(sent') : sent'[i] = All[i]
      BY <1>8, <1>9, <2>2
    <3> QED  BY <1>2, <2>1, <3>1 DEF SentIs
  <2>3. CASE sent' = sent
    BY <1>2, <1>3, <2>3 DEF SentIs
  <2> QED  BY <1>1, <2>2, <2>3
<1>14. Going' /\ Stopped'
  <2>1. \A m \in 1..Len(acks) : acks[m] = "ok"
    BY <1>3 DEF Going
  <2>2. Size' = Size /\ Upto(Len(acks))' = Upto(k)
    BY <1>1, <1>2 DEF Size, Message, k
  <2>3. \/ Len(sent') = Upto(k) + part + Size
        \/ Len(sent') = Upto(k) + part /\ ~open
    BY <1>1, <1>5, <1>8
  <2> QED  BY <1>1, <1>3, <2>1, <2>2, <2>3 DEF Going, Stopped
<1> QED  BY <1>10, <1>11, <1>12, <1>13, <1>14 DEF WriterInv

\* The answer to the callback of this message, and the state of the next link.
LEMMA AnswerIs ==
    ASSUME WriterInv, NEW a \in Answers, Answer(a), Len(acks) < called
    PROVE  /\ acks' \in Seq(Answers) /\ Len(acks') = Len(acks) + 1
           /\ Len(acks) \in Nat
           /\ \A i \in 1..Len(acks) : acks'[i] = acks[i]
           /\ acks'[Len(acks) + 1] = a
           /\ part' = 0 /\ link' = "next" /\ Len(acks') <= called
<1>1. acks \in Seq(Answers) /\ called \in Nat
  BY PlanType DEF WriterInv, WriterTypes
<1>2. acks' = Append(acks, a) /\ part' = 0 /\ link' = "next"
  BY DEF Answer
<1>3. /\ acks' \in Seq(Answers) /\ Len(acks') = Len(acks) + 1 /\ Len(acks) \in Nat
      /\ \A i \in 1..Len(acks) : acks'[i] = acks[i]
      /\ acks'[Len(acks) + 1] = a
  BY <1>1, <1>2, AppendProperties
<1> QED  BY <1>1, <1>2, <1>3

LEMMA WriterOk == WriterInv /\ WriteOk => WriterInv'
<1> SUFFICES ASSUME WriterInv, WriteOk PROVE WriterInv'
  OBVIOUS
<1>1. /\ link = "writing" /\ open /\ UNCHANGED <<plan, open, called, failed, counter, sent>>
  BY DEF WriteOk
<1>2. N' = N /\ PlanOK' = PlanOK /\ All' = All /\ \A n : Upto(n)' = Upto(n)
  BY <1>1, SamePlan
<1>3. /\ WriterTypes /\ Running /\ Counted /\ SentIs /\ Going /\ ~failed
      /\ Len(acks) < called /\ N \in Nat /\ PlanOK
  BY <1>1, PlanType DEF WriterInv, Running, WriterTypes
<1> DEFINE k == Len(acks)
           pm == plan.parts[Message]
<1>4. /\ k \in Nat /\ k < N /\ Message \in 1..N /\ Message = k + 1
      /\ Size \in Nat \ {0} /\ part + Size <= pm /\ Len(Unit) = Size
      /\ Upto(k) \in Nat /\ Upto(k + 1) = Upto(k) + pm
  BY <1>1, UnitIs DEF Message
<1>5. Len(sent) = Upto(k) + part + Size /\ part \in Nat /\ pm \in Nat
  BY <1>1, <1>3, <1>4, PlanType DEF Going, WriterTypes
<1>6. Counted' /\ SentIs'
  BY <1>1, <1>2, <1>3 DEF Counted, SentIs
<1>7. (\A m \in 1..k : acks[m] = "ok") /\ Stopped'
  BY <1>1, <1>3 DEF Going, Stopped
<1>8. CASE part + Len(Unit) = pm /\ Answer("ok")
  <2>1. "ok" \in Answers
    BY DEF Answers
  <2>2. /\ acks' \in Seq(Answers) /\ Len(acks') = k + 1
        /\ \A i \in 1..k : acks'[i] = acks[i]
        /\ acks'[k + 1] = "ok"
        /\ part' = 0 /\ link' = "next" /\ Len(acks') <= called
    BY <1>3, <1>8, <2>1, AnswerIs
  <2>3. WriterTypes'
    BY <1>1, <1>2, <1>3, <2>2 DEF WriterTypes
  <2>4. Running'
    <3>1. k + 1 < N => plan.parts[k + 2] \in Nat \ {0}
      BY <1>3, <1>4, PlanType
    <3>2. Len(acks') < N => part' < plan'.parts[Len(acks') + 1]
      BY <1>1, <1>4, <2>2, <3>1
    <3> QED  BY <1>2, <2>2, <3>2 DEF Running, Message
  <2>5. Going'
    <3>1. \A i \in 1..(k + 1) : acks'[i] = "ok"
      BY <1>4, <1>7, <2>2
    <3>2. Len(sent) = Upto(k + 1)
      BY <1>4, <1>5, <1>8
    <3>3. Upto(Len(acks))' = Upto(k + 1) /\ Upto(k + 1) \in Nat
      BY <1>1, <1>4, <1>5, <2>2, AcksUpto
    <3> HIDE DEF k
    <3>4. Len(sent') = Upto(Len(acks))' + part'
      BY <1>1, <2>2, <3>2, <3>3
    <3>5. \A i \in 1..Len(acks') : acks'[i] = "ok"
      BY <2>2, <3>1
    <3> QED  BY <2>2, <3>4, <3>5 DEF Going
  <2> QED  BY <1>6, <1>7, <2>3, <2>4, <2>5 DEF WriterInv
<1>9. CASE part + Len(Unit) < pm /\ part' = part + 1 /\ link' = "next"
           /\ UNCHANGED acks
  <2>1. plan.aead /\ Size = 1
    <3>1. ~plan.aead => part = 0 /\ Size = pm
      BY <1>3 DEF Running, Size
    <3> QED  BY <1>4, <1>5, <1>9, <3>1 DEF Size
  <2>2. WriterTypes'
    BY <1>1, <1>2, <1>3, <1>5, <1>9 DEF WriterTypes
  <2>3. Running'
    BY <1>1, <1>2, <1>3, <1>4, <1>9, <2>1 DEF Running, Message
  <2>4. Going'
    <3>1. Upto(Len(acks))' = Upto(k)
      BY <1>2, <1>9
    <3>2. Len(sent') = Upto(Len(acks))' + part'
      BY <1>1, <1>4, <1>5, <1>9, <2>1, <3>1
    <3> QED  BY <1>7, <1>9, <3>2 DEF Going
  <2> QED  BY <1>6, <1>7, <2>2, <2>3, <2>4 DEF WriterInv
<1> QED  BY <1>8, <1>9 DEF WriteOk

\* What a failure leaves behind: nothing more is sent, and what was sent ends in
\* the message that failed.
LEMMA WriterFails == WriterInv /\ WriteFails => WriterInv'
<1> SUFFICES ASSUME WriterInv, WriteFails PROVE WriterInv'
  OBVIOUS
<1>1. /\ link # "next" /\ Answer("failed") /\ failed' = TRUE
      /\ link = "writing" => ~open
      /\ UNCHANGED <<plan, open, called, counter, sent>>
  BY DEF WriteFails
<1>2. N' = N /\ PlanOK' = PlanOK /\ All' = All /\ \A n : Upto(n)' = Upto(n)
  BY <1>1, SamePlan
<1>3. /\ WriterTypes /\ Running /\ Counted /\ SentIs /\ Going /\ ~failed
      /\ Len(acks) < called /\ N \in Nat /\ PlanOK
  BY <1>1, PlanType DEF WriterInv, Running, WriterTypes
<1> DEFINE k == Len(acks)
           pm == plan.parts[Message]
<1>4. /\ k \in Nat /\ k < N /\ Message \in 1..N /\ Message = k + 1
      /\ Size \in Nat \ {0} /\ part + Size <= pm
      /\ Upto(k) \in Nat /\ Upto(k + 1) = Upto(k) + pm
  BY <1>1, UnitIs DEF Message
<1>5. /\ Len(sent) = Upto(k) + part + Size \/ Len(sent) = Upto(k) + part
      /\ part \in Nat /\ pm \in Nat /\ Len(sent) \in Nat
  BY <1>1, <1>3, <1>4, PlanType DEF Going, WriterTypes
<1>6. Counted' /\ SentIs'
  BY <1>1, <1>2, <1>3 DEF Counted, SentIs
<1>7. \A m \in 1..k : acks[m] = "ok"
  BY <1>3 DEF Going
<1>8. "failed" \in Answers
  BY DEF Answers
<1>9. /\ acks' \in Seq(Answers) /\ Len(acks') = k + 1
      /\ \A i \in 1..k : acks'[i] = acks[i]
      /\ acks'[k + 1] = "failed"
      /\ part' = 0 /\ link' = "next" /\ Len(acks') <= called
  BY <1>1, <1>3, <1>8, AnswerIs
<1>10. WriterTypes'
  BY <1>1, <1>2, <1>3, <1>9 DEF WriterTypes
<1>11. Running'
  <2>1. k + 1 < N => plan.parts[k + 2] \in Nat \ {0}
    BY <1>3, <1>4, PlanType
  <2>2. Len(acks') < N => part' < plan'.parts[Len(acks') + 1]
    BY <1>1, <1>4, <1>9, <2>1
  <2> QED  BY <1>2, <1>9, <2>2 DEF Running, Message
<1>12. Going'
  BY <1>1 DEF Going
<1>13. Stopped'
  <2>1. Upto(k) <= Len(sent) /\ Len(sent) <= Upto(k + 1)
    <3> DEFINE u == Upto(k)
               v == Upto(k + 1)
    <3>1. v = u + pm /\ u \in Nat /\ pm \in Nat /\ Size \in Nat /\ part + Size <= pm
      BY <1>4, <1>5
    <3>2. /\ Len(sent) = u + part + Size \/ Len(sent) = u + part
          /\ Len(sent) \in Nat /\ part \in Nat
      BY <1>5
    <3> HIDE DEF u, v, pm
    <3>3. u <= Len(sent) /\ Len(sent) <= v
      BY <3>1, <3>2
    <3> QED  BY <3>3 DEF u, v
  <2>2. \A i \in 1..(k + 1) : acks'[i] = IF i < k + 1 THEN "ok" ELSE "failed"
    BY <1>4, <1>7, <1>9
  <2>3. PICK m \in 1..Len(acks') : m = k + 1 /\ m - 1 = k
    BY <1>4, <1>9
  <2> HIDE DEF k
  <2>4. Upto(m - 1) <= Len(sent) /\ Len(sent) <= Upto(m)
    BY <2>1, <2>3
  <2>5. \A i \in 1..Len(acks') : acks'[i] = IF i < m THEN "ok" ELSE "failed"
    BY <1>9, <2>2, <2>3
  <2>6. StoppedAt(m)'
    BY <1>1, <1>2, <2>4, <2>5, SamePlan DEF StoppedAt
  <2> QED  BY <2>3, <2>6 DEF Stopped
<1> QED  BY <1>6, <1>10, <1>11, <1>12, <1>13 DEF WriterInv

\* Every link behind a failure fails, and sends nothing.
LEMMA WriterRejected == WriterInv /\ Rejected => WriterInv'
<1> SUFFICES ASSUME WriterInv, Rejected PROVE WriterInv'
  OBVIOUS
<1>1. /\ failed /\ link = "next" /\ Len(acks) < called /\ Answer("failed")
      /\ UNCHANGED <<plan, open, called, failed, counter, sent>>
  BY DEF Rejected
<1>2. N' = N /\ PlanOK' = PlanOK /\ All' = All /\ \A n : Upto(n)' = Upto(n)
  BY <1>1, SamePlan
<1>3. /\ WriterTypes /\ Running /\ Counted /\ SentIs /\ Stopped
      /\ N \in Nat /\ PlanOK /\ called \in 0..N
  BY <1>1, PlanType DEF WriterInv, WriterTypes
<1> DEFINE k == Len(acks)
<1>4. "failed" \in Answers
  BY DEF Answers
<1>5. /\ acks' \in Seq(Answers) /\ Len(acks') = k + 1 /\ k \in Nat
      /\ \A i \in 1..k : acks'[i] = acks[i]
      /\ acks'[k + 1] = "failed"
      /\ part' = 0 /\ link' = "next" /\ Len(acks') <= called
  BY <1>1, <1>4, AnswerIs
<1>6. Counted' /\ SentIs'
  BY <1>1, <1>2, <1>3 DEF Counted, SentIs
<1>7. WriterTypes'
  BY <1>1, <1>2, <1>3, <1>5 DEF WriterTypes
<1>8. Running'
  <2>1. k + 1 < N => plan.parts[k + 2] \in Nat \ {0}
    BY <1>3, <1>5, PlanType
  <2>2. Len(acks') < N => part' < plan'.parts[Len(acks') + 1]
    BY <1>1, <1>5, <2>1
  <2> QED  BY <1>2, <1>5, <2>2 DEF Running, Message
<1>9. Going'
  BY <1>1 DEF Going
<1>10. Stopped'
  <2>1. PICK m \in 1..k : StoppedAt(m)
    BY <1>1, <1>3 DEF Stopped
  <2>2. Upto(m - 1) <= Len(sent) /\ Len(sent) <= Upto(m)
    BY <2>1 DEF StoppedAt
  <2>3. \A i \in 1..k : acks[i] = IF i < m THEN "ok" ELSE "failed"
    BY <2>1 DEF StoppedAt
  <2>4. \A i \in 1..(k + 1) : acks'[i] = IF i < m THEN "ok" ELSE "failed"
    BY <1>5, <2>3
  <2>5. m \in 1..Len(acks')
    BY <1>5
  <2> HIDE DEF k
  <2>6. StoppedAt(m)'
    BY <1>1, <1>2, <1>5, <2>2, <2>4, SamePlan DEF StoppedAt
  <2> QED  BY <2>5, <2>6 DEF Stopped
<1> QED  BY <1>6, <1>7, <1>8, <1>9, <1>10 DEF WriterInv

LEMMA WriterStep == WriterInv /\ [Next]_vars => WriterInv'
<1> SUFFICES ASSUME WriterInv, [Next]_vars PROVE WriterInv'
  OBVIOUS
<1>0. open \in BOOLEAN
  BY DEF WriterInv, WriterTypes
<1>1. CASE Write  BY <1>1, WriterWrite
<1>2. CASE Encrypt  BY <1>2, WriterEncrypt
<1>3. CASE Encrypted  BY <1>3, WriterEncrypted
<1>4. CASE WriteOk  BY <1>4, WriterOk
<1>5. CASE WriteFails  BY <1>5, WriterFails
<1>6. CASE Rejected  BY <1>6, WriterRejected
<1>7. CASE plan' = plan /\ UNCHANGED writeVars /\ (open' = open \/ open' = FALSE)
  <2>1. open' = open \/ open' = FALSE
    BY <1>7
  <2>2. open' \in BOOLEAN
    BY <1>0, <2>1
  <2>3. open' => open
    BY <2>1, Zenon
  <2> QED  BY <1>7, <2>2, <2>3, WriterQuiet
<1>8. CASE \E n \in 1..Len(wire) : Arrive(n)
  BY <1>7, <1>8 DEF Arrive
<1>9. CASE TakeChunk  BY <1>7, <1>9 DEF TakeChunk
<1>10. CASE Decrypt  BY <1>7, <1>10 DEF Decrypt
<1>11. CASE Decrypted  BY <1>7, <1>11 DEF Decrypted
<1>12. CASE DecryptFails  BY <1>7, <1>12 DEF DecryptFails
<1>13. CASE Close  BY <1>7, <1>13 DEF Close
<1>14. CASE EndHeard  BY <1>7, <1>14 DEF EndHeard
<1>15. CASE UNCHANGED vars  BY <1>7, <1>15 DEF vars
<1> QED
  BY <1>1, <1>2, <1>3, <1>4, <1>5, <1>6, <1>8, <1>9, <1>10, <1>11, <1>12, <1>13,
     <1>14, <1>15 DEF Next

LEMMA WriterAlways == Spec => []WriterInv
BY WriterInit, WriterStep, PTL DEF Spec

\* The message that the last part sent belongs to has been called for.
LEMMA SentUpto ==
    ASSUME WriterInv
    PROVE  Len(sent) <= Upto(called)
<1>1. /\ WriterTypes /\ Running /\ PlanOK /\ called \in 0..N /\ Len(acks) <= called
      /\ Len(acks) \in Nat /\ N \in Nat /\ part \in Nat /\ Len(sent) \in Nat
  BY PlanType DEF WriterInv, WriterTypes
<1>2. /\ Len(acks) \in 0..N
      /\ \A n \in 0..N : Upto(n) \in Nat /\ (n <= called => Upto(n) <= Upto(called))
  BY <1>1, Earlier, WrittenType
<1>3. CASE failed
  <2>1. PICK m \in 1..Len(acks) : Len(sent) <= Upto(m)
    BY <1>3 DEF WriterInv, Stopped, StoppedAt
  <2>2. m \in 0..N /\ m <= called
    BY <1>1
  <2> QED  BY <1>1, <1>2, <2>1, <2>2
<1>4. CASE ~failed /\ link # "next"
  <2> DEFINE k == Len(acks)
             pm == plan.parts[Message]
             u == Upto(k)
             v == Upto(Message)
             w == Upto(called)
  <2>1. /\ Size \in Nat /\ part + Size <= pm /\ u \in Nat /\ v = u + pm /\ pm \in Nat
        /\ Message = k + 1 /\ Message \in 1..N
    BY <1>1, <1>4, UnitIs, PlanType DEF Message
  <2>2. Len(sent) = u + part \/ Len(sent) = u + part + Size
    BY <1>4 DEF WriterInv, Going
  <2>3. k < called
    BY <1>4 DEF WriterInv, Running
  <2>4. Message \in 0..N /\ Message <= called
    BY <1>1, <2>1, <2>3
  <2>5. v <= w /\ v \in Nat /\ w \in Nat
    BY <1>1, <1>2, <2>4
  <2> HIDE DEF pm, u, v, w
  <2>6. Len(sent) <= w
    BY <1>1, <2>1, <2>2, <2>5
  <2> QED  BY <2>6 DEF w
<1>5. CASE ~failed /\ link = "next"
  <2>1. Len(sent) = Upto(Len(acks)) + part
    BY <1>5 DEF WriterInv, Going
  <2>2. CASE part = 0
    BY <1>1, <1>2, <2>1, <2>2
  <2>3. CASE part # 0
    <3> DEFINE pm == plan.parts[Message]
               u == Upto(Len(acks))
               v == Upto(Message)
               w == Upto(called)
    <3>1. Len(acks) < called /\ Len(acks) < N /\ part < pm
      BY <1>1, <2>3 DEF WriterInv, Running
    <3>2. Message = Len(acks) + 1 /\ Message \in 1..N /\ Message <= called
      BY <1>1, <3>1 DEF Message
    <3>3. v = u + pm /\ u \in Nat /\ pm \in Nat
      BY <1>1, <3>1, <3>2, UptoStep, PlanType
    <3>4. v <= w /\ v \in Nat /\ w \in Nat
      BY <1>1, <1>2, <3>2
    <3>5. Len(sent) = u + part
      BY <2>1
    <3> HIDE DEF pm, u, v, w
    <3>6. Len(sent) <= w
      BY <1>1, <3>1, <3>3, <3>4, <3>5
    <3> QED  BY <3>6 DEF w
  <2> QED  BY <2>2, <2>3
<1> QED  BY <1>3, <1>4, <1>5

LEMMA WriterTruth == WriterInv => AckedIsSent
<1> SUFFICES ASSUME WriterInv PROVE AckedIsSent
  OBVIOUS
<1>1. /\ PlanOK /\ called \in 0..N /\ N \in Nat /\ sent \in Seq(Part)
      /\ Len(acks) <= called /\ acks \in Seq(Answers) /\ part \in Nat
      /\ SentIs /\ Len(sent) \in Nat /\ Len(acks) \in Nat
  BY PlanType DEF WriterInv, WriterTypes
<1>2. Written(called) \in Seq(Part) /\ Len(sent) <= Upto(called)
  BY <1>1, SentUpto, WrittenType
<1>3. \A i \in 1..Upto(called) : All[i] = Written(called)[i]
  BY <1>1, Earlier DEF All
<1>4. \A i \in 1..Len(sent) : sent[i] = Written(called)[i]
  BY <1>1, <1>2, <1>3, WrittenType DEF SentIs
<1>5. IsPrefix(sent, Written(called))
  BY <1>1, <1>2, <1>4, PrefixIs DEF Upto
<1>6. \A n \in 0..N : Upto(n) \in Nat /\ \A m \in 0..N : n <= m => Upto(n) <= Upto(m)
  BY <1>1, Earlier, WrittenType
<1>7. ASSUME NEW m \in 1..Len(acks), acks[m] = "ok"
      PROVE  Len(sent) >= Upto(m)
  <2>1. m \in 0..N /\ Len(acks) \in 0..N /\ m <= Len(acks) /\ m \in Nat
    BY <1>1
  <2>2. CASE ~failed
    <3>1. Len(sent) >= Upto(Len(acks))
      <4> DEFINE u == Upto(Len(acks))
      <4>1. u \in Nat
        BY <1>6, <2>1
      <4>2. \/ Len(sent) = u + part
            \/ Len(sent) = u + part + Size /\ link # "next"
        BY <2>2 DEF WriterInv, Going
      <4>3. link # "next" => Size \in Nat
        BY UnitIs
      <4> HIDE DEF u
      <4>4. Len(sent) >= u
        BY <1>1, <4>1, <4>2, <4>3
      <4> QED  BY <4>4 DEF u
    <3> QED  BY <1>1, <1>6, <2>1, <3>1
  <2>3. CASE failed
    <3>1. PICK q \in 1..Len(acks) : StoppedAt(q)
      BY <2>3 DEF WriterInv, Stopped
    <3>2. m < q /\ Upto(q - 1) <= Len(sent)
      BY <1>7, <3>1 DEF StoppedAt
    <3>3. q - 1 \in 0..N /\ m <= q - 1
      BY <1>1, <2>1, <3>2
    <3> QED  BY <1>1, <1>6, <2>1, <3>2, <3>3
  <2> QED  BY <2>2, <2>3
<1>8. ASSUME NEW m \in 1..Len(acks), acks[m] = "failed"
      PROVE  /\ \A n \in m..Len(acks) : acks[n] = "failed"
             /\ \A i \in 1..Len(sent) : sent[i][1] <= m
  <2>1. failed
    BY <1>8 DEF WriterInv, Going
  <2>2. PICK q \in 1..Len(acks) : StoppedAt(q)
    BY <2>1 DEF WriterInv, Stopped
  <2>3. /\ \A i \in 1..Len(acks) : acks[i] = IF i < q THEN "ok" ELSE "failed"
        /\ Len(sent) <= Upto(q)
    BY <2>2 DEF StoppedAt
  <2>4. q <= m
    BY <1>8, <2>3
  <2>5. \A n \in m..Len(acks) : acks[n] = "failed"
    BY <1>1, <2>3, <2>4
  <2>6. q \in 0..N /\ m \in Nat /\ q \in Nat
    BY <1>1
  <2>7. \A i \in 1..Len(sent) : sent[i][1] <= m
    <3> TAKE i \in 1..Len(sent)
    <3>1. i \in 1..Upto(q)
      BY <1>1, <1>6, <2>3, <2>6
    <3>2. sent[i] = All[i] /\ All[i][1] <= q
      BY <1>1, <2>6, <3>1, Owner DEF SentIs
    <3>3. sent[i] \in Part
      BY <1>1
    <3>4. sent[i][1] \in Nat
      BY <3>3 DEF Part
    <3> QED  BY <2>4, <2>6, <3>2, <3>4
  <2> QED  BY <2>5, <2>7
<1>9. DOMAIN acks = 1..Len(acks) /\ DOMAIN sent = 1..Len(sent)
  BY <1>1
<1> QED  BY <1>5, <1>7, <1>8, <1>9 DEF AckedIsSent, Upto

\* A callback without an error means that the whole message went to the socket,
\* behind all the messages before it, and after the first error none succeeds
\* and nothing behind the message that failed goes out (writeChain in
\* AeadCryptoConn and CryptoConn): for any number of messages of any length,
\* and wherever the encryption or the write of one of them fails.
THEOREM Acknowledged == Spec => []AckedIsSent
BY WriterAlways, WriterTruth, PTL
-----------------------------------------------------------------------------
(* The reader.                                                               *)

Cipher == ({"prefix"} \cup Part) \X Nat \X Nat

\* The j-th byte of the connection when x was sent, in frames or byte by byte.
Width(aead) == IF aead THEN 2 ELSE 1
FirstOf(aead, i) == IF aead THEN 2 + 2 * (i - 1) ELSE 2 + (i - 1)
IsByte(aead, x, c, j) ==
    \/ j \in 1..2 /\ c = <<"prefix", j, 0>>
    \/ \E i \in 1..Len(x) : \E q \in 1..Width(aead) :
         j = FirstOf(aead, i) + q /\ c = <<x[i], q, i - 1>>

\* The bytes of s stand behind the b-th of the connection.
At(aead, x, s, b) == \A j \in 1..Len(s) : IsByte(aead, x, s[j], b + j)

\* How many bytes there are.
Total(aead, x) == IF Len(x) = 0 THEN 0 ELSE FirstOf(aead, Len(x) + 1)

LEMMA AtConcat ==
    ASSUME NEW S, NEW s \in Seq(S), NEW t \in Seq(S), NEW b \in Nat, NEW a, NEW x,
           At(a, x, s, b), At(a, x, t, b + Len(s))
    PROVE  At(a, x, s \o t, b) /\ s \o t \in Seq(S) /\ Len(s \o t) = Len(s) + Len(t)
<1>1. /\ s \o t \in Seq(S) /\ Len(s \o t) = Len(s) + Len(t)
      /\ Len(s) \in Nat /\ Len(t) \in Nat
      /\ \A i \in 1..(Len(s) + Len(t)) :
           (s \o t)[i] = IF i <= Len(s) THEN s[i] ELSE t[i - Len(s)]
  BY ConcatProperties
<1>2. ASSUME NEW j \in 1..(Len(s) + Len(t)) PROVE IsByte(a, x, (s \o t)[j], b + j)
  <2>1. CASE j <= Len(s)
    BY <1>1, <2>1 DEF At
  <2>2. CASE ~(j <= Len(s))
    <3>1. j - Len(s) \in 1..Len(t) /\ (b + Len(s)) + (j - Len(s)) = b + j
      BY <1>1, <2>2
    <3>2. IsByte(a, x, t[j - Len(s)], (b + Len(s)) + (j - Len(s)))
      BY <3>1 DEF At
    <3> QED  BY <1>1, <2>2, <3>1, <3>2
  <2> QED  BY <2>1, <2>2
<1> QED  BY <1>1, <1>2 DEF At

LEMMA AtApart ==
    ASSUME NEW S, NEW s \in Seq(S), NEW t \in Seq(S), NEW b \in Nat, NEW a, NEW x,
           At(a, x, s \o t, b)
    PROVE  At(a, x, s, b) /\ At(a, x, t, b + Len(s))
<1>1. /\ Len(s \o t) = Len(s) + Len(t)
      /\ Len(s) \in Nat /\ Len(t) \in Nat
      /\ \A i \in 1..(Len(s) + Len(t)) :
           (s \o t)[i] = IF i <= Len(s) THEN s[i] ELSE t[i - Len(s)]
  BY ConcatProperties
<1>2. ASSUME NEW j \in 1..Len(s) PROVE IsByte(a, x, s[j], b + j)
  <2>1. j \in 1..(Len(s) + Len(t)) /\ j <= Len(s)
    BY <1>1
  <2> QED  BY <1>1, <2>1 DEF At
<1>3. ASSUME NEW j \in 1..Len(t) PROVE IsByte(a, x, t[j], (b + Len(s)) + j)
  <2> DEFINE k == Len(s) + j
  <2>1. k \in 1..(Len(s) + Len(t)) /\ ~(k <= Len(s)) /\ k - Len(s) = j
        /\ (b + Len(s)) + j = b + k
    BY <1>1
  <2> HIDE DEF k
  <2> QED  BY <1>1, <2>1 DEF At
<1> QED  BY <1>2, <1>3 DEF At

LEMMA AtCut ==
    ASSUME NEW S, NEW s \in Seq(S), NEW m \in 0..Len(s), NEW b \in Nat, NEW a, NEW x,
           At(a, x, s, b)
    PROVE  /\ At(a, x, SubSeq(s, 1, m), b)
           /\ SubSeq(s, 1, m) \in Seq(S) /\ Len(SubSeq(s, 1, m)) = m
           /\ At(a, x, SubSeq(s, m + 1, Len(s)), b + m)
           /\ SubSeq(s, m + 1, Len(s)) \in Seq(S)
           /\ Len(SubSeq(s, m + 1, Len(s))) = Len(s) - m
<1> DEFINE f == SubSeq(s, 1, m)
           g == SubSeq(s, m + 1, Len(s))
<1>1. f \in Seq(S) /\ Len(f) = m /\ \A i \in 1..m : f[i] = s[i]
  OBVIOUS
<1>2. /\ g \in Seq(S) /\ Len(g) = Len(s) - m
      /\ \A i \in 1..(Len(s) - m) : g[i] = s[m + i]
  OBVIOUS
<1> HIDE DEF f, g
<1>3. At(a, x, f, b)
  BY <1>1 DEF At
<1>4. ASSUME NEW i \in 1..Len(g) PROVE IsByte(a, x, g[i], (b + m) + i)
  <2>1. m + i \in 1..Len(s) /\ (b + m) + i = b + (m + i)
    BY <1>2
  <2> QED  BY <1>2, <2>1 DEF At
<1>5. At(a, x, g, b + m)
  BY <1>4 DEF At
<1> QED  BY <1>1, <1>2, <1>3, <1>5 DEF f, g

LEMMA AtGrow ==
    ASSUME NEW s, NEW b, NEW a, NEW x, NEW y, Len(x) \in Nat, Len(y) \in Nat,
           Len(x) <= Len(y), \A i \in 1..Len(x) : y[i] = x[i], At(a, x, s, b)
    PROVE  At(a, y, s, b)
<1>1. ASSUME NEW c, NEW j, IsByte(a, x, c, j) PROVE IsByte(a, y, c, j)
  <2>1. \A i \in 1..Len(x) : i \in 1..Len(y) /\ y[i] = x[i]
    OBVIOUS
  <2> QED  BY <1>1, <2>1 DEF IsByte
<1> QED  BY <1>1 DEF At

LEMMA AtNothing == ASSUME NEW a, NEW x, NEW b PROVE At(a, x, <<>>, b)
BY EmptySeq DEF At

\* The bytes of what is sent next.
LEMMA UnitAt ==
    ASSUME WriterInv, link = "encrypting", open, sent' = sent \o Unit
    PROVE  LET pre == IF counter = 0 THEN Prefix ELSE <<>> IN
           /\ Len(sent') = Len(sent) + Size /\ Len(sent) \in Nat /\ Size \in Nat
           /\ \A i \in 1..Len(sent) : sent'[i] = sent[i]
           /\ pre \in Seq(Cipher) /\ Ciphertext \in Seq(Cipher)
           /\ At(plan.aead, sent', pre, Total(plan.aead, sent))
           /\ At(plan.aead, sent', Ciphertext, Total(plan.aead, sent) + Len(pre))
           /\ Total(plan.aead, sent') =
                Total(plan.aead, sent) + Len(pre) + Len(Ciphertext)
<1> DEFINE pre == IF counter = 0 THEN Prefix ELSE <<>>
           n == Len(sent)
           x == sent'
<1>1. /\ Unit \in Seq(Part) /\ Len(Unit) = Size /\ Size \in Nat \ {0}
      /\ sent \in Seq(Part) /\ counter = n /\ n \in Nat
  BY UnitIs DEF WriterInv, WriterTypes, Counted
<1>2. /\ Len(x) = n + Size
      /\ \A i \in 1..(n + Size) : x[i] = IF i <= n THEN sent[i] ELSE Unit[i - n]
  BY <1>1, ConcatProperties
<1> HIDE DEF x
<1>3. (\A i \in 1..n : x[i] = sent[i]) /\ \A i \in 1..Size : x[n + i] = Unit[i]
  <2>1. \A i \in 1..n : x[i] = sent[i]
    BY <1>1, <1>2
  <2>2. ASSUME NEW i \in 1..Size PROVE x[n + i] = Unit[i]
    <3>1. n + i \in 1..(n + Size) /\ ~(n + i <= n) /\ (n + i) - n = i
      BY <1>1
    <3> QED  BY <1>2, <3>1
  <2> QED  BY <2>1, <2>2
<1>4. \A i \in 1..Size : Unit[i] \in Part
  BY <1>1
<1>5. /\ Prefix \in Seq(Cipher) /\ Len(Prefix) = 2
      /\ Prefix[1] = <<"prefix", 1, 0>> /\ Prefix[2] = <<"prefix", 2, 0>>
  <2>1. <<"prefix", 1, 0>> \in Cipher /\ <<"prefix", 2, 0>> \in Cipher
    BY DEF Cipher
  <2> QED  BY <2>1 DEF Prefix
<1>6. pre \in Seq(Cipher) /\ Len(pre) = (IF n = 0 THEN 2 ELSE 0)
  BY <1>1, <1>5, EmptySeq
<1>7. At(plan.aead, x, pre, Total(plan.aead, sent))
  <2>1. CASE n = 0
    <3>1. \A j \in 1..2 : IsByte(plan.aead, x, Prefix[j], 0 + j)
      BY <1>5 DEF IsByte
    <3> QED  BY <1>1, <1>5, <2>1, <3>1 DEF At, Total
  <2>2. CASE n # 0
    BY <1>1, <2>2, AtNothing
  <2> QED  BY <2>1, <2>2
<1>8. Total(plan.aead, sent) + Len(pre) = FirstOf(plan.aead, n + 1)
  BY <1>1, <1>6 DEF Total, FirstOf
<1>9. CASE plan.aead
  <2>1. Size = 1 /\ Ciphertext = [k \in 1..2 |-> <<Unit[1], k, n>>]
    BY <1>1, <1>9 DEF Size, Ciphertext
  <2>2. \A k \in 1..2 : <<Unit[1], k, n>> \in Cipher
    BY <1>1, <1>4, <2>1 DEF Cipher
  <2>3. Ciphertext \in Seq(Cipher) /\ Len(Ciphertext) = 2
    BY <2>1, <2>2
  <2>4. ASSUME NEW k \in 1..2
        PROVE  IsByte(plan.aead, x, Ciphertext[k], FirstOf(plan.aead, n + 1) + k)
    <3>1. n + 1 \in 1..Len(x) /\ k \in 1..Width(plan.aead) /\ (n + 1) - 1 = n
      BY <1>1, <1>2, <1>9, <2>1 DEF Width
    <3>2. Ciphertext[k] = <<x[n + 1], k, (n + 1) - 1>>
      BY <1>3, <2>1, <3>1
    <3> QED  BY <3>1, <3>2 DEF IsByte
  <2>5. At(plan.aead, x, Ciphertext, Total(plan.aead, sent) + Len(pre))
    BY <1>8, <2>3, <2>4 DEF At
  <2>6. Total(plan.aead, x) = FirstOf(plan.aead, n + 1) + 2
    BY <1>1, <1>2, <1>9, <2>1 DEF Total, FirstOf
  <2> QED  BY <1>1, <1>2, <1>3, <1>6, <1>7, <1>8, <2>3, <2>5, <2>6 DEF x
<1>10. CASE ~plan.aead
  <2>0. plan.parts[Message] = Size /\ Len(Parts(Message)) = Size /\ Unit = Parts(Message)
    BY <1>1, <1>10 DEF Size, Unit
  <2>1. Ciphertext = [k \in 1..Size |-> <<Unit[k], 1, n + k - 1>>]
    BY <1>1, <1>10 DEF Ciphertext
  <2>2. \A k \in 1..Size : <<Unit[k], 1, n + k - 1>> \in Cipher
    <3> TAKE k \in 1..Size
    <3>1. n + k - 1 \in Nat /\ Unit[k] \in Part
      BY <1>1, <1>4
    <3> QED  BY <3>1 DEF Cipher
  <2>3. Ciphertext \in Seq(Cipher) /\ Len(Ciphertext) = Size
    BY <1>1, <2>1, <2>2
  <2>4. ASSUME NEW k \in 1..Size
        PROVE  IsByte(plan.aead, x, Ciphertext[k], FirstOf(plan.aead, n + 1) + k)
    <3>1. /\ n + k \in 1..Len(x) /\ 1 \in 1..Width(plan.aead)
          /\ (n + k) - 1 = n + k - 1
          /\ FirstOf(plan.aead, n + 1) + k = FirstOf(plan.aead, n + k) + 1
      BY <1>1, <1>2, <1>10 DEF Width, FirstOf
    <3>2. Ciphertext[k] = <<x[n + k], 1, (n + k) - 1>>
      BY <1>3, <2>1, <3>1
    <3> QED  BY <3>1, <3>2 DEF IsByte
  <2>5. At(plan.aead, x, Ciphertext, Total(plan.aead, sent) + Len(pre))
    BY <1>1, <1>8, <2>3, <2>4 DEF At
  <2>6. Total(plan.aead, x) = FirstOf(plan.aead, n + 1) + Size
    BY <1>1, <1>2, <1>10 DEF Total, FirstOf
  <2> QED  BY <1>1, <1>2, <1>3, <1>6, <1>7, <1>8, <2>3, <2>5, <2>6 DEF x
<1> QED  BY <1>9, <1>10

LEMMA FirstIs ==
    ASSUME NEW a, NEW i \in Nat
    PROVE  /\ Width(a) = 2 => FirstOf(a, i) = 2 * i
           /\ Width(a) = 1 => FirstOf(a, i) = 1 + i
BY DEF FirstOf, Width

\* The bytes behind the p-th part are those of the next one.
LEMMA FrameAt ==
    ASSUME NEW a, Width(a) = 2, NEW x, NEW s, NEW p \in Nat, Len(x) \in Nat,
           Len(s) = 2, At(a, x, s, FirstOf(a, p + 1))
    PROVE  p + 1 \in 1..Len(x) /\ s[1] = <<x[p + 1], 1, p>>
<1> DEFINE f == FirstOf(a, p + 1)
<1>0. 1 \in 1..Len(s) /\ f + 1 = 2 * p + 3
  <2>1. p + 1 \in Nat
    OBVIOUS
  <2>2. f = 2 * (p + 1)
    BY <2>1, FirstIs
  <2> HIDE DEF f
  <2> QED  BY <2>2
<1>1. IsByte(a, x, s[1], f + 1)
  <2> HIDE DEF f
  <2> QED  BY <1>0 DEF At, f
<1>2. ~(2 * p + 3 \in 1..2)
  OBVIOUS
<1>3. PICK i \in 1..Len(x) : \E q \in 1..2 :
        2 * p + 3 = FirstOf(a, i) + q /\ s[1] = <<x[i], q, i - 1>>
  <2> HIDE DEF f
  <2> QED  BY <1>0, <1>1, <1>2 DEF IsByte
<1>4. PICK q \in 1..2 : 2 * p + 3 = FirstOf(a, i) + q /\ s[1] = <<x[i], q, i - 1>>
  BY <1>3
<1>5. 2 * p + 3 = 2 * i + q /\ i \in Nat /\ q \in 1..2
  <2>1. i \in Nat
    OBVIOUS
  <2>2. FirstOf(a, i) = 2 * i
    BY <2>1, FirstIs
  <2> QED  BY <1>4, <2>1, <2>2
<1>6. i = p + 1 /\ q = 1
  BY <1>5
<1> QED  BY <1>4, <1>6

LEMMA BytesAt ==
    ASSUME NEW a, Width(a) = 1, NEW x, NEW s, NEW p \in Nat, Len(x) \in Nat,
           NEW k \in 1..Len(s), At(a, x, s, FirstOf(a, p + 1))
    PROVE  p + k \in 1..Len(x) /\ s[k] = <<x[p + k], 1, p + k - 1>>
<1>1. IsByte(a, x, s[k], FirstOf(a, p + 1) + k)
  BY DEF At
<1>2. FirstOf(a, p + 1) + k = 2 + p + k /\ ~(2 + p + k \in 1..2)
  <2>1. p + 1 \in Nat /\ k \in Nat
    OBVIOUS
  <2>2. FirstOf(a, p + 1) = 1 + (p + 1)
    BY <2>1, FirstIs
  <2> QED  BY <2>2
<1>3. PICK i \in 1..Len(x) : \E q \in 1..1 :
        2 + p + k = FirstOf(a, i) + q /\ s[k] = <<x[i], q, i - 1>>
  BY <1>1, <1>2 DEF IsByte
<1>4. PICK q \in 1..1 : 2 + p + k = FirstOf(a, i) + q /\ s[k] = <<x[i], q, i - 1>>
  BY <1>3
<1>5. i = p + k /\ q = 1 /\ i - 1 = p + k - 1
  <2>1. i \in Nat
    OBVIOUS
  <2>2. FirstOf(a, i) = 1 + i
    BY <2>1, FirstIs
  <2> QED  BY <1>4, <2>1, <2>2
<1> QED  BY <1>4, <1>5

\* How many bytes are in front of those in readBuffer, in chunks, and underway.
Waiting == FlattenSeq(chunks)
Base == IF started THEN FirstOf(plan.aead, place + 1) ELSE 0
ToBuffer == Base + Len(decrypting)
ToChunks == ToBuffer + Len(readBuffer)
ToWire == ToChunks + Len(Waiting)

ReaderTypes ==
    /\ wire \in Seq(Cipher) /\ chunks \in Seq(Seq(Cipher)) /\ readBuffer \in Seq(Cipher)
    /\ decrypting \in Seq(Cipher) /\ emitted \in Seq(Part) /\ place \in Nat
    /\ started \in BOOLEAN

\* Every byte is where it belongs, and while the socket is open none is missing.
InPlace ==
    /\ At(plan.aead, sent, decrypting, Base)
    /\ At(plan.aead, sent, readBuffer, ToBuffer)
    /\ At(plan.aead, sent, Waiting, ToChunks)
    /\ At(plan.aead, sent, wire, ToWire)
    /\ open => ToWire + Len(wire) = Total(plan.aead, sent)

Phase ==
    /\ Len(decrypting) # 0 => started /\ reading /\ (plan.aead => Len(decrypting) = 2)
    /\ ~started => Len(readBuffer) < 2 /\ place = 0

\* The owner has every part up to this place, unless it listens no more.
Got ==
    /\ Len(emitted) <= place /\ (~over => Len(emitted) = place)
    /\ Len(emitted) <= Len(sent) /\ \A i \in 1..Len(emitted) : emitted[i] = sent[i]

ReaderInv == plan.sameKey => ReaderTypes /\ InPlace /\ Phase /\ Got

LEMMA Counts ==
    ASSUME ReaderTypes
    PROVE  /\ Waiting \in Seq(Cipher) /\ Len(Waiting) \in Nat /\ Len(wire) \in Nat
           /\ Len(readBuffer) \in Nat /\ Len(decrypting) \in Nat /\ Len(emitted) \in Nat
           /\ Base \in Nat /\ ToBuffer \in Nat /\ ToChunks \in Nat /\ ToWire \in Nat
<1>1. Waiting \in Seq(Cipher)
  BY FlattenType DEF Waiting, ReaderTypes
<1>2. /\ Len(Waiting) \in Nat /\ Len(wire) \in Nat /\ Len(readBuffer) \in Nat
      /\ Len(decrypting) \in Nat /\ Len(emitted) \in Nat
  BY <1>1 DEF ReaderTypes
<1>3. Base \in Nat
  BY DEF ReaderTypes, Base, FirstOf
<1> QED  BY <1>1, <1>2, <1>3 DEF ToBuffer, ToChunks, ToWire

LEMMA ReaderInit == Init => ReaderInv
<1> SUFFICES ASSUME Init PROVE ReaderInv
  OBVIOUS
<1>1. /\ sent = <<>> /\ wire = <<>> /\ chunks = <<>> /\ readBuffer = <<>>
      /\ started = FALSE /\ decrypting = <<>> /\ place = 0 /\ emitted = <<>>
  BY DEF Init
<1>2. /\ wire \in Seq(Cipher) /\ readBuffer \in Seq(Cipher) /\ decrypting \in Seq(Cipher)
      /\ emitted \in Seq(Part) /\ chunks \in Seq(Seq(Cipher)) /\ place \in Nat
      /\ started \in BOOLEAN
  <2>1. <<>> \in Seq(Cipher) /\ <<>> \in Seq(Part) /\ <<>> \in Seq(Seq(Cipher))
    BY EmptySeq
  <2> QED  BY <1>1, <2>1
<1>3. ReaderTypes
  BY <1>2 DEF ReaderTypes
<1>4. Waiting = <<>>
  BY <1>1, <1>2, FlattenType DEF Waiting
<1>5. /\ Len(wire) = 0 /\ Len(readBuffer) = 0 /\ Len(decrypting) = 0
      /\ Len(emitted) = 0 /\ Len(sent) = 0 /\ Len(Waiting) = 0
  BY <1>1, <1>4, EmptySeq
<1>6. Base = 0 /\ ToBuffer = 0 /\ ToChunks = 0 /\ ToWire = 0
  BY <1>1, <1>5 DEF Base, ToBuffer, ToChunks, ToWire
<1>7. InPlace
  BY <1>1, <1>4, <1>5, <1>6, AtNothing DEF InPlace, Total
<1>8. Phase /\ Got
  BY <1>1, <1>5 DEF Phase, Got
<1> QED  BY <1>3, <1>7, <1>8 DEF ReaderInv

\* What the writer does, sending apart, leaves the reader alone.
LEMMA ReaderQuiet ==
    ASSUME ReaderInv, over => over',
           UNCHANGED <<plan, open, sent, wire, chunks, readBuffer, started, reading,
                       decrypting, place, emitted>>
    PROVE  ReaderInv'
<1>1. ReaderTypes => ReaderTypes'
  BY DEF ReaderTypes
<1>2. /\ Waiting' = Waiting /\ Base' = Base /\ ToBuffer' = ToBuffer
      /\ ToChunks' = ToChunks /\ ToWire' = ToWire
  BY DEF Waiting, Base, ToBuffer, ToChunks, ToWire
<1>3. InPlace => InPlace'
  BY <1>2 DEF InPlace
<1>4. Phase => Phase'
  BY DEF Phase
<1>5. Got => Got'
  BY DEF Got
<1> QED  BY <1>1, <1>3, <1>4, <1>5 DEF ReaderInv

\* Frames go out, in front of them the nonce or the vector.
LEMMA ReaderEncrypted ==
    ASSUME WriterInv, ReaderInv, Encrypted
    PROVE  ReaderInv'
<1>1. /\ link = "encrypting" /\ plan' = plan /\ open' = open
      /\ UNCHANGED <<chunks, readBuffer, started, reading, decrypting, place, emitted,
                     over>>
  BY DEF Encrypted, readVars
<1>2. CASE ~open
  <2>1. wire' = wire /\ sent' = sent
    BY <1>2 DEF Encrypted
  <2> QED  BY <1>1, <2>1, ReaderQuiet
<1>3. CASE open
  <2> SUFFICES ASSUME plan.sameKey PROVE (ReaderTypes /\ InPlace /\ Phase /\ Got)'
    BY <1>1 DEF ReaderInv
  <2> DEFINE pre == IF counter = 0 THEN Prefix ELSE <<>>
             total == Total(plan.aead, sent)
  <2>1. wire' = (wire \o pre) \o Ciphertext /\ sent' = sent \o Unit
    BY <1>3 DEF Encrypted
  <2>2. /\ Len(sent') = Len(sent) + Size /\ Len(sent) \in Nat /\ Size \in Nat
        /\ \A i \in 1..Len(sent) : sent'[i] = sent[i]
        /\ pre \in Seq(Cipher) /\ Ciphertext \in Seq(Cipher)
        /\ At(plan.aead, sent', pre, total)
        /\ At(plan.aead, sent', Ciphertext, total + Len(pre))
        /\ Total(plan.aead, sent') = total + Len(pre) + Len(Ciphertext)
    BY <1>1, <1>3, <2>1, UnitAt
  <2> HIDE DEF pre, total
  <2>3. ReaderTypes /\ InPlace /\ Phase /\ Got
    BY DEF ReaderInv
  <2>4. /\ Waiting' = Waiting /\ Base' = Base /\ ToBuffer' = ToBuffer
        /\ ToChunks' = ToChunks /\ ToWire' = ToWire
    BY <1>1 DEF Waiting, Base, ToBuffer, ToChunks, ToWire
  <2>5. ToWire \in Nat /\ Len(wire) \in Nat /\ Len(pre) \in Nat /\ wire \in Seq(Cipher)
        /\ ToWire + Len(wire) = total /\ Len(Ciphertext) \in Nat
    BY <1>3, <2>2, <2>3, Counts DEF InPlace, ReaderTypes, total
  <2>6. Len(sent) <= Len(sent') /\ Len(sent') \in Nat
    BY <2>2
  <2>7. /\ At(plan.aead, sent', decrypting, Base)
        /\ At(plan.aead, sent', readBuffer, ToBuffer)
        /\ At(plan.aead, sent', Waiting, ToChunks)
        /\ At(plan.aead, sent', wire, ToWire)
    <3> DEFINE y == sent'
    <3>1. \A i \in 1..Len(sent) : y[i] = sent[i]
      BY <2>2
    <3>2. Len(y) \in Nat /\ Len(sent) <= Len(y) /\ Len(sent) \in Nat
      BY <2>2, <2>6
    <3> HIDE DEF y
    <3>3. /\ At(plan.aead, y, decrypting, Base)
          /\ At(plan.aead, y, readBuffer, ToBuffer)
          /\ At(plan.aead, y, Waiting, ToChunks)
          /\ At(plan.aead, y, wire, ToWire)
      BY <2>3, <3>1, <3>2, AtGrow DEF InPlace
    <3> QED  BY <3>3 DEF y
  <2>8. /\ At(plan.aead, sent', wire \o pre, ToWire) /\ wire \o pre \in Seq(Cipher)
        /\ Len(wire \o pre) = Len(wire) + Len(pre)
    BY <2>2, <2>5, <2>7, AtConcat
  <2>9. /\ At(plan.aead, sent', wire', ToWire) /\ wire' \in Seq(Cipher)
        /\ Len(wire') = Len(wire) + Len(pre) + Len(Ciphertext)
    <3> DEFINE w == wire \o pre
    <3> HIDE DEF w
    <3>1. w \in Seq(Cipher) /\ Len(w) = Len(wire) + Len(pre) /\ At(plan.aead, sent', w, ToWire)
      BY <2>8 DEF w
    <3>2. total + Len(pre) = ToWire + Len(w)
      BY <2>5, <3>1
    <3>3. At(plan.aead, sent', Ciphertext, ToWire + Len(w))
      BY <2>2, <3>2
    <3>4. /\ At(plan.aead, sent', w \o Ciphertext, ToWire) /\ w \o Ciphertext \in Seq(Cipher)
          /\ Len(w \o Ciphertext) = Len(w) + Len(Ciphertext)
      BY <2>2, <2>5, <3>1, <3>3, AtConcat
    <3> QED  BY <2>1, <3>1, <3>4 DEF w
  <2>10. InPlace'
    <3>1. ToWire + Len(wire') = Total(plan.aead, sent')
      BY <2>2, <2>5, <2>9 DEF total
    <3> QED  BY <1>1, <2>4, <2>7, <2>9, <3>1 DEF InPlace
  <2>11. ReaderTypes'
    BY <1>1, <2>3, <2>9 DEF ReaderTypes
  <2>12. Phase'
    BY <1>1, <2>3 DEF Phase
  <2>13. Got'
    <3>1. Len(emitted) \in Nat
      BY <2>3, Counts
    <3> QED  BY <1>1, <2>2, <2>3, <2>6, <3>1 DEF Got
  <2> QED  BY <2>10, <2>11, <2>12, <2>13
<1> QED  BY <1>2, <1>3

\* Bytes arrive, cut anywhere.
LEMMA ReaderArrive ==
    ASSUME ReaderInv, NEW n \in 1..Len(wire), Arrive(n)
    PROVE  ReaderInv'
<1>1. /\ chunks' = Append(chunks, SubSeq(wire, 1, n))
      /\ wire' = SubSeq(wire, n + 1, Len(wire))
      /\ UNCHANGED <<plan, open, sent, readBuffer, started, reading, decrypting, place,
                     emitted, over>>
  BY DEF Arrive, writeVars
<1> SUFFICES ASSUME plan.sameKey PROVE (ReaderTypes /\ InPlace /\ Phase /\ Got)'
  BY <1>1 DEF ReaderInv
<1>2. ReaderTypes /\ InPlace /\ Phase /\ Got
  BY DEF ReaderInv
<1>3. /\ Base' = Base /\ ToBuffer' = ToBuffer /\ ToChunks' = ToChunks
  BY <1>1 DEF Base, ToBuffer, ToChunks
<1> DEFINE f == SubSeq(wire, 1, n)
           g == SubSeq(wire, n + 1, Len(wire))
           w == Waiting
<1>4. /\ w \in Seq(Cipher) /\ Len(w) \in Nat /\ Len(wire) \in Nat /\ wire \in Seq(Cipher)
      /\ ToWire \in Nat /\ ToChunks \in Nat /\ ToWire = ToChunks + Len(w)
      /\ chunks \in Seq(Seq(Cipher)) /\ n \in 0..Len(wire) /\ n \in Nat
  BY <1>2, Counts DEF ReaderTypes, ToWire
<1>5. /\ At(plan.aead, sent, w, ToChunks) /\ At(plan.aead, sent, wire, ToWire)
  BY <1>2 DEF InPlace
<1>6. /\ At(plan.aead, sent, f, ToWire) /\ f \in Seq(Cipher) /\ Len(f) = n
      /\ At(plan.aead, sent, g, ToWire + n) /\ g \in Seq(Cipher)
      /\ Len(g) = Len(wire) - n
  BY <1>4, <1>5, AtCut
<1>7. Waiting' = w \o f
  BY <1>1, <1>4, <1>6, FlattenAppend DEF Waiting
<1>8. chunks' \in Seq(Seq(Cipher))
  BY <1>1, <1>4, <1>6
<1> HIDE DEF f, g, w
<1>9. At(plan.aead, sent, w \o f, ToChunks) /\ Len(w \o f) = Len(w) + n
  <2>1. At(plan.aead, sent, f, ToChunks + Len(w))
    BY <1>4, <1>6
  <2> QED  BY <1>4, <1>5, <1>6, <2>1, AtConcat
<1>10. ToWire' = ToWire + n
  <2>1. ToWire' = ToChunks' + Len(Waiting')
    BY DEF ToWire
  <2>2. Len(Waiting') = Len(w) + n
    BY <1>7, <1>9
  <2> QED  BY <1>3, <1>4, <2>1, <2>2
<1>11. ReaderTypes'
  BY <1>1, <1>2, <1>6, <1>8 DEF ReaderTypes, g
<1>12. InPlace'
  <2>1. open => ToWire + Len(wire) = Total(plan.aead, sent)
    BY <1>2 DEF InPlace
  <2>2. wire' = g /\ open' = open
    BY <1>1 DEF g
  <2>3. open' => (ToWire + n) + Len(g) = Total(plan.aead, sent)
    BY <1>4, <1>6, <2>1, <2>2
  <2> QED  BY <1>1, <1>2, <1>3, <1>6, <1>7, <1>9, <1>10, <2>2, <2>3 DEF InPlace
<1>13. Phase' /\ Got'
  BY <1>1, <1>2 DEF Phase, Got
<1> QED  BY <1>11, <1>12, <1>13

\* A chunk is put behind what is left, and the nonce or the vector is taken from
\* the front.
LEMMA ReaderTakeChunk ==
    ASSUME ReaderInv, TakeChunk
    PROVE  ReaderInv'
<1> DEFINE h == Head(chunks)
           r == FlattenSeq(Tail(chunks))
           b == readBuffer \o h
           begins == ~started /\ Len(b) >= Len(Prefix)
<1>1. /\ chunks # <<>> /\ LinkDone /\ chunks' = Tail(chunks) /\ reading' = TRUE
      /\ started' = (started \/ begins)
      /\ readBuffer' = IF begins THEN SubSeq(b, Len(Prefix) + 1, Len(b)) ELSE b
      /\ UNCHANGED <<plan, open, sent, wire, decrypting, place, emitted, over>>
  BY DEF TakeChunk, writeVars
<1> SUFFICES ASSUME plan.sameKey PROVE (ReaderTypes /\ InPlace /\ Phase /\ Got)'
  BY <1>1 DEF ReaderInv
<1>2. ReaderTypes /\ InPlace /\ Phase /\ Got
  BY DEF ReaderInv
<1>3. Len(Prefix) = 2
  BY DEF Prefix
<1>4. Len(decrypting) = 0
  <2>1. Len(decrypting) # 0 => reading
    BY <1>2 DEF Phase
  <2>2. decrypting = <<>> => Len(decrypting) = 0
    BY EmptySeq
  <2> QED  BY <1>1, <2>1, <2>2 DEF LinkDone
<1>5. /\ readBuffer \in Seq(Cipher) /\ chunks \in Seq(Seq(Cipher)) /\ started \in BOOLEAN
      /\ Len(readBuffer) \in Nat /\ Base \in Nat /\ ToBuffer = Base /\ place \in Nat
      /\ ToChunks = Base + Len(readBuffer) /\ ToChunks \in Nat
      /\ Len(Waiting) \in Nat /\ ToWire = ToChunks + Len(Waiting)
  BY <1>2, <1>4, Counts DEF ReaderTypes, ToBuffer, ToChunks, ToWire
<1>6. /\ h \in Seq(Cipher) /\ Tail(chunks) \in Seq(Seq(Cipher)) /\ Waiting = h \o r
  BY <1>1, <1>5, FlattenHead DEF Waiting
<1>7. r \in Seq(Cipher) /\ Waiting' = r
  BY <1>1, <1>6, FlattenType DEF Waiting
<1> HIDE DEF h, r
<1>8. /\ Len(h) \in Nat /\ Len(r) \in Nat /\ Len(Waiting) = Len(h) + Len(r)
  BY <1>6, <1>7, ConcatProperties
<1>9. /\ At(plan.aead, sent, h, ToChunks)
      /\ At(plan.aead, sent, r, ToChunks + Len(h))
  <2>1. At(plan.aead, sent, h \o r, ToChunks)
    BY <1>2, <1>6 DEF InPlace
  <2> QED  BY <1>5, <1>6, <1>7, <2>1, AtApart
<1>10. /\ At(plan.aead, sent, b, Base) /\ b \in Seq(Cipher)
       /\ Len(b) = Len(readBuffer) + Len(h)
  <2>1. At(plan.aead, sent, readBuffer, Base) /\ At(plan.aead, sent, h, Base + Len(readBuffer))
    BY <1>2, <1>5, <1>9 DEF InPlace
  <2> QED  BY <1>5, <1>6, <2>1, AtConcat
<1> HIDE DEF b
<1>11. Base + Len(b) + Len(r) = ToWire /\ ToChunks + Len(h) = Base + Len(b)
  BY <1>5, <1>8, <1>10
<1>12. /\ started' \in BOOLEAN /\ readBuffer' \in Seq(Cipher) /\ Base' \in Nat
       /\ At(plan.aead, sent, readBuffer', Base')
       /\ Base' + Len(readBuffer') = Base + Len(b)
       /\ ~started' => Len(readBuffer') < 2 /\ place = 0
  <2>1. CASE begins
    <3>1. started' = TRUE /\ ~started
      BY <1>1, <2>1
    <3>2. Base = 0 /\ place = 0 /\ Base' = 2
      BY <1>1, <1>2, <3>1 DEF Phase, Base, FirstOf
    <3>3. 2 \in 0..Len(b) /\ readBuffer' = SubSeq(b, 2 + 1, Len(b))
      BY <1>1, <1>3, <1>5, <1>8, <1>10, <2>1
    <3>4. /\ At(plan.aead, sent, readBuffer', 0 + 2) /\ readBuffer' \in Seq(Cipher)
          /\ Len(readBuffer') = Len(b) - 2
      BY <1>10, <3>2, <3>3, AtCut
    <3> QED  BY <1>5, <1>8, <1>10, <3>1, <3>2, <3>4
  <2>2. CASE ~begins
    <3>1. readBuffer' = b
      BY <1>1, <2>2
    <3>2. CASE started
      <4>1. started' = TRUE
        BY <1>1, <3>2
      <4>2. Base' = Base
        BY <1>1, <3>2, <4>1 DEF Base
      <4> QED  BY <1>5, <1>10, <3>1, <4>1, <4>2
    <3>3. CASE ~started
      <4>1. started' = FALSE /\ Len(b) < 2
        BY <1>1, <1>3, <1>5, <1>8, <1>10, <2>2, <3>3
      <4>2. Base' = Base /\ place = 0
        BY <1>1, <1>2, <3>3, <4>1 DEF Base, Phase
      <4> QED  BY <1>5, <1>10, <3>1, <4>1, <4>2
    <3> QED  BY <3>2, <3>3
  <2> QED  BY <2>1, <2>2
<1> HIDE DEF begins
<1>13. /\ ToBuffer' = Base' /\ ToChunks' = Base + Len(b) /\ ToWire' = ToWire
  <2>1. Len(decrypting') = 0
    BY <1>1, <1>4
  <2>2. ToBuffer' = Base'
    <3>1. ToBuffer' = Base' + Len(decrypting')
      BY DEF ToBuffer
    <3>2. PICK z \in Nat : z = Base'
      BY <1>12
    <3>3. ToBuffer' = z + 0
      BY <2>1, <3>1, <3>2, Zenon
    <3>4. z + 0 = z
      OBVIOUS
    <3> QED  BY <3>2, <3>3, <3>4, Zenon
  <2>3. ToChunks' = Base + Len(b)
    BY <1>12, <2>2 DEF ToChunks
  <2>4. ToWire' = ToWire
    BY <1>7, <1>11, <2>3 DEF ToWire
  <2> QED  BY <2>2, <2>3, <2>4
<1>14. ReaderTypes'
  BY <1>1, <1>2, <1>6, <1>12 DEF ReaderTypes
<1>15. InPlace'
  <2>1. At(plan.aead, sent, decrypting, Base')
    BY <1>4 DEF At
  <2>2. At(plan.aead, sent, r, Base + Len(b))
    BY <1>9, <1>11
  <2> QED  BY <1>1, <1>2, <1>7, <1>12, <1>13, <2>1, <2>2 DEF InPlace
<1>16. Phase' /\ Got'
  BY <1>1, <1>2, <1>4, <1>12 DEF Phase, Got
<1> QED  BY <1>14, <1>15, <1>16

\* The next frame, or all there is, is given to the decryption.
LEMMA ReaderDecrypt ==
    ASSUME ReaderInv, Decrypt
    PROVE  ReaderInv'
<1> DEFINE n == NextLen
<1>1. /\ reading /\ decrypting = <<>> /\ Ready
      /\ decrypting' = SubSeq(readBuffer, 1, n)
      /\ readBuffer' = SubSeq(readBuffer, n + 1, Len(readBuffer))
      /\ UNCHANGED <<plan, open, sent, wire, chunks, started, reading, place, emitted,
                     over>>
  BY DEF Decrypt, writeVars
<1> SUFFICES ASSUME plan.sameKey PROVE (ReaderTypes /\ InPlace /\ Phase /\ Got)'
  BY <1>1 DEF ReaderInv
<1>2. ReaderTypes /\ InPlace /\ Phase /\ Got
  BY DEF ReaderInv
<1>3. Len(decrypting) = 0
  BY <1>1, EmptySeq
<1>4. /\ readBuffer \in Seq(Cipher) /\ Len(readBuffer) \in Nat /\ Base \in Nat
      /\ ToBuffer = Base /\ ToChunks = Base + Len(readBuffer)
      /\ Len(Waiting) \in Nat /\ ToWire = ToChunks + Len(Waiting)
  BY <1>2, <1>3, Counts DEF ReaderTypes, ToBuffer, ToChunks, ToWire
<1>5. /\ started /\ n \in 0..Len(readBuffer) /\ n \in Nat /\ (plan.aead => n = 2)
  BY <1>1, <1>4 DEF Ready, NextLen
<1> HIDE DEF n
<1>6. /\ At(plan.aead, sent, decrypting', Base) /\ decrypting' \in Seq(Cipher)
      /\ Len(decrypting') = n
      /\ At(plan.aead, sent, readBuffer', Base + n) /\ readBuffer' \in Seq(Cipher)
      /\ Len(readBuffer') = Len(readBuffer) - n
  <2>1. At(plan.aead, sent, readBuffer, Base)
    BY <1>2, <1>4 DEF InPlace
  <2> QED  BY <1>1, <1>4, <1>5, <2>1, AtCut
<1>7. Base' = Base /\ Waiting' = Waiting
  BY <1>1 DEF Base, Waiting
<1>8. ToBuffer' = Base + n /\ ToChunks' = ToChunks /\ ToWire' = ToWire
  <2>1. /\ ToBuffer' = Base' + Len(decrypting') /\ ToChunks' = ToBuffer' + Len(readBuffer')
        /\ ToWire' = ToChunks' + Len(Waiting')
    BY DEF ToBuffer, ToChunks, ToWire
  <2> QED  BY <1>4, <1>5, <1>6, <1>7, <2>1
<1>9. ReaderTypes'
  BY <1>1, <1>2, <1>6 DEF ReaderTypes
<1>10. InPlace'
  BY <1>1, <1>2, <1>6, <1>7, <1>8 DEF InPlace
<1>11. Phase' /\ Got'
  BY <1>1, <1>2, <1>5, <1>6 DEF Phase, Got
<1> QED  BY <1>9, <1>10, <1>11

\* What comes out of a decryption that began at this place.
LEMMA GotMore ==
    ASSUME ReaderTypes, Got, NEW g \in Seq(Part), Len(sent) \in Nat,
           place + Len(g) <= Len(sent), \A k \in 1..Len(g) : g[k] = sent[place + k],
           Emit(g), place' = place + Len(g), sent' = sent, over' = over
    PROVE  Got' /\ emitted' \in Seq(Part)
<1>1. /\ emitted \in Seq(Part) /\ Len(emitted) \in Nat /\ Len(g) \in Nat /\ place \in Nat
      /\ Len(emitted) <= place /\ (~over => Len(emitted) = place)
      /\ \A i \in 1..Len(emitted) : emitted[i] = sent[i]
      /\ Len(emitted) <= Len(sent)
  BY DEF ReaderTypes, Got
<1>2. CASE over
  <2>1. emitted' = emitted
    BY <1>2 DEF Emit
  <2> QED  BY <1>1, <1>2, <2>1 DEF Got
<1>3. CASE ~over
  <2>1. emitted' = emitted \o g
    BY <1>3 DEF Emit
  <2>2. /\ emitted \o g \in Seq(Part) /\ Len(emitted \o g) = Len(emitted) + Len(g)
        /\ \A i \in 1..(Len(emitted) + Len(g)) :
             (emitted \o g)[i] = IF i <= Len(emitted) THEN emitted[i]
                                 ELSE g[i - Len(emitted)]
    BY <1>1, ConcatProperties
  <2>3. ASSUME NEW i \in 1..(Len(emitted) + Len(g)) PROVE (emitted \o g)[i] = sent[i]
    <3>1. CASE i <= Len(emitted)
      BY <1>1, <2>2, <3>1
    <3>2. CASE ~(i <= Len(emitted))
      <4>1. i - Len(emitted) \in 1..Len(g) /\ place + (i - Len(emitted)) = i
        BY <1>1, <1>3, <3>2
      <4> QED  BY <2>2, <3>2, <4>1
    <3> QED  BY <3>1, <3>2
  <2>4. Len(emitted') = place + Len(g)
    BY <1>1, <1>3, <2>1, <2>2
  <2> QED  BY <1>1, <1>3, <2>1, <2>2, <2>3, <2>4 DEF Got
<1> QED  BY <1>2, <1>3

\* At both ends the same count: what was made at it comes out of it.
LEMMA ReaderDecrypted ==
    ASSUME WriterInv, ReaderInv, Decrypted
    PROVE  ReaderInv'
<1>1. /\ decrypting # <<>> /\ decrypting' = <<>>
      /\ UNCHANGED <<plan, open, sent, wire, chunks, readBuffer, started, reading, over>>
  BY DEF Decrypted, writeVars
<1> SUFFICES ASSUME plan.sameKey PROVE (ReaderTypes /\ InPlace /\ Phase /\ Got)'
  BY <1>1 DEF ReaderInv
<1>2. ReaderTypes /\ InPlace /\ Phase /\ Got
  BY DEF ReaderInv
<1> DEFINE d == Len(decrypting)
<1>3. /\ decrypting \in Seq(Cipher) /\ place \in Nat /\ Base \in Nat /\ d \in Nat \ {0}
      /\ ToBuffer = Base + d /\ ToBuffer \in Nat
  BY <1>1, <1>2, Counts, EmptySeq DEF ReaderTypes, ToBuffer
<1>4. started /\ (plan.aead => d = 2) /\ Base = FirstOf(plan.aead, place + 1)
  BY <1>2, <1>3 DEF Phase, Base
<1>5. sent \in Seq(Part) /\ Len(sent) \in Nat
  BY DEF WriterInv, WriterTypes
<1>6. At(plan.aead, sent, decrypting, FirstOf(plan.aead, place + 1))
  BY <1>2, <1>4 DEF InPlace
<1>7. \E g \in Seq(Part) :
        /\ place + Len(g) <= Len(sent) /\ \A k \in 1..Len(g) : g[k] = sent[place + k]
        /\ Emit(g) /\ place' = place + Len(g)
        /\ (Width(plan.aead) = 2 => Len(g) = 1) /\ (Width(plan.aead) = 1 => Len(g) = d)
  <2>1. CASE plan.aead
    <3>0. Width(plan.aead) = 2 /\ d = 2
      BY <1>4, <2>1 DEF Width
    <3>1. place + 1 \in 1..Len(sent) /\ decrypting[1] = <<sent[place + 1], 1, place>>
      BY <1>3, <1>4, <1>5, <1>6, <3>0, FrameAt
    <3> DEFINE g == <<sent[place + 1]>>
    <3>2. Emit(g) /\ place' = place + 1
      <4>1. Emit(<<decrypting[1][1]>>) /\ place' = place + 1
        BY <2>1 DEF Decrypted
      <4> QED  BY <3>1, <4>1
    <3>3. g \in Seq(Part) /\ Len(g) = 1 /\ g[1] = sent[place + 1]
      BY <1>5, <3>1
    <3> HIDE DEF g
    <3>4. \A k \in 1..Len(g) : g[k] = sent[place + k]
      BY <3>3
    <3>5. place + Len(g) <= Len(sent) /\ place' = place + Len(g)
      BY <1>5, <3>1, <3>2, <3>3
    <3> QED  BY <3>0, <3>2, <3>3, <3>4, <3>5
  <2>2. CASE ~plan.aead
    <3>0. Width(plan.aead) = 1
      BY <2>2 DEF Width
    <3> DEFINE g == [k \in 1..d |-> Plain(k)]
    <3>1. \A k \in 1..d : /\ place + k \in 1..Len(sent)
                          /\ decrypting[k] = <<sent[place + k], 1, place + k - 1>>
      BY <1>3, <1>5, <1>6, <3>0, BytesAt
    <3>2. \A k \in 1..d : Plain(k) = sent[place + k] /\ Plain(k) \in Part
      <4> TAKE k \in 1..d
      <4>1. decrypting[k][3] = place + k - 1 /\ decrypting[k][1] = sent[place + k]
        BY <3>1
      <4>2. sent[place + k] \in Part
        BY <1>5, <3>1
      <4> QED  BY <4>1, <4>2 DEF Plain
    <3>3. Emit(g) /\ place' = place + d
      BY <2>2 DEF Decrypted
    <3>4. g \in Seq(Part) /\ Len(g) = d /\ \A k \in 1..d : g[k] = sent[place + k]
      BY <1>3, <3>2
    <3> HIDE DEF g
    <3>5. place + d <= Len(sent)
      BY <1>3, <1>5, <3>1
    <3> QED  BY <3>0, <3>3, <3>4, <3>5
  <2> QED  BY <2>1, <2>2
<1>8. PICK g \in Seq(Part) :
        /\ place + Len(g) <= Len(sent) /\ \A k \in 1..Len(g) : g[k] = sent[place + k]
        /\ Emit(g) /\ place' = place + Len(g)
        /\ (Width(plan.aead) = 2 => Len(g) = 1) /\ (Width(plan.aead) = 1 => Len(g) = d)
  BY <1>7
<1>9. Got' /\ emitted' \in Seq(Part)
  BY <1>1, <1>2, <1>5, <1>8, GotMore
<1>10. place' \in Nat
  BY <1>3, <1>8
<1>11. Len(decrypting') = 0 /\ decrypting' \in Seq(Cipher)
  BY <1>1, EmptySeq
<1>12. Base' = ToBuffer
  <2>1. Base' = FirstOf(plan.aead, place' + 1)
    BY <1>1, <1>4 DEF Base
  <2>2. CASE Width(plan.aead) = 2
    <3>1. d = 2 /\ Len(g) = 1
      BY <1>4, <1>8, <2>2 DEF Width
    <3>2. place + 1 \in Nat /\ place' + 1 \in Nat /\ place' = place + 1
      BY <1>3, <1>8, <3>1
    <3>3. Base = 2 * (place + 1) /\ Base' = 2 * (place' + 1)
      BY <1>4, <2>1, <2>2, <3>2, FirstIs
    <3> QED  BY <1>3, <3>1, <3>2, <3>3
  <2>3. CASE Width(plan.aead) = 1
    <3>1. place' = place + d
      BY <1>8, <2>3
    <3>2. place + 1 \in Nat /\ place' + 1 \in Nat
      BY <1>3, <3>1
    <3>3. Base = 1 + (place + 1) /\ Base' = 1 + (place' + 1)
      BY <1>4, <2>1, <2>3, <3>2, FirstIs
    <3> QED  BY <1>3, <3>1, <3>3
  <2> QED  BY <2>2, <2>3 DEF Width
<1>13. ToBuffer' = ToBuffer /\ ToChunks' = ToChunks /\ ToWire' = ToWire /\ Waiting' = Waiting
  <2>1. Waiting' = Waiting
    BY <1>1 DEF Waiting
  <2>2. ToBuffer' = Base' + Len(decrypting')
    BY DEF ToBuffer
  <2>3. ToBuffer' = ToBuffer
    BY <1>3, <1>11, <1>12, <2>2
  <2> QED  BY <1>1, <2>1, <2>3 DEF ToChunks, ToWire
<1>14. ReaderTypes'
  BY <1>1, <1>2, <1>9, <1>10, <1>11 DEF ReaderTypes
<1>15. InPlace'
  <2>1. At(plan.aead, sent, decrypting', Base')
    BY <1>11 DEF At
  <2> QED  BY <1>1, <1>2, <1>13, <2>1 DEF InPlace
<1>16. Phase'
  BY <1>1, <1>4, <1>11 DEF Phase
<1> QED  BY <1>9, <1>14, <1>15, <1>16

\* With the same keys no decryption fails.
LEMMA ReaderFails ==
    ASSUME WriterInv, ReaderInv, DecryptFails
    PROVE  ReaderInv'
<1>1. /\ decrypting # <<>> /\ plan.aead /\ ~Authentic /\ plan' = plan
  BY DEF DecryptFails
<1> SUFFICES ASSUME plan.sameKey PROVE FALSE
  BY <1>1 DEF ReaderInv
<1>2. ReaderTypes /\ InPlace /\ Phase /\ Got
  BY DEF ReaderInv
<1>3. decrypting \in Seq(Cipher) /\ place \in Nat /\ Len(decrypting) # 0
  BY <1>1, <1>2, EmptySeq DEF ReaderTypes
<1>4. started /\ Len(decrypting) = 2 /\ Base = FirstOf(plan.aead, place + 1)
  BY <1>1, <1>2, <1>3 DEF Phase, Base
<1>5. Len(sent) \in Nat
  BY DEF WriterInv, WriterTypes
<1>6. At(plan.aead, sent, decrypting, FirstOf(plan.aead, place + 1))
  BY <1>2, <1>4 DEF InPlace
<1>7. decrypting[1] = <<sent[place + 1], 1, place>>
  <2>1. Width(plan.aead) = 2
    BY <1>1 DEF Width
  <2> QED  BY <1>3, <1>4, <1>5, <1>6, <2>1, FrameAt
<1>8. decrypting[1][3] = place
  BY <1>7
<1> QED  BY <1>1, <1>8 DEF Authentic

\* Some of what is underway is lost, all of it behind what is kept.
LEMMA ReaderClose ==
    ASSUME ReaderInv, Close
    PROVE  ReaderInv'
<1>1. PICK n \in 0..Len(wire) : wire' = SubSeq(wire, 1, n)
  BY DEF Close
<1>2. /\ open' = FALSE
      /\ UNCHANGED <<plan, sent, chunks, readBuffer, started, reading, decrypting, place,
                     emitted, over>>
  BY DEF Close, writeVars, readVars
<1> SUFFICES ASSUME plan.sameKey PROVE (ReaderTypes /\ InPlace /\ Phase /\ Got)'
  BY <1>2 DEF ReaderInv
<1>3. ReaderTypes /\ InPlace /\ Phase /\ Got
  BY DEF ReaderInv
<1>4. /\ Waiting' = Waiting /\ Base' = Base /\ ToBuffer' = ToBuffer
      /\ ToChunks' = ToChunks /\ ToWire' = ToWire
  BY <1>2 DEF Waiting, Base, ToBuffer, ToChunks, ToWire
<1>5. At(plan.aead, sent, wire', ToWire) /\ wire' \in Seq(Cipher)
  <2>1. wire \in Seq(Cipher) /\ ToWire \in Nat /\ At(plan.aead, sent, wire, ToWire)
    BY <1>3, Counts DEF ReaderTypes, InPlace
  <2> QED  BY <1>1, <2>1, AtCut
<1>6. InPlace'
  BY <1>2, <1>3, <1>4, <1>5 DEF InPlace
<1>7. ReaderTypes'
  BY <1>2, <1>3, <1>5 DEF ReaderTypes
<1>8. Phase' /\ Got'
  BY <1>2, <1>3 DEF Phase, Got
<1> QED  BY <1>6, <1>7, <1>8

LEMMA ReaderStep == WriterInv /\ ReaderInv /\ [Next]_vars => ReaderInv'
<1> SUFFICES ASSUME WriterInv, ReaderInv, [Next]_vars PROVE ReaderInv'
  OBVIOUS
<1>1. CASE /\ UNCHANGED <<plan, open, sent, wire, chunks, readBuffer, started, reading,
                         decrypting, place, emitted>>
           /\ over' = over \/ over' = TRUE
  <2>1. over => over'
    BY <1>1, Zenon
  <2> QED  BY <1>1, <2>1, ReaderQuiet
<1>2. CASE Write  BY <1>1, <1>2 DEF Write, readVars
<1>3. CASE Encrypt  BY <1>1, <1>3 DEF Encrypt, readVars
<1>4. CASE Encrypted  BY <1>4, ReaderEncrypted
<1>5. CASE WriteOk  BY <1>1, <1>5 DEF WriteOk, readVars
<1>6. CASE WriteFails  BY <1>1, <1>6 DEF WriteFails, readVars
<1>7. CASE Rejected  BY <1>1, <1>7 DEF Rejected, readVars
<1>8. CASE \E n \in 1..Len(wire) : Arrive(n)
  BY <1>8, ReaderArrive
<1>9. CASE TakeChunk  BY <1>9, ReaderTakeChunk
<1>10. CASE Decrypt  BY <1>10, ReaderDecrypt
<1>11. CASE Decrypted  BY <1>11, ReaderDecrypted
<1>12. CASE DecryptFails  BY <1>12, ReaderFails
<1>13. CASE Close  BY <1>13, ReaderClose
<1>14. CASE EndHeard  BY <1>1, <1>14 DEF EndHeard, writeVars
<1>15. CASE UNCHANGED vars  BY <1>1, <1>15 DEF vars, writeVars, readVars
<1> QED
  BY <1>2, <1>3, <1>4, <1>5, <1>6, <1>7, <1>8, <1>9, <1>10, <1>11, <1>12, <1>13,
     <1>14, <1>15 DEF Next

\* With keys that differ no frame authenticates.
Silent == plan.aead /\ ~plan.sameKey => emitted = <<>>

LEMMA SilentStep == Silent /\ [Next]_vars => Silent'
<1> SUFFICES ASSUME Silent, [Next]_vars PROVE Silent'
  OBVIOUS
<1>1. CASE plan' = plan /\ emitted' = emitted
  BY <1>1 DEF Silent
<1>2. CASE Decrypted
  <2>1. plan' = plan
    BY <1>2 DEF Decrypted
  <2>2. ~(plan.aead /\ ~plan.sameKey)
    BY <1>2 DEF Decrypted, Authentic
  <2> QED  BY <2>1, <2>2 DEF Silent
<1>3. CASE Next /\ ~Decrypted
  BY <1>1, <1>3
  DEF Next, Write, Encrypt, Encrypted, WriteOk, WriteFails, Rejected, Arrive, TakeChunk,
      Decrypt, DecryptFails, Close, EndHeard, readVars
<1>4. CASE UNCHANGED vars  BY <1>1, <1>4 DEF vars, readVars
<1> QED  BY <1>2, <1>3, <1>4

CipherInv == WriterInv /\ ReaderInv /\ Silent

LEMMA CipherAlways == Spec => []CipherInv
<1>1. Init => CipherInv
  <2>1. Init => Silent
    BY DEF Init, Silent
  <2> QED  BY <2>1, WriterInit, ReaderInit DEF CipherInv
<1>2. CipherInv /\ [Next]_vars => CipherInv'
  BY WriterStep, ReaderStep, SilentStep DEF CipherInv
<1> QED  BY <1>1, <1>2, PTL DEF Spec

LEMMA CipherOrder == CipherInv => InOrder
<1> SUFFICES ASSUME CipherInv, plan.aead \/ plan.sameKey
             PROVE  /\ IsPrefix(emitted, Written(called))
                    /\ ~plan.sameKey => emitted = <<>>
  BY DEF InOrder
<1>1. WriterInv /\ ReaderInv /\ Silent
  BY DEF CipherInv
<1>2. /\ PlanOK /\ called \in 0..N /\ N \in 0..N /\ called <= N /\ Len(sent) \in Nat
  BY <1>1, PlanType DEF WriterInv, WriterTypes
<1>3. Written(called) \in Seq(Part) /\ Upto(called) \in Nat /\ Len(sent) <= Upto(called)
  BY <1>1, <1>2, SentUpto, WrittenType
<1>4. CASE plan.sameKey
  <2>1. ReaderTypes /\ Got
    BY <1>1, <1>4 DEF ReaderInv
  <2>2. emitted \in Seq(Part) /\ Len(emitted) \in Nat /\ Len(emitted) <= Len(sent)
    BY <2>1 DEF ReaderTypes, Got
  <2>3. \A i \in 1..Len(emitted) : emitted[i] = Written(called)[i]
    <3> TAKE i \in 1..Len(emitted)
    <3>1. i \in 1..Len(sent) /\ i \in 1..Upto(called)
      BY <1>2, <1>3, <2>2
    <3>2. emitted[i] = sent[i] /\ sent[i] = All[i]
      BY <1>1, <2>1, <3>1 DEF Got, WriterInv, SentIs
    <3>3. All[i] = Written(called)[i]
      BY <1>2, <3>1, Earlier DEF All
    <3> QED  BY <3>2, <3>3
  <2>4. Len(emitted) <= Len(Written(called))
    BY <1>2, <1>3, <2>2 DEF Upto
  <2> QED  BY <1>3, <1>4, <2>2, <2>3, <2>4, PrefixIs
<1>5. CASE ~plan.sameKey
  <2>1. emitted = <<>> /\ Len(emitted) = 0 /\ emitted \in Seq(Part)
    BY <1>1, <1>5, EmptySeq DEF Silent
  <2>2. Len(emitted) <= Len(Written(called)) /\ \A i \in 1..Len(emitted) :
          emitted[i] = Written(called)[i]
    BY <1>3, <2>1 DEF Upto
  <2> QED  BY <1>3, <2>1, <2>2, PrefixIs
<1> QED  BY <1>4, <1>5

\* What the owner of the reader gets is what the writers wrote, part after part
\* in the order of their calls of write(), and nothing behind a gap; with keys
\* that differ nothing (readChain in AeadCryptoConn and CryptoConn): for any
\* number of messages of any length, wherever the bytes are cut, and whatever
\* write, decryption or connection fails.
THEOREM Delivered == Spec => []InOrder
BY CipherAlways, CipherOrder, PTL
==============================================================================
