--------------------------- MODULE SequenceFacts ---------------------------
(***************************************************************************)
(* Facts about numbers and sequences that the proofs about streams of      *)
(* bytes rest on: induction, for a set given by its elements, and what     *)
(* FlattenSeq of SequencesExt, which is recursive, computes.               *)
(***************************************************************************)
EXTENDS Integers, SequencesExt, SequenceTheorems, TLAPS, WellFoundedInduction

\* Every set of numbers that is not empty has a least one.
LEMMA Least ==
    ASSUME NEW T \in SUBSET Nat, T # {}
    PROVE  \E x \in T : \A y \in T : x <= y
<1> DEFINE R == {p \in Nat \X Nat : p[1] < p[2]}
<1>1. IsWellFoundedOn(R, Nat)
  BY NatLessThanWellFounded DEF OpToRel
<1>2. \A x, y \in Nat : x < y => <<x, y>> \in R
  OBVIOUS
<1> HIDE DEF R
<1>3. PICK x \in T : \A y \in T : ~(<<y, x>> \in R)
  BY <1>1, WFMin
<1>4. \A y \in T : ~(y < x)
  BY <1>2, <1>3
<1>5. \A y \in T : x \in Nat /\ y \in Nat
  OBVIOUS
<1>6. \A y \in T : x <= y
  BY <1>4, <1>5
<1> QED
  BY <1>6

\* A set with 0, and with the successor of each number in it, has all numbers.
LEMMA Induction ==
    ASSUME NEW S, 0 \in S, \A n \in Nat : n \in S => n + 1 \in S
    PROVE  \A n \in Nat : n \in S
<1> DEFINE T == Nat \ S
<1>1. SUFFICES ASSUME T # {} PROVE FALSE
  OBVIOUS
<1>2. PICK x \in T : \A y \in T : x <= y
  BY <1>1, Least
<1>3. x - 1 \in Nat /\ x - 1 \in S
  BY <1>2
<1> QED
  BY <1>2, <1>3
-----------------------------------------------------------------------------
(* Sequences taken apart and put together.                                   *)

\* An element is added at the end.
LEMMA AppendBehind ==
    ASSUME NEW S, NEW x \in Seq(S), NEW t \in Seq(S), NEW c \in S
    PROVE  x \o Append(t, c) = Append(x \o t, c)
<1>1. <<c>> \in Seq(S) /\ Append(t, c) = t \o <<c>> /\ x \o t \in Seq(S)
  BY AppendIsConcat, ConcatProperties
<1>2. Append(x \o t, c) = (x \o t) \o <<c>>
  BY <1>1, AppendIsConcat
<1> QED  BY <1>1, <1>2, ConcatAssociative

\* An element moves from the front of b to the end of t.  A name for it lets the
\* provers find the sequences it is about.
Moves(x, t, c, b) == (x \o Append(t, c)) \o b = (x \o t) \o Cons(c, b)

LEMMA MoveOver ==
    ASSUME NEW S, NEW x \in Seq(S), NEW t \in Seq(S), NEW b \in Seq(S), NEW c \in S
    PROVE  Moves(x, t, c, b)
<1>1. x \o Append(t, c) = Append(x \o t, c) /\ x \o t \in Seq(S)
  BY AppendBehind, ConcatProperties
<1>2. Append(x \o t, c) = (x \o t) \o <<c>> /\ <<c>> \in Seq(S)
  BY <1>1, AppendIsConcat
<1>3. ((x \o t) \o <<c>>) \o b = (x \o t) \o (<<c>> \o b)
  BY <1>1, <1>2, ConcatAssociative
<1> QED
  BY <1>1, <1>2, <1>3 DEF Moves, Cons

\* The same without the sequence in front.
LEMMA MoveAlone ==
    ASSUME NEW S, NEW t \in Seq(S), NEW b \in Seq(S), NEW c \in S
    PROVE  Append(t, c) \o b = t \o Cons(c, b)
<1>1. Append(t, c) = t \o <<c>> /\ <<c>> \in Seq(S)
  BY AppendIsConcat
<1> QED
  BY <1>1, ConcatAssociative DEF Cons

\* An element in front of one sequence is in front of two.
LEMMA ConsConcat ==
    ASSUME NEW S, NEW c \in S, NEW s \in Seq(S), NEW t \in Seq(S)
    PROVE  Cons(c, s) \o t = Cons(c, s \o t)
<1>1. <<c>> \in Seq(S)
  OBVIOUS
<1> QED  BY <1>1, ConcatAssociative DEF Cons

\* A prefix, element by element.
LEMMA PrefixIs ==
    ASSUME NEW S, NEW s \in Seq(S), NEW t \in Seq(S), Len(s) <= Len(t),
           \A i \in 1..Len(s) : s[i] = t[i]
    PROVE  IsPrefix(s, t)
<1> DEFINE n == Len(s)
           u == SubSeq(s, 1, n)
           v == SubSeq(t, 1, n)
<1>1. n \in Nat /\ Len(t) \in Nat /\ 1 \in Int /\ n \in Int
      /\ (\A i \in 1..n : s[i] \in S) /\ (\A i \in 1..n : t[i] \in S)
  OBVIOUS
<1>2. /\ u \in Seq(S) /\ Len(u) = IF 1 <= n THEN n - 1 + 1 ELSE 0
      /\ \A i \in 1..(n - 1 + 1) : u[i] = s[1 + i - 1]
  BY <1>1, SubSeqProperties
<1>3. /\ v \in Seq(S) /\ Len(v) = IF 1 <= n THEN n - 1 + 1 ELSE 0
      /\ \A i \in 1..(n - 1 + 1) : v[i] = t[1 + i - 1]
  BY <1>1, SubSeqProperties
<1> HIDE DEF u, v
<1>4. Len(u) = Len(v) /\ \A i \in 1..Len(u) : u[i] = v[i]
  BY <1>1, <1>2, <1>3
<1>5. u = v
  BY <1>2, <1>3, <1>4, SeqEqual
<1> QED  BY <1>5 DEF IsPrefix, u, v

LEMMA PrefixAt ==
    ASSUME NEW S, NEW s \in Seq(S), NEW t \in Seq(S), IsPrefix(s, t)
    PROVE  Len(s) <= Len(t) /\ \A i \in 1..Len(s) : s[i] = t[i]
<1> DEFINE n == Len(s)
           u == SubSeq(s, 1, n)
           v == SubSeq(t, 1, n)
<1>1. n \in Nat /\ Len(t) \in Nat /\ n <= Len(t) /\ u = v
  BY DEF IsPrefix
<1>2. \A i \in 1..n : s[i] \in S /\ t[i] \in S
  BY <1>1
<1>3. 1 \in Int /\ n \in Int /\ n - 1 + 1 = n
  BY <1>1
<1>4. \A i \in 1..(n - 1 + 1) : u[i] = s[1 + i - 1]
  BY <1>2, <1>3, SubSeqProperties
<1>5. \A i \in 1..(n - 1 + 1) : v[i] = t[1 + i - 1]
  BY <1>2, <1>3, SubSeqProperties
<1> HIDE DEF u, v
<1>6. \A i \in 1..n : s[i] = t[i]
  <2> TAKE i \in 1..n
  <2>1. i \in 1..(n - 1 + 1) /\ 1 + i - 1 = i
    BY <1>1
  <2>2. u[i] = s[1 + i - 1] /\ v[i] = t[1 + i - 1]
    BY <1>4, <1>5, <2>1
  <2> QED  BY <1>1, <2>1, <2>2
<1> QED  BY <1>1, <1>6

\* What is cut off a prefix is one.
LEMMA PrefixCut ==
    ASSUME NEW S, NEW s \in Seq(S), NEW t \in Seq(S), IsPrefix(s, t), NEW n \in 0..Len(s)
    PROVE  IsPrefix(SubSeq(s, 1, n), t)
<1> DEFINE u == SubSeq(s, 1, n)
<1>1. /\ n \in Nat /\ 1 \in Int /\ n \in Int /\ n - 1 + 1 = n /\ n <= Len(s)
      /\ Len(s) \in Nat /\ Len(t) \in Nat /\ (\A i \in 1..n : s[i] \in S)
  OBVIOUS
<1>2. /\ u \in Seq(S) /\ Len(u) = n
      /\ \A i \in 1..(n - 1 + 1) : u[i] = s[1 + i - 1]
  BY <1>1, SubSeqProperties
<1> HIDE DEF u
<1>3. Len(s) <= Len(t) /\ \A i \in 1..Len(s) : s[i] = t[i]
  BY PrefixAt
<1>4. \A i \in 1..Len(u) : u[i] = t[i]
  <2> TAKE i \in 1..Len(u)
  <2>1. i \in 1..(n - 1 + 1) /\ 1 + i - 1 = i /\ i \in 1..Len(s)
    BY <1>1, <1>2
  <2>2. u[i] = s[1 + i - 1]
    BY <1>2, <2>1
  <2> QED  BY <1>3, <2>1, <2>2
<1>5. Len(u) <= Len(t)
  BY <1>1, <1>2, <1>3
<1>6. IsPrefix(u, t)
  BY <1>2, <1>4, <1>5, PrefixIs
<1> QED  BY <1>6 DEF u

\* A sequence with its first element apart.
LEMMA Behead ==
    ASSUME NEW S, NEW s \in Seq(S), s # <<>>
    PROVE  s = Cons(Head(s), Tail(s)) /\ Head(s) \in S /\ Tail(s) \in Seq(S)
<1>1. Head(s) \in S /\ Tail(s) \in Seq(S) /\ Len(Tail(s)) = Len(s) - 1
      /\ \A i \in 1..Len(Tail(s)) : Tail(s)[i] = s[i + 1]
  BY HeadTailProperties
<1>2. <<Head(s)>> \in Seq(S) /\ Len(<<Head(s)>>) = 1
  BY <1>1
<1> DEFINE t == <<Head(s)>> \o Tail(s)
<1>3. t \in Seq(S) /\ Len(t) = Len(s)
      /\ \A i \in 1..Len(s) : t[i] = IF i <= 1 THEN <<Head(s)>>[i] ELSE Tail(s)[i - 1]
  BY <1>1, <1>2, ConcatProperties
<1>4. \A i \in 1..Len(s) : t[i] = s[i]
  <2> TAKE i \in 1..Len(s)
  <2>1. CASE i = 1  BY <1>3, <2>1
  <2>2. CASE i # 1
    <3>1. i - 1 \in 1..Len(Tail(s)) /\ (i - 1) + 1 = i  BY <1>1, <2>2
    <3> QED  BY <1>1, <1>3, <2>2, <3>1
  <2> QED  BY <2>1, <2>2
<1> HIDE DEF t
<1>5. t = s
  BY <1>3, <1>4, SeqEqual
<1> QED  BY <1>1, <1>5 DEF t, Cons

\* A sequence with its last element apart.
LEMMA LastAppended ==
    ASSUME NEW S, NEW p \in Seq(S), NEW e \in S
    PROVE  Last(Append(p, e)) = e /\ Front(Append(p, e)) = p
<1> DEFINE t == Append(p, e)
           u == SubSeq(t, 1, Len(p))
<1>1. /\ t \in Seq(S) /\ Len(t) = Len(p) + 1 /\ Len(p) \in Nat
      /\ t[Len(p) + 1] = e /\ \A i \in 1..Len(p) : t[i] = p[i] /\ t[i] \in S
  BY AppendProperties
<1>2. Front(t) = SubSeq(t, 1, Len(t) - 1) /\ Last(t) = t[Len(t)]
  BY DEF Front, Last
<1>3. Len(t) - 1 = Len(p)
  BY <1>1
<1> HIDE DEF t
<1>4. /\ u \in Seq(S) /\ Len(u) = (IF 1 <= Len(p) THEN Len(p) - 1 + 1 ELSE 0)
      /\ \A i \in 1..(Len(p) - 1 + 1) : u[i] = t[1 + i - 1]
  <2>1. 1 \in Int /\ Len(p) \in Int
    BY <1>1
  <2> QED  BY <1>1, <2>1, SubSeqProperties
<1> HIDE DEF u
<1>5. Len(u) = Len(p) /\ \A i \in 1..Len(p) : u[i] = p[i]
  BY <1>1, <1>4
<1>6. u = p
  BY <1>4, <1>5, SeqEqual
<1> QED  BY <1>1, <1>2, <1>3, <1>6 DEF t, u

\* A sequence is what its first part and its rest make up.
LEMMA CutAt ==
    ASSUME NEW S, NEW s \in Seq(S), NEW n \in 0..Len(s)
    PROVE  /\ SubSeq(s, 1, n) \in Seq(S) /\ Len(SubSeq(s, 1, n)) = n
           /\ SubSeq(s, n + 1, Len(s)) \in Seq(S)
           /\ Len(SubSeq(s, n + 1, Len(s))) = Len(s) - n
           /\ SubSeq(s, 1, n) \o SubSeq(s, n + 1, Len(s)) = s
<1>1. Len(s) \in Nat /\ n \in Nat /\ n <= Len(s) /\ 1 \in 1..(Len(s) + 1)
      /\ n \in (1 - 1)..Len(s) /\ Len(s) \in n..Len(s)
  OBVIOUS
<1>2. /\ SubSeq(s, 1, n) \in Seq(S)
      /\ Len(SubSeq(s, 1, n)) = IF 1 <= n THEN n - 1 + 1 ELSE 0
  BY <1>1, SubSeqProperties
<1>3. /\ SubSeq(s, n + 1, Len(s)) \in Seq(S)
      /\ Len(SubSeq(s, n + 1, Len(s))) = IF n + 1 <= Len(s) THEN Len(s) - (n + 1) + 1 ELSE 0
  BY <1>1, SubSeqProperties
<1>4. SubSeq(s, 1, n) \o SubSeq(s, n + 1, Len(s)) = SubSeq(s, 1, Len(s))
  BY <1>1, ConcatAdjacentSubSeq
<1>5. SubSeq(s, 1, Len(s)) = s
  BY SubSeqFull
<1> DEFINE u == SubSeq(s, 1, n)
           v == SubSeq(s, n + 1, Len(s))
<1> HIDE DEF u, v
<1>6. u \in Seq(S) /\ Len(u) = n /\ v \in Seq(S) /\ Len(v) = Len(s) - n
  BY <1>1, <1>2, <1>3 DEF u, v
<1>7. u \o v = s
  BY <1>4, <1>5 DEF u, v
<1> QED  BY <1>6, <1>7 DEF u, v

\* A sequence is one of those over any set that has its elements.
LEMMA OfElements ==
    ASSUME NEW S, NEW T, NEW s \in Seq(S), \A i \in 1..Len(s) : s[i] \in T
    PROVE  s \in Seq(T)
<1>1. SubSeq(s, 1, Len(s)) = s /\ Len(s) \in Int /\ 1 \in Int
  BY SubSeqFull
<1> QED  BY <1>1, SubSeqProperties

\* A prefix that is as long as another begins it.
LEMMA PrefixOfPrefix ==
    ASSUME NEW S, NEW s \in Seq(S), NEW t \in Seq(S), NEW n \in Nat,
           n <= Len(s), n <= Len(t), \A i \in 1..n : s[i] = t[i]
    PROVE  SubSeq(s, 1, n) = SubSeq(t, 1, n)
<1>1. 1 \in Int /\ n \in Int /\ n - 1 + 1 = n /\ n <= Len(s) /\ Len(s) \in Nat
      /\ Len(t) \in Nat /\ (\A i \in 1..n : s[i] \in S) /\ (\A i \in 1..n : t[i] \in S)
  OBVIOUS
<1>2. /\ SubSeq(s, 1, n) \in Seq(S) /\ Len(SubSeq(s, 1, n)) = IF 1 <= n THEN n - 1 + 1 ELSE 0
      /\ \A i \in 1..(n - 1 + 1) : SubSeq(s, 1, n)[i] = s[1 + i - 1]
  BY <1>1, SubSeqProperties
<1>3. /\ SubSeq(t, 1, n) \in Seq(S) /\ Len(SubSeq(t, 1, n)) = IF 1 <= n THEN n - 1 + 1 ELSE 0
      /\ \A i \in 1..(n - 1 + 1) : SubSeq(t, 1, n)[i] = t[1 + i - 1]
  BY <1>1, SubSeqProperties
<1> DEFINE u == SubSeq(s, 1, n)
           v == SubSeq(t, 1, n)
<1> HIDE DEF u, v
<1>4. u \in Seq(S) /\ v \in Seq(S) /\ Len(u) = Len(v) /\ \A i \in 1..Len(u) : u[i] = v[i]
  BY <1>1, <1>2, <1>3 DEF u, v
<1> QED  BY <1>4, SeqEqual DEF u, v

-----------------------------------------------------------------------------
(* FlattenSeq.                                                               *)

\* One step of the recursion in FlattenSeq, and the function it defines.
Longer(s, g, i) == IF i = 1 THEN s[i] ELSE g[i - 1] \o s[i]
Flatten(s) == CHOOSE g : g = [i \in 1..Len(s) |-> Longer(s, g, i)]

LEMMA FlattenSeqIs ==
    ASSUME NEW s, Len(s) # 0
    PROVE  FlattenSeq(s) = Flatten(s)[Len(s)]
  BY DEF FlattenSeq, Flatten, Longer

LEMMA FlattenIs ==
    ASSUME NEW S, NEW s \in Seq(Seq(S))
    PROVE  /\ Flatten(s) \in [1..Len(s) -> Seq(S)]
           /\ \A i \in 1..Len(s) : Flatten(s)[i] = Longer(s, Flatten(s), i)
<1> DEFINE N == Len(s)
           D == 1..N
           Upto(k) == \E g \in [D -> Seq(S)] :
                        \A i \in D : i <= k => g[i] = Longer(s, g, i)
           P == {k \in Nat : Upto(k)}
<1>1. N \in Nat /\ \A i \in D : s[i] \in Seq(S)
  OBVIOUS
<1>2. 0 \in P
  <2>1. [i \in D |-> <<>>] \in [D -> Seq(S)]
    OBVIOUS
  <2> QED  BY <2>1
<1>3. ASSUME NEW k \in Nat, k \in P PROVE k + 1 \in P
  <2>1. PICK g \in [D -> Seq(S)] : \A i \in D : i <= k => g[i] = Longer(s, g, i)
    BY <1>3
  <2> DEFINE h == [g EXCEPT ![k + 1] = Longer(s, g, k + 1)]
  <2>2. \A i \in D : Longer(s, g, i) \in Seq(S)
    <3> TAKE i \in D
    <3>1. CASE i = 1  BY <1>1, <3>1 DEF Longer
    <3>2. CASE i # 1
      <4>1. i - 1 \in D  BY <1>1, <3>2
      <4>2. g[i - 1] \in Seq(S) /\ s[i] \in Seq(S)  BY <1>1, <4>1
      <4> QED  BY <3>2, <4>2, ConcatProperties DEF Longer
    <3> QED  BY <3>1, <3>2
  <2>3. h \in [D -> Seq(S)]
    BY <2>2
  <2>4. \A i \in D : i <= k + 1 => h[i] = Longer(s, h, i)
    <3> SUFFICES ASSUME NEW i \in D, i <= k + 1 PROVE h[i] = Longer(s, h, i)
      OBVIOUS
    <3>1. Longer(s, h, i) = Longer(s, g, i)
      BY <1>1 DEF Longer
    <3>2. CASE i = k + 1  BY <3>1, <3>2
    <3>3. CASE i # k + 1
      <4>1. i <= k /\ h[i] = g[i]  BY <1>1, <3>3
      <4> QED  BY <2>1, <3>1, <4>1
    <3> QED  BY <3>2, <3>3
  <2> HIDE DEF h
  <2> QED  BY <2>3, <2>4
<1>4. N \in P
  <2> HIDE DEF P
  <2> QED  BY <1>1, <1>2, <1>3, Induction
<1>5. PICK g \in [D -> Seq(S)] : \A i \in D : g[i] = Longer(s, g, i)
  BY <1>1, <1>4
<1>6. g = [i \in D |-> Longer(s, g, i)]
  BY <1>5
<1>7. Flatten(s) = [i \in D |-> Longer(s, Flatten(s), i)]
  BY <1>6 DEF Flatten
<1> DEFINE f == Flatten(s)
           Q == {k \in Nat : k \in D => f[k] \in Seq(S)}
<1>8. /\ f = [i \in D |-> Longer(s, f, i)]
      /\ \A i \in D : f[i] = Longer(s, f, i)
  BY <1>7
<1> HIDE DEF f
<1>9. \A k \in Nat : k \in Q
  <2>1. 0 \in Q  OBVIOUS
  <2>2. ASSUME NEW k \in Nat, k \in Q PROVE k + 1 \in Q
    <3> SUFFICES ASSUME k + 1 \in D PROVE f[k + 1] \in Seq(S)
      OBVIOUS
    <3>1. CASE k = 0  BY <1>1, <1>8, <3>1 DEF Longer
    <3>2. CASE k # 0
      <4>1. k \in D /\ k + 1 # 1 /\ (k + 1) - 1 = k  BY <1>1, <3>2
      <4>2. f[k + 1] = f[k] \o s[k + 1]
        BY <1>8, <4>1 DEF Longer
      <4> QED  BY <1>1, <2>2, <4>1, <4>2, ConcatProperties
    <3> QED  BY <3>1, <3>2
  <2> HIDE DEF Q
  <2> QED  BY <2>1, <2>2, Induction
<1>10. \A i \in D : f[i] \in Seq(S)
  BY <1>1, <1>9
<1>11. f \in [D -> Seq(S)]
  BY <1>8, <1>10
<1> QED
  BY <1>8, <1>11 DEF f

LEMMA FlattenType ==
    ASSUME NEW S, NEW s \in Seq(Seq(S))
    PROVE  FlattenSeq(s) \in Seq(S) /\ (s = <<>> => FlattenSeq(s) = <<>>)
<1>1. CASE Len(s) = 0
  <2>1. s = <<>>  BY <1>1
  <2> QED  BY <1>1, <2>1 DEF FlattenSeq
<1>2. CASE Len(s) # 0
  <2>1. Len(s) \in 1..Len(s) /\ s # <<>>
    BY <1>2
  <2>2. Flatten(s)[Len(s)] \in Seq(S)
    BY <2>1, FlattenIs
  <2> QED  BY <1>2, <2>1, <2>2, FlattenSeqIs
<1> QED  BY <1>1, <1>2

\* One more sequence adds its elements at the end.
LEMMA FlattenStep ==
    ASSUME NEW S, NEW n \in Nat, NEW s \in Seq(Seq(S)), NEW t \in Seq(Seq(S)),
           Len(s) = n + 1, Len(t) = n, \A i \in 1..n : t[i] = s[i]
    PROVE  FlattenSeq(s) = FlattenSeq(t) \o s[n + 1]
<1> DEFINE f == Flatten(s)
           g == Flatten(t)
           P == {k \in Nat : k \in 1..n => f[k] = g[k]}
<1>1. /\ \A i \in 1..(n + 1) : f[i] = Longer(s, f, i) /\ s[i] \in Seq(S)
      /\ \A i \in 1..n : g[i] = Longer(t, g, i)
  BY FlattenIs
<1> HIDE DEF f, g
<1>2. \A k \in Nat : k \in P
  <2>1. 0 \in P  OBVIOUS
  <2>2. ASSUME NEW k \in Nat, k \in P PROVE k + 1 \in P
    <3> SUFFICES ASSUME k + 1 \in 1..n PROVE f[k + 1] = g[k + 1]
      OBVIOUS
    <3>1. /\ f[k + 1] = Longer(s, f, k + 1) /\ g[k + 1] = Longer(t, g, k + 1)
          /\ s[k + 1] = t[k + 1]
      BY <1>1
    <3>2. CASE k = 0  BY <3>1, <3>2 DEF Longer
    <3>3. CASE k # 0
      <4>1. k \in 1..n /\ k + 1 # 1 /\ (k + 1) - 1 = k  BY <3>3
      <4> QED  BY <2>2, <3>1, <4>1 DEF Longer
    <3> QED  BY <3>2, <3>3
  <2> HIDE DEF P
  <2> QED  BY <2>1, <2>2, Induction
<1>3. FlattenSeq(s) = f[n + 1]
  BY FlattenSeqIs DEF f
<1>4. CASE n = 0
  <2>1. t = <<>> /\ s[1] \in Seq(S) /\ f[1] = s[1]
    BY <1>1, <1>4 DEF Longer
  <2>2. FlattenSeq(t) = <<>>
    BY <2>1, FlattenType
  <2> QED  BY <1>3, <1>4, <2>1, <2>2, ConcatEmptySeq
<1>5. CASE n # 0
  <2>1. FlattenSeq(t) = g[n]
    BY <1>5, FlattenSeqIs DEF g
  <2>2. f[n] = g[n]
    BY <1>2, <1>5
  <2>3. n + 1 \in 1..(n + 1) /\ n + 1 # 1 /\ (n + 1) - 1 = n
    BY <1>5
  <2>4. f[n + 1] = f[n] \o s[n + 1]
    BY <1>1, <2>3 DEF Longer
  <2> QED  BY <1>3, <2>1, <2>2, <2>4
<1> QED  BY <1>4, <1>5

LEMMA FlattenAppend ==
    ASSUME NEW S, NEW s \in Seq(Seq(S)), NEW x \in Seq(S)
    PROVE  FlattenSeq(Append(s, x)) = FlattenSeq(s) \o x
<1> DEFINE t == Append(s, x)
           n == Len(s)
<1>1. /\ t \in Seq(Seq(S)) /\ Len(t) = n + 1 /\ n \in Nat
      /\ t[n + 1] = x /\ \A i \in 1..n : s[i] = t[i]
  BY AppendProperties
<1> HIDE DEF t, n
<1>2. FlattenSeq(t) = FlattenSeq(s) \o t[n + 1]
  BY <1>1, FlattenStep DEF n
<1> QED  BY <1>1, <1>2 DEF t

\* The first sequence is in front.
LEMMA FlattenHead ==
    ASSUME NEW S, NEW s \in Seq(Seq(S)), s # <<>>
    PROVE  /\ Head(s) \in Seq(S) /\ Tail(s) \in Seq(Seq(S))
           /\ FlattenSeq(s) = Head(s) \o FlattenSeq(Tail(s))
<1> DEFINE Q(n) == \A r \in Seq(Seq(S)) :
             Len(r) = n + 1 => FlattenSeq(r) = Head(r) \o FlattenSeq(Tail(r))
           P == {n \in Nat : Q(n)}
<1>1. 0 \in P
  <2> SUFFICES ASSUME NEW r \in Seq(Seq(S)), Len(r) = 1
               PROVE  FlattenSeq(r) = Head(r) \o FlattenSeq(Tail(r))
    OBVIOUS
  <2> DEFINE t == Tail(r)
             h == Head(r)
  <2>0. r # <<>>
    <3>1. Len(r) # Len(<<>>)
      OBVIOUS
    <3> QED  BY <3>1, Zenon
  <2>1. t \in Seq(Seq(S)) /\ t = <<>> /\ h = r[1] /\ h \in Seq(S)
    <3>1. t \in Seq(Seq(S)) /\ Len(t) = 0 /\ h \in Seq(S)
      BY <2>0, HeadTailProperties
    <3>2. h = r[1]
      OBVIOUS
    <3> HIDE DEF t, h
    <3> QED  BY <3>1, <3>2, EmptySeq
  <2> HIDE DEF t, h
  <2>2. FlattenSeq(t) = <<>>
    BY <2>1, FlattenType
  <2>3. FlattenSeq(r) = Flatten(r)[1] /\ Flatten(r)[1] = Longer(r, Flatten(r), 1)
    <3>1. Len(r) # 0 /\ 1 \in 1..Len(r)
      OBVIOUS
    <3> QED  BY <3>1, FlattenSeqIs, FlattenIs
  <2>4. FlattenSeq(r) = h
    BY <2>1, <2>3 DEF Longer
  <2> QED  BY <2>1, <2>2, <2>4, ConcatEmptySeq DEF t, h
<1>2. ASSUME NEW n \in Nat, n \in P PROVE n + 1 \in P
  <2> SUFFICES ASSUME NEW r \in Seq(Seq(S)), Len(r) = (n + 1) + 1
               PROVE  FlattenSeq(r) = Head(r) \o FlattenSeq(Tail(r))
    OBVIOUS
  <2> DEFINE f == SubSeq(r, 1, n + 1)
             t == Tail(r)
             g == Tail(f)
             h == Head(r)
             e == r[n + 2]
  <2>0. /\ f \in Seq(Seq(S)) /\ Len(f) = n + 1 /\ \A i \in 1..(n + 1) : f[i] = r[i]
        /\ h = r[1] /\ h \in Seq(S) /\ e \in Seq(S)
    OBVIOUS
  <2>1. /\ f \in Seq(Seq(S)) /\ Len(f) = n + 1 /\ \A i \in 1..(n + 1) : f[i] = r[i]
        /\ h \in Seq(S) /\ e \in Seq(S) /\ h = Head(f) /\ f # <<>>
    <3> HIDE DEF f, h, e
    <3> QED  BY <2>0
  <2>2. t \in Seq(Seq(S)) /\ Len(t) = n + 1 /\ \A i \in 1..(n + 1) : t[i] = r[i + 1]
    OBVIOUS
  <2>3. g \in Seq(Seq(S)) /\ Len(g) = n /\ \A i \in 1..n : g[i] = f[i + 1]
    <3> HIDE DEF f
    <3> QED  BY <2>1, HeadTailProperties
  <2>4. \A i \in 1..n : g[i] = t[i]
    BY <2>1, <2>2, <2>3
  <2>5. t[n + 1] = e /\ r[(n + 1) + 1] = e /\ n + 1 \in Nat
    BY <2>2
  <2>6. FlattenSeq(f) = h \o FlattenSeq(g)
    BY <1>2, <2>1
  <2> HIDE DEF f, t, g, h, e
  <2>7. FlattenSeq(r) = FlattenSeq(f) \o e
    <3>1. FlattenSeq(r) = FlattenSeq(f) \o r[(n + 1) + 1]
      BY <2>1, <2>5, FlattenStep
    <3> QED  BY <2>5, <3>1
  <2>8. FlattenSeq(t) = FlattenSeq(g) \o e
    <3>1. FlattenSeq(t) = FlattenSeq(g) \o t[n + 1]
      BY <2>2, <2>3, <2>4, FlattenStep
    <3> QED  BY <2>5, <3>1
  <2>9. FlattenSeq(g) \in Seq(S)
    BY <2>3, FlattenType
  <2> DEFINE w == FlattenSeq(g)
  <2> HIDE DEF w
  <2>10. w \in Seq(S) /\ h \in Seq(S) /\ e \in Seq(S)
    BY <2>1, <2>9 DEF w
  <2>11. (h \o w) \o e = h \o (w \o e)
    <3> HIDE DEF P
    <3> QED  BY ONLY <2>10, ConcatAssociative
  <2> QED  BY <2>6, <2>7, <2>8, <2>11 DEF t, h, w
<1> HIDE DEF P
<1>3. Len(s) - 1 \in Nat /\ (Len(s) - 1) + 1 = Len(s)
  OBVIOUS
<1>4. Len(s) - 1 \in P
  BY <1>1, <1>2, <1>3, Induction
<1>5. Q(Len(s) - 1)
  BY <1>4 DEF P
<1>6. FlattenSeq(s) = Head(s) \o FlattenSeq(Tail(s))
  BY <1>3, <1>5
<1> QED  BY <1>6, HeadTailProperties
-----------------------------------------------------------------------------
(* Pieces of given sizes, one behind the other: <<m, k>> is the k-th element of *)
(* the m-th piece.                                                           *)

Numbered == Nat \X Nat
Piece(z, m) == [k \in 1..z[m] |-> <<m, k>>]
Pieces(z, n) == FlattenSeq([m \in 1..n |-> Piece(z, m)])
Reach(z, n) == Len(Pieces(z, n))

LEMMA PieceType ==
    ASSUME NEW z \in Seq(Nat), NEW m \in 1..Len(z)
    PROVE  /\ Piece(z, m) \in Seq(Numbered) /\ Len(Piece(z, m)) = z[m]
           /\ \A k \in 1..z[m] : Piece(z, m)[k] = <<m, k>>
<1>1. z[m] \in Nat /\ m \in Nat
  OBVIOUS
<1>2. \A k \in 1..z[m] : <<m, k>> \in Numbered
  BY <1>1 DEF Numbered
<1> QED  BY <1>1, <1>2, IsASeq DEF Piece

LEMMA PiecesNone == ASSUME NEW z PROVE Pieces(z, 0) = <<>> /\ Reach(z, 0) = 0
<1> DEFINE s == [m \in 1..0 |-> Piece(z, m)]
<1>1. s = <<>> /\ s \in Seq(Seq(Numbered))
  OBVIOUS
<1> HIDE DEF s
<1>2. FlattenSeq(s) = <<>>
  BY <1>1, FlattenType
<1> QED  BY <1>2, EmptySeq DEF Pieces, Reach, s

LEMMA PiecesConcat ==
    ASSUME NEW z \in Seq(Nat), NEW n \in Nat, n < Len(z)
    PROVE  /\ Pieces(z, n) \in Seq(Numbered)
           /\ Pieces(z, n + 1) \in Seq(Numbered)
           /\ Pieces(z, n + 1) = Pieces(z, n) \o Piece(z, n + 1)
<1> DEFINE s == [m \in 1..(n + 1) |-> Piece(z, m)]
           t == [m \in 1..n |-> Piece(z, m)]
<1>1. Len(z) \in Nat /\ \A m \in 1..(n + 1) : m \in 1..Len(z)
  OBVIOUS
<1>2. \A m \in 1..(n + 1) : Piece(z, m) \in Seq(Numbered)
  BY <1>1, PieceType
<1>3. /\ s \in Seq(Seq(Numbered)) /\ Len(s) = n + 1
      /\ t \in Seq(Seq(Numbered)) /\ Len(t) = n
  BY <1>2
<1>4. (\A m \in 1..n : t[m] = s[m]) /\ s[n + 1] = Piece(z, n + 1)
  OBVIOUS
<1> HIDE DEF s, t
<1>5. FlattenSeq(s) = FlattenSeq(t) \o Piece(z, n + 1)
  BY <1>3, <1>4, FlattenStep
<1>6. FlattenSeq(s) \in Seq(Numbered) /\ FlattenSeq(t) \in Seq(Numbered)
  BY <1>3, FlattenType
<1> QED  BY <1>5, <1>6 DEF Pieces, s, t

LEMMA PiecesType ==
    ASSUME NEW z \in Seq(Nat), NEW n \in 0..Len(z)
    PROVE  Pieces(z, n) \in Seq(Numbered) /\ Reach(z, n) \in Nat
<1>1. Pieces(z, n) \in Seq(Numbered)
  <2>1. CASE n = 0
    BY <2>1, PiecesNone, EmptySeq
  <2>2. CASE n # 0
    <3>1. n - 1 \in Nat /\ n - 1 < Len(z) /\ (n - 1) + 1 = n
      BY <2>2
    <3> QED  BY <3>1, PiecesConcat
  <2> QED  BY <2>1, <2>2
<1> QED  BY <1>1 DEF Reach

\* A piece goes behind the ones before it.
LEMMA PiecesStep ==
    ASSUME NEW z \in Seq(Nat), NEW n \in Nat, n < Len(z)
    PROVE  /\ Reach(z, n) \in Nat /\ Reach(z, n + 1) = Reach(z, n) + z[n + 1]
           /\ \A i \in 1..Reach(z, n) : Pieces(z, n + 1)[i] = Pieces(z, n)[i]
           /\ \A k \in 1..z[n + 1] :
                Pieces(z, n + 1)[Reach(z, n) + k] = <<n + 1, k>>
<1>1. n + 1 \in 1..Len(z) /\ z[n + 1] \in Nat
  OBVIOUS
<1>2. /\ Piece(z, n + 1) \in Seq(Numbered) /\ Len(Piece(z, n + 1)) = z[n + 1]
      /\ \A k \in 1..z[n + 1] : Piece(z, n + 1)[k] = <<n + 1, k>>
  BY <1>1, PieceType
<1>3. Pieces(z, n) \in Seq(Numbered) /\ Pieces(z, n + 1) = Pieces(z, n) \o Piece(z, n + 1)
  BY PiecesConcat
<1> DEFINE w == Pieces(z, n)
           v == Piece(z, n + 1)
           l == z[n + 1]
<1> HIDE DEF w, v, l
<1>4. w \in Seq(Numbered) /\ v \in Seq(Numbered) /\ Len(v) = l /\ Len(w) \in Nat
  BY <1>2, <1>3 DEF w, v, l
<1>5. /\ Len(w \o v) = Len(w) + l
      /\ \A i \in 1..(Len(w) + l) :
           (w \o v)[i] = IF i <= Len(w) THEN w[i] ELSE v[i - Len(w)]
  BY <1>4, ConcatProperties
<1>6. l \in Nat /\ \A k \in 1..l : v[k] = <<n + 1, k>>
  BY <1>1, <1>2 DEF l, v
<1>7. \A k \in 1..l : (w \o v)[Len(w) + k] = <<n + 1, k>>
  <2> TAKE k \in 1..l
  <2>1. Len(w) + k \in 1..(Len(w) + l) /\ ~(Len(w) + k <= Len(w))
        /\ (Len(w) + k) - Len(w) = k
    BY <1>4, <1>6
  <2> QED  BY <1>5, <1>6, <2>1
<1>8. \A i \in 1..Len(w) : (w \o v)[i] = w[i]
  BY <1>4, <1>5, <1>6
<1> QED  BY <1>3, <1>4, <1>5, <1>7, <1>8 DEF Reach, w, v, l

\* The first pieces are the beginning of what there is of more pieces.
LEMMA PiecesBegin ==
    ASSUME NEW z \in Seq(Nat), NEW n \in 0..Len(z), NEW m \in 0..Len(z), n <= m
    PROVE  /\ Reach(z, n) <= Reach(z, m)
           /\ \A i \in 1..Reach(z, n) : Pieces(z, m)[i] = Pieces(z, n)[i]
<1> DEFINE Begins(k) ==
             /\ Reach(z, n) <= Reach(z, n + k)
             /\ \A i \in 1..Reach(z, n) : Pieces(z, n + k)[i] = Pieces(z, n)[i]
           P == {k \in Nat : n + k <= Len(z) => Begins(k)}
<1>1. Len(z) \in Nat /\ Reach(z, n) \in Nat
  BY PiecesType
<1>2. 0 \in P
  BY <1>1
<1>3. ASSUME NEW k \in Nat, k \in P PROVE k + 1 \in P
  <2> SUFFICES ASSUME n + (k + 1) <= Len(z) PROVE Begins(k + 1)
    OBVIOUS
  <2>1. n + k \in Nat /\ n + k < Len(z) /\ (n + k) + 1 = n + (k + 1) /\ Begins(k)
    BY <1>1, <1>3
  <2>2. z[(n + k) + 1] \in Nat
    BY <2>1
  <2>3. /\ Reach(z, n + k) \in Nat
        /\ Reach(z, (n + k) + 1) = Reach(z, n + k) + z[(n + k) + 1]
        /\ \A i \in 1..Reach(z, n + k) : Pieces(z, (n + k) + 1)[i] = Pieces(z, n + k)[i]
    BY <2>1, PiecesStep
  <2>4. Reach(z, n) <= Reach(z, (n + k) + 1)
    BY <1>1, <2>1, <2>2, <2>3
  <2>5. \A i \in 1..Reach(z, n) : Pieces(z, (n + k) + 1)[i] = Pieces(z, n)[i]
    BY <1>1, <2>1, <2>3
  <2> QED  BY <2>1, <2>4, <2>5
<1> HIDE DEF P
<1>4. m - n \in Nat
  BY <1>1
<1>5. m - n \in P
  BY <1>2, <1>3, <1>4, Induction
<1>6. n + (m - n) = m /\ m <= Len(z)
  BY <1>1
<1> QED  BY <1>5, <1>6 DEF P

\* What stands where: the elements of a piece, and whose an element is.
LEMMA PieceAt ==
    ASSUME NEW z \in Seq(Nat), NEW m \in 1..Len(z), NEW k \in 1..z[m]
    PROVE  Pieces(z, Len(z))[Reach(z, m - 1) + k] = <<m, k>>
<1>1. /\ m - 1 \in Nat /\ m - 1 < Len(z) /\ (m - 1) + 1 = m /\ m \in 0..Len(z)
      /\ Len(z) \in 0..Len(z) /\ m <= Len(z) /\ z[m] \in Nat
  OBVIOUS
<1>2. /\ Reach(z, m - 1) \in Nat /\ Reach(z, m) = Reach(z, m - 1) + z[m]
      /\ Pieces(z, m)[Reach(z, m - 1) + k] = <<m, k>>
  BY <1>1, PiecesStep
<1>3. Reach(z, m - 1) + k \in 1..Reach(z, m)
  BY <1>1, <1>2
<1> QED  BY <1>1, <1>2, <1>3, PiecesBegin

LEMMA PieceOf ==
    ASSUME NEW z \in Seq(Nat), NEW n \in 0..Len(z), NEW i \in 1..Reach(z, n)
    PROVE  \E m \in 1..n : \E k \in 1..z[m] : i = Reach(z, m - 1) + k
<1> DEFINE Owned(l) == \A j \in 1..Reach(z, l) :
             \E m \in 1..l : \E k \in 1..z[m] : j = Reach(z, m - 1) + k
           P == {l \in Nat : l <= Len(z) => Owned(l)}
<1>1. Len(z) \in Nat
  OBVIOUS
<1>2. 0 \in P
  BY PiecesNone
<1>3. ASSUME NEW l \in Nat, l \in P PROVE l + 1 \in P
  <2> SUFFICES ASSUME l + 1 <= Len(z), NEW j \in 1..Reach(z, l + 1)
               PROVE  \E m \in 1..(l + 1) : \E k \in 1..z[m] : j = Reach(z, m - 1) + k
    OBVIOUS
  <2>1. l < Len(z) /\ Owned(l) /\ z[l + 1] \in Nat
    BY <1>1, <1>3
  <2>2. Reach(z, l) \in Nat /\ Reach(z, l + 1) = Reach(z, l) + z[l + 1]
    BY <2>1, PiecesStep
  <2>3. CASE j <= Reach(z, l)
    <3>1. PICK m \in 1..l : \E k \in 1..z[m] : j = Reach(z, m - 1) + k
      BY <2>1, <2>2, <2>3
    <3>2. m \in 1..(l + 1)
      OBVIOUS
    <3> QED  BY <3>1, <3>2
  <2>4. CASE ~(j <= Reach(z, l))
    <3> DEFINE k == j - Reach(z, l)
    <3>1. k \in 1..z[l + 1] /\ j = Reach(z, l) + k /\ l + 1 \in 1..(l + 1)
          /\ (l + 1) - 1 = l
      BY <2>1, <2>2, <2>4
    <3> HIDE DEF k
    <3>2. j = Reach(z, (l + 1) - 1) + k
      BY <3>1
    <3> QED  BY <3>1, <3>2
  <2> QED  BY <2>3, <2>4
<1> HIDE DEF P
<1>4. n \in Nat /\ n <= Len(z)
  BY <1>1
<1>5. n \in P
  BY <1>2, <1>3, <1>4, Induction
<1>6. Owned(n)
  BY <1>4, <1>5 DEF P
<1> QED  BY <1>6

\* No element of a piece is among those of the pieces before it.
LEMMA PieceOwner ==
    ASSUME NEW z \in Seq(Nat), NEW n \in 0..Len(z), NEW i \in 1..Reach(z, n)
    PROVE  Pieces(z, Len(z))[i] \in Numbered /\ Pieces(z, Len(z))[i][1] <= n
<1>1. PICK m \in 1..n : \E k \in 1..z[m] : i = Reach(z, m - 1) + k
  BY PieceOf
<1>2. PICK k \in 1..z[m] : i = Reach(z, m - 1) + k
  BY <1>1
<1>3. m \in 1..Len(z) /\ m \in Nat /\ k \in Nat /\ m <= n
  OBVIOUS
<1>4. Pieces(z, Len(z))[i] = <<m, k>>
  BY <1>2, <1>3, PieceAt
<1> QED  BY <1>3, <1>4 DEF Numbered
=============================================================================
