---------------------------- MODULE PacketProofs ----------------------------
(***************************************************************************)
(* What is read from a stream of packets, for any packets that the types   *)
(* of lwmqtt can hold, streams and buffers of any size, and bytes that     *)
(* arrive in any pieces.                                                   *)
(***************************************************************************)
EXTENDS PacketStream, WellFoundedInduction, TLAPS

(***************************************************************************)
(* Induction.  A set of numbers that is not empty has a least element: an  *)
(* induction is a proof that the least counterexample is none.             *)
(***************************************************************************)
LessThan == {ss \in Nat \X Nat : ss[1] < ss[2]}

(* The order of the natural numbers, as the library states it.             *)
LEMMA LessIsWellFounded == IsWellFoundedOn(LessThan, Nat)
<1>1. OpToRel(<, Nat) = LessThan
  BY Zenon DEF OpToRel, LessThan
<1>. QED
  BY NatLessThanWellFounded, <1>1, Zenon

(* The least number of a set.                                              *)
LEMMA LeastOf ==
    ASSUME NEW T, T \subseteq Nat, T # {}
    PROVE  \E x \in T : \A y \in T : x <= y
<1>1. PICK x \in T : \A y \in T : ~ (<<y, x>> \in LessThan)
  BY WFMin, LessIsWellFounded
<1>2. ASSUME NEW y \in T PROVE x <= y
  <2>1. x \in Nat /\ y \in Nat
    OBVIOUS
  <2>2. y < x => <<y, x>> \in LessThan
    BY <2>1 DEF LessThan
  <2>. QED
    BY <1>1, <2>1, <2>2
<1>. QED
  BY <1>2

(* A set of numbers that holds 0 and with each number the next one holds   *)
(* all of them: the form in which the proofs below use it.                 *)
LEMMA Induction ==
    ASSUME NEW T, 0 \in T, \A n \in Nat : n \in T => n + 1 \in T
    PROVE  Nat \subseteq T
<1>. SUFFICES ASSUME Nat \ T # {} PROVE FALSE
  OBVIOUS
<1>1. PICK m \in Nat \ T : \A y \in Nat \ T : m <= y
  BY LeastOf
<1>2. m # 0 /\ m - 1 \in Nat
  BY <1>1
<1>3. m - 1 \in T
  BY <1>1, <1>2
<1>4. (m - 1) + 1 \in T
  BY <1>2, <1>3
<1>. QED
  BY <1>1, <1>4

(***************************************************************************)
(* The bytes of a list of packets, one after the other: FlattenSeq of the  *)
(* community modules, whose recursive function is known to exist once it   *)
(* is built step by step.                                                  *)
(***************************************************************************)
Join(s, t) == s \o t
FlatTo(ss, n, g) == g = [i \in 1 .. n |-> IF i = 1 THEN ss[i] ELSE Join(g[i - 1], ss[i])]

(* What is known of Join: the proofs about lists need no more than this.   *)
LEMMA JoinType ==
    ASSUME NEW S, NEW a \in Seq(S), NEW b \in Seq(S)
    PROVE  Join(a, b) \in Seq(S)
BY DEF Join

(* Three sequences joined from either side.                                *)
LEMMA JoinTwice ==
    ASSUME NEW S, NEW a \in Seq(S), NEW b \in Seq(S), NEW c \in Seq(S)
    PROVE  Join(Join(a, b), c) = Join(a, Join(b, c))
BY DEF Join

(* Sequences with the same elements are the same.                          *)
LEMMA SameSequence ==
    ASSUME NEW S, NEW a \in Seq(S), NEW b \in Seq(S), Len(a) = Len(b),
           \A i \in 1 .. Len(a) : a[i] = b[i]
    PROVE  a = b
OBVIOUS

(* A function on 1 .. n is a sequence of n elements.                       *)
LEMMA FunctionIsSequence ==
    ASSUME NEW S, NEW n \in Nat, NEW f \in [1 .. n -> S]
    PROVE  f \in Seq(S) /\ Len(f) = n
OBVIOUS

(* Nothing joined to a sequence.                                           *)
LEMMA JoinNothing ==
    ASSUME NEW S, NEW a \in Seq(S)
    PROVE  Join(<<>>, a) = a /\ Join(a, <<>>) = a
<1>1. Join(<<>>, a) = a
  BY DEF Join
<1>2. Join(a, <<>>) = a
  BY DEF Join
<1>. QED
  BY <1>1, <1>2

(* The recursive function of FlattenSeq exists.                            *)
LEMMA FlatExists ==
    ASSUME NEW ss, NEW n \in Nat
    PROVE  \E g : FlatTo(ss, n, g)
<1>. DEFINE T == {m \in Nat : \E g : FlatTo(ss, m, g)}
<1>1. FlatTo(ss, 0, [i \in 1 .. 0 |-> 0])
  BY DEF FlatTo
<1>2. ASSUME NEW m \in Nat, NEW g, FlatTo(ss, m, g)
      PROVE  \E h : FlatTo(ss, m + 1, h)
  <2>. DEFINE h == [i \in 1 .. m + 1 |->
                      IF i = m + 1 THEN IF i = 1 THEN ss[i] ELSE Join(g[i - 1], ss[i]) ELSE g[i]]
  <2>1. \A i \in 1 .. m : g[i] = IF i = 1 THEN ss[i] ELSE Join(g[i - 1], ss[i])
    BY <1>2 DEF FlatTo
  <2>2. ASSUME NEW i \in 1 .. m + 1
        PROVE  h[i] = IF i = 1 THEN ss[i] ELSE Join(h[i - 1], ss[i])
    <3>1. i # 1 => i - 1 \in 1 .. m /\ h[i - 1] = g[i - 1]
      OBVIOUS
    <3>2. CASE i = m + 1
      BY <3>1, <3>2
    <3>3. CASE i # m + 1
      <4>1. i \in 1 .. m /\ h[i] = g[i]
        BY <3>3
      <4>. QED
        BY <3>1, <4>1, <2>1
    <3>. QED
      BY <3>2, <3>3
  <2>. QED
    <3>1. h = [i \in 1 .. m + 1 |-> h[i]]
      OBVIOUS
    <3>. HIDE DEF h
    <3>2. h = [i \in 1 .. m + 1 |-> IF i = 1 THEN ss[i] ELSE Join(h[i - 1], ss[i])]
      BY <2>2, <3>1, Zenon
    <3>. QED
      BY <3>2 DEF FlatTo
<1>3. 0 \in T
  BY <1>1
<1>4. \A m \in Nat : m \in T => m + 1 \in T
  BY <1>2
<1>5. Nat \subseteq T
  <2>. HIDE DEF T
  <2>. QED BY <1>3, <1>4, Induction
<1>. QED
  BY <1>5

(* What FlattenSeq is: the last value of that function.                    *)
LEMMA FlattenIs ==
    ASSUME NEW S, NEW ss \in Seq(Seq(S)), ss # <<>>
    PROVE  \E g : /\ FlatTo(ss, Len(ss), g)
                  /\ FlattenSeq(ss) = g[Len(ss)]
<1>. DEFINE flatten[i \in 1 .. Len(ss)] == IF i = 1 THEN ss[i] ELSE flatten[i - 1] \o ss[i]
<1>0. Len(ss) \in Nat
  OBVIOUS
<1>1. \E g : FlatTo(ss, Len(ss), g)
  BY <1>0, FlatExists
<1>2. flatten = [i \in 1 .. Len(ss) |-> IF i = 1 THEN ss[i] ELSE flatten[i - 1] \o ss[i]]
  BY <1>1, Zenon DEF FlatTo, Join
<1>3. Len(ss) # 0
  OBVIOUS
<1>4. FlattenSeq(ss) = flatten[Len(ss)]
  BY <1>3, Zenon DEF FlattenSeq
<1>. HIDE DEF flatten
<1>. QED
  BY <1>2, <1>4, Zenon DEF FlatTo, Join

(* The recursion, one step at a time, and the types of its values.         *)
LEMMA FlatSteps ==
    ASSUME NEW S, NEW ss \in Seq(Seq(S)), NEW g, FlatTo(ss, Len(ss), g)
    PROVE  /\ ss # <<>> => g[1] = ss[1]
           /\ \A i \in 1 .. Len(ss) - 1 : g[i + 1] = Join(g[i], ss[i + 1])
           /\ \A i \in 1 .. Len(ss) : g[i] \in Seq(S)
<1>0. Len(ss) \in Nat /\ (ss # <<>> => 1 \in 1 .. Len(ss))
  OBVIOUS
<1>1. ss # <<>> => g[1] = ss[1]
  BY <1>0 DEF FlatTo
<1>2. ASSUME NEW i \in 1 .. Len(ss) - 1 PROVE g[i + 1] = Join(g[i], ss[i + 1])
  <2>1. i + 1 \in 1 .. Len(ss) /\ i + 1 # 1 /\ (i + 1) - 1 = i
    BY <1>0
  <2>. QED
    BY <2>1 DEF FlatTo
<1>. DEFINE T == {n \in Nat : n \in 1 .. Len(ss) => g[n] \in Seq(S)}
<1>3. 0 \in T
  OBVIOUS
<1>4. ASSUME NEW n \in Nat, n \in T PROVE n + 1 \in T
  <2>. SUFFICES ASSUME n + 1 \in 1 .. Len(ss) PROVE g[n + 1] \in Seq(S)
    OBVIOUS
  <2>1. ss[n + 1] \in Seq(S)
    OBVIOUS
  <2>2. CASE n = 0
    BY <2>1, <2>2, <1>1
  <2>3. CASE n # 0
    <3>1. n \in 1 .. Len(ss) - 1 /\ g[n] \in Seq(S)
      BY <2>3, <1>4, <1>0
    <3>2. g[n + 1] = Join(g[n], ss[n + 1])
      BY <3>1, <1>2
    <3>3. Join(g[n], ss[n + 1]) \in Seq(S)
      BY <3>1, <2>1, JoinType
    <3>. QED
      BY <3>2, <3>3
  <2>. QED
    BY <2>2, <2>3
<1>5. Nat \subseteq T
  <2>. HIDE DEF T
  <2>. QED BY <1>3, <1>4, Induction
<1>6. \A i \in 1 .. Len(ss) : g[i] \in Seq(S)
  BY <1>5
<1>. QED
  BY <1>1, <1>2, <1>6

(* FlattenSeq returns a sequence.                                          *)
LEMMA FlattenType ==
    ASSUME NEW S, NEW ss \in Seq(Seq(S))
    PROVE  /\ FlattenSeq(ss) \in Seq(S)
           /\ ss = <<>> => FlattenSeq(ss) = <<>>
<1>1. CASE ss = <<>>
  BY <1>1 DEF FlattenSeq
<1>2. CASE ss # <<>>
  <2>1. PICK g : FlatTo(ss, Len(ss), g) /\ FlattenSeq(ss) = g[Len(ss)]
    BY <1>2, FlattenIs
  <2>2. Len(ss) \in 1 .. Len(ss)
    BY <1>2
  <2>3. \A i \in 1 .. Len(ss) : g[i] \in Seq(S)
    BY <2>1, FlatSteps, Zenon
  <2>. QED
    BY <1>2, <2>1, <2>2, <2>3
<1>. QED
  BY <1>1, <1>2

(* A list with one more element at its end.                                *)
LEMMA FlattenAppend ==
    ASSUME NEW S, NEW ss \in Seq(Seq(S)), NEW x \in Seq(S)
    PROVE  FlattenSeq(Append(ss, x)) = Join(FlattenSeq(ss), x)
<1>. DEFINE tt == Append(ss, x)
<1>0. tt \in Seq(Seq(S)) /\ Len(tt) = Len(ss) + 1 /\ Len(ss) \in Nat
  OBVIOUS
<1>t. tt[Len(ss) + 1] = x /\ \A i \in 1 .. Len(ss) : tt[i] = ss[i]
  OBVIOUS
<1>1. /\ tt \in Seq(Seq(S)) /\ tt # <<>> /\ Len(tt) = Len(ss) + 1 /\ Len(ss) \in Nat
      /\ tt[Len(ss) + 1] = x /\ \A i \in 1 .. Len(ss) : tt[i] = ss[i]
  <2>. HIDE DEF tt
  <2>1. tt # <<>>
    BY <1>0
  <2>. QED BY <1>0, <1>t, <2>1
<1>. HIDE DEF tt
<1>2. PICK h : FlatTo(tt, Len(tt), h) /\ FlattenSeq(tt) = h[Len(tt)]
  BY <1>1, FlattenIs
<1>f. /\ tt # <<>> => h[1] = tt[1]
      /\ \A i \in 1 .. Len(tt) - 1 : h[i + 1] = Join(h[i], tt[i + 1])
      /\ \A i \in 1 .. Len(tt) : h[i] \in Seq(S)
  BY <1>1, <1>2, FlatSteps, Zenon
<1>l. Len(tt) - 1 = Len(ss)
  BY <1>1
<1>3. /\ h[1] = tt[1]
      /\ \A i \in 1 .. Len(ss) : h[i + 1] = Join(h[i], tt[i + 1])
  BY <1>1, <1>f, <1>l, Zenon
<1>4. CASE ss = <<>>
  <2>1. FlattenSeq(ss) = <<>> /\ Len(ss) = 0
    BY <1>4, FlattenType
  <2>2. FlattenSeq(tt) = x
    BY <1>1, <1>2, <1>3, <2>1
  <2>. QED
    BY <2>1, <2>2, JoinNothing DEF tt
<1>5. CASE ss # <<>>
  <2>1. PICK g : FlatTo(ss, Len(ss), g) /\ FlattenSeq(ss) = g[Len(ss)]
    BY <1>5, FlattenIs
  <2>f. /\ ss # <<>> => g[1] = ss[1]
        /\ \A i \in 1 .. Len(ss) - 1 : g[i + 1] = Join(g[i], ss[i + 1])
        /\ \A i \in 1 .. Len(ss) : g[i] \in Seq(S)
    BY <2>1, FlatSteps, Zenon
  <2>2. /\ g[1] = ss[1]
        /\ \A i \in 1 .. Len(ss) - 1 : g[i + 1] = Join(g[i], ss[i + 1])
    BY <1>5, <2>f
  <2>. DEFINE T == {n \in Nat : n \in 1 .. Len(ss) => g[n] = h[n]}
  <2>3. 0 \in T
    OBVIOUS
  <2>4. ASSUME NEW n \in Nat, n \in T PROVE n + 1 \in T
    <3>. SUFFICES ASSUME n + 1 \in 1 .. Len(ss) PROVE g[n + 1] = h[n + 1]
      OBVIOUS
    <3>1. tt[n + 1] = ss[n + 1]
      BY <1>1
    <3>2. CASE n = 0
      BY <3>1, <3>2, <1>3, <2>2
    <3>3. CASE n # 0
      <4>1. n \in 1 .. Len(ss) - 1 /\ n \in 1 .. Len(ss) /\ g[n] = h[n]
        <5>1. n \in 1 .. Len(ss) - 1 /\ n \in 1 .. Len(ss)
          BY <3>3, <1>1
        <5>2. g[n] = h[n]
          BY <2>4, <5>1, Zenon
        <5>. QED
          BY <5>1, <5>2
      <4>. QED
        BY <4>1, <3>1, <1>3, <2>2
    <3>. QED
      BY <3>2, <3>3
  <2>5. Nat \subseteq T
    <3>. HIDE DEF T
    <3>. QED BY <2>3, <2>4, Induction
  <2>6. Len(ss) \in 1 .. Len(ss)
    BY <1>5
  <2>7. g[Len(ss)] = h[Len(ss)]
    BY <2>5, <2>6
  <2>8. h[Len(ss) + 1] = Join(h[Len(ss)], x)
    BY <2>6, <1>1, <1>3
  <2>. QED
    BY <2>1, <2>7, <2>8, <1>1, <1>2 DEF tt
<1>. QED
  BY <1>4, <1>5

(* A list without its first element.                                       *)
LEMMA FlattenTail ==
    ASSUME NEW S, NEW ss \in Seq(Seq(S)), ss # <<>>
    PROVE  FlattenSeq(ss) = Join(ss[1], FlattenSeq(Tail(ss)))
<1>. DEFINE tt == Tail(ss)
<1>1. /\ tt \in Seq(Seq(S)) /\ Len(tt) = Len(ss) - 1 /\ Len(ss) \in Nat /\ Len(ss) >= 1
      /\ \A i \in 1 .. Len(ss) - 1 : tt[i] = ss[i + 1]
      /\ ss[1] \in Seq(S) /\ Len(tt) \in Nat
      /\ \A i \in 1 .. Len(tt) : tt[i] \in Seq(S)
  OBVIOUS
<1>. HIDE DEF tt
<1>2. PICK h : FlatTo(ss, Len(ss), h) /\ FlattenSeq(ss) = h[Len(ss)]
  BY FlattenIs
<1>f. /\ ss # <<>> => h[1] = ss[1]
      /\ \A i \in 1 .. Len(ss) - 1 : h[i + 1] = Join(h[i], ss[i + 1])
      /\ \A i \in 1 .. Len(ss) : h[i] \in Seq(S)
  BY <1>2, FlatSteps, Zenon
<1>3. /\ h[1] = ss[1]
      /\ \A i \in 1 .. Len(ss) - 1 : h[i + 1] = Join(h[i], ss[i + 1])
  BY <1>f
<1>4. CASE tt = <<>>
  <2>a. FlattenSeq(tt) = <<>>
    BY <1>1, <1>4, FlattenType
  <2>b. Len(tt) = 0
    BY <1>4
  <2>1. FlattenSeq(tt) = <<>> /\ Len(ss) = 1
    BY <1>1, <2>a, <2>b
  <2>2. FlattenSeq(ss) = ss[1]
    BY <1>2, <1>3, <2>1
  <2>. QED
    BY <1>1, <2>1, <2>2, JoinNothing DEF tt
<1>5. CASE tt # <<>>
  <2>1. PICK g : FlatTo(tt, Len(tt), g) /\ FlattenSeq(tt) = g[Len(tt)]
    BY <1>1, <1>5, FlattenIs
  <2>f. /\ tt # <<>> => g[1] = tt[1]
        /\ \A i \in 1 .. Len(tt) - 1 : g[i + 1] = Join(g[i], tt[i + 1])
        /\ \A i \in 1 .. Len(tt) : g[i] \in Seq(S)
    BY <1>1, <2>1, FlatSteps, Zenon
  <2>2. /\ g[1] = tt[1]
        /\ \A i \in 1 .. Len(tt) - 1 : g[i + 1] = Join(g[i], tt[i + 1])
        /\ \A i \in 1 .. Len(tt) : g[i] \in Seq(S)
    BY <1>5, <2>f
  <2>. DEFINE Joined(n) == h[n + 1] = Join(ss[1], g[n])
              T == {n \in Nat : n \in 1 .. Len(tt) => Joined(n)}
  <2>3. 0 \in T
    <3>. HIDE DEF Joined
    <3>. QED OBVIOUS
  <2>4. ASSUME NEW n \in Nat, n \in T PROVE n + 1 \in T
    <3>. SUFFICES ASSUME n + 1 \in 1 .. Len(tt) PROVE Joined(n + 1)
      <4>. HIDE DEF Joined
      <4>. QED OBVIOUS
    <3>0. n \in 1 .. Len(tt) => Joined(n)
      <4>. HIDE DEF Joined
      <4>. QED BY <2>4
    <3>1. /\ n + 1 \in 1 .. Len(ss) - 1
          /\ tt[n + 1] = ss[(n + 1) + 1] /\ tt[n + 1] \in Seq(S)
      BY <1>1
    <3>2. h[(n + 1) + 1] = Join(h[n + 1], tt[n + 1])
      BY <3>1, <1>3
    <3>3. CASE n = 0
      <4>1. 1 \in 1 .. Len(tt) /\ h[1] = ss[1] /\ g[1] = tt[1]
        BY <3>3, <1>3, <2>2
      <4>2. n + 1 = 1
        BY <3>3
      <4>3. h[1 + 1] = Join(h[1], tt[1])
        BY <3>2, <4>2, Zenon
      <4>. QED
        BY <4>1, <4>2, <4>3, Zenon
    <3>4. CASE n # 0
      <4>1. n \in 1 .. Len(tt) - 1 /\ n \in 1 .. Len(tt)
        BY <3>4, <1>1
      <4>2. g[n] \in Seq(S) /\ g[n + 1] = Join(g[n], tt[n + 1])
        BY <4>1, <2>2
      <4>3. ss[1] \in Seq(S) /\ tt[n + 1] \in Seq(S)
        BY <1>1, <3>1
      <4>4. h[n + 1] = Join(ss[1], g[n])
        BY <3>0, <4>1
      <4>5. Join(h[n + 1], tt[n + 1]) = Join(ss[1], g[n + 1])
        <5>1. Join(Join(ss[1], g[n]), tt[n + 1]) = Join(ss[1], Join(g[n], tt[n + 1]))
          BY <4>2, <4>3, JoinTwice
        <5>. QED
          BY <4>2, <4>4, <5>1
      <4>. QED
        BY <3>2, <4>5, Zenon
    <3>. QED
      BY <3>3, <3>4
  <2>5. Nat \subseteq T
    <3>. HIDE DEF T
    <3>. QED BY <2>3, <2>4, Induction
  <2>6. Len(tt) \in 1 .. Len(tt) /\ Len(tt) + 1 = Len(ss)
    BY <1>1, <1>5
  <2>7. h[Len(tt) + 1] = Join(ss[1], g[Len(tt)])
    <3>. HIDE DEF Joined
    <3>1. Joined(Len(tt))
      BY <2>5, <2>6
    <3>. QED BY <3>1 DEF Joined
  <2>. QED
    BY <2>1, <2>6, <2>7, <1>2 DEF tt
<1>. QED
  BY <1>4, <1>5
(***************************************************************************)
(* Sums over a list, as the recursive functions of Packet compute them.    *)
(***************************************************************************)
SumTo(t, n, g) == g = [i \in 0 .. n |-> IF i = 0 THEN 0 ELSE g[i - 1] + t[i]]

(* The function of the partial sums exists.                                *)
LEMMA SumExists ==
    ASSUME NEW t, NEW n \in Nat
    PROVE  \E g : SumTo(t, n, g)
<1>. DEFINE T == {m \in Nat : \E g : SumTo(t, m, g)}
<1>1. SumTo(t, 0, [i \in 0 .. 0 |-> 0])
  BY DEF SumTo
<1>2. ASSUME NEW m \in Nat, NEW g, SumTo(t, m, g)
      PROVE  \E h : SumTo(t, m + 1, h)
  <2>. DEFINE h == [i \in 0 .. m + 1 |-> IF i = m + 1 THEN g[m] + t[m + 1] ELSE g[i]]
  <2>1. \A i \in 0 .. m + 1 : h[i] = IF i = 0 THEN 0 ELSE h[i - 1] + t[i]
    BY <1>2 DEF SumTo
  <2>2. h = [i \in 0 .. m + 1 |-> h[i]]
    OBVIOUS
  <2>. HIDE DEF h
  <2>3. h = [i \in 0 .. m + 1 |-> IF i = 0 THEN 0 ELSE h[i - 1] + t[i]]
    BY <2>1, <2>2, Zenon
  <2>. QED
    BY <2>3 DEF SumTo
<1>3. 0 \in T
  BY <1>1
<1>4. \A m \in Nat : m \in T => m + 1 \in T
  BY <1>2
<1>5. Nat \subseteq T
  <2>. HIDE DEF T
  <2>. QED BY <1>3, <1>4, Induction
<1>. QED
  BY <1>5

(***************************************************************************)
(* The variable-length numbers of helpers.c.                               *)
(***************************************************************************)

(* A byte is a number, and a number below 256 is a byte.                   *)
LEMMA ByteFacts == \A x : x \in Byte <=> (x \in Int /\ 0 <= x /\ x < 256)
BY DEF Byte

(* So is a number of 16 bits.                                              *)
LEMMA WordFacts == \A x : x \in Word => (x \in Nat /\ x < 256 * 256)
BY Zenon DEF Word

(* Bytes joined, one by one.                                               *)
Parts(j, a, b) ==
    /\ j \in Bytes /\ Len(j) = Len(a) + Len(b) /\ Len(a) \in Nat /\ Len(b) \in Nat
    /\ \A i \in 1 .. Len(a) : j[i] = a[i]
    /\ \A i \in 1 .. Len(b) : j[Len(a) + i] = b[i]

(* Where each byte of two joined sequences comes from.                     *)
LEMMA JoinParts ==
    ASSUME NEW a \in Bytes, NEW b \in Bytes
    PROVE  Parts(Join(a, b), a, b)
<1>1. a \in Seq(Byte) /\ b \in Seq(Byte)
  BY DEF Bytes
<1>2. /\ Join(a, b) \in Seq(Byte) /\ Len(Join(a, b)) = Len(a) + Len(b)
      /\ Len(a) \in Nat /\ Len(b) \in Nat
  BY <1>1 DEF Join
<1>3. \A i \in 1 .. Len(a) : Join(a, b)[i] = a[i]
  BY <1>1 DEF Join
<1>4. \A i \in 1 .. Len(b) : Join(a, b)[Len(a) + i] = b[i]
  BY <1>1 DEF Join
<1>. QED
  BY <1>2, <1>3, <1>4, Zenon DEF Parts, Bytes

(* Bytes joined twice, from either side.                                   *)
LEMMA JoinBytes ==
    ASSUME NEW a \in Bytes, NEW b \in Bytes, NEW c \in Bytes
    PROVE  Join(Join(a, b), c) = Join(a, Join(b, c))
<1>1. a \in Seq(Byte) /\ b \in Seq(Byte) /\ c \in Seq(Byte)
  BY DEF Bytes
<1>. QED
  BY <1>1, JoinTwice

(* The bytes of s behind the first k, up to the n-th.                      *)
IsSlice(r, s, k, n) ==
    r \in Bytes /\ Len(r) = n - k /\ \A i \in 1 .. n - k : r[i] = s[k + i]

(* SubSeq gives such a piece.                                              *)
LEMMA Slices ==
    ASSUME NEW s \in Bytes, NEW k \in Nat, NEW n \in Nat, k <= n, n <= Len(s)
    PROVE  IsSlice(SubSeq(s, k + 1, n), s, k, n)
<1>1. s \in Seq(Byte)
  BY DEF Bytes
<1>. DEFINE r == SubSeq(s, k + 1, n)
<1>2. Len(s) \in Nat
  BY <1>1
<1>3. r = [i \in 1 .. n - k |-> s[k + i]]
  <2>1. r = [i \in 1 .. (n - (k + 1)) + 1 |-> s[i + (k + 1) - 1]]
    BY <1>1, <1>2
  <2>2. (n - (k + 1)) + 1 = n - k /\ \A i \in 1 .. n - k : i + (k + 1) - 1 = k + i
    BY <1>2
  <2>. QED
    BY <2>1, <2>2, Zenon
<1>4. \A i \in 1 .. n - k : s[k + i] \in Byte
  BY <1>1, <1>2
<1>. HIDE DEF r
<1>5. r \in [1 .. n - k -> Byte] /\ \A i \in 1 .. n - k : r[i] = s[k + i]
  BY <1>3, <1>4, Zenon
<1>6. n - k \in Nat
  OBVIOUS
<1>7. r \in Seq(Byte) /\ Len(r) = n - k
  BY <1>5, <1>6, FunctionIsSequence, Zenon
<1>. QED
  BY <1>5, <1>7, Zenon DEF IsSlice, Bytes, r

(* A number of d bytes at the head of b: all but the last say that more    *)
(* follow.                                                                 *)
Delimits(b, d) ==
    /\ d \in 1 .. 4 /\ d <= Len(b)
    /\ \A i \in 1 .. d - 1 : b[i] >= 128
    /\ b[d] < 128
Number(b, d) ==
    (b[1] % 128) + (IF d >= 2 THEN (b[2] % 128) * 128 ELSE 0)
    + (IF d >= 3 THEN (b[3] % 128) * 128 ^ 2 ELSE 0)
    + (IF d >= 4 THEN (b[4] % 128) * 128 ^ 3 ELSE 0)

(* lwmqtt_read_varnum stops at the first byte below 128, whatever follows. *)
LEMMA ReadsVarnum ==
    ASSUME NEW b \in Seq(Byte), NEW d, Delimits(b, d)
    PROVE  read_varnum(b) = [err |-> "SUCCESS", len |-> d, num |-> Number(b, d)]
<1>. DEFINE lasts == {i \in 1 .. 4 : i <= Len(b) /\ b[i] < 128}
            last  == CHOOSE i \in lasts : \A j \in lasts : i <= j
            varnum[i \in 0 .. last] ==
                IF i = 0 THEN 0 ELSE varnum[i - 1] + (b[i] % 128) * 128 ^ (i - 1)
<1>0. d \in 1 .. 4 /\ d \in Nat /\ d <= Len(b)
  BY DEF Delimits
<1>1. d \in lasts /\ \A j \in lasts : d <= j
  <2>1. d \in lasts
    BY DEF Delimits
  <2>2. ASSUME NEW j \in 1 .. 4, j <= Len(b), b[j] < 128, j < d PROVE FALSE
    <3>1. j \in 1 .. d - 1 /\ b[j] \in Byte
      BY <2>2, <1>0
    <3>2. b[j] >= 128
      BY <3>1, Zenon DEF Delimits
    <3>. QED
      BY <3>1, <3>2, <2>2, ByteFacts
  <2>3. \A j \in 1 .. 4 : (j <= Len(b) /\ b[j] < 128) => d <= j
    BY <2>2, <1>0
  <2>. QED
    BY <2>1, <2>3
<1>2. last = d
  <2>1. lasts \subseteq Int
    OBVIOUS
  <2>. HIDE DEF lasts
  <2>2. last \in lasts /\ \A j \in lasts : last <= j
    BY <1>1
  <2>. HIDE DEF last
  <2>. QED
    BY <1>1, <2>1, <2>2
<1>3. read_varnum(b) = [err |-> "SUCCESS", len |-> last, num |-> varnum[last]]
  BY <1>1, Zenon DEF read_varnum
<1>. DEFINE t == [i \in 0 .. d |-> (b[i] % 128) * 128 ^ (i - 1)]
<1>4. PICK g : SumTo(t, d, g)
  <2>. HIDE DEF t
  <2>. QED BY <1>0, SumExists
<1>5. \A i \in 0 .. d : t[i] = (b[i] % 128) * 128 ^ (i - 1)
  BY Zenon
<1>. HIDE DEF t
<1>6. g = [i \in 0 .. d |-> IF i = 0 THEN 0 ELSE g[i - 1] + (b[i] % 128) * 128 ^ (i - 1)]
  BY <1>4, <1>5, ZenonT(60) DEF SumTo
<1>7. varnum = [i \in 0 .. last |-> IF i = 0 THEN 0
                                    ELSE varnum[i - 1] + (b[i] % 128) * 128 ^ (i - 1)]
  <2>1. \E v : v = [i \in 0 .. last |-> IF i = 0 THEN 0
                                        ELSE v[i - 1] + (b[i] % 128) * 128 ^ (i - 1)]
    <3>. HIDE DEF last
    <3>. QED BY <1>2, <1>6, ZenonT(60)
  <2>. HIDE DEF last
  <2>. QED
    BY <2>1, Zenon
<1>. HIDE DEF varnum, last
<1>8. \A i \in 0 .. d : varnum[i] = IF i = 0 THEN 0
                                    ELSE varnum[i - 1] + (b[i] % 128) * 128 ^ (i - 1)
  BY <1>2, <1>7, Zenon
<1>9. varnum[d] = Number(b, d)
  <2>1. \A i \in 1 .. d : b[i] \in Byte
    BY <1>0
  <2>2. varnum[0] = 0
    BY <1>0, <1>8
  <2>3. ASSUME NEW i \in 1 .. d
        PROVE  varnum[i] = varnum[i - 1] + (b[i] % 128) * 128 ^ (i - 1)
    <3>1. i \in 0 .. d /\ i # 0
      BY <1>0
    <3>. QED
      BY <3>1, <1>8, Zenon
  <2>4. /\ 1 \in 1 .. d /\ (d >= 2 => 2 \in 1 .. d)
        /\ (d >= 3 => 3 \in 1 .. d) /\ (d >= 4 => 4 \in 1 .. d)
    BY <1>0
  <2>5. varnum[1] = varnum[1 - 1] + (b[1] % 128) * 128 ^ (1 - 1)
    BY <2>3, <2>4, Zenon
  <2>6. d >= 2 => varnum[2] = varnum[2 - 1] + (b[2] % 128) * 128 ^ (2 - 1)
    BY <2>3, <2>4, Zenon
  <2>7. d >= 3 => varnum[3] = varnum[3 - 1] + (b[3] % 128) * 128 ^ (3 - 1)
    BY <2>3, <2>4, Zenon
  <2>8. d >= 4 => varnum[4] = varnum[4 - 1] + (b[4] % 128) * 128 ^ (4 - 1)
    BY <2>3, <2>4, Zenon
  <2>9. /\ b[1] \in Int /\ (d >= 2 => b[2] \in Int)
        /\ (d >= 3 => b[3] \in Int) /\ (d >= 4 => b[4] \in Int)
    BY <2>1, <2>4, ByteFacts
  <2>10. varnum[1] = b[1] % 128
    BY <2>2, <2>5, <2>9, SMT
  <2>11. d >= 2 => varnum[2] = varnum[1] + (b[2] % 128) * 128
    BY <2>6, <2>9, SMT
  <2>12. d >= 3 => varnum[3] = varnum[2] + (b[3] % 128) * 128 ^ 2
    BY <2>7, <2>9, SMT
  <2>13. d >= 4 => varnum[4] = varnum[3] + (b[4] % 128) * 128 ^ 3
    BY <2>8, <2>9, SMT
  <2>14. varnum[1] \in Int /\ (d >= 2 => varnum[2] \in Int) /\ (d >= 3 => varnum[3] \in Int)
    <3>1. varnum[1] \in Int
      BY <2>9, <2>10, SMT
    <3>2. d >= 2 => varnum[2] \in Int
      BY <3>1, <2>9, <2>11, SMT
    <3>3. d >= 3 => varnum[3] \in Int
      <4>1. d >= 3 => d >= 2
        BY <1>0
      <4>2. 128 ^ 2 = 16384
        BY SMT
      <4>. QED
        BY <3>2, <4>1, <4>2, <2>9, <2>12, SMT
    <3>. QED
      BY <3>1, <3>2, <3>3
  <2>15. CASE d = 1
    BY <2>9, <2>10, <2>15, SMT DEF Number
  <2>16. CASE d = 2
    BY <2>9, <2>10, <2>11, <2>16, SMT DEF Number
  <2>17. CASE d = 3
    BY <2>9, <2>10, <2>11, <2>12, <2>14, <2>17, SMT DEF Number
  <2>18. CASE d = 4
    BY <2>9, <2>10, <2>11, <2>12, <2>13, <2>14, <2>18, SMT DEF Number
  <2>. QED
    BY <1>0, <2>15, <2>16, <2>17, <2>18
<1>. QED
  BY <1>2, <1>3, <1>9, Zenon

(* It wants more as long as every byte that it has says so.                *)
LEMMA WantsMore ==
    ASSUME NEW b \in Seq(Byte), Len(b) < 4, \A i \in 1 .. Len(b) : b[i] >= 128
    PROVE  read_varnum(b).err = "BUFFER_TOO_SHORT"
<1>1. {i \in 1 .. 4 : i <= Len(b) /\ b[i] < 128} = {}
  BY ByteFacts
<1>2. Len(b) < 5
  OBVIOUS
<1>3. read_varnum(b) = Failed("BUFFER_TOO_SHORT")
  BY <1>1, <1>2, Zenon DEF read_varnum
<1>. QED
  BY <1>3 DEF Failed

(* lwmqtt_write_varnum writes a number that lwmqtt_read_varnum reads back, *)
(* for every remaining length that MQTT allows.                            *)
THEOREM WritesVarnum ==
    ASSUME NEW n \in Nat, n < 128 ^ 4
    PROVE  LET b == write_varnum(n)
           IN  b \in Seq(Byte) /\ Delimits(b, Len(b)) /\ Number(b, Len(b)) = n
<1>. DEFINE Fits(k) == n < 128 ^ k /\ (k = 1 \/ n >= 128 ^ (k - 1))
            digits == CHOOSE k \in 1 .. 4 : Fits(k)
            b == write_varnum(n)
<1>1. b = [i \in 1 .. digits |-> ((n \div 128 ^ (i - 1)) % 128)
                                 + (IF i < digits THEN 128 ELSE 0)]
  BY Zenon DEF write_varnum
<1>2. digits \in 1 .. 4 /\ Fits(digits)
  <2>1. \E k \in 1 .. 4 : Fits(k)
    <3>1. n < 128 ^ 1 => Fits(1)
      BY SMT
    <3>2. n >= 128 ^ 1 /\ n < 128 ^ 2 => Fits(2)
      BY SMT
    <3>3. n >= 128 ^ 2 /\ n < 128 ^ 3 => Fits(3)
      BY SMT
    <3>4. n >= 128 ^ 3 => Fits(4)
      BY SMT
    <3>5. \/ n < 128 ^ 1
          \/ n >= 128 ^ 1 /\ n < 128 ^ 2
          \/ n >= 128 ^ 2 /\ n < 128 ^ 3
          \/ n >= 128 ^ 3
      BY SMT
    <3>. HIDE DEF Fits
    <3>. QED
      BY <3>1, <3>2, <3>3, <3>4, <3>5, SMT
  <2>. HIDE DEF Fits
  <2>. QED
    BY <2>1, Zenon
<1>. HIDE DEF digits, b
<1>3. ASSUME NEW i \in 1 .. digits
      PROVE  /\ b[i] = ((n \div 128 ^ (i - 1)) % 128) + (IF i < digits THEN 128 ELSE 0)
             /\ b[i] \in Byte
             /\ i < digits => b[i] >= 128
             /\ i = digits => b[i] < 128
             /\ b[i] % 128 = (n \div 128 ^ (i - 1)) % 128
  <2>1. b[i] = ((n \div 128 ^ (i - 1)) % 128) + (IF i < digits THEN 128 ELSE 0)
    BY <1>1, Zenon
  <2>2. i \in {1, 2, 3, 4}
    BY <1>2
  <2>3. n \div 128 ^ (i - 1) \in Nat
    <3>1. i = 1 => n \div 128 ^ (i - 1) \in Nat
      BY SMT
    <3>2. i = 2 => n \div 128 ^ (i - 1) \in Nat
      BY SMT
    <3>3. i = 3 => n \div 128 ^ (i - 1) \in Nat
      BY SMT
    <3>4. i = 4 => n \div 128 ^ (i - 1) \in Nat
      BY SMT
    <3>. QED
      BY <2>2, <3>1, <3>2, <3>3, <3>4, Zenon
  <2>. DEFINE q == n \div 128 ^ (i - 1)
  <2>4. q \in Nat /\ b[i] = (q % 128) + (IF i < digits THEN 128 ELSE 0)
    BY <2>1, <2>3, Zenon
  <2>. HIDE DEF q
  <2>5. /\ b[i] \in Int /\ 0 <= b[i] /\ b[i] < 256
        /\ i < digits => b[i] >= 128
        /\ i = digits => b[i] < 128
        /\ b[i] % 128 = q % 128
    BY <2>4, <1>2, SMT
  <2>6. b[i] \in Byte
    BY <2>5, ByteFacts
  <2>. QED
    BY <2>1, <2>5, <2>6, Zenon DEF q
<1>4. b \in Seq(Byte) /\ Len(b) = digits
  <2>1. b = [i \in 1 .. digits |-> b[i]]
    BY <1>1, ZenonT(60)
  <2>2. \A i \in 1 .. digits : b[i] \in Byte
    BY <1>3, Zenon
  <2>3. digits \in Nat
    BY <1>2
  <2>. QED
    BY <2>1, <2>2, <2>3
<1>5. Delimits(b, digits)
  <2>1. \A i \in 1 .. digits - 1 : i \in 1 .. digits /\ i < digits
    BY <1>2
  <2>2. digits \in 1 .. digits /\ digits <= Len(b)
    BY <1>2, <1>4
  <2>. QED
    BY <2>1, <2>2, <1>2, <1>3, ZenonT(60) DEF Delimits
<1>6. Number(b, digits) = n
  <2>1. CASE digits = 1
    <3>1. 1 \in 1 .. digits /\ n < 128
      BY <2>1, <1>2, SMT
    <3>2. b[1] % 128 = (n \div 128 ^ (1 - 1)) % 128
      BY <3>1, <1>3, ZenonT(60)
    <3>. QED
      BY <2>1, <3>1, <3>2, SMT DEF Number
  <2>2. CASE digits = 2
    <3>1. 1 \in 1 .. digits /\ 2 \in 1 .. digits /\ n < 128 ^ 2
      BY <2>2, <1>2, SMT
    <3>2. /\ b[1] % 128 = (n \div 128 ^ (1 - 1)) % 128
          /\ b[2] % 128 = (n \div 128 ^ (2 - 1)) % 128
      BY <3>1, <1>3, ZenonT(60)
    <3>. QED
      BY <2>2, <3>1, <3>2, SMT DEF Number
  <2>3. CASE digits = 3
    <3>1. 1 \in 1 .. digits /\ 2 \in 1 .. digits /\ 3 \in 1 .. digits /\ n < 128 ^ 3
      BY <2>3, <1>2, SMT
    <3>2. /\ b[1] % 128 = (n \div 128 ^ (1 - 1)) % 128
          /\ b[2] % 128 = (n \div 128 ^ (2 - 1)) % 128
          /\ b[3] % 128 = (n \div 128 ^ (3 - 1)) % 128
      BY <3>1, <1>3, ZenonT(60)
    <3>. QED
      BY <2>3, <3>1, <3>2, SMT DEF Number
  <2>4. CASE digits = 4
    <3>1. /\ 1 \in 1 .. digits /\ 2 \in 1 .. digits
          /\ 3 \in 1 .. digits /\ 4 \in 1 .. digits
      BY <2>4, SMT
    <3>2. /\ b[1] % 128 = (n \div 128 ^ (1 - 1)) % 128
          /\ b[2] % 128 = (n \div 128 ^ (2 - 1)) % 128
          /\ b[3] % 128 = (n \div 128 ^ (3 - 1)) % 128
          /\ b[4] % 128 = (n \div 128 ^ (4 - 1)) % 128
      BY <3>1, <1>3, ZenonT(60)
    <3>3. n < 128 * (128 * (128 * 128))
      BY SMT
    <3>4. /\ n \div 128 ^ (1 - 1) = n /\ n \div 128 ^ (2 - 1) = n \div 128
          /\ n \div 128 ^ (3 - 1) = (n \div 128) \div 128
          /\ n \div 128 ^ (4 - 1) = ((n \div 128) \div 128) \div 128
      BY SMT
    <3>. DEFINE n1 == n \div 128 n2 == n1 \div 128 n3 == n2 \div 128
    <3>5. n1 \in Nat /\ n = 128 * n1 + (n % 128) /\ n1 < 128 * (128 * 128)
      BY <3>3, SMT
    <3>6. n2 \in Nat /\ n1 = 128 * n2 + (n1 % 128) /\ n2 < 128 * 128
      <4>. HIDE DEF n1
      <4>. QED BY <3>5, SMT
    <3>7. n3 \in Nat /\ n2 = 128 * n3 + (n2 % 128) /\ n3 < 128
      <4>. HIDE DEF n1, n2
      <4>. QED BY <3>6, SMT
    <3>8. n3 % 128 = n3
      <4>. HIDE DEF n3
      <4>. QED BY <3>7, SMT
    <3>9. Number(b, 4) = (b[1] % 128) + (b[2] % 128) * 128
                         + (b[3] % 128) * 128 ^ 2 + (b[4] % 128) * 128 ^ 3
      BY SMT DEF Number
    <3>10. Number(b, 4) = (n % 128) + (n1 % 128) * 128 + (n2 % 128) * 128 ^ 2 + n3 * 128 ^ 3
      <4>1. b[1] % 128 = n % 128
        BY <3>2, <3>4, ZenonT(60)
      <4>2. b[2] % 128 = n1 % 128
        BY <3>2, <3>4, ZenonT(60)
      <4>3. b[3] % 128 = n2 % 128
        BY <3>2, <3>4, ZenonT(60)
      <4>4. b[4] % 128 = n3
        BY <3>2, <3>4, <3>8, ZenonT(60)
      <4>. HIDE DEF n1, n2, n3
      <4>. QED
        BY <4>1, <4>2, <4>3, <4>4, <3>9, ZenonT(60)
    <3>11. n = (n % 128) + (n1 % 128) * 128 + (n2 % 128) * 128 ^ 2 + n3 * 128 ^ 3
      <4>. HIDE DEF n1, n2, n3
      <4>. QED BY <3>5, <3>6, <3>7, SMT
    <3>. HIDE DEF n1, n2, n3
    <3>. QED
      BY <2>4, <3>10, <3>11, Zenon
  <2>. QED
    BY <1>2, <2>1, <2>2, <2>3, <2>4
<1>. QED
  BY <1>4, <1>5, <1>6 DEF b
(***************************************************************************)
(* The room that a list takes.                                             *)
(***************************************************************************)

(* The partial sums, one at a time.                                        *)
LEMMA SumSteps ==
    ASSUME NEW t, NEW n \in Nat, NEW g, SumTo(t, n, g)
    PROVE  g[0] = 0 /\ \A i \in 0 .. n - 1 : g[i + 1] = g[i] + t[i + 1]
<1>1. g[0] = 0
  BY DEF SumTo
<1>2. ASSUME NEW i \in 0 .. n - 1 PROVE g[i + 1] = g[i] + t[i + 1]
  <2>1. i + 1 \in 0 .. n /\ i + 1 # 0 /\ (i + 1) - 1 = i
    OBVIOUS
  <2>2. g[i + 1] = g[(i + 1) - 1] + t[i + 1]
    BY <2>1, Zenon DEF SumTo
  <2>. QED
    BY <2>1, <2>2, Zenon
<1>. QED
  BY <1>1, <1>2

(* A list of sequences is as long as the sum of their lengths.             *)
LEMMA FlattenLength ==
    ASSUME NEW S, NEW ss \in Seq(Seq(S)), NEW t, NEW g, SumTo(t, Len(ss), g),
           \A i \in 1 .. Len(ss) : t[i] = Len(ss[i])
    PROVE  Len(FlattenSeq(ss)) = g[Len(ss)]
<1>0. Len(ss) \in Nat
  OBVIOUS
<1>1. g[0] = 0 /\ \A i \in 0 .. Len(ss) - 1 : g[i + 1] = g[i] + t[i + 1]
  BY <1>0, SumSteps
<1>2. CASE ss = <<>>
  <2>1. FlattenSeq(ss) = <<>>
    BY <1>2, FlattenType
  <2>. QED
    BY <1>1, <1>2, <2>1
<1>3. CASE ss # <<>>
  <2>1. PICK f : FlatTo(ss, Len(ss), f) /\ FlattenSeq(ss) = f[Len(ss)]
    BY <1>3, FlattenIs
  <2>f. /\ ss # <<>> => f[1] = ss[1]
        /\ \A i \in 1 .. Len(ss) - 1 : f[i + 1] = Join(f[i], ss[i + 1])
        /\ \A i \in 1 .. Len(ss) : f[i] \in Seq(S)
    BY <2>1, FlatSteps, Zenon
  <2>. DEFINE SameLength(n) == Len(f[n]) = g[n]
              T == {n \in Nat : n \in 1 .. Len(ss) => SameLength(n)}
  <2>2. 0 \in T
    <3>. HIDE DEF SameLength
    <3>. QED OBVIOUS
  <2>3. ASSUME NEW n \in Nat, n \in T PROVE n + 1 \in T
    <3>. SUFFICES ASSUME n + 1 \in 1 .. Len(ss) PROVE SameLength(n + 1)
      <4>. HIDE DEF SameLength
      <4>. QED OBVIOUS
    <3>1. ss[n + 1] \in Seq(S) /\ t[n + 1] = Len(ss[n + 1])
      OBVIOUS
    <3>2. g[n + 1] = g[n] + t[n + 1]
      BY <1>0, <1>1
    <3>3. CASE n = 0
      <4>1. Len(ss[1]) \in Nat /\ n + 1 = 1
        BY <3>1, <3>3
      <4>2. g[1] = Len(ss[1])
        BY <3>1, <3>2, <3>3, <4>1, <1>1
      <4>. QED
        BY <4>1, <4>2, <1>3, <2>f, Zenon
    <3>4. CASE n # 0
      <4>1. n \in 1 .. Len(ss) - 1 /\ n \in 1 .. Len(ss)
        BY <3>4, <1>0
      <4>2. SameLength(n)
        <5>. HIDE DEF SameLength
        <5>. QED BY <4>1, <2>3
      <4>3. f[n] \in Seq(S) /\ f[n + 1] = Join(f[n], ss[n + 1])
        BY <4>1, <2>f
      <4>4. Len(Join(f[n], ss[n + 1])) = Len(f[n]) + Len(ss[n + 1])
        BY <3>1, <4>3 DEF Join
      <4>. QED
        BY <3>1, <3>2, <4>2, <4>3, <4>4, Zenon
    <3>. QED
      BY <3>3, <3>4
  <2>4. Nat \subseteq T
    <3>. HIDE DEF T
    <3>. QED BY <2>2, <2>3, Induction
  <2>5. Len(ss) \in 1 .. Len(ss)
    BY <1>3, <1>0
  <2>6. SameLength(Len(ss))
    <3>. HIDE DEF SameLength
    <3>. QED BY <2>4, <2>5
  <2>. QED
    BY <2>1, <2>6
<1>. QED
  BY <1>2, <1>3

(* The loops of lwmqtt_encode_subscribe and lwmqtt_encode_unsubscribe that *)
(* compute the remaining length beforehand add up what is written.         *)
LEMMA RoomOfTopics ==
    ASSUME NEW topics \in Seq(Bytes), NEW extra \in Nat, NEW ss \in Seq(Bytes),
           Len(ss) = Len(topics),
           \A i \in 1 .. Len(topics) : Len(ss[i]) = 2 + Len(topics[i]) + extra
    PROVE  TopicsLength(topics, extra) = Len(FlattenSeq(ss))
<1>. DEFINE n == Len(topics)
            t == [i \in 0 .. n |-> 2 + Len(topics[i]) + extra]
            room[i \in 0 .. n] ==
                IF i = 0 THEN 0 ELSE room[i - 1] + (2 + Len(topics[i]) + extra)
<1>0. n \in Nat
  OBVIOUS
<1>1. PICK g : SumTo(t, n, g)
  <2>. HIDE DEF t
  <2>. QED BY <1>0, SumExists
<1>2. \A i \in 0 .. n : t[i] = 2 + Len(topics[i]) + extra
  BY Zenon
<1>. HIDE DEF t
<1>3. g = [i \in 0 .. n |-> IF i = 0 THEN 0 ELSE g[i - 1] + (2 + Len(topics[i]) + extra)]
  BY <1>1, <1>2, Zenon DEF SumTo
<1>4. room = [i \in 0 .. n |-> IF i = 0 THEN 0
                               ELSE room[i - 1] + (2 + Len(topics[i]) + extra)]
  BY <1>3, Zenon
<1>5. TopicsLength(topics, extra) = room[n]
  BY Zenon DEF TopicsLength
<1>. HIDE DEF room
<1>6. room = [i \in 0 .. n |-> IF i = 0 THEN 0 ELSE room[i - 1] + t[i]]
  BY <1>2, <1>4, Zenon
<1>7. SumTo(t, Len(ss), room)
  BY <1>6, Zenon DEF SumTo
<1>8. \A i \in 1 .. Len(ss) : t[i] = Len(ss[i])
  <2>1. \A i \in 1 .. n : i \in 0 .. n
    BY <1>0
  <2>. QED
    BY <1>2, <2>1, Zenon
<1>9. Len(FlattenSeq(ss)) = room[Len(ss)]
  <2>. HIDE DEF n
  <2>. QED BY <1>7, <1>8, FlattenLength, Zenon DEF Bytes
<1>. QED
  BY <1>5, <1>9

(***************************************************************************)
(* Frames: a head, the remaining length, and as many bytes as it says.     *)
(***************************************************************************)
Holds(s, n) == s \in Seq(Byte) /\ Len(s) = n /\ n \in Nat
FrameOf(bytes, head, body, d) ==
    /\ bytes \in Seq(Byte) /\ body \in Seq(Byte) /\ d \in 1 .. 4
    /\ Len(bytes) = 1 + d + Len(body)
    /\ bytes[1] = head
    /\ Delimits(Tail(bytes), d) /\ Number(Tail(bytes), d) = Len(body)
    /\ \A i \in 1 .. Len(body) : bytes[1 + d + i] = body[i]
Frame(bytes, head, body) == \E d \in 1 .. 4 : FrameOf(bytes, head, body, d)

(* Whether a number is delimited depends on its own bytes only.            *)
LEMMA SameNumber ==
    ASSUME NEW a \in Seq(Byte), NEW b \in Seq(Byte), NEW d, Delimits(a, d), d <= Len(b),
           \A i \in 1 .. d : b[i] = a[i]
    PROVE  Delimits(b, d) /\ Number(b, d) = Number(a, d)
<1>1. d \in 1 .. 4
  BY DEF Delimits
<1>2. Delimits(b, d)
  BY <1>1 DEF Delimits
<1>3. b[1] = a[1] /\ (d >= 2 => b[2] = a[2]) /\ (d >= 3 => b[3] = a[3]) /\ (d >= 4 => b[4] = a[4])
  BY <1>1
<1>. DEFINE Second(c) == IF d >= 2 THEN (c[2] % 128) * 128 ELSE 0
            Third(c)  == IF d >= 3 THEN (c[3] % 128) * 128 ^ 2 ELSE 0
            Fourth(c) == IF d >= 4 THEN (c[4] % 128) * 128 ^ 3 ELSE 0
<1>4. Second(b) = Second(a) /\ Third(b) = Third(a) /\ Fourth(b) = Fourth(a)
  BY <1>3, ZenonT(60)
<1>5. Number(b, d) = (b[1] % 128) + Second(b) + Third(b) + Fourth(b)
  BY Zenon DEF Number
<1>6. Number(a, d) = (a[1] % 128) + Second(a) + Third(a) + Fourth(a)
  BY Zenon DEF Number
<1>. HIDE DEF Second, Third, Fourth
<1>7. Number(b, d) = Number(a, d)
  BY <1>3, <1>4, <1>5, <1>6, Zenon
<1>. QED
  BY <1>2, <1>7

(* Three sequences one after the other, element by element.                *)
LEMMA ThreeParts ==
    ASSUME NEW S, NEW x \in S, NEW v \in Seq(S), NEW w \in Seq(S), NEW b, b = <<x>> \o v \o w
    PROVE  /\ b \in Seq(S) /\ Len(b) = 1 + Len(v) + Len(w) /\ b[1] = x
           /\ Tail(b) \in Seq(S) /\ Len(Tail(b)) = Len(v) + Len(w)
           /\ \A i \in 1 .. Len(v) : Tail(b)[i] = v[i]
           /\ \A i \in 1 .. Len(w) : b[1 + Len(v) + i] = w[i]
<1>0. <<x>> \in Seq(S) /\ Len(<<x>>) = 1 /\ <<x>>[1] = x
  OBVIOUS
<1>1. PICK a : a = <<x>> \o v
  OBVIOUS
<1>2. a \in Seq(S) /\ Len(a) = 1 + Len(v) /\ a[1] = x /\ \A i \in 1 .. Len(v) : a[1 + i] = v[i]
  BY <1>1
<1>3. b = a \o w
  BY <1>1
<1>4. b \in Seq(S) /\ Len(b) = Len(a) + Len(w)
  BY <1>2, <1>3
<1>5. \A i \in 1 .. Len(a) : b[i] = a[i]
  BY <1>2, <1>3
<1>6. \A i \in 1 .. Len(w) : b[Len(a) + i] = w[i]
  BY <1>2, <1>3
<1>7. Len(v) \in Nat /\ Len(w) \in Nat /\ b # <<>>
  BY <1>2, <1>4
<1>8. /\ Tail(b) \in Seq(S) /\ Len(Tail(b)) = Len(b) - 1
      /\ \A i \in 1 .. Len(b) - 1 : Tail(b)[i] = b[i + 1]
  BY <1>4, <1>7
<1>9. b[1] = x
  BY <1>2, <1>5, <1>7
<1>10. ASSUME NEW i \in 1 .. Len(v) PROVE Tail(b)[i] = v[i]
  <2>1. i \in 1 .. Len(b) - 1 /\ i + 1 \in 1 .. Len(a) /\ i + 1 = 1 + i
    BY <1>2, <1>4, <1>7
  <2>. QED
    BY <2>1, <1>2, <1>5, <1>8, ZenonT(60)
<1>. QED
  BY <1>2, <1>4, <1>6, <1>7, <1>8, <1>9, <1>10

(* What an encoder packs is a frame, if it has computed the remaining      *)
(* length of what it writes.                                               *)
LEMMA PacksFrame ==
    ASSUME NEW buf_len, NEW type, NEW flags, NEW rem_len, NEW body, NEW e,
           e = Packed(buf_len, type, flags, rem_len, body), e.err = "SUCCESS",
           Holds(body, rem_len), 16 * PacketType[type] + flags \in Byte
    PROVE  Frame(e.bytes, 16 * PacketType[type] + flags, body)
<1>. DEFINE head  == 16 * PacketType[type] + flags
            v     == write_varnum(rem_len)
            bytes == <<head>> \o v \o body
<1>0. body \in Seq(Byte) /\ rem_len = Len(body)
  BY DEF Holds
<1>1. varnum_length(rem_len) # 0 /\ e.bytes = bytes
  BY DEF Packed, Failed
<1>2. rem_len \in Nat /\ rem_len < 128 ^ 4
  <2>1. rem_len \in Nat
    BY <1>0
  <2>2. rem_len < 268435455
    BY <1>1, <2>1, SMT DEF varnum_length
  <2>. QED
    BY <2>1, <2>2, SMT
<1>3. v \in Seq(Byte) /\ Delimits(v, Len(v)) /\ Number(v, Len(v)) = rem_len
  BY <1>2, WritesVarnum, Zenon
<1>. HIDE DEF v, head
<1>4. /\ bytes \in Seq(Byte) /\ Len(bytes) = 1 + Len(v) + Len(body) /\ bytes[1] = head
      /\ Tail(bytes) \in Seq(Byte) /\ Len(Tail(bytes)) = Len(v) + Len(body)
      /\ \A i \in 1 .. Len(v) : Tail(bytes)[i] = v[i]
      /\ \A i \in 1 .. Len(body) : bytes[1 + Len(v) + i] = body[i]
  <2>1. head \in Byte
    BY DEF head
  <2>2. PICK b : b = bytes
    OBVIOUS
  <2>. HIDE DEF bytes
  <2>3. b = <<head>> \o v \o body
    BY <2>2 DEF bytes
  <2>. QED
    BY <2>1, <2>2, <2>3, <1>0, <1>3, ThreeParts
<1>. HIDE DEF bytes
<1>5. Len(v) \in 1 .. 4
  BY <1>3 DEF Delimits
<1>6. Len(v) <= Len(Tail(bytes))
  BY <1>4, <1>5
<1>7. Delimits(Tail(bytes), Len(v)) /\ Number(Tail(bytes), Len(v)) = Len(body)
  BY <1>0, <1>3, <1>4, <1>6, SameNumber
<1>8. FrameOf(bytes, head, body, Len(v))
  BY <1>0, <1>4, <1>5, <1>7, Zenon DEF FrameOf
<1>. QED
  BY <1>1, <1>5, <1>8 DEF Frame, head

(***************************************************************************)
(* The encoders of packet.c.                                               *)
(***************************************************************************)
(* Bytes one after the other, and how many they are.                       *)
LEMMA HoldsJoined ==
    ASSUME NEW a, NEW m, NEW b, NEW n, Holds(a, m), Holds(b, n)
    PROVE  Holds(Join(a, b), m + n)
<1>1. /\ a \in Seq(Byte) /\ Len(a) = m /\ m \in Nat
      /\ b \in Seq(Byte) /\ Len(b) = n /\ n \in Nat
  BY DEF Holds
<1>2. Join(a, b) \in Seq(Byte) /\ Len(Join(a, b)) = m + n
  BY <1>1 DEF Join
<1>. QED
  BY <1>1, <1>2 DEF Holds

(* A part that is there or not.                                            *)
LEMMA HoldsWhen ==
    ASSUME NEW c \in BOOLEAN, NEW s, NEW n, c => Holds(s, n)
    PROVE  Holds(When(c, s), IF c THEN n ELSE 0)
BY DEF Holds, When

(* The two bytes of a number of 16 bits.                                   *)
LEMMA HoldsNum ==
    ASSUME NEW n \in Nat
    PROVE  /\ Holds(write_num(n), 2)
           /\ write_num(n)[1] \in Byte /\ write_num(n)[2] \in Byte
           /\ n < 256 * 256 => 256 * write_num(n)[1] + write_num(n)[2] = n
<1>. DEFINE h == (n \div 256) % 256 l == n % 256
<1>1. write_num(n) = <<h, l>>
  BY DEF write_num
<1>2. h \in Int /\ 0 <= h /\ h < 256 /\ l \in Int /\ 0 <= l /\ l < 256
  BY SMT
<1>3. n < 256 * 256 => 256 * h + l = n
  <2>. SUFFICES ASSUME n < 256 * 256 PROVE 256 * h + l = n
    OBVIOUS
  <2>2. n \div 256 \in Nat /\ n \div 256 < 256
    BY SMT
  <2>3. h = n \div 256
    <3>. DEFINE q == n \div 256
    <3>. HIDE DEF q
    <3>1. q \in Nat /\ q < 256
      BY <2>2 DEF q
    <3>2. q % 256 = q
      BY <3>1, SMT
    <3>. QED
      BY <3>2 DEF q
  <2>4. n = 256 * (n \div 256) + l
    BY SMT
  <2>. QED
    BY <2>3, <2>4, ZenonT(60)
<1>. HIDE DEF h, l
<1>4. h \in Byte /\ l \in Byte
  BY <1>2, ByteFacts
<1>5. write_num(n)[1] = h /\ write_num(n)[2] = l
  BY <1>1
<1>6. Holds(<<h, l>>, 2)
  BY <1>4 DEF Holds
<1>. QED
  BY <1>1, <1>3, <1>4, <1>5, <1>6

(* A string: its length, then its bytes.                                   *)
LEMMA HoldsString ==
    ASSUME NEW s \in Bytes
    PROVE  /\ Holds(write_string(s), 2 + Len(s))
           /\ write_string(s) = Join(write_num(Len(s)), s)
<1>1. Len(s) \in Nat /\ Holds(s, Len(s))
  BY DEF Holds, Bytes
<1>2. Holds(write_num(Len(s)), 2)
  BY <1>1, HoldsNum
<1>3. write_string(s) = Join(write_num(Len(s)), s)
  BY Zenon DEF write_string, Join
<1>. QED
  BY <1>1, <1>2, <1>3, HoldsJoined

(* PUBREL alone has a flag of its own.                                     *)
LEMMA AckFrame ==
    ASSUME NEW p \in Acknowledgements, encode(p).err = "SUCCESS"
    PROVE  Frame(encode(p).bytes,
                 16 * PacketType[p.type] + (8 * Bit(p.dup) + 2 * Bit(p.type = "PUBREL")),
                 write_num(p.packet_id))
<1>a. p.type \in Acks /\ p.dup \in BOOLEAN /\ p.packet_id \in Word
  BY Zenon DEF Acknowledgements
<1>b. p.type \in {"PUBACK", "PUBREC", "PUBREL", "PUBCOMP", "UNSUBACK"}
  BY <1>a, Zenon DEF Acks
<1>c. p.packet_id \in Nat
  BY <1>a, WordFacts, Zenon
<1>d. Bit(p.dup) \in 0 .. 1 /\ Bit(p.type = "PUBREL") \in 0 .. 1
  BY DEF Bit
<1>. DEFINE flags == 8 * Bit(p.dup) + 2 * Bit(p.type = "PUBREL")
<1>2. encode(p) = Packed(512, p.type, flags, 2, write_num(p.packet_id))
  <2>1. /\ p.type # "CONNECT" /\ p.type # "SUBSCRIBE" /\ p.type # "UNSUBSCRIBE"
        /\ p.type # "PUBLISH" /\ p.type # "CONNACK" /\ p.type # "SUBACK"
    BY <1>b
  <2>2. encode(p) = encode_ack(512, p.type, p.dup, p.packet_id)
    BY <1>a, <2>1, ZenonT(60) DEF encode
  <2>. QED
    BY <2>2, Zenon DEF encode_ack
<1>3. Holds(write_num(p.packet_id), 2)
  BY <1>c, HoldsNum, Zenon
<1>4. flags \in 0 .. 10
  BY <1>d
<1>5. 16 * PacketType[p.type] + flags \in Byte
  <2>1. PacketType[p.type] \in 4 .. 11
    BY <1>b DEF PacketType
  <2>2. 16 * PacketType[p.type] + flags \in 0 .. 255
    <3>. HIDE DEF flags
    <3>. QED BY <1>4, <2>1
  <2>. QED
    BY <2>2, Zenon DEF Byte
<1>. HIDE DEF flags
<1>. QED
  BY <1>2, <1>3, <1>5, PacksFrame DEF flags

(* A packet of its type alone.                                             *)
LEMMA ZeroFrame ==
    ASSUME NEW p \in [type : {"PINGREQ", "PINGRESP", "DISCONNECT"}], encode(p).err = "SUCCESS"
    PROVE  Frame(encode(p).bytes, 16 * PacketType[p.type] + 0, <<>>)
<1>1. p.type \in {"PINGREQ", "PINGRESP", "DISCONNECT"}
  OBVIOUS
<1>2. encode(p) = Packed(512, p.type, 0, 0, <<>>)
  <2>1. /\ p.type # "CONNECT" /\ p.type # "SUBSCRIBE" /\ p.type # "UNSUBSCRIBE"
        /\ p.type # "PUBLISH" /\ p.type # "CONNACK" /\ p.type # "SUBACK" /\ p.type \notin Acks
    BY <1>1 DEF Acks
  <2>. QED
    BY <2>1, ZenonT(60) DEF encode, encode_zero
<1>3. Holds(<<>>, 0)
  <2>1. <<>> \in Seq(Byte) /\ Len(<<>>) = 0
    OBVIOUS
  <2>. QED
    BY <2>1 DEF Holds
<1>4. 16 * PacketType[p.type] + 0 \in Byte
  <2>1. PacketType[p.type] \in 12 .. 14
    BY <1>1 DEF PacketType
  <2>2. 16 * PacketType[p.type] + 0 \in 0 .. 255
    BY <2>1
  <2>. QED
    BY <2>2, Zenon DEF Byte
<1>. QED
  BY <1>2, <1>3, <1>4, PacksFrame

(* The flags of a publication, and its topic, packet id and payload.       *)
PublishFlags(p) == 8 * Bit(p.dup) + 2 * p.qos + Bit(p.retained)
PublishBody(p) ==
    Join(Join(write_string(p.topic), When(p.qos > 0, write_num(p.packet_id))), p.payload)

(* What a publication has.                                                 *)
LEMMA PublicationType ==
    ASSUME NEW p \in Publications
    PROVE  /\ p.type = "PUBLISH" /\ p.topic \in Bytes /\ p.payload \in Bytes
           /\ p.packet_id \in Word /\ p.qos \in 0 .. 2
           /\ p.dup \in BOOLEAN /\ p.retained \in BOOLEAN
           /\ p.qos = 0 => p.packet_id = 0
           /\ DOMAIN p = {"type", "dup", "packet_id", "topic", "payload", "qos", "retained"}
<1>1. p \in [type : {"PUBLISH"}, dup : BOOLEAN, packet_id : Word, topic : Bytes,
             payload : Bytes, qos : 0 .. 2, retained : BOOLEAN]
      /\ (p.qos = 0 => p.packet_id = 0)
  BY Zenon DEF Publications
<1>2. p.type \in {"PUBLISH"} /\ p.packet_id \in Word /\ p.qos \in 0 .. 2
  BY <1>1, Zenon
<1>3. p.topic \in Bytes /\ p.payload \in Bytes
  BY <1>1, Zenon
<1>4. p.dup \in BOOLEAN /\ p.retained \in BOOLEAN
  BY <1>1, Zenon
<1>5. DOMAIN p = {"type", "dup", "packet_id", "topic", "payload", "qos", "retained"}
  BY <1>1, Zenon
<1>. QED
  BY <1>1, <1>2, <1>3, <1>4, <1>5, Zenon

(* lwmqtt_encode_publish writes as much as it has computed.                *)
LEMMA PublishFrame ==
    ASSUME NEW p \in Publications, encode(p).err = "SUCCESS"
    PROVE  Frame(encode(p).bytes, 16 * PacketType["PUBLISH"] + PublishFlags(p), PublishBody(p))
<1>1. /\ p.type = "PUBLISH" /\ p.topic \in Bytes /\ p.payload \in Bytes
      /\ p.packet_id \in Word /\ p.qos \in 0 .. 2
      /\ p.dup \in BOOLEAN /\ p.retained \in BOOLEAN
  BY PublicationType, Zenon
<1>. DEFINE idLen == IF p.qos > 0 THEN 2 ELSE 0
            rem   == 2 + Len(p.topic) + Len(p.payload) + idLen
<1>2. encode(p) = Packed(512, "PUBLISH", PublishFlags(p), rem, PublishBody(p))
  <2>1. encode(p) = encode_publish(512, p.dup, p.packet_id, p.topic, p)
    <3>1. /\ p.type # "CONNECT" /\ p.type # "SUBSCRIBE" /\ p.type # "UNSUBSCRIBE"
          /\ p.type # "CONNACK" /\ p.type # "SUBACK" /\ p.type \notin Acks
      BY <1>1 DEF Acks
    <3>. QED
      BY <3>1, <1>1, ZenonT(60) DEF encode
  <2>. QED
    BY <2>1, Zenon DEF encode_publish, PublishFlags, PublishBody, Join
<1>3. Holds(PublishBody(p), rem)
  <2>1. p.packet_id \in Nat
    BY <1>1, WordFacts, Zenon
  <2>2. Holds(write_num(p.packet_id), 2)
    BY <2>1, HoldsNum, Zenon
  <2>3. Holds(When(p.qos > 0, write_num(p.packet_id)), idLen)
    <3>1. (p.qos > 0) \in BOOLEAN
      BY <1>1
    <3>. QED
      BY <2>2, <3>1, HoldsWhen
  <2>4. Holds(write_string(p.topic), 2 + Len(p.topic))
    BY <1>1, HoldsString, Zenon
  <2>5. Holds(p.payload, Len(p.payload))
    BY <1>1 DEF Holds, Bytes
  <2>6. Holds(PublishBody(p), 2 + Len(p.topic) + idLen + Len(p.payload))
    BY <2>3, <2>4, <2>5, HoldsJoined, Zenon DEF PublishBody
  <2>7. Len(p.topic) \in Nat /\ Len(p.payload) \in Nat
    BY <1>1 DEF Bytes
  <2>. HIDE DEF idLen
  <2>9. idLen \in Nat
    BY DEF idLen
  <2>8. rem = 2 + Len(p.topic) + idLen + Len(p.payload)
    <3>1. \A a, b, c \in Nat : 2 + a + b + c = 2 + a + c + b
      OBVIOUS
    <3>. QED
      BY <3>1, <2>7, <2>9, Zenon
  <2>. QED
    BY <2>6, <2>8, Zenon
<1>4. 16 * PacketType["PUBLISH"] + PublishFlags(p) \in Byte
  <2>1. Bit(p.dup) \in 0 .. 1 /\ Bit(p.retained) \in 0 .. 1
    BY DEF Bit
  <2>2. PublishFlags(p) \in 0 .. 13
    BY <1>1, <2>1 DEF PublishFlags
  <2>3. PacketType["PUBLISH"] = 3
    BY DEF PacketType
  <2>4. 16 * PacketType["PUBLISH"] + PublishFlags(p) \in 0 .. 255
    BY <2>2, <2>3
  <2>. QED
    BY <2>4, Zenon DEF Byte
<1>. HIDE DEF rem
<1>. QED
  BY <1>2, <1>3, <1>4, PacksFrame

(* What each topic of a subscription takes, and all of them.               *)
LEMMA TopicsHold ==
    ASSUME NEW topics \in Seq(Bytes), NEW extra \in Nat, NEW ss, DOMAIN ss = DOMAIN topics,
           ss = [i \in DOMAIN topics |-> ss[i]],
           \A i \in DOMAIN topics : Holds(ss[i], 2 + Len(topics[i]) + extra)
    PROVE  Holds(FlattenSeq(ss), TopicsLength(topics, extra))
<1>1. DOMAIN topics = 1 .. Len(topics) /\ Len(topics) \in Nat
  OBVIOUS
<1>2. \A i \in 1 .. Len(topics) : ss[i] \in Bytes
  BY <1>1, Zenon DEF Holds, Bytes
<1>3. ss \in Seq(Bytes) /\ Len(ss) = Len(topics)
  <2>1. ss = [i \in 1 .. Len(topics) |-> ss[i]]
    BY <1>1, Zenon
  <2>2. ss \in [1 .. Len(topics) -> Bytes]
    BY <1>2, <2>1, Zenon
  <2>. QED
    BY <1>1, <2>2
<1>4. \A i \in 1 .. Len(topics) : Len(ss[i]) = 2 + Len(topics[i]) + extra
  BY <1>1, Zenon DEF Holds
<1>5. TopicsLength(topics, extra) = Len(FlattenSeq(ss))
  BY <1>3, <1>4, RoomOfTopics, ZenonT(60)
<1>6. FlattenSeq(ss) \in Seq(Byte)
  BY <1>3, FlattenType, Zenon DEF Bytes
<1>7. Len(FlattenSeq(ss)) \in Nat
  BY <1>6
<1>. QED
  BY <1>5, <1>6, <1>7, Zenon DEF Holds

(* A subscription is framed as it is written.                              *)
LEMMA SubscribeFrame ==
    ASSUME NEW p, p.type = "SUBSCRIBE", p.packet_id \in Word, p.topics \in Seq(Bytes),
           p.qos \in Seq(0 .. 2), Len(p.qos) = Len(p.topics), encode(p).err = "SUCCESS"
    PROVE  \E head, body : Frame(encode(p).bytes, head, body)
<1>. DEFINE ss   == [i \in DOMAIN p.topics |-> write_string(p.topics[i]) \o <<p.qos[i]>>]
            rem  == 2 + TopicsLength(p.topics, 1)
            body == Join(write_num(p.packet_id), FlattenSeq(ss))
<1>1. encode(p) = Packed(512, "SUBSCRIBE", 2, rem, body)
  <2>1. /\ p.type # "CONNECT" /\ p.type # "PUBLISH" /\ p.type # "UNSUBSCRIBE"
        /\ p.type # "CONNACK" /\ p.type # "SUBACK" /\ p.type \notin Acks
    BY DEF Acks
  <2>2. encode(p) = encode_subscribe(512, p.packet_id, p.topics, p.qos)
    BY <2>1, ZenonT(60) DEF encode
  <2>. QED
    BY <2>2, Zenon DEF encode_subscribe, Join
<1>2. ASSUME NEW i \in DOMAIN p.topics
      PROVE  Holds(ss[i], 2 + Len(p.topics[i]) + 1)
  <2>1. p.topics[i] \in Bytes
    OBVIOUS
  <2>2. p.qos[i] \in 0 .. 2
    OBVIOUS
  <2>3. Holds(write_string(p.topics[i]), 2 + Len(p.topics[i]))
    BY <2>1, HoldsString, Zenon
  <2>4. Holds(<<p.qos[i]>>, 1)
    <3>1. p.qos[i] \in Byte
      BY <2>2, ByteFacts
    <3>2. <<p.qos[i]>> \in Seq(Byte) /\ Len(<<p.qos[i]>>) = 1
      BY <3>1
    <3>. QED
      BY <3>2 DEF Holds
  <2>5. ss[i] = Join(write_string(p.topics[i]), <<p.qos[i]>>)
    BY Zenon DEF Join
  <2>. QED
    BY <2>3, <2>4, <2>5, HoldsJoined, Zenon
<1>3. DOMAIN ss = DOMAIN p.topics /\ ss = [i \in DOMAIN p.topics |-> ss[i]]
  BY Zenon
<1>. HIDE DEF ss
<1>4. Holds(FlattenSeq(ss), TopicsLength(p.topics, 1))
  <2>1. 1 \in Nat
    OBVIOUS
  <2>. QED
    BY <2>1, <1>2, <1>3, TopicsHold, Zenon
<1>5. Holds(body, rem)
  <2>1. p.packet_id \in Nat
    BY WordFacts, Zenon
  <2>2. Holds(write_num(p.packet_id), 2)
    BY <2>1, HoldsNum, ZenonT(60)
  <2>. QED
    BY <1>4, <2>2, HoldsJoined, Zenon
<1>6. 16 * PacketType["SUBSCRIBE"] + 2 \in Byte
  BY ByteFacts DEF PacketType
<1>. HIDE DEF rem, body
<1>. QED
  BY <1>1, <1>5, <1>6, PacksFrame

(* So is the end of one.                                                   *)
LEMMA UnsubscribeFrame ==
    ASSUME NEW p, p.type = "UNSUBSCRIBE", p.packet_id \in Word, p.topics \in Seq(Bytes),
           encode(p).err = "SUCCESS"
    PROVE  \E head, body : Frame(encode(p).bytes, head, body)
<1>. DEFINE ss   == [i \in DOMAIN p.topics |-> write_string(p.topics[i])]
            rem  == 2 + TopicsLength(p.topics, 0)
            body == Join(write_num(p.packet_id), FlattenSeq(ss))
<1>1. encode(p) = Packed(512, "UNSUBSCRIBE", 2, rem, body)
  <2>1. /\ p.type # "CONNECT" /\ p.type # "PUBLISH" /\ p.type # "SUBSCRIBE"
        /\ p.type # "CONNACK" /\ p.type # "SUBACK" /\ p.type \notin Acks
    BY DEF Acks
  <2>2. encode(p) = encode_unsubscribe(512, p.packet_id, p.topics)
    BY <2>1, ZenonT(60) DEF encode
  <2>. QED
    BY <2>2, Zenon DEF encode_unsubscribe, Join
<1>2. ASSUME NEW i \in DOMAIN p.topics
      PROVE  Holds(ss[i], 2 + Len(p.topics[i]) + 0)
  <2>1. p.topics[i] \in Bytes /\ Len(p.topics[i]) \in Nat
    BY DEF Bytes
  <2>2. Holds(write_string(p.topics[i]), 2 + Len(p.topics[i]))
    BY <2>1, HoldsString, Zenon
  <2>3. 2 + Len(p.topics[i]) + 0 = 2 + Len(p.topics[i])
    BY <2>1
  <2>. QED
    BY <2>2, <2>3, Zenon
<1>3. DOMAIN ss = DOMAIN p.topics /\ ss = [i \in DOMAIN p.topics |-> ss[i]]
  BY Zenon
<1>. HIDE DEF ss
<1>4. Holds(FlattenSeq(ss), TopicsLength(p.topics, 0))
  <2>1. 0 \in Nat
    OBVIOUS
  <2>. QED
    BY <2>1, <1>2, <1>3, TopicsHold, Zenon
<1>5. Holds(body, rem)
  <2>1. p.packet_id \in Nat
    BY WordFacts, Zenon
  <2>2. Holds(write_num(p.packet_id), 2)
    BY <2>1, HoldsNum, ZenonT(60)
  <2>. QED
    BY <1>4, <2>2, HoldsJoined, Zenon
<1>6. 16 * PacketType["UNSUBSCRIBE"] + 2 \in Byte
  BY ByteFacts DEF PacketType
<1>. HIDE DEF rem, body
<1>. QED
  BY <1>1, <1>5, <1>6, PacksFrame

(* lwmqtt_encode_connect: the optional strings are counted as often as     *)
(* they are written.                                                       *)
LEMMA ConnectFrame ==
    ASSUME NEW p, p.type = "CONNECT", p.options \in Options, p.will \in Seq(Will),
           encode(p).err = "SUCCESS"
    PROVE  \E head, body : Frame(encode(p).bytes, head, body)
<1>. DEFINE o      == p.options
            will   == p.will
            w      == will[1]
            named  == o.username # <<>>
            secret == named /\ o.password # <<>>
            wills  == will # <<>>
            flags  == 2 * Bit(o.clean_session) + 128 * Bit(named) + 64 * Bit(secret)
                      + (IF will = <<>> THEN 0 ELSE 4 + 8 * w.qos + 32 * Bit(w.retained))
            willLen   == IF will = <<>> THEN 0 ELSE Len(w.topic) + 2 + Len(w.payload) + 2
            userLen   == IF named THEN Len(o.username) + 2 ELSE 0
            secretLen == IF secret THEN Len(o.password) + 2 ELSE 0
            rem  == 10 + Len(o.client_id) + 2 + willLen + userLen + secretLen
            b1 == Join(write_string(<<77, 81, 84, 84>>), <<4, flags>>)
            b2 == Join(b1, write_num(o.keep_alive))
            b3 == Join(b2, write_string(o.client_id))
            bw == Join(write_string(w.topic), write_string(w.payload))
            b4 == Join(b3, When(wills, bw))
            b5 == Join(b4, When(named, write_string(o.username)))
            body == Join(b5, When(secret, write_string(o.password)))
<1>1. encode(p) = Packed(512, "CONNECT", 0, rem, body)
  <2>1. /\ p.type # "SUBSCRIBE" /\ p.type # "PUBLISH" /\ p.type # "UNSUBSCRIBE"
        /\ p.type # "CONNACK" /\ p.type # "SUBACK" /\ p.type \notin Acks
    BY DEF Acks
  <2>2. encode(p) = encode_connect(512, p.options, p.will)
    BY <2>1, ZenonT(60) DEF encode
  <2>. QED
    BY <2>2, Zenon DEF encode_connect, Join
<1>2. /\ o.client_id \in Bytes /\ o.username \in Bytes /\ o.password \in Bytes
      /\ o.keep_alive \in Word
  BY Zenon DEF Options
<1>3. wills => w \in Will
  <2>. SUFFICES ASSUME wills PROVE will[1] \in Will
    BY Zenon
  <2>. QED
    OBVIOUS
<1>4. wills => w.topic \in Bytes /\ w.payload \in Bytes /\ w.qos \in 0 .. 2
  BY <1>3, Zenon DEF Will
<1>5. Bit(o.clean_session) \in 0 .. 1 /\ Bit(named) \in 0 .. 1 /\ Bit(secret) \in 0 .. 1
      /\ Bit(w.retained) \in 0 .. 1
  <2>1. \A b : Bit(b) \in 0 .. 1
    BY DEF Bit
  <2>. QED
    BY <2>1, Zenon
<1>6. flags \in Byte
  <2>. DEFINE x == Bit(o.clean_session)
              y == Bit(named)
              z == Bit(secret)
              v == IF will = <<>> THEN 0 ELSE 4 + 8 * w.qos + 32 * Bit(w.retained)
  <2>1. v \in 0 .. 52
    <3>. DEFINE r == Bit(w.retained)
    <3>1. r \in 0 .. 1
      BY <1>5, Zenon
    <3>. HIDE DEF r
    <3>2. CASE wills
      <4>1. w.qos \in 0 .. 2
        BY <3>2, <1>4, Zenon
      <4>2. v = 4 + 8 * w.qos + 32 * r
        BY <3>2, Zenon DEF r
      <4>3. \A q \in 0 .. 2, b \in 0 .. 1 : 4 + 8 * q + 32 * b \in 0 .. 52
        OBVIOUS
      <4>. HIDE DEF v
      <4>. QED
        BY <3>1, <4>1, <4>2, <4>3, Zenon
    <3>3. CASE ~wills
      <4>1. v = 0
        BY <3>3, Zenon
      <4>. QED
        BY <4>1
    <3>. QED
      BY <3>2, <3>3, Zenon
  <2>2. x \in 0 .. 1 /\ y \in 0 .. 1 /\ z \in 0 .. 1
    BY <1>5, Zenon
  <2>3. flags = 2 * x + 128 * y + 64 * z + v
    BY Zenon
  <2>. HIDE DEF x, y, z, v, flags
  <2>4. flags \in 0 .. 255
    BY <2>1, <2>2, <2>3
  <2>. QED
    BY <2>4, Zenon DEF Byte
<1>. HIDE DEF flags
<1>7. Holds(b1, 8)
  <2>. DEFINE name == <<77, 81, 84, 84>>
  <2>1. 77 \in Byte /\ 81 \in Byte /\ 84 \in Byte /\ 4 \in Byte
    BY ByteFacts
  <2>2. name \in Seq(Byte) /\ Len(name) = 4
    BY <2>1
  <2>3. <<4, flags>> \in Seq(Byte) /\ Len(<<4, flags>>) = 2
    BY <1>6, <2>1
  <2>4. Holds(<<4, flags>>, 2)
    BY <2>3 DEF Holds
  <2>. HIDE DEF name
  <2>5. Holds(write_string(name), 2 + 4)
    BY <2>2, HoldsString, Zenon DEF Bytes
  <2>6. Holds(Join(write_string(name), <<4, flags>>), 2 + 4 + 2)
    BY <2>4, <2>5, HoldsJoined, Zenon
  <2>. QED
    BY <2>6 DEF name
<1>8. Holds(b2, 8 + 2)
  <2>1. o.keep_alive \in Nat
    BY <1>2, WordFacts, ZenonT(60)
  <2>2. Holds(write_num(o.keep_alive), 2)
    BY <2>1, HoldsNum, ZenonT(60)
  <2>. HIDE DEF b1
  <2>. QED
    BY <1>7, <2>2, HoldsJoined, Zenon
<1>9. Holds(b3, 8 + 2 + (2 + Len(o.client_id)))
  <2>1. Holds(write_string(o.client_id), 2 + Len(o.client_id))
    BY <1>2, HoldsString, Zenon
  <2>. HIDE DEF b2
  <2>. QED
    BY <1>8, <2>1, HoldsJoined, Zenon
<1>. DEFINE lw == IF wills THEN 2 + Len(w.topic) + (2 + Len(w.payload)) ELSE 0
            lu == IF named THEN 2 + Len(o.username) ELSE 0
            ls == IF secret THEN 2 + Len(o.password) ELSE 0
<1>10. Holds(When(wills, bw), lw)
  <2>1. wills => Holds(bw, 2 + Len(w.topic) + (2 + Len(w.payload)))
    BY <1>4, HoldsString, HoldsJoined, Zenon
  <2>2. wills \in BOOLEAN
    BY Zenon
  <2>. HIDE DEF wills, bw, w
  <2>. QED
    BY <2>1, <2>2, HoldsWhen, Zenon
<1>11. Holds(When(named, write_string(o.username)), lu)
  <2>1. Holds(write_string(o.username), 2 + Len(o.username))
    BY <1>2, HoldsString, Zenon
  <2>2. named \in BOOLEAN
    BY Zenon
  <2>. HIDE DEF named, o
  <2>. QED
    BY <2>1, <2>2, HoldsWhen, Zenon
<1>12. Holds(When(secret, write_string(o.password)), ls)
  <2>1. Holds(write_string(o.password), 2 + Len(o.password))
    BY <1>2, HoldsString, Zenon
  <2>2. secret \in BOOLEAN
    BY Zenon
  <2>. HIDE DEF secret, o
  <2>. QED
    BY <2>1, <2>2, HoldsWhen, Zenon
<1>13. Holds(body, 8 + 2 + (2 + Len(o.client_id)) + lw + lu + ls)
  <2>. HIDE DEF b3, bw, lw, lu, ls, wills, named, secret
  <2>1. Holds(b4, 8 + 2 + (2 + Len(o.client_id)) + lw)
    BY <1>9, <1>10, HoldsJoined, Zenon
  <2>. HIDE DEF b4
  <2>2. Holds(b5, 8 + 2 + (2 + Len(o.client_id)) + lw + lu)
    BY <2>1, <1>11, HoldsJoined, Zenon
  <2>. HIDE DEF b5
  <2>. QED
    BY <2>2, <1>12, HoldsJoined, Zenon
<1>14. rem = 8 + 2 + (2 + Len(o.client_id)) + lw + lu + ls
  <2>1. /\ Len(o.client_id) \in Nat /\ Len(o.username) \in Nat /\ Len(o.password) \in Nat
    BY <1>2 DEF Bytes
  <2>2. wills => Len(w.topic) \in Nat /\ Len(w.payload) \in Nat
    BY <1>4 DEF Bytes
  <2>3. lw = willLen /\ lw \in Nat
    <3>1. CASE wills
      <4>1. willLen = Len(w.topic) + 2 + Len(w.payload) + 2
        BY <3>1, Zenon
      <4>2. lw = 2 + Len(w.topic) + (2 + Len(w.payload))
        BY <3>1, Zenon
      <4>3. \A a, b \in Nat : /\ 2 + a + (2 + b) = a + 2 + b + 2
                              /\ 2 + a + (2 + b) \in Nat
        OBVIOUS
      <4>. HIDE DEF lw, willLen
      <4>. QED
        BY <3>1, <2>2, <4>1, <4>2, <4>3, Zenon
    <3>2. CASE ~wills
      <4>1. willLen = 0 /\ lw = 0
        BY <3>2, Zenon
      <4>. HIDE DEF lw, willLen
      <4>. QED
        BY <4>1
    <3>. QED
      BY <3>1, <3>2, Zenon
  <2>4. lu = userLen /\ lu \in Nat
    <3>. DEFINE x == Len(o.username)
    <3>1. x \in Nat
      BY <2>1
    <3>. HIDE DEF x
    <3>2. 2 + x = x + 2 /\ 2 + x \in Nat /\ 0 \in Nat
      BY <3>1
    <3>. QED
      BY <3>2, Zenon DEF x
  <2>5. ls = secretLen /\ ls \in Nat
    <3>. DEFINE x == Len(o.password)
    <3>1. x \in Nat
      BY <2>1
    <3>. HIDE DEF x
    <3>2. 2 + x = x + 2 /\ 2 + x \in Nat /\ 0 \in Nat
      BY <3>1
    <3>. QED
      BY <3>2, Zenon DEF x
  <2>. DEFINE x == Len(o.client_id)
  <2>6. x \in Nat
    BY <2>1
  <2>7. rem = 10 + x + 2 + lw + lu + ls
    BY <2>3, <2>4, <2>5, Zenon
  <2>. HIDE DEF lw, lu, ls, rem, x
  <2>8. rem = 8 + 2 + (2 + x) + lw + lu + ls
    BY <2>3, <2>4, <2>5, <2>6, <2>7
  <2>. QED
    BY <2>8 DEF x
<1>15. 16 * PacketType["CONNECT"] + 0 \in Byte
  BY ByteFacts DEF PacketType
<1>. HIDE DEF rem, body, lw, lu, ls
<1>16. Holds(body, rem)
  BY <1>13, <1>14, Zenon
<1>. HIDE DEF o, will
<1>. QED
  BY <1>1, <1>15, <1>16, PacksFrame

(* A frame whose remaining length is one byte.                             *)
LEMMA ShortFrame ==
    ASSUME NEW head \in Byte, NEW n, NEW body, Holds(body, n), n < 128
    PROVE  Frame(Join(<<head, n>>, body), head, body)
<1>. DEFINE bytes == Join(<<head, n>>, body)
<1>1. body \in Seq(Byte) /\ Len(body) = n /\ n \in Nat
  BY DEF Holds
<1>2. n \in Byte
  BY <1>1, ByteFacts
<1>3. /\ <<head, n>> \in Seq(Byte) /\ Len(<<head, n>>) = 2
      /\ <<head, n>>[1] = head /\ <<head, n>>[2] = n
  BY <1>2
<1>4. PICK a : a = <<head, n>>
  OBVIOUS
<1>5. bytes = Join(a, body)
  BY <1>4
<1>6. a \in Seq(Byte) /\ Len(a) = 2 /\ a[1] = head /\ a[2] = n
  BY <1>3, <1>4
<1>. HIDE DEF bytes
<1>b. Parts(bytes, a, body)
  BY <1>1, <1>5, <1>6, JoinParts, Zenon DEF Bytes
<1>7. bytes \in Seq(Byte) /\ Len(bytes) = 2 + Len(body)
  BY <1>b, <1>6, Zenon DEF Parts, Bytes
<1>8. bytes[1] = head /\ bytes[2] = n /\ \A i \in 1 .. Len(body) : bytes[2 + i] = body[i]
  BY <1>b, <1>6 DEF Parts
<1>9. /\ Tail(bytes) \in Seq(Byte) /\ Len(Tail(bytes)) = 1 + Len(body)
      /\ Tail(bytes)[1] = n
  BY <1>1, <1>7, <1>8
<1>10. Delimits(Tail(bytes), 1)
  BY <1>1, <1>9 DEF Delimits
<1>11. Number(Tail(bytes), 1) = n
  <2>1. Number(Tail(bytes), 1) = n % 128
    BY <1>1, <1>9, SMT DEF Number
  <2>2. n % 128 = n
    BY <1>1
  <2>. QED
    BY <2>1, <2>2, Zenon
<1>12. /\ Len(bytes) = 1 + 1 + Len(body) /\ 1 \in 1 .. 4
       /\ \A i \in 1 .. Len(body) : bytes[1 + 1 + i] = body[i]
  BY <1>1, <1>7, <1>8
<1>13. FrameOf(bytes, head, body, 1)
  BY <1>1, <1>7, <1>8, <1>10, <1>11, <1>12, Zenon DEF FrameOf
<1>. QED
  BY <1>12, <1>13, Zenon DEF Frame, bytes

(* The broker's answer to a connection.                                    *)
LEMMA ConnackFrame ==
    ASSUME NEW p, p.type = "CONNACK", p.return_code \in 0 .. 5
    PROVE  /\ encode(p).err = "SUCCESS"
           /\ Frame(encode(p).bytes, 32, <<Bit(p.session_present), p.return_code>>)
           /\ Holds(<<Bit(p.session_present), p.return_code>>, 2)
<1>. DEFINE body == <<Bit(p.session_present), p.return_code>>
<1>1. encode(p) = [err |-> "SUCCESS", bytes |-> <<32, 2, Bit(p.session_present), p.return_code>>]
  <2>1. /\ p.type # "SUBSCRIBE" /\ p.type # "PUBLISH" /\ p.type # "UNSUBSCRIBE"
        /\ p.type # "CONNECT" /\ p.type # "SUBACK" /\ p.type \notin Acks
    BY DEF Acks
  <2>. QED
    BY <2>1, ZenonT(60) DEF encode
<1>2. Bit(p.session_present) \in Byte /\ p.return_code \in Byte
  <2>1. Bit(p.session_present) \in 0 .. 1
    BY DEF Bit
  <2>. QED
    BY <2>1, ByteFacts
<1>3. body \in Seq(Byte) /\ Len(body) = 2
  BY <1>2
<1>4. Holds(body, 2)
  BY <1>3 DEF Holds
<1>5. 32 \in Byte /\ 2 < 128
  BY ByteFacts
<1>6. encode(p).bytes = Join(<<32, 2>>, body)
  <2>. PICK x : x = Bit(p.session_present)
    OBVIOUS
  <2>1. encode(p).bytes = <<32, 2, x, p.return_code>> /\ body = <<x, p.return_code>>
    BY <1>1
  <2>2. PICK y : y = p.return_code
    OBVIOUS
  <2>3. x \in Byte /\ y \in Byte /\ 32 \in Byte /\ 2 \in Byte
    BY <1>2, <1>5, <2>2, ByteFacts
  <2>4. PICK a, b, c : a = <<32, 2>> /\ b = <<x, y>> /\ c = <<32, 2, x, y>>
    OBVIOUS
  <2>5. /\ a \in Seq(Byte) /\ Len(a) = 2 /\ a[1] = 32 /\ a[2] = 2
        /\ b \in Seq(Byte) /\ Len(b) = 2 /\ b[1] = x /\ b[2] = y
    BY <2>3, <2>4
  <2>6. /\ c \in Seq(Byte) /\ Len(c) = 4
        /\ c[1] = 32 /\ c[2] = 2 /\ c[3] = x /\ c[4] = y
    BY <2>3, <2>4
  <2>7. /\ Join(a, b) \in Seq(Byte) /\ Len(Join(a, b)) = 4
        /\ Join(a, b)[1] = 32 /\ Join(a, b)[2] = 2
        /\ Join(a, b)[3] = x /\ Join(a, b)[4] = y
    <3>1. Parts(Join(a, b), a, b)
      BY <2>5, JoinParts, Zenon DEF Bytes
    <3>2. /\ Len(Join(a, b)) = Len(a) + Len(b) /\ Join(a, b) \in Seq(Byte)
          /\ \A i \in 1 .. Len(a) : Join(a, b)[i] = a[i]
          /\ \A i \in 1 .. Len(b) : Join(a, b)[Len(a) + i] = b[i]
      BY <3>1, Zenon DEF Parts, Bytes
    <3>3. Len(Join(a, b)) = 4 /\ Join(a, b)[1] = 32 /\ Join(a, b)[2] = 2
      BY <3>2, <2>5
    <3>4. Join(a, b)[2 + 1] = x /\ Join(a, b)[2 + 2] = y
      BY <3>2, <2>5
    <3>. QED
      BY <3>2, <3>3, <3>4, <2>5
  <2>8. Join(a, b) = c
    BY <2>6, <2>7, SameSequence
  <2>. QED
    BY <2>1, <2>2, <2>4, <2>8, Zenon
<1>. HIDE DEF body
<1>7. Frame(encode(p).bytes, 32, body)
  BY <1>4, <1>5, <1>6, ShortFrame
<1>8. encode(p).err = "SUCCESS"
  BY <1>1
<1>. QED
  BY <1>8, <1>4, <1>7, Zenon DEF body

(* The broker's answer to a subscription.                                  *)
LEMMA SubackFrame ==
    ASSUME NEW p, p.type = "SUBACK", p.packet_id \in Word,
           p.granted \in [{1} -> {0, 1, 2, 128}]
    PROVE  /\ encode(p).err = "SUCCESS"
           /\ Frame(encode(p).bytes, 144, Join(write_num(p.packet_id), p.granted))
           /\ Holds(Join(write_num(p.packet_id), p.granted), 2 + 1)
           /\ Holds(p.granted, 1)
<1>. DEFINE body == Join(write_num(p.packet_id), p.granted)
<1>1. encode(p) = [err |-> "SUCCESS",
                   bytes |-> Join(Join(<<144, 2 + Len(p.granted)>>, write_num(p.packet_id)),
                                  p.granted)]
  <2>1. /\ p.type # "SUBSCRIBE" /\ p.type # "PUBLISH" /\ p.type # "UNSUBSCRIBE"
        /\ p.type # "CONNECT" /\ p.type # "CONNACK" /\ p.type \notin Acks
    BY DEF Acks
  <2>. QED
    BY <2>1, ZenonT(60) DEF encode, Join
<1>2. p.granted \in Seq(Byte) /\ Len(p.granted) = 1
  <2>1. 0 \in Byte /\ 1 \in Byte /\ 2 \in Byte /\ 128 \in Byte
    BY ByteFacts
  <2>2. {1} = 1 .. 1 /\ 1 \in Nat
    OBVIOUS
  <2>3. {0, 1, 2, 128} \subseteq Byte
    BY <2>1, Zenon
  <2>4. p.granted \in [1 .. 1 -> Byte]
    <3>1. \A i \in {1} : p.granted[i] \in Byte
      BY <2>3, Zenon
    <3>2. p.granted = [i \in {1} |-> p.granted[i]]
      BY Zenon
    <3>3. p.granted \in [{1} -> Byte]
      BY <3>1, <3>2, Zenon
    <3>. QED
      BY <3>3, <2>2, Zenon
  <2>. QED
    BY <2>4, <2>2, FunctionIsSequence, Zenon
<1>3. Holds(p.granted, 1)
  BY <1>2 DEF Holds
<1>4. p.packet_id \in Nat
  BY WordFacts, Zenon
<1>5. Holds(write_num(p.packet_id), 2)
  BY <1>4, HoldsNum, Zenon
<1>6. Holds(body, 2 + 1)
  BY <1>3, <1>5, HoldsJoined, Zenon
<1>7. 144 \in Byte /\ 3 \in Byte /\ 3 < 128 /\ 2 + Len(p.granted) = 3 /\ 2 + 1 = 3
  BY <1>2, ByteFacts
<1>8. encode(p).bytes = Join(<<144, 3>>, body)
  <2>1. <<144, 3>> \in Seq(Byte)
    BY <1>7
  <2>2. write_num(p.packet_id) \in Seq(Byte)
    BY <1>5, Zenon DEF Holds
  <2>5. PICK h, v, g : h = <<144, 3>> /\ v = write_num(p.packet_id) /\ g = p.granted
    OBVIOUS
  <2>3. Join(Join(h, v), g) = Join(h, Join(v, g))
    <3>1. h \in Bytes /\ v \in Bytes /\ g \in Bytes
      BY <2>1, <2>2, <2>5, <1>2, Zenon DEF Bytes
    <3>. QED
      BY <3>1, JoinBytes, Zenon
  <2>4. encode(p).bytes = Join(Join(<<144, 2 + Len(p.granted)>>, write_num(p.packet_id)),
                                  p.granted)
    BY <1>1
  <2>. QED
    BY <2>4, <2>5, <1>7, <2>3, ZenonT(60)
<1>. HIDE DEF body
<1>9. Frame(encode(p).bytes, 144, body)
  <2>1. Holds(body, 3)
    BY <1>6, <1>7, Zenon
  <2>2. Frame(Join(<<144, 3>>, body), 144, body)
    BY <2>1, <1>7, ShortFrame
  <2>. QED
    BY <2>2, <1>8, Zenon
<1>10. encode(p).err = "SUCCESS"
  BY <1>1
<1>. QED
  BY <1>10, <1>3, <1>6, <1>9, Zenon DEF body

(* Whatever either side sends is a frame.                                  *)
THEOREM EncodesFrames ==
    ASSUME NEW p \in ClientPackets \cup BrokerPackets, encode(p).err = "SUCCESS"
    PROVE  \E head, body : Frame(encode(p).bytes, head, body)
<1>1. CASE p \in Publications
  BY <1>1, PublishFrame, Zenon
<1>2. CASE p \in Acknowledgements
  BY <1>2, AckFrame, Zenon
<1>3. CASE p \in [type : {"PINGRESP"}] \/ p \in [type : {"PINGREQ", "DISCONNECT"}]
  <2>1. p \in [type : {"PINGREQ", "PINGRESP", "DISCONNECT"}]
    BY <1>3
  <2>. QED
    BY <2>1, ZeroFrame, Zenon
<1>4. CASE p \in [type : {"CONNACK"}, session_present : BOOLEAN, return_code : 0 .. 5]
  <2>1. p.type = "CONNACK" /\ p.return_code \in 0 .. 5
    BY <1>4
  <2>. QED
    BY <2>1, ConnackFrame, Zenon
<1>5. CASE p \in [type : {"SUBACK"}, packet_id : Word, granted : [{1} -> {0, 1, 2, 128}]]
  <2>1. p.type = "SUBACK" /\ p.packet_id \in Word /\ p.granted \in [{1} -> {0, 1, 2, 128}]
    BY <1>5, Zenon
  <2>. QED
    BY <2>1, SubackFrame, Zenon
<1>6. CASE p \in [type : {"CONNECT"}, options : Options, will : Seq(Will)]
  <2>1. p.type = "CONNECT" /\ p.options \in Options /\ p.will \in Seq(Will)
    BY <1>6, Zenon
  <2>. QED
    BY <2>1, ConnectFrame, Zenon
<1>7. CASE p \in {q \in [type : {"SUBSCRIBE"}, packet_id : Word, topics : Seq(Bytes),
                         qos : Seq(0 .. 2)] : Len(q.qos) = Len(q.topics)}
  <2>1. /\ p.type = "SUBSCRIBE" /\ p.packet_id \in Word /\ p.topics \in Seq(Bytes)
        /\ p.qos \in Seq(0 .. 2) /\ Len(p.qos) = Len(p.topics)
    BY <1>7, Zenon
  <2>. QED
    BY <2>1, SubscribeFrame, Zenon
<1>8. CASE p \in [type : {"UNSUBSCRIBE"}, packet_id : Word, topics : Seq(Bytes)]
  <2>1. p.type = "UNSUBSCRIBE" /\ p.packet_id \in Word /\ p.topics \in Seq(Bytes)
    BY <1>8, Zenon
  <2>. QED
    BY <2>1, UnsubscribeFrame, Zenon
<1>. QED
  BY <1>1, <1>2, <1>3, <1>4, <1>5, <1>6, <1>7, <1>8, Zenon DEF ClientPackets, BrokerPackets

(***************************************************************************)
(* The decoders of packet.c, which are given the whole read buffer.        *)
(***************************************************************************)
(* The buffer begins with these bytes.                                     *)
Begins(buf, bytes) ==
    /\ buf \in Bytes /\ bytes \in Bytes /\ Len(bytes) <= Len(buf)
    /\ \A i \in 1 .. Len(bytes) : buf[i] = bytes[i]

(* The four bits of the type are read back.                                *)
LEMMA TypeIsRead ==
    ASSUME NEW t \in DOMAIN PacketType, NEW flags \in 0 .. 15, NEW buf,
           buf[1] = 16 * PacketType[t] + flags
    PROVE  TypeOf(buf) = t
<1>. DEFINE types == {s \in DOMAIN PacketType : PacketType[s] = read_bits(buf[1], 4, 4)}
<1>1. PacketType[t] \in 1 .. 14
  BY DEF PacketType
<1>2. read_bits(buf[1], 4, 4) = PacketType[t]
  <2>1. \A n \in 1 .. 14 : ((16 * n + flags) \div 16) % 16 = n
    BY SMT
  <2>2. \A b : read_bits(b, 4, 4) = (b \div 16) % 16
    <3>1. 2 ^ 4 = 16
      BY SMT
    <3>. QED
      BY <3>1, Zenon DEF read_bits
  <2>. QED
    BY <1>1, <2>1, <2>2, Zenon
<1>3. \A s \in DOMAIN PacketType : PacketType[s] = PacketType[t] => s = t
  BY DEF PacketType
<1>4. types = {t}
  BY <1>2, <1>3, Zenon
<1>. QED
  BY <1>4 DEF TypeOf

(* The remaining length is read from the buffer, and what it counts.       *)
IsOpened(buf, head, body, d) ==
    /\ buf[1] = head
    /\ read_varnum(Tail(buf)) = [err |-> "SUCCESS", len |-> d, num |-> Len(body)]
    /\ Begins(SubSeq(buf, 2 + d, Len(buf)), body)

(* A buffer that begins with a frame opens to its head and body.           *)
LEMMA Opens ==
    ASSUME NEW buf, NEW bytes, NEW head, NEW body, NEW d, FrameOf(bytes, head, body, d),
           Begins(buf, bytes)
    PROVE  IsOpened(buf, head, body, d)
<1>. DEFINE rest == SubSeq(buf, 2 + d, Len(buf))
<1>1. /\ bytes \in Seq(Byte) /\ body \in Seq(Byte) /\ d \in 1 .. 4
      /\ Len(bytes) = 1 + d + Len(body) /\ bytes[1] = head
      /\ \A i \in 1 .. Len(body) : bytes[1 + d + i] = body[i]
  BY Zenon DEF FrameOf
<1>2. /\ buf \in Seq(Byte) /\ Len(bytes) <= Len(buf)
      /\ \A i \in 1 .. Len(bytes) : buf[i] = bytes[i]
  BY Zenon DEF Begins, Bytes
<1>3. Len(body) \in Nat /\ Len(buf) \in Nat /\ d \in Nat
  BY <1>1, <1>2
<1>4. buf[1] = head
  BY <1>1, <1>2, <1>3
<1>5. /\ Tail(buf) \in Seq(Byte) /\ Len(Tail(buf)) = Len(buf) - 1
      /\ Tail(bytes) \in Seq(Byte) /\ Len(Tail(bytes)) = Len(bytes) - 1
      /\ \A i \in 1 .. Len(buf) - 1 : Tail(buf)[i] = buf[i + 1]
      /\ \A i \in 1 .. Len(bytes) - 1 : Tail(bytes)[i] = bytes[i + 1]
  <2>1. buf # <<>> /\ bytes # <<>>
    BY <1>1, <1>2, <1>3
  <2>. QED
    BY <1>1, <1>2, <2>1
<1>6. \A i \in 1 .. d : Tail(buf)[i] = Tail(bytes)[i]
  <2>. TAKE i \in 1 .. d
  <2>1. i \in 1 .. Len(buf) - 1 /\ i \in 1 .. Len(bytes) - 1 /\ i + 1 \in 1 .. Len(bytes)
    BY <1>1, <1>2, <1>3
  <2>. QED
    BY <2>1, <1>2, <1>5, Zenon
<1>7. Delimits(Tail(bytes), d) /\ Number(Tail(bytes), d) = Len(body)
  BY Zenon DEF FrameOf
<1>8. d <= Len(Tail(buf))
  BY <1>1, <1>2, <1>3, <1>5
<1>9. Delimits(Tail(buf), d) /\ Number(Tail(buf), d) = Len(body)
  BY <1>5, <1>6, <1>7, <1>8, SameNumber
<1>10. read_varnum(Tail(buf)) = [err |-> "SUCCESS", len |-> d, num |-> Len(body)]
  <2>. PICK b : b = Tail(buf)
    OBVIOUS
  <2>1. read_varnum(b) = [err |-> "SUCCESS", len |-> d, num |-> Number(b, d)]
    BY <1>5, <1>9, ReadsVarnum
  <2>. QED
    BY <2>1, <1>9
<1>11. /\ rest \in Seq(Byte) /\ Len(rest) = Len(buf) - (1 + d)
       /\ \A i \in 1 .. Len(buf) - (1 + d) : rest[i] = buf[1 + d + i]
  <2>1. 1 + d \in Nat /\ 1 + d <= Len(buf) /\ Len(buf) <= Len(buf) /\ (1 + d) + 1 = 2 + d
    BY <1>1, <1>2, <1>3
  <2>2. IsSlice(SubSeq(buf, (1 + d) + 1, Len(buf)), buf, 1 + d, Len(buf))
    BY <2>1, <1>2, <1>3, Slices, Zenon DEF Bytes
  <2>. QED
    BY <2>1, <2>2, Zenon DEF IsSlice, Bytes
<1>12. Begins(rest, body)
  <2>1. Len(body) <= Len(rest)
    BY <1>1, <1>2, <1>3, <1>11
  <2>2. \A i \in 1 .. Len(body) : rest[i] = body[i]
    <3>. TAKE i \in 1 .. Len(body)
    <3>1. i \in 1 .. Len(buf) - (1 + d) /\ 1 + d + i \in 1 .. Len(bytes)
      BY <1>1, <1>2, <1>3
    <3>. QED
      BY <3>1, <1>1, <1>2, <1>11, Zenon
  <2>. QED
    BY <1>1, <1>11, <2>1, <2>2, Zenon DEF Begins, Bytes
<1>. QED
  BY <1>4, <1>10, <1>12, Zenon DEF IsOpened

(* A number of 16 bits is read back from its two bytes.                    *)
LEMMA ReadsNum ==
    ASSUME NEW n \in Nat, n < 256 * 256, NEW b, b[1] = write_num(n)[1], b[2] = write_num(n)[2]
    PROVE  read_num(b) = n
<1>1. 256 * write_num(n)[1] + write_num(n)[2] = n
  BY HoldsNum, Zenon
<1>. QED
  BY <1>1, ZenonT(60) DEF read_num

(* The bit for dup, behind the type and below other flags.                 *)
LEMMA DupIsRead ==
    ASSUME NEW t \in Nat, NEW dup \in BOOLEAN, NEW low \in 0 .. 7
    PROVE  read_bits(16 * t + (8 * Bit(dup) + low), 3, 1) = Bit(dup)
<1>. DEFINE head == 16 * t + (8 * Bit(dup) + low)
<1>1. read_bits(head, 3, 1) = (head \div 8) % 2
  <2>1. 2 ^ 3 = 8 /\ 2 ^ 1 = 2
    BY SMT
  <2>. QED
    BY <2>1, Zenon DEF read_bits
<1>2. \A b \in 0 .. 1 : ((16 * t + (8 * b + low)) \div 8) % 2 = b
  <2>. TAKE b \in 0 .. 1
  <2>1. (16 * t + (8 * b + low)) \div 8 = 2 * t + b
    BY SMT
  <2>2. (2 * t + b) % 2 = b
    BY SMT
  <2>. QED
    BY <2>1, <2>2, Zenon
<1>3. Bit(dup) \in 0 .. 1
  BY DEF Bit
<1>. QED
  BY <1>1, <1>2, <1>3, Zenon

(* A flag is its bit.                                                      *)
LEMMA BitIsFlag ==
    ASSUME NEW b \in BOOLEAN
    PROVE  (Bit(b) = 1) = b
<1>1. CASE b
  <2>1. Bit(b) = 1
    BY <1>1, Zenon DEF Bit
  <2>. QED
    BY <1>1, <2>1, Zenon
<1>2. CASE ~b
  <2>1. Bit(b) = 0 /\ 0 # 1
    BY <1>2 DEF Bit
  <2>2. (Bit(b) = 1) = FALSE
    BY <2>1, Zenon
  <2>. QED
    BY <1>2, <2>2, Zenon
<1>. QED
  BY <1>1, <1>2, Zenon

(* lwmqtt_decode_ack reads what lwmqtt_encode_ack has written.             *)
LEMMA AckDecoded ==
    ASSUME NEW p \in Acknowledgements, encode(p).err = "SUCCESS",
           NEW buf, Begins(buf, encode(p).bytes)
    PROVE  TypeOf(buf) = p.type /\ Agrees(p, decode(buf))
<1>. DEFINE low  == 2 * Bit(p.type = "PUBREL")
            head == 16 * PacketType[p.type] + (8 * Bit(p.dup) + low)
            body == write_num(p.packet_id)
<1>1. p.type \in Acks /\ p.dup \in BOOLEAN /\ p.packet_id \in Word
  BY Zenon DEF Acknowledgements
<1>2. p.type \in DOMAIN PacketType /\ PacketType[p.type] \in 1 .. 14
  <2>1. p.type \in {"PUBACK", "PUBREC", "PUBREL", "PUBCOMP", "UNSUBACK"}
    BY <1>1, Zenon DEF Acks
  <2>. QED
    BY <2>1 DEF PacketType
<1>3. low \in 0 .. 7 /\ 8 * Bit(p.dup) + low \in 0 .. 15
  BY DEF Bit
<1>4. Frame(encode(p).bytes, head, body)
  BY AckFrame, Zenon
<1>. HIDE DEF head, body, low
<1>5. PICK d \in 1 .. 4 : FrameOf(encode(p).bytes, head, body, d)
  BY <1>4, Zenon DEF Frame
<1>6. PICK rest : rest = SubSeq(buf, 2 + d, Len(buf))
  OBVIOUS
<1>7. /\ buf[1] = head
      /\ read_varnum(Tail(buf)) = [err |-> "SUCCESS", len |-> d, num |-> Len(body)]
      /\ Begins(rest, body)
  <2>1. IsOpened(buf, head, body, d)
    BY <1>5, Opens, Zenon
  <2>. QED
    BY <2>1, <1>6, Zenon DEF IsOpened
<1>8. TypeOf(buf) = p.type
  BY <1>2, <1>3, <1>7, TypeIsRead, Zenon DEF head
<1>9. Len(body) = 2 /\ p.packet_id \in Nat
  <2>1. p.packet_id \in Nat
    BY <1>1, WordFacts, ZenonT(60)
  <2>. QED
    BY <2>1, HoldsNum, Zenon DEF Holds, body
<1>10. decode(buf) = [err |-> "SUCCESS", dup |-> read_bits(buf[1], 3, 1) = 1,
                      packet_id |-> read_num(rest)]
  <2>1. p.type # "CONNACK" /\ p.type # "PUBLISH" /\ p.type # "SUBACK"
    BY <1>1 DEF Acks
  <2>2. decode(buf) = decode_ack(buf, p.type)
    BY <1>1, <1>8, <2>1, Zenon DEF decode
  <2>. DEFINE rem == read_varnum(Tail(buf))
  <2>3. rem.err = "SUCCESS" /\ rem.num = 2 /\ rem.len = d
    BY <1>7, <1>9
  <2>4. SubSeq(buf, 2 + rem.len, Len(buf)) = rest
    BY <1>6, <2>3, Zenon
  <2>5. Len(rest) \in Nat /\ ~(Len(rest) < 2)
    <3>1. rest \in Bytes /\ Len(body) <= Len(rest)
      BY <1>7, Zenon DEF Begins
    <3>. QED
      BY <3>1, <1>9 DEF Bytes
  <2>6. 2 = 2
    OBVIOUS
  <2>. HIDE DEF rem
  <2>7. decode_ack(buf, p.type) =
          [err |-> "SUCCESS", dup |-> read_bits(buf[1], 3, 1) = 1, packet_id |-> read_num(rest)]
    BY <1>8, <2>3, <2>4, <2>5, Zenon DEF decode_ack, Opened, rem
  <2>. QED
    BY <2>2, <2>7, Zenon
<1>11. (read_bits(buf[1], 3, 1) = 1) = p.dup
  <2>1. PacketType[p.type] \in Nat
    BY <1>2
  <2>2. buf[1] = 16 * PacketType[p.type] + (8 * Bit(p.dup) + low)
    BY <1>7, Zenon DEF head
  <2>3. read_bits(buf[1], 3, 1) = Bit(p.dup)
    <3>1. read_bits(16 * PacketType[p.type] + (8 * Bit(p.dup) + low), 3, 1) = Bit(p.dup)
      BY <1>1, <1>3, <2>1, DupIsRead, Zenon
    <3>. QED
      BY <2>2, <3>1, Zenon
  <2>. QED
    BY <1>1, <2>3, BitIsFlag, Zenon
<1>12. read_num(rest) = p.packet_id
  <2>1. rest[1] = body[1] /\ rest[2] = body[2]
    BY <1>7, <1>9 DEF Begins
  <2>. QED
    BY <1>1, <2>1, ReadsNum, WordFacts, Zenon DEF body
<1>. QED
  <2>1. decode(buf) = [err |-> "SUCCESS", dup |-> p.dup, packet_id |-> p.packet_id]
    BY <1>10, <1>11, <1>12, Zenon
  <2>. DEFINE D(a, b) == [err |-> "SUCCESS", dup |-> a, packet_id |-> b]
  <2>2. \A a, b : /\ D(a, b).err = "SUCCESS" /\ DOMAIN D(a, b) = {"err", "dup", "packet_id"}
                  /\ D(a, b).dup = a /\ D(a, b).packet_id = b
    OBVIOUS
  <2>3. decode(buf) = D(p.dup, p.packet_id)
    BY <2>1, Zenon
  <2>. HIDE DEF D
  <2>4. /\ D(p.dup, p.packet_id).err = "SUCCESS"
        /\ DOMAIN D(p.dup, p.packet_id) = {"err", "dup", "packet_id"}
        /\ D(p.dup, p.packet_id).dup = p.dup
        /\ D(p.dup, p.packet_id).packet_id = p.packet_id
    BY <2>2, ZenonT(60)
  <2>. QED
    BY <1>8, <2>3, <2>4, Zenon DEF Agrees

(* lwmqtt_decode_connack reads the return code; of session_present nothing *)
(* is said.                                                                *)
LEMMA ConnackDecoded ==
    ASSUME NEW p, p.type = "CONNACK", p.return_code \in 0 .. 5,
           NEW buf, Begins(buf, encode(p).bytes)
    PROVE  TypeOf(buf) = p.type /\ Agrees(p, decode(buf))
<1>. DEFINE body == <<Bit(p.session_present), p.return_code>>
<1>1. Frame(encode(p).bytes, 32, body) /\ Holds(body, 2)
  BY ConnackFrame, Zenon
<1>2. body[2] = p.return_code
  BY Zenon
<1>. HIDE DEF body
<1>3. PICK d \in 1 .. 4 : FrameOf(encode(p).bytes, 32, body, d)
  BY <1>1, Zenon DEF Frame
<1>4. PICK rest : rest = SubSeq(buf, 2 + d, Len(buf))
  OBVIOUS
<1>5. /\ buf[1] = 32
      /\ read_varnum(Tail(buf)) = [err |-> "SUCCESS", len |-> d, num |-> Len(body)]
      /\ Begins(rest, body)
  <2>1. IsOpened(buf, 32, body, d)
    BY <1>3, Opens, Zenon
  <2>. QED
    BY <2>1, <1>4, Zenon DEF IsOpened
<1>6. TypeOf(buf) = p.type
  <2>1. buf[1] = 16 * PacketType["CONNACK"] + 0 /\ 0 \in 0 .. 15
    BY <1>5 DEF PacketType
  <2>2. "CONNACK" \in DOMAIN PacketType
    BY DEF PacketType
  <2>. QED
    BY <2>1, <2>2, TypeIsRead, Zenon
<1>7. Len(body) = 2 /\ 2 = 2
  BY <1>1, Zenon DEF Holds
<1>8. rest[2] <= 5 /\ rest[2] = p.return_code
  BY <1>2, <1>5, <1>7 DEF Begins
<1>. DEFINE D(a, b) == [err |-> "SUCCESS", session_present |-> a, return_code |-> b]
            flag    == read_bits(rest[1], 7, 1) = 1
<1>9. decode(buf) = D(flag, p.return_code)
  <2>1. p.type \notin Acks
    BY DEF Acks
  <2>2. decode(buf) = decode_connack(buf)
    BY <1>6, <2>1, Zenon DEF decode
  <2>. DEFINE rem == read_varnum(Tail(buf))
  <2>3. rem.err = "SUCCESS" /\ rem.num = 2 /\ rem.len = d
    BY <1>5, <1>7
  <2>4. SubSeq(buf, 2 + rem.len, Len(buf)) = rest
    BY <1>4, <2>3, Zenon
  <2>5. ~(Len(rest) < 2)
    <3>1. rest \in Bytes /\ Len(body) <= Len(rest)
      BY <1>5, Zenon DEF Begins
    <3>. QED
      BY <3>1, <1>7 DEF Bytes
  <2>. HIDE DEF rem
  <2>6. decode_connack(buf) =
          [err |-> "SUCCESS", session_present |-> flag,
           return_code |-> IF rest[2] <= 5 THEN rest[2] ELSE 6]
    BY <1>6, <1>7, <2>3, <2>4, <2>5, Zenon DEF decode_connack, Opened, rem
  <2>. QED
    BY <2>2, <2>6, <1>8, Zenon
<1>10. \A a, b : /\ D(a, b).err = "SUCCESS"
                /\ DOMAIN D(a, b) = {"err", "session_present", "return_code"}
                /\ D(a, b).return_code = b
  OBVIOUS
<1>. HIDE DEF D, flag
<1>11. /\ D(flag, p.return_code).err = "SUCCESS"
       /\ DOMAIN D(flag, p.return_code) = {"err", "session_present", "return_code"}
       /\ D(flag, p.return_code).return_code = p.return_code
  BY <1>10, Zenon
<1>. QED
  BY <1>6, <1>9, <1>11, Zenon DEF Agrees

(* lwmqtt_decode_suback reads the packet id and what is granted.           *)
LEMMA SubackDecoded ==
    ASSUME NEW p, p.type = "SUBACK", p.packet_id \in Word,
           p.granted \in [{1} -> {0, 1, 2, 128}],
           NEW buf, Begins(buf, encode(p).bytes)
    PROVE  TypeOf(buf) = p.type /\ Agrees(p, decode(buf))
<1>. DEFINE num  == write_num(p.packet_id)
            body == Join(num, p.granted)
<1>1. /\ Frame(encode(p).bytes, 144, body) /\ Holds(body, 2 + 1) /\ Holds(p.granted, 1)
  BY SubackFrame, Zenon
<1>2. Holds(num, 2)
  <2>1. p.packet_id \in Nat
    BY WordFacts, Zenon
  <2>. QED
    BY <2>1, HoldsNum, Zenon
<1>3. body[1] = num[1] /\ body[2] = num[2] /\ body[3] = p.granted[1]
  <2>. HIDE DEF num
  <2>1. num \in Bytes /\ p.granted \in Bytes
    BY <1>1, <1>2, Zenon DEF Holds, Bytes
  <2>2. Parts(body, num, p.granted)
    BY <2>1, JoinParts, Zenon
  <2>3. Len(num) = 2 /\ Len(p.granted) = 1
    BY <1>1, <1>2, Zenon DEF Holds
  <2>. HIDE DEF body
  <2>. PICK g : g = p.granted
    OBVIOUS
  <2>4. /\ \A i \in 1 .. 2 : body[i] = num[i]
        /\ \A i \in 1 .. 1 : body[2 + i] = g[i]
    BY <2>2, <2>3, Zenon DEF Parts
  <2>5. 1 \in 1 .. 2 /\ 2 \in 1 .. 2 /\ 1 \in 1 .. 1 /\ 2 + 1 = 3
    OBVIOUS
  <2>6. body[1] = num[1] /\ body[2] = num[2] /\ body[2 + 1] = g[1]
    BY <2>4, <2>5, Zenon
  <2>. QED
    BY <2>5, <2>6, Zenon
<1>. DEFINE head == 144
<1>f. Frame(encode(p).bytes, head, body)
  BY <1>1, Zenon
<1>. HIDE DEF body, num, head
<1>4. PICK d \in 1 .. 4 : FrameOf(encode(p).bytes, head, body, d)
  BY <1>f, Zenon DEF Frame
<1>5. PICK rest : rest = SubSeq(buf, 2 + d, Len(buf))
  OBVIOUS
<1>6. /\ buf[1] = head
      /\ read_varnum(Tail(buf)) = [err |-> "SUCCESS", len |-> d, num |-> Len(body)]
      /\ Begins(rest, body)
  <2>1. IsOpened(buf, head, body, d)
    BY <1>4, Opens, ZenonT(60)
  <2>. QED
    BY <2>1, <1>5, Zenon DEF IsOpened
<1>7. TypeOf(buf) = p.type
  <2>1. buf[1] = 16 * PacketType["SUBACK"] + 0 /\ 0 \in 0 .. 15
    BY <1>6 DEF PacketType, head
  <2>2. "SUBACK" \in DOMAIN PacketType
    BY DEF PacketType
  <2>3. TypeOf(buf) = "SUBACK"
    BY <2>1, <2>2, TypeIsRead
  <2>4. p.type = "SUBACK"
    BY Zenon
  <2>. QED
    BY <2>3, <2>4, Zenon
<1>8. Len(body) = 3
  <2>1. Len(body) = 2 + 1
    BY <1>1, Zenon DEF Holds
  <2>. QED
    BY <2>1
<1>9. rest[1] = num[1] /\ rest[2] = num[2] /\ rest[3] = p.granted[1]
  <2>1. rest[1] = body[1] /\ rest[2] = body[2] /\ rest[3] = body[3]
    BY <1>6, <1>8 DEF Begins
  <2>. QED
    BY <2>1, <1>3, Zenon
<1>10. read_num(rest) = p.packet_id
  BY <1>9, ReadsNum, WordFacts, Zenon DEF num
<1>. DEFINE granted == [i \in 1 .. 3 - 2 |-> IF rest[2 + i] <= 2 THEN rest[2 + i] ELSE 128]
            D(a, b) == [err |-> "SUCCESS", packet_id |-> a, granted |-> b]
<1>11. granted = p.granted
  <2>1. p.granted[1] \in {0, 1, 2, 128} /\ p.granted = [i \in {1} |-> p.granted[i]]
    BY Zenon
  <2>2. PICK g : g = p.granted[1]
    OBVIOUS
  <2>3. (IF g <= 2 THEN g ELSE 128) = g
    BY <2>1, <2>2
  <2>4. 1 .. 3 - 2 = {1} /\ 2 + 1 = 3
    OBVIOUS
  <2>5. \A i \in {1} : (IF rest[2 + i] <= 2 THEN rest[2 + i] ELSE 128) = p.granted[i]
    <3>1. rest[2 + 1] = g /\ g = p.granted[1]
      BY <1>9, <2>2, <2>4, Zenon
    <3>. QED
      BY <2>3, <3>1, ZenonT(60)
  <2>6. granted = [i \in {1} |-> IF rest[2 + i] <= 2 THEN rest[2 + i] ELSE 128]
    BY <2>4, Zenon
  <2>. HIDE DEF granted
  <2>7. granted = [i \in {1} |-> p.granted[i]]
    BY <2>5, <2>6, Zenon
  <2>. QED
    BY <2>1, <2>7, Zenon
<1>12. decode(buf) = D(p.packet_id, p.granted)
  <2>1. p.type \notin Acks
    BY DEF Acks
  <2>2. decode(buf) = decode_suback(buf, 1)
    BY <1>7, <2>1, Zenon DEF decode
  <2>. DEFINE rem == read_varnum(Tail(buf))
  <2>3. rem.err = "SUCCESS" /\ rem.num = 3 /\ rem.len = d
    BY <1>6, <1>8
  <2>4. SubSeq(buf, 2 + rem.len, Len(buf)) = rest
    BY <1>5, <2>3, Zenon
  <2>5. ~(Len(rest) < 2 + (IF 3 - 2 > 1 THEN 1 + 1 ELSE 3 - 2))
    <3>1. rest \in Bytes /\ Len(body) <= Len(rest)
      BY <1>6, Zenon DEF Begins
    <3>. QED
      BY <3>1, <1>8 DEF Bytes
  <2>6. ~(3 < 3) /\ ~(3 - 2 > 1 + 1)
    OBVIOUS
  <2>. HIDE DEF rem
  <2>7. decode_suback(buf, 1) = D(read_num(rest), granted)
    BY <1>7, <2>3, <2>4, <2>5, <2>6, Zenon DEF decode_suback, Opened, rem
  <2>. QED
    BY <2>2, <2>7, <1>10, <1>11, Zenon
<1>13. \A a, b : /\ D(a, b).err = "SUCCESS" /\ DOMAIN D(a, b) = {"err", "packet_id", "granted"}
                /\ D(a, b).packet_id = a /\ D(a, b).granted = b
  OBVIOUS
<1>. HIDE DEF D, granted
<1>14. /\ D(p.packet_id, p.granted).err = "SUCCESS"
       /\ DOMAIN D(p.packet_id, p.granted) = {"err", "packet_id", "granted"}
       /\ D(p.packet_id, p.granted).packet_id = p.packet_id
       /\ D(p.packet_id, p.granted).granted = p.granted
  BY <1>13
<1>. QED
  BY <1>7, <1>12, <1>14, Zenon DEF Agrees

(* The bytes s are in j behind the first k.                                *)
At(j, k, s) ==
    /\ j \in Bytes /\ s \in Bytes /\ k \in Nat /\ k + Len(s) <= Len(j)
    /\ \A i \in 1 .. Len(s) : j[k + i] = s[i]

(* What follows does not move them; what precedes moves them.              *)
LEMMA AtLeft ==
    ASSUME NEW a \in Bytes, NEW b \in Bytes, NEW k, NEW s, At(a, k, s)
    PROVE  At(Join(a, b), k, s)
<1>. DEFINE j == Join(a, b)
<1>1. Parts(j, a, b)
  BY JoinParts, Zenon
<1>. HIDE DEF j
<1>2. /\ j \in Bytes /\ Len(j) = Len(a) + Len(b) /\ Len(a) \in Nat /\ Len(b) \in Nat
      /\ \A i \in 1 .. Len(a) : j[i] = a[i]
  BY <1>1, Zenon DEF Parts
<1>3. /\ s \in Bytes /\ k \in Nat /\ k + Len(s) <= Len(a) /\ \A i \in 1 .. Len(s) : a[k + i] = s[i]
  BY Zenon DEF At
<1>4. Len(s) \in Nat
  BY <1>3 DEF Bytes
<1>5. k + Len(s) <= Len(j) /\ \A i \in 1 .. Len(s) : k + i \in 1 .. Len(a)
  BY <1>2, <1>3, <1>4
<1>6. \A i \in 1 .. Len(s) : j[k + i] = s[i]
  BY <1>2, <1>3, <1>5, Zenon
<1>. QED
  BY <1>2, <1>3, <1>5, <1>6, Zenon DEF At, j

(* The second of two is behind the first.                                  *)
LEMMA AtRight ==
    ASSUME NEW a \in Bytes, NEW b \in Bytes
    PROVE  At(Join(a, b), Len(a), b)
<1>. DEFINE j == Join(a, b)
<1>1. Parts(j, a, b)
  BY JoinParts, Zenon
<1>. HIDE DEF j
<1>2. /\ j \in Bytes /\ Len(j) = Len(a) + Len(b) /\ Len(a) \in Nat /\ Len(b) \in Nat
      /\ \A i \in 1 .. Len(b) : j[Len(a) + i] = b[i]
  BY <1>1, Zenon DEF Parts
<1>3. Len(a) + Len(b) <= Len(j)
  BY <1>2
<1>. QED
  BY <1>2, <1>3, Zenon DEF At, j

(* The first of two is at the start.                                       *)
LEMMA AtStart ==
    ASSUME NEW a \in Bytes, NEW b \in Bytes
    PROVE  At(Join(a, b), 0, a)
<1>. DEFINE j == Join(a, b)
<1>1. Parts(j, a, b)
  BY JoinParts, Zenon
<1>. HIDE DEF j
<1>2. /\ j \in Bytes /\ Len(j) = Len(a) + Len(b) /\ Len(a) \in Nat /\ Len(b) \in Nat
      /\ \A i \in 1 .. Len(a) : j[i] = a[i]
  BY <1>1, Zenon DEF Parts
<1>3. 0 \in Nat /\ 0 + Len(a) <= Len(j) /\ \A i \in 1 .. Len(a) : 0 + i = i
  BY <1>2
<1>4. \A i \in 1 .. Len(a) : j[0 + i] = a[i]
  BY <1>2, <1>3, Zenon
<1>. QED
  BY <1>2, <1>3, <1>4, Zenon DEF At, j

(* A slice takes them out again.                                           *)
LEMMA AtSlice ==
    ASSUME NEW j, NEW k, NEW s, At(j, k, s)
    PROVE  SubSeq(j, k + 1, k + Len(s)) = s
<1>1. /\ j \in Bytes /\ s \in Bytes /\ k \in Nat /\ k + Len(s) <= Len(j)
      /\ \A i \in 1 .. Len(s) : j[k + i] = s[i]
  BY Zenon DEF At
<1>2. Len(s) \in Nat
  BY <1>1 DEF Bytes
<1>3. k + Len(s) \in Nat /\ k <= k + Len(s) /\ (k + Len(s)) - k = Len(s)
  BY <1>1, <1>2
<1>. DEFINE r == SubSeq(j, k + 1, k + Len(s))
<1>4. IsSlice(r, j, k, k + Len(s))
  BY <1>1, <1>3, Slices, Zenon
<1>. HIDE DEF r
<1>5. r \in Bytes /\ Len(r) = Len(s) /\ \A i \in 1 .. Len(s) : r[i] = s[i]
  BY <1>1, <1>3, <1>4, Zenon DEF IsSlice
<1>6. r \in Seq(Byte) /\ s \in Seq(Byte)
  BY <1>1, <1>5, Zenon DEF Bytes
<1>7. r = s
  BY <1>5, <1>6, SameSequence
<1>. QED
  BY <1>7, Zenon DEF r

(* Where the parts of a publication are.                                   *)
LEMMA PublishParts ==
    ASSUME NEW p \in Publications, NEW idLen, idLen = IF p.qos > 0 THEN 2 ELSE 0
    PROVE  /\ At(PublishBody(p), 0, write_num(Len(p.topic)))
           /\ At(PublishBody(p), 2, p.topic)
           /\ p.qos > 0 => At(PublishBody(p), 2 + Len(p.topic), write_num(p.packet_id))
           /\ At(PublishBody(p), 2 + Len(p.topic) + idLen, p.payload)
           /\ Len(PublishBody(p)) = 2 + Len(p.topic) + idLen + Len(p.payload)
           /\ Len(p.topic) \in Nat /\ Len(p.payload) \in Nat
<1>. DEFINE n   == write_num(Len(p.topic))
            id  == When(p.qos > 0, write_num(p.packet_id))
            ws  == write_string(p.topic)
            wsi == Join(ws, id)
<1>1. /\ p.topic \in Bytes /\ p.payload \in Bytes /\ p.packet_id \in Word /\ p.qos \in 0 .. 2
  BY PublicationType, Zenon
<1>2. Len(p.topic) \in Nat /\ Len(p.payload) \in Nat
  BY <1>1 DEF Bytes
<1>3. n \in Bytes /\ Len(n) = 2
  BY <1>2, HoldsNum, Zenon DEF Holds, Bytes
<1>4. p.packet_id \in Nat
  BY <1>1, WordFacts, Zenon
<1>5. write_num(p.packet_id) \in Bytes /\ Len(write_num(p.packet_id)) = 2
  BY <1>4, HoldsNum, Zenon DEF Holds, Bytes
<1>6. id \in Bytes /\ Len(id) = idLen
  <2>1. <<>> \in Bytes /\ Len(<<>>) = 0
    BY DEF Bytes
  <2>2. CASE p.qos > 0
    <3>1. id = write_num(p.packet_id) /\ idLen = 2
      BY <2>2, Zenon DEF When
    <3>. QED
      BY <1>5, <3>1, Zenon
  <2>3. CASE ~(p.qos > 0)
    <3>1. id = <<>> /\ idLen = 0
      BY <2>3, Zenon DEF When
    <3>. QED
      BY <2>1, <3>1, Zenon
  <2>. QED
    BY <2>2, <2>3, Zenon
<1>7. ws = Join(n, p.topic)
  BY <1>1, HoldsString, Zenon
<1>. HIDE DEF n, ws, id
<1>8. /\ At(ws, 0, n) /\ At(ws, 2, p.topic) /\ Parts(ws, n, p.topic)
  BY <1>1, <1>3, <1>7, AtStart, AtRight, JoinParts, Zenon
<1>9. ws \in Bytes /\ Len(ws) = 2 + Len(p.topic)
  BY <1>3, <1>8, Zenon DEF Parts
<1>10. At(wsi, 0, n) /\ At(wsi, 2, p.topic) /\ At(wsi, 2 + Len(p.topic), id)
  BY <1>6, <1>8, <1>9, AtLeft, AtRight, Zenon
<1>11. wsi \in Bytes /\ Len(wsi) = 2 + Len(p.topic) + idLen
  <2>1. Parts(wsi, ws, id)
    BY <1>6, <1>9, JoinParts, Zenon
  <2>. QED
    BY <2>1, <1>6, <1>9, Zenon DEF Parts
<1>. HIDE DEF wsi
<1>12. PublishBody(p) = Join(wsi, p.payload)
  BY Zenon DEF PublishBody, wsi, ws, id
<1>13. /\ At(PublishBody(p), 0, n) /\ At(PublishBody(p), 2, p.topic)
       /\ At(PublishBody(p), 2 + Len(p.topic), id)
       /\ At(PublishBody(p), 2 + Len(p.topic) + idLen, p.payload)
  BY <1>1, <1>10, <1>11, <1>12, AtLeft, AtRight, Zenon
<1>14. Len(PublishBody(p)) = 2 + Len(p.topic) + idLen + Len(p.payload)
  <2>1. Parts(PublishBody(p), wsi, p.payload)
    BY <1>1, <1>11, <1>12, JoinParts, Zenon
  <2>. QED
    BY <2>1, <1>11, Zenon DEF Parts
<1>15. p.qos > 0 => id = write_num(p.packet_id)
  BY Zenon DEF id, When
<1>. QED
  BY <1>2, <1>13, <1>14, <1>15, Zenon DEF n

(* lwmqtt_encode_publish has room for 512 bytes.                           *)
LEMMA PublishFits ==
    ASSUME NEW p \in Publications, encode(p).err = "SUCCESS"
    PROVE  Len(encode(p).bytes) < 256 * 256
<1>1. p.type = "PUBLISH" /\ p.topic \in Bytes
  BY PublicationType, Zenon
<1>2. encode(p) = encode_publish(512, p.dup, p.packet_id, p.topic, p)
  <2>1. /\ p.type # "CONNECT" /\ p.type # "SUBSCRIBE" /\ p.type # "UNSUBSCRIBE"
        /\ p.type # "CONNACK" /\ p.type # "SUBACK" /\ p.type \notin Acks
    BY <1>1 DEF Acks
  <2>. QED
    BY <2>1, <1>1, ZenonT(60) DEF encode
<1>. DEFINE idLen == IF p.qos > 0 THEN 2 ELSE 0
            rem   == 2 + Len(p.topic) + Len(p.payload) + idLen
            body  == PublishBody(p)
            flags == PublishFlags(p)
<1>3. encode(p) = Packed(512, "PUBLISH", flags, rem, body)
  BY <1>2, Zenon DEF encode_publish, PublishFlags, PublishBody, Join
<1>. HIDE DEF rem, body, flags
<1>4. ~(Len(encode(p).bytes) > 512)
  <2>. PICK e : e = encode(p)
    OBVIOUS
  <2>1. e = Packed(512, "PUBLISH", flags, rem, body) /\ e.err = "SUCCESS"
    BY <1>3, Zenon
  <2>. DEFINE bytes == <<16 * PacketType["PUBLISH"] + flags>> \o write_varnum(rem) \o body
  <2>2. e = IF varnum_length(rem) = 0 THEN Failed("REMAINING_LENGTH_OVERFLOW")
            ELSE IF Len(bytes) > 512 THEN Failed("BUFFER_TOO_SHORT")
            ELSE [err |-> "SUCCESS", bytes |-> bytes]
    BY <2>1, Zenon DEF Packed
  <2>. HIDE DEF bytes
  <2>3. /\ Failed("REMAINING_LENGTH_OVERFLOW").err # "SUCCESS"
        /\ Failed("BUFFER_TOO_SHORT").err # "SUCCESS"
    BY DEF Failed
  <2>4. [err |-> "SUCCESS", bytes |-> bytes].bytes = bytes
    OBVIOUS
  <2>. QED
    BY <2>1, <2>2, <2>3, <2>4, ZenonT(60)
<1>5. Len(encode(p).bytes) \in Nat
  <2>1. Frame(encode(p).bytes, 16 * PacketType["PUBLISH"] + PublishFlags(p), PublishBody(p))
    BY PublishFrame, Zenon
  <2>2. encode(p).bytes \in Bytes
    BY <2>1, Zenon DEF Frame, FrameOf, Bytes
  <2>. QED
    BY <2>2 DEF Bytes
<1>. QED
  BY <1>4, <1>5

(* The flags of a publication.                                             *)
LEMMA FlagsAreRead ==
    ASSUME NEW p \in Publications, NEW head, head = 16 * PacketType["PUBLISH"] + PublishFlags(p)
    PROVE  /\ read_bits(head, 3, 1) = Bit(p.dup)
           /\ read_bits(head, 1, 2) = p.qos
           /\ read_bits(head, 0, 1) = Bit(p.retained)
           /\ PublishFlags(p) \in 0 .. 15
<1>1. p.qos \in 0 .. 2 /\ PacketType["PUBLISH"] = 3
  <2>1. PacketType["PUBLISH"] = 3
    BY DEF PacketType
  <2>. QED
    BY <2>1, PublicationType, Zenon
<1>2. \A b, c \in 0 .. 1, q \in 0 .. 2 :
        /\ ((16 * 3 + (8 * b + 2 * q + c)) \div 8) % 2 = b
        /\ ((16 * 3 + (8 * b + 2 * q + c)) \div 2) % 4 = q
        /\ ((16 * 3 + (8 * b + 2 * q + c)) \div 1) % 2 = c
        /\ 8 * b + 2 * q + c \in 0 .. 15
  BY SMT
<1>3. Bit(p.dup) \in 0 .. 1 /\ Bit(p.retained) \in 0 .. 1
  BY DEF Bit
<1>4. \A h : /\ read_bits(h, 3, 1) = (h \div 8) % 2 /\ read_bits(h, 1, 2) = (h \div 2) % 4
             /\ read_bits(h, 0, 1) = (h \div 1) % 2
  <2>1. 2 ^ 3 = 8 /\ 2 ^ 1 = 2 /\ 2 ^ 2 = 4 /\ 2 ^ 0 = 1
    BY SMT
  <2>. QED
    BY <2>1, Zenon DEF read_bits
<1>5. head = 16 * 3 + (8 * Bit(p.dup) + 2 * p.qos + Bit(p.retained))
  BY <1>1, Zenon DEF PublishFlags
<1>. DEFINE h == 16 * 3 + (8 * Bit(p.dup) + 2 * p.qos + Bit(p.retained))
<1>6. /\ (h \div 8) % 2 = Bit(p.dup) /\ (h \div 2) % 4 = p.qos
      /\ (h \div 1) % 2 = Bit(p.retained)
      /\ 8 * Bit(p.dup) + 2 * p.qos + Bit(p.retained) \in 0 .. 15
  <2>1. PICK b, c, q : b = Bit(p.dup) /\ c = Bit(p.retained) /\ q = p.qos
    OBVIOUS
  <2>2. b \in 0 .. 1 /\ c \in 0 .. 1 /\ q \in 0 .. 2
    BY <1>1, <1>3, <2>1, Zenon
  <2>3. /\ ((16 * 3 + (8 * b + 2 * q + c)) \div 8) % 2 = b
        /\ ((16 * 3 + (8 * b + 2 * q + c)) \div 2) % 4 = q
        /\ ((16 * 3 + (8 * b + 2 * q + c)) \div 1) % 2 = c
        /\ 8 * b + 2 * q + c \in 0 .. 15
    BY <1>2, <2>2, Zenon
  <2>. QED
    BY <2>1, <2>3, Zenon
<1>. HIDE DEF h
<1>7. /\ read_bits(h, 3, 1) = Bit(p.dup) /\ read_bits(h, 1, 2) = p.qos
      /\ read_bits(h, 0, 1) = Bit(p.retained)
  BY <1>4, <1>6, Zenon
<1>8. head = h
  BY <1>5, Zenon DEF h
<1>. QED
  BY <1>6, <1>7, <1>8, Zenon DEF PublishFlags

(* lwmqtt_decode_publish ends the topic and the payload where they end,    *)
(* whatever follows in the buffer.                                         *)
LEMMA PublishDecoded ==
    ASSUME NEW p \in Publications, encode(p).err = "SUCCESS",
           NEW buf, Begins(buf, encode(p).bytes)
    PROVE  TypeOf(buf) = p.type /\ Agrees(p, decode(buf))
<1>. DEFINE body  == PublishBody(p)
            head  == 16 * PacketType["PUBLISH"] + PublishFlags(p)
            lt    == Len(p.topic)
            idl   == IF p.qos > 0 THEN 2 ELSE 0
<1>1. /\ p.type = "PUBLISH" /\ p.topic \in Bytes /\ p.payload \in Bytes
      /\ p.packet_id \in Word /\ p.qos \in 0 .. 2
      /\ p.dup \in BOOLEAN /\ p.retained \in BOOLEAN /\ (p.qos = 0 => p.packet_id = 0)
  BY PublicationType, Zenon
<1>2. Frame(encode(p).bytes, head, body)
  BY PublishFrame, Zenon
<1>3. /\ read_bits(head, 3, 1) = Bit(p.dup) /\ read_bits(head, 1, 2) = p.qos
      /\ read_bits(head, 0, 1) = Bit(p.retained) /\ PublishFlags(p) \in 0 .. 15
  BY FlagsAreRead, Zenon
<1>4. /\ At(body, 0, write_num(lt)) /\ At(body, 2, p.topic)
      /\ p.qos > 0 => At(body, 2 + lt, write_num(p.packet_id))
      /\ At(body, 2 + lt + idl, p.payload)
      /\ Len(body) = 2 + lt + idl + Len(p.payload)
      /\ lt \in Nat /\ Len(p.payload) \in Nat
  <2>1. PICK x : x = idl
    OBVIOUS
  <2>2. x = IF p.qos > 0 THEN 2 ELSE 0
    BY <2>1
  <2>. HIDE DEF idl
  <2>. QED
    BY <2>1, <2>2, PublishParts, Zenon
<1>5. idl \in Nat
  OBVIOUS
<1>. HIDE DEF body, head, lt, idl
<1>6. PICK d \in 1 .. 4 : FrameOf(encode(p).bytes, head, body, d)
  BY <1>2, Zenon DEF Frame
<1>7. PICK rest : rest = SubSeq(buf, 2 + d, Len(buf))
  OBVIOUS
<1>8. /\ buf[1] = head
      /\ read_varnum(Tail(buf)) = [err |-> "SUCCESS", len |-> d, num |-> Len(body)]
      /\ Begins(rest, body)
  <2>1. IsOpened(buf, head, body, d)
    BY <1>6, Opens, Zenon
  <2>. QED
    BY <2>1, <1>7, Zenon DEF IsOpened
<1>9. TypeOf(buf) = p.type
  <2>1. "PUBLISH" \in DOMAIN PacketType
    BY DEF PacketType
  <2>2. buf[1] = 16 * PacketType["PUBLISH"] + PublishFlags(p)
    BY <1>8, Zenon DEF head
  <2>. QED
    BY <1>1, <1>3, <2>1, <2>2, TypeIsRead, Zenon
<1>10. /\ rest \in Bytes /\ body \in Bytes /\ Len(body) \in Nat /\ Len(rest) \in Nat
       /\ ~(Len(rest) < Len(body))
  <2>1. rest \in Bytes /\ body \in Bytes /\ Len(body) <= Len(rest)
    BY <1>8, Zenon DEF Begins
  <2>2. Len(body) \in Nat /\ Len(rest) \in Nat
    BY <2>1 DEF Bytes
  <2>. QED
    BY <2>1, <2>2
<1>11. Content(Len(body), rest) = body
  <2>1. 0 \in Nat /\ 0 + 1 = 1 /\ 0 + Len(body) = Len(body) /\ 0 + Len(body) <= Len(rest)
    BY <1>10
  <2>2. \A i \in 1 .. Len(body) : 0 + i = i
    OBVIOUS
  <2>3. At(rest, 0, body)
    BY <1>8, <1>10, <2>1, <2>2, Zenon DEF At, Begins
  <2>4. SubSeq(rest, 0 + 1, 0 + Len(body)) = body
    BY <2>3, AtSlice, Zenon
  <2>. QED
    BY <2>1, <2>4, Zenon DEF Content
<1>12. lt \in Nat /\ lt < 256 * 256
  <2>1. Len(encode(p).bytes) = 1 + d + Len(body) /\ Len(encode(p).bytes) < 256 * 256
    BY <1>6, PublishFits, Zenon DEF FrameOf
  <2>2. PICK n, q, b : n = Len(encode(p).bytes) /\ q = Len(p.payload) /\ b = Len(body)
    OBVIOUS
  <2>3. /\ n = 1 + d + b /\ n < 256 * 256 /\ b = 2 + lt + idl + q
        /\ lt \in Nat /\ q \in Nat /\ idl \in Nat /\ b \in Nat
    BY <2>1, <2>2, <1>4, <1>5, <1>10, Zenon
  <2>. QED
    BY <2>3
<1>13. read_num(body) = lt
  <2>1. write_num(lt) = <<(lt \div 256) % 256, lt % 256>>
    BY DEF write_num
  <2>2. \A i \in 1 .. 2 : body[0 + i] = write_num(lt)[i]
    <3>1. Len(write_num(lt)) = 2
      BY <1>4, HoldsNum, Zenon DEF Holds
    <3>. QED
      BY <1>4, <3>1, Zenon DEF At
  <2>3. 1 \in 1 .. 2 /\ 2 \in 1 .. 2 /\ 0 + 1 = 1 /\ 0 + 2 = 2
    OBVIOUS
  <2>4. body[1] = write_num(lt)[1] /\ body[2] = write_num(lt)[2]
    <3>1. body[0 + 1] = write_num(lt)[1] /\ body[0 + 2] = write_num(lt)[2]
      BY <2>2, <2>3, Zenon
    <3>. QED
      BY <2>3, <3>1, Zenon
  <2>. QED
    BY <1>12, <2>4, ReadsNum, WordFacts, Zenon
<1>14. SubSeq(body, 3, 2 + lt) = p.topic
  <2>1. SubSeq(body, 2 + 1, 2 + Len(p.topic)) = p.topic
    BY <1>4, AtSlice, Zenon
  <2>2. 2 + 1 = 3
    OBVIOUS
  <2>. QED
    BY <2>1, <2>2, Zenon DEF lt
<1>15. SubSeq(body, 3 + lt + idl, Len(body)) = p.payload
  <2>1. SubSeq(body, (2 + lt + idl) + 1, (2 + lt + idl) + Len(p.payload)) = p.payload
    BY <1>4, AtSlice, Zenon
  <2>2. (2 + lt + idl) + 1 = 3 + lt + idl
    BY <1>4, <1>5
  <2>. QED
    BY <2>1, <2>2, <1>4, Zenon
<1>16. (IF p.qos > 0 THEN read_num(SubSeq(body, 3 + lt, 4 + lt)) ELSE 0) = p.packet_id
  <2>1. CASE p.qos > 0
    <3>. DEFINE num == write_num(p.packet_id)
    <3>1. p.packet_id \in Nat
      BY <1>1, WordFacts, Zenon
    <3>2. Len(num) = 2
      BY <3>1, HoldsNum, Zenon DEF Holds
    <3>3. At(body, 2 + lt, num)
      BY <1>4, <2>1, Zenon
    <3>. HIDE DEF num
    <3>4. SubSeq(body, (2 + lt) + 1, (2 + lt) + Len(num)) = num
      BY <3>3, AtSlice, Zenon
    <3>5. (2 + lt) + 1 = 3 + lt /\ (2 + lt) + 2 = 4 + lt
      BY <1>4
    <3>6. SubSeq(body, 3 + lt, 4 + lt) = num
      BY <3>2, <3>4, <3>5, Zenon
    <3>7. read_num(num) = p.packet_id
      BY <1>1, ReadsNum, WordFacts, ZenonT(60) DEF num
    <3>. QED
      BY <2>1, <3>6, <3>7, Zenon
  <2>2. CASE ~(p.qos > 0)
    <3>1. p.qos = 0
      BY <1>1, <2>2
    <3>. QED
      BY <1>1, <2>2, <3>1, Zenon
  <2>. QED
    BY <2>1, <2>2, Zenon
<1>. DEFINE D(dup, retained, qos, topic, packet_id, payload) ==
              [err |-> "SUCCESS", dup |-> dup, retained |-> retained, qos |-> qos,
               topic |-> topic, packet_id |-> packet_id, payload |-> payload]
            names == {"err", "dup", "retained", "qos", "topic", "packet_id", "payload"}
<1>17. decode(buf) = D(read_bits(buf[1], 3, 1) = 1, read_bits(buf[1], 0, 1) = 1, p.qos,
                       p.topic, p.packet_id, p.payload)
  <2>1. p.type \notin Acks
    BY <1>1 DEF Acks
  <2>2. decode(buf) = decode_publish(buf)
    BY <1>1, <1>9, <2>1, Zenon DEF decode
  <2>. DEFINE rem   == read_varnum(Tail(buf))
              all   == Content(rem.num, SubSeq(buf, 2 + rem.len, Len(buf)))
              topic == read_num(all)
              qos   == IF read_bits(buf[1], 1, 2) = 3 THEN 0 ELSE read_bits(buf[1], 1, 2)
              idLen == IF qos > 0 THEN 2 ELSE 0
  <2>3. rem.err = "SUCCESS" /\ rem.num = Len(body) /\ rem.len = d
    BY <1>8
  <2>4. decode_publish(buf) =
          IF rem.num < 2 THEN Failed("REMAINING_LENGTH_MISMATCH")
          ELSE IF \/ Len(SubSeq(buf, 2 + rem.len, Len(buf))) < rem.num
                  \/ rem.num < 2 + topic + idLen
          THEN Failed("BUFFER_TOO_SHORT")
          ELSE [err |-> "SUCCESS", dup |-> read_bits(buf[1], 3, 1) = 1,
                retained |-> read_bits(buf[1], 0, 1) = 1, qos |-> qos,
                topic |-> SubSeq(all, 3, 2 + topic),
                packet_id |-> IF qos > 0 THEN read_num(SubSeq(all, 3 + topic, 4 + topic)) ELSE 0,
                payload |-> SubSeq(all, 3 + topic + idLen, Len(all))]
    <3>1. rem.err = "SUCCESS"
      BY <2>3, Zenon
    <3>. QED
      BY <1>1, <1>9, <3>1, Zenon DEF decode_publish, Opened
  <2>5. SubSeq(buf, 2 + rem.len, Len(buf)) = rest
    BY <1>7, <2>3, Zenon
  <2>6. all = body
    BY <1>11, <2>3, <2>5, Zenon
  <2>7. topic = lt
    BY <1>13, <2>6, Zenon
  <2>8. qos = p.qos
    <3>1. p.qos # 3
      BY <1>1
    <3>. QED
      BY <1>3, <1>8, <3>1, Zenon
  <2>9. idLen = idl
    BY <2>8, Zenon DEF idl
  <2>10. ~(Len(body) < 2) /\ ~(Len(body) < 2 + lt + idl)
    <3>1. PICK q, b : q = Len(p.payload) /\ b = Len(body)
      OBVIOUS
    <3>2. b = 2 + lt + idl + q /\ lt \in Nat /\ q \in Nat /\ idl \in Nat
      BY <3>1, <1>4, <1>5, Zenon
    <3>3. ~(b < 2) /\ ~(b < 2 + lt + idl)
      BY <3>2
    <3>. QED
      BY <3>1, <3>3, Zenon
  <2>. HIDE DEF rem, all, topic, qos, idLen
  <2>11. decode_publish(buf) =
          [err |-> "SUCCESS", dup |-> read_bits(buf[1], 3, 1) = 1,
           retained |-> read_bits(buf[1], 0, 1) = 1, qos |-> p.qos,
           topic |-> SubSeq(body, 3, 2 + lt),
           packet_id |-> IF p.qos > 0 THEN read_num(SubSeq(body, 3 + lt, 4 + lt)) ELSE 0,
           payload |-> SubSeq(body, 3 + lt + idl, Len(body))]
    BY <2>3, <2>4, <2>5, <2>6, <2>7, <2>8, <2>9, <2>10, <1>10, Zenon
  <2>. QED
    BY <2>2, <2>11, <1>14, <1>15, <1>16, Zenon
<1>18. /\ (read_bits(buf[1], 3, 1) = 1) = p.dup
       /\ (read_bits(buf[1], 0, 1) = 1) = p.retained
  BY <1>1, <1>3, <1>8, BitIsFlag, Zenon
<1>19. \A a, b, c, t, i, y :
         /\ D(a, b, c, t, i, y).err = "SUCCESS" /\ DOMAIN D(a, b, c, t, i, y) = names
         /\ D(a, b, c, t, i, y).dup = a /\ D(a, b, c, t, i, y).retained = b
         /\ D(a, b, c, t, i, y).qos = c /\ D(a, b, c, t, i, y).topic = t
         /\ D(a, b, c, t, i, y).packet_id = i /\ D(a, b, c, t, i, y).payload = y
  OBVIOUS
<1>. HIDE DEF D, names
<1>20. decode(buf) = D(p.dup, p.retained, p.qos, p.topic, p.packet_id, p.payload)
  BY <1>17, <1>18, Zenon
<1>21. /\ decode(buf).err = "SUCCESS" /\ DOMAIN decode(buf) = names
       /\ decode(buf).dup = p.dup /\ decode(buf).retained = p.retained
       /\ decode(buf).qos = p.qos /\ decode(buf).topic = p.topic
       /\ decode(buf).packet_id = p.packet_id /\ decode(buf).payload = p.payload
  <2>1. PICK a, b, c, t, i, y : /\ a = p.dup /\ b = p.retained /\ c = p.qos /\ t = p.topic
                                /\ i = p.packet_id /\ y = p.payload
    OBVIOUS
  <2>2. decode(buf) = D(a, b, c, t, i, y)
    BY <1>20, <2>1, Zenon
  <2>3. /\ D(a, b, c, t, i, y).err = "SUCCESS" /\ DOMAIN D(a, b, c, t, i, y) = names
        /\ D(a, b, c, t, i, y).dup = a /\ D(a, b, c, t, i, y).retained = b
        /\ D(a, b, c, t, i, y).qos = c /\ D(a, b, c, t, i, y).topic = t
        /\ D(a, b, c, t, i, y).packet_id = i /\ D(a, b, c, t, i, y).payload = y
    BY <1>19
  <2>. QED
    BY <2>1, <2>2, <2>3, Zenon
<1>. QED
  BY <1>9, <1>21, Zenon DEF Agrees, names

(* Every packet that the client decodes is as it was encoded, whatever an  *)
(* earlier packet has left behind it in the buffer.                        *)
THEOREM DecodesWhatWasEncoded ==
    ASSUME NEW p \in ClientPackets, encode(p).err = "SUCCESS",
           NEW buf, Begins(buf, encode(p).bytes)
    PROVE  TypeOf(buf) = p.type /\ Agrees(p, decode(buf))
<1>1. CASE p \in Publications
  BY <1>1, PublishDecoded, Zenon
<1>2. CASE p \in Acknowledgements
  BY <1>2, AckDecoded, Zenon
<1>3. CASE p \in [type : {"PINGRESP"}]
  <2>1. p.type = "PINGRESP" /\ p \in [type : {"PINGREQ", "PINGRESP", "DISCONNECT"}]
    BY <1>3
  <2>. PICK head : head = 16 * PacketType[p.type] + 0
    OBVIOUS
  <2>2. Frame(encode(p).bytes, head, <<>>)
    BY <2>1, ZeroFrame, Zenon
  <2>3. PICK d \in 1 .. 4 : FrameOf(encode(p).bytes, head, <<>>, d)
    BY <2>2, Zenon DEF Frame
  <2>4. buf[1] = 16 * PacketType["PINGRESP"] + 0
    <3>1. IsOpened(buf, head, <<>>, d)
      BY <2>3, Opens, Zenon
    <3>. QED
      BY <3>1, <2>1, Zenon DEF IsOpened
  <2>5. TypeOf(buf) = "PINGRESP"
    <3>1. "PINGRESP" \in DOMAIN PacketType /\ 0 \in 0 .. 15
      BY DEF PacketType
    <3>. QED
      BY <2>4, <3>1, TypeIsRead, Zenon
  <2>6. decode(buf) = [err |-> "SUCCESS"]
    <3>1. "PINGRESP" \notin Acks /\ "PINGRESP" # "CONNACK" /\ "PINGRESP" # "PUBLISH"
          /\ "PINGRESP" # "SUBACK"
      BY DEF Acks
    <3>. QED
      BY <2>5, <3>1, Zenon DEF decode
  <2>7. decode(buf).err = "SUCCESS" /\ DOMAIN decode(buf) = {"err"}
    BY <2>6
  <2>. QED
    BY <2>1, <2>5, <2>7, Zenon DEF Agrees
<1>4. CASE p \in [type : {"CONNACK"}, session_present : BOOLEAN, return_code : 0 .. 5]
  <2>1. p.type = "CONNACK" /\ p.return_code \in 0 .. 5
    BY <1>4
  <2>. QED
    BY <2>1, ConnackDecoded, Zenon
<1>5. CASE p \in [type : {"SUBACK"}, packet_id : Word, granted : [{1} -> {0, 1, 2, 128}]]
  <2>1. p.type = "SUBACK" /\ p.packet_id \in Word /\ p.granted \in [{1} -> {0, 1, 2, 128}]
    BY <1>5, Zenon
  <2>. QED
    BY <2>1, SubackDecoded, Zenon
<1>. QED
  BY <1>1, <1>2, <1>3, <1>4, <1>5, Zenon DEF ClientPackets

(***************************************************************************)
(* The stream.                                                             *)
(***************************************************************************)
(* Packets of bytes one after the other.                                   *)
LEMMA StreamBytes ==
    ASSUME NEW ss \in Seq(Bytes)
    PROVE  FlattenSeq(ss) \in Bytes
<1>1. ss \in Seq(Seq(Byte))
  BY DEF Bytes
<1>2. FlattenSeq(ss) \in Seq(Byte)
  BY <1>1, FlattenType
<1>. QED
  BY <1>2, Zenon DEF Bytes

(* Nothing to send is an empty stream.                                     *)
LEMMA StreamEmpty == FlattenSeq(<<>>) = <<>>
<1>1. <<>> \in Seq(Seq(Byte))
  OBVIOUS
<1>. QED
  BY <1>1, FlattenType

(* One more packet comes behind what there is.                             *)
LEMMA StreamAppend ==
    ASSUME NEW ss \in Seq(Bytes), NEW x \in Bytes
    PROVE  FlattenSeq(Append(ss, x)) = Join(FlattenSeq(ss), x)
<1>1. ss \in Seq(Seq(Byte)) /\ x \in Seq(Byte)
  BY DEF Bytes
<1>. QED
  BY <1>1, FlattenAppend

(* The first packet comes before the others.                               *)
LEMMA StreamHead ==
    ASSUME NEW ss \in Seq(Bytes), ss # <<>>
    PROVE  FlattenSeq(ss) = Join(ss[1], FlattenSeq(Tail(ss)))
<1>1. ss \in Seq(Seq(Byte))
  BY DEF Bytes
<1>. QED
  BY <1>1, FlattenTail

(* Where two streams are the same, so is what they begin with.             *)
SameStart(a, b, c, d) ==
    /\ \A i \in 1 .. Len(a) : i <= Len(c) => a[i] = c[i]
    /\ Len(a) = Len(c) => a = c /\ b = d

(* Two ways to cut one stream agree on the bytes that both cut off.        *)
LEMMA SamePrefix ==
    ASSUME NEW a \in Bytes, NEW b \in Bytes, NEW c \in Bytes, NEW d \in Bytes,
           Join(a, b) = Join(c, d)
    PROVE  SameStart(a, b, c, d)
<1>1. PICK j : j = Join(a, b)
  OBVIOUS
<1>2. Parts(j, a, b) /\ Parts(j, c, d)
  BY <1>1, JoinParts, Zenon
<1>3. /\ Len(a) \in Nat /\ Len(b) \in Nat /\ Len(c) \in Nat /\ Len(d) \in Nat
      /\ Len(j) = Len(a) + Len(b) /\ Len(j) = Len(c) + Len(d)
      /\ \A i \in 1 .. Len(a) : j[i] = a[i]
      /\ \A i \in 1 .. Len(b) : j[Len(a) + i] = b[i]
      /\ \A i \in 1 .. Len(c) : j[i] = c[i]
      /\ \A i \in 1 .. Len(d) : j[Len(c) + i] = d[i]
  BY <1>2, Zenon DEF Parts
<1>4. ASSUME NEW i \in 1 .. Len(a), i <= Len(c) PROVE a[i] = c[i]
  <2>1. i \in 1 .. Len(c)
    BY <1>3, <1>4
  <2>. QED
    BY <2>1, <1>3, Zenon
<1>5. ASSUME Len(a) = Len(c) PROVE a = c /\ b = d
  <2>0. a \in Seq(Byte) /\ b \in Seq(Byte) /\ c \in Seq(Byte) /\ d \in Seq(Byte)
    BY Zenon DEF Bytes
  <2>1. \A i \in 1 .. Len(a) : a[i] = c[i]
    BY <1>3, <1>5, Zenon
  <2>2. Len(b) = Len(d)
    BY <1>3, <1>5
  <2>3. \A i \in 1 .. Len(b) : b[i] = d[i]
    BY <1>3, <1>5, <2>2, Zenon
  <2>4. a = c
    BY <1>5, <2>0, <2>1, SameSequence
  <2>5. b = d
    BY <2>0, <2>2, <2>3, SameSequence
  <2>. QED
    BY <2>4, <2>5
<1>. QED
  BY <1>4, <1>5, Zenon DEF SameStart

(* The first k bytes of a buffer.                                          *)
LEMMA FirstBytes ==
    ASSUME NEW s \in Bytes, NEW k \in Nat, k <= Len(s)
    PROVE  IsSlice(SubSeq(s, 1, k), s, 0, k)
<1>1. 0 \in Nat /\ 0 <= k /\ 0 + 1 = 1
  OBVIOUS
<1>2. IsSlice(SubSeq(s, 0 + 1, k), s, 0, k)
  BY <1>1, Slices, Zenon
<1>. QED
  BY <1>1, <1>2, Zenon

(* Bytes that move from the wire to the buffer stay in their order.        *)
Moved(new, buf, k, wires, n) ==
    Join(SubSeq(new, 1, k + n), SubSeq(wires, n + 1, Len(wires))) = Join(SubSeq(buf, 1, k), wires)

(* lwmqtt_read_from_network, behind the k bytes that are held already.     *)
LEMMA BytesMove ==
    ASSUME NEW buf \in Bytes, NEW wires \in Bytes, NEW k \in Nat, NEW n \in Nat,
           n <= Len(wires), k + n <= Len(buf), NEW new \in Bytes, Len(new) = Len(buf),
           \A i \in 1 .. k : new[i] = buf[i], \A i \in 1 .. n : new[k + i] = wires[i]
    PROVE  Moved(new, buf, k, wires, n)
<1>. DEFINE a == SubSeq(new, 1, k + n)
            b == SubSeq(wires, n + 1, Len(wires))
            c == SubSeq(buf, 1, k)
<1>1. Len(wires) \in Nat /\ Len(buf) \in Nat
  BY DEF Bytes
<1>2. IsSlice(a, new, 0, k + n)
  <2>1. k + n \in Nat /\ k + n <= Len(new)
    BY <1>1
  <2>. QED
    BY <2>1, FirstBytes, Zenon
<1>3. IsSlice(c, buf, 0, k)
  <2>1. k <= Len(buf)
    BY <1>1
  <2>. QED
    BY <2>1, FirstBytes, Zenon
<1>4. IsSlice(b, wires, n, Len(wires))
  <2>1. Len(wires) <= Len(wires)
    BY <1>1
  <2>. QED
    BY <1>1, <2>1, Slices, Zenon
<1>. HIDE DEF a, b, c
<1>5. /\ a \in Bytes /\ Len(a) = (k + n) - 0 /\ \A i \in 1 .. (k + n) - 0 : a[i] = new[0 + i]
      /\ b \in Bytes /\ Len(b) = Len(wires) - n
      /\ \A i \in 1 .. Len(wires) - n : b[i] = wires[n + i]
      /\ c \in Bytes /\ Len(c) = k - 0 /\ \A i \in 1 .. k - 0 : c[i] = buf[0 + i]
  <2>1. a \in Bytes /\ Len(a) = (k + n) - 0 /\ \A i \in 1 .. (k + n) - 0 : a[i] = new[0 + i]
    BY <1>2, Zenon DEF IsSlice
  <2>2. /\ b \in Bytes /\ Len(b) = Len(wires) - n
        /\ \A i \in 1 .. Len(wires) - n : b[i] = wires[n + i]
    BY <1>4, Zenon DEF IsSlice
  <2>3. c \in Bytes /\ Len(c) = k - 0 /\ \A i \in 1 .. k - 0 : c[i] = buf[0 + i]
    BY <1>3, Zenon DEF IsSlice
  <2>. QED
    BY <2>1, <2>2, <2>3
<1>6. /\ Len(a) = k + n /\ Len(c) = k
      /\ \A i \in 1 .. k + n : a[i] = new[i]
      /\ \A i \in 1 .. k : c[i] = buf[i]
  BY <1>5
<1>7. PICK j, l : j = Join(a, b) /\ l = Join(c, wires)
  OBVIOUS
<1>8. Parts(j, a, b) /\ Parts(l, c, wires)
  BY <1>5, <1>7, JoinParts, Zenon
<1>9. /\ j \in Seq(Byte) /\ l \in Seq(Byte)
      /\ Len(j) = Len(a) + Len(b) /\ Len(l) = Len(c) + Len(wires)
      /\ \A i \in 1 .. Len(a) : j[i] = a[i]
      /\ \A i \in 1 .. Len(b) : j[Len(a) + i] = b[i]
      /\ \A i \in 1 .. Len(c) : l[i] = c[i]
      /\ \A i \in 1 .. Len(wires) : l[Len(c) + i] = wires[i]
  BY <1>8, Zenon DEF Parts, Bytes
<1>10. Len(j) = k + Len(wires) /\ Len(l) = k + Len(wires)
  BY <1>1, <1>5, <1>6, <1>9
<1>11. ASSUME NEW i \in 1 .. Len(j) PROVE j[i] = l[i]
  <2>1. CASE i <= k
    <3>1. i \in 1 .. k /\ i \in 1 .. k + n
      BY <2>1, <1>10
    <3>2. i \in 1 .. Len(a) /\ i \in 1 .. Len(c)
      BY <3>1, <1>6, Zenon
    <3>3. a[i] = new[i] /\ c[i] = buf[i] /\ new[i] = buf[i]
      BY <3>1, <1>6, Zenon
    <3>4. j[i] = a[i] /\ l[i] = c[i]
      BY <3>2, <1>9, Zenon
    <3>. QED
      BY <3>3, <3>4, Zenon
  <2>2. CASE k < i /\ i <= k + n
    <3>1. PICK x : x = i - k
      OBVIOUS
    <3>2. x \in 1 .. n /\ x \in 1 .. Len(wires) /\ k + x = i /\ i \in 1 .. k + n
      BY <2>2, <3>1, <1>1, <1>10
    <3>3. j[i] = new[i] /\ l[k + x] = wires[x]
      BY <3>2, <1>6, <1>9, Zenon
    <3>. QED
      BY <3>2, <3>3, Zenon
  <2>3. CASE k + n < i
    <3>1. PICK x, y : x = i - k /\ y = i - (k + n)
      OBVIOUS
    <3>2. /\ x \in 1 .. Len(wires) /\ k + x = i /\ y \in 1 .. Len(wires) - n
          /\ (k + n) + y = i /\ n + y = x
      BY <2>3, <3>1, <1>1, <1>10
    <3>3. l[k + x] = wires[x] /\ j[(k + n) + y] = b[y] /\ b[y] = wires[n + y]
      BY <3>2, <1>5, <1>6, <1>9, Zenon
    <3>. QED
      BY <3>2, <3>3, Zenon
  <2>. QED
    BY <2>1, <2>2, <2>3, <1>1, <1>10
<1>12. j = l
  BY <1>9, <1>10, <1>11, SameSequence
<1>. QED
  BY <1>7, <1>12, Zenon DEF Moved, a, b, c

(* The packets that are sent to this reader, what it makes of bytes, and   *)
(* the bytes of the packets that it has not read yet.                      *)
Sendable == {p \in IF reader = "client" THEN ToClient ELSE ToBroker : encode(p).err = "SUCCESS"}
Results == {decode(b) : b \in Bytes} \cup Bytes
Unread(packets, k) == [i \in 1 .. Len(packets) - k |-> encode(packets[k + i]).bytes]
Pending == Unread(sent, Len(received))

(***************************************************************************)
(* The inductive invariant.  What the reader holds of a packet and what is *)
(* on the wire are together the packets that it has not read, in order: so *)
(* it decodes the bytes of one packet whenever it stops at the end of it,  *)
(* and it stops there because it never asks for more than the packet has.  *)
(***************************************************************************)
StreamType ==
    /\ reader \in {"client", "broker"} /\ sent \in Seq(Sendable)
    /\ received \in Seq(Results) /\ Len(received) <= Len(sent)
    /\ read_buf \in Bytes /\ Len(read_buf) = read_buf_size
    /\ wire \in Bytes /\ len \in Nat /\ want \in Nat /\ len <= read_buf_size
    /\ phase \in {"header", "length", "rest", "failed"}
InOrder == Join(SubSeq(read_buf, 1, len), wire) = FlattenSeq(Pending)
ReadsNoFurther ==
    /\ phase # "failed" => len + want <= read_buf_size
    /\ phase = "header" => len + want = 1
    /\ phase = "length" => /\ 2 <= len + want /\ want <= 1
                           /\ \A i \in 2 .. len + want - 1 : read_buf[i] >= 128
    /\ phase = "rest"   => 1 <= len /\ len + want = Len(Pending[1])
    /\ phase = "failed" => Pending # <<>> /\ Len(Pending[1]) > read_buf_size
ReadRight ==
    \A i \in 1 .. Len(received) :
        IF reader = "client" THEN Agrees(sent[i], received[i])
        ELSE received[i] = encode(sent[i]).bytes
StreamInv == StreamType /\ InOrder /\ ReadsNoFurther /\ ReadRight

(* What may be sent is a packet that the theorems above are about.         *)
LEMMA SendableFrames ==
    ASSUME NEW p \in Sendable
    PROVE  /\ encode(p).err = "SUCCESS" /\ encode(p).bytes \in Bytes
           /\ reader = "client" => p \in ClientPackets
           /\ \E head, body : Frame(encode(p).bytes, head, body)
<1>1. encode(p).err = "SUCCESS" /\ p \in IF reader = "client" THEN ToClient ELSE ToBroker
  BY Zenon DEF Sendable
<1>2. p \in ClientPackets \cup BrokerPackets /\ (reader = "client" => p \in ClientPackets)
  BY <1>1, PacketStreamAssumption, Zenon
<1>3. PICK head, body : Frame(encode(p).bytes, head, body)
  BY <1>1, <1>2, EncodesFrames, Zenon
<1>4. encode(p).bytes \in Bytes
  BY <1>3, Zenon DEF Frame, FrameOf, Bytes
<1>. QED
  BY <1>1, <1>2, <1>3, <1>4, Zenon

(* The packets that are not read yet.                                      *)
LEMMA PendingType ==
    ASSUME StreamType
    PROVE  /\ Pending \in Seq(Bytes) /\ Len(Pending) = Len(sent) - Len(received)
           /\ \A i \in 1 .. Len(sent) - Len(received) :
                 /\ sent[Len(received) + i] \in Sendable
                 /\ Pending[i] = encode(sent[Len(received) + i]).bytes
<1>. DEFINE n == Len(sent) - Len(received)
<1>1. sent \in Seq(Sendable) /\ received \in Seq(Results) /\ Len(received) <= Len(sent)
  BY Zenon DEF StreamType
<1>2. Len(sent) \in Nat /\ Len(received) \in Nat
  BY <1>1
<1>3. n \in Nat /\ \A i \in 1 .. n : Len(received) + i \in 1 .. Len(sent)
  BY <1>1, <1>2
<1>4. \A i \in 1 .. Len(sent) : sent[i] \in Sendable
  BY <1>1
<1>5. \A i \in 1 .. n : sent[Len(received) + i] \in Sendable
  BY <1>3, <1>4, Zenon
<1>6. \A i \in 1 .. n : encode(sent[Len(received) + i]).bytes \in Bytes
  BY <1>5, SendableFrames, Zenon
<1>7. Pending = [i \in 1 .. n |-> encode(sent[Len(received) + i]).bytes]
  BY Zenon DEF Pending, Unread
<1>. HIDE DEF n
<1>8. /\ Pending \in [1 .. n -> Bytes]
      /\ \A i \in 1 .. n : Pending[i] = encode(sent[Len(received) + i]).bytes
  BY <1>6, <1>7, Zenon
<1>9. Pending \in Seq(Bytes) /\ Len(Pending) = n
  BY <1>3, <1>8, FunctionIsSequence, Zenon
<1>. QED
  BY <1>5, <1>8, <1>9, Zenon DEF n

(* The first of them, of which the reader holds the beginning.             *)
LEMMA FirstPending ==
    ASSUME StreamType, InOrder, Pending # <<>>, NEW p, p = sent[Len(received) + 1]
    PROVE  /\ p \in Sendable /\ Pending[1] = encode(p).bytes /\ Pending[1] \in Bytes
           /\ Len(received) + 1 <= Len(sent)
           /\ \A i \in 1 .. len : i <= Len(Pending[1]) => read_buf[i] = Pending[1][i]
           /\ len = Len(Pending[1]) => /\ wire = FlattenSeq(Tail(Pending))
                                      /\ SubSeq(read_buf, 1, len) = Pending[1]
<1>1. /\ Pending \in Seq(Bytes) /\ Len(Pending) = Len(sent) - Len(received)
      /\ \A i \in 1 .. Len(sent) - Len(received) :
            /\ sent[Len(received) + i] \in Sendable
            /\ Pending[i] = encode(sent[Len(received) + i]).bytes
  BY PendingType, Zenon
<1>2. Len(sent) - Len(received) \in Nat
  <2>1. Len(Pending) \in Nat
    BY <1>1
  <2>. QED
    BY <1>1, <2>1, Zenon
<1>3. 1 \in 1 .. Len(sent) - Len(received) /\ Pending[1] \in Bytes /\ Tail(Pending) \in Seq(Bytes)
  <2>. PICK s : s = Pending
    OBVIOUS
  <2>1. s \in Seq(Bytes) /\ s # <<>>
    BY <1>1
  <2>2. 1 \in 1 .. Len(s) /\ s[1] \in Bytes /\ Tail(s) \in Seq(Bytes)
    BY <2>1
  <2>. QED
    BY <1>1, <2>2, Zenon
<1>4. p \in Sendable /\ Pending[1] = encode(p).bytes
  BY <1>1, <1>3, Zenon
<1>5. Len(received) + 1 <= Len(sent)
  <2>1. sent \in Seq(Sendable) /\ received \in Seq(Results)
    BY Zenon DEF StreamType
  <2>2. Len(sent) \in Nat /\ Len(received) \in Nat
    BY <2>1
  <2>. QED
    BY <1>3, <2>2
<1>. DEFINE first == SubSeq(read_buf, 1, len)
            more  == FlattenSeq(Tail(Pending))
<1>6. Join(first, wire) = Join(Pending[1], more)
  BY <1>1, StreamHead, Zenon DEF InOrder
<1>7. IsSlice(first, read_buf, 0, len)
  BY FirstBytes, Zenon DEF StreamType
<1>8. more \in Bytes
  BY <1>3, StreamBytes, Zenon
<1>9. wire \in Bytes /\ len \in Nat
  BY Zenon DEF StreamType
<1>. HIDE DEF first, more
<1>10. first \in Bytes /\ Len(first) = len /\ \A i \in 1 .. len : first[i] = read_buf[i]
  <2>1. /\ first \in Bytes /\ Len(first) = len - 0
        /\ \A i \in 1 .. len - 0 : first[i] = read_buf[0 + i]
    BY <1>7, Zenon DEF IsSlice
  <2>2. len - 0 = len /\ \A i \in 1 .. len : 0 + i = i
    BY <1>9
  <2>. QED
    BY <2>1, <2>2, Zenon
<1>11. /\ \A i \in 1 .. Len(first) : i <= Len(Pending[1]) => first[i] = Pending[1][i]
       /\ Len(first) = Len(Pending[1]) => first = Pending[1] /\ wire = more
  <2>1. SameStart(first, wire, Pending[1], more)
    BY <1>3, <1>6, <1>8, <1>9, <1>10, SamePrefix, Zenon
  <2>. QED
    BY <2>1, Zenon DEF SameStart
<1>12. \A i \in 1 .. len : i <= Len(Pending[1]) => read_buf[i] = Pending[1][i]
  BY <1>10, <1>11, Zenon
<1>13. len = Len(Pending[1]) => wire = more /\ first = Pending[1]
  BY <1>10, <1>11, Zenon
<1>. QED
  BY <1>3, <1>4, <1>5, <1>12, <1>13, Zenon DEF first, more

(* A reader that holds a byte has a packet to read.                        *)
LEMMA HoldsOfPacket ==
    ASSUME StreamType, InOrder, len > 0
    PROVE  Pending # <<>>
<1>1. SUFFICES ASSUME Pending = <<>> PROVE FALSE
  OBVIOUS
<1>2. len \in Nat /\ wire \in Bytes
  BY Zenon DEF StreamType
<1>. DEFINE first == SubSeq(read_buf, 1, len)
<1>3. IsSlice(first, read_buf, 0, len)
  BY FirstBytes, Zenon DEF StreamType
<1>4. Join(first, wire) = <<>>
  BY <1>1, StreamEmpty, Zenon DEF InOrder
<1>. HIDE DEF first
<1>5. first \in Bytes /\ Len(first) = len - 0
  BY <1>3, Zenon DEF IsSlice
<1>6. Parts(<<>>, first, wire)
  BY <1>2, <1>4, <1>5, JoinParts, Zenon
<1>7. Len(<<>>) = Len(first) + Len(wire) /\ Len(first) \in Nat /\ Len(wire) \in Nat
  BY <1>6, Zenon DEF Parts
<1>8. Len(<<>>) = 0
  OBVIOUS
<1>. QED
  BY <1>2, <1>5, <1>7, <1>8

(* lwmqtt_detect_packet_type knows every packet that the client is sent.   *)
LEMMA KnowsType ==
    ASSUME StreamType, InOrder, reader = "client", len > 0
    PROVE  detect_packet_type(read_buf) # "NO_PACKET"
<1>. DEFINE p == sent[Len(received) + 1]
<1>1. Pending # <<>>
  BY HoldsOfPacket, Zenon
<1>2. /\ p \in Sendable /\ Pending[1] = encode(p).bytes /\ Pending[1] \in Bytes
      /\ \A i \in 1 .. len : i <= Len(Pending[1]) => read_buf[i] = Pending[1][i]
  BY <1>1, FirstPending, Zenon
<1>. HIDE DEF p
<1>3. PICK q : q = Pending[1]
  OBVIOUS
<1>4. /\ encode(p).err = "SUCCESS" /\ q = encode(p).bytes /\ q \in Bytes
      /\ p \in ClientPackets /\ \E head, body : Frame(q, head, body)
  BY <1>2, <1>3, SendableFrames, Zenon
<1>5. Begins(q, encode(p).bytes)
  <2>1. Len(q) <= Len(q)
    BY <1>4 DEF Bytes
  <2>. QED
    BY <1>4, <2>1, Zenon DEF Begins
<1>6. TypeOf(q) = p.type
  BY <1>4, <1>5, DecodesWhatWasEncoded, Zenon
<1>7. read_buf[1] = q[1]
  <2>1. PICK head, body, d : FrameOf(q, head, body, d)
    BY <1>4, Zenon DEF Frame
  <2>2. d \in 1 .. 4 /\ body \in Seq(Byte) /\ Len(q) = 1 + d + Len(body)
    BY <2>1, Zenon DEF FrameOf
  <2>3. Len(body) \in Nat
    BY <2>2
  <2>4. 1 <= Len(q)
    BY <2>2, <2>3
  <2>5. len \in Nat
    BY Zenon DEF StreamType
  <2>6. 1 \in 1 .. len
    BY <2>5
  <2>. QED
    BY <1>2, <1>3, <2>4, <2>6, Zenon
<1>8. TypeOf(read_buf) = p.type
  BY <1>6, <1>7, Zenon DEF TypeOf
<1>9. p.type \in Receivable
  <2>1. /\ Acks \subseteq Receivable /\ "PUBLISH" \in Receivable /\ "PINGRESP" \in Receivable
        /\ "CONNACK" \in Receivable /\ "SUBACK" \in Receivable
    BY DEF Acks, Receivable
  <2>2. p \in Publications => p.type = "PUBLISH"
    BY PublicationType, Zenon
  <2>3. p \in Acknowledgements => p.type \in Acks
    BY Zenon DEF Acknowledgements
  <2>4. p \in [type : {"PINGRESP"}] => p.type \in {"PINGRESP"}
    BY Zenon
  <2>5. p \in [type : {"CONNACK"}, session_present : BOOLEAN, return_code : 0 .. 5]
          => p.type \in {"CONNACK"}
    BY Zenon
  <2>6. p \in [type : {"SUBACK"}, packet_id : Word, granted : [{1} -> {0, 1, 2, 128}]]
          => p.type \in {"SUBACK"}
    BY Zenon
  <2>. QED
    BY <1>4, <2>1, <2>2, <2>3, <2>4, <2>5, <2>6, Zenon DEF ClientPackets
<1>10. "NO_PACKET" \notin Receivable
  BY DEF Receivable
<1>. QED
  BY <1>8, <1>9, <1>10, Zenon DEF detect_packet_type

(* lwmqtt_detect_remaining_length wants one more byte as long as there is  *)
(* one in the packet, and then knows how far the packet goes.              *)
LEMMA KnowsLength ==
    ASSUME StreamType, InOrder, 2 <= len, \A i \in 2 .. len - 1 : read_buf[i] >= 128
    PROVE  \/ /\ remaining_length.err = "BUFFER_TOO_SHORT"
              /\ read_buf[len] >= 128 /\ len + 1 <= Len(Pending[1])
           \/ /\ remaining_length.err = "SUCCESS"
              /\ remaining_length.num \in Nat /\ len + remaining_length.num = Len(Pending[1])
<1>. DEFINE p == sent[Len(received) + 1]
            b == SubSeq(read_buf, 2, len)
<1>1. len \in Nat /\ read_buf \in Bytes /\ len <= Len(read_buf)
  BY Zenon DEF StreamType
<1>2. Pending # <<>>
  <2>1. len > 0
    BY <1>1
  <2>. QED
    BY <2>1, HoldsOfPacket, Zenon
<1>3. /\ p \in Sendable /\ Pending[1] = encode(p).bytes /\ Pending[1] \in Bytes
      /\ \A i \in 1 .. len : i <= Len(Pending[1]) => read_buf[i] = Pending[1][i]
  BY <1>2, FirstPending, Zenon
<1>. HIDE DEF p
<1>4. PICK q : q = Pending[1]
  OBVIOUS
<1>5. q \in Seq(Byte) /\ \A i \in 1 .. len : i <= Len(q) => read_buf[i] = q[i]
  BY <1>3, <1>4, Zenon DEF Bytes
<1>6. PICK head, body, d : FrameOf(q, head, body, d)
  BY <1>3, <1>4, SendableFrames, Zenon DEF Frame
<1>7. /\ d \in 1 .. 4 /\ body \in Seq(Byte) /\ Len(q) = 1 + d + Len(body)
      /\ Delimits(Tail(q), d) /\ Number(Tail(q), d) = Len(body)
  BY <1>6, Zenon DEF FrameOf
<1>8. Len(body) \in Nat /\ Len(q) \in Nat
  BY <1>5, <1>7
<1>9. /\ Tail(q) \in Seq(Byte) /\ Len(Tail(q)) = Len(q) - 1
      /\ \A i \in 1 .. Len(q) - 1 : Tail(q)[i] = q[i + 1]
  <2>1. q # <<>>
    BY <1>5, <1>7, <1>8
  <2>. QED
    BY <1>5, <2>1
<1>10. PICK t : t = Tail(q)
  OBVIOUS
<1>11. /\ t \in Seq(Byte) /\ \A i \in 1 .. d : t[i] = q[i + 1]
       /\ \A i \in 1 .. d - 1 : t[i] >= 128
       /\ t[d] < 128 /\ Delimits(t, d) /\ Number(t, d) = Len(body)
  <2>1. \A i \in 1 .. d : i \in 1 .. Len(q) - 1
    BY <1>7, <1>8
  <2>2. \A i \in 1 .. d : t[i] = q[i + 1]
    BY <2>1, <1>9, <1>10, Zenon
  <2>3. Delimits(t, d) /\ Number(t, d) = Len(body)
    BY <1>7, <1>10, Zenon
  <2>4. t[d] < 128 /\ \A i \in 1 .. d - 1 : t[i] >= 128
    BY <2>3, Zenon DEF Delimits
  <2>5. t \in Seq(Byte)
    BY <1>9, <1>10, Zenon
  <2>. QED
    BY <2>2, <2>3, <2>4, <2>5
<1>12. \A i \in 1 .. d : i + 1 <= len => read_buf[i + 1] = t[i]
  <2>. TAKE i \in 1 .. d
  <2>. HAVE i + 1 <= len
  <2>1. i + 1 \in 1 .. len /\ i + 1 <= Len(q)
    BY <1>1, <1>7, <1>8
  <2>. QED
    BY <2>1, <1>5, <1>11, Zenon
<1>13. len - 1 <= d
  <2>1. SUFFICES ASSUME d + 1 <= len - 1 PROVE FALSE
    BY <1>1, <1>7
  <2>2. d + 1 \in 2 .. len - 1 /\ d \in 1 .. d /\ d + 1 <= len
    BY <2>1, <1>1, <1>7
  <2>3. read_buf[d + 1] >= 128 /\ read_buf[d + 1] = t[d]
    BY <2>2, <1>12, Zenon
  <2>4. t[d] \in Int
    <3>0. d <= Len(t) /\ Len(t) \in Nat
      <4>1. d <= Len(t)
        BY <1>11, Zenon DEF Delimits
      <4>. QED
        BY <4>1, <1>11
    <3>1. d \in 1 .. Len(t)
      BY <3>0, <1>7
    <3>2. t[d] \in Byte
      BY <1>11, <3>1
    <3>. QED
      BY <3>2, ByteFacts, Zenon
  <2>. QED
    BY <2>3, <2>4, <1>11
<1>14. IsSlice(b, read_buf, 1, len)
  <2>1. 1 \in Nat /\ 1 <= len /\ 1 + 1 = 2
    BY <1>1
  <2>2. IsSlice(SubSeq(read_buf, 1 + 1, len), read_buf, 1, len)
    BY <2>1, <1>1, Slices, Zenon
  <2>. QED
    BY <2>1, <2>2, Zenon
<1>15. remaining_length = read_varnum(b)
  BY Zenon DEF remaining_length
<1>. HIDE DEF b
<1>16. /\ b \in Seq(Byte) /\ Len(b) = len - 1
       /\ \A i \in 1 .. len - 1 : b[i] = read_buf[1 + i]
  BY <1>14, Zenon DEF IsSlice, Bytes
<1>17. \A i \in 1 .. len - 1 : b[i] = t[i]
  <2>. TAKE i \in 1 .. len - 1
  <2>1. i \in 1 .. d /\ i + 1 <= len /\ 1 + i = i + 1
    BY <1>1, <1>7, <1>13
  <2>2. b[i] = read_buf[1 + i] /\ read_buf[i + 1] = t[i]
    BY <2>1, <1>12, <1>16, Zenon
  <2>. QED
    BY <2>1, <2>2, Zenon
<1>18. CASE len - 1 < d
  <2>1. Len(b) < 4 /\ len + 1 <= Len(q)
    BY <1>18, <1>1, <1>7, <1>8, <1>16
  <2>2. \A i \in 1 .. Len(b) : b[i] >= 128
    <3>. TAKE i \in 1 .. Len(b)
    <3>1. i \in 1 .. len - 1 /\ i \in 1 .. d - 1
      BY <1>18, <1>1, <1>7, <1>16
    <3>. QED
      BY <3>1, <1>11, <1>17, Zenon
  <2>3. remaining_length.err = "BUFFER_TOO_SHORT"
    BY <1>15, <1>16, <2>1, <2>2, WantsMore, Zenon
  <2>4. read_buf[len] >= 128
    <3>1. PICK i : i = len - 1
      OBVIOUS
    <3>2. i \in 1 .. d /\ i \in 1 .. d - 1 /\ i + 1 <= len /\ i + 1 = len
      BY <3>1, <1>18, <1>1, <1>7
    <3>3. read_buf[i + 1] = t[i] /\ t[i] >= 128
      BY <3>2, <1>11, <1>12, Zenon
    <3>. QED
      BY <3>2, <3>3, Zenon
  <2>. QED
    BY <1>4, <2>1, <2>3, <2>4, Zenon
<1>19. CASE len - 1 = d
  <2>1. d <= Len(b) /\ \A i \in 1 .. d : b[i] = t[i]
    BY <1>19, <1>7, <1>16, <1>17
  <2>2. Delimits(b, d) /\ Number(b, d) = Number(t, d)
    BY <1>11, <1>16, <2>1, SameNumber
  <2>3. read_varnum(b) = [err |-> "SUCCESS", len |-> d, num |-> Number(b, d)]
    BY <1>16, <2>2, ReadsVarnum
  <2>4. Number(b, d) = Len(body)
    BY <2>2, <1>11, Zenon
  <2>5. remaining_length.err = "SUCCESS" /\ remaining_length.num = Len(body)
    <3>1. \A x, y : LET r == [err |-> "SUCCESS", len |-> x, num |-> y]
                    IN  r.err = "SUCCESS" /\ r.num = y
      OBVIOUS
    <3>. QED
      BY <3>1, <1>15, <2>3, <2>4, ZenonT(60)
  <2>6. len + Len(body) = Len(q)
    BY <1>19, <1>1, <1>7, <1>8
  <2>. QED
    BY <1>4, <1>8, <2>5, <2>6, Zenon
<1>. QED
  BY <1>1, <1>7, <1>13, <1>18, <1>19

(* One packet more is sent.                                                *)
LEMMA UnreadAppend ==
    ASSUME NEW S, \A y \in S : encode(y).bytes \in Bytes,
           NEW packets \in Seq(S), NEW x \in S, NEW k \in Nat, k <= Len(packets)
    PROVE  Unread(Append(packets, x), k) = Append(Unread(packets, k), encode(x).bytes)
<1>. DEFINE m == Len(packets) - k
            u == Unread(packets, k)
            w == Unread(Append(packets, x), k)
            e == encode(x).bytes
<1>1. m \in Nat /\ Len(packets) \in Nat
  OBVIOUS
<1>2. PICK more : more = Append(packets, x)
  OBVIOUS
<1>3. /\ more \in Seq(S) /\ Len(more) = Len(packets) + 1 /\ more[Len(packets) + 1] = x
      /\ \A i \in 1 .. Len(packets) : more[i] = packets[i]
  BY <1>2
<1>4. /\ \A i \in 1 .. m : k + i \in 1 .. Len(packets)
      /\ Len(more) - k = m + 1 /\ k + (m + 1) = Len(packets) + 1
  BY <1>1, <1>3
<1>. HIDE DEF m
<1>5. u = [i \in 1 .. m |-> encode(packets[k + i]).bytes]
  BY Zenon DEF Unread, m
<1>6. w = [i \in 1 .. m + 1 |-> encode(more[k + i]).bytes]
  BY <1>2, <1>4, Zenon DEF Unread
<1>. HIDE DEF u, w
<1>7. \A i \in 1 .. m : packets[k + i] \in S
  <2>1. \A i \in 1 .. Len(packets) : packets[i] \in S
    OBVIOUS
  <2>. QED
    BY <2>1, <1>4, Zenon
<1>8. u \in Seq(Bytes) /\ Len(u) = m
  <2>1. u \in [1 .. m -> Bytes]
    BY <1>5, <1>7, Zenon
  <2>. QED
    BY <2>1, <1>1, FunctionIsSequence, Zenon
<1>9. e \in Bytes
  BY Zenon
<1>10. /\ \A i \in 1 .. m : w[i] = u[i]
       /\ w[m + 1] = e
  <2>1. \A i \in 1 .. m : i \in 1 .. m + 1
    BY <1>1
  <2>2. m + 1 \in 1 .. m + 1
    BY <1>1
  <2>3. w[m + 1] = e
    BY <2>2, <1>3, <1>4, <1>6, Zenon
  <2>4. \A i \in 1 .. m : w[i] = u[i]
    BY <2>1, <1>3, <1>4, <1>5, <1>6, Zenon
  <2>. QED
    BY <2>3, <2>4
<1>. HIDE DEF e
<1>11. PICK a : a = Append(u, e)
  OBVIOUS
<1>12. /\ a \in Seq(Bytes) /\ Len(a) = m + 1 /\ a[m + 1] = e
       /\ \A i \in 1 .. m : a[i] = u[i]
  BY <1>8, <1>9, <1>11
<1>13. \A i \in 1 .. m + 1 : w[i] = a[i]
  <2>. TAKE i \in 1 .. m + 1
  <2>1. i \in 1 .. m \/ i = m + 1
    BY <1>1
  <2>. QED
    BY <2>1, <1>10, <1>12, Zenon
<1>14. w \in Seq(Bytes) /\ Len(w) = m + 1
  <2>1. \A i \in 1 .. m + 1 : a[i] \in Bytes
    BY <1>12
  <2>2. w \in [1 .. m + 1 -> Bytes]
    BY <2>1, <1>6, <1>13, Zenon
  <2>3. m + 1 \in Nat
    BY <1>1
  <2>. QED
    BY <2>2, <2>3, FunctionIsSequence, Zenon
<1>15. w = a
  BY <1>12, <1>13, <1>14, SameSequence
<1>. QED
  BY <1>11, <1>15, Zenon DEF u, w, e

(* One packet more is read.                                                *)
LEMMA UnreadTail ==
    ASSUME NEW S, \A y \in S : encode(y).bytes \in Bytes,
           NEW packets \in Seq(S), NEW k \in Nat, k < Len(packets)
    PROVE  Unread(packets, k + 1) = Tail(Unread(packets, k))
<1>. DEFINE m == Len(packets) - k
            u == Unread(packets, k)
            w == Unread(packets, k + 1)
<1>1. m \in Nat /\ m - 1 \in Nat /\ Len(packets) - (k + 1) = m - 1 /\ k + 1 \in Nat
  OBVIOUS
<1>2. /\ \A i \in 1 .. m : k + i \in 1 .. Len(packets)
      /\ \A i \in 1 .. m - 1 : i + 1 \in 1 .. m /\ (k + 1) + i = k + (i + 1)
  OBVIOUS
<1>. HIDE DEF m
<1>3. u = [i \in 1 .. m |-> encode(packets[k + i]).bytes]
  BY Zenon DEF Unread, m
<1>4. w = [i \in 1 .. m - 1 |-> encode(packets[(k + 1) + i]).bytes]
  BY <1>1, Zenon DEF Unread
<1>. HIDE DEF u, w
<1>5. u \in Seq(Bytes) /\ Len(u) = m
  <2>1. \A i \in 1 .. Len(packets) : packets[i] \in S
    OBVIOUS
  <2>2. \A i \in 1 .. m : packets[k + i] \in S
    BY <2>1, <1>2, Zenon
  <2>3. u \in [1 .. m -> Bytes]
    BY <1>3, <2>2, Zenon
  <2>. QED
    BY <2>3, <1>1, FunctionIsSequence, Zenon
<1>6. \A i \in 1 .. m - 1 : w[i] = u[i + 1]
  <2>. TAKE i \in 1 .. m - 1
  <2>1. w[i] = encode(packets[(k + 1) + i]).bytes
    BY <1>4, Zenon
  <2>2. u[i + 1] = encode(packets[k + (i + 1)]).bytes
    BY <1>2, <1>3, Zenon
  <2>. QED
    BY <2>1, <2>2, <1>2, Zenon
<1>7. PICK t : t = Tail(u)
  OBVIOUS
<1>8. /\ t \in Seq(Bytes) /\ Len(t) = m - 1
      /\ \A i \in 1 .. m - 1 : t[i] = u[i + 1]
  <2>1. u # <<>>
    BY <1>1, <1>5
  <2>. QED
    BY <2>1, <1>1, <1>5, <1>7
<1>9. \A i \in 1 .. m - 1 : w[i] = t[i]
  BY <1>6, <1>8, Zenon
<1>10. w \in Seq(Bytes) /\ Len(w) = m - 1
  <2>1. \A i \in 1 .. m - 1 : t[i] \in Bytes
    BY <1>8
  <2>2. w \in [1 .. m - 1 -> Bytes]
    BY <2>1, <1>4, <1>9, Zenon
  <2>. QED
    BY <2>2, <1>1, FunctionIsSequence, Zenon
<1>11. w = t
  BY <1>8, <1>9, <1>10, SameSequence
<1>. QED
  BY <1>7, <1>11, Zenon DEF u, w

(* A packet has a head and a remaining length, at least.                   *)
LEMMA FirstIsLong ==
    ASSUME StreamType, InOrder, Pending # <<>>
    PROVE  Len(Pending[1]) \in Nat /\ 2 <= Len(Pending[1])
<1>. DEFINE p == sent[Len(received) + 1]
<1>1. p \in Sendable /\ Pending[1] = encode(p).bytes /\ Pending[1] \in Bytes
  BY FirstPending, Zenon
<1>. HIDE DEF p
<1>2. PICK q : q = Pending[1]
  OBVIOUS
<1>3. PICK head, body, d : FrameOf(q, head, body, d)
  BY <1>1, <1>2, SendableFrames, Zenon DEF Frame
<1>4. d \in 1 .. 4 /\ body \in Seq(Byte) /\ Len(q) = 1 + d + Len(body)
  BY <1>3, Zenon DEF FrameOf
<1>5. Len(body) \in Nat
  BY <1>4
<1>6. Len(q) \in Nat /\ 2 <= Len(q)
  BY <1>4, <1>5
<1>. QED
  BY <1>2, <1>6, Zenon

(***************************************************************************)
(* The invariant holds at first, and every step keeps it.                  *)
(***************************************************************************)
(* Nothing is sent, held or wanted but the first byte.                     *)
LEMMA StreamStarts == StreamInit => StreamInv
<1>. SUFFICES ASSUME StreamInit PROVE StreamInv
  OBVIOUS
<1>1. /\ reader \in {"client", "broker"} /\ sent = <<>> /\ wire = <<>> /\ received = <<>>
      /\ read_buf = [i \in 1 .. read_buf_size |-> 0]
      /\ len = 0 /\ want = 1 /\ phase = "header"
  BY Zenon DEF StreamInit
<1>2. read_buf_size \in Nat /\ 1 <= read_buf_size
  BY PacketStreamAssumption
<1>3. read_buf \in Bytes /\ Len(read_buf) = read_buf_size
  <2>1. 0 \in Byte
    BY ByteFacts
  <2>2. read_buf \in [1 .. read_buf_size -> Byte]
    BY <1>1, <2>1, Zenon
  <2>. QED
    BY <2>2, <1>2, FunctionIsSequence, Zenon DEF Bytes
<1>4. sent \in Seq(Sendable) /\ received \in Seq(Results) /\ Len(sent) = 0 /\ Len(received) = 0
  <2>1. <<>> \in Seq(Sendable) /\ <<>> \in Seq(Results) /\ Len(<<>>) = 0
    OBVIOUS
  <2>. QED
    BY <1>1, <2>1, Zenon
<1>5. wire \in Bytes
  <2>1. <<>> \in Seq(Byte)
    OBVIOUS
  <2>. QED
    BY <1>1, <2>1, Zenon DEF Bytes
<1>6. StreamType
  <2>1. Len(received) <= Len(sent) /\ len \in Nat /\ want \in Nat /\ len <= read_buf_size
    BY <1>1, <1>2, <1>4
  <2>2. phase \in {"header", "length", "rest", "failed"}
    BY <1>1
  <2>. QED
    BY <1>1, <1>3, <1>4, <1>5, <2>1, <2>2, Zenon DEF StreamType
<1>7. InOrder
  <2>1. Pending = <<>>
    <3>1. Pending \in Seq(Bytes) /\ Len(Pending) = Len(sent) - Len(received)
      BY <1>6, PendingType, Zenon
    <3>2. Len(Pending) = 0
      BY <3>1, <1>4
    <3>. QED
      BY <3>1, <3>2
  <2>2. FlattenSeq(Pending) = <<>>
    BY <2>1, StreamEmpty, Zenon
  <2>. DEFINE first == SubSeq(read_buf, 1, len)
  <2>3. first = <<>>
    BY <1>1, <1>3
  <2>4. Join(<<>>, <<>>) = <<>>
    BY DEF Join
  <2>. QED
    BY <2>2, <2>3, <2>4, <1>1, Zenon DEF InOrder
<1>8. ReadsNoFurther
  BY <1>1, <1>2 DEF ReadsNoFurther
<1>9. ReadRight
  <2>1. 1 .. Len(received) = {}
    BY <1>4
  <2>. QED
    BY <2>1, Zenon DEF ReadRight
<1>. QED
  BY <1>6, <1>7, <1>8, <1>9, Zenon DEF StreamInv

(* A packet is encoded behind the others.                                  *)
LEMMA WriteKeeps ==
    ASSUME StreamInv, Write
    PROVE  StreamInv'
<1>1. StreamType /\ InOrder /\ ReadsNoFurther /\ ReadRight
  BY Zenon DEF StreamInv
<1>2. PICK p \in IF reader = "client" THEN ToClient ELSE ToBroker :
        /\ encode(p).err = "SUCCESS"
        /\ sent' = Append(sent, p)
        /\ wire' = wire \o encode(p).bytes
  BY Zenon DEF Write
<1>3. /\ reader' = reader /\ read_buf' = read_buf /\ len' = len /\ want' = want
      /\ phase' = phase /\ received' = received
  BY Zenon DEF Write
<1>4. p \in Sendable /\ Sendable' = Sendable
  BY <1>2, <1>3, Zenon DEF Sendable
<1>5. PICK x : x = encode(p).bytes
  OBVIOUS
<1>6. x \in Bytes /\ \A y \in Sendable : encode(y).bytes \in Bytes
  BY <1>4, <1>5, SendableFrames, Zenon
<1>7. /\ sent \in Seq(Sendable) /\ received \in Seq(Results) /\ Len(received) <= Len(sent)
      /\ wire \in Bytes /\ read_buf \in Bytes /\ len \in Nat /\ len <= Len(read_buf)
  BY <1>1, Zenon DEF StreamType
<1>8. Len(sent) \in Nat /\ Len(received) \in Nat
  BY <1>7
<1>9. /\ sent' \in Seq(Sendable) /\ Len(sent') = Len(sent) + 1
      /\ \A i \in 1 .. Len(sent) : sent'[i] = sent[i]
  <2>. PICK s, t : s = sent /\ t = sent'
    OBVIOUS
  <2>1. s \in Seq(Sendable) /\ t = Append(s, p)
    BY <1>2, <1>7, Zenon
  <2>2. /\ t \in Seq(Sendable) /\ Len(t) = Len(s) + 1
        /\ \A i \in 1 .. Len(s) : t[i] = s[i]
    BY <1>4, <2>1
  <2>. QED
    BY <2>2, Zenon
<1>10. wire' = Join(wire, x)
  BY <1>2, <1>5, Zenon DEF Join
<1>11. wire' \in Bytes
  BY <1>6, <1>7, <1>10, JoinParts, Zenon DEF Parts
<1>12. Pending' = Append(Pending, x)
  <2>1. Unread(Append(sent, p), Len(received))
          = Append(Unread(sent, Len(received)), encode(p).bytes)
    BY <1>4, <1>6, <1>7, <1>8, UnreadAppend
  <2>. QED
    BY <2>1, <1>2, <1>3, <1>5, Zenon DEF Pending
<1>13. Pending \in Seq(Bytes) /\ Len(Pending) = Len(sent) - Len(received)
  BY <1>1, PendingType, Zenon
<1>14. StreamType'
  <2>1. Len(received) <= Len(sent')
    BY <1>7, <1>8, <1>9
  <2>. QED
    BY <1>1, <1>3, <1>4, <1>9, <1>11, <2>1, Zenon DEF StreamType
<1>15. InOrder'
  <2>. DEFINE first == SubSeq(read_buf, 1, len)
  <2>1. IsSlice(first, read_buf, 0, len)
    BY <1>7, FirstBytes, Zenon
  <2>2. first' = first
    BY <1>3, Zenon
  <2>3. Join(first, wire) = FlattenSeq(Pending)
    BY <1>1, Zenon DEF InOrder
  <2>. HIDE DEF first
  <2>4. first \in Bytes
    BY <2>1, Zenon DEF IsSlice
  <2>5. Join(first, wire') = Join(Join(first, wire), x)
    BY <2>4, <1>6, <1>7, <1>10, JoinBytes, Zenon
  <2>6. FlattenSeq(Pending') = Join(FlattenSeq(Pending), x)
    BY <1>6, <1>12, <1>13, StreamAppend, Zenon
  <2>7. Join(first', wire') = FlattenSeq(Pending')
    BY <2>2, <2>3, <2>5, <2>6, Zenon
  <2>. QED
    BY <2>7, Zenon DEF InOrder, first
<1>16. Pending # <<>> => Pending' # <<>> /\ Pending'[1] = Pending[1]
  <2>. PICK s, t : s = Pending /\ t = Pending'
    OBVIOUS
  <2>1. s \in Seq(Bytes) /\ t = Append(s, x)
    BY <1>12, <1>13, Zenon
  <2>2. s # <<>> => t # <<>> /\ t[1] = s[1]
    BY <1>6, <2>1
  <2>. QED
    BY <2>2, Zenon
<1>17. ReadsNoFurther'
  <2>1. phase = "rest" => Pending # <<>>
    <3>1. phase = "rest" => len > 0
      BY <1>1, <1>7 DEF ReadsNoFurther
    <3>. QED
      BY <1>1, <3>1, HoldsOfPacket, Zenon
  <2>2. phase = "failed" => Pending # <<>>
    BY <1>1, Zenon DEF ReadsNoFurther
  <2>3. phase = "rest" \/ phase = "failed" => Pending' # <<>> /\ Pending'[1] = Pending[1]
    BY <1>16, <2>1, <2>2, Zenon
  <2>. QED
    BY <1>1, <1>3, <2>3, Zenon DEF ReadsNoFurther
<1>18. ReadRight'
  <2>1. \A i \in 1 .. Len(received) : sent'[i] = sent[i]
    <3>1. \A i \in 1 .. Len(received) : i \in 1 .. Len(sent)
      BY <1>7, <1>8
    <3>. QED
      BY <3>1, <1>9, Zenon
  <2>. QED
    BY <1>1, <1>3, <2>1, Zenon DEF ReadRight
<1>. QED
  BY <1>14, <1>15, <1>17, <1>18, Zenon DEF StreamInv

(* Bytes move from the wire to the end of what the buffer holds.           *)
LEMMA ArriveKeeps ==
    ASSUME StreamInv, Arrive
    PROVE  StreamInv'
<1>1. StreamType /\ InOrder /\ ReadsNoFurther /\ ReadRight
  BY Zenon DEF StreamInv
<1>2. /\ phase # "failed" /\ want > 0
      /\ reader' = reader /\ sent' = sent /\ phase' = phase /\ received' = received
  BY Zenon DEF Arrive
<1>3. PICK n \in {1, want} :
         /\ n <= Len(wire)
         /\ read_buf' = [i \in 1 .. read_buf_size |->
                           IF i \in len + 1 .. len + n THEN wire[i - len] ELSE read_buf[i]]
         /\ wire' = SubSeq(wire, n + 1, Len(wire))
         /\ len' = len + n /\ want' = want - n
  BY Zenon DEF Arrive
<1>4. /\ sent \in Seq(Sendable) /\ received \in Seq(Results) /\ Len(received) <= Len(sent)
      /\ wire \in Bytes /\ read_buf \in Bytes /\ len \in Nat /\ want \in Nat
      /\ Len(read_buf) = read_buf_size /\ Sendable' = Sendable /\ Results' = Results
  BY <1>1, <1>2, Zenon DEF StreamType, Sendable, Results
<1>5. len + want <= read_buf_size
  BY <1>1, <1>2, Zenon DEF ReadsNoFurther
<1>6. read_buf_size \in Nat /\ Len(wire) \in Nat
  BY <1>4, PacketStreamAssumption DEF Bytes
<1>7. n \in Nat /\ 1 <= n /\ n <= want /\ len' \in Nat /\ want' \in Nat
      /\ len' + want' = len + want /\ len + n <= read_buf_size /\ len' <= read_buf_size
  BY <1>2, <1>3, <1>4, <1>5, <1>6
<1>8. PICK new : new = read_buf'
  OBVIOUS
<1>9. /\ \A i \in 1 .. len : i \in 1 .. read_buf_size /\ i \notin len + 1 .. len + n
      /\ \A i \in 1 .. n : /\ len + i \in 1 .. read_buf_size /\ len + i \in len + 1 .. len + n
                           /\ (len + i) - len = i /\ i \in 1 .. Len(wire)
      /\ \A i \in len + 1 .. len + n : i - len \in 1 .. Len(wire)
  BY <1>3, <1>4, <1>6, <1>7
<1>10. /\ \A i \in 1 .. len : new[i] = read_buf[i]
       /\ \A i \in 1 .. n : new[len + i] = wire[i]
  BY <1>3, <1>8, <1>9, Zenon
<1>11. new \in Bytes /\ Len(new) = read_buf_size
  <2>1. \A i \in 1 .. Len(wire) : wire[i] \in Byte
    BY <1>4 DEF Bytes
  <2>2. \A i \in 1 .. read_buf_size : read_buf[i] \in Byte
    BY <1>4 DEF Bytes
  <2>3. new \in [1 .. read_buf_size -> Byte]
    BY <1>3, <1>8, <1>9, <2>1, <2>2, Zenon
  <2>. QED
    BY <1>6, <2>3, FunctionIsSequence, Zenon DEF Bytes
<1>12. wire' \in Bytes
  <2>. PICK w : w = wire
    OBVIOUS
  <2>1. w \in Seq(Byte)
    BY <1>4, Zenon DEF Bytes
  <2>2. SubSeq(w, n + 1, Len(w)) \in Seq(Byte)
    BY <1>7, <2>1
  <2>. QED
    BY <1>3, <2>2, Zenon DEF Bytes
<1>13. StreamType'
  BY <1>1, <1>2, <1>4, <1>7, <1>8, <1>11, <1>12, Zenon DEF StreamType
<1>14. Pending' = Pending
  BY <1>2, Zenon DEF Pending
<1>15. InOrder'
  <2>1. Join(SubSeq(new, 1, len + n), SubSeq(wire, n + 1, Len(wire)))
          = Join(SubSeq(read_buf, 1, len), wire)
    <3>1. /\ read_buf \in Bytes /\ wire \in Bytes /\ len \in Nat /\ n \in Nat
          /\ n <= Len(wire) /\ len + n <= Len(read_buf)
          /\ new \in Bytes /\ Len(new) = Len(read_buf)
      BY <1>3, <1>4, <1>7, <1>11
    <3>2. Moved(new, read_buf, len, wire, n)
      BY <3>1, <1>10, BytesMove, Zenon
    <3>. QED
      BY <3>2, Zenon DEF Moved
  <2>. QED
    BY <1>1, <1>3, <1>8, <1>14, <2>1, Zenon DEF InOrder
<1>16. ReadsNoFurther'
  <2>1. ASSUME phase = "length"
        PROVE  /\ 2 <= len' + want' /\ want' <= 1
               /\ \A i \in 2 .. len' + want' - 1 : new[i] >= 128
    <3>1. 2 <= len + want /\ want <= 1 /\ \A i \in 2 .. len + want - 1 : read_buf[i] >= 128
      BY <1>1, <2>1, Zenon DEF ReadsNoFurther
    <3>2. n = 1 /\ want = 1
      BY <1>2, <1>4, <1>7, <3>1
    <3>3. want' = 0 /\ len' = len + 1
      BY <1>3, <3>2
    <3>4. want' <= 1 /\ \A i \in 2 .. len' + want' - 1 : i \in 2 .. len + want - 1 /\ i \in 1 .. len
      BY <1>4, <3>2, <3>3
    <3>5. \A i \in 2 .. len' + want' - 1 : new[i] >= 128
      BY <1>10, <3>1, <3>4, Zenon
    <3>. QED
      BY <1>7, <3>1, <3>4, <3>5, Zenon
  <2>2. phase = "rest" => 1 <= len' /\ len' + want' = Len(Pending[1])
    <3>1. 1 <= len'
      BY <1>3, <1>4, <1>7
    <3>. QED
      BY <1>1, <1>7, <3>1, Zenon DEF ReadsNoFurther
  <2>3. phase = "header" => len' + want' = 1
    BY <1>1, <1>7, Zenon DEF ReadsNoFurther
  <2>4. len' + want' <= read_buf_size
    BY <1>5, <1>7, Zenon
  <2>. QED
    BY <1>2, <1>8, <1>14, <2>1, <2>2, <2>3, <2>4, Zenon DEF ReadsNoFurther
<1>17. ReadRight'
  BY <1>1, <1>2, Zenon DEF ReadRight
<1>. QED
  BY <1>13, <1>15, <1>16, <1>17, Zenon DEF StreamInv

(* The reader goes on to bytes that the packet has, if it has room.        *)
LEMMA GoesKeeps ==
    ASSUME StreamInv, NEW next \in {"length", "rest"}, NEW n \in Nat, Goes(next, n),
           Pending # <<>>, want = 0, 1 <= len, len + n <= Len(Pending[1]),
           next = "rest" => len + n = Len(Pending[1]),
           next = "length" => n = 1 /\ \A i \in 2 .. len : read_buf[i] >= 128
    PROVE  StreamInv'
<1>1. StreamType /\ InOrder /\ ReadsNoFurther /\ ReadRight
  BY Zenon DEF StreamInv
<1>2. /\ phase' = IF read_buf_size < len + n THEN "failed" ELSE next
      /\ want' = n /\ reader' = reader /\ sent' = sent /\ wire' = wire
      /\ read_buf' = read_buf /\ len' = len /\ received' = received
  BY Zenon DEF Goes, NoRoom
<1>3. Sendable' = Sendable /\ Results' = Results /\ Pending' = Pending
  BY <1>2, Zenon DEF Sendable, Results, Pending
<1>4. phase' \in {"length", "rest", "failed"}
  BY <1>2, Zenon
<1>5. StreamType'
  BY <1>1, <1>2, <1>3, <1>4, Zenon DEF StreamType
<1>6. InOrder'
  BY <1>1, <1>2, <1>3, Zenon DEF InOrder
<1>7. ReadRight'
  BY <1>1, <1>2, Zenon DEF ReadRight
<1>8. len \in Nat /\ read_buf_size \in Nat /\ Len(Pending[1]) \in Nat
  <2>1. Len(Pending[1]) \in Nat
    BY <1>1, FirstIsLong, Zenon
  <2>2. len \in Nat
    BY <1>1, Zenon DEF StreamType
  <2>. QED
    BY <2>1, <2>2, PacketStreamAssumption
<1>9. ReadsNoFurther'
  <2>1. CASE read_buf_size < len + n
    <3>1. phase' = "failed"
      BY <1>2, <2>1, Zenon
    <3>2. Len(Pending[1]) > read_buf_size
      BY <1>8, <2>1
    <3>. QED
      BY <1>3, <3>1, <3>2 DEF ReadsNoFurther
  <2>2. CASE ~(read_buf_size < len + n)
    <3>1. phase' = next /\ len + n <= read_buf_size
      BY <1>2, <1>8, <2>2
    <3>2. CASE next = "length"
      <4>1. n = 1 /\ \A i \in 2 .. len : read_buf[i] >= 128
        BY <3>2, Zenon
      <4>2. 2 <= len + 1 /\ len + 1 - 1 = len
        BY <1>8
      <4>. QED
        BY <1>2, <3>1, <3>2, <4>1, <4>2, 1 <= 1 DEF ReadsNoFurther
    <3>3. CASE next = "rest"
      BY <1>2, <1>3, <3>1, <3>3, Zenon DEF ReadsNoFurther
    <3>. QED
      BY <3>2, <3>3
  <2>. QED
    BY <2>1, <2>2
<1>. QED
  BY <1>5, <1>6, <1>7, <1>9, Zenon DEF StreamInv

(* The client knows the type of every packet, and more of it follows.      *)
LEMMA HeaderReadKeeps ==
    ASSUME StreamInv, HeaderRead
    PROVE  StreamInv'
<1>1. StreamType /\ InOrder /\ ReadsNoFurther
  BY Zenon DEF StreamInv
<1>2. phase = "header" /\ want = 0 /\ len \in Nat
  BY <1>1, Zenon DEF HeaderRead, StreamType
<1>3. len + want = 1
  BY <1>1, <1>2, Zenon DEF ReadsNoFurther
<1>4. len = 1 /\ len > 0 /\ 1 <= len /\ len + 1 = 2 /\ 1 \in Nat
  BY <1>2, <1>3
<1>5. Goes("length", 1)
  BY <1>1, <1>4, KnowsType, Zenon DEF HeaderRead
<1>6. Pending # <<>>
  BY <1>1, <1>4, HoldsOfPacket, Zenon
<1>7. len + 1 <= Len(Pending[1])
  BY <1>1, <1>4, <1>6, FirstIsLong, Zenon
<1>8. \A i \in 2 .. len : read_buf[i] >= 128
  <2>1. \A i \in 2 .. len : FALSE
    BY <1>2, <1>3
  <2>. QED
    BY <2>1, Zenon
<1>9. "length" \in {"length", "rest"} /\ "length" # "rest"
  OBVIOUS
<1>. QED
  BY <1>2, <1>4, <1>5, <1>6, <1>7, <1>8, <1>9, GoesKeeps, Zenon

(* After a byte of the length the client wants another one, or the rest.   *)
LEMMA LengthReadKeeps ==
    ASSUME StreamInv, LengthRead
    PROVE  StreamInv'
<1>1. StreamType /\ InOrder /\ ReadsNoFurther
  BY Zenon DEF StreamInv
<1>2. phase = "length" /\ want = 0 /\ len \in Nat
  BY <1>1, Zenon DEF LengthRead, StreamType
<1>3. 2 <= len + want /\ \A i \in 2 .. len + want - 1 : read_buf[i] >= 128
  BY <1>1, <1>2, Zenon DEF ReadsNoFurther
<1>4. len + want = len /\ len + want - 1 = len - 1
  BY <1>2
<1>5. 2 <= len /\ \A i \in 2 .. len - 1 : read_buf[i] >= 128
  BY <1>3, <1>4, Zenon
<1>6. len > 0 /\ 1 <= len
  BY <1>2, <1>5
<1>7. Pending # <<>>
  BY <1>1, <1>6, HoldsOfPacket, Zenon
<1>8. "length" \in {"length", "rest"} /\ "length" # "rest" /\ "rest" \in {"length", "rest"}
      /\ "SUCCESS" # "BUFFER_TOO_SHORT" /\ 1 \in Nat
  OBVIOUS
<1>9. CASE /\ remaining_length.err = "BUFFER_TOO_SHORT"
           /\ read_buf[len] >= 128 /\ len + 1 <= Len(Pending[1])
  <2>1. Goes("length", 1)
    BY <1>8, <1>9, Zenon DEF LengthRead
  <2>2. \A i \in 2 .. len : i \in 2 .. len - 1 \/ i = len
    BY <1>2
  <2>3. \A i \in 2 .. len : read_buf[i] >= 128
    BY <1>5, <1>9, <2>2, Zenon
  <2>. QED
    BY <1>2, <1>6, <1>7, <1>8, <1>9, <2>1, <2>3, GoesKeeps, Zenon
<1>10. CASE /\ remaining_length.err = "SUCCESS" /\ remaining_length.num \in Nat
            /\ len + remaining_length.num = Len(Pending[1])
  <2>. DEFINE n == remaining_length.num
  <2>1. Goes("rest", n)
    BY <1>8, <1>10, Zenon DEF LengthRead
  <2>. HIDE DEF n
  <2>2. n \in Nat /\ len + n = Len(Pending[1])
    BY <1>10, Zenon DEF n
  <2>3. len + n <= Len(Pending[1])
    BY <1>2, <2>2
  <2>. QED
    BY <1>2, <1>6, <1>7, <1>8, <2>1, <2>2, <2>3, GoesKeeps, Zenon
<1>. QED
  BY <1>1, <1>5, <1>9, <1>10, KnowsLength, Zenon

(* The buffer holds the first of the packets, and the next one follows.    *)
LEMMA PacketReadKeeps ==
    ASSUME StreamInv, PacketRead
    PROVE  StreamInv'
<1>1. StreamType /\ InOrder /\ ReadsNoFurther /\ ReadRight
  BY Zenon DEF StreamInv
<1>. DEFINE got == IF reader = "client" THEN decode(read_buf) ELSE SubSeq(read_buf, 1, len)
            p == sent[Len(received) + 1]
<1>2. /\ phase = "rest" /\ want = 0 /\ received' = Append(received, got)
      /\ phase' = "header" /\ len' = 0 /\ want' = 1
      /\ reader' = reader /\ sent' = sent /\ wire' = wire /\ read_buf' = read_buf
  BY Zenon DEF PacketRead
<1>3. /\ sent \in Seq(Sendable) /\ received \in Seq(Results) /\ Len(received) <= Len(sent)
      /\ wire \in Bytes /\ read_buf \in Bytes /\ len \in Nat /\ len <= Len(read_buf)
      /\ Sendable' = Sendable /\ Results' = Results
  BY <1>1, <1>2, Zenon DEF StreamType, Sendable, Results
<1>4. 1 <= len /\ len + want = Len(Pending[1])
  BY <1>1, <1>2, Zenon DEF ReadsNoFurther
<1>5. len > 0 /\ len = Len(Pending[1])
  BY <1>2, <1>3, <1>4
<1>6. Pending # <<>>
  BY <1>1, <1>5, HoldsOfPacket, Zenon
<1>7. /\ p \in Sendable /\ Pending[1] = encode(p).bytes /\ Pending[1] \in Bytes
      /\ Len(received) + 1 <= Len(sent)
      /\ \A i \in 1 .. len : i <= Len(Pending[1]) => read_buf[i] = Pending[1][i]
      /\ wire = FlattenSeq(Tail(Pending)) /\ SubSeq(read_buf, 1, len) = Pending[1]
  BY <1>1, <1>5, <1>6, FirstPending, Zenon
<1>. HIDE DEF p
<1>8. ASSUME reader = "client" PROVE Agrees(p, decode(read_buf))
  <2>1. /\ p \in ClientPackets /\ encode(p).err = "SUCCESS" /\ encode(p).bytes \in Bytes
    BY <1>7, <1>8, SendableFrames, Zenon
  <2>2. len \in Nat /\ \A i \in 1 .. len : i <= len
    BY <1>3
  <2>3. Begins(read_buf, encode(p).bytes)
    BY <1>3, <1>5, <1>7, <2>2, Zenon DEF Begins
  <2>. QED
    BY <2>1, <2>3, DecodesWhatWasEncoded, Zenon
<1>9. got \in Results
  BY <1>3, <1>7, Zenon DEF Results
<1>10. IF reader = "client" THEN Agrees(p, got) ELSE got = encode(p).bytes
  BY <1>7, <1>8, Zenon
<1>. HIDE DEF got
<1>11. /\ received' \in Seq(Results) /\ Len(received') = Len(received) + 1
       /\ received'[Len(received) + 1] = got
       /\ \A i \in 1 .. Len(received) : received'[i] = received[i]
  <2>. PICK s, t : s = received /\ t = received'
    OBVIOUS
  <2>1. s \in Seq(Results) /\ t = Append(s, got)
    BY <1>2, <1>3, Zenon
  <2>2. /\ t \in Seq(Results) /\ Len(t) = Len(s) + 1 /\ t[Len(s) + 1] = got
        /\ \A i \in 1 .. Len(s) : t[i] = s[i]
    BY <1>9, <2>1
  <2>. QED
    BY <2>2, Zenon
<1>12. Len(received) \in Nat /\ Len(sent) \in Nat
  BY <1>3
<1>13. Pending' = Tail(Pending)
  <2>1. Len(received) < Len(sent)
    BY <1>7, <1>12
  <2>2. \A y \in Sendable : encode(y).bytes \in Bytes
    BY SendableFrames, Zenon
  <2>3. Unread(sent, Len(received) + 1) = Tail(Unread(sent, Len(received)))
    BY <1>3, <1>12, <2>1, <2>2, UnreadTail
  <2>. QED
    BY <1>2, <1>11, <2>3, Zenon DEF Pending
<1>14. StreamType'
  <2>1. 0 \in Nat /\ 1 \in Nat /\ 0 <= read_buf_size
    BY PacketStreamAssumption
  <2>2. "header" \in {"header", "length", "rest", "failed"}
    OBVIOUS
  <2>. QED
    BY <1>1, <1>2, <1>3, <1>7, <1>11, <2>1, <2>2, Zenon DEF StreamType
<1>15. InOrder'
  <2>. DEFINE none == SubSeq(read_buf, 1, 0)
  <2>1. none = <<>>
    BY <1>3 DEF Bytes
  <2>. HIDE DEF none
  <2>2. Join(<<>>, wire) = wire
    <3>1. <<>> \in Bytes /\ Len(<<>>) = 0
      BY DEF Bytes
    <3>2. PICK j, e : j = Join(<<>>, wire) /\ e = <<>>
      OBVIOUS
    <3>3. Parts(j, e, wire) /\ Len(e) = 0
      BY <1>3, <3>1, <3>2, JoinParts, Zenon
    <3>4. /\ j \in Seq(Byte) /\ Len(j) = Len(e) + Len(wire)
          /\ \A i \in 1 .. Len(wire) : j[Len(e) + i] = wire[i]
      BY <3>3, Zenon DEF Parts, Bytes
    <3>. PICK w : w = wire
      OBVIOUS
    <3>5. w \in Seq(Byte)
      BY <1>3, Zenon DEF Bytes
    <3>6. Len(j) = Len(w) /\ \A i \in 1 .. Len(w) : j[i] = w[i]
      BY <3>3, <3>4, <3>5
    <3>7. j = w
      BY <3>4, <3>5, <3>6, SameSequence
    <3>. QED
      BY <3>2, <3>7, Zenon
  <2>3. Join(none, wire) = FlattenSeq(Pending')
    BY <1>7, <1>13, <2>1, <2>2, Zenon
  <2>. QED
    BY <1>2, <2>3, Zenon DEF InOrder, none
<1>16. ReadsNoFurther'
  <2>1. 0 + 1 = 1 /\ 0 + 1 <= read_buf_size
    BY PacketStreamAssumption
  <2>. QED
    BY <1>2, <2>1 DEF ReadsNoFurther
<1>17. ReadRight'
  <2>1. \A i \in 1 .. Len(received) + 1 : i \in 1 .. Len(received) \/ i = Len(received) + 1
    BY <1>12
  <2>2. ASSUME NEW i \in 1 .. Len(received) + 1
        PROVE  IF reader = "client" THEN Agrees(sent[i], received'[i])
               ELSE received'[i] = encode(sent[i]).bytes
    <3>1. CASE i \in 1 .. Len(received)
      BY <1>1, <1>11, <3>1, Zenon DEF ReadRight
    <3>2. CASE i = Len(received) + 1
      BY <1>10, <1>11, <3>2, Zenon DEF p
    <3>. QED
      BY <2>1, <3>1, <3>2, Zenon
  <2>. QED
    BY <1>2, <1>11, <2>2, Zenon DEF ReadRight
<1>. QED
  BY <1>14, <1>15, <1>16, <1>17, Zenon DEF StreamInv

(* A step that changes nothing keeps it too.                               *)
LEMMA StreamStep == StreamInv /\ [StreamNext]_streamVars => StreamInv'
<1>. SUFFICES ASSUME StreamInv, [StreamNext]_streamVars PROVE StreamInv'
  OBVIOUS
<1>1. CASE Write
  BY <1>1, WriteKeeps, Zenon
<1>2. CASE Arrive
  BY <1>2, ArriveKeeps, Zenon
<1>3. CASE HeaderRead
  BY <1>3, HeaderReadKeeps, Zenon
<1>4. CASE LengthRead
  BY <1>4, LengthReadKeeps, Zenon
<1>5. CASE PacketRead
  BY <1>5, PacketReadKeeps, Zenon
<1>6. CASE UNCHANGED streamVars
  <2>1. /\ reader' = reader /\ sent' = sent /\ wire' = wire /\ read_buf' = read_buf
        /\ len' = len /\ want' = want /\ phase' = phase /\ received' = received
    BY <1>6, Zenon DEF streamVars
  <2>2. Sendable' = Sendable /\ Results' = Results /\ Pending' = Pending
    BY <2>1, Zenon DEF Sendable, Results, Pending
  <2>3. StreamType' /\ InOrder'
    BY <2>1, <2>2, Zenon DEF StreamInv, StreamType, InOrder
  <2>4. ReadsNoFurther'
    BY <2>1, <2>2, Zenon DEF StreamInv, ReadsNoFurther
  <2>5. ReadRight'
    BY <2>1, Zenon DEF StreamInv, ReadRight
  <2>. QED
    BY <2>3, <2>4, <2>5, Zenon DEF StreamInv
<1>. QED
  BY <1>1, <1>2, <1>3, <1>4, <1>5, <1>6, Zenon DEF StreamNext

(* The buffer and the wire always hold the unread packets in order, and    *)
(* lwmqtt_read_packet_in_buffer never asks for a byte of the next packet.  *)
THEOREM StreamAlways == StreamSpec => []StreamInv
<1>. QED
  BY StreamStarts, StreamStep, PTL DEF StreamSpec

(***************************************************************************)
(* What the runs check                                                     *)
(***************************************************************************)
(* The client reads every packet as it was encoded (packet.c), however the *)
(* bytes arrive and whatever the read buffer still holds from before.      *)
THEOREM ReadsWhatWasSentAlways == StreamSpec => []ReadsWhatWasSent
<1>1. StreamInv => ReadsWhatWasSent
  <2>. SUFFICES ASSUME StreamInv PROVE ReadsWhatWasSent
    OBVIOUS
  <2>1. received \in Seq(Results) /\ ReadRight
    BY Zenon DEF StreamInv, StreamType
  <2>2. DOMAIN received = 1 .. Len(received)
    BY <2>1
  <2>. QED
    BY <2>1, <2>2, Zenon DEF ReadsWhatWasSent, ReadRight
<1>. QED
  BY <1>1, StreamAlways, PTL

(* Every packet that the client encodes ends where its remaining length    *)
(* says: a broker that splits the stream by it gets the packets that were  *)
(* sent, whatever their number, topics, payloads and options.              *)
THEOREM StaysInFrameAlways == StreamSpec => []StaysInFrame
<1>1. StreamInv => StaysInFrame
  <2>. SUFFICES ASSUME StreamInv PROVE StaysInFrame
    OBVIOUS
  <2>1. received \in Seq(Results) /\ ReadRight
    BY Zenon DEF StreamInv, StreamType
  <2>2. DOMAIN received = 1 .. Len(received)
    BY <2>1
  <2>3. reader = "broker" => reader # "client"
    OBVIOUS
  <2>. QED
    BY <2>1, <2>2, <2>3, Zenon DEF StaysInFrame, ReadRight
<1>. QED
  BY <1>1, StreamAlways, PTL

(* Whatever the size of the read buffer, the client gives up a packet that *)
(* does not fit and no other: it never meets a type or a length that it    *)
(* does not know (lwmqtt_read_packet_in_buffer).                           *)
THEOREM FailsForRoomOnlyAlways == StreamSpec => []FailsForRoomOnly
<1>1. StreamInv => FailsForRoomOnly
  <2>. SUFFICES ASSUME StreamInv, phase = "failed"
                PROVE  Len(encode(sent[Len(received) + 1]).bytes) > read_buf_size
    BY Zenon DEF FailsForRoomOnly
  <2>. DEFINE p == sent[Len(received) + 1]
  <2>1. StreamType /\ InOrder /\ Pending # <<>> /\ Len(Pending[1]) > read_buf_size
    BY Zenon DEF StreamInv, ReadsNoFurther
  <2>2. Pending[1] = encode(p).bytes
    BY <2>1, FirstPending, Zenon
  <2>. QED
    BY <2>1, <2>2, Zenon
<1>. QED
  BY <1>1, StreamAlways, PTL
=============================================================================
