---------------------------- MODULE SequenceFacts ----------------------------
(***************************************************************************)
(* What the proofs of the other modules need to know about definitions     *)
(* that walk along a sequence: recursive functions that count up, and      *)
(* FlattenSeq, which lays byte sequences end to end.                       *)
(*                                                                         *)
(* The induction theorems of the library are about an operator P(_); here  *)
(* induction is stated for a set of numbers, and a proof by induction      *)
(* names the set of those for which its claim holds.                       *)
(***************************************************************************)
EXTENDS SequencesExt, SequenceTheorems, WellFoundedInduction, TLAPS

\* A set that holds 0 and, with any number, the next, is all of Nat: the
\* smallest number outside it would have a predecessor in it.
THEOREM SetInduction ==
  ASSUME NEW S \in SUBSET Nat, 0 \in S, \A n \in S : n + 1 \in S
  PROVE  S = Nat
  <1> SUFFICES ASSUME Nat \ S # {} PROVE FALSE
    OBVIOUS
  <1> DEFINE T == Nat \ S
             R == OpToRel(<, Nat)
  <1>1. IsWellFoundedOn(R, Nat)
    BY NatLessThanWellFounded, Zenon
  <1>2. \A x, y \in Nat : x < y => <<x, y>> \in R
    BY Zenon DEF OpToRel
  <1> HIDE DEF R
  <1>3. PICK x \in T : \A y \in T : ~ (<<y, x>> \in R)
    <2>1. T \subseteq Nat /\ T # {}
      OBVIOUS
    <2> HIDE DEF T
    <2>2. QED
      BY <1>1, <2>1, WFMin, Zenon
  <1>4. x # 0 /\ x - 1 \in Nat /\ x - 1 < x
    OBVIOUS
  <1>5. x - 1 \in S
    BY <1>2, <1>3, <1>4
  <1>6. QED
    BY <1>3, <1>4, <1>5

\* f counts up to n: it begins with base, and step[i] leads from f[i - 1] to f[i].
Iterates(f, n, S, base, step) ==
  /\ f \in [0 .. n -> S]
  /\ f[0] = base
  /\ \A i \in 1 .. n : f[i] = step[i][f[i - 1]]

\* Such a function exists, whatever the steps: the CHOOSE that stands for a
\* recursive definition of this shape has a value to choose.
THEOREM PrefixRecursion ==
  ASSUME NEW S, NEW n \in Nat, NEW base \in S, NEW step \in [1 .. n -> [S -> S]]
  PROVE  \E f : Iterates(f, n, S, base, step)
  <1> DEFINE Good(k, f) == Iterates(f, k, S, base, step)
             I == {k \in Nat : k <= n => \E f : Good(k, f)}
  <1>1. 0 \in I
    <2>1. Good(0, [i \in 0 .. 0 |-> base])
      BY DEF Iterates
    <2>2. QED
      BY <2>1
  <1>2. ASSUME NEW k \in I
        PROVE  k + 1 \in I
    <2> SUFFICES ASSUME k + 1 <= n
                 PROVE  \E f : Good(k + 1, f)
      <3>1. k \in Nat /\ k + 1 \in Nat
        OBVIOUS
      <3> HIDE DEF Good
      <3>2. QED
        BY <3>1
    <2>1. k \in Nat /\ k <= n
      OBVIOUS
    <2>2. PICK f : Good(k, f)
      BY <2>1
    <2> DEFINE g == [i \in 0 .. k + 1 |-> IF i = k + 1 THEN step[k + 1][f[k]] ELSE f[i]]
    <2>3. f[k] \in S /\ step[k + 1][f[k]] \in S
      BY <2>1, <2>2 DEF Iterates
    <2>4. g \in [0 .. k + 1 -> S] /\ g[0] = base
      BY <2>1, <2>2, <2>3 DEF Iterates
    <2>5. ASSUME NEW i \in 1 .. k + 1
          PROVE  g[i] = step[i][g[i - 1]]
      <3>1. CASE i = k + 1
        BY <2>1, <3>1
      <3>2. CASE i # k + 1
        <4>1. i \in 1 .. k /\ i - 1 \in 0 .. k
          BY <2>1, <3>2
        <4>2. QED
          BY <4>1, <2>1, <2>2 DEF Iterates
      <3>3. QED
        BY <3>1, <3>2
    <2>6. Good(k + 1, g)
      BY <2>1, <2>4, <2>5 DEF Iterates
    <2>7. QED
      BY <2>6
  <1>3. I = Nat
    <2>1. I \in SUBSET Nat
      OBVIOUS
    <2> HIDE DEF I
    <2>2. QED
      BY <1>1, <1>2, <2>1, SetInduction
  <1>4. n \in I
    BY <1>3
  <1>5. QED
    BY <1>4

\* And there is only one: as far as the steps of two of them agree, so do they.
THEOREM IterationUnique ==
  ASSUME NEW S, NEW m \in Nat, NEW n \in Nat, m <= n, NEW base, NEW f, NEW g, NEW s, NEW t,
         Iterates(f, m, S, base, s), Iterates(g, n, S, base, t),
         \A i \in 1 .. m : s[i] = t[i]
  PROVE  \A i \in 0 .. m : f[i] = g[i]
  <1> DEFINE I == {i \in Nat : i <= m => f[i] = g[i]}
  <1>1. 0 \in I
    BY DEF Iterates
  <1>2. ASSUME NEW i \in I
        PROVE  i + 1 \in I
    <2>1. i \in Nat /\ i + 1 \in Nat
      OBVIOUS
    <2>2. ASSUME i + 1 <= m
          PROVE  f[i + 1] = g[i + 1]
      <3>1. i + 1 \in 1 .. m /\ i + 1 \in 1 .. n /\ (i + 1) - 1 = i /\ f[i] = g[i]
        BY <2>1, <2>2
      <3>2. f[i + 1] = s[i + 1][f[i]] /\ g[i + 1] = t[i + 1][g[i]]
        BY <3>1 DEF Iterates
      <3>3. QED
        BY <3>1, <3>2
    <2>3. QED
      BY <2>1, <2>2
  <1>3. I = Nat
    <2>1. I \in SUBSET Nat
      OBVIOUS
    <2> HIDE DEF I
    <2>2. QED
      BY <1>1, <1>2, <2>1, SetInduction
  <1>4. QED
    BY <1>3

\* FlattenSeq, from left to right: f[k] is the first k sequences, end to end.
THEOREM FlattenStep ==
  ASSUME NEW S, NEW seqs \in Seq(Seq(S))
  PROVE  \E f \in [0 .. Len(seqs) -> Seq(S)] :
           /\ f[0] = << >>
           /\ \A k \in 1 .. Len(seqs) : f[k] = f[k - 1] \o seqs[k]
           /\ \A k \in 0 .. Len(seqs) : f[k] = FlattenSeq(SubSeq(seqs, 1, k))
  <1> DEFINE n == Len(seqs)
             T == Seq(S)
             step == [k \in 1 .. n |-> [s \in T |-> s \o seqs[k]]]
  <1>1. n \in Nat /\ << >> \in T /\ \A k \in 1 .. n : seqs[k] \in T
    OBVIOUS
  <1>2. step \in [1 .. n -> [T -> T]]
    BY <1>1, ConcatProperties
  <1>3. \A k \in 1 .. n : \A s \in T : step[k][s] = s \o seqs[k]
    OBVIOUS
  <1> HIDE DEF n, T, step
  <1>4. PICK f \in [0 .. n -> T] : /\ f[0] = << >>
                                  /\ \A k \in 1 .. n : f[k] = step[k][f[k - 1]]
    <2>1. \E f : Iterates(f, n, T, << >>, step)
      BY <1>1, <1>2, PrefixRecursion, Zenon
    <2>2. QED
      BY <2>1 DEF Iterates
  <1>5. ASSUME NEW k \in 1 .. n
        PROVE  f[k] = f[k - 1] \o seqs[k]
    <2>1. k - 1 \in 0 .. n
      BY <1>1
    <2>2. f[k - 1] \in T
      BY <2>1
    <2>3. f[k] = step[k][f[k - 1]]
      BY <1>4
    <2>4. QED
      BY <1>3, <2>2, <2>3
  <1>6. ASSUME NEW k \in 0 .. n
        PROVE  f[k] = FlattenSeq(SubSeq(seqs, 1, k))
    <2> DEFINE q == SubSeq(seqs, 1, k)
    <2>1. q \in Seq(T) /\ Len(q) = k /\ \A i \in 1 .. k : q[i] = seqs[i]
      BY <1>1 DEF n, T
    <2>2. CASE k = 0
      <3>1. q = << >>
        BY <2>1, <2>2
      <3>2. FlattenSeq(<< >>) = << >>
        BY DEF FlattenSeq
      <3>3. QED
        BY <1>4, <2>2, <3>1, <3>2, Zenon
    <2>3. CASE k # 0
      <3> DEFINE Is(g) == g = [i \in 1 .. k |-> IF i = 1 THEN q[i] ELSE g[i - 1] \o q[i]]
                 h == [i \in 1 .. k |-> f[i]]
      <3>1. Is(h)
        <4>1. ASSUME NEW i \in 1 .. k
              PROVE  h[i] = IF i = 1 THEN q[i] ELSE h[i - 1] \o q[i]
          <5>0. i \in 1 .. n
            BY <1>1
          <5>1. i \in 1 .. n /\ f[i] = f[i - 1] \o seqs[i] /\ q[i] = seqs[i]
            BY <1>5, <2>1, <5>0
          <5>2. CASE i = 1
            <6>1. << >> \o seqs[i] = seqs[i]
              BY <1>1, <5>1, ConcatEmptySeq DEF T
            <6>2. f[i - 1] = << >>
              BY <1>4, <5>2
            <6>3. QED
              BY <5>1, <5>2, <6>1, <6>2
          <5>3. CASE i # 1
            <6>1. i - 1 \in 1 .. k
              BY <5>3
            <6>2. QED
              BY <5>1, <5>3, <6>1
          <5>4. QED
            BY <5>2, <5>3
        <4>2. QED
          BY <4>1
      <3>2. ASSUME NEW g, Is(g)
            PROVE  g[k] = f[k]
        <4> DEFINE I == {i \in Nat : i + 1 <= k => g[i + 1] = f[i + 1]}
        <4>1. 0 \in I
          <5>1. 1 \in 1 .. k /\ 1 \in 1 .. n
            BY <1>1, <2>3
          <5>2. f[1] = f[0] \o seqs[1]
            BY <1>5, <5>1, 1 - 1 = 0
          <5>3. f[1] = seqs[1]
            BY <1>1, <1>4, <5>1, <5>2, ConcatEmptySeq DEF T
          <5>4. g[1] = seqs[1]
            BY <2>1, <3>2, <5>1
          <5>5. QED
            BY <5>3, <5>4
        <4>2. ASSUME NEW i \in I
              PROVE  i + 1 \in I
          <5>1. i \in Nat /\ i + 1 \in Nat
            OBVIOUS
          <5>2. ASSUME i + 2 <= k
                PROVE  g[i + 2] = f[i + 2]
            <6>1. i + 2 \in 1 .. k /\ i + 2 \in 1 .. n /\ g[i + 1] = f[i + 1]
              BY <5>1, <5>2, <1>1
            <6>2. i + 2 # 1 /\ (i + 2) - 1 = i + 1
              BY <5>1
            <6>3. g[i + 2] = g[i + 1] \o q[i + 2]
              BY <3>2, <6>1, <6>2
            <6>4. f[i + 2] = f[i + 1] \o seqs[i + 2]
              BY <1>5, <6>1, <6>2
            <6>5. QED
              BY <2>1, <6>1, <6>3, <6>4
          <5>3. QED
            BY <5>1, <5>2, (i + 1) + 1 = i + 2
        <4>3. I = Nat
          <5>1. I \in SUBSET Nat
            OBVIOUS
          <5> HIDE DEF I
          <5>2. QED
            BY <4>1, <4>2, <5>1, SetInduction
        <4>4. k - 1 \in Nat /\ (k - 1) + 1 = k
          BY <1>1, <2>3
        <4>5. k - 1 \in I
          BY <4>3, <4>4
        <4>6. QED
          BY <4>4, <4>5
      <3>3. FlattenSeq(q) = (CHOOSE g : Is(g))[k]
        BY <2>1, <2>3 DEF FlattenSeq
      <3>4. Is(CHOOSE g : Is(g))
        <4> HIDE DEF Is
        <4>1. QED
          BY <3>1, Zenon
      <3>5. QED
        BY <3>2, <3>3, <3>4, Zenon
    <2>4. QED
      BY <2>2, <2>3
  <1>7. QED
    BY <1>4, <1>5, <1>6 DEF n, T

\* Each sequence comes behind those before it.
THEOREM FlattenPrefix ==
  ASSUME NEW S, NEW seqs \in Seq(Seq(S))
  PROVE  /\ FlattenSeq(SubSeq(seqs, 1, 0)) = << >>
         /\ \A k \in 0 .. Len(seqs) : FlattenSeq(SubSeq(seqs, 1, k)) \in Seq(S)
         /\ \A k \in 1 .. Len(seqs) :
              FlattenSeq(SubSeq(seqs, 1, k)) = FlattenSeq(SubSeq(seqs, 1, k - 1)) \o seqs[k]
         /\ FlattenSeq(seqs) = FlattenSeq(SubSeq(seqs, 1, Len(seqs)))
  <1>1. PICK f \in [0 .. Len(seqs) -> Seq(S)] :
           /\ f[0] = << >>
           /\ \A k \in 1 .. Len(seqs) : f[k] = f[k - 1] \o seqs[k]
           /\ \A k \in 0 .. Len(seqs) : f[k] = FlattenSeq(SubSeq(seqs, 1, k))
    BY FlattenStep
  <1>2. Len(seqs) \in Nat /\ SubSeq(seqs, 1, Len(seqs)) = seqs
    BY SubSeqFull
  <1>3. 0 \in 0 .. Len(seqs) /\ \A k \in 1 .. Len(seqs) : k \in 0 .. Len(seqs) /\ k - 1 \in 0 .. Len(seqs)
    BY <1>2
  <1>4. QED
    BY <1>1, <1>2, <1>3

\* One sequence more at the end.
THEOREM FlattenAppend ==
  ASSUME NEW S, NEW seqs \in Seq(Seq(S)), NEW last \in Seq(S)
  PROVE  /\ FlattenSeq(seqs) \in Seq(S)
         /\ FlattenSeq(Append(seqs, last)) = FlattenSeq(seqs) \o last
  <1> DEFINE n == Len(seqs)
             more == Append(seqs, last)
  <1>1. n \in Nat /\ more \in Seq(Seq(S)) /\ Len(more) = n + 1 /\ more[n + 1] = last
    BY AppendProperties
  <1>2. SubSeq(more, 1, n) = seqs /\ SubSeq(more, 1, n + 1) = more
    <2>1. SubSeq(more, 1, n) = seqs
      <3>1. SubSeq(more, 1, n) \in Seq(Seq(S)) /\ Len(SubSeq(more, 1, n)) = n
        BY <1>1
      <3>2. \A i \in 1 .. n : SubSeq(more, 1, n)[i] = seqs[i]
        BY <1>1
      <3>3. QED
        BY <3>1, <3>2, SeqEqual
    <2>2. QED
      BY <1>1, <2>1, SubSeqFull
  <1>3. FlattenSeq(seqs) \in Seq(S)
    <2>1. n \in 0 .. n /\ SubSeq(seqs, 1, n) = seqs
      BY <1>1, SubSeqFull
    <2>2. \A k \in 0 .. Len(seqs) : FlattenSeq(SubSeq(seqs, 1, k)) \in Seq(S)
      BY FlattenPrefix
    <2>3. QED
      BY <2>1, <2>2
  <1> HIDE DEF n, more
  <1>4. FlattenSeq(SubSeq(more, 1, n + 1)) = FlattenSeq(SubSeq(more, 1, (n + 1) - 1)) \o more[n + 1]
    <2>1. n + 1 \in 1 .. Len(more)
      BY <1>1
    <2>2. \A k \in 1 .. Len(more) :
            FlattenSeq(SubSeq(more, 1, k)) = FlattenSeq(SubSeq(more, 1, k - 1)) \o more[k]
      BY <1>1, FlattenPrefix
    <2>3. QED
      BY <2>1, <2>2
  <1>5. (n + 1) - 1 = n
    BY <1>1
  <1>6. QED
    BY <1>1, <1>2, <1>3, <1>4, <1>5 DEF more

\* What lies end to end is a sequence of the same elements.
THEOREM FlattenIsSeq ==
  ASSUME NEW S, NEW seqs \in Seq(Seq(S))
  PROVE  FlattenSeq(seqs) \in Seq(S)
  <1>1. << >> \in Seq(S)
    OBVIOUS
  <1>2. QED
    BY <1>1, FlattenAppend

\* Two lots of sequences, one behind the other.
THEOREM FlattenConcat ==
  ASSUME NEW S, NEW s \in Seq(Seq(S)), NEW t \in Seq(Seq(S))
  PROVE  FlattenSeq(s \o t) = FlattenSeq(s) \o FlattenSeq(t)
  <1> DEFINE n == Len(t)
             upto(k) == SubSeq(t, 1, k)
             I == {k \in Nat : k <= n => FlattenSeq(s \o upto(k)) = FlattenSeq(s) \o FlattenSeq(upto(k))}
  <1>1. n \in Nat /\ upto(n) = t /\ upto(0) = << >>
    BY SubSeqFull
  <1>2. \A k \in 0 .. n : upto(k) \in Seq(Seq(S)) /\ s \o upto(k) \in Seq(Seq(S))
    BY <1>1, ConcatProperties
  <1>3. 0 \in I
    <2>1. FlattenSeq(<< >>) = << >>
      BY DEF FlattenSeq
    <2>2. s \o << >> = s /\ FlattenSeq(s) \in Seq(S)
      BY FlattenAppend, ConcatEmptySeq
    <2>3. FlattenSeq(s) \o << >> = FlattenSeq(s)
      BY <2>2, ConcatEmptySeq
    <2>4. QED
      BY <1>1, <2>1, <2>2, <2>3
  <1>4. ASSUME NEW k \in I
        PROVE  k + 1 \in I
    <2>1. k \in Nat /\ k + 1 \in Nat
      OBVIOUS
    <2>2. ASSUME k + 1 <= n
          PROVE  FlattenSeq(s \o upto(k + 1)) = FlattenSeq(s) \o FlattenSeq(upto(k + 1))
      <3>1. k \in 0 .. n /\ k + 1 \in 1 .. n /\ t[k + 1] \in Seq(S)
        BY <1>1, <2>1, <2>2
      <3>2. FlattenSeq(s \o upto(k)) = FlattenSeq(s) \o FlattenSeq(upto(k))
        BY <2>1, <2>2
      <3> HIDE DEF I
      <3>3. upto(k) \in Seq(Seq(S)) /\ s \o upto(k) \in Seq(Seq(S))
        BY <1>2, <3>1
      <3>4. upto(k + 1) = Append(upto(k), t[k + 1])
        BY <1>1, <3>1
      <3> HIDE DEF upto, n
      <3>5. s \o Append(upto(k), t[k + 1]) = Append(s \o upto(k), t[k + 1])
        BY <3>1, <3>3, SMTT(30)
      <3>6. FlattenSeq(Append(s \o upto(k), t[k + 1])) = FlattenSeq(s \o upto(k)) \o t[k + 1]
        BY <3>1, <3>3, FlattenAppend
      <3>7. FlattenSeq(Append(upto(k), t[k + 1])) = FlattenSeq(upto(k)) \o t[k + 1]
        BY <3>1, <3>3, FlattenAppend
      <3>8. FlattenSeq(s) \in Seq(S) /\ FlattenSeq(upto(k)) \in Seq(S)
        BY <3>3, FlattenAppend
      <3>9. (FlattenSeq(s) \o FlattenSeq(upto(k))) \o t[k + 1]
              = FlattenSeq(s) \o (FlattenSeq(upto(k)) \o t[k + 1])
        <4> DEFINE a == FlattenSeq(s)
                   b == FlattenSeq(upto(k))
                   c == t[k + 1]
        <4>1. a \in Seq(S) /\ b \in Seq(S) /\ c \in Seq(S)
          BY <3>1, <3>8
        <4> HIDE DEF a, b, c
        <4>2. (a \o b) \o c = a \o (b \o c)
          BY <4>1, SMTT(30)
        <4>3. QED
          BY <4>2 DEF a, b, c
      <3>10. QED
        BY <3>2, <3>4, <3>5, <3>6, <3>7, <3>9
    <2>3. QED
      BY <2>1, <2>2
  <1>5. I = Nat
    <2>1. I \in SUBSET Nat
      OBVIOUS
    <2> HIDE DEF I
    <2>2. QED
      BY <1>3, <1>4, <2>1, SetInduction
  <1>6. n \in I
    BY <1>1, <1>5
  <1>7. FlattenSeq(s \o upto(n)) = FlattenSeq(s) \o FlattenSeq(upto(n))
    BY <1>1, <1>6
  <1> HIDE DEF upto, n
  <1>8. QED
    BY <1>1, <1>7

\* The first sequence comes first.
THEOREM FlattenHead ==
  ASSUME NEW S, NEW seqs \in Seq(Seq(S)), seqs # << >>
  PROVE  FlattenSeq(seqs) = Head(seqs) \o FlattenSeq(Tail(seqs))
  <1> DEFINE first == <<Head(seqs)>>
  <1>1. Head(seqs) \in Seq(S) /\ Tail(seqs) \in Seq(Seq(S)) /\ seqs = first \o Tail(seqs)
    BY HeadTailProperties
  <1>2. first \in Seq(Seq(S)) /\ first = Append(<< >>, Head(seqs)) /\ << >> \in Seq(Seq(S))
    BY <1>1
  <1>3. FlattenSeq(<< >>) = << >>
    BY DEF FlattenSeq
  <1> HIDE DEF first
  <1>4. FlattenSeq(first) = << >> \o Head(seqs)
    BY <1>1, <1>2, <1>3, FlattenAppend
  <1>5. FlattenSeq(first) = Head(seqs)
    BY <1>1, <1>4, ConcatEmptySeq
  <1>6. FlattenSeq(first \o Tail(seqs)) = FlattenSeq(first) \o FlattenSeq(Tail(seqs))
    BY <1>1, <1>2, FlattenConcat
  <1>7. QED
    BY <1>1, <1>5, <1>6

\* A function on 1 .. n is a sequence of length n.
LEMMA FunctionIsSequence ==
  ASSUME NEW S, NEW n \in Nat, NEW f \in [1 .. n -> S]
  PROVE  f \in Seq(S) /\ Len(f) = n
  <1>1. f \in Seq(S)
    BY SeqDef
  <1>2. Len(f) \in Nat /\ DOMAIN f = 1 .. Len(f) /\ DOMAIN f = 1 .. n
    BY <1>1, LenProperties
  <1>3. QED
    BY <1>1, <1>2

\* A function on 1 .. Len(p) + 1 that has the elements of p and then e is p with e appended.
LEMMA AppendByPlaces ==
  ASSUME NEW S, NEW p \in Seq(S), NEW e \in S, NEW m \in Nat, Len(p) = m,
         NEW q, DOMAIN q = 1 .. m + 1, q = [k \in DOMAIN q |-> q[k]],
         \A k \in 1 .. m : q[k] = p[k], q[m + 1] = e
  PROVE  q = Append(p, e)
  <1>1. \A k \in 1 .. m + 1 : k \in 1 .. m \/ k = m + 1
    BY ONLY m \in Nat
  <1>2. \A k \in 1 .. m : p[k] \in S
    BY ONLY p \in Seq(S), Len(p) = m
  <1>3. \A k \in 1 .. m + 1 : q[k] \in S
    BY ONLY <1>1, <1>2, e \in S, \A k \in 1 .. m : q[k] = p[k], q[m + 1] = e
  <1>4. q \in [1 .. m + 1 -> S]
    BY ONLY <1>3, DOMAIN q = 1 .. m + 1, q = [k \in DOMAIN q |-> q[k]]
  <1>5. q \in Seq(S) /\ Len(q) = m + 1
    BY ONLY <1>4, m \in Nat, FunctionIsSequence
  <1>6. Append(p, e) \in Seq(S) /\ Len(Append(p, e)) = m + 1
    BY ONLY p \in Seq(S), e \in S, Len(p) = m
  <1>7. \A k \in 1 .. m : Append(p, e)[k] = p[k]
    BY ONLY p \in Seq(S), e \in S, Len(p) = m, m \in Nat
  <1>8. Append(p, e)[m + 1] = e
    BY ONLY p \in Seq(S), e \in S, Len(p) = m, m \in Nat
  <1>9. \A k \in 1 .. m + 1 : Append(p, e)[k] = q[k]
    BY ONLY <1>1, <1>7, <1>8, \A k \in 1 .. m : q[k] = p[k], q[m + 1] = e
  <1>10. QED
    BY ONLY <1>5, <1>6, <1>9, SeqEqual

\* Where the elements of two sequences are when one follows the other.
LEMMA ConcatAt ==
  ASSUME NEW S, NEW s \in Seq(S), NEW t \in Seq(S)
  PROVE  /\ s \o t \in Seq(S) /\ Len(s \o t) = Len(s) + Len(t)
         /\ \A i \in 1 .. Len(s) : (s \o t)[i] = s[i]
         /\ \A i \in 1 .. Len(t) : (s \o t)[Len(s) + i] = t[i]
  OBVIOUS

\* A sequence may be cut in two anywhere.
LEMMA SplitAt ==
  ASSUME NEW S, NEW seq \in Seq(S), NEW k \in 0 .. Len(seq)
  PROVE  seq = SubSeq(seq, 1, k) \o SubSeq(seq, k + 1, Len(seq))
  <1>1. /\ 1 \in 1 .. Len(seq) + 1 /\ k \in 1 - 1 .. Len(seq)
        /\ Len(seq) \in k .. Len(seq)
    OBVIOUS
  <1>2. SubSeq(seq, 1, k) \o SubSeq(seq, k + 1, Len(seq)) = SubSeq(seq, 1, Len(seq))
    BY <1>1, ConcatAdjacentSubSeq
  <1>3. QED
    BY <1>2, SubSeqFull

\* The whole begins with what the first k sequences make.
THEOREM FlattenBegins ==
  ASSUME NEW S, NEW seqs \in Seq(Seq(S)), NEW k \in 0 .. Len(seqs)
  PROVE  LET head == FlattenSeq(SubSeq(seqs, 1, k))
             whole == FlattenSeq(seqs)
         IN  /\ head \in Seq(S) /\ whole \in Seq(S)
             /\ Len(head) <= Len(whole)
             /\ \A i \in 1 .. Len(head) : whole[i] = head[i]
  <1> DEFINE s == SubSeq(seqs, 1, k)
             t == SubSeq(seqs, k + 1, Len(seqs))
             a == FlattenSeq(s)
             b == FlattenSeq(t)
  <1>1. s \in Seq(Seq(S)) /\ t \in Seq(Seq(S)) /\ seqs = s \o t
    <2>1. s \in Seq(Seq(S)) /\ t \in Seq(Seq(S)) /\ Len(s) = k /\ Len(t) = Len(seqs) - k
      OBVIOUS
    <2>2. QED
      BY <2>1, SplitAt
  <1> HIDE DEF s, t
  <1>2. a \in Seq(S) /\ b \in Seq(S)
    BY <1>1, FlattenAppend
  <1>3. FlattenSeq(seqs) = a \o b
    BY <1>1, FlattenConcat
  <1> HIDE DEF a, b
  <1>4. a \o b \in Seq(S) /\ Len(a) <= Len(a \o b) /\ \A i \in 1 .. Len(a) : (a \o b)[i] = a[i]
    BY <1>2
  <1>5. QED
    BY <1>2, <1>3, <1>4 DEF a, s

\* If all but one sequence are empty, that one is what lies end to end.
THEOREM FlattenSingle ==
  ASSUME NEW S, NEW seqs \in Seq(Seq(S)), NEW j \in Nat,
         \A k \in 1 .. Len(seqs) : k # j => seqs[k] = << >>
  PROVE  FlattenSeq(seqs) = IF j \in 1 .. Len(seqs) THEN seqs[j] ELSE << >>
  <1> DEFINE n == Len(seqs)
             upto(k) == FlattenSeq(SubSeq(seqs, 1, k))
             I == {k \in Nat : k <= n => upto(k) = IF j \in 1 .. k THEN seqs[j] ELSE << >>}
  <1>1. /\ n \in Nat /\ upto(0) = << >> /\ FlattenSeq(seqs) = upto(n)
        /\ \A k \in 0 .. n : upto(k) \in Seq(S)
        /\ \A k \in 1 .. n : upto(k) = upto(k - 1) \o seqs[k]
    <2>1. n \in Nat
      OBVIOUS
    <2>2. QED
      BY <2>1, FlattenPrefix, Zenon
  <1>2. \A k \in 1 .. n : seqs[k] \in Seq(S)
    OBVIOUS
  <1> HIDE DEF upto, n
  <1>3. 0 \in I
    BY <1>1
  <1>4. ASSUME NEW k \in I
        PROVE  k + 1 \in I
    <2> SUFFICES ASSUME k + 1 <= n
                 PROVE  upto(k + 1) = IF j \in 1 .. k + 1 THEN seqs[j] ELSE << >>
      OBVIOUS
    <2>1. k \in Nat /\ k + 1 \in 1 .. n /\ (k + 1) - 1 = k /\ k \in 0 .. n /\ k <= n
      BY <1>1
    <2>2. upto(k) = IF j \in 1 .. k THEN seqs[j] ELSE << >>
      BY <2>1
    <2>3. upto(k + 1) = upto(k) \o seqs[k + 1]
      BY <1>1, <2>1
    <2>4. upto(k) \in Seq(S) /\ seqs[k + 1] \in Seq(S)
      BY <1>1, <1>2, <2>1
    <2>5. CASE j = k + 1
      <3>1. upto(k) = << >> /\ j \in 1 .. k + 1
        BY <2>1, <2>2, <2>5
      <3>2. << >> \o seqs[k + 1] = seqs[k + 1]
        BY <2>4, ConcatEmptySeq
      <3>3. QED
        BY <2>3, <2>5, <3>1, <3>2
    <2>6. CASE j # k + 1
      <3>1. seqs[k + 1] = << >> /\ (j \in 1 .. k + 1) = (j \in 1 .. k)
        BY <2>1, <2>6 DEF n
      <3>2. upto(k) \o << >> = upto(k)
        BY <2>4, ConcatEmptySeq
      <3>3. QED
        BY <2>2, <2>3, <3>1, <3>2
    <2>7. QED
      BY <2>5, <2>6
  <1> HIDE DEF I
  <1>5. I = Nat
    <2>1. I \in SUBSET Nat
      BY DEF I
    <2>2. QED
      BY <1>3, <1>4, <2>1, SetInduction
  <1>6. upto(n) = IF j \in 1 .. n THEN seqs[j] ELSE << >>
    <2>1. n \in I
      BY <1>1, <1>5
    <2>2. QED
      BY <1>1, <2>1 DEF I
  <1>7. QED
    BY <1>1, <1>6 DEF n

\* Two sequences that are not empty make at least two elements.
THEOREM FlattenTwo ==
  ASSUME NEW S, NEW seqs \in Seq(Seq(S)), NEW i \in 1 .. Len(seqs), NEW j \in 1 .. Len(seqs), i < j,
         Len(seqs[i]) >= 1, Len(seqs[j]) >= 1
  PROVE  Len(FlattenSeq(seqs)) >= 2
  <1> DEFINE n == Len(seqs)
             upto(k) == FlattenSeq(SubSeq(seqs, 1, k))
             I == {k \in Nat : k <= n => (i <= k => Len(upto(k)) >= 1) /\ (j <= k => Len(upto(k)) >= 2)}
  <1>1. /\ n \in Nat /\ upto(0) = << >> /\ FlattenSeq(seqs) = upto(n)
        /\ \A k \in 0 .. n : upto(k) \in Seq(S)
        /\ \A k \in 1 .. n : upto(k) = upto(k - 1) \o seqs[k]
    <2>1. n \in Nat
      OBVIOUS
    <2>2. QED
      BY <2>1, FlattenPrefix, Zenon
  <1>2. \A k \in 1 .. n : seqs[k] \in Seq(S)
    OBVIOUS
  <1>3. i \in 1 .. n /\ j \in 1 .. n
    OBVIOUS
  <1> HIDE DEF upto, n
  <1>4. 0 \in I
    BY <1>3
  <1>5. ASSUME NEW k \in I
        PROVE  k + 1 \in I
    <2> SUFFICES ASSUME k + 1 <= n
                 PROVE  (i <= k + 1 => Len(upto(k + 1)) >= 1) /\ (j <= k + 1 => Len(upto(k + 1)) >= 2)
      OBVIOUS
    <2>1. k \in Nat /\ k + 1 \in 1 .. n /\ (k + 1) - 1 = k /\ k \in 0 .. n /\ k <= n
      BY <1>1
    <2>2. (i <= k => Len(upto(k)) >= 1) /\ (j <= k => Len(upto(k)) >= 2)
      BY <2>1
    <2>3. upto(k + 1) = upto(k) \o seqs[k + 1]
      BY <1>1, <2>1
    <2>4. upto(k) \in Seq(S) /\ seqs[k + 1] \in Seq(S)
      BY <1>1, <1>2, <2>1
    <2>5. /\ Len(upto(k + 1)) = Len(upto(k)) + Len(seqs[k + 1])
          /\ Len(upto(k)) \in Nat /\ Len(seqs[k + 1]) \in Nat
      <3>1. \A p, q \in Seq(S) : Len(p \o q) = Len(p) + Len(q) /\ Len(p) \in Nat /\ Len(q) \in Nat
        OBVIOUS
      <3>2. QED
        BY <2>3, <2>4, <3>1
    <2>6. /\ i = k + 1 => Len(seqs[k + 1]) >= 1
          /\ j = k + 1 => Len(seqs[k + 1]) >= 1
      OBVIOUS
    <2> DEFINE before == Len(upto(k))
               next == Len(seqs[k + 1])
               after == Len(upto(k + 1))
    <2>7. /\ after = before + next /\ before \in Nat /\ next \in Nat
          /\ i <= k => before >= 1
          /\ j <= k => before >= 2
          /\ i = k + 1 \/ j = k + 1 => next >= 1
      BY <2>2, <2>5, <2>6
    <2> HIDE DEF before, next, after
    <2>8. (i <= k + 1 => after >= 1) /\ (j <= k + 1 => after >= 2)
      BY <1>3, <2>1, <2>7
    <2>9. QED
      BY <2>8 DEF after
  <1> HIDE DEF I
  <1>6. I = Nat
    <2>1. I \in SUBSET Nat
      BY DEF I
    <2>2. QED
      BY <1>4, <1>5, <2>1, SetInduction
  <1>7. Len(upto(n)) >= 2
    <2>1. n \in I
      BY <1>1, <1>6
    <2>2. QED
      BY <1>1, <1>3, <2>1 DEF I
  <1>8. QED
    BY <1>1, <1>7
==============================================================================
