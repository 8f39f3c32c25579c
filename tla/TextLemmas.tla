------------------------------ MODULE TextLemmas ------------------------------
(***************************************************************************)
(* Induction over numbers and sequences, and FlattenSeq of the community   *)
(* modules by induction.                                                   *)
(*                                                                         *)
(* The theorems of induction of the library take the induction hypothesis  *)
(* as an operator, which no prover here can instantiate. Those below take  *)
(* it as a set, and follow from the ordering of Nat being well-founded.    *)
(***************************************************************************)
EXTENDS Integers, Sequences, SequencesExt, SequenceTheorems, WellFoundedInduction, TLAPS

-----------------------------------------------------------------------------
(* Induction.                                                              *)

\* Any numbers have a smallest one.
LEMMA Smallest ==
    ASSUME NEW S, S \subseteq Nat, S # {}
    PROVE  \E n \in S : \A m \in S : n <= m
<1>. DEFINE Less == OpToRel(<, Nat)
<1>1. ASSUME NEW x \in Nat, NEW y \in Nat, y < x
      PROVE  <<y, x>> \in Less
  <2>1. /\ <<y, x>> \in Nat \X Nat
        /\ <<y, x>>[1] < <<y, x>>[2]
    BY <1>1
  <2>. QED
    BY <2>1, Zenon DEF OpToRel
<1>2. IsWellFoundedOn(Less, Nat)
  BY NatLessThanWellFounded, Zenon
<1>. HIDE DEF Less
<1>3. PICK x \in S : \A y \in S : ~ (<<y, x>> \in Less)
  BY <1>2, WFMin
<1>4. ASSUME NEW y \in S PROVE x <= y
  <2>1. ~(y < x)
    BY <1>1, <1>3
  <2>. QED
    BY <2>1
<1>. QED
  BY <1>4

\* Induction over numbers.
LEMMA SetInduction ==
    ASSUME NEW S, 0 \in S, \A n \in Nat : n \in S => n + 1 \in S
    PROVE  Nat \subseteq S
<1>1. SUFFICES ASSUME NEW k \in Nat, k \notin S PROVE FALSE
  OBVIOUS
<1>2. PICK n \in Nat \ S : \A m \in Nat \ S : n <= m
  BY <1>1, Smallest
<1>3. n # 0 /\ n - 1 \in Nat
  BY <1>2
<1>4. n - 1 \in S
  BY <1>2, <1>3
<1>. QED
  BY <1>2, <1>3, <1>4

\* Induction over sequences.
LEMMA SeqInduction ==
    ASSUME NEW X, NEW S, <<>> \in S,
           \A t \in Seq(X), x \in X : t \in S => Append(t, x) \in S
    PROVE  Seq(X) \subseteq S
<1>. DEFINE N == {n \in Nat : \A t \in Seq(X) : Len(t) = n => t \in S}
<1>1. 0 \in N
  <2>1. \A t \in Seq(X) : Len(t) = 0 => t = <<>>
    BY EmptySeq
  <2>. QED
    BY <2>1
<1>2. ASSUME NEW n \in Nat, n \in N PROVE n + 1 \in N
  <2>1. ASSUME NEW t \in Seq(X), Len(t) = n + 1 PROVE t \in S
    <3>1. t # <<>>
      BY <2>1
    <3>2. PICK s \in Seq(X), x \in X : t = Append(s, x)
      BY <3>1, SequenceEmptyOrAppend
    <3>3. Len(s) = n
      BY <2>1, <3>2, AppendProperties
    <3>. QED
      BY <1>2, <3>2, <3>3
  <2>. QED
    BY <2>1
<1>3. Nat \subseteq N
  <2>. HIDE DEF N
  <2>. QED
    BY <1>1, <1>2, SetInduction
<1>. QED
  BY <1>3

-----------------------------------------------------------------------------
(* FlattenSeq of the community modules, by appending.                      *)

\* f flattens the first n members of s: its i-th value is the next in line.
NextOf(f, s, i) == IF i = 1 THEN s[i] ELSE f[i - 1] \o s[i]
Flattens(f, s, n) == f = [i \in 1 .. n |-> NextOf(f, s, i)]

\* Its values.
LEMMA FlattenStep ==
    ASSUME NEW f, NEW s, NEW n, Flattens(f, s, n), NEW i \in 1 .. n
    PROVE  f[i] = NextOf(f, s, i)
BY DEF Flattens

\* There is such a function.
LEMMA FlattenExists ==
    ASSUME NEW s, NEW n \in Nat
    PROVE  \E f : Flattens(f, s, n)
<1>. DEFINE N == {k \in Nat : \E f : Flattens(f, s, k)}
<1>1. 0 \in N
  <2>1. Flattens([i \in 1 .. 0 |-> <<>>], s, 0)
    BY DEF Flattens
  <2>. QED
    BY <2>1
<1>2. ASSUME NEW k \in Nat, k \in N PROVE k + 1 \in N
  <2>1. PICK f : Flattens(f, s, k)
    BY <1>2
  <2>. DEFINE g == [i \in 1 .. k + 1 |-> IF i <= k THEN f[i]
                      ELSE IF k = 0 THEN s[i] ELSE f[k] \o s[i]]
  <2>3. ASSUME NEW i \in 1 .. k + 1
        PROVE  g[i] = IF i = 1 THEN s[i] ELSE g[i - 1] \o s[i]
    <3>1. CASE i <= k
      <4>1. i \in 1 .. k /\ (i # 1 => i - 1 \in 1 .. k /\ i - 1 \in 1 .. k + 1)
        BY <3>1
      <4>2. f[i] = IF i = 1 THEN s[i] ELSE f[i - 1] \o s[i]
        BY <2>1, <4>1, FlattenStep DEF NextOf
      <4>3. g[i] = f[i] /\ (i # 1 => g[i - 1] = f[i - 1])
        BY <4>1
      <4>. QED
        BY <4>2, <4>3
    <3>2. CASE i = k + 1 /\ k # 0
      <4>1. k \in 1 .. k + 1 /\ k <= k /\ ~(i <= k) /\ i # 1 /\ i - 1 = k
        BY <3>2
      <4>2. g[i] = f[k] \o s[i]
        BY <3>2, <4>1, Zenon
      <4>3. g[k] = f[k]
        BY <4>1, Zenon
      <4>. QED
        BY <4>1, <4>2, <4>3
    <3>3. CASE i = k + 1 /\ k = 0
      BY <3>3
    <3>. QED
      BY <3>1, <3>2, <3>3
  <2>4. Flattens(g, s, k + 1)
    BY <2>3 DEF Flattens, NextOf
  <2>. QED
    BY <2>4
<1>. HIDE DEF N
<1>3. Nat \subseteq N
  BY <1>1, <1>2, SetInduction
<1>. QED
  BY <1>3 DEF N

\* It is the same for as long as the members are.
LEMMA FlattenUnique ==
    ASSUME NEW s, NEW t, NEW n \in Nat, NEW m \in Nat, n <= m,
           \A i \in 1 .. n : s[i] = t[i],
           NEW f, Flattens(f, s, n), NEW g, Flattens(g, t, m)
    PROVE  \A i \in 1 .. n : f[i] = g[i]
<1>. DEFINE N == {k \in Nat : k \in 1 .. n => f[k] = g[k]}
<1>1. 0 \in N
  OBVIOUS
<1>2. ASSUME NEW k \in Nat, k \in N PROVE k + 1 \in N
  <2>1. SUFFICES ASSUME k + 1 \in 1 .. n PROVE f[k + 1] = g[k + 1]
    OBVIOUS
  <2>2. /\ f[k + 1] = IF k + 1 = 1 THEN s[k + 1] ELSE f[k + 1 - 1] \o s[k + 1]
        /\ g[k + 1] = IF k + 1 = 1 THEN t[k + 1] ELSE g[k + 1 - 1] \o t[k + 1]
    <3>1. k + 1 \in 1 .. m
      BY <2>1
    <3>. QED
      BY <2>1, <3>1, FlattenStep DEF NextOf
  <2>3. k + 1 - 1 = k /\ s[k + 1] = t[k + 1]
    BY <2>1
  <2>4. k + 1 # 1 => f[k] = g[k]
    BY <1>2, <2>1
  <2>. QED
    BY <2>2, <2>3, <2>4
<1>. HIDE DEF N
<1>3. Nat \subseteq N
  BY <1>1, <1>2, SetInduction
<1>. QED
  BY <1>3 DEF N

\* FlattenSeq is its last value.
LEMMA FlattenLast ==
    ASSUME NEW X, NEW s \in Seq(X), s # <<>>
    PROVE  \E f : Flattens(f, s, Len(s)) /\ FlattenSeq(s) = f[Len(s)]
<1>1. Len(s) \in Nat /\ Len(s) # 0
  BY EmptySeq
<1>. DEFINE f == CHOOSE h : Flattens(h, s, Len(s))
<1>2. Flattens(f, s, Len(s))
  BY <1>1, FlattenExists
<1>3. FlattenSeq(s) = f[Len(s)]
  BY <1>1 DEF FlattenSeq, Flattens, NextOf
<1>. QED
  BY <1>2, <1>3

\* Appending to a sequence of sequences appends to what it flattens to.
LEMMA FlattenAppend ==
    ASSUME NEW X, NEW s \in Seq(X), NEW x \in X
    PROVE  FlattenSeq(Append(s, x)) = IF s = <<>> THEN x ELSE FlattenSeq(s) \o x
<1>. DEFINE t == Append(s, x)
            n == Len(s)
<1>1. /\ t \in Seq(X) /\ t # <<>> /\ Len(t) = n + 1
      /\ \A i \in 1 .. n : t[i] = s[i]
      /\ t[n + 1] = x /\ n \in Nat
  BY AppendProperties, LenProperties
<1>. HIDE DEF t, n
<1>2. PICK g : Flattens(g, t, n + 1) /\ FlattenSeq(t) = g[n + 1]
  BY <1>1, FlattenLast
<1>3. CASE s = <<>>
  <2>1. n = 0
    BY <1>3 DEF n
  <2>2. g[1] = t[1]
    BY <1>2, <2>1, FlattenStep DEF NextOf
  <2>. QED
    BY <1>1, <1>2, <1>3, <2>1, <2>2 DEF t
<1>4. CASE s # <<>>
  <2>1. PICK f : Flattens(f, s, n) /\ FlattenSeq(s) = f[n]
    BY <1>4, FlattenLast DEF n
  <2>2. n # 0 /\ n \in 1 .. n /\ n + 1 \in 1 .. n + 1 /\ n + 1 # 1 /\ n + 1 - 1 = n
    BY <1>1, <1>4, EmptySeq DEF n
  <2>3. f[n] = g[n]
    BY <1>1, <1>2, <2>1, <2>2, FlattenUnique
  <2>4. PICK k : k = n + 1
    OBVIOUS
  <2>5. g[n + 1] = g[n] \o x
    <3>1. Flattens(g, t, k) /\ k \in 1 .. k /\ k # 1
      BY <1>1, <1>2, <2>2, <2>4
    <3>2. g[k] = NextOf(g, t, k)
      BY <3>1, FlattenStep
    <3>3. k - 1 = n /\ t[k] = x
      BY <1>1, <2>4
    <3>. QED
      BY <2>4, <3>1, <3>2, <3>3, Zenon DEF NextOf
  <2>6. FlattenSeq(t) = FlattenSeq(s) \o x
    BY <1>2, <2>1, <2>3, <2>5
  <2>. QED
    BY <1>4, <2>6 DEF t
<1>. QED
  BY <1>3, <1>4

\* It is a sequence of what they are sequences of.
LEMMA FlattenIsSeq ==
    ASSUME NEW X, NEW s \in Seq(Seq(X))
    PROVE  FlattenSeq(s) \in Seq(X)
<1>. DEFINE S == {u \in Seq(Seq(X)) : FlattenSeq(u) \in Seq(X)}
<1>1. <<>> \in S
  <2>1. Len(<<>>) = 0 /\ <<>> \in Seq(X) /\ <<>> \in Seq(Seq(X))
    BY EmptySeq
  <2>2. FlattenSeq(<<>>) = <<>>
    BY <2>1 DEF FlattenSeq
  <2>. QED
    BY <2>1, <2>2
<1>2. ASSUME NEW u \in Seq(Seq(X)), NEW x \in Seq(X), u \in S
      PROVE  Append(u, x) \in S
  <2>1. FlattenSeq(Append(u, x)) = IF u = <<>> THEN x ELSE FlattenSeq(u) \o x
    BY FlattenAppend
  <2>2. FlattenSeq(u) \o x \in Seq(X)
    BY <1>2, ConcatProperties
  <2>3. Append(u, x) \in Seq(Seq(X))
    BY AppendProperties
  <2>. QED
    BY <2>1, <2>2, <2>3
<1>. HIDE DEF S
<1>3. Seq(Seq(X)) \subseteq S
  BY <1>1, <1>2, SeqInduction
<1>. QED
  BY <1>3 DEF S

=============================================================================
