---------------------------- MODULE DetectionProofs ----------------------------
(***************************************************************************)
(* Theorems about Detection, for all texts.                                *)
(*                                                                         *)
(* Spans have a strict total order, Before, and Resolved, which recurs     *)
(* over sets of spans, returns the one set Settled describes: a span is in *)
(* it exactly if it overlaps none of those in it that come before. What    *)
(* the resolution does to the spans of the detectors is proved from this,  *)
(* and not from the recursion.                                             *)
(***************************************************************************)
EXTENDS Detection, TextLemmas, FiniteSetTheorems

-----------------------------------------------------------------------------
(* The order of spans.                                                     *)

\* The types, one by one.
LEMMA TypesAre ==
    /\ DOMAIN DetectorOrder = 1 .. 19
    /\ Types = {"LOCATION", "PERSON", "BIRTH_DATE", "BIRTH_PLACE", "PASSPORT",
                "CITIZENSHIP", "ISSUING_AUTHORITY", "DIVISION_CODE",
                "ISSUE_DATE", "DRIVING_LICENSE", "ADDRESS", "EMAIL", "PHONE",
                "INN", "CARD", "CVV", "PIN", "CARD_HOLDER", "TAIL"}
<1>1. DOMAIN DetectorOrder = 1 .. 19
  BY DEF DetectorOrder
<1>. QED
  BY <1>1 DEF Types, Range, DetectorOrder

\* Every type has a priority and a rank of its own.
LEMMA Ranked ==
    ASSUME NEW s \in Spans
    PROVE  /\ Priority(s) \in Nat
           /\ Rank(s) \in 1 .. 19 /\ DetectorOrder[Rank(s)] = s.type
<1>1. s.type \in Types
  BY DEF Spans
<1>2. Priority(s) \in Nat
  BY <1>1, TypesAre DEF Priority
<1>3. \E n \in DOMAIN DetectorOrder : DetectorOrder[n] = s.type
  BY <1>1 DEF Types, Range
<1>. QED
  BY <1>2, <1>3, TypesAre DEF Rank

\* A span that begins within its first word begins behind one that does not.
LEMMA OffsetsAre ==
    ASSUME NEW s \in Spans, NEW t \in Spans
    PROVE  /\ Offset(s) \in Nat
           /\ Offset(s) < Offset(t) => s.start <= t.start
           /\ s.start < t.start => Offset(s) < Offset(t)
           /\ s.start = t.start =>
                 /\ Offset(s) = Offset(t) <=> (s.type = "TAIL" <=> t.type = "TAIL")
                 /\ Offset(s) < Offset(t) <=> s.type # "TAIL" /\ t.type = "TAIL"
<1>1. s.start \in Nat /\ t.start \in Nat
  BY DEF Spans
<1>2. /\ s.type = "TAIL" => Offset(s) = 2 * s.start + 1
      /\ s.type # "TAIL" => Offset(s) = 2 * s.start
  BY <1>1 DEF Offset
<1>3. /\ t.type = "TAIL" => Offset(t) = 2 * t.start + 1
      /\ t.type # "TAIL" => Offset(t) = 2 * t.start
  BY <1>1 DEF Offset
<1>. QED
  BY <1>1, <1>2, <1>3

\* Before, one component of the key after the other.
LEMMA BeforeCompares ==
    ASSUME NEW s \in Spans, NEW t \in Spans
    PROVE  Before(s, t) <=>
              \/ Priority(s) > Priority(t)
              \/ /\ Priority(s) = Priority(t)
                 /\ \/ Offset(s) < Offset(t)
                    \/ /\ Offset(s) = Offset(t)
                       /\ \/ s.end > t.end
                          \/ s.end = t.end /\ Rank(s) < Rank(t)
<1>1. /\ Priority(s) \in Nat /\ Priority(t) \in Nat
      /\ Rank(s) \in Nat /\ Rank(t) \in Nat
  BY Ranked
<1>2. /\ Offset(s) \in Nat /\ Offset(t) \in Nat /\ s.end \in Nat /\ t.end \in Nat
  BY OffsetsAre DEF Spans
<1>3. PICK a, b, c, d : /\ a = 100 - Priority(s) /\ b = Offset(s)
                        /\ c = 100 - s.end /\ d = Rank(s)
  OBVIOUS
<1>4. PICK p, q, r, u : /\ p = 100 - Priority(t) /\ q = Offset(t)
                        /\ r = 100 - t.end /\ u = Rank(t)
  OBVIOUS
<1>5. Key(s) = <<a, b, c, d>> /\ Key(t) = <<p, q, r, u>>
  BY <1>3, <1>4 DEF Key
<1>6. Before(s, t) <=>
         \/ a < p
         \/ a = p /\ b < q
         \/ a = p /\ b = q /\ c < r
         \/ a = p /\ b = q /\ c = r /\ d < u
  <2>. DEFINE B(n) == /\ \A k \in 1 .. n - 1 : Key(s)[k] = Key(t)[k]
                      /\ Key(s)[n] < Key(t)[n]
  <2>1. Before(s, t) <=> B(1) \/ B(2) \/ B(3) \/ B(4)
    <3>1. 1 .. 4 = {1, 2, 3, 4}
      OBVIOUS
    <3>. QED
      BY <3>1 DEF Before
  <2>2. /\ 1 .. 1 - 1 = {} /\ 1 .. 2 - 1 = {1} /\ 1 .. 3 - 1 = {1, 2}
        /\ 1 .. 4 - 1 = {1, 2, 3}
    OBVIOUS
  <2>3. /\ Key(s)[1] = a /\ Key(s)[2] = b /\ Key(s)[3] = c /\ Key(s)[4] = d
        /\ Key(t)[1] = p /\ Key(t)[2] = q /\ Key(t)[3] = r /\ Key(t)[4] = u
    BY <1>5
  <2>4. B(1) <=> a < p
    BY <2>2, <2>3
  <2>5. B(2) <=> a = p /\ b < q
    BY <2>2, <2>3
  <2>6. B(3) <=> a = p /\ b = q /\ c < r
    BY <2>2, <2>3
  <2>7. B(4) <=> a = p /\ b = q /\ c = r /\ d < u
    BY <2>2, <2>3
  <2>. QED
    BY <2>1, <2>4, <2>5, <2>6, <2>7
<1>. QED
  BY <1>1, <1>2, <1>3, <1>4, <1>6

\* It is a strict total order.
LEMMA BeforeIsOrder ==
    ASSUME NEW s \in Spans, NEW t \in Spans
    PROVE  /\ ~Before(s, s)
           /\ ~(Before(s, t) /\ Before(t, s))
           /\ s # t => Before(s, t) \/ Before(t, s)
<1>1. /\ Priority(s) \in Nat /\ Priority(t) \in Nat
      /\ Rank(s) \in Nat /\ Rank(t) \in Nat
      /\ Rank(s) = Rank(t) => s.type = t.type
  BY Ranked
<1>2. /\ s.start \in Nat /\ t.start \in Nat /\ s.end \in Nat /\ t.end \in Nat
      /\ s.start = t.start /\ s.end = t.end /\ s.type = t.type => s = t
  BY DEF Spans
<1>3. /\ Offset(s) \in Nat /\ Offset(t) \in Nat
      /\ Offset(s) = Offset(t) /\ s.type = t.type => s.start = t.start
  BY <1>2, OffsetsAre
<1>. QED
  BY <1>1, <1>2, <1>3, BeforeCompares

\* ... also over three spans.
LEMMA BeforeIsTransitive ==
    ASSUME NEW s \in Spans, NEW t \in Spans, NEW u \in Spans,
           Before(s, t), Before(t, u)
    PROVE  Before(s, u)
<1>1. /\ Priority(s) \in Nat /\ Priority(t) \in Nat /\ Priority(u) \in Nat
      /\ Rank(s) \in Nat /\ Rank(t) \in Nat /\ Rank(u) \in Nat
  BY Ranked
<1>2. /\ Offset(s) \in Nat /\ Offset(t) \in Nat /\ Offset(u) \in Nat
      /\ s.end \in Nat /\ t.end \in Nat /\ u.end \in Nat
  BY OffsetsAre DEF Spans
<1>. QED
  BY <1>1, <1>2, BeforeCompares

\* What can be said of it by the first words of the spans.
LEMMA BeforeMeans ==
    ASSUME NEW s \in Spans, NEW t \in Spans
    PROVE  /\ Before(s, t) =>
                 \/ Priority(s) > Priority(t)
                 \/ /\ Priority(s) = Priority(t) /\ s.start <= t.start
                    /\ s.start = t.start =>
                          \/ s.type # "TAIL" /\ t.type = "TAIL"
                          \/ s.end >= t.end /\ (s.type = "TAIL" => t.type = "TAIL")
           /\ Priority(s) > Priority(t) => Before(s, t)
           /\ Priority(s) = Priority(t) /\ s.start < t.start => Before(s, t)
           /\ /\ Priority(s) = Priority(t) /\ s.start = t.start /\ s.end > t.end
              /\ s.type = "TAIL" => t.type = "TAIL"
              => Before(s, t)
<1>1. Priority(s) \in Nat /\ Priority(t) \in Nat
  BY Ranked
<1>2. /\ s.start \in Nat /\ t.start \in Nat /\ s.end \in Nat /\ t.end \in Nat
      /\ Offset(s) \in Nat /\ Offset(t) \in Nat
  BY OffsetsAre DEF Spans
<1>3. /\ Offset(s) < Offset(t) => s.start <= t.start
      /\ s.start < t.start => Offset(s) < Offset(t)
      /\ t.start < s.start => Offset(t) < Offset(s)
      /\ s.start = t.start =>
            /\ Offset(s) = Offset(t) <=> (s.type = "TAIL" <=> t.type = "TAIL")
            /\ Offset(s) < Offset(t) <=> s.type # "TAIL" /\ t.type = "TAIL"
  BY OffsetsAre
<1>. QED
  BY <1>1, <1>2, <1>3, BeforeCompares

\* Spans, if there are any and no infinity of them, have a first one.
LEMMA FirstExists ==
    ASSUME NEW R \in SUBSET Spans, IsFiniteSet(R), R # {}
    PROVE  \E r \in R : \A t \in R \ {r} : Before(r, t)
<1>. DEFINE N == {n \in Nat : \A T \in SUBSET Spans :
                    IsFiniteSet(T) /\ T # {} /\ Cardinality(T) = n =>
                        \E r \in T : \A t \in T \ {r} : Before(r, t)}
<1>1. 0 \in N
  BY FS_EmptySet
<1>2. ASSUME NEW n \in Nat, n \in N PROVE n + 1 \in N
  <2>1. SUFFICES ASSUME NEW T \in SUBSET Spans, IsFiniteSet(T), T # {},
                        Cardinality(T) = n + 1
                 PROVE  \E r \in T : \A t \in T \ {r} : Before(r, t)
    OBVIOUS
  <2>2. PICK x \in T : TRUE
    BY <2>1
  <2>3. CASE T = {x}
    BY <2>3
  <2>4. CASE T # {x}
    <3>1. /\ IsFiniteSet(T \ {x}) /\ Cardinality(T \ {x}) = n
          /\ T \ {x} \in SUBSET Spans /\ T \ {x} # {}
      <4>1. T \ {x} \in SUBSET Spans /\ T \ {x} # {}
        BY <2>1, <2>2, <2>4
      <4>2. /\ IsFiniteSet(T \ {x})
            /\ Cardinality(T \ {x}) = Cardinality(T) - 1
        BY <2>1, <2>2, FS_RemoveElement
      <4>. QED
        BY <2>1, <4>1, <4>2
    <3>2. PICK r \in T \ {x} : \A t \in (T \ {x}) \ {r} : Before(r, t)
      BY <1>2, <3>1
    <3>3. CASE Before(r, x)
      BY <3>2, <3>3
    <3>4. CASE Before(x, r)
      <4>1. \A t \in T \ {x} : Before(x, t)
        BY <2>1, <2>2, <3>2, <3>4, BeforeIsTransitive
      <4>. QED
        BY <2>2, <4>1
    <3>. QED
      BY <2>1, <2>2, <3>2, <3>3, <3>4, BeforeIsOrder
  <2>. QED
    BY <2>3, <2>4
<1>. HIDE DEF N
<1>3. Nat \subseteq N
  BY <1>1, <1>2, SetInduction
<1>4. Cardinality(R) \in Nat
  BY FS_CardinalityType
<1>. QED
  BY <1>3, <1>4 DEF N

-----------------------------------------------------------------------------
(* The resolution of overlaps.                                             *)

\* The span that is accepted first, and those that do not overlap it.
First(R) == CHOOSE r \in R : \A t \in R \ {r} : Before(r, t)
Rest(R) == {t \in R \ {First(R)} : ~Overlap(First(R), t)}

\* One step of the recursion, and a function that does it on all sets.
Accept(f, R) == IF R = {} THEN {} ELSE {First(R)} \cup f[Rest(R)]
Resolves(f, S) == f = [R \in SUBSET S |-> Accept(f, R)]

\* In A are those of the spans in R that overlap none of A that come before.
Settled(A, R) ==
    /\ A \subseteq R
    /\ \A s \in R : s \in A <=> \A t \in A : Before(t, s) => ~Overlap(t, s)

\* The first span, and the rest, which is smaller.
LEMMA FirstAndRest ==
    ASSUME NEW R \in SUBSET Spans, IsFiniteSet(R), R # {}
    PROVE  /\ First(R) \in R /\ \A t \in R \ {First(R)} : Before(First(R), t)
           /\ Rest(R) \in SUBSET R /\ IsFiniteSet(Rest(R))
           /\ Cardinality(Rest(R)) \in Nat /\ Cardinality(R) \in Nat
           /\ Cardinality(Rest(R)) < Cardinality(R)
<1>1. First(R) \in R /\ \A t \in R \ {First(R)} : Before(First(R), t)
  BY FirstExists DEF First
<1>2. Rest(R) \in SUBSET (R \ {First(R)})
  BY DEF Rest
<1>3. /\ IsFiniteSet(R \ {First(R)}) /\ Cardinality(R) \in Nat
      /\ Cardinality(R \ {First(R)}) = Cardinality(R) - 1
  BY <1>1, FS_RemoveElement, FS_CardinalityType
<1>4. /\ IsFiniteSet(Rest(R)) /\ Cardinality(Rest(R)) \in Nat
      /\ Cardinality(Rest(R)) <= Cardinality(R \ {First(R)})
  BY <1>2, <1>3, FS_Subset, FS_CardinalityType
<1>. QED
  BY <1>1, <1>2, <1>3, <1>4

\* The recursion defines a function.
LEMMA ResolvesExists ==
    ASSUME NEW S \in SUBSET Spans, IsFiniteSet(S)
    PROVE  \E f : Resolves(f, S)
<1>. DEFINE Correct(f, R) == f[R] = Accept(f, R)
            N == {n \in Nat : \E f : \A R \in SUBSET S :
                    Cardinality(R) <= n => Correct(f, R)}
<1>1. \A R \in SUBSET S : /\ R \in SUBSET Spans /\ IsFiniteSet(R)
                          /\ Cardinality(R) \in Nat
                          /\ Cardinality(R) <= Cardinality(S)
  BY FS_Subset, FS_CardinalityType
<1>2. 0 \in N
  <2>. DEFINE f == [R \in SUBSET S |-> {}]
  <2>1. ASSUME NEW R \in SUBSET S, Cardinality(R) <= 0 PROVE Correct(f, R)
    <3>1. R = {}
      BY <1>1, <2>1, FS_EmptySet
    <3>. QED
      BY <3>1 DEF Accept
  <2>. QED
    BY <2>1
<1>3. ASSUME NEW n \in Nat, n \in N PROVE n + 1 \in N
  <2>1. PICK f : \A R \in SUBSET S : Cardinality(R) <= n => Correct(f, R)
    BY <1>3
  <2>. DEFINE g == [R \in SUBSET S |-> Accept(f, R)]
  <2>2. ASSUME NEW R \in SUBSET S, Cardinality(R) <= n + 1 PROVE Correct(g, R)
    <3>1. CASE R = {}
      BY <3>1 DEF Accept
    <3>2. CASE R # {}
      <4>1. Rest(R) \in SUBSET S /\ Cardinality(Rest(R)) <= n
        BY <1>1, <2>2, <3>2, FirstAndRest
      <4>2. f[Rest(R)] = Accept(f, Rest(R))
        BY <2>1, <4>1
      <4>3. g[Rest(R)] = Accept(f, Rest(R)) /\ g[R] = Accept(f, R)
        BY <4>1
      <4>. QED
        BY <3>2, <4>2, <4>3 DEF Accept
    <3>. QED
      BY <3>1, <3>2
  <2>. HIDE DEF g
  <2>3. \E h : \A R \in SUBSET S : Cardinality(R) <= n + 1 => Correct(h, R)
    BY <2>2
  <2>. QED
    BY <2>3
<1>. HIDE DEF N
<1>4. Nat \subseteq N
  BY <1>2, <1>3, SetInduction
<1>5. Cardinality(S) \in N
  BY <1>4, FS_CardinalityType
<1>6. PICK f : \A R \in SUBSET S : f[R] = Accept(f, R)
  BY <1>1, <1>5 DEF N
<1>. DEFINE g == [R \in SUBSET S |-> f[R]]
<1>7. ASSUME NEW R \in SUBSET S PROVE f[R] = Accept(g, R)
  <2>1. CASE R = {}
    BY <1>6, <2>1 DEF Accept
  <2>2. CASE R # {}
    <3>1. Rest(R) \in SUBSET S
      BY <1>1, <2>2, FirstAndRest
    <3>2. g[Rest(R)] = f[Rest(R)]
      BY <3>1
    <3>. QED
      BY <1>6, <2>2, <3>2 DEF Accept
  <2>. QED
    BY <2>1, <2>2
<1>8. Resolves(g, S)
  BY <1>7 DEF Resolves
<1>. QED
  BY <1>8

\* What it accepts of any of its sets is settled.
LEMMA ResolvesSettles ==
    ASSUME NEW S \in SUBSET Spans, IsFiniteSet(S), NEW f, Resolves(f, S)
    PROVE  Settled(f[S], S)
<1>. DEFINE N == {n \in Nat : \A R \in SUBSET S :
                    Cardinality(R) <= n => Settled(f[R], R)}
<1>1. \A R \in SUBSET S : /\ R \in SUBSET Spans /\ IsFiniteSet(R)
                          /\ Cardinality(R) \in Nat
  BY FS_Subset, FS_CardinalityType
<1>2. \A R \in SUBSET S : f[R] = Accept(f, R)
  BY DEF Resolves
<1>3. 0 \in N
  <2>1. ASSUME NEW R \in SUBSET S, Cardinality(R) <= 0 PROVE Settled(f[R], R)
    <3>1. R = {}
      BY <1>1, <2>1, FS_EmptySet
    <3>. QED
      BY <1>2, <3>1 DEF Accept, Settled
  <2>. QED
    BY <2>1
<1>4. ASSUME NEW n \in Nat, n \in N PROVE n + 1 \in N
  <2>1. SUFFICES ASSUME NEW R \in SUBSET S, Cardinality(R) <= n + 1
                 PROVE  Settled(f[R], R)
    OBVIOUS
  <2>2. CASE R = {}
    BY <1>2, <2>2 DEF Accept, Settled
  <2>3. CASE R # {}
    <3>1. PICK a : a = First(R)
      OBVIOUS
    <3>2. PICK T : T = Rest(R)
      OBVIOUS
    <3>3. PICK B : B = f[T]
      OBVIOUS
    <3>4. /\ a \in R /\ \A t \in R \ {a} : Before(a, t)
          /\ T \in SUBSET R /\ Cardinality(T) <= n
      BY <1>1, <2>1, <2>3, <3>1, <3>2, FirstAndRest
    <3>5. f[R] = {a} \cup B /\ Settled(B, T)
      <4>1. f[R] = {a} \cup B
        BY <1>2, <2>3, <3>1, <3>2, <3>3 DEF Accept
      <4>2. Settled(B, T)
        BY <1>4, <3>3, <3>4
      <4>. QED
        BY <4>1, <4>2
    <3>6. \A t \in R : t \in T <=> t # a /\ ~Overlap(a, t)
      BY <3>1, <3>2 DEF Rest
    <3>7. \A t \in R : /\ ~Before(t, a) /\ (t # a => Before(a, t))
      BY <1>1, <3>4, BeforeIsOrder
    <3>8. B \subseteq T
      BY <3>5 DEF Settled
    <3>9. ASSUME NEW s \in R
          PROVE  s \in f[R] <=>
                    \A t \in f[R] : Before(t, s) => ~Overlap(t, s)
      <4>1. CASE s = a
        BY <3>4, <3>5, <3>7, <3>8, <4>1
      <4>2. CASE s # a /\ Overlap(a, s)
        BY <3>5, <3>6, <3>7, <3>8, <4>2
      <4>3. CASE s # a /\ ~Overlap(a, s)
        <5>1. s \in T
          BY <3>6, <4>3
        <5>2. s \in B <=> \A t \in B : Before(t, s) => ~Overlap(t, s)
          BY <3>5, <5>1 DEF Settled
        <5>. QED
          BY <3>5, <4>3, <5>2
      <4>. QED
        BY <4>1, <4>2, <4>3
    <3>10. f[R] \subseteq R
      BY <3>4, <3>5, <3>8
    <3>. QED
      BY <3>9, <3>10 DEF Settled
  <2>. QED
    BY <2>2, <2>3
<1>. HIDE DEF N
<1>5. Nat \subseteq N
  BY <1>3, <1>4, SetInduction
<1>. QED
  BY <1>5, FS_CardinalityType DEF N

\* resolve_spans accepts exactly those spans that overlap no accepted span that
\* comes before them.
THEOREM ResolvedSettles ==
    ASSUME NEW S \in SUBSET Spans, IsFiniteSet(S)
    PROVE  Settled(Resolved(S), S)
<1>. DEFINE f == CHOOSE h : Resolves(h, S)
<1>1. Resolves(f, S)
  BY ResolvesExists
<1>2. Resolved(S) = f[S]
  BY DEF Resolved, Resolves, Accept, First, Rest
<1>. HIDE DEF f
<1>. QED
  BY <1>1, <1>2, ResolvesSettles

-----------------------------------------------------------------------------
(* Where matches end.                                                      *)

\* Max of the community modules, for numbers with a bound.
LEMMA MaxIs ==
    ASSUME NEW S, S \subseteq Int, S # {}, NEW b \in Int, \A x \in S : x <= b
    PROVE  Max(S) \in S /\ \A x \in S : x <= Max(S)
<1>. DEFINE D == {b - x : x \in S}
<1>1. D \subseteq Nat /\ D # {}
  <2>1. \A x \in S : x \in Int /\ b - x \in Nat
    OBVIOUS
  <2>. QED
    BY <2>1
<1>2. PICK d \in D : \A e \in D : d <= e
  BY <1>1, Smallest
<1>3. PICK x \in S : d = b - x
  OBVIOUS
<1>4. \A y \in S : x >= y
  <2>1. ASSUME NEW y \in S PROVE x >= y
    <3>1. b - y \in D
      OBVIOUS
    <3>2. d <= b - y
      BY <1>2, <3>1
    <3>. QED
      BY <1>3, <3>2
  <2>. QED
    BY <2>1
<1>5. Max(S) \in S /\ \A y \in S : Max(S) >= y
  BY <1>4 DEF Max
<1>. QED
  BY <1>5

\* Min, for natural numbers.
LEMMA MinIs ==
    ASSUME NEW S, S \subseteq Nat, S # {}
    PROVE  Min(S) \in S /\ \A x \in S : Min(S) <= x
<1>1. PICK x \in S : \A y \in S : x <= y
  BY Smallest
<1>. QED
  BY <1>1 DEF Min

\* A run of value words ends where it began or at a value word, and as far as
\* value words go.
LEMMA RunEndReaches ==
    ASSUME NEW t \in Seq(Words), NEW i \in 1 .. Len(t) + 1,
           NEW n \in Nat \ {0}, NEW but
    PROVE  LET e == RunEnd(t, i, n, but)
           IN  /\ e \in i - 1 .. Len(t)
               /\ e >= i => /\ Joined(t, i, e)
                            /\ \A k \in i .. e : ValueWord(t[k])
                                                 /\ t[k].kind \notin but
               /\ i <= Len(t) /\ ValueWord(t[i]) /\ t[i].kind \notin but => e >= i
               /\ e <= i + n - 1
               /\ \A j \in i .. Len(t) :
                     /\ j <= i + n - 1 /\ Joined(t, i, j)
                     /\ \A k \in i .. j : ValueWord(t[k]) /\ t[k].kind \notin but
                     => j <= e
<1>. DEFINE m == Min({Len(t), i + n - 1})
            R == {j \in i .. m : /\ Joined(t, i, j)
                                 /\ \A k \in i .. j : ValueWord(t[k])
                                                      /\ t[k].kind \notin but}
            e == RunEnd(t, i, n, but)
<1>1. Len(t) \in Nat
  BY LenProperties
<1>2. /\ m \in Nat /\ m <= Len(t) /\ m \in {Len(t), i + n - 1}
      /\ m <= i + n - 1
  <2>1. {Len(t), i + n - 1} \subseteq Nat /\ {Len(t), i + n - 1} # {}
    BY <1>1
  <2>. QED
    BY <2>1, MinIs
<1>3. e = Max({i - 1} \cup R)
  BY DEF RunEnd
<1>. HIDE DEF m
<1>. DEFINE Q == {i - 1} \cup R
<1>4. Q \subseteq Int /\ Q # {} /\ \A x \in Q : x <= Len(t)
  BY <1>1, <1>2
<1>. HIDE DEF R, e, Q
<1>5. e \in {i - 1} \cup R /\ \A x \in {i - 1} \cup R : x <= e
  <2>1. Max(Q) \in Q /\ \A x \in Q : x <= Max(Q)
    <3>1. Len(t) \in Int
      BY <1>1
    <3>. QED
      BY <1>4, <3>1, MaxIs, Zenon
  <2>. QED
    BY <1>3, <2>1 DEF Q
<1>6. e \in i - 1 .. Len(t)
  <2>1. R \subseteq i .. Len(t)
    BY <1>1, <1>2 DEF R
  <2>. QED
    BY <1>1, <1>5, <2>1
<1>7. e >= i => e \in R
  BY <1>1, <1>5, <1>6
<1>8. ASSUME i <= Len(t), ValueWord(t[i]), t[i].kind \notin but PROVE e >= i
  <2>1. i \in R
    <3>1. Joined(t, i, i)
      <4>1. i .. i - 1 = {}
        OBVIOUS
      <4>. QED
        BY <4>1 DEF Joined
    <3>2. i \in i .. m /\ i .. i = {i}
      BY <1>1, <1>2, <1>8
    <3>. QED
      BY <1>8, <3>1, <3>2 DEF R
  <2>. QED
    BY <1>1, <1>5, <1>6, <2>1
<1>9. ASSUME NEW j \in i .. Len(t), j <= i + n - 1, Joined(t, i, j),
             \A k \in i .. j : ValueWord(t[k]) /\ t[k].kind \notin but
      PROVE  j <= e
  <2>1. j \in i .. m
    BY <1>1, <1>2, <1>9
  <2>. QED
    BY <1>5, <1>9, <2>1 DEF R
<1>10. e <= i + n - 1
  <2>1. R \subseteq i .. m
    BY DEF R
  <2>. QED
    BY <1>1, <1>2, <1>5, <2>1
<1>. QED
  BY <1>6, <1>7, <1>8, <1>9, <1>10 DEF R, e

\* In short.
LEMMA RunEndIs ==
    ASSUME NEW t \in Seq(Words), NEW i \in 1 .. Len(t) + 1,
           NEW n \in Nat \ {0}, NEW but
    PROVE  LET e == RunEnd(t, i, n, but)
           IN  /\ e \in i - 1 .. Len(t)
               /\ e >= i => /\ Joined(t, i, e)
                            /\ \A k \in i .. e : ValueWord(t[k])
                                                 /\ t[k].kind \notin but
               /\ i <= Len(t) /\ ValueWord(t[i]) /\ t[i].kind \notin but => e >= i
<1>1. PICK e : e = RunEnd(t, i, n, but)
  OBVIOUS
<1>2. /\ e \in i - 1 .. Len(t)
      /\ e >= i => /\ Joined(t, i, e)
                   /\ \A k \in i .. e : ValueWord(t[k])
                                        /\ t[k].kind \notin but
      /\ i <= Len(t) /\ ValueWord(t[i]) /\ t[i].kind \notin but => e >= i
  BY <1>1, RunEndReaches
<1>. QED
  BY <1>1, <1>2, Zenon

\* ... and shorter.
LEMMA RunEndIn ==
    ASSUME NEW t \in Seq(Words), NEW i \in 1 .. Len(t) + 1,
           NEW n \in Nat \ {0}, NEW but
    PROVE  RunEnd(t, i, n, but) \in i - 1 .. Len(t)
BY RunEndIs, Zenon

\* No group of digits is in it.
LEMMA RunWords ==
    ASSUME NEW t \in Seq(Words), NEW i \in 1 .. Len(t) + 1,
           NEW n \in Nat \ {0}, NEW but
    PROVE  \A k \in i .. RunEnd(t, i, n, but) : ~IsGroup(t, k)
<1>1. PICK e : e = RunEnd(t, i, n, but)
  OBVIOUS
<1>2. e \in i - 1 .. Len(t) /\ (e >= i => \A k \in i .. e : ValueWord(t[k]))
  BY <1>1, RunEndIs
<1>3. Len(t) \in Nat
  BY LenProperties
<1>4. \A k \in i .. e : ValueWord(t[k])
  BY <1>2, <1>3
<1>. QED
  BY <1>1, <1>4 DEF ValueWord, IsGroup, Kind

\* A number ends behind its beginning, or there is none.
LEMMA LongestEndIs ==
    ASSUME NEW t \in Seq(Words), NEW i \in DOMAIN t, NEW lengths, NEW cuts
    PROVE  LET e == LongestEnd(t, i, lengths, cuts)
           IN  /\ \/ e = 0
                  \/ e \in i .. Len(t) /\ Number(t, i, e, lengths, cuts)
               /\ \A j \in i .. Len(t) : Number(t, i, j, lengths, cuts) => j <= e
<1>. DEFINE S == {0} \cup {j \in i .. Len(t) : Number(t, i, j, lengths, cuts)}
<1>1. Len(t) \in Nat /\ i \in 1 .. Len(t)
  BY LenProperties
<1>2. S \subseteq Int /\ S # {} /\ \A x \in S : x <= Len(t)
  BY <1>1
<1>3. LongestEnd(t, i, lengths, cuts) = Max(S)
  BY DEF LongestEnd
<1>4. Max(S) \in S /\ \A x \in S : x <= Max(S)
  <2>1. Len(t) \in Int
    BY <1>1
  <2>. HIDE DEF S
  <2>. QED
    BY <1>2, <2>1, MaxIs, Zenon
<1>. QED
  BY <1>3, <1>4

\* No number begins anywhere but at a group of digits.
LEMMA NoneEnds ==
    ASSUME NEW t, NEW i, ~IsGroup(t, i), NEW lengths, NEW cuts
    PROVE  LongestEnd(t, i, lengths, cuts) = 0
<1>1. {j \in i .. Len(t) : Number(t, i, j, lengths, cuts)} = {}
  BY DEF Number
<1>2. LongestEnd(t, i, lengths, cuts) = Max({0})
  <2>1. {0} \cup {} = {0}
    OBVIOUS
  <2>. QED
    BY <1>1, <2>1 DEF LongestEnd
<1>. QED
  BY <1>2 DEF Max

\* ... for all words and patterns.
LEMMA LongestEnds ==
    ASSUME NEW t \in Seq(Words)
    PROVE  \A i, lengths, cuts :
              /\ LongestEnd(t, i, lengths, cuts) \in {0} \cup i .. Len(t)
              /\ LongestEnd(t, i, lengths, cuts) \in 0 .. Len(t)
              /\ LongestEnd(t, i, lengths, cuts) # 0 =>
                    Number(t, i, LongestEnd(t, i, lengths, cuts), lengths, cuts)
<1>1. ASSUME NEW i, NEW lengths, NEW cuts
      PROVE  /\ LongestEnd(t, i, lengths, cuts) \in {0} \cup i .. Len(t)
             /\ LongestEnd(t, i, lengths, cuts) \in 0 .. Len(t)
             /\ LongestEnd(t, i, lengths, cuts) # 0 =>
                   Number(t, i, LongestEnd(t, i, lengths, cuts), lengths, cuts)
  <2>1. PICK e : e = LongestEnd(t, i, lengths, cuts)
    OBVIOUS
  <2>2. CASE ~IsGroup(t, i)
    BY <2>1, <2>2, NoneEnds, LenProperties
  <2>3. CASE IsGroup(t, i)
    <3>1. i \in DOMAIN t
      BY <2>3 DEF IsGroup, Kind
    <3>2. \/ e = 0
          \/ e \in i .. Len(t) /\ Number(t, i, e, lengths, cuts)
      BY <2>1, <3>1, LongestEndIs
    <3>3. Len(t) \in Nat /\ i \in 1 .. Len(t)
      BY <3>1, LenProperties
    <3>. QED
      BY <2>1, <3>2, <3>3
  <2>. QED
    BY <2>2, <2>3
<1>. QED
  BY <1>1

-----------------------------------------------------------------------------
(* Searches. Starts and Chain go through a text from left to right: what   *)
(* they gather at a word is their own and what they gather at later words. *)

Gathers(f, own, next, a, m) ==
    f = [i \in a .. m |-> own[i] \cup UNION {f[j] : j \in next[i]}]

\* It only looks ahead.
Forward(next, a, m) == \A i \in a .. m : next[i] \subseteq i + 1 .. m

\* All values are sets of members of X.
SubsetsOf(f, X, a, m) == \A i \in a .. m : f[i] \subseteq X

\* Such a recursion defines a function.
LEMMA GatherExists ==
    ASSUME NEW a \in Nat, NEW m \in Nat, NEW own, NEW next,
           Forward(next, a, m)
    PROVE  \E f : Gathers(f, own, next, a, m)
<1>. DEFINE Body(f, i) == own[i] \cup UNION {f[j] : j \in next[i]}
            N == {n \in Nat : \E f : \A i \in a .. m :
                    i + n > m => f[i] = Body(f, i)}
<1>1. 0 \in N
  OBVIOUS
<1>2. ASSUME NEW n \in Nat, n \in N PROVE n + 1 \in N
  <2>1. PICK f : \A i \in a .. m : i + n > m => f[i] = Body(f, i)
    BY <1>2
  <2>. DEFINE g == [i \in a .. m |-> Body(f, i)]
  <2>2. ASSUME NEW i \in a .. m, i + (n + 1) > m PROVE g[i] = Body(g, i)
    <3>1. ASSUME NEW j \in next[i] PROVE g[j] = f[j]
      <4>1. j \in a .. m /\ j + n > m
        BY <2>2 DEF Forward
      <4>2. f[j] = Body(f, j) /\ g[j] = Body(f, j)
        BY <2>1, <4>1
      <4>. QED
        BY <4>2
    <3>2. {g[j] : j \in next[i]} = {f[j] : j \in next[i]}
      BY <3>1
    <3>3. g[i] = Body(f, i)
      OBVIOUS
    <3>. HIDE DEF g
    <3>. QED
      BY <3>2, <3>3
  <2>. HIDE DEF g
  <2>3. \E h : \A i \in a .. m : i + (n + 1) > m => h[i] = Body(h, i)
    BY <2>2
  <2>. QED
    BY <2>3
<1>. HIDE DEF N
<1>3. Nat \subseteq N
  BY <1>1, <1>2, SetInduction
<1>4. m + 1 \in N
  BY <1>3
<1>5. PICK f : \A i \in a .. m : i + (m + 1) > m => f[i] = Body(f, i)
  BY <1>4 DEF N
<1>. DEFINE g == [i \in a .. m |-> f[i]]
<1>6. ASSUME NEW i \in a .. m PROVE f[i] = Body(g, i)
  <2>1. f[i] = Body(f, i)
    BY <1>5
  <2>2. \A j \in next[i] : g[j] = f[j]
    BY DEF Forward
  <2>3. {g[j] : j \in next[i]} = {f[j] : j \in next[i]}
    BY <2>2
  <2>. HIDE DEF g
  <2>. QED
    BY <2>1, <2>3
<1>7. g = [i \in a .. m |-> Body(g, i)]
  <2>1. \A i \in a .. m : g[i] = f[i]
    OBVIOUS
  <2>2. [i \in a .. m |-> f[i]] = [i \in a .. m |-> Body(g, i)]
    BY <1>6
  <2>. QED
    BY <2>2
<1>8. Gathers(g, own, next, a, m)
  BY <1>7 DEF Gathers
<1>. QED
  BY <1>8

\* It gathers nothing but what is some word's own.
LEMMA GatherIn ==
    ASSUME NEW a \in Nat, NEW m \in Nat, NEW own, NEW next,
           Forward(next, a, m), NEW f, Gathers(f, own, next, a, m),
           NEW X, SubsetsOf(own, X, a, m)
    PROVE  SubsetsOf(f, X, a, m)
<1>. DEFINE N == {n \in Nat : \A i \in a .. m : i + n > m => f[i] \subseteq X}
<1>1. 0 \in N
  OBVIOUS
<1>2. ASSUME NEW n \in Nat, n \in N PROVE n + 1 \in N
  <2>1. ASSUME NEW i \in a .. m, i + (n + 1) > m PROVE f[i] \subseteq X
    <3>1. ASSUME NEW j \in next[i] PROVE f[j] \subseteq X
      <4>1. j \in a .. m /\ j + n > m
        BY <2>1 DEF Forward
      <4>. QED
        BY <1>2, <4>1
    <3>2. f[i] = own[i] \cup UNION {f[j] : j \in next[i]}
      BY DEF Gathers
    <3>. QED
      BY <3>1, <3>2 DEF SubsetsOf
  <2>. QED
    BY <2>1
<1>. HIDE DEF N
<1>3. Nat \subseteq N
  BY <1>1, <1>2, SetInduction
<1>4. m + 1 \in N
  BY <1>3
<1>. QED
  BY <1>4 DEF N, SubsetsOf

\* The search for matches from the i-th word on.
StartsBody(t, end, f, i) ==
    IF i > Len(t) THEN {}
    ELSE LET e == end[i] IN IF e < i THEN f[i + 1] ELSE {i} \cup f[e + 1]

\* Starts returns what it finds from the first word on.
LEMMA StartsRecursion ==
    ASSUME NEW t \in Seq(Words), NEW end,
           \A i \in 1 .. Len(t) : end[i] \in 0 .. Len(t)
    PROVE  \E h : /\ Starts(t, end) = h[1]
                  /\ \A i \in 1 .. Len(t) + 1 : h[i] = StartsBody(t, end, h, i)
<1>. DEFINE m == Len(t)
            own == [i \in 1 .. m + 1 |->
                       IF i <= m /\ end[i] >= i THEN {i} ELSE {}]
            next == [i \in 1 .. m + 1 |-> IF i > m THEN {}
                        ELSE IF end[i] < i THEN {i + 1} ELSE {end[i] + 1}]
            Body(f, i) == StartsBody(t, end, f, i)
            h == CHOOSE f : f = [i \in 1 .. m + 1 |-> Body(f, i)]
<1>1. m \in Nat /\ 1 \in Nat /\ m + 1 \in Nat
  BY LenProperties
<1>2. Forward(next, 1, m + 1)
  BY <1>1 DEF Forward
<1>3. ASSUME NEW f, NEW i \in 1 .. m + 1
      PROVE  own[i] \cup UNION {f[j] : j \in next[i]} = Body(f, i)
  <2>1. CASE i > m
    <3>1. own[i] = {} /\ next[i] = {} /\ Body(f, i) = {}
      BY <1>1, <2>1 DEF StartsBody
    <3>. QED
      BY <3>1
  <2>2. CASE i <= m /\ end[i] < i
    <3>1. own[i] = {} /\ next[i] = {i + 1} /\ Body(f, i) = f[i + 1]
      BY <1>1, <2>2 DEF StartsBody
    <3>. QED
      BY <3>1
  <2>3. CASE i <= m /\ end[i] >= i
    <3>1. /\ own[i] = {i} /\ next[i] = {end[i] + 1}
          /\ Body(f, i) = {i} \cup f[end[i] + 1]
      BY <1>1, <2>3 DEF StartsBody
    <3>. QED
      BY <3>1
  <2>. QED
    BY <1>1, <2>1, <2>2, <2>3
<1>. HIDE DEF own, next, Body
<1>4. ASSUME NEW f
      PROVE  Gathers(f, own, next, 1, m + 1)
                <=> f = [i \in 1 .. m + 1 |-> Body(f, i)]
  BY <1>3 DEF Gathers
<1>5. h = [i \in 1 .. m + 1 |-> Body(h, i)]
  <2>1. PICK f : Gathers(f, own, next, 1, m + 1)
    BY <1>1, <1>2, GatherExists, Zenon
  <2>. QED
    BY <1>4, <2>1
<1>6. Starts(t, end) = h[1]
  BY DEF Starts, Body, StartsBody
<1>. HIDE DEF h
<1>7. \A i \in 1 .. m + 1 : h[i] = Body(h, i)
  BY <1>5
<1>. QED
  BY <1>6, <1>7 DEF Body

\* finditer: a match starts where one ends, not before it and in the text.
LEMMA StartsAre ==
    ASSUME NEW t \in Seq(Words), NEW end,
           \A i \in 1 .. Len(t) : end[i] \in 0 .. Len(t)
    PROVE  Starts(t, end) \subseteq {i \in 1 .. Len(t) : end[i] >= i}
<1>1. PICK m \in Nat : m = Len(t)
  BY LenProperties
<1>2. PICK h : /\ Starts(t, end) = h[1]
               /\ \A i \in 1 .. m + 1 : h[i] = StartsBody(t, end, h, i)
  BY <1>1, StartsRecursion
<1>. DEFINE X == {i \in 1 .. m : end[i] >= i}
            N == {n \in Nat : \A i \in 1 .. m + 1 : i + n > m + 1 => h[i] \subseteq X}
<1>3. 0 \in N
  BY <1>1
<1>4. ASSUME NEW n \in Nat, n \in N PROVE n + 1 \in N
  <2>1. SUFFICES ASSUME NEW i \in 1 .. m + 1, i + (n + 1) > m + 1
                 PROVE  h[i] \subseteq X
    OBVIOUS
  <2>2. CASE i > m
    BY <1>1, <1>2, <2>2 DEF StartsBody
  <2>3. CASE i <= m /\ end[i] < i
    <3>1. i + 1 \in 1 .. m + 1 /\ i + 1 + n > m + 1 /\ ~(i > m)
      BY <1>1, <2>1, <2>3
    <3>2. h[i] = h[i + 1]
      BY <1>1, <1>2, <2>3, <3>1 DEF StartsBody
    <3>. QED
      BY <1>4, <3>1, <3>2
  <2>4. CASE i <= m /\ end[i] >= i
    <3>1. /\ end[i] + 1 \in 1 .. m + 1 /\ end[i] + 1 + n > m + 1 /\ i \in 1 .. m
          /\ ~(i > m) /\ ~(end[i] < i)
      BY <1>1, <2>1, <2>4
    <3>2. h[i] = {i} \cup h[end[i] + 1]
      BY <1>1, <1>2, <3>1 DEF StartsBody
    <3>3. h[end[i] + 1] \subseteq X /\ i \in X
      BY <1>4, <2>4, <3>1
    <3>. QED
      BY <3>2, <3>3
  <2>. QED
    BY <1>1, <2>2, <2>3, <2>4
<1>. HIDE DEF N
<1>5. Nat \subseteq N
  BY <1>3, <1>4, SetInduction
<1>6. m + 1 \in N
  BY <1>5
<1>. QED
  BY <1>1, <1>2, <1>6 DEF N

\* A match is found if none before it reaches its first word.
LEMMA StartsReach ==
    ASSUME NEW t \in Seq(Words), NEW end,
           \A i \in 1 .. Len(t) : end[i] \in 0 .. Len(t),
           NEW i \in 1 .. Len(t), end[i] >= i, \A k \in 1 .. i - 1 : end[k] < i
    PROVE  i \in Starts(t, end)
<1>1. PICK m \in Nat : m = Len(t)
  BY LenProperties
<1>2. PICK h : /\ Starts(t, end) = h[1]
               /\ \A k \in 1 .. m + 1 : h[k] = StartsBody(t, end, h, k)
  BY <1>1, StartsRecursion
<1>. DEFINE N == {n \in Nat : \A k \in 1 .. i : k + n >= i => i \in h[k]}
<1>3. i \in h[i]
  <2>1. i \in 1 .. m + 1 /\ ~(i > m) /\ ~(end[i] < i)
    BY <1>1
  <2>. QED
    BY <1>1, <1>2, <2>1 DEF StartsBody
<1>4. 0 \in N
  BY <1>1, <1>3
<1>5. ASSUME NEW n \in Nat, n \in N PROVE n + 1 \in N
  <2>1. SUFFICES ASSUME NEW k \in 1 .. i, k + (n + 1) >= i PROVE i \in h[k]
    OBVIOUS
  <2>2. CASE k = i
    BY <1>3, <2>2
  <2>3. CASE k # i /\ end[k] < k
    <3>1. k + 1 \in 1 .. i /\ k + 1 + n >= i /\ k \in 1 .. m + 1 /\ ~(k > m)
      BY <1>1, <2>1, <2>3
    <3>2. h[k] = h[k + 1]
      BY <1>1, <1>2, <2>3, <3>1 DEF StartsBody
    <3>. QED
      BY <1>5, <3>1, <3>2
  <2>4. CASE k # i /\ end[k] >= k
    <3>1. k \in 1 .. i - 1 /\ k \in 1 .. m + 1 /\ ~(k > m) /\ k \in 1 .. m
      BY <1>1, <2>4
    <3>2. end[k] + 1 \in 1 .. i /\ end[k] + 1 + n >= i /\ ~(end[k] < k)
      BY <1>1, <2>1, <2>4, <3>1
    <3>3. h[k] = {k} \cup h[end[k] + 1]
      BY <1>1, <1>2, <3>1, <3>2 DEF StartsBody
    <3>. QED
      BY <1>5, <3>2, <3>3
  <2>. QED
    BY <1>1, <2>2, <2>3, <2>4
<1>. HIDE DEF N
<1>6. Nat \subseteq N
  BY <1>4, <1>5, SetInduction
<1>7. i \in N /\ 1 \in 1 .. i /\ 1 + i >= i
  BY <1>6
<1>. QED
  BY <1>2, <1>7 DEF N

-----------------------------------------------------------------------------
(* Every detector finds spans of its own types, in the text.               *)

Within(t, types) ==
    {s \in Spans : /\ s.start >= 1 /\ s.start <= s.end + 1 /\ s.end <= Len(t)
                   /\ s.type \in types}

LabelTypes == Types \ {"PERSON", "LOCATION", "EMAIL"}
NumberTypes == LabelTypes \ {"TAIL"}

\* A span is within the text if its words are.
LEMMA SpanWithin ==
    ASSUME NEW t \in Seq(Words), NEW i \in 1 .. Len(t) + 1,
           NEW j \in i - 1 .. Len(t), NEW types \in SUBSET Types,
           NEW type \in types
    PROVE  Span(i, j, type) \in Within(t, types)
<1>1. Len(t) \in Nat
  BY LenProperties
<1>2. Span(i, j, type) \in Spans
  BY <1>1 DEF Span, Spans
<1>. QED
  BY <1>1, <1>2 DEF Span, Within

\* ... also if it is one word, with the types of the detectors of labels.
LEMMA LabelSpanWithin ==
    ASSUME NEW t \in Seq(Words), NEW type \in NumberTypes
    PROVE  /\ \A i, j : i \in 1 .. Len(t) + 1 /\ j \in i - 1 .. Len(t) =>
                 Span(i, j, type) \in Within(t, NumberTypes)
           /\ \A i : i \in DOMAIN t => Span(i, i, type) \in Within(t, NumberTypes)
<1>1. NumberTypes \in SUBSET Types
  BY DEF LabelTypes, NumberTypes
<1>2. ASSUME NEW i \in 1 .. Len(t) + 1, NEW j \in i - 1 .. Len(t)
      PROVE  Span(i, j, type) \in Within(t, NumberTypes)
  BY <1>1, SpanWithin
<1>3. ASSUME NEW i \in DOMAIN t
      PROVE  i \in 1 .. Len(t) + 1 /\ i \in i - 1 .. Len(t)
  BY LenProperties
<1>. QED
  BY <1>2, <1>3

\* Their types.
LEMMA LabelTypesAre ==
    /\ LabelTypes = NumberTypes \cup {"TAIL"}
    /\ NumberTypes = {"BIRTH_DATE", "BIRTH_PLACE", "PASSPORT", "CITIZENSHIP",
                      "ISSUING_AUTHORITY", "DIVISION_CODE", "ISSUE_DATE",
                      "DRIVING_LICENSE", "ADDRESS", "PHONE", "INN", "CARD",
                      "CVV", "PIN", "CARD_HOLDER"}
BY TypesAre DEF LabelTypes, NumberTypes

\* Groups and words of a kind are in the text.
LEMMA GroupsAre ==
    ASSUME NEW t \in Seq(Words)
    PROVE  /\ Len(t) \in Nat /\ DOMAIN t = 1 .. Len(t)
           /\ \A i : IsGroup(t, i) => i \in 1 .. Len(t)
           /\ \A i, kinds : Kind(t, i, kinds) => i \in 1 .. Len(t)
           /\ \A i, j, lengths, cuts : Number(t, i, j, lengths, cuts) =>
                 i \in 1 .. Len(t) /\ j \in 1 .. Len(t)
<1>1. Len(t) \in Nat /\ DOMAIN t = 1 .. Len(t)
  BY LenProperties
<1>. QED
  BY <1>1 DEF IsGroup, Kind, Number

\* Cards.
LEMMA CardsWithin ==
    ASSUME NEW t \in Seq(Words)
    PROVE  Cards(t) \subseteq Within(t, NumberTypes)
<1>. DEFINE end == [n \in DOMAIN t |-> CardEnd(t, n)]
<1>1. Len(t) \in Nat /\ DOMAIN t = 1 .. Len(t)
  BY GroupsAre
<1>2. \A i \in 1 .. Len(t) : end[i] = CardEnd(t, i) /\ end[i] \in 0 .. Len(t)
  <2>1. \A i \in DOMAIN t : CardEnd(t, i) \in 0 .. Len(t)
    BY LongestEnds DEF CardEnd
  <2>. QED
    BY <1>1, <2>1
<1>. HIDE DEF end
<1>3. Starts(t, end) \subseteq {i \in 1 .. Len(t) : end[i] >= i}
  BY <1>2, StartsAre
<1>4. ASSUME NEW i \in Starts(t, end)
      PROVE  Span(i, CardEnd(t, i), "CARD") \in Within(t, NumberTypes)
  <2>1. i \in 1 .. Len(t) + 1 /\ CardEnd(t, i) \in i - 1 .. Len(t)
    BY <1>1, <1>2, <1>3
  <2>2. "CARD" \in NumberTypes
    BY LabelTypesAre
  <2>. QED
    BY <2>1, <2>2, LabelSpanWithin
<1>5. Cards(t) = {Span(i, CardEnd(t, i), "CARD") :
                     i \in {k \in Starts(t, end) : CardValid(t, k, CardEnd(t, k))}}
  BY DEF Cards, end
<1>. QED
  BY <1>4, <1>5

\* Codes, taxpayers, dates and codes of departments, which are single words.
LEMMA WordsWithin ==
    ASSUME NEW t \in Seq(Words)
    PROVE  /\ Codes(t, "CVV", 3) \subseteq Within(t, NumberTypes)
           /\ Codes(t, "PIN", 4) \subseteq Within(t, NumberTypes)
           /\ Inns(t) \subseteq Within(t, NumberTypes)
           /\ Valued(t, "date", {"BIRTH_DATE"}, "BIRTH_DATE")
                 \subseteq Within(t, NumberTypes)
           /\ Valued(t, "date", IssueLabels, "ISSUE_DATE")
                 \subseteq Within(t, NumberTypes)
           /\ Valued(t, "code", {"DIVISION_CODE"}, "DIVISION_CODE")
                 \subseteq Within(t, NumberTypes)
<1>1. /\ "CVV" \in NumberTypes /\ "PIN" \in NumberTypes /\ "INN" \in NumberTypes
      /\ "BIRTH_DATE" \in NumberTypes /\ "ISSUE_DATE" \in NumberTypes
      /\ "DIVISION_CODE" \in NumberTypes
  BY LabelTypesAre
<1>2. ASSUME NEW type \in NumberTypes
      PROVE  \A i : i \in DOMAIN t => Span(i, i, type) \in Within(t, NumberTypes)
  BY LabelSpanWithin
<1>3. Codes(t, "CVV", 3) \subseteq Within(t, NumberTypes)
  BY <1>1, <1>2 DEF Codes
<1>4. Codes(t, "PIN", 4) \subseteq Within(t, NumberTypes)
  BY <1>1, <1>2 DEF Codes
<1>5. Inns(t) \subseteq Within(t, NumberTypes)
  BY <1>1, <1>2 DEF Inns
<1>6. Valued(t, "date", {"BIRTH_DATE"}, "BIRTH_DATE") \subseteq Within(t, NumberTypes)
  BY <1>1, <1>2 DEF Valued
<1>7. Valued(t, "date", IssueLabels, "ISSUE_DATE") \subseteq Within(t, NumberTypes)
  BY <1>1, <1>2 DEF Valued
<1>8. Valued(t, "code", {"DIVISION_CODE"}, "DIVISION_CODE")
         \subseteq Within(t, NumberTypes)
  BY <1>1, <1>2 DEF Valued
<1>. QED
  BY <1>3, <1>4, <1>5, <1>6, <1>7, <1>8

\* Telephones.
LEMMA PhonesWithin ==
    ASSUME NEW t \in Seq(Words)
    PROVE  Phones(t) \subseteq Within(t, NumberTypes)
<1>. DEFINE russianEnd == [n \in DOMAIN t |-> PhoneEnd(t, n)]
            worldEnd == [n \in DOMAIN t |-> InternationalEnd(t, n)]
            russian ==
                {Span(i, PhoneEnd(t, i), "PHONE") :
                    i \in {k \in Starts(t, russianEnd) :
                              t[k].kind = "plus" \/ Near(t, k, 2, {"PHONE"})}}
            international ==
                {Span(i, InternationalEnd(t, i), "PHONE") :
                    i \in {k \in Starts(t, worldEnd) : Near(t, k, 3, {"PHONE"})}}
<1>1. Len(t) \in Nat /\ DOMAIN t = 1 .. Len(t)
  BY GroupsAre
<1>2. \A i \in DOMAIN t : /\ PhoneEnd(t, i) \in 0 .. Len(t)
                          /\ InternationalEnd(t, i) \in 0 .. Len(t)
  <2>1. 0 \in 0 .. Len(t)
    BY <1>1
  <2>. QED
    BY <2>1, LongestEnds DEF PhoneEnd, InternationalEnd
<1>3. \A i \in 1 .. Len(t) : /\ russianEnd[i] = PhoneEnd(t, i)
                             /\ worldEnd[i] = InternationalEnd(t, i)
  BY <1>1
<1>4. Phones(t) \subseteq russian \cup international
  BY DEF Phones
<1>. HIDE DEF russianEnd, worldEnd
<1>5. /\ Starts(t, russianEnd) \subseteq {i \in 1 .. Len(t) : russianEnd[i] >= i}
      /\ Starts(t, worldEnd) \subseteq {i \in 1 .. Len(t) : worldEnd[i] >= i}
  BY <1>1, <1>2, <1>3, StartsAre
<1>6. "PHONE" \in NumberTypes
  BY LabelTypesAre
<1>7. \A i, j : i \in 1 .. Len(t) + 1 /\ j \in i - 1 .. Len(t) =>
                   Span(i, j, "PHONE") \in Within(t, NumberTypes)
  BY <1>6, LabelSpanWithin
<1>8. ASSUME NEW i \in Starts(t, russianEnd)
      PROVE  Span(i, PhoneEnd(t, i), "PHONE") \in Within(t, NumberTypes)
  <2>1. i \in 1 .. Len(t) + 1 /\ PhoneEnd(t, i) \in i - 1 .. Len(t)
    BY <1>1, <1>2, <1>3, <1>5
  <2>. QED
    BY <1>7, <2>1
<1>9. ASSUME NEW i \in Starts(t, worldEnd)
      PROVE  Span(i, InternationalEnd(t, i), "PHONE") \in Within(t, NumberTypes)
  <2>1. i \in 1 .. Len(t) + 1 /\ InternationalEnd(t, i) \in i - 1 .. Len(t)
    BY <1>1, <1>2, <1>3, <1>5
  <2>. QED
    BY <1>7, <2>1
<1>10. russian \cup international \subseteq Within(t, NumberTypes)
  BY <1>8, <1>9
<1>. QED
  BY <1>4, <1>10

\* A series and a number: the one after the other, or with a word between.
LEMMA DocumentIs ==
    ASSUME NEW t \in Seq(Words), NEW i \in DOMAIN t
    PROVE  LET d == Document(t, i)
           IN  /\ d \in Documents(t, i)
               /\ \/ d[1] = 0 /\ d[2] \in 0 .. Len(t)
                  \/ /\ d[1] \in i .. Len(t) /\ d[2] \in 1 .. Len(t)
                     /\ d[2] = d[1] + 2
<1>. DEFINE D == Documents(t, i)
            E == {d[2] : d \in D}
            Fits(d) == \/ d[1] = 0 /\ d[2] \in 0 .. Len(t)
                       \/ /\ d[1] \in i .. Len(t) /\ d[2] \in 1 .. Len(t)
                          /\ d[2] = d[1] + 2
<1>1. Len(t) \in Nat /\ i \in 1 .. Len(t)
  BY GroupsAre
<1>2. LongestEnd(t, i, {10}, {2, 4}) \in 0 .. Len(t)
  BY LongestEnds
<1>3. ASSUME NEW d \in D PROVE Fits(d)
  <2>1. \/ d = <<0, LongestEnd(t, i, {10}, {2, 4})>>
        \/ \E j \in i .. Len(t) : SixDigits(t, j + 2) /\ d = <<j, j + 2>>
    BY DEF Documents
  <2>2. CASE d = <<0, LongestEnd(t, i, {10}, {2, 4})>>
    BY <1>2, <2>2
  <2>3. ASSUME NEW j \in i .. Len(t), SixDigits(t, j + 2), d = <<j, j + 2>>
        PROVE  Fits(d)
    <3>1. j + 2 \in 1 .. Len(t)
      BY <2>3, GroupsAre DEF SixDigits
    <3>. QED
      BY <2>3, <3>1
  <2>. QED
    BY <2>1, <2>2, <2>3
<1>4. <<0, LongestEnd(t, i, {10}, {2, 4})>> \in D
  BY DEF Documents
<1>. HIDE DEF D
<1>5. E \subseteq Int /\ E # {} /\ \A x \in E : x <= Len(t)
  BY <1>1, <1>3, <1>4
<1>6. PICK d \in D : \A e \in D : e[2] <= d[2]
  <2>1. Max(E) \in E /\ \A x \in E : x <= Max(E)
    <3>1. Len(t) \in Int
      BY <1>1
    <3>. HIDE DEF E
    <3>. QED
      BY <1>5, <3>1, MaxIs, Zenon
  <2>. QED
    BY <2>1
<1>7. Document(t, i) \in D
  BY <1>6 DEF Document, D
<1>. QED
  BY <1>3, <1>7 DEF D

\* Numbers of documents, in one piece or two.
LEMMA WholeDocumentsWithin ==
    ASSUME NEW t \in Seq(Words), NEW type \in NumberTypes
    PROVE  WholeDocuments(t, type) \subseteq Within(t, NumberTypes)
<1>. DEFINE end == [n \in DOMAIN t |-> Document(t, n)[2]]
            Pieces(d, i) == IF d[1] = 0 THEN {Span(i, d[2], type)}
                            ELSE {Span(i, d[1], type), Span(d[2], d[2], type)}
<1>1. Len(t) \in Nat /\ DOMAIN t = 1 .. Len(t)
  BY GroupsAre
<1>2. ASSUME NEW i \in 1 .. Len(t)
      PROVE  /\ end[i] = Document(t, i)[2] /\ end[i] \in 0 .. Len(t)
             /\ Document(t, i)[1] # 0 => Document(t, i)[1] \in i .. Len(t)
             /\ Document(t, i)[1] # 0 => Document(t, i)[2] \in 1 .. Len(t)
  BY <1>1, DocumentIs
<1>. HIDE DEF end
<1>3. Starts(t, end) \subseteq {i \in 1 .. Len(t) : end[i] >= i}
  BY <1>2, StartsAre
<1>4. /\ \A i, j : i \in 1 .. Len(t) + 1 /\ j \in i - 1 .. Len(t) =>
            Span(i, j, type) \in Within(t, NumberTypes)
      /\ \A i : i \in DOMAIN t => Span(i, i, type) \in Within(t, NumberTypes)
  BY LabelSpanWithin
<1>5. ASSUME NEW i \in Starts(t, end)
      PROVE  Pieces(Document(t, i), i) \subseteq Within(t, NumberTypes)
  <2>1. PICK d : d = Document(t, i)
    OBVIOUS
  <2>2. /\ i \in 1 .. Len(t) + 1 /\ d[2] \in 0 .. Len(t) /\ d[2] >= i
        /\ d[1] # 0 => d[1] \in i .. Len(t) /\ d[2] \in 1 .. Len(t)
    BY <1>1, <1>2, <1>3, <2>1
  <2>3. CASE d[1] = 0
    <3>1. d[2] \in i - 1 .. Len(t)
      BY <1>1, <2>2
    <3>2. Span(i, d[2], type) \in Within(t, NumberTypes)
      BY <1>4, <2>2, <3>1
    <3>. QED
      BY <2>1, <2>3, <3>2
  <2>4. CASE d[1] # 0
    <3>1. d[1] \in i - 1 .. Len(t) /\ d[2] \in DOMAIN t
      BY <1>1, <2>2, <2>4
    <3>2. /\ Span(i, d[1], type) \in Within(t, NumberTypes)
          /\ Span(d[2], d[2], type) \in Within(t, NumberTypes)
      BY <1>4, <2>2, <3>1
    <3>. QED
      BY <2>1, <2>4, <3>2
  <2>. QED
    BY <2>3, <2>4
<1>6. WholeDocuments(t, type) =
         UNION {Pieces(Document(t, i), i) :
                   i \in {k \in Starts(t, end) : Personal(t, k, type)}}
  BY DEF WholeDocuments, end
<1>. HIDE DEF Pieces
<1>. QED
  BY <1>5, <1>6

\* ... and their parts.
LEMMA DocumentNumbersWithin ==
    ASSUME NEW t \in Seq(Words), NEW type \in NumberTypes
    PROVE  DocumentNumbers(t, type) \subseteq Within(t, NumberTypes)
<1>. DEFINE parts == {Span(p[2], p[3], type) :
                         p \in {q \in Parts(t) : PartPersonal(t, q, type)}}
<1>1. Len(t) \in Nat /\ DOMAIN t = 1 .. Len(t)
  BY GroupsAre
<1>2. ASSUME NEW p \in Parts(t)
      PROVE  Span(p[2], p[3], type) \in Within(t, NumberTypes)
  <2>1. PICK i \in DOMAIN t : \E k \in PartValue(t, i) .. Len(t) :
                                 p = <<i, PartValue(t, i), k>>
    BY DEF Parts
  <2>2. PICK k \in PartValue(t, i) .. Len(t) : p = <<i, PartValue(t, i), k>>
    BY <2>1
  <2>3. PartValue(t, i) = i + 1 \/ PartValue(t, i) = i + 2
    BY DEF PartValue
  <2>4. p[2] \in 1 .. Len(t) + 1 /\ p[3] \in p[2] - 1 .. Len(t)
    BY <1>1, <2>2, <2>3
  <2>. QED
    BY <2>4, LabelSpanWithin
<1>3. parts \subseteq Within(t, NumberTypes)
  BY <1>2
<1>4. DocumentNumbers(t, type) \subseteq WholeDocuments(t, type) \cup parts
  BY DEF DocumentNumbers
<1>. QED
  BY <1>3, <1>4, WholeDocumentsWithin

\* All detectors of numbers.
LEMMA NumberSpansWithin ==
    ASSUME NEW t \in Seq(Words)
    PROVE  NumberSpans(t) \subseteq Within(t, NumberTypes)
<1>1. "PASSPORT" \in NumberTypes /\ "DRIVING_LICENSE" \in NumberTypes
  BY LabelTypesAre
<1>2. /\ DocumentNumbers(t, "PASSPORT") \subseteq Within(t, NumberTypes)
      /\ DocumentNumbers(t, "DRIVING_LICENSE") \subseteq Within(t, NumberTypes)
  BY <1>1, DocumentNumbersWithin
<1>3. Cards(t) \cup Phones(t) \subseteq Within(t, NumberTypes)
  BY CardsWithin, PhonesWithin
<1>. QED
  BY <1>2, <1>3, WordsWithin DEF NumberSpans

\* Addresses of electronic mail, both words of them.
LEMMA EmailsAre ==
    ASSUME NEW t \in WordTexts, NEW s \in Emails(t)
    PROVE  /\ s \in Within(t, {"EMAIL"}) /\ s.end = s.start + 1
           /\ t[s.start].kind = "local" /\ t[s.end].kind = "domain"
<1>1. t \in Seq(Words) /\ Len(t) \in Nat /\ DOMAIN t = 1 .. Len(t)
  BY GroupsAre DEF WordTexts
<1>2. PICK i \in DOMAIN t : t[i].mark = "@" /\ s = Span(i, i + 1, "EMAIL")
  BY DEF Emails
<1>3. /\ t[i].kind = "local" /\ i + 1 \in DOMAIN t /\ t[i + 1].kind = "domain"
  BY <1>2 DEF WordTexts
<1>4. i \in 1 .. Len(t) + 1 /\ i + 1 \in i - 1 .. Len(t) /\ "EMAIL" \in {"EMAIL"}
  BY <1>1, <1>3
<1>5. {"EMAIL"} \in SUBSET Types
  BY TypesAre
<1>6. s \in Within(t, {"EMAIL"})
  BY <1>1, <1>2, <1>4, <1>5, SpanWithin
<1>. QED
  BY <1>2, <1>3, <1>6 DEF Span

\* What the detectors of fields say of a span.
LabelledBy(t, s, labels, marks, least, most) ==
    /\ s.start - 1 \in 1 .. Len(t)
    /\ t[s.start - 1].kind \in labels /\ t[s.start - 1].mark \in marks
    /\ s.end >= s.start - 1 + least
    /\ s.end = RunEnd(t, s.start, most, {})

\* Fields with a label: the values start behind it.
LEMMA FieldsBehind ==
    ASSUME NEW t \in Seq(Words), NEW labels, NEW marks, NEW least \in Nat,
           NEW most \in Nat \ {0}, NEW type \in Types,
           NEW s \in Fields(t, labels, marks, least, most, type)
    PROVE  /\ LabelledBy(t, s, labels, marks, least, most)
           /\ s \in Within(t, {type}) /\ \A n \in s.start .. s.end : ~IsGroup(t, n)
<1>. DEFINE End(i) == RunEnd(t, i + 1, most, {})
            end == [i \in DOMAIN t |->
                       IF /\ t[i].kind \in labels /\ t[i].mark \in marks
                          /\ End(i) >= i + least
                       THEN End(i) ELSE 0]
<1>1. Len(t) \in Nat /\ DOMAIN t = 1 .. Len(t)
  BY GroupsAre
<1>2. \A i \in DOMAIN t : End(i) \in i .. Len(t)
  <2>1. ASSUME NEW i \in DOMAIN t PROVE End(i) \in i .. Len(t)
    <3>1. PICK a : a = i + 1
      OBVIOUS
    <3>2. a \in 1 .. Len(t) + 1 /\ a - 1 = i
      BY <1>1, <3>1
    <3>3. RunEnd(t, a, most, {}) \in a - 1 .. Len(t)
      BY <3>2, RunEndIn, Zenon
    <3>. QED
      BY <3>1, <3>2, <3>3, Zenon
  <2>. QED
    BY <2>1
<1>. HIDE DEF End
<1>3. \A i \in 1 .. Len(t) : /\ end[i] \in 0 .. Len(t)
                             /\ end[i] >= i => t[i].kind \in labels
                             /\ end[i] >= i => t[i].mark \in marks
                             /\ end[i] >= i => end[i] >= i + least
                             /\ end[i] >= i => end[i] = End(i)
  BY <1>1, <1>2
<1>4. \A i \in DOMAIN t : \A n \in i + 1 .. End(i) : ~IsGroup(t, n)
  <2>1. ASSUME NEW i \in DOMAIN t PROVE \A n \in i + 1 .. End(i) : ~IsGroup(t, n)
    <3>1. i + 1 \in 1 .. Len(t) + 1
      BY <1>1
    <3>. QED
      BY <3>1, RunWords DEF End
  <2>. QED
    BY <2>1
<1>5. Fields(t, labels, marks, least, most, type)
         = {Span(i + 1, end[i], type) : i \in Starts(t, end)}
  BY DEF Fields, End
<1>. HIDE DEF end
<1>6. PICK i \in Starts(t, end) : s = Span(i + 1, end[i], type)
  BY <1>5
<1>7. i \in 1 .. Len(t) /\ end[i] >= i /\ end[i] \in 0 .. Len(t)
  BY <1>3, StartsAre
<1>8. i + 1 \in 1 .. Len(t) + 1 /\ end[i] \in i + 1 - 1 .. Len(t)
  BY <1>1, <1>7
<1>9. type \in {type} /\ {type} \in SUBSET Types
  OBVIOUS
<1>10. Span(i + 1, end[i], type) \in Within(t, {type})
  <2>1. PICK a, b : a = i + 1 /\ b = end[i]
    OBVIOUS
  <2>2. a \in 1 .. Len(t) + 1 /\ b \in a - 1 .. Len(t)
    BY <1>1, <1>7, <2>1
  <2>3. Span(a, b, type) \in Within(t, {type})
    BY <1>9, <2>2, SpanWithin
  <2>. QED
    BY <2>1, <2>3
<1>11. s.start - 1 = i /\ s.start = i + 1 /\ s.end = end[i]
  BY <1>6, <1>7 DEF Span
<1>12. \A n \in s.start .. s.end : ~IsGroup(t, n)
  BY <1>1, <1>3, <1>7, <1>11, <1>4
<1>13. s.end = RunEnd(t, s.start, most, {})
  <2>1. s.end = End(i)
    BY <1>3, <1>7, <1>11
  <2>. QED
    BY <1>11, <2>1 DEF End
<1>. QED
  BY <1>3, <1>6, <1>7, <1>10, <1>11, <1>12, <1>13 DEF LabelledBy

\* In short.
LEMMA FieldsAre ==
    ASSUME NEW t \in Seq(Words), NEW labels, NEW marks, NEW least \in Nat,
           NEW most \in Nat \ {0}, NEW type \in Types,
           NEW s \in Fields(t, labels, marks, least, most, type)
    PROVE  /\ s \in Within(t, {type})
           /\ s.start - 1 \in 1 .. Len(t) /\ t[s.start - 1].kind \in labels
           /\ s.end >= s.start - 1 + least
           /\ \A n \in s.start .. s.end : ~IsGroup(t, n)
BY FieldsBehind DEF LabelledBy

\* Persons.
LEMMA PersonsAre ==
    ASSUME NEW t \in Seq(Words), NEW s \in Persons(t)
    PROVE  s \in Within(t, {"PERSON"})
<1>1. Len(t) \in Nat /\ DOMAIN t = 1 .. Len(t)
  BY GroupsAre
<1>2. "PERSON" \in Types /\ "PERSON" \in {"PERSON"} /\ {"PERSON"} \in SUBSET Types
  BY TypesAre
<1>3. CASE s \in WholeText(t)
  <2>1. s = Span(1, 3, "PERSON") /\ Len(t) = 3
    BY <1>3 DEF WholeText
  <2>2. 1 \in 1 .. Len(t) + 1 /\ 3 \in 1 - 1 .. Len(t)
    BY <2>1
  <2>. QED
    BY <1>2, <2>1, <2>2, SpanWithin
<1>4. CASE s \in Fields(t, PersonLabels, Separators, 2, 4, "PERSON")
  <2>1. 2 \in Nat /\ 4 \in Nat \ {0}
    OBVIOUS
  <2>. QED
    BY <1>2, <1>4, <2>1, FieldsAre, Zenon
<1>5. CASE s \in Fields(t, {"NAME_PART"}, {":"}, 1, 4, "PERSON")
  <2>1. 1 \in Nat /\ 4 \in Nat \ {0}
    OBVIOUS
  <2>. QED
    BY <1>2, <1>5, <2>1, FieldsAre, Zenon
<1>. QED
  BY <1>3, <1>4, <1>5 DEF Persons, LabelledPersons

\* The types of the other fields in words. What is found has no group of
\* digits in it, but for the house number with which an address may begin, and
\* is not empty, but for an address that begins at its first word.
FieldTypes == {"BIRTH_PLACE", "CITIZENSHIP", "ISSUING_AUTHORITY", "ADDRESS",
               "CARD_HOLDER", "TAIL"}

Worded(t) ==
    {s \in Within(t, FieldTypes) :
        /\ s.type # "ADDRESS" => s.start <= s.end
        /\ s.type = "TAIL" => t[s.start].short
        /\ \A n \in s.start .. s.end :
              IsGroup(t, n) => s.type = "ADDRESS" /\ n = s.start}

\* They are types of labels.
LEMMA FieldTypesAre == FieldTypes \subseteq LabelTypes /\ FieldTypes \in SUBSET Types
BY LabelTypesAre DEF FieldTypes, LabelTypes

\* Fields behind a label.
LEMMA FieldsWorded ==
    ASSUME NEW t \in Seq(Words), NEW labels, NEW marks, NEW least \in Nat \ {0},
           NEW most \in Nat \ {0}, NEW type \in FieldTypes \ {"TAIL"}
    PROVE  Fields(t, labels, marks, least, most, type) \subseteq Worded(t)
<1>1. type \in Types /\ least \in Nat
  BY FieldTypesAre
<1>2. ASSUME NEW s \in Fields(t, labels, marks, least, most, type)
      PROVE  s \in Worded(t)
  <2>1. /\ s \in Within(t, {type}) /\ s.end >= s.start - 1 + least
        /\ \A n \in s.start .. s.end : ~IsGroup(t, n)
    BY <1>1, FieldsAre, Zenon
  <2>2. s \in Within(t, FieldTypes) /\ s.start \in Nat /\ s.end \in Nat
    BY <2>1 DEF Within, Spans
  <2>3. s.start <= s.end /\ s.type = type
    BY <2>1, <2>2 DEF Within
  <2>. QED
    BY <2>1, <2>2, <2>3 DEF Worded
<1>. QED
  BY <1>2

\* Citizenships and authorities.
LEMMA CitizenshipsWorded ==
    ASSUME NEW t \in Seq(Words)
    PROVE  Citizenships(t) \subseteq Worded(t) /\ Authorities(t) \subseteq Worded(t)
<1>1. Len(t) \in Nat /\ DOMAIN t = 1 .. Len(t)
  BY GroupsAre
<1>2. /\ "CITIZENSHIP" \in FieldTypes \ {"TAIL"}
      /\ "ISSUING_AUTHORITY" \in FieldTypes \ {"TAIL"}
      /\ FieldTypes \in SUBSET Types
  BY FieldTypesAre DEF FieldTypes
<1>3. Citizenships(t) \subseteq Worded(t)
  <2>1. Fields(t, {"CITIZENSHIP"}, Separators, 1, 4, "CITIZENSHIP")
           \subseteq Worded(t)
    <3>1. 1 \in Nat \ {0} /\ 4 \in Nat \ {0}
      OBVIOUS
    <3>. QED
      BY <1>2, <3>1, FieldsWorded, Zenon
  <2>2. ASSUME NEW i \in 2 .. Len(t), t[i].kind = "COUNTRY"
        PROVE  Span(i, i, "CITIZENSHIP") \in Worded(t)
    <3>1. i \in 1 .. Len(t) + 1 /\ i \in i - 1 .. Len(t)
      BY <1>1
    <3>2. Span(i, i, "CITIZENSHIP") \in Within(t, FieldTypes)
      BY <1>2, <3>1, SpanWithin
    <3>3. \A n \in i .. i : ~IsGroup(t, n)
      BY <2>2 DEF IsGroup, Kind
    <3>. QED
      BY <3>2, <3>3 DEF Worded, Span
  <2>. QED
    BY <2>1, <2>2 DEF Citizenships
<1>4. ASSUME NEW i \in 2 .. Len(t), t[i].kind = "AUTHORITY"
      PROVE  Span(i, AuthorityBorder(t, i) - 1, "ISSUING_AUTHORITY") \in Worded(t)
  <2>. DEFINE S == {Len(t) + 1} \cup
                  {k \in i + 1 .. Len(t) : t[k - 1].mark = "," \/ t[k].kind \in Borders}
  <2>1. S \subseteq i + 1 .. Len(t) + 1 /\ S # {} /\ S \subseteq Nat
    <3>1. Len(t) + 1 \in i + 1 .. Len(t) + 1
      BY <1>1
    <3>2. \A k \in i + 1 .. Len(t) : k \in i + 1 .. Len(t) + 1
      BY <1>1
    <3>3. i + 1 .. Len(t) + 1 \subseteq Nat
      BY <1>1
    <3>. QED
      BY <3>1, <3>2, <3>3
  <2>2. AuthorityBorder(t, i) = Min(S)
    BY DEF AuthorityBorder
  <2>3. \A k \in i + 1 .. Len(t) : IsGroup(t, k) => k \in S
    BY DEF IsGroup, Kind, Borders
  <2>. HIDE DEF S
  <2>4. Min(S) \in S /\ \A k \in S : Min(S) <= k
    BY <2>1, MinIs
  <2>5. PICK b \in i + 1 .. Len(t) + 1 :
           /\ AuthorityBorder(t, i) = b
           /\ \A k \in S : b <= k
    BY <2>1, <2>2, <2>4
  <2>6. i \in 1 .. Len(t) + 1 /\ b - 1 \in i - 1 .. Len(t) /\ i <= b - 1
    BY <1>1
  <2>7. ASSUME NEW n \in i .. b - 1 PROVE ~IsGroup(t, n)
    <3>1. CASE n = i
      BY <1>4, <3>1 DEF IsGroup, Kind
    <3>2. CASE n # i
      <4>1. n \in i + 1 .. Len(t) /\ ~(b <= n)
        BY <1>1, <3>2
      <4>. QED
        BY <2>3, <2>5, <4>1
    <3>. QED
      BY <3>1, <3>2
  <2>8. Span(i, b - 1, "ISSUING_AUTHORITY") \in Within(t, FieldTypes)
    BY <1>2, <2>6, SpanWithin
  <2>. QED
    BY <2>5, <2>6, <2>7, <2>8 DEF Worded, Span
<1>5. Authorities(t) \subseteq Worded(t)
  BY <1>4 DEF Authorities
<1>. QED
  BY <1>3, <1>5

-----------------------------------------------------------------------------
(* Addresses.                                                              *)

\* First and last words of a value in a text, of which the first may be the
\* number of a house.
InText(t) ==
    {p \in (1 .. Len(t) + 1) \X (0 .. Len(t)) :
        /\ p[1] <= p[2] + 1
        /\ \A n \in p[1] .. p[2] : IsGroup(t, n) => n = p[1]}

\* ... and of a component, which may begin within a short word.
Components(t) ==
    {p \in (1 .. Len(t) + 1) \X (0 .. Len(t)) \X {"ADDRESS", "TAIL"} :
        /\ <<p[1], p[2]>> \in InText(t)
        /\ p[3] = "TAIL" =>
              /\ p[1] <= p[2] /\ t[p[1]].short
              /\ \A n \in p[1] .. p[2] : ~IsGroup(t, n)}

\* The end of the words of an address's component.
LEMMA AddressEndIs ==
    ASSUME NEW t \in Seq(Words), NEW i \in 1 .. Len(t) + 1
    PROVE  /\ AddressEnd(t, i) \in i - 1 .. Len(t)
           /\ AddressEnd(t, i) \in Int
           /\ \A k \in i .. AddressEnd(t, i) : ~IsGroup(t, k)
<1>1. 5 \in Nat \ {0}
  OBVIOUS
<1>2. PICK e : e = AddressEnd(t, i)
  OBVIOUS
<1>3. e \in i - 1 .. Len(t)
  BY <1>1, <1>2, RunEndIn, Zenon DEF AddressEnd
<1>4. e \in Int
  BY <1>3
<1>5. \A k \in i .. e : ~IsGroup(t, k)
  BY <1>1, <1>2, RunWords DEF AddressEnd
<1>. QED
  BY <1>2, <1>3, <1>4, <1>5

\* ... and of those behind a short one.
LEMMA TailEndIs ==
    ASSUME NEW t \in WordTexts, NEW i \in DOMAIN t, t[i].short
    PROVE  TailEnd(t, i) \in i .. Len(t) /\ \A k \in i .. TailEnd(t, i) : ~IsGroup(t, k)
<1>1. t \in Seq(Words) /\ Len(t) \in Nat /\ DOMAIN t = 1 .. Len(t)
  BY GroupsAre DEF WordTexts
<1>2. PICK a, e : a = i + 1 /\ e = RunEnd(t, a, 4, AddressLabels)
  OBVIOUS
<1>3. a \in 1 .. Len(t) + 1 /\ a - 1 = i /\ 4 \in Nat \ {0}
  BY <1>1, <1>2
<1>4. e \in a - 1 .. Len(t)
  BY <1>1, <1>2, <1>3, RunEndIn, Zenon
<1>5. \A k \in a .. e : ~IsGroup(t, k)
  BY <1>1, <1>2, <1>3, RunWords
<1>6. ~IsGroup(t, i)
  BY DEF WordTexts, IsGroup, Kind
<1>7. TailEnd(t, i) = e \/ TailEnd(t, i) = i
  BY <1>2 DEF TailEnd
<1>. QED
  BY <1>1, <1>2, <1>3, <1>4, <1>5, <1>6, <1>7

\* The values of a label are behind it.
LEMMA AddressValuesAre ==
    ASSUME NEW t \in Seq(Words), NEW i \in DOMAIN t, NEW p \in AddressValues(t, i)
    PROVE  p \in InText(t) /\ p[2] >= i
<1>1. Len(t) \in Nat /\ DOMAIN t = 1 .. Len(t)
  BY GroupsAre
<1>2. \/ p = <<i + 1, AddressEnd(t, i + 1)>>
      \/ HouseNumber(t, i + 1) /\ p = <<i + 1, AddressEnd(t, i + 2)>>
         /\ AddressEnd(t, i + 2) > i + 1
  BY DEF AddressValues
<1>3. CASE p = <<i + 1, AddressEnd(t, i + 1)>>
  <2>1. i + 1 \in 1 .. Len(t) + 1
    BY <1>1
  <2>2. AddressEnd(t, i + 1) \in i + 1 - 1 .. Len(t)
    BY <2>1, AddressEndIs
  <2>3. PICK e \in i .. Len(t) : e = AddressEnd(t, i + 1)
    BY <1>1, <2>2
  <2>4. \A k \in i + 1 .. e : ~IsGroup(t, k)
    BY <2>1, <2>3, AddressEndIs
  <2>. QED
    BY <1>1, <1>3, <2>3, <2>4 DEF InText
<1>4. CASE /\ HouseNumber(t, i + 1) /\ p = <<i + 1, AddressEnd(t, i + 2)>>
           /\ AddressEnd(t, i + 2) > i + 1
  <2>1. i + 1 \in 1 .. Len(t)
    BY <1>1, <1>4 DEF HouseNumber, Kind
  <2>2. i + 2 \in 1 .. Len(t) + 1
    BY <1>1, <2>1
  <2>3. AddressEnd(t, i + 2) \in i + 2 - 1 .. Len(t)
    BY <2>2, AddressEndIs
  <2>4. PICK e \in i + 1 .. Len(t) : e = AddressEnd(t, i + 2)
    BY <1>1, <2>3
  <2>5. \A k \in i + 2 .. e : ~IsGroup(t, k)
    BY <2>2, <2>4, AddressEndIs
  <2>6. \A k \in i + 1 .. e : IsGroup(t, k) => k = i + 1
    BY <1>1, <2>4, <2>5
  <2>. QED
    BY <1>1, <1>4, <2>4, <2>6 DEF InText
<1>. QED
  BY <1>2, <1>3, <1>4

\* A component is in the text and ends at its label or behind it, so that the
\* search for the next one goes on.
LEMMA ComponentIs ==
    ASSUME NEW t \in WordTexts, NEW i \in 1 .. Len(t) + 1, NEW p \in Component(t, i)
    PROVE  i \in DOMAIN t /\ p \in Components(t) /\ p[2] >= i
<1>1. t \in Seq(Words) /\ Len(t) \in Nat /\ DOMAIN t = 1 .. Len(t)
  BY GroupsAre DEF WordTexts
<1>2. i \in DOMAIN t
  BY DEF Component, LabelledComponent, Kind
<1>3. CASE t[i].short
  <2>1. p = <<i, TailEnd(t, i), "TAIL">>
    BY <1>2, <1>3 DEF Component
  <2>2. PICK e \in i .. Len(t) : e = TailEnd(t, i) /\ \A k \in i .. e : ~IsGroup(t, k)
    BY <1>2, <1>3, TailEndIs
  <2>. QED
    BY <1>1, <1>2, <1>3, <2>1, <2>2 DEF InText, Components
<1>4. CASE ~t[i].short
  <2>1. p \in LabelledComponent(t, i)
    BY <1>4 DEF Component
  <2>2. \A a \in 1 .. Len(t) + 1, b \in 0 .. Len(t) :
           <<a, b>> \in InText(t) => <<a, b, "ADDRESS">> \in Components(t)
    BY DEF Components
  <2>3. CASE t[i].kind = "HOUSE"
    <3>1. HouseNumber(t, i + 1) /\ p = <<i + 1, i + 1, "ADDRESS">>
      BY <2>1, <2>3 DEF LabelledComponent
    <3>2. i + 1 \in 1 .. Len(t)
      BY <1>1, <3>1 DEF HouseNumber, Kind
    <3>3. <<i + 1, i + 1>> \in InText(t)
      BY <1>1, <3>2 DEF InText
    <3>. QED
      BY <1>1, <1>2, <2>2, <3>1, <3>2, <3>3
  <2>4. CASE t[i].kind # "HOUSE"
    <3>1. \E q \in AddressValues(t, i) \cup {<<i + 1, i>>} : p = <<q[1], q[2], "ADDRESS">>
      BY <2>1, <2>4 DEF LabelledComponent
    <3>2. PICK q \in AddressValues(t, i) \cup {<<i + 1, i>>} :
             p = <<q[1], q[2], "ADDRESS">>
      BY <3>1
    <3>3. q \in InText(t) /\ q[2] >= i
      <4>1. CASE q = <<i + 1, i>>
        BY <1>1, <1>2, <4>1 DEF InText
      <4>. QED
        BY <1>1, <1>2, <3>2, <4>1, AddressValuesAre
    <3>4. q[1] \in 1 .. Len(t) + 1 /\ q[2] \in 0 .. Len(t) /\ q = <<q[1], q[2]>>
      BY <3>3 DEF InText
    <3>. QED
      BY <1>1, <1>2, <2>2, <3>2, <3>3, <3>4
  <2>. QED
    BY <2>3, <2>4
<1>. QED
  BY <1>3, <1>4

\* A chain consists of components that stand nowhere before its first.
LEMMA ChainOf ==
    ASSUME NEW t \in WordTexts, NEW i \in DOMAIN t, NEW X,
           \A k \in i .. Len(t) + 1 : Component(t, k) \subseteq X
    PROVE  Chain(t, i) \subseteq X
<1>. DEFINE m == Len(t) + 1
            Goes(p) == GoesOn(t, p[2])
            own == [k \in i .. m |-> Component(t, k)]
            next == [k \in i .. m |-> {p[2] + 1 : p \in {q \in Component(t, k) : Goes(q)}}]
            Body(f, k) ==
                UNION {{p} \cup IF Goes(p) THEN f[p[2] + 1] ELSE {} :
                          p \in Component(t, k)}
            h == CHOOSE f : f = [k \in i .. m |-> Body(f, k)]
<1>1. /\ t \in Seq(Words) /\ Len(t) \in Nat /\ DOMAIN t = 1 .. Len(t)
      /\ i \in Nat /\ m \in Nat /\ i \in i .. m /\ i \in 1 .. Len(t)
  <2>1. t \in Seq(Words) /\ Len(t) \in Nat /\ DOMAIN t = 1 .. Len(t)
    BY GroupsAre DEF WordTexts
  <2>. QED
    BY <2>1
<1>2. ASSUME NEW k \in i .. m, NEW p \in Component(t, k)
      PROVE  p \in Components(t) /\ p[2] >= k
  <2>1. k \in 1 .. Len(t) + 1
    BY <1>1
  <2>. QED
    BY <2>1, ComponentIs
<1>3. Forward(next, i, m)
  <2>1. ASSUME NEW k \in i .. m, NEW p \in Component(t, k), Goes(p)
        PROVE  p[2] + 1 \in k + 1 .. m
    <3>1. p[2] >= k /\ p[2] \in 1 .. Len(t)
      BY <1>1, <1>2, <2>1 DEF GoesOn
    <3>. QED
      BY <1>1, <3>1
  <2>. HIDE DEF Goes
  <2>. QED
    BY <2>1 DEF Forward
<1>4. SubsetsOf(own, X, i, m)
  BY DEF SubsetsOf
<1>5. ASSUME NEW f, NEW k \in i .. m
      PROVE  own[k] \cup UNION {f[j] : j \in next[k]} = Body(f, k)
  <2>1. /\ own[k] = Component(t, k)
        /\ next[k] = {p[2] + 1 : p \in {q \in Component(t, k) : Goes(q)}}
    OBVIOUS
  <2>. HIDE DEF own, next, Goes
  <2>2. UNION {f[j] : j \in next[k]}
           = UNION {f[p[2] + 1] : p \in {q \in Component(t, k) : Goes(q)}}
    BY <2>1
  <2>. QED
    BY <2>1, <2>2
<1>. HIDE DEF own, next, Body
<1>6. ASSUME NEW f
      PROVE  Gathers(f, own, next, i, m) <=> f = [k \in i .. m |-> Body(f, k)]
  BY <1>5 DEF Gathers
<1>7. Gathers(h, own, next, i, m)
  <2>1. PICK f : Gathers(f, own, next, i, m)
    BY <1>1, <1>3, GatherExists, Zenon
  <2>2. h = [k \in i .. m |-> Body(h, k)]
    BY <1>6, <2>1
  <2>. QED
    BY <1>6, <2>2
<1>8. Chain(t, i) = h[i]
  BY DEF Chain, Body
<1>. HIDE DEF h
<1>9. SubsetsOf(h, X, i, m)
  BY <1>1, <1>3, <1>4, <1>7, GatherIn, Zenon
<1>. QED
  BY <1>1, <1>8, <1>9 DEF SubsetsOf

\* The components that follow each other are all in the text.
LEMMA ChainIs ==
    ASSUME NEW t \in WordTexts, NEW i \in DOMAIN t
    PROVE  Chain(t, i) \subseteq Components(t) /\ ChainEnd(t, i) \in 0 .. Len(t)
<1>1. t \in Seq(Words) /\ Len(t) \in Nat /\ DOMAIN t = 1 .. Len(t)
  BY GroupsAre DEF WordTexts
<1>2. \A k \in i .. Len(t) + 1 : Component(t, k) \subseteq Components(t)
  <2>1. \A k \in i .. Len(t) + 1 : k \in 1 .. Len(t) + 1
    BY <1>1
  <2>. QED
    BY <2>1, ComponentIs
<1>9. Chain(t, i) \subseteq Components(t)
  BY <1>2, ChainOf
<1>10. ChainEnd(t, i) \in 0 .. Len(t)
  <2>. DEFINE S == {0} \cup {p[2] : p \in Chain(t, i)}
  <2>1. S \subseteq 0 .. Len(t) /\ S # {}
    <3>1. \A p \in Components(t) : p[2] \in 0 .. Len(t)
      BY DEF Components
    <3>. QED
      BY <1>1, <1>9, <3>1
  <2>2. S \subseteq Int /\ Len(t) \in Int /\ \A x \in S : x <= Len(t)
    BY <1>1, <2>1
  <2>3. ChainEnd(t, i) = Max(S)
    BY DEF ChainEnd
  <2>. HIDE DEF S
  <2>4. Max(S) \in S
    BY <2>1, <2>2, MaxIs, Zenon
  <2>. QED
    BY <2>1, <2>3, <2>4
<1>. QED
  BY <1>9, <1>10

\* House, street and city in the English order.
LEMMA EnglishValuesAre ==
    ASSUME NEW t \in Seq(Words), NEW i \in DOMAIN t
    PROVE  EnglishValues(t, i) \subseteq InText(t)
<1>. DEFINE roads == {k \in i + 2 .. RunEnd(t, i + 1, 6, {}) : t[k].kind = "ROAD"}
            city == RunEnd(t, Max(roads) + 1, 4, {})
<1>1. Len(t) \in Nat /\ DOMAIN t = 1 .. Len(t) /\ i \in 1 .. Len(t)
  BY GroupsAre
<1>2. /\ RunEnd(t, i + 1, 6, {}) \in i .. Len(t)
      /\ \A k \in i + 1 .. RunEnd(t, i + 1, 6, {}) : ~IsGroup(t, k)
  <2>1. i + 1 \in 1 .. Len(t) + 1 /\ 6 \in Nat \ {0}
    BY <1>1
  <2>2. /\ RunEnd(t, i + 1, 6, {}) \in i + 1 - 1 .. Len(t)
        /\ \A k \in i + 1 .. RunEnd(t, i + 1, 6, {}) : ~IsGroup(t, k)
    BY <2>1, RunEndIs, RunWords
  <2>. QED
    BY <1>1, <2>2
<1>3. roads \subseteq i + 2 .. Len(t) /\ roads \subseteq i + 2 .. RunEnd(t, i + 1, 6, {})
  BY <1>1, <1>2
<1>4. SUFFICES ASSUME roads # {} PROVE EnglishValues(t, i) \subseteq InText(t)
  BY DEF EnglishValues
<1>5. Max(roads) \in i + 2 .. Len(t) /\ Max(roads) <= RunEnd(t, i + 1, 6, {})
  <2>1. roads \subseteq Int /\ Len(t) \in Int /\ \A x \in roads : x <= Len(t)
    BY <1>1, <1>3
  <2>. HIDE DEF roads
  <2>2. Max(roads) \in roads
    BY <1>4, <2>1, MaxIs, Zenon
  <2>3. PICK r, e : r = Max(roads) /\ e = RunEnd(t, i + 1, 6, {})
    OBVIOUS
  <2>4. r \in i + 2 .. Len(t) /\ r \in i + 2 .. e /\ e \in i .. Len(t)
    BY <1>2, <1>3, <2>2, <2>3
  <2>5. r <= e
    BY <1>1, <2>4
  <2>. QED
    BY <2>3, <2>4, <2>5
<1>. HIDE DEF roads
<1>6. /\ city \in Max(roads) .. Len(t)
      /\ \A k \in Max(roads) + 1 .. city : ~IsGroup(t, k)
  <2>1. PICK r : r = Max(roads) + 1
    OBVIOUS
  <2>2. r \in 1 .. Len(t) + 1 /\ 4 \in Nat \ {0}
    BY <1>1, <1>5, <2>1
  <2>3. city \in r - 1 .. Len(t) /\ \A k \in r .. city : ~IsGroup(t, k)
    BY <2>1, <2>2, RunEndIs, RunWords
  <2>. QED
    BY <1>1, <1>5, <2>1, <2>3
<1>7. EnglishValues(t, i) \subseteq
         {<<i, i>>, <<i + 1, Max(roads) - 1>>} \cup
         IF city > Max(roads) THEN {<<Max(roads) + 1, city>>} ELSE {}
  BY DEF EnglishValues, roads
<1>. HIDE DEF city
<1>8. PICK r \in i + 2 .. Len(t), c \in Int :
         r = Max(roads) /\ c = city /\ c >= r /\ c <= Len(t)
  BY <1>1, <1>5, <1>6
<1>9. <<i, i>> \in InText(t) /\ <<i + 1, r - 1>> \in InText(t)
  <2>1. \A n \in i + 1 .. r - 1 : ~IsGroup(t, n)
    BY <1>1, <1>2, <1>5, <1>8
  <2>. QED
    BY <1>1, <2>1 DEF InText
<1>10. <<r + 1, c>> \in InText(t)
  BY <1>1, <1>6, <1>8 DEF InText
<1>. QED
  BY <1>7, <1>8, <1>9, <1>10

\* Addresses.
LEMMA AddressesWorded ==
    ASSUME NEW t \in WordTexts
    PROVE  Addresses(t) \subseteq Worded(t)
<1>. DEFINE end == [k \in DOMAIN t |-> ChainEnd(t, k)]
            chains == {i \in Starts(t, end) : AddressValid(t, i)}
            others == {i \in DOMAIN t : ~Public(t, i)}
            parts == UNION {Chain(t, i) : i \in chains}
            values == UNION {LabelledValues(t, i) \cup EnglishValues(t, i) :
                                i \in others}
<1>1. t \in Seq(Words) /\ Len(t) \in Nat /\ DOMAIN t = 1 .. Len(t)
  BY GroupsAre DEF WordTexts
<1>2. \A i \in 1 .. Len(t) : end[i] \in 0 .. Len(t)
  BY <1>1, ChainIs
<1>3. Addresses(t) =
         {Span(p[1], p[2], p[3]) : p \in parts}
         \cup {Span(p[1], p[2], "ADDRESS") : p \in values}
         \cup {s \in Fields(t, {"LIVES"}, {""}, 1, 4, "ADDRESS") :
                  s.start - 1 \in others}
  BY DEF Addresses
<1>. HIDE DEF end
<1>4. Starts(t, end) \subseteq DOMAIN t
  BY <1>1, <1>2, StartsAre
<1>5. ASSUME NEW i \in DOMAIN t PROVE LabelledValues(t, i) \subseteq InText(t)
  <2>1. \A p \in AddressValues(t, i) : p \in InText(t)
    BY <1>1, AddressValuesAre
  <2>2. HouseNumber(t, i + 1) => <<i + 1, i + 1>> \in InText(t)
    <3>1. HouseNumber(t, i + 1) => i + 1 \in 1 .. Len(t)
      BY <1>1 DEF HouseNumber, Kind
    <3>. QED
      BY <1>1, <3>1 DEF InText
  <2>. QED
    BY <2>1, <2>2 DEF LabelledValues
<1>6. \A i \in DOMAIN t : /\ Chain(t, i) \subseteq Components(t)
                          /\ EnglishValues(t, i) \subseteq InText(t)
  BY <1>1, ChainIs, EnglishValuesAre
<1>7. values \subseteq InText(t) /\ parts \subseteq Components(t)
  BY <1>4, <1>5, <1>6
<1>8. /\ "ADDRESS" \in FieldTypes \ {"TAIL"} /\ "TAIL" \in FieldTypes
      /\ FieldTypes \in SUBSET Types
  BY FieldTypesAre DEF FieldTypes
<1>9. \A p \in InText(t) : Span(p[1], p[2], "ADDRESS") \in Worded(t)
  <2>1. ASSUME NEW p \in InText(t) PROVE Span(p[1], p[2], "ADDRESS") \in Worded(t)
    <3>1. p[1] \in 1 .. Len(t) + 1 /\ p[2] \in p[1] - 1 .. Len(t)
      BY <1>1 DEF InText
    <3>2. Span(p[1], p[2], "ADDRESS") \in Within(t, FieldTypes)
      BY <1>1, <1>8, <3>1, SpanWithin
    <3>. QED
      BY <3>2 DEF Worded, Span, InText
  <2>. QED
    BY <2>1
<1>10. \A p \in Components(t) : Span(p[1], p[2], p[3]) \in Worded(t)
  <2>1. ASSUME NEW p \in Components(t) PROVE Span(p[1], p[2], p[3]) \in Worded(t)
    <3>1. /\ p[1] \in 1 .. Len(t) + 1 /\ p[2] \in 0 .. Len(t)
          /\ p[3] \in {"ADDRESS", "TAIL"} /\ <<p[1], p[2]>> \in InText(t)
      BY DEF Components
    <3>2. CASE p[3] = "ADDRESS"
      <4>1. PICK q : q = <<p[1], p[2]>>
        OBVIOUS
      <4>2. q \in InText(t) /\ q[1] = p[1] /\ q[2] = p[2]
        BY <3>1, <4>1
      <4>. QED
        BY <1>9, <3>2, <4>2
    <3>3. CASE p[3] = "TAIL"
      <4>1. /\ p[1] <= p[2] /\ t[p[1]].short
            /\ \A n \in p[1] .. p[2] : ~IsGroup(t, n)
        BY <3>3 DEF Components
      <4>2. p[2] \in p[1] - 1 .. Len(t)
        BY <1>1, <3>1, <4>1
      <4>3. Span(p[1], p[2], "TAIL") \in Within(t, FieldTypes)
        BY <1>1, <1>8, <3>1, <4>2, SpanWithin
      <4>. QED
        BY <3>3, <4>1, <4>3 DEF Worded, Span
    <3>. QED
      BY <3>1, <3>2, <3>3
  <2>. QED
    BY <2>1
<1>11. Fields(t, {"LIVES"}, {""}, 1, 4, "ADDRESS") \subseteq Worded(t)
  <2>1. 1 \in Nat \ {0} /\ 4 \in Nat \ {0}
    OBVIOUS
  <2>. QED
    BY <1>1, <1>8, <2>1, FieldsWorded, Zenon
<1>. HIDE DEF values, parts
<1>. QED
  BY <1>3, <1>7, <1>9, <1>10, <1>11

-----------------------------------------------------------------------------
(* All detectors.                                                          *)

\* What is found is a number, a field, a name or an electronic address.
LEMMA FoundAre ==
    ASSUME NEW t \in WordTexts
    PROVE  Found(t) \subseteq NumberSpans(t) \cup Worded(t) \cup Persons(t)
                              \cup Emails(t)
<1>1. t \in Seq(Words)
  BY DEF WordTexts
<1>2. /\ Fields(t, {"BIRTH_PLACE"}, Separators, 1, 4, "BIRTH_PLACE") \subseteq Worded(t)
      /\ Fields(t, {"CARD_HOLDER"}, Separators, 2, 4, "CARD_HOLDER") \subseteq Worded(t)
  <2>1. 1 \in Nat \ {0} /\ 2 \in Nat \ {0} /\ 4 \in Nat \ {0}
    OBVIOUS
  <2>2. /\ "BIRTH_PLACE" \in FieldTypes \ {"TAIL"}
        /\ "CARD_HOLDER" \in FieldTypes \ {"TAIL"}
    BY DEF FieldTypes
  <2>. QED
    BY <1>1, <2>1, <2>2, FieldsWorded, Zenon
<1>3. Found(t) \subseteq NumberSpans(t) \cup Emails(t) \cup FieldSpans(t)
  BY DEF Found
<1>4. /\ Citizenships(t) \cup Authorities(t) \subseteq Worded(t)
      /\ Addresses(t) \subseteq Worded(t)
  BY <1>1, CitizenshipsWorded, AddressesWorded
<1>5. FieldSpans(t) \subseteq Persons(t) \cup Worded(t)
  BY <1>2, <1>4 DEF FieldSpans
<1>. QED
  BY <1>3, <1>5

\* ... and all but names and electronic addresses has a label's type.
LEMMA FoundIs ==
    ASSUME NEW t \in WordTexts, NEW s \in Found(t)
    PROVE  \/ s \in Within(t, LabelTypes)
           \/ s \in Persons(t)
           \/ s \in Emails(t)
<1>1. t \in Seq(Words)
  BY DEF WordTexts
<1>2. NumberSpans(t) \subseteq Within(t, LabelTypes)
  BY <1>1, NumberSpansWithin DEF NumberTypes, Within
<1>3. Worded(t) \subseteq Within(t, LabelTypes)
  BY FieldTypesAre DEF Worded, Within
<1>. QED
  BY <1>2, <1>3, FoundAre

\* An address within a word is one of the fields in words.
LEMMA TailsAre ==
    ASSUME NEW t \in WordTexts, NEW s \in Found(t), s.type = "TAIL"
    PROVE  s \in Worded(t) /\ t[s.start].short /\ \A n \in s.start .. s.end : ~IsGroup(t, n)
<1>1. t \in Seq(Words)
  BY DEF WordTexts
<1>2. s \notin NumberSpans(t)
  BY <1>1, NumberSpansWithin DEF NumberTypes, Within
<1>3. s \notin Persons(t) /\ s \notin Emails(t)
  BY <1>1, PersonsAre, EmailsAre DEF Within
<1>4. s \in Worded(t)
  BY <1>2, <1>3, FoundAre
<1>. QED
  BY <1>4 DEF Worded

\* All of it is in the text.
LEMMA FoundWithin ==
    ASSUME NEW t \in WordTexts
    PROVE  Found(t) \subseteq Within(t, Types)
<1>1. t \in Seq(Words)
  BY DEF WordTexts
<1>2. LabelTypes \subseteq Types /\ "PERSON" \in Types /\ "EMAIL" \in Types
  BY TypesAre DEF LabelTypes
<1>3. ASSUME NEW s \in Found(t) PROVE s \in Within(t, Types)
  <2>1. \/ s \in Within(t, LabelTypes) \/ s \in Within(t, {"PERSON"})
        \/ s \in Within(t, {"EMAIL"})
    BY <1>1, FoundIs, PersonsAre, EmailsAre
  <2>. QED
    BY <1>2, <2>1 DEF Within
<1>. QED
  BY <1>3

\* So is an entity of NER.
LEMMA NamesWithin ==
    ASSUME NEW t \in WordTexts, NEW s \in Names(t)
    PROVE  s \in Within(t, Types) /\ s.type \in {"PERSON", "LOCATION"}
<1>1. Len(t) \in Nat /\ DOMAIN t = 1 .. Len(t)
  BY GroupsAre DEF WordTexts
<1>2. "PERSON" \in Types /\ "LOCATION" \in Types
  BY TypesAre
<1>3. s.type \in Types
  BY <1>2 DEF Names
<1>4. /\ s.start \in 1 .. Len(t) /\ s.end \in 1 .. Len(t) /\ s.start <= s.end
      /\ s.type \in {"PERSON", "LOCATION"}
      /\ s = [start |-> s.start, end |-> s.end, type |-> s.type]
  BY <1>1 DEF Names
<1>5. s \in Spans
  BY <1>1, <1>3, <1>4 DEF Spans
<1>6. /\ s.start \in Nat /\ s.end \in Nat
      /\ s.start >= 1 /\ s.start <= s.end + 1 /\ s.end <= Len(t)
  BY <1>1, <1>4
<1>. QED
  BY <1>3, <1>4, <1>5, <1>6 DEF Within

\* Spans in a text are finitely many.
LEMMA WithinIsFinite ==
    ASSUME NEW t \in Seq(Words)
    PROVE  IsFiniteSet(Within(t, Types))
<1>1. Len(t) \in Nat
  BY LenProperties
<1>. DEFINE I == 0 .. Len(t) + 1
            P == I \X (I \X (1 .. 19))
            f == [s \in Within(t, Types) |-> <<s.start, <<s.end, Rank(s)>>>>]
<1>2. IsFiniteSet(P)
  <2>1. IsFiniteSet(I) /\ IsFiniteSet(1 .. 19)
    <3>1. 0 \in Int /\ Len(t) + 1 \in Int /\ 1 \in Int /\ 19 \in Int
      BY <1>1
    <3>. QED
      BY <3>1, FS_Interval, Zenon
  <2>. HIDE DEF I
  <2>. QED
    BY <2>1, FS_Product
<1>3. ASSUME NEW s \in Within(t, Types)
      PROVE  <<s.start, <<s.end, Rank(s)>>>> \in P
  <2>1. s \in Spans /\ s.start \in I /\ s.end \in I
    BY <1>1 DEF Within, Spans
  <2>2. Rank(s) \in 1 .. 19
    BY <2>1, Ranked
  <2>. QED
    BY <2>1, <2>2
<1>4. ASSUME NEW r \in Within(t, Types), NEW s \in Within(t, Types),
             <<r.start, <<r.end, Rank(r)>>>> = <<s.start, <<s.end, Rank(s)>>>>
      PROVE  r = s
  <2>1. r \in Spans /\ s \in Spans
    BY DEF Within
  <2>2. r.start = s.start /\ r.end = s.end /\ Rank(r) = Rank(s)
    BY <1>4
  <2>3. r.type = s.type
    <3>1. DetectorOrder[Rank(r)] = r.type /\ DetectorOrder[Rank(s)] = s.type
      BY <2>1, Ranked
    <3>. QED
      BY <2>2, <3>1
  <2>. QED
    BY <2>1, <2>2, <2>3 DEF Spans
<1>5. f \in Injection(Within(t, Types), P)
  <2>1. f \in [Within(t, Types) -> P]
    BY <1>3
  <2>2. \A r, s \in Within(t, Types) : f[r] = f[s] => r = s
    BY <1>4
  <2>. QED
    BY <2>1, <2>2 DEF Injection, IsInjective
<1>. HIDE DEF f, P
<1>. QED
  BY <1>2, <1>5, FS_Injection

-----------------------------------------------------------------------------
(* What is found and accepted in every state.                              *)

\* Nothing is found before the detectors have run; then it is all that they
\* find in the text, and NER adds one entity at most.
DetectedOnce ==
    IF step = "detect" THEN found = {} /\ entities = {}
    ELSE /\ found = Found(text)
         /\ entities = {} \/ \E s \in Names(text) : entities = {s}

\* What is accepted is what the resolution returns of all that.
ResolvedOnce ==
    accepted = IF step = "done" THEN Resolved(found \cup entities) ELSE {}

IInv ==
    /\ text \in WordTexts /\ step \in {"detect", "resolve", "done"}
    /\ DetectedOnce /\ ResolvedOnce

\* The initial states.
LEMMA InitIInv == Init => IInv
BY TextsAssumption DEF Init, IInv, DetectedOnce, ResolvedOnce

\* The steps.
LEMMA StepIInv == IInv /\ [Next]_vars => IInv'
<1>1. SUFFICES ASSUME IInv, [Next]_vars PROVE IInv'
  OBVIOUS
<1>2. CASE Detect
  BY <1>1, <1>2 DEF Detect, IInv, DetectedOnce, ResolvedOnce
<1>3. CASE Resolve
  BY <1>1, <1>3 DEF Resolve, IInv, DetectedOnce, ResolvedOnce
<1>4. CASE UNCHANGED vars
  BY <1>1, <1>4 DEF vars, IInv, DetectedOnce, ResolvedOnce
<1>. QED
  BY <1>1, <1>2, <1>3, <1>4 DEF Next

\* Spec keeps them.
THEOREM Invariance == Spec => []IInv
<1>. QED
  BY InitIInv, StepIInv, PTL DEF Spec

\* All spans are in the text, and finitely many.
LEMMA SpansInText ==
    ASSUME IInv
    PROVE  /\ found \cup entities \subseteq Within(text, Types)
           /\ found \cup entities \in SUBSET Spans
           /\ IsFiniteSet(found \cup entities)
           /\ found \in SUBSET Spans /\ IsFiniteSet(found)
<1>1. text \in WordTexts /\ text \in Seq(Words)
  BY DEF IInv, WordTexts
<1>2. found \subseteq Within(text, Types)
  BY <1>1, FoundWithin DEF IInv, DetectedOnce
<1>3. entities \subseteq Within(text, Types)
  BY <1>1, NamesWithin DEF IInv, DetectedOnce
<1>4. Within(text, Types) \subseteq Spans
  BY DEF Within
<1>5. \A S \in SUBSET Within(text, Types) : IsFiniteSet(S)
  BY <1>1, WithinIsFinite, FS_Subset
<1>. QED
  BY <1>2, <1>3, <1>4, <1>5

\* What is accepted is settled.
LEMMA AcceptedIsSettled ==
    ASSUME IInv, step = "done"
    PROVE  Settled(accepted, found \cup entities)
BY SpansInText, ResolvedSettles DEF IInv, ResolvedOnce

\* Spans are where the text is, whatever the detectors' patterns match, and
\* only those are accepted that some detector found.
THEOREM TypeCorrect == Spec => []TypeOK
<1>1. ASSUME IInv PROVE TypeOK
  <2>1. found \cup entities \subseteq Within(text, Types)
    BY <1>1, SpansInText
  <2>2. accepted \subseteq entities \cup found
    <3>1. CASE step = "done"
      BY <1>1, <3>1, AcceptedIsSettled DEF Settled
    <3>2. CASE step # "done"
      BY <1>1, <3>2 DEF IInv, ResolvedOnce
    <3>. QED
      BY <3>1, <3>2
  <2>. QED
    BY <1>1, <2>1, <2>2 DEF TypeOK, IInv, Within
<1>. QED
  BY <1>1, Invariance, PTL

-----------------------------------------------------------------------------
(* Codes with a label.                                                     *)

\* An address within a word covers no group of digits.
LEMMA GroupsElsewhere ==
    ASSUME IInv, NEW s \in found \cup entities, NEW i, IsGroup(text, i),
           s.start <= i, i <= s.end
    PROVE  s.type # "TAIL"
<1>1. text \in WordTexts
  BY DEF IInv
<1>2. text \in Seq(Words) /\ i \in Nat /\ s \in Spans
  BY <1>1, SpansInText, GroupsAre DEF WordTexts
<1>3. s \in entities => s.type # "TAIL"
  BY <1>1, NamesWithin DEF IInv, DetectedOnce
<1>4. s \in found => s \in Found(text)
  BY DEF IInv, DetectedOnce
<1>5. s.type = "TAIL" => \A n \in s.start .. s.end : ~IsGroup(text, n)
  BY <1>1, <1>3, <1>4, TailsAre
<1>. QED
  BY <1>2, <1>5 DEF Spans

\* A span of one group is masked, if not by itself then by what is accepted in
\* its place.
LEMMA WordIsMasked ==
    ASSUME IInv, step = "done", NEW s \in found \cup entities, s.start = s.end,
           IsGroup(text, s.start)
    PROVE  Masked(s.start)
<1>1. /\ s \in Spans /\ \A t \in found \cup entities : t \in Spans
      /\ accepted \subseteq found \cup entities
  BY SpansInText, AcceptedIsSettled DEF Settled
<1>2. PICK t \in accepted : t.start <= s.start /\ s.start <= t.end
  <2>1. CASE s \in accepted
    BY <1>1, <2>1 DEF Spans
  <2>2. CASE s \notin accepted
    <3>1. PICK t \in accepted : Overlap(t, s)
      BY <2>2, AcceptedIsSettled DEF Settled
    <3>. QED
      BY <3>1 DEF Overlap
  <2>. QED
    BY <2>1, <2>2
<1>3. t.type # "TAIL"
  BY <1>1, <1>2, GroupsElsewhere
<1>. QED
  BY <1>2, <1>3 DEF Masked, Masks

\* One of the n words before a word is in its window.
LEMMA InWindow ==
    ASSUME NEW t \in Seq(Words), NEW i \in DOMAIN t, NEW n \in Nat,
           NEW j \in 1 .. n, i - j \in DOMAIN t
    PROVE  i - j \in Window(t, i, n)
<1>1. /\ Len(t) \in Nat /\ DOMAIN t = 1 .. Len(t)
      /\ i \in 1 .. Len(t) /\ i - j \in 1 .. i - 1
  BY GroupsAre
<1>2. PICK a \in Int : a = i - j
  BY <1>1
<1>. DEFINE K == {k \in a .. i - 1 : ~JoinedToLast(t, k)}
<1>3. Cardinality(K) <= n
  <2>1. IsFiniteSet(a .. i - 1) /\ Cardinality(a .. i - 1) = j
    <3>1. i - 1 \in Int /\ i - 1 - a + 1 = j /\ ~(a > i - 1)
      BY <1>1, <1>2
    <3>. QED
      BY <1>2, <3>1, FS_Interval
  <2>2. K \in SUBSET (a .. i - 1)
    OBVIOUS
  <2>. HIDE DEF K
  <2>3. Cardinality(K) <= j
    BY <2>1, <2>2, FS_Subset
  <2>4. Cardinality(K) \in Nat
    BY <2>1, <2>2, FS_Subset, FS_CardinalityType
  <2>. QED
    BY <2>3, <2>4
<1>. QED
  BY <1>1, <1>2, <1>3 DEF Window

\* A code or PIN with its label next to it or one word away is masked in every
\* text, whatever other detector or entity claims the same digits.
THEOREM CodesMasked == Spec => []LabelledCodesMasked
<1>1. ASSUME IInv PROVE LabelledCodesMasked
  <2>1. SUFFICES ASSUME NEW i \in DOMAIN text, NEW j \in 1 .. 2,
                        IsGroup(text, i), i - j \in DOMAIN text, step = "done",
                        \/ Len(text[i].digits) = 3 /\ text[i - j].kind = "CVV"
                        \/ Len(text[i].digits) = 4 /\ text[i - j].kind = "PIN"
                 PROVE  Masked(i)
    <3>1. \A i \in DOMAIN text : \A k \in i .. i : k = i
      BY <1>1, GroupsAre DEF IInv, WordTexts
    <3>. QED
      BY <3>1 DEF LabelledCodesMasked, AllMasked
  <2>2. PICK type \in {"CVV", "PIN"} :
           /\ text[i - j].kind = type
           /\ Len(text[i].digits) = IF type = "CVV" THEN 3 ELSE 4
    BY <2>1
  <2>3. i - j \in Window(text, i, 2)
    <3>1. text \in Seq(Words) /\ 2 \in Nat
      BY <1>1 DEF IInv, WordTexts
    <3>. QED
      BY <2>1, <3>1, InWindow, Zenon
  <2>4. Near(text, i, 2, {type})
    BY <2>2, <2>3 DEF Near
  <2>5. Span(i, i, type) \in Found(text)
    <3>1. Span(i, i, type) \in Codes(text, type, IF type = "CVV" THEN 3 ELSE 4)
      BY <2>1, <2>2, <2>4 DEF Codes
    <3>2. Span(i, i, type) \in NumberSpans(text)
      BY <2>2, <3>1 DEF NumberSpans
    <3>. QED
      BY <2>1, <3>2 DEF Found
  <2>6. Span(i, i, type) \in found \cup entities
    BY <1>1, <2>1, <2>5 DEF IInv, DetectedOnce
  <2>. QED
    BY <1>1, <2>1, <2>6, WordIsMasked DEF Span
<1>. QED
  BY <1>1, Invariance, PTL

-----------------------------------------------------------------------------
(* NER only adds to what is masked.                                        *)

\* The types with a priority no higher than that of an entity.
Weak(s) == s.type \in {"PERSON", "EMAIL"}

\* They go behind all others that a detector finds.
LEMMA Weaker ==
    ASSUME NEW t \in WordTexts, NEW s \in Found(t)
    PROVE  s \in Spans /\ (Weak(s) => Priority(s) <= 20) /\ (~Weak(s) => Priority(s) > 20)
<1>1. t \in Seq(Words)
  BY DEF WordTexts
<1>2. s \in Spans
  BY FoundWithin DEF Within
<1>3. Weak(s) => Priority(s) <= 20
  BY DEF Weak, Priority
<1>4. ASSUME ~Weak(s) PROVE Priority(s) > 20
  <2>1. s \in Within(t, LabelTypes)
    BY <1>1, <1>4, FoundIs, PersonsAre, EmailsAre DEF Within, Weak
  <2>2. s.type \in LabelTypes
    BY <2>1 DEF Within
  <2>. QED
    BY <2>2, LabelTypesAre DEF Priority
<1>. QED
  BY <1>2, <1>3, <1>4

\* So an entity, and what it goes before, is as weak.
LEMMA EntityWeaker ==
    ASSUME NEW t \in WordTexts, NEW e \in Names(t)
    PROVE  /\ e \in Spans /\ Priority(e) = 20
           /\ \A s \in Found(t) : Before(e, s) => Weak(s)
<1>1. e \in Spans /\ e.type \in {"PERSON", "LOCATION"}
  BY NamesWithin DEF Within
<1>2. Priority(e) = 20
  BY <1>1 DEF Priority
<1>3. ASSUME NEW s \in Found(t), Before(e, s) PROVE Weak(s)
  BY <1>1, <1>2, <1>3, Weaker, BeforeMeans, Ranked
<1>. QED
  BY <1>1, <1>2, <1>3

\* Two resolutions, of what was found and of that and an entity, agree in the
\* stronger spans: before the first in which they do not there are only others
\* of them.
LEMMA StrongStay ==
    ASSUME NEW t \in WordTexts, NEW e \in Names(t), NEW A, NEW B,
           Settled(A, Found(t)), Settled(B, Found(t) \cup {e}),
           NEW s \in Found(t), ~Weak(s)
    PROVE  s \in A <=> s \in B
<1>. DEFINE F == Found(t)
            C == {r \in F : ~Weak(r) /\ (r \in A) # (r \in B)}
<1>1. /\ F \in SUBSET Spans /\ IsFiniteSet(F)
      /\ A \subseteq F /\ B \subseteq F \cup {e}
  <2>1. t \in Seq(Words) /\ F \in SUBSET Within(t, Types)
    BY FoundWithin DEF WordTexts
  <2>2. IsFiniteSet(F)
    BY <2>1, WithinIsFinite, FS_Subset
  <2>. QED
    BY <2>1, <2>2 DEF Within, Settled
<1>2. \A r \in F : /\ r \in A <=> \A u \in A : Before(u, r) => ~Overlap(u, r)
                   /\ r \in B <=> \A u \in B : Before(u, r) => ~Overlap(u, r)
  BY DEF Settled
<1>3. ASSUME NEW r \in F, ~Weak(r), NEW u \in F \cup {e}, Before(u, r)
      PROVE  u \in F /\ ~Weak(u)
  <2>1. r \in Spans /\ Priority(r) > 20
    BY <1>3, Weaker
  <2>2. u # e
    BY <1>3, EntityWeaker
  <2>3. u \in F /\ u \in Spans /\ (Weak(u) => Priority(u) <= 20)
    BY <2>2, Weaker
  <2>. QED
    BY <1>3, <2>1, <2>3, BeforeMeans, Ranked
<1>4. C = {}
  <2>1. SUFFICES ASSUME C # {} PROVE FALSE
    OBVIOUS
  <2>2. C \in SUBSET Spans /\ IsFiniteSet(C)
    BY <1>1, FS_Subset
  <2>3. PICK r \in C : \A u \in C \ {r} : Before(r, u)
    BY <2>1, <2>2, FirstExists
  <2>4. \A u \in C : ~Before(u, r)
    BY <2>2, <2>3, BeforeIsOrder
  <2>5. r \in F /\ ~Weak(r) /\ (r \in A) # (r \in B)
    OBVIOUS
  <2>6. \A u \in F \cup {e} : Before(u, r) => u \in A <=> u \in B
    BY <1>3, <2>4, <2>5
  <2>. QED
    BY <1>1, <1>2, <2>5, <2>6
<1>. QED
  BY <1>4

\* If the entity covers what it takes away, they differ only in spans that the
\* entity comes before and overlaps: the first span in the order for which this
\* is not so has another such before it.
LEMMA DifferAtEntity ==
    ASSUME NEW t \in WordTexts, NEW e \in Names(t), NEW A, NEW B,
           Settled(A, Found(t)), Settled(B, Found(t) \cup {e}),
           \A u \in A : Before(e, u) /\ Overlap(e, u) => Inside(u, e),
           NEW s \in A, s \notin B
    PROVE  e \in B /\ Before(e, s) /\ Overlap(e, s)
<1>. DEFINE F == Found(t)
            Beaten(r) == e \in B /\ Before(e, r) /\ Overlap(e, r)
            C == {r \in F : /\ (r \in A) # (r \in B)
                            /\ ~(r \in A /\ Beaten(r))}
<1>1. /\ F \in SUBSET Spans /\ IsFiniteSet(F) /\ e \in Spans
      /\ A \subseteq F /\ B \subseteq F \cup {e}
  <2>1. t \in Seq(Words) /\ F \in SUBSET Within(t, Types)
    BY FoundWithin DEF WordTexts
  <2>2. IsFiniteSet(F)
    BY <2>1, WithinIsFinite, FS_Subset
  <2>. QED
    BY <2>1, <2>2, NamesWithin DEF Within, Settled
<1>2. \A r \in F : r \in A <=> \A u \in A : Before(u, r) => ~Overlap(u, r)
  BY DEF Settled
<1>3. \A r \in F : r \in B <=> \A u \in B : Before(u, r) => ~Overlap(u, r)
  BY DEF Settled
<1>4. C = {}
  <2>1. SUFFICES ASSUME C # {} PROVE FALSE
    OBVIOUS
  <2>2. C \in SUBSET Spans /\ IsFiniteSet(C)
    BY <1>1, FS_Subset
  <2>3. PICK r \in C : \A u \in C \ {r} : Before(r, u)
    BY <2>1, <2>2, FirstExists
  <2>4. \A u \in C : ~Before(u, r)
    BY <2>2, <2>3, BeforeIsOrder
  <2>5. r \in F /\ (r \in A) # (r \in B) /\ ~(r \in A /\ Beaten(r))
    OBVIOUS
  <2>6. CASE r \in A /\ r \notin B
    <3>1. PICK u \in B : Before(u, r) /\ Overlap(u, r)
      BY <1>3, <2>5, <2>6
    <3>2. u \notin A
      BY <1>2, <2>5, <2>6, <3>1
    <3>3. u # e
      BY <2>5, <2>6, <3>1
    <3>4. u \in C
      BY <1>1, <3>1, <3>2, <3>3
    <3>. QED
      BY <2>4, <3>1, <3>4
  <2>7. CASE r \notin A /\ r \in B
    <3>1. PICK u \in A : Before(u, r) /\ Overlap(u, r)
      BY <1>2, <2>5, <2>7
    <3>2. u \notin B /\ u \in F
      BY <1>1, <1>3, <2>5, <2>7, <3>1
    <3>3. Beaten(u)
      BY <2>4, <3>1, <3>2
    <3>4. Inside(u, e)
      BY <3>1, <3>3
    <3>5. Overlap(e, r)
      <4>1. u \in Spans /\ r \in Spans
        BY <1>1, <2>5, <3>2
      <4>. QED
        BY <1>1, <3>1, <3>4, <4>1 DEF Inside, Overlap, Spans
    <3>6. Before(e, r)
      BY <1>1, <2>5, <3>1, <3>2, <3>3, BeforeIsTransitive
    <3>. QED
      BY <1>3, <2>5, <2>7, <3>3, <3>5, <3>6
  <2>. QED
    BY <2>5, <2>6, <2>7
<1>5. s \in F /\ s \notin C
  BY <1>1, <1>4
<1>. QED
  BY <1>5

\* With Natasha installed nothing but a name or an address of electronic mail
\* is given up that would be masked without it; and if the entity cuts none of
\* those, then no word of the text is left open that would be masked.
THEOREM NerAdds == Spec => []NerOnlyAdds
<1>1. ASSUME IInv PROVE NerOnlyAdds
  <2>. DEFINE A == Resolved(found)
              cut(s) == \E e \in entities :
                            Overlap(e, s) /\ ~Before(s, e) /\ ~Inside(s, e)
  <2>1. SUFFICES ASSUME step = "done"
                 PROVE  /\ {s \in A : ~Weak(s)} \subseteq accepted
                        /\ (\A s \in A : Weak(s) => ~cut(s)) =>
                              \A i \in DOMAIN text : Masks(A, i) => Masks(accepted, i)
    BY DEF NerOnlyAdds, Weak, Masked
  <2>2. /\ text \in WordTexts /\ found = Found(text)
        /\ entities = {} \/ \E e \in Names(text) : entities = {e}
        /\ accepted = Resolved(found \cup entities)
    BY <1>1, <2>1 DEF IInv, DetectedOnce, ResolvedOnce
  <2>3. Settled(A, found) /\ Settled(accepted, found \cup entities)
    BY <1>1, <2>1, SpansInText, ResolvedSettles, AcceptedIsSettled
  <2>4. CASE entities = {}
    <3>1. accepted = A
      BY <2>2, <2>4
    <3>. QED
      BY <3>1
  <2>5. ASSUME NEW e \in Names(text), entities = {e}
        PROVE  /\ {s \in A : ~Weak(s)} \subseteq accepted
               /\ (\A s \in A : Weak(s) => ~cut(s)) =>
                     \A i \in DOMAIN text : Masks(A, i) => Masks(accepted, i)
    <3>. HIDE DEF A
    <3>1. A \subseteq Found(text)
      BY <2>2, <2>3 DEF Settled
    <3>2. {s \in A : ~Weak(s)} \subseteq accepted
      BY <2>2, <2>3, <2>5, <3>1, StrongStay
    <3>3. ASSUME \A s \in A : Weak(s) => ~cut(s), NEW i \in DOMAIN text, Masks(A, i)
          PROVE  Masks(accepted, i)
      <4>1. PICK s \in A : /\ s.start <= i /\ i <= s.end
                           /\ s.type = "TAIL" => s.start < i
        BY <3>3 DEF Masks
      <4>2. ASSUME NEW u \in A, Before(e, u), Overlap(e, u) PROVE Inside(u, e)
        <5>1. Weak(u) /\ e \in Spans /\ u \in Spans
          BY <2>2, <3>1, <4>2, EntityWeaker, Weaker
        <5>2. ~Before(u, e) /\ ~cut(u)
          BY <3>3, <4>2, <5>1, BeforeIsOrder
        <5>. QED
          BY <2>5, <4>2, <5>2
      <4>3. CASE s \in accepted
        BY <4>1, <4>3 DEF Masks
      <4>4. CASE s \notin accepted
        <5>1. e \in accepted /\ Before(e, s) /\ Overlap(e, s)
          BY <2>2, <2>3, <2>5, <4>2, <4>4, DifferAtEntity
        <5>2. Inside(s, e)
          BY <4>2, <5>1
        <5>3. e \in Spans /\ s \in Spans /\ i \in Nat /\ e.type # "TAIL"
          BY <2>2, <3>1, NamesWithin, FoundWithin, GroupsAre DEF Within, WordTexts
        <5>. QED
          BY <4>1, <5>1, <5>2, <5>3 DEF Masks, Inside, Spans
      <4>. QED
        BY <4>3, <4>4
    <3>. QED
      BY <3>2, <3>3
  <2>. QED
    BY <2>2, <2>4, <2>5
<1>. QED
  BY <1>1, Invariance, PTL

-----------------------------------------------------------------------------
(* The checksum.                                                           *)

\* The running totals of Luhn.
Totals(f, ds) ==
    f = [i \in 0 .. Len(ds) |-> IF i = 0 THEN 0 ELSE f[i - 1] + Weight(ds, i)]

\* Doubling takes different digits to different digits.
LEMMA DoubleIsOneToOne ==
    ASSUME NEW c \in 0 .. 9, NEW d \in 0 .. 9
    PROVE  /\ Double(d) \in 0 .. 9
           /\ Double(c) = Double(d) => c = d
BY DEF Double

\* A number with the last digit 0 does not have it any more when it changes by
\* less than ten.
LEMMA NoMultiple ==
    ASSUME NEW m \in Nat, NEW n \in Nat, m % 10 = 0, n % 10 = 0,
           NEW w \in -9 .. 9, n = m + w
    PROVE  w = 0
<1>1. PICK a \in Int : m = 10 * a
  OBVIOUS
<1>2. PICK b \in Int : n = 10 * b
  OBVIOUS
<1>. QED
  BY <1>1, <1>2

\* They are defined.
LEMMA TotalsExist ==
    ASSUME NEW ds \in Seq(0 .. 9)
    PROVE  \E f : Totals(f, ds)
<1>. DEFINE N == {n \in Nat : \E f : \A i \in 0 .. n :
                    f[i] = IF i = 0 THEN 0 ELSE f[i - 1] + Weight(ds, i)}
<1>1. 0 \in N
  <2>. DEFINE f == [i \in {0} |-> 0]
  <2>1. \A i \in 0 .. 0 : f[i] = IF i = 0 THEN 0 ELSE f[i - 1] + Weight(ds, i)
    OBVIOUS
  <2>. QED
    BY <2>1
<1>2. ASSUME NEW n \in Nat, n \in N PROVE n + 1 \in N
  <2>1. PICK f : \A i \in 0 .. n :
                    f[i] = IF i = 0 THEN 0 ELSE f[i - 1] + Weight(ds, i)
    BY <1>2
  <2>. DEFINE g == [i \in 0 .. n + 1 |->
                      IF i = n + 1 THEN f[n] + Weight(ds, n + 1) ELSE f[i]]
  <2>2. ASSUME NEW i \in 0 .. n + 1
        PROVE  g[i] = IF i = 0 THEN 0 ELSE g[i - 1] + Weight(ds, i)
    <3>1. CASE i = n + 1
      <4>1. g[i] = f[n] + Weight(ds, i)
        BY <3>1
      <4>2. i # 0 /\ i - 1 = n /\ g[i - 1] = f[n]
        BY <3>1
      <4>. QED
        BY <4>1, <4>2
    <3>2. CASE i # n + 1
      <4>1. i \in 0 .. n /\ g[i] = f[i]
        BY <3>2
      <4>2. i # 0 => g[i - 1] = f[i - 1]
        BY <3>2
      <4>. QED
        BY <2>1, <4>1, <4>2
    <3>. QED
      BY <3>1, <3>2
  <2>. HIDE DEF g
  <2>. QED
    BY <2>2
<1>. HIDE DEF N
<1>3. Nat \subseteq N
  BY <1>1, <1>2, SetInduction
<1>4. Len(ds) \in N
  BY <1>3, LenProperties
<1>5. PICK f : \A i \in 0 .. Len(ds) :
                  f[i] = IF i = 0 THEN 0 ELSE f[i - 1] + Weight(ds, i)
  BY <1>4 DEF N
<1>. DEFINE g == [i \in 0 .. Len(ds) |-> f[i]]
<1>6. Len(ds) \in Nat
  BY LenProperties
<1>7. ASSUME NEW i \in 0 .. Len(ds)
      PROVE  f[i] = IF i = 0 THEN 0 ELSE g[i - 1] + Weight(ds, i)
  <2>1. i # 0 => g[i - 1] = f[i - 1]
    BY <1>6
  <2>. HIDE DEF g
  <2>. QED
    BY <1>5, <2>1
<1>8. Totals(g, ds)
  BY <1>7 DEF Totals
<1>. QED
  BY <1>8

\* Luhn looks at the last of them.
LEMMA LuhnIs ==
    ASSUME NEW ds \in Seq(0 .. 9)
    PROVE  \E f : Totals(f, ds) /\ (Luhn(ds) <=> f[Len(ds)] % 10 = 0)
<1>. DEFINE f == CHOOSE h : Totals(h, ds)
<1>1. Totals(f, ds)
  BY TotalsExist
<1>2. Luhn(ds) <=> f[Len(ds)] % 10 = 0
  BY DEF Luhn, Totals
<1>. QED
  BY <1>1, <1>2

\* The weight of a digit is one, and another digit has another.
LEMMA WeightsAre ==
    ASSUME NEW ds \in Seq(0 .. 9), NEW i \in DOMAIN ds
    PROVE  Weight(ds, i) \in 0 .. 9
<1>1. ds[i] \in 0 .. 9
  BY LenProperties
<1>. QED
  BY <1>1, DoubleIsOneToOne DEF Weight

\* The totals are numbers.
LEMMA TotalsAre ==
    ASSUME NEW ds \in Seq(0 .. 9), NEW f, Totals(f, ds)
    PROVE  \A i \in 0 .. Len(ds) : f[i] \in Nat
<1>. DEFINE N == {n \in Nat : n <= Len(ds) => f[n] \in Nat}
<1>1. Len(ds) \in Nat /\ DOMAIN ds = 1 .. Len(ds)
  BY LenProperties
<1>2. \A i \in 0 .. Len(ds) : f[i] = IF i = 0 THEN 0 ELSE f[i - 1] + Weight(ds, i)
  BY DEF Totals
<1>3. 0 \in N
  BY <1>1, <1>2
<1>4. ASSUME NEW n \in Nat, n \in N PROVE n + 1 \in N
  <2>1. SUFFICES ASSUME n + 1 <= Len(ds) PROVE f[n + 1] \in Nat
    OBVIOUS
  <2>2. n + 1 \in DOMAIN ds /\ n + 1 \in 0 .. Len(ds) /\ n + 1 # 0 /\ n + 1 - 1 = n
    BY <1>1, <2>1
  <2>3. f[n + 1] = f[n] + Weight(ds, n + 1)
    BY <1>2, <2>2
  <2>4. Weight(ds, n + 1) \in Nat /\ f[n] \in Nat
    BY <1>1, <1>4, <2>1, <2>2, WeightsAre
  <2>. QED
    BY <2>3, <2>4
<1>. HIDE DEF N
<1>5. Nat \subseteq N
  BY <1>3, <1>4, SetInduction
<1>. QED
  BY <1>1, <1>5 DEF N

\* Another digit in one place changes the totals from there on, by as much.
LEMMA TotalsShift ==
    ASSUME NEW ds \in Seq(0 .. 9), NEW k \in DOMAIN ds, NEW d \in 0 .. 9,
           NEW f, NEW g, Totals(f, ds), Totals(g, [ds EXCEPT ![k] = d])
    PROVE  LET es == [ds EXCEPT ![k] = d]
           IN  g[Len(es)] = f[Len(ds)] + (Weight(es, k) - Weight(ds, k))
<1>. DEFINE es == [ds EXCEPT ![k] = d]
<1>1. PICK m \in Nat : m = Len(ds)
  BY LenProperties
<1>2. /\ es \in Seq(0 .. 9) /\ Len(es) = m /\ k \in 1 .. m
      /\ DOMAIN ds = 1 .. m /\ DOMAIN es = 1 .. m
      /\ \A j \in 1 .. m : j # k => es[j] = ds[j]
  <2>1. k \in 1 .. Len(ds) /\ DOMAIN ds = 1 .. m
    BY <1>1, LenProperties
  <2>2. es \in Seq(0 .. 9) /\ Len(es) = m
    BY <1>1, <2>1, ExceptSeq
  <2>3. \A j \in 1 .. m : j # k => es[j] = ds[j]
    BY <1>1, <2>1, ExceptSeq
  <2>4. DOMAIN es = 1 .. m
    BY <2>2, LenProperties
  <2>. QED
    BY <1>1, <2>1, <2>2, <2>3, <2>4
<1>. HIDE DEF es
<1>3. \A i \in 1 .. m : /\ Weight(ds, i) \in 0 .. 9 /\ Weight(es, i) \in 0 .. 9
                        /\ i # k => Weight(es, i) = Weight(ds, i)
  <2>1. \A i \in 1 .. m : Weight(ds, i) \in 0 .. 9 /\ Weight(es, i) \in 0 .. 9
    BY <1>2, WeightsAre
  <2>. QED
    BY <1>1, <1>2, <2>1 DEF Weight
<1>4. /\ \A i \in 0 .. m : f[i] \in Nat /\ g[i] \in Nat
      /\ \A i \in 0 .. m : f[i] = IF i = 0 THEN 0 ELSE f[i - 1] + Weight(ds, i)
      /\ \A i \in 0 .. m : g[i] = IF i = 0 THEN 0 ELSE g[i - 1] + Weight(es, i)
  <2>1. Totals(g, es)
    BY DEF es
  <2>2. \A i \in 0 .. m : f[i] \in Nat /\ g[i] \in Nat
    BY <1>1, <1>2, <2>1, TotalsAre
  <2>. QED
    BY <1>1, <1>2, <2>1, <2>2 DEF Totals
<1>5. PICK w \in Int : w = Weight(es, k) - Weight(ds, k)
  BY <1>2, <1>3
<1>. DEFINE N == {n \in Nat : n <= m => g[n] = f[n] + IF n < k THEN 0 ELSE w}
<1>6. 0 \in N
  BY <1>1, <1>2, <1>4
<1>7. ASSUME NEW n \in Nat, n \in N PROVE n + 1 \in N
  <2>1. SUFFICES ASSUME n + 1 <= m
                 PROVE  g[n + 1] = f[n + 1] + IF n + 1 < k THEN 0 ELSE w
    OBVIOUS
  <2>2. PICK i \in 1 .. m : i = n + 1 /\ i - 1 = n /\ i # 0 /\ i \in 0 .. m
    BY <1>1, <2>1
  <2>3. PICK a \in Nat, b \in Nat : a = f[n] /\ b = g[n]
    BY <1>1, <1>4, <2>1
  <2>4. PICK u \in 0 .. 9, v \in 0 .. 9 : u = Weight(ds, i) /\ v = Weight(es, i)
    BY <1>3, <2>2
  <2>5. f[i] = a + u /\ g[i] = b + v
    BY <1>4, <2>2, <2>3, <2>4
  <2>6. b = a + IF n < k THEN 0 ELSE w
    BY <1>7, <2>1, <2>3
  <2>7. i # k => u = v
    BY <1>3, <2>2, <2>4
  <2>8. i = k => w = v - u
    BY <1>5, <2>4
  <2>9. b + v = a + u + IF i < k THEN 0 ELSE w
    <3>1. CASE i < k
      <4>1. n < k
        BY <1>2, <2>2, <3>1
      <4>. QED
        BY <2>6, <2>7, <3>1, <4>1
    <3>2. CASE i = k
      <4>1. n < k /\ ~(i < k)
        BY <1>2, <2>2, <3>2
      <4>2. b = a /\ w = v - u
        BY <2>6, <2>8, <3>2, <4>1
      <4>3. b + v = a + u + w
        <5>1. u \in Int /\ v \in Int /\ a \in Int
          OBVIOUS
        <5>2. u + w = v
          BY ONLY <4>2, <5>1, w \in Int
        <5>. QED
          BY ONLY <4>2, <5>1, <5>2, w \in Int
      <4>. QED
        BY <4>1, <4>3
    <3>3. CASE i > k
      <4>1. ~(n < k) /\ ~(i < k) /\ i # k
        BY <1>2, <2>2, <3>3
      <4>2. b = a + w /\ u = v
        BY <2>6, <2>7, <4>1, Zenon
      <4>3. b + v = a + u + w
        <5>1. u \in Int /\ v \in Int /\ a \in Int
          OBVIOUS
        <5>. QED
          BY ONLY <4>2, <5>1, w \in Int
      <4>. QED
        BY <4>1, <4>3, Zenon
    <3>. QED
      BY <1>2, <3>1, <3>2, <3>3
  <2>. QED
    BY <2>2, <2>5, <2>9
<1>. HIDE DEF N
<1>8. Nat \subseteq N
  BY <1>6, <1>7, SetInduction
<1>9. g[m] = f[m] + w
  BY <1>1, <1>2, <1>8 DEF N
<1>. QED
  BY <1>1, <1>2, <1>5, <1>9 DEF es

\* A number that passes the checksum passes it no more with another digit.
LEMMA LuhnCatches ==
    ASSUME NEW ds \in Seq(0 .. 9), NEW k \in DOMAIN ds, NEW d \in 0 .. 9,
           d # ds[k], Luhn(ds)
    PROVE  ~Luhn([ds EXCEPT ![k] = d])
<1>1. PICK es : es = [ds EXCEPT ![k] = d]
  OBVIOUS
<1>2. k \in 1 .. Len(ds) /\ Len(ds) \in Nat /\ ds[k] \in 0 .. 9
  BY LenProperties
<1>3. es \in Seq(0 .. 9) /\ Len(es) = Len(ds) /\ es[k] = d
  BY <1>1, <1>2, ExceptSeq
<1>4. PICK f : Totals(f, ds) /\ (Luhn(ds) <=> f[Len(ds)] % 10 = 0)
  BY LuhnIs
<1>5. PICK g : Totals(g, es) /\ (Luhn(es) <=> g[Len(es)] % 10 = 0)
  BY <1>3, LuhnIs
<1>6. PICK m \in Nat, n \in Nat : m = f[Len(ds)] /\ n = g[Len(es)]
  BY <1>2, <1>3, <1>4, <1>5, TotalsAre
<1>7. PICK w \in Int : w = Weight(es, k) - Weight(ds, k) /\ w \in -9 .. 9 /\ w # 0
  <2>1. k \in DOMAIN es
    BY <1>2, <1>3, LenProperties
  <2>2. PICK u \in 0 .. 9, v \in 0 .. 9 : u = Weight(ds, k) /\ v = Weight(es, k)
    BY <1>3, <2>1, WeightsAre
  <2>3. u # v
    BY <1>2, <1>3, <2>2, DoubleIsOneToOne DEF Weight
  <2>4. v - u \in -9 .. 9 /\ v - u # 0 /\ v - u \in Int
    BY <2>3
  <2>. QED
    BY <2>2, <2>4
<1>8. n = m + w
  BY <1>1, <1>4, <1>5, <1>6, <1>7, TotalsShift
<1>9. ~(n % 10 = 0)
  BY <1>4, <1>6, <1>7, <1>8, NoMultiple
<1>. QED
  BY <1>1, <1>5, <1>6, <1>9

\* The digits of a span are digits.
LEMMA DigitsAre ==
    ASSUME NEW t \in Seq(Words), NEW i \in 1 .. Len(t) + 1,
           NEW j \in i - 1 .. Len(t)
    PROVE  Digits(t, i, j) \in Seq(0 .. 9)
<1>1. Len(t) \in Nat /\ j - i + 1 \in Nat
  BY LenProperties
<1>. DEFINE ds == [k \in 1 .. j - i + 1 |-> t[i + k - 1].digits]
<1>2. \A k \in 1 .. j - i + 1 : t[i + k - 1].digits \in Seq(0 .. 9)
  <2>1. ASSUME NEW k \in 1 .. j - i + 1 PROVE t[i + k - 1].digits \in Seq(0 .. 9)
    <3>1. i + k - 1 \in 1 .. Len(t)
      BY <1>1
    <3>2. t[i + k - 1] \in Words
      BY <3>1, ElementOfSeq
    <3>. QED
      BY <3>2 DEF Words
  <2>. QED
    BY <2>1
<1>3. ds \in Seq(Seq(0 .. 9))
  BY <1>1, <1>2
<1>. QED
  BY <1>3, FlattenIsSeq DEF Digits

\* A card number that passes the checksum fails it with any one digit changed.
THEOREM TyposCaught == Spec => []LuhnCatchesTypos
<1>1. ASSUME IInv PROVE LuhnCatchesTypos
  <2>1. SUFFICES ASSUME NEW s \in found
                 PROVE  Digits(text, s.start, s.end) \in Seq(0 .. 9)
    BY LuhnCatches DEF LuhnCatchesTypos
  <2>2. text \in Seq(Words) /\ Len(text) \in Nat
    BY <1>1, GroupsAre DEF IInv, WordTexts
  <2>3. /\ s.start \in Nat /\ s.end \in Nat
        /\ s.start >= 1 /\ s.start <= s.end + 1 /\ s.end <= Len(text)
    BY <1>1, SpansInText DEF Within, Spans
  <2>4. s.start \in 1 .. Len(text) + 1 /\ s.end \in s.start - 1 .. Len(text)
    BY <2>2, <2>3
  <2>. QED
    BY <2>2, <2>4, DigitsAre
<1>. QED
  BY <1>1, Invariance, PTL

-----------------------------------------------------------------------------
(* Numbers with a label. Every number that is found consists of groups of  *)
(* digits; one that stands between words which are none contains all those *)
(* that share a group with it, so that whatever is accepted in its place   *)
(* starts and ends with it, unless it has a code's or a part's label near. *)

\* One more word.
LEMMA DigitsAppend ==
    ASSUME NEW t \in Seq(Words), NEW i \in 1 .. Len(t) + 1,
           NEW j \in i - 1 .. Len(t) - 1
    PROVE  /\ Len(Digits(t, i, j)) \in Nat /\ Len(t[j + 1].digits) \in Nat
           /\ Len(Digits(t, i, j + 1))
                 = Len(Digits(t, i, j)) + Len(t[j + 1].digits)
<1>1. Len(t) \in Nat /\ j + 1 \in 1 .. Len(t) /\ j - i + 1 \in Nat
  BY LenProperties
<1>2. t[j + 1].digits \in Seq(0 .. 9)
  <2>1. t[j + 1] \in Words
    BY <1>1, ElementOfSeq
  <2>. QED
    BY <2>1 DEF Words
<1>3. PICK w \in Seq(0 .. 9) : w = t[j + 1].digits
  BY <1>2
<1>. DEFINE n == j - i + 1
            ds == [k \in 1 .. n |-> t[i + k - 1].digits]
            es == [k \in 1 .. j + 1 - i + 1 |-> t[i + k - 1].digits]
<1>4. n \in Nat /\ j + 1 - i + 1 = n + 1 /\ i + (n + 1) - 1 = j + 1
  BY <1>1
<1>5. ds \in Seq(Seq(0 .. 9))
  <2>1. ASSUME NEW k \in 1 .. n PROVE t[i + k - 1].digits \in Seq(0 .. 9)
    <3>1. i + k - 1 \in 1 .. Len(t)
      BY <1>1
    <3>2. t[i + k - 1] \in Words
      BY <3>1, ElementOfSeq
    <3>. QED
      BY <3>2 DEF Words
  <2>. QED
    BY <1>4, <2>1
<1>6. es = Append(ds, w)
  <2>1. Len(ds) = n
    BY <1>4
  <2>2. es = [k \in 1 .. n + 1 |-> IF k = n + 1 THEN w ELSE ds[k]]
    BY <1>1, <1>3, <1>4
  <2>3. Append(ds, w) = [k \in 1 .. n + 1 |-> IF k = n + 1 THEN w ELSE ds[k]]
    BY <1>4, <2>1
  <2>. QED
    BY <2>2, <2>3
<1>7. Digits(t, i, j) = FlattenSeq(ds) /\ Digits(t, i, j + 1) = FlattenSeq(es)
  BY DEF Digits
<1>8. FlattenSeq(ds) \in Seq(0 .. 9)
  BY <1>5, FlattenIsSeq
<1>9. FlattenSeq(es) = IF ds = <<>> THEN w ELSE FlattenSeq(ds) \o w
  BY <1>5, <1>6, FlattenAppend
<1>10. ds = <<>> => FlattenSeq(ds) = <<>>
  BY DEF FlattenSeq
<1>. HIDE DEF ds, es
<1>11. Len(FlattenSeq(es)) = Len(FlattenSeq(ds)) + Len(w)
  <2>1. PICK u \in Seq(0 .. 9) : u = FlattenSeq(ds)
    BY <1>8
  <2>2. Len(u \o w) = Len(u) + Len(w) /\ Len(w) \in Nat
    BY ConcatProperties, LenProperties
  <2>3. ds = <<>> => Len(u) = 0
    BY <1>10, <2>1
  <2>4. CASE ds = <<>>
    <3>1. FlattenSeq(es) = w
      BY <1>9, <2>4, Zenon
    <3>2. Len(w) = Len(u) + Len(w)
      BY <2>2, <2>3, <2>4
    <3>. QED
      BY <2>1, <3>1, <3>2, Zenon
  <2>5. CASE ds # <<>>
    <3>1. FlattenSeq(es) = u \o w
      BY <1>9, <2>1, <2>5, Zenon
    <3>. QED
      BY <2>1, <2>2, <3>1, Zenon
  <2>. QED
    BY <2>4, <2>5
<1>. QED
  BY <1>3, <1>7, <1>8, <1>11, LenProperties

\* A part of a number has no more digits than the number.
LEMMA DigitsInside ==
    ASSUME NEW t \in Seq(Words), NEW i \in 1 .. Len(t), NEW j \in i .. Len(t),
           NEW a \in i .. j, NEW b \in a .. j
    PROVE  /\ Len(Digits(t, i, j)) \in Nat /\ Len(Digits(t, a, b)) \in Nat
           /\ Len(Digits(t, a, b)) <= Len(Digits(t, i, j))
<1>. DEFINE L(x, y) == Len(Digits(t, x, y))
            W(y) == Len(t[y].digits)
            N == {n \in Nat : a - 1 + n <= b => L(a, a - 1 + n) <= L(i, a - 1 + n)}
            M == {n \in Nat : b + n <= j => L(i, b) <= L(i, b + n)}
<1>1. Len(t) \in Nat
  BY LenProperties
<1>2. ASSUME NEW x \in 1 .. Len(t), NEW y \in x - 1 .. Len(t) - 1
      PROVE  /\ L(x, y) \in Nat /\ L(x, y + 1) \in Nat /\ W(y + 1) \in Nat
             /\ L(x, y + 1) = L(x, y) + W(y + 1)
  <2>1. x \in 1 .. Len(t) + 1
    BY <1>1
  <2>. QED
    BY <2>1, DigitsAppend
<1>3. L(a, a - 1) = 0
  <2>1. a - 1 - a + 1 = 0
    BY <1>1
  <2>2. Digits(t, a, a - 1) = FlattenSeq([k \in 1 .. 0 |-> t[a + k - 1].digits])
    BY <2>1 DEF Digits
  <2>3. [k \in 1 .. 0 |-> t[a + k - 1].digits] = <<>>
    OBVIOUS
  <2>. QED
    BY <2>2, <2>3 DEF FlattenSeq
<1>. HIDE DEF L, W
<1>4. \A y \in i .. Len(t) : L(i, y) \in Nat
  <2>1. ASSUME NEW y \in i .. Len(t) PROVE L(i, y) \in Nat
    <3>1. PICK z \in i - 1 .. Len(t) - 1 : y = z + 1
      <4>1. y - 1 \in i - 1 .. Len(t) - 1 /\ y = y - 1 + 1
        BY <1>1
      <4>. QED
        BY <4>1
    <3>. QED
      BY <1>1, <1>2, <3>1
  <2>. QED
    BY <2>1
<1>5. 0 \in N
  <2>1. a - 1 \in i - 1 .. Len(t) - 1
    BY <1>1
  <2>2. L(i, a - 1) \in Nat
    BY <1>1, <1>2, <2>1
  <2>3. a - 1 + 0 = a - 1
    BY <1>1
  <2>. QED
    BY <1>3, <2>2, <2>3
<1>6. ASSUME NEW n \in Nat, n \in N PROVE n + 1 \in N
  <2>1. SUFFICES ASSUME a - 1 + (n + 1) <= b
                 PROVE  L(a, a - 1 + (n + 1)) <= L(i, a - 1 + (n + 1))
    OBVIOUS
  <2>2. PICK y \in Int : y = a - 1 + n
    BY <1>1
  <2>3. /\ y \in a - 1 .. Len(t) - 1 /\ y \in i - 1 .. Len(t) - 1
        /\ a \in 1 .. Len(t) /\ a - 1 + (n + 1) = y + 1 /\ a - 1 + n <= b
    BY <1>1, <2>1, <2>2
  <2>4. L(a, y) <= L(i, y)
    BY <1>6, <2>2, <2>3
  <2>5. /\ L(a, y) \in Nat /\ W(y + 1) \in Nat /\ L(i, y) \in Nat
        /\ L(a, y + 1) = L(a, y) + W(y + 1)
        /\ L(i, y + 1) = L(i, y) + W(y + 1)
    BY <1>2, <2>3
  <2>6. L(a, y + 1) <= L(i, y + 1)
    BY <2>4, <2>5
  <2>. QED
    BY <2>3, <2>6
<1>7. 0 \in M
  <2>1. L(i, b) \in Nat /\ b + 0 = b
    BY <1>1, <1>4
  <2>. QED
    BY <2>1
<1>8. ASSUME NEW n \in Nat, n \in M PROVE n + 1 \in M
  <2>1. SUFFICES ASSUME b + (n + 1) <= j PROVE L(i, b) <= L(i, b + (n + 1))
    OBVIOUS
  <2>2. PICK y \in Int : y = b + n
    BY <1>1
  <2>3. /\ y \in i - 1 .. Len(t) - 1 /\ b + (n + 1) = y + 1 /\ b + n <= j
        /\ b \in i .. Len(t)
    BY <1>1, <2>1, <2>2
  <2>4. L(i, b) <= L(i, y)
    BY <1>8, <2>2, <2>3
  <2>5. /\ L(i, b) \in Nat /\ L(i, y) \in Nat /\ W(y + 1) \in Nat
        /\ L(i, y + 1) = L(i, y) + W(y + 1)
    BY <1>2, <1>4, <2>3
  <2>6. L(i, b) <= L(i, y + 1)
    BY <2>4, <2>5
  <2>. QED
    BY <2>3, <2>6
<1>. HIDE DEF N, M
<1>9. Nat \subseteq N /\ Nat \subseteq M
  BY <1>5, <1>6, <1>7, <1>8, SetInduction
<1>10. /\ b - a + 1 \in N /\ j - b \in M
       /\ a - 1 + (b - a + 1) = b /\ b + (j - b) = j
  <2>1. b - a + 1 \in Nat /\ j - b \in Nat
    BY <1>1
  <2>. QED
    BY <1>1, <1>9, <2>1
<1>11. L(a, b) <= L(i, b) /\ L(i, b) <= L(i, j)
  BY <1>1, <1>10 DEF N, M
<1>12. L(a, b) \in Nat /\ L(i, b) \in Nat /\ L(i, j) \in Nat
  <2>1. /\ a \in 1 .. Len(t) /\ b - 1 \in a - 1 .. Len(t) - 1 /\ b - 1 + 1 = b
        /\ b \in i .. Len(t)
    BY <1>1
  <2>2. L(a, b - 1 + 1) \in Nat
    BY <1>2, <2>1
  <2>. QED
    BY <1>4, <2>1, <2>2
<1>. QED
  BY <1>11, <1>12 DEF L

\* Groups of digits from the i-th word to the j-th.
AllGroups(t, i, j) ==
    i \in DOMAIN t /\ j \in i .. Len(t) /\ \A k \in i .. j : IsGroup(t, k)

\* Groups of digits, with a "+" before them or without.
Dialled(t, i, j) ==
    AllGroups(t, i, j) \/ (Kind(t, i, {"plus"}) /\ AllGroups(t, i + 1, j))

\* What a detector of numbers says of a span: its words, and what is near.
Claimed(t, s) ==
    \/ s.type = "PHONE" /\ Dialled(t, s.start, s.end)
    \/ /\ s.type \in {"BIRTH_DATE", "ISSUE_DATE", "DIVISION_CODE"}
       /\ s.start = s.end /\ ~IsGroup(t, s.start) /\ t[s.start].kind # "value"
    \/ /\ AllGroups(t, s.start, s.end)
       /\ \/ s.type \in {"CVV", "PIN"} /\ Near(t, s.start, 2, {"CVV", "PIN"})
          \/ s.type = "CARD" /\ Len(Digits(t, s.start, s.end)) \in 13 .. 19
          \/ /\ s.type = "INN" /\ s.start = s.end
             /\ Len(Digits(t, s.start, s.end)) \in {10, 12}
             /\ Near(t, s.start, 4, {"INN"})
          \/ /\ s.type \in {"PASSPORT", "DRIVING_LICENSE"}
             /\ \/ Near(t, s.start, 6, {"PASSPORT", "DRIVING"})
                \/ Kind(t, s.start - 1, {"NUMBER"})

\* A number consists of groups.
LEMMA NumberGroups ==
    ASSUME NEW t \in Seq(Words), NEW i, NEW j, NEW lengths, NEW cuts,
           Number(t, i, j, lengths, cuts), j >= i
    PROVE  AllGroups(t, i, j) /\ Len(Digits(t, i, j)) \in lengths
<1>1. Len(t) \in Nat /\ DOMAIN t = 1 .. Len(t) /\ i \in 1 .. Len(t) /\ j \in 1 .. Len(t)
  BY GroupsAre
<1>2. j \in i .. Len(t)
  BY <1>1
<1>3. ASSUME NEW k \in i .. j PROVE IsGroup(t, k)
  <2>1. CASE k = i
    BY <2>1 DEF Number
  <2>2. CASE k # i
    <3>1. k \in i + 1 .. j /\ k \in DOMAIN t
      BY <1>1, <2>2
    <3>. QED
      BY <3>1 DEF Number, IsGroup, Kind
  <2>. QED
    BY <2>1, <2>2
<1>. QED
  BY <1>1, <1>2, <1>3 DEF AllGroups, Number

\* A single group.
LEMMA OneGroup ==
    ASSUME NEW t \in Seq(Words), NEW i, IsGroup(t, i)
    PROVE  AllGroups(t, i, i)
<1>1. Len(t) \in Nat /\ i \in 1 .. Len(t)
  BY GroupsAre
<1>. QED
  BY <1>1 DEF AllGroups

\* A longest number does, too.
LEMMA LongestGroups ==
    ASSUME NEW t \in Seq(Words), NEW lengths, NEW cuts
    PROVE  \A i \in DOMAIN t : LongestEnd(t, i, lengths, cuts) >= i =>
              /\ AllGroups(t, i, LongestEnd(t, i, lengths, cuts))
              /\ Number(t, i, LongestEnd(t, i, lengths, cuts), lengths, cuts)
<1>1. ASSUME NEW i \in DOMAIN t, LongestEnd(t, i, lengths, cuts) >= i
      PROVE  /\ AllGroups(t, i, LongestEnd(t, i, lengths, cuts))
             /\ Number(t, i, LongestEnd(t, i, lengths, cuts), lengths, cuts)
  <2>1. i \in 1 .. Len(t) /\ Len(t) \in Nat
    BY GroupsAre
  <2>2. Number(t, i, LongestEnd(t, i, lengths, cuts), lengths, cuts)
    BY <1>1, <2>1, LongestEnds
  <2>. QED
    BY <1>1, <2>2, NumberGroups
<1>. QED
  BY <1>1

\* Cards.
LEMMA CardsClaimed ==
    ASSUME NEW t \in Seq(Words), NEW s \in Cards(t)
    PROVE  Claimed(t, s)
<1>. DEFINE end == [n \in DOMAIN t |-> CardEnd(t, n)]
<1>1. Len(t) \in Nat /\ DOMAIN t = 1 .. Len(t)
  BY GroupsAre
<1>2. \A i \in 1 .. Len(t) : end[i] = CardEnd(t, i) /\ end[i] \in 0 .. Len(t)
  <2>1. \A i \in DOMAIN t : CardEnd(t, i) \in 0 .. Len(t)
    BY LongestEnds DEF CardEnd
  <2>. QED
    BY <1>1, <2>1
<1>3. PICK i \in Starts(t, end) : /\ CardValid(t, i, CardEnd(t, i))
                                  /\ s = Span(i, CardEnd(t, i), "CARD")
  BY DEF Cards
<1>. HIDE DEF end
<1>4. i \in 1 .. Len(t) /\ CardEnd(t, i) >= i
  BY <1>2, StartsAre
<1>5. AllGroups(t, i, CardEnd(t, i))
  BY <1>1, <1>4, LongestGroups DEF CardEnd
<1>. QED
  BY <1>3, <1>5 DEF Claimed, CardValid, Span

\* Codes.
LEMMA CodesClaimed ==
    ASSUME NEW t \in Seq(Words), NEW type \in {"CVV", "PIN"}, NEW n,
           NEW s \in Codes(t, type, n)
    PROVE  Claimed(t, s)
<1>1. PICK i \in DOMAIN t : /\ IsGroup(t, i) /\ Near(t, i, 2, {type})
                            /\ s = Span(i, i, type)
  BY DEF Codes
<1>2. Near(t, i, 2, {"CVV", "PIN"})
  BY <1>1 DEF Near
<1>. QED
  BY <1>1, <1>2, OneGroup DEF Claimed, Span

\* Taxpayers.
LEMMA InnsClaimed ==
    ASSUME NEW t \in Seq(Words), NEW s \in Inns(t)
    PROVE  Claimed(t, s)
<1>1. PICK i \in DOMAIN t : /\ Number(t, i, i, {10, 12}, {})
                            /\ Near(t, i, 4, {"INN"}) /\ s = Span(i, i, "INN")
  BY DEF Inns
<1>2. IsGroup(t, i) /\ Len(Digits(t, i, i)) \in {10, 12}
  BY <1>1 DEF Number
<1>. QED
  BY <1>1, <1>2, OneGroup DEF Claimed, Span

\* Telephones.
LEMMA PhoneEndsAre ==
    ASSUME NEW t \in Seq(Words), NEW i \in DOMAIN t,
           NEW e \in {PhoneEnd(t, i), InternationalEnd(t, i)}
    PROVE  e \in 0 .. Len(t) /\ (e >= i => Dialled(t, i, e))
<1>1. Len(t) \in Nat /\ DOMAIN t = 1 .. Len(t) /\ i \in 1 .. Len(t)
  BY GroupsAre
<1>2. PICK a, lengths, cuts :
         /\ a = i \/ (a = i + 1 /\ Kind(t, i, {"plus"}))
         /\ e = 0 \/ e = LongestEnd(t, a, lengths, cuts)
  BY DEF PhoneEnd, InternationalEnd
<1>3. e \in {0} \cup a .. Len(t)
  BY <1>2, LongestEnds
<1>4. e >= i => e >= a /\ a \in DOMAIN t /\ e # 0
  BY <1>1, <1>2, <1>3
<1>5. e >= i => AllGroups(t, a, e)
  BY <1>2, <1>4, LongestGroups
<1>. QED
  BY <1>1, <1>2, <1>3, <1>5 DEF Dialled

\* ... where they are found.
LEMMA PhonesClaimed ==
    ASSUME NEW t \in Seq(Words), NEW s \in Phones(t)
    PROVE  Claimed(t, s)
<1>. DEFINE russianEnd == [n \in DOMAIN t |-> PhoneEnd(t, n)]
            worldEnd == [n \in DOMAIN t |-> InternationalEnd(t, n)]
<1>1. Len(t) \in Nat /\ DOMAIN t = 1 .. Len(t)
  BY GroupsAre
<1>2. \A i \in DOMAIN t :
         /\ PhoneEnd(t, i) \in 0 .. Len(t) /\ InternationalEnd(t, i) \in 0 .. Len(t)
         /\ PhoneEnd(t, i) >= i => Dialled(t, i, PhoneEnd(t, i))
         /\ InternationalEnd(t, i) >= i => Dialled(t, i, InternationalEnd(t, i))
  BY PhoneEndsAre
<1>3. \A i \in 1 .. Len(t) : /\ russianEnd[i] = PhoneEnd(t, i)
                             /\ worldEnd[i] = InternationalEnd(t, i)
  BY <1>1
<1>4. \/ \E i \in Starts(t, russianEnd) : s = Span(i, PhoneEnd(t, i), "PHONE")
      \/ \E i \in Starts(t, worldEnd) : s = Span(i, InternationalEnd(t, i), "PHONE")
  BY DEF Phones
<1>. HIDE DEF russianEnd, worldEnd
<1>5. /\ Starts(t, russianEnd) \subseteq {i \in 1 .. Len(t) : russianEnd[i] >= i}
      /\ Starts(t, worldEnd) \subseteq {i \in 1 .. Len(t) : worldEnd[i] >= i}
  BY <1>1, <1>2, <1>3, StartsAre, SMTT(20)
<1>6. \E i, e : s = Span(i, e, "PHONE") /\ Dialled(t, i, e)
  BY <1>1, <1>2, <1>3, <1>4, <1>5
<1>. QED
  BY <1>6 DEF Claimed, Span

\* Series and number: a number of groups, or a series, a word and a group.
LEMMA DocumentGroups ==
    ASSUME NEW t \in Seq(Words), NEW i \in DOMAIN t, Document(t, i)[2] >= i
    PROVE  LET d == Document(t, i)
           IN  \/ d[1] = 0 /\ d[2] \in i .. Len(t) /\ AllGroups(t, i, d[2])
                  /\ Number(t, i, d[2], {10}, {2, 4})
               \/ /\ d[1] \in i .. Len(t) /\ d[2] \in i .. Len(t) /\ d[2] = d[1] + 2
                  /\ AllGroups(t, i, d[1]) /\ Series(t, i, d[1])
                  /\ Kind(t, d[2] - 1, {"NUMBER"}) /\ AllGroups(t, d[2], d[2])
<1>1. Len(t) \in Nat /\ DOMAIN t = 1 .. Len(t)
  BY GroupsAre
<1>2. PICK d : d = Document(t, i)
  OBVIOUS
<1>3. /\ d \in Documents(t, i) /\ d[2] >= i
      /\ \/ d[1] = 0 /\ d[2] \in 0 .. Len(t)
         \/ d[1] \in i .. Len(t) /\ d[2] \in 1 .. Len(t) /\ d[2] = d[1] + 2
  BY <1>2, DocumentIs
<1>4. CASE d = <<0, LongestEnd(t, i, {10}, {2, 4})>>
  <2>1. /\ d[1] = 0 /\ d[2] = LongestEnd(t, i, {10}, {2, 4}) /\ d[2] \in i .. Len(t)
    BY <1>1, <1>3, <1>4
  <2>2. /\ AllGroups(t, i, LongestEnd(t, i, {10}, {2, 4}))
        /\ Number(t, i, LongestEnd(t, i, {10}, {2, 4}), {10}, {2, 4})
    BY <1>3, <2>1, LongestGroups
  <2>. QED
    BY <1>2, <2>1, <2>2
<1>5. ASSUME NEW j \in i .. Len(t), d = <<j, j + 2>>, Series(t, i, j),
             SixDigits(t, j + 2), Kind(t, j + 1, {"NUMBER"})
      PROVE  /\ d[1] \in i .. Len(t) /\ d[2] \in i .. Len(t) /\ d[2] = d[1] + 2
             /\ AllGroups(t, i, d[1]) /\ Series(t, i, d[1])
             /\ Kind(t, d[2] - 1, {"NUMBER"}) /\ AllGroups(t, d[2], d[2])
  <2>1. /\ d[1] = j /\ d[2] = j + 2 /\ d[2] - 1 = j + 1
    BY <1>1, <1>5
  <2>2. d[2] \in i .. Len(t)
    BY <1>1, <1>3, <2>1
  <2>3. AllGroups(t, i, j)
    BY <1>5, NumberGroups DEF Series
  <2>4. AllGroups(t, j + 2, j + 2)
    BY <1>5, OneGroup DEF SixDigits, Number
  <2>. QED
    BY <1>5, <2>1, <2>2, <2>3, <2>4
<1>. QED
  BY <1>2, <1>3, <1>4, <1>5 DEF Documents

\* Whole documents: their numbers are validated where they begin.
LEMMA WholeDocumentsAre ==
    ASSUME NEW t \in Seq(Words), NEW type, NEW s \in WholeDocuments(t, type)
    PROVE  /\ s.type = type /\ AllGroups(t, s.start, s.end)
           /\ \/ Personal(t, s.start, type)
              \/ s.start = s.end /\ Kind(t, s.start - 1, {"NUMBER"})
           /\ \/ s.start = s.end
              \/ Number(t, s.start, s.end, {10}, {2, 4})
              \/ Series(t, s.start, s.end)
<1>. DEFINE end == [n \in DOMAIN t |-> Document(t, n)[2]]
            Pieces(d, i) == IF d[1] = 0 THEN {Span(i, d[2], type)}
                            ELSE {Span(i, d[1], type), Span(d[2], d[2], type)}
<1>1. Len(t) \in Nat /\ DOMAIN t = 1 .. Len(t)
  BY GroupsAre
<1>2. ASSUME NEW i \in 1 .. Len(t)
      PROVE  end[i] = Document(t, i)[2] /\ end[i] \in 0 .. Len(t)
  BY <1>1, DocumentIs
<1>3. PICK i \in Starts(t, end) : /\ Personal(t, i, type)
                                  /\ s \in Pieces(Document(t, i), i)
  BY DEF WholeDocuments
<1>. HIDE DEF end
<1>4. i \in DOMAIN t /\ Document(t, i)[2] >= i
  BY <1>1, <1>2, StartsAre
<1>5. PICK d : d = Document(t, i)
  OBVIOUS
<1>6. \/ d[1] = 0 /\ d[2] \in i .. Len(t) /\ AllGroups(t, i, d[2])
         /\ Number(t, i, d[2], {10}, {2, 4})
      \/ /\ d[1] \in i .. Len(t) /\ d[2] \in i .. Len(t) /\ d[2] = d[1] + 2
         /\ AllGroups(t, i, d[1]) /\ Series(t, i, d[1])
         /\ Kind(t, d[2] - 1, {"NUMBER"}) /\ AllGroups(t, d[2], d[2])
  BY <1>4, <1>5, DocumentGroups
<1>7. CASE d[1] = 0 /\ s = Span(i, d[2], type)
  <2>1. ~(d[1] \in i .. Len(t))
    BY <1>1, <1>4, <1>7
  <2>. QED
    BY <1>3, <1>6, <1>7, <2>1 DEF Span
<1>8. CASE d[1] # 0 /\ s = Span(i, d[1], type)
  BY <1>3, <1>6, <1>8 DEF Span
<1>9. CASE d[1] # 0 /\ s = Span(d[2], d[2], type)
  BY <1>6, <1>9 DEF Span
<1>. QED
  BY <1>3, <1>5, <1>7, <1>8, <1>9

\* Parts are validated at the value.
LEMMA PartsAre ==
    ASSUME NEW t \in Seq(Words), NEW p \in Parts(t)
    PROVE  AllGroups(t, p[2], p[3])
<1>1. Len(t) \in Nat /\ DOMAIN t = 1 .. Len(t)
  BY GroupsAre
<1>2. PICK i \in DOMAIN t : \E k \in PartValue(t, i) .. Len(t) :
               /\ p = <<i, PartValue(t, i), k>>
               /\ \/ Series(t, PartValue(t, i), k)
                  \/ k = PartValue(t, i) /\ SixDigits(t, k)
  BY DEF Parts
<1>3. PICK v \in Int : v = PartValue(t, i)
  <2>1. PartValue(t, i) = i + 1 \/ PartValue(t, i) = i + 2
    BY DEF PartValue
  <2>. QED
    BY <1>1, <2>1
<1>4. PICK k \in v .. Len(t) : /\ p = <<i, v, k>>
                               /\ \/ Series(t, v, k)
                                  \/ k = v /\ SixDigits(t, k)
  BY <1>2, <1>3
<1>5. k >= v /\ p[2] = v /\ p[3] = k
  BY <1>1, <1>3, <1>4
<1>6. AllGroups(t, v, k)
  BY <1>4, <1>5, NumberGroups DEF Series, SixDigits
<1>. QED
  BY <1>5, <1>6

\* Numbers of documents.
LEMMA DocumentsClaimed ==
    ASSUME NEW t \in Seq(Words), NEW type \in {"PASSPORT", "DRIVING_LICENSE"},
           NEW s \in DocumentNumbers(t, type)
    PROVE  Claimed(t, s)
<1>1. \A i : Personal(t, i, type) => Near(t, i, 6, {"PASSPORT", "DRIVING"})
  BY DEF Personal, Near, Context
<1>2. CASE s \in WholeDocuments(t, type)
  <2>1. /\ s.type = type /\ AllGroups(t, s.start, s.end)
        /\ Personal(t, s.start, type) \/ Kind(t, s.start - 1, {"NUMBER"})
    BY <1>2, WholeDocumentsAre
  <2>. QED
    BY <1>1, <2>1 DEF Claimed
<1>3. ASSUME NEW p \in Parts(t), PartPersonal(t, p, type),
             s = Span(p[2], p[3], type)
      PROVE  Claimed(t, s)
  <2>1. Personal(t, p[2], type) /\ AllGroups(t, p[2], p[3])
    BY <1>3, PartsAre DEF PartPersonal
  <2>. QED
    BY <1>1, <1>3, <2>1 DEF Claimed, Span
<1>. QED
  BY <1>2, <1>3 DEF DocumentNumbers

\* All numbers.
LEMMA NumbersClaimed ==
    ASSUME NEW t \in Seq(Words), NEW s \in NumberSpans(t)
    PROVE  Claimed(t, s)
<1>1. ASSUME NEW kind \in {"date", "code"}, NEW labels,
             NEW type \in {"BIRTH_DATE", "ISSUE_DATE", "DIVISION_CODE"},
             s \in Valued(t, kind, labels, type)
      PROVE  Claimed(t, s)
  <2>1. PICK i \in DOMAIN t : t[i].kind = kind /\ s = Span(i, i, type)
    BY <1>1 DEF Valued
  <2>. QED
    BY <2>1 DEF Claimed, Span, IsGroup, Kind
<1>2. \/ s \in Cards(t) \/ s \in Codes(t, "CVV", 3) \/ s \in Codes(t, "PIN", 4)
      \/ s \in Phones(t) \/ s \in Inns(t)
      \/ s \in DocumentNumbers(t, "PASSPORT")
      \/ s \in DocumentNumbers(t, "DRIVING_LICENSE")
      \/ s \in Valued(t, "date", {"BIRTH_DATE"}, "BIRTH_DATE")
      \/ s \in Valued(t, "date", IssueLabels, "ISSUE_DATE")
      \/ s \in Valued(t, "code", {"DIVISION_CODE"}, "DIVISION_CODE")
  BY DEF NumberSpans
<1>3. /\ "CVV" \in {"CVV", "PIN"} /\ "PIN" \in {"CVV", "PIN"}
      /\ "PASSPORT" \in {"PASSPORT", "DRIVING_LICENSE"}
      /\ "DRIVING_LICENSE" \in {"PASSPORT", "DRIVING_LICENSE"}
      /\ "BIRTH_DATE" \in {"BIRTH_DATE", "ISSUE_DATE", "DIVISION_CODE"}
      /\ "ISSUE_DATE" \in {"BIRTH_DATE", "ISSUE_DATE", "DIVISION_CODE"}
      /\ "DIVISION_CODE" \in {"BIRTH_DATE", "ISSUE_DATE", "DIVISION_CODE"}
      /\ "date" \in {"date", "code"} /\ "code" \in {"date", "code"}
  OBVIOUS
<1>4. CASE s \in Codes(t, "CVV", 3) \/ s \in Codes(t, "PIN", 4)
  BY <1>3, <1>4, CodesClaimed, Zenon
<1>5. CASE \/ s \in DocumentNumbers(t, "PASSPORT")
           \/ s \in DocumentNumbers(t, "DRIVING_LICENSE")
  BY <1>3, <1>5, DocumentsClaimed, Zenon
<1>6. CASE \/ s \in Valued(t, "date", {"BIRTH_DATE"}, "BIRTH_DATE")
           \/ s \in Valued(t, "date", IssueLabels, "ISSUE_DATE")
           \/ s \in Valued(t, "code", {"DIVISION_CODE"}, "DIVISION_CODE")
  BY <1>1, <1>3, <1>6, Zenon
<1>. QED
  BY <1>2, <1>4, <1>5, <1>6, CardsClaimed, PhonesClaimed, InnsClaimed

\* Groups that share one with others, beside which there are none, are among
\* them.
LEMMA GroupsInside ==
    ASSUME NEW t \in Seq(Words), NEW i, NEW j, AllGroups(t, i, j),
           ~IsGroup(t, i - 1), ~IsGroup(t, j + 1),
           NEW a, NEW b, AllGroups(t, a, b), a <= j, i <= b
    PROVE  a \in i .. j /\ b \in a .. j
<1>1. Len(t) \in Nat /\ DOMAIN t = 1 .. Len(t)
  BY LenProperties
<1>2. /\ i \in 1 .. Len(t) /\ j \in i .. Len(t)
      /\ a \in 1 .. Len(t) /\ b \in a .. Len(t)
      /\ \A k \in a .. b : IsGroup(t, k)
  BY <1>1 DEF AllGroups
<1>3. ~(a < i)
  <2>1. a < i => i - 1 \in a .. b
    BY <1>1, <1>2
  <2>. QED
    BY <1>2, <2>1
<1>4. ~(b > j)
  <2>1. b > j => j + 1 \in a .. b
    BY <1>1, <1>2
  <2>. QED
    BY <1>2, <2>1
<1>. QED
  BY <1>1, <1>2, <1>3, <1>4

\* A label near one of several groups, or as near as some words, is near the
\* first, too.
LEMMA NearFirst ==
    ASSUME NEW t \in Seq(Words), NEW i, NEW j, AllGroups(t, i, j),
           NEW k \in i .. j, NEW n \in Nat, NEW labels,
           "digits" \notin labels, Near(t, k, n, labels)
    PROVE  Near(t, i, n, labels)
<1>1. Len(t) \in Nat /\ DOMAIN t = 1 .. Len(t)
  BY LenProperties
<1>2. /\ i \in 1 .. Len(t) /\ j \in i .. Len(t) /\ k \in 1 .. Len(t)
      /\ \A x \in i .. j : IsGroup(t, x)
  BY <1>1 DEF AllGroups
<1>3. PICK m \in Window(t, k, n) : t[m].kind \in labels
  BY DEF Near
<1>. DEFINE K(x) == {y \in m .. x - 1 : ~JoinedToLast(t, y)}
<1>4. m \in 1 .. k - 1 /\ Cardinality(K(k)) <= n
  BY DEF Window
<1>5. m < i
  <2>1. ~(m < i) => m \in i .. j
    BY <1>2, <1>4
  <2>. QED
    BY <1>2, <1>3, <2>1 DEF IsGroup, Kind
<1>6. m \in 1 .. i - 1
  BY <1>2, <1>4, <1>5
<1>7. Cardinality(K(i)) <= n
  <2>1. IsFiniteSet(m .. k - 1)
    <3>1. m \in Int /\ k - 1 \in Int
      BY <1>2, <1>4
    <3>. QED
      BY <3>1, FS_Interval
  <2>2. K(k) \in SUBSET (m .. k - 1)
    OBVIOUS
  <2>3. K(i) \in SUBSET K(k)
    BY <1>1, <1>2, <1>4
  <2>. HIDE DEF K
  <2>4. IsFiniteSet(K(k))
    BY <2>1, <2>2, FS_Subset
  <2>5. IsFiniteSet(K(i)) /\ Cardinality(K(i)) <= Cardinality(K(k))
    BY <2>3, <2>4, FS_Subset
  <2>6. Cardinality(K(i)) \in Nat /\ Cardinality(K(k)) \in Nat
    BY <2>4, <2>5, FS_CardinalityType
  <2>. QED
    BY <1>4, <2>5, <2>6
<1>8. m \in Window(t, i, n)
  BY <1>6, <1>7 DEF Window
<1>. QED
  BY <1>3, <1>8 DEF Near

\* The priorities.
LEMMA Priorities ==
    ASSUME NEW s
    PROVE  /\ s.type \in {"CVV", "PIN"} => Priority(s) = 60
           /\ s.type \in {"CARD", "PASSPORT", "DRIVING_LICENSE"} => Priority(s) = 50
           /\ s.type = "ISSUING_AUTHORITY" => Priority(s) = 45
           /\ s.type = "INN" => Priority(s) = 40
           /\ s.type \in {"BIRTH_PLACE", "CITIZENSHIP"} => Priority(s) = 35
           /\ s.type \in {"PHONE", "ADDRESS", "TAIL", "CARD_HOLDER"} =>
                 Priority(s) = 30
           /\ s.type \in {"PERSON", "LOCATION"} => Priority(s) = 20
           /\ s.type = "EMAIL" => Priority(s) = 0
BY DEF Priority

\* Groups between a word that is none, nor "number" or "+", and one that is none.
Apart(t, i, j) ==
    /\ AllGroups(t, i, j) /\ ~IsGroup(t, i - 1) /\ ~IsGroup(t, j + 1)
    /\ ~Kind(t, i - 1, {"NUMBER", "plus"})

\* Another number that comes before one with such groups and shares one of
\* them covers them all: ...
LEMMA NumberCovers ==
    ASSUME NEW t \in Seq(Words), NEW i, NEW j, Apart(t, i, j),
           ~Near(t, i, 2, {"CVV", "PIN"}),
           NEW type \in {"CARD", "DRIVING_LICENSE", "PHONE"},
           type = "PHONE" => /\ Number(t, i, j, {11}, {1, 4, 7, 9})
                             /\ ~Near(t, j, 4, {"INN"})
                             /\ ~Near(t, i, 6, {"PASSPORT", "DRIVING"}),
           NEW s \in NumberSpans(t), Before(s, Span(i, j, type)),
           Overlap(s, Span(i, j, type))
    PROVE  s.start <= i /\ j <= s.end
<1>. DEFINE u == Span(i, j, type)
<1>1. Len(t) \in Nat /\ DOMAIN t = 1 .. Len(t)
  BY LenProperties
<1>2. /\ i \in 1 .. Len(t) /\ j \in i .. Len(t) /\ \A k \in i .. j : IsGroup(t, k)
      /\ AllGroups(t, i, j) /\ ~IsGroup(t, i - 1) /\ ~IsGroup(t, j + 1)
      /\ ~Kind(t, i - 1, {"NUMBER"}) /\ ~Kind(t, i - 1, {"plus"})
  BY <1>1 DEF Apart, AllGroups, Kind
<1>3. s \in Spans /\ s.start \in Nat /\ s.end \in Nat
  BY NumberSpansWithin DEF Within, Spans
<1>4. u \in Spans /\ u.start = i /\ u.end = j /\ u.type = type
  BY <1>1, <1>2, TypesAre DEF Span, Spans
<1>5. s.start <= j /\ i <= s.end
  BY <1>4 DEF Overlap
<1>6. /\ Priority(s) \in Nat /\ Priority(u) \in Nat /\ Priority(s) >= Priority(u)
      /\ Priority(s) = Priority(u) => s.start <= i /\ (s.start = i => s.end >= j)
  BY <1>1, <1>2, <1>3, <1>4, BeforeMeans, Ranked
<1>7. /\ type \in {"CARD", "DRIVING_LICENSE"} => Priority(u) = 50
      /\ type = "PHONE" => Priority(u) = 30
  BY <1>4, Priorities
<1>. HIDE DEF u
<1>8. Claimed(t, s)
  BY NumbersClaimed
<1>9. AllGroups(t, s.start, s.end)
  <2>1. s.start = s.end => s.start \in i .. j
    BY <1>1, <1>2, <1>3, <1>5
  <2>2. ASSUME Kind(t, s.start, {"plus"}), AllGroups(t, s.start + 1, s.end)
        PROVE  FALSE
    <3>1. s.start \notin i .. j /\ s.start # i - 1
      BY <1>2, <2>2 DEF IsGroup, Kind
    <3>2. i - 1 \in s.start + 1 .. s.end
      BY <1>1, <1>2, <1>3, <1>5, <3>1
    <3>. QED
      BY <1>2, <2>2, <3>2 DEF AllGroups
  <2>. QED
    BY <1>2, <1>8, <2>1, <2>2 DEF Claimed, Dialled
<1>10. PICK a, b : a = s.start /\ b = s.end /\ a \in i .. j /\ b \in a .. j
  BY <1>2, <1>5, <1>9, GroupsInside
<1>11. SUFFICES Priority(s) = Priority(u)
  BY <1>1, <1>2, <1>6, <1>10
<1>12. \/ s.type \in {"CVV", "PIN"} /\ Near(t, a, 2, {"CVV", "PIN"})
       \/ s.type = "CARD" /\ Len(Digits(t, a, b)) \in 13 .. 19
       \/ s.type = "PHONE"
       \/ /\ s.type = "INN" /\ a = b /\ Len(Digits(t, a, b)) \in {10, 12}
          /\ Near(t, a, 4, {"INN"})
       \/ /\ s.type \in {"PASSPORT", "DRIVING_LICENSE"}
          /\ \/ Near(t, a, 6, {"PASSPORT", "DRIVING"})
             \/ Kind(t, a - 1, {"NUMBER"})
  <2>1. IsGroup(t, s.start)
    BY <1>2, <1>10
  <2>. QED
    BY <1>8, <1>10, <2>1 DEF Claimed
<1>13. s.type \notin {"CVV", "PIN"}
  <2>1. Near(t, a, 2, {"CVV", "PIN"}) => Near(t, i, 2, {"CVV", "PIN"})
    <3>1. 2 \in Nat /\ "digits" \notin {"CVV", "PIN"}
      OBVIOUS
    <3>. QED
      BY <1>2, <1>10, <3>1, NearFirst, Zenon
  <2>. QED
    BY <1>2, <1>12, <2>1
<1>14. CASE type # "PHONE"
  <2>1. Priority(u) = 50
    BY <1>7, <1>14
  <2>2. s.type \notin {"PHONE", "INN"}
    BY <1>6, <2>1, Priorities
  <2>. QED
    BY <1>12, <1>13, <2>1, <2>2, Priorities
<1>15. CASE type = "PHONE"
  <2>1. /\ Number(t, i, j, {11}, {1, 4, 7, 9}) /\ ~Near(t, j, 4, {"INN"})
        /\ ~Near(t, i, 6, {"PASSPORT", "DRIVING"})
    BY <1>15
  <2>2. s.type # "CARD"
    <3>1. Len(Digits(t, i, j)) = 11
      BY <2>1 DEF Number
    <3>2. Len(Digits(t, a, b)) <= Len(Digits(t, i, j)) /\ Len(Digits(t, a, b)) \in Nat
      BY <1>2, <1>10, DigitsInside
    <3>3. Len(Digits(t, a, b)) \notin 13 .. 19
      <4>1. PICK n : n = Len(Digits(t, a, b))
        OBVIOUS
      <4>2. n \in Nat /\ n <= 11
        BY <3>1, <3>2, <4>1
      <4>3. n \notin 13 .. 19
        BY ONLY <4>2
      <4>. QED
        BY <4>1, <4>3, Zenon
    <3>. QED
      BY <1>12, <3>3
  <2>3. s.type # "INN"
    <3>1. SUFFICES ASSUME a = b, Len(Digits(t, a, b)) \in {10, 12},
                          Near(t, a, 4, {"INN"})
                   PROVE  FALSE
      BY <1>12
    <3>2. a # j
      BY <2>1, <3>1
    <3>3. a \in i .. j - 1
      BY <1>2, <1>10, <3>2
    <3>4. Len(Digits(t, i, a)) \in {1, 4, 7, 9}
      BY <2>1, <3>3 DEF Number
    <3>5. Len(Digits(t, a, a)) <= Len(Digits(t, i, a))
      <4>1. a \in i .. Len(t) /\ a \in i .. a /\ a \in a .. a
        BY <1>1, <1>2, <1>10
      <4>. QED
        BY <1>2, <4>1, DigitsInside
    <3>6. PICK n, m : n = Len(Digits(t, a, a)) /\ m = Len(Digits(t, i, a))
      OBVIOUS
    <3>7. n \in {10, 12} /\ m \in {1, 4, 7, 9} /\ n <= m
      BY <3>1, <3>4, <3>5, <3>6
    <3>. QED
      BY ONLY <3>7
  <2>4. s.type \notin {"PASSPORT", "DRIVING_LICENSE"}
    <3>1. ~Near(t, a, 6, {"PASSPORT", "DRIVING"})
      <4>1. 6 \in Nat /\ "digits" \notin {"PASSPORT", "DRIVING"}
        OBVIOUS
      <4>. QED
        BY <1>2, <1>10, <2>1, <4>1, NearFirst, Zenon
    <3>2. ~Kind(t, a - 1, {"NUMBER"})
      <4>1. a # i => a - 1 \in i .. j
        BY <1>1, <1>2, <1>10
      <4>2. a # i => IsGroup(t, a - 1)
        BY <1>2, <4>1
      <4>. QED
        BY <1>2, <4>2 DEF IsGroup, Kind
    <3>. QED
      BY <1>12, <3>1, <3>2
  <2>5. s.type = "PHONE"
    BY <1>12, <1>13, <2>2, <2>3, <2>4
  <2>. QED
    BY <1>7, <1>15, <2>5, Priorities
<1>. QED
  BY <1>14, <1>15

\* ... and so does a field in words, of which an address at most has a group.
LEMMA WordedCovers ==
    ASSUME NEW t \in Seq(Words), NEW i, NEW j, AllGroups(t, i, j),
           NEW type \in {"CARD", "DRIVING_LICENSE", "PHONE"},
           NEW s \in Worded(t), Before(s, Span(i, j, type)),
           Overlap(s, Span(i, j, type))
    PROVE  s.start <= i /\ j <= s.end
<1>. DEFINE u == Span(i, j, type)
<1>1. Len(t) \in Nat /\ DOMAIN t = 1 .. Len(t)
  BY LenProperties
<1>2. i \in 1 .. Len(t) /\ j \in i .. Len(t) /\ \A k \in i .. j : IsGroup(t, k)
  BY <1>1 DEF AllGroups
<1>3. /\ s \in Spans /\ s.start \in Nat /\ s.end \in Nat /\ s.start <= s.end + 1
      /\ s.type \in FieldTypes
      /\ s.type # "ADDRESS" => s.start <= s.end
      /\ \A n \in s.start .. s.end :
            IsGroup(t, n) => s.type = "ADDRESS" /\ n = s.start
  BY DEF Worded, Within, Spans
<1>4. u \in Spans /\ u.start = i /\ u.end = j /\ u.type = type
  BY <1>1, <1>2, TypesAre DEF Span, Spans
<1>5. s.start <= j /\ i <= s.end
  BY <1>4 DEF Overlap
<1>6. /\ Priority(s) \in Nat /\ Priority(u) \in Nat /\ Priority(s) >= Priority(u)
      /\ Priority(s) = Priority(u) => s.start <= i /\ (s.start = i => s.end >= j)
  BY <1>1, <1>2, <1>3, <1>4, BeforeMeans, Ranked
<1>7. Priority(u) \in {30, 50}
  BY <1>4, Priorities
<1>. HIDE DEF u
<1>8. \E n \in s.start .. s.end : n \in i .. j /\ (s.start >= i => n = s.start)
  <2>1. s.start <= s.end
    <3>1. s.type = "ADDRESS" => Priority(s) = 30
      BY Priorities
    <3>2. s.start = s.end + 1 => ~(s.start <= i)
      BY <1>1, <1>2, <1>3, <1>5
    <3>3. s.type = "ADDRESS" => Priority(s) = Priority(u)
      BY <1>6, <1>7, <3>1
    <3>. QED
      BY <1>3, <1>6, <3>2, <3>3
  <2>2. CASE s.start >= i
    BY <1>1, <1>2, <1>3, <1>5, <2>1, <2>2
  <2>3. CASE ~(s.start >= i)
    BY <1>1, <1>2, <1>3, <1>5, <2>1, <2>3
  <2>. QED
    BY <2>2, <2>3
<1>9. s.type = "ADDRESS" /\ s.start \in i .. j
  BY <1>2, <1>3, <1>8
<1>10. Priority(s) = Priority(u)
  BY <1>6, <1>7, <1>9, Priorities
<1>. QED
  BY <1>1, <1>2, <1>3, <1>6, <1>9, <1>10

\* Groups of a number that is found are all masked, as that number or not.
LEMMA GroupsAreMasked ==
    ASSUME IInv, step = "done", NEW i, NEW j, Apart(text, i, j),
           ~Near(text, i, 2, {"CVV", "PIN"}),
           NEW type \in {"CARD", "DRIVING_LICENSE", "PHONE"},
           type = "PHONE" => /\ Number(text, i, j, {11}, {1, 4, 7, 9})
                             /\ ~Near(text, j, 4, {"INN"})
                             /\ ~Near(text, i, 6, {"PASSPORT", "DRIVING"}),
           Span(i, j, type) \in found
    PROVE  \A k \in i .. j : Masked(k)
<1>. DEFINE u == Span(i, j, type)
<1>1. /\ text \in WordTexts /\ text \in Seq(Words)
      /\ Len(text) \in Nat /\ DOMAIN text = 1 .. Len(text)
  BY GroupsAre DEF IInv, WordTexts
<1>2. AllGroups(text, i, j) /\ i \in 1 .. Len(text) /\ j \in i .. Len(text)
  BY <1>1 DEF Apart, AllGroups
<1>3. Settled(accepted, found \cup entities) /\ u \in found \cup entities
  BY AcceptedIsSettled
<1>4. u \in Spans /\ u.start = i /\ u.end = j /\ u.type = type
  BY <1>1, <1>2, TypesAre DEF Span, Spans
<1>5. \E s \in accepted : s \in Spans /\ s.start <= i /\ j <= s.end
  <2>1. CASE u \in accepted
    BY <1>1, <1>2, <1>4, <2>1
  <2>2. CASE u \notin accepted
    <3>1. PICK s \in accepted : Before(s, u) /\ Overlap(s, u)
      BY <1>3, <2>2 DEF Settled
    <3>2. s \in found \cup entities /\ s \in Spans
      BY <1>3, <3>1, SpansInText DEF Settled
    <3>3. Priority(s) >= Priority(u) /\ Priority(u) \in {30, 50}
      BY <1>4, <3>1, <3>2, BeforeMeans, Ranked, Priorities
    <3>4. s.type \notin {"PERSON", "LOCATION", "EMAIL"}
      BY <3>3, Priorities
    <3>5. s \notin Persons(text) /\ s \notin Emails(text) /\ s \notin Names(text)
      BY <1>1, <3>4, PersonsAre, EmailsAre, NamesWithin DEF Within
    <3>6. s \in found
      BY <3>2, <3>5 DEF IInv, DetectedOnce
    <3>7. s \in NumberSpans(text) \/ s \in Worded(text)
      BY <1>1, <3>5, <3>6, FoundAre DEF IInv, DetectedOnce
    <3>8. CASE s \in NumberSpans(text)
      <4>1. s.start <= i /\ j <= s.end
        BY <1>1, <3>1, <3>8, NumberCovers
      <4>. QED
        BY <3>1, <3>2, <4>1
    <3>9. CASE s \in Worded(text)
      <4>1. s.start <= i /\ j <= s.end
        BY <1>1, <1>2, <3>1, <3>9, WordedCovers
      <4>. QED
        BY <3>1, <3>2, <4>1
    <3>. QED
      BY <3>7, <3>8, <3>9
  <2>. QED
    BY <2>1, <2>2
<1>6. PICK s \in accepted : s \in Spans /\ s.start <= i /\ j <= s.end
  BY <1>5
<1>7. s.start \in Nat /\ s.end \in Nat /\ s.type # "TAIL"
  <2>1. s \in found \cup entities /\ s.start \in Nat /\ s.end \in Nat
    BY <1>3, <1>6 DEF Settled, Spans
  <2>2. IsGroup(text, i) /\ i <= s.end
    BY <1>1, <1>2, <1>6, <2>1 DEF AllGroups
  <2>. QED
    BY <1>6, <2>1, <2>2, GroupsElsewhere
<1>8. ASSUME NEW k \in i .. j PROVE s.start <= k /\ k <= s.end
  BY <1>1, <1>2, <1>6, <1>7
<1>. QED
  BY <1>6, <1>7, <1>8 DEF Masked, Masks

\* A number with no digits behind it is as long as any from its first word.
LEMMA LongestIs ==
    ASSUME NEW t \in Seq(Words), NEW lengths, NEW cuts, NEW i,
           NEW j \in i .. Len(t), Number(t, i, j, lengths, cuts), ~IsGroup(t, j + 1)
    PROVE  LongestEnd(t, i, lengths, cuts) = j
<1>1. Len(t) \in Nat /\ DOMAIN t = 1 .. Len(t) /\ i \in 1 .. Len(t)
  BY GroupsAre
<1>2. PICK e : e = LongestEnd(t, i, lengths, cuts)
  OBVIOUS
<1>3. j <= e /\ (e = 0 \/ e \in i .. Len(t))
  BY <1>1, <1>2, LongestEndIs
<1>4. e \in i .. Len(t)
  BY <1>1, <1>3
<1>5. AllGroups(t, i, e)
  BY <1>1, <1>2, <1>4, LongestGroups
<1>6. ~(e > j)
  <2>1. e > j => j + 1 \in i .. e
    BY <1>1, <1>4
  <2>. QED
    BY <1>5, <2>1 DEF AllGroups
<1>. QED
  BY <1>1, <1>2, <1>3, <1>4, <1>6

\* No number goes past a word that is no group.
LEMMA LongestBefore ==
    ASSUME NEW t \in Seq(Words), NEW i \in 1 .. Len(t), ~IsGroup(t, i - 1)
    PROVE  \A k, lengths, cuts :
              k \in 1 .. i - 1 => LongestEnd(t, k, lengths, cuts) < i
<1>1. SUFFICES ASSUME NEW k \in 1 .. i - 1, NEW lengths, NEW cuts,
                      ~(LongestEnd(t, k, lengths, cuts) < i)
               PROVE  FALSE
  OBVIOUS
<1>2. Len(t) \in Nat /\ DOMAIN t = 1 .. Len(t) /\ k \in DOMAIN t
  BY GroupsAre
<1>3. PICK e : e = LongestEnd(t, k, lengths, cuts)
  OBVIOUS
<1>4. e \in 0 .. Len(t) /\ e >= k
  BY <1>1, <1>2, <1>3, LongestEnds
<1>5. AllGroups(t, k, e)
  BY <1>2, <1>3, <1>4, LongestGroups
<1>6. i - 1 \in k .. e
  BY <1>1, <1>2, <1>3, <1>4
<1>. QED
  BY <1>5, <1>6 DEF AllGroups

\* A card behind its label is found.
LEMMA CardFound ==
    ASSUME NEW t \in Seq(Words), NEW i, NEW j \in i .. Len(t),
           Number(t, i, j, 13 .. 19, {4, 8, 12, 16}),
           ~IsGroup(t, i - 1), ~IsGroup(t, j + 1), Near(t, i, 2, CardLabels)
    PROVE  Span(i, j, "CARD") \in NumberSpans(t)
<1>. DEFINE end == [n \in DOMAIN t |-> CardEnd(t, n)]
<1>1. Len(t) \in Nat /\ DOMAIN t = 1 .. Len(t) /\ i \in 1 .. Len(t)
  BY GroupsAre
<1>2. Number(t, i, j, 12 .. 19, {4, 8, 12, 16}) /\ Len(Digits(t, i, j)) \in 13 .. 19
  <2>1. 13 .. 19 \subseteq 12 .. 19
    OBVIOUS
  <2>. QED
    BY <2>1 DEF Number
<1>3. CardEnd(t, i) = j
  BY <1>2, LongestIs DEF CardEnd
<1>4. \A k \in 1 .. Len(t) : end[k] = CardEnd(t, k) /\ end[k] \in 0 .. Len(t)
  <2>1. \A k \in DOMAIN t : CardEnd(t, k) \in 0 .. Len(t)
    BY LongestEnds DEF CardEnd
  <2>. QED
    BY <1>1, <2>1
<1>5. \A k \in 1 .. i - 1 : end[k] < i
  <2>1. \A k \in 1 .. i - 1 : CardEnd(t, k) < i
    BY <1>1, LongestBefore DEF CardEnd
  <2>. QED
    BY <1>1, <1>4, <2>1
<1>6. Cards(t) = {Span(k, CardEnd(t, k), "CARD") :
                     k \in {n \in Starts(t, end) : CardValid(t, n, CardEnd(t, n))}}
  BY DEF Cards
<1>. HIDE DEF end
<1>7. i \in Starts(t, end)
  <2>1. end[i] >= i
    BY <1>1, <1>3, <1>4
  <2>. QED
    BY <1>1, <1>4, <1>5, <2>1, StartsReach
<1>8. CardValid(t, i, CardEnd(t, i))
  BY <1>2, <1>3 DEF CardValid
<1>9. Span(i, j, "CARD") \in Cards(t)
  BY <1>3, <1>6, <1>7, <1>8
<1>. QED
  BY <1>9 DEF NumberSpans

\* So is a Russian telephone number.
LEMMA PhoneFound ==
    ASSUME NEW t \in Seq(Words), NEW i, NEW j \in i .. Len(t),
           Number(t, i, j, {11}, {1, 4, 7, 9}),
           t[i].digits[1] = 8, ~IsGroup(t, i - 1), ~Kind(t, i - 1, {"plus"}),
           ~IsGroup(t, j + 1), Near(t, i, 2, {"PHONE"})
    PROVE  Span(i, j, "PHONE") \in NumberSpans(t)
<1>. DEFINE end == [n \in DOMAIN t |-> PhoneEnd(t, n)]
<1>1. Len(t) \in Nat /\ DOMAIN t = 1 .. Len(t) /\ i \in 1 .. Len(t)
  BY GroupsAre
<1>2. PhoneEnd(t, i) = j
  <2>1. LongestEnd(t, i, {11}, {1, 4, 7, 9}) = j
    BY LongestIs
  <2>2. IsGroup(t, i) /\ ~Kind(t, i, {"plus"})
    BY DEF Number, IsGroup, Kind
  <2>. QED
    BY <2>1, <2>2 DEF PhoneEnd, PhoneLengths, PhoneCuts
<1>3. \A k \in 1 .. Len(t) : end[k] = PhoneEnd(t, k) /\ end[k] \in 0 .. Len(t)
  <2>1. \A k \in DOMAIN t : PhoneEnd(t, k) \in 0 .. Len(t)
    BY PhoneEndsAre
  <2>. QED
    BY <1>1, <2>1
<1>4. \A k \in 1 .. i - 1 : end[k] < i
  <2>1. ASSUME NEW k \in 1 .. i - 1 PROVE PhoneEnd(t, k) < i
    <3>1. PICK e : e = PhoneEnd(t, k)
      OBVIOUS
    <3>2. k \in DOMAIN t /\ k \in Nat
      BY <1>1
    <3>3. e \in 0 .. Len(t) /\ (e >= k => Dialled(t, k, e))
      BY <3>1, <3>2, PhoneEndsAre
    <3>4. SUFFICES ASSUME e >= i PROVE FALSE
      BY <1>1, <3>1, <3>3
    <3>5. i - 1 \in k .. e /\ (k # i - 1 => i - 1 \in k + 1 .. e) /\ e >= k
      BY <1>1, <3>3, <3>4
    <3>. QED
      BY <3>3, <3>5 DEF Dialled, AllGroups
  <2>. QED
    BY <1>1, <1>3, <2>1
<1>. HIDE DEF end
<1>5. i \in Starts(t, end)
  <2>1. end[i] >= i
    BY <1>1, <1>2, <1>3
  <2>. QED
    BY <1>1, <1>3, <1>4, <2>1, StartsReach
<1>6. Span(i, j, "PHONE") \in Phones(t)
  BY <1>2, <1>5 DEF Phones, end
<1>. QED
  BY <1>6 DEF NumberSpans

\* ... and a driving licence.
LEMMA LicenseFound ==
    ASSUME NEW t \in Seq(Words), NEW i, NEW j \in i .. Len(t),
           Number(t, i, j, {10}, {2, 4}),
           Kind(t, i - 1, {"DRIVING"}), ~IsGroup(t, j + 1)
    PROVE  Span(i, j, "DRIVING_LICENSE") \in NumberSpans(t)
<1>. DEFINE end == [n \in DOMAIN t |-> Document(t, n)[2]]
            type == "DRIVING_LICENSE"
<1>1. /\ Len(t) \in Nat /\ DOMAIN t = 1 .. Len(t)
      /\ i \in 1 .. Len(t) /\ i - 1 \in 1 .. Len(t) /\ ~IsGroup(t, i - 1)
  BY GroupsAre DEF Kind, IsGroup
<1>2. AllGroups(t, i, j) /\ Len(Digits(t, i, j)) \in {10}
  <2>1. j >= i
    BY <1>1
  <2>. QED
    BY <2>1, NumberGroups
<1>3. Document(t, i) = <<0, j>>
  <2>1. LongestEnd(t, i, {10}, {2, 4}) = j
    BY LongestIs
  <2>2. ASSUME NEW k \in i .. Len(t), Series(t, i, k), Kind(t, k + 1, {"NUMBER"})
        PROVE  FALSE
    <3>1. AllGroups(t, i, k) /\ Len(Digits(t, i, k)) \in {4}
      <4>1. k >= i
        BY <1>1
      <4>. QED
        BY <2>2, <4>1, NumberGroups DEF Series
    <3>2. k # j
      <4>1. 10 # 4
        OBVIOUS
      <4>. QED
        BY <1>2, <3>1, <4>1, Zenon
    <3>3. CASE k < j
      <4>1. k + 1 \in i .. j
        BY <1>1, <3>3
      <4>. QED
        BY <1>2, <2>2, <4>1 DEF AllGroups, Kind, IsGroup
    <3>4. CASE k > j
      <4>1. j + 1 \in i .. k
        BY <1>1, <3>4
      <4>. QED
        BY <3>1, <4>1 DEF AllGroups
    <3>. QED
      BY <1>1, <3>2, <3>3, <3>4
  <2>3. Document(t, i) \in Documents(t, i)
    BY <1>1, DocumentIs
  <2>4. Documents(t, i) = {<<0, j>>}
    BY <2>1, <2>2 DEF Documents
  <2>. QED
    BY <2>3, <2>4
<1>4. \A k \in 1 .. Len(t) : end[k] = Document(t, k)[2] /\ end[k] \in 0 .. Len(t)
  BY <1>1, DocumentIs
<1>5. ASSUME NEW k \in 1 .. i - 1 PROVE end[k] < i
  <2>1. SUFFICES ASSUME Document(t, k)[2] >= i PROVE FALSE
    BY <1>1, <1>4
  <2>2. PICK d : d = Document(t, k)
    OBVIOUS
  <2>3. k \in DOMAIN t /\ d[2] >= i /\ d[2] >= k /\ d[2] \in Int
    BY <1>1, <1>4, <2>1, <2>2
  <2>4. \/ d[1] = 0 /\ d[2] \in k .. Len(t) /\ AllGroups(t, k, d[2])
        \/ /\ d[1] \in k .. Len(t) /\ d[2] = d[1] + 2
           /\ AllGroups(t, k, d[1]) /\ Kind(t, d[2] - 1, {"NUMBER"})
    BY <2>2, <2>3, DocumentGroups
  <2>5. CASE AllGroups(t, k, d[2])
    <3>1. i - 1 \in k .. d[2]
      BY <1>1, <2>3
    <3>. QED
      BY <1>1, <2>5, <3>1 DEF AllGroups
  <2>6. CASE /\ d[1] \in k .. Len(t) /\ d[2] = d[1] + 2
             /\ AllGroups(t, k, d[1]) /\ Kind(t, d[2] - 1, {"NUMBER"})
    <3>1. d[1] < i - 1
      <4>1. ~(d[1] < i - 1) => i - 1 \in k .. d[1]
        BY <1>1, <2>6
      <4>. QED
        BY <1>1, <2>6, <4>1 DEF AllGroups
    <3>2. d[2] - 1 = i - 1
      BY <1>1, <2>3, <2>6, <3>1
    <3>. QED
      BY <2>6, <3>2 DEF Kind
  <2>. QED
    BY <2>4, <2>5, <2>6
<1>6. "DRIVING" \in Context(t, i, 6)
  <2>1. i \in DOMAIN t /\ i - 1 \in DOMAIN t /\ 6 \in Nat /\ 1 \in 1 .. 6
    BY <1>1
  <2>2. i - 1 \in Window(t, i, 6)
    BY <2>1, InWindow, Zenon
  <2>. QED
    BY <2>2 DEF Context, Kind
<1>7. WholeDocuments(t, type) =
         UNION {LET d == Document(t, k)
                IN  IF d[1] = 0 THEN {Span(k, d[2], type)}
                    ELSE {Span(k, d[1], type), Span(d[2], d[2], type)} :
                   k \in {n \in Starts(t, end) : Personal(t, n, type)}}
  BY DEF WholeDocuments
<1>. HIDE DEF end
<1>8. i \in Starts(t, end)
  <2>1. end[i] = j
    BY <1>1, <1>3, <1>4
  <2>2. end[i] >= i
    BY <1>1, <2>1
  <2>. QED
    BY <1>1, <1>4, <1>5, <2>2, StartsReach
<1>9. Span(i, j, type) \in WholeDocuments(t, type)
  <2>1. Personal(t, i, type)
    BY <1>6 DEF Personal
  <2>. QED
    BY <1>3, <1>7, <1>8, <2>1
<1>. QED
  BY <1>9 DEF NumberSpans, DocumentNumbers

\* The number of a document behind its label, in one word, is found.
LEMMA PartFound ==
    ASSUME NEW t \in Seq(Words), NEW type \in {"PASSPORT", "DRIVING_LICENSE"},
           NEW p \in Parts(t), p[2] = p[3], SixDigits(t, p[2]),
           ~IsGroup(t, p[2] - 1), Personal(t, p[2], type)
    PROVE  Span(p[2], p[2], type) \in NumberSpans(t)
<1>1. PICK i : i = p[2]
  OBVIOUS
<1>2. /\ i \in 1 .. Len(t) /\ Len(t) \in Nat /\ Len(Digits(t, i, i)) = 6
  BY <1>1, GroupsAre DEF SixDigits, Number
<1>. DEFINE parts == {Span(q[2], q[3], type) :
                         q \in {r \in Parts(t) : PartPersonal(t, r, type)}}
            whole == WholeDocuments(t, type)
            u == Span(i, i, type)
<1>3. u \in parts
  BY <1>1 DEF PartPersonal
<1>4. DocumentNumbers(t, type)
         = whole \cup {s \in parts : ~\E w \in whole : Inside(s, w)}
  BY DEF DocumentNumbers
<1>. HIDE DEF parts, whole
<1>5. ASSUME NEW w \in whole, Inside(u, w) PROVE w = u
  <2>1. /\ w.type = type /\ AllGroups(t, w.start, w.end)
        /\ \/ w.start = w.end
           \/ Number(t, w.start, w.end, {10}, {2, 4})
           \/ Series(t, w.start, w.end)
    BY WholeDocumentsAre DEF whole
  <2>2. w.start <= i /\ i <= w.end
    BY <1>5 DEF Inside, Span
  <2>3. w.start \in 1 .. Len(t) /\ w.end \in w.start .. Len(t)
    BY <1>2, <2>1, GroupsAre DEF AllGroups
  <2>4. w.start = i
    <3>1. w.start < i => i - 1 \in w.start .. w.end
      BY <1>2, <2>2, <2>3
    <3>2. ~(w.start < i)
      BY <1>1, <2>1, <3>1 DEF AllGroups
    <3>. QED
      BY <1>2, <2>2, <2>3, <3>2
  <2>5. w.end = i
    <3>1. SUFFICES ASSUME w.end # i PROVE FALSE
      OBVIOUS
    <3>2. i \in i .. w.end - 1
      BY <1>2, <2>2, <2>3, <3>1
    <3>3. Len(Digits(t, i, i)) \in {2, 4}
      BY <2>1, <2>4, <3>1, <3>2 DEF Number, Series
    <3>. QED
      BY <1>2, <3>3
  <2>6. w \in Spans
    <3>1. type \in NumberTypes
      BY LabelTypesAre
    <3>. QED
      BY <3>1, WholeDocumentsWithin DEF whole, Within
  <2>. QED
    BY <2>1, <2>4, <2>5, <2>6 DEF Spans, Span
<1>6. u \in DocumentNumbers(t, type)
  BY <1>3, <1>4, <1>5
<1>. QED
  BY <1>1, <1>6 DEF NumberSpans

\* A number behind its label, and with no other number's label near it, is
\* masked as a whole.
LEMMA LabelledMasked ==
    ASSUME IInv, step = "done", NEW i \in DOMAIN text, NEW j \in DOMAIN text, i <= j,
           \/ /\ Number(text, i, j, 13 .. 19, {4, 8, 12, 16})
              /\ Alone(i, j, "CARD")
           \/ /\ Number(text, i, j, {11}, {1, 4, 7, 9})
              /\ text[i].digits[1] = 8
              /\ Alone(i, j, "PHONE")
           \/ i = j /\ Number(text, i, i, {10, 12}, {}) /\ Alone(i, i, "INN")
           \/ Number(text, i, j, {10}, {2, 4}) /\ Alone(i, j, "DRIVING")
    PROVE  \A k \in i .. j : Masked(k)
<1>. DEFINE t == text
<1>1. /\ t \in Seq(Words) /\ Len(t) \in Nat /\ DOMAIN t = 1 .. Len(t)
      /\ i \in 1 .. Len(t) /\ j \in i .. Len(t) /\ j >= i
  <2>1. t \in Seq(Words) /\ Len(t) \in Nat /\ DOMAIN t = 1 .. Len(t)
    BY GroupsAre DEF IInv, WordTexts
  <2>. QED
    BY <2>1
<1>2. /\ \A label : Alone(i, j, label) =>
            /\ Kind(t, i - 1, {label}) /\ ~IsGroup(t, j + 1)
            /\ ~Near(t, i, 2, {"CVV", "PIN"})
      /\ Alone(i, j, "PHONE") => /\ ~Near(t, j, 4, {"INN"})
                                 /\ ~Near(t, i, 6, {"PASSPORT", "DRIVING"})
  BY DEF Alone
<1>3. ASSUME NEW label \in {"CARD", "PHONE", "INN", "DRIVING"}, Kind(t, i - 1, {label})
      PROVE  /\ ~IsGroup(t, i - 1) /\ ~Kind(t, i - 1, {"NUMBER", "plus"})
             /\ ~Kind(t, i - 1, {"plus"})
             /\ t[i - 1].kind = label
             /\ \A n \in Nat \ {0} : i - 1 \in Window(t, i, n)
  <2>1. ASSUME NEW n \in Nat \ {0} PROVE i - 1 \in Window(t, i, n)
    <3>1. n \in Nat /\ 1 \in 1 .. n /\ i \in DOMAIN t /\ i - 1 \in DOMAIN t
      BY <1>1, <1>3 DEF Kind
    <3>. QED
      BY <1>1, <3>1, InWindow, Zenon
  <2>. QED
    BY <1>3, <2>1 DEF Kind, IsGroup
<1>4. \A s \in NumberSpans(t) : IsGroup(t, i) => s \in found
  BY <1>1 DEF IInv, DetectedOnce, Found
<1>5. CASE Number(t, i, j, 13 .. 19, {4, 8, 12, 16}) /\ Alone(i, j, "CARD")
  <2>1. Kind(t, i - 1, {"CARD"}) /\ ~IsGroup(t, j + 1) /\ ~Near(t, i, 2, {"CVV", "PIN"})
    BY <1>2, <1>5
  <2>2. AllGroups(t, i, j)
    BY <1>1, <1>5, NumberGroups
  <2>3. Apart(t, i, j)
    BY <1>3, <2>1, <2>2 DEF Apart
  <2>4. Near(t, i, 2, CardLabels)
    <3>1. 2 \in Nat \ {0}
      OBVIOUS
    <3>2. i - 1 \in Window(t, i, 2) /\ t[i - 1].kind = "CARD"
      BY <1>3, <2>1, <3>1
    <3>. QED
      BY <3>2 DEF Near, CardLabels
  <2>5. Span(i, j, "CARD") \in NumberSpans(t)
    BY <1>1, <1>3, <1>5, <2>1, <2>4, CardFound
  <2>6. Span(i, j, "CARD") \in found
    BY <1>4, <1>5, <2>5 DEF Number
  <2>7. "CARD" \in {"CARD", "DRIVING_LICENSE", "PHONE"} /\ "CARD" # "PHONE"
    OBVIOUS
  <2>. QED
    BY <2>1, <2>3, <2>6, <2>7, GroupsAreMasked, Zenon
<1>6. CASE /\ Number(t, i, j, {11}, {1, 4, 7, 9})
           /\ t[i].digits[1] = 8 /\ Alone(i, j, "PHONE")
  <2>1. /\ Kind(t, i - 1, {"PHONE"}) /\ ~IsGroup(t, j + 1)
        /\ ~Near(t, i, 2, {"CVV", "PIN"})
        /\ ~Near(t, j, 4, {"INN"}) /\ ~Near(t, i, 6, {"PASSPORT", "DRIVING"})
    BY <1>2, <1>6
  <2>2. AllGroups(t, i, j)
    BY <1>1, <1>6, NumberGroups
  <2>3. Apart(t, i, j)
    BY <1>3, <2>1, <2>2 DEF Apart
  <2>4. Near(t, i, 2, {"PHONE"})
    <3>1. 2 \in Nat \ {0}
      OBVIOUS
    <3>2. i - 1 \in Window(t, i, 2) /\ t[i - 1].kind = "PHONE"
      BY <1>3, <2>1, <3>1
    <3>. QED
      BY <3>2 DEF Near
  <2>5. Span(i, j, "PHONE") \in NumberSpans(t)
    BY <1>1, <1>3, <1>6, <2>1, <2>4, PhoneFound
  <2>6. Span(i, j, "PHONE") \in found
    BY <1>4, <1>6, <2>5 DEF Number
  <2>7. "PHONE" \in {"CARD", "DRIVING_LICENSE", "PHONE"}
    OBVIOUS
  <2>. QED
    BY <1>6, <2>1, <2>3, <2>6, <2>7, GroupsAreMasked, Zenon
<1>7. CASE i = j /\ Number(t, i, i, {10, 12}, {}) /\ Alone(i, i, "INN")
  <2>1. Kind(t, i - 1, {"INN"})
    BY <1>2, <1>7
  <2>2. Near(t, i, 4, {"INN"})
    <3>1. 4 \in Nat \ {0}
      OBVIOUS
    <3>2. i - 1 \in Window(t, i, 4) /\ t[i - 1].kind = "INN"
      BY <1>3, <2>1, <3>1
    <3>. QED
      BY <3>2 DEF Near
  <2>3. Span(i, i, "INN") \in NumberSpans(t)
    BY <1>7, <2>2 DEF NumberSpans, Inns
  <2>4. Span(i, i, "INN") \in found \cup entities
    BY <1>4, <1>7, <2>3 DEF Number
  <2>5. Masked(i)
    BY <1>7, <2>4, WordIsMasked DEF Span, Number
  <2>. QED
    BY <1>1, <1>7, <2>5
<1>8. CASE Number(t, i, j, {10}, {2, 4}) /\ Alone(i, j, "DRIVING")
  <2>1. /\ Kind(t, i - 1, {"DRIVING"}) /\ ~IsGroup(t, j + 1)
        /\ ~Near(t, i, 2, {"CVV", "PIN"})
    BY <1>2, <1>8
  <2>2. AllGroups(t, i, j)
    BY <1>1, <1>8, NumberGroups
  <2>3. Apart(t, i, j)
    BY <1>3, <2>1, <2>2 DEF Apart
  <2>4. Span(i, j, "DRIVING_LICENSE") \in NumberSpans(t)
    BY <1>1, <1>8, <2>1, LicenseFound
  <2>5. Span(i, j, "DRIVING_LICENSE") \in found
    BY <1>4, <1>8, <2>4 DEF Number
  <2>6. /\ "DRIVING_LICENSE" \in {"CARD", "DRIVING_LICENSE", "PHONE"}
        /\ "DRIVING_LICENSE" # "PHONE"
    OBVIOUS
  <2>. QED
    BY <2>1, <2>3, <2>5, <2>6, GroupsAreMasked, Zenon
<1>. QED
  BY <1>5, <1>6, <1>7, <1>8

\* The parts of a passport's number are found, as a passport's or, if driving
\* is mentioned, as a licence's, and masked.
LEMMA PartsMasked ==
    ASSUME IInv
    PROVE  DocumentPartsMasked
<1>. DEFINE t == text
<1>1. \A n \in DOMAIN t : \A k \in n .. n : k = n
  <2>1. t \in Seq(Words) /\ DOMAIN t = 1 .. Len(t) /\ Len(t) \in Nat
    BY GroupsAre DEF IInv, WordTexts
  <2>. QED
    BY <2>1
<1>2. SUFFICES ASSUME NEW i \in DOMAIN t, step = "done",
                      \/ i > 1 /\ Kind(t, i - 1, {"NUMBER"}) /\ SixDigits(t, i)
                      \/ /\ i > 2 /\ Kind(t, i - 1, {"PASSPORT"})
                         /\ Kind(t, i - 2, {"NUMBER"}) /\ SixDigits(t, i),
                      Separates(t, i - 1), i > 2 => t[i - 2].mark = "",
                      "PASSPORT" \in Context(t, i, 6),
                      "PRODUCT" \notin Context(t, i, 6)
               PROVE  Masked(i)
  BY <1>1 DEF DocumentPartsMasked, AllMasked
<1>3. /\ t \in Seq(Words) /\ Len(t) \in Nat /\ DOMAIN t = 1 .. Len(t)
      /\ i \in 1 .. Len(t)
  <2>1. t \in Seq(Words) /\ Len(t) \in Nat /\ DOMAIN t = 1 .. Len(t)
    BY GroupsAre DEF IInv, WordTexts
  <2>. QED
    BY <2>1
<1>4. SixDigits(t, i) /\ IsGroup(t, i) /\ ~IsGroup(t, i - 1)
  BY <1>2 DEF SixDigits, Number, Kind, IsGroup
<1>5. PICK l \in DOMAIN t : Kind(t, l, {"NUMBER"}) /\ PartValue(t, l) = i
  <2>1. CASE i > 1 /\ Kind(t, i - 1, {"NUMBER"})
    <3>1. i - 1 \in DOMAIN t /\ i - 1 + 1 = i
      BY <1>3, <2>1
    <3>2. ~Kind(t, i - 1 + 1, {"PASSPORT"})
      BY <1>4, <3>1 DEF IsGroup, Kind
    <3>3. PartValue(t, i - 1) = i
      BY <3>1, <3>2 DEF PartValue
    <3>. QED
      BY <2>1, <3>1, <3>3
  <2>2. CASE /\ i > 2 /\ Kind(t, i - 1, {"PASSPORT"})
             /\ Kind(t, i - 2, {"NUMBER"})
    <3>1. i - 2 \in DOMAIN t /\ i - 2 + 1 = i - 1 /\ i - 2 + 2 = i
      BY <1>3, <2>2
    <3>2. t[i - 2].mark = ""
      BY <1>2, <2>2
    <3>3. PartValue(t, i - 2) = i
      BY <2>2, <3>1, <3>2 DEF PartValue
    <3>. QED
      BY <2>2, <3>1, <3>3
  <2>. QED
    BY <1>2, <2>1, <2>2
<1>6. <<l, i, i>> \in Parts(t)
  <2>. DEFINE Values(m) ==
                {k \in PartValue(t, m) .. Len(t) :
                    /\ Separates(t, PartValue(t, m) - 1)
                    /\ \/ t[m].kind = "SERIES" /\ Series(t, PartValue(t, m), k)
                       \/ /\ t[m].kind = "NUMBER" /\ k = PartValue(t, m)
                          /\ SixDigits(t, k)}
  <2>1. i \in i .. Len(t)
    BY <1>3
  <2>2. t[l].kind = "NUMBER"
    BY <1>5 DEF Kind
  <2>3. i \in Values(l)
    BY <1>2, <1>4, <1>5, <2>1, <2>2
  <2>4. Parts(t) = UNION {{<<m, PartValue(t, m), e>> : e \in Values(m)} : m \in DOMAIN t}
    BY DEF Parts
  <2>. HIDE DEF Values
  <2>5. <<l, i, i>> \in {<<l, PartValue(t, l), e>> : e \in Values(l)}
    BY <1>5, <2>3
  <2>. QED
    BY <2>4, <2>5
<1>7. PICK type \in {"PASSPORT", "DRIVING_LICENSE"} : Personal(t, i, type)
  <2>1. CASE "DRIVING" \in Context(t, i, 6)
    BY <2>1 DEF Personal
  <2>2. CASE "DRIVING" \notin Context(t, i, 6)
    BY <1>2, <2>2 DEF Personal
  <2>. QED
    BY <2>1, <2>2
<1>8. Span(i, i, type) \in NumberSpans(t)
  <2>1. PICK p \in Parts(t) : p[2] = i /\ p[3] = i
    BY <1>6
  <2>. QED
    BY <1>3, <1>4, <1>7, <2>1, PartFound
<1>9. Span(i, i, type) \in found \cup entities
  BY <1>2, <1>4, <1>8 DEF IInv, DetectedOnce, Found
<1>. QED
  BY <1>2, <1>4, <1>9, WordIsMasked DEF Span

\* Numbers with a label are masked in every text, whatever stands around them
\* and whatever other detector or entity claims the same digits.
THEOREM NumbersAreMasked == Spec => []NumbersMasked
<1>1. ASSUME IInv PROVE LabelledNumbersMasked
  BY <1>1, LabelledMasked DEF LabelledNumbersMasked, AllMasked
<1>2. Spec => []LabelledNumbersMasked
  BY <1>1, Invariance, PTL
<1>3. Spec => []DocumentPartsMasked
  BY PartsMasked, Invariance, PTL
<1>4. LabelledCodesMasked /\ LabelledNumbersMasked /\ DocumentPartsMasked => NumbersMasked
  BY DEF NumbersMasked
<1>. QED
  BY <1>2, <1>3, <1>4, CodesMasked, PTL

-----------------------------------------------------------------------------
(* Values in words, and what other spans take of them.                     *)

\* Marks. (The empty string and "," are hidden from SMT, which cannot read them.)
Bare(t, i) == t[i].mark = ""
Commaed(t, i) == t[i].mark = ","
Coloned(t, i) == t[i].mark = ":"

\* A word has one mark at most; SEPARATOR stands for two.
LEMMA MarksDiffer ==
    ASSUME NEW t, NEW i
    PROVE  /\ Bare(t, i) => ~Commaed(t, i) /\ ~Coloned(t, i)
           /\ Commaed(t, i) => ~Coloned(t, i)
           /\ Separates(t, i) <=> Bare(t, i) \/ Coloned(t, i)
BY Zenon DEF Bare, Commaed, Coloned, Separates

\* Words are joined if they have no mark.
LEMMA JoinedMeans ==
    ASSUME NEW t, NEW i, NEW j
    PROVE  Joined(t, i, j) <=> \A k \in i .. j - 1 : Bare(t, k)
BY Zenon DEF Joined, Bare

\* Where a value ends: at its last word of those it may have, before a mark or
\* before a word that is none of a value.
LEMMA ValueEnds ==
    ASSUME NEW t \in Seq(Words), NEW i \in 1 .. Len(t), NEW n \in Nat \ {0},
           NEW j \in i .. Len(t), j <= i + n - 1, Joined(t, i, j),
           \A k \in i .. j : ValueWord(t[k]),
           \/ j = Len(t) \/ ~Bare(t, j) \/ ~ValueWord(t[j + 1])
    PROVE  RunEnd(t, i, n, {}) = j
<1>1. Len(t) \in Nat /\ i \in 1 .. Len(t) + 1
  BY LenProperties
<1>2. PICK e : e = RunEnd(t, i, n, {})
  OBVIOUS
<1>3. /\ e \in i - 1 .. Len(t)
      /\ e >= i => Joined(t, i, e) /\ \A k \in i .. e : ValueWord(t[k])
      /\ \A m \in i .. Len(t) :
            /\ m <= i + n - 1 /\ Joined(t, i, m)
            /\ \A k \in i .. m : ValueWord(t[k]) /\ t[k].kind \notin {}
            => m <= e
  BY <1>1, <1>2, RunEndReaches
<1>4. j <= e
  BY <1>3
<1>5. ~(j < e)
  <2>1. SUFFICES ASSUME j < e PROVE FALSE
    OBVIOUS
  <2>2. j \in i .. e - 1 /\ j + 1 \in i .. e /\ e >= i /\ j # Len(t)
    BY <1>1, <1>3, <2>1
  <2>. QED
    BY <1>3, <2>2, JoinedMeans
<1>. QED
  BY <1>1, <1>2, <1>3, <1>4, <1>5

FieldLabels ==
    PersonLabels \cup
    {"NAME_PART", "CITIZENSHIP", "BIRTH_PLACE", "CARD_HOLDER", "LIVES"}

\* A value of four words at most behind the label of a field.
FieldAt(t, s) ==
    /\ s.start - 1 \in 1 .. Len(t)
    /\ t[s.start - 1].kind \in FieldLabels /\ Separates(t, s.start - 1)
    /\ s.end = RunEnd(t, s.start, 4, {}) /\ s.start <= s.end

\* The detectors of fields find such.
LEMMA FieldsAt ==
    ASSUME NEW t \in Seq(Words), NEW labels \in SUBSET FieldLabels,
           NEW marks \in SUBSET Separators, NEW least \in Nat \ {0},
           NEW type \in Types,
           NEW s \in Fields(t, labels, marks, least, 4, type)
    PROVE  FieldAt(t, s) /\ s \in Spans
<1>1. PICK most \in Nat \ {0} : most = 4
  OBVIOUS
<1>6. s \in Fields(t, labels, marks, least, most, type) /\ least \in Nat
  BY <1>1
<1>2. LabelledBy(t, s, labels, marks, least, most) /\ s \in Within(t, {type})
  BY <1>6, FieldsBehind
<1>3. s \in Spans /\ s.start \in Nat /\ s.end \in Nat
  BY <1>2 DEF Within, Spans
<1>4. s.start <= s.end
  BY <1>2, <1>3 DEF LabelledBy
<1>5. Separates(t, s.start - 1)
  <2>1. t[s.start - 1].mark \in Separators
    BY <1>2 DEF LabelledBy
  <2>. QED
    BY <2>1, Zenon DEF Separates, Separators
<1>. QED
  BY <1>1, <1>2, <1>3, <1>4, <1>5 DEF FieldAt, LabelledBy

\* They have the type of the field ...
LEMMA FieldsType ==
    ASSUME NEW t, NEW labels, NEW marks, NEW least, NEW type,
           NEW s \in Fields(t, labels, marks, least, 4, type)
    PROVE  s.type = type
<1>1. \E S, f : Fields(t, labels, marks, least, 4, type) = {Span(i + 1, f[i], type) : i \in S}
  BY Zenon DEF Fields
<1>. QED
  BY <1>1 DEF Span

\* ... and stand wherever its label stands that no such value before it reaches.
LEMMA FieldFound ==
    ASSUME NEW t \in Seq(Words), NEW labels, NEW marks, NEW least \in Nat \ {0},
           NEW most \in Nat \ {0}, NEW type,
           NEW i \in 1 .. Len(t), t[i].kind \in labels, t[i].mark \in marks,
           RunEnd(t, i + 1, most, {}) >= i + least,
           \A k \in 1 .. i - 1 : t[k].kind \in labels /\ t[k].mark \in marks =>
                                    RunEnd(t, k + 1, most, {}) < i
    PROVE  Span(i + 1, RunEnd(t, i + 1, most, {}), type)
              \in Fields(t, labels, marks, least, most, type)
<1>. DEFINE End(k) == RunEnd(t, k + 1, most, {})
            end == [k \in DOMAIN t |->
                       IF /\ t[k].kind \in labels /\ t[k].mark \in marks
                          /\ End(k) >= k + least
                       THEN End(k) ELSE 0]
<1>1. Len(t) \in Nat /\ DOMAIN t = 1 .. Len(t)
  BY GroupsAre
<1>2. \A k \in 1 .. Len(t) : End(k) \in k .. Len(t)
  <2>1. ASSUME NEW k \in 1 .. Len(t) PROVE End(k) \in k .. Len(t)
    <3>1. PICK a : a = k + 1
      OBVIOUS
    <3>2. a \in 1 .. Len(t) + 1 /\ a - 1 = k
      BY <1>1, <3>1
    <3>3. RunEnd(t, a, most, {}) \in a - 1 .. Len(t)
      BY <3>2, RunEndIn, Zenon
    <3>. QED
      BY <3>1, <3>2, <3>3, Zenon
  <2>. QED
    BY <2>1
<1>3. Fields(t, labels, marks, least, most, type)
         = {Span(k + 1, end[k], type) : k \in Starts(t, end)}
  BY DEF Fields
<1>4. End(i) >= i + least
  OBVIOUS
<1>5. \A k \in 1 .. i - 1 : t[k].kind \in labels /\ t[k].mark \in marks => End(k) < i
  OBVIOUS
<1>. HIDE DEF End
<1>6. \A k \in 1 .. Len(t) : end[k] \in 0 .. Len(t)
  BY <1>1, <1>2
<1>7. end[i] = End(i) /\ end[i] >= i
  BY <1>1, <1>2, <1>4
<1>8. \A k \in 1 .. i - 1 : end[k] < i
  BY <1>1, <1>5
<1>. HIDE DEF end
<1>9. i \in Starts(t, end)
  BY <1>6, <1>7, <1>8, StartsReach
<1>. QED
  BY <1>3, <1>7, <1>9 DEF End

\* Plain words behind the i-th, as far as the j-th.
ValuesAt(t, i, j) ==
    /\ i \in 1 .. Len(t) /\ j \in i + 1 .. Len(t) /\ Joined(t, i + 1, j)
    /\ \A k \in i + 1 .. j : t[k].kind = "value" /\ ~t[k].stop

\* A span that shares a word with these.
Meets(s, i, j) == s.start <= j /\ i + 1 <= s.end

\* A run of value words from the a-th to the i-th.
Run(t, a, i) == Joined(t, a, i) /\ \A k \in a .. i : ValueWord(t[k])

\* They are value words.
LEMMA ValuesRun ==
    ASSUME NEW t, NEW i, NEW j, ValuesAt(t, i, j)
    PROVE  Run(t, i + 1, j)
<1>1. \A k \in i + 1 .. j : ValueWord(t[k])
  BY DEF ValuesAt, ValueWord
<1>. QED
  BY <1>1 DEF ValuesAt, Run

\* A part of a run is one.
LEMMA RunPart ==
    ASSUME NEW t, NEW a \in Nat, NEW b \in Nat, NEW e \in Nat, Run(t, a, e), b <= e
    PROVE  Run(t, a, b)
<1>1. \A k \in a .. b : k \in a .. e
  OBVIOUS
<1>2. \A k \in a .. b - 1 : k \in a .. e - 1
  OBVIOUS
<1>. QED
  BY <1>1, <1>2, JoinedMeans DEF Run

\* A field that shares a word with them begins there or reaches over the i-th.
LEMMA FieldMeets ==
    ASSUME NEW t \in Seq(Words), NEW i, NEW j, ValuesAt(t, i, j),
           NEW s \in Spans, FieldAt(t, s), Meets(s, i, j)
    PROVE  \/ /\ s.start = i + 1 /\ s.end = RunEnd(t, i + 1, 4, {})
              /\ t[i].kind \in FieldLabels
           \/ s.start <= i /\ Run(t, s.start, i)
<1>1. /\ Len(t) \in Nat /\ i \in 1 .. Len(t) /\ j \in i + 1 .. Len(t)
      /\ s.start \in Nat /\ s.end \in Nat /\ s.start - 1 \in 1 .. Len(t)
      /\ s.start <= j /\ i + 1 <= s.end /\ s.end = RunEnd(t, s.start, 4, {})
  BY LenProperties DEF ValuesAt, Spans, FieldAt, Meets
<1>2. PICK a \in Nat : a = s.start
  BY <1>1
<1>3. CASE a > i + 1
  <2>1. a - 1 \in i + 1 .. j
    BY <1>1, <1>2, <1>3
  <2>2. t[a - 1].kind = "value"
    BY <2>1 DEF ValuesAt
  <2>. QED
    BY <1>2, <2>2 DEF FieldAt, FieldLabels, PersonLabels
<1>4. CASE a = i + 1
  <2>1. a - 1 = i
    BY <1>1, <1>4
  <2>. QED
    BY <1>1, <1>2, <1>4, <2>1 DEF FieldAt
<1>5. CASE a <= i
  <2>1. PICK m \in Nat \ {0} : m = 4
    OBVIOUS
  <2>2. a \in 1 .. Len(t) + 1
    BY <1>1, <1>2, <1>5
  <2>3. PICK e : e = RunEnd(t, a, m, {})
    OBVIOUS
  <2>4. e >= a => Joined(t, a, e) /\ \A k \in a .. e : ValueWord(t[k])
    BY <2>2, <2>3, RunEndIs
  <2>5. e = s.end
    BY <1>1, <1>2, <2>1, <2>3
  <2>6. e \in Nat /\ e >= a /\ i \in Nat /\ i <= e
    BY <1>1, <1>5, <2>5
  <2>7. Run(t, a, e)
    BY <2>4, <2>6 DEF Run
  <2>. QED
    BY <1>2, <1>5, <2>6, <2>7, RunPart
<1>. QED
  BY <1>1, <1>2, <1>3, <1>4, <1>5

\* An authority that shares a word with them covers them, and the i-th.
LEMMA AuthorityMeets ==
    ASSUME NEW t \in Seq(Words), NEW i, NEW j, ValuesAt(t, i, j),
           Separates(t, i), NEW s \in Authorities(t), Meets(s, i, j)
    PROVE  s.start <= i /\ j <= s.end
<1>1. PICK n \in 2 .. Len(t) :
         t[n].kind = "AUTHORITY"
         /\ s = Span(n, AuthorityBorder(t, n) - 1, "ISSUING_AUTHORITY")
  BY DEF Authorities
<1>. DEFINE S == {Len(t) + 1} \cup
                {k \in n + 1 .. Len(t) : Commaed(t, k - 1) \/ t[k].kind \in Borders}
<1>2. Len(t) \in Nat /\ i \in 1 .. Len(t) /\ j \in i + 1 .. Len(t)
  BY LenProperties DEF ValuesAt
<1>3. AuthorityBorder(t, n) = Min(S)
  BY Zenon DEF AuthorityBorder, Commaed
<1>4. S \subseteq Nat /\ S # {} /\ S \subseteq n + 1 .. Len(t) + 1
  <2>1. Len(t) + 1 \in n + 1 .. Len(t) + 1 /\ Len(t) + 1 \in Nat
    BY <1>2
  <2>2. n + 1 .. Len(t) \subseteq n + 1 .. Len(t) + 1
    BY <1>2
  <2>3. n + 1 .. Len(t) + 1 \subseteq Nat
    BY <1>2
  <2>. QED
    BY <2>1, <2>2, <2>3
<1>. HIDE DEF S
<1>5. Min(S) \in S
  BY <1>4, MinIs
<1>6. PICK b \in n + 1 .. Len(t) + 1 : b = Min(S)
  BY <1>4, <1>5
<1>7. s.start = n /\ s.end = b - 1
  BY <1>1, <1>3, <1>6 DEF Span
<1>8. n <= j /\ i + 2 <= b
  BY <1>2, <1>7 DEF Meets
<1>9. n <= i
  <2>1. ~(n <= i) => n \in i + 1 .. j
    BY <1>2, <1>8
  <2>. QED
    BY <1>1, <2>1 DEF ValuesAt
<1>10. b \notin i + 2 .. j
  <2>1. SUFFICES ASSUME b \in i + 2 .. j PROVE FALSE
    OBVIOUS
  <2>2. b \in i + 1 .. j /\ b - 1 \in i + 1 .. j - 1 /\ b # Len(t) + 1
    BY <1>2, <2>1
  <2>3. t[b].kind \notin Borders
    BY <2>2 DEF ValuesAt, Borders
  <2>4. ~Commaed(t, b - 1)
    BY <2>2, JoinedMeans, MarksDiffer DEF ValuesAt
  <2>. QED
    BY <1>5, <1>6, <2>2, <2>3, <2>4 DEF S
<1>. QED
  BY <1>2, <1>7, <1>8, <1>9, <1>10

-----------------------------------------------------------------------------
(* Values of addresses, and what they take of other values.                *)

Parts3 == {"TOWN", "STREET", "HOUSE"}

\* A value of an address: none, a number alone, words behind a label, or a
\* number and words behind the label of a street.
AddressPart(t, a, e) ==
    \/ e < a /\ Kind(t, e, Parts3)
    \/ /\ a = e /\ HouseNumber(t, a) /\ a - 1 \in 1 .. Len(t)
       /\ t[a - 1].kind = "HOUSE" \/ Coloned(t, a - 1)
    \/ /\ a <= e /\ Kind(t, a - 1, Parts3)
       /\ Separates(t, a - 1) /\ e = AddressEnd(t, a)
    \/ /\ a < e /\ HouseNumber(t, a) /\ Kind(t, a - 1, {"STREET"})
       /\ Bare(t, a) /\ e = AddressEnd(t, a + 1)

\* A value that begins within a short word: the rest of it, perhaps with words
\* behind it.
TailPart(t, a, e) ==
    /\ a \in DOMAIN t /\ t[a].short
    /\ e = a \/ (Bare(t, a) /\ e = RunEnd(t, a + 1, 4, Parts3))

\* The words of an address are a run without labels of addresses.
LEMMA AddressRun ==
    ASSUME NEW t \in Seq(Words), NEW a \in 1 .. Len(t) + 1,
           NEW e, e = AddressEnd(t, a)
    PROVE  /\ e \in a - 1 .. Len(t)
           /\ e >= a => Run(t, a, e) /\ \A k \in a .. e : t[k].kind \notin Parts3
<1>1. PICK n \in Nat \ {0} : n = 5
  OBVIOUS
<1>2. e = RunEnd(t, a, n, Parts3)
  BY <1>1 DEF AddressEnd, AddressLabels, Parts3
<1>3. /\ e \in a - 1 .. Len(t)
      /\ e >= a => /\ Joined(t, a, e)
                   /\ \A k \in a .. e : ValueWord(t[k]) /\ t[k].kind \notin Parts3
  BY <1>2, RunEndIs
<1>. QED
  BY <1>3 DEF Run

\* Values behind the label of a component.
LEMMA AddressValuesParts ==
    ASSUME NEW t \in Seq(Words), NEW i \in 1 .. Len(t), t[i].kind \in Parts3,
           Separates(t, i), NEW p \in AddressValues(t, i)
    PROVE  /\ AddressPart(t, p[1], p[2])
           /\ p[1] = i + 1 /\ p[1] <= p[2] /\ p[2] \in Nat
<1>1. Len(t) \in Nat /\ DOMAIN t = 1 .. Len(t)
  BY GroupsAre
<1>2. \/ p = <<i + 1, AddressEnd(t, i + 1)>> /\ AddressEnd(t, i + 1) # i
      \/ /\ t[i].kind = "STREET" /\ HouseNumber(t, i + 1) /\ Bare(t, i + 1)
         /\ AddressEnd(t, i + 2) > i + 1 /\ p = <<i + 1, AddressEnd(t, i + 2)>>
  <2>1. AddressValues(t, i) =
           {<<i + 1, e>> : e \in {AddressEnd(t, i + 1)} \ {i}}
           \cup {<<i + 1, e>> : e \in
                   IF t[i].kind = "STREET" /\ HouseNumber(t, i + 1)
                      /\ Bare(t, i + 1) /\ AddressEnd(t, i + 2) > i + 1
                   THEN {AddressEnd(t, i + 2)} ELSE {}}
    BY Zenon DEF AddressValues, Bare
  <2>. QED
    BY <2>1
<1>3. CASE p = <<i + 1, AddressEnd(t, i + 1)>> /\ AddressEnd(t, i + 1) # i
  <2>1. PICK e : e = AddressEnd(t, i + 1)
    OBVIOUS
  <2>2. i + 1 \in 1 .. Len(t) + 1
    BY <1>1
  <2>3. e \in i + 1 - 1 .. Len(t)
    BY <2>1, <2>2, AddressRun
  <2>4. p = <<i + 1, e>> /\ e >= i + 1 /\ e \in Nat /\ i + 1 - 1 = i
    BY <1>1, <1>3, <2>1, <2>3
  <2>5. Kind(t, i, Parts3)
    BY <1>1 DEF Kind
  <2>. QED
    BY <2>1, <2>4, <2>5 DEF AddressPart
<1>4. CASE /\ t[i].kind = "STREET" /\ HouseNumber(t, i + 1) /\ Bare(t, i + 1)
           /\ AddressEnd(t, i + 2) > i + 1 /\ p = <<i + 1, AddressEnd(t, i + 2)>>
  <2>1. PICK e : e = AddressEnd(t, i + 2)
    OBVIOUS
  <2>2. i + 2 \in 1 .. Len(t) + 1
    BY <1>1, <1>4 DEF HouseNumber, Kind
  <2>3. e \in i + 2 - 1 .. Len(t)
    BY <2>1, <2>2, AddressRun
  <2>4. /\ p = <<i + 1, e>> /\ e > i + 1 /\ e \in Nat /\ i + 1 - 1 = i
        /\ i + 1 + 1 = i + 2
    BY <1>1, <1>4, <2>1, <2>3
  <2>5. Kind(t, i, {"STREET"})
    BY <1>1, <1>4 DEF Kind
  <2>. QED
    BY <1>4, <2>1, <2>4, <2>5 DEF AddressPart
<1>. QED
  BY <1>2, <1>3, <1>4

\* Components, which have no mark behind their label.
LEMMA ComponentPart ==
    ASSUME NEW t \in WordTexts, NEW k \in 1 .. Len(t) + 1, NEW p \in Component(t, k)
    PROVE  \/ /\ p[3] = "ADDRESS" /\ AddressPart(t, p[1], p[2]) /\ p[1] >= k
              /\ p[1] <= p[2] => Bare(t, p[1] - 1)
           \/ p[3] = "TAIL" /\ TailPart(t, p[1], p[2])
<1>1. t \in Seq(Words) /\ Len(t) \in Nat /\ DOMAIN t = 1 .. Len(t)
  BY GroupsAre DEF WordTexts
<1>2. k \in 1 .. Len(t)
  BY <1>1, ComponentIs
<1>3. CASE t[k].short
  <2>1. p = <<k, TailEnd(t, k), "TAIL">>
    BY <1>1, <1>2, <1>3 DEF Component
  <2>2. \/ TailEnd(t, k) = k
        \/ Bare(t, k) /\ TailEnd(t, k) = RunEnd(t, k + 1, 4, Parts3)
    <3>1. Parts3 = AddressLabels
      BY DEF Parts3, AddressLabels
    <3>. QED
      BY <3>1, Zenon DEF TailEnd, Bare
  <2>. QED
    BY <1>1, <1>2, <1>3, <2>1, <2>2 DEF TailPart
<1>4. ~t[k].short => p \in LabelledComponent(t, k) /\ Kind(t, k, Parts3)
  BY <1>2 DEF Component, LabelledComponent, AddressLabels, Parts3
<1>5. CASE ~t[k].short /\ t[k].kind = "HOUSE"
  <2>1. Bare(t, k) /\ HouseNumber(t, k + 1) /\ p = <<k + 1, k + 1, "ADDRESS">>
    <3>1. LabelledComponent(t, k) \subseteq
             IF Bare(t, k) /\ HouseNumber(t, k + 1)
             THEN {<<k + 1, k + 1, "ADDRESS">>} ELSE {}
      BY <1>5, Zenon DEF LabelledComponent, Bare
    <3>. QED
      BY <1>4, <1>5, <3>1
  <2>2. k + 1 - 1 = k /\ k + 1 >= k
    BY <1>2
  <2>. QED
    BY <1>2, <1>5, <2>1, <2>2 DEF AddressPart
<1>6. CASE ~t[k].short /\ t[k].kind # "HOUSE"
  <2>1. \E q \in IF Bare(t, k) /\ AddressValues(t, k) # {}
                THEN AddressValues(t, k) ELSE {<<k + 1, k>>} :
           p = <<q[1], q[2], "ADDRESS">>
    <3>1. LabelledComponent(t, k) \subseteq
             {<<q[1], q[2], "ADDRESS">> :
                 q \in IF Bare(t, k) /\ AddressValues(t, k) # {}
                       THEN AddressValues(t, k) ELSE {<<k + 1, k>>}}
      BY <1>6, Zenon DEF LabelledComponent, Bare
    <3>. QED
      BY <1>4, <1>6, <3>1
  <2>2. PICK q : /\ p = <<q[1], q[2], "ADDRESS">>
                 /\ \/ Bare(t, k) /\ q \in AddressValues(t, k)
                    \/ q = <<k + 1, k>>
    BY <2>1
  <2>3. p[1] = q[1] /\ p[2] = q[2] /\ p[3] = "ADDRESS"
    BY <2>2
  <2>4. CASE Bare(t, k) /\ q \in AddressValues(t, k)
    <3>1. AddressPart(t, q[1], q[2]) /\ q[1] = k + 1
      BY <1>1, <1>2, <1>4, <1>6, <2>4, AddressValuesParts, MarksDiffer DEF Kind
    <3>2. q[1] - 1 = k /\ q[1] >= k
      BY <1>2, <3>1
    <3>. QED
      BY <2>3, <2>4, <3>1, <3>2
  <2>5. CASE q = <<k + 1, k>>
    <3>1. q[1] = k + 1 /\ q[2] = k
      BY <2>5
    <3>. QED
      BY <1>2, <1>4, <1>6, <2>3, <3>1 DEF AddressPart
  <2>. QED
    BY <2>2, <2>4, <2>5
<1>. QED
  BY <1>3, <1>5, <1>6

\* Labels with a colon.
LEMMA LabelledPart ==
    ASSUME NEW t \in Seq(Words), NEW k \in 1 .. Len(t), NEW p \in LabelledValues(t, k)
    PROVE  AddressPart(t, p[1], p[2])
<1>1. Len(t) \in Nat /\ DOMAIN t = 1 .. Len(t)
  BY GroupsAre
<1>2. /\ Kind(t, k, Parts3) /\ Coloned(t, k)
      /\ \/ p \in AddressValues(t, k)
         \/ HouseNumber(t, k + 1) /\ p = <<k + 1, k + 1>>
  <2>1. LabelledValues(t, k) =
           IF Kind(t, k, Parts3) /\ Coloned(t, k)
           THEN AddressValues(t, k)
                \cup IF HouseNumber(t, k + 1) THEN {<<k + 1, k + 1>>} ELSE {}
           ELSE {}
    BY Zenon DEF LabelledValues, AddressLabels, Parts3, Coloned
  <2>. QED
    BY <2>1
<1>3. t[k].kind \in Parts3 /\ Separates(t, k)
  BY <1>2, MarksDiffer DEF Kind, Parts3
<1>4. CASE p \in AddressValues(t, k)
  BY <1>3, <1>4, AddressValuesParts
<1>5. CASE HouseNumber(t, k + 1) /\ p = <<k + 1, k + 1>>
  <2>1. k + 1 - 1 = k
    BY <1>1
  <2>. QED
    BY <1>2, <1>5, <2>1 DEF AddressPart
<1>. QED
  BY <1>2, <1>4, <1>5

-----------------------------------------------------------------------------
(* Labels that no value before them runs into.                             *)

\* A value may begin behind the word before the i-th: a label, the number of
\* a house or the street behind it.
Leads(t, i) ==
    /\ i - 1 \in 1 .. Len(t)
    /\ \/ Bare(t, i - 1)
       \/ Coloned(t, i - 1) /\ t[i - 1].kind \notin {"HOME", "OFFICE"}
       \/ Commaed(t, i - 1) /\ t[i - 1].kind = "ROAD"

\* A run of value words that begins where a value may.
Entered(t, i) == \E a \in 1 .. i : Run(t, a, i) /\ (a = i => Leads(t, i))

\* No value goes on to the i-th word, which opens a field.
LEMMA OpensShut ==
    ASSUME text \in Seq(Words), NEW i \in DOMAIN text, Opens(i)
    PROVE  ~Entered(text, i)
<1>1. Len(text) \in Nat /\ DOMAIN text = 1 .. Len(text) /\ i \in 1 .. Len(text)
  BY GroupsAre
<1>2. SUFFICES ASSUME NEW a \in 1 .. i, Run(text, a, i), a = i => Leads(text, i)
               PROVE  FALSE
  BY DEF Entered
<1>3. ~text[i].stop
  <2>1. i \in a .. i
    BY <1>1, <1>2
  <2>. QED
    BY <1>2, <2>1 DEF Run, ValueWord
<1>4. a # i => Bare(text, i - 1) /\ i # 1
  <2>1. a # i => i - 1 \in a .. i - 1
    BY <1>1, <1>2
  <2>. QED
    BY <1>1, <1>2, <2>1, JoinedMeans DEF Run
<1>5. \/ i = 1
      \/ Commaed(text, i - 1) /\ text[i - 1].kind # "ROAD"
      \/ Coloned(text, i - 1) /\ text[i - 1].kind \in {"HOME", "OFFICE"}
  BY <1>3, Zenon DEF Opens, Commaed, Coloned
<1>. QED
  BY <1>1, <1>2, <1>4, <1>5, MarksDiffer DEF Leads

\* The words of a field are a run.
LEMMA FieldRun ==
    ASSUME NEW t \in Seq(Words), NEW s \in Spans, FieldAt(t, s)
    PROVE  Run(t, s.start, s.end)
<1>1. PICK m \in Nat \ {0} : m = 4
  OBVIOUS
<1>2. PICK a, e : a = s.start /\ e = s.end
  OBVIOUS
<1>3. /\ a - 1 \in 1 .. Len(t) /\ a \in Nat /\ Len(t) \in Nat /\ a <= e
      /\ e = RunEnd(t, a, m, {})
  BY <1>1, <1>2, LenProperties DEF FieldAt, Spans
<1>4. a \in 1 .. Len(t) + 1
  BY <1>3
<1>5. e >= a => Joined(t, a, e) /\ \A k \in a .. e : ValueWord(t[k])
  BY <1>3, <1>4, RunEndIs
<1>6. e >= a
  <2>1. e \in a - 1 .. Len(t)
    BY <1>3, <1>4, RunEndIs
  <2>. QED
    BY <1>3, <2>1
<1>. QED
  BY <1>2, <1>5, <1>6 DEF Run

\* A field leads to its first word.
LEMMA FieldLeads ==
    ASSUME NEW t, NEW s, FieldAt(t, s)
    PROVE  Leads(t, s.start)
BY MarksDiffer DEF FieldAt, Leads, FieldLabels, PersonLabels

\* A field with one of these values begins with them, or where the i-th word
\* is one of a value, too.
LEMMA FieldEnters ==
    ASSUME NEW t \in Seq(Words), NEW i, NEW j, ValuesAt(t, i, j),
           NEW s \in Spans, FieldAt(t, s), Meets(s, i, j), ~Entered(t, i)
    PROVE  /\ s.start = i + 1 /\ s.end = RunEnd(t, i + 1, 4, {})
           /\ t[i].kind \in FieldLabels
<1>1. s.start \in Nat /\ s.start - 1 \in 1 .. Len(t) /\ Len(t) \in Nat
  BY LenProperties DEF Spans, FieldAt
<1>2. ~(s.start <= i /\ Run(t, s.start, i))
  <2>1. SUFFICES ASSUME s.start <= i, Run(t, s.start, i) PROVE FALSE
    OBVIOUS
  <2>2. i \in 1 .. Len(t)
    BY DEF ValuesAt
  <2>3. s.start \in 1 .. i
    BY <1>1, <2>1, <2>2
  <2>. QED
    BY <2>1, <2>3, FieldLeads DEF Entered
<1>. QED
  BY <1>2, FieldMeets

\* A value of an address with one of these values begins with them, behind
\* the label of a component, or with the number of a street before them, or
\* where the i-th word is one of a value, too.
LEMMA AddressPartMeets ==
    ASSUME NEW t \in Seq(Words), NEW i, NEW j, ValuesAt(t, i, j),
           NEW a \in Nat, NEW e \in Nat, AddressPart(t, a, e),
           a <= j, i + 1 <= e
    PROVE  \/ a = i + 1 /\ e = AddressEnd(t, i + 1) /\ t[i].kind \in Parts3
           \/ HouseNumber(t, i) /\ a = i /\ e = AddressEnd(t, i + 1)
           \/ t[i].kind \notin Parts3 /\ Entered(t, i)
<1>2. /\ Len(t) \in Nat /\ DOMAIN t = 1 .. Len(t)
      /\ i \in 1 .. Len(t) /\ j \in i + 1 .. Len(t)
      /\ a \in Nat /\ e \in Nat /\ a <= j /\ i + 1 <= e
      /\ \A k \in i + 1 .. j : t[k].kind = "value"
  BY GroupsAre DEF ValuesAt
<1>3. CASE e < a /\ Kind(t, e, Parts3)
  <2>1. e \in i + 1 .. j
    BY <1>2, <1>3
  <2>. QED
    BY <1>2, <1>3, <2>1 DEF Kind, Parts3
<1>4. CASE a = e /\ HouseNumber(t, a)
  <2>1. a \in i + 1 .. j
    BY <1>2, <1>4
  <2>. QED
    BY <1>2, <1>4, <2>1 DEF HouseNumber, Kind
<1>5. CASE /\ a <= e /\ Kind(t, a - 1, Parts3)
           /\ Separates(t, a - 1) /\ e = AddressEnd(t, a)
  <2>1. a - 1 \in 1 .. Len(t) /\ t[a - 1].kind \in Parts3
    BY <1>2, <1>5 DEF Kind
  <2>2. CASE a > i + 1
    <3>1. a - 1 \in i + 1 .. j
      BY <1>2, <2>2
    <3>. QED
      BY <1>2, <2>1, <3>1 DEF Parts3
  <2>3. CASE a = i + 1
    <3>1. a - 1 = i
      BY <1>2, <2>3
    <3>. QED
      BY <1>5, <2>1, <2>3, <3>1
  <2>4. CASE a <= i
    <3>1. a \in 1 .. Len(t) + 1 /\ a \in 1 .. i /\ i \in a .. e /\ i \in Nat
      BY <1>2, <2>1, <2>4
    <3>2. Run(t, a, e) /\ \A k \in a .. e : t[k].kind \notin Parts3
      <4>1. e >= a => Run(t, a, e) /\ \A k \in a .. e : t[k].kind \notin Parts3
        BY <1>5, <3>1, AddressRun
      <4>. QED
        BY <1>2, <1>5, <4>1
    <3>3. Run(t, a, i)
      BY <1>2, <3>1, <3>2, RunPart
    <3>4. a = i => Leads(t, i)
      BY <1>5, <2>1, MarksDiffer DEF Leads, Parts3
    <3>. QED
      BY <3>1, <3>2, <3>3, <3>4 DEF Entered
  <2>. QED
    BY <1>2, <2>2, <2>3, <2>4
<1>7. CASE /\ a < e /\ HouseNumber(t, a) /\ Kind(t, a - 1, {"STREET"})
           /\ Bare(t, a) /\ e = AddressEnd(t, a + 1)
  <2>1. a \in 1 .. Len(t) /\ t[a].kind = "digits"
    BY <1>2, <1>7 DEF HouseNumber, Kind
  <2>2. a \notin i + 1 .. j
    BY <1>2, <2>1
  <2>3. CASE a = i
    BY <1>7, <2>3
  <2>4. CASE a # i
    <3>1. PICK b : b = a + 1
      OBVIOUS
    <3>2. /\ b \in 1 .. Len(t) + 1 /\ b \in 1 .. i /\ i \in b .. e /\ i \in Nat
          /\ b \in Nat /\ e >= b /\ b - 1 = a
      BY <1>2, <1>7, <2>1, <2>2, <2>4, <3>1
    <3>3. Run(t, b, e) /\ \A k \in b .. e : t[k].kind \notin Parts3
      BY <1>7, <3>1, <3>2, AddressRun
    <3>4. Run(t, b, i)
      BY <1>2, <3>2, <3>3, RunPart
    <3>5. b = i => Leads(t, i)
      BY <1>7, <2>1, <3>2 DEF Leads
    <3>. QED
      BY <3>2, <3>3, <3>4, <3>5 DEF Entered
  <2>. QED
    BY <2>3, <2>4
<1>. QED
  BY <1>3, <1>4, <1>5, <1>7 DEF AddressPart

\* A value that begins within a short word and has one of these values begins
\* within one of them, or within the i-th word and has them all, or where the
\* i-th word is one of a value, too.
LEMMA TailMeets ==
    ASSUME NEW t \in Seq(Words), NEW i, NEW j, ValuesAt(t, i, j),
           NEW a \in Nat, NEW e \in Nat, TailPart(t, a, e), a <= j, i + 1 <= e
    PROVE  \/ a \in i + 1 .. j
           \/ a = i /\ (j <= i + 4 => j <= e)
           \/ a < i /\ ValueWord(t[i]) /\ t[i].kind \notin Parts3 /\ Entered(t, i)
<1>1. /\ Len(t) \in Nat /\ DOMAIN t = 1 .. Len(t)
      /\ i \in 1 .. Len(t) /\ j \in i + 1 .. Len(t) /\ a \in 1 .. Len(t)
      /\ \A k \in i + 1 .. j : t[k].kind = "value"
  BY GroupsAre DEF ValuesAt, TailPart
<1>2. PICK n \in Nat \ {0}, b \in Nat : n = 4 /\ b = a + 1
  BY <1>1
<1>3. SUFFICES ASSUME a <= i PROVE \/ a = i /\ (j <= i + 4 => j <= e)
                                   \/ /\ a < i /\ ValueWord(t[i])
                                      /\ t[i].kind \notin Parts3 /\ Entered(t, i)
  BY <1>1
<1>4. b \in 1 .. Len(t) + 1 /\ b <= e /\ b - 1 = a
  BY <1>1, <1>2, <1>3
<1>5. Bare(t, a) /\ e = RunEnd(t, b, n, Parts3)
  BY <1>2, <1>4 DEF TailPart
<1>6. CASE a = i
  <2>1. Joined(t, b, j) /\ \A k \in b .. j : ValueWord(t[k]) /\ t[k].kind \notin Parts3
    <3>1. Run(t, i + 1, j)
      BY ValuesRun
    <3>. QED
      BY <1>1, <1>2, <1>6, <3>1 DEF Run, Parts3
  <2>2. j \in b .. Len(t) /\ (j <= i + 4 => j <= b + n - 1)
    BY <1>1, <1>2, <1>6
  <2>. QED
    BY <1>4, <1>5, <1>6, <2>1, <2>2, RunEndReaches
<1>7. CASE a < i
  <2>1. e >= b => /\ Joined(t, b, e)
                  /\ \A k \in b .. e : ValueWord(t[k]) /\ t[k].kind \notin Parts3
    BY <1>4, <1>5, RunEndIs
  <2>2. i \in b .. e /\ i \in Nat /\ i <= e /\ b \in 1 .. i
    BY <1>1, <1>2, <1>4, <1>7
  <2>3. Run(t, b, e)
    BY <1>4, <2>1 DEF Run
  <2>4. Run(t, b, i)
    BY <2>2, <2>3, RunPart
  <2>5. b = i => Leads(t, i)
    BY <1>1, <1>4, <1>5 DEF Leads
  <2>. QED
    BY <1>4, <1>7, <2>1, <2>2, <2>4, <2>5 DEF Entered
<1>. QED
  BY <1>1, <1>3, <1>6, <1>7

\* House, street and city in the English order: a number, the words between it
\* and the label of a road, and those behind a comma that the label has.
LEMMA EnglishParts ==
    ASSUME NEW t \in Seq(Words), NEW k \in DOMAIN t, NEW p \in EnglishValues(t, k)
    PROVE  /\ HouseNumber(t, k) /\ Bare(t, k)
           /\ \/ p[1] = k /\ p[2] = k
              \/ p[1] = k + 1 /\ p[2] \in Nat /\ Run(t, k + 1, p[2])
              \/ /\ Kind(t, p[1] - 1, {"ROAD"}) /\ Commaed(t, p[1] - 1)
                 /\ p[1] \in Nat /\ p[2] \in Nat /\ Run(t, p[1], p[2])
<1>. DEFINE roads == {n \in k + 2 .. RunEnd(t, k + 1, 6, {}) : t[n].kind = "ROAD"}
            city == RunEnd(t, Max(roads) + 1, 4, {})
<1>1. Len(t) \in Nat /\ DOMAIN t = 1 .. Len(t) /\ k \in 1 .. Len(t)
  BY GroupsAre
<1>2. /\ HouseNumber(t, k) /\ Bare(t, k) /\ roads # {}
      /\ \/ p = <<k, k>> \/ p = <<k + 1, Max(roads) - 1>>
         \/ /\ p = <<Max(roads) + 1, city>>
            /\ Commaed(t, Max(roads)) /\ city > Max(roads)
  <2>1. EnglishValues(t, k) =
           IF ~HouseNumber(t, k) \/ ~Bare(t, k) \/ roads = {} THEN {}
           ELSE {<<k, k>>, <<k + 1, Max(roads) - 1>>} \cup
                IF Commaed(t, Max(roads)) /\ city > Max(roads)
                THEN {<<Max(roads) + 1, city>>} ELSE {}
    BY Zenon DEF EnglishValues, Bare, Commaed
  <2>. HIDE DEF roads, city
  <2>. QED
    BY <2>1
<1>3. PICK m \in Nat \ {0}, l \in Nat \ {0} : m = 6 /\ l = 4
  OBVIOUS
<1>4. PICK e : e = RunEnd(t, k + 1, m, {})
  OBVIOUS
<1>5. e \in k .. Len(t) /\ (e >= k + 1 => Run(t, k + 1, e))
  <2>1. k + 1 \in 1 .. Len(t) + 1
    BY <1>1
  <2>2. /\ e \in k + 1 - 1 .. Len(t)
        /\ e >= k + 1 => /\ Joined(t, k + 1, e)
                         /\ \A n \in k + 1 .. e : ValueWord(t[n])
    BY <1>4, <2>1, RunEndIs
  <2>. QED
    BY <1>1, <2>2 DEF Run
<1>6. roads = {n \in k + 2 .. e : t[n].kind = "ROAD"}
  BY <1>3, <1>4
<1>7. Max(roads) \in roads
  <2>1. roads \subseteq Int /\ Len(t) \in Int /\ \A x \in roads : x <= Len(t)
    BY <1>1, <1>5, <1>6
  <2>. HIDE DEF roads
  <2>. QED
    BY <1>2, <2>1, MaxIs, Zenon
<1>8. PICK r \in k + 2 .. e : r = Max(roads) /\ t[r].kind = "ROAD"
  BY <1>6, <1>7
<1>9. PICK c : c = RunEnd(t, r + 1, l, {}) /\ c = city
  BY <1>3, <1>8
<1>. HIDE DEF roads, city
<1>10. CASE p = <<k + 1, r - 1>>
  <2>1. /\ p[1] = k + 1 /\ p[2] = r - 1 /\ r - 1 \in Nat /\ k + 1 \in Nat /\ e \in Nat
        /\ r - 1 <= e /\ e >= k + 1
    BY <1>1, <1>5, <1>8, <1>10
  <2>. QED
    BY <1>2, <1>5, <2>1, RunPart
<1>11. CASE p = <<r + 1, c>> /\ Commaed(t, r) /\ c > r
  <2>1. r \in 1 .. Len(t) /\ r + 1 \in 1 .. Len(t) + 1
    BY <1>1, <1>5, <1>8
  <2>2. /\ c \in r + 1 - 1 .. Len(t)
        /\ c >= r + 1 => /\ Joined(t, r + 1, c)
                         /\ \A n \in r + 1 .. c : ValueWord(t[n])
    BY <1>9, <2>1, RunEndIs
  <2>3. c \in Nat /\ c >= r + 1 /\ r + 1 - 1 = r
    BY <1>1, <1>11, <2>1, <2>2
  <2>4. Run(t, r + 1, c)
    BY <2>2, <2>3 DEF Run
  <2>5. Kind(t, r, {"ROAD"})
    BY <1>1, <1>8, <2>1 DEF Kind
  <2>6. p[1] = r + 1 /\ p[2] = c /\ p[1] - 1 = r
    BY <1>11, <2>3
  <2>. QED
    BY <1>2, <1>11, <2>1, <2>3, <2>4, <2>5, <2>6
<1>12. CASE p = <<k, k>>
  BY <1>2, <1>12
<1>. QED
  BY <1>2, <1>8, <1>9, <1>10, <1>11, <1>12

\* Such a value with one of those words runs over the i-th word, or begins
\* behind it.
LEMMA EnglishMeets ==
    ASSUME NEW t \in Seq(Words), NEW i, NEW j, ValuesAt(t, i, j),
           NEW k \in DOMAIN t, NEW p \in EnglishValues(t, k),
           p[1] <= j, i + 1 <= p[2]
    PROVE  t[i].kind \in {"digits", "ROAD"} \/ Entered(t, i)
<1>1. PICK a, e : a = p[1] /\ e = p[2]
  OBVIOUS
<1>2. /\ Len(t) \in Nat /\ DOMAIN t = 1 .. Len(t)
      /\ i \in 1 .. Len(t) /\ j \in i + 1 .. Len(t) /\ k \in 1 .. Len(t)
      /\ a <= j /\ i + 1 <= e
      /\ \A n \in i + 1 .. j : t[n].kind = "value"
  BY <1>1, GroupsAre DEF ValuesAt
<1>3. /\ t[k].kind = "digits" /\ Bare(t, k)
      /\ \/ a = k /\ e = k
         \/ a = k + 1 /\ e \in Nat /\ Run(t, k + 1, e)
         \/ /\ Kind(t, a - 1, {"ROAD"}) /\ Commaed(t, a - 1)
            /\ a \in Nat /\ e \in Nat /\ Run(t, a, e)
  BY <1>1, EnglishParts DEF HouseNumber, Kind
<1>4. k \notin i + 1 .. j
  BY <1>2, <1>3
<1>5. SUFFICES ASSUME t[i].kind \notin {"digits", "ROAD"} PROVE Entered(t, i)
  OBVIOUS
<1>6. ~(a = k /\ e = k)
  BY <1>2, <1>4
<1>7. CASE a = k + 1 /\ e \in Nat /\ Run(t, k + 1, e)
  <2>1. k # i
    BY <1>3, <1>5
  <2>2. /\ a \in 1 .. i /\ a \in Nat /\ i \in Nat /\ i <= e /\ Run(t, a, e)
        /\ a = i => i - 1 = k
    BY <1>2, <1>4, <1>7, <2>1
  <2>3. Run(t, a, i)
    BY <1>7, <2>2, RunPart
  <2>. QED
    BY <1>2, <1>3, <2>2, <2>3 DEF Entered, Leads
<1>8. CASE /\ Kind(t, a - 1, {"ROAD"}) /\ Commaed(t, a - 1)
           /\ a \in Nat /\ e \in Nat /\ Run(t, a, e)
  <2>1. a - 1 \in 1 .. Len(t) /\ t[a - 1].kind = "ROAD"
    BY <1>2, <1>8 DEF Kind
  <2>2. a - 1 # i /\ a - 1 \notin i + 1 .. j
    BY <1>2, <1>5, <2>1
  <2>3. a \in 1 .. i /\ i \in Nat /\ i <= e
    BY <1>2, <1>8, <2>1, <2>2
  <2>4. Run(t, a, i)
    BY <1>8, <2>3, RunPart
  <2>. QED
    BY <1>8, <2>1, <2>3, <2>4 DEF Entered, Leads
<1>. QED
  BY <1>3, <1>6, <1>7, <1>8

-----------------------------------------------------------------------------
(* All that is found, by where it stands.                                  *)

\* Addresses of a label, those that begin within a short word, and addresses
\* in the English order.
AddressAt(t, s) == s.type = "ADDRESS" /\ AddressPart(t, s.start, s.end)
TailAt(t, s) == s.type = "TAIL" /\ TailPart(t, s.start, s.end)
EnglishAt(t, s) ==
    \E k \in DOMAIN t : \E p \in EnglishValues(t, k) :
        s = Span(p[1], p[2], "ADDRESS")

\* A chain consists of values of an address.
LEMMA ChainParts ==
    ASSUME NEW t \in WordTexts, NEW i \in DOMAIN t, NEW p \in Chain(t, i)
    PROVE  /\ p \in Components(t) /\ p[2] >= i
           /\ \/ /\ p[3] = "ADDRESS" /\ AddressPart(t, p[1], p[2]) /\ p[1] >= i
                 /\ p[1] <= p[2] => Bare(t, p[1] - 1)
              \/ p[3] = "TAIL" /\ TailPart(t, p[1], p[2])
<1>. DEFINE Placed(q) ==
                \/ /\ q[3] = "ADDRESS" /\ AddressPart(t, q[1], q[2]) /\ q[1] >= i
                   /\ q[1] <= q[2] => Bare(t, q[1] - 1)
                \/ q[3] = "TAIL" /\ TailPart(t, q[1], q[2])
            X == {q \in Components(t) : q[2] >= i /\ Placed(q)}
<1>1. t \in Seq(Words) /\ Len(t) \in Nat /\ DOMAIN t = 1 .. Len(t)
  BY GroupsAre DEF WordTexts
<1>2. \A k \in i .. Len(t) + 1 : Component(t, k) \subseteq X
  <2>1. SUFFICES ASSUME NEW k \in i .. Len(t) + 1, NEW q \in Component(t, k)
                 PROVE  q \in X
    OBVIOUS
  <2>2. k \in 1 .. Len(t) + 1
    BY <1>1
  <2>3. q \in Components(t) /\ q[2] >= k
    BY <2>2, ComponentIs
  <2>4. \/ /\ q[3] = "ADDRESS" /\ AddressPart(t, q[1], q[2]) /\ q[1] >= k
           /\ q[1] <= q[2] => Bare(t, q[1] - 1)
        \/ q[3] = "TAIL" /\ TailPart(t, q[1], q[2])
    BY <2>2, ComponentPart
  <2>5. q[1] \in Nat /\ q[2] \in Nat
    BY <1>1, <2>3 DEF Components
  <2>6. q[2] >= i /\ (q[1] >= k => q[1] >= i)
    BY <1>1, <2>3, <2>5
  <2>. QED
    BY <2>3, <2>4, <2>6
<1>. HIDE DEF X
<1>3. Chain(t, i) \subseteq X
  BY <1>2, ChainOf
<1>. QED
  BY <1>3 DEF X

\* Addresses.
LEMMA AddressesAt ==
    ASSUME NEW t \in WordTexts, NEW s \in Addresses(t)
    PROVE  \/ TailAt(t, s)
           \/ s.type = "ADDRESS" /\ (AddressAt(t, s) \/ EnglishAt(t, s) \/ FieldAt(t, s))
<1>. DEFINE end == [k \in DOMAIN t |-> ChainEnd(t, k)]
            chains == {i \in Starts(t, end) : AddressValid(t, i)}
            others == {i \in DOMAIN t : ~Public(t, i)}
            parts == UNION {Chain(t, i) : i \in chains}
            values == UNION {LabelledValues(t, i) \cup EnglishValues(t, i) :
                                i \in others}
<1>1. t \in Seq(Words) /\ Len(t) \in Nat /\ DOMAIN t = 1 .. Len(t)
  BY GroupsAre DEF WordTexts
<1>2. \A i \in 1 .. Len(t) : end[i] \in 0 .. Len(t)
  BY <1>1, ChainIs
<1>3. Addresses(t) =
         {Span(p[1], p[2], p[3]) : p \in parts}
         \cup {Span(p[1], p[2], "ADDRESS") : p \in values}
         \cup {q \in Fields(t, {"LIVES"}, {""}, 1, 4, "ADDRESS") :
                  q.start - 1 \in others}
  BY DEF Addresses
<1>. HIDE DEF end
<1>4. Starts(t, end) \subseteq DOMAIN t
  BY <1>1, <1>2, StartsAre
<1>5. CASE s \in Fields(t, {"LIVES"}, {""}, 1, 4, "ADDRESS")
  <2>1. PICK marks : marks = {""}
    OBVIOUS
  <2>2. marks \in SUBSET Separators
    BY <2>1, Zenon DEF Separators
  <2>3. {"LIVES"} \in SUBSET FieldLabels /\ 1 \in Nat \ {0} /\ "ADDRESS" \in Types
    BY TypesAre DEF FieldLabels
  <2>4. s \in Fields(t, {"LIVES"}, marks, 1, 4, "ADDRESS")
    BY <1>5, <2>1, Zenon
  <2>5. FieldAt(t, s)
    BY <1>1, <2>2, <2>3, <2>4, FieldsAt, Zenon
  <2>. QED
    BY <2>4, <2>5, FieldsType
<1>6. CASE s \in {Span(p[1], p[2], p[3]) : p \in parts}
  <2>1. PICK p \in parts : s = Span(p[1], p[2], p[3])
    BY <1>6
  <2>2. PICK i \in DOMAIN t : p \in Chain(t, i)
    BY <1>4, <2>1
  <2>3. s.start = p[1] /\ s.end = p[2] /\ s.type = p[3]
    BY <2>1 DEF Span
  <2>4. \/ p[3] = "ADDRESS" /\ AddressPart(t, p[1], p[2])
        \/ p[3] = "TAIL" /\ TailPart(t, p[1], p[2])
    BY <2>2, ChainParts
  <2>. QED
    BY <2>3, <2>4 DEF AddressAt, TailAt
<1>7. CASE s \in {Span(p[1], p[2], "ADDRESS") : p \in values}
  <2>1. PICK p \in values : s = Span(p[1], p[2], "ADDRESS")
    BY <1>7
  <2>2. s.start = p[1] /\ s.end = p[2] /\ s.type = "ADDRESS"
    BY <2>1 DEF Span
  <2>3. PICK i \in 1 .. Len(t) : p \in LabelledValues(t, i) \cup EnglishValues(t, i)
    BY <1>1, <2>1
  <2>4. CASE p \in LabelledValues(t, i)
    <3>1. AddressPart(t, p[1], p[2])
      BY <1>1, <2>4, LabelledPart
    <3>. QED
      BY <2>2, <3>1 DEF AddressAt
  <2>5. CASE p \in EnglishValues(t, i)
    BY <1>1, <2>1, <2>2, <2>5 DEF EnglishAt
  <2>. QED
    BY <2>3, <2>4, <2>5
<1>. HIDE DEF values, parts
<1>. QED
  BY <1>3, <1>5, <1>6, <1>7

\* The other fields, and names.
LEMMA LabelledAt ==
    ASSUME NEW t \in Seq(Words),
           NEW s \in LabelledPersons(t)
                     \cup Fields(t, {"CITIZENSHIP"}, Separators, 1, 4, "CITIZENSHIP")
                     \cup Fields(t, {"BIRTH_PLACE"}, Separators, 1, 4, "BIRTH_PLACE")
                     \cup Fields(t, {"CARD_HOLDER"}, Separators, 2, 4, "CARD_HOLDER")
    PROVE  FieldAt(t, s) /\ s.type # "TAIL"
<1>1. /\ "PERSON" \in Types /\ "CITIZENSHIP" \in Types /\ "BIRTH_PLACE" \in Types
      /\ "CARD_HOLDER" \in Types
  BY TypesAre
<1>2. /\ PersonLabels \in SUBSET FieldLabels /\ {"NAME_PART"} \in SUBSET FieldLabels
      /\ {"CITIZENSHIP"} \in SUBSET FieldLabels
      /\ {"BIRTH_PLACE"} \in SUBSET FieldLabels
      /\ {"CARD_HOLDER"} \in SUBSET FieldLabels
  BY DEF FieldLabels
<1>3. Separators \in SUBSET Separators /\ {":"} \in SUBSET Separators
  BY Zenon DEF Separators
<1>4. 1 \in Nat \ {0} /\ 2 \in Nat \ {0}
  OBVIOUS
<1>5. CASE s \in LabelledPersons(t)
  <2>1. \/ s \in Fields(t, PersonLabels, Separators, 2, 4, "PERSON")
        \/ s \in Fields(t, {"NAME_PART"}, {":"}, 1, 4, "PERSON")
    BY <1>5, Zenon DEF LabelledPersons
  <2>2. FieldAt(t, s)
    BY <1>1, <1>2, <1>3, <1>4, <2>1, FieldsAt, Zenon
  <2>3. s.type = "PERSON"
    BY <2>1, FieldsType
  <2>. QED
    BY <2>2, <2>3
<1>6. CASE \/ s \in Fields(t, {"CITIZENSHIP"}, Separators, 1, 4, "CITIZENSHIP")
           \/ s \in Fields(t, {"BIRTH_PLACE"}, Separators, 1, 4, "BIRTH_PLACE")
           \/ s \in Fields(t, {"CARD_HOLDER"}, Separators, 2, 4, "CARD_HOLDER")
  <2>1. FieldAt(t, s)
    BY <1>1, <1>2, <1>3, <1>4, <1>6, FieldsAt, Zenon
  <2>2. s.type \in {"CITIZENSHIP", "BIRTH_PLACE", "CARD_HOLDER"}
    BY <1>6, FieldsType
  <2>. QED
    BY <2>1, <2>2
<1>. QED
  BY <1>5, <1>6

\* What is found is a number, a field, an address, an authority, an electronic
\* address, the name of a country or the name that is the whole text.
LEMMA FoundAt ==
    ASSUME NEW t \in WordTexts, NEW s \in Found(t)
    PROVE  \/ TailAt(t, s)
           \/ /\ s.type # "TAIL"
              /\ \/ s \in NumberSpans(t)
                 \/ FieldAt(t, s)
                 \/ AddressAt(t, s)
                 \/ EnglishAt(t, s)
                 \/ s \in Authorities(t)
                 \/ s \in Emails(t)
                 \/ s.start = s.end /\ Kind(t, s.start, {"COUNTRY"})
                 \/ s.start = 1 /\ s.end = Len(t)
<1>1. t \in Seq(Words) /\ Len(t) \in Nat /\ DOMAIN t = 1 .. Len(t)
  BY GroupsAre DEF WordTexts
<1>2. \/ s \in NumberSpans(t) \/ s \in Emails(t) \/ s \in FieldSpans(t)
  BY DEF Found
<1>3. CASE s \in WholeText(t)
  <2>1. s = Span(1, 3, "PERSON") /\ Len(t) = 3
    BY <1>3, Zenon DEF WholeText
  <2>. QED
    BY <2>1 DEF Span
<1>4. CASE \E k \in 2 .. Len(t) : t[k].kind = "COUNTRY" /\ s = Span(k, k, "CITIZENSHIP")
  <2>1. PICK k \in 2 .. Len(t) : t[k].kind = "COUNTRY" /\ s = Span(k, k, "CITIZENSHIP")
    BY <1>4
  <2>2. s.start = k /\ s.end = k /\ k \in DOMAIN t /\ s.type = "CITIZENSHIP"
    BY <1>1, <2>1 DEF Span
  <2>. QED
    BY <2>1, <2>2 DEF Kind
<1>5. s \in FieldSpans(t) =>
         \/ s \in LabelledPersons(t) \/ s \in WholeText(t)
         \/ s \in Fields(t, {"CITIZENSHIP"}, Separators, 1, 4, "CITIZENSHIP")
         \/ \E k \in 2 .. Len(t) : t[k].kind = "COUNTRY" /\ s = Span(k, k, "CITIZENSHIP")
         \/ s \in Authorities(t) \/ s \in Addresses(t)
         \/ s \in Fields(t, {"BIRTH_PLACE"}, Separators, 1, 4, "BIRTH_PLACE")
         \/ s \in Fields(t, {"CARD_HOLDER"}, Separators, 2, 4, "CARD_HOLDER")
  <2>1. Persons(t) \subseteq LabelledPersons(t) \cup WholeText(t)
    BY DEF Persons
  <2>2. s \in Citizenships(t) =>
           \/ s \in Fields(t, {"CITIZENSHIP"}, Separators, 1, 4, "CITIZENSHIP")
           \/ \E k \in 2 .. Len(t) :
                 t[k].kind = "COUNTRY" /\ s = Span(k, k, "CITIZENSHIP")
    BY DEF Citizenships
  <2>. QED
    BY <2>1, <2>2 DEF FieldSpans
<1>6. s \in NumberSpans(t) => s.type # "TAIL"
  BY <1>1, NumberSpansWithin DEF NumberTypes, Within
<1>7. s \in Emails(t) => s.type # "TAIL"
  BY <1>1, EmailsAre DEF Within
<1>8. s \in Authorities(t) => s.type # "TAIL"
  BY DEF Authorities, Span
<1>9. s \in Addresses(t) =>
         \/ TailAt(t, s)
         \/ s.type # "TAIL" /\ (AddressAt(t, s) \/ EnglishAt(t, s) \/ FieldAt(t, s))
  BY AddressesAt
<1>. QED
  BY <1>1, <1>2, <1>3, <1>4, <1>5, <1>6, <1>7, <1>8, <1>9, LabelledAt

-----------------------------------------------------------------------------
(* Fields in words are masked.                                             *)

\* Words that a detector found are masked if all that comes before and shares
\* one of them covers them, as a whole.
LEMMA CoveredIsMasked ==
    ASSUME IInv, step = "done", NEW u \in found \cup entities, u.type # "TAIL",
           \A s \in found \cup entities :
              Before(s, u) /\ Overlap(s, u) =>
                 /\ s.start <= u.start /\ u.end <= s.end
                 /\ s.type = "TAIL" => s.start < u.start
    PROVE  \A k \in u.start .. u.end : Masked(k)
<1>1. u \in Spans /\ \A s \in found \cup entities : s \in Spans
  BY SpansInText
<1>2. SUFFICES ASSUME NEW k \in u.start .. u.end PROVE Masked(k)
  OBVIOUS
<1>3. CASE u \in accepted
  BY <1>1, <1>3 DEF Masked, Masks, Spans
<1>4. CASE u \notin accepted
  <2>1. PICK s \in accepted : Before(s, u) /\ Overlap(s, u)
    BY <1>4, AcceptedIsSettled DEF Settled
  <2>2. s \in found \cup entities /\ s \in Spans
    BY <1>1, <2>1, AcceptedIsSettled DEF Settled
  <2>3. /\ s.start <= u.start /\ u.end <= s.end
        /\ s.type = "TAIL" => s.start < u.start
    BY <2>1, <2>2
  <2>4. s.start <= k /\ k <= s.end /\ (s.type = "TAIL" => s.start < k)
    BY <1>1, <2>2, <2>3 DEF Spans
  <2>. QED
    BY <2>1, <2>4 DEF Masked, Masks
<1>. QED
  BY <1>3, <1>4

\* An address within a word goes before one that begins with a word, or before
\* a field of no lower priority, only if it begins further left.
LEMMA TailBefore ==
    ASSUME NEW s \in Spans, NEW u \in Spans, s.type = "TAIL", Before(s, u),
           u.type \in {"ADDRESS", "CARD_HOLDER", "CITIZENSHIP", "BIRTH_PLACE"}
    PROVE  s.start < u.start
<1>1. Priority(s) = 30 /\ Priority(u) \in {30, 35} /\ u.type # "TAIL"
  BY Priorities
<1>2. s.start \in Nat /\ u.start \in Nat
  BY DEF Spans
<1>. QED
  BY <1>1, <1>2, BeforeMeans

\* No number and no electronic address has one of these values.
LEMMA NumbersElsewhere ==
    ASSUME NEW t \in WordTexts, NEW i, NEW j, ValuesAt(t, i, j),
           NEW s \in NumberSpans(t) \cup Emails(t)
    PROVE  ~Meets(s, i, j)
<1>1. /\ t \in Seq(Words) /\ Len(t) \in Nat /\ DOMAIN t = 1 .. Len(t)
      /\ i \in 1 .. Len(t) /\ j \in i + 1 .. Len(t)
      /\ \A n \in i + 1 .. j : t[n].kind = "value"
  BY GroupsAre DEF WordTexts, ValuesAt
<1>2. SUFFICES ASSUME Meets(s, i, j) PROVE FALSE
  OBVIOUS
<1>3. CASE s \in NumberSpans(t)
  <2>1. s.start \in Nat /\ s.end \in Nat
    BY <1>1, <1>3, NumberSpansWithin DEF Within, Spans
  <2>2. Claimed(t, s)
    BY <1>1, <1>3, NumbersClaimed
  <2>3. \A n \in s.start .. s.end : t[n].kind # "value"
    <3>1. CASE s.start = s.end /\ t[s.start].kind # "value"
      BY <2>1, <3>1
    <3>2. ASSUME NEW a \in {s.start, s.start + 1}, AllGroups(t, a, s.end)
          PROVE  \A n \in a .. s.end : t[n].kind # "value"
      BY <3>2 DEF AllGroups, IsGroup, Kind
    <3>3. CASE Kind(t, s.start, {"plus"}) /\ AllGroups(t, s.start + 1, s.end)
      <4>1. \A n \in s.start + 1 .. s.end : t[n].kind # "value"
        BY <3>2, <3>3
      <4>2. t[s.start].kind # "value"
        BY <3>3 DEF Kind
      <4>3. \A n \in s.start .. s.end : n = s.start \/ n \in s.start + 1 .. s.end
        BY <2>1
      <4>. QED
        BY <4>1, <4>2, <4>3
    <3>. QED
      BY <2>2, <3>1, <3>2, <3>3 DEF Claimed, Dialled
  <2>4. s.start <= s.end
    BY <1>1, <2>1, <2>2 DEF Claimed, Dialled, AllGroups
  <2>5. \E n \in i + 1 .. j : n \in s.start .. s.end
    <3>1. s.start <= s.end /\ s.start <= j /\ i + 1 <= s.end
      BY <1>2, <2>4 DEF Meets
    <3>2. CASE s.start >= i + 1
      BY <1>1, <2>1, <3>1, <3>2
    <3>3. CASE s.start < i + 1
      BY <1>1, <2>1, <3>1, <3>3
    <3>. QED
      BY <1>1, <2>1, <3>2, <3>3
  <2>. QED
    BY <1>1, <2>3, <2>5
<1>4. CASE s \in Emails(t)
  <2>1. /\ s.start \in Nat /\ s.end \in Nat /\ s.end = s.start + 1
        /\ t[s.start].kind = "local" /\ t[s.end].kind = "domain"
    BY <1>4, EmailsAre DEF Within, Spans
  <2>2. s.start \in i + 1 .. j \/ s.end \in i + 1 .. j
    BY <1>1, <1>2, <2>1 DEF Meets
  <2>. QED
    BY <1>1, <2>1, <2>2
<1>. QED
  BY <1>3, <1>4

\* What shares a word with the values of a field is the field, or covers them,
\* or begins within a short word of them.
LEMMA FieldCovered ==
    ASSUME NEW t \in WordTexts, NEW i, NEW j, ValuesAt(t, i, j),
           Separates(t, i), ~Entered(t, i), j = RunEnd(t, i + 1, 4, {}),
           j <= i + 4, t[i].kind \in FieldLabels,
           NEW s \in Found(t), Meets(s, i, j)
    PROVE  IF s.type = "TAIL"
           THEN \/ s.start = i /\ j <= s.end
                \/ s.start \in i + 1 .. j /\ t[s.start].short
           ELSE s.start <= i + 1 /\ j <= s.end
<1>1. /\ t \in Seq(Words) /\ Len(t) \in Nat /\ DOMAIN t = 1 .. Len(t)
      /\ i \in 1 .. Len(t) /\ j \in i + 1 .. Len(t)
      /\ \A n \in i + 1 .. j : t[n].kind = "value"
  BY GroupsAre DEF WordTexts, ValuesAt
<1>2. s \in Spans /\ s.start \in Nat /\ s.end \in Nat /\ s.start <= j /\ i + 1 <= s.end
  BY FoundWithin DEF Within, Spans, Meets
<1>3. CASE TailAt(t, s)
  <2>1. \/ s.start \in i + 1 .. j
        \/ s.start = i /\ j <= s.end
    BY <1>1, <1>2, <1>3, TailMeets DEF TailAt
  <2>. QED
    BY <1>3, <2>1 DEF TailAt, TailPart
<1>4. SUFFICES ASSUME s.type # "TAIL" PROVE s.start <= i + 1 /\ j <= s.end
  BY <1>3, FoundAt
<1>5. CASE FieldAt(t, s)
  <2>1. s.start = i + 1 /\ s.end = RunEnd(t, i + 1, 4, {})
    BY <1>1, <1>2, <1>5, FieldEnters
  <2>. QED
    BY <1>1, <2>1
<1>6. CASE AddressAt(t, s)
  <2>1. t[i].kind \notin Parts3 /\ ~HouseNumber(t, i)
    BY DEF FieldLabels, PersonLabels, Parts3, HouseNumber, Kind
  <2>. QED
    BY <1>1, <1>2, <1>6, <2>1, AddressPartMeets DEF AddressAt
<1>7. CASE EnglishAt(t, s)
  <2>1. PICK k \in DOMAIN t : \E p \in EnglishValues(t, k) :
                                 s = Span(p[1], p[2], "ADDRESS")
    BY <1>7 DEF EnglishAt
  <2>2. PICK p \in EnglishValues(t, k) : s = Span(p[1], p[2], "ADDRESS")
    BY <2>1
  <2>3. p[1] <= j /\ i + 1 <= p[2]
    BY <1>2, <2>2 DEF Span
  <2>4. t[i].kind \notin {"digits", "ROAD"}
    BY DEF FieldLabels, PersonLabels
  <2>. QED
    BY <1>1, <2>3, <2>4, EnglishMeets
<1>8. CASE s \in Authorities(t)
  <2>1. s.start <= i /\ j <= s.end
    BY <1>1, <1>8, AuthorityMeets
  <2>. QED
    BY <1>1, <1>2, <2>1
<1>9. CASE s \in NumberSpans(t) \cup Emails(t)
  BY <1>9, NumbersElsewhere
<1>10. CASE s.start = s.end /\ Kind(t, s.start, {"COUNTRY"})
  <2>1. s.start \in i + 1 .. j
    BY <1>1, <1>2, <1>10
  <2>. QED
    BY <1>1, <1>10, <2>1 DEF Kind
<1>11. CASE s.start = 1 /\ s.end = Len(t)
  BY <1>1, <1>11
<1>. QED
  BY <1>3, <1>4, <1>5, <1>6, <1>7, <1>8, <1>9, <1>10, <1>11, FoundAt

\* The sizes of the fields.
LEMMA FieldSizesAre ==
    /\ DOMAIN FieldSizes =
          {"CLIENT", "CUSTOMER", "CARD_HOLDER", "CITIZENSHIP", "BIRTH_PLACE"}
    /\ \A k \in {"CLIENT", "CUSTOMER", "CARD_HOLDER"} : FieldSizes[k] = 2 .. 4
    /\ \A k \in {"CITIZENSHIP", "BIRTH_PLACE"} : FieldSizes[k] = 1 .. 4
BY DEF FieldSizes

\* Its detector finds the value of a field.
LEMMA FieldIsFound ==
    ASSUME NEW t \in Seq(Words), NEW i, NEW j, ValuesAt(t, i, j),
           Separates(t, i), ~Entered(t, i), j = RunEnd(t, i + 1, 4, {}),
           t[i].kind \in DOMAIN FieldSizes, j - i \in FieldSizes[t[i].kind]
    PROVE  \E u \in Found(t) :
              /\ u.start = i + 1 /\ u.end = j
              /\ u.type = IF t[i].kind \in {"CLIENT", "CUSTOMER"}
                          THEN "PERSON" ELSE t[i].kind
<1>1. /\ Len(t) \in Nat /\ DOMAIN t = 1 .. Len(t)
      /\ i \in 1 .. Len(t) /\ j \in i + 1 .. Len(t)
  BY GroupsAre DEF ValuesAt
<1>2. ASSUME NEW k \in 1 .. i - 1, t[k].kind \in FieldLabels, t[k].mark \in Separators
      PROVE  RunEnd(t, k + 1, 4, {}) < i
  <2>1. PICK m \in Nat \ {0} : m = 4
    OBVIOUS
  <2>2. PICK a, e : a = k + 1 /\ e = RunEnd(t, a, m, {})
    OBVIOUS
  <2>3. a \in 1 .. Len(t) + 1 /\ a \in 1 .. i /\ a - 1 = k /\ k \in 1 .. Len(t)
    BY <1>1, <1>2, <2>2
  <2>4. e \in a - 1 .. Len(t)
        /\ (e >= a => Joined(t, a, e) /\ \A n \in a .. e : ValueWord(t[n]))
    BY <2>2, <2>3, RunEndIs
  <2>5. ~(e >= i)
    <3>1. SUFFICES ASSUME e >= i PROVE FALSE
      OBVIOUS
    <3>2. e \in Nat /\ a \in Nat /\ i \in Nat /\ e >= a
      BY <1>1, <2>3, <2>4, <3>1
    <3>3. Run(t, a, e)
      BY <2>4, <3>2 DEF Run
    <3>4. Run(t, a, i)
      BY <3>1, <3>2, <3>3, RunPart
    <3>5. Separates(t, k)
      BY <1>2, Zenon DEF Separates, Separators
    <3>6. a = i => Leads(t, i)
      BY <1>2, <2>3, <3>5, MarksDiffer DEF Leads, FieldLabels, PersonLabels
    <3>. QED
      BY <2>3, <3>4, <3>6 DEF Entered
  <2>. QED
    BY <1>1, <2>1, <2>2, <2>4, <2>5
<1>3. t[i].mark \in Separators
  BY Zenon DEF Separates, Separators
<1>4. ASSUME NEW labels \in SUBSET FieldLabels, t[i].kind \in labels,
             NEW least \in Nat \ {0}, j >= i + least, NEW type
      PROVE  Span(i + 1, j, type) \in Fields(t, labels, Separators, least, 4, type)
  <2>1. PICK m \in Nat \ {0} : m = 4
    OBVIOUS
  <2>2. j = RunEnd(t, i + 1, m, {})
    BY <2>1
  <2>3. \A k \in 1 .. i - 1 : t[k].kind \in labels /\ t[k].mark \in Separators =>
                                 RunEnd(t, k + 1, m, {}) < i
    BY <1>2, <1>4, <2>1
  <2>4. Span(i + 1, RunEnd(t, i + 1, m, {}), type)
           \in Fields(t, labels, Separators, least, m, type)
    <3>1. RunEnd(t, i + 1, m, {}) >= i + least
      BY <1>4, <2>2
    <3>. QED
      BY <1>1, <1>3, <1>4, <2>3, <3>1, FieldFound
  <2>. QED
    BY <2>1, <2>2, <2>4
<1>5. 1 \in Nat \ {0} /\ 2 \in Nat \ {0}
  OBVIOUS
<1>6. CASE t[i].kind \in {"CLIENT", "CUSTOMER"}
  <2>1. j - i \in 2 .. 4
    BY <1>6, FieldSizesAre
  <2>2. j >= i + 2 /\ t[i].kind \in PersonLabels /\ PersonLabels \in SUBSET FieldLabels
    BY <1>1, <1>6, <2>1 DEF PersonLabels, FieldLabels
  <2>3. Span(i + 1, j, "PERSON") \in Fields(t, PersonLabels, Separators, 2, 4, "PERSON")
    BY <1>4, <1>5, <2>2
  <2>4. Span(i + 1, j, "PERSON") \in Persons(t)
    BY <2>3, Zenon DEF Persons, LabelledPersons
  <2>5. Span(i + 1, j, "PERSON") \in Found(t)
    BY <2>4 DEF Found, FieldSpans
  <2>. QED
    BY <1>6, <2>5 DEF Span
<1>7. CASE t[i].kind = "CARD_HOLDER"
  <2>1. j - i \in 2 .. 4
    BY <1>7, FieldSizesAre
  <2>2. j >= i + 2 /\ {"CARD_HOLDER"} \in SUBSET FieldLabels
    BY <1>1, <2>1 DEF FieldLabels
  <2>3. Span(i + 1, j, "CARD_HOLDER")
           \in Fields(t, {"CARD_HOLDER"}, Separators, 2, 4, "CARD_HOLDER")
    BY <1>4, <1>5, <1>7, <2>2
  <2>4. Span(i + 1, j, "CARD_HOLDER") \in Found(t)
    BY <2>3 DEF Found, FieldSpans
  <2>. QED
    BY <1>7, <2>4 DEF Span
<1>8. CASE t[i].kind = "CITIZENSHIP"
  <2>2. j >= i + 1 /\ {"CITIZENSHIP"} \in SUBSET FieldLabels
    BY <1>1 DEF FieldLabels
  <2>3. Span(i + 1, j, "CITIZENSHIP")
           \in Fields(t, {"CITIZENSHIP"}, Separators, 1, 4, "CITIZENSHIP")
    BY <1>4, <1>5, <1>8, <2>2
  <2>4. Span(i + 1, j, "CITIZENSHIP") \in Found(t)
    BY <2>3 DEF Found, FieldSpans, Citizenships
  <2>. QED
    BY <1>8, <2>4 DEF Span
<1>9. CASE t[i].kind = "BIRTH_PLACE"
  <2>2. j >= i + 1 /\ {"BIRTH_PLACE"} \in SUBSET FieldLabels
    BY <1>1 DEF FieldLabels
  <2>3. Span(i + 1, j, "BIRTH_PLACE")
           \in Fields(t, {"BIRTH_PLACE"}, Separators, 1, 4, "BIRTH_PLACE")
    BY <1>4, <1>5, <1>9, <2>2
  <2>4. Span(i + 1, j, "BIRTH_PLACE") \in Found(t)
    BY <2>3 DEF Found, FieldSpans
  <2>. QED
    BY <1>9, <2>4 DEF Span
<1>. QED
  BY <1>6, <1>7, <1>8, <1>9, FieldSizesAre

\* What goes before the value of a field and shares a word with it covers it:
\* a span of a detector, ...
LEMMA FoundCovers ==
    ASSUME NEW i \in DOMAIN text, NEW j \in DOMAIN text, IInv,
           ValuesAt(text, i, j), Separates(text, i), ~Entered(text, i),
           j = RunEnd(text, i + 1, 4, {}), j <= i + 4, text[i].kind \in DOMAIN FieldSizes,
           text[i].kind \in {"CLIENT", "CUSTOMER"} => Undisputed(i, j),
           NEW u \in Found(text), u.start = i + 1, u.end = j,
           u.type = IF text[i].kind \in {"CLIENT", "CUSTOMER"}
                    THEN "PERSON" ELSE text[i].kind,
           NEW s \in Found(text), Before(s, u), Overlap(s, u)
    PROVE  /\ s.start <= u.start /\ u.end <= s.end
           /\ s.type = "TAIL" => s.start < u.start
<1>1. text \in WordTexts /\ i \in Nat /\ s \in Spans /\ u \in Spans
  <2>1. text \in WordTexts
    BY DEF IInv
  <2>. QED
    BY <2>1, FoundWithin, GroupsAre DEF WordTexts, Within
<1>2. Meets(s, i, j)
  BY DEF Overlap, Meets
<1>3. text[i].kind \in FieldLabels
  BY FieldSizesAre DEF FieldLabels, PersonLabels
<1>4. IF s.type = "TAIL"
      THEN \/ s.start = i /\ j <= s.end
           \/ s.start \in i + 1 .. j /\ text[s.start].short
      ELSE s.start <= i + 1 /\ j <= s.end
  BY <1>1, <1>2, <1>3, FieldCovered
<1>5. ASSUME s.type = "TAIL", s.start \in i + 1 .. j, text[s.start].short PROVE FALSE
  <2>1. text[i].kind \notin {"CLIENT", "CUSTOMER"}
    BY <1>5 DEF Undisputed
  <2>2. u.type \in {"CARD_HOLDER", "CITIZENSHIP", "BIRTH_PLACE"}
    BY <2>1, FieldSizesAre
  <2>3. s.start < u.start
    BY <1>1, <1>5, <2>2, TailBefore
  <2>. QED
    BY <1>1, <1>5, <2>3
<1>. QED
  BY <1>1, <1>4, <1>5

\* ... or an entity.
LEMMA EntityCovers ==
    ASSUME NEW i \in DOMAIN text, NEW j \in DOMAIN text, IInv,
           text[i].kind \in DOMAIN FieldSizes,
           text[i].kind \in {"CLIENT", "CUSTOMER"} => Undisputed(i, j),
           NEW u \in Found(text), u.start = i + 1, u.end = j,
           u.type = IF text[i].kind \in {"CLIENT", "CUSTOMER"}
                    THEN "PERSON" ELSE text[i].kind,
           NEW s \in entities, s \in Names(text), Before(s, u), Overlap(s, u)
    PROVE  /\ s.start <= u.start /\ u.end <= s.end
           /\ s.type # "TAIL"
<1>1. text \in WordTexts /\ i \in Nat /\ j \in Nat
  <2>1. text \in WordTexts
    BY DEF IInv
  <2>. QED
    BY <2>1, GroupsAre DEF WordTexts
<1>2. /\ s \in Spans /\ s.start \in Nat /\ s.end \in Nat /\ s.type # "TAIL"
      /\ u \in Spans /\ Priority(s) = 20
  <2>1. s \in Spans /\ s.type # "TAIL"
    BY <1>1, NamesWithin DEF Within
  <2>2. u \in Spans
    BY <1>1, FoundWithin DEF Within
  <2>. QED
    BY <1>1, <2>1, <2>2, EntityWeaker DEF Spans
<1>3. Weak(u)
  BY <1>1, EntityWeaker
<1>4. text[i].kind \in {"CLIENT", "CUSTOMER"} /\ u.type = "PERSON"
  BY <1>3, FieldSizesAre DEF Weak
<1>5. Priority(u) = 20
  BY <1>4, Priorities
<1>6. s.start <= i + 1 /\ (s.start = i + 1 => s.end >= j)
  BY <1>2, <1>4, <1>5, BeforeMeans
<1>7. s.start <= i => s.end >= j
  <2>1. s.start <= i => s.end \notin i + 1 .. j - 1
    BY <1>4 DEF Undisputed
  <2>2. s.end >= i + 1
    BY DEF Overlap
  <2>. QED
    BY <1>1, <1>2, <2>1, <2>2
<1>. QED
  BY <1>1, <1>2, <1>6, <1>7

\* The value of a field in words is masked as a whole, in every text, whatever
\* fields, numbers and addresses stand around it; the value of a name is if no
\* address begins within one of its words and no entity that runs over its
\* label ends among them.
THEOREM FieldsAreMasked == Spec => []FieldsMasked
<1>1. ASSUME IInv PROVE FieldsMasked
  <2>1. SUFFICES ASSUME NEW i \in DOMAIN text, NEW j \in DOMAIN text, step = "done",
                        text[i].kind \in DOMAIN FieldSizes, Separates(text, i),
                        Opens(i), j - i \in FieldSizes[text[i].kind], Ends(j),
                        Joined(text, i + 1, j),
                        \A k \in i + 1 .. j : text[k].kind = "value" /\ ~text[k].stop,
                        text[i].kind \in {"CLIENT", "CUSTOMER"} => Undisputed(i, j)
                 PROVE  \A k \in i + 1 .. j : Masked(k)
    BY DEF FieldsMasked, AllMasked
  <2>2. /\ text \in WordTexts /\ text \in Seq(Words) /\ Len(text) \in Nat
        /\ DOMAIN text = 1 .. Len(text) /\ i \in 1 .. Len(text) /\ j \in 1 .. Len(text)
    BY <1>1, GroupsAre DEF IInv, WordTexts
  <2>3. j - i \in 1 .. 4
    <3>1. j - i \in 2 .. 4 \/ j - i \in 1 .. 4
      BY <2>1, FieldSizesAre
    <3>. QED
      BY <2>2, <3>1
  <2>4. ValuesAt(text, i, j)
    <3>1. j \in i + 1 .. Len(text)
      BY <2>2, <2>3
    <3>. QED
      BY <2>1, <2>2, <3>1 DEF ValuesAt
  <2>5. j = RunEnd(text, i + 1, 4, {})
    <3>1. PICK m \in Nat \ {0} : m = 4
      OBVIOUS
    <3>2. /\ i + 1 \in 1 .. Len(text) /\ j \in i + 1 .. Len(text)
          /\ j <= i + 1 + m - 1
      BY <2>2, <2>3, <3>1
    <3>3. \A k \in i + 1 .. j : ValueWord(text[k])
      BY <2>4, ValuesRun DEF Run
    <3>4. j = Len(text) \/ ~Bare(text, j) \/ ~ValueWord(text[j + 1])
      <4>1. j = Len(text) \/ Commaed(text, j) \/ text[j + 1].stop
        BY <2>1, Zenon DEF Ends, Commaed
      <4>. QED
        BY <4>1, MarksDiffer DEF ValueWord
    <3>5. RunEnd(text, i + 1, m, {}) = j
      BY <2>1, <2>2, <3>2, <3>3, <3>4, ValueEnds
    <3>. QED
      BY <3>1, <3>5
  <2>6. ~Entered(text, i)
    BY <2>1, <2>2, OpensShut
  <2>7. PICK u \in Found(text) :
           /\ u.start = i + 1 /\ u.end = j
           /\ u.type = IF text[i].kind \in {"CLIENT", "CUSTOMER"}
                       THEN "PERSON" ELSE text[i].kind
    BY <2>1, <2>2, <2>4, <2>5, <2>6, FieldIsFound
  <2>8. u \in found \cup entities /\ u.type # "TAIL"
    BY <1>1, <2>1, <2>7, FieldSizesAre DEF IInv, DetectedOnce
  <2>9. ASSUME NEW s \in found \cup entities, Before(s, u), Overlap(s, u)
        PROVE  /\ s.start <= u.start /\ u.end <= s.end
               /\ s.type = "TAIL" => s.start < u.start
    <3>1. CASE s \in Found(text)
      <4>1. j <= i + 4
        BY <2>2, <2>3
      <4>. QED
        BY <1>1, <2>1, <2>4, <2>5, <2>6, <2>7, <2>9, <3>1, <4>1, FoundCovers
    <3>2. CASE s \in entities
      <4>1. s \in Names(text)
        BY <1>1, <2>1, <3>2 DEF IInv, DetectedOnce
      <4>. QED
        BY <1>1, <2>1, <2>7, <2>9, <3>2, <4>1, EntityCovers
    <3>. QED
      BY <1>1, <2>1, <2>9, <3>1, <3>2 DEF IInv, DetectedOnce
  <2>. QED
    BY <1>1, <2>1, <2>7, <2>8, <2>9, CoveredIsMasked
<1>. QED
  BY <1>1, Invariance, PTL

-----------------------------------------------------------------------------
(* Addresses of persons are masked.                                        *)

OfAddress == Parts3 \cup {"digits", "value"}

\* A part of an address: words behind the label of a component or the number
\* of a street, in an address that opens at the i-th word.
Described(t, i, g, e) ==
    /\ i \in 1 .. g /\ ~Entered(t, i)
    /\ \A k \in i .. e : t[k].kind \in OfAddress
    /\ \A k \in DOMAIN t : t[k].kind # "ROAD"
    /\ ValuesAt(t, g, e) /\ Bare(t, g) /\ e = AddressEnd(t, g + 1)
    /\ t[g].kind \in Parts3 \cup {"digits"}

\* Without the label of a road nothing is read in the English order.
LEMMA NoRoads ==
    ASSUME NEW t \in Seq(Words), NEW s, \A k \in DOMAIN t : t[k].kind # "ROAD"
    PROVE  ~EnglishAt(t, s)
<1>1. SUFFICES ASSUME NEW k \in DOMAIN t PROVE EnglishValues(t, k) = {}
  BY DEF EnglishAt
<1>. DEFINE roads == {n \in k + 2 .. RunEnd(t, k + 1, 6, {}) : t[n].kind = "ROAD"}
<1>2. RunEnd(t, k + 1, 6, {}) \in k .. Len(t)
  <2>1. k + 1 \in 1 .. Len(t) + 1 /\ 6 \in Nat \ {0} /\ k \in Nat
    BY GroupsAre
  <2>2. RunEnd(t, k + 1, 6, {}) \in k + 1 - 1 .. Len(t)
    BY <2>1, RunEndIs
  <2>. QED
    BY <2>1, <2>2
<1>3. roads = {}
  <2>1. k + 2 .. RunEnd(t, k + 1, 6, {}) \subseteq DOMAIN t
    BY <1>2, GroupsAre
  <2>. QED
    BY <2>1
<1>. QED
  BY <1>3, Zenon DEF EnglishValues

\* What shares one of its words with such a part covers it, unless it begins
\* within a word of it.
LEMMA PartCovered ==
    ASSUME NEW t \in WordTexts, NEW i, NEW g, NEW e, Described(t, i, g, e),
           NEW s \in Found(t), Meets(s, g, e)
    PROVE  IF s.type = "TAIL" THEN s.start > g
           ELSE /\ s.start <= g + 1 /\ e <= s.end
                /\ t[g].kind = "digits" => s.start <= g
<1>1. /\ t \in Seq(Words) /\ Len(t) \in Nat /\ DOMAIN t = 1 .. Len(t)
      /\ g \in 1 .. Len(t) /\ e \in g + 1 .. Len(t) /\ i \in 1 .. g
      /\ \A n \in g + 1 .. e : t[n].kind = "value"
      /\ \A n \in i .. e : t[n].kind \in OfAddress
      /\ ValuesAt(t, g, e)
  BY GroupsAre DEF WordTexts, Described, ValuesAt
<1>2. s \in Spans /\ s.start \in Nat /\ s.end \in Nat /\ s.start <= e /\ g + 1 <= s.end
  BY FoundWithin DEF Within, Spans, Meets
<1>3. t[g].kind = "digits" => ~ValueWord(t[g])
  BY DEF ValueWord
<1>11. TailAt(t, s) => s.type = "TAIL" /\ s.start > g
  <2>. SUFFICES ASSUME TailAt(t, s) PROVE s.type = "TAIL" /\ s.start > g
    OBVIOUS
  <2>6. s.type = "TAIL"
    BY DEF TailAt
  <2>7. SUFFICES ~(s.start <= g)
    BY <1>1, <1>2, <2>6
  <2>1. SUFFICES ASSUME s.start <= g PROVE FALSE
    OBVIOUS
  <2>2. t[g].kind \in Parts3 \/ t[g].kind = "digits"
    BY DEF Described
  <2>3. ~t[g].short
    BY <1>1, <2>2 DEF WordTexts, Parts3
  <2>4. s.start # g
    BY <2>1, <2>3 DEF TailAt, TailPart
  <2>5. ValueWord(t[g]) /\ t[g].kind \notin Parts3
    BY <1>1, <1>2, <2>1, <2>4, TailMeets DEF TailAt
  <2>8. CASE t[g].kind \in Parts3
    BY <2>5, <2>8, Zenon
  <2>9. CASE t[g].kind = "digits"
    BY <1>3, <2>5, <2>9, Zenon
  <2>. QED
    BY <2>2, <2>8, <2>9, Zenon
<1>12. SUFFICES ASSUME s.type # "TAIL"
                PROVE  /\ s.start <= g + 1 /\ e <= s.end
                       /\ t[g].kind = "digits" => s.start <= g
  BY <1>11, FoundAt
<1>4. CASE FieldAt(t, s)
  <2>1. \/ t[g].kind \in FieldLabels
        \/ s.start <= g /\ Run(t, s.start, g)
    BY <1>1, <1>2, <1>4, FieldMeets
  <2>2. t[g].kind \notin FieldLabels
    BY DEF Described, Parts3, FieldLabels, PersonLabels
  <2>3. s.start - 1 \in 1 .. Len(t) /\ t[s.start - 1].kind \in FieldLabels
    BY <1>4 DEF FieldAt
  <2>4. s.start <= i
    <3>1. ~(s.start <= i) => s.start - 1 \in i .. e
      BY <1>1, <1>2
    <3>. QED
      BY <1>1, <2>3, <3>1 DEF OfAddress, Parts3, FieldLabels, PersonLabels
  <2>5. Run(t, s.start, i)
    <3>1. i \in Nat /\ g \in Nat /\ i <= g
      BY <1>1
    <3>. QED
      BY <1>2, <2>1, <2>2, <3>1, RunPart
  <2>6. s.start \in 1 .. i
    BY <1>1, <1>2, <2>3, <2>4
  <2>. QED
    BY <1>4, <2>5, <2>6, FieldLeads DEF Described, Entered
<1>5. CASE AddressAt(t, s)
  <2>1. t[g].kind \in Parts3 \/ t[g].kind = "digits"
    BY DEF Described
  <2>2. \/ s.start = g + 1 /\ s.end = AddressEnd(t, g + 1) /\ t[g].kind \in Parts3
        \/ s.start = g /\ s.end = AddressEnd(t, g + 1)
        \/ t[g].kind \notin Parts3 /\ Entered(t, g)
    BY <1>1, <1>2, <1>5, AddressPartMeets DEF AddressAt
  <2>3. t[g].kind = "digits" => ~Entered(t, g)
    <3>1. \A a \in 1 .. g : g \in a .. g
      BY <1>1
    <3>. QED
      BY <1>3, <3>1 DEF Entered, Run
  <2>4. e = AddressEnd(t, g + 1)
    BY DEF Described
  <2>5. t[g].kind \in Parts3 => t[g].kind # "digits"
    BY DEF Parts3
  <2>. QED
    BY <1>1, <1>2, <2>1, <2>2, <2>3, <2>4, <2>5
<1>6. ~EnglishAt(t, s)
  BY <1>1, NoRoads DEF Described
<1>7. CASE s \in Authorities(t)
  <2>1. Separates(t, g)
    BY MarksDiffer DEF Described
  <2>2. s.start <= g /\ e <= s.end
    BY <1>1, <1>7, <2>1, AuthorityMeets
  <2>. QED
    BY <1>1, <1>2, <2>2
<1>8. CASE s \in NumberSpans(t) \cup Emails(t)
  BY <1>1, <1>8, NumbersElsewhere
<1>9. CASE s.start = s.end /\ Kind(t, s.start, {"COUNTRY"})
  <2>1. s.start \in g + 1 .. e
    BY <1>1, <1>2, <1>9
  <2>. QED
    BY <1>1, <1>9, <2>1 DEF Kind
<1>10. CASE s.start = 1 /\ s.end = Len(t)
  BY <1>1, <1>10
<1>. QED
  BY <1>4, <1>5, <1>6, <1>7, <1>8, <1>9, <1>10, <1>11, <1>12, FoundAt

\* What ends at the number of a street is a number.
LEMMA NumberTaken ==
    ASSUME NEW t \in WordTexts, NEW i, NEW g, NEW e, Described(t, i, g, e),
           HouseNumber(t, g), Kind(t, g - 1, {"STREET"}), Bare(t, g - 1),
           NEW s \in Found(t), s.start <= e, s.end = g
    PROVE  s \in NumberSpans(t)
<1>1. /\ t \in Seq(Words) /\ Len(t) \in Nat /\ DOMAIN t = 1 .. Len(t)
      /\ g \in 1 .. Len(t) /\ e \in g + 1 .. Len(t)
      /\ t[g].kind = "digits" /\ ~ValueWord(t[g]) /\ IsGroup(t, g)
      /\ g - 1 \in 1 .. Len(t) /\ t[g - 1].kind = "STREET" /\ ~Coloned(t, g - 1)
  BY GroupsAre, MarksDiffer
  DEF WordTexts, Described, ValuesAt, HouseNumber, Kind, ValueWord, IsGroup
<1>2. s \in Spans /\ s.start \in Nat /\ s.end \in Nat
  BY FoundWithin DEF Within, Spans
<1>3. ASSUME NEW a \in Nat, a <= g, Run(t, a, g) PROVE FALSE
  <2>1. g \in a .. g
    BY <1>1, <1>3
  <2>. QED
    BY <1>1, <1>3, <2>1 DEF Run
<1>4. ~FieldAt(t, s)
  <2>1. FieldAt(t, s) => Run(t, s.start, g) /\ s.start <= g
    BY <1>1, <1>2, FieldRun DEF FieldAt
  <2>. QED
    BY <1>2, <1>3, <2>1
<1>5. ~AddressAt(t, s)
  <2>1. SUFFICES ASSUME NEW a \in 1 .. Len(t) + 1, a = s.start, AddressPart(t, a, g)
                 PROVE  FALSE
    BY <1>1, <1>2, FoundWithin DEF AddressAt, Within
  <2>2. a \in Nat /\ a <= e
    BY <2>1
  <2>3. ~(g < a /\ Kind(t, g, Parts3))
    BY <1>1 DEF Kind, Parts3
  <2>4. ~(a = g /\ (t[a - 1].kind = "HOUSE" \/ Coloned(t, a - 1)))
    BY <1>1
  <2>5. ASSUME NEW b \in 1 .. Len(t) + 1, b <= g, g = AddressEnd(t, b) PROVE FALSE
    <3>1. g >= b => Run(t, b, g)
      BY <1>1, <2>5, AddressRun
    <3>2. b \in Nat /\ g >= b
      BY <1>1, <2>5
    <3>. QED
      BY <1>3, <2>5, <3>1, <3>2
  <2>6. ~(a <= g /\ g = AddressEnd(t, a))
    BY <2>5
  <2>7. ~(a < g /\ g = AddressEnd(t, a + 1))
    <3>1. SUFFICES ASSUME a < g, g = AddressEnd(t, a + 1) PROVE FALSE
      OBVIOUS
    <3>2. a + 1 \in 1 .. Len(t) + 1 /\ a + 1 <= g
      BY <1>1, <3>1
    <3>. QED
      BY <2>5, <3>1, <3>2
  <2>. QED
    BY <2>1, <2>3, <2>4, <2>6, <2>7 DEF AddressPart
<1>6. ~EnglishAt(t, s)
  BY <1>1, NoRoads DEF Described
<1>7. s \notin Authorities(t)
  <2>1. SUFFICES ASSUME s \in Authorities(t) PROVE FALSE
    OBVIOUS
  <2>2. s \in Worded(t)
    BY <1>1, <2>1, CitizenshipsWorded
  <2>3. s.type = "ISSUING_AUTHORITY"
    BY <2>1 DEF Authorities, Span
  <2>4. s.start <= s.end /\ \A n \in s.start .. s.end : ~IsGroup(t, n)
    BY <2>2, <2>3 DEF Worded
  <2>. QED
    BY <1>1, <1>2, <2>4
<1>8. s \notin Emails(t)
  BY <1>1, EmailsAre
<1>9. ~(s.start = s.end /\ Kind(t, s.start, {"COUNTRY"}))
  BY <1>1 DEF Kind
<1>10. ~(s.start = 1 /\ s.end = Len(t))
  <2>1. g # Len(t)
    <3>1. PICK l \in Nat : l = Len(t)
      BY <1>1
    <3>2. g \in 1 .. l /\ e \in g + 1 .. l
      BY <1>1, <3>1
    <3>3. g # l
      BY ONLY <3>2, l \in Nat
    <3>. QED
      BY <3>1, <3>3
  <2>2. s.end = g
    OBVIOUS
  <2>. QED
    BY ONLY <2>1, <2>2
<1>11. ~TailAt(t, s)
  <2>1. SUFFICES ASSUME TailAt(t, s) PROVE FALSE
    OBVIOUS
  <2>2. s.start <= s.end /\ \A n \in s.start .. s.end : ~IsGroup(t, n)
    BY <2>1, TailsAre DEF TailAt, Worded
  <2>. QED
    BY <1>1, <1>2, <2>2
<1>. QED
  BY <1>4, <1>5, <1>6, <1>7, <1>8, <1>9, <1>10, <1>11, FoundAt

\* The nearer label is not that of an office.
LEMMA NotPublic ==
    ASSUME NEW t \in Seq(Words), NEW i \in DOMAIN t,
           \A j \in {k \in Window(t, i, 12) : t[k].kind = "OFFICE"} :
              \E k \in {l \in Window(t, i, 12) : t[l].kind \in HomeLabels} : j < k
    PROVE  ~Public(t, i)
<1>. DEFINE O == {0} \cup {j \in Window(t, i, 12) : t[j].kind \in {"OFFICE"}}
            H == {0} \cup {j \in Window(t, i, 12) : t[j].kind \in HomeLabels}
<1>1. Public(t, i) <=> Max(O) > Max(H)
  BY DEF Public
<1>2. i \in Nat /\ Window(t, i, 12) \subseteq 1 .. i - 1
  BY GroupsAre DEF Window
<1>3. O \subseteq Int /\ O # {} /\ \A x \in O : x <= i
  BY <1>2
<1>4. H \subseteq Int /\ H # {} /\ \A x \in H : x <= i
  BY <1>2
<1>5. \A x \in O : x # 0 => \E y \in H : x < y
  OBVIOUS
<1>6. 0 \in H
  OBVIOUS
<1>. HIDE DEF O, H
<1>7. i \in Int
  BY <1>2
<1>8. Max(O) \in O /\ Max(H) \in H /\ \A y \in H : y <= Max(H)
  BY <1>3, <1>4, <1>7, MaxIs, Zenon
<1>9. PICK o \in Int, h \in Int : o = Max(O) /\ h = Max(H)
  BY <1>3, <1>4, <1>8
<1>10. o = 0 => o <= h
  BY <1>6, <1>8, <1>9
<1>11. o # 0 => o <= h
  <2>1. ASSUME o # 0 PROVE \E y \in H : o < y /\ y <= h
    BY <1>5, <1>8, <1>9, <2>1
  <2>. QED
    BY <1>4, <1>9, <2>1
<1>. QED
  BY <1>1, <1>9, <1>10, <1>11

\* A chain ends with its last value.
LEMMA ChainEndIs ==
    ASSUME NEW t \in WordTexts, NEW i \in DOMAIN t, NEW p \in Chain(t, i)
    PROVE  p[2] <= ChainEnd(t, i)
<1>. DEFINE S == {0} \cup {q[2] : q \in Chain(t, i)}
<1>1. Len(t) \in Nat
  BY LenProperties DEF WordTexts
<1>2. S \subseteq Int /\ S # {} /\ Len(t) \in Int /\ \A x \in S : x <= Len(t)
  <2>1. \A q \in Components(t) : q[2] \in 0 .. Len(t)
    BY DEF Components
  <2>. QED
    BY <1>1, <2>1, ChainIs
<1>3. p[2] \in S /\ ChainEnd(t, i) = Max(S)
  BY DEF ChainEnd
<1>. HIDE DEF S
<1>4. \A x \in S : x <= Max(S)
  BY <1>2, MaxIs, Zenon
<1>. QED
  BY <1>3, <1>4

\* The values of a chain that no chain before it reaches are found, if it is
\* an address of two components of a person.
LEMMA ChainFound ==
    ASSUME NEW t \in WordTexts, NEW i \in DOMAIN t, NEW p \in Chain(t, i),
           \A k \in 1 .. i - 1 : ChainEnd(t, k) < i,
           ~Public(t, i), Cardinality(Chain(t, i)) >= 2
    PROVE  Span(p[1], p[2], p[3]) \in Found(t)
<1>. DEFINE end == [k \in DOMAIN t |-> ChainEnd(t, k)]
<1>1. t \in Seq(Words) /\ Len(t) \in Nat /\ DOMAIN t = 1 .. Len(t)
  BY GroupsAre DEF WordTexts
<1>2. \A k \in 1 .. Len(t) : end[k] \in 0 .. Len(t)
  BY <1>1, ChainIs
<1>3. end[i] >= i
  <2>1. /\ p[2] >= i /\ p[2] <= ChainEnd(t, i) /\ p[2] \in Nat
        /\ ChainEnd(t, i) \in 0 .. Len(t)
    <3>1. \A q \in Components(t) : q[2] \in Nat
      BY <1>1 DEF Components
    <3>. QED
      BY <3>1, ChainParts, ChainEndIs, ChainIs
  <2>. QED
    BY <1>1, <2>1
<1>4. \A k \in 1 .. i - 1 : end[k] < i
  BY <1>1
<1>5. AddressValid(t, i)
  BY DEF AddressValid
<1>6. Addresses(t) =
         LET chains == {k \in Starts(t, end) : AddressValid(t, k)}
             others == {k \in DOMAIN t : ~Public(t, k)}
         IN  {Span(q[1], q[2], q[3]) : q \in UNION {Chain(t, k) : k \in chains}}
             \cup {Span(q[1], q[2], "ADDRESS") :
                      q \in UNION {LabelledValues(t, k) \cup EnglishValues(t, k) :
                                      k \in others}}
             \cup {s \in Fields(t, {"LIVES"}, {""}, 1, 4, "ADDRESS") :
                      s.start - 1 \in others}
  BY DEF Addresses
<1>. HIDE DEF end
<1>7. i \in Starts(t, end)
  BY <1>1, <1>2, <1>3, <1>4, StartsReach
<1>8. Span(p[1], p[2], p[3]) \in Addresses(t)
  BY <1>5, <1>6, <1>7, Zenon
<1>. QED
  BY <1>8 DEF Found, FieldSpans

\* A value of several words in an address of labels, words and numbers is a
\* part of it, behind a label or behind the number of a street.
LEMMA ChainDescribed ==
    ASSUME NEW t \in WordTexts, NEW i \in DOMAIN t, NEW p \in Chain(t, i),
           ~Entered(t, i), t[i].kind \in Parts3, p[3] = "ADDRESS", p[1] < p[2],
           \A k \in i .. ChainEnd(t, i) : t[k].kind \in OfAddress,
           \A k \in DOMAIN t : t[k].kind # "ROAD"
    PROVE  \/ \E g \in Nat :
                 p[1] = g + 1 /\ t[g].kind \in Parts3 /\ Described(t, i, g, p[2])
           \/ /\ HouseNumber(t, p[1]) /\ Kind(t, p[1] - 1, {"STREET"})
              /\ Bare(t, p[1] - 1) /\ Described(t, i, p[1], p[2])
<1>1. /\ t \in Seq(Words) /\ Len(t) \in Nat /\ DOMAIN t = 1 .. Len(t)
      /\ i \in 1 .. Len(t)
  BY GroupsAre DEF WordTexts
<1>2. PICK a, e : a = p[1] /\ e = p[2]
  OBVIOUS
<1>3. /\ a \in 1 .. Len(t) /\ e \in a + 1 .. Len(t) /\ a >= i
      /\ AddressPart(t, a, e) /\ Bare(t, a - 1)
  <2>1. p \in Components(t) /\ AddressPart(t, a, e) /\ a >= i
        /\ (a <= e => Bare(t, a - 1))
    BY <1>2, ChainParts
  <2>2. a \in 1 .. Len(t) + 1 /\ e \in 0 .. Len(t)
    BY <1>2, <2>1 DEF Components
  <2>. QED
    BY <1>1, <1>2, <2>1, <2>2
<1>4. \A k \in i .. e : t[k].kind \in OfAddress
  <2>1. e <= ChainEnd(t, i) /\ ChainEnd(t, i) \in 0 .. Len(t)
    BY <1>2, ChainEndIs, ChainIs
  <2>2. \A k \in i .. e : k \in i .. ChainEnd(t, i)
    BY <1>1, <1>3, <2>1
  <2>. QED
    BY <2>2
<1>6. ASSUME NEW g \in i .. Len(t), e >= g + 1, e = AddressEnd(t, g + 1),
             Bare(t, g), t[g].kind \in Parts3 \cup {"digits"}
      PROVE  Described(t, i, g, e)
  <2>1. g + 1 \in 1 .. Len(t) + 1 /\ i \in 1 .. g /\ g \in 1 .. Len(t)
        /\ e \in g + 1 .. Len(t)
    BY <1>1, <1>3, <1>6
  <2>2. Run(t, g + 1, e) /\ \A k \in g + 1 .. e : t[k].kind \notin Parts3
    BY <1>1, <1>6, <2>1, AddressRun
  <2>3. ValuesAt(t, g, e)
    <3>1. ASSUME NEW k \in g + 1 .. e PROVE t[k].kind = "value" /\ ~t[k].stop
      <4>1. k \in i .. e
        BY <1>1, <2>1
      <4>2. t[k].kind \in OfAddress /\ ValueWord(t[k]) /\ t[k].kind \notin Parts3
        BY <1>4, <2>2, <4>1 DEF Run
      <4>. QED
        BY <4>2 DEF OfAddress, Parts3, ValueWord
    <3>. QED
      BY <2>1, <2>2, <3>1 DEF ValuesAt, Run
  <2>. QED
    BY <1>4, <1>6, <2>1, <2>3 DEF Described
<1>7. CASE /\ Kind(t, a - 1, Parts3) /\ e = AddressEnd(t, a)
  <2>1. PICK g \in 1 .. Len(t) : a = g + 1
    BY <1>1, <1>3, <1>7 DEF Kind
  <2>2. t[g].kind \in Parts3 /\ Bare(t, g)
    <3>1. a - 1 = g
      BY <2>1
    <3>. QED
      BY <1>3, <1>7, <3>1 DEF Kind
  <2>3. g \in i .. Len(t)
    <3>1. a # i
      <4>1. a \in 1 .. Len(t) + 1 /\ e >= a /\ a \in a .. e
        BY <1>1, <1>3
      <4>2. t[a].kind \notin Parts3
        BY <1>1, <1>7, <4>1, AddressRun
      <4>. QED
        BY <4>2
    <3>. QED
      BY <1>1, <1>3, <2>1, <3>1
  <2>4. Described(t, i, g, e)
    BY <1>1, <1>3, <1>6, <1>7, <2>1, <2>2, <2>3
  <2>5. g \in Nat
    BY <2>1
  <2>. QED
    BY <1>2, <2>1, <2>2, <2>4, <2>5
<1>8. CASE /\ HouseNumber(t, a) /\ Kind(t, a - 1, {"STREET"})
           /\ Bare(t, a) /\ e = AddressEnd(t, a + 1)
  <2>1. a \in i .. Len(t) /\ e >= a + 1 /\ t[a].kind \in Parts3 \cup {"digits"}
    BY <1>1, <1>3, <1>8 DEF HouseNumber, Kind
  <2>2. Described(t, i, a, e)
    BY <1>6, <1>8, <2>1
  <2>. QED
    BY <1>2, <1>3, <1>8, <2>2
<1>9. ~(e < a) /\ a # e
  BY <1>1, <1>3
<1>. QED
  BY <1>2, <1>3, <1>7, <1>8, <1>9 DEF AddressPart

\* What shares a word with a part of such an address, and goes before it, has
\* all of it.
LEMMA PartOutlives ==
    ASSUME NEW t \in WordTexts, NEW i, NEW p, p[1] \in Nat, p[2] \in Nat, p[1] < p[2],
           \/ \E g \in Nat : p[1] = g + 1 /\ Described(t, i, g, p[2])
           \/ /\ HouseNumber(t, p[1]) /\ Kind(t, p[1] - 1, {"STREET"})
              /\ Bare(t, p[1] - 1) /\ Described(t, i, p[1], p[2])
              /\ \A s \in NumberSpans(t) : ~Overlap(s, Span(p[1], p[2], "ADDRESS")),
           NEW u \in Spans, u = Span(p[1], p[2], "ADDRESS"),
           NEW s \in Found(t), Before(s, u), Overlap(s, u)
    PROVE  /\ s.start <= u.start /\ u.end <= s.end
           /\ s.type = "TAIL" => s.start < u.start
<1>1. u.start = p[1] /\ u.end = p[2] /\ u.type = "ADDRESS"
  BY DEF Span
<1>2. /\ s \in Spans /\ s.start \in Nat /\ s.end \in Nat
      /\ s.start <= p[2] /\ p[1] <= s.end
  BY <1>1, FoundWithin DEF Within, Spans, Overlap
<1>3. s.type = "TAIL" => s.start < u.start
  BY <1>2, <1>1, TailBefore
<1>4. CASE \E g \in Nat : p[1] = g + 1 /\ Described(t, i, g, p[2])
  <2>1. PICK g \in Nat : p[1] = g + 1 /\ Described(t, i, g, p[2])
    BY <1>4
  <2>2. Meets(s, g, p[2])
    BY <1>2, <2>1 DEF Meets
  <2>3. IF s.type = "TAIL" THEN s.start > g ELSE s.start <= g + 1 /\ p[2] <= s.end
    BY <2>1, <2>2, PartCovered
  <2>. QED
    BY <1>1, <1>2, <1>3, <2>1, <2>3
<1>5. CASE /\ HouseNumber(t, p[1]) /\ Kind(t, p[1] - 1, {"STREET"})
           /\ Bare(t, p[1] - 1) /\ Described(t, i, p[1], p[2])
           /\ \A r \in NumberSpans(t) : ~Overlap(r, u)
  <2>1. CASE s.end >= p[1] + 1
    <3>1. Meets(s, p[1], p[2])
      BY <1>2, <2>1 DEF Meets
    <3>2. t[p[1]].kind = "digits"
      BY <1>5 DEF HouseNumber, Kind
    <3>3. IF s.type = "TAIL" THEN s.start > p[1] ELSE s.start <= p[1] /\ p[2] <= s.end
      BY <1>5, <3>1, <3>2, PartCovered
    <3>. QED
      BY <1>1, <1>2, <1>3, <3>3
  <2>2. CASE s.end < p[1] + 1
    <3>1. s.end = p[1]
      BY <1>2, <2>2
    <3>2. s \in NumberSpans(t)
      BY <1>2, <1>5, <3>1, NumberTaken
    <3>. QED
      BY <1>5, <3>2
  <2>. QED
    BY <1>2, <2>1, <2>2
<1>. QED
  BY <1>4, <1>5

\* Every value of an address that opens with its own labels and has two
\* components is masked as a whole if no label of an office stands nearer before
\* it, whatever detectors and entities claim the same words.
THEOREM HomeAddressesAreMasked == Spec => []HomeAddressesMasked
<1>1. ASSUME IInv PROVE HomeAddressesMasked
  <2>1. SUFFICES ASSUME NEW i \in DOMAIN text, step = "done",
                        Opens(i), text[i].kind \in Parts3,
                        \A k \in 1 .. i - 1 : ChainEnd(text, k) < i,
                        \A k \in i .. ChainEnd(text, i) : text[k].kind \in OfAddress,
                        \A j \in {k \in Window(text, i, 12) : text[k].kind = "OFFICE"} :
                           \E k \in {l \in Window(text, i, 12) :
                                        text[l].kind \in HomeLabels} : j < k,
                        \A k \in DOMAIN text : text[k].kind # "ROAD",
                        Cardinality(Chain(text, i)) >= 2,
                        NEW p \in Chain(text, i), p[3] = "ADDRESS", Spared(p)
                 PROVE  \A k \in p[1] .. p[2] : Masked(k)
    <3>1. AddressLabels = Parts3
      BY DEF AddressLabels, Parts3
    <3>. QED
      BY <3>1 DEF HomeAddressesMasked, AllMasked, OfAddress, Kind
  <2>2. /\ text \in WordTexts /\ text \in Seq(Words) /\ Len(text) \in Nat
        /\ DOMAIN text = 1 .. Len(text)
    BY <1>1, GroupsAre DEF IInv, WordTexts
  <2>3. p[1] \in Nat /\ p[2] \in Nat
    <3>1. p \in Components(text)
      BY <2>1, <2>2, ChainParts
    <3>2. \A q \in Components(text) : q[1] \in Nat /\ q[2] \in Nat
      BY <2>2 DEF Components
    <3>. QED
      BY <3>1, <3>2
  <2>4. PICK u : u = Span(p[1], p[2], "ADDRESS")
    OBVIOUS
  <2>5. u.start = p[1] /\ u.end = p[2] /\ u.type = "ADDRESS"
    BY <2>4 DEF Span
  <2>6. u \in Found(text)
    <3>1. ~Public(text, i)
      BY <2>1, <2>2, NotPublic
    <3>2. Span(p[1], p[2], p[3]) \in Found(text)
      BY <2>1, <2>2, <3>1, ChainFound
    <3>. QED
      BY <2>1, <2>4, <3>2
  <2>7. u \in found \cup entities /\ u \in Spans
    <3>1. u \in found \cup entities
      BY <1>1, <2>1, <2>6 DEF IInv, DetectedOnce
    <3>. QED
      BY <1>1, <3>1, SpansInText
  <2>8. ASSUME NEW s \in Found(text), Before(s, u), Overlap(s, u), p[1] <= p[2]
        PROVE  /\ s.start <= u.start /\ u.end <= s.end
               /\ s.type = "TAIL" => s.start < u.start
    <3>1. CASE p[1] = p[2]
      <4>1. s \in Spans
        BY <2>2, FoundWithin DEF Within
      <4>2. s.start <= u.start /\ u.end <= s.end
        BY <2>5, <2>8, <3>1 DEF Overlap
      <4>3. s.type = "TAIL" => s.start < u.start
        BY <2>5, <2>7, <2>8, <4>1, TailBefore
      <4>. QED
        BY <4>2, <4>3
    <3>2. CASE p[1] < p[2]
      <4>1. ~Entered(text, i)
        BY <2>1, <2>2, OpensShut
      <4>2. \/ \E g \in Nat : p[1] = g + 1 /\ Described(text, i, g, p[2])
            \/ /\ HouseNumber(text, p[1]) /\ Kind(text, p[1] - 1, {"STREET"})
               /\ Bare(text, p[1] - 1) /\ Described(text, i, p[1], p[2])
        BY <2>1, <2>2, <3>2, <4>1, ChainDescribed
      <4>3. HouseNumber(text, p[1]) =>
               \A r \in NumberSpans(text) : ~Overlap(r, Span(p[1], p[2], "ADDRESS"))
        BY <2>1, <3>2 DEF Spared, HouseNumber, IsGroup
      <4>. QED
        BY <2>2, <2>3, <2>4, <2>7, <2>8, <3>2, <4>2, <4>3, PartOutlives
    <3>. QED
      BY <2>3, <2>8, <3>1, <3>2
  <2>9. ASSUME NEW s \in entities, Before(s, u) PROVE FALSE
    <3>1. s \in Names(text)
      BY <1>1, <2>1, <2>9 DEF IInv, DetectedOnce
    <3>2. Weak(u)
      BY <2>2, <2>6, <2>9, <3>1, EntityWeaker
    <3>. QED
      BY <2>5, <3>2 DEF Weak
  <2>10. CASE p[1] <= p[2]
    <3>1. \A s \in found \cup entities :
             Before(s, u) /\ Overlap(s, u) =>
                /\ s.start <= u.start /\ u.end <= s.end
                /\ s.type = "TAIL" => s.start < u.start
      BY <1>1, <2>1, <2>8, <2>9, <2>10 DEF IInv, DetectedOnce
    <3>2. \A k \in u.start .. u.end : Masked(k)
      BY <1>1, <2>1, <2>5, <2>7, <3>1, CoveredIsMasked
    <3>. QED
      BY <2>5, <3>2
  <2>. QED
    BY <2>3, <2>10
<1>. QED
  BY <1>1, Invariance, PTL

\* Labelled fields in words and home addresses are masked in every text, on the
\* conditions that FieldsMasked and HomeAddressesMasked state.
THEOREM WordsAreMasked == Spec => []WordsMasked
<1>1. FieldsMasked /\ HomeAddressesMasked => WordsMasked
  BY DEF WordsMasked
<1>. QED
  BY <1>1, FieldsAreMasked, HomeAddressesAreMasked, PTL

=============================================================================
