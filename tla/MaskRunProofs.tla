----------------------------- MODULE MaskRunProofs -----------------------------
(***************************************************************************)
(* Theorems about MaskRun, for texts of any length, any detectors, types,  *)
(* priorities and policies, any spans that the detectors find and any      *)
(* answer of an LLM.                                                       *)
(***************************************************************************)
EXTENDS MaskRun, TextLemmas

-----------------------------------------------------------------------------
(* Rewrite, symbol by symbol.                                              *)

\* Nothing becomes nothing.
LEMMA RewriteEmpty == \A f : Rewrite(<<>>, f) = <<>>
<1>1. ASSUME NEW f PROVE Rewrite(<<>>, f) = <<>>
  <2>. DEFINE none == [i \in DOMAIN <<>> |-> f[<<>>[i]]]
  <2>1. none = <<>> /\ Len(<<>>) = 0
    OBVIOUS
  <2>. HIDE DEF none
  <2>2. FlattenSeq(none) = <<>>
    BY <2>1 DEF FlattenSeq
  <2>. QED
    BY <2>2 DEF Rewrite, none
<1>. QED
  BY <1>1

\* One symbol more is its image more.
LEMMA RewriteAppend ==
    ASSUME NEW X, NEW f \in [X -> Seq(X)], NEW t \in Seq(X), NEW x \in X
    PROVE  Rewrite(Append(t, x), f) = Rewrite(t, f) \o f[x]
<1>. DEFINE Images(u) == [i \in DOMAIN u |-> f[u[i]]]
<1>1. ASSUME NEW u \in Seq(X) PROVE Images(u) \in Seq(Seq(X)) /\ Len(Images(u)) = Len(u)
  <2>1. /\ Len(u) \in Nat /\ DOMAIN u = 1 .. Len(u)
        /\ \A i \in 1 .. Len(u) : u[i] \in X
    BY LenProperties, ElementOfSeq
  <2>2. Images(u) \in [1 .. Len(u) -> Seq(X)]
    BY <2>1
  <2>. QED
    BY <2>1, <2>2
<1>2. Images(Append(t, x)) = Append(Images(t), f[x])
  <2>1. /\ Append(t, x) \in Seq(X) /\ Len(Append(t, x)) = Len(t) + 1
        /\ \A i \in 1 .. Len(t) : Append(t, x)[i] = t[i]
        /\ Append(t, x)[Len(t) + 1] = x
        /\ Len(t) \in Nat /\ DOMAIN t = 1 .. Len(t)
        /\ DOMAIN Append(t, x) = 1 .. Len(t) + 1
    BY AppendProperties, LenProperties
  <2>2. /\ Images(Append(t, x)) \in Seq(Seq(X))
        /\ Len(Images(Append(t, x))) = Len(t) + 1
        /\ Images(t) \in Seq(Seq(X)) /\ Len(Images(t)) = Len(t)
    BY <1>1, <2>1
  <2>3. /\ Append(Images(t), f[x]) \in Seq(Seq(X))
        /\ Len(Append(Images(t), f[x])) = Len(t) + 1
        /\ \A i \in 1 .. Len(t) : Append(Images(t), f[x])[i] = Images(t)[i]
        /\ Append(Images(t), f[x])[Len(t) + 1] = f[x]
    <3>1. f[x] \in Seq(X)
      OBVIOUS
    <3>. HIDE DEF Images
    <3>. QED
      BY <2>2, <3>1, AppendProperties
  <2>4. ASSUME NEW i \in 1 .. Len(t) + 1
        PROVE  Images(Append(t, x))[i] = Append(Images(t), f[x])[i]
    <3>1. Images(Append(t, x))[i] = f[Append(t, x)[i]]
      BY <2>1
    <3>2. CASE i \in 1 .. Len(t)
      <4>1. Images(t)[i] = f[t[i]]
        BY <2>1, <3>2
      <4>. HIDE DEF Images
      <4>. QED
        BY <2>1, <2>3, <3>1, <3>2, <4>1
    <3>3. CASE i = Len(t) + 1
      <4>. HIDE DEF Images
      <4>. QED
        BY <2>1, <2>3, <3>1, <3>3
    <3>. QED
      BY <2>1, <3>2, <3>3
  <2>. HIDE DEF Images
  <2>. QED
    BY <2>2, <2>3, <2>4, SeqEqual
<1>3. f[x] \in Seq(X) /\ Images(t) \in Seq(Seq(X))
  BY <1>1
<1>4. Images(t) = <<>> => t = <<>>
  BY <1>1, EmptySeq
<1>. HIDE DEF Images
<1>5. FlattenSeq(Append(Images(t), f[x])) =
        IF Images(t) = <<>> THEN f[x] ELSE FlattenSeq(Images(t)) \o f[x]
  BY <1>3, FlattenAppend
<1>6. CASE Images(t) = <<>>
  <2>1. Rewrite(t, f) = <<>>
    BY <1>4, <1>6, RewriteEmpty
  <2>2. <<>> \o f[x] = f[x]
    BY <1>3, ConcatEmptySeq
  <2>. QED
    BY <1>2, <1>5, <1>6, <2>1, <2>2 DEF Rewrite, Images
<1>7. CASE Images(t) # <<>>
  BY <1>2, <1>5, <1>7 DEF Rewrite, Images
<1>. QED
  BY <1>6, <1>7

\* A rewritten text is a text.
LEMMA RewriteType ==
    ASSUME NEW X, NEW f \in [X -> Seq(X)], NEW t \in Seq(X)
    PROVE  Rewrite(t, f) \in Seq(X)
<1>. DEFINE S == {u \in Seq(X) : Rewrite(u, f) \in Seq(X)}
<1>1. <<>> \in S
  BY EmptySeq, RewriteEmpty
<1>2. ASSUME NEW u \in Seq(X), NEW x \in X, u \in S PROVE Append(u, x) \in S
  <2>1. Append(u, x) \in Seq(X) /\ f[x] \in Seq(X) /\ Rewrite(u, f) \in Seq(X)
    BY <1>2, AppendProperties
  <2>2. Rewrite(Append(u, x), f) = Rewrite(u, f) \o f[x]
    BY RewriteAppend
  <2>3. Rewrite(u, f) \o f[x] \in Seq(X)
    BY <2>1, ConcatProperties
  <2>. QED
    BY <2>1, <2>2, <2>3
<1>. HIDE DEF S
<1>3. Seq(X) \subseteq S
  BY <1>1, <1>2, SeqInduction
<1>. QED
  BY <1>3 DEF S

\* A text in two parts is rewritten part by part.
LEMMA RewriteConcat ==
    ASSUME NEW X, NEW f \in [X -> Seq(X)], NEW t \in Seq(X), NEW u \in Seq(X)
    PROVE  Rewrite(t \o u, f) = Rewrite(t, f) \o Rewrite(u, f)
<1>. DEFINE S == {v \in Seq(X) : Rewrite(t \o v, f) = Rewrite(t, f) \o Rewrite(v, f)}
<1>1. <<>> \in S
  <2>1. Rewrite(t, f) \in Seq(X)
    BY RewriteType
  <2>2. t \o <<>> = t
    BY ConcatEmptySeq
  <2>3. Rewrite(t, f) \o <<>> = Rewrite(t, f)
    BY <2>1, ConcatEmptySeq
  <2>4. <<>> \in Seq(X) /\ Rewrite(<<>>, f) = <<>>
    BY EmptySeq, RewriteEmpty
  <2>. QED
    BY <2>2, <2>3, <2>4
<1>0. ASSUME NEW a \in Seq(X), NEW b \in Seq(X), NEW c \in Seq(X)
      PROVE  (a \o b) \o c = a \o (b \o c)
  BY SMTT(30)
<1>2. ASSUME NEW v \in Seq(X), NEW x \in X, v \in S PROVE Append(v, x) \in S
  <2>1. Append(v, x) \in Seq(X) /\ f[x] \in Seq(X) /\ <<x>> \in Seq(X)
    BY AppendProperties
  <2>2. t \o Append(v, x) = Append(t \o v, x)
    <3>1. t \o v \in Seq(X)
      BY ConcatProperties
    <3>2. Append(v, x) = v \o <<x>>
      BY AppendIsConcat
    <3>3. Append(t \o v, x) = (t \o v) \o <<x>>
      BY <3>1, AppendIsConcat
    <3>4. (t \o v) \o <<x>> = t \o (v \o <<x>>)
      BY <1>0, <2>1, ZenonT(40)
    <3>. QED
      BY <3>2, <3>3, <3>4
  <2>3. Rewrite(Append(t \o v, x), f) = Rewrite(t \o v, f) \o f[x]
    <3>1. t \o v \in Seq(X)
      BY ConcatProperties
    <3>. QED
      BY <3>1, RewriteAppend
  <2>4. Rewrite(Append(v, x), f) = Rewrite(v, f) \o f[x]
    BY RewriteAppend
  <2>5. Rewrite(t, f) \in Seq(X) /\ Rewrite(v, f) \in Seq(X)
    BY RewriteType
  <2>6. (Rewrite(t, f) \o Rewrite(v, f)) \o f[x] = Rewrite(t, f) \o (Rewrite(v, f) \o f[x])
    BY <2>1, <2>5, SMTT(30)
  <2>7. Rewrite(t \o Append(v, x), f) = Rewrite(t, f) \o Rewrite(Append(v, x), f)
    BY <1>2, <2>2, <2>3, <2>4, <2>6
  <2>. QED
    BY <2>1, <2>7
<1>. HIDE DEF S
<1>3. Seq(X) \subseteq S
  BY <1>1, <1>2, SeqInduction
<1>. QED
  BY <1>3 DEF S

\* A text of symbols that stay stays.
LEMMA RewriteSame ==
    ASSUME NEW X, NEW f \in [X -> Seq(X)], NEW t \in Seq(X),
           \A i \in 1 .. Len(t) : f[t[i]] = <<t[i]>>
    PROVE  Rewrite(t, f) = t
<1>. DEFINE Y == {x \in X : f[x] = <<x>>}
            S == {u \in Seq(Y) : Rewrite(u, f) = u}
<1>1. <<>> \in S
  BY EmptySeq, RewriteEmpty
<1>2. ASSUME NEW u \in Seq(Y), NEW x \in Y, u \in S PROVE Append(u, x) \in S
  <2>1. /\ x \in X /\ f[x] = <<x>> /\ Rewrite(u, f) = u
        /\ Append(u, x) \in Seq(Y)
    BY <1>2, AppendProperties
  <2>0. u \in Seq(X)
    BY SeqMonotonic
  <2>2. Rewrite(Append(u, x), f) = Rewrite(u, f) \o f[x]
    BY <2>0, <2>1, RewriteAppend
  <2>3. Append(u, x) = u \o <<x>>
    BY <2>0, <2>1, AppendIsConcat
  <2>. QED
    BY <2>1, <2>2, <2>3, Zenon
<1>. HIDE DEF S
<1>3. Seq(Y) \subseteq S
  BY <1>1, <1>2, SeqInduction
<1>4. t \in Seq(Y)
  <2>1. t \in [1 .. Len(t) -> Y] /\ Len(t) \in Nat
    BY LenProperties, ElementOfSeq
  <2>. QED
    BY <2>1
<1>. QED
  BY <1>3, <1>4 DEF S

\* What f makes of one symbol stands in the rewritten text as it is.
LEMMA RewriteAt ==
    ASSUME NEW X, NEW f \in [X -> Seq(X)], NEW t \in Seq(X), NEW i \in 1 .. Len(t)
    PROVE  \E u, v \in Seq(X) : Rewrite(t, f) = (u \o f[t[i]]) \o v
<1>. DEFINE before == SubSeq(t, 1, i - 1)
            after == SubSeq(t, i + 1, Len(t))
<1>0. Len(t) \in Nat /\ t[i] \in X /\ \A j \in 1 .. Len(t) : t[j] \in X
  BY LenProperties, ElementOfSeq
<1>1. before \in Seq(X) /\ after \in Seq(X) /\ <<t[i]>> \in Seq(X)
  BY <1>0, SubSeqProperties
<1>2. (before \o <<t[i]>>) \o after = t
  <2>1. SubSeq(t, i, i) = <<t[i]>>
    <3>1. SubSeq(t, i, i) = <<t[i]>> \o SubSeq(t, i + 1, i)
      BY <1>0, SubSeqRecursiveFirst
    <3>2. SubSeq(t, i + 1, i) = <<>>
      BY <1>0, SubSeqEmpty
    <3>. QED
      BY <1>1, <3>1, <3>2, ConcatEmptySeq
  <2>2. before \o SubSeq(t, i, i) = SubSeq(t, 1, i)
    <3>1. /\ 1 \in 1 .. Len(t) + 1 /\ i - 1 \in 1 - 1 .. Len(t)
          /\ i \in i - 1 .. Len(t) /\ i - 1 + 1 = i
      BY <1>0
    <3>2. SubSeq(t, 1, i - 1) \o SubSeq(t, i - 1 + 1, i) = SubSeq(t, 1, i)
      BY <3>1, ConcatAdjacentSubSeq
    <3>. QED
      BY <3>1, <3>2
  <2>3. SubSeq(t, 1, i) \o after = SubSeq(t, 1, Len(t))
    <3>1. /\ 1 \in 1 .. Len(t) + 1 /\ i \in 1 - 1 .. Len(t)
          /\ Len(t) \in i .. Len(t)
      BY <1>0
    <3>. QED
      BY <3>1, ConcatAdjacentSubSeq
  <2>. QED
    BY <2>1, <2>2, <2>3, SubSeqFull
<1>. HIDE DEF before, after
<1>3. before \o <<t[i]>> \in Seq(X)
  BY <1>1, ConcatProperties
<1>4. Rewrite(t, f) = (Rewrite(before, f) \o Rewrite(<<t[i]>>, f)) \o Rewrite(after, f)
  <2>1. Rewrite((before \o <<t[i]>>) \o after, f)
          = Rewrite(before \o <<t[i]>>, f) \o Rewrite(after, f)
    BY <1>1, <1>3, RewriteConcat, Zenon
  <2>2. Rewrite(before \o <<t[i]>>, f) = Rewrite(before, f) \o Rewrite(<<t[i]>>, f)
    BY <1>1, RewriteConcat, Zenon
  <2>. QED
    BY <1>2, <2>1, <2>2, Zenon
<1>5. Rewrite(<<t[i]>>, f) = f[t[i]]
  <2>1. <<>> \in Seq(X) /\ Append(<<>>, t[i]) = <<t[i]>> /\ f[t[i]] \in Seq(X)
    BY <1>0
  <2>2. Rewrite(Append(<<>>, t[i]), f) = Rewrite(<<>>, f) \o f[t[i]]
    BY <1>0, <2>1, RewriteAppend
  <2>. QED
    BY <2>1, <2>2, RewriteEmpty, ConcatEmptySeq, ZenonT(40)
<1>6. Rewrite(before, f) \in Seq(X) /\ Rewrite(after, f) \in Seq(X)
  BY <1>1, RewriteType
<1>. QED
  BY <1>4, <1>5, <1>6

\* p is b with something before it and behind it.
Between(p, b, X) == \E u, v \in Seq(X) : p = (u \o b) \o v

\* The image of each symbol stands in what becomes of the text.
LEMMA RewriteBetween ==
    ASSUME NEW X, NEW f \in [X -> Seq(X)], NEW t \in Seq(X), NEW i \in 1 .. Len(t)
    PROVE  Between(Rewrite(t, f), f[t[i]], X)
BY RewriteAt, ZenonT(40) DEF Between

-----------------------------------------------------------------------------
(* restore.                                                                *)

\* What a mapping is: tokens and the values they stand for.
IsMapping(m) == /\ DOMAIN m \subseteq Tokens
                /\ \A k \in DOMAIN m : m[k] \in Seq(Symbols)

\* What a mapping makes of a symbol.
Shown(m) == [x \in Symbols |-> IF x \in DOMAIN m THEN m[x] ELSE <<x>>]

\* It makes a text of every symbol.
LEMMA ShownType ==
    ASSUME NEW m, IsMapping(m)
    PROVE  Shown(m) \in [Symbols -> Seq(Symbols)]
<1>1. ASSUME NEW x \in Symbols
      PROVE  (IF x \in DOMAIN m THEN m[x] ELSE <<x>>) \in Seq(Symbols)
  BY DEF IsMapping
<1>. QED
  BY <1>1 DEF Shown

\* Restoring is rewriting with it.
LEMMA RestoredShown == \A t, m : Restored(t, m) = Rewrite(t, Shown(m))
BY DEF Restored, Shown

\* A restored text is a text.
LEMMA RestoredType ==
    ASSUME NEW m, IsMapping(m), NEW t \in Seq(Symbols)
    PROVE  Restored(t, m) \in Seq(Symbols)
BY ShownType, RestoredShown, RewriteType

\* A text in two parts is restored part by part.
LEMMA RestoredConcat ==
    ASSUME NEW m, IsMapping(m), NEW t \in Seq(Symbols), NEW u \in Seq(Symbols)
    PROVE  Restored(t \o u, m) = Restored(t, m) \o Restored(u, m)
BY ShownType, RestoredShown, RewriteConcat, ZenonT(40)

\* A text in which no token is known stays.
LEMMA RestoredPlain ==
    ASSUME NEW m, IsMapping(m), NEW t \in Seq(Symbols),
           \A i \in 1 .. Len(t) : t[i] \notin DOMAIN m
    PROVE  Restored(t, m) = t
<1>1. ASSUME NEW i \in 1 .. Len(t) PROVE Shown(m)[t[i]] = <<t[i]>>
  <2>1. t[i] \in Symbols /\ t[i] \notin DOMAIN m
    BY ElementOfSeq
  <2>. QED
    BY <2>1 DEF Shown
<1>. QED
  BY <1>1, ShownType, RestoredShown, RewriteSame

\* A token that is known becomes its value, wherever it stands; a symbol that
\* is not known stays.
LEMMA RestoredAt ==
    ASSUME NEW m, IsMapping(m), NEW t \in Seq(Symbols), NEW i \in 1 .. Len(t)
    PROVE  \E u, v \in Seq(Symbols) :
               Restored(t, m) =
                   (u \o (IF t[i] \in DOMAIN m THEN m[t[i]] ELSE <<t[i]>>)) \o v
<1>1. PICK u \in Seq(Symbols), v \in Seq(Symbols) :
        Rewrite(t, Shown(m)) = (u \o Shown(m)[t[i]]) \o v
  <2>1. Between(Rewrite(t, Shown(m)), Shown(m)[t[i]], Symbols)
    BY ShownType, RewriteBetween
  <2>. QED
    BY <2>1, Zenon DEF Between
<1>2. Shown(m)[t[i]] = IF t[i] \in DOMAIN m THEN m[t[i]] ELSE <<t[i]>>
  <2>1. t[i] \in Symbols
    BY ElementOfSeq
  <2>. QED
    BY <2>1 DEF Shown
<1>. QED
  BY <1>1, <1>2, RestoredShown

\* A single known token is its value.
LEMMA RestoredToken ==
    ASSUME NEW m, IsMapping(m), NEW k \in DOMAIN m
    PROVE  Restored(<<k>>, m) = m[k]
<1>1. k \in Symbols /\ m[k] \in Seq(Symbols)
  BY DEF IsMapping, Symbols
<1>2. Rewrite(Append(<<>>, k), Shown(m)) = Rewrite(<<>>, Shown(m)) \o Shown(m)[k]
  <2>1. Shown(m) \in [Symbols -> Seq(Symbols)] /\ <<>> \in Seq(Symbols)
    BY ShownType
  <2>. QED
    BY <1>1, <2>1, RewriteAppend, Zenon
<1>3. Shown(m)[k] = m[k]
  BY <1>1 DEF Shown
<1>4. Append(<<>>, k) = <<k>>
  OBVIOUS
<1>. QED
  BY <1>1, <1>2, <1>3, <1>4, RewriteEmpty, RestoredShown, ConcatEmptySeq

\* A new token that the text does not hold changes nothing.
LEMMA RestoredAgrees ==
    ASSUME NEW m, NEW t \in Seq(Symbols), NEW k, \A i \in 1 .. Len(t) : t[i] # k,
           NEW more, DOMAIN more = DOMAIN m \cup {k},
           \A j \in DOMAIN m : j # k => more[j] = m[j]
    PROVE  Restored(t, more) = Restored(t, m)
<1>1. ASSUME NEW i \in 1 .. Len(t) PROVE Shown(more)[t[i]] = Shown(m)[t[i]]
  <2>1. t[i] \in Symbols /\ t[i] # k
    BY ElementOfSeq
  <2>2. t[i] \in DOMAIN more <=> t[i] \in DOMAIN m
    BY <2>1
  <2>3. t[i] \in DOMAIN m => more[t[i]] = m[t[i]]
    BY <2>1
  <2>. QED
    BY <2>1, <2>2, <2>3 DEF Shown
<1>2. DOMAIN t = 1 .. Len(t)
  BY LenProperties
<1>3. [i \in DOMAIN t |-> Shown(more)[t[i]]] = [i \in DOMAIN t |-> Shown(m)[t[i]]]
  BY <1>1, <1>2
<1>. QED
  BY <1>3, RestoredShown DEF Rewrite

-----------------------------------------------------------------------------
(* Other texts.                                                            *)

\* The answers of an LLM are texts.
LEMMA RepliesType ==
    ASSUME NEW t \in Seq(Symbols)
    PROVE  Replies(t) \subseteq Seq(Symbols)
<1>. DEFINE f == [x \in Symbols |-> IF IsToken(x) THEN <<x>> ELSE <<>>]
            g == [x \in Symbols |-> IF IsToken(x) THEN <<>> ELSE <<x>>]
<1>1. Words \in Symbols /\ <<Words>> \in Seq(Symbols)
  BY DEF Symbols
<1>2. f \in [Symbols -> Seq(Symbols)] /\ g \in [Symbols -> Seq(Symbols)]
  OBVIOUS
<1>. HIDE DEF f, g
<1>3. Rewrite(t, f) \in Seq(Symbols) /\ Rewrite(t, g) \in Seq(Symbols)
  BY <1>2, RewriteType
<1>4. OnlyTokens(t) \in Seq(Symbols) /\ NoTokens(t) \in Seq(Symbols)
  BY <1>3 DEF OnlyTokens, NoTokens, f, g
<1>5. Reverse(OnlyTokens(t)) \in Seq(Symbols)
  <2>1. ASSUME NEW s \in Seq(Symbols) PROVE Reverse(s) \in Seq(Symbols)
    <3>1. Len(s) \in Nat /\ \A i \in 1 .. Len(s) : s[i] \in Symbols
      BY LenProperties, ElementOfSeq
    <3>2. \A i \in 1 .. Len(s) : (Len(s) - i) + 1 \in 1 .. Len(s)
      BY <3>1
    <3>3. Reverse(s) \in [1 .. Len(s) -> Symbols]
      BY <3>1, <3>2 DEF Reverse
    <3>. QED
      BY <3>1, <3>3
  <2>. QED
    BY <1>4, <2>1
<1>6. /\ <<Words>> \o NoTokens(t) \in Seq(Symbols)
      /\ (<<Words>> \o NoTokens(t)) \o Reverse(OnlyTokens(t)) \in Seq(Symbols)
      /\ (<<Words>> \o NoTokens(t)) \o <<Words>> \in Seq(Symbols)
  BY <1>1, <1>4, <1>5, ConcatProperties
<1>7. BoundedSeq({Words} \cup Tokens, MaxReply) \subseteq Seq(Symbols)
  <2>1. ASSUME NEW n \in 0 .. MaxReply, NEW s \in [1 .. n -> {Words} \cup Tokens]
        PROVE  s \in Seq(Symbols)
    <3>1. n \in Nat /\ s \in [1 .. n -> Symbols]
      BY BoundsAssumption DEF Symbols
    <3>. QED
      BY <3>1
  <2>. QED
    BY <2>1 DEF BoundedSeq, SeqOf
<1>. QED
  BY <1>1, <1>6, <1>7 DEF Replies, Reorder, Corrupt

\* t is s with x between its first n elements and the others.
Inserted(t, s, n, x) ==
    /\ Len(t) = Len(s) + 1
    /\ \A i \in 1 .. n : t[i] = s[i]
    /\ t[n + 1] = x
    /\ \A i \in n + 2 .. Len(s) + 1 : t[i] = s[i - 1]

\* Inserting into a sequence.
LEMMA InsertAtProperties ==
    ASSUME NEW X, NEW s \in Seq(X), NEW n \in 0 .. Len(s), NEW x \in X
    PROVE  /\ InsertAt(s, n + 1, x) \in Seq(X)
           /\ Inserted(InsertAt(s, n + 1, x), s, n, x)
<1>. DEFINE a == SubSeq(s, 1, n)
            b == SubSeq(s, n + 1, Len(s))
<1>1. Len(s) \in Nat /\ n \in Nat /\ \A i \in 1 .. Len(s) : s[i] \in X
  BY LenProperties, ElementOfSeq
<1>2. a \in Seq(X) /\ Len(a) = n /\ \A i \in 1 .. n : a[i] = s[i]
  BY <1>1, SubSeqProperties
<1>3. /\ b \in Seq(X) /\ Len(b) = Len(s) - n
      /\ \A i \in 1 .. Len(s) - n : b[i] = s[n + i]
  BY <1>1, SubSeqProperties
<1>. HIDE DEF a, b
<1>5. <<x>> \in Seq(X) /\ Len(<<x>>) = 1 /\ <<x>>[1] = x
  OBVIOUS
<1>6. /\ a \o <<x>> \in Seq(X) /\ Len(a \o <<x>>) = n + 1
      /\ \A i \in 1 .. n + 1 : (a \o <<x>>)[i] = IF i <= n THEN s[i] ELSE x
  BY <1>1, <1>2, <1>5, ConcatProperties
<1>. DEFINE c == a \o <<x>>
<1>7. /\ c \in Seq(X) /\ Len(c) = n + 1
      /\ \A i \in 1 .. n + 1 : c[i] = IF i <= n THEN s[i] ELSE x
  BY <1>6
<1>. HIDE DEF c
<1>8. PICK w : w = c \o b
  OBVIOUS
<1>9. /\ w \in Seq(X) /\ Len(w) = Len(c) + Len(b)
      /\ \A i \in 1 .. Len(c) + Len(b) :
            w[i] = IF i <= Len(c) THEN c[i] ELSE b[i - Len(c)]
  BY <1>3, <1>7, <1>8, ConcatProperties
<1>10. Len(w) = Len(s) + 1
  BY <1>1, <1>3, <1>7, <1>9
<1>11. ASSUME NEW i \in 1 .. Len(s) + 1
       PROVE  w[i] = IF i <= n THEN s[i] ELSE IF i = n + 1 THEN x ELSE s[i - 1]
  <2>1. i > n + 1 => /\ i - (n + 1) \in 1 .. Len(s) - n
                     /\ n + (i - (n + 1)) = i - 1
    BY <1>1
  <2>2. i > n + 1 => b[i - (n + 1)] = s[i - 1]
    BY <1>3, <2>1
  <2>3. i <= n + 1 => c[i] = IF i <= n THEN s[i] ELSE x
    BY <1>1, <1>7
  <2>4. w[i] = IF i <= n + 1 THEN c[i] ELSE b[i - (n + 1)]
    BY <1>1, <1>3, <1>7, <1>9
  <2>. QED
    BY <1>1, <2>2, <2>3, <2>4
<1>12. InsertAt(s, n + 1, x) = w
  <2>1. SubSeq(s, 1, (n + 1) - 1) = SubSeq(s, 1, n)
    BY <1>1
  <2>. QED
    BY <1>8, <2>1, Zenon DEF InsertAt, a, b, c
<1>13. \A i \in 1 .. n : w[i] = s[i]
  BY <1>1, <1>11
<1>14. w[n + 1] = x
  BY <1>1, <1>11
<1>15. \A i \in n + 2 .. Len(s) + 1 : w[i] = s[i - 1]
  BY <1>1, <1>11
<1>. QED
  BY <1>9, <1>10, <1>12, <1>13, <1>14, <1>15 DEF Inserted

\* p is made of a, b and c, one after the other.
Joined(p, a, b, c) ==
    /\ Len(p) = (Len(a) + Len(b)) + Len(c)
    /\ \A i \in 1 .. Len(a) : p[i] = a[i]
    /\ \A i \in 1 .. Len(b) : p[Len(a) + i] = b[i]
    /\ \A i \in 1 .. Len(c) : p[(Len(a) + Len(b)) + i] = c[i]

\* Concatenating three sequences.
LEMMA ConcatThree ==
    ASSUME NEW X, NEW a \in Seq(X), NEW b \in Seq(X), NEW c \in Seq(X)
    PROVE  (a \o b) \o c \in Seq(X) /\ Joined((a \o b) \o c, a, b, c)
<1>1. Len(a) \in Nat /\ Len(b) \in Nat /\ Len(c) \in Nat
  BY LenProperties
<1>2. PICK d : d = a \o b
  OBVIOUS
<1>3. /\ d \in Seq(X) /\ Len(d) = Len(a) + Len(b)
      /\ \A i \in 1 .. Len(a) + Len(b) :
            d[i] = IF i <= Len(a) THEN a[i] ELSE b[i - Len(a)]
  BY <1>2, ConcatProperties
<1>31. d \in Seq(X)
  BY <1>3
<1>4. PICK p : p = d \o c
  OBVIOUS
<1>5. /\ p \in Seq(X) /\ Len(p) = Len(d) + Len(c)
      /\ \A i \in 1 .. Len(d) + Len(c) :
            p[i] = IF i <= Len(d) THEN d[i] ELSE c[i - Len(d)]
  BY <1>31, <1>4, ConcatProperties
<1>6. ASSUME NEW i \in 1 .. Len(a) PROVE p[i] = a[i]
  BY <1>1, <1>3, <1>5
<1>7. ASSUME NEW i \in 1 .. Len(b) PROVE p[Len(a) + i] = b[i]
  <2>1. /\ Len(a) + i \in 1 .. Len(d) /\ ~(Len(a) + i <= Len(a))
        /\ (Len(a) + i) - Len(a) = i
    BY <1>1, <1>3
  <2>2. d[Len(a) + i] = b[i]
    BY <1>3, <2>1
  <2>3. Len(a) + i \in 1 .. Len(d) + Len(c) /\ Len(a) + i <= Len(d)
    BY <1>1, <1>3, <2>1
  <2>. QED
    BY <1>5, <2>2, <2>3
<1>8. ASSUME NEW i \in 1 .. Len(c) PROVE p[(Len(a) + Len(b)) + i] = c[i]
  <2>1. /\ (Len(a) + Len(b)) + i \in 1 .. Len(d) + Len(c)
        /\ ~((Len(a) + Len(b)) + i <= Len(d))
        /\ ((Len(a) + Len(b)) + i) - Len(d) = i
    BY <1>1, <1>3
  <2>. QED
    BY <1>5, <2>1
<1>9. Joined(p, a, b, c)
  BY <1>3, <1>5, <1>6, <1>7, <1>8 DEF Joined
<1>. QED
  BY <1>2, <1>4, <1>5, <1>9, Zenon

\* What stands in the middle of a sequence is found there.
LEMMA MiddleOf ==
    ASSUME NEW X, NEW a \in Seq(X), NEW b \in Seq(X), NEW c \in Seq(X),
           NEW p \in Seq(X), Joined(p, a, b, c)
    PROVE  /\ Len(a) \in 0 .. Len(p) - Len(b)
           /\ SubSeq(p, Len(a) + 1, Len(a) + Len(b)) = b
<1>1. Len(a) \in Nat /\ Len(b) \in Nat /\ Len(c) \in Nat /\ Len(p) \in Nat
  BY LenProperties
<1>2. Len(p) = (Len(a) + Len(b)) + Len(c) /\ \A i \in 1 .. Len(b) : p[Len(a) + i] = b[i]
  BY DEF Joined
<1>3. Len(a) \in 0 .. Len(p) - Len(b)
  BY <1>1, <1>2
<1>4. PICK m, n : m = Len(a) + 1 /\ n = Len(a) + Len(b)
  OBVIOUS
<1>5. m \in Int /\ n \in Int /\ \A i \in m .. n : p[i] \in X
  <2>1. \A i \in 1 .. Len(p) : p[i] \in X
    BY ElementOfSeq
  <2>2. m \in Int /\ n \in Int /\ \A i \in m .. n : i \in 1 .. Len(p)
    BY <1>1, <1>2, <1>4
  <2>. QED
    BY <2>1, <2>2
<1>6. PICK w : w = SubSeq(p, m, n)
  OBVIOUS
<1>7. w \in Seq(X)
  BY <1>5, <1>6, SubSeqProperties
<1>8. Len(w) = Len(b)
  <2>1. Len(w) = IF m <= n THEN n - m + 1 ELSE 0
    BY <1>5, <1>6, SubSeqProperties
  <2>. QED
    BY <1>1, <1>4, <2>1
<1>9. ASSUME NEW i \in 1 .. Len(b) PROVE w[i] = b[i]
  <2>1. i \in 1 .. n - m + 1 /\ m + i - 1 = Len(a) + i
    BY <1>1, <1>4
  <2>2. w[i] = p[m + i - 1]
    BY <1>5, <1>6, <2>1, SubSeqProperties
  <2>. QED
    BY <1>2, <2>1, <2>2
<1>10. w = b
  BY <1>7, <1>8, <1>9, SeqEqual
<1>. QED
  BY <1>3, <1>4, <1>6, <1>10, Zenon

\* b stands in p.
Holds(p, b) ==
    \E j \in 0 .. Len(p) - Len(b) :
        /\ SubSeq(p, j + 1, j + Len(b)) = b
        /\ \A n \in 1 .. Len(b) : j + n \in 1 .. Len(p) /\ p[j + n] = b[n]

\* What is put between two sequences stands in the result.
LEMMA ConcatHolds ==
    ASSUME NEW X, NEW a \in Seq(X), NEW b \in Seq(X), NEW c \in Seq(X)
    PROVE  Holds((a \o b) \o c, b)
<1>1. PICK p : p = (a \o b) \o c
  OBVIOUS
<1>2. p \in Seq(X) /\ Joined(p, a, b, c)
  BY <1>1, ConcatThree
<1>3. Len(a) \in 0 .. Len(p) - Len(b) /\ SubSeq(p, Len(a) + 1, Len(a) + Len(b)) = b
  BY <1>2, MiddleOf
<1>4. Len(a) \in Nat /\ Len(b) \in Nat /\ Len(p) \in Nat
  BY <1>2, LenProperties
<1>5. ASSUME NEW n \in 1 .. Len(b)
      PROVE  Len(a) + n \in 1 .. Len(p) /\ p[Len(a) + n] = b[n]
  <2>1. Len(p) = Len(a) + Len(b) + Len(c) /\ p[Len(a) + n] = b[n]
    BY <1>2 DEF Joined
  <2>2. Len(c) \in Nat
    BY LenProperties
  <2>3. Len(a) + n \in 1 .. Len(p)
    BY ONLY <1>4, <2>1, <2>2, n \in 1 .. Len(b)
  <2>. QED
    BY <2>1, <2>3
<1>. QED
  BY <1>1, <1>3, <1>5, Zenon DEF Holds

\* Wherever a token that is known stands in a text, its value stands in the
\* restored text; and wherever one that is not known stands, the token does.
LEMMA RestoredHolds ==
    ASSUME NEW m, IsMapping(m), NEW t \in Seq(Symbols), NEW i \in 1 .. Len(t)
    PROVE  /\ t[i] \in DOMAIN m => Holds(Restored(t, m), m[t[i]])
           /\ t[i] \notin DOMAIN m => Holds(Restored(t, m), <<t[i]>>)
<1>1. PICK b : b = IF t[i] \in DOMAIN m THEN m[t[i]] ELSE <<t[i]>>
  OBVIOUS
<1>2. PICK u, v \in Seq(Symbols) : Restored(t, m) = (u \o b) \o v
  BY <1>1, RestoredAt, ZenonT(40)
<1>3. b \in Seq(Symbols)
  <2>1. t[i] \in Symbols
    BY ElementOfSeq
  <2>2. CASE t[i] \in DOMAIN m
    BY <1>1, <2>2 DEF IsMapping
  <2>3. CASE t[i] \notin DOMAIN m
    BY <1>1, <2>1, <2>3
  <2>. QED
    BY <2>2, <2>3
<1>4. Holds((u \o b) \o v, b)
  <2>. HIDE <1>1
  <2>. QED
    BY <1>3, ConcatHolds
<1>5. Holds(Restored(t, m), b)
  BY <1>2, <1>4, Zenon
<1>. QED
  BY <1>1, <1>5, Zenon

-----------------------------------------------------------------------------
(* The inductive invariant.                                                *)

\* The spans: of the text at hand; accepted ones have left todo; those in todo
\* do not go before any that has left it.
SpansInv ==
    /\ selected \subseteq SpansOf(source) /\ todo \subseteq selected
    /\ \A i \in 1 .. Len(accepted) : accepted[i] \in selected \ todo
    /\ \A s \in selected \ todo, t \in todo : ~Before(t, s)
    /\ step = "detect" => selected = {}
    /\ step \notin {"detect", "resolve"} => todo = {}

\* mask_resolved has rewritten the text up to the end of a span.
CursorInv ==
    step = "replace" => cursor = IF next = 1 THEN 0 ELSE accepted[next - 1].end

\* The run has a masked text, in part or in whole.
Masking == step \in {"replace", "llm", "restore", "done"}

\* With tokens: what has been masked so far is restored to what it was; its
\* tokens are those of the text and those drawn for it, which are not in the
\* text and are all used.
TokensInv ==
    Masking /\ ~Redacting =>
        /\ Restored(parts, drawn) = SubSeq(source, 1, cursor)
        /\ \A k \in DOMAIN drawn : k \notin TokensOf(source)
        /\ \A i \in 1 .. Len(parts) :
              IsToken(parts[i]) => parts[i] \in TokensOf(source) \cup DOMAIN drawn
        /\ \A k \in DOMAIN drawn : \E i \in 1 .. Len(parts) : parts[i] = k

\* With stars: what has been masked so far is as long as it was, and differs
\* only in the spans that have been replaced.
StarsInv ==
    Masking /\ Redacting =>
        /\ Len(parts) = cursor
        /\ \A i \in 1 .. cursor :
              parts[i] = IF \E j \in 1 .. next - 1 :
                                accepted[j].start < i /\ i <= accepted[j].end
                         THEN Star ELSE source[i]

\* In the end all of the text has been masked.
EndInv ==
    Masking /\ step # "replace" => cursor = Len(source) /\ next = Len(accepted) + 1

\* Which pass it is, and what the run gives back.
PassInv ==
    /\ round = 2 => call = "proxy"
    /\ step = "llm" => call = "proxy" /\ round = 1
    /\ step = "restore" => round = 2
    /\ step = "done" =>
          \/ call = "process" /\ round = 1 /\ answer = parts
          \/ call = "proxy" /\ round = 2 /\ answer = Restored(parts, mapping)

\* The second pass: its spans hold no token of the LLM's answer, so that these
\* are all in what it has masked; and it draws no token of the first pass.
AnswerInv ==
    round = 2 =>
        /\ ~warned => TokensOf(source) = DOMAIN mapping
        /\ \A s \in selected : ~TouchesToken(s)
        /\ Masking =>
              /\ \A k \in DOMAIN drawn : k \notin DOMAIN mapping
              /\ \A i \in 1 .. cursor : IsToken(source[i]) =>
                    \E j \in 1 .. Len(parts) : parts[j] = source[i]

IInv == /\ TypeOK /\ SpansInv /\ Disjoint /\ DroppedForReason /\ CursorInv
        /\ TokensInv /\ StarsInv /\ EndInv /\ PassInv /\ AnswerInv

-----------------------------------------------------------------------------
(* Spans.                                                                  *)

\* The spans of a text.
LEMMA SpanProperties ==
    ASSUME NEW t \in Seq(Symbols), NEW s \in SpansOf(t)
    PROVE  /\ s \in Span /\ s.by \in Detectors /\ Priority[s.by] \in Nat
           /\ s.start \in Nat /\ s.end \in Nat /\ s.start < s.end /\ s.end <= Len(t)
<1>1. Len(t) \in Nat
  BY LenProperties
<1>2. s \in [start : 0 .. Len(t), end : 0 .. Len(t), by : Detectors] /\ s.start < s.end
  BY DEF SpansOf
<1>. QED
  BY <1>1, <1>2, DetectorsAssumption DEF Span

\* What the detectors find are spans of the text.
LEMMA DetectionsAreSpans ==
    ASSUME NEW n, NEW t, NEW S \in Detections(n, t)
    PROVE  S \subseteq SpansOf(t)
<1>1. CASE S = {}
  BY <1>1
<1>2. ASSUME NEW d \in [1 .. n -> SpansOf(t)], S = Range(d)
      PROVE  S \subseteq SpansOf(t)
  BY <1>2 DEF Range
<1>3. S = {} \/ \E d \in [1 .. n -> SpansOf(t)] : S = Range(d)
  BY DEF Detections
<1>. QED
  BY <1>1, <1>2, <1>3

\* One of two spans that neither comes before the other outranks it.
LEMMA NotBefore ==
    ASSUME NEW t \in Seq(Symbols), NEW s \in SpansOf(t), NEW r \in SpansOf(t),
           ~Before(s, r)
    PROVE  Outranks(r, s)
<1>1. /\ Priority[s.by] \in Nat /\ s.start \in Nat /\ s.end \in Nat
      /\ Priority[r.by] \in Nat /\ r.start \in Nat /\ r.end \in Nat
  BY SpanProperties
<1>. QED
  BY <1>1 DEF Before, Outranks

\* The accepted spans are spans of the text.
LEMMA AcceptedSpans ==
    ASSUME TypeOK, SpansInv, NEW i \in 1 .. Len(accepted)
    PROVE  /\ accepted[i] \in SpansOf(source)
           /\ accepted[i].start \in Nat /\ accepted[i].end \in Nat
           /\ accepted[i].start < accepted[i].end
           /\ accepted[i].end <= Len(source)
<1>1. source \in Seq(Symbols) /\ accepted[i] \in SpansOf(source)
  BY DEF TypeOK, SpansInv
<1>. QED
  BY <1>1, SpanProperties

\* They are disjoint: those that overlap are the same.
LEMMA AcceptedDisjoint ==
    ASSUME TypeOK, SpansInv, Disjoint,
           NEW i \in 1 .. Len(accepted), NEW j \in 1 .. Len(accepted),
           Overlap(accepted[i], accepted[j])
    PROVE  i = j
<1>1. Len(accepted) \in Nat /\ DOMAIN accepted = 1 .. Len(accepted)
  BY LenProperties DEF TypeOK
<1>2. /\ accepted[i].start \in Nat /\ accepted[i].end \in Nat
      /\ accepted[j].start \in Nat /\ accepted[j].end \in Nat
  BY AcceptedSpans
<1>3. /\ i < j => accepted[i].end <= accepted[j].start
      /\ j < i => accepted[j].end <= accepted[i].start
  BY <1>1 DEF Disjoint
<1>. QED
  BY <1>1, <1>2, <1>3 DEF Overlap

-----------------------------------------------------------------------------
(* The actions, one by one.                                                *)

\* The initial state satisfies the invariant.
LEMMA IInvInit == Init => IInv
<1>. SUFFICES ASSUME Init PROVE IInv
  OBVIOUS
<1>1. /\ step = "detect" /\ round = 1 /\ accepted = <<>> /\ selected = {} /\ todo = {}
      /\ next = 1 /\ cursor = 0
  BY DEF Init
<1>2. source \in Seq(Symbols) /\ Len(source) \in Nat
  <2>1. source \in Seq(Chars \cup Tokens)
    BY TextsAssumption DEF Init
  <2>2. Chars \cup Tokens \subseteq Symbols
    BY DEF Symbols
  <2>3. source \in Seq(Symbols)
    BY <2>1, <2>2, SeqMonotonic
  <2>. QED
    BY <2>3, LenProperties
<1>3. TypeOK
  <2>1. DOMAIN drawn = {} /\ DOMAIN mapping = {}
    BY DEF Init, NoMapping
  <2>2. /\ Len(accepted) = 0 /\ accepted \in Seq(Span) /\ parts \in Seq(Symbols)
        /\ masked \in Seq(Symbols) /\ answer \in Seq(Symbols)
    BY DEF Init
  <2>3. next \in 1 .. Len(accepted) + 1 /\ cursor \in 0 .. Len(source)
    BY <1>1, <1>2, <2>2
  <2>4. call \in Calls /\ policy \in Policies /\ warned \in BOOLEAN
    BY DEF Init
  <2>. QED
    BY <1>1, <1>2, <2>1, <2>2, <2>3, <2>4 DEF TypeOK, Steps
<1>4. SpansInv /\ Disjoint /\ DroppedForReason
  <2>1. Len(accepted) = 0 /\ DOMAIN accepted = {}
    BY <1>1
  <2>. QED
    BY <1>1, <2>1 DEF SpansInv, Disjoint, DroppedForReason
<1>5. CursorInv /\ TokensInv /\ StarsInv /\ EndInv /\ PassInv /\ AnswerInv
  BY <1>1 DEF CursorInv, TokensInv, StarsInv, EndInv, PassInv, AnswerInv, Masking
<1>. QED
  BY <1>3, <1>4, <1>5 DEF IInv

\* Detection and selection.
LEMMA DetectNext == IInv /\ Detect => IInv'
<1>. SUFFICES ASSUME IInv, Detect PROVE IInv'
  OBVIOUS
<1>. USE DEF IInv
<1>1. /\ step = "detect" /\ step' = "resolve" /\ todo' = selected'
      /\ UNCHANGED <<call, policy, round, source, accepted, next, cursor, parts,
                     drawn, mapping, masked, warned, answer>>
  BY DEF Detect
<1>2. selected' \subseteq SpansOf(source)
  BY DetectionsAreSpans DEF Detect
<1>3. round = 2 => \A s \in selected' : ~TouchesToken(s)
  <2>1. PICK S : selected' =
            IF round = 1 THEN {s \in S : Selected(s, {TypeOf[t.by] : t \in S})}
            ELSE {s \in S : ~TouchesToken(s)}
    BY DEF Detect
  <2>. QED
    BY <2>1
<1>4. Len(accepted) = 0 /\ DOMAIN accepted = {}
  <2>1. Len(accepted) \in Nat /\ DOMAIN accepted = 1 .. Len(accepted)
    BY LenProperties DEF TypeOK
  <2>2. \A i \in 1 .. Len(accepted) : FALSE
    BY <1>1 DEF SpansInv
  <2>. QED
    BY <2>1, <2>2
<1>5. TypeOK'
  <2>1. selected' \subseteq Span
    BY <1>2, SpanProperties DEF TypeOK
  <2>. QED
    BY <1>1, <2>1 DEF TypeOK, Steps
<1>6. SpansInv' /\ Disjoint' /\ DroppedForReason'
  BY <1>1, <1>2, <1>4 DEF SpansInv, Disjoint, DroppedForReason
<1>7. CursorInv' /\ TokensInv' /\ StarsInv' /\ EndInv'
  BY <1>1 DEF CursorInv, TokensInv, StarsInv, EndInv, Masking
<1>8. PassInv'
  BY <1>1 DEF PassInv
<1>9. AnswerInv'
  BY <1>1, <1>3 DEF AnswerInv, Masking, TouchesToken, TokensOf
<1>. QED
  BY <1>5, <1>6, <1>7, <1>8, <1>9

\* A span is blocked by one that it overlaps,
LEMMA BlockedOverlaps ==
    ASSUME TypeOK, SpansInv, NEW s \in SpansOf(source),
           NEW n \in 0 .. Len(accepted), IsIndex(n, s), Blocked(n, s)
    PROVE  \E i \in 1 .. Len(accepted) : Overlap(s, accepted[i])
<1>1. Len(accepted) \in Nat /\ source \in Seq(Symbols)
  BY LenProperties DEF TypeOK
<1>2. s.start \in Nat /\ s.end \in Nat /\ s.start < s.end
  BY <1>1, SpanProperties
<1>3. CASE n > 0 /\ accepted[n].end > s.start
  <2>1. n \in 1 .. Len(accepted) /\ n \in 1 .. n
    BY <1>1, <1>3
  <2>2. accepted[n].start \in Nat /\ accepted[n].end \in Nat
    BY <2>1, AcceptedSpans
  <2>3. accepted[n].start < s.start
    BY <2>1 DEF IsIndex
  <2>. QED
    BY <1>2, <1>3, <2>1, <2>2, <2>3 DEF Overlap
<1>4. CASE n < Len(accepted) /\ accepted[n + 1].start < s.end
  <2>1. n + 1 \in 1 .. Len(accepted) /\ n + 1 \in n + 1 .. Len(accepted)
    BY <1>1, <1>4
  <2>2. /\ accepted[n + 1].start \in Nat /\ accepted[n + 1].end \in Nat
        /\ accepted[n + 1].start < accepted[n + 1].end
    BY <2>1, AcceptedSpans
  <2>3. accepted[n + 1].start >= s.start
    BY <2>1 DEF IsIndex
  <2>. QED
    BY <1>2, <1>4, <2>1, <2>2, <2>3 DEF Overlap
<1>. QED
  BY <1>3, <1>4 DEF Blocked

\* and one that is not blocked by its neighbours is clear of all of them.
LEMMA UnblockedIsClear ==
    ASSUME TypeOK, SpansInv, Disjoint, NEW s \in SpansOf(source),
           NEW n \in 0 .. Len(accepted), IsIndex(n, s), ~Blocked(n, s)
    PROVE  /\ \A i \in 1 .. n : accepted[i].end <= s.start
           /\ \A i \in n + 1 .. Len(accepted) : s.end <= accepted[i].start
<1>1. /\ Len(accepted) \in Nat /\ source \in Seq(Symbols)
      /\ DOMAIN accepted = 1 .. Len(accepted)
  BY LenProperties DEF TypeOK
<1>2. s.start \in Nat /\ s.end \in Nat
  BY <1>1, SpanProperties
<1>3. ASSUME NEW i \in 1 .. n PROVE accepted[i].end <= s.start
  <2>1. i \in 1 .. Len(accepted) /\ n \in 1 .. Len(accepted) /\ n \in 1 .. n /\ n > 0
    BY <1>1
  <2>2. /\ accepted[i].start \in Nat /\ accepted[i].end \in Nat
        /\ accepted[n].start \in Nat /\ accepted[n].end \in Nat
    BY <2>1, AcceptedSpans
  <2>3. accepted[n].end <= s.start /\ accepted[n].start < s.start
    BY <1>2, <2>1, <2>2 DEF Blocked, IsIndex
  <2>4. i < n => accepted[i].end <= accepted[n].start
    BY <1>1, <2>1 DEF Disjoint
  <2>. QED
    BY <1>2, <2>1, <2>2, <2>3, <2>4
<1>4. ASSUME NEW i \in n + 1 .. Len(accepted) PROVE s.end <= accepted[i].start
  <2>1. i \in 1 .. Len(accepted) /\ n + 1 \in 1 .. Len(accepted) /\ n < Len(accepted)
    BY <1>1
  <2>2. /\ accepted[i].start \in Nat /\ accepted[i].end \in Nat
        /\ accepted[n + 1].start \in Nat /\ accepted[n + 1].end \in Nat
        /\ accepted[n + 1].start < accepted[n + 1].end
    BY <2>1, AcceptedSpans
  <2>3. s.end <= accepted[n + 1].start
    BY <1>2, <2>1, <2>2 DEF Blocked
  <2>4. n + 1 < i => accepted[n + 1].end <= accepted[i].start
    BY <1>1, <2>1 DEF Disjoint
  <2>. QED
    BY <1>2, <2>1, <2>2, <2>3, <2>4
<1>. QED
  BY <1>3, <1>4

\* One round of resolve_spans that drops a span.
LEMMA DropNext ==
    ASSUME IInv, step = "resolve", NEW s \in todo, NEW n \in 0 .. Len(accepted),
           \A t \in todo : ~Before(t, s), IsIndex(n, s), Blocked(n, s),
           UNCHANGED accepted, todo' = todo \ {s}, UNCHANGED <<source, selected>>
    PROVE  DroppedForReason'
<1>. USE DEF IInv
<1>1. source \in Seq(Symbols) /\ s \in SpansOf(source) /\ s \in selected
  BY DEF TypeOK, SpansInv
<1>2. PICK i \in 1 .. Len(accepted) : Overlap(s, accepted[i])
  BY <1>1, BlockedOverlaps
<1>3. /\ accepted[i] \in selected /\ accepted[i] \notin todo
      /\ accepted[i] \in SpansOf(source)
  BY DEF SpansInv
<1>4. Outranks(accepted[i], s)
  <2>1. ~Before(s, accepted[i])
    BY <1>3 DEF SpansInv
  <2>. QED
    BY <1>1, <1>3, <2>1, NotBefore
<1>5. /\ \A t \in Range(accepted) : t \notin todo
      /\ accepted[i] \in Range(accepted)
  <2>1. Len(accepted) \in Nat /\ DOMAIN accepted = 1 .. Len(accepted)
    BY LenProperties DEF TypeOK
  <2>. QED
    BY <2>1 DEF SpansInv, Range
<1>6. s \notin Range(accepted) /\ accepted[i] # s
  BY <1>3, <1>5
<1>7. ASSUME NEW r \in selected \ (todo \ {s})
      PROVE  r \notin Range(accepted) <=>
                \E t \in Range(accepted) : t # r /\ Overlap(r, t) /\ Outranks(t, r)
  <2>1. CASE r = s
    BY <1>2, <1>4, <1>5, <1>6, <2>1
  <2>2. CASE r \in selected \ todo
    BY <2>2 DEF DroppedForReason
  <2>. QED
    BY <2>1, <2>2
<1>. QED
  BY <1>7 DEF DroppedForReason, Overlap, Outranks

\* One round of resolve_spans that accepts a span: those that were accepted
\* before keep their order, and the new one stands between them.
LEMMA AcceptedThen ==
    ASSUME TypeOK, NEW s \in Span, NEW n \in 0 .. Len(accepted),
           accepted' = InsertAt(accepted, n + 1, s)
    PROVE  /\ accepted' \in Seq(Span) /\ Len(accepted') = Len(accepted) + 1
           /\ DOMAIN accepted' = 1 .. Len(accepted) + 1
           /\ \A i \in 1 .. n : accepted'[i] = accepted[i]
           /\ accepted'[n + 1] = s
           /\ \A i \in n + 2 .. Len(accepted) + 1 : accepted'[i] = accepted[i - 1]
           /\ Range(accepted') = Range(accepted) \cup {s}
<1>1. accepted \in Seq(Span) /\ Len(accepted) \in Nat /\ DOMAIN accepted = 1 .. Len(accepted)
  BY LenProperties DEF TypeOK
<1>2. PICK b : b = InsertAt(accepted, n + 1, s)
  OBVIOUS
<1>21. /\ b \in Seq(Span) /\ Len(b) = Len(accepted) + 1
       /\ \A i \in 1 .. n : b[i] = accepted[i]
       /\ b[n + 1] = s
       /\ \A i \in n + 2 .. Len(accepted) + 1 : b[i] = accepted[i - 1]
  <2>1. b \in Seq(Span) /\ Inserted(b, accepted, n, s)
    BY <1>1, <1>2, InsertAtProperties
  <2>. QED
    BY <2>1 DEF Inserted
<1>22. accepted' = b
  BY <1>2
<1>23. accepted' \in Seq(Span) /\ Len(accepted') = Len(accepted) + 1
  BY <1>21, <1>22
<1>3. DOMAIN accepted' = 1 .. Len(accepted) + 1
  BY <1>23, LenProperties
<1>4. \A i \in 1 .. n : accepted'[i] = accepted[i]
  BY <1>21, <1>22
<1>5. accepted'[n + 1] = s
  BY <1>21, <1>22
<1>6. \A i \in n + 2 .. Len(accepted) + 1 : accepted'[i] = accepted[i - 1]
  BY <1>21, <1>22
<1>7. ASSUME NEW r \in Range(accepted') PROVE r \in Range(accepted) \cup {s}
  <2>1. PICK i \in 1 .. Len(accepted) + 1 : r = accepted'[i]
    BY <1>3 DEF Range
  <2>2. CASE i <= n
    BY <1>1, <1>4, <2>1, <2>2 DEF Range
  <2>3. CASE i = n + 1
    BY <1>5, <2>1, <2>3
  <2>4. CASE i > n + 1
    <3>1. i \in n + 2 .. Len(accepted) + 1 /\ i - 1 \in 1 .. Len(accepted)
      BY <1>1, <2>1, <2>4
    <3>. QED
      BY <1>1, <1>6, <2>1, <3>1 DEF Range
  <2>. QED
    BY <1>1, <2>1, <2>2, <2>3, <2>4
<1>8. ASSUME NEW i \in 1 .. Len(accepted) PROVE accepted[i] \in Range(accepted')
  <2>1. CASE i <= n
    <3>1. i \in 1 .. n /\ i \in DOMAIN accepted'
      BY <1>1, <1>3, <2>1
    <3>. QED
      BY <1>4, <3>1 DEF Range
  <2>2. CASE i > n
    <3>1. PICK j : j = i + 1
      OBVIOUS
    <3>2. j \in n + 2 .. Len(accepted) + 1 /\ j \in DOMAIN accepted' /\ j - 1 = i
      BY <1>1, <1>3, <2>2, <3>1
    <3>. QED
      BY <1>6, <3>2 DEF Range
  <2>. QED
    BY <1>1, <2>1, <2>2
<1>9. s \in Range(accepted')
  <2>1. n + 1 \in DOMAIN accepted'
    BY <1>1, <1>3
  <2>. QED
    BY <1>5, <2>1 DEF Range
<1>10. Range(accepted') = Range(accepted) \cup {s}
  BY <1>1, <1>7, <1>8, <1>9 DEF Range
<1>. QED
  BY <1>23, <1>3, <1>4, <1>5, <1>6, <1>10

\* What is accepted stays disjoint.
LEMMA AcceptDisjoint ==
    ASSUME TypeOK, SpansInv, Disjoint, NEW s \in SpansOf(source),
           NEW n \in 0 .. Len(accepted), IsIndex(n, s), ~Blocked(n, s),
           accepted' = InsertAt(accepted, n + 1, s), UNCHANGED source
    PROVE  Disjoint'
<1>1. /\ Len(accepted) \in Nat /\ source \in Seq(Symbols) /\ Len(source) \in Nat
      /\ DOMAIN accepted = 1 .. Len(accepted)
  BY LenProperties DEF TypeOK
<1>2. /\ s \in Span /\ s.start \in Nat /\ s.end \in Nat
      /\ s.start < s.end /\ s.end <= Len(source)
  BY <1>1, SpanProperties
<1>3. /\ DOMAIN accepted' = 1 .. Len(accepted) + 1
      /\ \A i \in 1 .. n : accepted'[i] = accepted[i]
      /\ accepted'[n + 1] = s
      /\ \A i \in n + 2 .. Len(accepted) + 1 : accepted'[i] = accepted[i - 1]
  BY <1>2, AcceptedThen
<1>4. /\ \A i \in 1 .. n : accepted[i].end <= s.start
      /\ \A i \in n + 1 .. Len(accepted) : s.end <= accepted[i].start
  BY UnblockedIsClear
<1>5. \A i \in 1 .. Len(accepted) :
        /\ accepted[i].start \in Nat /\ accepted[i].end \in Nat
        /\ accepted[i].start < accepted[i].end /\ accepted[i].end <= Len(source)
  BY AcceptedSpans
<1>6. \A i, j \in 1 .. Len(accepted) : i < j => accepted[i].end <= accepted[j].start
  BY <1>1 DEF Disjoint
<1>7. ASSUME NEW i \in 1 .. Len(accepted) + 1
      PROVE  \/ i \in 1 .. n /\ i \in 1 .. Len(accepted)
             \/ i = n + 1
             \/ i \in n + 2 .. Len(accepted) + 1 /\ i - 1 \in n + 1 .. Len(accepted)
                /\ i - 1 \in 1 .. Len(accepted)
  BY <1>1
<1>8. ASSUME NEW i \in 1 .. Len(accepted) + 1
      PROVE  accepted'[i].start < accepted'[i].end /\ accepted'[i].end <= Len(source)
  BY <1>2, <1>3, <1>5, <1>7
<1>9. ASSUME NEW i \in 1 .. Len(accepted) + 1, NEW j \in 1 .. Len(accepted) + 1, i < j
      PROVE  accepted'[i].end <= accepted'[j].start
  <2>1. CASE i \in 1 .. n /\ i \in 1 .. Len(accepted)
    <3>1. CASE j \in 1 .. n /\ j \in 1 .. Len(accepted)
      BY <1>3, <1>6, <1>9, <2>1, <3>1
    <3>2. CASE j = n + 1
      BY <1>3, <1>4, <2>1, <3>2
    <3>3. CASE j \in n + 2 .. Len(accepted) + 1 /\ j - 1 \in n + 1 .. Len(accepted)
               /\ j - 1 \in 1 .. Len(accepted)
      <4>1. accepted[i].end <= s.start /\ s.end <= accepted[j - 1].start
        BY <1>4, <2>1, <3>3
      <4>2. accepted[i].end \in Nat /\ accepted[j - 1].start \in Nat
        BY <1>5, <2>1, <3>3
      <4>3. accepted'[i] = accepted[i] /\ accepted'[j] = accepted[j - 1]
        BY <1>3, <2>1, <3>3
      <4>4. accepted[i].end <= accepted[j - 1].start
        BY <1>2, <4>1, <4>2, SMTT(20)
      <4>. QED
        BY <4>3, <4>4, Zenon
    <3>. QED
      BY <1>7, <3>1, <3>2, <3>3
  <2>2. CASE i = n + 1
    <3>1. j \in n + 2 .. Len(accepted) + 1 /\ j - 1 \in n + 1 .. Len(accepted)
      BY <1>1, <1>9, <2>2
    <3>. QED
      BY <1>3, <1>4, <2>2, <3>1
  <2>3. CASE i \in n + 2 .. Len(accepted) + 1 /\ i - 1 \in n + 1 .. Len(accepted)
             /\ i - 1 \in 1 .. Len(accepted)
    <3>1. /\ j \in n + 2 .. Len(accepted) + 1 /\ j - 1 \in 1 .. Len(accepted)
          /\ i - 1 < j - 1
      BY <1>1, <1>9, <2>3
    <3>2. accepted[i - 1].end <= accepted[j - 1].start
      BY <1>6, <2>3, <3>1
    <3>. QED
      BY <1>3, <2>3, <3>1, <3>2
  <2>. QED
    BY <1>7, <2>1, <2>2, <2>3
<1>10. Len(source') = Len(source)
  OBVIOUS
<1>. QED
  BY <1>3, <1>8, <1>9, <1>10 DEF Disjoint

\* What has been dropped still has its reason, and what is accepted has none.
LEMMA AcceptNext ==
    ASSUME TypeOK, SpansInv, Disjoint, DroppedForReason, NEW s \in todo,
           NEW n \in 0 .. Len(accepted), IsIndex(n, s), ~Blocked(n, s),
           accepted' = InsertAt(accepted, n + 1, s), todo' = todo \ {s},
           UNCHANGED <<source, selected>>
    PROVE  DroppedForReason'
<1>1. /\ Len(accepted) \in Nat /\ source \in Seq(Symbols)
      /\ DOMAIN accepted = 1 .. Len(accepted)
  BY LenProperties DEF TypeOK
<1>2. s \in SpansOf(source) /\ s \in Span /\ s.start \in Nat /\ s.end \in Nat
  BY <1>1, SpanProperties DEF SpansInv
<1>3. Range(accepted') = Range(accepted) \cup {s}
  BY <1>2, AcceptedThen
<1>4. \A t \in Range(accepted) : t \notin todo /\ t \in SpansOf(source)
  BY <1>1 DEF SpansInv, Range
<1>5. ASSUME NEW t \in Range(accepted) PROVE ~Overlap(s, t) /\ ~Overlap(t, s)
  <2>1. PICK i \in 1 .. Len(accepted) : t = accepted[i]
    BY <1>1 DEF Range
  <2>2. t.start \in Nat /\ t.end \in Nat
    BY <2>1, AcceptedSpans
  <2>3. i \in 1 .. n \/ i \in n + 1 .. Len(accepted)
    BY <1>1
  <2>4. t.end <= s.start \/ s.end <= t.start
    BY <1>2, <2>1, <2>3, UnblockedIsClear
  <2>. QED
    BY <1>2, <2>2, <2>4 DEF Overlap
<1>6. ASSUME NEW r \in selected \ (todo \ {s})
      PROVE  r \notin Range(accepted') <=>
                \E t \in Range(accepted') : t # r /\ Overlap(r, t) /\ Outranks(t, r)
  <2>1. CASE r = s
    BY <1>3, <1>5, <2>1
  <2>2. CASE r \in selected \ todo
    <3>1. r # s
      BY <2>2
    <3>2. r \notin Range(accepted) <=>
              \E t \in Range(accepted) : t # r /\ Overlap(r, t) /\ Outranks(t, r)
      BY <2>2 DEF DroppedForReason
    <3>3. CASE r \in Range(accepted)
      BY <1>3, <1>5, <3>2, <3>3
    <3>4. CASE r \notin Range(accepted)
      BY <1>3, <3>1, <3>2, <3>4
    <3>. QED
      BY <3>3, <3>4
  <2>. QED
    BY <2>1, <2>2
<1>. QED
  BY <1>6 DEF DroppedForReason, Overlap, Outranks

\* One round of resolve_spans.
LEMMA ResolveNext == IInv /\ Resolve => IInv'
<1>. SUFFICES ASSUME IInv, Resolve PROVE IInv'
  OBVIOUS
<1>. USE DEF IInv
<1>1. /\ step = "resolve" /\ step' = "resolve"
      /\ UNCHANGED <<call, policy, round, source, next, cursor, parts, drawn,
                     mapping, masked, warned, answer, selected>>
  BY DEF Resolve
<1>2. PICK s \in todo, n \in 0 .. Len(accepted) :
        /\ \A t \in todo : ~Before(t, s)
        /\ IsIndex(n, s)
        /\ \/ Blocked(n, s) /\ UNCHANGED accepted
           \/ ~Blocked(n, s) /\ accepted' = InsertAt(accepted, n + 1, s)
        /\ todo' = todo \ {s}
  BY DEF Resolve
<1>3. /\ source \in Seq(Symbols) /\ s \in SpansOf(source) /\ s \in selected /\ s \in Span
      /\ accepted \in Seq(Span) /\ Len(accepted) \in Nat
  BY LenProperties, SpanProperties DEF TypeOK, SpansInv
<1>4. /\ accepted' \in Seq(Span)
      /\ Len(accepted') \in Nat /\ Len(accepted') >= Len(accepted)
      /\ \A i \in 1 .. Len(accepted') : accepted'[i] \in selected \ (todo \ {s})
  <2>1. CASE UNCHANGED accepted
    BY <1>3, <2>1 DEF SpansInv
  <2>2. CASE accepted' = InsertAt(accepted, n + 1, s)
    <3>1. /\ accepted' \in Seq(Span) /\ Len(accepted') = Len(accepted) + 1
          /\ Range(accepted') = Range(accepted) \cup {s}
          /\ DOMAIN accepted' = 1 .. Len(accepted) + 1
      BY <1>3, <2>2, AcceptedThen
    <3>2. DOMAIN accepted = 1 .. Len(accepted)
      BY <1>3, LenProperties
    <3>3. Range(accepted) \subseteq selected \ todo
      BY <3>2 DEF SpansInv, Range
    <3>4. \A i \in 1 .. Len(accepted') : accepted'[i] \in Range(accepted) \cup {s}
      BY <3>1 DEF Range
    <3>. QED
      BY <1>3, <3>1, <3>3, <3>4
  <2>. QED
    BY <1>2, <2>1, <2>2
<1>5. TypeOK'
  <2>1. next' \in 1 .. Len(accepted') + 1
    BY <1>1, <1>3, <1>4 DEF TypeOK
  <2>2. todo' \subseteq Span
    BY <1>2 DEF TypeOK
  <2>. QED
    BY <1>1, <1>4, <2>1, <2>2 DEF TypeOK
<1>6. SpansInv'
  <2>1. selected' \subseteq SpansOf(source') /\ todo' \subseteq selected'
    BY <1>1, <1>2 DEF SpansInv
  <2>2. \A i \in 1 .. Len(accepted') : accepted'[i] \in selected' \ todo'
    BY <1>1, <1>2, <1>4
  <2>3. \A r \in selected \ (todo \ {s}), t \in todo \ {s} : ~Before(t, r)
    BY <1>2 DEF SpansInv
  <2>. QED
    BY <1>1, <1>2, <2>1, <2>2, <2>3 DEF SpansInv, Before
<1>7. Disjoint'
  <2>1. CASE UNCHANGED accepted
    BY <1>1, <2>1 DEF Disjoint
  <2>2. CASE ~Blocked(n, s) /\ accepted' = InsertAt(accepted, n + 1, s)
    BY <1>1, <1>2, <1>3, <2>2, AcceptDisjoint
  <2>. QED
    BY <1>2, <2>1, <2>2
<1>8. DroppedForReason'
  BY <1>1, <1>2, DropNext, AcceptNext
<1>9. CursorInv' /\ TokensInv' /\ StarsInv' /\ EndInv'
  BY <1>1 DEF CursorInv, TokensInv, StarsInv, EndInv, Masking
<1>10. PassInv'
  BY <1>1 DEF PassInv
<1>11. AnswerInv'
  BY <1>1 DEF AnswerInv, Masking, TouchesToken, TokensOf
<1>. QED
  BY <1>5, <1>6, <1>7, <1>8, <1>9, <1>10, <1>11

\* The spans are resolved, and mask_resolved begins.
LEMMA EndResolveNext == IInv /\ EndResolve => IInv'
<1>. SUFFICES ASSUME IInv, EndResolve PROVE IInv'
  OBVIOUS
<1>. USE DEF IInv
<1>1. /\ step = "resolve" /\ todo = {} /\ step' = "replace"
      /\ next' = 1 /\ cursor' = 0 /\ parts' = <<>> /\ drawn' = NoMapping
      /\ UNCHANGED <<call, policy, round, source, todo, accepted, mapping,
                     masked, warned, answer, selected>>
  BY DEF EndResolve
<1>2. DOMAIN drawn' = {} /\ parts' \in Seq(Symbols) /\ Len(parts') = 0
  BY <1>1, EmptySeq DEF NoMapping
<1>3. Len(accepted) \in Nat /\ Len(source) \in Nat
  BY LenProperties DEF TypeOK
<1>4. TypeOK'
  <2>1. next' \in 1 .. Len(accepted') + 1 /\ cursor' \in 0 .. Len(source')
    BY <1>1, <1>3
  <2>. QED
    BY <1>1, <1>2, <2>1 DEF TypeOK, Steps
<1>5. SpansInv' /\ Disjoint' /\ DroppedForReason'
  BY <1>1 DEF SpansInv, Disjoint, DroppedForReason, Before, Overlap, Outranks
<1>6. CursorInv' /\ EndInv'
  BY <1>1 DEF CursorInv, EndInv
<1>7. TokensInv'
  <2>1. Restored(parts', drawn') = <<>>
    BY <1>1, RestoredShown, RewriteEmpty
  <2>2. SubSeq(source', 1, cursor') = <<>>
    BY <1>1, SubSeqEmpty
  <2>3. \A k \in DOMAIN drawn' : FALSE
    BY <1>2
  <2>4. \A i \in 1 .. Len(parts') : FALSE
    BY <1>2
  <2>. QED
    BY ONLY <2>1, <2>2, <2>3, <2>4, Zenon DEF TokensInv
<1>8. StarsInv'
  BY <1>1, <1>2 DEF StarsInv
<1>9. PassInv'
  BY <1>1 DEF PassInv
<1>10. AnswerInv'
  BY <1>1, <1>2 DEF AnswerInv, TouchesToken, TokensOf
<1>. QED
  BY <1>4, <1>5, <1>6, <1>7, <1>8, <1>9, <1>10

\* The span that mask_resolved comes to begins where the text has not been
\* rewritten, and those before end where it has.
LEMMA NextSpan ==
    ASSUME IInv, step = "replace"
    PROVE  /\ \A j \in 1 .. next - 1 :
                 j \in 1 .. Len(accepted) /\ accepted[j].end <= cursor
           /\ next <= Len(accepted) =>
                 /\ next \in 1 .. Len(accepted)
                 /\ accepted[next] \in selected
                 /\ accepted[next].start \in cursor .. Len(source)
                 /\ accepted[next].end \in accepted[next].start + 1 .. Len(source)
<1>. USE DEF IInv
<1>1. /\ Len(accepted) \in Nat /\ Len(source) \in Nat /\ next \in Nat \ {0}
      /\ next <= Len(accepted) + 1 /\ cursor \in Nat
      /\ DOMAIN accepted = 1 .. Len(accepted)
  BY LenProperties DEF TypeOK
<1>2. ASSUME NEW j \in 1 .. next - 1
      PROVE  j \in 1 .. Len(accepted) /\ accepted[j].end <= cursor
  <2>1. j \in 1 .. Len(accepted) /\ next - 1 \in 1 .. Len(accepted) /\ next # 1
    BY <1>1
  <2>2. cursor = accepted[next - 1].end
    BY <2>1 DEF CursorInv
  <2>3. /\ accepted[j].end \in Nat /\ accepted[next - 1].end \in Nat
        /\ accepted[next - 1].start \in Nat
        /\ accepted[next - 1].start < accepted[next - 1].end
    BY <2>1, AcceptedSpans
  <2>4. j < next - 1 => accepted[j].end <= accepted[next - 1].start
    BY <1>1, <2>1 DEF Disjoint
  <2>. QED
    BY <1>1, <2>1, <2>2, <2>3, <2>4
<1>3. ASSUME next <= Len(accepted)
      PROVE  /\ next \in 1 .. Len(accepted)
             /\ accepted[next] \in selected
             /\ accepted[next].start \in cursor .. Len(source)
             /\ accepted[next].end \in accepted[next].start + 1 .. Len(source)
  <2>1. next \in 1 .. Len(accepted)
    BY <1>1, <1>3
  <2>2. /\ accepted[next].start \in Nat /\ accepted[next].end \in Nat
        /\ accepted[next].start < accepted[next].end
        /\ accepted[next].end <= Len(source)
    BY <2>1, AcceptedSpans
  <2>3. cursor <= accepted[next].start
    <3>1. CASE next = 1
      BY <2>2, <3>1 DEF CursorInv
    <3>2. CASE next # 1
      <4>1. next - 1 \in 1 .. Len(accepted) /\ next - 1 < next
        BY <1>1, <2>1, <3>2
      <4>. QED
        BY <1>1, <2>1, <3>2, <4>1 DEF CursorInv, Disjoint
    <3>. QED
      BY <3>1, <3>2
  <2>4. accepted[next] \in selected
    BY <2>1 DEF SpansInv
  <2>. QED
    BY <1>1, <2>1, <2>2, <2>3, <2>4
<1>. QED
  BY <1>2, <1>3

\* The text between what has been rewritten and the next span.
LEMMA GapProperties ==
    ASSUME TypeOK, NEW to \in cursor .. Len(source)
    PROVE  /\ Gap(to) \in Seq(Symbols) /\ Len(Gap(to)) = to - cursor
           /\ \A i \in 1 .. to - cursor : Gap(to)[i] = source[cursor + i]
           /\ SubSeq(source, 1, cursor) \o Gap(to) = SubSeq(source, 1, to)
<1>1. source \in Seq(Symbols) /\ Len(source) \in Nat /\ cursor \in 0 .. Len(source)
  BY LenProperties DEF TypeOK
<1>2. \A i \in 1 .. Len(source) : source[i] \in Symbols
  BY <1>1, ElementOfSeq
<1>3. \A i \in cursor + 1 .. to : source[i] \in Symbols
  BY <1>1, <1>2
<1>4. PICK g : g = SubSeq(source, cursor + 1, to)
  OBVIOUS
<1>5. g \in Seq(Symbols)
  BY <1>1, <1>3, <1>4, SubSeqProperties
<1>6. Len(g) = to - cursor
  BY <1>1, <1>3, <1>4, SubSeqProperties
<1>7. \A i \in 1 .. to - cursor : g[i] = source[cursor + i]
  BY <1>1, <1>4
<1>8. SubSeq(source, 1, cursor) \o SubSeq(source, cursor + 1, to) = SubSeq(source, 1, to)
  <2>1. /\ 1 \in 1 .. Len(source) + 1 /\ cursor \in 1 - 1 .. Len(source)
        /\ to \in cursor .. Len(source)
    BY <1>1
  <2>. QED
    BY <1>1, <2>1, ConcatAdjacentSubSeq
<1>. QED
  BY <1>4, <1>5, <1>6, <1>7, <1>8 DEF Gap

\* _redact: as many stars as the span is long.
LEMMA RedactSpan ==
    ASSUME IInv, step = "replace", next <= Len(accepted), Redacting,
           parts' = parts \o Gap(accepted[next].start)
                       \o [i \in 1 .. accepted[next].end - accepted[next].start |-> Star],
           cursor' = accepted[next].end, next' = next + 1,
           UNCHANGED <<source, accepted, policy, round>>
    PROVE  parts' \in Seq(Symbols) /\ StarsInv'
<1>. USE DEF IInv
<1>1. PICK a, b : a = accepted[next].start /\ b = accepted[next].end
  OBVIOUS
<1>2. /\ Len(accepted) \in Nat /\ Len(source) \in Nat /\ next \in Nat \ {0}
      /\ cursor \in Nat /\ source \in Seq(Symbols) /\ parts \in Seq(Symbols)
  BY LenProperties DEF TypeOK
<1>3. a \in cursor .. Len(source) /\ b \in a + 1 .. Len(source)
  BY <1>1, NextSpan
<1>17. PICK n : n = b - a
  OBVIOUS
<1>4. a \in Nat /\ b \in Nat /\ n \in Nat /\ a < b /\ n = b - a
  BY <1>2, <1>3, <1>17
<1>5. PICK g : g = Gap(a)
  OBVIOUS
<1>6. /\ g \in Seq(Symbols) /\ Len(g) = a - cursor
      /\ \A i \in 1 .. a - cursor : g[i] = source[cursor + i]
  BY <1>3, <1>5, GapProperties
<1>7. PICK z : z = [i \in 1 .. n |-> Star]
  OBVIOUS
<1>8. z \in Seq(Symbols) /\ Len(z) = n /\ \A i \in 1 .. n : z[i] = Star
  BY <1>4, <1>7 DEF Symbols
<1>9. PICK p : p = (parts \o g) \o z
  OBVIOUS
<1>10. p \in Seq(Symbols) /\ Joined(p, parts, g, z)
  <2>1. g \in Seq(Symbols) /\ z \in Seq(Symbols)
    BY <1>6, <1>8
  <2>. QED
    BY <1>2, <1>9, <2>1, ConcatThree
<1>11. parts' = p
  BY <1>1, <1>5, <1>7, <1>9, <1>17, Zenon
<1>12. Len(parts) = cursor
  BY DEF StarsInv, Masking
<1>13. /\ Len(p) = b
       /\ \A i \in 1 .. cursor : p[i] = parts[i]
       /\ \A i \in 1 .. a - cursor : p[cursor + i] = source[cursor + i]
       /\ \A i \in 1 .. n : p[a + i] = Star
  <2>1. /\ Len(p) = (Len(parts) + Len(g)) + Len(z)
        /\ \A i \in 1 .. Len(parts) : p[i] = parts[i]
        /\ \A i \in 1 .. Len(g) : p[Len(parts) + i] = g[i]
        /\ \A i \in 1 .. Len(z) : p[(Len(parts) + Len(g)) + i] = z[i]
    BY <1>10 DEF Joined
  <2>2. Len(parts) + Len(g) = a /\ a + Len(z) = b
    BY <1>2, <1>4, <1>6, <1>8, <1>12
  <2>. QED
    BY <1>6, <1>8, <1>12, <2>1, <2>2
<1>14. ASSUME NEW i \in 1 .. b
       PROVE  p[i] = IF \E j \in 1 .. next : accepted[j].start < i /\ i <= accepted[j].end
                     THEN Star ELSE source[i]
  <2>1. CASE i <= cursor
    <3>1. i \in 1 .. cursor
      BY <1>2, <1>4, <2>1
    <3>2. parts[i] = IF \E j \in 1 .. next - 1 :
                           accepted[j].start < i /\ i <= accepted[j].end
                     THEN Star ELSE source[i]
      BY <3>1 DEF StarsInv, Masking
    <3>3. ~(accepted[next].start < i)
      BY <1>1, <1>2, <1>3, <3>1
    <3>4. (\E j \in 1 .. next : accepted[j].start < i /\ i <= accepted[j].end)
             <=> \E j \in 1 .. next - 1 : accepted[j].start < i /\ i <= accepted[j].end
      BY <1>2, <3>3
    <3>. QED
      BY <1>13, <3>1, <3>2, <3>4
  <2>2. CASE i > cursor /\ i <= a
    <3>1. PICK k : k = i - cursor
      OBVIOUS
    <3>2. k \in 1 .. a - cursor /\ cursor + k = i
      BY <1>2, <1>4, <2>2, <3>1
    <3>3. p[i] = source[i]
      BY <1>13, <3>2
    <3>4. ASSUME NEW j \in 1 .. next, accepted[j].start < i, i <= accepted[j].end
          PROVE  FALSE
      <4>1. CASE j = next
        BY <1>1, <1>4, <2>2, <3>4, <4>1
      <4>2. CASE j # next
        <5>1. j \in 1 .. next - 1
          BY <1>2, <4>2
        <5>2. j \in 1 .. Len(accepted) /\ accepted[j].end <= cursor
          BY <5>1, NextSpan
        <5>3. accepted[j].end \in Nat
          BY <5>2, AcceptedSpans
        <5>. QED
          BY <1>2, <1>4, <2>2, <3>4, <5>2, <5>3
      <4>. QED
        BY <4>1, <4>2
    <3>. QED
      BY <3>3, <3>4
  <2>3. CASE i > a
    <3>1. PICK k : k = i - a
      OBVIOUS
    <3>2. k \in 1 .. n /\ a + k = i
      BY <1>4, <2>3, <3>1
    <3>3. p[i] = Star
      BY <1>13, <3>2
    <3>4. next \in 1 .. next /\ accepted[next].start < i /\ i <= accepted[next].end
      BY <1>1, <1>2, <1>4, <2>3
    <3>. QED
      BY <3>3, <3>4
  <2>. QED
    BY <1>2, <1>4, <2>1, <2>2, <2>3
<1>15. next' - 1 = next
  BY <1>2
<1>16. cursor' = b /\ Len(parts') = b
  BY <1>1, <1>11, <1>13
<1>. QED
  BY <1>10, <1>11, <1>14, <1>15, <1>16 DEF StarsInv

\* The tokens of a text are those symbols of it that are tokens.
LEMMA TokensAt ==
    ASSUME NEW t \in Seq(Symbols)
    PROVE  /\ \A i \in 1 .. Len(t) : IsToken(t[i]) => t[i] \in TokensOf(t)
           /\ \A k \in TokensOf(t) : k \in Tokens /\ \E i \in 1 .. Len(t) : t[i] = k
<1>1. DOMAIN t = 1 .. Len(t)
  BY LenProperties
<1>. QED
  BY <1>1 DEF TokensOf, IsToken

\* A new token stands for the value of the span.
LEMMA TokenSpan ==
    ASSUME IInv, step = "replace", next <= Len(accepted), ~Redacting,
           NEW k \in Tokens \ Occupied,
           parts' = parts \o Gap(accepted[next].start) \o <<k>>,
           drawn' = [j \in DOMAIN drawn \cup {k} |->
                        IF j = k THEN Value(source, accepted[next]) ELSE drawn[j]],
           cursor' = accepted[next].end,
           UNCHANGED <<source, policy, round, selected, mapping, warned>>
    PROVE  /\ parts' \in Seq(Symbols) /\ IsMapping(drawn')
           /\ TokensInv' /\ AnswerInv'
<1>. USE DEF IInv
<1>1. PICK a, b : a = accepted[next].start /\ b = accepted[next].end
  OBVIOUS
<1>2. /\ Len(accepted) \in Nat /\ Len(source) \in Nat /\ next \in Nat \ {0}
      /\ cursor \in Nat /\ source \in Seq(Symbols) /\ parts \in Seq(Symbols)
      /\ Len(parts) \in Nat
  BY LenProperties DEF TypeOK
<1>3. a \in cursor .. Len(source) /\ b \in a + 1 .. Len(source)
  BY <1>1, NextSpan
<1>4. a \in Nat /\ b \in Nat /\ a < b
  BY <1>2, <1>3
<1>5. PICK g : g = Gap(a)
  OBVIOUS
<1>6. /\ g \in Seq(Symbols) /\ Len(g) = a - cursor
      /\ \A i \in 1 .. a - cursor : g[i] = source[cursor + i]
      /\ SubSeq(source, 1, cursor) \o g = SubSeq(source, 1, a)
  BY <1>3, <1>5, GapProperties
<1>7. PICK z : z = <<k>>
  OBVIOUS
<1>8. z \in Seq(Symbols) /\ Len(z) = 1 /\ z[1] = k
  BY <1>7 DEF Symbols
<1>9. PICK p : p = (parts \o g) \o z
  OBVIOUS
<1>10. p \in Seq(Symbols) /\ Joined(p, parts, g, z)
  <2>1. g \in Seq(Symbols) /\ z \in Seq(Symbols)
    BY <1>6, <1>8
  <2>. QED
    BY <1>2, <1>9, <2>1, ConcatThree
<1>11. parts' = p
  BY <1>1, <1>5, <1>7, <1>9, Zenon
<1>12. /\ Restored(parts, drawn) = SubSeq(source, 1, cursor)
       /\ \A j \in DOMAIN drawn : j \notin TokensOf(source)
       /\ \A i \in 1 .. Len(parts) :
             IsToken(parts[i]) => parts[i] \in TokensOf(source) \cup DOMAIN drawn
       /\ \A j \in DOMAIN drawn : \E i \in 1 .. Len(parts) : parts[i] = j
  BY DEF TokensInv, Masking
<1>30. PICK q : q = Len(parts) + (a - cursor)
  OBVIOUS
<1>31. q \in Nat /\ Len(parts) <= q /\ q = Len(parts) + (a - cursor)
  BY <1>2, <1>3, <1>4, <1>30
<1>13. /\ Len(p) = q + 1
       /\ \A i \in 1 .. Len(parts) : p[i] = parts[i]
       /\ \A i \in 1 .. a - cursor : p[Len(parts) + i] = source[cursor + i]
       /\ p[q + 1] = k
  <2>1. /\ Len(p) = (Len(parts) + Len(g)) + Len(z)
        /\ \A i \in 1 .. Len(parts) : p[i] = parts[i]
        /\ \A i \in 1 .. Len(g) : p[Len(parts) + i] = g[i]
        /\ \A i \in 1 .. Len(z) : p[(Len(parts) + Len(g)) + i] = z[i]
    BY <1>10 DEF Joined
  <2>2. Len(parts) + Len(g) = q /\ 1 \in 1 .. Len(z)
    BY <1>6, <1>8, <1>31
  <2>. QED
    BY <1>6, <1>8, <2>1, <2>2
<1>14. k \in Tokens /\ k \notin TokensOf(source) /\ k \notin DOMAIN drawn
       /\ k \notin DOMAIN mapping
  BY DEF Occupied
<1>15. PICK v : v = Value(source, accepted[next])
  OBVIOUS
<1>16. v = SubSeq(source, a + 1, b)
  BY <1>1, <1>15 DEF Value
<1>17. v \in Seq(Symbols)
  <2>1. \A i \in 1 .. Len(source) : source[i] \in Symbols
    BY <1>2, ElementOfSeq
  <2>2. \A i \in a + 1 .. b : source[i] \in Symbols
    BY <1>2, <1>3, <1>4, <2>1
  <2>. QED
    BY <1>4, <1>16, <2>2, SubSeqProperties
<1>18. PICK m : m = [j \in DOMAIN drawn \cup {k} |-> IF j = k THEN v ELSE drawn[j]]
  OBVIOUS
<1>19. drawn' = m
  BY <1>15, <1>18
<1>20. /\ DOMAIN m = DOMAIN drawn \cup {k} /\ m[k] = v
       /\ \A j \in DOMAIN drawn : j # k => m[j] = drawn[j]
  BY <1>18
<1>21. IsMapping(m)
  <2>1. DOMAIN drawn \subseteq Tokens /\ \A j \in DOMAIN drawn : drawn[j] \in Seq(Symbols)
    BY DEF TypeOK
  <2>. QED
    BY <1>14, <1>17, <1>20, <2>1 DEF IsMapping
\* What the new text is restored to.
<1>22. Restored(p, m) = SubSeq(source, 1, b)
  <2>1. Restored(parts, m) = Restored(parts, drawn)
    <3>1. \A i \in 1 .. Len(parts) : parts[i] # k
      BY <1>12, <1>14 DEF IsToken
    <3>. QED
      BY <1>2, <1>20, <3>1, RestoredAgrees, ZenonT(40)
  <2>2. Restored(g, m) = g
    <3>1. ASSUME NEW i \in 1 .. Len(g) PROVE g[i] \notin DOMAIN m
      <4>1. i \in 1 .. a - cursor /\ cursor + i \in 1 .. Len(source)
        BY <1>2, <1>3, <1>6
      <4>2. g[i] = source[cursor + i]
        BY <1>6, <4>1
      <4>3. IsToken(g[i]) => g[i] \in TokensOf(source)
        BY <1>2, <4>1, <4>2, TokensAt
      <4>. QED
        BY <1>12, <1>14, <1>20, <1>21, <4>3 DEF IsMapping, IsToken
    <3>2. g \in Seq(Symbols)
      BY <1>6
    <3>. QED
      BY <1>21, <3>1, <3>2, RestoredPlain
  <2>3. Restored(z, m) = v
    BY <1>7, <1>20, <1>21, RestoredToken
  <2>4. /\ g \in Seq(Symbols) /\ z \in Seq(Symbols)
    BY <1>6, <1>8
  <2>5. PICK d : d = parts \o g
    OBVIOUS
  <2>6. d \in Seq(Symbols)
    BY <1>2, <2>4, <2>5, ConcatProperties
  <2>7. Restored(d, m) = SubSeq(source, 1, a)
    <3>1. Restored(d, m) = Restored(parts, m) \o Restored(g, m)
      BY <1>2, <1>21, <2>4, <2>5, RestoredConcat
    <3>2. Restored(parts, m) = SubSeq(source, 1, cursor)
      BY <1>12, <2>1, Zenon
    <3>3. SubSeq(source, 1, cursor) \o g = SubSeq(source, 1, a)
      BY <1>6
    <3>. QED
      BY <2>2, <3>1, <3>2, <3>3, Zenon
  <2>8. Restored(p, m) = Restored(d, m) \o Restored(z, m)
    <3>1. p = d \o z
      BY <1>9, <2>5, Zenon
    <3>. QED
      BY <1>21, <2>4, <2>6, <3>1, RestoredConcat
  <2>9. SubSeq(source, 1, a) \o SubSeq(source, a + 1, b) = SubSeq(source, 1, b)
    <3>1. /\ 1 \in 1 .. Len(source) + 1 /\ a \in 1 - 1 .. Len(source)
          /\ b \in a .. Len(source)
      BY <1>2, <1>3, <1>4
    <3>. QED
      BY <1>2, <3>1, ConcatAdjacentSubSeq
  <2>. QED
    BY <1>16, <2>3, <2>7, <2>8, <2>9, Zenon
\* Its tokens.
<1>23. ASSUME NEW j \in DOMAIN m PROVE j \notin TokensOf(source)
  BY <1>12, <1>14, <1>20
<1>24. ASSUME NEW i \in 1 .. Len(p), IsToken(p[i])
       PROVE  p[i] \in TokensOf(source) \cup DOMAIN m
  <2>1. CASE i \in 1 .. Len(parts)
    BY <1>12, <1>13, <1>20, <1>24, <2>1
  <2>2. CASE i > Len(parts) /\ i <= q
    <3>1. PICK n : n = i - Len(parts)
      OBVIOUS
    <3>2. n \in 1 .. a - cursor /\ Len(parts) + n = i /\ cursor + n \in 1 .. Len(source)
      BY <1>2, <1>3, <1>4, <1>31, <2>2, <3>1
    <3>3. p[i] = source[cursor + n]
      BY <1>13, <3>2
    <3>. QED
      BY <1>2, <1>24, <3>2, <3>3, TokensAt
  <2>3. CASE i = q + 1
    BY <1>13, <1>20, <2>3
  <2>4. \/ i \in 1 .. Len(parts)
        \/ i > Len(parts) /\ i <= q
        \/ i = q + 1
    <3>1. Len(p) = q + 1
      BY <1>13
    <3>. QED
      BY <1>2, <1>31, <3>1
  <2>. QED
    BY <2>1, <2>2, <2>3, <2>4, Zenon
<1>25. ASSUME NEW j \in DOMAIN m PROVE \E i \in 1 .. Len(p) : p[i] = j
  <2>1. Len(p) \in Nat /\ Len(parts) <= Len(p) /\ q + 1 \in 1 .. Len(p)
    BY <1>2, <1>13, <1>31
  <2>2. CASE j = k
    BY <1>13, <2>1, <2>2
  <2>3. CASE j \in DOMAIN drawn
    <3>1. PICK i \in 1 .. Len(parts) : parts[i] = j
      BY <1>12, <2>3
    <3>. QED
      BY <1>2, <1>13, <2>1, <3>1
  <2>. QED
    BY <1>20, <2>2, <2>3
<1>26. cursor' = b
  BY <1>1
<1>27. TokensInv'
  <2>1. Restored(parts', drawn') = SubSeq(source', 1, cursor')
    BY <1>11, <1>19, <1>22, <1>26, Zenon
  <2>2. /\ \A j \in DOMAIN drawn' : j \notin TokensOf(source')
        /\ \A i \in 1 .. Len(parts') :
              IsToken(parts'[i]) => parts'[i] \in TokensOf(source') \cup DOMAIN drawn'
        /\ \A j \in DOMAIN drawn' : \E i \in 1 .. Len(parts') : parts'[i] = j
    BY <1>11, <1>19, <1>23, <1>24, <1>25, Zenon
  <2>. QED
    BY ONLY <2>1, <2>2, Zenon DEF TokensInv
\* The second pass.
<1>28. ASSUME round = 2
       PROVE  /\ \A j \in DOMAIN m : j \notin DOMAIN mapping
              /\ \A i \in 1 .. b : IsToken(source[i]) =>
                    \E j \in 1 .. Len(p) : p[j] = source[i]
  <2>1. \A j \in DOMAIN m : j \notin DOMAIN mapping
    BY <1>14, <1>20, <1>28 DEF AnswerInv, Masking
  <2>2. ASSUME NEW i \in 1 .. b, IsToken(source[i])
        PROVE  \E j \in 1 .. Len(p) : p[j] = source[i]
    <3>1. CASE i <= cursor
      <4>1. i \in 1 .. cursor
        BY <1>2, <1>4, <3>1
      <4>2. PICK j \in 1 .. Len(parts) : parts[j] = source[i]
        BY <1>28, <2>2, <4>1 DEF AnswerInv, Masking
      <4>3. j \in 1 .. Len(p)
        BY <1>2, <1>13, <1>31
      <4>. QED
        BY <1>13, <4>2, <4>3
    <3>2. CASE i > cursor /\ i <= a
      <4>1. PICK n : n = i - cursor
        OBVIOUS
      <4>2. n \in 1 .. a - cursor /\ cursor + n = i
        BY <1>2, <1>4, <3>2, <4>1
      <4>3. Len(parts) + n \in 1 .. Len(p)
        BY <1>2, <1>4, <1>13, <1>31, <4>2
      <4>. QED
        BY <1>13, <4>2, <4>3
    <3>3. CASE i > a
      <4>1. i \in a + 1 .. b
        BY <1>4, <3>3
      <4>2. ~TouchesToken(accepted[next])
        <5>1. accepted[next] \in selected
          BY NextSpan
        <5>. QED
          BY <1>28, <5>1 DEF AnswerInv
      <4>3. i \in accepted[next].start + 1 .. accepted[next].end
        BY <1>1, <4>1
      <4>. QED
        BY <2>2, <4>2, <4>3 DEF TouchesToken
    <3>. QED
      BY <1>2, <1>4, <3>1, <3>2, <3>3
  <2>. QED
    BY <2>1, <2>2
<1>29. AnswerInv'
  <2>1. round = 2 => /\ ~warned => TokensOf(source) = DOMAIN mapping
                     /\ \A s \in selected : ~TouchesToken(s)
    BY DEF AnswerInv
  <2>2. round' = 2 => /\ ~warned' => TokensOf(source') = DOMAIN mapping'
                      /\ \A s \in selected' : ~TouchesToken(s)'
    BY <2>1 DEF TouchesToken, TokensOf
  <2>3. round' = 2 => /\ \A j \in DOMAIN drawn' : j \notin DOMAIN mapping'
                      /\ \A i \in 1 .. cursor' : IsToken(source'[i]) =>
                            \E j \in 1 .. Len(parts') : parts'[j] = source'[i]
    BY <1>11, <1>19, <1>26, <1>28, Zenon
  <2>. QED
    BY ONLY <2>2, <2>3, Zenon DEF AnswerInv
<1>. QED
  BY <1>10, <1>11, <1>19, <1>21, <1>27, <1>29

\* One span replaced.
LEMMA ReplaceNext == IInv /\ Replace => IInv'
<1>. SUFFICES ASSUME IInv, Replace PROVE IInv'
  OBVIOUS
<1>1. /\ step = "replace" /\ next <= Len(accepted)
      /\ cursor' = accepted[next].end /\ next' = next + 1
      /\ UNCHANGED <<call, policy, step, round, source, todo, accepted, mapping,
                     masked, warned, answer, selected>>
  BY DEF Replace
<1>2. /\ TypeOK /\ SpansInv /\ Disjoint /\ DroppedForReason /\ PassInv
  BY DEF IInv
<1>3. /\ Len(accepted) \in Nat /\ Len(source) \in Nat /\ next \in Nat \ {0}
      /\ cursor \in Nat
  BY <1>2, LenProperties DEF TypeOK
<1>4. \/ /\ Redacting
         /\ parts' = parts \o Gap(accepted[next].start)
                       \o [i \in 1 .. accepted[next].end - accepted[next].start |-> Star]
         /\ UNCHANGED drawn
      \/ /\ ~Redacting
         /\ \E k \in Tokens \ Occupied :
              /\ parts' = parts \o Gap(accepted[next].start) \o <<k>>
              /\ drawn' = [j \in DOMAIN drawn \cup {k} |->
                             IF j = k THEN Value(source, accepted[next]) ELSE drawn[j]]
  BY DEF Replace
<1>5. parts' \in Seq(Symbols) /\ IsMapping(drawn') /\ TokensInv' /\ StarsInv' /\ AnswerInv'
  <2>1. ASSUME Redacting,
               parts' = parts \o Gap(accepted[next].start)
                          \o [i \in 1 .. accepted[next].end - accepted[next].start |-> Star],
               UNCHANGED drawn
        PROVE  parts' \in Seq(Symbols) /\ IsMapping(drawn') /\ TokensInv' /\ StarsInv' /\ AnswerInv'
    <3>1. parts' \in Seq(Symbols) /\ StarsInv'
      BY <1>1, <2>1, RedactSpan
    <3>2. IsMapping(drawn')
      BY <1>2, <2>1 DEF TypeOK, IsMapping
    <3>3. Redacting' /\ round' = 1
      BY <1>1, <2>1 DEF Redacting
    <3>. QED
      BY <3>1, <3>2, <3>3 DEF TokensInv, AnswerInv
  <2>2. ASSUME ~Redacting, NEW k \in Tokens \ Occupied,
               parts' = parts \o Gap(accepted[next].start) \o <<k>>,
               drawn' = [j \in DOMAIN drawn \cup {k} |->
                           IF j = k THEN Value(source, accepted[next]) ELSE drawn[j]]
        PROVE  parts' \in Seq(Symbols) /\ IsMapping(drawn') /\ TokensInv' /\ StarsInv' /\ AnswerInv'
    <3>1. parts' \in Seq(Symbols) /\ IsMapping(drawn') /\ TokensInv' /\ AnswerInv'
      BY <1>1, <2>2, TokenSpan, Zenon
    <3>2. ~Redacting'
      BY <1>1, <2>2 DEF Redacting
    <3>. QED
      BY <3>1, <3>2 DEF StarsInv
  <2>. QED
    BY <1>4, <2>1, <2>2, Zenon
<1>6. accepted[next].end \in 0 .. Len(source)
  BY <1>1, <1>3, NextSpan
<1>7. TypeOK'
  <2>1. next' \in 1 .. Len(accepted') + 1 /\ cursor' \in 0 .. Len(source')
    BY <1>1, <1>3, <1>6
  <2>2. DOMAIN drawn' \subseteq Tokens /\ \A k \in DOMAIN drawn' : drawn'[k] \in Seq(Symbols)
    BY <1>5 DEF IsMapping
  <2>3. parts' \in Seq(Symbols)
    BY <1>5
  <2>. QED
    BY <1>1, <1>2, <2>1, <2>2, <2>3 DEF TypeOK
<1>8. SpansInv' /\ Disjoint' /\ DroppedForReason'
  BY <1>1, <1>2 DEF SpansInv, Disjoint, DroppedForReason, Before, Overlap, Outranks
<1>9. CursorInv'
  <2>1. next' # 1 /\ next' - 1 = next
    BY <1>1, <1>3
  <2>. QED
    BY <1>1, <2>1 DEF CursorInv
<1>10. EndInv' /\ PassInv'
  BY <1>1, <1>2 DEF EndInv, PassInv
<1>. QED
  BY <1>5, <1>7, <1>8, <1>9, <1>10 DEF IInv

\* The rest of the text.
LEMMA RestOfText ==
    ASSUME IInv, step = "replace", next = Len(accepted) + 1,
           parts' = parts \o Gap(Len(source)), cursor' = Len(source),
           UNCHANGED <<policy, round, source, accepted, next, drawn, warned, selected>>,
           round = 2 => UNCHANGED mapping
    PROVE  parts' \in Seq(Symbols) /\ TokensInv' /\ StarsInv' /\ AnswerInv'
<1>. USE DEF IInv
<1>1. /\ Len(source) \in Nat /\ cursor \in 0 .. Len(source)
      /\ source \in Seq(Symbols) /\ parts \in Seq(Symbols) /\ Len(parts) \in Nat
  BY LenProperties DEF TypeOK
<1>2. PICK n : n = Len(source)
  OBVIOUS
<1>3. n \in Nat /\ cursor \in 0 .. n /\ n = Len(source)
  BY <1>1, <1>2
<1>4. PICK g : g = Gap(n)
  OBVIOUS
<1>5. /\ g \in Seq(Symbols) /\ Len(g) = n - cursor
      /\ \A i \in 1 .. n - cursor : g[i] = source[cursor + i]
      /\ SubSeq(source, 1, cursor) \o g = SubSeq(source, 1, n)
  <2>1. n \in cursor .. Len(source)
    BY <1>3
  <2>. QED
    BY <1>4, <2>1, GapProperties
<1>6. g \in Seq(Symbols)
  BY <1>5
<1>7. PICK p : p = parts \o g
  OBVIOUS
<1>8. p \in Seq(Symbols)
  BY <1>1, <1>6, <1>7, ConcatProperties
<1>9. Len(p) = Len(parts) + (n - cursor)
  <2>1. Len(p) = Len(parts) + Len(g)
    BY <1>1, <1>6, <1>7, ConcatProperties
  <2>. QED
    BY <1>5, <2>1
<1>10. ASSUME NEW i \in 1 .. Len(parts) PROVE p[i] = parts[i] /\ i \in 1 .. Len(p)
  <2>1. i \in 1 .. Len(p)
    BY <1>1, <1>3, <1>9
  <2>. QED
    BY <1>1, <1>6, <1>7, <2>1, ConcatProperties
<1>11. ASSUME NEW i \in 1 .. n - cursor
       PROVE  p[Len(parts) + i] = source[cursor + i] /\ Len(parts) + i \in 1 .. Len(p)
  <2>1. /\ Len(parts) + i \in 1 .. Len(parts) + Len(g) /\ ~(Len(parts) + i <= Len(parts))
        /\ (Len(parts) + i) - Len(parts) = i
    BY <1>1, <1>3, <1>5
  <2>2. PICK j : j = Len(parts) + i
    OBVIOUS
  <2>3. p[j] = g[j - Len(parts)]
    BY <1>1, <1>6, <1>7, <2>1, <2>2, ConcatProperties
  <2>4. p[Len(parts) + i] = g[i]
    BY <2>1, <2>2, <2>3
  <2>5. Len(parts) + i \in 1 .. Len(p)
    BY <1>1, <1>3, <1>9
  <2>. QED
    BY <1>5, <2>4, <2>5
<1>12. ASSUME NEW i \in 1 .. Len(p)
       PROVE  \/ i \in 1 .. Len(parts)
              \/ \E j \in 1 .. n - cursor : i = Len(parts) + j
  <2>1. CASE i <= Len(parts)
    BY <1>1, <2>1
  <2>2. CASE i > Len(parts)
    <3>1. PICK j : j = i - Len(parts)
      OBVIOUS
    <3>2. j \in 1 .. n - cursor /\ i = Len(parts) + j
      BY <1>1, <1>3, <1>9, <2>2, <3>1
    <3>. QED
      BY <3>2
  <2>. QED
    BY <1>1, <2>1, <2>2
<1>13. ASSUME NEW i \in 1 .. n
       PROVE  \/ i \in 1 .. cursor
              \/ \E j \in 1 .. n - cursor : i = cursor + j
  <2>1. CASE i > cursor
    <3>1. PICK j : j = i - cursor
      OBVIOUS
    <3>2. j \in 1 .. n - cursor /\ i = cursor + j
      BY <1>3, <2>1, <3>1
    <3>. QED
      BY <3>2
  <2>. QED
    BY <1>3, <2>1
<1>14. parts' = p /\ cursor' = n
  BY <1>2, <1>4, <1>7
<1>15. TokensInv'
  <2>. SUFFICES ASSUME ~Redacting'
                PROVE  /\ Restored(parts', drawn') = SubSeq(source', 1, cursor')
                       /\ \A k \in DOMAIN drawn' : k \notin TokensOf(source')
                       /\ \A i \in 1 .. Len(parts') : IsToken(parts'[i]) =>
                             parts'[i] \in TokensOf(source') \cup DOMAIN drawn'
                       /\ \A k \in DOMAIN drawn' : \E i \in 1 .. Len(parts') : parts'[i] = k
    BY Zenon DEF TokensInv
  <2>1. ~Redacting
    BY DEF Redacting
  <2>2. /\ Restored(parts, drawn) = SubSeq(source, 1, cursor)
        /\ \A k \in DOMAIN drawn : k \notin TokensOf(source)
        /\ \A i \in 1 .. Len(parts) :
              IsToken(parts[i]) => parts[i] \in TokensOf(source) \cup DOMAIN drawn
        /\ \A k \in DOMAIN drawn : \E i \in 1 .. Len(parts) : parts[i] = k
    BY <2>1 DEF TokensInv, Masking
  <2>3. IsMapping(drawn)
    BY DEF TypeOK, IsMapping
  <2>4. Restored(g, drawn) = g
    <3>1. ASSUME NEW i \in 1 .. Len(g) PROVE g[i] \notin DOMAIN drawn
      <4>1. i \in 1 .. n - cursor /\ cursor + i \in 1 .. Len(source)
        BY <1>3, <1>5
      <4>2. g[i] = source[cursor + i]
        BY <1>5, <4>1
      <4>3. IsToken(g[i]) => g[i] \in TokensOf(source)
        BY <1>1, <4>1, <4>2, TokensAt
      <4>. QED
        BY <2>2, <2>3, <4>3 DEF IsMapping, IsToken
    <3>. QED
      BY <1>6, <2>3, <3>1, RestoredPlain
  <2>5. Restored(p, drawn) = Restored(parts, drawn) \o Restored(g, drawn)
    BY <1>1, <1>6, <1>7, <2>3, RestoredConcat
  <2>6. Restored(p, drawn) = SubSeq(source, 1, n)
    <3>1. SubSeq(source, 1, cursor) \o g = SubSeq(source, 1, n)
      BY <1>5
    <3>. QED
      BY <2>2, <2>4, <2>5, <3>1, Zenon
  <2>7. ASSUME NEW i \in 1 .. Len(p), IsToken(p[i])
        PROVE  p[i] \in TokensOf(source) \cup DOMAIN drawn
    <3>1. CASE i \in 1 .. Len(parts)
      BY <1>10, <2>2, <2>7, <3>1
    <3>2. ASSUME NEW j \in 1 .. n - cursor, i = Len(parts) + j
          PROVE  p[i] \in TokensOf(source) \cup DOMAIN drawn
      <4>1. p[i] = source[cursor + j] /\ cursor + j \in 1 .. Len(source)
        BY <1>3, <1>11, <3>2
      <4>. QED
        BY <1>1, <2>7, <4>1, TokensAt
    <3>. QED
      BY <1>12, <3>1, <3>2
  <2>8. ASSUME NEW k \in DOMAIN drawn PROVE \E i \in 1 .. Len(p) : p[i] = k
    <3>1. PICK i \in 1 .. Len(parts) : parts[i] = k
      BY <2>2
    <3>. QED
      BY <1>10, <3>1
  <2>9. source' = source /\ drawn' = drawn
    OBVIOUS
  <2>10. \A k \in DOMAIN drawn : k \notin TokensOf(source)
    BY <2>2
  <2>. QED
    BY ONLY <1>14, <2>6, <2>7, <2>8, <2>9, <2>10, Zenon
<1>16. StarsInv'
  <2>. SUFFICES ASSUME Redacting'
                PROVE  /\ Len(parts') = cursor'
                       /\ \A i \in 1 .. cursor' :
                             parts'[i] = IF \E j \in 1 .. next' - 1 :
                                               accepted'[j].start < i /\ i <= accepted'[j].end
                                         THEN Star ELSE source'[i]
    BY Zenon DEF StarsInv
  <2>1. Redacting
    BY DEF Redacting
  <2>2. /\ Len(parts) = cursor
        /\ \A i \in 1 .. cursor :
              parts[i] = IF \E j \in 1 .. next - 1 :
                               accepted[j].start < i /\ i <= accepted[j].end
                         THEN Star ELSE source[i]
    BY <2>1 DEF StarsInv, Masking
  <2>3. Len(p) = n
    BY <1>1, <1>3, <1>9, <2>2
  <2>4. ASSUME NEW i \in 1 .. n
        PROVE  p[i] = IF \E j \in 1 .. next - 1 :
                            accepted[j].start < i /\ i <= accepted[j].end
                      THEN Star ELSE source[i]
    <3>1. CASE i \in 1 .. cursor
      <4>1. p[i] = parts[i]
        BY <1>10, <2>2, <3>1
      <4>. QED
        BY <2>2, <3>1, <4>1
    <3>2. ASSUME NEW k \in 1 .. n - cursor, i = cursor + k
          PROVE  p[i] = IF \E j \in 1 .. next - 1 :
                              accepted[j].start < i /\ i <= accepted[j].end
                        THEN Star ELSE source[i]
      <4>1. p[i] = source[i]
        BY <1>11, <2>2, <3>2
      <4>2. ASSUME NEW j \in 1 .. next - 1, i <= accepted[j].end PROVE FALSE
        <5>1. j \in 1 .. Len(accepted) /\ accepted[j].end <= cursor
          BY NextSpan
        <5>2. accepted[j].end \in Nat
          BY <5>1, AcceptedSpans
        <5>. QED
          BY <1>3, <3>2, <4>2, <5>1, <5>2
      <4>. QED
        BY <4>1, <4>2
    <3>. QED
      BY <1>13, <3>1, <3>2
  <2>5. source' = source /\ accepted' = accepted /\ next' = next
    OBVIOUS
  <2>. QED
    BY ONLY <1>14, <2>3, <2>4, <2>5, Zenon
<1>17. AnswerInv'
  <2>. SUFFICES ASSUME round' = 2
                PROVE  /\ ~warned' => TokensOf(source') = DOMAIN mapping'
                       /\ \A s \in selected' : ~TouchesToken(s)'
                       /\ \A k \in DOMAIN drawn' : k \notin DOMAIN mapping'
                       /\ \A i \in 1 .. cursor' : IsToken(source'[i]) =>
                             \E j \in 1 .. Len(parts') : parts'[j] = source'[i]
    BY Zenon DEF AnswerInv
  <2>1. /\ ~warned => TokensOf(source) = DOMAIN mapping
        /\ \A s \in selected : ~TouchesToken(s)
        /\ \A k \in DOMAIN drawn : k \notin DOMAIN mapping
        /\ \A i \in 1 .. cursor : IsToken(source[i]) =>
              \E j \in 1 .. Len(parts) : parts[j] = source[i]
    BY DEF AnswerInv, Masking
  <2>2. mapping' = mapping /\ source' = source /\ drawn' = drawn
    OBVIOUS
  <2>3. /\ ~warned' => TokensOf(source') = DOMAIN mapping'
        /\ \A s \in selected' : ~TouchesToken(s)'
    BY <2>1, <2>2 DEF TouchesToken, TokensOf
  <2>4. ASSUME NEW i \in 1 .. n, IsToken(source[i])
        PROVE  \E j \in 1 .. Len(p) : p[j] = source[i]
    <3>1. CASE i \in 1 .. cursor
      <4>1. PICK j \in 1 .. Len(parts) : parts[j] = source[i]
        BY <2>1, <2>4, <3>1
      <4>. QED
        BY <1>10, <4>1
    <3>2. ASSUME NEW j \in 1 .. n - cursor, i = cursor + j
          PROVE  \E k \in 1 .. Len(p) : p[k] = source[i]
      BY <1>11, <3>2
    <3>. QED
      BY <1>13, <3>1, <3>2
  <2>5. \A k \in DOMAIN drawn : k \notin DOMAIN mapping
    BY <2>1
  <2>. QED
    BY ONLY <1>14, <2>2, <2>3, <2>4, <2>5, Zenon
<1>. QED
  BY <1>8, <1>14, <1>15, <1>16, <1>17

\* The rest of the text follows, and the run ends or goes on.
LEMMA EndReplaceNext == IInv /\ EndReplace => IInv'
<1>. SUFFICES ASSUME IInv, EndReplace PROVE IInv'
  OBVIOUS
<1>1. /\ step = "replace" /\ next = Len(accepted) + 1
      /\ parts' = parts \o Gap(Len(source)) /\ cursor' = Len(source)
      /\ UNCHANGED <<call, policy, round, source, todo, accepted, next, drawn,
                     warned, selected>>
      /\ \/ /\ call = "process" /\ step' = "done" /\ answer' = parts'
            /\ UNCHANGED <<mapping, masked>>
         \/ /\ call = "proxy" /\ round = 1 /\ step' = "llm"
            /\ masked' = parts' /\ mapping' = drawn /\ UNCHANGED answer
         \/ /\ call = "proxy" /\ round = 2 /\ step' = "restore"
            /\ UNCHANGED <<mapping, masked, answer>>
  BY DEF EndReplace
<1>2. TypeOK /\ SpansInv /\ Disjoint /\ DroppedForReason /\ PassInv
  BY DEF IInv
<1>3. round = 2 => UNCHANGED mapping
  BY <1>1
<1>4. parts' \in Seq(Symbols) /\ TokensInv' /\ StarsInv' /\ AnswerInv'
  BY <1>1, <1>3, RestOfText, Zenon
<1>5. Len(source) \in Nat /\ round \in 1 .. 2
  BY <1>2, LenProperties DEF TypeOK
<1>6. TypeOK'
  <2>1. cursor' \in 0 .. Len(source')
    BY <1>1, <1>5
  <2>2. masked' \in Seq(Symbols) /\ answer' \in Seq(Symbols)
    BY <1>1, <1>2, <1>4 DEF TypeOK
  <2>3. /\ DOMAIN mapping' \subseteq Tokens
        /\ \A k \in DOMAIN mapping' : mapping'[k] \in Seq(Symbols)
    BY <1>1, <1>2 DEF TypeOK
  <2>4. step' \in Steps
    BY <1>1 DEF Steps
  <2>. QED
    BY <1>1, <1>2, <1>4, <2>1, <2>2, <2>3, <2>4 DEF TypeOK
<1>7. SpansInv' /\ Disjoint' /\ DroppedForReason'
  <2>1. todo = {} /\ step' \notin {"detect", "resolve"}
    BY <1>1, <1>2 DEF SpansInv
  <2>. QED
    BY <1>1, <1>2, <2>1 DEF SpansInv, Disjoint, DroppedForReason, Before, Overlap, Outranks
<1>8. CursorInv' /\ EndInv'
  BY <1>1 DEF CursorInv, EndInv
<1>9. PassInv'
  <2>1. call = "process" => round = 1
    BY <1>2, <1>5 DEF PassInv
  <2>. QED
    BY <1>1, <1>2, <2>1 DEF PassInv
<1>. QED
  BY <1>4, <1>6, <1>7, <1>8, <1>9 DEF IInv

\* The LLM answers or fails.
LEMMA GenerateNext == IInv /\ Generate => IInv'
<1>. SUFFICES ASSUME IInv, Generate PROVE IInv'
  OBVIOUS
<1>. USE DEF IInv
<1>1. step = "llm" /\ UNCHANGED <<call, policy, todo, parts, drawn, mapping, masked, answer>>
  BY DEF Generate
<1>2. todo = {} /\ call = "proxy" /\ round = 1
  BY <1>1 DEF SpansInv, PassInv
<1>3. CASE /\ \E t \in Replies(masked) : source' = t /\ warned' = Warn(t)
           /\ step' = "detect" /\ round' = 2
           /\ accepted' = <<>> /\ next' = 1 /\ cursor' = 0 /\ selected' = {}
  <2>1. PICK t \in Replies(masked) : source' = t /\ warned' = Warn(t)
    BY <1>3
  <2>2. source' \in Seq(Symbols) /\ Len(source') \in Nat
    <3>1. masked \in Seq(Symbols)
      BY DEF TypeOK
    <3>2. t \in Seq(Symbols)
      BY <3>1, RepliesType
    <3>. QED
      BY <2>1, <3>2, LenProperties
  <2>3. accepted' \in Seq(Span) /\ Len(accepted') = 0 /\ DOMAIN accepted' = {}
    BY <1>3
  <2>4. TypeOK'
    <3>1. next' \in 1 .. Len(accepted') + 1 /\ cursor' \in 0 .. Len(source')
      BY <1>3, <2>2, <2>3
    <3>2. warned' \in BOOLEAN
      BY <2>1 DEF Warn
    <3>. QED
      BY <1>1, <1>2, <1>3, <2>2, <2>3, <3>1, <3>2 DEF TypeOK, Steps
  <2>5. SpansInv' /\ Disjoint' /\ DroppedForReason'
    BY <1>1, <1>2, <1>3, <2>3 DEF SpansInv, Disjoint, DroppedForReason
  <2>6. CursorInv' /\ TokensInv' /\ StarsInv' /\ EndInv'
    BY <1>3 DEF CursorInv, TokensInv, StarsInv, EndInv, Masking
  <2>7. PassInv'
    BY <1>1, <1>2, <1>3 DEF PassInv
  <2>8. AnswerInv'
    <3>1. ~warned' => TokensOf(source') = DOMAIN mapping'
      BY <1>1, <2>1 DEF Warn
    <3>2. ~Masking' /\ selected' = {}
      BY <1>3 DEF Masking
    <3>. QED
      BY ONLY <3>1, <3>2, Zenon DEF AnswerInv
  <2>. QED
    BY <2>4, <2>5, <2>6, <2>7, <2>8
<1>4. CASE /\ step' = "failed"
           /\ UNCHANGED <<source, warned, round, accepted, next, cursor, selected>>
  <2>1. TypeOK'
    BY <1>1, <1>4 DEF TypeOK, Steps
  <2>2. SpansInv' /\ Disjoint' /\ DroppedForReason'
    BY <1>1, <1>2, <1>4 DEF SpansInv, Disjoint, DroppedForReason, Before, Overlap, Outranks
  <2>3. CursorInv' /\ TokensInv' /\ StarsInv' /\ EndInv'
    BY <1>4 DEF CursorInv, TokensInv, StarsInv, EndInv, Masking
  <2>4. PassInv' /\ AnswerInv'
    BY <1>2, <1>4 DEF PassInv, AnswerInv
  <2>. QED
    BY <2>1, <2>2, <2>3, <2>4
<1>. QED
  BY <1>3, <1>4 DEF Generate

\* The answer is restored.
LEMMA RestoreNext == IInv /\ Restore => IInv'
<1>. SUFFICES ASSUME IInv, Restore PROVE IInv'
  OBVIOUS
<1>. USE DEF IInv
<1>1. /\ step = "restore" /\ step' = "done" /\ answer' = Restored(parts, mapping)
      /\ UNCHANGED <<call, policy, round, source, todo, accepted, next, cursor,
                     parts, drawn, mapping, masked, warned, selected>>
  BY DEF Restore, RestoredFrom
<1>2. answer' \in Seq(Symbols)
  <2>1. IsMapping(mapping) /\ parts \in Seq(Symbols)
    BY DEF TypeOK, IsMapping
  <2>. QED
    BY <1>1, <2>1, RestoredType
<1>3. TypeOK'
  BY <1>1, <1>2 DEF TypeOK, Steps
<1>4. SpansInv' /\ Disjoint' /\ DroppedForReason'
  BY <1>1 DEF SpansInv, Disjoint, DroppedForReason, Before, Overlap, Outranks
<1>5. CursorInv' /\ EndInv'
  BY <1>1 DEF CursorInv, EndInv, Masking
<1>6. TokensInv'
  <2>1. Masking /\ (Redacting <=> Redacting')
    BY <1>1 DEF Masking, Redacting
  <2>. QED
    BY <1>1, <2>1 DEF TokensInv, TokensOf, IsToken, Restored, Rewrite
<1>7. StarsInv'
  <2>1. Masking /\ (Redacting <=> Redacting')
    BY <1>1 DEF Masking, Redacting
  <2>. QED
    BY <1>1, <2>1 DEF StarsInv
<1>8. PassInv'
  BY <1>1 DEF PassInv
<1>9. AnswerInv'
  BY <1>1 DEF AnswerInv, Masking, TouchesToken, TokensOf, IsToken
<1>. QED
  BY <1>3, <1>4, <1>5, <1>6, <1>7, <1>8, <1>9

\* Every step preserves the invariant.
LEMMA IInvNext == IInv /\ [Next]_vars => IInv'
<1>1. ASSUME IInv, UNCHANGED vars PROVE IInv'
  <2>1. UNCHANGED <<call, policy, step, round, source, todo, accepted, next, cursor,
                    parts, drawn, mapping, masked, warned, answer, selected>>
    BY <1>1 DEF vars
  <2>2. TypeOK' /\ SpansInv' /\ Disjoint' /\ DroppedForReason'
    BY <1>1, <2>1
       DEF IInv, TypeOK, SpansInv, Disjoint, DroppedForReason, Before, Overlap, Outranks
  <2>3. CursorInv' /\ EndInv' /\ PassInv'
    BY <1>1, <2>1 DEF IInv, CursorInv, EndInv, PassInv, Masking
  <2>4. TokensInv' /\ StarsInv'
    BY <1>1, <2>1 DEF IInv, TokensInv, StarsInv, Masking, Redacting, TokensOf, IsToken
  <2>5. AnswerInv'
    BY <1>1, <2>1 DEF IInv, AnswerInv, Masking, TouchesToken, TokensOf, IsToken
  <2>. QED
    BY <2>2, <2>3, <2>4, <2>5 DEF IInv
<1>. QED
  BY <1>1, DetectNext, ResolveNext, EndResolveNext, ReplaceNext, EndReplaceNext,
     GenerateNext, RestoreNext DEF Next

-----------------------------------------------------------------------------
(* The theorems.                                                           *)

\* The invariant holds in every state of every run.
THEOREM Invariance == Spec => []IInv
<1>. QED
  BY IInvInit, IInvNext, PTL DEF Spec

\* The variables have the types that the code gives them.
THEOREM TypeCorrectness == Spec => []TypeOK
<1>1. IInv => TypeOK
  BY DEF IInv
<1>. QED
  BY <1>1, Invariance, PTL

\* The spans that resolve_spans accepts are in source order and disjoint,
\* although it compares each with two neighbours only: mask_resolved never
\* raises ValueError, whatever the detectors found.
THEOREM Replaceability == Spec => []ReplaceableInOrder
<1>1. IInv => ReplaceableInOrder
  <2>. SUFFICES ASSUME IInv PROVE Disjoint /\ NeverRejected
    BY DEF ReplaceableInOrder
  <2>1. Disjoint
    BY DEF IInv
  <2>2. NeverRejected
    <3>. SUFFICES ASSUME step = "replace", next <= Len(accepted)
                  PROVE  ~Reject(accepted[next])
      BY DEF NeverRejected
    <3>1. cursor \in Nat /\ Len(source) \in Nat
      BY LenProperties DEF IInv, TypeOK
    <3>2. /\ accepted[next].start \in cursor .. Len(source)
          /\ accepted[next].end \in accepted[next].start + 1 .. Len(source)
      BY NextSpan
    <3>. QED
      BY <3>1, <3>2 DEF Reject
  <2>. QED
    BY <2>1, <2>2
<1>. QED
  BY <1>1, Invariance, PTL

\* resolve_spans drops a span if and only if it overlaps one that it accepted
\* and that goes before it.
THEOREM Resolution == Spec => []DroppedForReason
<1>1. IInv => DroppedForReason
  BY DEF IInv
<1>. QED
  BY <1>1, Invariance, PTL

\* In token mode, restoring the masked text gives the text that was masked;
\* in redact mode, the masked text has stars for the accepted spans and is the
\* text elsewhere.
THEOREM Exactness == Spec => []MaskExact
<1>1. ASSUME IInv PROVE RestoreExact
  <2>. SUFFICES ASSUME step \in {"done", "llm", "restore"}, ~Redacting
                PROVE  Restored(parts, drawn) = source
    BY DEF RestoreExact
  <2>1. Masking /\ cursor = Len(source)
    BY <1>1 DEF IInv, EndInv, Masking
  <2>2. Restored(parts, drawn) = SubSeq(source, 1, Len(source))
    BY <1>1, <2>1 DEF IInv, TokensInv
  <2>3. source \in Seq(Symbols)
    BY <1>1 DEF IInv, TypeOK
  <2>4. SubSeq(source, 1, Len(source)) = source
    BY <2>3, SubSeqFull
  <2>. QED
    BY <2>2, <2>4, Zenon
<1>2. ASSUME IInv PROVE RedactAligned
  <2>. SUFFICES ASSUME step = "done", Redacting
                PROVE  /\ Len(answer) = Len(source)
                       /\ \A i \in DOMAIN answer :
                             answer[i] = IF \E s \in Range(accepted) :
                                               s.start < i /\ i <= s.end
                                         THEN Star ELSE source[i]
    BY DEF RedactAligned
  <2>1. answer = parts
    BY <1>2 DEF IInv, PassInv, Redacting
  <2>2. /\ cursor = Len(source) /\ next = Len(accepted) + 1
        /\ Len(parts) = cursor
        /\ \A i \in 1 .. cursor :
              parts[i] = IF \E j \in 1 .. next - 1 :
                               accepted[j].start < i /\ i <= accepted[j].end
                         THEN Star ELSE source[i]
    BY <1>2 DEF IInv, EndInv, StarsInv, Masking
  <2>3. /\ DOMAIN answer = 1 .. Len(answer) /\ DOMAIN accepted = 1 .. Len(accepted)
        /\ Len(accepted) \in Nat
    BY <1>2, LenProperties DEF IInv, TypeOK
  <2>4. next - 1 = Len(accepted)
    BY <2>2, <2>3
  <2>5. ASSUME NEW i
        PROVE  (\E j \in 1 .. next - 1 : accepted[j].start < i /\ i <= accepted[j].end)
                  <=> \E s \in Range(accepted) : s.start < i /\ i <= s.end
    BY <2>3, <2>4 DEF Range
  <2>. QED
    BY <2>1, <2>2, <2>3, <2>5
<1>3. IInv => MaskExact
  BY <1>1, <1>2 DEF MaskExact
<1>. QED
  BY <1>3, Invariance, PTL

\* At the end of a /proxy call the second pass is over, its tokens are in the
\* text that is restored, and restore does not know them.
LEMMA EndOfProxy ==
    ASSUME IInv, step = "done", call = "proxy"
    PROVE  /\ round = 2 /\ answer = Restored(parts, mapping)
           /\ IsMapping(mapping) /\ parts \in Seq(Symbols)
           /\ cursor = Len(source)
           /\ \A k \in DOMAIN drawn : /\ k \notin DOMAIN mapping
                                      /\ \E i \in 1 .. Len(parts) : parts[i] = k
<1>1. round = 2 /\ answer = Restored(parts, mapping)
  BY DEF IInv, PassInv
<1>2. IsMapping(mapping) /\ parts \in Seq(Symbols)
  BY DEF IInv, TypeOK, IsMapping
<1>3. cursor = Len(source) /\ Masking /\ ~Redacting
  BY <1>1 DEF IInv, EndInv, Masking, Redacting
<1>4. \A k \in DOMAIN drawn : k \notin DOMAIN mapping
  BY <1>1, <1>3 DEF IInv, AnswerInv
<1>5. \A k \in DOMAIN drawn : \E i \in 1 .. Len(parts) : parts[i] = k
  BY <1>3 DEF IInv, TokensInv
<1>. QED
  BY <1>1, <1>2, <1>3, <1>4, <1>5

\* What the second pass of /proxy masked in the LLM's answer stays masked in
\* what the client gets.
THEOREM Secrecy == Spec => []NewContentStaysMasked
<1>1. ASSUME IInv, step = "done", call = "proxy", NEW k \in DOMAIN drawn
      PROVE  k \in TokensOf(answer)
  <2>1. PICK i \in 1 .. Len(parts) : parts[i] = k
    BY <1>1, EndOfProxy
  <2>2. /\ k \notin DOMAIN mapping /\ answer = Restored(parts, mapping)
        /\ IsMapping(mapping) /\ parts \in Seq(Symbols)
    BY <1>1, EndOfProxy
  <2>3. Holds(answer, <<k>>)
    BY <2>1, <2>2, RestoredHolds
  <2>4. PICK b : b = <<k>>
    OBVIOUS
  <2>5. Len(b) = 1 /\ b[1] = k
    BY <2>4
  <2>6. \E j \in 1 .. Len(answer) : answer[j] = k
    <3>1. 1 \in 1 .. Len(b)
      BY <2>5
    <3>2. \E j : j + 1 \in 1 .. Len(answer) /\ answer[j + 1] = b[1]
      BY <2>3, <2>4, <3>1, Zenon DEF Holds
    <3>. QED
      BY <2>5, <3>2, Zenon
  <2>7. answer \in Seq(Symbols) /\ k \in Tokens
    BY <1>1 DEF IInv, TypeOK
  <2>. QED
    BY <2>6, <2>7, TokensAt DEF IsToken
<1>2. IInv => NewContentStaysMasked
  BY <1>1 DEF NewContentStaysMasked
<1>. QED
  BY <1>2, Invariance, PTL

\* Without the warning about tokens, every value that was taken out of the
\* payload is in what the client gets.
THEOREM Completeness == Spec => []WarnedOrComplete
<1>1. ASSUME IInv, step = "done", call = "proxy", ~warned, NEW k \in DOMAIN mapping
      PROVE  Holds(answer, mapping[k])
  <2>1. /\ round = 2 /\ answer = Restored(parts, mapping)
        /\ IsMapping(mapping) /\ parts \in Seq(Symbols) /\ cursor = Len(source)
    BY <1>1, EndOfProxy
  <2>2. k \in TokensOf(source)
    BY <1>1, <2>1 DEF IInv, AnswerInv
  <2>3. source \in Seq(Symbols)
    BY <1>1 DEF IInv, TypeOK
  <2>4. PICK i \in 1 .. Len(source) : source[i] = k /\ k \in Tokens
    BY <2>2, <2>3, TokensAt
  <2>5. PICK j \in 1 .. Len(parts) : parts[j] = k
    BY <1>1, <2>1, <2>4 DEF IInv, AnswerInv, Masking, IsToken
  <2>. QED
    BY <1>1, <2>1, <2>5, RestoredHolds
<1>2. ASSUME NEW k, Holds(answer, mapping[k])
      PROVE  \E i \in 0 .. Len(answer) - Len(mapping[k]) :
                SubSeq(answer, i + 1, i + Len(mapping[k])) = mapping[k]
  BY <1>2, Zenon DEF Holds
<1>3. IInv => WarnedOrComplete
  BY <1>1, <1>2, Zenon DEF WarnedOrComplete
<1>. QED
  BY <1>3, Invariance, PTL

=============================================================================
