--------------------------- MODULE LoadDriverProofs ---------------------------
(***************************************************************************)
(* Theorems about LoadDriver, for any number of arrivals and any limit of  *)
(* active pairs.                                                           *)
(***************************************************************************)
EXTENDS LoadDriver, SequenceTheorems, FiniteSetTheorems, TLAPS

-----------------------------------------------------------------------------
(* The inductive invariant.                                                *)

\* The types, without the bounds of the counters.
Typed ==
    /\ ready \in Seq(Handles) /\ IsInjective(ready)
    /\ driver \in {"arrivals", "end", "gather", "done"}
    /\ asleep \in BOOLEAN
    /\ pair \in [Pairs -> {"none", "new", "mask", "demask", "ended"}]
    /\ reply \in [Pairs -> Replies \cup {"none"}]
    /\ gathered \subseteq Pairs /\ active \subseteq Pairs /\ full \subseteq Pairs
    /\ count \in [Counters -> Nat]

Queued == Range(ready)

\* Pairs that have not arrived; replies that are awaited; the active set.
PairsInv ==
    /\ \A i \in Pairs : i > count["scheduled"] => pair[i] = "none"
    /\ \A i \in Pairs : reply[i] # "none" => pair[i] \in {"mask", "demask"}
    /\ Running \subseteq active
    /\ Cardinality(active) <= Concurrency

\* What the handles in the queue say; a pair that has ended is active until
\* its callback runs.
HandlesInv ==
    /\ \A i \in Pairs : Handle("pair", i) \in Queued =>
          pair[i] = "new" \/ reply[i] # "none"
    /\ \A i \in Pairs : Handle("discard", i) \in Queued => pair[i] = "ended"
    /\ \A i \in Pairs : Handle("gathered", i) \in Queued =>
          i \in gathered /\ pair[i] = "ended"
    /\ \A i \in active : i \in Running \/ Handle("discard", i) \in Queued

\* The driver is woken by its timer, by its own handle or by the last callback
\* of gather, and by one of these only; gather waits for all that run.
DriverInv ==
    /\ asleep => Driver \notin Queued
    /\ gathered # {} => driver = "gather" /\ ~asleep /\ Driver \notin Queued
    /\ driver \in {"gather", "done"} => Running \subseteq gathered
    /\ driver = "done" => gathered = {}

\* a stands in s before each b.
Precedes(s, a, b) ==
    \A q \in DOMAIN s : s[q] = b => \E p \in 1 .. q - 1 : s[p] = a

\* Active pairs that were not running when the driver last gave way leave the
\* active set before it goes on.
FullInv ==
    driver = "arrivals" =>
        /\ Running \subseteq full
        /\ \A i \in active \ full : Precedes(ready, Handle("discard", i), Driver)

\* The counters: of arrivals, of the most active pairs, and of attempts, of
\* which a pair makes one for each direction.
Demasking == {i \in Pairs : pair[i] = "demask"}
CountsInv ==
    /\ count["scheduled"] <= Arrivals
    /\ driver = "arrivals" => count["scheduled"] < Arrivals
    /\ count["max_active"] <= count["scheduled"] /\ count["max_active"] <= Concurrency
    /\ count["attempts"] <=
          Cardinality(InFlight) + Cardinality(Demasking)
          + 2 * (count["completed"] + count["bad_restore"]
                 + count["throttled"] + count["errors"])
    /\ PairsAccounted
    /\ count["attempts"] = Cardinality(InFlight) + count["success"]
                           + count["throttled"] + count["errors"]

IInv == /\ Typed /\ PairsInv /\ HandlesInv /\ DriverInv /\ FullInv /\ CountsInv

-----------------------------------------------------------------------------
(* Handles and queues.                                                     *)

\* Handles of different kinds or pairs are different.
LEMMA HandlesDiffer ==
    /\ Driver \in Handles
    /\ \A k \in {"pair", "discard", "gathered"}, i \in Pairs : Handle(k, i) \in Handles
    /\ \A k, l, i, j : Handle(k, i) = Handle(l, j) => k = l /\ i = j
    /\ \A k, i : k # "driver" => Handle(k, i) # Driver
<1>1. \A k, l, i, j : Handle(k, i) = Handle(l, j) => k = l /\ i = j
  <2>. SUFFICES ASSUME NEW k, NEW l, NEW i, NEW j, Handle(k, i) = Handle(l, j)
                PROVE  k = l /\ i = j
    OBVIOUS
  <2>1. Handle(k, i).of = k /\ Handle(k, i).pair = i
    BY DEF Handle
  <2>2. Handle(l, j).of = l /\ Handle(l, j).pair = j
    BY DEF Handle
  <2>. QED
    BY <2>1, <2>2
<1>2. ASSUME NEW k, NEW i, k # "driver" PROVE Handle(k, i) # Driver
  <2>1. Handle(k, i).of = k /\ Driver.of = "driver"
    BY DEF Handle, Driver
  <2>. QED
    BY <1>2, <2>1
<1>3. ASSUME NEW k \in {"pair", "discard", "gathered"}, NEW i \in Pairs
      PROVE  Handle(k, i) \in Handles
  BY DEF Handle, Handles
<1>4. Driver \in Handles
  BY DEF Handles
<1>. QED
  BY <1>1, <1>2, <1>3, <1>4

\* A queue without its first handle.
LEMMA Popped ==
    ASSUME NEW s \in Seq(Handles), IsInjective(s), s # <<>>
    PROVE  /\ Tail(s) \in Seq(Handles) /\ IsInjective(Tail(s))
           /\ \A h : h \in Range(Tail(s)) <=> h \in Range(s) /\ h # Head(s)
           /\ Head(s) \in Range(s)
           /\ \A a, b : Precedes(s, a, b) /\ a # Head(s) => Precedes(Tail(s), a, b)
           /\ \A a : ~Precedes(s, a, Head(s))
<1>1. Len(s) \in Nat \ {0} /\ DOMAIN s = 1 .. Len(s)
  BY EmptySeq, LenProperties
<1>2. PICK t : t = Tail(s)
  OBVIOUS
<1>3. /\ t \in Seq(Handles) /\ Len(t) = Len(s) - 1 /\ DOMAIN t = 1 .. Len(s) - 1
      /\ \A i \in 1 .. Len(s) - 1 : t[i] = s[i + 1]
  <2>1. t \in Seq(Handles) /\ Len(t) = Len(s) - 1 /\ \A i \in 1 .. Len(t) : t[i] = s[i + 1]
    BY <1>2, HeadTailProperties
  <2>2. DOMAIN t = 1 .. Len(t)
    BY <2>1, LenProperties
  <2>. QED
    BY <2>1, <2>2
<1>4. Head(s) = s[1] /\ 1 \in DOMAIN s
  BY <1>1
<1>5. ASSUME NEW i \in 1 .. Len(s) - 1
      PROVE  i + 1 \in DOMAIN s /\ i + 1 # 1
  BY <1>1
<1>6. IsInjective(t)
  <2>1. ASSUME NEW i \in 1 .. Len(s) - 1, NEW j \in 1 .. Len(s) - 1, t[i] = t[j]
        PROVE  i = j
    <3>1. s[i + 1] = s[j + 1] /\ i + 1 \in DOMAIN s /\ j + 1 \in DOMAIN s
      BY <1>3, <1>5, <2>1
    <3>2. i + 1 = j + 1
      BY <3>1 DEF IsInjective
    <3>. QED
      BY <1>1, <3>2
  <2>. QED
    BY <1>3, <2>1 DEF IsInjective
<1>7. ASSUME NEW h
      PROVE  h \in Range(t) <=> h \in Range(s) /\ h # s[1]
  <2>1. ASSUME h \in Range(t) PROVE h \in Range(s) /\ h # s[1]
    <3>1. PICK i \in 1 .. Len(s) - 1 : h = s[i + 1]
      BY <1>3, <2>1 DEF Range
    <3>. QED
      BY <1>4, <1>5, <3>1 DEF Range, IsInjective
  <2>2. ASSUME h \in Range(s), h # s[1] PROVE h \in Range(t)
    <3>1. PICK i \in 1 .. Len(s) : h = s[i]
      BY <1>1, <2>2 DEF Range
    <3>2. PICK j : j = i - 1
      OBVIOUS
    <3>3. j \in 1 .. Len(s) - 1 /\ j + 1 = i
      BY <1>1, <2>2, <3>1, <3>2
    <3>4. h = t[j] /\ j \in DOMAIN t
      BY <1>3, <3>1, <3>3
    <3>. QED
      BY <3>4 DEF Range
  <2>. QED
    BY <2>1, <2>2
<1>8. ASSUME NEW a, NEW b, Precedes(s, a, b), a # s[1] PROVE Precedes(t, a, b)
  <2>1. ASSUME NEW q \in 1 .. Len(s) - 1, t[q] = b
        PROVE  \E p \in 1 .. q - 1 : t[p] = a
    <3>1. s[q + 1] = b /\ q + 1 \in DOMAIN s
      BY <1>3, <1>5, <2>1
    <3>2. PICK p \in 1 .. (q + 1) - 1 : s[p] = a
      BY <1>8, <3>1 DEF Precedes
    <3>3. PICK j : j = p - 1
      OBVIOUS
    <3>4. j \in 1 .. q - 1 /\ j + 1 = p /\ j \in 1 .. Len(s) - 1
      BY <1>1, <1>8, <3>2, <3>3
    <3>. QED
      BY <1>3, <3>2, <3>4
  <2>. QED
    BY <1>3, <2>1 DEF Precedes
<1>9. ASSUME NEW a, Precedes(s, a, s[1]) PROVE FALSE
  BY <1>4, <1>9 DEF Precedes
<1>10. s[1] \in Range(s)
  BY <1>4 DEF Range
<1>. QED
  BY <1>2, <1>3, <1>4, <1>6, <1>7, <1>8, <1>9, <1>10

\* Handles that are not in a queue, added behind it.
LEMMA Joined ==
    ASSUME NEW s \in Seq(Handles), IsInjective(s), NEW t \in Seq(Handles), IsInjective(t),
           \A h \in Range(t) : h \notin Range(s)
    PROVE  /\ s \o t \in Seq(Handles) /\ IsInjective(s \o t)
           /\ Range(s \o t) = Range(s) \cup Range(t)
           /\ \A a, b : /\ Precedes(s, a, b)
                        /\ b \in Range(t) => a \in Range(s)
                        => Precedes(s \o t, a, b)
<1>1. /\ Len(s) \in Nat /\ DOMAIN s = 1 .. Len(s)
      /\ Len(t) \in Nat /\ DOMAIN t = 1 .. Len(t)
  BY LenProperties
<1>2. PICK p : p = s \o t
  OBVIOUS
<1>3. p \in Seq(Handles) /\ Len(p) = Len(s) + Len(t)
  BY <1>2, ConcatProperties
<1>4. \A i \in 1 .. Len(s) + Len(t) : p[i] = IF i <= Len(s) THEN s[i] ELSE t[i - Len(s)]
  BY <1>2, ConcatProperties
<1>5. DOMAIN p = 1 .. Len(s) + Len(t)
  BY <1>3, LenProperties
<1>6. ASSUME NEW i \in 1 .. Len(s) + Len(t)
      PROVE  \/ i \in DOMAIN s /\ p[i] = s[i] /\ p[i] \in Range(s)
             \/ /\ i > Len(s) /\ i - Len(s) \in DOMAIN t /\ p[i] = t[i - Len(s)]
                /\ p[i] \in Range(t)
  <2>1. CASE i <= Len(s)
    <3>1. i \in DOMAIN s /\ p[i] = s[i]
      BY <1>1, <1>4, <2>1
    <3>. QED
      BY <3>1 DEF Range
  <2>2. CASE i > Len(s)
    <3>1. i - Len(s) \in DOMAIN t /\ p[i] = t[i - Len(s)]
      BY <1>1, <1>4, <2>2
    <3>. QED
      BY <2>2, <3>1 DEF Range
  <2>. QED
    BY <1>1, <2>1, <2>2
<1>7. IsInjective(p)
  <2>1. ASSUME NEW i \in 1 .. Len(s) + Len(t), NEW j \in 1 .. Len(s) + Len(t), p[i] = p[j]
        PROVE  i = j
    <3>1. CASE i \in DOMAIN s /\ p[i] = s[i] /\ p[i] \in Range(s)
      <4>1. j \in DOMAIN s /\ p[j] = s[j]
        BY <1>6, <2>1, <3>1
      <4>. QED
        BY <2>1, <3>1, <4>1 DEF IsInjective
    <3>2. CASE /\ i > Len(s) /\ i - Len(s) \in DOMAIN t /\ p[i] = t[i - Len(s)]
               /\ p[i] \in Range(t)
      <4>1. j > Len(s) /\ j - Len(s) \in DOMAIN t /\ p[j] = t[j - Len(s)]
        BY <1>6, <2>1, <3>2
      <4>2. i - Len(s) = j - Len(s)
        BY <2>1, <3>2, <4>1 DEF IsInjective
      <4>. QED
        BY <1>1, <4>2
    <3>. QED
      BY <1>6, <3>1, <3>2
  <2>. QED
    BY <1>5, <2>1 DEF IsInjective
<1>8. Range(p) = Range(s) \cup Range(t)
  BY <1>2, RangeConcatenation
<1>9. ASSUME NEW a, NEW b, Precedes(s, a, b), b \in Range(t) => a \in Range(s)
      PROVE  Precedes(p, a, b)
  <2>1. ASSUME NEW q \in 1 .. Len(s) + Len(t), p[q] = b
        PROVE  \E j \in 1 .. q - 1 : p[j] = a
    <3>1. CASE q \in DOMAIN s /\ p[q] = s[q]
      <4>1. PICK j \in 1 .. q - 1 : s[j] = a
        BY <1>9, <2>1, <3>1 DEF Precedes
      <4>2. j \in 1 .. Len(s) + Len(t) /\ j <= Len(s)
        BY <1>1, <3>1
      <4>. QED
        BY <1>4, <4>1, <4>2
    <3>2. CASE q > Len(s) /\ p[q] \in Range(t)
      <4>1. PICK j \in 1 .. Len(s) : s[j] = a
        BY <1>1, <1>9, <2>1, <3>2 DEF Range
      <4>2. j \in 1 .. q - 1 /\ j \in 1 .. Len(s) + Len(t) /\ j <= Len(s)
        BY <1>1, <3>2
      <4>. QED
        BY <1>4, <4>1, <4>2
    <3>. QED
      BY <1>6, <3>1, <3>2
  <2>. QED
    BY <1>5, <2>1 DEF Precedes
<1>. QED
  BY <1>2, <1>3, <1>7, <1>8, <1>9

\* One handle that is not in a queue, added behind it.
LEMMA Pushed ==
    ASSUME NEW s \in Seq(Handles), IsInjective(s), NEW x \in Handles, x \notin Range(s)
    PROVE  /\ Append(s, x) \in Seq(Handles) /\ IsInjective(Append(s, x))
           /\ Range(Append(s, x)) = Range(s) \cup {x}
           /\ \A a, b : /\ Precedes(s, a, b)
                        /\ b = x => a \in Range(s)
                        => Precedes(Append(s, x), a, b)
<1>1. PICK t : t = <<x>>
  OBVIOUS
<1>2. t \in Seq(Handles) /\ DOMAIN t = {1} /\ t[1] = x
  BY <1>1
<1>3. IsInjective(t) /\ Range(t) = {x}
  BY <1>2 DEF IsInjective, Range
<1>4. Append(s, x) = s \o t
  BY <1>1, AppendIsConcat
<1>. QED
  BY <1>2, <1>3, <1>4, Joined

-----------------------------------------------------------------------------
(* Pairs and counters.                                                     *)

\* Sets of pairs are finite.
LEMMA Sizes ==
    ASSUME NEW S, S \subseteq Pairs
    PROVE  /\ IsFiniteSet(S) /\ Cardinality(S) \in Nat
           /\ \A T : T \subseteq S => Cardinality(T) <= Cardinality(S)
           /\ \A i : Cardinality(S \cup {i}) =
                        IF i \in S THEN Cardinality(S) ELSE Cardinality(S) + 1
           /\ \A i : Cardinality(S \ {i}) =
                        IF i \in S THEN Cardinality(S) - 1 ELSE Cardinality(S)
<1>1. IsFiniteSet(Pairs)
  BY ArrivalsAssumption, FS_Interval DEF Pairs
<1>2. IsFiniteSet(S)
  BY <1>1, FS_Subset
<1>3. Cardinality(S) \in Nat
  BY <1>2, FS_CardinalityType
<1>4. \A T : T \subseteq S => Cardinality(T) <= Cardinality(S)
  BY <1>2, FS_Subset
<1>5. \A i : Cardinality(S \cup {i}) =
                IF i \in S THEN Cardinality(S) ELSE Cardinality(S) + 1
  BY <1>2, FS_AddElement
<1>6. \A i : Cardinality(S \ {i}) =
                IF i \in S THEN Cardinality(S) - 1 ELSE Cardinality(S)
  BY <1>2, FS_RemoveElement
<1>. QED
  BY <1>2, <1>3, <1>4, <1>5, <1>6

\* The sets that the counters are compared with, when one pair moves.
LEMMA PairMoves ==
    ASSUME Typed, NEW i \in Pairs, NEW v, pair' = [pair EXCEPT ![i] = v]
    PROVE  /\ pair'[i] = v /\ \A j \in Pairs : j # i => pair'[j] = pair[j]
           /\ Running' = IF v \notin {"none", "ended"} THEN Running \cup {i}
                         ELSE Running \ {i}
           /\ InFlight' = IF v \in {"mask", "demask"} THEN InFlight \cup {i}
                          ELSE InFlight \ {i}
           /\ Demasking' = IF v = "demask" THEN Demasking \cup {i} ELSE Demasking \ {i}
<1>1. pair'[i] = v /\ \A j \in Pairs : j # i => pair'[j] = pair[j]
  BY DEF Typed
<1>2. Running' = IF v \notin {"none", "ended"} THEN Running \cup {i} ELSE Running \ {i}
  BY <1>1 DEF Running
<1>3. InFlight' = IF v \in {"mask", "demask"} THEN InFlight \cup {i} ELSE InFlight \ {i}
  BY <1>1 DEF InFlight
<1>4. Demasking' = IF v = "demask" THEN Demasking \cup {i} ELSE Demasking \ {i}
  BY <1>1 DEF Demasking
<1>. QED
  BY <1>1, <1>2, <1>3, <1>4

\* Their types.
LEMMA SetTypes ==
    /\ Running \subseteq Pairs /\ InFlight \subseteq Pairs /\ Demasking \subseteq Pairs
    /\ Cardinality(Running) \in Nat /\ Cardinality(InFlight) \in Nat
    /\ Cardinality(Demasking) \in Nat
    /\ InFlight \subseteq Running
<1>1. /\ Running \subseteq Pairs /\ InFlight \subseteq Pairs /\ Demasking \subseteq Pairs
      /\ InFlight \subseteq Running
  BY DEF Running, InFlight, Demasking
<1>. QED
  BY <1>1, Sizes

\* Adding up counters.
LEMMA Added ==
    ASSUME NEW c \in [Counters -> Nat], NEW names
    PROVE  /\ Add(c, names) \in [Counters -> Nat]
           /\ \A n \in Counters : n \in names => Add(c, names)[n] = c[n] + 1
           /\ \A n \in Counters : n \notin names => Add(c, names)[n] = c[n]
BY DEF Add

\* The counters are numbers.
LEMMA CountTypes ==
    ASSUME Typed
    PROVE  /\ count["scheduled"] \in Nat /\ count["dropped"] \in Nat
           /\ count["max_active"] \in Nat /\ count["attempts"] \in Nat
           /\ count["success"] \in Nat /\ count["completed"] \in Nat
           /\ count["bad_restore"] \in Nat /\ count["throttled"] \in Nat
           /\ count["errors"] \in Nat
BY DEF Typed, Counters

\* Counting an event.
LEMMA Counted ==
    ASSUME Typed, NEW names, count' = Add(count, names)
    PROVE  /\ count' \in [Counters -> Nat]
           /\ \A n \in Counters : n \in names => count'[n] = count[n] + 1
           /\ \A n \in Counters : n \notin names => count'[n] = count[n]
<1>1. PICK c \in [Counters -> Nat] : c = count
  BY DEF Typed
<1>2. count' = Add(c, names)
  BY <1>1
<1>. QED
  BY <1>1, <1>2, Added

\* Counters stay what they were when no pair moves.
LEMMA CountsStay ==
    ASSUME CountsInv, UNCHANGED <<pair, count>>,
           driver' = "arrivals" => driver = "arrivals"
    PROVE  CountsInv'
<1>1. Running' = Running /\ InFlight' = InFlight /\ Demasking' = Demasking
  BY DEF Running, InFlight, Demasking
<1>. QED
  BY <1>1 DEF CountsInv, PairsAccounted

-----------------------------------------------------------------------------
(* The actions, one by one.                                                *)

\* The initial state satisfies the invariant.
LEMMA IInvInit == Init => IInv
<1>. SUFFICES ASSUME Init PROVE IInv
  OBVIOUS
<1>1. /\ ready = <<>> /\ asleep = TRUE /\ gathered = {} /\ active = {} /\ full = {}
      /\ pair = [i \in Pairs |-> "none"] /\ reply = [i \in Pairs |-> "none"]
      /\ count = [n \in Counters |-> 0]
      /\ driver = IF Arrivals = 0 THEN "end" ELSE "arrivals"
  BY DEF Init
<1>2. Queued = {} /\ ready \in Seq(Handles) /\ IsInjective(ready)
  BY <1>1 DEF Queued, Range, IsInjective
<1>3. Typed
  BY <1>1, <1>2 DEF Typed
<1>4. Running = {} /\ InFlight = {} /\ Demasking = {}
  BY <1>1 DEF Running, InFlight, Demasking
<1>5. Cardinality({}) = 0
  BY FS_EmptySet
<1>6. PairsInv
  BY <1>1, <1>4, <1>5, ConcurrencyAssumption DEF PairsInv
<1>7. HandlesInv /\ DriverInv /\ FullInv
  BY <1>1, <1>2, <1>4 DEF HandlesInv, DriverInv, FullInv
<1>8. CountsInv
  <2>1. \A n \in Counters : count[n] = 0
    BY <1>1
  <2>2. /\ count["scheduled"] = 0 /\ count["dropped"] = 0
        /\ count["max_active"] = 0 /\ count["attempts"] = 0
        /\ count["success"] = 0 /\ count["completed"] = 0
        /\ count["bad_restore"] = 0 /\ count["throttled"] = 0
        /\ count["errors"] = 0
    BY <2>1 DEF Counters
  <2>3. PairsAccounted
    BY <1>4, <1>5, <2>2 DEF PairsAccounted
  <2>4. driver = "arrivals" => 0 < Arrivals
    BY <1>1, ArrivalsAssumption
  <2>. QED
    BY <1>4, <1>5, <2>2, <2>3, <2>4, ArrivalsAssumption, ConcurrencyAssumption DEF CountsInv
<1>. QED
  BY <1>3, <1>6, <1>7, <1>8 DEF IInv

\* The driver's timer.
LEMMA TimerNext == IInv /\ TimerFires => IInv'
<1>. SUFFICES ASSUME IInv, TimerFires PROVE IInv'
  OBVIOUS
<1>. USE DEF IInv
<1>1. /\ asleep /\ asleep' = FALSE /\ ready' = Append(ready, Driver)
      /\ UNCHANGED <<driver, gathered, pair, reply, active, full, count>>
  BY DEF TimerFires
<1>2. Driver \notin Range(ready) /\ gathered = {}
  BY <1>1 DEF DriverInv, Queued
<1>3. /\ ready' \in Seq(Handles) /\ IsInjective(ready')
      /\ Queued' = Queued \cup {Driver}
      /\ \A a : Precedes(ready, a, Driver) /\ a \in Queued => Precedes(ready', a, Driver)
  BY <1>1, <1>2, Pushed, HandlesDiffer DEF Typed, Queued
<1>4. \A k, i : k # "driver" => (Handle(k, i) \in Queued' <=> Handle(k, i) \in Queued)
  BY <1>3, HandlesDiffer
<1>5. Running' = Running
  BY <1>1 DEF Running
<1>6. Typed'
  BY <1>1, <1>3 DEF Typed
<1>7. PairsInv'
  BY <1>1, <1>5 DEF PairsInv
<1>8. HandlesInv'
  BY <1>1, <1>4, <1>5 DEF HandlesInv
<1>9. DriverInv'
  BY <1>1, <1>2, <1>5 DEF DriverInv
<1>10. FullInv'
  <2>1. ASSUME driver = "arrivals", NEW i \in active \ full
        PROVE  Precedes(ready', Handle("discard", i), Driver)
    <3>1. Precedes(ready, Handle("discard", i), Driver) /\ i \notin Running
      BY <2>1 DEF FullInv
    <3>2. Handle("discard", i) \in Queued
      BY <3>1 DEF HandlesInv
    <3>. QED
      BY <1>3, <3>1, <3>2
  <2>. QED
    BY <1>1, <1>5, <2>1 DEF FullInv, Driver
<1>11. CountsInv'
  BY <1>1, CountsStay
<1>. QED
  BY <1>6, <1>7, <1>8, <1>9, <1>10, <1>11

\* A reply wakes the task of a pair.
LEMMA AnswerNext == \A i \in Pairs : IInv /\ Answer(i) => IInv'
<1>. SUFFICES ASSUME NEW i \in Pairs, IInv, Answer(i) PROVE IInv'
  OBVIOUS
<1>. USE DEF IInv
<1>1. PICK r \in Replies : reply' = [reply EXCEPT ![i] = r]
  BY DEF Answer
<1>2. /\ pair[i] \in {"mask", "demask"} /\ reply[i] = "none"
      /\ ready' = Append(ready, Handle("pair", i))
      /\ UNCHANGED <<driver, asleep, gathered, pair, active, full, count>>
  BY DEF Answer
<1>3. /\ reply' \in [Pairs -> Replies \cup {"none"}] /\ r # "none"
      /\ reply'[i] = r /\ \A j \in Pairs : j # i => reply'[j] = reply[j]
  BY <1>1 DEF Typed, Replies
<1>4. Handle("pair", i) \notin Range(ready)
  BY <1>2 DEF HandlesInv, Queued
<1>5. /\ ready' \in Seq(Handles) /\ IsInjective(ready')
      /\ Queued' = Queued \cup {Handle("pair", i)}
      /\ \A a, b : Precedes(ready, a, b) /\ b # Handle("pair", i) => Precedes(ready', a, b)
  BY <1>2, <1>4, Pushed, HandlesDiffer DEF Typed, Queued
<1>6. Running' = Running
  BY <1>2 DEF Running
<1>7. /\ Driver \in Queued' <=> Driver \in Queued
      /\ \A j : j # i => (Handle("pair", j) \in Queued' <=> Handle("pair", j) \in Queued)
      /\ \A j : Handle("discard", j) \in Queued' <=> Handle("discard", j) \in Queued
      /\ \A j : Handle("gathered", j) \in Queued' <=> Handle("gathered", j) \in Queued
  BY <1>5, HandlesDiffer
<1>8. Typed'
  BY <1>2, <1>3, <1>5 DEF Typed
<1>9. PairsInv'
  BY <1>2, <1>3, <1>6 DEF PairsInv
<1>10. HandlesInv'
  BY <1>2, <1>3, <1>6, <1>7 DEF HandlesInv
<1>11. DriverInv'
  BY <1>2, <1>6, <1>7 DEF DriverInv
<1>12. FullInv'
  <2>1. Handle("pair", i) # Driver
    BY HandlesDiffer
  <2>. QED
    BY <1>2, <1>5, <1>6, <2>1 DEF FullInv, Driver
<1>13. CountsInv'
  BY <1>2, CountsStay
<1>. QED
  BY <1>8, <1>9, <1>10, <1>11, <1>12, <1>13

\* The first handle of the queue is taken.
LEMMA Taken ==
    ASSUME Typed, ready # <<>>
    PROVE  /\ Tail(ready) \in Seq(Handles) /\ IsInjective(Tail(ready))
           /\ \A h : h \in Range(Tail(ready)) <=> h \in Queued /\ h # Head(ready)
           /\ Head(ready) \in Queued
           /\ \A a, b : Precedes(ready, a, b) /\ a # Head(ready) =>
                            Precedes(Tail(ready), a, b)
           /\ \A a : ~Precedes(ready, a, Head(ready))
BY Popped DEF Typed, Queued

\* active.discard.
LEMMA DiscardNext == \A i \in Pairs : IInv /\ Discard(i) => IInv'
<1>. SUFFICES ASSUME NEW i \in Pairs, IInv, Discard(i) PROVE IInv'
  OBVIOUS
<1>. USE DEF IInv
<1>1. /\ ready # <<>> /\ Head(ready) = Handle("discard", i)
      /\ ready' = Tail(ready) /\ active' = active \ {i}
      /\ UNCHANGED <<driver, asleep, gathered, pair, reply, full, count>>
  BY DEF Discard
<1>2. /\ ready' \in Seq(Handles) /\ IsInjective(ready')
      /\ \A h : h \in Queued' <=> h \in Queued /\ h # Handle("discard", i)
      /\ Handle("discard", i) \in Queued
      /\ \A a, b : Precedes(ready, a, b) /\ a # Handle("discard", i) => Precedes(ready', a, b)
  BY <1>1, Taken DEF Queued
<1>3. pair[i] = "ended" /\ i \notin Running
  BY <1>2 DEF HandlesInv, Running
<1>4. Running' = Running
  BY <1>1 DEF Running
<1>5. \A j : j # i => Handle("discard", j) # Handle("discard", i)
  BY HandlesDiffer
<1>6. Typed'
  BY <1>1, <1>2 DEF Typed
<1>7. PairsInv'
  <2>1. Cardinality(active') <= Cardinality(active) /\ Cardinality(active) \in Nat
        /\ Cardinality(active') \in Nat
    BY <1>1, Sizes DEF Typed
  <2>2. Cardinality(active') <= Concurrency
    BY <2>1, ConcurrencyAssumption DEF PairsInv
  <2>. QED
    BY <1>1, <1>3, <1>4, <2>2 DEF PairsInv
<1>8. HandlesInv'
  BY <1>1, <1>2, <1>4, <1>5 DEF HandlesInv
<1>9. DriverInv'
  BY <1>1, <1>2, <1>4 DEF DriverInv
<1>10. FullInv'
  BY <1>1, <1>2, <1>4, <1>5 DEF FullInv, Driver
<1>11. CountsInv'
  BY <1>1, CountsStay
<1>. QED
  BY <1>6, <1>7, <1>8, <1>9, <1>10, <1>11

\* One of gather's callbacks.
LEMMA GatherOneNext == \A i \in Pairs : IInv /\ GatherOne(i) => IInv'
<1>. SUFFICES ASSUME NEW i \in Pairs, IInv, GatherOne(i) PROVE IInv'
  OBVIOUS
<1>. USE DEF IInv
<1>1. /\ ready # <<>> /\ Head(ready) = Handle("gathered", i)
      /\ gathered' = gathered \ {i}
      /\ ready' = IF gathered = {i} THEN Append(Tail(ready), Driver) ELSE Tail(ready)
      /\ UNCHANGED <<driver, asleep, pair, reply, active, full, count>>
  BY DEF GatherOne
<1>2. PICK t : t = Tail(ready)
  OBVIOUS
<1>3. /\ t \in Seq(Handles) /\ IsInjective(t)
      /\ \A h : h \in Range(t) <=> h \in Queued /\ h # Handle("gathered", i)
      /\ Handle("gathered", i) \in Queued
  BY <1>1, <1>2, Taken
<1>4. i \in gathered /\ pair[i] = "ended"
  BY <1>3 DEF HandlesInv
<1>5. driver = "gather" /\ ~asleep /\ Driver \notin Queued
  BY <1>4 DEF DriverInv
<1>6. /\ ready' \in Seq(Handles) /\ IsInjective(ready')
      /\ \A h : h \in Queued' => h = Driver \/ (h \in Queued /\ h # Handle("gathered", i))
      /\ \A h : h \in Queued /\ h # Handle("gathered", i) => h \in Queued'
      /\ Driver \in Queued' => gathered' = {}
  <2>1. CASE gathered = {i}
    <3>1. ready' = Append(t, Driver)
      BY <1>1, <1>2, <2>1
    <3>2. Driver \notin Range(t)
      BY <1>3, <1>5
    <3>3. /\ ready' \in Seq(Handles) /\ IsInjective(ready')
          /\ Queued' = Range(t) \cup {Driver}
      BY <1>3, <3>1, <3>2, Pushed, HandlesDiffer DEF Queued
    <3>. QED
      BY <1>1, <1>3, <2>1, <3>3
  <2>2. CASE gathered # {i}
    <3>1. ready' = t
      BY <1>1, <1>2, <2>2
    <3>2. Queued' = Range(t)
      BY <3>1 DEF Queued
    <3>. QED
      BY <1>3, <1>5, <3>1, <3>2
  <2>. QED
    BY <2>1, <2>2
<1>7. Running' = Running /\ i \notin Running
  BY <1>1, <1>4 DEF Running
<1>8. Typed'
  BY <1>1, <1>6 DEF Typed
<1>9. PairsInv'
  BY <1>1, <1>7 DEF PairsInv
<1>10. HandlesInv'
  <2>1. \A j : /\ Handle("pair", j) # Driver /\ Handle("discard", j) # Driver
               /\ Handle("gathered", j) # Driver
               /\ Handle("discard", j) # Handle("gathered", i)
    BY HandlesDiffer
  <2>2. \A j \in Pairs : Handle("pair", j) \in Queued' => Handle("pair", j) \in Queued
    BY <1>6, <2>1
  <2>3. \A j \in Pairs : Handle("discard", j) \in Queued' <=> Handle("discard", j) \in Queued
    BY <1>6, <2>1
  <2>4. \A j \in Pairs : Handle("gathered", j) \in Queued' =>
            Handle("gathered", j) \in Queued /\ j # i
    BY <1>6, <2>1
  <2>5. active' \subseteq Pairs
    BY <1>8 DEF Typed
  <2>. QED
    BY <1>1, <1>7, <2>2, <2>3, <2>4, <2>5 DEF HandlesInv
<1>11. DriverInv'
  <2>1. Running' \subseteq gathered'
    BY <1>1, <1>5, <1>7 DEF DriverInv
  <2>. QED
    BY <1>1, <1>5, <1>6, <2>1 DEF DriverInv
<1>12. FullInv'
  BY <1>1, <1>5 DEF FullInv
<1>13. CountsInv'
  BY <1>1, CountsStay
<1>. QED
  BY <1>8, <1>9, <1>10, <1>11, <1>12, <1>13

\* The driver sleeps: whatever was queued runs before it does.
LEMMA SleepEffect ==
    ASSUME NEW q \in Seq(Handles), IsInjective(q), Driver \notin Range(q), Sleep(q)
    PROVE  /\ ready' \in Seq(Handles) /\ IsInjective(ready') /\ asleep' \in BOOLEAN
           /\ asleep' => Driver \notin Queued'
           /\ \A h : h # Driver => (h \in Queued' <=> h \in Range(q))
           /\ \A a \in Range(q) : Precedes(ready', a, Driver)
<1>1. \A a : Precedes(q, a, Driver)
  BY DEF Precedes, Range
<1>2. CASE ready' = Append(q, Driver) /\ asleep' = FALSE
  <2>1. /\ ready' \in Seq(Handles) /\ IsInjective(ready')
        /\ Queued' = Range(q) \cup {Driver}
        /\ \A a \in Range(q) : Precedes(ready', a, Driver)
    BY <1>1, <1>2, Pushed, HandlesDiffer DEF Queued
  <2>. QED
    BY <1>2, <2>1
<1>3. CASE ready' = q /\ asleep' = TRUE
  <2>1. Queued' = Range(q)
    BY <1>3 DEF Queued
  <2>. QED
    BY <1>1, <1>3, <2>1
<1>. QED
  BY <1>2, <1>3 DEF Sleep

\* The driver's handle is taken: it is not asleep and gather waits for nothing.
LEMMA DriverTaken ==
    ASSUME IInv, ready # <<>>, Head(ready) = Driver, NEW t, t = Tail(ready)
    PROVE  /\ t \in Seq(Handles) /\ IsInjective(t) /\ Driver \notin Range(t)
           /\ \A h : h # Driver => (h \in Range(t) <=> h \in Queued)
           /\ asleep = FALSE /\ gathered = {}
           /\ \A a : ~Precedes(ready, a, Driver)
<1>1. Typed /\ DriverInv
  BY DEF IInv
<1>2. /\ t \in Seq(Handles) /\ IsInjective(t) /\ Driver \in Queued
      /\ \A h : h \in Range(t) <=> h \in Queued /\ h # Driver
      /\ \A a : ~Precedes(ready, a, Driver)
  BY <1>1, Taken
<1>3. asleep = FALSE /\ gathered = {}
  BY <1>1, <1>2 DEF DriverInv, Typed
<1>. QED
  BY <1>2, <1>3

\* An arrival finds no slot.
LEMMA DropNext ==
    ASSUME IInv, ready # <<>>, Head(ready) = Driver, driver = "arrivals",
           NEW i, i = count["scheduled"] + 1,
           driver' = IF i = Arrivals THEN "end" ELSE "arrivals",
           count' = Add(count, {"scheduled", "dropped"}),
           Sleep(Tail(ready)), full' = Running',
           UNCHANGED <<pair, active, gathered, reply>>
    PROVE  IInv'
<1>. USE DEF IInv
<1>1. PICK t : t = Tail(ready)
  OBVIOUS
<1>2. /\ t \in Seq(Handles) /\ IsInjective(t) /\ Driver \notin Range(t)
      /\ \A h : h # Driver => (h \in Range(t) <=> h \in Queued)
      /\ gathered = {}
  BY <1>1, DriverTaken
<1>3. /\ ready' \in Seq(Handles) /\ IsInjective(ready') /\ asleep' \in BOOLEAN
      /\ asleep' => Driver \notin Queued'
      /\ \A h : h # Driver => (h \in Queued' <=> h \in Range(t))
      /\ \A a \in Range(t) : Precedes(ready', a, Driver)
  <2>1. Sleep(t)
    BY <1>1
  <2>. QED
    BY <1>2, <2>1, SleepEffect
<1>4. \A k, j : k # "driver" =>
          /\ Handle(k, j) \in Queued' <=> Handle(k, j) \in Queued
          /\ Handle(k, j) \in Queued => Precedes(ready', Handle(k, j), Driver)
  BY <1>2, <1>3, HandlesDiffer
<1>5. Running' = Running /\ InFlight' = InFlight /\ Demasking' = Demasking
  BY DEF Running, InFlight, Demasking
<1>6. /\ count' \in [Counters -> Nat]
      /\ count'["scheduled"] = count["scheduled"] + 1
      /\ count'["dropped"] = count["dropped"] + 1
      /\ count'["max_active"] = count["max_active"]
      /\ count'["attempts"] = count["attempts"] /\ count'["success"] = count["success"]
      /\ count'["completed"] = count["completed"]
      /\ count'["bad_restore"] = count["bad_restore"]
      /\ count'["throttled"] = count["throttled"] /\ count'["errors"] = count["errors"]
  <2>1. /\ count' \in [Counters -> Nat]
        /\ \A n \in Counters : n \in {"scheduled", "dropped"} => count'[n] = count[n] + 1
        /\ \A n \in Counters : n \notin {"scheduled", "dropped"} => count'[n] = count[n]
    BY Counted
  <2>. QED
    BY ONLY <2>1 DEF Counters
<1>0. /\ count["scheduled"] \in Nat /\ count["dropped"] \in Nat
      /\ count["max_active"] \in Nat /\ count["attempts"] \in Nat
      /\ count["success"] \in Nat /\ count["completed"] \in Nat
      /\ count["bad_restore"] \in Nat /\ count["throttled"] \in Nat
      /\ count["errors"] \in Nat
  BY CountTypes
<1>7. Typed'
  BY <1>2, <1>3, <1>5, <1>6, SetTypes DEF Typed
<1>8. PairsInv'
  <2>1. \A j \in Pairs : j > count'["scheduled"] => j > count["scheduled"]
    BY <1>0, <1>6 DEF Pairs
  <2>. QED
    BY <1>5, <2>1 DEF PairsInv
<1>9. HandlesInv'
  BY <1>4, <1>5 DEF HandlesInv
<1>10. DriverInv'
  BY <1>2, <1>3 DEF DriverInv
<1>11. FullInv'
  BY <1>4, <1>5 DEF FullInv, HandlesInv, Driver
<1>12. CountsInv'
  <2>0. /\ CountsInv /\ PairsAccounted
        /\ driver' = IF count["scheduled"] + 1 = Arrivals THEN "end" ELSE "arrivals"
    BY DEF CountsInv
  <2>1. /\ count'["scheduled"] <= Arrivals
        /\ driver' = "arrivals" => count'["scheduled"] < Arrivals
    <3>1. PICK s \in Nat : s = count["scheduled"]
      BY <1>0
    <3>2. s < Arrivals
      BY <2>0, <3>1 DEF CountsInv
    <3>3. s + 1 <= Arrivals /\ (s + 1 # Arrivals => s + 1 < Arrivals)
      BY ONLY <3>1, <3>2, ArrivalsAssumption, s \in Nat
    <3>4. count'["scheduled"] = s + 1
      BY <1>6, <3>1
    <3>5. s + 1 = Arrivals => driver' # "arrivals"
      BY <2>0, <3>1
    <3>. QED
      BY <3>3, <3>4, <3>5
  <2>2. PICK a, b, c : a = Cardinality(Running) /\ b = Cardinality(InFlight)
                       /\ c = Cardinality(Demasking)
    OBVIOUS
  <2>3. a \in Nat /\ b \in Nat /\ c \in Nat
    BY <2>2, SetTypes
  <2>4. Cardinality(Running') = a /\ Cardinality(InFlight') = b /\ Cardinality(Demasking') = c
    BY <1>5, <2>2
  <2>5. PairsAccounted'
    BY ONLY <1>0, <1>6, <2>0, <2>2, <2>3, <2>4 DEF PairsAccounted
  <2>. QED
    BY ONLY <1>0, <1>6, <2>0, <2>1, <2>2, <2>3, <2>4, <2>5 DEF CountsInv
<1>. QED
  BY <1>7, <1>8, <1>9, <1>10, <1>11, <1>12

\* An arrival finds a slot: its pair is queued behind what is ready.
LEMMA StartNext ==
    ASSUME IInv, ready # <<>>, Head(ready) = Driver, driver = "arrivals",
           NEW i, i = count["scheduled"] + 1,
           driver' = IF i = Arrivals THEN "end" ELSE "arrivals",
           ~NoSlot, pair' = [pair EXCEPT ![i] = "new"], active' = active \cup {i},
           NEW names,
           names = {"scheduled"} \cup
                   (IF Cardinality(active) + 1 > count["max_active"] THEN {"max_active"} ELSE {}),
           count' = Add(count, names),
           Sleep(Append(Tail(ready), Handle("pair", i))), full' = Running',
           UNCHANGED <<gathered, reply>>
    PROVE  IInv'
<1>. USE DEF IInv
<1>1. PICK t : t = Tail(ready)
  OBVIOUS
<1>2. /\ t \in Seq(Handles) /\ IsInjective(t) /\ Driver \notin Range(t)
      /\ \A h : h # Driver => (h \in Range(t) <=> h \in Queued)
      /\ gathered = {}
  BY <1>1, DriverTaken
<1>3. PICK s \in Nat : s = count["scheduled"]
  BY CountTypes
<1>4. s < Arrivals /\ i = s + 1
  BY <1>3 DEF CountsInv
<1>5. i \in Pairs /\ i > s
  BY ONLY <1>4, ArrivalsAssumption, s \in Nat DEF Pairs
<1>6. pair[i] = "none" /\ reply[i] = "none"
  BY <1>3, <1>5 DEF PairsInv
<1>7. /\ pair'[i] = "new" /\ \A j \in Pairs : j # i => pair'[j] = pair[j]
      /\ Running' = Running \cup {i}
      /\ InFlight' = InFlight \ {i}
      /\ Demasking' = Demasking \ {i}
  BY <1>5, PairMoves
<1>8. i \notin Running /\ i \notin InFlight /\ i \notin Demasking
  BY <1>6 DEF Running, InFlight, Demasking
<1>9. InFlight' = InFlight /\ Demasking' = Demasking
  BY <1>7, <1>8
<1>10. Handle("pair", i) \notin Range(t) /\ Handle("pair", i) # Driver
       /\ Handle("pair", i) \in Handles
  BY <1>2, <1>5, <1>6, HandlesDiffer DEF HandlesInv
<1>11. PICK q : q = Append(t, Handle("pair", i))
  OBVIOUS
<1>12. /\ q \in Seq(Handles) /\ IsInjective(q)
       /\ Range(q) = Range(t) \cup {Handle("pair", i)}
  BY <1>2, <1>10, <1>11, Pushed
<1>13. /\ ready' \in Seq(Handles) /\ IsInjective(ready') /\ asleep' \in BOOLEAN
       /\ asleep' => Driver \notin Queued'
       /\ \A h : h # Driver => (h \in Queued' <=> h \in Range(q))
       /\ \A a \in Range(q) : Precedes(ready', a, Driver)
  <2>1. Sleep(q) /\ Driver \notin Range(q)
    BY <1>1, <1>2, <1>10, <1>11, <1>12
  <2>. QED
    BY <1>12, <2>1, SleepEffect
<1>14. /\ \A j : j # i => (Handle("pair", j) \in Queued' <=> Handle("pair", j) \in Queued)
       /\ \A j : /\ Handle("discard", j) \in Queued' <=> Handle("discard", j) \in Queued
                 /\ Handle("gathered", j) \in Queued' <=> Handle("gathered", j) \in Queued
                 /\ Handle("discard", j) \in Queued =>
                        Precedes(ready', Handle("discard", j), Driver)
  <2>1. \A k, j : k # "driver" /\ (k # "pair" \/ j # i) =>
            Handle(k, j) # Driver /\ Handle(k, j) # Handle("pair", i)
    BY HandlesDiffer
  <2>2. \A k, j : k # "driver" /\ (k # "pair" \/ j # i) =>
            /\ Handle(k, j) \in Queued' <=> Handle(k, j) \in Queued
            /\ Handle(k, j) \in Queued => Precedes(ready', Handle(k, j), Driver)
    BY <1>2, <1>12, <1>13, <2>1
  <2>. QED
    BY <2>2
<1>15. /\ Cardinality(active) \in Nat /\ Cardinality(active) < Concurrency
       /\ Cardinality(active') <= Cardinality(active) + 1
       /\ Cardinality(active') \in Nat
  <2>1. active \subseteq Pairs /\ active \cup {i} \subseteq Pairs
    BY <1>5 DEF Typed
  <2>2. PICK n : n = Cardinality(active)
    OBVIOUS
  <2>3. PICK m : m = Cardinality(active \cup {i})
    OBVIOUS
  <2>4. n \in Nat /\ m \in Nat /\ m = IF i \in active THEN n ELSE n + 1
    BY <2>1, <2>2, <2>3, Sizes
  <2>5. ~(n >= Concurrency)
    BY <2>2 DEF NoSlot
  <2>6. m <= n + 1 /\ n < Concurrency
    BY ONLY <2>4, <2>5, ConcurrencyAssumption
  <2>. QED
    BY <2>2, <2>3, <2>4, <2>6
<1>16. Typed'
  <2>1. count' \in [Counters -> Nat]
    BY Counted
  <2>2. pair' \in [Pairs -> {"none", "new", "mask", "demask", "ended"}]
    BY DEF Typed
  <2>3. active' \subseteq Pairs /\ Running' \subseteq Pairs
    BY <1>5, <1>7, SetTypes DEF Typed
  <2>. QED
    BY <1>2, <1>13, <2>1, <2>2, <2>3 DEF Typed

<1>17. /\ count' = Add(count, names) /\ "scheduled" \in names
       /\ count'["scheduled"] = s + 1
  BY <1>3, Counted DEF Counters
<1>18. PairsInv'
  <2>1. \A j \in Pairs : j > s + 1 => j > s /\ j # i
    BY ONLY <1>4, ArrivalsAssumption, s \in Nat DEF Pairs
  <2>2. \A j \in Pairs : j > count'["scheduled"] => pair'[j] = "none"
    BY <1>3, <1>7, <1>17, <2>1 DEF PairsInv
  <2>3. \A j \in Pairs : reply'[j] # "none" => pair'[j] \in {"mask", "demask"}
    BY <1>6, <1>7 DEF PairsInv
  <2>4. Running' \subseteq active'
    BY <1>7 DEF PairsInv
  <2>5. Cardinality(active') <= Concurrency
    BY <1>15, ConcurrencyAssumption
  <2>. QED
    BY <2>2, <2>3, <2>4, <2>5 DEF PairsInv
<1>19. HandlesInv'
  <2>1. \A j \in Pairs : Handle("pair", j) \in Queued' =>
            pair'[j] = "new" \/ reply'[j] # "none"
    BY <1>7, <1>14 DEF HandlesInv
  <2>2. \A j \in Pairs : Handle("discard", j) \in Queued' => pair'[j] = "ended"
    BY <1>6, <1>7, <1>14 DEF HandlesInv
  <2>3. \A j \in Pairs : Handle("gathered", j) \in Queued' =>
            j \in gathered' /\ pair'[j] = "ended"
    BY <1>6, <1>7, <1>14 DEF HandlesInv
  <2>4. \A j \in active' : j \in Running' \/ Handle("discard", j) \in Queued'
    BY <1>7, <1>14 DEF HandlesInv
  <2>. QED
    BY <2>1, <2>2, <2>3, <2>4 DEF HandlesInv
<1>20. DriverInv'
  BY <1>2, <1>13 DEF DriverInv
<1>21. FullInv'
  <2>1. Driver' = Driver /\ Running' \subseteq full'
    BY DEF Driver
  <2>2. ASSUME NEW j \in active' \ full'
        PROVE  Precedes(ready', Handle("discard", j), Driver)
    <3>1. j \in active /\ j \notin Running
      BY <1>7
    <3>. QED
      BY <1>14, <3>1 DEF HandlesInv
  <2>. QED
    BY <2>1, <2>2 DEF FullInv
<1>22. CountsInv'
  <2>1. /\ count["dropped"] \in Nat
        /\ count["max_active"] \in Nat /\ count["attempts"] \in Nat
        /\ count["success"] \in Nat /\ count["completed"] \in Nat
        /\ count["bad_restore"] \in Nat /\ count["throttled"] \in Nat
        /\ count["errors"] \in Nat
    BY CountTypes
  <2>2. /\ count'["dropped"] = count["dropped"]
        /\ count'["attempts"] = count["attempts"] /\ count'["success"] = count["success"]
        /\ count'["completed"] = count["completed"]
        /\ count'["bad_restore"] = count["bad_restore"]
        /\ count'["throttled"] = count["throttled"] /\ count'["errors"] = count["errors"]
    <3>1. \A n \in Counters : n \notin names => count'[n] = count[n]
      BY Counted
    <3>2. names \subseteq {"scheduled", "max_active"}
      OBVIOUS
    <3>. QED
      BY ONLY <3>1, <3>2 DEF Counters
  <2>3. count'["max_active"] <= s + 1 /\ count'["max_active"] <= Concurrency
    <3>1. PICK n : n = Cardinality(active)
      OBVIOUS
    <3>2. PICK x \in Nat : x = count["max_active"]
      BY <2>1
    <3>3. n \in Nat /\ n < Concurrency /\ x <= s /\ x <= Concurrency
      BY <1>3, <1>15, <3>1, <3>2 DEF CountsInv
    <3>4. "max_active" \in Counters /\ ("max_active" \in names <=> n + 1 > x)
      BY <3>1, <3>2 DEF Counters
    <3>5. count'["max_active"] = IF n + 1 > x THEN x + 1 ELSE x
      BY <3>2, <3>4, Counted
    <3>. QED
      BY ONLY <3>3, <3>5, s \in Nat, x \in Nat, ConcurrencyAssumption
  <2>4. /\ s + 1 <= Arrivals
        /\ driver' = "arrivals" => s + 1 < Arrivals
    <3>1. s + 1 <= Arrivals /\ (s + 1 # Arrivals => s + 1 < Arrivals)
      BY ONLY <1>4, ArrivalsAssumption, s \in Nat
    <3>2. s + 1 = Arrivals => driver' # "arrivals"
      BY <1>4
    <3>. QED
      BY <3>1, <3>2
  <2>5. PICK a, b, c : a = Cardinality(Running) /\ b = Cardinality(InFlight)
                       /\ c = Cardinality(Demasking)
    OBVIOUS
  <2>6. a \in Nat /\ b \in Nat /\ c \in Nat
    BY <2>5, SetTypes
  <2>7. Cardinality(Running') = a + 1
    BY <1>7, <1>8, <2>5, Sizes, SetTypes
  <2>8. Cardinality(InFlight') = b /\ Cardinality(Demasking') = c
    BY <1>9, <2>5
  <2>9. CountsInv /\ PairsAccounted
    BY DEF CountsInv
  <2>10. PairsAccounted'
    BY ONLY <1>3, <1>17, <2>1, <2>2, <2>5, <2>6, <2>7, <2>9, s \in Nat DEF PairsAccounted
  <2>. QED
    BY ONLY <1>17, <2>1, <2>2, <2>3, <2>4, <2>5, <2>6, <2>8, <2>9, <2>10 DEF CountsInv
<1>. QED
  BY <1>16, <1>18, <1>19, <1>20, <1>21, <1>22

\* gather adds its callbacks; those of pairs that have ended are queued.
LEMMA GatherNext ==
    ASSUME IInv, ready # <<>>, Head(ready) = Driver, driver = "end", Gather(Tail(ready))
    PROVE  IInv'
<1>. USE DEF IInv
<1>1. PICK t : t = Tail(ready)
  OBVIOUS
<1>2. /\ t \in Seq(Handles) /\ IsInjective(t) /\ Driver \notin Range(t)
      /\ \A h : h # Driver => (h \in Range(t) <=> h \in Queued)
      /\ asleep = FALSE /\ gathered = {}
  BY <1>1, DriverTaken
<1>3. /\ gathered' = active /\ driver' = IF active = {} THEN "done" ELSE "gather"
      /\ UNCHANGED <<asleep, pair, reply, active, full, count>>
  BY DEF Gather, Gathered
<1>4. PICK ended : ended = {i \in active : pair[i] = "ended"}
  OBVIOUS
<1>5. PICK order \in SetToSeqs(ended) :
          ready' = t \o [k \in DOMAIN order |-> Handle("gathered", order[k])]
  BY <1>1, <1>4 DEF Gather, Gathered
<1>6. PICK n : n = Cardinality(ended)
  OBVIOUS
<1>7. /\ n \in Nat /\ ended \subseteq Pairs
      /\ \A i \in ended : i \in active /\ pair[i] = "ended"
  <2>1. ended \subseteq Pairs
    BY <1>4 DEF Typed
  <2>. QED
    BY <1>4, <1>6, <2>1, Sizes
<1>8. /\ DOMAIN order = 1 .. n /\ \A k \in 1 .. n : order[k] \in ended
      /\ \A k, l \in 1 .. n : k # l => order[k] # order[l]
  BY <1>6 DEF SetToSeqs
<1>9. PICK g : g = [k \in 1 .. n |-> Handle("gathered", order[k])]
  OBVIOUS
<1>10. /\ g \in Seq(Handles) /\ IsInjective(g) /\ ready' = t \o g
       /\ \A h \in Range(g) : \E i \in ended : h = Handle("gathered", i)
  <2>1. \A k \in 1 .. n : order[k] \in Pairs /\ Handle("gathered", order[k]) \in Handles
    BY <1>7, <1>8, HandlesDiffer
  <2>2. g \in [1 .. n -> Handles]
    BY <1>9, <2>1
  <2>3. g \in Seq(Handles)
    BY <1>7, <2>2
  <2>4. ASSUME NEW k \in 1 .. n, NEW l \in 1 .. n, g[k] = g[l] PROVE k = l
    <3>1. Handle("gathered", order[k]) = Handle("gathered", order[l])
      BY <1>9, <2>4
    <3>2. order[k] = order[l]
      BY <3>1, HandlesDiffer
    <3>. QED
      BY <1>8, <3>2
  <2>5. IsInjective(g)
    BY <1>9, <2>4 DEF IsInjective
  <2>6. \A h \in Range(g) : \E i \in ended : h = Handle("gathered", i)
    BY <1>8, <1>9 DEF Range
  <2>7. ready' = t \o g
    BY <1>5, <1>8, <1>9
  <2>. QED
    BY <2>3, <2>5, <2>6, <2>7
<1>11. \A h \in Range(g) : h # Driver /\ h \notin Range(t)
  <2>1. \A i \in ended : Handle("gathered", i) \notin Queued
    BY <1>2, <1>7 DEF HandlesInv
  <2>. QED
    BY <1>2, <1>10, <2>1, HandlesDiffer
<1>12. /\ ready' \in Seq(Handles) /\ IsInjective(ready')
       /\ Queued' = Range(t) \cup Range(g)
  BY <1>2, <1>10, <1>11, Joined DEF Queued
<1>13. Driver \notin Queued'
  BY <1>2, <1>11, <1>12
<1>14. /\ \A j : Handle("pair", j) \in Queued' <=> Handle("pair", j) \in Queued
       /\ \A j : Handle("discard", j) \in Queued' <=> Handle("discard", j) \in Queued
       /\ \A j : Handle("gathered", j) \in Queued' =>
                     Handle("gathered", j) \in Queued \/ j \in ended
  <2>1. \A j : /\ Handle("pair", j) # Driver /\ Handle("discard", j) # Driver
               /\ Handle("gathered", j) # Driver
    BY HandlesDiffer
  <2>2. \A j : Handle("pair", j) \notin Range(g) /\ Handle("discard", j) \notin Range(g)
    BY <1>10, HandlesDiffer
  <2>3. \A j : Handle("gathered", j) \in Range(g) => j \in ended
    BY <1>10, HandlesDiffer
  <2>. QED
    BY <1>2, <1>12, <2>1, <2>2, <2>3
<1>15. Running' = Running
  BY <1>3 DEF Running
<1>16. Typed'
  BY <1>3, <1>12 DEF Typed
<1>17. PairsInv'
  BY <1>3, <1>15 DEF PairsInv
<1>18. HandlesInv'
  <2>1. \A j \in Pairs : Handle("gathered", j) \notin Queued
    BY <1>2 DEF HandlesInv
  <2>2. \A j \in Pairs : Handle("gathered", j) \in Queued' =>
            j \in gathered' /\ pair'[j] = "ended"
    BY <1>3, <1>7, <1>14, <2>1
  <2>. QED
    BY <1>3, <1>14, <1>15, <2>2 DEF HandlesInv
<1>19. DriverInv'
  BY <1>2, <1>3, <1>13, <1>15 DEF DriverInv, PairsInv
<1>20. FullInv'
  BY <1>3 DEF FullInv
<1>21. CountsInv'
  BY <1>3, CountsStay
<1>. QED
  BY <1>16, <1>17, <1>18, <1>19, <1>20, <1>21

\* gather has what it waited for.
LEMMA WokenNext ==
    ASSUME IInv, ready # <<>>, Head(ready) = Driver, driver = "gather",
           driver' = "done", ready' = Tail(ready),
           UNCHANGED <<asleep, gathered, pair, reply, active, full, count>>
    PROVE  IInv'
<1>. USE DEF IInv
<1>1. /\ ready' \in Seq(Handles) /\ IsInjective(ready') /\ Driver \notin Queued'
      /\ \A h : h # Driver => (h \in Queued' <=> h \in Queued)
      /\ asleep = FALSE /\ gathered = {}
  BY DriverTaken DEF Queued
<1>2. \A k, j : k # "driver" => (Handle(k, j) \in Queued' <=> Handle(k, j) \in Queued)
  BY <1>1, HandlesDiffer
<1>3. Running' = Running
  BY DEF Running
<1>4. Typed'
  BY <1>1 DEF Typed
<1>5. PairsInv'
  BY <1>3 DEF PairsInv
<1>6. HandlesInv'
  BY <1>2, <1>3 DEF HandlesInv
<1>7. DriverInv'
  BY <1>1, <1>3 DEF DriverInv
<1>8. FullInv'
  BY DEF FullInv
<1>9. CountsInv'
  BY CountsStay
<1>. QED
  BY <1>4, <1>5, <1>6, <1>7, <1>8, <1>9

\* The driver's steps.
LEMMA DriverNext == IInv /\ DriverStep => IInv'
<1>. SUFFICES ASSUME IInv, DriverStep PROVE IInv'
  OBVIOUS
<1>1. ready # <<>> /\ Head(ready) = Driver
  BY DEF DriverStep
<1>2. CASE driver = "arrivals" /\ Arrive(count["scheduled"] + 1, Tail(ready))
  <2>1. PICK i : i = count["scheduled"] + 1
    OBVIOUS
  <2>2. /\ driver' = IF i = Arrivals THEN "end" ELSE "arrivals"
        /\ full' = Running' /\ UNCHANGED <<gathered, reply>>
    BY <1>2, <2>1 DEF Arrive
  <2>3. CASE /\ NoSlot /\ count' = Add(count, {"scheduled", "dropped"})
             /\ Sleep(Tail(ready)) /\ UNCHANGED <<pair, active>>
    BY <1>1, <1>2, <2>1, <2>2, <2>3, DropNext
  <2>4. PICK names : names = {"scheduled"} \cup
            (IF Cardinality(active) + 1 > count["max_active"] THEN {"max_active"} ELSE {})
    OBVIOUS
  <2>5. CASE /\ ~NoSlot /\ pair' = [pair EXCEPT ![i] = "new"] /\ active' = active \cup {i}
             /\ count' = Add(count, names)
             /\ Sleep(Append(Tail(ready), Handle("pair", i)))
    BY <1>1, <1>2, <2>1, <2>2, <2>4, <2>5, StartNext
  <2>. QED
    BY <1>2, <2>1, <2>3, <2>4, <2>5 DEF Arrive
<1>3. CASE driver = "end" /\ Gather(Tail(ready))
  BY <1>1, <1>3, GatherNext
<1>4. CASE /\ driver = "gather" /\ driver' = "done" /\ ready' = Tail(ready)
           /\ UNCHANGED <<asleep, gathered, pair, reply, active, full, count>>
  BY <1>1, <1>4, WokenNext
<1>. QED
  BY <1>2, <1>3, <1>4 DEF DriverStep

\* A pair sends a request.
LEMMA SendNext ==
    ASSUME IInv, NEW i \in Pairs, ready # <<>>, Head(ready) = Handle("pair", i),
           NEW direction, NEW counted,
           \/ pair[i] = "new" /\ direction = "mask" /\ counted = {}
           \/ pair[i] = "mask" /\ direction = "demask" /\ counted = {"success"},
           Send(i, direction, counted),
           reply' = [reply EXCEPT ![i] = "none"],
           UNCHANGED <<driver, asleep, gathered, active, full>>
    PROVE  IInv'
<1>. USE DEF IInv
<1>1. /\ pair' = [pair EXCEPT ![i] = direction]
      /\ count' = Add(count, counted \cup {"attempts"})
      /\ ready' = Tail(ready)
      /\ direction \in {"mask", "demask"}
  BY DEF Send
<1>2. /\ ready' \in Seq(Handles) /\ IsInjective(ready')
      /\ \A h : h \in Queued' <=> h \in Queued /\ h # Handle("pair", i)
      /\ \A a, b : Precedes(ready, a, b) /\ a # Handle("pair", i) => Precedes(ready', a, b)
  BY <1>1, Taken DEF Queued
<1>3. /\ pair'[i] = direction /\ \A j \in Pairs : j # i => pair'[j] = pair[j]
      /\ Running' = Running \cup {i}
      /\ InFlight' = InFlight \cup {i}
      /\ Demasking' = IF direction = "demask" THEN Demasking \cup {i} ELSE Demasking \ {i}
  BY <1>1, PairMoves
<1>4. i \in Running /\ Running' = Running
  BY <1>3 DEF Running
<1>5. /\ reply'[i] = "none" /\ \A j \in Pairs : j # i => reply'[j] = reply[j]
      /\ reply' \in [Pairs -> Replies \cup {"none"}]
  BY DEF Typed
<1>6. /\ Driver \in Queued' <=> Driver \in Queued
      /\ Handle("pair", i) \notin Queued'
      /\ \A j : Handle("pair", j) \in Queued' => Handle("pair", j) \in Queued /\ j # i
      /\ \A j : Handle("discard", j) \in Queued' <=> Handle("discard", j) \in Queued
      /\ \A j : Handle("gathered", j) \in Queued' <=> Handle("gathered", j) \in Queued
  BY <1>2, HandlesDiffer
<1>7. /\ count["scheduled"] \in Nat /\ count["dropped"] \in Nat
      /\ count["max_active"] \in Nat /\ count["attempts"] \in Nat
      /\ count["success"] \in Nat /\ count["completed"] \in Nat
      /\ count["bad_restore"] \in Nat /\ count["throttled"] \in Nat
      /\ count["errors"] \in Nat
  BY CountTypes
<1>8. /\ count' \in [Counters -> Nat]
      /\ \A n \in Counters : n \in counted \cup {"attempts"} => count'[n] = count[n] + 1
      /\ \A n \in Counters : n \notin counted \cup {"attempts"} => count'[n] = count[n]
  BY <1>1, Counted
<1>9. /\ count'["scheduled"] = count["scheduled"]
      /\ count'["dropped"] = count["dropped"]
      /\ count'["max_active"] = count["max_active"]
      /\ count'["attempts"] = count["attempts"] + 1
      /\ count'["success"] = IF direction = "demask" THEN count["success"] + 1
                             ELSE count["success"]
      /\ count'["completed"] = count["completed"]
      /\ count'["bad_restore"] = count["bad_restore"]
      /\ count'["throttled"] = count["throttled"] /\ count'["errors"] = count["errors"]
  <2>1. counted = IF direction = "demask" THEN {"success"} ELSE {}
    OBVIOUS
  <2>. QED
    BY ONLY <1>8, <2>1 DEF Counters
<1>10. Typed'
  <2>1. pair' \in [Pairs -> {"none", "new", "mask", "demask", "ended"}]
    BY <1>1 DEF Typed
  <2>. QED
    BY <1>2, <1>5, <1>8, <2>1 DEF Typed
<1>11. PairsInv'
  BY <1>1, <1>3, <1>4, <1>5, <1>9 DEF PairsInv
<1>12. HandlesInv'
  BY <1>3, <1>4, <1>5, <1>6 DEF HandlesInv
<1>13. DriverInv'
  BY <1>4, <1>6 DEF DriverInv
<1>14. FullInv'
  <2>1. \A j : Handle("discard", j) # Handle("pair", i)
    BY HandlesDiffer
  <2>. QED
    BY <1>2, <1>4, <2>1 DEF FullInv, Driver
<1>15. CountsInv'
  <2>1. PICK a, b, c : a = Cardinality(Running) /\ b = Cardinality(InFlight)
                       /\ c = Cardinality(Demasking)
    OBVIOUS
  <2>2. a \in Nat /\ b \in Nat /\ c \in Nat
    BY <2>1, SetTypes
  <2>3. Cardinality(Running') = a
    BY <1>4, <2>1
  <2>4. /\ i \in InFlight <=> direction = "demask"
        /\ i \notin Demasking
    BY DEF InFlight, Demasking
  <2>5. /\ Cardinality(InFlight') = IF direction = "demask" THEN b ELSE b + 1
        /\ Cardinality(Demasking') = IF direction = "demask" THEN c + 1 ELSE c
    BY <1>3, <2>1, <2>4, Sizes, SetTypes
  <2>6. CountsInv /\ PairsAccounted
    BY DEF CountsInv
  <2>7. PairsAccounted'
    BY ONLY <1>7, <1>9, <2>1, <2>2, <2>3, <2>6 DEF PairsAccounted
  <2>8. driver' = driver
    OBVIOUS
  <2>9. CASE direction = "demask"
    BY ONLY <1>7, <1>9, <2>1, <2>2, <2>5, <2>6, <2>7, <2>8, <2>9 DEF CountsInv
  <2>10. CASE direction # "demask"
    BY ONLY <1>7, <1>9, <2>1, <2>2, <2>5, <2>6, <2>7, <2>8, <2>10 DEF CountsInv
  <2>. QED
    BY <2>9, <2>10
<1>. QED
  BY <1>10, <1>11, <1>12, <1>13, <1>14, <1>15

\* The callbacks of a pair that ends are queued behind what is ready.
LEMMA CallbacksQueued ==
    ASSUME IInv, NEW i \in Pairs, pair[i] # "ended", NEW t \in Seq(Handles), IsInjective(t),
           \A h \in Range(t) : h \in Queued
    PROVE  /\ t \o Callbacks(i) \in Seq(Handles) /\ IsInjective(t \o Callbacks(i))
           /\ Range(t \o Callbacks(i)) =
                  Range(t) \cup {Handle("discard", i)}
                  \cup (IF i \in gathered THEN {Handle("gathered", i)} ELSE {})
           /\ \A a : Precedes(t, a, Driver) => Precedes(t \o Callbacks(i), a, Driver)
<1>1. Handle("discard", i) \notin Range(t) /\ Handle("gathered", i) \notin Range(t)
  BY DEF IInv, HandlesInv
<1>2. /\ Handle("discard", i) \in Handles /\ Handle("gathered", i) \in Handles
      /\ Handle("discard", i) # Driver /\ Handle("gathered", i) # Driver
      /\ Handle("discard", i) # Handle("gathered", i)
  BY HandlesDiffer
<1>3. PICK u : u = Append(t, Handle("discard", i))
  OBVIOUS
<1>4. /\ u \in Seq(Handles) /\ IsInjective(u) /\ Range(u) = Range(t) \cup {Handle("discard", i)}
      /\ \A a : Precedes(t, a, Driver) => Precedes(u, a, Driver)
  BY <1>1, <1>2, <1>3, Pushed
<1>5. CASE i \in gathered
  <2>1. PICK v : v = Append(u, Handle("gathered", i))
    OBVIOUS
  <2>2. /\ v \in Seq(Handles) /\ IsInjective(v)
        /\ Range(v) = Range(u) \cup {Handle("gathered", i)}
        /\ \A a : Precedes(u, a, Driver) => Precedes(v, a, Driver)
    <3>1. Handle("gathered", i) \notin Range(u)
      BY <1>1, <1>2, <1>4
    <3>. QED
      BY <1>2, <1>4, <2>1, <3>1, Pushed
  <2>3. t \o Callbacks(i) = v
    <3>1. PICK x, y : x = <<Handle("discard", i)>> /\ y = <<Handle("gathered", i)>>
      OBVIOUS
    <3>2. x \in Seq(Handles) /\ y \in Seq(Handles) /\ Callbacks(i) = x \o y
      BY <1>2, <1>5, <3>1 DEF Callbacks
    <3>3. t \o (x \o y) = (t \o x) \o y
      BY <3>2, ConcatAssociative
    <3>4. u = t \o x /\ v = u \o y
      BY <1>2, <1>3, <1>4, <2>1, <3>1, AppendIsConcat
    <3>. QED
      BY <3>2, <3>3, <3>4
  <2>. QED
    BY <1>4, <1>5, <2>2, <2>3
<1>6. CASE i \notin gathered
  <2>1. t \o Callbacks(i) = u
    <3>1. Callbacks(i) = <<Handle("discard", i)>> \o <<>>
      BY <1>6 DEF Callbacks
    <3>2. Callbacks(i) = <<Handle("discard", i)>>
      BY <3>1
    <3>. QED
      BY <1>2, <1>3, <3>2
  <2>. QED
    BY <1>4, <1>6, <2>1
<1>. QED
  BY <1>5, <1>6

\* A pair ends: refused or failed at one request, or after both.
LEMMA EndNext ==
    ASSUME IInv, NEW i \in Pairs, ready # <<>>, Head(ready) = Handle("pair", i),
           pair[i] \in {"mask", "demask"}, NEW e, NEW counted,
           \/ e \in {"throttled", "errors"} /\ counted = {e}
           \/ /\ e \in {"completed", "bad_restore"} /\ counted = {"success", e}
              /\ pair[i] = "demask",
           End(i, counted),
           reply' = [reply EXCEPT ![i] = "none"],
           UNCHANGED <<driver, asleep, gathered, active, full>>
    PROVE  IInv'
<1>. USE DEF IInv
<1>1. /\ pair' = [pair EXCEPT ![i] = "ended"]
      /\ count' = Add(count, counted)
      /\ ready' = Tail(ready) \o Callbacks(i)
  BY DEF End
<1>2. PICK t : t = Tail(ready)
  OBVIOUS
<1>3. /\ t \in Seq(Handles) /\ IsInjective(t)
      /\ \A h : h \in Range(t) <=> h \in Queued /\ h # Handle("pair", i)
      /\ \A a, b : Precedes(ready, a, b) /\ a # Handle("pair", i) => Precedes(t, a, b)
  BY <1>2, Taken
<1>4. /\ ready' \in Seq(Handles) /\ IsInjective(ready')
      /\ Queued' = Range(t) \cup {Handle("discard", i)}
                   \cup (IF i \in gathered THEN {Handle("gathered", i)} ELSE {})
      /\ \A a : Precedes(t, a, Driver) => Precedes(ready', a, Driver)
  <2>1. ready' = t \o Callbacks(i) /\ \A h \in Range(t) : h \in Queued
    BY <1>1, <1>2, <1>3
  <2>2. IInv /\ pair[i] # "ended"
    OBVIOUS
  <2>3. /\ t \o Callbacks(i) \in Seq(Handles) /\ IsInjective(t \o Callbacks(i))
        /\ Range(t \o Callbacks(i)) =
               Range(t) \cup {Handle("discard", i)}
               \cup (IF i \in gathered THEN {Handle("gathered", i)} ELSE {})
        /\ \A a : Precedes(t, a, Driver) => Precedes(t \o Callbacks(i), a, Driver)
    BY <1>3, <2>1, <2>2, CallbacksQueued
  <2>. QED
    BY ONLY <2>1, <2>3 DEF Queued
<1>5. /\ pair'[i] = "ended" /\ \A j \in Pairs : j # i => pair'[j] = pair[j]
      /\ Running' = Running \ {i}
      /\ InFlight' = InFlight \ {i}
      /\ Demasking' = Demasking \ {i}
  BY <1>1, PairMoves
<1>6. i \in Running /\ i \in InFlight
  BY DEF Running, InFlight
<1>7. /\ reply'[i] = "none" /\ \A j \in Pairs : j # i => reply'[j] = reply[j]
      /\ reply' \in [Pairs -> Replies \cup {"none"}]
  BY DEF Typed
<1>8. /\ Driver \in Queued' <=> Driver \in Queued
      /\ \A j : Handle("pair", j) \in Queued' => Handle("pair", j) \in Queued /\ j # i
      /\ \A j : Handle("discard", j) \in Queued' <=> Handle("discard", j) \in Queued \/ j = i
      /\ \A j : Handle("gathered", j) \in Queued' =>
                    Handle("gathered", j) \in Queued \/ (j = i /\ i \in gathered)
  BY <1>3, <1>4, HandlesDiffer
<1>9. Typed'
  <2>1. count' \in [Counters -> Nat]
    BY <1>1, Counted
  <2>2. pair' \in [Pairs -> {"none", "new", "mask", "demask", "ended"}]
    BY <1>1 DEF Typed
  <2>. QED
    BY <1>4, <1>7, <2>1, <2>2 DEF Typed
<1>10. \A n \in {"scheduled", "dropped", "max_active", "attempts"} : count'[n] = count[n]
  BY <1>1, Counted DEF Counters
<1>11. PairsInv'
  <2>1. count'["scheduled"] = count["scheduled"]
    BY <1>10
  <2>2. \A j \in Pairs : j > count'["scheduled"] => pair'[j] = "none"
    BY <1>5, <2>1 DEF PairsInv
  <2>3. \A j \in Pairs : reply'[j] # "none" => pair'[j] \in {"mask", "demask"}
    BY <1>5, <1>7 DEF PairsInv
  <2>. QED
    BY <1>5, <2>2, <2>3 DEF PairsInv
<1>12. HandlesInv'
  <2>1. \A j \in Pairs : Handle("pair", j) \in Queued' =>
            pair'[j] = "new" \/ reply'[j] # "none"
    BY <1>5, <1>7, <1>8 DEF HandlesInv
  <2>2. \A j \in Pairs : Handle("discard", j) \in Queued' => pair'[j] = "ended"
    BY <1>5, <1>8 DEF HandlesInv
  <2>3. \A j \in Pairs : Handle("gathered", j) \in Queued' =>
            j \in gathered' /\ pair'[j] = "ended"
    BY <1>5, <1>8 DEF HandlesInv
  <2>4. \A j \in active' : j \in Running' \/ Handle("discard", j) \in Queued'
    BY <1>5, <1>8 DEF HandlesInv
  <2>. QED
    BY <2>1, <2>2, <2>3, <2>4 DEF HandlesInv
<1>13. DriverInv'
  BY <1>5, <1>8 DEF DriverInv
<1>14. FullInv'
  <2>1. \A j : Handle("discard", j) # Handle("pair", i)
    BY HandlesDiffer
  <2>. QED
    BY <1>3, <1>4, <1>5, <2>1 DEF FullInv, Driver

<1>15. CountsInv'
  <2>0. /\ count["scheduled"] \in Nat /\ count["dropped"] \in Nat
        /\ count["max_active"] \in Nat /\ count["attempts"] \in Nat
        /\ count["success"] \in Nat /\ count["completed"] \in Nat
        /\ count["bad_restore"] \in Nat /\ count["throttled"] \in Nat
        /\ count["errors"] \in Nat
    BY CountTypes
  <2>1. PICK a, b, c : a = Cardinality(Running) /\ b = Cardinality(InFlight)
                       /\ c = Cardinality(Demasking)
    OBVIOUS
  <2>2. a \in Nat /\ b \in Nat /\ c \in Nat
    BY <2>1, SetTypes
  <2>3. /\ Cardinality(Running') = a - 1 /\ Cardinality(InFlight') = b - 1
        /\ Cardinality(Demasking') \in {c - 1, c}
    BY <1>5, <1>6, <2>1, Sizes, SetTypes
  <2>4. CountsInv /\ PairsAccounted
    BY DEF CountsInv
  <2>5. /\ \A n \in Counters : n \in counted => count'[n] = count[n] + 1
        /\ \A n \in Counters : n \notin counted => count'[n] = count[n]
    BY <1>1, Counted
  <2>6. /\ count'["completed"] = IF e = "completed" THEN count["completed"] + 1
                                 ELSE count["completed"]
        /\ count'["bad_restore"] = IF e = "bad_restore" THEN count["bad_restore"] + 1
                                   ELSE count["bad_restore"]
        /\ count'["throttled"] = IF e = "throttled" THEN count["throttled"] + 1
                                 ELSE count["throttled"]
        /\ count'["errors"] = IF e = "errors" THEN count["errors"] + 1 ELSE count["errors"]
        /\ count'["success"] = IF e \in {"completed", "bad_restore"} THEN count["success"] + 1
                               ELSE count["success"]
    BY <2>5 DEF Counters
  <2>7. /\ count'["scheduled"] = count["scheduled"] /\ count'["dropped"] = count["dropped"]
        /\ count'["max_active"] = count["max_active"]
        /\ count'["attempts"] = count["attempts"]
    BY <1>10
  <2>8. e \in {"completed", "bad_restore", "throttled", "errors"}
    OBVIOUS
  <2>9. /\ count'["completed"] + count'["bad_restore"] + count'["throttled"] + count'["errors"] =
              count["completed"] + count["bad_restore"] + count["throttled"] + count["errors"] + 1
        /\ count'["success"] + count'["throttled"] + count'["errors"] =
              count["success"] + count["throttled"] + count["errors"] + 1
        /\ count'["completed"] \in Nat /\ count'["bad_restore"] \in Nat
        /\ count'["throttled"] \in Nat /\ count'["errors"] \in Nat
        /\ count'["success"] \in Nat
    BY ONLY <2>0, <2>6, <2>8
  <2>10. PairsAccounted'
    <3>1. PICK s, d, w, x, y, z \in Nat :
              /\ s = count["scheduled"] /\ d = count["dropped"]
              /\ w = count["completed"] /\ x = count["bad_restore"]
              /\ y = count["throttled"] /\ z = count["errors"]
      BY ONLY <2>0
    <3>2. PICK w2, x2, y2, z2 \in Nat :
              /\ w2 = count'["completed"] /\ x2 = count'["bad_restore"]
              /\ y2 = count'["throttled"] /\ z2 = count'["errors"]
      BY ONLY <2>9
    <3>3. s = d + a + w + x + y + z /\ w2 + x2 + y2 + z2 = w + x + y + z + 1
      BY ONLY <2>1, <2>4, <2>9, <3>1, <3>2 DEF PairsAccounted
    <3>4. s = d + (a - 1) + w2 + x2 + y2 + z2
      BY ONLY <2>2, <3>3, s \in Nat, d \in Nat, w \in Nat, x \in Nat, y \in Nat, z \in Nat,
              w2 \in Nat, x2 \in Nat, y2 \in Nat, z2 \in Nat
    <3>. QED
      BY ONLY <2>3, <2>7, <3>1, <3>2, <3>4 DEF PairsAccounted
  <2>11. driver' = driver
    OBVIOUS
  <2>. QED
    BY ONLY <2>0, <2>1, <2>2, <2>3, <2>4, <2>7, <2>9, <2>10, <2>11 DEF CountsInv
<1>. QED
  BY <1>9, <1>11, <1>12, <1>13, <1>14, <1>15

\* A pair's steps.
LEMMA PairNext == \A i \in Pairs : IInv /\ PairStep(i) => IInv'
<1>. SUFFICES ASSUME NEW i \in Pairs, IInv, PairStep(i) PROVE IInv'
  OBVIOUS
<1>1. /\ ready # <<>> /\ Head(ready) = Handle("pair", i)
      /\ reply' = [reply EXCEPT ![i] = "none"]
      /\ UNCHANGED <<driver, asleep, gathered, active, full>>
  BY DEF PairStep
<1>2. reply[i] # "none" => pair[i] \in {"mask", "demask"}
  BY DEF IInv, PairsInv
<1>3. CASE pair[i] = "new" /\ Send(i, "mask", {})
  BY <1>1, <1>3, SendNext
<1>4. CASE reply[i] \in {"throttled", "failed"} /\ End(i, Refusal(reply[i]))
  <2>1. PICK e \in {"throttled", "errors"} : Refusal(reply[i]) = {e}
    BY DEF Refusal
  <2>2. End(i, {e})
    BY <1>4, <2>1
  <2>. QED
    BY <1>1, <1>2, <1>4, <2>2, EndNext
<1>5. CASE pair[i] = "mask" /\ Send(i, "demask", {"success"})
  BY <1>1, <1>5, SendNext
<1>6. CASE /\ reply[i] \in {"original", "changed"}
           /\ pair[i] = "demask" /\ End(i, {"success"} \cup Outcome(reply[i]))
  <2>1. PICK e \in {"completed", "bad_restore"} : Outcome(reply[i]) = {e}
    BY DEF Outcome
  <2>2. {"success"} \cup Outcome(reply[i]) = {"success", e}
    BY <2>1
  <2>3. End(i, {"success", e})
    BY <1>6, <2>2
  <2>. QED
    BY <1>1, <1>6, <2>3, EndNext
<1>. QED
  BY <1>3, <1>4, <1>5, <1>6 DEF PairStep

\* Every step preserves the invariant.
LEMMA IInvNext == IInv /\ [Next]_vars => IInv'
<1>. SUFFICES ASSUME IInv, [Next]_vars PROVE IInv'
  OBVIOUS
<1>1. CASE DriverStep
  BY <1>1, DriverNext
<1>2. ASSUME NEW i \in Pairs, Discard(i) PROVE IInv'
  BY <1>2, DiscardNext
<1>3. ASSUME NEW i \in Pairs, GatherOne(i) PROVE IInv'
  BY <1>3, GatherOneNext
<1>4. ASSUME NEW i \in Pairs, PairStep(i) PROVE IInv'
  BY <1>4, PairNext
<1>5. CASE TimerFires
  BY <1>5, TimerNext
<1>6. ASSUME NEW i \in Pairs, Answer(i) PROVE IInv'
  BY <1>6, AnswerNext
<1>7. CASE UNCHANGED vars
  <2>1. UNCHANGED <<ready, driver, asleep, gathered, pair, reply, active, full, count>>
    BY <1>7 DEF vars
  <2>2. /\ Queued' = Queued /\ Running' = Running /\ InFlight' = InFlight
        /\ Demasking' = Demasking
    BY <2>1 DEF Queued, Running, InFlight, Demasking
  <2>3. Typed' /\ PairsInv' /\ DriverInv'
    BY <2>1, <2>2 DEF IInv, Typed, PairsInv, DriverInv
  <2>4. HandlesInv' /\ FullInv'
    BY <2>1, <2>2 DEF IInv, HandlesInv, FullInv, Driver
  <2>5. CountsInv'
    BY <2>1, CountsStay DEF IInv
  <2>. QED
    BY <2>3, <2>4, <2>5 DEF IInv
<1>. QED
  BY <1>1, <1>2, <1>3, <1>4, <1>5, <1>6, <1>7 DEF Next, RunHandle, Done

-----------------------------------------------------------------------------
(* What follows from the invariant.                                        *)

\* No counter exceeds two for each arrival: a pair makes at most two attempts.
LEMMA CountersBounded == IInv => count \in [Counters -> 0 .. 2 * Arrivals]
<1>. SUFFICES ASSUME IInv PROVE count \in [Counters -> 0 .. 2 * Arrivals]
  OBVIOUS
<1>1. CountsInv /\ PairsAccounted /\ count \in [Counters -> Nat]
  BY DEF IInv, CountsInv, Typed
<1>2. PICK s, d, m, t, u, w, x, y, z \in Nat :
          /\ s = count["scheduled"] /\ d = count["dropped"] /\ m = count["max_active"]
          /\ t = count["attempts"] /\ u = count["success"]
          /\ w = count["completed"] /\ x = count["bad_restore"]
          /\ y = count["throttled"] /\ z = count["errors"]
  BY CountTypes DEF IInv
<1>3. PICK a, b, c \in Nat :
          a = Cardinality(Running) /\ b = Cardinality(InFlight) /\ c = Cardinality(Demasking)
  BY SetTypes
<1>4. b <= a /\ c <= a
  <2>1. Running \subseteq Pairs /\ InFlight \subseteq Running /\ Demasking \subseteq Running
    BY DEF Running, InFlight, Demasking
  <2>. QED
    BY <1>3, <2>1, Sizes
<1>5. /\ s <= Arrivals /\ m <= s /\ t <= b + c + 2 * (w + x + y + z)
      /\ s = d + a + w + x + y + z /\ t = b + u + y + z
  BY ONLY <1>1, <1>2, <1>3 DEF CountsInv, PairsAccounted
<1>6. /\ s <= 2 * Arrivals /\ d <= 2 * Arrivals /\ m <= 2 * Arrivals
      /\ t <= 2 * Arrivals /\ u <= 2 * Arrivals /\ w <= 2 * Arrivals
      /\ x <= 2 * Arrivals /\ y <= 2 * Arrivals /\ z <= 2 * Arrivals
  BY ONLY <1>4, <1>5, s \in Nat, d \in Nat, m \in Nat, t \in Nat, u \in Nat, w \in Nat,
          x \in Nat, y \in Nat, z \in Nat, a \in Nat, b \in Nat, c \in Nat, ArrivalsAssumption
<1>7. \A n \in Counters : count[n] \in Nat /\ count[n] <= 2 * Arrivals
  BY <1>1, <1>2, <1>6 DEF Counters
<1>. QED
  BY <1>1, <1>7, ArrivalsAssumption

\* The inductive invariant holds throughout.
THEOREM Invariance == Spec => []IInv
<1>1. Init => IInv
  BY IInvInit
<1>2. IInv /\ [Next]_vars => IInv'
  BY IInvNext
<1>. QED
  BY <1>1, <1>2, PTL DEF Spec

\* The variables have their types, no counter exceeds two for each arrival, and
\* no more pairs than the limit have ever been active at once.
THEOREM TypeCorrectness == Spec => []TypeOK
<1>1. IInv => TypeOK
  <2>. SUFFICES ASSUME IInv PROVE TypeOK
    OBVIOUS
  <2>1. Typed /\ count["max_active"] <= Concurrency
    BY DEF IInv, CountsInv
  <2>2. count \in [Counters -> 0 .. 2 * Arrivals]
    BY CountersBounded
  <2>. QED
    BY <2>1, <2>2 DEF Typed, TypeOK
<1>. QED
  BY <1>1, Invariance, PTL

\* Pairs and requests are accounted for once in the report at any time, never
\* more requests are in flight than the connector has connections, and none is
\* missing when the driver is done.
THEOREM Accounting == Spec => []Accounted
<1>1. IInv => Accounted
  <2>. SUFFICES ASSUME IInv PROVE Accounted
    OBVIOUS
  <2>1. PairsAccounted
    BY DEF IInv, CountsInv
  <2>2. Cardinality(InFlight) <= Concurrency
    <3>1. InFlight \subseteq active /\ active \subseteq Pairs /\ Cardinality(active) <= Concurrency
      BY SetTypes DEF IInv, PairsInv, Typed
    <3>2. Cardinality(InFlight) <= Cardinality(active) /\ Cardinality(active) \in Nat
          /\ Cardinality(InFlight) \in Nat
      BY <3>1, Sizes, SetTypes
    <3>. QED
      BY ONLY <3>1, <3>2, ConcurrencyAssumption
  <2>3. RequestsAccounted
    BY <2>2 DEF IInv, CountsInv, RequestsAccounted
  <2>4. NoneCutOff
    BY DEF IInv, DriverInv, NoneCutOff
  <2>. QED
    BY <2>1, <2>3, <2>4 DEF Accounted
<1>. QED
  BY <1>1, Invariance, PTL

\* Only the driver drops an arrival, and then as many pairs as allowed were
\* running when it last gave way: what has ended since has left the active set
\* before the driver's handle is run.
LEMMA DropStep ==
    IInv /\ [Next]_vars =>
        (count'["dropped"] > count["dropped"] => Cardinality(full) >= Concurrency)
<1>. SUFFICES ASSUME IInv, [Next]_vars, count'["dropped"] > count["dropped"]
              PROVE  Cardinality(full) >= Concurrency
  OBVIOUS
<1>1. Typed /\ PairsInv /\ FullInv /\ count["dropped"] \in Nat /\ "dropped" \in Counters
  BY CountTypes DEF IInv, Counters
<1>2. count' # count /\ count'["dropped"] # count["dropped"]
  BY <1>1
<1>3. \A names : count' = Add(count, names) => "dropped" \in names
  BY <1>1, <1>2, Counted
<1>4. \A i \in Pairs : ~PairStep(i)
  <2>1. \A i : ~Send(i, "mask", {}) /\ ~Send(i, "demask", {"success"})
    BY <1>3 DEF Send
  <2>2. \A i : ~End(i, Refusal(reply[i])) /\ ~End(i, {"success"} \cup Outcome(reply[i]))
    BY <1>3 DEF End, Refusal, Outcome
  <2>. QED
    BY <2>1, <2>2 DEF PairStep
<1>5. DriverStep
  <2>1. \A i \in Pairs : ~Discard(i) /\ ~GatherOne(i) /\ ~Answer(i)
    BY <1>2 DEF Discard, GatherOne, Answer
  <2>2. ~TimerFires /\ ~UNCHANGED vars
    BY <1>2 DEF TimerFires, vars
  <2>. QED
    BY <1>4, <2>1, <2>2 DEF Next, RunHandle, Done
<1>6. ready # <<>> /\ Head(ready) = Driver
  BY <1>5 DEF DriverStep
<1>7. driver = "arrivals" /\ Arrive(count["scheduled"] + 1, Tail(ready))
  BY <1>2, <1>5 DEF DriverStep, Gather
<1>8. NoSlot
  <2>1. \A x : count' = Add(count, {"scheduled"} \cup (IF x THEN {"max_active"} ELSE {})) => FALSE
    BY <1>3
  <2>. QED
    BY <1>7, <2>1 DEF Arrive
<1>9. active \subseteq full
  <2>1. \A a : ~Precedes(ready, a, Driver)
    BY <1>1, <1>6, Taken
  <2>. QED
    BY <1>1, <1>7, <2>1 DEF FullInv
<1>. QED
  <2>1. full \subseteq Pairs /\ active \subseteq Pairs
    BY <1>1 DEF Typed
  <2>2. /\ Cardinality(active) <= Cardinality(full)
        /\ Cardinality(active) \in Nat /\ Cardinality(full) \in Nat
    BY <1>9, <2>1, Sizes
  <2>3. Cardinality(active) >= Concurrency
    BY <1>8 DEF NoSlot
  <2>. QED
    BY ONLY <2>2, <2>3, ConcurrencyAssumption

\* An arrival is dropped only if as many pairs as allowed were running when the
\* driver last gave way: a late driver does not starve finished pairs.
THEOREM NoStarvation == Spec => DropsOnlyWhenFull
<1>1. IInv /\ [Next]_vars =>
          (count'["dropped"] > count["dropped"] => Cardinality(full) >= Concurrency)
  BY DropStep
<1>. QED
  BY <1>1, Invariance, PTL DEF Spec, DropsOnlyWhenFull

=============================================================================
