--------------------------- MODULE PairStoreProofs ---------------------------
(***************************************************************************)
(* Theorems about PairStore, for every set of requests, consumers, ids and *)
(* texts, every way of striking texts out and every limit.                 *)
(***************************************************************************)
EXTENDS PairStore, SequenceTheorems, TLAPS

\* What the step a handler is at says of its request and its record.
StepOK ==
    \A r \in Requests :
        /\ pc[r] # "idle" => req[r] \in Request
        /\ pc[r] \in {"publish", "match"} => held[r] \in Pair

Typed == TypeOK /\ StepOK

-----------------------------------------------------------------------------
(* Types of what the steps are made of.                                    *)

\* The key of a request is a key.
LEMMA KeyType ==
    ASSUME NEW q \in Request
    PROVE  KeyOf(q) \in Keys
BY DEF Request, KeyOf, Keys

\* Every text a client can send is a text.
LEMMA SendableType ==
    ASSUME TypeOK
    PROVE  Sendable \subseteq Text
<1>1. \A b \in Bodies : Clear(b) \in Text
  BY MaxDrawsAssumption DEF Clear, Text
<1>2. \A r \in Requests : Served(outcome[r]) => outcome[r].result \in Text
  BY DEF Served
<1>. QED
  BY <1>1, <1>2 DEF Sendable

\* The verdict on a text is an outcome.
LEMMA VerdictType ==
    ASSUME NEW t \in Text, NEW p \in Pair
    PROVE  Verdict(t, p) \in Outcome
BY DEF Verdict, Pair, Outcome, Success, Failure, Directions, Errors

\* Answering ends the handler and keeps the types.
LEMMA AnswerType ==
    ASSUME TypeOK, StepOK, NEW r \in Requests, NEW o \in Outcome,
           Answer(r, o)
    PROVE  /\ pc' \in [Requests -> Steps]
           /\ held' \in [Requests -> Pair \cup {None}]
           /\ outcome' \in [Requests -> Outcome \cup {NoOutcome}]
           /\ counted' \in [created : Nat, completed : Nat]
           /\ \A q \in Requests \ {r} : pc'[q] = pc[q] /\ held'[q] = held[q]
           /\ pc'[r] = "done"
<1>1. "done" \in Steps
  BY DEF Steps
<1>2. counted.created \in Nat /\ counted.completed \in Nat
  BY DEF TypeOK
<1>3. counted' \in [created : Nat, completed : Nat]
  <2>. DEFINE a == IF Served(o) /\ o.direction = "mask" THEN 1 ELSE 0
              b == IF Served(o) /\ o.direction = "demask" THEN 1 ELSE 0
  <2>1. a \in Nat /\ b \in Nat
    OBVIOUS
  <2>2. counted' = [created |-> counted.created + a,
                    completed |-> counted.completed + b]
    BY DEF Answer
  <2>. HIDE DEF a, b
  <2>. QED
    BY <1>2, <2>1, <2>2
<1>. QED
  BY <1>1, <1>3 DEF Answer, Goto, TypeOK

\* Going on to a step keeps the types.
LEMMA ContinueType ==
    ASSUME TypeOK, StepOK, NEW r \in Requests, NEW s \in Steps,
           NEW p \in Pair \cup {None}, Continue(r, s, p)
    PROVE  /\ pc' \in [Requests -> Steps]
           /\ held' \in [Requests -> Pair \cup {None}]
           /\ outcome' \in [Requests -> Outcome \cup {NoOutcome}]
           /\ counted' \in [created : Nat, completed : Nat]
           /\ \A q \in Requests \ {r} : pc'[q] = pc[q] /\ held'[q] = held[q]
           /\ pc'[r] = s
           /\ held'[r] = p
BY DEF Continue, Goto, TypeOK

-----------------------------------------------------------------------------
(* Type correctness, with what each step needs to know of its request.     *)

\* The initial state is typed.
LEMMA TypedInit == Init => Typed
<1>. SUFFICES ASSUME Init PROVE Typed
  OBVIOUS
<1>1. NoOutcome \in Outcome \cup {NoOutcome}
  OBVIOUS
<1>2. <<>> \in Seq([key : Keys, original : Text]) /\ <<>> \in Seq(Pair)
  OBVIOUS
<1>. QED
  BY <1>1, <1>2 DEF Init, Typed, TypeOK, StepOK, Steps

\* Every step of a handler or of the environment keeps the types.
LEMMA TypedNext == Typed /\ [Next]_vars => Typed'
<1>. SUFFICES ASSUME Typed, [Next]_vars PROVE Typed'
  OBVIOUS
<1>. USE DEF Typed
<1>f. \A e \in Errors : Failure(e) \in Outcome
  BY DEF Failure, Outcome
<1>e. RedisError \in Outcome
  BY <1>f DEF RedisError, Errors
<1>s. "get" \in Steps /\ "mask" \in Steps /\ "publish" \in Steps
      /\ "reread" \in Steps /\ "match" \in Steps /\ "done" \in Steps
  BY DEF Steps
<1>1. ASSUME NEW r \in Requests, Arrive(r) PROVE Typed'
  <2>1. PICK c \in Consumers, i \in Ids, t \in Sendable :
          /\ req' = [req EXCEPT ![r] = [consumer |-> c, id |-> i, text |-> t]]
          /\ \/ Continue(r, "get", None)
             \/ Answer(r, Failure("request_too_large"))
             \/ Answer(r, Failure("storage_unavailable"))
    BY <1>1 DEF Arrive
  <2>2. [consumer |-> c, id |-> i, text |-> t] \in Request
    BY SendableType DEF Request
  <2>3. req' \in [Requests -> Request \cup {None}]
        /\ req'[r] \in Request
        /\ \A q \in Requests \ {r} : req'[q] = req[q]
    BY <2>1, <2>2 DEF TypeOK
  <2>4. Failure("request_too_large") \in Outcome
        /\ Failure("storage_unavailable") \in Outcome
    BY <1>f DEF Errors
  <2>5. UNCHANGED <<redis, minted, published, basis>>
    BY <1>1 DEF Arrive
  <2>6. CASE Continue(r, "get", None)
    BY <1>s, <2>3, <2>5, <2>6, ContinueType DEF TypeOK, StepOK
  <2>7. CASE \/ Answer(r, Failure("request_too_large"))
             \/ Answer(r, Failure("storage_unavailable"))
    BY <2>3, <2>4, <2>5, <2>7, AnswerType DEF TypeOK, StepOK
  <2>. QED
    BY <2>1, <2>6, <2>7
<1>2. ASSUME NEW r \in Requests, Load(r), pc[r] # "idle",
             UNCHANGED <<req, redis, minted, published>>
      PROVE  Typed'
  <2>1. RedisKey(r) \in Keys
    BY <1>2, KeyType DEF StepOK, RedisKey
  <2>2. redis[RedisKey(r)] \in Pair
    BY <1>2, <2>1 DEF Load, Taken, TypeOK
  <2>3. Continue(r, "match", redis[RedisKey(r)])
    BY <1>2 DEF Load
  <2>4. Len(published[RedisKey(r)]) \in Nat
    BY <2>1 DEF TypeOK
  <2>5. basis' \in [Requests -> Nat]
    BY <1>2, <2>4 DEF Load, TypeOK
  <2>. QED
    BY <1>2, <1>s, <2>2, <2>3, <2>5, ContinueType DEF TypeOK, StepOK
<1>3. ASSUME NEW r \in Requests, NEW o \in Outcome, Answer(r, o),
             pc[r] # "idle", UNCHANGED <<req, redis, published, basis>>,
             minted' \in Seq([key : Keys, original : Text])
      PROVE  Typed'
  BY <1>3, AnswerType DEF TypeOK, StepOK
<1>4. ASSUME NEW r \in Requests, Get(r) PROVE Typed'
  <2>0. pc[r] # "idle"
    BY <1>4 DEF Get
  <2>1. CASE Load(r)
    BY <1>2, <1>4, <2>0, <2>1 DEF Get
  <2>2. CASE Answer(r, Failure("conflict")) /\ UNCHANGED basis
    BY <1>3, <1>4, <1>f, <2>0, <2>2 DEF Get, Errors, TypeOK
  <2>3. CASE Continue(r, "mask", None) /\ UNCHANGED basis
    BY <1>4, <1>s, <2>0, <2>3, ContinueType DEF Get, TypeOK, StepOK
  <2>. QED
    BY <1>4, <2>1, <2>2, <2>3 DEF Get
<1>5. ASSUME NEW r \in Requests, Mask(r) PROVE Typed'
  <2>0. pc[r] # "idle" /\ UNCHANGED <<req, redis, published, basis>>
    BY <1>5 DEF Mask
  <2>1. RedisKey(r) \in Keys /\ Payload(r) \in Text
    BY <2>0, KeyType DEF StepOK, RedisKey, Payload, Request
  <2>2. ASSUME NEW mode \in Modes, NEW m \in Text,
               minted' = IF HasToken(m)
                         THEN Append(minted, [key |-> RedisKey(r),
                                              original |-> Payload(r)])
                         ELSE minted,
               \/ Continue(r, "publish",
                           [original |-> Payload(r), masked |-> m])
               \/ Answer(r, Failure("storage_unavailable"))
        PROVE Typed'
    <3>1. minted' \in Seq([key : Keys, original : Text])
      <4>1. [key |-> RedisKey(r), original |-> Payload(r)]
              \in [key : Keys, original : Text]
        BY <2>1
      <4>2. minted \in Seq([key : Keys, original : Text])
        BY DEF TypeOK
      <4>. QED
        BY <2>2, <4>1, <4>2, AppendProperties
    <3>2. [original |-> Payload(r), masked |-> m] \in Pair
      BY <2>1 DEF Pair
    <3>3. CASE Continue(r, "publish", [original |-> Payload(r), masked |-> m])
      BY <1>s, <2>0, <3>1, <3>2, <3>3, ContinueType DEF TypeOK, StepOK
    <3>4. CASE Answer(r, Failure("storage_unavailable"))
      BY <1>3, <1>f, <2>0, <3>1, <3>4 DEF Errors
    <3>. QED
      BY <2>2, <3>3, <3>4
  <2>3. CASE /\ \E e \in {"forbidden", "storage_unavailable"} :
                    Answer(r, Failure(e))
             /\ UNCHANGED minted
    BY <1>3, <1>f, <2>0, <2>3 DEF Errors, TypeOK
  <2>. QED
    BY <1>5, <2>2, <2>3 DEF Mask
<1>6. ASSUME NEW r \in Requests, Publish(r) PROVE Typed'
  <2>0. pc[r] = "publish" /\ UNCHANGED <<req, minted>>
    BY <1>6 DEF Publish
  <2>1. RedisKey(r) \in Keys /\ held[r] \in Pair
    BY <2>0, KeyType DEF StepOK, RedisKey
  <2>2. redis' \in [Keys -> Pair \cup {None}]
        /\ published' \in [Keys -> Seq(Pair)]
    <3>1. Append(published[RedisKey(r)], held[r]) \in Seq(Pair)
      BY <2>1, AppendProperties DEF TypeOK
    <3>2. \/ redis' = [redis EXCEPT ![RedisKey(r)] = held[r]]
             /\ published' = [published EXCEPT ![RedisKey(r)] =
                                Append(published[RedisKey(r)], held[r])]
          \/ UNCHANGED <<redis, published>>
      BY <1>6 DEF Publish
    <3>. QED
      BY <2>1, <3>1, <3>2 DEF TypeOK
  <2>3. CASE Answer(r, Success("mask", held[r].masked))
             /\ basis' = [basis EXCEPT ![r] = Len(published[RedisKey(r)]) + 1]
    <3>1. Success("mask", held[r].masked) \in Outcome
      BY <2>1 DEF Success, Outcome, Directions, Pair
    <3>2. basis' \in [Requests -> Nat]
      <4>1. Len(published[RedisKey(r)]) + 1 \in Nat
        BY <2>1 DEF TypeOK
      <4>. QED
        BY <2>3, <4>1 DEF TypeOK
    <3>. QED
      BY <2>0, <2>2, <2>3, <3>1, <3>2, AnswerType DEF TypeOK, StepOK
  <2>4. CASE Answer(r, RedisError) /\ UNCHANGED basis
    BY <1>e, <2>0, <2>2, <2>4, AnswerType DEF TypeOK, StepOK
  <2>5. CASE LoseRace(r)
    BY <1>s, <2>0, <2>2, <2>5, ContinueType DEF LoseRace, TypeOK, StepOK
  <2>. QED
    BY <1>6, <2>3, <2>4, <2>5 DEF Publish
<1>7. ASSUME NEW r \in Requests, Reread(r) PROVE Typed'
  <2>1. CASE Load(r)
    BY <1>2, <1>7, <2>1 DEF Reread
  <2>2. CASE Answer(r, RedisError) /\ UNCHANGED basis
    BY <1>3, <1>7, <1>e, <2>2 DEF Reread, TypeOK
  <2>. QED
    BY <1>7, <2>1, <2>2 DEF Reread
<1>8. ASSUME NEW r \in Requests, Match(r) PROVE Typed'
  <2>1. pc[r] = "match" /\ UNCHANGED <<req, redis, minted, published, basis>>
    BY <1>8 DEF Match
  <2>2. Verdict(Payload(r), held[r]) \in Outcome
    BY <2>1, VerdictType DEF StepOK, Payload, Request
  <2>3. PICK o \in Outcome : Answer(r, o)
    BY <1>8, <1>f, <2>2 DEF Match, Errors
  <2>. QED
    BY <1>3, <2>1, <2>3 DEF TypeOK
<1>9. ASSUME NEW r \in Requests, RedisFails(r) PROVE Typed'
  BY <1>3, <1>9, <1>e DEF RedisFails, TypeOK
<1>10. ASSUME NEW k \in Keys, Expire(k) PROVE Typed'
  BY <1>10 DEF Expire, TypeOK, StepOK
<1>11. CASE Restart
  BY <1>11 DEF Restart, TypeOK, StepOK
<1>12. CASE UNCHANGED vars
  BY <1>12 DEF vars, TypeOK, StepOK
<1>. QED
  BY <1>1, <1>4, <1>5, <1>6, <1>7, <1>8, <1>9, <1>10, <1>11, <1>12
     DEF Next, Handler

\* Every variable keeps its type, and a handler at a step that uses its
\* request or its record has one: no step of process works on nothing.
THEOREM Typing == Spec => []Typed
BY TypedInit, TypedNext, PTL DEF Spec

\* In particular every variable keeps its type.
THEOREM TypeCorrectness == Spec => []TypeOK
<1>1. Typed => TypeOK
  BY DEF Typed
<1>. QED
  BY <1>1, Typing, PTL

-----------------------------------------------------------------------------
(* What every step leaves alone.                                           *)

\* The request q is where it was.
Same(q) ==
    /\ pc'[q] = pc[q]
    /\ req'[q] = req[q]
    /\ held'[q] = held[q]
    /\ outcome'[q] = outcome[q]
    /\ basis'[q] = basis[q]

\* A handler's step concerns no other request.
LEMMA OthersSame ==
    ASSUME Typed, NEW r \in Requests, Arrive(r) \/ Handler(r),
           NEW q \in Requests, q # r
    PROVE  Same(q)
<1>. USE DEF Same, Typed, TypeOK
<1>1. ASSUME NEW o, Answer(r, o)
      PROVE pc'[q] = pc[q] /\ held'[q] = held[q] /\ outcome'[q] = outcome[q]
  BY <1>1 DEF Answer, Goto
<1>2. ASSUME NEW s, NEW p, Continue(r, s, p)
      PROVE pc'[q] = pc[q] /\ held'[q] = held[q] /\ outcome'[q] = outcome[q]
  BY <1>2 DEF Continue, Goto
<1>3. CASE Arrive(r)
  BY <1>1, <1>2, <1>3 DEF Arrive
<1>4. ASSUME Load(r) PROVE pc'[q] = pc[q] /\ held'[q] = held[q]
                           /\ outcome'[q] = outcome[q] /\ basis'[q] = basis[q]
  BY <1>2, <1>4 DEF Load
<1>5. CASE Get(r)
  BY <1>1, <1>2, <1>4, <1>5 DEF Get
<1>6. CASE Mask(r)
  BY <1>1, <1>2, <1>6 DEF Mask
<1>7. CASE Publish(r)
  BY <1>1, <1>2, <1>7 DEF Publish, LoseRace
<1>8. CASE Reread(r)
  BY <1>1, <1>4, <1>8 DEF Reread
<1>9. CASE Match(r)
  BY <1>1, <1>9 DEF Match
<1>10. CASE RedisFails(r)
  BY <1>1, <1>10 DEF RedisFails
<1>. QED
  BY <1>3, <1>5, <1>6, <1>7, <1>8, <1>9, <1>10 DEF Handler

\* The environment concerns none, and neither history.
LEMMA EnvironmentSame ==
    ASSUME (\E k \in Keys : Expire(k)) \/ Restart \/ UNCHANGED vars
    PROVE  /\ \A q \in Requests : Same(q)
           /\ UNCHANGED <<minted, published>>
           /\ \A k \in Keys : redis'[k] \in {redis[k], None}
<1>1. CASE \E k \in Keys : Expire(k)
  BY <1>1 DEF Expire, Same
<1>2. CASE Restart
  BY <1>2 DEF Restart, Same
<1>3. CASE UNCHANGED vars
  BY <1>3 DEF vars, Same
<1>. QED
  BY <1>1, <1>2, <1>3

\* The histories only grow, and a request never changes.
HistoryGrows ==
    /\ \A n \in DOMAIN minted :
           n \in DOMAIN minted' /\ minted'[n] = minted[n]
    /\ \A k \in Keys : \A i \in DOMAIN published[k] :
           i \in DOMAIN published'[k] /\ published'[k][i] = published[k][i]
    /\ \A q \in Requests :
           pc[q] # "idle" => pc'[q] # "idle" /\ req'[q] = req[q]

LEMMA Growth == Typed /\ [Next]_vars => HistoryGrows
<1>. SUFFICES ASSUME Typed, [Next]_vars PROVE HistoryGrows
  OBVIOUS
<1>1. ASSUME NEW S, NEW seq \in Seq(S), NEW elt \in S,
             NEW i \in DOMAIN seq
      PROVE  /\ i \in DOMAIN Append(seq, elt)
             /\ Append(seq, elt)[i] = seq[i]
  OBVIOUS
<1>2. CASE (\E k \in Keys : Expire(k)) \/ Restart \/ UNCHANGED vars
  BY <1>2, EnvironmentSame DEF HistoryGrows, Same
<1>3. ASSUME NEW r \in Requests, Arrive(r) \/ Handler(r)
      PROVE  HistoryGrows
  <2>1. \A q \in Requests \ {r} : Same(q)
    BY <1>3, OthersSame
  <2>2. pc[r] # "idle" => pc'[r] # "idle" /\ req'[r] = req[r]
    <3>1. CASE Arrive(r)
      BY <3>1 DEF Arrive
    <3>2. CASE Handler(r)
      <4>1. req'[r] = req[r]
        BY <3>2 DEF Handler, Get, Mask, Publish, Reread, Match, RedisFails
      <4>2. ASSUME NEW s \in Steps, Goto(r, s), s # "idle"
            PROVE  pc'[r] # "idle"
        BY <4>2 DEF Goto, Typed, TypeOK
      <4>3. \E s \in Steps \ {"idle"} : Goto(r, s)
        BY <3>2 DEF Handler, Get, Mask, Publish, Reread, Match, RedisFails,
                    Load, LoseRace, Answer, Continue, Steps
      <4>. QED
        BY <4>1, <4>2, <4>3
    <3>. QED
      BY <1>3, <3>1, <3>2
  <2>3. \A n \in DOMAIN minted :
           n \in DOMAIN minted' /\ minted'[n] = minted[n]
    <3>1. CASE Mask(r)
      <4>0. RedisKey(r) \in Keys /\ Payload(r) \in Text
        BY <3>1, KeyType
           DEF Mask, Typed, StepOK, RedisKey, Payload, Request
      <4>1. [key |-> RedisKey(r), original |-> Payload(r)]
              \in [key : Keys, original : Text]
        BY <4>0
      <4>2. \/ minted' = Append(minted, [key |-> RedisKey(r),
                                         original |-> Payload(r)])
            \/ minted' = minted
        BY <3>1 DEF Mask
      <4>3. minted \in Seq([key : Keys, original : Text])
        BY DEF Typed, TypeOK
      <4>4. \A n \in DOMAIN minted :
              LET e == [key |-> RedisKey(r), original |-> Payload(r)]
              IN  /\ n \in DOMAIN Append(minted, e)
                  /\ Append(minted, e)[n] = minted[n]
        BY <1>1, <4>1, <4>3
      <4>. QED
        BY <4>2, <4>4
    <3>2. CASE ~Mask(r)
      BY <1>3, <3>2
         DEF Arrive, Handler, Get, Publish, Reread, Match, RedisFails
    <3>. QED
      BY <3>1, <3>2
  <2>4. \A k \in Keys : \A i \in DOMAIN published[k] :
           i \in DOMAIN published'[k] /\ published'[k][i] = published[k][i]
    <3>1. CASE Publish(r)
      <4>1. held[r] \in Pair
        BY <3>1 DEF Publish, Typed, StepOK
      <4>2. \/ published' = published
            \/ published' = [published EXCEPT ![RedisKey(r)] =
                                Append(published[RedisKey(r)], held[r])]
        BY <3>1 DEF Publish
      <4>3. ASSUME NEW k \in Keys
            PROVE published'[k] \in {published[k],
                                     Append(published[k], held[r])}
        BY <4>2 DEF Typed, TypeOK
      <4>4. ASSUME NEW k \in Keys, NEW i \in DOMAIN published[k]
            PROVE  /\ i \in DOMAIN Append(published[k], held[r])
                   /\ Append(published[k], held[r])[i] = published[k][i]
        <5>1. published[k] \in Seq(Pair)
          BY DEF Typed, TypeOK
        <5>. QED
          BY <1>1, <4>1, <5>1
      <4>. QED
        BY <4>3, <4>4
    <3>2. CASE ~Publish(r)
      BY <1>3, <3>2
         DEF Arrive, Handler, Get, Mask, Reread, Match, RedisFails
    <3>. QED
      BY <3>1, <3>2
  <2>. QED
    BY <2>1, <2>2, <2>3, <2>4 DEF HistoryGrows, Same
<1>. QED
  BY <1>2, <1>3 DEF Next

-----------------------------------------------------------------------------
(* The inductive invariant, in four parts.                                 *)

\* The tokens of a pair were drawn for its key and its original, which has
\* no token itself.
GoodPair(p, k) ==
    /\ ~HasToken(p.original)
    /\ HasToken(p.masked) =>
           /\ p.masked.tag \in DOMAIN minted
           /\ minted[p.masked.tag] = [key |-> k, original |-> p.original]

\* Every pair published, or about to be, is a good one.
PairsInv ==
    /\ \A k \in Keys : \A i \in DOMAIN published[k] :
           GoodPair(published[k][i], k)
    /\ \A r \in Requests :
           /\ pc[r] \in {"mask", "publish"} => ~HasToken(Payload(r))
           /\ pc[r] = "publish" => /\ held[r].original = Payload(r)
                                   /\ GoodPair(held[r], RedisKey(r))

\* Redis holds the last pair published under a key, or none.
RedisInv ==
    \A k \in Keys :
        redis[k] # None =>
            /\ Len(published[k]) \in DOMAIN published[k]
            /\ redis[k] = published[k][Len(published[k])]

\* A record being matched, and every answer, is of a pair that was published.
AnswersInv ==
    /\ \A r \in Requests :
           /\ pc[r] = "match" =>
                  /\ basis[r] \in DOMAIN published[RedisKey(r)]
                  /\ held[r] = published[RedisKey(r)][basis[r]]
           /\ Served(outcome[r]) => pc[r] = "done"
    /\ AnsweredFromStore

\* Every original that was published came with a request for its key.
SourceInv ==
    \A k \in Keys : \A i \in DOMAIN published[k] :
        \E q \in Requests :
            /\ pc[q] # "idle"
            /\ RedisKey(q) = k
            /\ Payload(q) = published[k][i].original

-----------------------------------------------------------------------------
\* A good pair stays good.
LEMMA GoodStays ==
    ASSUME HistoryGrows, NEW p, NEW k, GoodPair(p, k)
    PROVE  GoodPair(p, k)'
BY DEF HistoryGrows, GoodPair

\* What is appended to a sequence is at its end, and the rest is as before.
LEMMA AppendLast ==
    ASSUME NEW S, NEW seq \in Seq(S), NEW elt \in S
    PROVE  /\ Len(seq) \in Nat
           /\ Len(seq) + 1 \in DOMAIN Append(seq, elt)
           /\ Append(seq, elt)[Len(seq) + 1] = elt
           /\ Len(Append(seq, elt)) = Len(seq) + 1
           /\ \A i \in DOMAIN Append(seq, elt) :
                  i = Len(seq) + 1
                  \/ (i \in DOMAIN seq /\ Append(seq, elt)[i] = seq[i])
           /\ \A i \in DOMAIN seq : i \in 1 .. Len(seq)
OBVIOUS

\* Masking a text without tokens keeps it so or draws the next tokens.
LEMMA MaskedTag ==
    ASSUME NEW mode \in Modes, NEW t \in Text, ~HasToken(t),
           HasToken(Masked(mode, t))
    PROVE  Masked(mode, t).tag = Len(minted) + 1
<1>1. CASE mode = "off"
  BY <1>1 DEF Masked
<1>2. CASE mode = "redact"
  <2>1. Masked(mode, t) = [t EXCEPT !.body = Redact[t.body]]
    BY <1>2 DEF Masked
  <2>2. Masked(mode, t).tag = t.tag
    BY <2>1 DEF Text
  <2>. QED
    BY <2>2 DEF HasToken
<1>3. CASE mode = "token" /\ Redact[t.body] = t.body
  <2>1. Masked(mode, t) = t
    BY <1>3 DEF Masked
  <2>. QED
    BY <2>1
<1>4. CASE mode = "token" /\ Redact[t.body] # t.body
  <2>1. Masked(mode, t) = [body |-> Redact[t.body], tag |-> Len(minted) + 1]
    BY <1>4 DEF Masked
  <2>. QED
    BY <2>1
<1>. QED
  BY <1>1, <1>2, <1>3, <1>4, ModesAssumption

\* What a handler about to publish holds after a step.
LEMMA PairsNext ==
    ASSUME Typed, [Next]_vars, HistoryGrows, PairsInv
    PROVE  PairsInv'
<1>. DEFINE Fit(r) ==
       /\ pc[r] \in {"mask", "publish"} => ~HasToken(Payload(r))
       /\ pc[r] = "publish" => /\ held[r].original = Payload(r)
                               /\ GoodPair(held[r], RedisKey(r))
<1>1. ASSUME NEW r \in Requests, Same(r) PROVE Fit(r)'
  BY <1>1, GoodStays DEF PairsInv, Same, Payload, RedisKey
<1>2. ASSUME NEW r \in Requests, pc'[r] \in Steps \ {"mask", "publish"}
      PROVE  Fit(r)'
  BY <1>2
<1>3. ASSUME UNCHANGED published, \A r \in Requests : Fit(r)'
      PROVE  PairsInv'
  BY <1>3, GoodStays DEF PairsInv
<1>4. CASE (\E k \in Keys : Expire(k)) \/ Restart \/ UNCHANGED vars
  BY <1>1, <1>3, <1>4, EnvironmentSame
<1>5. ASSUME NEW r \in Requests, Arrive(r) \/ Handler(r)
      PROVE  PairsInv'
  <2>1. \A q \in Requests \ {r} : Fit(q)'
    BY <1>1, <1>5, OthersSame
  <2>g. ASSUME NEW s \in Steps, Goto(r, s) PROVE pc'[r] = s
    BY <2>g DEF Goto, Typed, TypeOK
  <2>2. ASSUME NEW s \in Steps \ {"mask", "publish"}, Goto(r, s)
        PROVE  Fit(r)'
    BY <1>2, <2>2, <2>g
  <2>3. CASE Arrive(r)
    <3>1. \E s \in Steps \ {"mask", "publish"} : Goto(r, s)
      BY <2>3 DEF Arrive, Answer, Continue, Steps
    <3>. QED
      BY <1>3, <2>1, <2>2, <2>3, <3>1 DEF Arrive
  <2>4. CASE Get(r)
    <3>1. UNCHANGED <<req, published>>
      BY <2>4 DEF Get
    <3>2. CASE Goto(r, "mask") /\ ~HasToken(Payload(r))
      BY <1>3, <2>1, <2>g, <3>1, <3>2 DEF Payload, Steps
    <3>3. CASE \E s \in {"match", "done"} : Goto(r, s)
      BY <1>3, <2>1, <2>2, <3>1, <3>3 DEF Steps
    <3>. QED
      BY <2>4, <3>2, <3>3
         DEF Get, Load, Answer, Continue, MappingAbsent
  <2>5. CASE Mask(r)
    <3>0. /\ pc[r] = "mask" /\ UNCHANGED <<req, published>>
          /\ ~HasToken(Payload(r))
      BY <2>5 DEF Mask, PairsInv
    <3>1. CASE Goto(r, "done")
      BY <1>3, <2>1, <2>2, <3>0, <3>1 DEF Steps
    <3>2. ASSUME NEW mode \in Modes, NEW m, m = Masked(mode, Payload(r)),
                 m \in Text,
                 minted' = IF HasToken(m)
                           THEN Append(minted, [key |-> RedisKey(r),
                                                original |-> Payload(r)])
                           ELSE minted,
                 Continue(r, "publish",
                          [original |-> Payload(r), masked |-> m])
          PROVE PairsInv'
      <4>1. Payload(r) \in Text /\ RedisKey(r) \in Keys
        BY <3>0, KeyType DEF Typed, StepOK, Payload, RedisKey, Request
      <4>2. /\ pc'[r] = "publish"
            /\ held'[r] = [original |-> Payload(r), masked |-> m]
        BY <3>2, <2>g DEF Continue, Typed, TypeOK, Steps
      <4>3. HasToken(m) => /\ m.tag \in DOMAIN minted'
                           /\ minted'[m.tag] = [key |-> RedisKey(r),
                                                original |-> Payload(r)]
        <5>. SUFFICES ASSUME HasToken(m) PROVE /\ m.tag \in DOMAIN minted'
                        /\ minted'[m.tag] = [key |-> RedisKey(r),
                                             original |-> Payload(r)]
          OBVIOUS
        <5>1. m.tag = Len(minted) + 1
          BY <3>0, <3>2, <4>1, MaskedTag
        <5>2. minted \in Seq([key : Keys, original : Text])
          BY DEF Typed, TypeOK
        <5>3. [key |-> RedisKey(r), original |-> Payload(r)]
                \in [key : Keys, original : Text]
          BY <4>1
        <5>. QED
          BY <3>2, <5>1, <5>2, <5>3, AppendLast
      <4>4. Fit(r)'
        BY <3>0, <4>2, <4>3 DEF GoodPair, Payload, RedisKey
      <4>. QED
        BY <1>3, <2>1, <3>0, <4>4
    <3>. QED
      BY <2>5, <3>1, <3>2 DEF Mask, Answer
  <2>6. CASE Publish(r)
    <3>0. /\ pc[r] = "publish" /\ held[r] \in Pair /\ RedisKey(r) \in Keys
          /\ GoodPair(held[r], RedisKey(r))
      BY <2>6, KeyType DEF Publish, PairsInv, Typed, StepOK, RedisKey
    <3>1. Fit(r)'
      <4>1. \E s \in {"done", "reread"} : Goto(r, s)
        BY <2>6 DEF Publish, LoseRace, Answer, Continue
      <4>. QED
        BY <2>2, <4>1 DEF Steps
    <3>2. CASE UNCHANGED published
      BY <1>3, <2>1, <3>1, <3>2
    <3>3. CASE published' = [published EXCEPT ![RedisKey(r)] =
                               Append(published[RedisKey(r)], held[r])]
      <4>1. ASSUME NEW k \in Keys, NEW i \in DOMAIN published'[k]
            PROVE  \/ i \in DOMAIN published[k]
                      /\ published'[k][i] = published[k][i]
                   \/ k = RedisKey(r) /\ published'[k][i] = held[r]
        <5>1. published[k] \in Seq(Pair)
          BY DEF Typed, TypeOK
        <5>2. CASE k # RedisKey(r)
          BY <3>3, <5>2 DEF Typed, TypeOK
        <5>3. CASE k = RedisKey(r)
          <6>1. published'[k] = Append(published[k], held[r])
            BY <3>3, <5>3 DEF Typed, TypeOK
          <6>. QED
            BY <3>0, <4>1, <5>1, <5>3, <6>1, AppendLast
        <5>. QED
          BY <5>2, <5>3
      <4>2. ASSUME NEW k \in Keys, NEW i \in DOMAIN published'[k]
            PROVE  GoodPair(published'[k][i], k)
        BY <3>0, <4>1, <4>2 DEF PairsInv
      <4>3. UNCHANGED minted
        BY <2>6 DEF Publish
      <4>. QED
        BY <2>1, <3>1, <4>2, <4>3 DEF PairsInv, GoodPair
    <3>. QED
      BY <2>6, <3>2, <3>3 DEF Publish
  <2>7. CASE Reread(r) \/ Match(r) \/ RedisFails(r)
    <3>1. \E s \in {"match", "done"} : Goto(r, s)
      BY <2>7 DEF Reread, Match, RedisFails, Load, Answer, Continue
    <3>2. UNCHANGED published
      BY <2>7 DEF Reread, Match, RedisFails
    <3>. QED
      BY <1>3, <2>1, <2>2, <3>1, <3>2 DEF Steps
  <2>. QED
    BY <1>5, <2>3, <2>4, <2>5, <2>6, <2>7 DEF Handler
<1>. QED
  BY <1>4, <1>5 DEF Next

-----------------------------------------------------------------------------
(* The other parts.                                                        *)

\* Redis and the history of what was published move together.
LEMMA RedisNext ==
    ASSUME Typed, [Next]_vars, RedisInv
    PROVE  RedisInv'
<1>1. CASE (\E k \in Keys : Expire(k)) \/ Restart \/ UNCHANGED vars
  BY <1>1, EnvironmentSame DEF RedisInv
<1>2. ASSUME NEW r \in Requests, Publish(r), ~UNCHANGED <<redis, published>>
      PROVE  RedisInv'
  <2>1. /\ held[r] \in Pair
        /\ redis' = [redis EXCEPT ![RedisKey(r)] = held[r]]
        /\ published' = [published EXCEPT ![RedisKey(r)] =
                             Append(published[RedisKey(r)], held[r])]
    BY <1>2 DEF Publish, Typed, StepOK
  <2>2. ASSUME NEW k \in Keys, redis'[k] # None
        PROVE  /\ Len(published'[k]) \in DOMAIN published'[k]
               /\ redis'[k] = published'[k][Len(published'[k])]
    <3>1. CASE k # RedisKey(r)
      BY <2>1, <2>2, <3>1 DEF RedisInv, Typed, TypeOK
    <3>2. CASE k = RedisKey(r)
      <4>1. published[k] \in Seq(Pair)
        BY DEF Typed, TypeOK
      <4>2. /\ published'[k] = Append(published[k], held[r])
            /\ redis'[k] = held[r]
        BY <2>1, <3>2 DEF Typed, TypeOK
      <4>. QED
        BY <2>1, <4>1, <4>2, AppendLast
    <3>. QED
      BY <3>1, <3>2
  <2>. QED
    BY <2>2 DEF RedisInv
<1>3. ASSUME NEW r \in Requests, Arrive(r) \/ Handler(r),
             UNCHANGED <<redis, published>>
      PROVE  RedisInv'
  BY <1>3 DEF RedisInv
<1>4. ASSUME NEW r \in Requests, Arrive(r) \/ Handler(r), ~Publish(r)
      PROVE  UNCHANGED <<redis, published>>
  BY <1>4 DEF Arrive, Handler, Get, Mask, Reread, Match, RedisFails
<1>. QED
  BY <1>1, <1>2, <1>3, <1>4 DEF Next, Handler

\* An answer is the verdict on a pair that was published.
LEMMA VerdictAnswers ==
    ASSUME NEW t \in Text, NEW p \in Pair, Served(Verdict(t, p))
    PROVE  \/ /\ Verdict(t, p).direction = "repeat"
              /\ t = p.original /\ Verdict(t, p).result = p.masked
           \/ /\ Verdict(t, p).direction = "demask"
              /\ t = p.masked /\ Verdict(t, p).result = p.original
<1>1. CASE t = p.original
  BY <1>1 DEF Verdict, Success
<1>2. CASE t # p.original /\ t = p.masked
  BY <1>2 DEF Verdict, Success
<1>3. CASE t # p.original /\ t # p.masked
  <2>1. Verdict(t, p) = [error |-> "conflict"]
    BY <1>3 DEF Verdict, Failure
  <2>2. [error |-> "conflict"]
          \notin [direction : Directions, result : Text]
    OBVIOUS
  <2>. QED
    BY <2>1, <2>2 DEF Served
<1>. QED
  BY <1>1, <1>2, <1>3

\* A refusal is not a served answer.
LEMMA RefusalNotServed ==
    /\ \A e : ~Served(Failure(e))
    /\ ~Served(NoOutcome)
    /\ ~Served(RedisError)
BY DEF Served, Failure, NoOutcome, RedisError

\* What a step of r makes of r: it is served on a published pair, is told that
\* it created one only if it is the next, or is not served.
Creator(r) == Served(outcome[r]) /\ outcome[r].direction = "mask"

Based(r) ==
    /\ pc[r] = "match" =>
           /\ basis[r] \in DOMAIN published[RedisKey(r)]
           /\ held[r] = published[RedisKey(r)][basis[r]]
    /\ Served(outcome[r]) =>
           /\ pc[r] = "done"
           /\ basis[r] \in DOMAIN published[RedisKey(r)]
           /\ PairAnswers(r, published[RedisKey(r)][basis[r]])

LEMMA AnswersBased == AnswersInv <=> \A r \in Requests : Based(r)
BY DEF AnswersInv, AnsweredFromStore, Based

LEMMA StepBased ==
    ASSUME Typed, [Next]_vars, HistoryGrows, PairsInv, RedisInv, AnswersInv,
           NEW r \in Requests, Arrive(r) \/ Handler(r)
    PROVE  /\ Based(r)'
           /\ Creator(r)' => basis'[r] = Len(published[RedisKey(r)]) + 1
           /\ ~Served(outcome[r])
<1>. USE DEF Typed
<1>1. pc[r] # "done" /\ ~Served(outcome[r])
  BY DEF Arrive, Handler, Get, Mask, Publish, Reread, Match, RedisFails,
         AnswersInv
<1>2. ASSUME NEW o, Answer(r, o), ~Served(o)
      PROVE  Based(r)' /\ ~Creator(r)'
  <2>1. pc'[r] = "done" /\ outcome'[r] = o
    BY <1>2 DEF Answer, Goto, TypeOK
  <2>. QED
    BY <1>2, <2>1 DEF Based, Creator, Served
<1>3. ASSUME NEW s, NEW p, Continue(r, s, p), s # "match"
      PROVE  Based(r)' /\ ~Creator(r)'
  <2>1. pc'[r] = s /\ outcome'[r] = outcome[r]
    BY <1>3 DEF Continue, Goto, TypeOK
  <2>. QED
    BY <1>1, <1>3, <2>1 DEF Based, Creator, Served
<1>4. ASSUME Load(r), pc[r] # "idle", UNCHANGED <<req, published>>
      PROVE  Based(r)' /\ ~Creator(r)'
  <2>1. RedisKey(r) \in Keys
    BY <1>4, KeyType DEF StepOK, RedisKey
  <2>2. /\ pc'[r] = "match"
        /\ held'[r] = redis[RedisKey(r)]
        /\ outcome'[r] = outcome[r]
        /\ basis'[r] = Len(published[RedisKey(r)])
    BY <1>4 DEF Load, Continue, Goto, TypeOK
  <2>3. /\ Len(published[RedisKey(r)]) \in DOMAIN published[RedisKey(r)]
        /\ redis[RedisKey(r)] =
               published[RedisKey(r)][Len(published[RedisKey(r)])]
    BY <1>4, <2>1 DEF Load, Taken, RedisInv
  <2>4. RedisKey(r)' = RedisKey(r)
    BY <1>4 DEF RedisKey
  <2>. QED
    BY <1>1, <1>4, <2>2, <2>3, <2>4 DEF Based, Creator, Served
<1>5. CASE Arrive(r)
  BY <1>2, <1>3, <1>5, <1>1, RefusalNotServed DEF Arrive
<1>6. CASE Get(r)
  BY <1>1, <1>2, <1>3, <1>4, <1>6, RefusalNotServed DEF Get
<1>7. CASE Mask(r)
  BY <1>1, <1>2, <1>3, <1>7, RefusalNotServed DEF Mask
<1>8. CASE Publish(r)
  <2>1. CASE LoseRace(r)
    BY <1>1, <1>3, <2>1 DEF LoseRace
  <2>2. CASE Answer(r, RedisError)
    BY <1>1, <1>2, <2>2, RefusalNotServed
  <2>3. CASE /\ Answer(r, Success("mask", held[r].masked))
             /\ basis' = [basis EXCEPT
                              ![r] = Len(published[RedisKey(r)]) + 1]
             /\ published' = [published EXCEPT
                   ![RedisKey(r)] = Append(published[RedisKey(r)], held[r])]
    <3>1. pc[r] = "publish" /\ req' = req /\ held[r] \in Pair
          /\ RedisKey(r) \in Keys
      BY <1>8, KeyType DEF Publish, StepOK, RedisKey
    <3>2. /\ pc'[r] = "done"
          /\ outcome'[r] = Success("mask", held[r].masked)
          /\ basis'[r] = Len(published[RedisKey(r)]) + 1
      BY <2>3 DEF Answer, Goto, TypeOK
    <3>3. /\ basis'[r] \in DOMAIN published'[RedisKey(r)]
          /\ published'[RedisKey(r)][basis'[r]] = held[r]
      <4>1. published[RedisKey(r)] \in Seq(Pair)
        BY <3>1 DEF TypeOK
      <4>2. published'[RedisKey(r)] = Append(published[RedisKey(r)], held[r])
        BY <2>3, <3>1 DEF TypeOK
      <4>. QED
        BY <3>1, <3>2, <4>1, <4>2, AppendLast
    <3>4. RedisKey(r)' = RedisKey(r)
      BY <3>1 DEF RedisKey
    <3>5. ASSUME NEW p, p = held[r] PROVE PairAnswers(r, p)'
      BY <3>1, <3>2, <3>5
         DEF PairAnswers, Demasking, Success, PairsInv, Payload
    <3>6. PairAnswers(r, published[RedisKey(r)][basis[r]])'
      BY <3>3, <3>4, <3>5
    <3>. QED
      BY <1>1, <3>2, <3>3, <3>4, <3>6 DEF Based
  <2>. QED
    BY <1>8, <2>1, <2>2, <2>3 DEF Publish
<1>9. CASE Reread(r)
  BY <1>1, <1>2, <1>4, <1>9, RefusalNotServed DEF Reread
<1>10. CASE Match(r)
  <2>0. /\ pc[r] = "match" /\ UNCHANGED <<req, published, basis>>
        /\ Payload(r) \in Text /\ held[r] \in Pair
    BY <1>10 DEF Match, StepOK, Payload, Request
  <2>1. CASE Answer(r, Verdict(Payload(r), held[r]))
    <3>1. CASE ~Served(Verdict(Payload(r), held[r]))
      BY <1>1, <1>2, <2>1, <3>1
    <3>2. CASE Served(Verdict(Payload(r), held[r]))
      <4>. DEFINE v == Verdict(Payload(r), held[r])
      <4>1. /\ pc'[r] = "done" /\ outcome'[r] = v
            /\ basis'[r] = basis[r]
        BY <2>0, <2>1 DEF Answer, Goto, TypeOK
      <4>2. \/ /\ v.direction = "repeat"
               /\ Payload(r) = held[r].original /\ v.result = held[r].masked
            \/ /\ v.direction = "demask"
               /\ Payload(r) = held[r].masked /\ v.result = held[r].original
        BY <2>0, <3>2, VerdictAnswers
      <4>3. /\ basis[r] \in DOMAIN published[RedisKey(r)]
            /\ held[r] = published[RedisKey(r)][basis[r]]
        BY <2>0 DEF AnswersInv
      <4>4. Served(v)
        BY <3>2
      <4>. HIDE DEF v
      <4>5. ASSUME NEW p, p = held[r] PROVE PairAnswers(r, p)'
        BY <2>0, <4>1, <4>2, <4>4, <4>5
           DEF PairAnswers, Demasking, Payload, Served
      <4>6. RedisKey(r)' = RedisKey(r)
        BY <2>0 DEF RedisKey
      <4>7. PairAnswers(r, published[RedisKey(r)][basis[r]])'
        BY <2>0, <4>1, <4>3, <4>5, <4>6
      <4>8. Based(r)'
        BY <2>0, <4>1, <4>3, <4>6, <4>7 DEF Based
      <4>9. ~Creator(r)'
        BY <4>1, <4>2 DEF Creator
      <4>. QED
        BY <1>1, <4>8, <4>9
    <3>. QED
      BY <3>1, <3>2
  <2>2. CASE \E e \in {"forbidden", "storage_unavailable"} :
                 Answer(r, Failure(e))
    BY <1>1, <1>2, <2>2, RefusalNotServed
  <2>. QED
    BY <1>10, <2>1, <2>2 DEF Match
<1>11. CASE RedisFails(r)
  BY <1>1, <1>2, <1>11, RefusalNotServed DEF RedisFails
<1>. QED
  BY <1>5, <1>6, <1>7, <1>8, <1>9, <1>10, <1>11 DEF Handler

\* A request that stays where it is stays based on the same pair.
LEMMA SameBased ==
    ASSUME Typed, HistoryGrows, NEW q \in Requests, Same(q), Based(q)
    PROVE  Based(q)'
<1>1. CASE pc[q] \in {"match", "done"} /\ basis[q] \in DOMAIN published[RedisKey(q)]
  <2>1. RedisKey(q) \in Keys
    BY <1>1, KeyType DEF Typed, StepOK, RedisKey
  <2>2. RedisKey(q)' = RedisKey(q)
    BY DEF Same, RedisKey
  <2>3. /\ basis'[q] \in DOMAIN published'[RedisKey(q)]
        /\ published'[RedisKey(q)][basis'[q]]
             = published[RedisKey(q)][basis[q]]
    BY <1>1, <2>1 DEF HistoryGrows, Same
  <2>4. ASSUME NEW p, PairAnswers(q, p) PROVE PairAnswers(q, p)'
    BY <2>4 DEF Same, PairAnswers, Demasking, Served
  <2>. QED
    BY <2>2, <2>3, <2>4 DEF Based, Same, Served
<1>2. CASE ~(pc[q] \in {"match", "done"}
             /\ basis[q] \in DOMAIN published[RedisKey(q)])
  BY <1>2 DEF Based, Same, Served
<1>. QED
  BY <1>1, <1>2

LEMMA AnswersNext ==
    ASSUME Typed, [Next]_vars, HistoryGrows, PairsInv, RedisInv, AnswersInv
    PROVE  AnswersInv'
<1>1. CASE (\E k \in Keys : Expire(k)) \/ Restart \/ UNCHANGED vars
  BY <1>1, EnvironmentSame, SameBased, AnswersBased
     DEF AnswersInv, AnsweredFromStore, Based
<1>2. ASSUME NEW r \in Requests, Arrive(r) \/ Handler(r) PROVE AnswersInv'
  <2>1. \A q \in Requests : Based(q)'
    BY <1>2, OthersSame, SameBased, StepBased, AnswersBased
  <2>. QED
    BY <2>1 DEF AnswersInv, AnsweredFromStore, Based
<1>. QED
  BY <1>1, <1>2 DEF Next

\* A pair has at most one creator: a new one is published after all others.
LEMMA CreatorNext ==
    ASSUME Typed, [Next]_vars, HistoryGrows, PairsInv, RedisInv, AnswersInv,
           OneCreator
    PROVE  OneCreator'
<1>1. ASSUME NEW q \in Requests, Same(q)
      PROVE  /\ Creator(q)' <=> Creator(q)
             /\ RedisKey(q)' = RedisKey(q)
             /\ basis'[q] = basis[q]
  BY <1>1 DEF Same, Creator, RedisKey, Served
<1>2. CASE (\E k \in Keys : Expire(k)) \/ Restart \/ UNCHANGED vars
  BY <1>1, <1>2, EnvironmentSame DEF OneCreator, Creator
<1>3. ASSUME NEW r \in Requests, Arrive(r) \/ Handler(r) PROVE OneCreator'
  <2>1. \A q \in Requests \ {r} : Same(q)
    BY <1>3, OthersSame
  <2>2. ASSUME Creator(r)', NEW q \in Requests \ {r}, Creator(q)',
               RedisKey(q)' = RedisKey(r)', basis'[q] = basis'[r]
        PROVE  FALSE
    <3>1. basis[q] \in DOMAIN published[RedisKey(q)] /\ pc[q] = "done"
      BY <1>1, <2>1, <2>2, AnswersBased DEF Creator, Based
    <3>2. RedisKey(q) \in Keys
      BY <3>1, KeyType DEF Typed, StepOK, RedisKey
    <3>3. basis'[r] = Len(published[RedisKey(r)]) + 1
      BY <1>3, <2>2, StepBased
    <3>4. RedisKey(r)' = RedisKey(r)
      <4>1. ~Arrive(r)
        <5>1. Arrive(r) => \/ outcome'[r] = outcome[r]
                           \/ \E e : outcome'[r] = Failure(e)
          BY DEF Arrive, Continue, Answer, Typed, TypeOK
        <5>2. ~Served(outcome[r])
          BY <1>3, StepBased
        <5>. QED
          BY <2>2, <5>1, <5>2, RefusalNotServed DEF Creator, Served
      <4>. QED
        BY <1>3, <4>1
           DEF Handler, Get, Mask, Publish, Reread, Match, RedisFails,
               RedisKey
    <3>5. basis[q] = Len(published[RedisKey(q)]) + 1
      BY <1>1, <2>1, <2>2, <3>3, <3>4
    <3>6. published[RedisKey(q)] \in Seq(Pair)
      BY <3>2 DEF Typed, TypeOK
    <3>. QED
      BY <3>1, <3>5, <3>6
  <2>3. \A q, p \in Requests \ {r} :
          Creator(q)' /\ Creator(p)' /\ RedisKey(q)' = RedisKey(p)'
          /\ basis'[q] = basis'[p] => q = p
    BY <1>1, <2>1 DEF OneCreator, Creator
  <2>. QED
    BY <2>2, <2>3 DEF OneCreator, Creator
<1>. QED
  BY <1>2, <1>3 DEF Next

\* A pair is published by the request that brought its original.
LEMMA SourceNext ==
    ASSUME Typed, [Next]_vars, HistoryGrows, PairsInv, SourceInv
    PROVE  SourceInv'
<1>. DEFINE Sent(k, t) == \E q \in Requests : /\ pc[q] # "idle"
                                              /\ RedisKey(q) = k
                                              /\ Payload(q) = t
<1>1. ASSUME NEW k, NEW t, Sent(k, t) PROVE Sent(k, t)'
  BY <1>1 DEF HistoryGrows, RedisKey, Payload
<1>2. ASSUME NEW k \in Keys, NEW i \in DOMAIN published'[k]
      PROVE  \/ i \in DOMAIN published[k]
                /\ published'[k][i] = published[k][i]
             \/ Sent(k, published'[k][i].original)
  <2>1. CASE UNCHANGED published
    BY <1>2, <2>1
  <2>2. ASSUME NEW r \in Requests, Publish(r), ~UNCHANGED published
        PROVE  \/ i \in DOMAIN published[k]
                  /\ published'[k][i] = published[k][i]
               \/ Sent(k, published'[k][i].original)
    <3>1. /\ pc[r] = "publish" /\ held[r] \in Pair
          /\ held[r].original = Payload(r)
          /\ published' = [published EXCEPT ![RedisKey(r)] =
                               Append(published[RedisKey(r)], held[r])]
      BY <2>2 DEF Publish, PairsInv, Typed, StepOK
    <3>2. CASE k # RedisKey(r)
      BY <1>2, <3>1, <3>2 DEF Typed, TypeOK
    <3>3. CASE k = RedisKey(r)
      <4>1. published[k] \in Seq(Pair)
        BY DEF Typed, TypeOK
      <4>2. published'[k] = Append(published[k], held[r])
        BY <3>1, <3>3 DEF Typed, TypeOK
      <4>3. \/ i \in DOMAIN published[k]
               /\ published'[k][i] = published[k][i]
            \/ published'[k][i] = held[r]
        BY <1>2, <3>1, <4>1, <4>2, AppendLast
      <4>. QED
        BY <3>1, <3>3, <4>3
    <3>. QED
      BY <3>2, <3>3
  <2>3. (\E r \in Requests : Publish(r)) \/ UNCHANGED published
    BY DEF Next, Arrive, Handler, Get, Mask, Reread, Match, RedisFails,
           Expire, Restart, vars
  <2>. QED
    BY <2>1, <2>2, <2>3
<1>3. ASSUME NEW k \in Keys, NEW i \in DOMAIN published'[k]
      PROVE  Sent(k, published[k][i].original)'
  <2>1. Sent(k, published'[k][i].original)
    BY <1>2, <1>3 DEF SourceInv
  <2>2. ASSUME NEW t, t = published'[k][i].original, Sent(k, t)
        PROVE  Sent(k, published[k][i].original)'
    BY <1>1, <2>2
  <2>. QED
    BY <2>1, <2>2
<1>. QED
  BY <1>3 DEF SourceInv

-----------------------------------------------------------------------------
(* The theorems.                                                           *)

IInv == /\ Typed
        /\ PairsInv
        /\ RedisInv
        /\ AnswersInv
        /\ OneCreator
        /\ SourceInv

LEMMA IInvInit == Init => IInv
<1>. SUFFICES ASSUME Init PROVE IInv
  OBVIOUS
<1>1. \A r \in Requests : ~Served(outcome[r])
  BY RefusalNotServed DEF Init
<1>. QED
  BY <1>1, TypedInit
     DEF IInv, Init, PairsInv, RedisInv, AnswersInv, AnsweredFromStore,
         OneCreator, SourceInv

LEMMA IInvNext == IInv /\ [Next]_vars => IInv'
<1>. SUFFICES ASSUME IInv, [Next]_vars PROVE IInv'
  OBVIOUS
<1>1. Typed' /\ HistoryGrows
  BY TypedNext, Growth DEF IInv
<1>. QED
  BY <1>1, PairsNext, RedisNext, AnswersNext, CreatorNext, SourceNext DEF IInv

\* Every reachable state satisfies the inductive invariant.
THEOREM Invariance == Spec => []IInv
BY IInvInit, IInvNext, PTL DEF Spec

\* A served answer is the verdict of one pair published under the request's
\* own key (_match_existing, _publish).
THEOREM AnswersComeFromStore == Spec => []AnsweredFromStore
<1>1. IInv => AnsweredFromStore
  BY DEF IInv, AnswersInv
<1>. QED
  BY <1>1, Invariance, PTL

\* A mask with tokens opens exactly the text it was made from, and only for
\* its owner, whatever expired or raced in between.
THEOREM RoundTripCorrect == Spec => []RoundTrip
<1>1. ASSUME IInv PROVE RoundTrip
  <2>1. SUFFICES ASSUME NEW r \in Requests, NEW q \in Requests,
                        Masking(r), Demasking(q),
                        HasToken(outcome[r].result),
                        req[q].text = outcome[r].result
                 PROVE  /\ outcome[q].result = req[r].text
                        /\ SameOwner(req[q], req[r])
    BY DEF RoundTrip
  <2>. DEFINE pr == published[RedisKey(r)][basis[r]]
              pq == published[RedisKey(q)][basis[q]]
  <2>2. /\ req[r] \in Request /\ basis[r] \in DOMAIN published[RedisKey(r)]
        /\ req[q] \in Request /\ basis[q] \in DOMAIN published[RedisKey(q)]
    BY <1>1, <2>1, AnswersBased
       DEF IInv, Based, Masking, Demasking, Typed, StepOK
  <2>3. RedisKey(r) \in Keys /\ RedisKey(q) \in Keys
    BY <2>2, KeyType DEF RedisKey
  <2>4. /\ req[r].text = pr.original /\ outcome[r].result = pr.masked
        /\ req[q].text = pq.masked /\ outcome[q].result = pq.original
    BY <1>1, <2>1
       DEF IInv, AnswersInv, AnsweredFromStore, PairAnswers, Masking,
           Demasking
  <2>5. GoodPair(pr, RedisKey(r)) /\ GoodPair(pq, RedisKey(q))
    BY <1>1, <2>2, <2>3 DEF IInv, PairsInv
  <2>6. [key |-> RedisKey(r), original |-> pr.original]
          = [key |-> RedisKey(q), original |-> pq.original]
    BY <2>1, <2>4, <2>5 DEF GoodPair
  <2>7. RedisKey(r) = RedisKey(q) /\ pr.original = pq.original
    BY <2>6
  <2>. QED
    BY <2>4, <2>7 DEF SameOwner, RedisKey, KeyOf
<1>. QED
  BY <1>1, Invariance, PTL

\* At most one request is told that it created a given pair.
THEOREM CreatedOnce == Spec => []OneCreator
<1>1. IInv => OneCreator
  BY DEF IInv
<1>. QED
  BY <1>1, Invariance, PTL

\* No text with tokens is ever stored as an original.
THEOREM NoSecondLayer == Spec => []OriginalsHaveNoToken
<1>1. IInv => OriginalsHaveNoToken
  BY DEF IInv, RedisInv, PairsInv, GoodPair, OriginalsHaveNoToken
<1>. QED
  BY <1>1, Invariance, PTL

\* Demasking returns to a consumer only what it sent itself under that id.
THEOREM Isolation == Spec => []OwnTextsOnly
<1>1. ASSUME IInv PROVE OwnTextsOnly
  <2>1. SUFFICES ASSUME NEW r \in Requests, Demasking(r)
                 PROVE  \E q \in Requests : /\ pc[q] # "idle"
                                            /\ SameOwner(req[q], req[r])
                                            /\ req[q].text = outcome[r].result
    BY DEF OwnTextsOnly
  <2>2. /\ req[r] \in Request
        /\ basis[r] \in DOMAIN published[RedisKey(r)]
        /\ outcome[r].result = published[RedisKey(r)][basis[r]].original
    BY <1>1, <2>1, AnswersBased
       DEF IInv, Based, Demasking, Typed, StepOK, PairAnswers
  <2>3. RedisKey(r) \in Keys
    BY <2>2, KeyType DEF RedisKey
  <2>4. PICK q \in Requests : /\ pc[q] # "idle"
                              /\ RedisKey(q) = RedisKey(r)
                              /\ Payload(q) = outcome[r].result
    BY <1>1, <2>2, <2>3 DEF IInv, SourceInv
  <2>. QED
    BY <2>4 DEF SameOwner, RedisKey, KeyOf, Payload
<1>. QED
  BY <1>1, Invariance, PTL

\* A stored pair is never changed, only dropped.
THEOREM Immutability == Spec => PairImmutable
<1>1. ASSUME IInv, [Next]_vars
      PROVE  [\A k \in Keys : redis[k] # None /\ redis'[k] # None
                                  => redis'[k] = redis[k]]_vars
  <2>1. CASE (\E k \in Keys : Expire(k)) \/ Restart \/ UNCHANGED vars
    BY <2>1, EnvironmentSame
  <2>2. ASSUME NEW r \in Requests, Publish(r), NEW k \in Keys,
               redis[k] # None
        PROVE  redis'[k] = redis[k]
    BY <1>1, <2>2 DEF Publish, Sets, Taken, IInv, Typed, TypeOK
  <2>3. ASSUME NEW r \in Requests, Arrive(r) \/ Handler(r), ~Publish(r)
        PROVE  redis' = redis
    BY <2>3 DEF Arrive, Handler, Get, Mask, Reread, Match, RedisFails
  <2>. QED
    BY <1>1, <2>1, <2>2, <2>3 DEF Next, Handler
<1>. QED
  BY <1>1, Invariance, PTL DEF Spec, PairImmutable

-----------------------------------------------------------------------------
(* The handlers implement the registry of PairRegistry.                    *)

\* The verdicts of the two levels are the same.
LEMMA SameVerdict ==
    ASSUME NEW t, NEW p
    PROVE  Verdict(t, p) = Registry!Verdict(t, p)
<1>1. CASE t = p.original
  BY <1>1 DEF Verdict, Registry!Verdict, Success, Registry!Success
<1>2. CASE t # p.original /\ t = p.masked
  BY <1>2 DEF Verdict, Registry!Verdict, Success, Registry!Success
<1>3. CASE t # p.original /\ t # p.masked
  BY <1>3 DEF Verdict, Registry!Verdict, Failure, Registry!Failure
<1>. QED
  BY <1>1, <1>2, <1>3

\* The variables of the registry, as functions of those of the store.
phaseOf == [r \in Requests |-> PhaseOf(pc[r])]
askOf == [r \in Requests |-> AskOf(req[r])]
viewOf == [r \in Requests |-> IF pc[r] = "match" THEN held[r] ELSE None]

LEMMA RegistryInit == Init => Registry!Init
BY DEF Init, Registry!Init, PhaseOf, AskOf, NoOutcome, Registry!Failure

\* A handler that ends, or goes on without a pair, seen from the registry.
LEMMA EndSeen ==
    ASSUME Typed, NEW r \in Requests, NEW o, Answer(r, o)
    PROVE  /\ phaseOf' = [phaseOf EXCEPT ![r] = "done"]
           /\ outcome' = [outcome EXCEPT ![r] = o]
           /\ viewOf' = [viewOf EXCEPT ![r] = None]
           /\ pc[r] # "match" => viewOf' = viewOf
BY DEF Answer, Goto, Typed, TypeOK, phaseOf, viewOf, PhaseOf

LEMMA OpenSeen ==
    ASSUME Typed, NEW r \in Requests, NEW s \in {"get", "mask", "publish", "reread"},
           NEW p, Continue(r, s, p), pc[r] # "match"
    PROVE  /\ phaseOf' = [phaseOf EXCEPT ![r] = "open"]
           /\ PhaseOf(pc[r]) = "open" => UNCHANGED phaseOf
           /\ UNCHANGED <<outcome, viewOf>>
<1>1. pc' = [pc EXCEPT ![r] = s] /\ pc \in [Requests -> Steps]
  BY DEF Continue, Goto, Typed, TypeOK
<1>2. held' = [held EXCEPT ![r] = p] /\ held \in [Requests -> Pair \cup {None}]
  BY DEF Continue, Typed, TypeOK
<1>3. PhaseOf(s) = "open" /\ s # "match"
  BY DEF PhaseOf
<1>4. phaseOf' = [phaseOf EXCEPT ![r] = "open"]
  BY <1>1, <1>3 DEF phaseOf
<1>5. viewOf' = viewOf
  BY <1>1, <1>2, <1>3 DEF viewOf
<1>6. PhaseOf(pc[r]) = "open" => phaseOf' = phaseOf
  BY <1>4 DEF phaseOf
<1>. QED
  BY <1>4, <1>5, <1>6 DEF Continue

LEMMA FixSeen ==
    ASSUME Typed, NEW r \in Requests, Load(r)
    PROVE  /\ phaseOf' = [phaseOf EXCEPT ![r] = "fixed"]
           /\ viewOf' = [viewOf EXCEPT ![r] = redis[RedisKey(r)]]
           /\ UNCHANGED outcome
BY DEF Load, Continue, Goto, Typed, TypeOK, phaseOf, viewOf, PhaseOf

\* Where the registry looks: the phase, the question and the view of r.
LEMMA RegistryView ==
    ASSUME Typed, NEW r \in Requests
    PROVE  /\ phaseOf[r] = PhaseOf(pc[r])
           /\ pc[r] = "match" => viewOf[r] = held[r]
           /\ pc[r] # "idle" => /\ askOf[r] = [key |-> RedisKey(r),
                                               text |-> Payload(r)]
                                /\ RedisKey(r) \in Keys
                                /\ Payload(r) \in Text
<1>1. phaseOf[r] = PhaseOf(pc[r]) /\ (pc[r] = "match" => viewOf[r] = held[r])
  BY DEF phaseOf, viewOf
<1>2. ASSUME pc[r] # "idle"
      PROVE  /\ askOf[r] = [key |-> RedisKey(r), text |-> Payload(r)]
             /\ RedisKey(r) \in Keys
             /\ Payload(r) \in Text
  <2>1. req[r] \in Request /\ req[r] # None
    BY <1>2, NoneAssumption DEF Typed, StepOK
  <2>2. askOf[r] = AskOf(req[r])
    BY DEF askOf
  <2>. QED
    BY <2>1, <2>2, KeyType DEF AskOf, RedisKey, Payload, Request
<1>. QED
  BY <1>1, <1>2

\* Forgetting, as a change of the pairs alone.
LEMMA ForgetSeen ==
    ASSUME Typed, (\E k \in Keys : Expire(k)) \/ Restart
    PROVE  Registry!Forget
<1>1. PICK K \in SUBSET Keys :
        redis' = [k \in Keys |-> IF k \in K THEN None ELSE redis[k]]
  <2>1. ASSUME NEW e \in Keys, Expire(e)
        PROVE  redis' = [k \in Keys |-> IF k \in {e} THEN None ELSE redis[k]]
    BY <2>1 DEF Expire, Typed, TypeOK
  <2>2. CASE Restart
    <3>1. redis' = [k \in Keys |-> IF k \in Keys THEN None ELSE redis[k]]
      BY <2>2 DEF Restart
    <3>. QED
      BY <3>1
  <2>. QED
    BY <2>1, <2>2
<1>2. UNCHANGED <<pc, req, held, outcome>>
  BY DEF Expire, Restart
<1>. QED
  BY <1>1, <1>2 DEF Registry!Forget

\* A handler that ends does so in the registry.
LEMMA FinishSeen ==
    ASSUME Typed, NEW r \in Requests, NEW o, Answer(r, o)
    PROVE  Registry!Finish(r, o)
BY EndSeen DEF Registry!Finish, Registry!Become, phaseOf

\* Loading a pair is fixing the request to it.
LEMMA LoadSeen ==
    ASSUME Typed, NEW r \in Requests, PhaseOf(pc[r]) = "open", Load(r),
           UNCHANGED <<req, redis>>
    PROVE  Registry!Fix(r)
<1>0. pc[r] # "idle"
  BY DEF PhaseOf
<1>a. /\ phaseOf[r] = "open"
      /\ askOf[r] = [key |-> RedisKey(r), text |-> Payload(r)]
  BY <1>0, RegistryView
<1>b. redis[RedisKey(r)] # None
  BY DEF Load, Taken
<1>1. phaseOf[r] = "open" /\ redis[askOf[r].key] # None
      /\ askOf[r].key = RedisKey(r)
  BY <1>a, <1>b
<1>2. phaseOf' = [phaseOf EXCEPT ![r] = "fixed"]
      /\ viewOf' = [viewOf EXCEPT ![r] = redis[askOf[r].key]]
      /\ UNCHANGED <<outcome, askOf, redis>>
  BY <1>1, FixSeen DEF askOf
<1>3. Registry!Become(r, "fixed")
  BY <1>2 DEF Registry!Become, phaseOf
<1>4. UNCHANGED <<askOf, redis, outcome>>
  BY <1>2
<1>. QED
  BY <1>1, <1>2, <1>3, <1>4 DEF Registry!Fix, phaseOf, viewOf, askOf

\* An open request that ends with an error is refused.
LEMMA RefuseSeen ==
    ASSUME Typed, NEW r \in Requests, PhaseOf(pc[r]) = "open",
           NEW e \in Errors, Answer(r, Failure(e)),
           e = "conflict" => MappingAbsent(r),
           UNCHANGED <<req, redis>>
    PROVE  Registry!Refuse(r)
<1>0. pc[r] # "idle" /\ pc[r] # "match"
  BY DEF PhaseOf
<1>1. phaseOf[r] = "open"
      /\ askOf[r] = [key |-> RedisKey(r), text |-> Payload(r)]
  BY <1>0, RegistryView
<1>2. e = "conflict" => redis[askOf[r].key] = None /\ HasToken(askOf[r].text)
  BY <1>1 DEF MappingAbsent, Taken
<1>3. Registry!Finish(r, Registry!Failure(e))
  BY FinishSeen DEF Failure, Registry!Failure
<1>4. UNCHANGED <<askOf, redis, viewOf>>
  BY <1>0, EndSeen DEF askOf
<1>. QED
  BY <1>1, <1>2, <1>3, <1>4
     DEF Registry!Refuse, phaseOf, askOf, viewOf

\* A request that goes on without a pair stays open.
LEMMA StaySeen ==
    ASSUME Typed, NEW r \in Requests, PhaseOf(pc[r]) = "open",
           NEW s \in {"get", "mask", "publish", "reread"}, NEW p,
           Continue(r, s, p)
    PROVE  UNCHANGED <<phaseOf, viewOf, outcome>>
<1>1. pc[r] # "match"
  BY DEF PhaseOf
<1>. QED
  BY <1>1, OpenSeen

\* An arriving request opens, and is refused at once if it is too large.
LEMMA ArriveSeen ==
    ASSUME Typed, NEW r \in Requests, Arrive(r)
    PROVE  Registry!Open(r)
<1>1. PICK c \in Consumers, i \in Ids, t \in Sendable :
        /\ req' = [req EXCEPT ![r] = [consumer |-> c, id |-> i, text |-> t]]
        /\ \/ Continue(r, "get", None)
           \/ Answer(r, Failure("request_too_large"))
           \/ Answer(r, Failure("storage_unavailable"))
  BY DEF Arrive
<1>. DEFINE q == [consumer |-> c, id |-> i, text |-> t]
<1>2. q \in Request
  BY SendableType DEF Typed, Request
<1>3. AskOf(q) = [key |-> KeyOf(q), text |-> t] /\ KeyOf(q) \in Keys
      /\ t \in Text
  BY <1>2, NoneAssumption, KeyType, SendableType DEF AskOf, Typed
<1>4. askOf' = [askOf EXCEPT ![r] = AskOf(q)]
  <2>1. req' = [req EXCEPT ![r] = q] /\ req \in [Requests -> Request \cup {None}]
    BY <1>1 DEF Typed, TypeOK
  <2>. HIDE DEF q
  <2>. QED
    BY <2>1 DEF askOf
<1>5. \E k \in Keys, u \in Text :
        askOf' = [askOf EXCEPT ![r] = [key |-> k, text |-> u]]
  BY <1>3, <1>4
<1>6. pc[r] = "idle" /\ phaseOf[r] = "idle"
  BY RegistryView DEF Arrive, PhaseOf
<1>7. CASE Continue(r, "get", None)
  <2>1. phaseOf' = [phaseOf EXCEPT ![r] = "open"] /\ UNCHANGED <<outcome, viewOf>>
    BY <1>6, <1>7, OpenSeen
  <2>2. Registry!Become(r, "open")
    BY <2>1 DEF Registry!Become, phaseOf
  <2>3. redis' = redis
    BY DEF Arrive
  <2>. QED
    BY <1>5, <1>6, <2>1, <2>2, <2>3 DEF Registry!Open, phaseOf, askOf, viewOf
<1>8. ASSUME NEW e \in Errors \ {"conflict"}, Answer(r, Failure(e))
      PROVE  Registry!Open(r)
  <2>1. Registry!Finish(r, Registry!Failure(e))
    BY <1>8, FinishSeen DEF Failure, Registry!Failure
  <2>2. viewOf' = viewOf
    BY <1>6, <1>8, EndSeen
  <2>3. redis' = redis
    BY DEF Arrive
  <2>. QED
    BY <1>5, <1>6, <2>1, <2>2, <2>3 DEF Registry!Open, phaseOf, askOf, viewOf
<1>. QED
  BY <1>1, <1>7, <1>8 DEF Errors

\* SET of an absent key registers the pair, whatever becomes of the reply.
LEMMA PublishSeen ==
    ASSUME Typed, PairsInv, NEW r \in Requests, Publish(r), Sets(r)
    PROVE  Registry!Register(r)
<1>0. pc[r] = "publish" /\ held[r] \in Pair
  BY DEF Publish, Typed, StepOK
<1>1. /\ phaseOf[r] = "open"
      /\ askOf[r] = [key |-> RedisKey(r), text |-> Payload(r)]
  BY <1>0, RegistryView DEF PhaseOf
<1>2. redis[askOf[r].key] = None /\ ~HasToken(askOf[r].text)
  BY <1>0, <1>1 DEF Sets, Taken, PairsInv
<1>3. held[r] = [original |-> askOf[r].text, masked |-> held[r].masked]
      /\ held[r].masked \in Text
  BY <1>0, <1>1 DEF PairsInv, Pair
<1>4. redis' = [redis EXCEPT ![askOf[r].key] = held[r]] /\ askOf' = askOf
  BY <1>1 DEF Publish, askOf, Sets
<1>5. \/ /\ Registry!Finish(r, Registry!Success("mask", held[r].masked))
         /\ viewOf' = viewOf
      \/ /\ Registry!Finish(r, Registry!Failure("storage_unavailable"))
         /\ viewOf' = viewOf
      \/ UNCHANGED <<phaseOf, outcome, viewOf>>
  <2>1. \/ Answer(r, Success("mask", held[r].masked))
        \/ Answer(r, RedisError)
        \/ Continue(r, "reread", None)
    BY DEF Publish, LoseRace
  <2>2. PhaseOf(pc[r]) = "open" /\ pc[r] # "match"
    BY <1>0 DEF PhaseOf
  <2>3. CASE Answer(r, Success("mask", held[r].masked))
    BY <2>2, <2>3, FinishSeen, EndSeen DEF Success, Registry!Success
  <2>4. CASE Answer(r, RedisError)
    BY <2>2, <2>4, FinishSeen, EndSeen DEF RedisError, Failure, Registry!Failure
  <2>5. CASE Continue(r, "reread", None)
    BY <2>2, <2>5, StaySeen
  <2>. QED
    BY <2>1, <2>3, <2>4, <2>5
<1>6. viewOf' = viewOf
  BY <1>5
<1>7. \E m \in Text :
        /\ redis' = [redis EXCEPT ![askOf[r].key] =
                         [original |-> askOf[r].text, masked |-> m]]
        /\ \/ Registry!Finish(r, Registry!Success("mask", m))
           \/ Registry!Finish(r, Registry!Failure("storage_unavailable"))
           \/ UNCHANGED <<phaseOf, outcome>>
  BY <1>3, <1>4, <1>5
<1>. QED
  BY <1>1, <1>2, <1>4, <1>6, <1>7 DEF Registry!Register, phaseOf, askOf, viewOf

\* Matching is the registry's reply.
LEMMA MatchSeen ==
    ASSUME Typed, NEW r \in Requests, Match(r)
    PROVE  Registry!Reply(r)
<1>0. pc[r] = "match"
  BY DEF Match
<1>1. /\ phaseOf[r] = "fixed"
      /\ viewOf[r] = held[r]
      /\ askOf[r] = [key |-> RedisKey(r), text |-> Payload(r)]
  BY <1>0, RegistryView DEF PhaseOf
<1>2. Verdict(Payload(r), held[r]) = Registry!Verdict(askOf[r].text, viewOf[r])
  BY <1>1, SameVerdict
<1>3. \A o : Answer(r, o) => Registry!Finish(r, o)
                           /\ viewOf' = [viewOf EXCEPT ![r] = None]
  BY FinishSeen, EndSeen
<1>4. \/ Registry!Finish(r, Registry!Verdict(askOf[r].text, viewOf[r]))
      \/ /\ Registry!Verdict(askOf[r].text, viewOf[r])
                = Registry!Success("demask", viewOf[r].original)
         /\ \E e \in {"forbidden", "storage_unavailable"} :
               Registry!Finish(r, Registry!Failure(e))
  BY <1>1, <1>2, <1>3 DEF Match, Success, Failure, Registry!Success,
                           Registry!Failure
<1>5. viewOf' = [viewOf EXCEPT ![r] = None]
  BY <1>3 DEF Match
<1>6. UNCHANGED <<askOf, redis>>
  BY DEF Match, askOf
<1>. QED
  BY <1>1, <1>4, <1>5, <1>6 DEF Registry!Reply, phaseOf, askOf, viewOf

\* Every step of a handler or of the environment is one of the registry, or
\* changes nothing there.
LEMMA StepSeen ==
    ASSUME Typed, PairsInv, [Next]_vars
    PROVE  \/ Registry!Next
           \/ UNCHANGED <<phaseOf, askOf, redis, viewOf, outcome>>
<1>1. CASE UNCHANGED vars
  BY <1>1 DEF vars, phaseOf, askOf, viewOf
<1>2. CASE (\E k \in Keys : Expire(k)) \/ Restart
  BY <1>2, ForgetSeen DEF Registry!Next
<1>3. ASSUME NEW r \in Requests, Arrive(r) PROVE Registry!Next
  BY <1>3, ArriveSeen DEF Registry!Next
<1>4. ASSUME NEW r \in Requests, Handler(r)
      PROVE  \/ Registry!Next
             \/ UNCHANGED <<phaseOf, askOf, redis, viewOf, outcome>>
  <2>1. ASSUME Registry!Fix(r) \/ Registry!Refuse(r) \/ Registry!Register(r)
               \/ Registry!Reply(r)
        PROVE  Registry!Next
    BY <2>1 DEF Registry!Next
  <2>2. req' = req /\ askOf' = askOf
    BY <1>4 DEF Handler, Get, Mask, Publish, Reread, Match, RedisFails, askOf
  <2>3. ASSUME PhaseOf(pc[r]) = "open", UNCHANGED redis,
               NEW s \in {"get", "mask", "publish", "reread"}, NEW p,
               Continue(r, s, p)
        PROVE  UNCHANGED <<phaseOf, askOf, redis, viewOf, outcome>>
    BY <2>2, <2>3, StaySeen
  <2>4. ASSUME PhaseOf(pc[r]) = "open", UNCHANGED redis,
               NEW e \in Errors, Answer(r, Failure(e)),
               e = "conflict" => MappingAbsent(r)
        PROVE  Registry!Next
    BY <2>1, <2>2, <2>4, RefuseSeen
  <2>5. ASSUME PhaseOf(pc[r]) = "open", UNCHANGED redis, Load(r)
        PROVE  Registry!Next
    BY <2>1, <2>2, <2>5, LoadSeen
  <2>6. "storage_unavailable" \in Errors /\ "forbidden" \in Errors
        /\ "conflict" \in Errors
        /\ RedisError = Failure("storage_unavailable")
    BY DEF Errors, RedisError
  <2>7. CASE Get(r)
    BY <2>3, <2>4, <2>5, <2>6, <2>7 DEF Get, PhaseOf
  <2>8. CASE Mask(r)
    <3>1. PhaseOf(pc[r]) = "open" /\ UNCHANGED redis
      BY <2>8 DEF Mask, PhaseOf
    <3>2. \/ \E p : Continue(r, "publish", p)
          \/ \E e \in {"forbidden", "storage_unavailable"} :
                Answer(r, Failure(e))
      BY <2>8 DEF Mask
    <3>. QED
      BY <2>3, <2>4, <2>6, <3>1, <3>2
  <2>9. CASE Publish(r)
    <3>1. CASE Sets(r)
      BY <2>1, <2>9, <3>1, PublishSeen
    <3>2. CASE ~Sets(r)
      BY <2>3, <2>9, <3>2 DEF Publish, LoseRace, PhaseOf
    <3>. QED
      BY <3>1, <3>2
  <2>10. CASE Reread(r)
    BY <2>4, <2>5, <2>6, <2>10 DEF Reread, PhaseOf
  <2>11. CASE Match(r)
    BY <2>1, <2>11, MatchSeen
  <2>12. CASE RedisFails(r)
    BY <2>4, <2>6, <2>12 DEF RedisFails, PhaseOf
  <2>. QED
    BY <1>4, <2>7, <2>8, <2>9, <2>10, <2>11, <2>12 DEF Handler
<1>. QED
  BY <1>1, <1>2, <1>3, <1>4 DEF Next

\* The handlers, Redis, expiry and restarts together implement the registry:
\* each answer is the verdict of the pair the key held at one moment while
\* the request was open, for any number of requests, keys and texts.
THEOREM Refinement == Spec => KeepsPromise
<1>1. ASSUME IInv, [Next]_vars
      PROVE  [Registry!Next]_(Registry!vars)
  BY <1>1, StepSeen DEF IInv, Registry!vars, phaseOf, askOf, viewOf
<1>. QED
  BY <1>1, RegistryInit, Invariance, PTL DEF Spec, KeepsPromise, Registry!Spec

=============================================================================
