---------------------------- MODULE AdmissionProofs ----------------------------
(***************************************************************************)
(* Theorems about Admission, for every finite set of slots and every limit *)
(* on permits, threads, connections and bodies.                            *)
(***************************************************************************)
EXTENDS Admission, FiniteSetTheorems, TLAPS

\* The requests under way that have a permit.
Holders == {r \in Requests : acquired[r] /\ pc[r] \notin {"idle", "done"}}

\* Steps before the start of a response, but for the barrier's.
Unanswered == {"idle", "body", "queued", "running", "redis", "start",
               "last_start"}

\* What is known of the answer to r: what observe_send recorded agrees with
\* what was sent, and nothing is sent before its step nor counted before the
\* end.
AnswerKnown(r) ==
    /\ Len(sent[r]) <= 1
    /\ started[r] <=> sent[r] # <<>>
    /\ sent[r] # <<>> => status[r] = sent[r][1]
    /\ pc[r] \in Unanswered => sent[r] = <<>>
    /\ counted[r] = IF pc[r] = "done" THEN <<status[r]>> ELSE <<>>

\* What is known of the body of r: a limited route is past the gate with a
\* permit and buffers no more than the limit; it goes on with all of it.
BodyKnown(r) ==
    route[r] \in Limited =>
        /\ pc[r] \in {"body", "queued", "running", "redis"} =>
               acquired[r] /\ size[r] <= BodyLimit
        /\ pc[r] \in {"queued", "running", "redis"} => whole[r]

AnswersInv == \A r \in Requests : AnswerKnown(r)
BodiesInv == \A r \in Requests : BodyKnown(r)

\* The inductive invariant.
IInv == TypeOK /\ PermitsBalanced /\ AnswersInv /\ BodiesInv

-----------------------------------------------------------------------------
(* Type correctness.                                                       *)

\* The initial state is typed.
LEMMA TypedInit == Init => TypeOK
BY CapacityAssumption
   DEF Init, TypeOK, Steps, Routes, Statuses, AppStatuses

\* Observing the start of a response keeps the types of what it records.
LEMMA ObserveType ==
    ASSUME TypeOK, NEW r \in Requests, ObserveStart(r)
    PROVE  /\ status' \in [Requests -> Statuses]
           /\ started' \in [Requests -> BOOLEAN]
           /\ sent' \in [Requests -> Seq(Statuses)]
           /\ \A q \in Requests \ {r} : /\ status'[q] = status[q]
                                        /\ started'[q] = started[q]
                                        /\ sent'[q] = sent[q]
           /\ status'[r] = reply[r]
           /\ started'[r] = TRUE
           /\ sent'[r] = Append(sent[r], reply[r])
BY DEF TypeOK, ObserveStart

\* Going to a step keeps the type of pc.
LEMMA GotoType ==
    ASSUME TypeOK, NEW r \in Requests, NEW s \in Steps, Goto(r, s)
    PROVE  /\ pc' \in [Requests -> Steps]
           /\ pc'[r] = s
           /\ \A q \in Requests \ {r} : pc'[q] = pc[q]
BY DEF TypeOK, Goto

\* So does responding, which also sets the reply.
LEMMA RespondType ==
    ASSUME TypeOK, NEW r \in Requests, NEW s \in Statuses, Respond(r, s)
    PROVE  /\ pc' \in [Requests -> Steps]
           /\ pc'[r] = "start"
           /\ \A q \in Requests \ {r} : pc'[q] = pc[q]
           /\ reply' \in [Requests -> Statuses]
           /\ reply'[r] = s
           /\ \A q \in Requests \ {r} : reply'[q] = reply[q]
BY DEF TypeOK, Goto, Respond, Steps

-----------------------------------------------------------------------------
(* What each action does, as the rest of the proofs use it: the step that r *)
(* goes to, and that the other requests stay as they are.                  *)

\* What belongs to the request q alone is as it was.
Untouched(q) ==
    /\ pc'[q] = pc[q] /\ route'[q] = route[q] /\ acquired'[q] = acquired[q]
    /\ size'[q] = size[q] /\ reply'[q] = reply[q] /\ status'[q] = status[q]
    /\ started'[q] = started[q] /\ sent'[q] = sent[q]
    /\ whole'[q] = whole[q] /\ counted'[q] = counted[q]

Others(r) == \A q \in Requests \ {r} : Untouched(q)

\* Arrive starts a request of a route at the gate.
LEMMA ArriveStep ==
    ASSUME TypeOK, NEW r \in Requests, Arrive(r)
    PROVE  /\ TypeOK' /\ Others(r)
           /\ pc[r] \in {"idle", "done"}
           /\ \/ /\ route'[r] \in Limited /\ pc'[r] = "body" /\ acquired'[r]
                 /\ permits > 0 /\ permits' = permits - 1
              \/ /\ route'[r] \in Limited /\ pc'[r] = "start" /\ ~acquired'[r]
                 /\ permits' = permits
              \/ /\ route'[r] \notin Limited /\ pc'[r] = "queued"
                 /\ ~acquired'[r] /\ permits' = permits
           /\ size'[r] = 0 /\ ~started'[r] /\ ~whole'[r]
           /\ sent'[r] = <<>> /\ counted'[r] = <<>>
<1>1. PICK to \in Routes : /\ route' = [route EXCEPT ![r] = to]
                           /\ Enter(r, to)
  BY DEF Arrive
<1>2. 429 \in Statuses /\ 500 \in Statuses
  BY DEF Statuses
<1>3. /\ size' \in [Requests -> Nat] /\ size'[r] = 0
      /\ status' \in [Requests -> Statuses]
      /\ started' \in [Requests -> BOOLEAN] /\ ~started'[r]
      /\ sent' \in [Requests -> Seq(Statuses)] /\ sent'[r] = <<>>
      /\ whole' \in [Requests -> BOOLEAN] /\ ~whole'[r]
      /\ starved' \in [Requests -> BOOLEAN]
      /\ counted' \in [Requests -> Seq(Statuses)] /\ counted'[r] = <<>>
      /\ \A q \in Requests \ {r} :
            /\ size'[q] = size[q] /\ status'[q] = status[q]
            /\ started'[q] = started[q] /\ sent'[q] = sent[q]
            /\ whole'[q] = whole[q] /\ counted'[q] = counted[q]
  BY <1>2 DEF Arrive, TypeOK
<1>4. /\ route' \in [Requests -> Routes] /\ route'[r] = to
      /\ \A q \in Requests \ {r} : route'[q] = route[q]
  BY <1>1 DEF TypeOK
<1>5. /\ pc' \in [Requests -> Steps]
      /\ acquired' \in [Requests -> BOOLEAN]
      /\ reply' \in [Requests -> Statuses]
      /\ permits' \in Nat
      /\ \A q \in Requests \ {r} : /\ pc'[q] = pc[q] /\ reply'[q] = reply[q]
                                   /\ acquired'[q] = acquired[q]
      /\ \/ /\ to \in Limited /\ pc'[r] = "body" /\ acquired'[r]
            /\ permits > 0 /\ permits' = permits - 1
         \/ /\ to \in Limited /\ pc'[r] = "start" /\ ~acquired'[r]
            /\ permits' = permits
         \/ /\ to \notin Limited /\ pc'[r] = "queued"
            /\ ~acquired'[r] /\ permits' = permits
  <2>1. CASE /\ to \in Limited /\ PermitLeft /\ permits' = permits - 1
             /\ acquired' = [acquired EXCEPT ![r] = TRUE]
             /\ Goto(r, "body") /\ UNCHANGED reply
    BY <2>1, GotoType DEF TypeOK, Steps, PermitLeft
  <2>2. CASE /\ to \in Limited /\ ~PermitLeft
             /\ acquired' = [acquired EXCEPT ![r] = FALSE]
             /\ Respond(r, 429) /\ UNCHANGED permits
    BY <2>2, <1>2, RespondType DEF TypeOK
  <2>3. CASE /\ to \notin Limited
             /\ acquired' = [acquired EXCEPT ![r] = FALSE]
             /\ Goto(r, "queued") /\ UNCHANGED <<permits, reply>>
    BY <2>3, GotoType DEF TypeOK, Steps
  <2>. QED
    BY <1>1, <2>1, <2>2, <2>3 DEF Enter
<1>6. pc[r] \in {"idle", "done"}
  BY DEF Arrive
<1>. QED
  BY <1>3, <1>4, <1>5, <1>6 DEF TypeOK, Others, Untouched

\* What the steps between Arrive and Finally have in common: the request stays
\* under way, with what the gate decided.
Within(r) ==
    /\ TypeOK' /\ Others(r)
    /\ pc[r] \notin {"idle", "done"} /\ pc'[r] \notin {"idle", "done"}
    /\ permits' = permits /\ acquired'[r] = acquired[r]
    /\ route'[r] = route[r] /\ counted'[r] = counted[r]

\* A step that answers nothing.
Silent(r) ==
    status'[r] = status[r] /\ started'[r] = started[r] /\ sent'[r] = sent[r]

\* Receive buffers a chunk that keeps to the limit, or leads to a refusal.
LEMMA ReceiveStep ==
    ASSUME TypeOK, NEW r \in Requests, Receive(r)
    PROVE  /\ Within(r) /\ Silent(r)
           /\ pc[r] = "body"
           /\ \/ pc'[r] = "start"
              \/ /\ pc'[r] \in {"body", "queued"}
                 /\ size'[r] <= BodyLimit
                 /\ pc'[r] = "queued" => whole'[r]
<1>1. PICK n \in ChunkSizes, more \in BOOLEAN :
        \/ /\ TooLarge(r, n)
           /\ Respond(r, 413)
           /\ UNCHANGED <<size, whole>>
        \/ /\ ~TooLarge(r, n)
           /\ size' = [size EXCEPT ![r] = @ + n]
           /\ whole' = [whole EXCEPT ![r] = ~more]
           /\ \/ more /\ UNCHANGED <<pc, reply>>
              \/ ~more /\ Goto(r, "queued") /\ UNCHANGED reply
              \/ ~more /\ Respond(r, 422)
  BY DEF Receive
<1>2. /\ pc[r] = "body"
      /\ UNCHANGED <<route, acquired, permits, status, started, sent, starved,
                     counted>>
  BY DEF Receive
<1>3. 413 \in Statuses /\ 422 \in Statuses /\ "queued" \in Steps
  BY DEF Statuses, AppStatuses, Steps
<1>4. CASE TooLarge(r, n) /\ Respond(r, 413) /\ UNCHANGED <<size, whole>>
  BY <1>2, <1>3, <1>4, RespondType
     DEF TypeOK, Within, Silent, Others, Untouched
<1>5. CASE /\ ~TooLarge(r, n)
           /\ size' = [size EXCEPT ![r] = @ + n]
           /\ whole' = [whole EXCEPT ![r] = ~more]
           /\ \/ more /\ UNCHANGED <<pc, reply>>
              \/ ~more /\ Goto(r, "queued") /\ UNCHANGED reply
              \/ ~more /\ Respond(r, 422)
  <2>1. /\ size' \in [Requests -> Nat] /\ size'[r] <= BodyLimit
        /\ whole' \in [Requests -> BOOLEAN] /\ whole'[r] = ~more
        /\ \A q \in Requests \ {r} : size'[q] = size[q] /\ whole'[q] = whole[q]
    BY <1>5, BodyAssumption DEF TypeOK, TooLarge
  <2>2. CASE more /\ UNCHANGED <<pc, reply>>
    BY <1>2, <2>1, <2>2 DEF TypeOK, Within, Silent, Others, Untouched
  <2>3. CASE ~more /\ Goto(r, "queued") /\ UNCHANGED reply
    BY <1>2, <1>3, <2>1, <2>3, GotoType
       DEF TypeOK, Within, Silent, Others, Untouched
  <2>4. CASE ~more /\ Respond(r, 422)
    BY <1>2, <1>3, <2>1, <2>4, RespondType
       DEF TypeOK, Within, Silent, Others, Untouched
  <2>. QED
    BY <1>5, <2>2, <2>3, <2>4
<1>. QED
  BY <1>1, <1>4, <1>5

\* The steps that neither buffer nor answer anything.
Quiet(r) ==
    \/ Disconnect(r) \/ StartHandler(r) \/ CallRedis(r) \/ EndHandler(r)
    \/ SendRest(r) \/ Barrier(r) \/ LastRest(r)

\* They lead on to the end, or through the handler to a response; the barrier
\* leads to a response only if none has started.
LEMMA QuietStep ==
    ASSUME TypeOK, NEW r \in Requests, Quiet(r)
    PROVE  /\ Within(r) /\ Silent(r)
           /\ size'[r] = size[r] /\ whole'[r] = whole[r]
           /\ \/ pc'[r] \in {"barrier", "finally"}
              \/ pc[r] = "queued" /\ pc'[r] = "running"
              \/ pc[r] = "running" /\ pc'[r] = "redis"
              \/ pc[r] \in {"running", "redis"} /\ pc'[r] = "start"
              \/ pc[r] = "barrier" /\ ~started[r] /\ pc'[r] = "last_start"
<1>. USE DEF Within, Silent, Others, Untouched
<1>1. /\ {"finally", "running", "redis", "barrier", "last_start"} \subseteq Steps
      /\ AppStatuses \subseteq Statuses /\ 503 \in Statuses
      /\ 500 \in Statuses
  BY DEF Steps, Statuses, AppStatuses
<1>2. CASE Disconnect(r)
  BY <1>1, <1>2, GotoType DEF TypeOK, Disconnect
<1>3. CASE StartHandler(r)
  BY <1>1, <1>3, GotoType DEF TypeOK, StartHandler
<1>4. CASE CallRedis(r)
  <2>1. /\ pc[r] = "running"
        /\ UNCHANGED <<route, acquired, permits, size, status, started, sent,
                       whole, counted>>
    BY <1>4 DEF CallRedis
  <2>2. CASE Goto(r, "redis") /\ UNCHANGED <<reply, starved>>
    BY <1>1, <2>1, <2>2, GotoType DEF TypeOK
  <2>3. CASE Respond(r, 503) /\ starved' = [starved EXCEPT ![r] = TRUE]
    BY <1>1, <2>1, <2>3, RespondType DEF TypeOK
  <2>. QED
    BY <1>4, <2>2, <2>3 DEF CallRedis
<1>5. CASE EndHandler(r)
  <2>1. /\ pc[r] \in {"running", "redis"}
        /\ UNCHANGED <<route, acquired, permits, size, status, started, sent,
                       whole, starved, counted>>
    BY <1>5 DEF EndHandler
  <2>2. CASE \E s \in AppStatuses \ {422} : Respond(r, s)
    BY <1>1, <2>1, <2>2, RespondType DEF TypeOK
  <2>3. CASE Goto(r, "barrier") /\ UNCHANGED reply
    BY <1>1, <2>1, <2>3, GotoType DEF TypeOK
  <2>. QED
    BY <1>5, <2>2, <2>3 DEF EndHandler
<1>6. CASE SendRest(r)
  BY <1>1, <1>6, GotoType DEF TypeOK, SendRest
<1>7. CASE Barrier(r)
  <2>1. /\ pc[r] = "barrier"
        /\ UNCHANGED <<route, acquired, permits, size, status, started, sent,
                       whole, starved, counted>>
    BY <1>7 DEF Barrier
  <2>2. CASE started[r] /\ Goto(r, "finally") /\ UNCHANGED reply
    BY <1>1, <2>1, <2>2, GotoType DEF TypeOK
  <2>3. CASE /\ ~started[r] /\ Goto(r, "last_start")
             /\ reply' = [reply EXCEPT ![r] = 500]
    BY <1>1, <2>1, <2>3, GotoType DEF TypeOK
  <2>. QED
    BY <1>7, <2>2, <2>3 DEF Barrier, SafeError
<1>8. CASE LastRest(r)
  BY <1>1, <1>8, GotoType DEF TypeOK, LastRest
<1>. QED
  BY <1>2, <1>3, <1>4, <1>5, <1>6, <1>7, <1>8 DEF Quiet

\* SendStart and LastStart start a response, and are past it afterwards.
LEMMA StartStep ==
    ASSUME TypeOK, NEW r \in Requests, SendStart(r) \/ LastStart(r)
    PROVE  /\ Within(r)
           /\ pc[r] \in {"start", "last_start"}
           /\ pc'[r] \in {"rest", "barrier", "last_rest", "finally"}
           /\ status'[r] = reply[r] /\ started'[r]
           /\ sent'[r] = Append(sent[r], reply[r])
<1>1. {"rest", "barrier", "last_rest", "finally"} \subseteq Steps
  BY DEF Steps
<1>2. /\ pc[r] \in {"start", "last_start"} /\ ObserveStart(r)
      /\ \E s \in {"rest", "barrier", "last_rest", "finally"} : Goto(r, s)
      /\ UNCHANGED <<route, acquired, permits, size, reply, whole, starved,
                     counted>>
  BY DEF SendStart, LastStart
<1>3. /\ status' \in [Requests -> Statuses]
      /\ started' \in [Requests -> BOOLEAN]
      /\ sent' \in [Requests -> Seq(Statuses)]
      /\ \A q \in Requests \ {r} : /\ status'[q] = status[q]
                                   /\ started'[q] = started[q]
                                   /\ sent'[q] = sent[q]
      /\ status'[r] = reply[r] /\ started'[r]
      /\ sent'[r] = Append(sent[r], reply[r])
  BY <1>2, ObserveType
<1>4. PICK s \in {"rest", "barrier", "last_rest", "finally"} : Goto(r, s)
  BY <1>2
<1>5. /\ pc' \in [Requests -> Steps] /\ pc'[r] = s
      /\ \A q \in Requests \ {r} : pc'[q] = pc[q]
  BY <1>1, <1>4, GotoType
<1>6. TypeOK'
  BY <1>2, <1>3, <1>5 DEF TypeOK
<1>. QED
  BY <1>2, <1>3, <1>5, <1>6 DEF Within, Others, Untouched

\* Finally gives the permit back and counts the request.
LEMMA FinallyStep ==
    ASSUME TypeOK, NEW r \in Requests, Finally(r)
    PROVE  /\ TypeOK' /\ Others(r) /\ Silent(r)
           /\ pc[r] = "finally" /\ pc'[r] = "done"
           /\ permits' = IF acquired[r] THEN permits + 1 ELSE permits
           /\ acquired'[r] = acquired[r] /\ route'[r] = route[r]
           /\ counted'[r] = Append(counted[r], status[r])
<1>1. /\ counted' \in [Requests -> Seq(Statuses)]
      /\ counted'[r] = Append(counted[r], status[r])
      /\ \A q \in Requests \ {r} : counted'[q] = counted[q]
  BY DEF Finally, TypeOK
<1>2. permits' \in Nat
  BY DEF Finally, Release, TypeOK
<1>3. "done" \in Steps
  BY DEF Steps
<1>. QED
  BY <1>1, <1>2, <1>3, GotoType
     DEF TypeOK, Finally, Release, Others, Untouched, Silent

\* A step of the system is one of these, of some request.
LEMMA NextCases ==
    ASSUME Next
    PROVE  \E r \in Requests :
               Arrive(r) \/ Receive(r) \/ Quiet(r)
               \/ SendStart(r) \/ LastStart(r) \/ Finally(r)
BY DEF Next, Server, Quiet

-----------------------------------------------------------------------------
(* The permits.                                                            *)

\* The requests that hold a permit are finitely many.
LEMMA HoldersFinite ==
    IsFiniteSet(Holders) /\ Cardinality(Holders) \in Nat
<1>1. Holders \subseteq Requests
  BY DEF Holders
<1>. QED
  BY <1>1, RequestsAssumption, FS_Subset, FS_CardinalityType

\* A step of a request that stays under way leaves the holders alone.
LEMMA WithinHolders ==
    ASSUME NEW r \in Requests, Within(r)
    PROVE  Holders' = Holders
BY DEF Within, Others, Untouched, Holders

\* Permits and holders add up after every step.
LEMMA BalancedNext ==
    ASSUME TypeOK, PermitsBalanced, [Next]_vars
    PROVE  PermitsBalanced'
<1>. USE HoldersFinite
<1>1. permits + Cardinality(Holders) = MaxConcurrency
  BY DEF PermitsBalanced, Holders
<1>2. SUFFICES permits' + Cardinality(Holders') = MaxConcurrency
  BY DEF PermitsBalanced, Holders
<1>3. CASE UNCHANGED vars
  BY <1>1, <1>3 DEF vars, Holders
<1>4. ASSUME NEW r \in Requests, Arrive(r)
      PROVE  permits' + Cardinality(Holders') = MaxConcurrency
  <2>1. r \notin Holders
    BY <1>4, ArriveStep DEF Holders
  <2>2. CASE /\ pc'[r] = "body" /\ acquired'[r]
             /\ permits > 0 /\ permits' = permits - 1
    <3>1. Holders' = Holders \cup {r}
      BY <1>4, <2>2, ArriveStep DEF Others, Untouched, Holders
    <3>2. Cardinality(Holders') = Cardinality(Holders) + 1
      BY <2>1, <3>1, FS_AddElement
    <3>. QED
      BY <1>1, <2>2, <3>2 DEF TypeOK
  <2>3. CASE ~acquired'[r] /\ permits' = permits
    <3>1. Holders' = Holders
      BY <1>4, <2>1, <2>3, ArriveStep DEF Others, Untouched, Holders
    <3>. QED
      BY <1>1, <2>3, <3>1
  <2>. QED
    BY <1>4, <2>2, <2>3, ArriveStep
<1>5. ASSUME NEW r \in Requests, Within(r)
      PROVE  permits' + Cardinality(Holders') = MaxConcurrency
  BY <1>1, <1>5, WithinHolders DEF Within
<1>6. ASSUME NEW r \in Requests, Finally(r)
      PROVE  permits' + Cardinality(Holders') = MaxConcurrency
  <2>1. CASE acquired[r]
    <3>1. r \in Holders /\ Holders' = Holders \ {r}
      BY <1>6, <2>1, FinallyStep DEF Others, Untouched, Holders
    <3>2. Cardinality(Holders') = Cardinality(Holders) - 1
      BY <3>1, FS_RemoveElement
    <3>3. permits \in Nat /\ permits' = permits + 1
      BY <1>6, <2>1, FinallyStep DEF TypeOK
    <3>. QED
      BY <1>1, <3>2, <3>3
  <2>2. CASE ~acquired[r]
    <3>1. Holders' = Holders
      BY <1>6, <2>2, FinallyStep DEF Others, Untouched, Holders
    <3>. QED
      BY <1>1, <1>6, <2>2, <3>1, FinallyStep
  <2>. QED
    BY <2>1, <2>2
<1>. QED
  BY <1>3, <1>4, <1>5, <1>6, NextCases, ReceiveStep, QuietStep, StartStep

-----------------------------------------------------------------------------
(* Answers and bodies.                                                     *)

\* What is known of a request that no step touches stays known.
LEMMA UntouchedKnown ==
    ASSUME NEW q \in Requests, Untouched(q), AnswerKnown(q), BodyKnown(q)
    PROVE  AnswerKnown(q)' /\ BodyKnown(q)'
BY DEF Untouched, AnswerKnown, BodyKnown

\* What is known of the answer to a request stays known of it.
LEMMA AnswersNext ==
    ASSUME TypeOK, NEW r \in Requests, AnswerKnown(r),
           \/ Arrive(r) \/ Receive(r) \/ Quiet(r)
           \/ SendStart(r) \/ LastStart(r) \/ Finally(r)
    PROVE  AnswerKnown(r)'
<1>1. CASE Arrive(r)
  BY <1>1, ArriveStep DEF AnswerKnown
<1>2. CASE Receive(r)
  BY <1>2, ReceiveStep DEF AnswerKnown, Within, Silent, Unanswered
<1>3. CASE Quiet(r)
  BY <1>3, QuietStep DEF AnswerKnown, Within, Silent, Unanswered
<1>4. CASE SendStart(r) \/ LastStart(r)
  <2>1. sent[r] = <<>>
    BY <1>4, StartStep DEF AnswerKnown, Unanswered
  <2>2. sent'[r] = <<reply[r]>> /\ status'[r] = reply[r] /\ started'[r]
    BY <1>4, <2>1, StartStep
  <2>3. pc'[r] \notin Unanswered /\ pc'[r] # "done" /\ counted'[r] = <<>>
    BY <1>4, StartStep DEF AnswerKnown, Unanswered, Within
  <2>. QED
    BY <2>2, <2>3 DEF AnswerKnown
<1>5. CASE Finally(r)
  BY <1>5, FinallyStep DEF AnswerKnown, Silent, Unanswered
<1>. QED
  BY <1>1, <1>2, <1>3, <1>4, <1>5

\* So does what is known of its body.
LEMMA BodiesNext ==
    ASSUME TypeOK, NEW r \in Requests, BodyKnown(r),
           \/ Arrive(r) \/ Receive(r) \/ Quiet(r)
           \/ SendStart(r) \/ LastStart(r) \/ Finally(r)
    PROVE  BodyKnown(r)'
<1>1. CASE Arrive(r)
  BY <1>1, ArriveStep, BodyAssumption DEF BodyKnown
<1>2. CASE Receive(r)
  BY <1>2, ReceiveStep DEF BodyKnown, Within
<1>3. CASE Quiet(r)
  BY <1>3, QuietStep DEF BodyKnown, Within
<1>4. CASE SendStart(r) \/ LastStart(r)
  BY <1>4, StartStep DEF BodyKnown
<1>5. CASE Finally(r)
  BY <1>5, FinallyStep DEF BodyKnown
<1>. QED
  BY <1>1, <1>2, <1>3, <1>4, <1>5

-----------------------------------------------------------------------------
(* The inductive invariant.                                                *)

\* It holds in the initial state.
LEMMA IInvInit == Init => IInv
<1>. SUFFICES ASSUME Init PROVE IInv
  OBVIOUS
<1>1. TypeOK
  BY TypedInit
<1>2. PermitsBalanced
  <2>1. Holders = {} /\ permits = MaxConcurrency
    BY DEF Init, Holders
  <2>2. Cardinality(Holders) = 0
    BY <2>1, FS_EmptySet
  <2>3. permits + Cardinality(Holders) = MaxConcurrency
    BY <2>1, <2>2, CapacityAssumption
  <2>. QED
    BY <2>3 DEF PermitsBalanced, Holders
<1>3. AnswersInv /\ BodiesInv
  BY DEF Init, AnswersInv, AnswerKnown, BodiesInv, BodyKnown, Limited
<1>. QED
  BY <1>1, <1>2, <1>3 DEF IInv

\* Every step of a request or of the server keeps it.
LEMMA IInvNext == IInv /\ [Next]_vars => IInv'
<1>. SUFFICES ASSUME IInv, [Next]_vars PROVE IInv'
  OBVIOUS
<1>. USE DEF IInv
<1>1. PermitsBalanced'
  BY BalancedNext
<1>2. CASE UNCHANGED vars
  BY <1>1, <1>2
     DEF vars, TypeOK, AnswersInv, AnswerKnown, BodiesInv, BodyKnown
<1>3. CASE Next
  <2>1. PICK r \in Requests : \/ Arrive(r) \/ Receive(r) \/ Quiet(r)
                              \/ SendStart(r) \/ LastStart(r) \/ Finally(r)
    BY <1>3, NextCases
  <2>2. TypeOK' /\ Others(r)
    BY <2>1, ArriveStep, ReceiveStep, QuietStep, StartStep, FinallyStep
       DEF Within
  <2>3. AnswerKnown(r)' /\ BodyKnown(r)'
    BY <2>1, AnswersNext, BodiesNext DEF AnswersInv, BodiesInv
  <2>4. \A q \in Requests \ {r} : AnswerKnown(q)' /\ BodyKnown(q)'
    BY <2>2, UntouchedKnown DEF Others, AnswersInv, BodiesInv
  <2>. QED
    BY <1>1, <2>2, <2>3, <2>4 DEF AnswersInv, BodiesInv
<1>. QED
  BY <1>2, <1>3

\* Every state of a worker satisfies the inductive invariant.
THEOREM Invariance == Spec => []IInv
BY IInvInit, IInvNext, PTL DEF Spec

\* Every variable keeps its type; the semaphore never goes below zero.
THEOREM TypeCorrectness == Spec => []TypeOK
<1>1. IInv => TypeOK
  BY DEF IInv
<1>. QED
  BY <1>1, Invariance, PTL

\* No permit is lost or made, whichever way requests end.
THEOREM Balance == Spec => []PermitsBalanced
<1>1. IInv => PermitsBalanced
  BY DEF IInv
<1>. QED
  BY <1>1, Invariance, PTL

\* A request gets one response at most, and is counted once with the status of
\* that response.
THEOREM Answering == Spec => []AnsweredOnce
<1>1. IInv => AnsweredOnce
  <2>. SUFFICES ASSUME IInv PROVE AnsweredOnce
    OBVIOUS
  <2>1. OneResponse
    BY DEF IInv, AnswersInv, AnswerKnown, OneResponse
  <2>2. ASSUME NEW r \in At({"done"})
        PROVE  /\ Len(counted[r]) = 1
               /\ sent[r] # <<>> => counted[r][1] = sent[r][1]
    <3>1. counted[r] = <<status[r]>>
      BY <2>2 DEF IInv, AnswersInv, AnswerKnown, At
    <3>2. sent[r] # <<>> => status[r] = sent[r][1]
      BY <2>2 DEF IInv, AnswersInv, AnswerKnown, At
    <3>. QED
      BY <3>1, <3>2
  <2>. QED
    BY <2>1, <2>2 DEF AnsweredOnce, CountedAsAnswered
<1>. QED
  BY <1>1, Invariance, PTL

\* A handler of a limited route runs on a whole body within the limit, and with
\* a permit.
THEOREM Handling == Spec => []HandledWhole
<1>1. IInv => HandledWhole
  BY DEF IInv, BodiesInv, BodyKnown, HandledWhole, At
<1>. QED
  BY <1>1, Invariance, PTL

-----------------------------------------------------------------------------
(* The connections to Redis.                                               *)

\* Requests that call Redis on a permit, and one more about to, are no more
\* than the permits.
LEMMA PermitsBound ==
    ASSUME IInv, NEW S \in SUBSET Holders
    PROVE  /\ IsFiniteSet(S)
           /\ Cardinality(S) \in Nat
           /\ Cardinality(S) <= MaxConcurrency
<1>1. Cardinality(S) <= Cardinality(Holders) /\ IsFiniteSet(S)
  BY HoldersFinite, FS_Subset
<1>2. permits + Cardinality(Holders) = MaxConcurrency /\ permits \in Nat
  BY DEF IInv, TypeOK, PermitsBalanced, Holders
<1>. QED
  BY <1>1, <1>2, HoldersFinite, FS_CardinalityType, CapacityAssumption

\* A call that finds no connection meets more calls without a permit than
\* there are spare connections.
LEMMA StarvedBySpare ==
    ASSUME IInv, NEW r \in Requests, CallRedis(r), starved'[r], ~starved[r]
    PROVE  Cardinality({q \in At({"redis"}) \cup {r} : ~acquired[q]}) > Spare
<1>. DEFINE Calls == At({"redis"})
            With == {q \in Calls : acquired[q]}
            Without == {q \in Calls : ~acquired[q]}
            Wanting == {q \in Calls \cup {r} : ~acquired[q]}
<1>1. Cardinality(Calls) >= MaxConcurrency + Spare
  BY DEF CallRedis, PoolSize
<1>2. r \notin Calls /\ pc[r] = "running"
  BY DEF CallRedis, At
<1>3. IsFiniteSet(Calls) /\ IsFiniteSet(Without) /\ IsFiniteSet(Wanting)
  <2>1. /\ Calls \in SUBSET Requests /\ Without \in SUBSET Requests
        /\ Wanting \in SUBSET Requests
    BY DEF At
  <2>. HIDE DEF Calls, Without, Wanting
  <2>. QED
    BY <2>1, RequestsAssumption, FS_Subset
<1>4. /\ Cardinality(Calls) \in Nat /\ Cardinality(Without) \in Nat
      /\ Cardinality(Wanting) \in Nat
  BY <1>3, FS_CardinalityType
<1>5. With \in SUBSET Holders
  BY DEF At, Holders
<1>6. Cardinality(Calls) = Cardinality(With) + Cardinality(Without)
  <2>1. Calls = With \cup Without /\ With \cap Without = {}
    OBVIOUS
  <2>2. IsFiniteSet(With) /\ Cardinality(With) \in Nat
    BY <1>5, PermitsBound
  <2>. HIDE DEF Calls, With, Without
  <2>3. Cardinality(With \cup Without) =
            Cardinality(With) + Cardinality(Without)
            - Cardinality(With \cap Without)
    BY <1>3, <2>2, FS_Union
  <2>4. Cardinality(With \cap Without) = 0
    BY <2>1, FS_EmptySet
  <2>5. Cardinality(Without) \in Nat
    BY <1>4
  <2>. QED
    BY <2>1, <2>2, <2>3, <2>4, <2>5
<1>7. CASE acquired[r]
  <2>1. With \cup {r} \in SUBSET Holders
    BY <1>2, <1>5, <1>7 DEF Holders
  <2>2. r \notin With /\ Wanting = Without
    BY <1>2, <1>7
  <2>. HIDE DEF Calls, With, Without, Wanting
  <2>3. IsFiniteSet(With) /\ Cardinality(With) \in Nat
    BY <1>5, PermitsBound
  <2>4. Cardinality(With \cup {r}) = Cardinality(With) + 1
    BY <2>2, <2>3, FS_AddElement
  <2>5. Cardinality(With) + 1 <= MaxConcurrency
    BY <2>1, <2>4, PermitsBound
  <2>6. Cardinality(Wanting) > Spare
    BY <1>1, <1>4, <1>6, <2>2, <2>3, <2>5, CapacityAssumption
  <2>. QED
    BY <2>6 DEF Wanting, Calls
<1>8. CASE ~acquired[r]
  <2>1. r \notin Without /\ Wanting = Without \cup {r}
    BY <1>2, <1>8
  <2>. HIDE DEF Calls, With, Without, Wanting
  <2>2. Cardinality(Wanting) = Cardinality(Without) + 1
    BY <1>3, <2>1, FS_AddElement
  <2>3. Cardinality(With) <= MaxConcurrency /\ Cardinality(With) \in Nat
    BY <1>5, PermitsBound
  <2>4. Cardinality(Wanting) > Spare
    BY <1>1, <1>4, <1>6, <2>2, <2>3, CapacityAssumption
  <2>. QED
    BY <2>4 DEF Wanting, Calls
<1>. QED
  BY <1>7, <1>8 DEF IInv, TypeOK

\* Requests with a permit never take the connections to Redis from each other.
THEOREM Connections == Spec => ConnectionsSuffice
<1>. DEFINE Enough ==
         \A r \in Requests :
             starved'[r] /\ ~starved[r] =>
                 Cardinality({q \in At({"redis"}) \cup {r} : ~acquired[q]})
                     > Spare
<1>1. IInv /\ [Next]_vars => [Enough]_vars
  <2>. SUFFICES ASSUME IInv, Next, NEW r \in Requests,
                       starved'[r], ~starved[r]
                PROVE  Cardinality({q \in At({"redis"}) \cup {r} : ~acquired[q]})
                           > Spare
    BY DEF vars
  <2>1. CallRedis(r)
    <3>1. PICK q \in Requests :
            Arrive(q) \/ Receive(q) \/ Disconnect(q) \/ StartHandler(q)
            \/ Server(q)
      BY DEF Next
    <3>2. CASE Arrive(q)
      BY <3>2 DEF Arrive, IInv, TypeOK
    <3>3. CASE CallRedis(q)
      <4>1. q # r => starved'[r] = starved[r]
        BY <3>3 DEF CallRedis, IInv, TypeOK
      <4>. QED
        BY <3>3, <4>1
    <3>4. CASE \/ Receive(q) \/ Disconnect(q) \/ StartHandler(q)
               \/ EndHandler(q) \/ SendStart(q) \/ SendRest(q) \/ Barrier(q)
               \/ LastStart(q) \/ LastRest(q) \/ Finally(q)
      BY <3>4 DEF Receive, Disconnect, StartHandler, EndHandler, SendStart,
                  SendRest, Barrier, LastStart, LastRest, Finally
    <3>. QED
      BY <3>1, <3>2, <3>3, <3>4 DEF Server
  <2>. QED
    BY <2>1, StarvedBySpare
<1>. QED
  BY <1>1, Invariance, PTL DEF Spec, ConnectionsSuffice
=============================================================================
