------------------------------ MODULE PairStore ------------------------------
(***************************************************************************)
(* The reversible-pair protocol of app/state.py as /process drives it: the *)
(* request handlers of every worker, running concurrently against one      *)
(* Redis, publish at most one immutable pair (original, masked) per        *)
(* consumer and payload id, and answer repeats and reverse calls from it.  *)
(*                                                                         *)
(* A text is a body and a tag. Tag 0: the text contains no token. Tag n>0: *)
(* every token in it was drawn by the n-th masking that drew any (a token  *)
(* holds 128 random bits, so two maskings never draw the same one).        *)
(* Cleartext never mixes with the tokens of two maskings, because a text   *)
(* that has a token is never masked again.                                 *)
(***************************************************************************)
EXTENDS Naturals, Sequences, FiniteSets

CONSTANTS
    Requests,     \* request handlers: each serves one HTTP request
    Consumers,    \* systems known to the policy
    Ids,          \* payload ids the clients use
    Bodies,       \* texts, their tokens apart
    Redact,       \* Redact[b]: b with what the engine selects struck out
    Modes,        \* ways of masking the policies in force may ask for
    Size,         \* Size[b]: bytes of the text b when it has no token
    TokenSize,    \* TokenSize[b]: bytes of b with its tokens in place
    BodyLimit,    \* settings.max_body_bytes
    RecordLimit,  \* settings.state_max_record_bytes
    MaxDraws,     \* bound: maskings that draw tokens, one per request at most
    None          \* no pair (what GET returns for an absent key), no request

ASSUME RedactAssumption == Redact \in [Bodies -> Bodies]
ASSUME ModesAssumption == Modes \subseteq {"off", "redact", "token"}
ASSUME SizesAssumption ==
    /\ Size \in [Bodies -> Nat]
    /\ TokenSize \in [Bodies -> Nat]
    /\ BodyLimit \in Nat
    /\ RecordLimit \in Nat
ASSUME MaxDrawsAssumption == MaxDraws \in Nat

Text == [body : Bodies, tag : 0 .. MaxDraws]
Clear(b) == [body |-> b, tag |-> 0]
HasToken(t) == t.tag # 0

Pair == [original : Text, masked : Text]

\* The identity a Redis key is the keyed hash of; the namespace is the same
\* for every worker of a deployment.
Keys == Consumers \X Ids
Request == [consumer : Consumers, id : Ids, text : Text]
\* (Slip: the store's default consumer is used for every caller.)
KeyOfDefaultConsumer(q) == <<CHOOSE c \in Consumers : TRUE, q.id>>
KeyOf(q) == <<q.consumer, q.id>>

ASSUME NoneAssumption == None \notin Pair \cup Request

Bytes(t) == IF HasToken(t) THEN TokenSize[t.body] ELSE Size[t.body]

\* Fernet pads, authenticates and base64-encodes the JSON record: 4/3 of it.
RecordBytes(p) == (4 * (Bytes(p.original) + Bytes(p.masked))) \div 3

\* What a handler ends with: a ProcessOutcome, or the error main.safe_error
\* or the boundary makes a response of.
Directions == {"mask", "repeat", "demask"}
Errors == {"conflict", "forbidden", "storage_unavailable", "request_too_large"}
Outcome == [direction : Directions, result : Text] \cup [error : Errors]
Success(d, t) == [direction |-> d, result |-> t]
Failure(e) == [error |-> e]
NoOutcome == [error |-> "none"]
Served(o) == o \in [direction : Directions, result : Text]

VARIABLES
    pc,        \* pc[r]: the call the handler r makes next
    req,       \* req[r]: consumer, id and payload of r's request
    redis,     \* redis[k]: the unexpired pair stored under k, or None
    held,      \* held[r]: the record r built or read, while it needs it
    outcome,   \* outcome[r]: what r answered
    counted,   \* the counters pairs_created and pairs_completed
    minted,    \* history: whom and what each drawing of tokens was for
    published, \* history: published[k] is every pair SET under k, in order
    basis      \* history: basis[r] says which of them r's answer comes from

vars == <<pc, req, redis, held, outcome, counted, minted, published, basis>>

Steps == {"idle", "get", "mask", "publish", "reread", "match", "done"}

TypeOK ==
    /\ pc \in [Requests -> Steps]
    /\ req \in [Requests -> Request \cup {None}]
    /\ redis \in [Keys -> Pair \cup {None}]
    /\ held \in [Requests -> Pair \cup {None}]
    /\ outcome \in [Requests -> Outcome \cup {NoOutcome}]
    /\ counted \in [created : Nat, completed : Nat]
    /\ minted \in Seq([key : Keys, original : Text])
    /\ published \in [Keys -> Seq(Pair)]
    /\ basis \in [Requests -> Nat]

-----------------------------------------------------------------------------
Init ==
    /\ pc = [r \in Requests |-> "idle"]
    /\ req = [r \in Requests |-> None]
    /\ redis = [k \in Keys |-> None]
    /\ held = [r \in Requests |-> None]
    /\ outcome = [r \in Requests |-> NoOutcome]
    /\ counted = [created |-> 0, completed |-> 0]
    /\ minted = <<>>
    /\ published = [k \in Keys |-> <<>>]
    /\ basis = [r \in Requests |-> 0]

-----------------------------------------------------------------------------
(* Helpers of the handler's steps.                                         *)

Payload(r) == req[r].text
RedisKey(r) == KeyOf(req[r])

Goto(r, step) == pc' = [pc EXCEPT ![r] = step]

\* The handler ends; main.process counts the outcome before it responds.
Answer(r, o) ==
    /\ Goto(r, "done")
    /\ outcome' = [outcome EXCEPT ![r] = o]
    /\ held' = [held EXCEPT ![r] = None]
    /\ counted' = [created |-> counted.created
                       + (IF Served(o) /\ o.direction = "mask" THEN 1 ELSE 0),
                   completed |-> counted.completed
                       + (IF Served(o) /\ o.direction = "demask" THEN 1 ELSE 0)]

\* The handler goes on to a step, with the record p in hand.
Continue(r, step, p) ==
    /\ Goto(r, step)
    /\ held' = [held EXCEPT ![r] = p]
    /\ UNCHANGED <<outcome, counted>>

\* (Slip: tokens that depend on the text only, so that two texts share one.)
MaskedAlike(mode, t) ==
    IF mode = "off" THEN t ELSE [body |-> Redact[t.body], tag |-> 1]

\* The text with the result of MaskingEngine.mask under a mode: the tokens, if
\* any span is selected, are those of the next drawing.
Masked(mode, t) ==
    CASE mode = "off" -> t
      [] mode = "redact" -> [t EXCEPT !.body = Redact[@]]
      [] mode = "token" /\ Redact[t.body] = t.body -> t
      [] OTHER -> [body |-> Redact[t.body], tag |-> Len(minted) + 1]

\* What a client can send: any text of its own without tokens, and any text
\* some client got in an answer.
Sendable ==
    {Clear(b) : b \in Bodies} \cup
    {outcome[r].result : r \in {q \in Requests : Served(outcome[q])}}

-----------------------------------------------------------------------------
(* The decisions of a handler. A "slip" is a decision as a plausible bug   *)
(* would take it: no specification uses it, it is there to show which      *)
(* property would notice.                                                  *)

\* The key holds a pair.
Taken(r) == redis[RedisKey(r)] # None

\* SET stores the pair. (Slip: without NX it always does.)
SetsAnyway(r) == TRUE
Sets(r) == ~Taken(r)

\* r loads what GET found, to match it in its next step.
Load(r) ==
    /\ Taken(r)
    /\ Continue(r, "match", redis[RedisKey(r)])
    /\ basis' = [basis EXCEPT ![r] = Len(published[RedisKey(r)])]

\* GET found nothing for a text that has tokens: their mapping is gone. (Slips:
\* no such test; the test made before the lookup.)
MappingAbsentNever(r) == FALSE
MappingAbsentAnyway(r) == HasToken(Payload(r))
MappingAbsent(r) == ~Taken(r) /\ HasToken(Payload(r))

\* What the loser of a race does. (Slip: it answers with its own mask.)
LoseRaceUnaware(r) ==
    /\ Answer(r, Success("mask", held[r].masked))
    /\ basis' = [basis EXCEPT ![r] = Len(published[RedisKey(r)])]
LoseRace(r) == Continue(r, "reread", None) /\ UNCHANGED basis

\* The answer a record determines: the original is compared first. (Slip: a
\* repeat is reported as a creation.)
VerdictCreatedAgain(t, p) ==
    CASE t = p.original -> Success("mask", p.masked)
      [] t # p.original /\ t = p.masked -> Success("demask", p.original)
      [] OTHER -> Failure("conflict")
Verdict(t, p) ==
    CASE t = p.original -> Success("repeat", p.masked)
      [] t # p.original /\ t = p.masked -> Success("demask", p.original)
      [] OTHER -> Failure("conflict")

\* The error that a failing call to Redis becomes. (Slip: it is not caught.)
RedisErrorUncaught == Failure("internal_error")
RedisError == Failure("storage_unavailable")

-----------------------------------------------------------------------------
(* The steps of a handler.                                                 *)

\* A request arrives; the boundary refuses a body over its limit, and
\* store.process a payload over the record limit, before any call to Redis.
Arrive(r) ==
    /\ pc[r] = "idle"
    /\ \E c \in Consumers, i \in Ids, t \in Sendable :
        /\ req' = [req EXCEPT ![r] = [consumer |-> c, id |-> i, text |-> t]]
        /\ \/ /\ Bytes(t) <= BodyLimit
              /\ Bytes(t) <= RecordLimit
              /\ Continue(r, "get", None)
           \/ /\ Bytes(t) > BodyLimit
              /\ Answer(r, Failure("request_too_large"))
           \/ /\ Bytes(t) <= BodyLimit
              /\ Bytes(t) > RecordLimit
              /\ Answer(r, Failure("storage_unavailable"))
    /\ UNCHANGED <<redis, minted, published, basis>>

\* redis.get: a known pair is matched; an absent one, for a text that has
\* tokens, means that the mapping of the tokens is lost.
Get(r) ==
    /\ pc[r] = "get"
    /\ \/ Load(r)
       \/ /\ MappingAbsent(r)
          /\ Answer(r, Failure("conflict"))
          /\ UNCHANGED basis
       \/ /\ ~Taken(r) /\ ~MappingAbsent(r)
          /\ Continue(r, "mask", None)
          /\ UNCHANGED basis
    /\ UNCHANGED <<req, redis, minted, published>>

\* mask_fn: the engine of the policy in force now masks the payload, and
\* _publish refuses a record over the limit. mask_fn may fail as well: the
\* consumer left the policy, or the engine raised.
Mask(r) ==
    /\ pc[r] = "mask"
    /\ \/ \E mode \in Modes :
            LET m == Masked(mode, Payload(r))
                p == [original |-> Payload(r), masked |-> m]
            IN  /\ m \in Text
                /\ minted' = IF HasToken(m)
                             THEN Append(minted, [key |-> RedisKey(r),
                                                  original |-> Payload(r)])
                             ELSE minted
                /\ \/ /\ RecordBytes(p) <= RecordLimit
                      /\ Continue(r, "publish", p)
                   \/ /\ RecordBytes(p) > RecordLimit
                      /\ Answer(r, Failure("storage_unavailable"))
       \/ /\ \E e \in {"forbidden", "storage_unavailable"} :
                Answer(r, Failure(e))
          /\ UNCHANGED minted
    /\ UNCHANGED <<req, redis, published, basis>>

\* redis.set(nx=True, ex=ttl). When the pair is stored but the reply is lost,
\* the client library either raises or sends the command again, and that
\* second SET finds the key taken.
Publish(r) ==
    /\ pc[r] = "publish"
    /\ \/ /\ Sets(r)
          /\ redis' = [redis EXCEPT ![RedisKey(r)] = held[r]]
          /\ published' = [published EXCEPT ![RedisKey(r)] = Append(@, held[r])]
          /\ \/ /\ Answer(r, Success("mask", held[r].masked))
                /\ basis' = [basis EXCEPT ![r] = Len(published[RedisKey(r)]) + 1]
             \/ Answer(r, RedisError) /\ UNCHANGED basis
             \/ LoseRace(r)
       \/ /\ ~Sets(r)
          /\ LoseRace(r)
          /\ UNCHANGED <<redis, published>>
    /\ UNCHANGED <<req, minted>>

\* The loser of the race reads the winner's pair, which may be gone again.
Reread(r) ==
    /\ pc[r] = "reread"
    /\ \/ Load(r)
       \/ ~Taken(r) /\ Answer(r, RedisError) /\ UNCHANGED basis
    /\ UNCHANGED <<req, redis, minted, published>>

\* _match_existing. Demasking asks the policy of this moment, which allows it,
\* forbids it or cannot be read (PolicyReload says which). (Slip: a conflicting
\* text starts over.)
MatchRetrying(r) ==
    /\ pc[r] = "match"
    /\ IF Verdict(Payload(r), held[r]) = Failure("conflict")
       THEN Continue(r, "get", None)
       ELSE Answer(r, Verdict(Payload(r), held[r]))
    /\ UNCHANGED <<req, redis, minted, published, basis>>
Match(r) ==
    /\ pc[r] = "match"
    /\ \/ Answer(r, Verdict(Payload(r), held[r]))
       \/ /\ Verdict(Payload(r), held[r]) = Success("demask", held[r].original)
          /\ \E e \in {"forbidden", "storage_unavailable"} :
                Answer(r, Failure(e))
    /\ UNCHANGED <<req, redis, minted, published, basis>>

\* A call to Redis raises without having had an effect.
RedisFails(r) ==
    /\ pc[r] \in {"get", "publish", "reread"}
    /\ Answer(r, RedisError)
    /\ UNCHANGED <<req, redis, minted, published, basis>>

-----------------------------------------------------------------------------
(* The environment.                                                        *)

\* The TTL of a pair runs out.
Expire(k) ==
    /\ redis[k] # None
    /\ redis' = [redis EXCEPT ![k] = None]
    /\ UNCHANGED <<pc, req, held, outcome, counted, minted,
                   published, basis>>

\* Redis restarts; it persists nothing.
Restart ==
    /\ \E k \in Keys : redis[k] # None
    /\ redis' = [k \in Keys |-> None]
    /\ UNCHANGED <<pc, req, held, outcome, counted, minted,
                   published, basis>>

Handler(r) ==
    Get(r) \/ Mask(r) \/ Publish(r) \/ Reread(r) \/ Match(r) \/ RedisFails(r)

Next ==
    \/ \E r \in Requests : Arrive(r) \/ Handler(r)
    \/ \E k \in Keys : Expire(k)
    \/ Restart

Spec == Init /\ [][Next]_vars

\* A handler's thread keeps running: each of its calls returns or raises, a
\* call to Redis within its two-second timeouts.
FairSpec == Spec /\ \A r \in Requests : WF_vars(Handler(r))

-----------------------------------------------------------------------------
(* What must hold.                                                         *)

\* The answers of one request, as its client sees them.
Masking(r) ==
    Served(outcome[r]) /\ outcome[r].direction \in {"mask", "repeat"}
Demasking(r) == Served(outcome[r]) /\ outcome[r].direction = "demask"
SameOwner(p, q) == p.consumer = q.consumer /\ p.id = q.id

\* A mask that has tokens opens only the text it was made from and only for
\* the consumer and the id it was made for: whatever expired, restarted or
\* raced between the two calls, a reverse call that is served returns exactly
\* what the first call sent (_match_existing, _key).
RoundTrip ==
    \A r, q \in Requests :
        /\ Masking(r) /\ Demasking(q)
        /\ HasToken(outcome[r].result)
        /\ req[q].text = outcome[r].result
        => /\ outcome[q].result = req[r].text
           /\ SameOwner(req[q], req[r])

\* No success without a pair in Redis: each served answer is what one pair,
\* published under the request's own key, determines. A race loser in
\* particular answers with the winner's mask, never with its own (_publish).
PairAnswers(r, p) ==
    IF Demasking(r)
    THEN req[r].text = p.masked /\ outcome[r].result = p.original
    ELSE req[r].text = p.original /\ outcome[r].result = p.masked

AnsweredFromStore ==
    \A r \in Requests :
        Served(outcome[r]) =>
            /\ basis[r] \in DOMAIN published[RedisKey(r)]
            /\ PairAnswers(r, published[RedisKey(r)][basis[r]])

\* At most one request is told that it created a given pair, which is what
\* the counter of created pairs counts (SET NX in _publish).
OneCreator ==
    \A r, q \in Requests :
        /\ Served(outcome[r]) /\ outcome[r].direction = "mask"
        /\ Served(outcome[q]) /\ outcome[q].direction = "mask"
        /\ RedisKey(r) = RedisKey(q)
        /\ basis[r] = basis[q]
        => r = q

\* A mask sent again after its pair is gone is never taken for a new
\* original: what the store holds as an original has no token, so a second
\* layer of tokens is never built over a first (the TOKEN_RE test in process).
OriginalsHaveNoToken ==
    \A k \in Keys : redis[k] # None => ~HasToken(redis[k].original)

\* A consumer gets back by demasking only texts that it sent itself, under
\* that id (the consumer is part of the key).
OwnTextsOnly ==
    \A r \in Requests :
        Demasking(r) =>
            \E q \in Requests :
                /\ pc[q] # "idle"
                /\ SameOwner(req[q], req[r])
                /\ req[q].text = outcome[r].result

\* A step may store or drop a pair but never change one: whichever handler
\* publishes last, a mask already handed out stays valid until it expires.
PairImmutable ==
    [][\A k \in Keys :
        redis[k] # None /\ redis'[k] # None => redis'[k] = redis[k]]_vars

\* Every request that arrives is answered, however often pairs expire under
\* it: the handler reads again once after losing the race, never in a loop.
EveryRequestAnswered ==
    \A r \in Requests : pc[r] # "idle" ~> pc[r] = "done"

\* The registry as the handlers see it: a request is open until it has read a
\* pair to answer from.
PhaseOf(step) == IF step \in {"idle", "done"} THEN step
                 ELSE IF step = "match" THEN "fixed" ELSE "open"
AskOf(q) == IF q = None THEN None ELSE [key |-> KeyOf(q), text |-> q.text]

Registry == INSTANCE PairRegistry WITH
    Refusals <- Errors,
    phase <- [r \in Requests |-> PhaseOf(pc[r])],
    ask <- [r \in Requests |-> AskOf(req[r])],
    pair <- redis,
    view <- [r \in Requests |-> IF pc[r] = "match" THEN held[r] ELSE None],
    answer <- outcome

\* The handlers over Redis implement the registry: every answer is the verdict
\* of the pair that the key held at one moment while the request was open.
KeepsPromise == Registry!Spec
=============================================================================
