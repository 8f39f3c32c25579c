------------------------------ MODULE Admission ------------------------------
(***************************************************************************)
(* Admission in one worker: BoundaryMiddleware (app/boundary.py) around    *)
(* the application. One event loop serves every connection; it switches    *)
(* between requests where a handler awaits a message, a send or a thread.  *)
(* /process and /proxy need one of a bounded number of permits from their  *)
(* first byte to their last; the synchronous handlers of all routes share  *)
(* the worker's threads, and those that use Redis the connection pool.     *)
(*                                                                         *)
(* A slot of Requests serves one HTTP request after another.               *)
(***************************************************************************)
EXTENDS Naturals, Sequences, FiniteSets

CONSTANTS
    Requests,        \* slots for requests being served
    MaxConcurrency,  \* settings.max_concurrency: permits of the semaphore
    Spare,           \* connections of the pool beyond the permits
    Threads,         \* threads that the server runs handlers on
    BodyLimit,       \* settings.max_body_bytes
    ChunkSizes       \* sizes of the chunks in which bodies arrive

ASSUME RequestsAssumption == IsFiniteSet(Requests)
ASSUME CapacityAssumption ==
    MaxConcurrency \in Nat /\ Spare \in Nat /\ Threads \in Nat
ASSUME BodyAssumption == BodyLimit \in Nat /\ ChunkSizes \subseteq Nat

\* "process" stands for /process and /proxy (_LIMITED); "ready" is /ready,
\* which calls Redis; "other" is every route that does not.
Routes == {"process", "ready", "other"}
Limited == {"process"}
UsesRedis == {"process", "ready"}

\* The pool of main.py.
PoolSize == MaxConcurrency + Spare

\* What the application answers with; 200 and 503 stand for the rest of them.
AppStatuses == {200, 422, 503}
Statuses == AppStatuses \cup {413, 429, 500}

\*   body     awaits a message of its body
\*   queued   waits for a thread         running  its handler runs on one
\*   redis    ... in a call to Redis
\*   start, rest   about to send the start, the rest of a response
\*   barrier  an exception has reached the middleware
\*   last_start, last_rest   about to send its response to that
\*   finally  about to run the finally clause
Steps == {"idle", "body", "queued", "running", "redis", "start", "rest",
          "barrier", "last_start", "last_rest", "finally", "done"}

VARIABLES
    pc,        \* pc[r]: where the request r is
    route,     \* route[r]: its route
    acquired,  \* acquired[r]: it took a permit
    permits,   \* permits left in the semaphore
    size,      \* size[r]: bytes of its body buffered
    reply,     \* reply[r]: the status it is about to answer with
    status,    \* status[r]: the status that will be counted
    started,   \* response_started[r]
    sent,      \* history: sent[r]: the starts of responses it sent
    whole,     \* history: whole[r]: the end of its body arrived
    starved,   \* history: starved[r]: its call to Redis found no connection
    counted    \* history: counted[r]: the statuses it was counted with

vars == <<pc, route, acquired, permits, size, reply, status, started, sent,
          whole, starved, counted>>

TypeOK ==
    /\ pc \in [Requests -> Steps]
    /\ route \in [Requests -> Routes]
    /\ acquired \in [Requests -> BOOLEAN]
    /\ permits \in Nat
    /\ size \in [Requests -> Nat]
    /\ reply \in [Requests -> Statuses]
    /\ status \in [Requests -> Statuses]
    /\ started \in [Requests -> BOOLEAN]
    /\ sent \in [Requests -> Seq(Statuses)]
    /\ whole \in [Requests -> BOOLEAN]
    /\ starved \in [Requests -> BOOLEAN]
    /\ counted \in [Requests -> Seq(Statuses)]

Init ==
    /\ pc = [r \in Requests |-> "idle"]
    /\ route = [r \in Requests |-> "other"]
    /\ acquired = [r \in Requests |-> FALSE]
    /\ permits = MaxConcurrency
    /\ size = [r \in Requests |-> 0]
    /\ reply = [r \in Requests |-> 500]
    /\ status = [r \in Requests |-> 500]
    /\ started = [r \in Requests |-> FALSE]
    /\ sent = [r \in Requests |-> <<>>]
    /\ whole = [r \in Requests |-> FALSE]
    /\ starved = [r \in Requests |-> FALSE]
    /\ counted = [r \in Requests |-> <<>>]

-----------------------------------------------------------------------------
At(steps) == {r \in Requests : pc[r] \in steps}

Goto(r, step) == pc' = [pc EXCEPT ![r] = step]

\* r is about to answer with a status.
Respond(r, s) == Goto(r, "start") /\ reply' = [reply EXCEPT ![r] = s]

\* gate.acquire(blocking=False) succeeds. (Slip: its result is not looked at.)
PermitAssumed == TRUE
PermitLeft == permits > 0

\* __call__: a limited route takes a permit without waiting for one, or is
\* told to retry; any other route goes to the application as it is.
Enter(r, to) ==
    \/ /\ to \in Limited
       /\ PermitLeft
       /\ permits' = permits - 1
       /\ acquired' = [acquired EXCEPT ![r] = TRUE]
       /\ Goto(r, "body")
       /\ UNCHANGED reply
    \/ /\ to \in Limited
       /\ ~PermitLeft
       /\ acquired' = [acquired EXCEPT ![r] = FALSE]
       /\ Respond(r, 429)
       /\ UNCHANGED permits
    \/ /\ to \notin Limited
       /\ acquired' = [acquired EXCEPT ![r] = FALSE]
       /\ Goto(r, "queued")
       /\ UNCHANGED <<permits, reply>>

Arrive(r) ==
    /\ pc[r] \in {"idle", "done"}
    /\ \E to \in Routes :
        /\ route' = [route EXCEPT ![r] = to]
        /\ Enter(r, to)
    /\ size' = [size EXCEPT ![r] = 0]
    /\ status' = [status EXCEPT ![r] = 500]
    /\ started' = [started EXCEPT ![r] = FALSE]
    /\ sent' = [sent EXCEPT ![r] = <<>>]
    /\ whole' = [whole EXCEPT ![r] = FALSE]
    /\ starved' = [starved EXCEPT ![r] = FALSE]
    /\ counted' = [counted EXCEPT ![r] = <<>>]

-----------------------------------------------------------------------------
(* bounded_body: the messages of the body, one at a time.                  *)

\* The chunk takes the body over the limit. (Slip: the chunk itself is over.)
ChunkTooLarge(r, n) == n > BodyLimit
TooLarge(r, n) == size[r] + n > BodyLimit

\* After the last chunk the application validates the request: it is refused
\* with 422, or its handler is given to the threads.
Receive(r) ==
    /\ pc[r] = "body"
    /\ \E n \in ChunkSizes, more \in BOOLEAN :
        \/ /\ TooLarge(r, n)
           /\ Respond(r, 413)
           /\ UNCHANGED <<size, whole>>
        \/ /\ ~TooLarge(r, n)
           /\ size' = [size EXCEPT ![r] = @ + n]
           /\ whole' = [whole EXCEPT ![r] = ~more]
           /\ \/ more /\ UNCHANGED <<pc, reply>>
              \/ ~more /\ Goto(r, "queued") /\ UNCHANGED reply
              \/ ~more /\ Respond(r, 422)
    /\ UNCHANGED <<route, acquired, permits, status, started, sent, starved,
                   counted>>

\* http.disconnect: nobody is there to be answered.
Disconnect(r) ==
    /\ pc[r] = "body"
    /\ Goto(r, "finally")
    /\ UNCHANGED <<route, acquired, permits, size, reply, status, started,
                   sent, whole, starved, counted>>

-----------------------------------------------------------------------------
(* The application: a handler on a thread, with at most one connection to  *)
(* Redis at a time.                                                        *)

StartHandler(r) ==
    /\ pc[r] = "queued"
    /\ Cardinality(At({"running", "redis"})) < Threads
    /\ Goto(r, "running")
    /\ UNCHANGED <<route, acquired, permits, size, reply, status, started,
                   sent, whole, starved, counted>>

CallRedis(r) ==
    /\ pc[r] = "running"
    /\ route[r] \in UsesRedis
    /\ \/ /\ Cardinality(At({"redis"})) < PoolSize
          /\ Goto(r, "redis")
          /\ UNCHANGED <<reply, starved>>
       \/ /\ Cardinality(At({"redis"})) >= PoolSize
          /\ Respond(r, 503)
          /\ starved' = [starved EXCEPT ![r] = TRUE]
    /\ UNCHANGED <<route, acquired, permits, size, status, started, sent,
                   whole, counted>>

\* The handler returns, is refused by an error that has a response of its
\* own, or raises anything else.
EndHandler(r) ==
    /\ pc[r] \in {"running", "redis"}
    /\ \/ \E s \in AppStatuses \ {422} : Respond(r, s)
       \/ Goto(r, "barrier") /\ UNCHANGED reply
    /\ UNCHANGED <<route, acquired, permits, size, status, started, sent,
                   whole, starved, counted>>

-----------------------------------------------------------------------------
(* Responses go through observe_send; a send raises when the connection is *)
(* lost.                                                                   *)

ObserveStart(r) ==
    /\ status' = [status EXCEPT ![r] = reply[r]]
    /\ started' = [started EXCEPT ![r] = TRUE]
    /\ sent' = [sent EXCEPT ![r] = Append(@, reply[r])]

SendStart(r) ==
    /\ pc[r] = "start"
    /\ ObserveStart(r)
    /\ Goto(r, "rest") \/ Goto(r, "barrier")
    /\ UNCHANGED <<route, acquired, permits, size, reply, whole, starved,
                   counted>>

SendRest(r) ==
    /\ pc[r] = "rest"
    /\ Goto(r, "finally") \/ Goto(r, "barrier")
    /\ UNCHANGED <<route, acquired, permits, size, reply, status, started,
                   sent, whole, starved, counted>>

\* The barrier answers 500 unless a response is under way. (Slips: always; it
\* waits for that response to end.)
BarrierUnaware(r) ==
    Goto(r, "last_start") /\ reply' = [reply EXCEPT ![r] = 500]
BarrierWaiting(r) ==
    /\ ~started[r]
    /\ Goto(r, "last_start")
    /\ reply' = [reply EXCEPT ![r] = 500]
SafeError(r) ==
    \/ started[r] /\ Goto(r, "finally") /\ UNCHANGED reply
    \/ /\ ~started[r]
       /\ Goto(r, "last_start")
       /\ reply' = [reply EXCEPT ![r] = 500]

Barrier(r) ==
    /\ pc[r] = "barrier"
    /\ SafeError(r)
    /\ UNCHANGED <<route, acquired, permits, size, status, started, sent,
                   whole, starved, counted>>

\* Whatever these sends do, the finally clause comes next.
LastStart(r) ==
    /\ pc[r] = "last_start"
    /\ ObserveStart(r)
    /\ Goto(r, "last_rest") \/ Goto(r, "finally")
    /\ UNCHANGED <<route, acquired, permits, size, reply, whole, starved,
                   counted>>

LastRest(r) ==
    /\ pc[r] = "last_rest"
    /\ Goto(r, "finally")
    /\ UNCHANGED <<route, acquired, permits, size, reply, status, started,
                   sent, whole, starved, counted>>

\* What the finally clause gives back. (Slip: a permit for every request of a
\* limited route.)
ReleaseAlways(r) ==
    permits' = IF route[r] \in Limited THEN permits + 1 ELSE permits
Release(r) == permits' = IF acquired[r] THEN permits + 1 ELSE permits

Finally(r) ==
    /\ pc[r] = "finally"
    /\ Release(r)
    /\ counted' = [counted EXCEPT ![r] = Append(@, status[r])]
    /\ Goto(r, "done")
    /\ UNCHANGED <<route, acquired, size, reply, status, started, sent, whole,
                   starved>>

Server(r) ==
    \/ CallRedis(r) \/ EndHandler(r) \/ SendStart(r) \/ SendRest(r)
    \/ Barrier(r) \/ LastStart(r) \/ LastRest(r) \/ Finally(r)

Next ==
    \E r \in Requests :
        Arrive(r) \/ Receive(r) \/ Disconnect(r) \/ StartHandler(r) \/ Server(r)

Spec == Init /\ [][Next]_vars

\* Clients send their bodies or leave: the code sets no time limit on that.
\* The event loop comes back to every request and a handler that has a thread
\* ends; threads are handed out in the order they are asked for.
FairSpec ==
    /\ Spec
    /\ \A r \in Requests :
        /\ WF_vars(Receive(r) \/ Disconnect(r))
        /\ SF_vars(StartHandler(r))
        /\ WF_vars(Server(r))

-----------------------------------------------------------------------------
(* What must hold.                                                         *)

\* No permit is lost or made: those that are left and those of the requests
\* under way add up, whichever way requests have ended: a refusal, a client
\* that left in the middle of its body, an exception before, during or after
\* the response.
PermitsBalanced ==
    permits + Cardinality({r \in Requests : /\ acquired[r]
                                            /\ pc[r] \notin {"idle", "done"}})
        = MaxConcurrency

\* A request gets one response at most: the barrier does not start a second
\* one when the application, or the connection, fails in the middle of one.
OneResponse == \A r \in Requests : Len(sent[r]) <= 1

\* A handler of a limited route runs only on a body that arrived completely,
\* and within the limit, and only while it has a permit.
HandledWhole ==
    \A r \in At({"running", "redis"}) :
        route[r] \in Limited =>
            whole[r] /\ size[r] <= BodyLimit /\ acquired[r]

\* A request is counted once, and with the status its response began with if
\* it got one, even when an exception cut that response short.
CountedAsAnswered ==
    \A r \in At({"done"}) :
        /\ Len(counted[r]) = 1
        /\ sent[r] # <<>> => counted[r][1] = sent[r][1]

\* So an answer is what the metrics say it was, whatever failed on the way.
AnsweredOnce == OneResponse /\ CountedAsAnswered

\* Requests with a permit never take the connections to Redis from each other:
\* a call finds none only while more requests without a permit use or want one
\* than there are spare ones.
ConnectionsSuffice ==
    [][\A r \in Requests :
        starved'[r] /\ ~starved[r] =>
            Cardinality({q \in At({"redis"}) \cup {r} : ~acquired[q]}) > Spare]_vars

\* Every request ends, and gives back its permit, its thread and its buffer.
EveryRequestEnds ==
    \A r \in Requests : pc[r] # "idle" ~> pc[r] = "done"
=============================================================================
