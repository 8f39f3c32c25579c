---------------------------- MODULE LoadDriver ----------------------------
(***************************************************************************)
(* The load generator (benchmarks/load_test.py): a driver that starts a    *)
(* pair of requests at every arrival unless too many pairs are active, and *)
(* the pairs, which are tasks of the same event loop.                      *)
(*                                                                         *)
(* The order in which the loop runs its handles is explicit, because what  *)
(* the driver counts depends on it: a task that ends leaves the set of     *)
(* active pairs only when its done callback runs. Time is left out: the    *)
(* driver may be late or early for any arrival, and a reply may take any   *)
(* time. The service and the network are external.                         *)
(***************************************************************************)
EXTENDS Integers, Sequences, FiniteSets, SequencesExt

CONSTANTS
    Arrivals,     \* arrivals of the schedule
    Concurrency   \* pairs that may be active

ASSUME ArrivalsAssumption == Arrivals \in Nat
ASSUME ConcurrencyAssumption == Concurrency \in Nat \ {0}

Pairs == 1 .. Arrivals

\* What the loop runs: a step of the driver or of a pair, or a done callback
\* of a pair: active.discard or the one that gather adds.
Driver == [of |-> "driver", pair |-> 0]
Handle(kind, i) == [of |-> kind, pair |-> i]
Handles == {Driver} \cup [of : {"pair", "discard", "gathered"}, pair : Pairs]

\* A reply: 200 with a text, which is the original one or not; 429; or
\* another status, another body, an exception of the client or its timeout.
Replies == {"original", "changed", "throttled", "failed"}

VARIABLES
    ready,      \* the loop's queue of handles
    driver,     \* "arrivals", "end" (sleeps to the end), "gather", "done"
    asleep,     \* the driver waits for a timer
    gathered,   \* pairs that gather still waits for
    pair,       \* "none", "new", "mask", "demask" (waits for that) or "ended"
    reply,      \* the reply a pair is woken with
    active,     \* the set of active pairs
    full,       \* history: pairs running when the driver last gave way
    count       \* the counters of the report

vars == <<ready, driver, asleep, gathered, pair, reply, active, full, count>>

Counters == {"scheduled", "dropped", "max_active", "attempts", "success",
             "completed", "bad_restore", "throttled", "errors"}

Running == {i \in Pairs : pair[i] \notin {"none", "ended"}}

TypeOK ==
    /\ ready \in Seq(Handles) /\ IsInjective(ready)
    /\ driver \in {"arrivals", "end", "gather", "done"}
    /\ asleep \in BOOLEAN
    /\ pair \in [Pairs -> {"none", "new", "mask", "demask", "ended"}]
    /\ reply \in [Pairs -> Replies \cup {"none"}]
    /\ gathered \subseteq Pairs /\ active \subseteq Pairs /\ full \subseteq Pairs
    /\ count \in [Counters -> 0 .. 2 * Arrivals]
    /\ count["max_active"] <= Concurrency

\* Counters are added up by name.
Add(c, names) == [n \in Counters |-> IF n \in names THEN c[n] + 1 ELSE c[n]]

\* The program starts at the first sleep of the driver.
Init ==
    /\ ready = <<>>
    /\ driver = IF Arrivals = 0 THEN "end" ELSE "arrivals"
    /\ asleep = TRUE
    /\ gathered = {}
    /\ pair = [i \in Pairs |-> "none"]
    /\ reply = [i \in Pairs |-> "none"]
    /\ active = {}
    /\ full = {}
    /\ count = [n \in Counters |-> 0]

-----------------------------------------------------------------------------
(* The driver (dispatch_pairs).                                            *)

\* asyncio.sleep(0) gives way to every handle that is ready; a sleep of some
\* length waits for its timer. (Slip: no sleep for an overdue arrival.)
SleepSkipped(queue) ==
    \/ ready' = <<Driver>> \o queue /\ asleep' = FALSE
    \/ ready' = queue /\ asleep' = TRUE
Sleep(queue) ==
    \/ ready' = Append(queue, Driver) /\ asleep' = FALSE
    \/ ready' = queue /\ asleep' = TRUE

TimerFires ==
    /\ asleep
    /\ asleep' = FALSE
    /\ ready' = Append(ready, Driver)
    /\ UNCHANGED <<driver, gathered, pair, reply, active, full, count>>

\* No slot is left. (Slip: one more pair is let in.)
NoSlotLate == Cardinality(active) > Concurrency
NoSlot == Cardinality(active) >= Concurrency

\* An arrival is dropped, or its pair is started; then the driver sleeps
\* until the next one or, after the last, until the end of the schedule.
Arrive(i, queue) ==
    /\ driver' = IF i = Arrivals THEN "end" ELSE "arrivals"
    /\ \/ /\ NoSlot
          /\ count' = Add(count, {"scheduled", "dropped"})
          /\ Sleep(queue)
          /\ UNCHANGED <<pair, active>>
       \/ /\ ~NoSlot
          /\ pair' = [pair EXCEPT ![i] = "new"]
          /\ active' = active \cup {i}
          /\ LET size == Cardinality(active) + 1
                 more == {"scheduled"} \cup
                         IF size > count["max_active"] THEN {"max_active"} ELSE {}
             IN  count' = Add(count, more)
          /\ Sleep(Append(queue, Handle("pair", i)))
    /\ full' = Running'
    /\ UNCHANGED <<gathered, reply>>

\* What gather is given. (Slip: only pairs that wait for their first reply.)
GatheredFirst == {i \in active : pair[i] = "mask"}
Gathered == active

\* gather adds its callback to every active pair; for one that has ended it
\* is queued at once. Without any pair the driver goes on.
Gather(queue) ==
    /\ gathered' = Gathered
    /\ driver' = IF Gathered = {} THEN "done" ELSE "gather"
    /\ LET ended == {i \in Gathered : pair[i] = "ended"}
       IN  \E order \in SetToSeqs(ended) :
               ready' = queue \o [k \in DOMAIN order |->
                                     Handle("gathered", order[k])]
    /\ UNCHANGED <<asleep, pair, reply, active, full, count>>

DriverStep ==
    /\ ready # <<>> /\ Head(ready) = Driver
    /\ \/ driver = "arrivals" /\ Arrive(count["scheduled"] + 1, Tail(ready))
       \/ driver = "end" /\ Gather(Tail(ready))
       \/ /\ driver = "gather"
          /\ driver' = "done"
          /\ ready' = Tail(ready)
          /\ UNCHANGED <<asleep, gathered, pair, reply, active, full, count>>

\* The done callbacks. The last one of gather's wakes the driver.
Discard(i) ==
    /\ ready # <<>> /\ Head(ready) = Handle("discard", i)
    /\ ready' = Tail(ready)
    /\ active' = active \ {i}
    /\ UNCHANGED <<driver, asleep, gathered, pair, reply, full, count>>

GatherOne(i) ==
    /\ ready # <<>> /\ Head(ready) = Handle("gathered", i)
    /\ gathered' = gathered \ {i}
    /\ ready' = IF gathered = {i} THEN Append(Tail(ready), Driver) ELSE Tail(ready)
    /\ UNCHANGED <<driver, asleep, pair, reply, active, full, count>>

-----------------------------------------------------------------------------
(* A pair (run.pair).                                                      *)

\* The task sends the request of a direction and waits. (Its text is the
\* result of the reply before; awaiting the reply and reading its body is
\* one wait.)
Send(i, direction, counted) ==
    /\ pair' = [pair EXCEPT ![i] = direction]
    /\ count' = Add(count, counted \cup {"attempts"})
    /\ ready' = Tail(ready)

\* The done callbacks of a task that ends.
Callbacks(i) ==
    <<Handle("discard", i)>> \o
        IF i \in gathered THEN <<Handle("gathered", i)>> ELSE <<>>

\* The task ends; the loop queues its callbacks. (Slip: a request that was
\* refused is sent again, uncounted.)
EndRetried(i, counted) ==
    IF "throttled" \in counted
    THEN ready' = Tail(ready) /\ UNCHANGED <<pair, count>>
    ELSE /\ pair' = [pair EXCEPT ![i] = "ended"]
         /\ count' = Add(count, counted)
         /\ ready' = Tail(ready) \o Callbacks(i)
End(i, counted) ==
    /\ pair' = [pair EXCEPT ![i] = "ended"]
    /\ count' = Add(count, counted)
    /\ ready' = Tail(ready) \o Callbacks(i)

\* The counter of a refused request.
Refusal(r) == IF r = "throttled" THEN {"throttled"} ELSE {"errors"}

\* The counter of a pair whose second request succeeded.
Outcome(r) == IF r = "original" THEN {"completed"} ELSE {"bad_restore"}

PairStep(i) ==
    /\ ready # <<>> /\ Head(ready) = Handle("pair", i)
    /\ \/ pair[i] = "new" /\ Send(i, "mask", {})
       \/ reply[i] \in {"throttled", "failed"} /\ End(i, Refusal(reply[i]))
       \/ /\ reply[i] \in {"original", "changed"}
          /\ \/ pair[i] = "mask" /\ Send(i, "demask", {"success"})
             \/ pair[i] = "demask" /\ End(i, {"success"} \cup Outcome(reply[i]))
    /\ reply' = [reply EXCEPT ![i] = "none"]
    /\ UNCHANGED <<driver, asleep, gathered, active, full>>

\* External: a reply, or the client's timeout, wakes the task.
Answer(i) ==
    /\ pair[i] \in {"mask", "demask"}
    /\ reply[i] = "none"
    /\ \E r \in Replies : reply' = [reply EXCEPT ![i] = r]
    /\ ready' = Append(ready, Handle("pair", i))
    /\ UNCHANGED <<driver, asleep, gathered, pair, active, full, count>>

RunHandle ==
    \/ DriverStep
    \/ \E i \in Pairs : Discard(i) \/ GatherOne(i) \/ PairStep(i)

Done == driver = "done" /\ UNCHANGED vars

Next == RunHandle \/ TimerFires \/ (\E i \in Pairs : Answer(i)) \/ Done

Spec == Init /\ [][Next]_vars

\* The loop runs what is ready, timers fire, and the total timeout of the
\* client (10 s) ends every request.
FairSpec ==
    /\ Spec
    /\ WF_vars(RunHandle)
    /\ WF_vars(TimerFires)
    /\ \A i \in Pairs : WF_vars(Answer(i))

-----------------------------------------------------------------------------
(* What must hold.                                                         *)

\* Every scheduled pair is accounted for once in the report: dropped, still
\* running, refused or failed at one request, restored or not restored.
PairsAccounted ==
    count["scheduled"] =
        count["dropped"] + Cardinality(Running) + count["completed"]
        + count["bad_restore"] + count["throttled"] + count["errors"]

\* Every request is accounted for once: in flight, successful, refused or
\* failed; and at most Concurrency are in flight, which is what the
\* connector allows, so that no request waits for a connection and counts
\* that as latency.
InFlight == {i \in Pairs : pair[i] \in {"mask", "demask"}}
RequestsAccounted ==
    /\ count["attempts"] = Cardinality(InFlight) + count["success"]
                           + count["throttled"] + count["errors"]
    /\ Cardinality(InFlight) <= Concurrency

\* test_overdue_arrivals_do_not_starve_completed_pairs: a driver that is late
\* still gives finished pairs time to release their slots. An arrival is
\* dropped only if as many pairs as allowed were running, not merely active,
\* when the driver last gave way.
DropsOnlyWhenFull ==
    [][count'["dropped"] > count["dropped"] => Cardinality(full) >= Concurrency]_vars

\* When the driver is done and the session closes, no pair is running: none
\* is cut off and missing from the report.
NoneCutOff == driver = "done" => Running = {}

\* The report is about the whole test: pairs and requests are accounted for at
\* any time, and none is missing at its end.
Accounted == PairsAccounted /\ RequestsAccounted /\ NoneCutOff

\* The load test ends, whatever the service answers.
Finishes == <>(driver = "done")
=============================================================================
