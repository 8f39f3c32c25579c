---------------------------- MODULE PairRegistry ----------------------------
(***************************************************************************)
(* What app/state.py promises to the callers of /process, without Redis,   *)
(* reads, races or replies that get lost: a registry that holds at most    *)
(* one pair per consumer and payload id, changes a pair only by forgetting *)
(* it, and answers every request from the pair that its key held at one    *)
(* moment while the request was open, or refuses it.                       *)
(***************************************************************************)
EXTENDS Naturals

CONSTANTS Requests, Keys, Text, None, HasToken(_), Refusals

Pair == [original : Text, masked : Text]

VARIABLES
    phase,   \* phase[r]: "idle", "open", "fixed" (to a pair) or "done"
    ask,     \* ask[r]: the key and the text of r, once it is open
    pair,    \* pair[k]: the pair k holds, or None
    view,    \* view[r]: the pair r is fixed to
    answer   \* answer[r]: what r got: a direction and a text, or an error

vars == <<phase, ask, pair, view, answer>>

Success(d, t) == [direction |-> d, result |-> t]
Failure(e) == [error |-> e]

Init ==
    /\ phase = [r \in Requests |-> "idle"]
    /\ ask = [r \in Requests |-> None]
    /\ pair = [k \in Keys |-> None]
    /\ view = [r \in Requests |-> None]
    /\ answer = [r \in Requests |-> Failure("none")]

Become(r, p) == phase' = [phase EXCEPT ![r] = p]

Finish(r, a) ==
    /\ Become(r, "done")
    /\ answer' = [answer EXCEPT ![r] = a]

Open(r) ==
    /\ phase[r] = "idle"
    /\ \E k \in Keys, t \in Text :
        ask' = [ask EXCEPT ![r] = [key |-> k, text |-> t]]
    /\ \/ Become(r, "open") /\ UNCHANGED answer
       \/ \E e \in Refusals \ {"conflict"} : Finish(r, Failure(e))
    /\ UNCHANGED <<pair, view>>

\* Only a key that holds nothing gets a pair, only from a text that has no
\* token. The request that brought it learns the mask, or is refused for want
\* of a reply, or stays open.
Register(r) ==
    /\ phase[r] = "open"
    /\ pair[ask[r].key] = None
    /\ ~HasToken(ask[r].text)
    /\ \E m \in Text :
        /\ pair' = [pair EXCEPT ![ask[r].key] =
                        [original |-> ask[r].text, masked |-> m]]
        /\ \/ Finish(r, Success("mask", m))
           \/ Finish(r, Failure("storage_unavailable"))
           \/ UNCHANGED <<phase, answer>>
    /\ UNCHANGED <<ask, view>>

\* An open request is fixed to the pair its key holds now.
Fix(r) ==
    /\ phase[r] = "open"
    /\ pair[ask[r].key] # None
    /\ Become(r, "fixed")
    /\ view' = [view EXCEPT ![r] = pair[ask[r].key]]
    /\ UNCHANGED <<ask, pair, answer>>

\* The answer a pair determines: the mask for the original, the original for
\* the mask, a conflict for anything else.
Verdict(t, p) ==
    IF t = p.original THEN Success("repeat", p.masked)
    ELSE IF t = p.masked THEN Success("demask", p.original)
    ELSE Failure("conflict")

Reply(r) ==
    /\ phase[r] = "fixed"
    /\ \/ Finish(r, Verdict(ask[r].text, view[r]))
       \/ /\ Verdict(ask[r].text, view[r]) = Success("demask", view[r].original)
          /\ \E e \in {"forbidden", "storage_unavailable"} :
                    Finish(r, Failure(e))
    /\ view' = [view EXCEPT ![r] = None]
    /\ UNCHANGED <<ask, pair>>

\* An open request is refused: as a conflict only if it shows tokens that the
\* registry has no pair for.
Refuse(r) ==
    /\ phase[r] = "open"
    /\ \E e \in Refusals :
        /\ e = "conflict" =>
               pair[ask[r].key] = None /\ HasToken(ask[r].text)
        /\ Finish(r, Failure(e))
    /\ UNCHANGED <<ask, pair, view>>

Forget ==
    /\ \E K \in SUBSET Keys :
        pair' = [k \in Keys |-> IF k \in K THEN None ELSE pair[k]]
    /\ UNCHANGED <<phase, ask, view, answer>>

Next ==
    \/ \E r \in Requests :
        Open(r) \/ Register(r) \/ Fix(r) \/ Reply(r) \/ Refuse(r)
    \/ Forget

Spec == Init /\ [][Next]_vars
=============================================================================
