---------------------------- MODULE PolicyReload ----------------------------
(***************************************************************************)
(* Authorisation in one worker (app/main.py over app/policy.py): request   *)
(* threads share the global policy, re-read it under a lock when the file  *)
(* has a new modification time, and consult it without the lock, several   *)
(* times per request. The file changes at any moment.                      *)
(*                                                                         *)
(* Contents of the file are numbered in the order they are written; the    *)
(* number also stands for the modification time, so that no two contents   *)
(* have the same one. One consumer is followed; what a content says of it  *)
(* is a record of flags.                                                   *)
(***************************************************************************)
EXTENDS Naturals, Sequences

CONSTANTS
    Requests,    \* request threads: each serves one request
    Contents,    \* Contents[n]: what the n-th content of the file may be; its
                 \*   length is the bound on the contents the file has had
    QuietStart,  \* TRUE: nobody writes the file while the worker starts
    Nobody       \* the lock is free

\* "valid"; "rejected": load_policy raises an error that _refresh_policy
\* names; "uncompilable": a custom pattern makes re.compile raise re.error,
\* which it does not name.
Content == [kind : {"valid", "rejected", "uncompilable"}, known : BOOLEAN,
            enabled : BOOLEAN, demask : BOOLEAN, safe : BOOLEAN]

ASSUME ContentsAssumption == Contents \in Seq(SUBSET Content) /\ Contents # <<>>
ASSUME QuietStartAssumption == QuietStart \in BOOLEAN
ASSUME NobodyAssumption == Nobody \notin Requests

\* /process with a new text, /process with the mask of a stored pair, /proxy.
Kinds == {"mask", "demask", "proxy"}
Served == {"masked", "demasked", "proxied"}
Errors == {"unauthorized", "forbidden", "llm_unavailable",
           "storage_unavailable", "internal_error"}
Steps == {"idle", "stat", "read", "install", "authenticate", "enable",
          "lookup", "right", "safe", "engine", "patterns", "llm", "permit",
          "done"}

VARIABLES
    written,  \* every content the file has had, the last being the present one
    boot,     \* how far the worker has started: "load", "stat" or "up"
    policy,   \* the global policy: the number of the content it was read from
    stamp,    \* _policy_stamp: the number of the content it was taken from
    lock,     \* _policy_lock: the thread that holds it, or Nobody
    pc,       \* pc[r]: the step the thread r takes next
    kind,     \* kind[r]: what r asks for
    round,    \* round[r]: 1 in _authenticate, 2 in the check before answering
    seen,     \* seen[r]: the modification time r got from stat
    got,      \* got[r]: the content r has read and not yet installed
    engine,   \* engine[r]: the contents r's engine was configured from
    outcome,  \* outcome[r]: what r answered
    since,    \* history: the content of the file when r began, or when it
              \*   last got something to answer with
    used      \* history: the content r's last decision was taken under

vars == <<written, boot, policy, stamp, lock, pc, kind, round, seen, got,
          engine, outcome, since, used>>

TypeOK ==
    /\ Len(written) \in 1 .. Len(Contents)
    /\ \A n \in 1 .. Len(written) : written[n] \in Contents[n]
    /\ boot \in {"load", "stat", "up"}
    /\ policy \in 0 .. Len(written)
    /\ stamp \in 0 .. Len(written)
    /\ lock \in Requests \cup {Nobody}
    /\ pc \in [Requests -> Steps]
    /\ kind \in [Requests -> Kinds]
    /\ round \in [Requests -> 1 .. 2]
    /\ seen \in [Requests -> 0 .. Len(written)]
    /\ got \in [Requests -> 0 .. Len(written)]
    /\ engine \in [Requests -> [policy : 0 .. Len(written),
                                patterns : 0 .. Len(written)]]
    /\ outcome \in [Requests -> Served \cup Errors \cup {"none"}]
    /\ since \in [Requests -> 0 .. Len(written)]
    /\ used \in [Requests -> 0 .. Len(written)]

Now == Len(written)
Valid(n) == written[n].kind = "valid"

\* What PolicyConfig.authenticate, check_enabled, check_demask and the test of
\* /proxy say of the consumer under the content n.
Known(n) == written[n].known
Enabled(n) == Known(n) /\ written[n].enabled
MayDemask(n) == Enabled(n) /\ written[n].demask
SafeForProxy(n) == Known(n) /\ written[n].safe

Init ==
    /\ \E c \in Contents[1] : written = <<c>>
    /\ boot = "load"
    /\ policy = 0
    /\ stamp = 0
    /\ lock = Nobody
    /\ pc = [r \in Requests |-> "idle"]
    /\ kind \in [Requests -> Kinds]
    /\ round = [r \in Requests |-> 1]
    /\ seen = [r \in Requests |-> 0]
    /\ got = [r \in Requests |-> 0]
    /\ engine = [r \in Requests |-> [policy |-> 0, patterns |-> 0]]
    /\ outcome = [r \in Requests |-> "none"]
    /\ since = [r \in Requests |-> 0]
    /\ used = [r \in Requests |-> 0]

-----------------------------------------------------------------------------
(* The file and the start of the worker.                                   *)

request == <<kind, round, seen, got, engine, outcome, since, used>>

Write ==
    /\ Now < Len(Contents)
    /\ QuietStart => boot # "stat"
    /\ \E c \in Contents[Now + 1] : written' = Append(written, c)
    /\ UNCHANGED <<boot, policy, stamp, lock, pc>>
    /\ UNCHANGED request

\* Module level of main.py: the policy is loaded first; a file that cannot be
\* loaded stops the worker, to be started again.
BootLoad ==
    /\ boot = "load"
    /\ Valid(Now)
    /\ policy' = Now
    /\ boot' = "stat"
    /\ UNCHANGED <<written, stamp, lock, pc>>
    /\ UNCHANGED request

\* ... and its modification time is taken some statements later.
BootStat ==
    /\ boot = "stat"
    /\ stamp' = Now
    /\ boot' = "up"
    /\ UNCHANGED <<written, policy, lock, pc>>
    /\ UNCHANGED request

-----------------------------------------------------------------------------
(* _refresh_policy, called in _authenticate and again before text that was *)
(* masked is given back.                                                   *)

Goto(r, step) == pc' = [pc EXCEPT ![r] = step]

Answer(r, o) == Goto(r, "done") /\ outcome' = [outcome EXCEPT ![r] = o]

AfterRefresh(r) == IF round[r] = 1 THEN "authenticate" ELSE "permit"

Arrive(r) ==
    /\ boot = "up"
    /\ pc[r] = "idle"
    /\ Goto(r, "stat")
    /\ since' = [since EXCEPT ![r] = Now]
    /\ UNCHANGED <<written, boot, policy, stamp, lock, kind, round, seen, got,
                   engine, outcome, used>>

\* Whether r can take the lock. (Slip: there is none.)
NoLock(r) == TRUE
LockFree(r) == lock = Nobody

\* stat, under the lock: nothing to do if the time is the one last seen.
\* (Slip: a thread that finds the lock taken gives up.)
StatGivingUp(r) ==
    /\ pc[r] = "stat"
    /\ IF lock # Nobody
       THEN Answer(r, "storage_unavailable") /\ UNCHANGED <<lock, seen>>
       ELSE /\ Goto(r, IF stamp = Now THEN AfterRefresh(r) ELSE "read")
            /\ lock' = IF stamp = Now THEN lock ELSE r
            /\ seen' = [seen EXCEPT ![r] = Now]
            /\ UNCHANGED outcome
    /\ UNCHANGED <<written, boot, policy, stamp, kind, round, got, engine,
                   since, used>>
Stat(r) ==
    /\ pc[r] = "stat"
    /\ LockFree(r)
    /\ \/ /\ stamp = Now
          /\ Goto(r, AfterRefresh(r))
          /\ UNCHANGED <<lock, seen>>
       \/ /\ stamp # Now
          /\ Goto(r, "read")
          /\ lock' = r
          /\ seen' = [seen EXCEPT ![r] = Now]
    /\ UNCHANGED <<written, boot, policy, stamp, kind, round, got, engine,
                   outcome, since, used>>

\* The answer to a request that meets a content that cannot be loaded: only
\* StateStore.process, which asks whether demasking is allowed, turns what
\* _refresh_policy lets through into a StorageError. (Slip: the exception
\* reaches the server and no response is sent.)
RefusalUnbarred(r) ==
    IF Valid(Now) THEN "none" ELSE "connection_aborted"
Refusal(r) ==
    IF written[Now].kind = "rejected" \/ (kind[r] = "demask" /\ round[r] = 2)
    THEN "storage_unavailable"
    ELSE "internal_error"

\* What a failed load leaves of the lock and the stamp. (Slips: the lock is
\* not released on the error path; the stamp is set before the load.)
GiveUpKeepingLock(r) == UNCHANGED <<lock, stamp>>
GiveUpStamped(r) == lock' = Nobody /\ stamp' = seen[r]
GiveUp(r) == lock' = Nobody /\ UNCHANGED stamp

\* load_policy reads and validates the file as it is by now.
Read(r) ==
    /\ pc[r] = "read"
    /\ \/ /\ Valid(Now)
          /\ got' = [got EXCEPT ![r] = Now]
          /\ Goto(r, "install")
          /\ UNCHANGED <<lock, stamp, outcome>>
       \/ /\ ~Valid(Now)
          /\ GiveUp(r)
          /\ Answer(r, Refusal(r))
          /\ UNCHANGED got
    /\ UNCHANGED <<written, boot, policy, kind, round, seen, engine, since,
                   used>>

\* The global policy and its stamp are set and the lock is released.
Install(r) ==
    /\ pc[r] = "install"
    /\ policy' = got[r]
    /\ stamp' = seen[r]
    /\ lock' = Nobody
    /\ Goto(r, AfterRefresh(r))
    /\ UNCHANGED <<written, boot>>
    /\ UNCHANGED request

-----------------------------------------------------------------------------
(* The decisions: each reads the global policy anew, without the lock.     *)

shared == <<written, boot, policy, stamp, lock>>

\* r goes on to a step if the condition holds, and is refused otherwise.
Require(r, condition, step, error) ==
    \/ condition /\ Goto(r, step) /\ UNCHANGED outcome
    \/ ~condition /\ Answer(r, error)

Authenticate(r) ==
    /\ pc[r] = "authenticate"
    /\ Require(r, Known(policy), "enable", "unauthorized")
    /\ UNCHANGED shared
    /\ UNCHANGED <<kind, round, seen, got, engine, since, used>>

Enable(r) ==
    /\ pc[r] = "enable"
    /\ Require(r, Enabled(policy),
               CASE kind[r] = "mask" -> "engine"
                 [] kind[r] = "demask" -> "lookup"
                 [] kind[r] = "proxy" -> "right",
               "forbidden")
    /\ UNCHANGED shared
    /\ UNCHANGED <<kind, round, seen, got, engine, since, used>>

\* What r does once it has something to answer with: the policy is refreshed
\* again. (Slip: it is only consulted.)
SecondCheckStale(r) == Goto(r, "permit") /\ UNCHANGED round
SecondCheck(r) == Goto(r, "stat") /\ round' = [round EXCEPT ![r] = 2]

\* The store finds the pair that the mask belongs to and calls can_demask.
Lookup(r) ==
    /\ pc[r] = "lookup"
    /\ SecondCheck(r)
    /\ since' = [since EXCEPT ![r] = Now]
    /\ UNCHANGED shared
    /\ UNCHANGED <<kind, seen, got, engine, outcome, used>>

\* /proxy: the right to demask, then the test of the policy.
Right(r) ==
    /\ pc[r] = "right"
    /\ Require(r, MayDemask(policy), "safe", "forbidden")
    /\ UNCHANGED shared
    /\ UNCHANGED <<kind, round, seen, got, engine, since, used>>

Safe(r) ==
    /\ pc[r] = "safe"
    /\ Require(r, SafeForProxy(policy), "engine", "forbidden")
    /\ UNCHANGED shared
    /\ UNCHANGED <<kind, round, seen, got, engine, since, used>>

\* _engine: the consumer's policy, then the custom patterns.
Engine(r) ==
    /\ pc[r] = "engine"
    /\ Require(r, Known(policy), "patterns", "forbidden")
    /\ engine' = [engine EXCEPT ![r].policy = policy]
    /\ UNCHANGED shared
    /\ UNCHANGED <<kind, round, seen, got, since, used>>

\* The engine masks the text: /process publishes and answers the mask, /proxy
\* sends it to the LLM.
Patterns(r) ==
    /\ pc[r] = "patterns"
    /\ engine' = [engine EXCEPT ![r].patterns = policy]
    /\ \/ kind[r] = "mask" /\ Answer(r, "masked")
       \/ kind[r] = "proxy" /\ Goto(r, "llm") /\ UNCHANGED outcome
    /\ UNCHANGED shared
    /\ UNCHANGED <<kind, round, seen, got, since, used>>

\* The LLM answers or fails.
Llm(r) ==
    /\ pc[r] = "llm"
    /\ \/ /\ SecondCheck(r)
          /\ since' = [since EXCEPT ![r] = Now]
          /\ UNCHANGED outcome
       \/ Answer(r, "llm_unavailable") /\ UNCHANGED <<round, since>>
    /\ UNCHANGED shared
    /\ UNCHANGED <<kind, seen, got, engine, used>>

\* check_demask before the original, or the restored text, is given back.
Permit(r) ==
    /\ pc[r] = "permit"
    /\ \/ /\ MayDemask(policy)
          /\ Answer(r, IF kind[r] = "demask" THEN "demasked" ELSE "proxied")
       \/ ~MayDemask(policy) /\ Answer(r, "forbidden")
    /\ used' = [used EXCEPT ![r] = policy]
    /\ UNCHANGED shared
    /\ UNCHANGED <<kind, round, seen, got, engine, since>>

Handler(r) ==
    \/ Stat(r) \/ Read(r) \/ Install(r)
    \/ Authenticate(r) \/ Enable(r) \/ Lookup(r) \/ Right(r) \/ Safe(r)
    \/ Engine(r) \/ Patterns(r) \/ Llm(r) \/ Permit(r)

Next ==
    \/ Write \/ BootLoad \/ BootStat
    \/ \E r \in Requests : Arrive(r) \/ Handler(r)

Spec == Init /\ [][Next]_vars

\* A thread that can take a step takes it; the lock is never held for ever,
\* and is asked for at most twice by a request.
FairSpec == Spec /\ \A r \in Requests : WF_vars(Handler(r))

-----------------------------------------------------------------------------
(* What must hold.                                                         *)

\* A revoked right is revoked for pairs already stored: an original is given
\* back only under a policy that allows it and that the file has held at some
\* moment since the pair was found (or the LLM answered). So it is for the
\* consumer who was disabled or removed, and while the file is invalid.
RevocationHolds ==
    \A r \in Requests :
        outcome[r] \in {"demasked", "proxied"} =>
            /\ used[r] >= since[r]
            /\ MayDemask(used[r])

\* A text is masked under a valid policy that the file has held since the
\* request arrived, never under an older one; the custom patterns, which are
\* read after it, may be those of a newer file but never of an older one.
MaskingIsFresh ==
    \A r \in Requests :
        outcome[r] = "masked" =>
            /\ since[r] <= engine[r].policy
            /\ engine[r].policy <= engine[r].patterns
            /\ Valid(engine[r].policy) /\ Valid(engine[r].patterns)

\* No reload undoes a newer one: a thread that was slow to read the file
\* cannot bring an old policy back.
NeverBackwards == [][policy' >= policy]_vars

\* The configuration is given as the reason of a refusal only if the file was
\* really unusable at some moment since the request asked.
NoSpuriousRefusal ==
    \A r \in Requests :
        outcome[r] \in {"storage_unavailable", "internal_error"} =>
            \E n \in since[r] .. Now : ~Valid(n)

\* Every request is answered, whatever happens to the file.
EveryRequestAnswered ==
    \A r \in Requests : pc[r] # "idle" ~> pc[r] = "done"

\* README: an invalid policy leads to a controlled refusal until it is fixed,
\* and the code for the configuration is 503; 500 is for internal errors.
BadPolicyIs503 == \A r \in Requests : outcome[r] # "internal_error"

\* The comment in proxy: deliberately unprotected configurations are not sent
\* over the LLM boundary.
ProxySendsProtected ==
    \A r \in Requests : pc[r] = "llm" => SafeForProxy(engine[r].policy)
=============================================================================
