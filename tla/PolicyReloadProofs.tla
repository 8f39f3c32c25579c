-------------------------- MODULE PolicyReloadProofs --------------------------
(***************************************************************************)
(* Theorems about PolicyReload, for every set of request threads and every *)
(* list of contents that the file may have. Two of them need that nobody   *)
(* writes the file while the worker starts (QuietStart); without that TLC  *)
(* finds both violated.                                                    *)
(***************************************************************************)
EXTENDS PolicyReload, SequenceTheorems, TLAPS

Typed == TypeOK /\ written \in Seq(Content)

\* Steps taken after a refresh and before the next one or the end.
Refreshed == {"authenticate", "enable", "lookup", "right", "safe", "engine",
              "patterns", "llm", "permit"}

\* The start: requests come after it, and from the load on there is a valid
\* policy. If nobody writes meanwhile it is never older than its stamp.
StartInv ==
    /\ boot # "up" => \A r \in Requests : pc[r] = "idle"
    /\ boot # "load" => policy >= 1 /\ Valid(policy)
    /\ QuietStart => stamp <= policy
    /\ QuietStart /\ boot = "stat" => policy = Now

\* What is known of the thread r: it holds the lock from stat to the install,
\* so that what it has read is the newest policy so far; it was refused for
\* the configuration only if that was unusable.
LoadKnown(r) ==
    /\ pc[r] # "done" => outcome[r] = "none"
    /\ pc[r] # "idle" => since[r] >= 1
    /\ pc[r] \in {"read", "install"} <=> lock = r
    /\ pc[r] \in {"read", "install"} => since[r] <= seen[r]
    /\ pc[r] = "install" => /\ seen[r] <= got[r]
                            /\ policy <= got[r]
                            /\ Valid(got[r])
    /\ outcome[r] \in {"storage_unavailable", "internal_error"} =>
           \E n \in since[r] .. Now : ~Valid(n)

\* What is known of the policies it uses, after a quiet start: from the refresh
\* on, the global policy is not older than what r began with, nor are those
\* that its engine and its last decision were made of.
UseKnown(r) ==
    /\ pc[r] \in Refreshed => since[r] <= policy
    /\ pc[r] = "patterns" => /\ since[r] <= engine[r].policy
                             /\ engine[r].policy <= policy
                             /\ Valid(engine[r].policy)
    /\ outcome[r] = "masked" => /\ since[r] <= engine[r].policy
                                /\ engine[r].policy <= engine[r].patterns
                                /\ Valid(engine[r].policy)
                                /\ Valid(engine[r].patterns)
    /\ outcome[r] \in {"demasked", "proxied"} => /\ used[r] >= since[r]
                                                 /\ MayDemask(used[r])

ThreadKnown(r) == LoadKnown(r) /\ (QuietStart => UseKnown(r))

\* The inductive invariant.
IInv == Typed /\ StartInv /\ \A r \in Requests : ThreadKnown(r)

-----------------------------------------------------------------------------
(* The initial state, and threads that a step does not concern.            *)

\* The invariant holds in the initial state.
LEMMA IInvInit == Init => IInv
<1>. SUFFICES ASSUME Init PROVE IInv
  OBVIOUS
<1>1. PICK c \in Contents[1] : written = <<c>>
  BY DEF Init
<1>2. Len(Contents) \in Nat \ {0} /\ Contents[1] \subseteq Content
  BY ContentsAssumption, EmptySeq
<1>3. /\ written \in Seq(Content) /\ Len(written) = 1
      /\ \A n \in 1 .. Len(written) : written[n] \in Contents[n]
  BY <1>1, <1>2
<1>4. TypeOK
  BY <1>2, <1>3 DEF Init, TypeOK, Steps
<1>5. StartInv
  BY DEF Init, StartInv
<1>6. ASSUME NEW r \in Requests PROVE ThreadKnown(r)
  BY NobodyAssumption
     DEF Init, ThreadKnown, LoadKnown, UseKnown, Refreshed
<1>. QED
  BY <1>3, <1>4, <1>5, <1>6 DEF IInv, Typed

\* What belongs to the thread q alone is as it was.
Untouched(q) ==
    /\ pc'[q] = pc[q] /\ kind'[q] = kind[q] /\ round'[q] = round[q]
    /\ seen'[q] = seen[q] /\ got'[q] = got[q] /\ engine'[q] = engine[q]
    /\ outcome'[q] = outcome[q] /\ since'[q] = since[q] /\ used'[q] = used[q]

Others(r) == \A q \in Requests \ {r} : Untouched(q)

\* The file keeps the contents it has had, and the policy does not get older.
Forward ==
    /\ Now \in Nat /\ Now' \in Nat /\ Now <= Now'
    /\ \A n \in 1 .. Now : written'[n] = written[n]
    /\ policy <= policy'

\* What is known of a thread stays known while others go forward, provided
\* the lock keeps them from installing a policy under its hands.
LEMMA UntouchedKnown ==
    ASSUME Typed, Typed', Forward, NEW q \in Requests, Untouched(q),
           ThreadKnown(q),
           lock' = q <=> lock = q,
           pc[q] = "install" => policy' = policy
    PROVE  ThreadKnown(q)'
<1>1. /\ since[q] \in 0 .. Now /\ got[q] \in 0 .. Now /\ seen[q] \in 0 .. Now
      /\ used[q] \in 0 .. Now /\ policy \in 0 .. Now
      /\ engine[q].policy \in 0 .. Now /\ engine[q].patterns \in 0 .. Now
      /\ policy' \in 0 .. Now'
  BY DEF Typed, TypeOK, Now
<1>2. \A n \in 1 .. Now : Valid(n)' = Valid(n) /\ MayDemask(n)' = MayDemask(n)
  BY DEF Forward, Valid, MayDemask, Enabled, Known
<1>3. pc[q] = "idle" => outcome[q] = "none"
  BY DEF ThreadKnown, LoadKnown
<1>4. LoadKnown(q)'
  <2>. USE DEF Untouched, ThreadKnown, LoadKnown
  <2>1. (pc[q] = "install" => /\ seen[q] <= got[q] /\ policy <= got[q]
                              /\ Valid(got[q]))'
    <3>. SUFFICES ASSUME pc[q] = "install"
                  PROVE  (seen[q] <= got[q] /\ policy <= got[q] /\ Valid(got[q]))'
      OBVIOUS
    <3>1. got[q] \in 1 .. Now
      BY <1>1
    <3>2. Valid(got[q])'
      BY <1>2, <3>1 DEF Valid
    <3>. QED
      BY <3>2
  <2>2. (outcome[q] \in {"storage_unavailable", "internal_error"} =>
             \E n \in since[q] .. Now : ~Valid(n))'
    <3>. SUFFICES ASSUME outcome[q] \in {"storage_unavailable", "internal_error"}
                  PROVE  (\E n \in since[q] .. Now : ~Valid(n))'
      OBVIOUS
    <3>1. PICK n \in since[q] .. Now : ~Valid(n)
      OBVIOUS
    <3>2. since[q] >= 1
      BY <1>3
    <3>3. n \in 1 .. Now /\ n \in since[q] .. Now'
      BY <1>1, <3>1, <3>2 DEF Forward
    <3>4. ~Valid(n)'
      BY <1>2, <3>1, <3>3
    <3>. QED
      BY <3>3, <3>4
  <2>. QED
    BY <2>1, <2>2
<1>5. QuietStart' => UseKnown(q)'
  <2>. SUFFICES ASSUME QuietStart PROVE UseKnown(q)'
    OBVIOUS
  <2>. USE DEF Untouched, ThreadKnown, LoadKnown, UseKnown
  <2>1. (pc[q] \in Refreshed => since[q] <= policy)'
    BY <1>1 DEF Forward
  <2>2. (pc[q] = "patterns" => /\ since[q] <= engine[q].policy
                               /\ engine[q].policy <= policy
                               /\ Valid(engine[q].policy))'
    <3>. SUFFICES ASSUME pc[q] = "patterns"
                  PROVE  (/\ since[q] <= engine[q].policy
                          /\ engine[q].policy <= policy
                          /\ Valid(engine[q].policy))'
      OBVIOUS
    <3>1. engine[q].policy \in 1 .. Now
      BY <1>1
    <3>2. Valid(engine[q].policy)'
      BY <1>2, <3>1 DEF Valid
    <3>. QED
      BY <1>1, <3>2 DEF Forward
  <2>3. (outcome[q] = "masked" => /\ since[q] <= engine[q].policy
                                  /\ engine[q].policy <= engine[q].patterns
                                  /\ Valid(engine[q].policy)
                                  /\ Valid(engine[q].patterns))'
    <3>. SUFFICES ASSUME outcome[q] = "masked"
                  PROVE  (/\ since[q] <= engine[q].policy
                          /\ engine[q].policy <= engine[q].patterns
                          /\ Valid(engine[q].policy)
                          /\ Valid(engine[q].patterns))'
      OBVIOUS
    <3>1. engine[q].policy \in 1 .. Now /\ engine[q].patterns \in 1 .. Now
      BY <1>1, <1>3
    <3>2. Valid(engine[q].policy)' /\ Valid(engine[q].patterns)'
      BY <1>2, <3>1 DEF Valid
    <3>. QED
      BY <3>2
  <2>4. (outcome[q] \in {"demasked", "proxied"} => /\ used[q] >= since[q]
                                                   /\ MayDemask(used[q]))'
    <3>. SUFFICES ASSUME outcome[q] \in {"demasked", "proxied"}
                  PROVE  (used[q] >= since[q] /\ MayDemask(used[q]))'
      OBVIOUS
    <3>1. used[q] \in 1 .. Now
      BY <1>1, <1>3
    <3>2. MayDemask(used[q])'
      BY <1>2, <3>1 DEF MayDemask, Enabled, Known
    <3>. QED
      BY <3>2
  <2>. QED
    BY <2>1, <2>2, <2>3, <2>4
<1>. QED
  BY <1>4, <1>5 DEF ThreadKnown

-----------------------------------------------------------------------------
(* The steps of a thread.                                                  *)

\* What a step of r gives: types, the other threads as they were, the file and
\* the policy not older, and what is known of the start and of r.
Gives(r) ==
    /\ Typed' /\ StartInv' /\ ThreadKnown(r)'
    /\ Others(r) /\ Forward
    /\ \A q \in Requests \ {r} : /\ lock' = q <=> lock = q
                                 /\ pc[q] = "install" => policy' = policy

\* The numbers in a typed state.
LEMMA Numbers ==
    ASSUME Typed
    PROVE  /\ Now \in Nat /\ Now >= 1
           /\ policy \in 0 .. Now /\ stamp \in 0 .. Now
           /\ \A r \in Requests :
                 /\ since[r] \in 0 .. Now /\ seen[r] \in 0 .. Now
                 /\ got[r] \in 0 .. Now /\ used[r] \in 0 .. Now
                 /\ engine[r].policy \in 0 .. Now
                 /\ engine[r].patterns \in 0 .. Now
BY DEF Typed, TypeOK, Now

\* Once a request has come the worker is up and has a valid policy.
LEMMA UpWhenBusy ==
    ASSUME IInv, NEW r \in Requests, pc[r] # "idle"
    PROVE  boot = "up" /\ policy >= 1 /\ Valid(policy)
BY DEF IInv, Typed, TypeOK, StartInv

\* A step of r that leaves the file, the start, the policy, its stamp and the
\* lock as they are only has to keep what is known of r.
LEMMA DecisionGives ==
    ASSUME IInv, NEW r \in Requests, UNCHANGED shared, pc[r] # "idle",
           TypeOK', Others(r), ThreadKnown(r)'
    PROVE  Gives(r)
<1>1. boot = "up"
  BY UpWhenBusy
<1>2. StartInv' /\ Typed'
  BY <1>1 DEF IInv, StartInv, Typed, shared, Valid, Now
<1>3. Forward
  BY Numbers DEF IInv, Forward, shared, Now
<1>. QED
  BY <1>2, <1>3 DEF Gives, shared

\* A request arrives at a worker that is up.
LEMMA ArriveGives ==
    ASSUME IInv, NEW r \in Requests, Arrive(r)
    PROVE  Gives(r)
<1>. USE DEF IInv
<1>1. /\ since' \in [Requests -> 0 .. Now] /\ since'[r] = Now
      /\ pc' \in [Requests -> Steps] /\ pc'[r] = "stat"
      /\ \A q \in Requests \ {r} : since'[q] = since[q] /\ pc'[q] = pc[q]
  BY Numbers, SMTT(20) DEF Arrive, Goto, Typed, TypeOK, Steps, Now
<1>2. /\ UNCHANGED <<written, boot, policy, stamp, lock, kind, round, seen, got,
                     engine, outcome, used>>
      /\ boot = "up" /\ pc[r] = "idle"
  BY DEF Arrive
<1>3. Typed'
  BY <1>1, <1>2 DEF Typed, TypeOK, Now
<1>4. ThreadKnown(r)'
  BY <1>1, <1>2, Numbers
     DEF ThreadKnown, LoadKnown, UseKnown, Refreshed, Now
<1>5. StartInv' /\ Forward /\ Others(r)
  BY <1>1, <1>2, Numbers
     DEF StartInv, Forward, Others, Untouched, Valid, Now
<1>. QED
  BY <1>2, <1>3, <1>4, <1>5 DEF Gives

\* stat: the policy is up to date, or r takes the lock to read it again.
LEMMA StatGives ==
    ASSUME IInv, NEW r \in Requests, Stat(r)
    PROVE  Gives(r)
<1>. USE DEF IInv
<1>1. /\ pc[r] = "stat" /\ lock = Nobody
      /\ UNCHANGED <<written, boot, policy, stamp, kind, round, got, engine,
                     outcome, since, used>>
  BY DEF Stat, LockFree
<1>2. boot = "up"
  BY <1>1, UpWhenBusy
<1>3. CASE /\ stamp = Now /\ Goto(r, AfterRefresh(r))
           /\ UNCHANGED <<lock, seen>>
  <2>1. /\ pc' \in [Requests -> Steps]
        /\ pc'[r] \in {"authenticate", "permit"}
        /\ \A q \in Requests \ {r} : pc'[q] = pc[q]
    BY <1>3 DEF Goto, AfterRefresh, Typed, TypeOK, Steps
  <2>2. TypeOK' /\ Others(r)
    BY <1>1, <1>3, <2>1 DEF Typed, TypeOK, Others, Untouched
  <2>3. ThreadKnown(r)'
    BY <1>1, <1>3, <2>1, Numbers
       DEF ThreadKnown, LoadKnown, UseKnown, Refreshed, StartInv, Now
  <2>. QED
    BY <1>1, <1>3, <2>2, <2>3, DecisionGives DEF shared
<1>4. CASE /\ stamp # Now /\ Goto(r, "read") /\ lock' = r
           /\ seen' = [seen EXCEPT ![r] = Now]
  <2>1. /\ pc' \in [Requests -> Steps] /\ pc'[r] = "read"
        /\ seen' \in [Requests -> 0 .. Now] /\ seen'[r] = Now
        /\ \A q \in Requests \ {r} : pc'[q] = pc[q] /\ seen'[q] = seen[q]
    BY <1>4, Numbers, SMTT(20) DEF Goto, Typed, TypeOK, Steps, Now
  <2>2. Typed'
    BY <1>1, <1>4, <2>1 DEF Typed, TypeOK, Now
  <2>3. ThreadKnown(r)'
    BY <1>1, <1>4, <2>1, Numbers
       DEF ThreadKnown, LoadKnown, UseKnown, Refreshed, Now
  <2>4. StartInv' /\ Forward /\ Others(r)
    BY <1>1, <1>2, <2>1, Numbers
       DEF StartInv, Forward, Others, Untouched, Valid, Now
  <2>5. \A q \in Requests : lock # q
    BY <1>1, NobodyAssumption
  <2>. QED
    BY <1>1, <1>4, <2>2, <2>3, <2>4, <2>5 DEF Gives
<1>. QED
  BY <1>3, <1>4 DEF Stat

\* read: r has a content that is not older than the policy, or is refused for
\* the present one.
LEMMA ReadGives ==
    ASSUME IInv, NEW r \in Requests, Read(r)
    PROVE  Gives(r)
<1>. USE DEF IInv
<1>1. /\ pc[r] = "read"
      /\ UNCHANGED <<written, boot, policy, kind, round, seen, engine, since,
                     used>>
  BY DEF Read
<1>2. boot = "up" /\ lock = r /\ since[r] <= seen[r] /\ since[r] >= 1
      /\ outcome[r] = "none"
  BY <1>1, UpWhenBusy DEF ThreadKnown, LoadKnown
<1>3. CASE /\ Valid(Now) /\ got' = [got EXCEPT ![r] = Now]
           /\ Goto(r, "install") /\ UNCHANGED <<lock, stamp, outcome>>
  <2>1. /\ pc' \in [Requests -> Steps] /\ pc'[r] = "install"
        /\ got' \in [Requests -> 0 .. Now] /\ got'[r] = Now
        /\ \A q \in Requests \ {r} : pc'[q] = pc[q] /\ got'[q] = got[q]
    BY <1>3, Numbers, SMTT(20) DEF Goto, Typed, TypeOK, Steps, Now
  <2>2. TypeOK' /\ Others(r)
    BY <1>1, <1>3, <2>1 DEF Typed, TypeOK, Others, Untouched, Now
  <2>3. ThreadKnown(r)'
    BY <1>1, <1>2, <1>3, <2>1, Numbers
       DEF ThreadKnown, LoadKnown, UseKnown, Refreshed, Now, Valid
  <2>. QED
    BY <1>1, <1>3, <2>2, <2>3, DecisionGives DEF shared
<1>4. CASE /\ ~Valid(Now) /\ GiveUp(r) /\ Answer(r, Refusal(r))
           /\ UNCHANGED got
  <2>1. Refusal(r) \in Errors
    BY DEF Refusal, Errors
  <2>2. /\ pc' \in [Requests -> Steps] /\ pc'[r] = "done"
        /\ outcome' \in [Requests -> Served \cup Errors \cup {"none"}]
        /\ outcome'[r] \in {"storage_unavailable", "internal_error"}
        /\ \A q \in Requests \ {r} : pc'[q] = pc[q] /\ outcome'[q] = outcome[q]
    BY <1>4, <2>1 DEF Answer, Goto, Typed, TypeOK, Steps, Refusal
  <2>3. lock' = Nobody /\ stamp' = stamp
    BY <1>4 DEF GiveUp
  <2>4. Typed'
    BY <1>1, <1>4, <2>2, <2>3 DEF Typed, TypeOK
  <2>5. ThreadKnown(r)'
    <3>1. Now \in since[r] .. Now
      BY Numbers
    <3>2. (\E n \in since[r] .. Now : ~Valid(n))'
      BY <1>1, <1>4, <3>1 DEF Now, Valid
    <3>. QED
      BY <1>1, <1>2, <2>2, <2>3, <3>2, NobodyAssumption
         DEF ThreadKnown, LoadKnown, UseKnown, Refreshed
  <2>6. StartInv' /\ Forward /\ Others(r)
    BY <1>1, <1>2, <1>4, <2>2, <2>3, Numbers
       DEF StartInv, Forward, Others, Untouched, Valid, Now
  <2>. QED
    BY <1>1, <1>2, <2>3, <2>4, <2>5, <2>6, NobodyAssumption DEF Gives
<1>. QED
  BY <1>3, <1>4 DEF Read

\* install: the policy is what r has read, and no other thread is installing.
LEMMA InstallGives ==
    ASSUME IInv, NEW r \in Requests, Install(r)
    PROVE  Gives(r)
<1>. USE DEF IInv
<1>1. /\ pc[r] = "install" /\ policy' = got[r] /\ stamp' = seen[r]
      /\ lock' = Nobody /\ UNCHANGED <<written, boot>>
      /\ UNCHANGED <<kind, round, seen, got, engine, outcome, since, used>>
  BY DEF Install, request
<1>2. /\ boot = "up" /\ lock = r /\ since[r] <= seen[r] /\ since[r] >= 1
      /\ outcome[r] = "none" /\ seen[r] <= got[r] /\ policy <= got[r]
      /\ Valid(got[r])
  BY <1>1, UpWhenBusy DEF ThreadKnown, LoadKnown
<1>3. /\ pc' \in [Requests -> Steps]
      /\ pc'[r] \in {"authenticate", "permit"}
      /\ \A q \in Requests \ {r} : pc'[q] = pc[q]
  BY DEF Install, Goto, AfterRefresh, Typed, TypeOK, Steps
<1>4. Typed'
  BY <1>1, <1>3 DEF Typed, TypeOK
<1>5. ThreadKnown(r)'
  BY <1>1, <1>2, <1>3, Numbers, NobodyAssumption
     DEF ThreadKnown, LoadKnown, UseKnown, Refreshed
<1>6. StartInv' /\ Forward /\ Others(r)
  BY <1>1, <1>2, <1>3, Numbers
     DEF StartInv, Forward, Others, Untouched, Valid, Now
<1>7. \A q \in Requests \ {r} : lock # q /\ pc[q] # "install"
  BY <1>2 DEF ThreadKnown, LoadKnown
<1>. QED
  BY <1>1, <1>4, <1>5, <1>6, <1>7, NobodyAssumption DEF Gives

-----------------------------------------------------------------------------
(* The decisions, which leave everything shared as it is.                  *)

\* A thread goes on or is refused.
LEMMA RequireMoves ==
    ASSUME Typed, NEW r \in Requests, NEW c, NEW s \in Steps,
           NEW e \in Errors, Require(r, c, s, e)
    PROVE  /\ pc' \in [Requests -> Steps]
           /\ outcome' \in [Requests -> Served \cup Errors \cup {"none"}]
           /\ \A q \in Requests \ {r} : pc'[q] = pc[q] /\ outcome'[q] = outcome[q]
           /\ \/ pc'[r] = s /\ outcome'[r] = outcome[r]
              \/ pc'[r] = "done" /\ outcome'[r] = e
<1>1. CASE Goto(r, s) /\ UNCHANGED outcome
  BY <1>1 DEF Goto, Typed, TypeOK
<1>2. CASE Answer(r, e)
  <2>1. "done" \in Steps
    BY DEF Steps
  <2>. QED
    BY <1>2, <2>1 DEF Answer, Goto, Typed, TypeOK
<1>. QED
  BY <1>1, <1>2 DEF Require

\* So it is for a thread that consults the policy and nothing else.
LEMMA ConsultGives ==
    ASSUME IInv, NEW r \in Requests, NEW c, NEW s \in Refreshed \ {"patterns"},
           NEW e \in {"unauthorized", "forbidden"},
           pc[r] \in Refreshed, Require(r, c, s, e), UNCHANGED shared,
           UNCHANGED <<kind, round, seen, got, engine, since, used>>
    PROVE  Gives(r)
<1>. USE DEF IInv
<1>1. /\ pc' \in [Requests -> Steps]
      /\ outcome' \in [Requests -> Served \cup Errors \cup {"none"}]
      /\ \A q \in Requests \ {r} : pc'[q] = pc[q] /\ outcome'[q] = outcome[q]
      /\ \/ pc'[r] = s /\ outcome'[r] = outcome[r]
         \/ pc'[r] = "done" /\ outcome'[r] = e
  BY RequireMoves DEF Refreshed, Steps, Errors
<1>2. TypeOK' /\ Others(r)
  BY <1>1 DEF Typed, TypeOK, Others, Untouched, shared
<1>3. lock # r /\ outcome[r] = "none" /\ since[r] >= 1
  BY DEF ThreadKnown, LoadKnown, Refreshed
<1>4. ThreadKnown(r)'
  BY <1>1, <1>3, Numbers
     DEF ThreadKnown, LoadKnown, UseKnown, Refreshed, shared
<1>. QED
  BY <1>2, <1>4, DecisionGives DEF Refreshed

\* A thread that has something to answer with asks for another refresh.
LEMMA SecondGives ==
    ASSUME IInv, NEW r \in Requests, pc[r] \in {"lookup", "llm"},
           SecondCheck(r), since' = [since EXCEPT ![r] = Now],
           UNCHANGED shared,
           UNCHANGED <<kind, seen, got, engine, outcome, used>>
    PROVE  Gives(r)
<1>. USE DEF IInv
<1>1. /\ pc' \in [Requests -> Steps] /\ pc'[r] = "stat"
      /\ round' \in [Requests -> 1 .. 2]
      /\ since' \in [Requests -> 0 .. Now] /\ since'[r] = Now
      /\ \A q \in Requests \ {r} : /\ pc'[q] = pc[q] /\ round'[q] = round[q]
                                   /\ since'[q] = since[q]
  <2>1. /\ since' \in [Requests -> 0 .. Now] /\ since'[r] = Now
        /\ \A q \in Requests \ {r} : since'[q] = since[q]
    BY Numbers DEF Typed, TypeOK, Now
  <2>2. /\ pc' \in [Requests -> Steps] /\ pc'[r] = "stat"
        /\ \A q \in Requests \ {r} : pc'[q] = pc[q]
    BY DEF SecondCheck, Goto, Typed, TypeOK, Steps
  <2>3. /\ round' \in [Requests -> 1 .. 2]
        /\ \A q \in Requests \ {r} : round'[q] = round[q]
    BY DEF SecondCheck, Typed, TypeOK
  <2>. QED
    BY <2>1, <2>2, <2>3
<1>2. TypeOK' /\ Others(r)
  BY <1>1 DEF Typed, TypeOK, Others, Untouched, shared, Now
<1>3. lock # r /\ outcome[r] = "none"
  BY DEF ThreadKnown, LoadKnown
<1>4. ThreadKnown(r)'
  BY <1>1, <1>3, Numbers
     DEF ThreadKnown, LoadKnown, UseKnown, Refreshed, shared
<1>. QED
  BY <1>2, <1>4, DecisionGives

\* The engine is configured from the global policy.
LEMMA EngineGives ==
    ASSUME IInv, NEW r \in Requests, Engine(r)
    PROVE  Gives(r)
<1>. USE DEF IInv
<1>1. /\ pc[r] = "engine" /\ UNCHANGED shared
      /\ UNCHANGED <<kind, round, seen, got, since, used>>
      /\ Require(r, Known(policy), "patterns", "forbidden")
      /\ engine' = [engine EXCEPT ![r].policy = policy]
  BY DEF Engine
<1>2. /\ pc' \in [Requests -> Steps]
      /\ outcome' \in [Requests -> Served \cup Errors \cup {"none"}]
      /\ \A q \in Requests \ {r} : pc'[q] = pc[q] /\ outcome'[q] = outcome[q]
      /\ \/ pc'[r] = "patterns" /\ outcome'[r] = outcome[r]
         \/ pc'[r] = "done" /\ outcome'[r] = "forbidden"
  BY <1>1, RequireMoves DEF Steps, Errors
<1>3. /\ engine' \in [Requests -> [policy : 0 .. Now, patterns : 0 .. Now]]
      /\ engine'[r].policy = policy
      /\ \A q \in Requests \ {r} : engine'[q] = engine[q]
  BY <1>1, Numbers DEF Typed, TypeOK, Now
<1>4. TypeOK' /\ Others(r)
  BY <1>1, <1>2, <1>3 DEF Typed, TypeOK, Others, Untouched, shared, Now
<1>5. lock # r /\ outcome[r] = "none" /\ since[r] >= 1
  BY <1>1 DEF ThreadKnown, LoadKnown
<1>6. policy >= 1 /\ Valid(policy)
  BY <1>1, UpWhenBusy
<1>7. ThreadKnown(r)'
  BY <1>1, <1>2, <1>3, <1>5, <1>6, Numbers
     DEF ThreadKnown, LoadKnown, UseKnown, Refreshed, shared, Valid
<1>. QED
  BY <1>1, <1>4, <1>7, DecisionGives

\* The patterns are those of the policy, which may be a newer one by now.
LEMMA PatternsGives ==
    ASSUME IInv, NEW r \in Requests, Patterns(r)
    PROVE  Gives(r)
<1>. USE DEF IInv
<1>1. /\ pc[r] = "patterns" /\ UNCHANGED shared
      /\ UNCHANGED <<kind, round, seen, got, since, used>>
      /\ engine' = [engine EXCEPT ![r].patterns = policy]
      /\ \/ Answer(r, "masked")
         \/ Goto(r, "llm") /\ UNCHANGED outcome
  BY DEF Patterns
<1>2. /\ pc' \in [Requests -> Steps]
      /\ outcome' \in [Requests -> Served \cup Errors \cup {"none"}]
      /\ \A q \in Requests \ {r} : pc'[q] = pc[q] /\ outcome'[q] = outcome[q]
      /\ \/ pc'[r] = "llm" /\ outcome'[r] = outcome[r]
         \/ pc'[r] = "done" /\ outcome'[r] = "masked"
  BY <1>1 DEF Answer, Goto, Typed, TypeOK, Steps, Served
<1>3. /\ engine' \in [Requests -> [policy : 0 .. Now, patterns : 0 .. Now]]
      /\ engine'[r].policy = engine[r].policy
      /\ engine'[r].patterns = policy
      /\ \A q \in Requests \ {r} : engine'[q] = engine[q]
  BY <1>1, Numbers DEF Typed, TypeOK, Now
<1>4. TypeOK' /\ Others(r)
  BY <1>1, <1>2, <1>3 DEF Typed, TypeOK, Others, Untouched, shared, Now
<1>5. lock # r /\ outcome[r] = "none" /\ since[r] >= 1
  BY <1>1 DEF ThreadKnown, LoadKnown
<1>6. policy >= 1 /\ Valid(policy)
  BY <1>1, UpWhenBusy
<1>7. LoadKnown(r)'
  BY <1>1, <1>2, <1>5 DEF LoadKnown, shared
<1>8. ASSUME QuietStart PROVE UseKnown(r)'
  <2>1. /\ since[r] <= engine[r].policy /\ engine[r].policy <= policy
        /\ Valid(engine[r].policy) /\ since[r] <= policy
    BY <1>1, <1>8 DEF ThreadKnown, UseKnown, Refreshed
  <2>. QED
    BY <1>1, <1>2, <1>3, <1>5, <1>6, <2>1
       DEF UseKnown, Refreshed, shared, Valid
<1>. QED
  BY <1>1, <1>4, <1>7, <1>8, DecisionGives DEF ThreadKnown

\* The LLM fails.
LEMMA LlmFailureGives ==
    ASSUME IInv, NEW r \in Requests, pc[r] = "llm",
           Answer(r, "llm_unavailable"), UNCHANGED shared,
           UNCHANGED <<kind, round, seen, got, engine, since, used>>
    PROVE  Gives(r)
<1>. USE DEF IInv
<1>1. /\ pc' \in [Requests -> Steps] /\ pc'[r] = "done"
      /\ outcome' \in [Requests -> Served \cup Errors \cup {"none"}]
      /\ outcome'[r] = "llm_unavailable"
      /\ \A q \in Requests \ {r} : pc'[q] = pc[q] /\ outcome'[q] = outcome[q]
  BY DEF Answer, Goto, Typed, TypeOK, Steps, Errors
<1>2. TypeOK' /\ Others(r)
  BY <1>1 DEF Typed, TypeOK, Others, Untouched, shared
<1>3. ThreadKnown(r)'
  BY <1>1 DEF ThreadKnown, LoadKnown, UseKnown, Refreshed, shared
<1>. QED
  BY <1>2, <1>3, DecisionGives

\* The last decision is taken under the global policy.
LEMMA PermitGives ==
    ASSUME IInv, NEW r \in Requests, Permit(r)
    PROVE  Gives(r)
<1>. USE DEF IInv
<1>1. /\ pc[r] = "permit" /\ UNCHANGED shared
      /\ UNCHANGED <<kind, round, seen, got, engine, since>>
      /\ used' = [used EXCEPT ![r] = policy]
      /\ \/ MayDemask(policy) /\ \E o \in {"demasked", "proxied"} : Answer(r, o)
         \/ Answer(r, "forbidden")
  BY DEF Permit
<1>2. /\ pc' \in [Requests -> Steps] /\ pc'[r] = "done"
      /\ outcome' \in [Requests -> Served \cup Errors \cup {"none"}]
      /\ \/ MayDemask(policy) /\ outcome'[r] \in {"demasked", "proxied"}
         \/ outcome'[r] = "forbidden"
      /\ \A q \in Requests \ {r} : pc'[q] = pc[q] /\ outcome'[q] = outcome[q]
  BY <1>1 DEF Answer, Goto, Typed, TypeOK, Steps, Served, Errors
<1>3. /\ used' \in [Requests -> 0 .. Now] /\ used'[r] = policy
      /\ \A q \in Requests \ {r} : used'[q] = used[q]
  BY <1>1, Numbers DEF Typed, TypeOK, Now
<1>4. TypeOK' /\ Others(r)
  BY <1>1, <1>2, <1>3 DEF Typed, TypeOK, Others, Untouched, shared, Now
<1>5. LoadKnown(r)'
  BY <1>1, <1>2 DEF ThreadKnown, LoadKnown, shared
<1>6. ASSUME QuietStart PROVE UseKnown(r)'
  <2>1. since[r] <= policy
    BY <1>1, <1>6 DEF ThreadKnown, UseKnown, Refreshed
  <2>2. MayDemask(policy) => MayDemask(used[r])'
    BY <1>1, <1>3 DEF MayDemask, Enabled, Known, shared
  <2>. QED
    BY <1>1, <1>2, <1>3, <2>1, <2>2 DEF UseKnown, Refreshed
<1>. QED
  BY <1>1, <1>4, <1>5, <1>6, DecisionGives DEF ThreadKnown

\* Every step of a thread.
LEMMA ThreadGives ==
    ASSUME IInv, NEW r \in Requests, Arrive(r) \/ Handler(r)
    PROVE  Gives(r)
<1>1. CASE Arrive(r) \/ Stat(r) \/ Read(r) \/ Install(r)
  BY <1>1, ArriveGives, StatGives, ReadGives, InstallGives
<1>2. CASE Authenticate(r) \/ Right(r) \/ Safe(r)
  BY <1>2, ConsultGives DEF Authenticate, Right, Safe, Refreshed
<1>3. CASE Enable(r)
  <2>1. kind[r] \in Kinds
    BY DEF IInv, Typed, TypeOK
  <2>. DEFINE step == CASE kind[r] = "mask" -> "engine"
                        [] kind[r] = "demask" -> "lookup"
                        [] kind[r] = "proxy" -> "right"
  <2>2. step \in Refreshed \ {"patterns"}
    BY <2>1 DEF Kinds, Refreshed
  <2>3. /\ Require(r, Enabled(policy), step, "forbidden")
        /\ pc[r] \in Refreshed /\ UNCHANGED shared
        /\ UNCHANGED <<kind, round, seen, got, engine, since, used>>
    BY <1>3 DEF Enable, Refreshed
  <2>. HIDE DEF step
  <2>. QED
    BY <2>2, <2>3, ConsultGives
<1>4. CASE Lookup(r)
  BY <1>4, SecondGives DEF Lookup
<1>5. CASE Engine(r) \/ Patterns(r) \/ Permit(r)
  BY <1>5, EngineGives, PatternsGives, PermitGives
<1>6. CASE Llm(r)
  BY <1>6, SecondGives, LlmFailureGives DEF Llm
<1>. QED
  BY <1>1, <1>2, <1>3, <1>4, <1>5, <1>6 DEF Handler

-----------------------------------------------------------------------------
(* The file, the start of the worker, and the whole system.                *)

\* A new content of the file is well formed, and the old ones stay.
LEMMA WriteKeeps ==
    ASSUME IInv, Write
    PROVE  IInv'
<1>. USE DEF IInv
<1>1. PICK c \in Contents[Now + 1] : written' = Append(written, c)
  BY DEF Write
<1>2. /\ Now < Len(Contents)
      /\ UNCHANGED <<boot, policy, stamp, lock, pc>>
      /\ UNCHANGED <<kind, round, seen, got, engine, outcome, since, used>>
      /\ QuietStart => boot # "stat"
  BY DEF Write, request
<1>3. /\ Contents \in Seq(SUBSET Content) /\ Now \in Nat /\ Now >= 1
      /\ Len(Contents) \in Nat
  BY Numbers, ContentsAssumption
<1>4. c \in Content
  <2>1. Now + 1 \in 1 .. Len(Contents)
    BY <1>2, <1>3
  <2>. QED
    BY <1>3, <2>1
<1>5. /\ written' \in Seq(Content) /\ Len(written') = Now + 1
      /\ \A n \in 1 .. Now : written'[n] = written[n]
      /\ written'[Now + 1] = c
  BY <1>1, <1>4 DEF Typed, Now
<1>6. \A n \in 1 .. Len(written') : written'[n] \in Contents[n]
  BY <1>3, <1>5, SMTT(20) DEF Typed, TypeOK, Now
<1>7. Typed'
  <2>1. Len(written') \in 1 .. Len(Contents)
    BY <1>2, <1>3, <1>5
  <2>2. 0 .. Len(written) \subseteq 0 .. Len(written')
    BY <1>3, <1>5 DEF Now
  <2>3. /\ policy \in 0 .. Len(written') /\ stamp \in 0 .. Len(written')
        /\ seen \in [Requests -> 0 .. Len(written')]
        /\ got \in [Requests -> 0 .. Len(written')]
        /\ since \in [Requests -> 0 .. Len(written')]
        /\ used \in [Requests -> 0 .. Len(written')]
    BY <2>2 DEF Typed, TypeOK
  <2>4. engine \in [Requests -> [policy : 0 .. Len(written'),
                                 patterns : 0 .. Len(written')]]
    <3>1. [policy : 0 .. Len(written), patterns : 0 .. Len(written)]
              \subseteq [policy : 0 .. Len(written'),
                         patterns : 0 .. Len(written')]
      BY <2>2
    <3>. QED
      BY <3>1 DEF Typed, TypeOK
  <2>. QED
    BY <1>2, <1>5, <1>6, <2>1, <2>3, <2>4 DEF Typed, TypeOK
<1>8. Forward
  BY <1>2, <1>3, <1>5, Numbers DEF Forward, Now
<1>9. StartInv'
  <2>1. boot # "load" => Valid(policy)'
    BY <1>2, <1>5, Numbers DEF StartInv, Valid
  <2>. QED
    BY <1>2, <2>1 DEF StartInv
<1>10. \A q \in Requests : ThreadKnown(q)'
  BY <1>2, <1>7, <1>8, UntouchedKnown DEF Untouched
<1>. QED
  BY <1>7, <1>9, <1>10

\* The worker starts with a valid policy, the one of its stamp if nobody writes.
LEMMA BootKeeps ==
    ASSUME IInv, BootLoad \/ BootStat
    PROVE  IInv'
<1>. USE DEF IInv
<1>1. /\ UNCHANGED <<written, lock, pc>>
      /\ UNCHANGED <<kind, round, seen, got, engine, outcome, since, used>>
  BY DEF BootLoad, BootStat, request
<1>2. Typed' /\ Forward
  BY <1>1, Numbers
     DEF BootLoad, BootStat, Typed, TypeOK, Forward, Now
<1>3. StartInv'
  BY <1>1, Numbers DEF BootLoad, BootStat, StartInv, Valid, Now
<1>4. ASSUME NEW q \in Requests PROVE ThreadKnown(q)'
  <2>1. pc[q] = "idle"
    BY DEF BootLoad, BootStat, StartInv
  <2>. QED
    BY <1>1, <1>2, <2>1, UntouchedKnown DEF Untouched
<1>. QED
  BY <1>2, <1>3, <1>4

\* Every step keeps the invariant, and the policy does not get older.
LEMMA IInvNext ==
    ASSUME IInv, [Next]_vars
    PROVE  IInv' /\ policy' >= policy
<1>1. CASE UNCHANGED vars
  <2>1. Typed'
    BY <1>1 DEF IInv, vars, Typed, TypeOK
  <2>2. StartInv'
    BY <1>1 DEF IInv, vars, StartInv, Valid, Now
  <2>3. Forward
    BY <1>1, Numbers DEF IInv, vars, Forward, Now
  <2>4. \A q \in Requests : ThreadKnown(q)'
    BY <1>1, <2>1, <2>3, UntouchedKnown DEF IInv, vars, Untouched
  <2>. QED
    BY <1>1, <2>1, <2>2, <2>4, Numbers DEF IInv, vars
<1>2. CASE Write
  BY <1>2, WriteKeeps, Numbers DEF IInv, Write
<1>3. CASE BootLoad \/ BootStat
  BY <1>3, BootKeeps, Numbers DEF IInv, BootLoad, BootStat
<1>4. ASSUME NEW r \in Requests, Arrive(r) \/ Handler(r)
      PROVE  IInv' /\ policy' >= policy
  <2>1. Gives(r)
    BY <1>4, ThreadGives
  <2>2. \A q \in Requests \ {r} : ThreadKnown(q)'
    BY <2>1, UntouchedKnown DEF IInv, Gives, Others
  <2>. QED
    BY <2>1, <2>2, Numbers DEF IInv, Gives, Forward
<1>. QED
  BY <1>1, <1>2, <1>3, <1>4 DEF Next

\* Every state of a worker satisfies the inductive invariant.
THEOREM Invariance == Spec => []IInv
<1>1. IInv /\ [Next]_vars => IInv'
  BY IInvNext
<1>. QED
  BY <1>1, IInvInit, PTL DEF Spec

\* Every variable keeps its type.
THEOREM TypeCorrectness == Spec => []TypeOK
<1>1. IInv => TypeOK
  BY DEF IInv, Typed
<1>. QED
  BY <1>1, Invariance, PTL

\* No reload undoes a newer one, whatever the start was like.
THEOREM Monotony == Spec => NeverBackwards
<1>1. IInv /\ [Next]_vars => [policy' >= policy]_vars
  BY IInvNext
<1>. QED
  BY <1>1, Invariance, PTL DEF Spec, NeverBackwards

\* A refusal for the configuration has a reason, whatever the start was like.
THEOREM NotSpurious == Spec => []NoSpuriousRefusal
<1>1. IInv => NoSpuriousRefusal
  BY DEF IInv, ThreadKnown, LoadKnown, NoSpuriousRefusal
<1>. QED
  BY <1>1, Invariance, PTL

\* After a quiet start a revoked right is revoked for pairs already stored.
THEOREM Revocation ==
    ASSUME QuietStart
    PROVE  Spec => []RevocationHolds
<1>1. IInv => RevocationHolds
  BY DEF IInv, ThreadKnown, UseKnown, RevocationHolds
<1>. QED
  BY <1>1, Invariance, PTL

\* After a quiet start nothing is masked under a policy older than its request.
THEOREM Freshness ==
    ASSUME QuietStart
    PROVE  Spec => []MaskingIsFresh
<1>1. IInv => MaskingIsFresh
  BY DEF IInv, ThreadKnown, UseKnown, MaskingIsFresh
<1>. QED
  BY <1>1, Invariance, PTL

\* A start that was not quiet may leave the policy behind its stamp, so that the
\* file seems unchanged. That lasts until the first reload at most: from then
\* on, and after a quiet start, the stamp is never ahead of the policy.
StampNotAhead ==
    [][boot = "up" /\ (stamp <= policy \/ policy' # policy)
           => stamp' <= policy']_vars

\* A stamp that start left ahead of its policy is not so for longer than until
\* the first reload, and no step of a worker that runs makes it so.
THEOREM Healing == Spec => StampNotAhead
<1>. DEFINE A == boot = "up" /\ (stamp <= policy \/ policy' # policy)
                     => stamp' <= policy'
<1>1. IInv /\ [Next]_vars => [A]_vars
  <2>. SUFFICES ASSUME IInv, Next, boot = "up",
                       stamp <= policy \/ policy' # policy
                PROVE  stamp' <= policy'
    OBVIOUS
  <2>1. CASE Write
    BY <2>1 DEF Write
  <2>2. ASSUME NEW r \in Requests, Install(r)
        PROVE  stamp' <= policy'
    BY <2>2 DEF Install, IInv, ThreadKnown, LoadKnown
  <2>3. ASSUME NEW r \in Requests, Arrive(r) \/ Handler(r), ~Install(r)
        PROVE  stamp' <= policy'
    <3>1. UNCHANGED <<policy, stamp>>
      BY <2>3 DEF Handler, Arrive, Stat, Read, GiveUp, Authenticate, Enable,
                  Lookup, Right, Safe, Engine, Patterns, Llm, Permit, shared
    <3>. QED
      BY <3>1
  <2>. QED
    BY <2>1, <2>2, <2>3 DEF Next, BootLoad, BootStat
<1>. QED
  BY <1>1, Invariance, PTL DEF Spec, StampNotAhead
=============================================================================
