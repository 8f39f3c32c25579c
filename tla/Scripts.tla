-------------------------------- MODULE Scripts --------------------------------
(***************************************************************************)
(* The scripts that write files: generate_demo_secrets.py, which makes the *)
(* key and certificate of TLS and then .env, and build_release.py, which   *)
(* makes the archive. A run is a list of calls of the file system; it may  *)
(* raise or be killed at any of them, and runs may overlap.                *)
(***************************************************************************)
EXTENDS Naturals, Sequences

CONSTANTS
    Generators,   \* runs of generate_demo_secrets.py
    Builders,     \* runs of build_release.py
    Sources       \* files that go into the archive

Runs == Generators \cup Builders
ASSUME RunsAssumption ==
    Generators \cap Builders = {} /\ {"nobody", "user"} \cap Runs = {}

Secrets == {"key", "cert", "env"}
Names == Secrets \cup {"dir", "archive"}

\* What a whole file consists of; an archive ends with its directory.
Whole(n) == IF n = "archive" THEN Sources \cup {"directory"} ELSE {"text"}

None == [by |-> "nobody", content |-> {}, private |-> FALSE]

\* The calls of the two scripts.
Generate ==
    << <<"refuse", {"env"}>>, <<"refuse", {"key", "cert"}>>,
       <<"mkdir", "dir">>, <<"chmod", "dir">>,
       <<"open", "key">>, <<"write", "key">>, <<"chmod", "key">>,
       <<"open", "cert">>, <<"write", "cert">>,
       <<"open", "env">>, <<"chmod", "env">>, <<"write", "env">> >>
Build ==
    << <<"read", "sources">>, <<"open", "archive">>, <<"pack", "archive">>,
       <<"close", "archive">>, <<"read", "archive">> >>

VARIABLES
    files,      \* files[n]: the file n: who made it, its content, its mode
    outcome,    \* outcome[r]: how the run r is or went
    at,         \* at[r]: the call that r is about to make
    overlapped  \* history: two generators ran at the same time

vars == <<files, outcome, at, overlapped>>

Exists(n) == files[n].by # "nobody"

TypeOK ==
    /\ files \in [Names -> [by : Runs \cup {"nobody", "user"},
                            content : SUBSET (Sources \cup {"directory", "text"}),
                            private : BOOLEAN]]
    /\ \A n \in Names : files[n].content \subseteq IF Exists(n) THEN Whole(n) ELSE {}
    /\ outcome \in [Runs -> {"waiting", "running", "refused", "failed", "killed", "done"}]
    /\ at \in [Runs -> 1 .. 12]
    /\ overlapped \in BOOLEAN

\* The user may have some of the files already.
Init ==
    /\ \E own \in SUBSET Names :
          files = [n \in Names |-> IF n \notin own THEN None
                     ELSE [by |-> "user", content |-> Whole(n), private |-> FALSE]]
    /\ outcome = [r \in Runs |-> "waiting"]
    /\ at = [r \in Runs |-> 1]
    /\ overlapped = FALSE

-----------------------------------------------------------------------------
Start(r) ==
    /\ outcome[r] = "waiting"
    /\ outcome' = [outcome EXCEPT ![r] = "running"]
    /\ overlapped' = \/ overlapped
                     \/ r \in Generators /\ \E g \in Generators : outcome[g] = "running"
    /\ UNCHANGED <<files, at>>

Program(r) == IF r \in Generators THEN Generate ELSE Build

\* r makes this call.
Makes(r, call) == outcome[r] = "running" /\ Program(r)[at[r]][1] = call
Target(r) == Program(r)[at[r]][2]

End(r, how) == outcome' = [outcome EXCEPT ![r] = how] /\ UNCHANGED <<at, overlapped>>

Proceed(r) ==
    IF at[r] = Len(Program(r)) THEN End(r, "done")
    ELSE at' = [at EXCEPT ![r] = @ + 1] /\ UNCHANGED <<outcome, overlapped>>

Put(n, file) == files' = [files EXCEPT ![n] = file]

\* The script refuses to run if one of the files exists. (Slip: if all do.)
InTheWayAll(names) == \A n \in names : Exists(n)
InTheWay(names) == \E n \in names : Exists(n)

Refuse(r) ==
    /\ Makes(r, "refuse")
    /\ IF InTheWay(Target(r)) THEN End(r, "refused") ELSE Proceed(r)
    /\ UNCHANGED files

Mkdir(r) ==
    /\ Makes(r, "mkdir")
    /\ IF Exists("dir") THEN UNCHANGED files ELSE Put("dir", [None EXCEPT !.by = r])
    /\ Proceed(r)

Chmod(r) ==
    /\ Makes(r, "chmod")
    /\ Put(Target(r), [files[Target(r)] EXCEPT !.private = TRUE])
    /\ Proceed(r)

\* Files opened with "x": open fails if they exist, where it empties the
\* others. (Slip: .env is opened with "w".)
ExclusiveArchive == {"archive"}
Exclusive == {"env", "archive"}

Open(r) ==
    /\ Makes(r, "open")
    /\ IF Target(r) \in Exclusive /\ Exists(Target(r))
       THEN End(r, "failed") /\ UNCHANGED files
       ELSE /\ Put(Target(r), [files[Target(r)] EXCEPT !.by = r, !.content = {}])
            /\ Proceed(r)

Write(r) ==
    /\ Makes(r, "write")
    /\ Put(Target(r), [files[Target(r)] EXCEPT !.by = r, !.content = {"text"}])
    /\ Proceed(r)

\* One entry of the archive, in no order that matters.
Pack(r) ==
    /\ Makes(r, "pack")
    /\ \E source \in Sources \ files["archive"].content :
          Put("archive", [files["archive"] EXCEPT !.content = @ \cup {source}])
    /\ IF Sources \subseteq files'["archive"].content THEN Proceed(r)
       ELSE UNCHANGED <<outcome, at, overlapped>>

\* Leaving the with statement, by its end or by an exception, writes the
\* directory: what has been packed so far becomes an archive. (Slip: also if an
\* exception comes before.)
PackingAny(r) == r \in Builders
Packing(r) == Makes(r, "pack") \/ Makes(r, "close")
WriteDirectory ==
    Put("archive", [files["archive"] EXCEPT !.content = @ \cup {"directory"}])

Close(r) == Makes(r, "close") /\ WriteDirectory /\ Proceed(r)

Read(r) == Makes(r, "read") /\ Proceed(r) /\ UNCHANGED files

\* An exception: no space left, a source that is too large, a link. (Slip: one
\* while a file is written is passed over.)
GiveUpLate(r) == IF Makes(r, "pack") \/ Makes(r, "write") THEN Proceed(r) ELSE End(r, "failed")
GiveUp(r) == End(r, "failed")

Fail(r) ==
    /\ outcome[r] = "running"
    /\ IF Packing(r) THEN WriteDirectory ELSE UNCHANGED files
    /\ GiveUp(r)

Kill(r) == outcome[r] = "running" /\ End(r, "killed") /\ UNCHANGED files

Next ==
    \E r \in Runs :
        \/ Start(r) \/ Refuse(r) \/ Mkdir(r) \/ Chmod(r) \/ Open(r) \/ Write(r)
        \/ Pack(r) \/ Close(r) \/ Read(r) \/ Fail(r) \/ Kill(r)

Spec == Init /\ [][Next]_vars

-----------------------------------------------------------------------------
(* What must hold.                                                         *)

\* No sequence of runs, cut off anywhere, overwrites or empties a file that
\* exists: not the user's, nor what an earlier run left. Generators that overlap
\* may overwrite each other's key and certificate, but never a .env.
NeverOverwritten ==
    [][\A n \in Names \ {"dir"} :
        /\ Exists(n)
        /\ n \in {"key", "cert"} => ~overlapped
        => /\ files'[n].by = files[n].by
           /\ files[n].content \subseteq files'[n].content]_vars

\* Key, certificate and .env come from one run: a run that follows one that was
\* cut off does not complete its files with others.
FromOneRun ==
    ~overlapped =>
        \A m, n \in Secrets : files[m].by \in Generators /\ Exists(n)
                                 => files[n].by = files[m].by

\* .env is made last: a run that was cut off leaves no .env that lacks its key
\* and certificate.
EnvIsLast ==
    ~overlapped /\ files["env"].by \in Generators =>
        \A n \in {"key", "cert"} : files[n].content = Whole(n)

\* Nobody else can read a secret at any time, not even one left by a run that
\* was cut off: .env and the key are private, or the key's directory is.
SecretsPrivate ==
    \A n \in {"env", "key"} :
        files[n].by \in Generators /\ files[n].content # {} =>
            \/ files[n].private
            \/ n = "key" /\ files["dir"].private

\* Whatever is left of a run, its secrets are private and belong together.
SecretsSafe == FromOneRun /\ EnvIsLast /\ SecretsPrivate

\* The archive that a build reports is its own and complete, whatever earlier
\* or overlapping builds left behind.
ReportedWhole ==
    \A b \in Builders : outcome[b] = "done" =>
        files["archive"].by = b /\ files["archive"].content = Whole("archive")
=============================================================================
