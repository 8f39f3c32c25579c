----------------------------- MODULE ScriptsProofs -----------------------------
(***************************************************************************)
(* Theorems about Scripts, for any number of runs of both scripts, started *)
(* in any order, overlapping or not and cut off anywhere, and any files    *)
(* that the user may have had.                                             *)
(***************************************************************************)
EXTENDS Scripts, TLAPS

File == [by : Runs \cup {"nobody", "user"},
         content : SUBSET (Sources \cup {"directory", "text"}),
         private : BOOLEAN]

-----------------------------------------------------------------------------
(* The calls, by number.                                                   *)

\* The calls of generate_demo_secrets.py.
LEMMA GenerateCalls ==
    /\ Len(Generate) = 12
    /\ Generate[1] = <<"refuse", {"env"}>>
    /\ Generate[2] = <<"refuse", {"key", "cert"}>>
    /\ Generate[3] = <<"mkdir", "dir">>
    /\ Generate[4] = <<"chmod", "dir">>
    /\ Generate[5] = <<"open", "key">>
    /\ Generate[6] = <<"write", "key">>
    /\ Generate[7] = <<"chmod", "key">>
    /\ Generate[8] = <<"open", "cert">>
    /\ Generate[9] = <<"write", "cert">>
    /\ Generate[10] = <<"open", "env">>
    /\ Generate[11] = <<"chmod", "env">>
    /\ Generate[12] = <<"write", "env">>
BY DEF Generate

\* The calls of build_release.py.
LEMMA BuildCalls ==
    /\ Len(Build) = 5
    /\ Build[1] = <<"read", "sources">>
    /\ Build[2] = <<"open", "archive">>
    /\ Build[3] = <<"pack", "archive">>
    /\ Build[4] = <<"close", "archive">>
    /\ Build[5] = <<"read", "archive">>
BY DEF Build

-----------------------------------------------------------------------------
(* The inductive invariant.                                                *)

\* Where the runs are: one that has not begun is at its first call, one that is
\* done at its last.
PositionInv ==
    /\ \A r \in Runs : outcome[r] = "waiting" => at[r] = 1
    /\ \A b \in Builders : at[b] <= 5 /\ (outcome[b] = "done" => at[b] = 5)

\* What a generator leaves behind it, whatever else runs: the directory and the
\* key exist from their calls on, .env is its own once it has opened it, and
\* what it has made private stays so.
GeneratorKnown(g) ==
    /\ at[g] >= 4 => Exists("dir")
    /\ at[g] >= 5 => files["dir"].private
    /\ at[g] >= 6 => Exists("key")
    /\ at[g] >= 11 => files["env"].by = g
    /\ at[g] >= 12 => files["env"].private

\* An archive is of the builder that opened it, and complete after the close.
BuilderKnown(b) ==
    /\ at[b] >= 3 => files["archive"].by = b
    /\ at[b] >= 4 => Sources \subseteq files["archive"].content
    /\ at[b] >= 5 => "directory" \in files["archive"].content

FilesInv ==
    /\ \A g \in Generators : GeneratorKnown(g)
    /\ \A b \in Builders : BuilderKnown(b)
    /\ \A n \in Names : ~Exists(n) => ~files[n].private

\* What a generator that runs alone knows of the secrets: those before its step
\* are its own and whole, those after it do not exist.
AloneKnown(g) ==
    /\ at[g] \in 2 .. 10 => ~Exists("env")
    /\ at[g] \in 3 .. 5 => ~Exists("key")
    /\ at[g] >= 6 => files["key"].by = g
    /\ at[g] >= 7 => files["key"].content = {"text"}
    /\ at[g] \in 3 .. 8 => ~Exists("cert")
    /\ at[g] >= 9 => files["cert"].by = g
    /\ at[g] >= 10 => files["cert"].content = {"text"}

Alone(g) == \A h \in Generators : outcome[h] = "running" => h = g

AloneInv ==
    ~overlapped => \A g \in Generators :
                       outcome[g] = "running" => Alone(g) /\ AloneKnown(g)

IInv == /\ TypeOK /\ PositionInv /\ FilesInv /\ SecretsPrivate
        /\ AloneInv /\ FromOneRun /\ EnvIsLast

\* The initial state satisfies it.
LEMMA IInvInit == Init => IInv
<1>. SUFFICES ASSUME Init PROVE IInv
  OBVIOUS
<1>1. PICK own \in SUBSET Names :
        files = [n \in Names |-> IF n \notin own THEN None
                   ELSE [by |-> "user", content |-> Whole(n), private |-> FALSE]]
  BY DEF Init
<1>2. \A n \in Names : Whole(n) \subseteq Sources \cup {"directory", "text"}
  BY DEF Whole
<1>3. files \in [Names -> File]
  BY <1>1, <1>2 DEF File, None
<1>4. \A n \in Names :
        /\ files[n].by \in {"nobody", "user"}
        /\ ~files[n].private
        /\ files[n].content = IF Exists(n) THEN Whole(n) ELSE {}
  BY <1>1 DEF None, Exists
<1>5. TypeOK
  <2>1. /\ outcome = [r \in Runs |-> "waiting"]
        /\ at = [r \in Runs |-> 1] /\ overlapped = FALSE
    BY DEF Init
  <2>2. outcome \in [Runs -> {"waiting", "running", "refused", "failed",
                             "killed", "done"}]
    BY <2>1
  <2>3. at \in [Runs -> 1 .. 12]
    BY <2>1
  <2>4. overlapped \in BOOLEAN
    BY <2>1
  <2>. QED
    BY <1>3, <1>4, <2>2, <2>3, <2>4 DEF TypeOK, File
<1>6. PositionInv
  BY DEF Init, PositionInv, Runs
<1>7. \A r \in Generators \cup Builders : at[r] = 1 /\ outcome[r] = "waiting"
  BY DEF Init, Runs
<1>8. FilesInv
  BY <1>4, <1>7 DEF FilesInv, GeneratorKnown, BuilderKnown
<1>9. AloneInv
  BY <1>7 DEF AloneInv
<1>10. \A n \in Secrets : files[n].by \notin Generators
  BY <1>4, RunsAssumption DEF Runs, Names, Secrets
<1>11. SecretsPrivate /\ FromOneRun /\ EnvIsLast
  BY <1>10 DEF SecretsPrivate, FromOneRun, EnvIsLast, Secrets
<1>. QED
  BY <1>5, <1>6, <1>8, <1>9, <1>11 DEF IInv

-----------------------------------------------------------------------------
(* What a step does, by the number of the call.                            *)

\* The calls that a generator makes, with their targets.
LEMMA GeneratorMakes ==
    ASSUME TypeOK, NEW g \in Generators
    PROVE  /\ Makes(g, "refuse") => \/ at[g] = 1 /\ Target(g) = {"env"}
                                    \/ at[g] = 2 /\ Target(g) = {"key", "cert"}
           /\ Makes(g, "mkdir") => at[g] = 3
           /\ Makes(g, "chmod") => \/ at[g] = 4 /\ Target(g) = "dir"
                                   \/ at[g] = 7 /\ Target(g) = "key"
                                   \/ at[g] = 11 /\ Target(g) = "env"
           /\ Makes(g, "open") => \/ at[g] = 5 /\ Target(g) = "key"
                                  \/ at[g] = 8 /\ Target(g) = "cert"
                                  \/ at[g] = 10 /\ Target(g) = "env"
           /\ Makes(g, "write") => \/ at[g] = 6 /\ Target(g) = "key"
                                   \/ at[g] = 9 /\ Target(g) = "cert"
                                   \/ at[g] = 12 /\ Target(g) = "env"
           /\ ~Makes(g, "pack") /\ ~Makes(g, "close") /\ ~Makes(g, "read")
<1>1. at[g] \in 1 .. 12 /\ Program(g) = Generate
  BY DEF TypeOK, Runs, Program
<1>2. \/ at[g] = 1 \/ at[g] = 2 \/ at[g] = 3 \/ at[g] = 4 \/ at[g] = 5
      \/ at[g] = 6 \/ at[g] = 7 \/ at[g] = 8 \/ at[g] = 9 \/ at[g] = 10
      \/ at[g] = 11 \/ at[g] = 12
  BY <1>1
<1>. QED
  BY <1>1, <1>2, GenerateCalls DEF Makes, Target

\* The calls that a builder makes.
LEMMA BuilderMakes ==
    ASSUME TypeOK, PositionInv, NEW b \in Builders
    PROVE  /\ Makes(b, "read") => at[b] \in {1, 5}
           /\ Makes(b, "open") => at[b] = 2 /\ Target(b) = "archive"
           /\ Makes(b, "pack") => at[b] = 3
           /\ Makes(b, "close") => at[b] = 4
           /\ ~Makes(b, "refuse") /\ ~Makes(b, "mkdir") /\ ~Makes(b, "chmod")
           /\ ~Makes(b, "write")
<1>1. at[b] \in 1 .. 5 /\ Program(b) = Build
  BY RunsAssumption DEF TypeOK, PositionInv, Runs, Program
<1>2. at[b] = 1 \/ at[b] = 2 \/ at[b] = 3 \/ at[b] = 4 \/ at[b] = 5
  BY <1>1
<1>. QED
  BY <1>1, <1>2, BuildCalls DEF Makes, Target

\* The file n becomes one with these fields; the others stay.
Becomes(n, by, content, private) ==
    /\ files' \in [Names -> File]
    /\ files'[n].by = by /\ files'[n].content = content
    /\ files'[n].private <=> private
    /\ \A m \in Names \ {n} : files'[m] = files[m]

\* The edits that the calls make to a file.
LEMMA Edits ==
    ASSUME TypeOK, NEW n \in Names
    PROVE  /\ Put(n, [files[n] EXCEPT !.private = TRUE])
                  => Becomes(n, files[n].by, files[n].content, TRUE)
           /\ \A r \in Runs, c \in SUBSET {"text"} :
                  Put(n, [files[n] EXCEPT !.by = r, !.content = c])
                      => Becomes(n, r, c, files[n].private)
           /\ \A c \in SUBSET (Sources \cup {"directory"}) :
                  Put(n, [files[n] EXCEPT !.content = @ \cup c])
                      => Becomes(n, files[n].by, files[n].content \cup c,
                                 files[n].private)
           /\ \A r \in Runs : Put(n, [None EXCEPT !.by = r])
                                  => Becomes(n, r, {}, FALSE)
<1>0. files \in [Names -> File] /\ files[n] \in File
  BY DEF TypeOK, File
<1>1. ASSUME Put(n, [files[n] EXCEPT !.private = TRUE])
      PROVE  Becomes(n, files[n].by, files[n].content, TRUE)
  BY <1>0, <1>1 DEF Put, Becomes, File
<1>2. ASSUME NEW r \in Runs, NEW c \in SUBSET {"text"},
             Put(n, [files[n] EXCEPT !.by = r, !.content = c])
      PROVE  Becomes(n, r, c, files[n].private)
  BY <1>0, <1>2 DEF Put, Becomes, File
<1>3. ASSUME NEW c \in SUBSET (Sources \cup {"directory"}),
             Put(n, [files[n] EXCEPT !.content = @ \cup c])
      PROVE  Becomes(n, files[n].by, files[n].content \cup c, files[n].private)
  BY <1>0, <1>3 DEF Put, Becomes, File
<1>4. ASSUME NEW r \in Runs, Put(n, [None EXCEPT !.by = r])
      PROVE  Becomes(n, r, {}, FALSE)
  BY <1>0, <1>4 DEF Put, Becomes, File, None
<1>. QED
  BY <1>1, <1>2, <1>3, <1>4

\* A run ends early and leaves the files as they are.
Stops(r) ==
    /\ outcome[r] = "running" /\ UNCHANGED files
    /\ \E how \in {"refused", "failed", "killed"} : End(r, how)

\* What a call of a generator makes of the files.
GeneratorCall(g) ==
    \/ at[g] = 1 /\ ~Exists("env") /\ UNCHANGED files
    \/ at[g] = 2 /\ ~Exists("key") /\ ~Exists("cert") /\ UNCHANGED files
    \/ at[g] = 3 /\ Exists("dir") /\ UNCHANGED files
    \/ at[g] = 3 /\ ~Exists("dir") /\ Becomes("dir", g, {}, FALSE)
    \/ \E n \in {"dir", "key", "env"} :
          /\ at[g] = CASE n = "dir" -> 4 [] n = "key" -> 7 [] n = "env" -> 11
          /\ Becomes(n, files[n].by, files[n].content, TRUE)
    \/ \E n \in Secrets :
          /\ at[g] = CASE n = "key" -> 5 [] n = "cert" -> 8 [] n = "env" -> 10
          /\ n = "env" => ~Exists("env")
          /\ Becomes(n, g, {}, files[n].private)
    \/ \E n \in Secrets :
          /\ at[g] = CASE n = "key" -> 6 [] n = "cert" -> 9 [] n = "env" -> 12
          /\ Becomes(n, g, {"text"}, files[n].private)

\* The edits of a generator: it makes the directory, makes a file private, or
\* gives one this content.
MakesDir(g) == Becomes("dir", g, {}, FALSE)
Hides(n) == Becomes(n, files[n].by, files[n].content, TRUE)
Gets(n, g, content) == Becomes(n, g, content, files[n].private)

\* The calls of a generator, number by number.
LEMMA CallAt ==
    ASSUME NEW g \in Generators, GeneratorCall(g)
    PROVE  /\ at[g] = 1 => ~Exists("env") /\ UNCHANGED files
           /\ at[g] = 2 => ~Exists("key") /\ ~Exists("cert") /\ UNCHANGED files
           /\ at[g] = 3 => \/ Exists("dir") /\ UNCHANGED files
                          \/ MakesDir(g)
           /\ at[g] = 4 => Hides("dir")
           /\ at[g] = 5 => Gets("key", g, {})
           /\ at[g] = 6 => Gets("key", g, {"text"})
           /\ at[g] = 7 => Hides("key")
           /\ at[g] = 8 => Gets("cert", g, {})
           /\ at[g] = 9 => Gets("cert", g, {"text"})
           /\ at[g] = 10 => Gets("env", g, {})
           /\ at[g] = 11 => Hides("env")
           /\ at[g] = 12 => Gets("env", g, {"text"})
           /\ at[g] \in 1 .. 12
<1>1. ASSUME NEW n \in {"dir", "key", "env"},
             at[g] = CASE n = "dir" -> 4 [] n = "key" -> 7 [] n = "env" -> 11
      PROVE  \/ n = "dir" /\ at[g] = 4
             \/ n = "key" /\ at[g] = 7
             \/ n = "env" /\ at[g] = 11
  BY <1>1
<1>2. ASSUME NEW n \in Secrets,
             at[g] = CASE n = "key" -> 5 [] n = "cert" -> 8 [] n = "env" -> 10
      PROVE  \/ n = "key" /\ at[g] = 5
             \/ n = "cert" /\ at[g] = 8
             \/ n = "env" /\ at[g] = 10
  BY <1>2 DEF Secrets
<1>3. ASSUME NEW n \in Secrets,
             at[g] = CASE n = "key" -> 6 [] n = "cert" -> 9 [] n = "env" -> 12
      PROVE  \/ n = "key" /\ at[g] = 6
             \/ n = "cert" /\ at[g] = 9
             \/ n = "env" /\ at[g] = 12
  BY <1>3 DEF Secrets
<1>4. \/ at[g] = 1 /\ ~Exists("env") /\ UNCHANGED files
      \/ at[g] = 2 /\ ~Exists("key") /\ ~Exists("cert") /\ UNCHANGED files
      \/ at[g] = 3 /\ Exists("dir") /\ UNCHANGED files
      \/ at[g] = 3 /\ MakesDir(g)
      \/ \E n \in {"dir", "key", "env"} :
            /\ \/ n = "dir" /\ at[g] = 4
               \/ n = "key" /\ at[g] = 7
               \/ n = "env" /\ at[g] = 11
            /\ Hides(n)
      \/ \E n \in Secrets :
            /\ \/ n = "key" /\ at[g] = 5
               \/ n = "cert" /\ at[g] = 8
               \/ n = "env" /\ at[g] = 10
            /\ Gets(n, g, {})
      \/ \E n \in Secrets :
            /\ \/ n = "key" /\ at[g] = 6
               \/ n = "cert" /\ at[g] = 9
               \/ n = "env" /\ at[g] = 12
            /\ Gets(n, g, {"text"})
  BY <1>1, <1>2, <1>3 DEF GeneratorCall, MakesDir, Hides, Gets
<1>5. \/ at[g] \in {1, 2, 3}
      \/ at[g] = 4 /\ Hides("dir")
      \/ at[g] = 7 /\ Hides("key")
      \/ at[g] = 11 /\ Hides("env")
      \/ at[g] = 5 /\ Gets("key", g, {})
      \/ at[g] = 8 /\ Gets("cert", g, {})
      \/ at[g] = 10 /\ Gets("env", g, {})
      \/ at[g] = 6 /\ Gets("key", g, {"text"})
      \/ at[g] = 9 /\ Gets("cert", g, {"text"})
      \/ at[g] = 12 /\ Gets("env", g, {"text"})
  BY <1>4
<1>6. at[g] \in 1 .. 12
  BY <1>5
<1>7. /\ at[g] = 1 => ~Exists("env") /\ UNCHANGED files
      /\ at[g] = 2 => ~Exists("key") /\ ~Exists("cert") /\ UNCHANGED files
      /\ at[g] = 3 => \/ Exists("dir") /\ UNCHANGED files
                     \/ MakesDir(g)
  BY <1>4
<1>. QED
  BY <1>5, <1>6, <1>7

\* A step of a generator stops it or makes its call.
LEMMA GeneratorStep ==
    ASSUME TypeOK, NEW g \in Generators,
           \/ Refuse(g) \/ Mkdir(g) \/ Chmod(g) \/ Open(g) \/ Write(g)
           \/ Pack(g) \/ Close(g) \/ Read(g) \/ Fail(g) \/ Kill(g)
    PROVE  Stops(g) \/ (outcome[g] = "running" /\ GeneratorCall(g) /\ Proceed(g))
<1>. USE GeneratorMakes
<1>0. g \in Runs /\ "dir" \in Names /\ Secrets \subseteq Names
  BY DEF Runs, Names
<1>1. CASE Refuse(g)
  BY <1>1 DEF Refuse, InTheWay, Makes, Stops, GeneratorCall
<1>2. CASE Mkdir(g)
  BY <1>0, <1>2, Edits DEF Mkdir, Makes, GeneratorCall
<1>3. CASE Chmod(g)
  <2>1. PICK n \in {"dir", "key", "env"} :
          /\ Target(g) = n
          /\ at[g] = CASE n = "dir" -> 4 [] n = "key" -> 7 [] n = "env" -> 11
    BY <1>3 DEF Chmod
  <2>2. Becomes(n, files[n].by, files[n].content, TRUE)
    BY <1>0, <1>3, <2>1, Edits DEF Chmod, Secrets
  <2>. QED
    BY <1>3, <2>1, <2>2 DEF Chmod, Makes, GeneratorCall
<1>4. CASE Open(g)
  <2>1. PICK n \in Secrets :
          /\ Target(g) = n
          /\ at[g] = CASE n = "key" -> 5 [] n = "cert" -> 8 [] n = "env" -> 10
    BY <1>4 DEF Open, Secrets
  <2>2. CASE Target(g) \in Exclusive /\ Exists(Target(g))
    BY <1>4, <2>2 DEF Open, Makes, Stops
  <2>3. CASE ~(Target(g) \in Exclusive /\ Exists(Target(g)))
    <3>1. n = "env" => ~Exists("env")
      BY <2>1, <2>3 DEF Exclusive
    <3>2. Becomes(n, g, {}, files[n].private)
      BY <1>0, <1>4, <2>1, <2>3, Edits DEF Open
    <3>. QED
      BY <1>4, <2>1, <2>3, <3>1, <3>2 DEF Open, Makes, GeneratorCall
  <2>. QED
    BY <2>2, <2>3
<1>5. CASE Write(g)
  <2>1. PICK n \in Secrets :
          /\ Target(g) = n
          /\ at[g] = CASE n = "key" -> 6 [] n = "cert" -> 9 [] n = "env" -> 12
    BY <1>5 DEF Write, Secrets
  <2>2. Becomes(n, g, {"text"}, files[n].private)
    BY <1>0, <1>5, <2>1, Edits DEF Write
  <2>. QED
    BY <1>5, <2>1, <2>2 DEF Write, Makes, GeneratorCall
<1>6. CASE Pack(g) \/ Close(g) \/ Read(g)
  BY <1>6 DEF Pack, Close, Read
<1>7. CASE Fail(g) \/ Kill(g)
  BY <1>7 DEF Fail, Kill, Packing, GiveUp, Stops
<1>. QED
  BY <1>1, <1>2, <1>3, <1>4, <1>5, <1>6, <1>7

\* The archive gets content; who made it and its mode stay.
Fills(c) ==
    Becomes("archive", files["archive"].by, files["archive"].content \cup c,
            files["archive"].private)

\* What a call of a builder makes of the files.
BuilderCall(b) ==
    \/ at[b] \in {1, 5} /\ UNCHANGED files /\ Proceed(b)
    \/ /\ at[b] = 2 /\ ~Exists("archive") /\ Proceed(b)
       /\ Becomes("archive", b, {}, files["archive"].private)
    \/ /\ at[b] = 3 /\ \E source \in Sources : Fills({source})
       /\ \/ Sources \subseteq files'["archive"].content /\ Proceed(b)
          \/ UNCHANGED <<outcome, at, overlapped>>
    \/ at[b] = 4 /\ Fills({"directory"}) /\ Proceed(b)
    \/ at[b] \in {3, 4} /\ Fills({"directory"}) /\ End(b, "failed")

\* A step of a builder stops it or makes its call; failing inside the with
\* statement closes the archive.
LEMMA BuilderStep ==
    ASSUME TypeOK, PositionInv, NEW b \in Builders,
           \/ Refuse(b) \/ Mkdir(b) \/ Chmod(b) \/ Open(b) \/ Write(b)
           \/ Pack(b) \/ Close(b) \/ Read(b) \/ Fail(b) \/ Kill(b)
    PROVE  Stops(b) \/ (outcome[b] = "running" /\ BuilderCall(b))
<1>. USE BuilderMakes
<1>0. b \in Runs /\ "archive" \in Names
  BY DEF Runs, Names
<1>1. CASE Refuse(b) \/ Mkdir(b) \/ Chmod(b) \/ Write(b)
  BY <1>1 DEF Refuse, Mkdir, Chmod, Write
<1>2. CASE Open(b)
  <2>1. at[b] = 2 /\ Target(b) = "archive" /\ outcome[b] = "running"
    BY <1>2 DEF Open, Makes
  <2>2. CASE Exists("archive")
    BY <1>2, <2>1, <2>2 DEF Open, Exclusive, Stops
  <2>3. CASE ~Exists("archive")
    <3>1. /\ Put("archive", [files["archive"] EXCEPT !.by = b, !.content = {}])
          /\ Proceed(b)
      BY <1>2, <2>1, <2>3 DEF Open
    <3>2. Becomes("archive", b, {}, files["archive"].private)
      BY <1>0, <3>1, Edits
    <3>. QED
      BY <2>1, <2>3, <3>1, <3>2 DEF BuilderCall
  <2>. QED
    BY <2>2, <2>3
<1>3. \A c \in SUBSET (Sources \cup {"directory"}) :
        Put("archive", [files["archive"] EXCEPT !.content = @ \cup c])
            => Fills(c)
  BY <1>0, Edits DEF Fills
<1>4. CASE Pack(b)
  <2>1. PICK source \in Sources \ files["archive"].content :
          Put("archive", [files["archive"] EXCEPT !.content = @ \cup {source}])
    BY <1>4 DEF Pack
  <2>2. Fills({source})
    BY <1>3, <2>1
  <2>. QED
    BY <1>4, <2>2 DEF Pack, Makes, BuilderCall
<1>5. WriteDirectory => Fills({"directory"})
  BY <1>3 DEF WriteDirectory
<1>6. CASE Close(b) \/ Read(b)
  BY <1>5, <1>6 DEF Close, Read, Makes, BuilderCall
<1>7. CASE Fail(b) \/ Kill(b)
  BY <1>5, <1>7 DEF Fail, Kill, Packing, GiveUp, Stops, BuilderCall
<1>. QED
  BY <1>1, <1>2, <1>4, <1>6, <1>7

\* The number of the last call of a run.
Last(r) == IF r \in Generators THEN 12 ELSE 5

\* A run is never past its last call.
LEMMA LastBounds ==
    ASSUME TypeOK, PositionInv, NEW r \in Runs
    PROVE  Last(r) \in {5, 12} /\ at[r] \in 1 .. Last(r)
<1>1. at[r] \in 1 .. 12
  BY DEF TypeOK
<1>2. r \notin Generators => at[r] <= 5
  BY DEF PositionInv, Runs
<1>. QED
  BY <1>1, <1>2 DEF Last

\* Going on: to the next call, or to the end after the last one.
LEMMA ProceedStep ==
    ASSUME TypeOK, PositionInv, NEW r \in Runs, outcome[r] = "running",
           Proceed(r)
    PROVE  /\ overlapped' = overlapped
           /\ outcome' \in [Runs -> {"waiting", "running", "refused", "failed",
                                     "killed", "done"}]
           /\ at' \in [Runs -> 1 .. 12]
           /\ \A q \in Runs \ {r} : outcome'[q] = outcome[q] /\ at'[q] = at[q]
           /\ at'[r] = IF at[r] = Last(r) THEN at[r] ELSE at[r] + 1
           /\ outcome'[r] = IF at[r] = Last(r) THEN "done" ELSE "running"
<1>1. Len(Program(r)) = Last(r) /\ at[r] \in 1 .. Last(r)
  <2>1. Len(Program(r)) = Last(r)
    BY GenerateCalls, BuildCalls DEF Last, Program
  <2>. QED
    BY <2>1, LastBounds
<1>2. CASE at[r] = Last(r)
  BY <1>1, <1>2 DEF Proceed, End, TypeOK
<1>3. CASE at[r] # Last(r)
  <2>1. at' = [at EXCEPT ![r] = at[r] + 1] /\ UNCHANGED <<outcome, overlapped>>
    BY <1>1, <1>3 DEF Proceed
  <2>2. at[r] + 1 \in 1 .. 12
    BY <1>1, <1>3 DEF Last
  <2>3. /\ at' \in [Runs -> 1 .. 12] /\ at'[r] = at[r] + 1
        /\ \A q \in Runs \ {r} : at'[q] = at[q]
    BY <2>1, <2>2 DEF TypeOK
  <2>. QED
    BY <1>3, <2>1, <2>3 DEF TypeOK
<1>. QED
  BY <1>2, <1>3

\* Ending early.
LEMMA EndStep ==
    ASSUME TypeOK, NEW r \in Runs, NEW how \in {"refused", "failed", "killed"},
           End(r, how)
    PROVE  /\ overlapped' = overlapped /\ at' = at
           /\ outcome' \in [Runs -> {"waiting", "running", "refused", "failed",
                                     "killed", "done"}]
           /\ \A q \in Runs \ {r} : outcome'[q] = outcome[q]
           /\ outcome'[r] = how
BY DEF End, TypeOK

\* The steps of a run that is under way.
RunStep(r) ==
    \/ Stops(r)
    \/ outcome[r] = "running" /\ r \in Generators /\ GeneratorCall(r) /\ Proceed(r)
    \/ outcome[r] = "running" /\ r \in Builders /\ BuilderCall(r)

\* There are no others, but for starting.
LEMMA NextCases ==
    ASSUME TypeOK, PositionInv, Next
    PROVE  \E r \in Runs : Start(r) \/ RunStep(r)
BY GeneratorStep, BuilderStep DEF Next, RunStep, Runs

\* A run under way changes what belongs to it, and goes on or ends.
LEMMA RunMoves ==
    ASSUME TypeOK, PositionInv, NEW r \in Runs, RunStep(r)
    PROVE  /\ overlapped' = overlapped /\ outcome[r] = "running"
           /\ outcome' \in [Runs -> {"waiting", "running", "refused", "failed",
                                     "killed", "done"}]
           /\ at' \in [Runs -> 1 .. 12]
           /\ \A q \in Runs \ {r} : outcome'[q] = outcome[q] /\ at'[q] = at[q]
           /\ outcome'[r] # "waiting"
           /\ at'[r] \in {at[r], at[r] + 1} /\ at'[r] <= Last(r)
           /\ outcome'[r] = "done" => at'[r] = Last(r)
<1>1. at[r] \in 1 .. Last(r) /\ Last(r) \in {5, 12} /\ at \in [Runs -> 1 .. 12]
  BY LastBounds DEF TypeOK
<1>2. ASSUME NEW how \in {"refused", "failed", "killed"}, End(r, how),
             outcome[r] = "running"
      PROVE  /\ overlapped' = overlapped /\ at' = at
             /\ outcome' \in [Runs -> {"waiting", "running", "refused", "failed",
                                       "killed", "done"}]
             /\ \A q \in Runs \ {r} : outcome'[q] = outcome[q]
             /\ outcome'[r] \notin {"waiting", "done"}
  BY <1>2, EndStep
<1>3. CASE outcome[r] = "running" /\ Proceed(r)
  BY <1>1, <1>3, ProceedStep DEF Last
<1>4. CASE outcome[r] = "running" /\ UNCHANGED <<outcome, at, overlapped>>
  BY <1>1, <1>4 DEF TypeOK
<1>5. CASE /\ outcome[r] = "running"
           /\ \E how \in {"refused", "failed", "killed"} : End(r, how)
  BY <1>1, <1>2, <1>5
<1>. QED
  BY <1>3, <1>4, <1>5 DEF RunStep, Stops, BuilderCall

-----------------------------------------------------------------------------
(* What every step keeps, whatever runs meanwhile.                         *)

\* The edits that a run makes, with what it knows of the file it edits.
FileEdit(r) ==
    \/ UNCHANGED files
    \/ ~Exists("dir") /\ Becomes("dir", r, {}, FALSE)
    \/ \E n \in {"dir", "key", "env"} :
          Exists(n) /\ Becomes(n, files[n].by, files[n].content, TRUE)
    \/ \E n \in Secrets, c \in {{}, {"text"}} :
          /\ n = "env" => ~Exists("env") \/ files["env"].by = r
          /\ c # {} => /\ n = "env" => files["env"].private
                       /\ n = "key" => files["dir"].private
                       /\ n = "env" => files["env"].by = r
          /\ c = {} /\ n = "env" => ~Exists("env")
          /\ Becomes(n, r, c, files[n].private)
    \/ ~Exists("archive") /\ Becomes("archive", r, {}, files["archive"].private)
    \/ /\ files["archive"].by = r
       /\ \E c \in SUBSET (Sources \cup {"directory"}) : Fills(c)

\* A step of a run is one of them.
LEMMA EditStep ==
    ASSUME TypeOK, FilesInv, NEW r \in Runs, RunStep(r)
    PROVE  FileEdit(r)
<1>1. CASE Stops(r)
  BY <1>1 DEF Stops, FileEdit
<1>2. CASE r \in Generators /\ GeneratorCall(r)
  <2>1. GeneratorKnown(r) /\ r # "nobody"
    BY <1>2, RunsAssumption DEF FilesInv, Runs
  <2>2. ASSUME NEW n \in {"dir", "key", "env"},
               at[r] = CASE n = "dir" -> 4 [] n = "key" -> 7 [] n = "env" -> 11,
               Becomes(n, files[n].by, files[n].content, TRUE)
        PROVE  FileEdit(r)
    <3>1. Exists(n)
      BY <2>1, <2>2 DEF GeneratorKnown, Exists
    <3>. QED
      BY <2>2, <3>1 DEF FileEdit
  <2>3. CASE \E n \in Secrets :
                /\ n = "env" => ~Exists("env")
                /\ Becomes(n, r, {}, files[n].private)
    BY <2>3 DEF FileEdit
  <2>4. ASSUME NEW n \in Secrets,
               at[r] = CASE n = "key" -> 6 [] n = "cert" -> 9 [] n = "env" -> 12,
               Becomes(n, r, {"text"}, files[n].private)
        PROVE  FileEdit(r)
    <3>1. /\ n = "env" => files["env"].private /\ files["env"].by = r
          /\ n = "key" => files["dir"].private
      BY <2>1, <2>4 DEF GeneratorKnown
    <3>. QED
      BY <2>4, <3>1 DEF FileEdit
  <2>. QED
    BY <1>2, <2>2, <2>3, <2>4 DEF GeneratorCall, FileEdit
<1>3. CASE r \in Builders /\ BuilderCall(r)
  <2>1. at[r] \in {3, 4} => files["archive"].by = r
    BY <1>3 DEF FilesInv, BuilderKnown
  <2>. QED
    BY <1>3, <2>1 DEF BuilderCall, FileEdit
<1>. QED
  BY <1>1, <1>2, <1>3 DEF RunStep

\* No edit removes a file, opens one to others, or takes .env or the archive
\* from the run that made it.
Keeps ==
    /\ \A n \in Names : /\ Exists(n) => Exists(n)'
                        /\ files[n].private => files'[n].private
                        /\ ~Exists(n)' => ~files'[n].private
    /\ \A n \in {"env", "archive"} :
          Exists(n) => /\ files'[n].by = files[n].by
                       /\ files[n].content \subseteq files'[n].content

\* Every edit of a run is such.
LEMMA EditKeeps ==
    ASSUME TypeOK, FilesInv, NEW r \in Runs, FileEdit(r)
    PROVE  Keeps
<1>1. r # "nobody" /\ \A n \in Names : ~Exists(n) => ~files[n].private
  BY RunsAssumption DEF FilesInv
<1>2. {"env", "archive", "dir", "key", "cert"} = Names /\ Secrets \subseteq Names
  BY DEF Names, Secrets
<1>3. files["env"].content \subseteq {"text"}
  BY <1>2 DEF TypeOK, Whole
<1>4. CASE UNCHANGED files
  BY <1>1, <1>4 DEF Keeps, Exists
<1>5. CASE ~Exists("dir") /\ Becomes("dir", r, {}, FALSE)
  BY <1>1, <1>2, <1>5 DEF Keeps, Exists, Becomes
<1>6. ASSUME NEW n \in {"dir", "key", "env"}, Exists(n),
             Becomes(n, files[n].by, files[n].content, TRUE)
      PROVE  Keeps
  BY <1>1, <1>2, <1>6 DEF Keeps, Exists, Becomes
<1>7. ASSUME NEW n \in Secrets, NEW c \in {{}, {"text"}},
             n = "env" => ~Exists("env") \/ files["env"].by = r,
             c # {} /\ n = "env" => files["env"].by = r,
             c = {} /\ n = "env" => ~Exists("env"),
             Becomes(n, r, c, files[n].private)
      PROVE  Keeps
  BY <1>1, <1>2, <1>3, <1>7 DEF Keeps, Exists, Becomes, Secrets
<1>8. CASE ~Exists("archive")
           /\ Becomes("archive", r, {}, files["archive"].private)
  BY <1>1, <1>2, <1>8 DEF Keeps, Exists, Becomes
<1>9. ASSUME files["archive"].by = r,
             NEW c \in SUBSET (Sources \cup {"directory"}), Fills(c)
      PROVE  Keeps
  BY <1>1, <1>2, <1>9 DEF Keeps, Exists, Becomes, Fills
<1>. QED
  BY <1>4, <1>5, <1>6, <1>7, <1>8, <1>9 DEF FileEdit

\* Edits keep the types of the files, and the secrets private.
LEMMA EditTypes ==
    ASSUME TypeOK, FilesInv, SecretsPrivate, NEW r \in Runs, FileEdit(r)
    PROVE  /\ files' \in [Names -> File]
           /\ \A n \in Names :
                 files'[n].content \subseteq IF Exists(n)' THEN Whole(n) ELSE {}
           /\ SecretsPrivate'
<1>. DEFINE Fits(n) ==
         files'[n].content \subseteq IF Exists(n)' THEN Whole(n) ELSE {}
<1>0. /\ files \in [Names -> File] /\ r # "nobody"
      /\ {"env", "archive", "dir", "key", "cert"} = Names
      /\ Secrets = {"env", "key", "cert"}
      /\ \A n \in Names :
            files[n].content \subseteq IF Exists(n) THEN Whole(n) ELSE {}
      /\ \A n \in Secrets : Whole(n) = {"text"}
      /\ Whole("archive") = Sources \cup {"directory"}
  BY RunsAssumption DEF TypeOK, File, Names, Secrets, Whole
<1>1. \A n \in Names : files'[n] = files[n] => Fits(n)
  BY <1>0 DEF Exists
<1>2. Keeps
  BY EditKeeps
<1>3. CASE UNCHANGED files
  BY <1>0, <1>1, <1>3 DEF SecretsPrivate
<1>4. CASE ~Exists("dir") /\ Becomes("dir", r, {}, FALSE)
  <2>1. ~files["dir"].private
    BY <1>0, <1>4 DEF FilesInv
  <2>. QED
    BY <1>0, <1>1, <1>4, <2>1 DEF SecretsPrivate, Becomes
<1>5. ASSUME NEW n \in {"dir", "key", "env"}, Exists(n),
             Becomes(n, files[n].by, files[n].content, TRUE)
      PROVE  files' \in [Names -> File] /\ (\A m \in Names : Fits(m))
             /\ SecretsPrivate'
  <2>1. files' \in [Names -> File] /\ Exists(n)'
    BY <1>5 DEF Becomes, Exists
  <2>2. \A m \in Names : Fits(m)
    BY <1>0, <1>1, <1>5, <2>1 DEF Becomes
  <2>3. SecretsPrivate'
    BY <1>0, <1>5 DEF Becomes, SecretsPrivate
  <2>. QED
    BY <2>1, <2>2, <2>3
<1>6. ASSUME NEW n \in Secrets, NEW c \in {{}, {"text"}},
             c # {} => /\ n = "env" => files["env"].private
                       /\ n = "key" => files["dir"].private,
             Becomes(n, r, c, files[n].private)
      PROVE  files' \in [Names -> File] /\ (\A m \in Names : Fits(m))
             /\ SecretsPrivate'
  <2>1. files' \in [Names -> File] /\ Exists(n)'
    BY <1>0, <1>6 DEF Becomes, Exists
  <2>2. \A m \in Names : Fits(m)
    BY <1>0, <1>1, <1>6, <2>1 DEF Becomes
  <2>3. SecretsPrivate'
    BY <1>0, <1>6 DEF Becomes, SecretsPrivate
  <2>. QED
    BY <2>1, <2>2, <2>3
<1>7. ASSUME NEW by \in Runs, by # "nobody",
             NEW c \in SUBSET (Sources \cup {"directory"}),
             Becomes("archive", by, c, files["archive"].private)
      PROVE  files' \in [Names -> File] /\ (\A m \in Names : Fits(m))
             /\ SecretsPrivate'
  <2>1. files' \in [Names -> File] /\ Exists("archive")'
    BY <1>7 DEF Becomes, Exists
  <2>2. \A m \in Names : Fits(m)
    BY <1>0, <1>1, <1>7, <2>1 DEF Becomes
  <2>3. SecretsPrivate'
    BY <1>0, <1>7 DEF Becomes, SecretsPrivate
  <2>. QED
    BY <2>1, <2>2, <2>3
<1>8. ASSUME files["archive"].by = r,
             NEW c \in SUBSET (Sources \cup {"directory"}), Fills(c)
      PROVE  files' \in [Names -> File] /\ (\A m \in Names : Fits(m))
             /\ SecretsPrivate'
  <2>1. files["archive"].content \subseteq Sources \cup {"directory"}
    BY <1>0
  <2>. QED
    BY <1>0, <1>7, <1>8, <2>1 DEF Fills
<1>9. CASE Becomes("archive", r, {}, files["archive"].private)
  BY <1>0, <1>7, <1>9
<1>. QED
  BY <1>3, <1>4, <1>5, <1>6, <1>8, <1>9 DEF FileEdit

-----------------------------------------------------------------------------
(* The parts of the invariant, step by step.                               *)

\* Starting a run leaves everything but its outcome.
LEMMA StartStep ==
    ASSUME TypeOK, NEW r \in Runs, Start(r)
    PROVE  /\ UNCHANGED <<files, at>> /\ outcome[r] = "waiting"
           /\ outcome' \in [Runs -> {"waiting", "running", "refused", "failed",
                                     "killed", "done"}]
           /\ \A q \in Runs \ {r} : outcome'[q] = outcome[q]
           /\ outcome'[r] = "running"
           /\ overlapped' \in BOOLEAN /\ (~overlapped' => ~overlapped)
           /\ ~overlapped' /\ r \in Generators =>
                  \A g \in Generators : outcome[g] # "running"
BY DEF Start, TypeOK

\* Types and private secrets.
LEMMA TypedNext ==
    ASSUME IInv, NEW r \in Runs, Start(r) \/ RunStep(r)
    PROVE  TypeOK' /\ SecretsPrivate' /\ Keeps
<1>. USE DEF IInv
<1>1. CASE Start(r)
  <2>1. Keeps
    BY <1>1, StartStep DEF FilesInv, Keeps, Exists
  <2>. QED
    BY <1>1, <2>1, StartStep DEF TypeOK, Exists, SecretsPrivate
<1>2. CASE RunStep(r)
  <2>1. FileEdit(r)
    BY <1>2, EditStep
  <2>. QED
    BY <1>2, <2>1, EditKeeps, EditTypes, RunMoves DEF TypeOK, File
<1>. QED
  BY <1>1, <1>2

\* Positions.
LEMMA PositionNext ==
    ASSUME IInv, NEW r \in Runs, Start(r) \/ RunStep(r)
    PROVE  PositionInv'
<1>. USE DEF IInv
<1>1. CASE Start(r)
  BY <1>1, StartStep DEF PositionInv, Runs
<1>2. CASE RunStep(r)
  <2>1. r \in Builders => Last(r) = 5
    BY RunsAssumption DEF Last
  <2>. QED
    BY <1>2, <2>1, RunMoves DEF PositionInv, Runs
<1>. QED
  BY <1>1, <1>2

\* What generators and builders leave behind.
LEMMA FilesNext ==
    ASSUME IInv, NEW r \in Runs, Start(r) \/ RunStep(r)
    PROVE  FilesInv'
<1>. USE DEF IInv
<1>0. /\ Keeps /\ TypeOK'
      /\ {"env", "archive", "dir", "key", "cert"} = Names
      /\ \A q \in Runs : q # "nobody"
      /\ Generators \subseteq Runs /\ Builders \subseteq Runs
  BY TypedNext, RunsAssumption DEF Names, Secrets, Runs
<1>1. ASSUME NEW q \in Runs, at'[q] = at[q]
      PROVE  /\ q \in Generators => GeneratorKnown(q)'
             /\ q \in Builders => BuilderKnown(q)'
  <2>1. /\ q \in Generators => GeneratorKnown(q)
        /\ q \in Builders => BuilderKnown(q)
    BY DEF FilesInv
  <2>2. /\ Exists("dir") => Exists("dir")'
        /\ Exists("key") => Exists("key")'
        /\ files["dir"].private => files'["dir"].private
        /\ files["env"].private => files'["env"].private
        /\ files["env"].by = q => files'["env"].by = q
        /\ files["archive"].by = q =>
              /\ files'["archive"].by = q
              /\ files["archive"].content \subseteq files'["archive"].content
    BY <1>0 DEF Keeps, Exists
  <2>3. q \in Generators => GeneratorKnown(q)'
    BY <1>1, <2>1, <2>2 DEF GeneratorKnown
  <2>4. q \in Builders => BuilderKnown(q)'
    <3>1. at[q] \in 1 .. 12
      BY DEF TypeOK
    <3>. QED
      BY <1>1, <2>1, <2>2, <3>1 DEF BuilderKnown
  <2>. QED
    BY <2>3, <2>4
<1>2. \A q \in Runs \ {r} : at'[q] = at[q]
  BY StartStep, RunMoves
<1>3. ASSUME r \in Generators, at'[r] # at[r]
      PROVE  GeneratorKnown(r)'
  <2>1. /\ at[r] \in 1 .. 12 /\ at'[r] = at[r] + 1
        /\ GeneratorCall(r) /\ ~(r \in Builders)
    <3>1. RunStep(r)
      BY <1>3, StartStep
    <3>2. ~Stops(r)
      BY <1>3, EndStep DEF Stops
    <3>. QED
      BY <1>3, <3>1, <3>2, RunMoves, RunsAssumption DEF RunStep, TypeOK
  <2>2. GeneratorKnown(r)
    BY <1>3 DEF FilesInv
  <2>3. at[r] = 3 => Exists("dir")'
    BY <1>0, <1>3, <2>1, CallAt DEF MakesDir, Hides, Gets, Becomes, Exists
  <2>4. at[r] = 4 => files'["dir"].private
    BY <1>3, <2>1, CallAt DEF MakesDir, Hides, Gets, Becomes
  <2>5. at[r] = 5 => Exists("key")'
    BY <1>0, <1>3, <2>1, CallAt DEF MakesDir, Hides, Gets, Becomes, Exists
  <2>6. at[r] = 10 => files'["env"].by = r
    BY <1>3, <2>1, CallAt DEF MakesDir, Hides, Gets, Becomes
  <2>7. at[r] = 11 => files'["env"].private
    BY <1>3, <2>1, CallAt DEF MakesDir, Hides, Gets, Becomes
  <2>. QED
    BY <1>0, <2>1, <2>2, <2>3, <2>4, <2>5, <2>6, <2>7
       DEF GeneratorKnown, Keeps, Exists
<1>4. ASSUME r \in Builders, at'[r] # at[r]
      PROVE  BuilderKnown(r)'
  <2>1. /\ at[r] \in 1 .. 12 /\ at'[r] = at[r] + 1
        /\ BuilderCall(r) /\ Proceed(r)
    <3>1. RunStep(r)
      BY <1>4, StartStep
    <3>2. ~Stops(r)
      BY <1>4, EndStep DEF Stops
    <3>3. BuilderCall(r)
      BY <1>4, <3>1, <3>2, RunsAssumption DEF RunStep
    <3>4. Proceed(r)
      BY <1>4, <3>3, EndStep DEF BuilderCall
    <3>. QED
      BY <1>4, <3>1, <3>3, <3>4, RunMoves DEF TypeOK
  <2>2. BuilderKnown(r)
    BY <1>4 DEF FilesInv
  <2>3. at[r] = 2 => files'["archive"].by = r
    BY <2>1 DEF BuilderCall, Becomes
  <2>4. at[r] = 3 => Sources \subseteq files'["archive"].content
    BY <1>4, <2>1, EndStep DEF BuilderCall
  <2>5. at[r] = 4 => "directory" \in files'["archive"].content
    BY <2>1 DEF BuilderCall, Fills, Becomes
  <2>. QED
    BY <1>0, <2>1, <2>2, <2>3, <2>4, <2>5 DEF BuilderKnown, Keeps, Exists
<1>5. \A q \in Runs : /\ q \in Generators => GeneratorKnown(q)'
                      /\ q \in Builders => BuilderKnown(q)'
  BY <1>1, <1>2, <1>3, <1>4
<1>6. (\A n \in Names : ~Exists(n) => ~files[n].private)'
  BY <1>0 DEF Keeps
<1>. QED
  BY <1>0, <1>5, <1>6 DEF FilesInv

\* A call of a generator that runs alone: the secrets stay with their makers, or
\* all that exist are its own; .env only comes when the others are whole; and it
\* knows at the next call what it has to know there.
LEMMA AloneStep ==
    ASSUME IInv, ~overlapped, NEW g \in Generators, outcome[g] = "running",
           GeneratorCall(g)
    PROVE  /\ \/ \A n \in Secrets : files'[n].by = files[n].by
              \/ \A n \in Secrets : files'[n].by \in {g, "nobody"}
           /\ files'["env"].by \in Generators =>
                  \A n \in {"key", "cert"} : files'[n].content = {"text"}
           /\ at'[g] = at[g] + 1 => AloneKnown(g)'
<1>. DEFINE Makers == \/ \A n \in Secrets : files'[n].by = files[n].by
                      \/ \A n \in Secrets : files'[n].by \in {g, "nobody"}
            EnvWhole == files'["env"].by \in Generators =>
                            \A n \in {"key", "cert"} : files'[n].content = {"text"}
            Knows == at'[g] = at[g] + 1 => AloneKnown(g)'
<1>0. /\ AloneKnown(g) /\ GeneratorKnown(g) /\ at[g] \in 1 .. 12
      /\ g # "nobody" /\ "nobody" \notin Generators
      /\ Secrets = {"key", "cert", "env"} /\ Secrets \subseteq Names
      /\ files["env"].by \in Generators =>
            \A n \in {"key", "cert"} : files[n].content = {"text"}
  BY RunsAssumption DEF IInv, AloneInv, FilesInv, EnvIsLast, TypeOK, Runs,
     Secrets, Names, Whole
<1>1. CASE at[g] \in {1, 2, 3, 4}
  <2>1. \A n \in Secrets : files'[n] = files[n]
    BY <1>0, <1>1, CallAt DEF MakesDir, Hides, Becomes
  <2>2. Makers /\ EnvWhole
    BY <1>0, <2>1
  <2>3. /\ at[g] = 1 => ~Exists("env")
        /\ at[g] = 2 => ~Exists("key") /\ ~Exists("cert")
    BY CallAt
  <2>4. Knows
    BY <1>0, <1>1, <2>1, <2>3 DEF AloneKnown, Exists
  <2>. QED
    BY <2>2, <2>4
<1>2. CASE at[g] = 5
  <2>1. Becomes("key", g, {}, files["key"].private)
    BY <1>2, CallAt DEF Gets
  <2>2. /\ files'["key"].by = g /\ files'["cert"] = files["cert"]
        /\ files'["env"] = files["env"]
    BY <1>0, <2>1 DEF Becomes
  <2>3. /\ files["cert"].by = "nobody" /\ files["env"].by = "nobody"
    BY <1>0, <1>2 DEF AloneKnown, Exists
  <2>4. Makers /\ EnvWhole
    BY <1>0, <2>2, <2>3
  <2>5. Knows
    BY <1>0, <1>2, <2>2, <2>3 DEF AloneKnown, Exists
  <2>. QED
    BY <2>4, <2>5
<1>3. CASE at[g] = 6
  <2>1. Becomes("key", g, {"text"}, files["key"].private)
    BY <1>3, CallAt DEF Gets
  <2>2. /\ files'["key"].by = g /\ files'["key"].content = {"text"}
        /\ files'["cert"] = files["cert"] /\ files'["env"] = files["env"]
    BY <1>0, <2>1 DEF Becomes
  <2>3. /\ files["cert"].by = "nobody" /\ files["env"].by = "nobody"
        /\ files["key"].by = g
    BY <1>0, <1>3 DEF AloneKnown, Exists
  <2>4. Makers /\ EnvWhole
    BY <1>0, <2>2, <2>3
  <2>5. Knows
    BY <1>0, <1>3, <2>2, <2>3 DEF AloneKnown, Exists
  <2>. QED
    BY <2>4, <2>5
<1>4. CASE at[g] = 7
  <2>1. Becomes("key", files["key"].by, files["key"].content, TRUE)
    BY <1>4, CallAt DEF Hides
  <2>2. /\ files'["key"].by = g /\ files'["key"].content = {"text"}
        /\ files'["cert"] = files["cert"] /\ files'["env"] = files["env"]
    BY <1>0, <1>4, <2>1 DEF Becomes, AloneKnown
  <2>3. /\ files["cert"].by = "nobody" /\ files["env"].by = "nobody"
        /\ files["key"].by = g
    BY <1>0, <1>4 DEF AloneKnown, Exists
  <2>4. Makers /\ EnvWhole
    BY <1>0, <2>2, <2>3
  <2>5. Knows
    BY <1>0, <1>4, <2>2, <2>3 DEF AloneKnown, Exists
  <2>. QED
    BY <2>4, <2>5
<1>5. CASE at[g] \in {8, 9}
  <2>1. PICK c \in {{}, {"text"}} :
          /\ at[g] = 9 => c = {"text"}
          /\ Becomes("cert", g, c, files["cert"].private)
    BY <1>5, CallAt DEF Gets
  <2>2. /\ files'["cert"].by = g /\ files'["cert"].content = c
        /\ files'["key"] = files["key"] /\ files'["env"] = files["env"]
    BY <1>0, <2>1 DEF Becomes
  <2>3. /\ files["key"].by = g /\ files["env"].by = "nobody"
        /\ files["key"].content = {"text"}
    BY <1>0, <1>5 DEF AloneKnown, Exists
  <2>4. Makers /\ EnvWhole
    BY <1>0, <2>2, <2>3
  <2>5. Knows
    BY <1>0, <1>5, <2>1, <2>2, <2>3 DEF AloneKnown, Exists
  <2>. QED
    BY <2>4, <2>5
<1>6. CASE at[g] \in {10, 11, 12}
  <2>1. PICK c \in {{}, files["env"].content, {"text"}}, p \in BOOLEAN :
          Becomes("env", g, c, p)
    <3>1. at[g] = 11 => files["env"].by = g
      BY <1>0 DEF GeneratorKnown
    <3>2. files["env"].private \in BOOLEAN
      BY <1>0 DEF IInv, TypeOK
    <3>. QED
      BY <1>6, <3>1, <3>2, CallAt DEF Gets, Hides
  <2>2. /\ files'["env"].by = g
        /\ files'["key"] = files["key"] /\ files'["cert"] = files["cert"]
    BY <1>0, <2>1 DEF Becomes
  <2>3. /\ files["key"].by = g /\ files["cert"].by = g
        /\ files["key"].content = {"text"} /\ files["cert"].content = {"text"}
    BY <1>0, <1>6 DEF AloneKnown
  <2>4. Makers /\ EnvWhole
    BY <1>0, <2>2, <2>3
  <2>5. Knows
    BY <1>0, <1>6, <2>2, <2>3 DEF AloneKnown, Exists
  <2>. QED
    BY <2>4, <2>5
<1>7. Makers /\ EnvWhole /\ Knows
  BY <1>0, <1>1, <1>2, <1>3, <1>4, <1>5, <1>6
<1>. QED
  BY <1>7

\* What a generator that runs alone knows, and what its secrets show of it.
LEMMA AloneNext ==
    ASSUME IInv, NEW r \in Runs, Start(r) \/ RunStep(r)
    PROVE  AloneInv' /\ FromOneRun' /\ EnvIsLast'
<1>. USE DEF IInv
<1>0. /\ Generators \subseteq Runs /\ "nobody" \notin Generators
      /\ Secrets = {"key", "cert", "env"} /\ Secrets \subseteq Names
      /\ \A n \in {"key", "cert"} : Whole(n) = {"text"}
  BY RunsAssumption DEF Runs, Secrets, Names, Whole
<1>1. ASSUME \A n \in Secrets : files'[n] = files[n], ~overlapped' => ~overlapped
      PROVE  FromOneRun' /\ EnvIsLast'
  <2>1. FromOneRun'
    BY <1>0, <1>1 DEF FromOneRun, Exists
  <2>2. EnvIsLast'
    BY <1>0, <1>1 DEF EnvIsLast
  <2>. QED
    BY <2>1, <2>2
<1>2. CASE Start(r)
  <2>1. /\ UNCHANGED <<files, at>> /\ (~overlapped' => ~overlapped)
        /\ outcome[r] = "waiting" /\ outcome'[r] = "running"
        /\ \A q \in Runs \ {r} : outcome'[q] = outcome[q]
    BY <1>2, StartStep
  <2>2. CASE r \in Generators
    <3>1. ~overlapped' => \A g \in Generators : outcome'[g] = "running" => g = r
      BY <1>0, <1>2, <2>1, <2>2, StartStep
    <3>2. at'[r] = 1
      BY <2>1 DEF PositionInv
    <3>3. AloneKnown(r)'
      BY <3>2 DEF AloneKnown
    <3>. QED
      BY <1>1, <2>1, <3>1, <3>3 DEF AloneInv, Alone
  <2>3. CASE r \notin Generators
    <3>1. \A g \in Generators : outcome'[g] = outcome[g]
      BY <1>0, <2>1, <2>3
    <3>2. \A g \in Generators : AloneKnown(g) => AloneKnown(g)'
      BY <2>1 DEF AloneKnown, Exists
    <3>. QED
      BY <1>1, <2>1, <3>1, <3>2 DEF AloneInv, Alone
  <2>. QED
    BY <2>2, <2>3
<1>3. CASE RunStep(r) /\ r \notin Generators
  <2>1. /\ overlapped' = overlapped
        /\ \A g \in Generators : outcome'[g] = outcome[g] /\ at'[g] = at[g]
    BY <1>0, <1>3, RunMoves
  <2>2. \A n \in Secrets : files'[n] = files[n]
    BY <1>0, <1>3 DEF RunStep, Stops, BuilderCall, Fills, Becomes
  <2>3. \A g \in Generators : AloneKnown(g) => AloneKnown(g)'
    BY <1>0, <2>1, <2>2 DEF AloneKnown, Exists
  <2>. QED
    BY <1>1, <2>1, <2>2, <2>3 DEF AloneInv, Alone
<1>4. CASE RunStep(r) /\ r \in Generators
  <2>1. /\ overlapped' = overlapped /\ outcome[r] = "running"
        /\ \A q \in Runs \ {r} : outcome'[q] = outcome[q]
    BY <1>4, RunMoves
  <2>2. SUFFICES ASSUME ~overlapped PROVE AloneInv' /\ FromOneRun' /\ EnvIsLast'
    BY <2>1 DEF AloneInv, FromOneRun, EnvIsLast
  <2>3. \A g \in Generators : outcome'[g] = "running" => g = r
    BY <1>0, <1>4, <2>1, <2>2 DEF AloneInv, Alone
  <2>4. CASE Stops(r)
    <3>1. outcome'[r] # "running" /\ files' = files
      BY <2>4, EndStep DEF Stops
    <3>. QED
      BY <1>1, <2>1, <2>3, <3>1 DEF AloneInv
  <2>5. CASE GeneratorCall(r) /\ Proceed(r)
    <3>1. outcome'[r] = "running" => at'[r] = at[r] + 1
      BY <2>1, <2>5, ProceedStep
    <3>2. AloneInv'
      BY <1>4, <2>1, <2>2, <2>3, <2>5, <3>1, AloneStep DEF AloneInv, Alone
    <3>3. FromOneRun'
      <4>1. CASE \A n \in Secrets : files'[n].by = files[n].by
        BY <2>2, <4>1 DEF FromOneRun, Exists
      <4>2. CASE \A n \in Secrets : files'[n].by \in {r, "nobody"}
        BY <1>0, <4>2 DEF FromOneRun, Exists
      <4>. QED
        BY <1>4, <2>1, <2>2, <2>5, <4>1, <4>2, AloneStep
    <3>4. EnvIsLast'
      BY <1>0, <1>4, <2>1, <2>2, <2>5, AloneStep DEF EnvIsLast
    <3>. QED
      BY <3>2, <3>3, <3>4
  <2>. QED
    BY <1>0, <1>4, <2>4, <2>5, RunsAssumption DEF RunStep
<1>. QED
  BY <1>2, <1>3, <1>4

-----------------------------------------------------------------------------
(* The theorems.                                                           *)

\* Every step keeps the invariant.
LEMMA IInvNext == IInv /\ [Next]_vars => IInv'
<1>. SUFFICES ASSUME IInv, [Next]_vars PROVE IInv'
  OBVIOUS
<1>1. CASE Next
  <2>1. PICK r \in Runs : Start(r) \/ RunStep(r)
    BY <1>1, NextCases DEF IInv
  <2>. QED
    BY <2>1, TypedNext, PositionNext, FilesNext, AloneNext DEF IInv
<1>2. CASE UNCHANGED vars
  BY <1>2 DEF IInv, vars, TypeOK, PositionInv, FilesInv, GeneratorKnown,
     BuilderKnown, SecretsPrivate, AloneInv, Alone, AloneKnown, FromOneRun,
     EnvIsLast, Exists
<1>. QED
  BY <1>1, <1>2

\* The invariant holds in every reachable state.
THEOREM Invariance == Spec => []IInv
BY IInvInit, IInvNext, PTL DEF Spec

\* Files, outcomes and positions have their types; no file has content of
\* another kind, and one that does not exist has none.
THEOREM TypeCorrectness == Spec => []TypeOK
<1>1. IInv => TypeOK
  BY DEF IInv
<1>. QED
  BY <1>1, Invariance, PTL

\* Wherever the runs are cut off, what is left of the secrets is private, comes
\* from one run unless two overlapped, and has a .env only with its key and
\* certificate.
THEOREM Safety == Spec => []SecretsSafe
<1>1. IInv => SecretsSafe
  BY DEF IInv, SecretsSafe
<1>. QED
  BY <1>1, Invariance, PTL

\* A build that ends well has made the archive that is there, and it is whole.
THEOREM Reporting == Spec => []ReportedWhole
<1>1. ASSUME IInv PROVE ReportedWhole
  <2>1. SUFFICES ASSUME NEW b \in Builders, outcome[b] = "done"
                 PROVE  /\ files["archive"].by = b
                        /\ files["archive"].content = Whole("archive")
    BY DEF ReportedWhole
  <2>2. at[b] = 5 /\ BuilderKnown(b) /\ b # "nobody"
    BY <1>1, <2>1, RunsAssumption DEF IInv, PositionInv, FilesInv, Runs
  <2>3. /\ files["archive"].by = b
        /\ Sources \cup {"directory"} \subseteq files["archive"].content
    BY <2>2 DEF BuilderKnown
  <2>4. files["archive"].content \subseteq Whole("archive")
    BY <1>1, <2>2, <2>3 DEF IInv, TypeOK, Exists, Names
  <2>. QED
    BY <2>3, <2>4 DEF Whole
<1>. QED
  BY <1>1, Invariance, PTL

\* No step overwrites or empties a file that exists; a key or certificate only
\* if generators have overlapped.
THEOREM Preservation == Spec => NeverOverwritten
<1>. DEFINE Kept(n) == /\ files'[n].by = files[n].by
                      /\ files[n].content \subseteq files'[n].content
            Step == \A n \in Names \ {"dir"} :
                        /\ Exists(n)
                        /\ n \in {"key", "cert"} => ~overlapped
                        => /\ files'[n].by = files[n].by
                           /\ files[n].content \subseteq files'[n].content
<1>1. ASSUME IInv, NEW r \in Runs, Start(r) \/ RunStep(r),
             NEW n \in Names \ {"dir"}, Exists(n),
             n \in {"key", "cert"} => ~overlapped
      PROVE  Kept(n)
  <2>1. CASE n \in {"env", "archive"}
    BY <1>1, <2>1, TypedNext DEF Keeps
  <2>2. CASE n \in {"key", "cert"}
    <3>1. CASE files'[n] = files[n]
      BY <3>1
    <3>2. CASE r \in Generators /\ RunStep(r) /\ GeneratorCall(r)
      <4>1. AloneKnown(r)
        BY <1>1, <2>2, <3>2, RunMoves DEF IInv, AloneInv
      <4>2. /\ n \in Names /\ files[n].content \subseteq {"text"}
            /\ Exists(n) /\ r # "nobody" /\ at[r] \in 1 .. 12
        BY <1>1, <2>2, RunsAssumption DEF IInv, TypeOK, Whole
      <4>3. CASE n = "key"
        <5>1. at[r] # 5
          BY <4>1, <4>2, <4>3 DEF AloneKnown
        <5>2. at[r] = 6 => files["key"].by = r
          BY <4>1 DEF AloneKnown
        <5>3. at[r] \in {6, 7} \/ files'["key"] = files["key"]
          BY <3>2, <4>2, <4>3, <5>1, CallAt DEF MakesDir, Hides, Gets, Becomes
        <5>4. at[r] = 6 => Kept("key")
          BY <3>2, <4>2, <4>3, <5>2, CallAt DEF Gets, Becomes
        <5>5. at[r] = 7 => Kept("key")
          BY <3>2, CallAt DEF Hides, Becomes
        <5>. QED
          BY <4>3, <5>3, <5>4, <5>5
      <4>4. CASE n = "cert"
        <5>1. at[r] # 8
          BY <4>1, <4>2, <4>4 DEF AloneKnown
        <5>2. at[r] = 9 => files["cert"].by = r
          BY <4>1 DEF AloneKnown
        <5>3. at[r] = 9 \/ files'["cert"] = files["cert"]
          BY <3>2, <4>2, <4>4, <5>1, CallAt DEF MakesDir, Hides, Gets, Becomes
        <5>4. at[r] = 9 => Kept("cert")
          BY <3>2, <4>2, <4>4, <5>2, CallAt DEF Gets, Becomes
        <5>. QED
          BY <4>4, <5>3, <5>4
      <4>. QED
        BY <2>2, <4>3, <4>4
    <3>3. CASE Start(r) \/ Stops(r)
      BY <3>1, <3>3 DEF Start, Stops
    <3>4. CASE r \in Builders /\ BuilderCall(r)
      BY <1>1, <2>2, <3>1, <3>4 DEF BuilderCall, Fills, Becomes
    <3>. QED
      BY <1>1, <3>2, <3>3, <3>4 DEF RunStep
  <2>. QED
    BY <1>1, <2>1, <2>2 DEF Names, Secrets
<1>2. IInv /\ [Next]_vars => [Step]_vars
  <2>1. ASSUME IInv, Next PROVE Step
    <3>1. PICK r \in Runs : Start(r) \/ RunStep(r)
      BY <2>1, NextCases DEF IInv
    <3>. QED
      BY <1>1, <2>1, <3>1
  <2>. QED
    BY <2>1
<1>. QED
  BY <1>2, Invariance, PTL DEF Spec, NeverOverwritten

=============================================================================
