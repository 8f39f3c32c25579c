# AlfaGen PII Guard in TLA+

The repository is a FastAPI service that masks personal data in texts and, on
request, gives the originals back. This directory holds TLA+ models of the
parts of it where order, failure and concurrency matter, the TLC
configurations that check them on small instances, and machine-checked proofs
of the safety properties of every part; only liveness is left to TLC. Line
numbers are those of the repository's files.

## The system

| Component | State it keeps | Operations | Talks to |
|---|---|---|---|
| Boundary (`app/boundary.py`) | a bounded semaphore per worker; per request the permit, the status to count, whether a response has begun | admit or refuse (429), buffer the body up to a limit (413), replay it to the application, answer 500 for what escapes, release, count | ASGI server, application |
| Routes (`app/main.py`) | the global `policy`, its `_policy_stamp`, `_policy_lock`, the Redis pool, counters | `/process`, `/proxy`, `/ready`, `/health`, `/metrics`, `/` | policy file, store, engine, proxy |
| Policies (`app/policy.py`) | immutable `PolicyConfig` objects read from a JSON file | load, authenticate, check enabled, check the right to demask | file |
| Pair store (`app/state.py`) | pairs original/mask in Redis, encrypted, under a keyed hash of consumer and id, with a lifetime | GET, mask, SET NX EX, GET again, match | Redis, engine, policies (by callback) |
| Engine and core (`app/engine.py`, `app/core.py`) | nothing between calls | detect, select, resolve overlaps, replace by tokens or stars, restore | detectors |
| Proxy and LLM (`app/proxy.py`, `app/llm.py`) | a mapping, for the length of one call | mask, generate, mask the answer, warn, restore | engine, LLM mock |
| Detectors (`app/detectors/`) | lazily loaded NER models | text to spans | - |
| Metrics, tokenizer, settings, schemas | counters; none; none; none | - | - |
| Tools (`benchmarks/`, `scripts/`) | files they write; the load test's set of active pairs | load test, demo, quality figures, release archive, secrets | service, files |
| Deployment (compose files, nginx, Redis) | Redis has `noeviction` and no persistence | - | - |

Interaction. Several workers are separate processes; they share Redis and the
policy file and nothing else. In a worker, the boundary runs on the event loop,
handlers run on a pool of threads. A handler authenticates (which may reload
the policy), calls the store, which calls back the engine and, before it gives
an original back, the policy again.

What is hard, and what makes each part correct:

- **Pair store.** Handlers of all workers race for a key between their Redis
  calls; answers of Redis get lost; pairs expire and Redis restarts between any
  two calls. Correct: every answer comes from one pair, published under the
  caller's key, that never changes while it is stored; a mask restores exactly
  its own original, for its own consumer.
- **Policies.** Threads reload a file that is being rewritten and decide on a
  shared global. Correct: decisions follow the file, a revocation reaches
  requests under way, a broken file is refused and leaves the lock free.
- **Boundary.** Every way out of a request must release what it took, respond
  once and be counted once; limits hold to the byte; the pool of connections
  is enough.
- **Core.** Acceptance looks at two neighbours only; correct: accepted spans
  are disjoint, a span is dropped only for a better one, tokens restore the
  exact text, also one that holds tokens already.
- **Proxy.** The answer of the LLM is masked again and only then restored;
  correct: what the second pass masked stays masked, what was lost is warned
  about.
- **Detectors.** Seventeen of them look at the same words, each with patterns, a
  window of words before a match and stop words of its own; a match that fails
  uses up its text, and of two spans that overlap one is dropped as a whole.
  Correct: a labelled value is masked as a whole whatever stands around it.
- **Load test.** Pairs are tasks of the loop that also runs the driver; a slot
  is free only when a callback has run. Correct: each pair and request counted
  once, an arrival dropped only when the slots are really taken.
- **Scripts.** Files that belong together are written one after the other and
  must not replace what is there. Correct after a crash anywhere: nothing
  overwritten, no secret readable, no partial result taken for a whole one.

## Modules

| Module | Models | Kind |
|---|---|---|
| `PairRegistry` | what the store promises: one immutable pair per key, answers from it, refusals | abstract specification |
| `PairStore` | `StateStore.process` over Redis, with the handler of `/process` | one action per call of the handler, `Expire` and `Restart` for Redis |
| `PairStoreProofs` | - | theorems about `PairStore`, and that it implements `PairRegistry` |
| `AdmissionProofs`, `PolicyReloadProofs`, `MaskRunProofs`, `LoadDriverProofs`, `ScriptsProofs`, `DetectionProofs` | - | theorems about the module of that name |
| `TextLemmas` | - | induction over numbers and sequences, for `MaskRunProofs` and `DetectionProofs` |
| `PolicyReload` | start of a worker, `_refresh_policy`, and the policy reads of `/process` and `/proxy` | one action per read of the file or of the global |
| `Admission` | `BoundaryMiddleware`, handler threads, the Redis pool | one action per await and per thread event |
| `MaskRun` | `MaskingEngine.mask`, `core.py`, `ProxyService.run`, `MockLLM` | one action per phase, per span in the loops |
| `DetectionText` | `base.py`, `language.py`, `resolve_spans`: words, context, search, overlaps | operators |
| `NumberDetectors` | `card.py`, `phone.py`, `inn.py`, `passport.py`, `driving.py`, `dates.py`, `email.py` | operators |
| `FieldDetectors` | `person.py`, `cardholder.py`, `citizenship.py`, `issuing.py`, `address.py`, the context test of `ner.py` | operators |
| `Detection` | `MaskingEngine.detect` and `resolve_spans` over one text | one action each for detection, with or without an entity of NER, and resolution |
| `LoadDriver` | `dispatch_pairs` and `run.pair` of the load test | one action per handle the event loop runs |
| `Scripts` | `generate_demo_secrets.py`, `build_release.py` | one action per call of the file system, exceptions, kills |
| `MC*` | constants of the small instances | |

`PairStore` takes the engine as "a mask for this text" and the policy's answer
as a choice; `MaskRun` is that engine in detail and `PolicyReload` that answer
in detail. `Admission` takes a handler as something that holds a thread, calls
Redis and ends in a response or an exception.

### PairStore

`pc[r]` is the call the handler makes next, `held[r]` the record it built or
read, `redis` the unexpired pairs. `Arrive` does what comes before the first
call (bodies over the limits are refused there), `Get` is the GET and what
follows up to the next call or the answer, `Mask` the callback of the engine and
the encryption with its limit, `Publish` the SET NX EX, `Reread` the second GET,
`Match` the comparison with the policy's callback. Any Redis call may fail, a
SET also after Redis has done it (`RedisFails`). `minted`, `published` and
`basis` are history variables: the properties need to say which pair an answer
came from after that pair is gone.

A text is a body and a tag; tag 0 has no token, tag n has the tokens of the
n-th drawing. Fresh tags stand for tokens of 128 random bits: **two drawings
never meet** is the assumption under which the round trip is exact. A client
sends any text without tokens and any text that some client got in an answer;
a token it makes up meets the code as one of another consumer or id does. Encryption, the keyed hash and JSON are
taken as exact. Sizes are in units chosen per instance.

### PolicyReload

The contents of the file are numbered as they are written; `policy` and
`stamp` are such numbers, so a "policy object" is identified with the content it
was read from. Assumed: two writes never leave the same modification time
(nanoseconds on the usual file systems), and a write is atomic unless its
content is given as a broken one. A thread takes the lock in `Stat`, reads in
`Read`, and sets the policy and the stamp in `Install`, or gives up in `GiveUp`;
the decisions (`Authenticate`, `Enable`, `SecondCheck`, `Safe`, `Engine`,
`Patterns`, `Permit`) read the global without it, as the code does.

### Admission

`pc[r]` is where the coroutine of a request is. `Arrive` takes a permit or
answers 429, `Receive` handles one chunk of the body, `StartHandler`,
`CallRedis` and `EndHandler` are the thread's, `SendStart` and `SendRest` the two
messages of a response, each of which may raise, `Barrier` the `except` clause,
`Finally` the `finally` clause. `/process` and `/proxy` are one route here; one
Redis call stands for those of a handler, as it holds a connection only
during one. The thread pool is the server's (external).

### MaskRun

A text is a sequence of symbols, one of which may be a token. `Detect` takes
any set of spans for what the detectors found and selects by policy; `Resolve`
is one round of the loop of `resolve_spans`, with the place `bisect_left` gives;
`Replace` is one round of `mask_resolved` or of `_redact`; `EndReplace` appends the rest.
For the proxy `Generate` is the LLM, which answers as the mock does in its modes
(reordering, corrupting, failing) or with any short text, then the same steps
run a second time on the answer and `Restore` ends the call. `mask_resolved`
raises `ValueError` for spans out of order; the model has no action for that,
`NeverRejected` shows that it cannot happen.

### DetectionText, NumberDetectors, FieldDetectors, Detection

A text is a sequence of words with a blank, a comma or a colon behind them;
offsets count words. The kind of a word is what the patterns tell apart: groups
of digits with their digits, labels (one stands for all that the same detectors
look for), plain words. A detector is an operator from a text to its spans:
`LongestEnd` is a greedy match of digits, `RunEnd` a run of value words up to the
label of the next field, `Starts` the search of `finditer`, which goes on behind
a match whether or not `validate` accepts it, `Window` the words of
`context_before`. What stands together in the text but is looked at in parts is
several words: the two parts of an address of electronic mail, and a "+" with the
digits behind it; for `Window` these are one.

The patterns of `address.py:10` have no word boundary behind "г", "ул" and
"пр-т", so that they find a component within any word that begins so: "леб
Петров" in "Глеб Петров". Such a word is `short`, whatever else it is; a component
that begins within it is a span of the type `TAIL`, an address that has all of its
last words and of its first word all but the label. Only whole words count as
masked (`Masks`), so a `TAIL` does not mask its first word, but drops whatever else
has a part of it, as no span ends within a word.

`Names` takes any words for an entity of Natasha, labels and parts of an address of
electronic mail among them. `Resolved` gives the outcome of `resolve_spans` for all
spans at once; that the loop comes to it is the matter of `MaskRun`, which takes
any spans for what was detected. `WordTexts` are the texts as they are cut into
words, of any length.

What the words abstract from: a label of several words counts as one, a word has
one kind even if two detectors look for it, numbers have blanks and no other
separators in them, dates, codes of departments and addresses of electronic mail
are words of their own. Initials, "г." before a birth place, postcodes, labelled
countries, custom patterns (see `MaskRun`), short labels within a word behind a
hyphen or a dot, and the window's limit of 256 characters are left out. On 13 500
random texts of the labels, values and numbers of all vocabularies, the operators
and the program's own detectors disagreed in eight: the digits of a date beside a
label of a card, a code or a telephone, which those patterns find; "почта" as a
border inside an address of electronic mail; and "паспорта" where "номер
паспорт" is looked for.

### LoadDriver

`ready` is the loop's queue of handles: steps of the driver and of the pairs,
and the two done callbacks of a task, `active.discard` and that of `gather`. An
action runs the handle at its head (`DriverStep`, `PairStep`, `Discard`,
`GatherOne`), or appends one (`TimerFires`, `Answer`). `Sleep` with a delay of
zero appends the driver behind what is ready; otherwise a timer does, at any
time. A pair waits once for a request, for the reply and its body together.
(Under Python 3.12 `gather` runs its callback of a task that is already done at
once, not by a handle; it only counts, and the driver waits for the rest as
before.)

### Scripts

`Generate` and `Build` list the calls of the file system that the two scripts
make; `at[r]` is the one that the run r is about to make. `Open` creates a file,
or empties it, or fails if it was to be opened with "x"; `Write` and `Pack` fill
it; an exception may come at every call (`Fail`), which inside the `with` of the
archive still writes its directory, and so may the end of the process (`Kill`).
A file is its maker, its content and whether it is private; the user may have
any of the files before.

## Runs

Deadlock is checked for the load test only, which states when it is done.
Elsewhere every instance has a fixed number of requests, all of which may be
done.

| Run | Shows | Bounds |
|---|---|---|
| `store` | `RoundTrip`, `AnsweredFromStore`, `OneCreator`, `OriginalsHaveNoToken`, `OwnTextsOnly`, `PairImmutable`, and `KeepsPromise`: `PairStore` implements `PairRegistry` | three requests (a race needs two, its observer a third), two consumers that use one id, two texts that look the same once redacted and the text they then look like, three drawings, all three modes |
| `store_liveness` | `EveryRequestAnswered`, with texts at every limit | two requests, one consumer, a record limit below the body limit |
| `policy` | `RevocationHolds`, `MaskingIsFresh`, `NoSpuriousRefusal`, `NeverBackwards`, `EveryRequestAnswered` | two request threads; three contents: a full policy, then any of seven kinds (full, revoked, disabled, removed, weak, broken, bad pattern), then a revoked or a broken one; no write during start |
| `policy_startup` | finding: `RevocationHolds` is violated by a write during start | two contents, writes at any time |
| `policy_errors` | finding: `BadPolicyIs503` is violated by a pattern that does not compile | two contents |
| `policy_proxy` | finding: `ProxySendsProtected` is violated by a reload between test and engine | two contents |
| `admission` | `PermitsBalanced`, `AnsweredOnce` (`OneResponse` and `CountedAsAnswered`), `HandledWhole`, `ConnectionsSuffice`, `EveryRequestEnds` | two slots, each serving one request after another; one permit and a pool of one connection, so that both run out; two threads; a body of up to two units in chunks of one or two |
| `mask` | `ReplaceableInOrder` (`Disjoint` and `NeverRejected`), `DroppedForReason`, `MaskExact` (`RestoreExact` and `RedactAligned`), `NewContentStaysMasked`, `WarnedOrComplete` | texts of three and four symbols, one with a foreign token; every set of up to three spans of three detectors (two of one type) for the core, two and one in the answer for the proxy; five policies; answers of the LLM of up to two symbols besides the mock's |
| `detection` | `LuhnCatchesTypos`, `NumbersMasked` (`LabelledCodesMasked`, `LabelledNumbersMasked`, `DocumentPartsMasked`), `WordsMasked` (`FieldsMasked`, `HomeAddressesMasked`), `NerOnlyAdds` | every text of up to four parts (up to eight words) from one of six vocabularies of eight to thirteen parts: cards and codes, documents, telephones and taxpayers, fields, dates and names, addresses; short words among the fields and the addresses, "+" among documents and telephones; no entity or any one over any words |
| `load` | `Accounted` (`PairsAccounted`, `RequestsAccounted`, `NoneCutOff`), `DropsOnlyWhenFull`, `Finishes` | four arrivals for two slots: slots fill, arrivals are dropped, freed slots are used again |
| `scripts` | `NeverOverwritten`, `SecretsSafe` (`FromOneRun`, `EnvIsLast`, `SecretsPrivate`), `ReportedWhole` | two runs of each script, an archive of two files |

Four parts hold a value with a label and a second field or label on either
side, hence every overlap of two neighbouring detectors; vocabularies are apart
as detectors that share no words cannot meet. Two slots are enough for the
boundary: a request depends on the others through the permits, the threads and
the connections that are left, and two compete for the only permit and the only
connection. Two runs of a script are one that was cut off and its successor.
Three spans are enough for acceptance: the decision on a span depends on its
two neighbours, and a third accepted span that it overlapped without
overlapping a neighbour would need a fourth. Three contents are needed for the
reload: a thread that is slow to install the second one may come after the
third.

Every property has a mutant in `PROJECT.json`: a slip in a mapped definition,
written next to it as an operator with "Slip" in its comment, that TLC finds to
break the property under the run's own configuration.

### Fairness

- `PairStore`, `PolicyReload`: weak fairness of each handler. Threads are
  scheduled by the operating system, Redis calls have timeouts of 2 s
  (`main.py:46-47`), which the models show as calls that fail. For the policy
  lock it is enough that holders go on.
- `Admission`: weak fairness of the client (it goes on or disconnects), of the
  server's steps, and strong fairness of getting a thread, which are handed out
  first come, first served. The first is an assumption about clients: **the
  code sets no time limit on a body**, so a silent client keeps its permit.

- `LoadDriver`: weak fairness of the loop, of its timers and of each answer; the
  client's total timeout of 10 s (`load_test.py:109`) ends every request.

## What the runs found

1. *Start of a worker* (`policy_startup`). `main.py:38` loads the policy,
   `main.py:61` takes the time of the file afterwards: what is written in
   between is never read, until the file changes again.
2. *Bad custom pattern* (`policy_errors`). `re.error` is not among the exceptions
   that `_refresh_policy` turns into 503; requests end with 500.
3. *Proxy* (`policy_proxy`). The safety test reads one policy object, the engine
   is built from the global again. With a reload in between, a text masked
   under a weak policy is generated from; the later check of the right to
   demask does not look at that.
What follows has no run, as nothing in the repository promises otherwise: the
docstring of `resolve_spans` (`core.py:76-80`) and the tests say that a span that
overlaps an accepted one is dropped, and so it is, as a whole. What the accepted
span does not cover stays in clear. The conditions of `NumbersMasked`,
`WordsMasked` and `NerOnlyAdds` leave out these cases:

- *A name that runs into an address of electronic mail.* In "Клиент Иван Петров
  ivan.petrov@mail.ru" the name has four value words, EMAIL has priority 0
  (`email.py:21`) and is dropped, and ".petrov@mail.ru" stays.
- *An address within a word* (`Undisputed`). In "Проживает, клиент Глеб Петров" the
  address "леб Петров" (30) drops the person (20), and "Г" stays; in "Адрес: клиент
  Иван Гусев" all but "усев" does.
- *An entity that cuts another span* (`cut`, `Undisputed`). If Natasha takes "Иванов" in
  "Клиент Иванов@почта.рф" for a person, the EMAIL is dropped, and the domain stays,
  which is masked without NER; so does the last part of a name when an entity takes
  its label and its beginning.
- *Digits that belong to two numbers* (`Alone`). In "PIN card 4111 1111 1111 1111" the
  first group is taken for a PIN, and twelve digits stay; in "ИНН 7707083893 телефон
  8 9123456789" the number without its 8 is taken for a taxpayer's, and the 8
  stays; in "паспорт телефон 8 7707083893" the last ten digits are taken for a
  passport, and the 8 stays.
- *A value that runs over the label of the next field* (`Opens`). In "Born in London
  держатель карты IVAN PETROV" PETROV stays; in "5 Baker Road, клиент Иван Петров
  Иванович Пушкин" the city behind the street takes the label and three names, and
  "Пушкин" stays; in "Проживает в город Москва улица Большая Садовая дом 5" the
  residence takes four words, and "Садовая" stays; in "город Москва место рождения
  Тула, улица Садовая" the city's value runs over the next label, the birth place
  has the higher priority, and "Москва" stays. The last three came up in the proof
  of `WordsMasked`.

Smaller ones: the help text of
`alfagen_pairs_completed_total` counts "repeat or demask" but the code counts
demasking only (`main.py:188`); the mask of an accepted payload may exceed the
body limit, which is the same for masks as for originals, so that it cannot be
sent back; in "PIN 1234 4111 1111 1111 1111" the card pattern first matches from 1234,
fails, and goes on behind its match, so that the card number is not found
(`LabelledNumbersMasked` speaks of numbers directly behind their label); in "дом 5,
город" a token is put for nothing (`address.py:90`); in "водительское удостоверение 9900 123456
паспорт 4509 123456" the passport is masked as a driving licence, and in "born
01.01.1990 issued 02.02.2010" both dates as dates of birth, as a window reaches
over the label before; two generators of secrets that overlap may leave a key
and a certificate that do not match (`generate_demo_secrets.py:26`);
and a client that leaves during its upload is
counted as a response with status 500 that nobody was sent (`boundary.py:49`,
`boundary.py:98`).

## What is proved

Each theorem holds for every value of the constants, under the assumptions that
the module it is about names (types of the constants; that `None`, `Nobody` and
the like are no requests or runs); TLC evaluates these on every run. Each proof
has the same form: an inductive invariant `IInv` holds initially, is
preserved by each action (one lemma for each) and implies the property. Every
`IInv` was an invariant of a TLC run before it was proved.

| Module | Theorems | State |
|---|---|---|
| `PairStoreProofs` | `TypeCorrectness`, `AnswersComeFromStore`, `RoundTripCorrect`, `CreatedOnce`, `NoSecondLayer`, `Isolation`, `Immutability`, `Refinement` | any number of requests, consumers, ids, texts, any sizes and limits |
| `AdmissionProofs` | `TypeCorrectness`, `Balance`, `Answering`, `Handling`, `Connections` | any number of slots, permits, threads and connections, any bodies |
| `PolicyReloadProofs` | `TypeCorrectness`, `Monotony`, `NotSpurious`, `Healing`; `Revocation`, `Freshness` after a quiet start | any number of threads, any sequence of contents |
| `MaskRunProofs`, `TextLemmas` | `TypeCorrectness`, `Replaceability`, `Resolution`, `Exactness`, `Secrecy`, `Completeness` | any texts, detectors, policies, answers of the LLM |
| `LoadDriverProofs` | `TypeCorrectness`, `Accounting`, `NoStarvation` | any number of arrivals, any limit |
| `ScriptsProofs` | `TypeCorrectness`, `Safety`, `Reporting`, `Preservation` | any number of runs, source files, files that were there |
| `DetectionProofs`, `TextLemmas` | `ResolvedSettles`, `TypeCorrect`, `CodesMasked`, `NumbersAreMasked`, `FieldsAreMasked`, `HomeAddressesAreMasked`, `WordsAreMasked`, `TyposCaught`, `NerAdds` | any texts of words, of any length |

**PairStore.** `IInv` is a conjunction of
- `Typed`, which adds to the types what each step knows of its request, such as
  that a handler at `match` holds a pair;
- `PairsInv`: whatever was ever published under a key is well formed: its
  original has no token, its mask has tokens of one drawing made for that
  original and that key, or none. Without it nothing relates a mask to what
  it was made of once its pair is gone;
- `RedisInv`: the stored pair is the last one published under its key;
- `AnswersInv`: each answer, and each record in hand at `match`, is what the
  pair numbered `basis[r]` determines;
- `OneCreator`, and `SourceInv`: each published original was sent by a request
  of that key.

`RoundTripCorrect` follows as two masks with the same token come from one
drawing, hence from one original and one owner. `Refinement`: `PairStore`
implements `PairRegistry`. The mapping takes a request for open until it has read
a pair, for fixed at `match`. One SET that wins is `Register`, a GET that finds a
pair is `Fix`, `Match` is `Reply`, expiry and restart are `Forget`; masking, a GET
that finds nothing and a lost race are stutters; every error is `Refuse`.

**Admission.** `PermitsBalanced` needs only the types: an action that moves a
request into or out of the holders is one that takes or gives a permit.
`AnswersInv` relates what was sent, what `observe_send` recorded and the step a
request is at; without it the status counted in the `finally` clause says nothing
of the status sent. `BodiesInv` carries the permit, the limit and the end of the
body from the gate to the handler. `Connections` counts: those with a permit in
a call to Redis are at most the permits, so the rest of a full pool have none.

**PolicyReload.** `StartInv` is about the start of a worker, `ThreadKnown(r)` about a
thread: from `Stat` to `Install` it holds the lock (`LoadKnown`), so that nobody
installs anything between its reading and its installing: what it has read is
at least the policy it replaces. From its refresh on, the policy is no older
than what the file held when the request came (`UseKnown`); that needs that the
stamp is never ahead of the policy, which is so after a quiet start.
`QuietStart` (nobody writes the file while the worker starts) is a hypothesis of
`Revocation` and `Freshness` that deployment has to provide, not the code: the
run `policy_startup` shows that they are false without it. `Healing` says how long
the damage lasts: no step of a running worker puts the stamp ahead, and the
first reload ends it.

**MaskRun.** The heart is `Disjoint` with `DroppedForReason`: as accepted spans are
sorted and disjoint, one that overlaps any of them overlaps a neighbour of the
place `bisect_left` gives, so the two comparisons of the code are enough.
`CursorInv` and `TokensInv` are the loop invariant of `mask_resolved`: what has been
written, restored, is the source up to the cursor; the tokens in it are the
source's own and those drawn, which are not in the source. (For the source's
own tokens it is essential that a drawn one is not among them.) `StarsInv` is
the same for `_redact`. `AnswerInv` is about the second pass of the proxy: no
span touches a token of the answer, hence all of these are still in the masked
answer and are restored (`Completeness`), and a token drawn for the answer is not
in the mapping of the first pass, hence stays (`Secrecy`). The module begins
with what this needs of texts: replacing symbols distributes over concatenation,
the restored form of a text in parts, what occurs in it. Some of these are
inductions over the length of a text or over a prefix; they go through
`SetInduction` of `TextLemmas`, where the induction hypothesis is a set of numbers,
as the library's induction theorems have operator parameters.

**LoadDriver.** `HandlesInv` says what each handle in the loop's queue implies:
a pair that has ended and is still active has its `discard` queued. `FullInv`
says where: before the driver's handle, if the pair was not running when the
driver last gave way. As the driver is at the head of the queue when it drops
an arrival, no such pair is left, so all that are active were running
(`NoStarvation`). `DriverInv`: the driver is woken by exactly one of its timer,
its own handle and the last callback of `gather`, and waits for all that run.
`CountsInv` has the two sums of `Accounted`, and a bound of the attempts that gives
the bounds of all counters.

**Scripts.** `GeneratorKnown` and `BuilderKnown` say what a run leaves behind it
whatever else runs; `AloneKnown` what a generator knows of the secrets while no
other has overlapped: those before its step are its own, those after it do not
exist. `FromOneRun` and `EnvIsLast` are stated of the files only, also after the
runs that made them; they need `AloneKnown` to be preserved by the next call.

**Detection.** A text passes through two steps, so `IInv` says no more than what the
steps compute; the theorems are about the operators. `ResolvedSettles`: the order
of `resolve_spans` is strict and total (`BeforeIsOrder`), so by induction over the
number of spans the accepted ones are characterised without recursion (`Settled`):
a span is accepted if and only if it overlaps no accepted one that goes before
it. `NerAdds`: an entity goes before nothing but names and addresses of electronic
mail (`EntityWeaker`), so that the other spans are accepted with it as without
(`StrongStay`); and if what it overlaps goes before it or lies inside it, then, by
induction over the order, only spans inside it are accepted without it and not
with it (`DifferAtEntity`).
`NumbersAreMasked` has three parts.
- What is found: no earlier match of the same detector runs into a labelled
  number, so that the search reaches it (`StartsReach`, `CardFound`, `PhoneFound`,
  `LicenseFound`, `PartFound`).
- What the others may claim: spans of numbers consist of groups of digits, those
  of fields contain none except the house number that an address begins with
  (`NumbersClaimed`, `WordedCovers`), and a label near one group of a number is
  near its first (`NearFirst`).
- What is accepted: a span that goes before one of these and overlaps it covers
  it (`NumberCovers`), hence each group is masked whichever is accepted
  (`GroupsAreMasked`). The conditions of `Alone` are where this would fail.

`WordsAreMasked` goes the same way for plain words behind a label.
- `~Entered(t, i)`: no value, of whichever detector, goes on to the label of a field
  that opens (`OpensShut`), so its value is found (`FieldIsFound`) and begins and
  ends where the label and the next mark or label of another field say
  (`ValueEnds`: what `(?!STOP)` in `language.py:14` is for).
- Everything found is one of nine kinds (`FoundAt`), and each of them that has one
  of these words covers them all: numbers and electronic addresses have none,
  other fields and addresses would have to run over the label (`FieldEnters`,
  `AddressPartMeets`, `EnglishMeets`), an authority goes on to a comma or a label
  and takes them all (`FieldCovered`). The ninth kind is an address that begins
  within a word. If it begins within the label, as in "гражданство", it takes all of the
  value; if before, it would have run over the label; if within the value
  (`TailMeets`), it goes behind all fields but names, which have a higher priority
  or the same and an earlier start (`TailBefore`), and for names `Undisputed`
  excludes it.
- So what goes before the field's span and overlaps it covers it (`FoundCovers`), and
  so does an entity (`EntityCovers`).
- A value of an address is behind a label or behind the number of a street
  (`AddressPart`), and what overlaps it covers it or is an address that begins
  within a word of it (`PartCovered`, `NumberTaken`). The latter starts later and has
  the same priority, so that the value outlives it (`PartOutlives`). That
  the number is no telephone or code is the condition `Spared`; that the address
  opens with its own labels excludes the values that run over a label above.

`TyposCaught`: to double a digit modulo 9 is one-to-one, and changing a digit
shifts the weighted total by the difference of its two weights, which is no
multiple of ten (`TotalsShift`, an induction over the number's length).

Only model-checked is liveness (`EveryRequestAnswered` of two modules,
`EveryRequestEnds`, `Finishes`), which is out of the prover's reach.

## Not modelled, and why

- Of the detectors, what the words abstract from (above). The loading of NER:
  two first requests may build the pipeline twice, and one of two equal ones
  stays; the cache of engines (`main.py:95`) likewise.
- Cryptography, JSON, timing and logs; metrics other than the counters above.
- A mask without tokens (redacted, or of a text with nothing to mask) that is
  sent after expiry becomes a new original: the code cannot tell, and the models
  show it (properties about masks speak of those that have a token).
- The quality benchmarks, the demo of policies and the check of the documents:
  sequential programs that print; the demo page and the deployment keep no
  state of their own.

## Plan

Done, in this order: `PairRegistry`, `PairStore` and its proofs; `PolicyReload`;
`Admission`; `MaskRun`; `LoadDriver`; the detectors; `Scripts`; the proofs about
`Admission`, `PolicyReload`, `Scripts`, `MaskRun`, `LoadDriver` and `Detection`.
Next:

1. Composition: `/process` with `PolicyReload` and `PairStore` together, so that
   the right to demask is tested against the pair just read.
