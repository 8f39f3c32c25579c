------------------------------- MODULE MaskRun -------------------------------
(***************************************************************************)
(* One run of the masking core: engine.mask for /process, and the whole of *)
(* ProxyService.run for /proxy. Spans that the detectors found are         *)
(* resolved one by one (resolve_spans), the text is rewritten from left to *)
(* right (mask_resolved, _redact); for the proxy the LLM answers, the      *)
(* answer is masked again around the tokens it holds, and restored.        *)
(*                                                                         *)
(* A text is a sequence of symbols. A token is one symbol: it begins with  *)
(* {{ and matches of TOKEN_RE hold no other {, so that no match reaches    *)
(* into it from outside. What the detectors find is any set of spans.      *)
(***************************************************************************)
EXTENDS Naturals, FiniteSets, Sequences, SequencesExt, FiniteSetsExt

CONSTANTS
    Chars,      \* symbols that are not tokens
    Tokens,     \* symbols that are: in texts sent by clients, or drawn
    Star,       \* what a redacted character becomes
    Words,      \* what an LLM writes itself, or makes of a token it spoils
    Texts,      \* texts that clients send
    Detectors,  \* detectors, the NER one and custom patterns included
    TypeOf,     \* TypeOf[d]: type of the data that d finds
    Priority,   \* Priority[d]: priority of the spans of d
    Calls,      \* "process", "proxy"
    Policies,   \* policies in force for the consumer
    MaxSpans,   \* bound: MaxSpans[c][n]: spans in the n-th text of a call c
    MaxReply    \* bound: symbols of an LLM's answer, the mock's apart

Types == Range(TypeOf)
Symbols == Chars \cup Tokens \cup {Star, Words}
Policy == [masking_enabled : BOOLEAN, mask_types : SUBSET Types,
           mask_mode : {"token", "redact"},
           combinations : [Types -> SUBSET Types]]

ASSUME SymbolsAssumption ==
    /\ Chars \cap Tokens = {}
    /\ {Star, Words} \cap Tokens = {}
ASSUME TextsAssumption == Texts \subseteq Seq(Chars \cup Tokens)
ASSUME DetectorsAssumption ==
    DOMAIN TypeOf = Detectors /\ Priority \in [Detectors -> Nat]
ASSUME PoliciesAssumption == Policies \subseteq Policy
ASSUME BoundsAssumption == MaxSpans \in [Calls -> [1 .. 2 -> Nat]] /\ MaxReply \in Nat

\* Offsets count the symbols before; the end is exclusive.
Span == [start : Nat, end : Nat, by : Detectors]
\* (Slip: a detector counts the symbol after its match.)
SpansPast(t) ==
    {s \in [start : 0 .. Len(t), end : 2 .. Len(t) + 1, by : Detectors] :
        s.start < s.end - 1}
SpansOf(t) ==
    {s \in [start : 0 .. Len(t), end : 0 .. Len(t), by : Detectors] :
        s.start < s.end}
Value(t, s) == SubSeq(t, s.start + 1, s.end)

\* What engine.detect may return for a text: at most n spans.
Detections(n, t) == {{}} \cup {Range(d) : d \in [1 .. n -> SpansOf(t)]}

VARIABLES
    call,      \* which route the run serves
    policy,    \* the consumer's policy, as the engine was configured
    step,      \* "detect", "resolve", "replace", "llm", "restore", or how
               \*   the run ended: "done", "failed"
    round,     \* 2 for the second pass over the answer of the LLM
    source,    \* the text being masked
    todo,      \* the selected spans that resolve_spans has not come to
    accepted,  \* those it has accepted, in source order
    next,      \* the accepted span that mask_resolved comes to next
    cursor,    \* how much of the source has been rewritten
    parts,     \* the masked text so far
    drawn,     \* drawn[k]: the value that the new token k replaces
    mapping,   \* the mapping of the first pass, kept for restore
    masked,    \* the text that goes to the LLM
    warned,    \* unknown_or_missing_tokens
    answer,    \* result of the run
    selected   \* history: the selected spans

vars == <<call, policy, step, round, source, todo, accepted, next, cursor,
          parts, drawn, mapping, masked, warned, answer, selected>>

Steps == {"detect", "resolve", "replace", "llm", "restore", "done", "failed"}

TypeOK ==
    /\ call \in Calls /\ policy \in Policies
    /\ step \in Steps /\ round \in 1 .. 2
    /\ source \in Seq(Symbols)
    /\ todo \subseteq Span
    /\ accepted \in Seq(Span)
    /\ next \in 1 .. Len(accepted) + 1
    /\ cursor \in 0 .. Len(source)
    /\ parts \in Seq(Symbols)
    /\ DOMAIN drawn \subseteq Tokens /\ DOMAIN mapping \subseteq Tokens
    /\ \A k \in DOMAIN drawn : drawn[k] \in Seq(Symbols)
    /\ \A k \in DOMAIN mapping : mapping[k] \in Seq(Symbols)
    /\ masked \in Seq(Symbols)
    /\ warned \in BOOLEAN
    /\ answer \in Seq(Symbols)
    /\ selected \subseteq Span

NoMapping == [k \in {} |-> <<>>]

\* main.proxy refuses any other policy before it sends a text to the LLM.
SafeForProxy(p) ==
    /\ p.masking_enabled
    /\ p.mask_mode = "token"
    /\ \A t \in Types : p.combinations[t] = {}
    /\ p.mask_types = Types

Init ==
    /\ call \in Calls /\ policy \in Policies
    /\ call = "proxy" => SafeForProxy(policy)
    /\ step = "detect" /\ round = 1
    /\ source \in Texts
    /\ todo = {} /\ selected = {}
    /\ accepted = <<>> /\ next = 1 /\ cursor = 0 /\ parts = <<>>
    /\ drawn = NoMapping /\ mapping = NoMapping
    /\ masked = <<>> /\ warned = FALSE /\ answer = <<>>

-----------------------------------------------------------------------------
(* Detection and selection.                                                *)

IsToken(x) == x \in Tokens
TokensOf(t) == {t[i] : i \in {j \in DOMAIN t : IsToken(t[j])}}

Overlap(s, t) == s.start < t.end /\ t.start < s.end

\* _selected: the type is masked, and in the company it is masked in.
Selected(s, types) ==
    /\ policy.masking_enabled
    /\ TypeOf[s.by] \in policy.mask_types
    /\ policy.combinations[TypeOf[s.by]] \subseteq types

\* The second pass leaves the tokens of the answer alone.
TouchesToken(s) ==
    \E i \in s.start + 1 .. s.end : IsToken(source[i])

Detect ==
    /\ step = "detect"
    /\ \E S \in Detections(MaxSpans[call][round], source) :
        /\ selected' =
            IF round = 1 THEN {s \in S : Selected(s, {TypeOf[t.by] : t \in S})}
            ELSE {s \in S : ~TouchesToken(s)}
        /\ todo' = selected'
    /\ step' = "resolve"
    /\ UNCHANGED <<call, policy, round, source, accepted, next, cursor, parts,
                   drawn, mapping, masked, warned, answer>>

-----------------------------------------------------------------------------
(* resolve_spans: one round of its loop per step.                          *)

\* The order of the loop: higher priority, then earlier, then longer. (Slip:
\* the shorter first.)
BeforeShorter(s, t) ==
    \/ Priority[s.by] > Priority[t.by]
    \/ Priority[s.by] = Priority[t.by] /\ s.start < t.start
    \/ /\ Priority[s.by] = Priority[t.by] /\ s.start = t.start
       /\ s.end < t.end
Before(s, t) ==
    \/ Priority[s.by] > Priority[t.by]
    \/ Priority[s.by] = Priority[t.by] /\ s.start < t.start
    \/ /\ Priority[s.by] = Priority[t.by] /\ s.start = t.start
       /\ s.end > t.end

\* bisect_left over the starts of the accepted spans.
IsIndex(n, s) ==
    /\ \A i \in 1 .. n : accepted[i].start < s.start
    /\ \A i \in n + 1 .. Len(accepted) : accepted[i].start >= s.start

\* One of the neighbours of the index is in the way. (Slip: only the one
\* before it is looked at.)
BlockedBefore(n, s) == n > 0 /\ accepted[n].end > s.start
Blocked(n, s) ==
    \/ n > 0 /\ accepted[n].end > s.start
    \/ n < Len(accepted) /\ accepted[n + 1].start < s.end

Resolve ==
    /\ step = "resolve"
    /\ \E s \in todo, n \in 0 .. Len(accepted) :
        /\ \A t \in todo : ~Before(t, s)
        /\ IsIndex(n, s)
        /\ \/ Blocked(n, s) /\ UNCHANGED accepted
           \/ ~Blocked(n, s) /\ accepted' = InsertAt(accepted, n + 1, s)
        /\ todo' = todo \ {s}
    /\ UNCHANGED <<call, policy, step, round, source, next, cursor, parts,
                   drawn, mapping, masked, warned, answer, selected>>

EndResolve ==
    /\ step = "resolve"
    /\ todo = {}
    /\ step' = "replace"
    /\ next' = 1 /\ cursor' = 0 /\ parts' = <<>> /\ drawn' = NoMapping
    /\ UNCHANGED <<call, policy, round, source, todo, accepted, mapping,
                   masked, warned, answer, selected>>

-----------------------------------------------------------------------------
(* mask_resolved and _redact: one accepted span per step.                  *)

Redacting == round = 1 /\ policy.mask_mode = "redact"

\* Tokens that _generate_token does not return. Those of the first pass are
\* among them although the code does not keep them: 128 random bits do not
\* come twice. (Slip: the tokens of the text are not.)
OccupiedByDrawn == DOMAIN drawn \cup DOMAIN mapping
Occupied == TokensOf(source) \cup DOMAIN drawn \cup DOMAIN mapping

\* The text between the spans, which stays.
Gap(to) == SubSeq(source, cursor + 1, to)

\* mask_resolved raises ValueError. No action follows from it: NeverRejected
\* shows that no span of any run is rejected.
Reject(s) == s.start < cursor \/ s.end > Len(source)

Replace ==
    /\ step = "replace"
    /\ next <= Len(accepted)
    /\ LET s == accepted[next]
       IN  /\ \/ /\ Redacting
                 /\ parts' = parts \o Gap(s.start)
                                  \o [i \in 1 .. s.end - s.start |-> Star]
                 /\ UNCHANGED drawn
              \/ /\ ~Redacting /\ ~Reject(s)
                 /\ \E k \in Tokens \ Occupied :
                     /\ parts' = parts \o Gap(s.start) \o <<k>>
                     /\ drawn' = [j \in DOMAIN drawn \cup {k} |->
                                   IF j = k THEN Value(source, s) ELSE drawn[j]]
           /\ cursor' = s.end
    /\ next' = next + 1
    /\ UNCHANGED <<call, policy, step, round, source, todo, accepted, mapping,
                   masked, warned, answer, selected>>

\* The rest of the text follows. /process is done, /proxy goes on.
EndReplace ==
    /\ step = "replace"
    /\ next = Len(accepted) + 1
    /\ parts' = parts \o Gap(Len(source))
    /\ cursor' = Len(source)
    /\ \/ /\ call = "process"
          /\ step' = "done"
          /\ answer' = parts'
          /\ UNCHANGED <<mapping, masked>>
       \/ /\ call = "proxy" /\ round = 1
          /\ step' = "llm"
          /\ masked' = parts'
          /\ mapping' = drawn
          /\ UNCHANGED answer
       \/ /\ call = "proxy" /\ round = 2
          /\ step' = "restore"
          /\ UNCHANGED <<mapping, masked, answer>>
    /\ UNCHANGED <<call, policy, round, source, todo, accepted, next, drawn,
                   warned, selected>>

-----------------------------------------------------------------------------
(* The LLM, and what the proxy makes of its answer.                        *)

\* A text in which each symbol becomes what f makes of it.
Rewrite(t, f) == FlattenSeq([i \in DOMAIN t |-> f[t[i]]])

OnlyTokens(t) == Rewrite(t, [x \in Symbols |-> IF IsToken(x) THEN <<x>> ELSE <<>>])
NoTokens(t) == Rewrite(t, [x \in Symbols |-> IF IsToken(x) THEN <<>> ELSE <<x>>])

\* MockLLM: the tokens moved to the end, in reverse; or one of them spoilt
\* and the others lost. A text without tokens gets a set answer.
Reorder(t) ==
    IF TokensOf(t) = {} THEN <<Words>>
    ELSE <<Words>> \o NoTokens(t) \o Reverse(OnlyTokens(t))
Corrupt(t) ==
    IF TokensOf(t) = {} THEN <<Words>>
    ELSE <<Words>> \o NoTokens(t) \o <<Words>>

\* Any other adapter: words of its own and tokens, known or not.
Replies(t) ==
    {Reorder(t), Corrupt(t)} \cup BoundedSeq({Words} \cup Tokens, MaxReply)

\* The warning about tokens. (Slip: only unknown ones are reported.)
WarnUnknown(t) == ~(TokensOf(t) \subseteq DOMAIN mapping)
Warn(t) == TokensOf(t) # DOMAIN mapping

Generate ==
    /\ step = "llm"
    /\ \/ /\ \E t \in Replies(masked) : source' = t /\ warned' = Warn(t)
          /\ step' = "detect"
          /\ round' = 2
          /\ accepted' = <<>> /\ next' = 1 /\ cursor' = 0
          /\ selected' = {}
       \/ /\ step' = "failed"
          /\ UNCHANGED <<source, warned, round, accepted, next, cursor,
                         selected>>
    /\ UNCHANGED <<call, policy, todo, parts, drawn, mapping, masked, answer>>

\* restore: every whole token that the mapping knows, in one pass.
Restored(t, m) ==
    Rewrite(t, [x \in Symbols |-> IF x \in DOMAIN m THEN m[x] ELSE <<x>>])

\* What the proxy restores from. (Slip: also what the second pass took out.)
BothMappings ==
    [k \in DOMAIN mapping \cup DOMAIN drawn |->
        IF k \in DOMAIN mapping THEN mapping[k] ELSE drawn[k]]
RestoredFrom == mapping

Restore ==
    /\ step = "restore"
    /\ answer' = Restored(parts, RestoredFrom)
    /\ step' = "done"
    /\ UNCHANGED <<call, policy, round, source, todo, accepted, next, cursor,
                   parts, drawn, mapping, masked, warned, selected>>

Next ==
    \/ Detect \/ Resolve \/ EndResolve \/ Replace \/ EndReplace
    \/ Generate \/ Restore

Spec == Init /\ [][Next]_vars

-----------------------------------------------------------------------------
(* What must hold.                                                         *)

\* The accepted spans come in source order, do not overlap and lie within the
\* text, although each was compared with its two neighbours only.
Disjoint ==
    /\ \A i \in DOMAIN accepted :
        /\ accepted[i].start < accepted[i].end
        /\ accepted[i].end <= Len(source)
    /\ \A i, j \in DOMAIN accepted :
        i < j => accepted[i].end <= accepted[j].start

\* mask_resolved has no reason to raise: no text is refused because two
\* detectors found overlapping data in it.
NeverRejected ==
    step = "replace" /\ next <= Len(accepted) => ~Reject(accepted[next])

\* What resolve_spans accepts can be replaced from left to right.
ReplaceableInOrder == Disjoint /\ NeverRejected

\* The docstring of resolve_spans: a span is dropped if and only if it
\* overlaps one that was accepted and goes before it: by priority, then by
\* position, then by length.
Outranks(s, t) ==
    LET ps == Priority[s.by]
        pt == Priority[t.by]
    IN  \/ ps > pt
        \/ ps = pt /\ s.start < t.start
        \/ ps = pt /\ s.start = t.start /\ s.end >= t.end
DroppedForReason ==
    \A s \in selected \ todo :
        s \notin Range(accepted) <=>
            \E t \in Range(accepted) : t # s /\ Overlap(s, t) /\ Outranks(t, s)

\* Tokens bring back the exact text, also one that already held tokens.
RestoreExact ==
    step \in {"done", "llm", "restore"} /\ ~Redacting =>
        Restored(parts, drawn) = source

\* Redacting moves nothing: what the stars leave is where it was.
RedactAligned ==
    step = "done" /\ Redacting =>
        /\ Len(answer) = Len(source)
        /\ \A i \in DOMAIN answer :
            answer[i] = IF \E s \in Range(accepted) :
                               s.start < i /\ i <= s.end
                        THEN Star ELSE source[i]

\* In either mode the mask changes what is masked and nothing else.
MaskExact == RestoreExact /\ RedactAligned

\* What the LLM wrote and the second pass masked stays masked: the proxy gives
\* back the values of its own call only.
NewContentStaysMasked ==
    step = "done" /\ call = "proxy" =>
        \A k \in DOMAIN drawn : k \in TokensOf(answer)

\* Without a warning, every value that was taken out of the payload is back.
WarnedOrComplete ==
    step = "done" /\ call = "proxy" /\ ~warned =>
        \A k \in DOMAIN mapping :
            \E i \in 0 .. Len(answer) - Len(mapping[k]) :
                SubSeq(answer, i + 1, i + Len(mapping[k])) = mapping[k]
=============================================================================
