----------------------------- MODULE DetectionText -----------------------------
(***************************************************************************)
(* What the detectors share: texts, the words before a match, the search   *)
(* for matches, spans and the resolution of overlaps (app/detectors/base.py*)
(* and language.py, resolve_spans of app/core.py).                         *)
(*                                                                         *)
(* A text is a sequence of words with one blank between them. The kind of  *)
(* a word is what the patterns tell apart: a group of digits, a label that *)
(* some detector looks for (one of a kind stands for all of its kind, a    *)
(* word has one kind, and a label of several words counts as one), or a    *)
(* plain word. An address of electronic mail is two words, "local" and     *)
(* "domain", joined by the mark "@"; a "+" is a word, joined to the digits *)
(* behind it by the mark "+". A word is "short" if it begins with one of   *)
(* the short labels of address.py, "г", "ул" or "пр-т", which no word      *)
(* boundary ends, and its rest may be a value.                             *)
(***************************************************************************)
EXTENDS Naturals, Sequences, FiniteSets, SequencesExt, FiniteSetsExt

Marks == {"", ",", ":", "@", "+"}     \* what stands directly behind a word

Words ==
    [kind : STRING, digits : Seq(0 .. 9), stop : BOOLEAN, mark : Marks,
     short : BOOLEAN]

Word(kind, digits, stop, mark) ==
    [kind |-> kind, digits |-> digits, stop |-> stop, mark |-> mark,
     short |-> kind = "CITIZEN"]

\* Texts, as they are cut into words: the parts of an address of electronic
\* mail stand together, "+" stands before digits, "гражданин" ("CITIZEN") is
\* short and not in STOP, and numbers and the labels of addresses are not short.
WordTexts ==
    {t \in Seq(Words) : \A i \in DOMAIN t :
        /\ t[i].mark = "@" =>
              /\ t[i].kind = "local"
              /\ i + 1 \in DOMAIN t /\ t[i + 1].kind = "domain"
        /\ t[i].kind = "plus" \/ t[i].mark = "+" =>
              /\ t[i].kind = "plus" /\ t[i].mark = "+"
              /\ i + 1 \in DOMAIN t /\ t[i + 1].kind = "digits"
        /\ t[i].kind = "CITIZEN" => t[i].short /\ ~t[i].stop
        /\ t[i].short => t[i].kind \notin {"digits", "plus", "date", "code",
                                           "TOWN", "STREET", "HOUSE"}}

Kind(t, i, kinds) == i \in DOMAIN t /\ t[i].kind \in kinds

\* A group of digits.
IsGroup(t, i) == Kind(t, i, {"digits"})

\* Nothing but a blank stands between the words from the i-th to the j-th.
Joined(t, i, j) == \A k \in i .. j - 1 : t[k].mark = ""

\* SEPARATOR: a blank, or a mark that belongs to the label before it.
Separates(t, i) == t[i].mark \in {"", ":"}

\* context_before: the n words before the i-th; what is joined, such as both
\* parts of an address of electronic mail, is one of them.
JoinedToLast(t, k) == k > 1 /\ t[k - 1].mark \in {"@", "+"}
Window(t, i, n) ==
    {j \in 1 .. i - 1 :
        Cardinality({k \in j .. i - 1 : ~JoinedToLast(t, k)}) <= n}
Context(t, i, n) == {t[j].kind : j \in Window(t, i, n)}

Near(t, i, n, labels) == \E j \in Window(t, i, n) : t[j].kind \in labels

\* finditer: where the matches start, if one that starts at the i-th word ends
\* at end[i], or there is none and end[i] < i. The search goes on behind a
\* match, whatever validate says of it.
Starts(t, end) ==
    LET starts[i \in 1 .. Len(t) + 1] ==
            IF i > Len(t) THEN {}
            ELSE LET e == end[i]
                 IN  IF e < i THEN starts[i + 1] ELSE {i} \cup starts[e + 1]
    IN  starts[1]

\* Span; offsets count words. A span of the type "TAIL" is an address that
\* begins within its first word, behind a short label.
Span(i, j, type) == [start |-> i, end |-> j, type |-> type]

Inside(s, t) == t.start <= s.start /\ s.end <= t.end

-----------------------------------------------------------------------------
(* VALUE_WORD and words(n).                                                *)

\* A word of letters that does not belong to the next field. (Slip: it may.)
ValueWordAny(w) == w.kind \notin {"digits", "plus", "date", "code", "domain"}
ValueWord(w) ==
    w.kind \notin {"digits", "plus", "date", "code", "domain"} /\ ~w.stop

\* The last of the value words from the i-th on, n of them at most, none of a
\* kind in the set `but`; i - 1 if there is none.
RunEnd(t, i, n, but) ==
    Max({i - 1} \cup
        {j \in i .. Min({Len(t), i + n - 1}) :
            /\ Joined(t, i, j)
            /\ \A k \in i .. j : ValueWord(t[k]) /\ t[k].kind \notin but})

-----------------------------------------------------------------------------
(* resolve_spans.                                                          *)

\* The detectors' priorities. (Slip: names go before addresses.)
PrioritySwapped(s) ==
    CASE s.type \in {"CVV", "PIN"} -> 60
      [] s.type \in {"CARD", "PASSPORT", "DRIVING_LICENSE", "DIVISION_CODE"}
            -> 50
      [] s.type = "ISSUING_AUTHORITY" -> 45
      [] s.type \in {"BIRTH_DATE", "ISSUE_DATE", "INN"} -> 40
      [] s.type \in {"BIRTH_PLACE", "CITIZENSHIP"} -> 35
      [] s.type \in {"PHONE", "ADDRESS", "TAIL", "CARD_HOLDER"} -> 20
      [] s.type \in {"PERSON", "LOCATION"} -> 30
      [] s.type = "EMAIL" -> 0
Priority(s) ==
    CASE s.type \in {"CVV", "PIN"} -> 60
      [] s.type \in {"CARD", "PASSPORT", "DRIVING_LICENSE", "DIVISION_CODE"}
            -> 50
      [] s.type = "ISSUING_AUTHORITY" -> 45
      [] s.type \in {"BIRTH_DATE", "ISSUE_DATE", "INN"} -> 40
      [] s.type \in {"BIRTH_PLACE", "CITIZENSHIP"} -> 35
      [] s.type \in {"PHONE", "ADDRESS", "TAIL", "CARD_HOLDER"} -> 30
      [] s.type \in {"PERSON", "LOCATION"} -> 20
      [] s.type = "EMAIL" -> 0

\* The order of the detectors in the engine, to which a stable sort leaves
\* spans that have everything else in common.
DetectorOrder ==
    <<"LOCATION", "PERSON", "BIRTH_DATE", "BIRTH_PLACE", "PASSPORT",
      "CITIZENSHIP", "ISSUING_AUTHORITY", "DIVISION_CODE", "ISSUE_DATE",
      "DRIVING_LICENSE", "ADDRESS", "EMAIL", "PHONE", "INN", "CARD", "CVV",
      "PIN", "CARD_HOLDER", "TAIL">>
Types == Range(DetectorOrder)
Rank(s) == CHOOSE n \in DOMAIN DetectorOrder : DetectorOrder[n] = s.type

Offset(s) == 2 * s.start + (IF s.type = "TAIL" THEN 1 ELSE 0)
Key(s) == <<100 - Priority(s), Offset(s), 100 - s.end, Rank(s)>>
Before(s, t) ==
    \E n \in 1 .. 4 :
        /\ \A k \in 1 .. n - 1 : Key(s)[k] = Key(t)[k]
        /\ Key(s)[n] < Key(t)[n]

\* A span that has any part of a short word has its tail.
Overlap(s, t) == s.start <= t.end /\ t.start <= s.end

\* The first span is accepted, and those that overlap it are not.
Resolved(S) ==
    LET resolved[R \in SUBSET S] ==
            IF R = {} THEN {}
            ELSE LET s == CHOOSE r \in R : \A t \in R \ {r} : Before(r, t)
                 IN  {s} \cup resolved[{t \in R \ {s} : ~Overlap(s, t)}]
    IN  resolved[S]

\* The i-th word is masked as a whole.
Masks(A, i) ==
    \E s \in A : /\ s.start <= i /\ i <= s.end
                 /\ s.type = "TAIL" => s.start < i
=============================================================================
