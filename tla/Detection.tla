------------------------------- MODULE Detection -------------------------------
(***************************************************************************)
(* One text in MaskingEngine.mask (app/engine.py): the detectors look for  *)
(* spans, each in the whole text, and resolve_spans decides which of those *)
(* that overlap are masked. MaskRun takes it from there.                   *)
(***************************************************************************)
EXTENDS NumberDetectors, FieldDetectors

CONSTANT
    Texts   \* the texts to be masked

ASSUME TextsAssumption == Texts \subseteq WordTexts

VARIABLES
    text,       \* the text
    step,       \* "detect", "resolve" or "done"
    entities,   \* spans of the entities that NER added
    found,      \* spans of the other detectors
    accepted    \* spans that resolve_spans accepted

vars == <<text, step, entities, found, accepted>>

Spans == [start : Nat, end : Nat, type : Types]

TypeOK ==
    /\ text \in WordTexts
    /\ step \in {"detect", "resolve", "done"}
    /\ entities \cup found \subseteq Spans
    /\ accepted \subseteq entities \cup found
    /\ \A s \in entities \cup found :
          s.start >= 1 /\ s.start <= s.end + 1 /\ s.end <= Len(text)

Init ==
    /\ text \in Texts
    /\ step = "detect"
    /\ entities = {} /\ found = {} /\ accepted = {}

\* Natasha may take any words for the name of a person or of a place, labels
\* and parts of an address of electronic mail among them, or may not be
\* installed. One entity at most is found in a text here.
Names(t) ==
    {s \in [start : DOMAIN t, end : DOMAIN t, type : {"PERSON", "LOCATION"}] :
        s.start <= s.end}

NumericTypes == {"BIRTH_DATE", "ISSUE_DATE", "PASSPORT", "DRIVING_LICENSE",
                 "DIVISION_CODE", "PHONE", "INN", "CARD", "CVV", "PIN"}

\* MaskingEngine.detect passes over these in a text without digits.
Found(t) ==
    IF \E i \in DOMAIN t : IsGroup(t, i) \/ t[i].kind \in {"date", "code"}
    THEN NumberSpans(t) \cup Emails(t) \cup FieldSpans(t)
    ELSE Emails(t) \cup FieldSpans(t)

Detect ==
    /\ step = "detect"
    /\ found' = Found(text)
    /\ \/ entities' = {}
       \/ \E s \in Names(text) :
             IsPersonal(text, s.start) /\ entities' = {s}
    /\ step' = "resolve"
    /\ UNCHANGED <<text, accepted>>

Resolve ==
    /\ step = "resolve"
    /\ accepted' = Resolved(found \cup entities)
    /\ step' = "done"
    /\ UNCHANGED <<text, entities, found>>

Next == Detect \/ Resolve

Spec == Init /\ [][Next]_vars

-----------------------------------------------------------------------------
(* What must hold.                                                         *)

Masked(i) == Masks(accepted, i)
AllMasked(i, j) == step = "done" => \A k \in i .. j : Masked(k)

\* The checksum tells a card number from one that is wrong in one digit.
LuhnCatchesTypos ==
    \A s \in found :
        LET ds == Digits(text, s.start, s.end)
        IN  s.type = "CARD" /\ Luhn(ds) =>
                \A k \in DOMAIN ds, d \in (0 .. 9) :
                    d # ds[k] => ~Luhn([ds EXCEPT ![k] = d])

\* A code is masked when its label is next to it or one word away, whatever
\* else the same digits are part of.
LabelledCodesMasked ==
    \A i \in DOMAIN text, j \in 1 .. 2 :
        /\ IsGroup(text, i) /\ i - j \in DOMAIN text
        /\ \/ Len(text[i].digits) = 3 /\ text[i - j].kind = "CVV"
           \/ Len(text[i].digits) = 4 /\ text[i - j].kind = "PIN"
        => AllMasked(i, i)

\* A number directly behind its label, with no digits behind it and no label
\* of a code, a taxpayer or a document near it, which may claim a part of it.
Alone(i, j, label) ==
    /\ Kind(text, i - 1, {label}) /\ ~IsGroup(text, j + 1)
    /\ ~Near(text, i, 2, {"CVV", "PIN"})
    /\ label = "PHONE" => /\ ~Near(text, j, 4, {"INN"})
                          /\ ~Near(text, i, 6, {"PASSPORT", "DRIVING"})

\* Such a number is masked as a whole, whichever detector takes it, although
\* detectors with other lengths, windows and priorities look at the same
\* digits.
LabelledNumbersMasked ==
    \A i, j \in DOMAIN text :
        /\ i <= j
        /\ \/ /\ Number(text, i, j, 13 .. 19, {4, 8, 12, 16})
              /\ Alone(i, j, "CARD")
           \/ /\ Number(text, i, j, {11}, {1, 4, 7, 9})
              /\ text[i].digits[1] = 8
              /\ Alone(i, j, "PHONE")
           \/ i = j /\ Number(text, i, i, {10, 12}, {}) /\ Alone(i, i, "INN")
           \/ Number(text, i, j, {10}, {2, 4}) /\ Alone(i, j, "DRIVING")
        => AllMasked(i, j)

\* Parts of a passport's number that stand apart are masked with the word
\* "passport" before them, also when it is part of the label of the number;
\* so is a number whose series stands before the label.
DocumentPartsMasked ==
    \A i \in DOMAIN text :
        LET before == Context(text, i, 6)
            part == \/ i > 1 /\ Kind(text, i - 1, {"NUMBER"}) /\ SixDigits(text, i)
                    \/ /\ i > 2 /\ Kind(text, i - 1, {"PASSPORT"})
                       /\ Kind(text, i - 2, {"NUMBER"}) /\ SixDigits(text, i)
        IN  /\ part /\ Separates(text, i - 1) /\ (i > 2 => text[i - 2].mark = "")
            /\ "PASSPORT" \in before
            /\ before \cap {"PRODUCT", "CVV", "PIN"} = {}
            => AllMasked(i, i)

\* Whatever stands around it, a labelled number is masked.
NumbersMasked ==
    step = "done" =>
        LabelledCodesMasked /\ LabelledNumbersMasked /\ DocumentPartsMasked

\* A field begins with a label that no value before it runs into, as the city
\* behind a street in the English order may.
Opens(i) ==
    \/ i = 1 \/ text[i].stop
    \/ text[i - 1].mark = "," /\ text[i - 1].kind # "ROAD"
    \/ text[i - 1].mark = ":" /\ text[i - 1].kind \in {"HOME", "OFFICE"}

\* ... and its value ends where the text, the sentence or the next field does.
Ends(j) == j = Len(text) \/ text[j].mark = "," \/ text[j + 1].stop

FieldSizes ==
    [k \in {"CLIENT", "CUSTOMER", "CARD_HOLDER", "CITIZENSHIP", "BIRTH_PLACE"} |->
        IF k \in {"CITIZENSHIP", "BIRTH_PLACE"} THEN 1 .. 4 ELSE 2 .. 4]

\* Names have the lowest priority of these fields. No address begins within a
\* word of this one, and no entity that runs over its label ends within it.
Undisputed(i, j) ==
    /\ \A k \in i + 1 .. j : ~text[k].short
    /\ \A e \in entities : e.start <= i => e.end \notin i + 1 .. j - 1

\* The value of such a field is masked as a whole, whatever fields stand
\* around it: no value runs over the label of the next field, and no detector
\* takes a part of it away from another, names excepted that are disputed.
FieldsMasked ==
    \A i, j \in DOMAIN text :
        /\ text[i].kind \in DOMAIN FieldSizes /\ Separates(text, i) /\ Opens(i)
        /\ j - i \in FieldSizes[text[i].kind] /\ Ends(j)
        /\ Joined(text, i + 1, j)
        /\ \A k \in i + 1 .. j : text[k].kind = "value" /\ ~text[k].stop
        /\ text[i].kind \in {"CLIENT", "CUSTOMER"} => Undisputed(i, j)
        => AllMasked(i + 1, j)

\* The number in the name of a street is not taken for another, which would
\* take the rest of the name away.
Spared(p) ==
    IsGroup(text, p[1]) /\ p[1] < p[2] =>
        \A s \in NumberSpans(text) : ~Overlap(s, Span(p[1], p[2], "ADDRESS"))

\* An address of two components or more is masked if the label of a person or
\* a home stands nearer before it than that of an office, or neither does. It
\* is an address of its own, of labels, words and numbers. (A street in the
\* English order may take a part of it away.) Of a component that begins within
\* a word nothing is said.
HomeAddressesMasked ==
    \A i \in DOMAIN text :
        LET office == {j \in Window(text, i, 12) : text[j].kind = "OFFICE"}
            homes == {j \in Window(text, i, 12) : text[j].kind \in HomeLabels}
        IN  /\ Opens(i) /\ Kind(text, i, AddressLabels)
            /\ \A k \in 1 .. i - 1 : ChainEnd(text, k) < i
            /\ \A k \in i .. ChainEnd(text, i) :
                  text[k].kind \in AddressLabels \cup {"digits", "value"}
            /\ \A j \in office : \E k \in homes : j < k
            /\ \A j \in DOMAIN text : text[j].kind # "ROAD"
            /\ Cardinality(Chain(text, i)) >= 2
            => \A p \in Chain(text, i) :
                  p[3] = "ADDRESS" /\ Spared(p) => AllMasked(p[1], p[2])

\* Whatever stands around it, a labelled field in words is masked.
WordsMasked == step = "done" => FieldsMasked /\ HomeAddressesMasked

\* An entity takes away nothing but names and addresses of electronic mail. It
\* only adds to what is masked if it cuts none of those: each that it overlaps
\* goes before it or lies inside it.
NerOnlyAdds ==
    step = "done" =>
        LET without == Resolved(found)
            weak(s) == s.type \in {"PERSON", "EMAIL"}
            cut(s) == \E e \in entities :
                         Overlap(e, s) /\ ~Before(s, e) /\ ~Inside(s, e)
        IN  /\ {s \in without : ~weak(s)} \subseteq accepted
            /\ (\A s \in without : weak(s) => ~cut(s)) =>
                  \A i \in DOMAIN text : Masks(without, i) => Masked(i)
=============================================================================
