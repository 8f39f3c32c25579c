----------------------------- MODULE FieldDetectors -----------------------------
(***************************************************************************)
(* The detectors of fields in words: names (person.py, cardholder.py),     *)
(* citizenship (citizenship.py), authorities (issuing.py), addresses and   *)
(* birth places (address.py), and what is kept of the entities that        *)
(* Natasha recognises (ner.py).                                            *)
(*                                                                         *)
(* Initials, "г." before a birth place and postcodes are left out, and so  *)
(* are short labels behind a hyphen or a dot within a word.                *)
(***************************************************************************)
EXTENDS DetectionText

Separators == {"", ":"}

\* The values, of least to most value words, of the fields that open with one
\* of the labels, behind which stands one of the marks.
Fields(t, labels, marks, least, most, type) ==
    LET end == [i \in DOMAIN t |->
                   LET e == RunEnd(t, i + 1, most, {})
                   IN  IF /\ t[i].kind \in labels /\ t[i].mark \in marks
                          /\ e >= i + least
                       THEN e ELSE 0]
    IN  {Span(i + 1, end[i], type) : i \in Starts(t, end)}

-----------------------------------------------------------------------------
(* person.py, cardholder.py, citizenship.py, BirthPlaceDetector.           *)

\* "клиент" and "customer", which no value goes on with, and "гражданин".
PersonLabels == {"CLIENT", "CUSTOMER", "CITIZEN"}

\* Behind labels, or, for one word of a name, behind its label and a colon.
LabelledPersons(t) ==
    Fields(t, PersonLabels, Separators, 2, 4, "PERSON")
    \cup Fields(t, {"NAME_PART"}, {":"}, 1, 4, "PERSON")

\* A text of three words, one of them a patronymic, is a name if nothing in it
\* is labelled as one.
WholeText(t) ==
    IF Len(t) = 3 /\ RunEnd(t, 1, 3, {}) = 3 /\ t[3].mark = ""
       /\ \E i \in DOMAIN t : t[i].kind = "PATRONYMIC"
    THEN {Span(1, 3, "PERSON")} ELSE {}

Persons(t) ==
    LET labelled == LabelledPersons(t)
    IN  IF labelled = {} THEN WholeText(t) ELSE labelled

Citizenships(t) ==
    Fields(t, {"CITIZENSHIP"}, Separators, 1, 4, "CITIZENSHIP")
    \cup {Span(i, i, "CITIZENSHIP") :
            i \in {k \in 2 .. Len(t) :
                      /\ t[k].kind = "COUNTRY" /\ t[k - 1].kind = "CITIZEN"
                      /\ Separates(t, k - 1)}}

-----------------------------------------------------------------------------
(* issuing.py: from the name of an authority behind its label to a comma,  *)
(* to digits or to the label of another field.                             *)

Borders == {"ISSUING", "ISSUE_DATE", "DIVISION_CODE", "PASSPORT", "PHONE",
            "digits", "date", "code"}

\* The first word that does not belong to the value.
AuthorityBorder(t, i) ==
    Min({Len(t) + 1} \cup
        {k \in i + 1 .. Len(t) : t[k - 1].mark = "," \/ t[k].kind \in Borders})

Authorities(t) ==
    {Span(i, AuthorityBorder(t, i) - 1, "ISSUING_AUTHORITY") :
        i \in {k \in 2 .. Len(t) :
                  /\ t[k].kind = "AUTHORITY" /\ t[k - 1].kind = "ISSUING"
                  /\ Separates(t, k - 1)}}

-----------------------------------------------------------------------------
(* AddressDetector. TOWN, STREET and HOUSE are the labels of components    *)
(* that the patterns of address.py look for.                               *)

AddressLabels == {"TOWN", "STREET", "HOUSE"}
AddressEnd(t, i) == RunEnd(t, i, 5, AddressLabels)

HouseNumber(t, i) == Kind(t, i, {"digits"})

\* Values behind a label: words, for a street perhaps with a number before.
AddressValues(t, i) ==
    {<<i + 1, e>> : e \in {AddressEnd(t, i + 1)} \ {i}}
    \cup {<<i + 1, e>> : e \in
            IF t[i].kind = "STREET" /\ HouseNumber(t, i + 1)
               /\ t[i + 1].mark = "" /\ AddressEnd(t, i + 2) > i + 1
            THEN {AddressEnd(t, i + 2)} ELSE {}}

\* The end of a value that begins with the rest of a short word.
TailEnd(t, i) ==
    IF t[i].mark = "" /\ t[i].kind # "domain"
    THEN RunEnd(t, i + 1, 4, AddressLabels) ELSE i

\* The component at the i-th word, as a set of at most one value: the first and
\* the last word, and whether it begins within the first. No word boundary
\* follows the short labels: "г" is found in "гражданин" or "Глеб", the rest of
\* which begins a value, and in a "город" without a value, of which nothing is
\* left once the label is taken off.
LabelledComponent(t, i) ==
    IF ~Kind(t, i, AddressLabels) THEN {}
    ELSE IF t[i].kind = "HOUSE"
    THEN IF t[i].mark = "" /\ HouseNumber(t, i + 1)
         THEN {<<i + 1, i + 1, "ADDRESS">>} ELSE {}
    ELSE {<<p[1], p[2], "ADDRESS">> :
             p \in IF t[i].mark = "" /\ AddressValues(t, i) # {}
                   THEN AddressValues(t, i) ELSE {<<i + 1, i>>}}
Component(t, i) ==
    IF i \in DOMAIN t /\ t[i].short THEN {<<i, TailEnd(t, i), "TAIL">>}
    ELSE LabelledComponent(t, i)

\* The components that follow each other from the i-th word on; a domain goes
\* on with a dot.
GoesOn(t, j) ==
    j \in DOMAIN t /\ t[j].mark \in {"", ","} /\ t[j].kind # "domain"
Chain(t, i) ==
    LET chain[k \in i .. Len(t) + 1] ==
            UNION {{p} \cup IF GoesOn(t, p[2]) THEN chain[p[2] + 1] ELSE {} :
                      p \in Component(t, k)}
    IN  chain[i]
ChainEnd(t, i) == Max({0} \cup {p[2] : p \in Chain(t, i)})

\* _public_context: the nearer label tells whose address it is.
HomeLabels == {"CLIENT", "CUSTOMER", "HOME", "LIVES"}
Public(t, i) ==
    LET last(kinds) == Max({0} \cup {j \in Window(t, i, 12) : t[j].kind \in kinds})
    IN  last({"OFFICE"}) > last(HomeLabels)

AddressValid(t, i) ==
    /\ ~Public(t, i)
    /\ Cardinality(Chain(t, i)) >= 2 \/ Near(t, i, 10, {"ADDRESS", "LIVES"})

\* A label and a colon; a street, here, with or without its number.
LabelledValues(t, i) ==
    IF Kind(t, i, AddressLabels) /\ t[i].mark = ":"
    THEN AddressValues(t, i)
         \cup IF HouseNumber(t, i + 1) THEN {<<i + 1, i + 1>>} ELSE {}
    ELSE {}

\* House, street and perhaps city in the English order: 5 Baker Road, London.
EnglishValues(t, i) ==
    LET roads == {k \in i + 2 .. RunEnd(t, i + 1, 6, {}) : t[k].kind = "ROAD"}
        city == RunEnd(t, Max(roads) + 1, 4, {})
    IN  IF ~HouseNumber(t, i) \/ t[i].mark # "" \/ roads = {} THEN {}
        ELSE {<<i, i>>, <<i + 1, Max(roads) - 1>>} \cup
             IF t[Max(roads)].mark = "," /\ city > Max(roads)
             THEN {<<Max(roads) + 1, city>>} ELSE {}

Addresses(t) ==
    LET chains == {i \in Starts(t, [k \in DOMAIN t |-> ChainEnd(t, k)]) : AddressValid(t, i)}
        others == {i \in DOMAIN t : ~Public(t, i)}
    IN  {Span(p[1], p[2], p[3]) : p \in UNION {Chain(t, i) : i \in chains}}
        \cup {Span(p[1], p[2], "ADDRESS") :
                 p \in UNION {LabelledValues(t, i) \cup EnglishValues(t, i) :
                                 i \in others}}
        \cup {s \in Fields(t, {"LIVES"}, {""}, 1, 4, "ADDRESS") :
                 s.start - 1 \in others}

-----------------------------------------------------------------------------
(* ner.py: an entity is kept in a personal context that is not literary.   *)

NerLabels == {"CLIENT", "CITIZEN", "LIVES", "PASSPORT", "ADDRESS",
              "BIRTH_DATE", "ISSUING"}
IsPersonal(t, i) == ~Near(t, i, 6, {"WRITER", "STREET"}) /\ Near(t, i, 6, NerLabels)

FieldSpans(t) ==
    UNION {Persons(t), Citizenships(t), Authorities(t), Addresses(t),
           Fields(t, {"BIRTH_PLACE"}, Separators, 1, 4, "BIRTH_PLACE"),
           Fields(t, {"CARD_HOLDER"}, Separators, 2, 4, "CARD_HOLDER")}
=============================================================================
