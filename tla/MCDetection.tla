------------------------------ MODULE MCDetection ------------------------------
(***************************************************************************)
(* Texts for Detection: every sequence of a few parts from one of several  *)
(* vocabularies, each of which brings together detectors that look at the  *)
(* same words. A part is one word, or several that occur together.         *)
(***************************************************************************)
EXTENDS Detection, TLC

G(digits) == Word("digits", digits, FALSE, "")
Plus == Word("plus", <<>>, FALSE, "+")
Label(kind) == Word(kind, <<>>, FALSE, "")
StopLabel(kind) == Word(kind, <<>>, TRUE, "")
Colon(w) == [w EXCEPT !.mark = ":"]
Comma(w) == [w EXCEPT !.mark = ","]
Short(w) == [w EXCEPT !.short = TRUE]

Value == Label("value")
Email == <<Word("local", <<>>, FALSE, "@"), Label("domain")>>

\* 4111 1111 1111 1111 passes the checksum.
G3 == G(<<1, 2, 3>>)
G4 == G(<<1, 1, 1, 1>>)
CardParts ==
    {<<G(<<4, 1, 1, 1>>), G4>>, <<G4, G4>>, <<G4>>, <<G3>>,
     <<Label("CARD")>>, <<StopLabel("CVV")>>, <<Label("PIN")>>,
     <<Value>>}

G6 == G(<<1, 2, 3, 4, 5, 6>>)
DocumentParts ==
    {<<G4>>, <<G(<<4, 5>>), G(<<0, 9>>)>>, <<G6>>,
     <<Label("NUMBER"), G6>>, <<Label("NUMBER")>>, <<Label("SERIES")>>,
     <<Plus, G6>>, <<StopLabel("PASSPORT")>>, <<Label("DRIVING")>>,
     <<Label("PRODUCT")>>, <<Label("PIN")>>}

G10 == G(<<7, 7, 0, 7, 0, 8, 3, 8, 9, 3>>)
G11 == G(<<8, 9, 1, 2, 3, 4, 5, 6, 7, 8, 9>>)
PhoneParts ==
    {<<G(<<8>>)>>, <<Plus, G(<<7>>)>>, <<G3, G3>>,
     <<G(<<6, 7>>), G(<<8, 9>>)>>, <<G10>>, <<G11>>,
     <<StopLabel("PHONE")>>, <<Label("INN")>>, <<StopLabel("CVV")>>,
     <<StopLabel("PASSPORT")>>}

FieldParts ==
    {<<Label("CLIENT")>>, <<Colon(StopLabel("CUSTOMER"))>>,
     <<Short(StopLabel("CITIZENSHIP"))>>, <<Label("BIRTH_PLACE")>>,
     <<Label("CARD_HOLDER")>>, <<Colon(Label("NAME_PART"))>>,
     <<StopLabel("ISSUING"), Label("AUTHORITY")>>, <<Label("date")>>,
     <<Value>>, <<Value, Value>>, <<Value, Comma(Value)>>,
     <<Short(Value), Value>>, Email}

\* The labels of dates and of codes of departments, and what NER adds.
MixedParts ==
    {<<StopLabel("BIRTH_DATE")>>, <<StopLabel("ISSUE_DATE")>>,
     <<Label("date")>>, <<StopLabel("DIVISION_CODE")>>,
     <<Label("code")>>, <<Label("CITIZEN")>>, <<Label("COUNTRY")>>,
     <<Label("WRITER")>>, <<Value>>, <<Label("PATRONYMIC")>>}

AddressParts ==
    {<<Label("TOWN"), Value>>, <<Label("TOWN"), Comma(Value)>>,
     <<Colon(Label("TOWN"))>>, <<Label("STREET")>>, <<G3>>, <<Value>>,
     <<Label("HOUSE"), G3>>, <<Label("OFFICE")>>, <<Colon(Label("HOME"))>>,
     <<StopLabel("LIVES")>>, <<Label("CLIENT")>>, <<Short(Value)>>,
     <<Label("ROAD")>>}

Vocabularies ==
    {CardParts, DocumentParts, PhoneParts, FieldParts, MixedParts, AddressParts}

MaxParts == 4     \* bound: parts of a text

MCTexts ==
    {FlattenSeq(s) :
        s \in UNION {BoundedSeq(parts, MaxParts) : parts \in Vocabularies}}
=============================================================================
