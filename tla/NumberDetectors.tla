---------------------------- MODULE NumberDetectors ----------------------------
(***************************************************************************)
(* The detectors of numbers: cards, codes and PINs (card.py), telephones   *)
(* (phone.py), taxpayers (inn.py), passports and driving licences          *)
(* (passport.py, driving.py), dates (dates.py) and electronic mail         *)
(* (email.py). Dates, codes of departments and addresses of electronic     *)
(* mail are words of their own here.                                       *)
(***************************************************************************)
EXTENDS DetectionText

\* The groups from the i-th word to the j-th, as one number.
Digits(t, i, j) == FlattenSeq([k \in 1 .. j - i + 1 |-> t[i + k - 1].digits])

\* They are a number with blanks after these counts of digits at most.
Number(t, i, j, lengths, cuts) ==
    /\ IsGroup(t, i) /\ j \in DOMAIN t
    /\ \A k \in i + 1 .. j : t[k].kind = "digits"
    /\ Joined(t, i, j)
    /\ Len(Digits(t, i, j)) \in lengths
    /\ \A k \in i .. j - 1 : Len(Digits(t, i, k)) \in cuts

\* Patterns are greedy: where the longest such number ends, 0 if there is none.
LongestEnd(t, i, lengths, cuts) ==
    Max({0} \cup {j \in i .. Len(t) : Number(t, i, j, lengths, cuts)})

-----------------------------------------------------------------------------
(* card.py.                                                                *)

\* _luhn_ok: every second digit from the right is doubled, the digits of the
\* double added up. (Slip: only its last digit counts.)
DoubleModulo(d) == (2 * d) % 10
Double(d) == IF 2 * d > 9 THEN 2 * d - 9 ELSE 2 * d
Weight(ds, i) == IF (Len(ds) - i) % 2 = 1 THEN Double(ds[i]) ELSE ds[i]
Luhn(ds) ==
    LET total[i \in 0 .. Len(ds)] ==
            IF i = 0 THEN 0 ELSE total[i - 1] + Weight(ds, i)
    IN  total[Len(ds)] % 10 = 0

CardLabels == {"CARD", "CARD_HOLDER"}   \* "card", "cardholder"

\* Three or four groups of four digits, then up to three digits.
CardEnd(t, i) == LongestEnd(t, i, 12 .. 19, {4, 8, 12, 16})

CardValid(t, i, j) ==
    /\ Len(Digits(t, i, j)) \in 13 .. 19
    /\ Luhn(Digits(t, i, j)) \/ Near(t, i, 2, CardLabels)

Cards(t) ==
    {Span(i, CardEnd(t, i), "CARD") :
        i \in {k \in Starts(t, [n \in DOMAIN t |-> CardEnd(t, n)]) :
                  CardValid(t, k, CardEnd(t, k))}}

\* A group of n digits near the label of a code. (Slip: the word behind it
\* belongs to the span.)
CodesPast(t, type, n) ==
    {Span(i, i + 1, type) :
        i \in {k \in DOMAIN t : /\ IsGroup(t, k) /\ Len(t[k].digits) = n
                                /\ Near(t, k, 2, {type})}}
Codes(t, type, n) ==
    {Span(i, i, type) :
        i \in {k \in DOMAIN t : /\ IsGroup(t, k) /\ Len(t[k].digits) = n
                                /\ Near(t, k, 2, {type})}}

-----------------------------------------------------------------------------
(* phone.py and inn.py.                                                    *)

PhoneLengths == {11}
PhoneCuts == {1, 4, 7, 9}

\* A Russian number, from +7 or 8.
PhoneEnd(t, i) ==
    LET first == IF Kind(t, i, {"plus"}) THEN i + 1 ELSE i
    IN  IF IsGroup(t, first)
           /\ t[first].digits[1] \in {IF first = i THEN 8 ELSE 7}
        THEN LongestEnd(t, first, PhoneLengths, PhoneCuts) ELSE 0

\* Any number from + on, of 8 to 15 digits with blanks anywhere.
InternationalEnd(t, i) ==
    IF Kind(t, i, {"plus"}) THEN LongestEnd(t, i + 1, 8 .. 15, 1 .. 15) ELSE 0

Phones(t) ==
    LET russian ==
            {Span(i, PhoneEnd(t, i), "PHONE") :
                i \in {k \in Starts(t, [n \in DOMAIN t |-> PhoneEnd(t, n)]) :
                          t[k].kind = "plus" \/ Near(t, k, 2, {"PHONE"})}}
        international ==
            {Span(i, InternationalEnd(t, i), "PHONE") :
                i \in {k \in Starts(t, [n \in DOMAIN t |-> InternationalEnd(t, n)]) :
                          Near(t, k, 3, {"PHONE"})}}
    IN  russian \cup {s \in international : ~\E r \in russian : Inside(s, r)}

Inns(t) ==
    {Span(i, i, "INN") :
        i \in {k \in DOMAIN t : /\ Number(t, k, k, {10, 12}, {})
                                /\ Near(t, k, 4, {"INN"})}}

-----------------------------------------------------------------------------
(* passport.py and driving.py.                                             *)

Series(t, i, j) == Number(t, i, j, {4}, {2})
SixDigits(t, i) == Number(t, i, i, {6}, {})

\* PassportDetector.validate and DrivingLicenseDetector.validate.
Personal(t, i, type) ==
    LET before == Context(t, i, 6)
    IN  IF type = "DRIVING_LICENSE" THEN "DRIVING" \in before
        ELSE "PASSPORT" \in before /\ before \cap {"DRIVING", "PRODUCT"} = {}

\* Series and number, with or without the word "number" between them: the
\* last word of the series (0 if the word is not there) and of the number.
Documents(t, i) ==
    {<<0, LongestEnd(t, i, {10}, {2, 4})>>} \cup
    {<<j, j + 2>> : j \in {k \in i .. Len(t) :
        /\ Series(t, i, k) /\ SixDigits(t, k + 2)
        /\ Kind(t, k + 1, {"NUMBER"}) /\ Joined(t, k, k + 2)}}
Document(t, i) == CHOOSE d \in Documents(t, i) :
                      \A e \in Documents(t, i) : e[2] <= d[2]

WholeDocuments(t, type) ==
    UNION {LET d == Document(t, i)
           IN  IF d[1] = 0 THEN {Span(i, d[2], type)}
               ELSE {Span(i, d[1], type), Span(d[2], d[2], type)} :
               i \in {k \in Starts(t, [n \in DOMAIN t |-> Document(t, n)[2]]) :
                         Personal(t, k, type)}}

\* A series or a number behind a label of its own: <<label, value, end>>; the
\* word "passport" may stand between "number" and the value.
PartValue(t, i) ==
    IF Kind(t, i, {"NUMBER"}) /\ t[i].mark = "" /\ Kind(t, i + 1, {"PASSPORT"})
    THEN i + 2 ELSE i + 1
Parts(t) ==
    UNION {{<<i, PartValue(t, i), e>> : e \in {k \in PartValue(t, i) .. Len(t) :
                /\ Separates(t, PartValue(t, i) - 1)
                /\ \/ t[i].kind = "SERIES" /\ Series(t, PartValue(t, i), k)
                   \/ /\ t[i].kind = "NUMBER" /\ k = PartValue(t, i)
                      /\ SixDigits(t, k)}} : i \in DOMAIN t}

\* Parts are validated at the value. (Slip: at the label.)
PartPersonalAtLabel(t, p, type) == Personal(t, p[1], type)
PartPersonal(t, p, type) == Personal(t, p[2], type)

DocumentNumbers(t, type) ==
    LET whole == WholeDocuments(t, type)
        parts == {Span(p[2], p[3], type) :
                     p \in {q \in Parts(t) : PartPersonal(t, q, type)}}
    IN  whole \cup {s \in parts : ~\E w \in whole : Inside(s, w)}

-----------------------------------------------------------------------------
(* dates.py, DivisionCodeDetector and email.py.                            *)

\* A word of a kind, near one of its labels.
Valued(t, kind, labels, type) ==
    {Span(i, i, type) :
        i \in {k \in DOMAIN t : t[k].kind = kind /\ Near(t, k, 3, labels)}}

IssueLabels == {"ISSUE_DATE", "ISSUING"}    \* "дата выдачи", "выдан"

Emails(t) ==
    {Span(i, i + 1, "EMAIL") : i \in {k \in DOMAIN t : t[k].mark = "@"}}

NumberSpans(t) ==
    UNION {Cards(t), Codes(t, "CVV", 3), Codes(t, "PIN", 4), Phones(t), Inns(t),
           DocumentNumbers(t, "PASSPORT"), DocumentNumbers(t, "DRIVING_LICENSE"),
           Valued(t, "date", {"BIRTH_DATE"}, "BIRTH_DATE"),
           Valued(t, "date", IssueLabels, "ISSUE_DATE"),
           Valued(t, "code", {"DIVISION_CODE"}, "DIVISION_CODE")}
=============================================================================
