------------------------------ MODULE MCMaskRun ------------------------------
(***************************************************************************)
(* Small instances of MaskRun: texts of three symbols, one of them with a  *)
(* token that the client made up.                                          *)
(***************************************************************************)
EXTENDS MaskRun, TLC

CONSTANTS a, b, c, t1, t2, t3, t4

MCTexts == {<<a, b, c, a>>, <<a, t1, b>>}

\* Two detectors of one type, as the NER one and the one of addresses are.
MCDetectors == {"ner", "address", "pin"}
MCTypeOf == ("ner" :> "ADDRESS") @@ ("address" :> "ADDRESS") @@ ("pin" :> "PIN")
MCPriority == ("ner" :> 20) @@ ("address" :> 30) @@ ("pin" :> 60)

Alone == [t \in Types |-> {}]
Full == [masking_enabled |-> TRUE, mask_types |-> Types,
         mask_mode |-> "token", combinations |-> Alone]
Redact == [Full EXCEPT !.mask_mode = "redact"]
InCompany == [Full EXCEPT !.combinations["PIN"] = {"ADDRESS"}]
AddressesOnly == [Full EXCEPT !.mask_types = {"ADDRESS"}]
Off == [Full EXCEPT !.masking_enabled = FALSE]

MCPolicies == {Full, Redact, InCompany, AddressesOnly, Off}

\* Three spans for the core; two for the proxy, and one in its answer.
MCMaxSpans == ("process" :> <<3, 0>>) @@ ("proxy" :> <<2, 1>>)

\* Tokens that no text holds are alike.
MCSymmetry == Permutations({t2, t3, t4})
=============================================================================
