--------------------------- MODULE MCPolicyReload ---------------------------
(***************************************************************************)
(* Small instances of PolicyReload: the contents an administrator goes     *)
(* through when granting, revoking, weakening and breaking a policy.       *)
(***************************************************************************)
EXTENDS PolicyReload, TLC

Full == [kind |-> "valid", known |-> TRUE, enabled |-> TRUE, demask |-> TRUE,
         safe |-> TRUE]
Revoked == [Full EXCEPT !.demask = FALSE]
Disabled == [Full EXCEPT !.enabled = FALSE]
Removed == [Full EXCEPT !.known = FALSE]
Weak == [Full EXCEPT !.safe = FALSE]
Broken == [Full EXCEPT !.kind = "rejected"]
BadPattern == [Full EXCEPT !.kind = "uncompilable"]

All == {Full, Revoked, Disabled, Removed, Weak, Broken, BadPattern}

\* Something that lets the worker start, then anything, then another change.
MCContents == <<{Full}, All, {Revoked, Broken}>>

\* One change.
MCOneChange == <<{Full, Broken}, All>>
=============================================================================
