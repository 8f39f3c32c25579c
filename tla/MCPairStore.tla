---------------------------- MODULE MCPairStore ----------------------------
(***************************************************************************)
(* Small instances of PairStore: two sensitive texts that look alike once  *)
(* struck out, and the text they then look like, which has nothing to mask.*)
(***************************************************************************)
EXTENDS PairStore, TLC

CONSTANTS anna, ivan, stars, long

MCBodies == {anna, ivan, stars}
MCRedact == [b \in MCBodies |-> stars]

\* Sizes in half megabytes. Ordinary texts: tokens make them a bit longer.
MCSize == [b \in MCBodies |-> 2]
MCTokenSize == [b \in MCBodies |-> 4]

\* Texts at every limit, when the record limit is set below the body limit:
\* the record of stars is too big, ivan is too big for any record, long for
\* the body.
MCLimitBodies == MCBodies \cup {long}
MCLimitRedact == [b \in MCLimitBodies |-> stars]
MCLimitSize ==
    (anna :> 1) @@ (stars :> 6) @@ (ivan :> 15) @@ (long :> 17)
MCLimitTokenSize == [b \in MCLimitBodies |-> 2]

\* The two sensitive texts differ in nothing but their names.
MCSymmetry == Permutations(Requests) \cup Permutations(Consumers)
                  \cup Permutations({anna, ivan})
=============================================================================
