---------------------------- MODULE MCFinalityWait ----------------------------
(***************************************************************************)
(* An instance of FinalityWait for TLC: a branch of two blocks and a fork,  *)
(* where the justification of a block falls short of the participation.     *)
(***************************************************************************)
EXTENDS FinalityWait

CONSTANTS g, a1, a2, b1,   \* blocks
          v1, v2, v3       \* authorities

MCBlocks == {g, a1, a2, b1}
MCParent == [b \in MCBlocks |-> IF b = a2 THEN a1 ELSE g]
MCNumber == [b \in MCBlocks |-> CASE b = g -> 0 [] b = a2 -> 2 [] OTHER -> 1]

MCAuthorities == {v1, v2, v3}
\* One voter set, and a list that makes none.
FixedOrRefused == {[v \in MCAuthorities |-> 1], [v \in {v1} |-> 0]}

Valid(v) == [id |-> v, valid |-> TRUE]
MCJustifications == {<<Valid(v1), Valid(v2)>>}
=============================================================================
