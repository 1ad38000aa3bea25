--------------------------- MODULE MCFinalityCache ---------------------------
(***************************************************************************)
(* An instance of FinalityCache for TLC: the genesis block and a block that *)
(* changes the authorities; a list that makes no voter set is handed to the *)
(* predicate only.                                                          *)
(***************************************************************************)
EXTENDS FinalityCache, TLC

CONSTANTS g, a1,   \* blocks
          v1, v2   \* authorities

MCBlocks == {g, a1}
MCParent == [b \in MCBlocks |-> g]
MCNumber == [b \in MCBlocks |-> IF b = g THEN 0 ELSE 1]

MCAuthorities == {v1, v2}
First == [v \in {v1} |-> 1]
Second == [v \in MCAuthorities |-> 1]
NoVoter == [v \in {v1} |-> 0]
MCLists == {First, Second, NoVoter}
MCRuntimeList == [b \in MCBlocks |-> IF b = g THEN First ELSE Second]

MCJustifications == {<<[id |-> v1, valid |-> TRUE]>>}

\* The tasks differ in nothing but their names.
Interchangeable == Permutations(Updaters) \cup Permutations(Lookers)
=============================================================================
