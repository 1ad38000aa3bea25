--------------------------- MODULE MCProofGeneration ---------------------------
(***************************************************************************)
(* Instances of ProofGeneration for TLC: chunks of two bytes, and data of   *)
(* up to five.                                                              *)
(***************************************************************************)
EXTENDS ProofGeneration, TLC

CONSTANTS g, a1   \* blocks

MCBlocks == {g, a1}
MCParent == [b \in MCBlocks |-> g]
MCNumber == [b \in MCBlocks |-> IF b = g THEN 0 ELSE 1]
NoJustifications == {}

\* A hash of two chunks that has no collisions on the data below.
MCHash(x, y) ==
  <<(5 * x[1] + 3 * x[2] + 11 * y[1] + 2 * y[2] + 1) % 256,
    (7 * x[1] + 13 * x[2] + y[1] + 17 * y[2] + 5) % 256>>

\* No data, data that differs in one byte, in the order of its chunks, in its length
\* or only in the zeros at its end, and the data whose one chunk is the root of
\* another: the two chunks of <<7, 0, 7>> hash to it.
MCData ==
  {<<>>, <<7>>, <<7, 0>>, <<7, 0, 7>>, <<7, 0, 9>>, <<9, 0, 7>>, <<7, 0, 7, 0, 9>>,
   MCHash(<<7, 0>>, <<7, 0>>)}

From(source, target, data) == [source |-> source, target |-> target, data |-> data]

MCTransitions ==
  {From(g, a1, data) : data \in MCData} \cup {From(g, NoBlock, <<7>>), ObserverTransition}

\* The tasks are alike.
Symmetry == Permutations(Requesters)

MCProofSizes == [merkle |-> 2, bls |-> 2]
=============================================================================
