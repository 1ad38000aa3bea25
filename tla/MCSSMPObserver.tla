--------------------------- MODULE MCSSMPObserver ---------------------------
(***************************************************************************)
(* Instances of SSMPObserver for TLC: one branch of two blocks, and targets *)
(* that differ in the blocks and the events they match.                     *)
(***************************************************************************)
EXTENDS SSMPObserver

CONSTANTS g, a1, a2,        \* blocks
          v1,               \* the only authority
          pallet, call_a, call_b, hash_a   \* byte strings

MCBlocks == {g, a1, a2}
MCParent == [b \in MCBlocks |-> IF b = a2 THEN a1 ELSE g]
MCNumber == [b \in MCBlocks |-> CASE b = g -> 0 [] b = a1 -> 1 [] b = a2 -> 2]

MCAuthorities == {v1}
MCLists == {[v \in MCAuthorities |-> w] : w \in 0 .. 1}
NoJustifications == {}

MCNames == {pallet, call_a, call_b, hash_a}

MCEvents ==
  [b \in MCBlocks |-> CASE b = g  -> <<>>
                        [] b = a1 -> <<{pallet, call_a}, {pallet, call_b}>>
                        [] b = a2 -> <<{pallet, call_b, hash_a}>>]

Watch(function, hash) ==
  [module_name |-> pallet, function_name |-> function, message_hash |-> hash]

\* A target that both blocks match, and one that only the second matches.
TwoTargets == {Watch(call_b, NoHash), Watch(call_b, hash_a)}

\* Beside them, one with a message hash of no bytes, whose matching panics.
ThreeTargets == TwoTargets \cup {Watch(call_b, Empty)}
=============================================================================
