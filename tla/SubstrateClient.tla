--------------------------- MODULE SubstrateClient ---------------------------
(***************************************************************************)
(* The blockchain client the crate is given (`Arc<C>`, with the traits      *)
(* HeaderBackend and BlockBackend of sp_blockchain).  It is a library, not  *)
(* code of this repository: what is modelled is what src/finality/mod.rs    *)
(* reads from it, `header`, `info` and `justifications`, and how those      *)
(* answers move while a caller is between two reads.                        *)
(*                                                                          *)
(* The tree of blocks that can ever be produced is a constant; the client   *)
(* imports blocks of it, changes its mind about the best block, and         *)
(* finalizes a longer and longer branch.  Headers of abandoned forks stay   *)
(* readable.                                                                *)
(***************************************************************************)
EXTENDS Integers, Sequences, FiniteSets

CONSTANTS
  Blocks,          \* the hashes of all blocks of the tree
  Genesis,         \* the first block
  Parent,          \* [Blocks -> Blocks]
  Number,          \* [Blocks -> Nat], the block numbers
  Justifications,  \* the justifications a block can be stored with
  None             \* no justification

ASSUME TreeAssumption ==
  /\ Genesis \in Blocks
  /\ Parent \in [Blocks -> Blocks]
  /\ Number \in [Blocks -> Nat] /\ Number[Genesis] = 0
  /\ \A b \in Blocks \ {Genesis} : Number[b] = Number[Parent[b]] + 1

ASSUME NoneAssumption == None \notin Justifications

VARIABLES
  imported,        \* the blocks whose header the client can return
  best,            \* info().best_hash
  finalized,       \* info().finalized_hash
  justifications   \* [Blocks -> Justifications \cup {None}]

chainVars == <<imported, best, finalized, justifications>>

\* The block and all blocks below it on its branch.
Ancestors[b \in Blocks] ==
  IF b = Genesis THEN {b} ELSE {b} \cup Ancestors[Parent[b]]

ChainTypeOK ==
  /\ imported \in SUBSET Blocks
  /\ best \in Blocks
  /\ finalized \in Blocks
  /\ justifications \in [Blocks -> Justifications \cup {None}]

ChainInit ==
  /\ imported = {Genesis}
  /\ best = Genesis
  /\ finalized = Genesis
  /\ justifications = [b \in Blocks |-> None]

\* A block of the best or of another branch arrives, with or without a
\* justification; whether it becomes the best one is the fork choice's affair.
\* The client refuses blocks that contradict what it has finalized.
ImportBlock(b) ==
  /\ b \notin imported
  /\ Parent[b] \in imported
  /\ finalized \in Ancestors[b]
  /\ imported' = imported \cup {b}
  /\ best' \in {best, b}
  /\ \E j \in Justifications \cup {None} :
       justifications' = [justifications EXCEPT ![b] = j]
  /\ UNCHANGED finalized

\* GRANDPA finalizes a block above the last finalized one, and with it every
\* block in between; the best block moves to that branch if it was elsewhere.
FinalizeBlock(b) ==
  /\ b \in imported
  /\ finalized \in Ancestors[b]
  /\ Number[b] > Number[finalized]
  /\ finalized' = b
  /\ best' = IF b \in Ancestors[best] THEN best ELSE b
  /\ \E j \in Justifications \cup {justifications[b]} :
       justifications' = [justifications EXCEPT ![b] = j]
  /\ UNCHANGED imported

ChainNext == \E b \in Blocks : ImportBlock(b) \/ FinalizeBlock(b)
=============================================================================
