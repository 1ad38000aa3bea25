------------------------------- MODULE ProofData -------------------------------
(***************************************************************************)
(* What the proof generators (src/proof/generator.rs) compute, without the  *)
(* order they do it in: the types they support and the Merkle root of the   *)
(* data of a transition.                                                    *)
(***************************************************************************)
EXTENDS Integers, Sequences

CONSTANTS
  NoBlock,     \* the hash of a default block reference: no block has it
  ChunkSize,   \* bytes per Merkle leaf, 32 in the code
  Hash(_, _)   \* SHA-256 of two nodes, one behind the other: a node again

ASSUME ChunkAssumption == ChunkSize \in Nat \ {0}

\* MerkleProofGenerator and BLSProofGenerator, with the one proof type each
\* supports: ProofType::Custom("Merkle") and ProofType::Signature.
SupportedType == [merkle |-> "merkle", bls |-> "signature"]
Generators == DOMAIN SupportedType
ProofTypes == {"merkle", "signature"}

\* ProofGenerationConfig::default.
DefaultType == "merkle"

\* The transition the observer makes for a target: two default block references
\* and no transition proof, which the generator reads as no bytes.
ObserverTransition == [source |-> NoBlock, target |-> NoBlock, data |-> <<>>]

\* chunks(32), where the last chunk may be a shorter one.
NumChunks(n) == (n + ChunkSize - 1) \div ChunkSize

\* Byte k of the padded data.
ByteOrZero(data, k) == IF k <= Len(data) THEN data[k] ELSE 0

\* Variation: bytes that fill no whole chunk are left out.
WholeChunks(data) ==
  [i \in 1 .. Len(data) \div ChunkSize |->
     [j \in 1 .. ChunkSize |-> ByteOrZero(data, (i - 1) * ChunkSize + j)]]

\* The leaves of generate_merkle_tree: chunks of the data, the last one padded
\* with zeros.
Chunks(data) ==
  [i \in 1 .. NumChunks(Len(data)) |->
     [j \in 1 .. ChunkSize |-> ByteOrZero(data, (i - 1) * ChunkSize + j)]]

\* MerkleTree of rs_merkle: the nodes of a level are hashed in pairs, and one that
\* is left over goes up as it is.  Behind the root the levels do not change.
LevelAbove(level) ==
  [i \in 1 .. (Len(level) + 1) \div 2 |->
     IF 2 * i <= Len(level) THEN Hash(level[2 * i - 1], level[2 * i]) ELSE level[2 * i - 1]]

Levels(leaves) ==
  LET level[height \in 0 .. Len(leaves)] ==
        IF height = 0 THEN leaves ELSE LevelAbove(level[height - 1])
  IN  level

\* The leaves are the chunks themselves, not their hashes.  A tree without leaves
\* has no root.
HasRoot(data) == Chunks(data) # <<>>
Root(data) == Levels(Chunks(data))[Len(Chunks(data))][1]
=============================================================================
