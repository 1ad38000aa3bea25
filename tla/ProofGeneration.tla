---------------------------- MODULE ProofGeneration ----------------------------
(***************************************************************************)
(* ProofGenerator::generate_proof of the two generators                     *)
(* (src/proof/generator.rs): the proof type is checked, the headers of the  *)
(* two blocks of the transition are read one after the other, and the proof *)
(* is built from the data and checked for its size.  The chain moves and    *)
(* other tasks generate proofs between the reads.                           *)
(***************************************************************************)
EXTENDS SubstrateClient, ProofData

CONSTANTS
  Requesters,    \* the tasks that generate proofs
  Transitions,   \* the transitions they generate them for
  ProofSizes,    \* [Generators -> Nat], the encoded length of a proof
  SizeLimits     \* values of ProofGenerationConfig.max_proof_size

\* A proof is shorter than 2^32 bytes: its length as u32 is its length.
ASSUME GenerationAssumption ==
  /\ NoBlock \notin Blocks
  /\ Transitions \subseteq [source : Blocks \cup {NoBlock},
                            target : Blocks \cup {NoBlock}, data : Seq(0 .. 255)]
  /\ ProofSizes \in [Generators -> Nat]
  /\ SizeLimits \subseteq Nat

VARIABLE request   \* [Requesters -> Requests], the running or last one of each

generationVars == <<chainVars, request>>

\* What a proof carries of the tree: nothing, or the root.
Roots == {<<>>} \cup {<<Root(t.data)>> : t \in {t \in Transitions : HasRoot(t.data)}}

\* A request: what it does next (`at`), its input, and how it ended.  History: `complete`,
\* that both headers could be read when it began, and `failed`, that the client
\* failed a read.
Requests == [at : {"idle", "source", "target", "build"}, generator : Generators,
             type : ProofTypes, transition : Transitions \cup {ObserverTransition}, limit : Nat,
             root : Roots, result : {"none", "proof", "error"},
             complete : BOOLEAN, failed : BOOLEAN]

IsMerkleProof(r) == request[r].result = "proof" /\ request[r].generator = "merkle"

\* The fields are of their types, and just the Merkle proofs carry a root.
GenerationTypeOK ==
  /\ ChainTypeOK
  /\ request \in [Requesters -> Requests]
  /\ \A r \in Requesters : request[r].root # <<>> <=> IsMerkleProof(r)

\* The request of a call with this input, and how it stands after the type is checked.
Called(generator, type, transition, limit, at, result) ==
  [at |-> at, generator |-> generator, type |-> type, transition |-> transition,
   limit |-> limit, root |-> <<>>, result |-> result,
   complete |-> {transition.source, transition.target} \subseteq imported, failed |-> FALSE]

GenerationInit ==
  /\ ChainInit
  /\ request = [r \in Requesters |->
                  Called("merkle", DefaultType, ObserverTransition, 0, "idle", "none")]

-----------------------------------------------------------------------------
\* Variation: any type is taken for the generator's own.
GenerateUnchecked(r, generator, type, transition, limit) ==
  /\ request[r].at = "idle"
  /\ request' = [request EXCEPT ![r] =
                   Called(generator, type, transition, limit, "source", "none")]
  /\ UNCHANGED chainVars

\* generate_proof is entered; a type the generator does not support is an error.
Generate(r, generator, type, transition, limit) ==
  /\ request[r].at = "idle"
  /\ request' = [request EXCEPT ![r] =
                   IF type = SupportedType[generator]
                   THEN Called(generator, type, transition, limit, "source", "none")
                   ELSE Called(generator, type, transition, limit, "idle", "error")]
  /\ UNCHANGED chainVars

End(r, result) ==
  request' = [request EXCEPT ![r].at = "idle", ![r].result = result]

\* The header of the source block, or "Source block not found".
ReadSource(r) ==
  /\ request[r].at = "source"
  /\ IF request[r].transition.source \in imported
     THEN request' = [request EXCEPT ![r].at = "target"]
     ELSE End(r, "error")
  /\ UNCHANGED chainVars

\* The header of the target block, or "Target block not found".
ReadTarget(r) ==
  /\ request[r].at = "target"
  /\ IF request[r].transition.target \in imported
     THEN request' = [request EXCEPT ![r].at = "build"]
     ELSE End(r, "error")
  /\ UNCHANGED chainVars

\* encoded.len() against max_proof_size.
TooLarge(r) == ProofSizes[request[r].generator] > request[r].limit

\* Variation: a root that is missing is left out.
BuildUnrootedProof(r) ==
  /\ request[r].at = "build" /\ request[r].generator = "merkle"
  /\ LET data == request[r].transition.data
     IN  IF ~ TooLarge(r)
         THEN request' = [request EXCEPT ![r].at = "idle", ![r].result = "proof",
                            ![r].root = IF HasRoot(data) THEN <<Root(data)>> ELSE <<>>]
         ELSE End(r, "error")
  /\ UNCHANGED chainVars

\* The root, if the data has one, is what a Merkle proof carries.
BuildMerkleProof(r) ==
  /\ request[r].at = "build" /\ request[r].generator = "merkle"
  /\ IF HasRoot(request[r].transition.data) /\ ~ TooLarge(r)
     THEN request' = [request EXCEPT ![r].at = "idle", ![r].result = "proof",
                                     ![r].root = <<Root(request[r].transition.data)>>]
     ELSE End(r, "error")
  /\ UNCHANGED chainVars

\* A placeholder for a signature, and the authorities in the metadata.
BuildSignatureProof(r) ==
  /\ request[r].at = "build" /\ request[r].generator = "bls"
  /\ End(r, IF TooLarge(r) THEN "error" ELSE "proof")
  /\ UNCHANGED chainVars

\* The client fails to read a header.
FailHeader(r) ==
  /\ request[r].at \in {"source", "target"}
  /\ request' = [request EXCEPT ![r].at = "idle", ![r].result = "error", ![r].failed = TRUE]
  /\ UNCHANGED chainVars

GenerationChainStep == ChainNext /\ UNCHANGED request

GenerationNext ==
  \/ GenerationChainStep
  \/ \E r \in Requesters :
       \/ \E generator \in Generators, type \in ProofTypes,
             transition \in Transitions, limit \in SizeLimits :
            Generate(r, generator, type, transition, limit)
       \/ ReadSource(r)
       \/ ReadTarget(r)
       \/ BuildMerkleProof(r)
       \/ BuildSignatureProof(r)
       \/ FailHeader(r)

GenerationSpec == GenerationInit /\ [][GenerationNext]_generationVars

-----------------------------------------------------------------------------
\* Two proofs with the same root are of the same data, up to zeros at the end of the
\* last chunk, if their data has equally many chunks: no byte is left out, and chunks
\* are neither swapped nor shared (src/proof/generator.rs:92-102).  Without that
\* condition it is false even of a hash without collisions: the leaves are not
\* hashed, so that a chunk may be what two chunks of other data hash to.
RootCommitsToData ==
  \A r, q \in Requesters :
    LET rd == request[r].transition.data
        qd == request[q].transition.data
    IN  /\ IsMerkleProof(r) /\ IsMerkleProof(q)
        /\ request[r].root = request[q].root
        /\ NumChunks(Len(rd)) = NumChunks(Len(qd))
        => \A k \in (1 .. Len(rd)) \cup (1 .. Len(qd)) : ByteOrZero(rd, k) = ByteOrZero(qd, k)

\* A request that a generator can answer: no try and no further block changes it.
IsProvable(generator, type, transition) ==
  /\ type = SupportedType[generator]
  /\ NoBlock \notin {transition.source, transition.target}
  /\ generator = "merkle" => HasRoot(transition.data)

\* A request whose two blocks were known when it began is refused only for its
\* type, its lack of data or its size, or because the client failed; and what
\* IsProvable refuses is never proved, whatever is imported meanwhile
\* (src/proof/generator.rs:118-182).
OnlyDefectsAreRefused ==
  \A r \in Requesters :
    LET rq == request[r]
        provable == IsProvable(rq.generator, rq.type, rq.transition)
    IN  /\ rq.result = "error" /\ rq.complete /\ ~ rq.failed => ~ provable \/ TooLarge(r)
        /\ rq.result = "proof" => provable /\ ~ TooLarge(r)
=============================================================================
