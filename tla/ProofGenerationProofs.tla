------------------------- MODULE ProofGenerationProofs -------------------------
(***************************************************************************)
(* Theorems about ProofGeneration, for every chunk size and hash, data of   *)
(* any length, any number of tasks, every tree of blocks and all limits:    *)
(* the type invariant, that the leaves of a tree commit to its data, and    *)
(* which requests are proved and which refused.                             *)
(***************************************************************************)
EXTENDS ProofGeneration, SequenceTheorems, TLAPS

-----------------------------------------------------------------------------
(* The arithmetic of the chunks.                                            *)

\* A quotient is the greatest factor whose multiple is not above the number.
LEMMA Division ==
  ASSUME NEW m \in Nat, NEW c \in Nat \ {0}
  PROVE  /\ m \div c \in Nat
         /\ (m \div c) * c <= m
         /\ m < (m \div c) * c + c
<1>1. m \div c \in Nat
  OBVIOUS
<1>2. (m \div c) * c <= m
  OBVIOUS
<1>3. m < (m \div c) * c + c
  OBVIOUS
<1>. QED  BY <1>1, <1>2, <1>3

\* A smaller multiple has a smaller factor.
LEMMA SmallerFactor ==
  ASSUME NEW q \in Nat, NEW n \in Nat, NEW c \in Nat \ {0}, q * c < n * c
  PROVE  q < n
<1> SUFFICES ASSUME n <= q
             PROVE  n * c <= q * c
  <2>1. n * c \in Int /\ q * c \in Int
    OBVIOUS
  <2>. QED  BY <2>1
<1>. QED  OBVIOUS

\* The chunks hold all bytes, and the last one at least one of them.
LEMMA ChunksHold ==
  ASSUME NEW n \in Nat
  PROVE  /\ NumChunks(n) \in Nat
         /\ n <= NumChunks(n) * ChunkSize
         /\ NumChunks(n) = 0 <=> n = 0
<1> DEFINE m == n + ChunkSize - 1
           q == NumChunks(n)
<1>1. ChunkSize \in Nat \ {0} /\ m \in Nat
  BY ChunkAssumption
<1>2. q \in Nat /\ q * ChunkSize <= m /\ m < q * ChunkSize + ChunkSize
  BY <1>1, Division DEF NumChunks
<1>3. q * ChunkSize \in Nat
  BY <1>1, <1>2
<1>. HIDE DEF q
<1>4. n <= q * ChunkSize
  BY <1>1, <1>2, <1>3
<1>5. q = 0 => n = 0
  BY <1>1, <1>4
<1>6. n = 0 => q = 0
  <2> SUFFICES ASSUME n = 0 PROVE q < 1
    BY <1>2
  <2>1. m = ChunkSize - 1 /\ q * ChunkSize < ChunkSize
    BY <1>1, <1>2, <1>3
  <2>. QED  BY <1>1, <1>2, <2>1, SmallerFactor
<1>. QED  BY <1>2, <1>4, <1>5, <1>6 DEF q

\* Every byte is in a chunk, at one place.
LEMMA PlaceOfByte ==
  ASSUME NEW n \in Nat, NEW k \in 1 .. n
  PROVE  \E i \in 1 .. NumChunks(n), j \in 1 .. ChunkSize : (i - 1) * ChunkSize + j = k
<1>1. ChunkSize \in Nat \ {0} /\ k - 1 \in Nat
  BY ChunkAssumption
<1>2. PICK q \in Nat : q * ChunkSize <= k - 1 /\ k - 1 < q * ChunkSize + ChunkSize
  BY <1>1, Division
<1>3. q < NumChunks(n)
  <2>1. NumChunks(n) \in Nat /\ n <= NumChunks(n) * ChunkSize
    BY ChunksHold
  <2>2. q * ChunkSize \in Nat /\ NumChunks(n) * ChunkSize \in Nat
    BY <1>1, <2>1
  <2>3. q * ChunkSize < NumChunks(n) * ChunkSize
    BY <1>2, <2>1, <2>2
  <2>. QED  BY <1>1, <2>1, <2>3, SmallerFactor
<1>4. q + 1 \in 1 .. NumChunks(n) /\ q + 1 - 1 = q
  BY <1>1, <1>3, ChunksHold
<1>5. k - q * ChunkSize \in 1 .. ChunkSize /\ q * ChunkSize + (k - q * ChunkSize) = k
  <2>1. q * ChunkSize \in Nat
    BY <1>1
  <2>. QED  BY <1>1, <1>2, <2>1
<1>. QED  BY <1>4, <1>5

\* A function on the first n numbers is a sequence.
LEMMA FunctionIsSeq ==
  ASSUME NEW S, NEW n \in Nat, NEW f \in [1 .. n -> S]
  PROVE  f \in Seq(S)
BY SeqDef

\* Chunks are sequences of bytes.
LEMMA ChunksType ==
  ASSUME NEW data \in Seq(0 .. 255)
  PROVE  Chunks(data) \in Seq(Seq(0 .. 255))
<1>1. NumChunks(Len(data)) \in Nat /\ ChunkSize \in Nat \ {0}
  BY ChunksHold, ChunkAssumption
<1>2. ASSUME NEW k \in Nat \ {0}
      PROVE  ByteOrZero(data, k) \in 0 .. 255
  <2>1. Len(data) \in Nat
    BY LenProperties
  <2>2. k <= Len(data) => data[k] \in 0 .. 255
    BY <1>2, <2>1, ElementOfSeq
  <2>. QED  BY <2>2 DEF ByteOrZero
<1>3. ASSUME NEW i \in 1 .. NumChunks(Len(data))
      PROVE  [j \in 1 .. ChunkSize |-> ByteOrZero(data, (i - 1) * ChunkSize + j)]
               \in Seq(0 .. 255)
  <2>1. (i - 1) * ChunkSize \in Nat
    BY <1>1
  <2>2. \A j \in 1 .. ChunkSize : (i - 1) * ChunkSize + j \in Nat \ {0}
    BY <2>1
  <2>3. [j \in 1 .. ChunkSize |-> ByteOrZero(data, (i - 1) * ChunkSize + j)]
          \in [1 .. ChunkSize -> 0 .. 255]
    BY <1>2, <2>2
  <2>. QED  BY <1>1, <2>3, FunctionIsSeq
<1>4. Chunks(data) \in [1 .. NumChunks(Len(data)) -> Seq(0 .. 255)]
  BY <1>3 DEF Chunks
<1>. QED  BY <1>1, <1>4, FunctionIsSeq

\* Just the empty data have no root.
LEMMA EmptyHasNoRoot ==
  ASSUME NEW data \in Seq(0 .. 255)
  PROVE  HasRoot(data) <=> data # <<>>
<1>1. Len(data) = 0 <=> data = <<>>
  OBVIOUS
<1>2. NumChunks(Len(data)) \in Nat /\ (NumChunks(Len(data)) = 0 <=> Len(data) = 0)
  BY ChunksHold
<1>3. Chunks(data) = <<>> <=> NumChunks(Len(data)) = 0
  <2>1. Chunks(data) \in Seq(Seq(0 .. 255))
    BY ChunksType
  <2>2. DOMAIN Chunks(data) = 1 .. NumChunks(Len(data))
    BY DEF Chunks
  <2>. QED  BY <1>2, <2>1, <2>2
<1>. QED  BY <1>1, <1>2, <1>3 DEF HasRoot

\* Two data with the same leaves agree byte for byte, up to zeros behind their end,
\* for data and chunks of any length (src/proof/generator.rs:90-103).
THEOREM LeavesCommitToData ==
  ASSUME NEW a \in Seq(0 .. 255), NEW b \in Seq(0 .. 255), Chunks(a) = Chunks(b)
  PROVE  /\ NumChunks(Len(a)) = NumChunks(Len(b))
         /\ \A k \in (1 .. Len(a)) \cup (1 .. Len(b)) : ByteOrZero(a, k) = ByteOrZero(b, k)
<1>1. NumChunks(Len(a)) \in Nat /\ NumChunks(Len(b)) \in Nat
  BY ChunksHold
<1>2. NumChunks(Len(a)) = NumChunks(Len(b))
  <2>1. /\ DOMAIN Chunks(a) = 1 .. NumChunks(Len(a))
        /\ DOMAIN Chunks(b) = 1 .. NumChunks(Len(b))
    BY DEF Chunks
  <2>2. Len(Chunks(a)) = NumChunks(Len(a)) /\ Len(Chunks(b)) = NumChunks(Len(b))
    BY <1>1, <2>1, ChunksType
  <2>. QED  BY <2>2
<1>3. ASSUME NEW i \in 1 .. NumChunks(Len(a)), NEW j \in 1 .. ChunkSize
      PROVE  ByteOrZero(a, (i - 1) * ChunkSize + j) = ByteOrZero(b, (i - 1) * ChunkSize + j)
  <2>1. Chunks(a)[i][j] = ByteOrZero(a, (i - 1) * ChunkSize + j)
    BY DEF Chunks
  <2>2. Chunks(b)[i][j] = ByteOrZero(b, (i - 1) * ChunkSize + j)
    BY <1>2 DEF Chunks
  <2>. QED  BY <2>1, <2>2
<1>4. ASSUME NEW k \in (1 .. Len(a)) \cup (1 .. Len(b))
      PROVE  ByteOrZero(a, k) = ByteOrZero(b, k)
  <2>1. PICK i \in 1 .. NumChunks(Len(a)), j \in 1 .. ChunkSize : (i - 1) * ChunkSize + j = k
    <3>1. Len(a) \in Nat /\ Len(b) \in Nat
      BY LenProperties
    <3>2. CASE k \in 1 .. Len(a)
      BY <3>1, <3>2, PlaceOfByte
    <3>3. CASE k \in 1 .. Len(b)
      <4>1. PICK i \in 1 .. NumChunks(Len(b)), j \in 1 .. ChunkSize :
              (i - 1) * ChunkSize + j = k
        BY <3>1, <3>3, PlaceOfByte
      <4>. QED  BY <1>2, <4>1
    <3>. QED  BY <3>2, <3>3
  <2>. QED  BY <1>3, <2>1
<1>. QED  BY <1>2, <1>4

-----------------------------------------------------------------------------
(* What a request relies on.                                                *)

Exceeds(rq) == ProofSizes[rq.generator] > rq.limit

\* A running request has passed its checks so far, and the blocks it has read, and
\* those known when it began, are known: the client forgets none.  One that ended
\* with a proof has passed all checks; one that ended with an error, all but those
\* that more blocks and another try do not change.
RequestInv(rq) ==
  /\ rq.at # "idle" =>
       rq.type = SupportedType[rq.generator] /\ rq.result = "none" /\ ~ rq.failed
  /\ rq.complete => {rq.transition.source, rq.transition.target} \subseteq imported
  /\ rq.at \in {"target", "build"} => rq.transition.source \in imported
  /\ rq.at = "build" => rq.transition.target \in imported
  /\ rq.result = "proof" =>
       IsProvable(rq.generator, rq.type, rq.transition) /\ ~ Exceeds(rq)
  /\ rq.result = "error" /\ rq.complete /\ ~ rq.failed =>
       ~ IsProvable(rq.generator, rq.type, rq.transition) \/ Exceeds(rq)
  /\ rq.root = IF rq.result = "proof" /\ rq.generator = "merkle"
               THEN <<Root(rq.transition.data)>> ELSE <<>>

GenerationInv ==
  /\ ChainTypeOK
  /\ request \in [Requesters -> Requests]
  /\ \A r \in Requesters : RequestInv(request[r])

\* The parts of a request.
LEMMA RequestFields ==
  ASSUME NEW rq \in Requests
  PROVE  /\ rq.generator \in Generators
         /\ rq.transition \in [source : Blocks \cup {NoBlock}, target : Blocks \cup {NoBlock},
                               data : Seq(0 .. 255)]
         /\ rq.transition.data \in Seq(0 .. 255)
         /\ HasRoot(rq.transition.data) => <<Root(rq.transition.data)>> \in Roots
<1>1. rq.transition \in [source : Blocks \cup {NoBlock}, target : Blocks \cup {NoBlock},
                         data : Seq(0 .. 255)]
  <2>1. ObserverTransition \in [source : Blocks \cup {NoBlock},
                                target : Blocks \cup {NoBlock}, data : Seq(0 .. 255)]
    BY EmptySeq DEF ObserverTransition
  <2>. QED  BY <2>1, GenerationAssumption DEF Requests
<1>2. rq.transition.data \in Seq(0 .. 255)
  BY <1>1
<1>3. ASSUME HasRoot(rq.transition.data)
      PROVE  <<Root(rq.transition.data)>> \in Roots
  <2>1. rq.transition # ObserverTransition
    BY <1>2, <1>3, EmptyHasNoRoot DEF ObserverTransition
  <2>2. rq.transition \in Transitions
    BY <2>1 DEF Requests
  <2>. QED  BY <1>3, <2>2 DEF Roots
<1>. QED  BY <1>1, <1>2, <1>3 DEF Requests

\* The client forgets no block, and the blocks it knows are blocks.
LEMMA KnownBlocks ==
  ASSUME ChainTypeOK, [ChainNext]_chainVars
  PROVE  imported \subseteq imported' /\ imported \subseteq Blocks /\ ChainTypeOK'
<1>1. ASSUME NEW b \in Blocks, ImportBlock(b)
      PROVE  imported \subseteq imported' /\ ChainTypeOK'
  BY <1>1 DEF ChainTypeOK, ImportBlock
<1>2. ASSUME NEW b \in Blocks, FinalizeBlock(b)
      PROVE  imported \subseteq imported' /\ ChainTypeOK'
  BY <1>2 DEF ChainTypeOK, FinalizeBlock
<1>3. CASE UNCHANGED chainVars
  BY <1>3 DEF ChainTypeOK, chainVars
<1>. QED  BY <1>1, <1>2, <1>3 DEF ChainNext, ChainTypeOK

\* A request that a step leaves alone.
LEMMA RequestStays ==
  ASSUME NEW rq, RequestInv(rq), imported \subseteq imported'
  PROVE  RequestInv(rq)'
BY DEF RequestInv

\* A step of one request.
LEMMA RequestStep ==
  ASSUME GenerationInv, UNCHANGED chainVars, NEW r \in Requesters, NEW rq \in Requests,
         request' = [request EXCEPT ![r] = rq], RequestInv(rq)
  PROVE  GenerationInv'
<1>1. imported' = imported /\ ChainTypeOK'
  BY DEF GenerationInv, ChainTypeOK, chainVars
<1>2. RequestInv(rq)'
  BY <1>1, RequestStays
<1>3. ASSUME NEW q \in Requesters, q # r
      PROVE  request'[q] = request[q] /\ RequestInv(request[q])
  BY <1>3 DEF GenerationInv
<1>. QED  BY <1>1, <1>2, <1>3 DEF GenerationInv, RequestInv

\* A request whose call goes on or ends.
Places == {"idle", "source", "target", "build"}
Outcomes == {"none", "proof", "error"}

Moved(rq, at, root, result, failed) ==
  [rq EXCEPT !.at = at, !.root = root, !.result = result, !.failed = failed]

LEMMA MovedRequest ==
  ASSUME NEW rq \in Requests, NEW at \in Places,
         NEW root \in Roots, NEW result \in Outcomes,
         NEW failed \in BOOLEAN, NEW moved, moved = Moved(rq, at, root, result, failed)
  PROVE  /\ moved \in Requests
         /\ moved.at = at /\ moved.root = root /\ moved.result = result
         /\ moved.failed = failed /\ moved.complete = rq.complete
         /\ moved.generator = rq.generator /\ moved.type = rq.type
         /\ moved.transition = rq.transition /\ moved.limit = rq.limit
<1>1. moved \in Requests
  <2> DEFINE Given == Transitions \cup {ObserverTransition}
             Bools == BOOLEAN
             R == [at : Places, generator : Generators, type : ProofTypes, transition : Given,
                   limit : Nat, root : Roots, result : Outcomes, complete : Bools,
                   failed : Bools]
  <2>1. rq \in R /\ at \in Places /\ root \in Roots /\ result \in Outcomes /\ failed \in Bools
    BY DEF Requests, Places, Outcomes
  <2> HIDE DEF Given, Bools
  <2>2. [rq EXCEPT !.at = at] \in R
    BY <2>1
  <2>3. [rq EXCEPT !.at = at, !.root = root] \in R
    BY <2>1, <2>2
  <2>4. [rq EXCEPT !.at = at, !.root = root, !.result = result] \in R
    BY <2>1, <2>3
  <2>5. moved \in R
    BY <2>1, <2>4 DEF Moved
  <2>. QED  BY <2>5 DEF Requests, Given, Bools, Places, Outcomes
<1>2. moved.at = at /\ moved.root = root /\ moved.result = result
  BY DEF Requests, Moved, Places, Outcomes
<1>3. moved.failed = failed
  BY Zenon DEF Requests, Moved
<1>4. moved.complete = rq.complete
  BY Zenon DEF Requests, Moved
<1>5. /\ moved.generator = rq.generator /\ moved.type = rq.type
      /\ moved.transition = rq.transition /\ moved.limit = rq.limit
  BY DEF Requests, Moved
<1>. QED  BY <1>1, <1>2, <1>3, <1>4, <1>5, Zenon

\* What a running request must have checked for such a step.
Justified(rq, at, root, result, failed) ==
  /\ rq.at # "idle"
  /\ at # "idle" => result = "none" /\ ~ failed
  /\ at \in {"target", "build"} => rq.transition.source \in imported
  /\ at = "build" => rq.transition.target \in imported
  /\ result = "proof" =>
       IsProvable(rq.generator, rq.type, rq.transition) /\ ~ Exceeds(rq)
  /\ result = "error" /\ rq.complete /\ ~ failed =>
       ~ IsProvable(rq.generator, rq.type, rq.transition) \/ Exceeds(rq)
  /\ root = IF result = "proof" /\ rq.generator = "merkle"
            THEN <<Root(rq.transition.data)>> ELSE <<>>

\* A justified step of a request keeps the invariant.
LEMMA RequestMoves ==
  ASSUME GenerationInv, UNCHANGED chainVars, NEW r \in Requesters,
         NEW at \in Places, NEW root \in Roots, NEW result \in Outcomes,
         NEW failed \in BOOLEAN,
         request' = [request EXCEPT ![r] = Moved(request[r], at, root, result, failed)],
         Justified(request[r], at, root, result, failed)
  PROVE  GenerationInv'
<1>1. PICK rq \in Requests : request[r] = rq /\ RequestInv(rq)
  BY DEF GenerationInv
<1>2. PICK moved : moved = Moved(rq, at, root, result, failed)
  OBVIOUS
<1>3. /\ moved \in Requests
      /\ moved.at = at /\ moved.root = root /\ moved.result = result
      /\ moved.failed = failed /\ moved.complete = rq.complete
      /\ moved.generator = rq.generator /\ moved.type = rq.type
      /\ moved.transition = rq.transition /\ moved.limit = rq.limit
  BY <1>2, MovedRequest
<1>4. request' = [request EXCEPT ![r] = moved] /\ Justified(rq, at, root, result, failed)
  BY <1>1, <1>2
<1>5. RequestInv(moved)
  <2>1. /\ at # "idle" => moved.type = SupportedType[moved.generator]
        /\ moved.complete => {moved.transition.source, moved.transition.target} \subseteq imported
    BY <1>1, <1>3, <1>4 DEF RequestInv, Justified
  <2>2. Exceeds(moved) <=> Exceeds(rq)
    BY <1>3 DEF Exceeds
  <2>. QED  BY <1>1, <1>3, <1>4, <2>1, <2>2 DEF RequestInv, Justified
<1>. QED  BY <1>3, <1>4, <1>5, RequestStep

\* The steps the code makes, as moves of this form.
LEMMA GoesOn ==
  ASSUME GenerationInv, NEW r \in Requesters, NEW at
  PROVE  [request EXCEPT ![r].at = at] =
           [request EXCEPT ![r] = Moved(request[r], at, request[r].root, request[r].result,
                                        request[r].failed)]
<1>1. ASSUME NEW rq \in Requests
      PROVE  [rq EXCEPT !.at = at] = Moved(rq, at, rq.root, rq.result, rq.failed)
  <2>1. [rq EXCEPT !.root = rq.root] = rq
    BY Zenon DEF Requests
  <2>2. [rq EXCEPT !.result = rq.result] = rq
    BY DEF Requests
  <2>3. [rq EXCEPT !.failed = rq.failed] = rq
    BY Zenon DEF Requests
  <2>. QED  BY <2>1, <2>2, <2>3 DEF Requests, Moved
<1>. QED  BY <1>1 DEF GenerationInv

LEMMA Ends ==
  ASSUME GenerationInv, NEW r \in Requesters, NEW result
  PROVE  [request EXCEPT ![r].at = "idle", ![r].result = result] =
           [request EXCEPT ![r] = Moved(request[r], "idle", request[r].root, result,
                                        request[r].failed)]
<1>1. ASSUME NEW rq \in Requests
      PROVE  [rq EXCEPT !.at = "idle", !.result = result] =
               Moved(rq, "idle", rq.root, result, rq.failed)
  <2>1. [rq EXCEPT !.root = rq.root] = rq
    BY Zenon DEF Requests
  <2>2. [rq EXCEPT !.failed = rq.failed] = rq
    BY Zenon DEF Requests
  <2>. QED  BY <2>1, <2>2 DEF Requests, Moved
<1>. QED  BY <1>1 DEF GenerationInv

LEMMA Proves ==
  ASSUME GenerationInv, NEW r \in Requesters, NEW root
  PROVE  [request EXCEPT ![r].at = "idle", ![r].result = "proof", ![r].root = root] =
           [request EXCEPT ![r] = Moved(request[r], "idle", root, "proof", request[r].failed)]
<1>1. ASSUME NEW rq \in Requests
      PROVE  [rq EXCEPT !.at = "idle", !.result = "proof", !.root = root] =
               Moved(rq, "idle", root, "proof", rq.failed)
  <2>1. [rq EXCEPT !.failed = rq.failed] = rq
    BY Zenon DEF Requests
  <2>. QED  BY <2>1 DEF Requests, Moved
<1>. QED  BY <1>1 DEF GenerationInv

LEMMA Fails ==
  ASSUME GenerationInv, NEW r \in Requesters
  PROVE  [request EXCEPT ![r].at = "idle", ![r].result = "error", ![r].failed = TRUE] =
           [request EXCEPT ![r] = Moved(request[r], "idle", request[r].root, "error", TRUE)]
<1>1. ASSUME NEW rq \in Requests
      PROVE  [rq EXCEPT !.at = "idle", !.result = "error", !.failed = TRUE] =
               Moved(rq, "idle", rq.root, "error", TRUE)
  <2>1. [rq EXCEPT !.root = rq.root] = rq
    BY Zenon DEF Requests
  <2>. QED  BY <2>1 DEF Requests, Moved
<1>. QED  BY <1>1 DEF GenerationInv

-----------------------------------------------------------------------------
(* The invariant.                                                           *)

\* A running request has no root, and what its checks refuse has no proof.
LEMMA RunningRequest ==
  ASSUME GenerationInv, NEW r \in Requesters, request[r].at # "idle"
  PROVE  /\ request[r] \in Requests
         /\ request[r].root = <<>> /\ request[r].result = "none"
         /\ request[r].root \in Roots
         /\ request[r].type = SupportedType[request[r].generator]
         /\ ~ request[r].failed /\ request[r].failed \in BOOLEAN
         /\ RequestInv(request[r])
<1>1. PICK rq \in Requests : request[r] = rq /\ RequestInv(rq)
  BY DEF GenerationInv
<1>2. rq.root = <<>> /\ rq.result = "none" /\ rq.type = SupportedType[rq.generator]
  BY <1>1 DEF RequestInv
<1>3. ~ rq.failed
  BY <1>1 DEF RequestInv
<1>4. rq.failed \in BOOLEAN
  BY Zenon DEF Requests
<1>5. <<>> \in Roots
  BY DEF Roots
<1>. QED  BY <1>1, <1>2, <1>3, <1>4, <1>5

LEMMA ReadSourceStep ==
  ASSUME GenerationInv, NEW r \in Requesters, ReadSource(r)
  PROVE  GenerationInv'
<1> DEFINE rq == request[r]
<1>1. /\ rq \in Requests /\ rq.root = <<>> /\ rq.result = "none"
      /\ rq.root \in Roots /\ ~ rq.failed /\ RequestInv(rq)
  BY RunningRequest DEF ReadSource
<1>2. rq.failed \in BOOLEAN
  BY RunningRequest DEF ReadSource
<1>3. UNCHANGED chainVars /\ rq.at = "source"
  BY DEF ReadSource
<1>4. CASE rq.transition.source \in imported
  <2>1. request' = [request EXCEPT ![r] = Moved(rq, "target", rq.root, rq.result, rq.failed)]
    BY <1>4, GoesOn DEF ReadSource
  <2>2. Justified(rq, "target", rq.root, rq.result, rq.failed)
    BY <1>1, <1>3, <1>4 DEF Justified
  <2>3. "target" \in Places /\ rq.result \in Outcomes
    BY <1>1 DEF Places, Outcomes
  <2>. QED  BY <1>1, <1>2, <1>3, <2>1, <2>2, <2>3, RequestMoves
<1>5. CASE rq.transition.source \notin imported
  <2>1. request' = [request EXCEPT ![r] = Moved(rq, "idle", rq.root, "error", rq.failed)]
    BY <1>5, Ends DEF ReadSource, End
  <2>2. Justified(rq, "idle", rq.root, "error", rq.failed)
    BY <1>1, <1>3, <1>5 DEF Justified, RequestInv
  <2>3. "idle" \in Places /\ "error" \in Outcomes
    BY DEF Places, Outcomes
  <2>. QED  BY <1>1, <1>2, <1>3, <2>1, <2>2, <2>3, RequestMoves
<1>. QED  BY <1>4, <1>5

LEMMA ReadTargetStep ==
  ASSUME GenerationInv, NEW r \in Requesters, ReadTarget(r)
  PROVE  GenerationInv'
<1> DEFINE rq == request[r]
<1>1. /\ rq \in Requests /\ rq.root = <<>> /\ rq.result = "none"
      /\ rq.root \in Roots /\ ~ rq.failed /\ RequestInv(rq)
  BY RunningRequest DEF ReadTarget
<1>2. rq.failed \in BOOLEAN
  BY RunningRequest DEF ReadTarget
<1>3. UNCHANGED chainVars /\ rq.at = "target" /\ rq.transition.source \in imported
  BY <1>1 DEF ReadTarget, RequestInv
<1>4. CASE rq.transition.target \in imported
  <2>1. request' = [request EXCEPT ![r] = Moved(rq, "build", rq.root, rq.result, rq.failed)]
    BY <1>4, GoesOn DEF ReadTarget
  <2>2. Justified(rq, "build", rq.root, rq.result, rq.failed)
    BY <1>1, <1>3, <1>4 DEF Justified
  <2>3. "build" \in Places /\ rq.result \in Outcomes
    BY <1>1 DEF Places, Outcomes
  <2>. QED  BY <1>1, <1>2, <1>3, <2>1, <2>2, <2>3, RequestMoves
<1>5. CASE rq.transition.target \notin imported
  <2>1. request' = [request EXCEPT ![r] = Moved(rq, "idle", rq.root, "error", rq.failed)]
    BY <1>5, Ends DEF ReadTarget, End
  <2>2. Justified(rq, "idle", rq.root, "error", rq.failed)
    BY <1>1, <1>3, <1>5 DEF Justified, RequestInv
  <2>3. "idle" \in Places /\ "error" \in Outcomes
    BY DEF Places, Outcomes
  <2>. QED  BY <1>1, <1>2, <1>3, <2>1, <2>2, <2>3, RequestMoves
<1>. QED  BY <1>4, <1>5

\* When a proof is built, both blocks are known, and so neither is the default one.
LEMMA BuiltBlocksAreKnown ==
  ASSUME GenerationInv, NEW r \in Requesters, request[r].at = "build"
  PROVE  NoBlock \notin {request[r].transition.source, request[r].transition.target}
<1>1. {request[r].transition.source, request[r].transition.target} \subseteq imported
  BY DEF GenerationInv, RequestInv
<1>. QED  BY <1>1, GenerationAssumption DEF GenerationInv, ChainTypeOK

LEMMA BuildMerkleStep ==
  ASSUME GenerationInv, NEW r \in Requesters, BuildMerkleProof(r)
  PROVE  GenerationInv'
<1> DEFINE rq == request[r]
<1>1. /\ rq \in Requests /\ rq.root = <<>> /\ rq.result = "none"
      /\ rq.type = SupportedType[rq.generator]
      /\ rq.root \in Roots /\ ~ rq.failed /\ RequestInv(rq)
  BY RunningRequest DEF BuildMerkleProof
<1>2. rq.failed \in BOOLEAN
  BY RunningRequest DEF BuildMerkleProof
<1>3. /\ UNCHANGED chainVars /\ rq.at = "build" /\ rq.generator = "merkle"
      /\ NoBlock \notin {rq.transition.source, rq.transition.target}
  BY BuiltBlocksAreKnown DEF BuildMerkleProof
<1>4. CASE HasRoot(rq.transition.data) /\ ~ TooLarge(r)
  <2> DEFINE root == <<Root(rq.transition.data)>>
  <2>1. request' = [request EXCEPT ![r] = Moved(rq, "idle", root, "proof", rq.failed)]
    BY <1>4, Proves DEF BuildMerkleProof
  <2>2. Justified(rq, "idle", root, "proof", rq.failed)
    BY <1>1, <1>3, <1>4 DEF Justified, IsProvable, TooLarge, Exceeds
  <2>3. "idle" \in Places /\ "proof" \in Outcomes /\ root \in Roots
    BY <1>1, <1>4, RequestFields DEF Places, Outcomes
  <2>. QED  BY <1>1, <1>2, <1>3, <2>1, <2>2, <2>3, RequestMoves
<1>5. CASE ~ (HasRoot(rq.transition.data) /\ ~ TooLarge(r))
  <2>1. request' = [request EXCEPT ![r] = Moved(rq, "idle", rq.root, "error", rq.failed)]
    BY <1>5, Ends DEF BuildMerkleProof, End
  <2>2. Justified(rq, "idle", rq.root, "error", rq.failed)
    BY <1>1, <1>3, <1>5 DEF Justified, IsProvable, TooLarge, Exceeds
  <2>3. "idle" \in Places /\ "error" \in Outcomes
    BY DEF Places, Outcomes
  <2>. QED  BY <1>1, <1>2, <1>3, <2>1, <2>2, <2>3, RequestMoves
<1>. QED  BY <1>4, <1>5

LEMMA BuildSignatureStep ==
  ASSUME GenerationInv, NEW r \in Requesters, BuildSignatureProof(r)
  PROVE  GenerationInv'
<1> DEFINE rq == request[r]
           result == IF TooLarge(r) THEN "error" ELSE "proof"
<1>1. /\ rq \in Requests /\ rq.root = <<>> /\ rq.result = "none"
      /\ rq.type = SupportedType[rq.generator]
      /\ rq.root \in Roots /\ ~ rq.failed /\ RequestInv(rq)
  BY RunningRequest DEF BuildSignatureProof
<1>2. rq.failed \in BOOLEAN
  BY RunningRequest DEF BuildSignatureProof
<1>3. /\ UNCHANGED chainVars /\ rq.at = "build" /\ rq.generator = "bls"
      /\ NoBlock \notin {rq.transition.source, rq.transition.target}
  BY BuiltBlocksAreKnown DEF BuildSignatureProof
<1>4. request' = [request EXCEPT ![r] = Moved(rq, "idle", rq.root, result, rq.failed)]
  BY Ends DEF BuildSignatureProof, End
<1>5. Justified(rq, "idle", rq.root, result, rq.failed)
  BY <1>1, <1>3 DEF Justified, IsProvable, TooLarge, Exceeds
<1>6. "idle" \in Places /\ result \in Outcomes
  BY DEF Places, Outcomes
<1>. QED  BY <1>1, <1>2, <1>3, <1>4, <1>5, <1>6, RequestMoves

LEMMA FailHeaderStep ==
  ASSUME GenerationInv, NEW r \in Requesters, FailHeader(r)
  PROVE  GenerationInv'
<1> DEFINE rq == request[r]
<1>1. /\ rq.root = <<>> /\ rq.result = "none" /\ rq.root \in Roots
  BY RunningRequest DEF FailHeader
<1>2. UNCHANGED chainVars /\ rq.at # "idle"
  BY DEF FailHeader
<1>3. request' = [request EXCEPT ![r] = Moved(rq, "idle", rq.root, "error", TRUE)]
  BY Fails DEF FailHeader
<1>4. Justified(rq, "idle", rq.root, "error", TRUE)
  BY <1>1, <1>2 DEF Justified
<1>5. "idle" \in Places /\ "error" \in Outcomes
  BY DEF Places, Outcomes
<1>. QED  BY <1>1, <1>2, <1>3, <1>4, <1>5, RequestMoves

\* The request a call begins with.
LEMMA NewRequest ==
  ASSUME NEW generator \in Generators, NEW type \in ProofTypes,
         NEW transition \in Transitions \cup {ObserverTransition}, NEW limit \in Nat,
         NEW at \in Places, NEW result \in Outcomes, NEW complete \in BOOLEAN, NEW rq,
         rq = [at |-> at, generator |-> generator, type |-> type, transition |-> transition,
               limit |-> limit, root |-> <<>>, result |-> result, complete |-> complete,
               failed |-> FALSE]
  PROVE  /\ rq \in Requests
         /\ rq.at = at /\ rq.result = result /\ rq.root = <<>>
         /\ rq.generator = generator /\ rq.type = type
         /\ rq.transition = transition /\ rq.limit = limit
         /\ rq.complete = complete /\ ~ rq.failed
<1>1. <<>> \in Roots
  BY DEF Roots
<1>2. rq \in Requests
  <2>1. ASSUME NEW Given, NEW Carried, NEW Bools, NEW none \in Carried, NEW no \in Bools,
               transition \in Given, complete \in Bools
        PROVE  [at |-> at, generator |-> generator, type |-> type, transition |-> transition,
                limit |-> limit, root |-> none, result |-> result, complete |-> complete,
                failed |-> no]
                 \in [at : Places, generator : Generators, type : ProofTypes,
                      transition : Given, limit : Nat, root : Carried, result : Outcomes,
                      complete : Bools, failed : Bools]
    BY <1>1, <2>1, Zenon
  <2>2. rq \in [at : Places, generator : Generators, type : ProofTypes,
                transition : Transitions \cup {ObserverTransition}, limit : Nat,
                root : Roots, result : Outcomes, complete : BOOLEAN,
                failed : BOOLEAN]
    BY <1>1, <2>1, Zenon
  <2>. QED  BY <2>2 DEF Requests, Places, Outcomes
<1>3. /\ rq.at = at /\ rq.result = result /\ rq.root = <<>>
      /\ rq.generator = generator /\ rq.type = type
      /\ rq.transition = transition /\ rq.limit = limit
  OBVIOUS
<1>4. rq.complete = complete
  BY Zenon
<1>5. ~ rq.failed
  OBVIOUS
<1>. QED  BY <1>2, <1>3, <1>4, <1>5, Zenon

LEMMA CalledRequest ==
  ASSUME ChainTypeOK, NEW generator \in Generators, NEW type \in ProofTypes,
         NEW transition \in Transitions \cup {ObserverTransition}, NEW limit \in Nat,
         NEW at \in Places, NEW result \in Outcomes
  PROVE  \E rq \in Requests :
           /\ rq = Called(generator, type, transition, limit, at, result)
           /\ rq.at = at /\ rq.result = result /\ rq.root = <<>>
           /\ rq.generator = generator /\ rq.type = type
           /\ rq.transition = transition /\ rq.limit = limit
           /\ rq.complete => {transition.source, transition.target} \subseteq imported
           /\ ~ rq.failed
<1> DEFINE complete == {transition.source, transition.target} \subseteq imported
           rq == [at |-> at, generator |-> generator, type |-> type, transition |-> transition,
                  limit |-> limit, root |-> <<>>, result |-> result, complete |-> complete,
                  failed |-> FALSE]
<1>1. rq = Called(generator, type, transition, limit, at, result)
  BY Zenon DEF Called
<1>2. complete \in BOOLEAN
  OBVIOUS
<1> HIDE DEF complete
<1>3. /\ rq \in Requests
      /\ rq.at = at /\ rq.result = result /\ rq.root = <<>>
      /\ rq.generator = generator /\ rq.type = type
      /\ rq.transition = transition /\ rq.limit = limit
      /\ ~ rq.failed
  BY <1>2, NewRequest
<1>4. rq.complete = complete
  BY <1>2, NewRequest
<1> HIDE DEF rq
<1>5. rq.complete => {transition.source, transition.target} \subseteq imported
  BY <1>4 DEF complete
<1>. QED  BY <1>1, <1>3, <1>5

LEMMA GenerateStep ==
  ASSUME GenerationInv, NEW r \in Requesters, NEW generator \in Generators,
         NEW type \in ProofTypes, NEW transition \in Transitions, NEW limit \in SizeLimits,
         Generate(r, generator, type, transition, limit)
  PROVE  GenerationInv'
<1>1. limit \in Nat /\ transition \in Transitions \cup {ObserverTransition}
  BY GenerationAssumption
<1>2. ChainTypeOK /\ UNCHANGED chainVars
  BY DEF GenerationInv, Generate
<1> DEFINE supported == type = SupportedType[generator]
           IsCall(rq, at, result) ==
             /\ rq = Called(generator, type, transition, limit, at, result)
             /\ rq.at = at /\ rq.result = result /\ rq.root = <<>>
             /\ rq.generator = generator /\ rq.type = type
             /\ rq.transition = transition /\ rq.limit = limit
             /\ rq.complete => {transition.source, transition.target} \subseteq imported
             /\ ~ rq.failed
<1>3. ASSUME NEW at \in Places, NEW result \in Outcomes
      PROVE  \E rq \in Requests : IsCall(rq, at, result)
  BY <1>1, <1>2, CalledRequest
<1>4. /\ "source" \in Places /\ "none" \in Outcomes
      /\ "idle" \in Places /\ "error" \in Outcomes
  BY DEF Places, Outcomes
<1> HIDE DEF IsCall
<1>5. CASE supported
  <2>1. PICK rq \in Requests : IsCall(rq, "source", "none")
    BY <1>3, <1>4
  <2>2. request' = [request EXCEPT ![r] = rq]
    BY <1>5, <2>1 DEF Generate, IsCall
  <2>3. rq.type = SupportedType[rq.generator]
    BY <1>5, <2>1 DEF IsCall
  <2>4. RequestInv(rq)
    BY <2>1, <2>3 DEF RequestInv, IsCall
  <2>. QED  BY <1>2, <2>2, <2>4, RequestStep
<1>6. CASE ~ supported
  <2>1. PICK rq \in Requests : IsCall(rq, "idle", "error")
    BY <1>3, <1>4
  <2>2. request' = [request EXCEPT ![r] = rq]
    BY <1>6, <2>1 DEF Generate, IsCall
  <2>3. rq.type # SupportedType[rq.generator]
    BY <1>6, <2>1 DEF IsCall
  <2>4. RequestInv(rq)
    BY <2>1, <2>3 DEF RequestInv, IsProvable, IsCall
  <2>. QED  BY <1>2, <2>2, <2>4, RequestStep
<1>. QED  BY <1>5, <1>6

\* The chain moves, and no request.
LEMMA ChainStep ==
  ASSUME GenerationInv, GenerationChainStep
  PROVE  GenerationInv'
<1>1. ChainTypeOK' /\ imported \subseteq imported' /\ request' = request
  BY KnownBlocks DEF GenerationInv, GenerationChainStep
<1>2. ASSUME NEW r \in Requesters
      PROVE  RequestInv(request[r])'
  <2>1. PICK rq : rq = request[r] /\ RequestInv(rq)
    BY DEF GenerationInv
  <2>2. RequestInv(rq)'
    BY <1>1, <2>1, RequestStays
  <2>. QED  BY <1>1, <2>1, <2>2 DEF RequestInv
<1>. QED  BY <1>1, <1>2 DEF GenerationInv

LEMMA GenerationInvariant == GenerationSpec => []GenerationInv
<1>1. GenerationInit => GenerationInv
  <2> SUFFICES ASSUME GenerationInit PROVE GenerationInv
    OBVIOUS
  <2>1. ChainTypeOK
    BY TreeAssumption DEF GenerationInit, ChainInit, ChainTypeOK
  <2>2. PICK rq \in Requests :
          /\ rq = Called("merkle", DefaultType, ObserverTransition, 0, "idle", "none")
          /\ rq.at = "idle" /\ rq.result = "none" /\ rq.root = <<>>
          /\ rq.complete => {ObserverTransition.source, ObserverTransition.target}
                              \subseteq imported
          /\ rq.transition = ObserverTransition
    <3>1. /\ "merkle" \in Generators /\ DefaultType \in ProofTypes
          /\ "idle" \in Places /\ "none" \in Outcomes
      BY DEF Generators, SupportedType, DefaultType, ProofTypes, Places, Outcomes
    <3>. QED  BY <2>1, <3>1, CalledRequest
  <2>3. request = [r \in Requesters |-> rq]
    BY <2>2 DEF GenerationInit
  <2>4. RequestInv(rq)
    BY <2>2 DEF RequestInv
  <2>. QED  BY <2>1, <2>3, <2>4 DEF GenerationInv
<1>2. GenerationInv /\ [GenerationNext]_generationVars => GenerationInv'
  <2> SUFFICES ASSUME GenerationInv, [GenerationNext]_generationVars
               PROVE  GenerationInv'
    OBVIOUS
  <2>1. CASE GenerationChainStep
    BY <2>1, ChainStep
  <2>2. ASSUME NEW r \in Requesters,
               \/ \E generator \in Generators, type \in ProofTypes,
                     transition \in Transitions, limit \in SizeLimits :
                    Generate(r, generator, type, transition, limit)
               \/ ReadSource(r)
               \/ ReadTarget(r)
               \/ BuildMerkleProof(r)
               \/ BuildSignatureProof(r)
               \/ FailHeader(r)
        PROVE  GenerationInv'
    BY <2>2, GenerateStep, ReadSourceStep, ReadTargetStep, BuildMerkleStep,
       BuildSignatureStep, FailHeaderStep
  <2>3. CASE UNCHANGED generationVars
    BY <2>3 DEF generationVars, chainVars, GenerationInv, ChainTypeOK, RequestInv
  <2>. QED  BY <2>1, <2>2, <2>3 DEF GenerationNext
<1>. QED  BY <1>1, <1>2, PTL DEF GenerationSpec

-----------------------------------------------------------------------------
(* The theorems.                                                            *)

\* A Merkle proof is of data, and carries their root.
LEMMA MerkleProofCarriesRoot ==
  ASSUME GenerationInv, NEW r \in Requesters, IsMerkleProof(r)
  PROVE  /\ request[r].transition.data \in Seq(0 .. 255)
         /\ HasRoot(request[r].transition.data)
         /\ request[r].root = <<Root(request[r].transition.data)>>
<1>1. PICK rq \in Requests : rq = request[r] /\ RequestInv(rq)
  BY DEF GenerationInv
<1>2. rq.result = "proof" /\ rq.generator = "merkle"
  BY <1>1 DEF IsMerkleProof
<1>3. HasRoot(rq.transition.data) /\ rq.root = <<Root(rq.transition.data)>>
  BY <1>1, <1>2 DEF RequestInv, IsProvable
<1>. QED  BY <1>1, <1>3, RequestFields

\* Every field keeps its type, and just the Merkle proofs carry a root, which is
\* never the missing root of no data (src/proof/generator.rs:143).
THEOREM GenerationTypeInvariant == GenerationSpec => []GenerationTypeOK
<1>1. GenerationInv => GenerationTypeOK
  <2> SUFFICES ASSUME GenerationInv, NEW r \in Requesters
               PROVE  request[r].root # <<>> <=> IsMerkleProof(r)
    BY DEF GenerationInv, GenerationTypeOK
  <2>1. CASE IsMerkleProof(r)
    <3>1. \A x : <<x>> # <<>>
      OBVIOUS
    <3>. QED  BY <2>1, <3>1, MerkleProofCarriesRoot
  <2>2. CASE ~ IsMerkleProof(r)
    BY <2>2 DEF GenerationInv, RequestInv, IsMerkleProof
  <2>. QED  BY <2>1, <2>2
<1>. QED  BY <1>1, GenerationInvariant, PTL

\* A request whose blocks were known from the start is refused only for its type, its
\* lack of data or its size, or because a read failed, and what those checks refuse is
\* never proved, whatever the chain does between the reads
\* (src/proof/generator.rs:118-182).
THEOREM OnlyDefectsAreRefusedHolds == GenerationSpec => []OnlyDefectsAreRefused
<1>1. GenerationInv => OnlyDefectsAreRefused
  BY DEF GenerationInv, RequestInv, OnlyDefectsAreRefused, TooLarge, Exceeds
<1>. QED  BY <1>1, GenerationInvariant, PTL

\* The transition the observer hands to its generator names the default blocks, which
\* no client knows: no generator ever proves it, on any chain
\* (src/observer/mod.rs:349, src/proof/generator.rs:129).
ObserverTransitionIsNeverProved ==
  \A r \in Requesters :
    request[r].transition = ObserverTransition => request[r].result # "proof"

THEOREM ObserverTransitionIsNeverProvedHolds ==
  GenerationSpec => []ObserverTransitionIsNeverProved
<1>1. GenerationInv => ObserverTransitionIsNeverProved
  <2> SUFFICES ASSUME GenerationInv, NEW r \in Requesters,
                      request[r].transition = ObserverTransition,
                      request[r].result = "proof"
               PROVE  FALSE
    BY DEF ObserverTransitionIsNeverProved
  <2>1. IsProvable(request[r].generator, request[r].type, ObserverTransition)
    BY DEF GenerationInv, RequestInv
  <2>. QED  BY <2>1 DEF IsProvable, ObserverTransition
<1>. QED  BY <1>1, GenerationInvariant, PTL
=============================================================================
