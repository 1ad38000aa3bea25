------------------------- MODULE FinalityRulesProofs -------------------------
(***************************************************************************)
(* Lemmas about the arithmetic of FinalityRules and the steps of the client *)
(* on which the theorems about finality rest.                               *)
(***************************************************************************)
EXTENDS FinalityRules, FiniteSetTheorems, TLAPS

-----------------------------------------------------------------------------
(* The arithmetic of a finality status.                                     *)

\* verify_justification adds up finitely many units.
LEMMA SignedWeightType ==
  ASSUME NEW justification \in Justifications, NEW vs \in VoterSets
  PROVE  SignedWeight(justification, vs) \in Nat
<1> DEFINE J == DOMAIN justification
<1>1. IsFiniteSet(J \X (1 .. MaxU64))
  <2>1. J = 1 .. Len(justification) /\ Len(justification) \in Nat
    BY AuthorityAssumption
  <2>2. IsFiniteSet(J) /\ IsFiniteSet(1 .. MaxU64)
    BY <2>1, FS_Interval, ConfigAssumption
  <2>. QED  BY <2>2, FS_Product
<1>2. SignedUnits(justification, vs) \in SUBSET (J \X (1 .. MaxU64))
  BY DEF SignedUnits
<1>3. Cardinality(SignedUnits(justification, vs)) \in Nat
  BY <1>1, <1>2, FS_Subset, FS_CardinalityType
<1>. QED  BY <1>3, ConfigAssumption DEF SignedWeight, MinOf

\* A voter set has finitely many units of weight.
LEMMA UnitsFinite ==
  ASSUME NEW vs \in VoterSets
  PROVE  IsFiniteSet(Units(vs))
<1>1. PICK list \in AuthorityLists : vs = VoterSet(list)
  BY DEF VoterSets
<1>2. DOMAIN vs \in SUBSET Authorities
  BY <1>1, AuthorityAssumption DEF VoterSet
<1>3. IsFiniteSet(DOMAIN vs) /\ IsFiniteSet(1 .. MaxU64)
  BY <1>2, FS_Subset, FS_Interval, AuthorityAssumption, ConfigAssumption
<1>4. IsFiniteSet((DOMAIN vs) \X (1 .. MaxU64))
  BY <1>3, FS_Product
<1>5. Units(vs) \in SUBSET ((DOMAIN vs) \X (1 .. MaxU64))
  BY DEF Units
<1>. QED  BY <1>4, <1>5, FS_Subset

LEMMA TotalWeightType ==
  ASSUME NEW vs \in VoterSets
  PROVE  TotalWeight(vs) \in Nat
BY UnitsFinite, FS_CardinalityType DEF TotalWeight

\* Dividing naturals stays in the naturals.
LEMMA DivisionType ==
  ASSUME NEW x \in Nat, NEW y \in Nat \ {0}
  PROVE  x \div y \in Nat
OBVIOUS

\* A quotient that reaches k means k times the divisor.
LEMMA QuotientBound ==
  ASSUME NEW x \in Nat, NEW y \in Nat \ {0}, NEW k \in Nat, x \div y >= k
  PROVE  x >= k * y
<1> DEFINE q == x \div y
<1>1. q \in Nat /\ q * y <= x
  OBVIOUS
<1>. HIDE DEF q
<1>2. k * y <= q * y
  <2>1. k <= q
    BY DEF q
  <2>. QED  BY <1>1, <2>1
<1>3. k * y \in Int /\ q * y \in Int
  BY <1>1
<1>. QED  BY <1>1, <1>2, <1>3

LEMMA StatusType ==
  ASSUME NEW b \in Blocks, NEW n \in Nat, NEW vs \in VoterSets,
         NEW justification \in Justifications \cup {None}
  PROVE  FinalityStatus(b, n, justification, vs) \in Statuses
<1>1. Number[b] \in Nat
  BY TreeAssumption
<1>2. SaturatingSub(n, Number[b]) \in Nat
  BY <1>1 DEF SaturatingSub
<1>3. justification # None => ParticipationRate(justification, vs) \in Nat
  <2> SUFFICES ASSUME justification # None
               PROVE  ParticipationRate(justification, vs) \in Nat
    OBVIOUS
  <2>1. SignedWeight(justification, vs) \in Nat /\ TotalWeight(vs) \in Nat
    BY SignedWeightType, TotalWeightType
  <2>2. 100 * SignedWeight(justification, vs) \in Nat
    BY <2>1
  <2>. QED  BY <2>1, <2>2, DivisionType DEF ParticipationRate
<1>. QED  BY <1>1, <1>2, <1>3 DEF FinalityStatus, Statuses

\* Without a confirmation, and only blocks that are not finalized have none to
\* count, the confidence is at most 0.4 * 0 + 0.4 * 1 + 0.2.
LEMMA UnfinalizedConfidence ==
  ASSUME NEW status \in Statuses, ~ status.is_finalized, status.confirmations = 0
  PROVE  Confidence(status) <= 60
<1>1. ConfirmationConfidence(status) = 0
  BY ConfigAssumption DEF ConfirmationConfidence, MinOf
<1>2. ParticipationConfidence(status) \in Int /\ ParticipationConfidence(status) <= 100
  <2>1. status.participation_rate \in Nat
    BY DEF Statuses
  <2>2. CappedRatio(status.participation_rate, ParamsMinParticipation) \in Int
    BY <2>1, ConfigAssumption, DivisionType DEF CappedRatio, MinOf
  <2>3. CappedRatio(status.participation_rate, ParamsMinParticipation) <= 100
    BY <2>1, ConfigAssumption, DivisionType DEF CappedRatio, MinOf
  <2>. QED  BY <2>2, <2>3 DEF ParticipationConfidence
<1>3. (40 * 0 + 40 * ParticipationConfidence(status)) \div 100 <= 40
  BY <1>2
<1>4. (40 * 0 + 40 * ParticipationConfidence(status)) \div 100 \in Int
  BY <1>2
<1>. QED  BY <1>1, <1>3, <1>4 DEF Confidence, MinOf

\* Without a justification either, only the 0.2 are left.
LEMMA UnjustifiedConfidence ==
  ASSUME NEW status \in Statuses, ~ status.is_finalized, status.confirmations = 0,
         ~ status.has_justification
  PROVE  Confidence(status) = 20
<1>1. ConfirmationConfidence(status) = 0
  BY ConfigAssumption DEF ConfirmationConfidence, MinOf
<1>2. ParticipationConfidence(status) = 0
  BY DEF ParticipationConfidence
<1>. QED  BY <1>1, <1>2 DEF Confidence, MinOf

\* The confidence of a status is an integer.
LEMMA ConfidenceType ==
  ASSUME NEW status \in Statuses
  PROVE  Confidence(status) \in Int
<1>1. status.confirmations \in Nat /\ status.participation_rate \in Nat
  BY DEF Statuses
<1>2. ConfirmationConfidence(status) \in Int
  BY <1>1, ConfigAssumption, DivisionType DEF ConfirmationConfidence, MinOf
<1>3. ParticipationConfidence(status) \in Int
  BY <1>1, ConfigAssumption, DivisionType DEF ParticipationConfidence, CappedRatio, MinOf
<1>. QED  BY <1>2, <1>3 DEF Confidence, MinOf

-----------------------------------------------------------------------------
(* The chain.                                                               *)

\* The client stays a tree of blocks with a best and a finalized one.
LEMMA ChainTypeInvariant ==
  ASSUME ChainTypeOK, ChainNext
  PROVE  ChainTypeOK'
<1>1. ASSUME NEW b \in Blocks, ImportBlock(b)
      PROVE  ChainTypeOK'
  BY <1>1 DEF ChainTypeOK, ImportBlock
<1>2. ASSUME NEW b \in Blocks, FinalizeBlock(b)
      PROVE  ChainTypeOK'
  BY <1>2 DEF ChainTypeOK, FinalizeBlock
<1>. QED  BY <1>1, <1>2 DEF ChainNext

\* The finalized number never decreases.
LEMMA ChainGrows ==
  ASSUME ChainTypeOK, [ChainNext]_chainVars
  PROVE  Number[finalized] \in Nat /\ Number[finalized'] \in Nat
         /\ Number[finalized] <= Number[finalized']
<1>1. finalized \in Blocks /\ finalized' \in Blocks
  BY ChainTypeInvariant DEF ChainTypeOK, chainVars
<1>2. Number[finalized] \in Nat /\ Number[finalized'] \in Nat
  BY <1>1, TreeAssumption
<1>. QED  BY <1>2 DEF ChainNext, ImportBlock, FinalizeBlock, chainVars
=============================================================================
