---------------------------- MODULE FinalityRules ----------------------------
(***************************************************************************)
(* What src/finality/mod.rs computes from the answers of the client and the *)
(* voter set, without the order in which it asks for them: the weights and  *)
(* participation of a justification, the status of a block, the confidence  *)
(* in it and the refusals of the chain rules.                               *)
(*                                                                          *)
(* Fractions of the code (f64) are hundredths, rounded down; an authority's *)
(* weight is a number of units, so that a sum of weights is the size of a   *)
(* set of units.                                                            *)
(***************************************************************************)
EXTENDS SubstrateClient

CONSTANTS
  Authorities,            \* the GRANDPA authority ids
  AuthorityLists,         \* the authority lists the runtime can hand out
  MaxU64,                 \* the largest u64, at the scale of the instance
  ConfidenceThreshold,    \* PredicateConfig.confidence_threshold, in hundredths
  MinConfirmations,       \* PredicateConfig.min_confirmations
  ParamsMinConfirmations, \* GrandpaVerificationParams.min_confirmations
  ParamsMinParticipation, \* GrandpaVerificationParams.min_participation
  MaxForkDepth            \* ChainRules.max_fork_depth, 50 in the code

\* ChainRules.min_participation, 0.67 in the code.
RulesMinParticipation == 67

ASSUME ConfigAssumption ==
  /\ ConfidenceThreshold \in 0 .. 100
  /\ MinConfirmations \in Nat
  /\ ParamsMinConfirmations \in Nat
  /\ ParamsMinParticipation \in 0 .. 100
  /\ MaxForkDepth \in Nat
  /\ MaxU64 \in Nat \ {0}

\* A precommit of a commit: who sent it, and whether its signature verifies.
Precommits == [id : Authorities, valid : BOOLEAN]

ASSUME AuthorityAssumption ==
  /\ IsFiniteSet(Authorities)
  /\ AuthorityLists \subseteq UNION {[S -> 0 .. MaxU64] : S \in SUBSET Authorities}
  /\ Justifications \subseteq Seq(Precommits)

-----------------------------------------------------------------------------
(* finality-grandpa's VoterSet: authorities of weight zero are dropped, and *)
(* there is no voter set without a voter or with more than u64 of weight.   *)

\* The units of weight of a list of authorities, or of a voter set.
Units(weights) ==
  {u \in (DOMAIN weights) \X (1 .. MaxU64) : u[2] <= weights[u[1]]}

TotalWeight(weights) == Cardinality(Units(weights))

IsVoterSet(list) == TotalWeight(list) \in 1 .. MaxU64

VoterSet(list) == [a \in {x \in DOMAIN list : list[x] > 0} |-> list[a]]

VoterSets == {VoterSet(list) : list \in {l \in AuthorityLists : IsVoterSet(l)}}

-----------------------------------------------------------------------------
MinOf(x, y) == IF x < y THEN x ELSE y
SaturatingSub(x, y) == IF x < y THEN 0 ELSE x - y

\* x / y of two f64 in [0, 1], capped at 1; 0/0 is NaN, and NaN.min(1.0) is 1.
CappedRatio(x, y) == IF y = 0 THEN 100 ELSE MinOf((100 * x) \div y, 100)

\* Variation: the signature of a precommit is not verified.
SignedUnitsUnverified(justification, vs) ==
  {u \in (DOMAIN justification) \X (1 .. MaxU64) :
     LET precommit == justification[u[1]]
     IN  precommit.id \in DOMAIN vs /\ u[2] <= vs[precommit.id]}

\* The units of weight verify_justification adds up: one share per precommit
\* whose author is a voter and whose signature verifies.
SignedUnits(justification, vs) ==
  {u \in (DOMAIN justification) \X (1 .. MaxU64) :
     LET precommit == justification[u[1]]
     IN  precommit.valid /\ precommit.id \in DOMAIN vs /\ u[2] <= vs[precommit.id]}

\* signed_weight, a saturating sum.
SignedWeight(justification, vs) ==
  MinOf(Cardinality(SignedUnits(justification, vs)), MaxU64)

\* The participation rate of verify_justification.
ParticipationRate(justification, vs) ==
  IF TotalWeight(vs) > 0
  THEN (100 * SignedWeight(justification, vs)) \div TotalWeight(vs)
  ELSE 0

Statuses == [confirmations : Nat, is_finalized : BOOLEAN,
             has_justification : BOOLEAN, participation_rate : Nat]

NoStatus == [confirmations |-> 0, is_finalized |-> FALSE,
             has_justification |-> FALSE, participation_rate |-> 0]

\* FinalityStatus, from the finalized number read first, the justification
\* read after it and the voter set read last.  A justification that cannot be
\* decoded counts like one without a precommit.
FinalityStatus(b, finalizedNumber, justification, vs) ==
  [confirmations      |-> SaturatingSub(finalizedNumber, Number[b]),
   is_finalized       |-> Number[b] <= finalizedNumber,
   has_justification  |-> justification # None,
   participation_rate |-> IF justification = None THEN 0
                          ELSE ParticipationRate(justification, vs)]

\* get_finality_confidence: 40% confirmations, 40% participation, 20% for free,
\* and at most 95% unless the block is finalized.
ConfirmationConfidence(status) ==
  IF ParamsMinConfirmations > 0
  THEN MinOf((100 * status.confirmations) \div ParamsMinConfirmations, 100)
  ELSE 0

ParticipationConfidence(status) ==
  IF status.has_justification
  THEN CappedRatio(status.participation_rate, ParamsMinParticipation)
  ELSE 0

Confidence(status) ==
  IF status.is_finalized THEN 100
  ELSE MinOf((40 * ConfirmationConfidence(status)
              + 40 * ParticipationConfidence(status)) \div 100 + 20, 95)

\* Variation: a block at the maximum depth is refused.
ForkTooDeepFromEqual(b) == SaturatingSub(Number[best], Number[b]) >= MaxForkDepth

\* The two refusals verify_chain_rules decides after its last read of `info`.
ForkTooDeep(b) == SaturatingSub(Number[best], Number[b]) > MaxForkDepth

TooFewParticipate(status) ==
  status.has_justification /\ status.participation_rate < RulesMinParticipation
=============================================================================
