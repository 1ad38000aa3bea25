------------------------ MODULE GrandpaFinalityProofs ------------------------
(***************************************************************************)
(* Theorems about GrandpaFinality, for every tree of blocks, every set of   *)
(* callers and authorities and every configuration: the type invariant,     *)
(* that a block declared final stays min_confirmations below the finalized  *)
(* one, that a verdict of final rests on evidence, and that the predicate   *)
(* keeps the promise of FinalityGadget: a block declared final is denied to *)
(* nobody who asks later, until the chain has left it too far behind.       *)
(***************************************************************************)
EXTENDS GrandpaFinality, FinalityRulesProofs

-----------------------------------------------------------------------------
(* Type correctness.                                                        *)

LEMMA ReturnType ==
  ASSUME TypeOK, NEW c \in Callers, NEW verdict \in Verdicts, Return(c, verdict)
  PROVE  call' \in [Callers -> Calls] /\ declared' \in SUBSET Blocks
<1> USE DEF TypeOK, FinalityTypeOK
<1>1. call[c] \in Calls
  OBVIOUS
<1>2. [NoCall EXCEPT !.block = call[c].block, !.number = call[c].number,
                     !.known = call[c].known, !.verdict = verdict] \in Calls
  BY <1>1, TreeAssumption DEF Calls, NoCall, NoStatus, Statuses, Reads, Phases, Verdicts
<1>3. call[c].block \in Blocks
  BY <1>1 DEF Calls
<1>. QED  BY <1>2, <1>3 DEF Return

LEMMA StatusOfCallType ==
  ASSUME TypeOK, NEW c \in Callers
  PROVE  Status(c) \in Statuses
<1>1. call[c] \in Calls /\ voter_set \in VoterSets
  BY DEF TypeOK, FinalityTypeOK
<1>. QED  BY <1>1, StatusType DEF Status, Calls

LEMMA TypeInit == Init => TypeOK
<1> SUFFICES ASSUME Init PROVE TypeOK
  OBVIOUS
<1>1. ChainTypeOK
  BY TreeAssumption DEF Init, ChainInit, ChainTypeOK
<1>2. NoCall \in Calls
  BY TreeAssumption DEF Calls, NoCall, NoStatus, Statuses, Reads, Phases, Verdicts
<1>3. in_force \in [Callers -> SUBSET VoterSets]
  BY DEF Init
<1>. QED  BY <1>1, <1>2, <1>3 DEF Init, TypeOK, FinalityTypeOK

\* Every variable keeps its type in every step.
LEMMA TypeStep == TypeOK /\ [Next]_vars => TypeOK'
<1> SUFFICES ASSUME TypeOK, [Next]_vars PROVE TypeOK'
  OBVIOUS
<1> USE DEF TypeOK, FinalityTypeOK
<1>1. CASE ChainStep
  BY <1>1, ChainTypeInvariant DEF ChainStep, finalityVars, voterVars
<1>2. ASSUME NEW list \in AuthorityLists, HandleAuthoritySetUpdate(list)
      PROVE  TypeOK'
  <2>1. PICK vs \in VoterSets : ReplaceVoterSet(vs)
    BY <1>2 DEF HandleAuthoritySetUpdate, VoterSets
  <2>2. \A c \in Callers : in_force[c] \in SUBSET VoterSets
    OBVIOUS
  <2>3. in_force' \in [Callers -> SUBSET VoterSets]
    BY <2>1, <2>2 DEF ReplaceVoterSet
  <2>. QED  BY <2>1, <2>3 DEF ReplaceVoterSet, ChainTypeOK, chainVars
<1>3. ASSUME NEW c \in Callers, NEW b \in Blocks, NEW n \in {Number[x] : x \in Blocks},
             IsFinal(c, b, n)
      PROVE  TypeOK'
  <2>1. n \in Nat
    BY TreeAssumption
  <2> DEFINE known == b \in declared
  <2>2. known \in BOOLEAN
    BY SMT
  <2>3. call' = [call EXCEPT ![c] = [NoCall EXCEPT !.at = "header", !.block = b,
                                                   !.number = n, !.known = known]]
    BY <1>3 DEF IsFinal
  <2> HIDE DEF known
  <2>4. [NoCall EXCEPT !.at = "header", !.block = b, !.number = n, !.known = known]
          \in Calls
    BY <2>1, <2>2 DEF Calls, NoCall, NoStatus, Statuses, Reads, Phases, Verdicts
  <2>5. in_force' \in [Callers -> SUBSET VoterSets]
    BY <1>3 DEF IsFinal
  <2>. QED  BY <1>3, <2>3, <2>4, <2>5 DEF IsFinal, ChainTypeOK, chainVars
<1>4. ASSUME NEW c \in Callers, CallStep(c)
      PROVE  TypeOK'
  <2>0. call[c] \in Calls
    OBVIOUS
  <2>1. CASE VerifyBlockHash(c)
    <3>1. CASE Return(c, "error")
      BY <2>1, <3>1, ReturnType DEF VerifyBlockHash, Verdicts, ChainTypeOK, chainVars, voterVars
    <3>2. CASE call' = [call EXCEPT ![c].at = "info"] /\ UNCHANGED declared
      <4>1. [call[c] EXCEPT !.at = "info"] \in Calls
        BY <2>0 DEF Calls, Reads
      <4>. QED  BY <2>1, <3>2, <4>1 DEF VerifyBlockHash, ChainTypeOK, chainVars, voterVars
    <3>. QED  BY <2>1, <3>1, <3>2 DEF VerifyBlockHash
  <2>2. CASE ReadInfo(c)
    <3>1. Number[finalized] \in Nat
      BY TreeAssumption DEF ChainTypeOK
    <3>2. [call[c] EXCEPT !.at = "justification", !.finalizedNumber = Number[finalized]]
            \in Calls
      BY <2>0, <3>1 DEF Calls, Reads
    <3>. QED  BY <2>2, <3>2 DEF ReadInfo, ChainTypeOK, chainVars, voterVars
  <2>3. CASE ReadJustification(c)
    <3>1. justifications[call[c].block] \in Justifications \cup {None}
      BY <2>0 DEF Calls, ChainTypeOK
    <3>2. [call[c] EXCEPT !.at = "voters",
                          !.justification = justifications[call[c].block]] \in Calls
      BY <2>0, <3>1 DEF Calls, Reads
    <3>. QED  BY <2>3, <3>2 DEF ReadJustification, ChainTypeOK, chainVars, voterVars
  <2>4. CASE LowConfidence(c)
    BY <2>4, ReturnType DEF LowConfidence, Verdicts, ChainTypeOK, chainVars, voterVars
  <2>5. CASE HighConfidence(c)
    <3>1. [call[c] EXCEPT !.at = "info", !.phase = "rules",
                          !.finalizedNumber = 0, !.justification = None] \in Calls
      BY <2>0 DEF Calls, Reads, Phases
    <3>. QED  BY <2>5, <3>1 DEF HighConfidence, ChainTypeOK, chainVars, voterVars
  <2>6. CASE FewConfirmations(c)
    BY <2>6, ReturnType DEF FewConfirmations, Verdicts, ChainTypeOK, chainVars, voterVars
  <2>7. CASE EnoughConfirmations(c)
    <3>1. Status(c) \in Statuses
      BY StatusOfCallType
    <3>2. [call[c] EXCEPT !.at = "best", !.status = Status(c),
                          !.finalizedNumber = 0, !.justification = None] \in Calls
      BY <2>0, <3>1 DEF Calls, Reads
    <3>. QED  BY <2>7, <3>2 DEF EnoughConfirmations, ChainTypeOK, chainVars, voterVars
  <2>8. CASE CheckDepthAndParticipation(c)
    <3>1. PICK verdict \in {"not_final", "final"} : Return(c, verdict)
      BY <2>8 DEF CheckDepthAndParticipation
    <3>. QED  BY <2>8, <3>1, ReturnType
              DEF CheckDepthAndParticipation, Verdicts, ChainTypeOK, chainVars, voterVars
  <2>9. CASE FailRead(c)
    BY <2>9, ReturnType DEF FailRead, Verdicts, ChainTypeOK, chainVars, voterVars
  <2>. QED  BY <1>4, <2>1, <2>2, <2>3, <2>4, <2>5, <2>6, <2>7, <2>8, <2>9 DEF CallStep
<1>5. CASE UNCHANGED vars
  BY <1>5 DEF vars, finalityVars, voterVars, chainVars, ChainTypeOK
<1>. QED  BY <1>1, <1>2, <1>3, <1>4, <1>5 DEF Next

\* The state is well typed whatever happens.
THEOREM TypeInvariant == Spec => []TypeOK
BY TypeInit, TypeStep, PTL DEF Spec

-----------------------------------------------------------------------------
(* A block declared final is buried.                                        *)

\* With min_confirmations = 0 only the confidence keeps out blocks that are not
\* finalized, and it does so above 0.6; min_confirmations > 0 suffices alone.
ConfigIsStrict == ConfidenceThreshold > 60 \/ MinConfirmations > 0

IsBuried(b) == Number[b] + MinConfirmations <= Number[finalized]

\* What a running call has read is old, but the chain only grows over it.
CallInv(c) ==
  /\ call[c].at \in {"justification", "voters"} =>
       call[c].finalizedNumber <= Number[finalized]
  /\ call[c].at # "idle" /\ call[c].phase = "rules" =>
       MinConfirmations > 0 \/ Number[call[c].block] <= Number[finalized]
  /\ call[c].at = "best" => IsBuried(call[c].block)
  /\ call[c].verdict = "final" => IsBuried(call[c].block)

BuriedInv == \A c \in Callers : CallInv(c)

\* The finalized number never decreases, so what is buried stays buried.
LEMMA FinalizedGrows ==
  ASSUME TypeOK, [ChainNext]_chainVars
  PROVE  Number[finalized] \in Nat /\ Number[finalized'] \in Nat
         /\ Number[finalized] <= Number[finalized']
BY ChainGrows DEF TypeOK

\* A call that a step leaves alone keeps its invariant.
LEMMA CallInvStable ==
  ASSUME TypeOK, [ChainNext]_chainVars, NEW c \in Callers, CallInv(c),
         call'[c] = call[c]
  PROVE  CallInv(c)'
<1>1. /\ Number[finalized] \in Nat /\ Number[finalized'] \in Nat
      /\ Number[finalized] <= Number[finalized']
  BY FinalizedGrows
<1>2. call[c].block \in Blocks /\ call[c].finalizedNumber \in Nat
  BY DEF TypeOK, FinalityTypeOK, Calls
<1>3. Number[call[c].block] \in Nat
  BY <1>2, TreeAssumption
<1>. QED  BY <1>1, <1>2, <1>3, ConfigAssumption DEF CallInv, IsBuried

\* A call that ends with another verdict than "final" claims nothing.
LEMMA ReturnInv ==
  ASSUME TypeOK, NEW c \in Callers, NEW verdict \in Verdicts, Return(c, verdict),
         UNCHANGED chainVars,
         verdict = "final" => IsBuried(call[c].block)
  PROVE  CallInv(c)'
<1>1. call'[c] = [NoCall EXCEPT !.block = call[c].block, !.number = call[c].number,
                                !.known = call[c].known, !.verdict = verdict]
  BY DEF Return, TypeOK, FinalityTypeOK
<1>. QED  BY <1>1 DEF CallInv, IsBuried, NoCall, chainVars

\* A call that goes on to the chain rules is about a finalized block, unless
\* the rules ask for confirmations themselves.
LEMMA HighConfidenceMeansFinalized ==
  ASSUME TypeOK, ConfigIsStrict, NEW c \in Callers, CallInv(c),
         call[c].at = "voters", Confidence(Status(c)) >= ConfidenceThreshold
  PROVE  MinConfirmations > 0 \/ Number[call[c].block] <= Number[finalized]
<1> SUFFICES ASSUME ConfidenceThreshold > 60
             PROVE  Number[call[c].block] <= Number[finalized]
  BY DEF ConfigIsStrict
<1>1. call[c].block \in Blocks /\ call[c].finalizedNumber \in Nat
  BY DEF TypeOK, FinalityTypeOK, Calls
<1>2. Number[call[c].block] \in Nat /\ Number[finalized] \in Nat
  BY <1>1, TreeAssumption DEF TypeOK, ChainTypeOK
<1>3. Status(c) \in Statuses
  BY StatusOfCallType
<1>4. CASE call[c].finalizedNumber < Number[call[c].block]
  <2>1. Status(c).confirmations = 0
    BY <1>1, <1>2, <1>4 DEF Status, FinalityStatus, SaturatingSub
  <2>2. ~ Status(c).is_finalized
    <3>1. Status(c).is_finalized = (Number[call[c].block] <= call[c].finalizedNumber)
      BY Zenon DEF Status, FinalityStatus
    <3>2. ~ (Number[call[c].block] <= call[c].finalizedNumber)
      BY <1>1, <1>2, <1>4
    <3>. QED  BY <3>1, <3>2, Zenon
  <2>3. Confidence(Status(c)) <= 60 /\ Confidence(Status(c)) \in Int
    BY <1>3, <2>1, <2>2, UnfinalizedConfidence, ConfidenceType
  <2>. QED  BY <2>3, ConfigAssumption
<1>5. CASE Number[call[c].block] <= call[c].finalizedNumber
  BY <1>1, <1>2, <1>5 DEF CallInv
<1>. QED  BY <1>1, <1>2, <1>4, <1>5

\* Every action preserves what the calls rely on.
LEMMA BuriedStep ==
  ASSUME TypeOK, TypeOK', ConfigIsStrict, BuriedInv, [Next]_vars
  PROVE  BuriedInv'
<1> SUFFICES ASSUME NEW d \in Callers
             PROVE  CallInv(d)'
  BY DEF BuriedInv
<1>0. CallInv(d) /\ call[d] \in Calls /\ Number[finalized] \in Nat
  BY TreeAssumption DEF BuriedInv, TypeOK, ChainTypeOK, FinalityTypeOK
<1>1. CASE ChainStep
  BY <1>0, <1>1, CallInvStable DEF ChainStep, finalityVars
<1>2. ASSUME NEW list \in AuthorityLists, HandleAuthoritySetUpdate(list)
      PROVE  CallInv(d)'
  BY <1>0, <1>2, CallInvStable DEF HandleAuthoritySetUpdate, ReplaceVoterSet
<1>3. ASSUME NEW c \in Callers, NEW b \in Blocks, NEW n \in {Number[x] : x \in Blocks},
             IsFinal(c, b, n)
      PROVE  CallInv(d)'
  <2>1. CASE c # d
    BY <1>0, <1>3, <2>1, CallInvStable DEF IsFinal, TypeOK, FinalityTypeOK
  <2>2. CASE c = d
    <3>1. call'[c].at = "header" /\ call'[c].phase = "confidence" /\ call'[c].verdict = "none"
      BY <1>3 DEF IsFinal, NoCall, TypeOK, FinalityTypeOK
    <3>. QED  BY <2>2, <3>1 DEF CallInv
  <2>. QED  BY <2>1, <2>2
<1>4. ASSUME NEW c \in Callers, CallStep(c)
      PROVE  CallInv(d)'
  <2>0. UNCHANGED chainVars
    BY <1>4 DEF CallStep, VerifyBlockHash, ReadInfo, ReadJustification, LowConfidence,
                HighConfidence, FewConfirmations, EnoughConfirmations,
                CheckDepthAndParticipation, FailRead
  <2>1. CASE c # d
    <3>1. call'[d] = call[d]
      BY <1>4, <2>1 DEF CallStep, VerifyBlockHash, ReadInfo, ReadJustification, LowConfidence,
                HighConfidence, FewConfirmations, EnoughConfirmations,
                CheckDepthAndParticipation, FailRead, Return, TypeOK, FinalityTypeOK
    <3>. QED  BY <1>0, <2>0, <3>1, CallInvStable
  <2>2. CASE c = d
    <3>1. CASE \E verdict \in Verdicts \ {"final"} : Return(c, verdict)
      BY <2>0, <2>2, <3>1, ReturnInv
    <3>2. CASE VerifyBlockHash(c)
      <4>1. CASE Return(c, "error")
        BY <3>1, <4>1 DEF Verdicts
      <4>2. CASE call' = [call EXCEPT ![c].at = "info"]
        BY <1>0, <2>0, <2>2, <3>2, <4>2
        DEF CallInv, IsBuried, VerifyBlockHash, Calls, chainVars, TypeOK, FinalityTypeOK
      <4>. QED  BY <3>2, <4>1, <4>2 DEF VerifyBlockHash
    <3>3. CASE ReadInfo(c)
      BY <1>0, <2>0, <2>2, <3>3
      DEF CallInv, IsBuried, ReadInfo, Calls, chainVars, TypeOK, FinalityTypeOK
    <3>4. CASE ReadJustification(c)
      BY <1>0, <2>0, <2>2, <3>4
      DEF CallInv, IsBuried, ReadJustification, Calls, chainVars, TypeOK, FinalityTypeOK
    <3>5. CASE HighConfidence(c)
      <4>1. MinConfirmations > 0 \/ Number[call[c].block] <= Number[finalized]
        BY <1>0, <2>2, <3>5, HighConfidenceMeansFinalized DEF HighConfidence
      <4>. QED
        BY <1>0, <2>0, <2>2, <3>5, <4>1
        DEF CallInv, IsBuried, HighConfidence, Calls, chainVars, TypeOK, FinalityTypeOK
    <3>6. CASE EnoughConfirmations(c)
      <4>1. call[c].block \in Blocks /\ call[c].finalizedNumber \in Nat
        BY <1>0, <2>2 DEF Calls
      <4>2. Number[call[c].block] \in Nat
        BY <4>1, TreeAssumption
      <4>3. IsBuried(call[c].block)
        BY <1>0, <2>2, <3>6, <4>1, <4>2, ConfigAssumption
        DEF EnoughConfirmations, Status, FinalityStatus, SaturatingSub, IsBuried, CallInv
      <4>4. /\ call'[c].at = "best" /\ call'[c].block = call[c].block
            /\ call'[c].phase = call[c].phase /\ call'[c].verdict = call[c].verdict
        BY <3>6 DEF EnoughConfirmations, Calls, TypeOK, FinalityTypeOK
      <4>. QED
        BY <1>0, <2>0, <2>2, <4>3, <4>4, <3>6 DEF CallInv, IsBuried, chainVars, EnoughConfirmations
    <3>7. CASE CheckDepthAndParticipation(c)
      <4>1. PICK verdict \in Verdicts : Return(c, verdict)
        BY <3>7 DEF CheckDepthAndParticipation, Verdicts
      <4>2. IsBuried(call[c].block)
        BY <1>0, <2>2, <3>7 DEF CheckDepthAndParticipation, CallInv
      <4>. QED  BY <2>0, <2>2, <4>1, <4>2, ReturnInv
    <3>. QED
      BY <1>4, <3>1, <3>2, <3>3, <3>4, <3>5, <3>6, <3>7
      DEF CallStep, LowConfidence, FewConfirmations, FailRead, Verdicts
  <2>. QED  BY <2>1, <2>2
<1>5. CASE UNCHANGED vars
  BY <1>0, <1>5, CallInvStable DEF vars, finalityVars
<1>. QED  BY <1>1, <1>2, <1>3, <1>4, <1>5 DEF Next

\* The chain does not move but by its own steps.
LEMMA PredicateChainStep ==
  ASSUME [Next]_vars
  PROVE  [ChainNext]_chainVars
BY DEF Next, ChainStep, HandleAuthoritySetUpdate, ReplaceVoterSet, IsFinal, CallStep, VerifyBlockHash, ReadInfo,
       ReadJustification, LowConfidence, HighConfidence, FewConfirmations,
       EnoughConfirmations, CheckDepthAndParticipation, FailRead, vars

\* Nothing of a step of the predicate turns a buried block up again.
LEMMA StaysBuried ==
  ASSUME TypeOK, [Next]_vars, NEW b \in Blocks, IsBuried(b)
  PROVE  IsBuried(b)'
<1>1. [ChainNext]_chainVars
  BY PredicateChainStep
<1>2. /\ Number[finalized] \in Nat /\ Number[finalized'] \in Nat
      /\ Number[finalized] <= Number[finalized']
  BY <1>1, FinalizedGrows
<1>3. Number[b] \in Nat /\ MinConfirmations \in Nat
  BY TreeAssumption, ConfigAssumption
<1>. QED  BY <1>2, <1>3 DEF IsBuried

\* A call keeps its block and what it knows of it, as long as it is not a new one.
LEMMA CallKeepsBlock ==
  ASSUME TypeOK, NEW c \in Callers, CallStep(c)
  PROVE  /\ call'[c].block = call[c].block
         /\ call'[c].known = call[c].known
         /\ call[c].at # "idle"
         /\ \A d \in Callers \ {c} : call'[d] = call[d]
<1>1. call \in [Callers -> Calls]
  BY DEF TypeOK, FinalityTypeOK
<1>2. call[c].at # "idle"
  BY DEF CallStep, VerifyBlockHash, ReadInfo, ReadJustification, LowConfidence, HighConfidence,
         FewConfirmations, EnoughConfirmations, CheckDepthAndParticipation, FailRead
<1>3. ASSUME NEW verdict, Return(c, verdict)
      PROVE  /\ call'[c].block = call[c].block
             /\ call'[c].known = call[c].known
             /\ \A d \in Callers \ {c} : call'[d] = call[d]
  <2> DEFINE known == call[c].known
             returned == [NoCall EXCEPT !.block = call[c].block, !.number = call[c].number,
                                        !.known = known, !.verdict = verdict]
  <2>1. call' = [call EXCEPT ![c] = returned]
    BY <1>3 DEF Return
  <2>. HIDE DEF known
  <2>2. returned.block = call[c].block /\ returned.known = known
    BY DEF NoCall
  <2>. HIDE DEF returned
  <2>3. call'[c].block = call[c].block /\ call'[c].known = known
        /\ \A d \in Callers \ {c} : call'[d] = call[d]
    BY <1>1, <2>1, <2>2
  <2>. QED  BY <2>3 DEF known
<1>4. CASE VerifyBlockHash(c) /\ UNCHANGED declared /\ call' = [call EXCEPT ![c].at = "info"]
  BY <1>1, <1>2, <1>4 DEF Calls
<1>5. CASE ReadInfo(c)
  BY <1>1, <1>2, <1>5 DEF Calls, ReadInfo
<1>6. CASE ReadJustification(c)
  BY <1>1, <1>2, <1>6 DEF Calls, ReadJustification
<1>7. CASE HighConfidence(c)
  BY <1>1, <1>2, <1>7 DEF Calls, HighConfidence
<1>8. CASE EnoughConfirmations(c)
  BY <1>1, <1>2, <1>8 DEF Calls, EnoughConfirmations
<1>. QED
  BY <1>2, <1>3, <1>4, <1>5, <1>6, <1>7, <1>8
     DEF CallStep, VerifyBlockHash, LowConfidence, FewConfirmations,
         CheckDepthAndParticipation, FailRead

\* The steps of a call leave the chain and the other calls alone.
LEMMA CallStepFrame ==
  ASSUME TypeOK, NEW c \in Callers, CallStep(c)
  PROVE  /\ UNCHANGED chainVars
         /\ \A d \in Callers \ {c} : call'[d] = call[d]
         /\ declared \subseteq declared'
BY DEF CallStep, VerifyBlockHash, ReadInfo, ReadJustification, LowConfidence,
       HighConfidence, FewConfirmations, EnoughConfirmations, CheckDepthAndParticipation,
       FailRead, Return, TypeOK, FinalityTypeOK

\* Only a new call and an update touch what is known of the voter sets.
LEMMA CallStepKeepsVoters ==
  ASSUME NEW c, CallStep(c)
  PROVE  UNCHANGED <<voter_set, in_force>>
BY DEF CallStep, VerifyBlockHash, ReadInfo, ReadJustification, LowConfidence, HighConfidence,
       FewConfirmations, EnoughConfirmations, CheckDepthAndParticipation, FailRead, voterVars

LEMMA BuriedInvariant == ASSUME ConfigIsStrict PROVE Spec => []BuriedInv
<1>1. Init => BuriedInv
  <2> SUFFICES ASSUME Init, NEW c \in Callers PROVE CallInv(c)
    BY DEF BuriedInv
  <2>1. call[c] = NoCall
    BY DEF Init
  <2>. QED  BY <2>1 DEF CallInv, NoCall
<1>2. TypeOK /\ TypeOK' /\ BuriedInv /\ [Next]_vars => BuriedInv'
  BY BuriedStep
<1>. QED  BY <1>1, <1>2, TypeInvariant, PTL DEF Spec

\* With a strict configuration, a block declared final lies at least
\* min_confirmations below the finalized one, in every reachable state.
THEOREM FinalIsBuriedHolds == ASSUME ConfigIsStrict PROVE Spec => []FinalIsBuried
<1>1. BuriedInv => FinalIsBuried
  BY DEF BuriedInv, CallInv, IsBuried, FinalIsBuried
<1>. QED  BY <1>1, BuriedInvariant, PTL

-----------------------------------------------------------------------------
(* A block declared final has evidence.                                     *)

\* The confidence of a block that is neither finalized nor justified is 0.2.
BaseIsTooLow == ConfidenceThreshold > 20

\* The evidence for block b that a call has which saw these voter sets in force.
HasEvidence(b, sets) ==
  \/ Number[b] <= Number[finalized]
  \/ justifications[b] # None /\ \E vs \in sets : Attests(justifications[b], vs)

\* There is something to measure: the block is finalized or justified.
IsAttested(b) == Number[b] <= Number[finalized] \/ justifications[b] # None

\* A justification that a call has read is still that of its block, unless the
\* block is finalized by now; what has passed the confidence is attested; and the
\* voter set is among those that the call has seen in force.
EvidenceInv(c) ==
  /\ call[c].at # "idle" => voter_set \in in_force[c]
  /\ call[c].at \in {"justification", "voters"} =>
       call[c].finalizedNumber <= Number[finalized]
  /\ call[c].at = "voters" /\ Number[call[c].block] > Number[finalized] =>
       /\ call[c].phase = "rules" => call[c].justification # None
       /\ call[c].justification # None =>
            call[c].justification = justifications[call[c].block]
  /\ call[c].at # "idle" /\ call[c].phase = "rules" => IsAttested(call[c].block)
  /\ call[c].at = "best" =>
       HasEvidence(call[c].block, in_force[c]) \/ TooFewParticipate(call[c].status)
  /\ call[c].verdict = "final" => HasEvidence(call[c].block, in_force[c])

JustifiedAreImported == \A b \in Blocks : justifications[b] # None => b \in imported

EvidencesInv ==
  /\ TypeOK
  /\ JustifiedAreImported
  /\ \A c \in Callers : EvidenceInv(c)

\* Where no voter signs twice, the weight that is added up is that of signers.
LEMMA SignedAreSigners ==
  ASSUME NEW j \in Justifications, NEW vs \in VoterSets, ~ SomeVoterSignsTwice(j, vs)
  PROVE  /\ Cardinality(SignedUnits(j, vs)) \in Nat
         /\ Cardinality(SignerUnits(j, vs)) \in Nat
         /\ Cardinality(SignedUnits(j, vs)) <= Cardinality(SignerUnits(j, vs))
<1> DEFINE S == SignedUnits(j, vs)
           T == SignerUnits(j, vs)
           f == [u \in S |-> <<j[u[1]].id, u[2]>>]
<1>1. f \in [S -> T]
  <2> SUFFICES ASSUME NEW u \in S PROVE <<j[u[1]].id, u[2]>> \in T
    OBVIOUS
  <2>. QED  BY DEF SignedUnits, SignerUnits, Units
<1>2. \A u, v \in S : f[u] = f[v] => u = v
  <2> SUFFICES ASSUME NEW u \in S, NEW v \in S, f[u] = f[v] PROVE u = v
    OBVIOUS
  <2>1. u \in (DOMAIN j) \X (1 .. MaxU64) /\ v \in (DOMAIN j) \X (1 .. MaxU64)
    BY DEF SignedUnits
  <2>2. j[u[1]].id = j[v[1]].id /\ u[2] = v[2]
    OBVIOUS
  <2>3. j[u[1]].valid /\ j[v[1]].valid /\ j[u[1]].id \in DOMAIN vs
    BY DEF SignedUnits
  <2>4. u[1] \in DOMAIN j /\ v[1] \in DOMAIN j
    BY <2>1
  <2>5. u[1] = v[1]
    BY <2>2, <2>3, <2>4, Zenon DEF SomeVoterSignsTwice
  <2>. QED  BY <2>1, <2>2, <2>5
<1>3. IsFiniteSet(T)
  <2>1. IsFiniteSet(Units(vs))
    BY UnitsFinite
  <2>. QED  BY <2>1, FS_Subset DEF SignerUnits
<1>4. f \in Injection(S, T)
  BY <1>1, <1>2 DEF Injection, IsInjective
<1>. QED  BY <1>3, <1>4, FS_Injection, FS_CardinalityType

\* Enough participation is enough of different voters.
LEMMA ParticipationIsEvidence ==
  ASSUME NEW j \in Justifications, NEW vs \in VoterSets,
         ParticipationRate(j, vs) >= RulesMinParticipation
  PROVE  Attests(j, vs)
<1> SUFFICES ASSUME ~ SomeVoterSignsTwice(j, vs)
             PROVE  100 * Cardinality(SignerUnits(j, vs)) >= RulesMinParticipation * TotalWeight(vs)
  BY DEF Attests
<1> DEFINE signed == SignedWeight(j, vs)
           total == TotalWeight(vs)
           signers == Cardinality(SignerUnits(j, vs))
<1>1. signed \in Nat /\ total \in Nat /\ signers \in Nat
  BY SignedWeightType, TotalWeightType, SignedAreSigners
<1>2. signed <= signers
  BY SignedAreSigners, ConfigAssumption DEF SignedWeight, MinOf
<1>3. total > 0 /\ (100 * signed) \div total >= RulesMinParticipation
  BY <1>1 DEF ParticipationRate, RulesMinParticipation
<1>. HIDE DEF signed, total, signers
<1>4. 100 * signed >= RulesMinParticipation * total
  BY <1>1, <1>3, QuotientBound DEF RulesMinParticipation
<1>5. 100 * signers >= RulesMinParticipation * total
  BY <1>1, <1>2, <1>4 DEF RulesMinParticipation
<1>. QED  BY <1>5 DEF signers, total

\* The chain does not take evidence away.
LEMMA EvidenceStays ==
  ASSUME TypeOK, JustifiedAreImported, [ChainNext]_chainVars, NEW b \in Blocks
  PROVE  /\ \A sets : HasEvidence(b, sets) => HasEvidence(b, sets)'
         /\ IsAttested(b) => IsAttested(b)'
         /\ Number[b] <= Number[finalized] => Number[b] <= Number[finalized']
         /\ Number[b] > Number[finalized'] /\ justifications[b] # None =>
              justifications'[b] = justifications[b]
         /\ JustifiedAreImported'
<1> USE DEF TypeOK, ChainTypeOK
<1>1. /\ Number[finalized] \in Nat /\ Number[finalized'] \in Nat
      /\ Number[finalized] <= Number[finalized'] /\ Number[b] \in Nat
  BY FinalizedGrows, TreeAssumption
<1>2. Number[b] > Number[finalized'] /\ justifications[b] # None =>
        justifications'[b] = justifications[b]
  <2>1. ASSUME NEW x \in Blocks, ImportBlock(x), justifications[b] # None
        PROVE  justifications'[b] = justifications[b]
    BY <2>1 DEF ImportBlock, JustifiedAreImported
  <2>2. ASSUME NEW x \in Blocks, FinalizeBlock(x), Number[b] > Number[finalized']
        PROVE  justifications'[b] = justifications[b]
    <3>1. b # x
      BY <1>1, <2>2 DEF FinalizeBlock
    <3>. QED  BY <2>2, <3>1 DEF FinalizeBlock
  <2>. QED  BY <2>1, <2>2 DEF ChainNext, chainVars
<1>3. JustifiedAreImported'
  <2>1. ASSUME NEW x \in Blocks, ImportBlock(x)
        PROVE  JustifiedAreImported'
    BY <2>1 DEF ImportBlock, JustifiedAreImported
  <2>2. ASSUME NEW x \in Blocks, FinalizeBlock(x)
        PROVE  JustifiedAreImported'
    BY <2>2 DEF FinalizeBlock, JustifiedAreImported
  <2>. QED  BY <2>1, <2>2 DEF ChainNext, chainVars, JustifiedAreImported
<1>4. Number[b] <= Number[finalized] => Number[b] <= Number[finalized']
  BY <1>1
<1>5. IsAttested(b) => IsAttested(b)'
  BY <1>1, <1>2 DEF IsAttested
<1>6. ASSUME NEW sets, HasEvidence(b, sets)
      PROVE  HasEvidence(b, sets)'
  <2>1. CASE Number[b] <= Number[finalized']
    BY <2>1 DEF HasEvidence
  <2>2. CASE Number[b] > Number[finalized']
    <3>1. justifications[b] # None /\ \E vs \in sets : Attests(justifications[b], vs)
      BY <1>1, <1>6, <2>2 DEF HasEvidence
    <3>2. justifications'[b] = justifications[b]
      BY <1>2, <2>2, <3>1
    <3>. QED  BY <3>1, <3>2 DEF HasEvidence
  <2>. QED  BY <1>1, <2>1, <2>2
<1>. QED  BY <1>2, <1>3, <1>4, <1>5, <1>6

\* A call that a step leaves alone keeps its invariant.
LEMMA EvidenceInvStable ==
  ASSUME EvidencesInv, [ChainNext]_chainVars, NEW c \in Callers, call'[c] = call[c],
         in_force[c] \subseteq in_force'[c],
         call[c].at # "idle" => voter_set' \in in_force'[c]
  PROVE  EvidenceInv(c)'
<1> DEFINE b == call[c].block
<1>1. b \in Blocks /\ call[c].finalizedNumber \in Nat
  BY DEF EvidencesInv, TypeOK, FinalityTypeOK, Calls
<1>2. /\ Number[finalized] \in Nat /\ Number[finalized'] \in Nat
      /\ Number[finalized] <= Number[finalized'] /\ Number[b] \in Nat
  BY <1>1, FinalizedGrows, TreeAssumption DEF EvidencesInv
<1>3. /\ IsAttested(b) => IsAttested(b)'
      /\ Number[b] > Number[finalized'] /\ justifications[b] # None =>
           justifications'[b] = justifications[b]
  BY <1>1, EvidenceStays DEF EvidencesInv
<1>4. HasEvidence(b, in_force[c]) => HasEvidence(call[c].block, in_force[c])'
  <2>1. PICK x \in Blocks : x = b
    BY <1>1
  <2>2. PICK sets : sets = in_force[c]
    OBVIOUS
  <2>3. PICK later : later = in_force'[c]
    OBVIOUS
  <2>4. HasEvidence(x, sets) => HasEvidence(x, sets)'
    BY EvidenceStays DEF EvidencesInv
  <2>5. HasEvidence(x, sets)' => HasEvidence(x, later)'
    BY <2>2, <2>3 DEF HasEvidence
  <2>6. HasEvidence(call[c].block, in_force[c])' <=> HasEvidence(x, later)'
    BY <2>1, <2>3 DEF HasEvidence
  <2>. QED  BY <2>1, <2>2, <2>4, <2>5, <2>6
<1>. QED  BY <1>1, <1>2, <1>3, <1>4 DEF EvidencesInv, EvidenceInv, IsAttested

\* A call that ends claims nothing but a verdict that has its evidence.
LEMMA ReturnEvidence ==
  ASSUME TypeOK, NEW c \in Callers, NEW verdict, Return(c, verdict), UNCHANGED chainVars,
         in_force' = in_force,
         verdict = "final" => HasEvidence(call[c].block, in_force[c])
  PROVE  EvidenceInv(c)'
<1> DEFINE known == call[c].known
           x == [NoCall EXCEPT !.block = call[c].block, !.number = call[c].number,
                               !.known = known, !.verdict = verdict]
<1>1. call'[c] = x
  BY DEF Return, TypeOK, FinalityTypeOK
<1>. HIDE DEF known
<1>2. x.at = "idle" /\ x.verdict = verdict /\ x.block = call[c].block
  BY DEF NoCall
<1>. HIDE DEF x
<1>3. PICK b : b = call[c].block
  OBVIOUS
<1>4. call'[c].at = "idle" /\ call'[c].verdict = verdict /\ call'[c].block = b
  BY <1>1, <1>2, <1>3
<1>5. PICK sets : sets = in_force[c] /\ sets = in_force'[c]
  OBVIOUS
<1>6. verdict = "final" => HasEvidence(b, sets)'
  BY <1>3, <1>5 DEF HasEvidence, chainVars
<1>. QED  BY <1>4, <1>5, <1>6 DEF EvidenceInv, HasEvidence

\* What passes the confidence is finalized or justified.
LEMMA HighConfidenceMeansAttested ==
  ASSUME BaseIsTooLow, EvidencesInv, NEW c \in Callers,
         call[c].at = "voters", Confidence(Status(c)) >= ConfidenceThreshold
  PROVE  IsAttested(call[c].block)
<1> DEFINE b == call[c].block
           n == call[c].finalizedNumber
<1>1. b \in Blocks /\ n \in Nat
  BY DEF EvidencesInv, TypeOK, FinalityTypeOK, Calls
<1>2. Number[b] \in Nat /\ Number[finalized] \in Nat /\ n <= Number[finalized]
  BY <1>1, TreeAssumption DEF EvidencesInv, EvidenceInv, TypeOK, ChainTypeOK
<1> SUFFICES ASSUME Number[b] > Number[finalized], call[c].justification = None
             PROVE  FALSE
  BY <1>1, <1>2 DEF EvidencesInv, EvidenceInv, IsAttested
<1>3. Status(c).confirmations = 0
  BY <1>1, <1>2 DEF Status, FinalityStatus, SaturatingSub
<1>4. ~ Status(c).is_finalized
  <2>1. Status(c).is_finalized = (Number[b] <= n)
    BY Zenon DEF Status, FinalityStatus
  <2>2. ~ (Number[b] <= n)
    BY <1>1, <1>2
  <2>. QED  BY <2>1, <2>2, Zenon
<1>5. ~ Status(c).has_justification
  <2>1. Status(c).has_justification = (call[c].justification # None)
    BY Zenon DEF Status, FinalityStatus
  <2>. QED  BY <2>1, Zenon
<1>6. Status(c) \in Statuses
  BY StatusOfCallType DEF EvidencesInv
<1>7. Confidence(Status(c)) = 20
  BY <1>3, <1>4, <1>5, <1>6, UnjustifiedConfidence
<1>. QED  BY <1>7, ConfigAssumption DEF BaseIsTooLow

\* A status of the rules that holds enough participation is evidence.
LEMMA RulesMeasureEvidence ==
  ASSUME EvidencesInv, NEW c \in Callers,
         call[c].at = "voters", call[c].phase = "rules"
  PROVE  HasEvidence(call[c].block, in_force[c]) \/ TooFewParticipate(Status(c))
<1> DEFINE b == call[c].block
           j == call[c].justification
<1>1. b \in Blocks /\ j \in Justifications \cup {None} /\ voter_set \in VoterSets
  BY DEF EvidencesInv, TypeOK, FinalityTypeOK, Calls
<1>2. Number[b] \in Nat /\ Number[finalized] \in Nat
  BY <1>1, TreeAssumption DEF EvidencesInv, TypeOK, ChainTypeOK
<1> SUFFICES ASSUME Number[b] > Number[finalized], ~ TooFewParticipate(Status(c))
             PROVE  HasEvidence(b, in_force[c])
  BY <1>2 DEF HasEvidence
<1>3. j \in Justifications /\ j = justifications[b] /\ justifications[b] # None
  BY <1>1 DEF EvidencesInv, EvidenceInv
<1>4. Status(c).has_justification
  <2>1. Status(c).has_justification = (j # None)
    BY Zenon DEF Status, FinalityStatus
  <2>2. j # None
    BY <1>3
  <2>. QED  BY <2>1, <2>2, Zenon
<1>5. Status(c).participation_rate = ParticipationRate(j, voter_set)
  BY <1>3 DEF Status, FinalityStatus
<1>6. Status(c).participation_rate \in Nat
  BY StatusOfCallType DEF EvidencesInv, Statuses
<1>7. ParticipationRate(j, voter_set) >= RulesMinParticipation
  BY <1>4, <1>5, <1>6 DEF TooFewParticipate, RulesMinParticipation
<1>8. Attests(j, voter_set)
  BY <1>1, <1>3, <1>7, ParticipationIsEvidence
<1>9. voter_set \in in_force[c]
  BY DEF EvidencesInv, EvidenceInv
<1>. QED  BY <1>3, <1>8, <1>9 DEF HasEvidence

\* Every step of a call preserves what it relies on.
LEMMA EvidenceCallStep ==
  ASSUME BaseIsTooLow, EvidencesInv, NEW c \in Callers, CallStep(c)
  PROVE  EvidenceInv(c)'
<1> USE DEF EvidencesInv
<1>0. UNCHANGED <<chainVars, voter_set, in_force>> /\ call[c].at # "idle"
  BY CallStepKeepsVoters, CallKeepsBlock, CallStepFrame
<1>1. PICK b \in Blocks : b = call[c].block
  BY DEF TypeOK, FinalityTypeOK, Calls
<1>2. call \in [Callers -> Calls] /\ Number[b] \in Nat /\ Number[finalized] \in Nat
  BY TreeAssumption DEF TypeOK, FinalityTypeOK, ChainTypeOK
<1>13. PICK sets : sets = in_force[c] /\ sets = in_force'[c] /\ voter_set \in sets
  BY <1>0 DEF EvidenceInv
<1>3. /\ HasEvidence(b, sets)' <=> HasEvidence(b, sets)
      /\ IsAttested(b)' <=> IsAttested(b)
  BY <1>0 DEF HasEvidence, IsAttested, chainVars
<1>4. /\ call'[c].at = "justification" =>
           call'[c].finalizedNumber <= Number[finalized]
      /\ call'[c].at = "voters" =>
           /\ call'[c].finalizedNumber <= Number[finalized]
           /\ Number[b] > Number[finalized] =>
                /\ call'[c].phase = "rules" => call'[c].justification # None
                /\ call'[c].justification # None =>
                     call'[c].justification = justifications[b]
      /\ call'[c].at # "idle" /\ call'[c].phase = "rules" => IsAttested(b)
      /\ call'[c].at = "best" => HasEvidence(b, sets) \/ TooFewParticipate(call'[c].status)
      /\ call'[c].verdict = "final" => HasEvidence(b, sets)
      /\ call'[c].block = b
      => EvidenceInv(c)'
  BY <1>0, <1>3, <1>13 DEF EvidenceInv, HasEvidence, IsAttested, chainVars
<1>5. ASSUME NEW verdict, Return(c, verdict), verdict = "final" => HasEvidence(b, sets)
      PROVE  EvidenceInv(c)'
  BY <1>0, <1>1, <1>5, <1>13, ReturnEvidence
<1>6. CASE VerifyBlockHash(c)
  <2>1. CASE Return(c, "error")
    BY <1>5, <2>1
  <2>2. CASE call' = [call EXCEPT ![c].at = "info"]
    <3>1. /\ call'[c].at = "info" /\ call'[c].block = b
          /\ call'[c].phase = call[c].phase /\ call'[c].verdict = call[c].verdict
      BY <1>1, <1>2, <2>2 DEF Calls
    <3>. QED  BY <1>0, <1>1, <1>4, <1>13, <3>1 DEF EvidenceInv
  <2>. QED  BY <1>6, <2>1, <2>2 DEF VerifyBlockHash
<1>7. CASE ReadInfo(c)
  <2>1. /\ call'[c].at = "justification" /\ call'[c].finalizedNumber = Number[finalized]
        /\ call'[c].block = b
        /\ call'[c].phase = call[c].phase /\ call'[c].verdict = call[c].verdict
    BY <1>1, <1>2, <1>7 DEF ReadInfo, Calls
  <2>. QED  BY <1>0, <1>1, <1>2, <1>4, <1>13, <2>1 DEF EvidenceInv
<1>8. CASE ReadJustification(c)
  <2>1. /\ call'[c].at = "voters" /\ call'[c].justification = justifications[b]
        /\ call'[c].finalizedNumber = call[c].finalizedNumber /\ call'[c].block = b
        /\ call'[c].phase = call[c].phase /\ call'[c].verdict = call[c].verdict
        /\ call[c].at = "justification"
    BY <1>1, <1>2, <1>8 DEF ReadJustification, Calls
  <2>. QED  BY <1>0, <1>1, <1>2, <1>4, <1>13, <2>1 DEF EvidenceInv, IsAttested
<1>9. CASE HighConfidence(c)
  <2>1. IsAttested(b)
    BY <1>1, <1>9, HighConfidenceMeansAttested DEF HighConfidence
  <2>. QED  BY <1>1, <1>2, <1>4, <1>9, <2>1, <1>13 DEF HighConfidence, Calls, EvidenceInv
<1>10. CASE EnoughConfirmations(c)
  <2>1. PICK status : status = Status(c)
    OBVIOUS
  <2>2. HasEvidence(b, sets) \/ TooFewParticipate(status)
    BY <1>1, <1>10, <1>13, <2>1, RulesMeasureEvidence DEF EnoughConfirmations
  <2>3. /\ call'[c].at = "best" /\ call'[c].status = status /\ call'[c].block = b
        /\ call'[c].phase = call[c].phase /\ call'[c].verdict = call[c].verdict
    BY <1>1, <1>2, <1>10, <2>1 DEF EnoughConfirmations, Calls
  <2>4. TooFewParticipate(status) => TooFewParticipate(call'[c].status)
    BY <2>3
  <2>. QED  BY <1>1, <1>4, <1>10, <2>2, <2>3, <2>4, <1>13 DEF EnoughConfirmations, EvidenceInv
<1>11. CASE CheckDepthAndParticipation(c)
  <2>1. CASE TooFewParticipate(call[c].status)
    BY <1>5, <1>11, <2>1 DEF CheckDepthAndParticipation
  <2>2. CASE HasEvidence(b, sets)
    <3>1. PICK verdict : Return(c, verdict)
      BY <1>11 DEF CheckDepthAndParticipation
    <3>. QED  BY <1>5, <2>2, <3>1
  <2>. QED  BY <1>1, <1>11, <1>13, <2>1, <2>2 DEF CheckDepthAndParticipation, EvidenceInv
<1>12. CASE LowConfidence(c) \/ FewConfirmations(c) \/ FailRead(c)
  BY <1>5, <1>12 DEF LowConfidence, FewConfirmations, FailRead
<1>. QED
  BY <1>6, <1>7, <1>8, <1>9, <1>10, <1>11, <1>12 DEF CallStep

LEMMA EvidencesStep ==
  ASSUME BaseIsTooLow, EvidencesInv, TypeOK', [Next]_vars
  PROVE  EvidencesInv'
<1>0. [ChainNext]_chainVars
  BY PredicateChainStep
<1>1. JustifiedAreImported'
  BY <1>0, TreeAssumption, EvidenceStays DEF EvidencesInv
<1>2. ASSUME NEW d \in Callers
      PROVE  EvidenceInv(d)'
  <2>1. ASSUME call'[d] = call[d], voter_set' = voter_set, in_force'[d] = in_force[d]
        PROVE  EvidenceInv(d)'
    BY <1>0, <2>1, EvidenceInvStable DEF EvidencesInv, EvidenceInv
  <2>2. ASSUME NEW c \in Callers, NEW b, NEW n, IsFinal(c, b, n)
        PROVE  EvidenceInv(d)'
    <3>1. CASE c = d
      <4>1. call'[d].at = "header" /\ call'[d].phase = "confidence" /\ call'[d].verdict = "none"
        BY <2>2, <3>1 DEF IsFinal, NoCall, EvidencesInv, TypeOK, FinalityTypeOK
      <4>2. voter_set' \in in_force'[d]
        BY <2>2, <3>1 DEF IsFinal, EvidencesInv, TypeOK, FinalityTypeOK
      <4>. QED  BY <4>1, <4>2 DEF EvidenceInv
    <3>2. CASE c # d
      BY <2>1, <2>2, <3>2 DEF IsFinal, EvidencesInv, TypeOK, FinalityTypeOK
    <3>. QED  BY <3>1, <3>2
  <2>3. ASSUME NEW c \in Callers, CallStep(c)
        PROVE  EvidenceInv(d)'
    <3>1. c # d => call'[d] = call[d]
      BY <2>3, CallKeepsBlock DEF EvidencesInv
    <3>. QED  BY <2>1, <2>3, <3>1, EvidenceCallStep, CallStepKeepsVoters
  <2>4. ASSUME NEW list \in AuthorityLists, HandleAuthoritySetUpdate(list)
        PROVE  EvidenceInv(d)'
    <3>1. PICK vs : ReplaceVoterSet(vs)
      BY <2>4 DEF HandleAuthoritySetUpdate
    <3>2. /\ call'[d] = call[d] /\ in_force[d] \subseteq in_force'[d]
          /\ call[d].at # "idle" => voter_set' \in in_force'[d]
      BY <3>1 DEF ReplaceVoterSet
    <3>. QED  BY <1>0, <3>2, EvidenceInvStable
  <2>5. CASE ChainStep \/ UNCHANGED vars
    BY <2>1, <2>5 DEF ChainStep, vars, finalityVars, voterVars
  <2>. QED  BY <2>2, <2>3, <2>4, <2>5 DEF Next
<1>. QED  BY <1>1, <1>2 DEF EvidencesInv

LEMMA EvidencesInvariant ==
  ASSUME BaseIsTooLow
  PROVE  Spec => []EvidencesInv
<1>1. Init => EvidencesInv
  <2> SUFFICES ASSUME Init PROVE EvidencesInv
    OBVIOUS
  <2>1. JustifiedAreImported
    BY DEF Init, ChainInit, JustifiedAreImported
  <2>2. ASSUME NEW c \in Callers PROVE EvidenceInv(c)
    BY DEF Init, NoCall, EvidenceInv
  <2>. QED  BY <2>1, <2>2, TypeInit DEF EvidencesInv
<1>2. EvidencesInv /\ TypeOK' /\ [Next]_vars => EvidencesInv'
  BY EvidencesStep
<1>. QED  BY <1>1, <1>2, TypeInvariant, PTL DEF Spec

\* Whatever the other thresholds are, and however the chain and the voter set move
\* during the calls, a verdict of "final" rests on the evidence of one voter set that
\* was in force while the call ran.
THEOREM FinalHasEvidenceHolds ==
  ASSUME BaseIsTooLow
  PROVE  Spec => []FinalHasEvidence
<1>1. EvidencesInv => FinalHasEvidence
  BY DEF EvidencesInv, EvidenceInv, HasEvidence, FinalHasEvidence
<1>. QED  BY <1>1, EvidencesInvariant, PTL

-----------------------------------------------------------------------------
(* What is declared final is not denied before it is too old, as long as no *)
(* update replaces the voter set by another one.                            *)

\* The voter set is not replaced by another one.
VotersKept == voter_set' = voter_set

\* So it is when all lists of authorities make the same voter set.
LEMMA OneVoterSetIsKept ==
  ASSUME \A v, w \in VoterSets : v = w
  PROVE  Spec => [][VotersKept]_voter_set
<1>1. TypeOK /\ TypeOK' => VotersKept
  BY DEF TypeOK, FinalityTypeOK, VotersKept
<1>. QED  BY <1>1, TypeInvariant, PTL

-----------------------------------------------------------------------------
\* The justification of a block, if it has one, is signed by enough voters.
EnoughParticipate(b) ==
  justifications[b] # None =>
    ParticipationRate(justifications[b], voter_set) >= RulesMinParticipation

\* What makes a block final and does not change any more.
Settled(b) == b \in imported /\ IsBuried(b) /\ EnoughParticipate(b)

\* What a running call has read of the justification of a finalized block is
\* still so.
ReadInv(c) ==
  /\ call[c].at \notin {"idle", "header"} => call[c].block \in imported
  /\ call[c].at \in {"justification", "voters"} /\ call[c].phase = "rules" =>
       MinConfirmations > 0 \/ Number[call[c].block] <= call[c].finalizedNumber
  /\ call[c].at = "voters" /\ Number[call[c].block] <= call[c].finalizedNumber =>
       call[c].justification = justifications[call[c].block]
  /\ call[c].at = "best" =>
       (TooFewParticipate(call[c].status) <=> ~ EnoughParticipate(call[c].block))

\* A call that cannot say `not_final` any more but for the age of its block: the block
\* is settled, and what the call has read suffices.
Undeniable(c) ==
  /\ Settled(call[c].block)
  /\ call[c].at \in {"justification", "voters"} =>
       Number[call[c].block] + MinConfirmations <= call[c].finalizedNumber
  /\ call[c].verdict = "not_final" => TooOld(call[c].block)

ReadsInv ==
  /\ TypeOK
  /\ BuriedInv
  /\ best \in imported
  /\ \A c \in Callers : ReadInv(c)

\* What is declared final is settled, and known to a call that began later.
GadgetInv ==
  /\ ReadsInv
  /\ \A b \in declared : Settled(b)
  /\ \A c \in Callers :
       call[c].known => call[c].block \in declared /\ Undeniable(c)

-----------------------------------------------------------------------------
(* What does not change any more.                                           *)

\* The justification of a block that is not above the finalized one is settled:
\* it is not imported again, and not finalized again.
LEMMA SettledJustification ==
  ASSUME TypeOK, [ChainNext]_chainVars, NEW b \in imported,
         Number[b] <= Number[finalized]
  PROVE  justifications'[b] = justifications[b] /\ b \in imported'
<1>1. b \in Blocks /\ justifications \in [Blocks -> Justifications \cup {None}]
  BY DEF TypeOK, ChainTypeOK
<1>2. ASSUME NEW x \in Blocks, ImportBlock(x)
      PROVE  justifications'[b] = justifications[b] /\ b \in imported'
  <2>1. x # b
    BY <1>2 DEF ImportBlock
  <2>2. PICK j \in Justifications \cup {None} : justifications' = [justifications EXCEPT ![x] = j]
    BY <1>2 DEF ImportBlock
  <2>. QED  BY <1>1, <1>2, <2>1, <2>2 DEF ImportBlock
<1>3. ASSUME NEW x \in Blocks, FinalizeBlock(x)
      PROVE  justifications'[b] = justifications[b] /\ b \in imported'
  <2>1. x # b
    <3>1. Number[x] > Number[finalized] /\ Number[x] \in Nat /\ Number[finalized] \in Nat
      BY <1>3, TreeAssumption DEF FinalizeBlock, TypeOK, ChainTypeOK
    <3>. QED  BY <3>1
  <2>2. PICK j \in Justifications \cup {justifications[x]} :
          justifications' = [justifications EXCEPT ![x] = j]
    BY <1>3 DEF FinalizeBlock
  <2>. QED  BY <1>1, <1>3, <2>1, <2>2 DEF FinalizeBlock
<1>. QED  BY <1>2, <1>3 DEF ChainNext, chainVars

LEMMA BuriedIsFinalized ==
  ASSUME TypeOK, NEW b \in Blocks, IsBuried(b)
  PROVE  Number[b] <= Number[finalized]
<1>1. Number[b] \in Nat /\ Number[finalized] \in Nat
  BY TreeAssumption DEF TypeOK, ChainTypeOK
<1>. QED  BY <1>1, ConfigAssumption DEF IsBuried

\* A settled block is as good after every step as before.
LEMMA SettledStays ==
  ASSUME VotersKept, TypeOK, TypeOK', [ChainNext]_chainVars, NEW b \in Blocks, Settled(b)
  PROVE  Settled(b)'
<1>1. Number[b] <= Number[finalized]
  BY BuriedIsFinalized DEF Settled
<1>2. justifications'[b] = justifications[b] /\ b \in imported'
  BY <1>1, SettledJustification DEF Settled
<1>3. voter_set' = voter_set
  BY DEF VotersKept
<1>4. IsBuried(b)'
  <2>1. /\ Number[finalized] \in Nat /\ Number[finalized'] \in Nat
        /\ Number[finalized] <= Number[finalized']
    BY FinalizedGrows
  <2>2. Number[b] \in Nat
    BY TreeAssumption
  <2>. QED  BY <2>1, <2>2, ConfigAssumption DEF IsBuried, Settled
<1>. QED  BY <1>2, <1>3, <1>4 DEF EnoughParticipate, Settled

\* The chain does not come back to a block that it has left behind.
LEMMA TooOldStays ==
  ASSUME [ChainNext]_chainVars, NEW b, TooOld(b)
  PROVE  TooOld(b)'
<1>1. imported \subseteq imported'
  BY DEF ChainNext, ImportBlock, FinalizeBlock, chainVars
<1>. QED  BY <1>1 DEF TooOld

\* The best block is one that the client knows.
LEMMA BestIsImported ==
  ASSUME best \in imported, [ChainNext]_chainVars
  PROVE  best' \in imported'
BY DEF ChainNext, ImportBlock, FinalizeBlock, chainVars

\* The block of a call stays settled, and too old, as long as the call is about it.
LEMMA SettledBlockStays ==
  ASSUME VotersKept, TypeOK, TypeOK', [ChainNext]_chainVars, NEW c \in Callers,
         call'[c].block = call[c].block, Settled(call[c].block)
  PROVE  /\ Settled(call[c].block)'
         /\ TooOld(call[c].block) => TooOld(call[c].block)'
<1>1. PICK b \in Blocks : b = call[c].block
  BY DEF TypeOK, FinalityTypeOK, Calls
<1>2. Settled(b)'
  BY <1>1, SettledStays
<1>3. TooOld(b) => TooOld(b)'
  BY TooOldStays
<1>. QED  BY <1>1, <1>2, <1>3 DEF Settled, IsBuried, EnoughParticipate, TooOld

\* A call that a step leaves alone stays undeniable.
LEMMA UndeniableStable ==
  ASSUME VotersKept, TypeOK, TypeOK', [ChainNext]_chainVars, NEW c \in Callers,
         call'[c] = call[c], Undeniable(c)
  PROVE  Undeniable(c)'
<1>1. /\ Settled(call[c].block)'
      /\ TooOld(call[c].block) => TooOld(call[c].block)'
  BY SettledBlockStays DEF Undeniable
<1>. QED  BY <1>1 DEF Undeniable

\* A call that a step leaves alone keeps what it relies on.
LEMMA ReadInvStable ==
  ASSUME VotersKept, TypeOK, TypeOK', [ChainNext]_chainVars, NEW c \in Callers,
         CallInv(c), ReadInv(c), call'[c] = call[c]
  PROVE  ReadInv(c)'
<1>1. call[c] \in Calls /\ call[c].block \in Blocks /\ call[c].finalizedNumber \in Nat
  BY DEF TypeOK, FinalityTypeOK, Calls
<1>2. Number[call[c].block] \in Nat /\ Number[finalized] \in Nat
  BY <1>1, TreeAssumption DEF TypeOK, ChainTypeOK
<1>3. voter_set' = voter_set
  BY DEF VotersKept
<1>4. imported \subseteq imported'
  BY DEF ChainNext, ImportBlock, FinalizeBlock, chainVars
<1>5. ASSUME call[c].at = "voters", Number[call[c].block] <= call[c].finalizedNumber
      PROVE  justifications'[call[c].block] = justifications[call[c].block]
  <2>1. Number[call[c].block] <= Number[finalized]
    BY <1>1, <1>2, <1>5 DEF CallInv
  <2>2. call[c].block \in imported
    BY <1>5 DEF ReadInv
  <2>. QED  BY <2>1, <2>2, SettledJustification
<1>6. ASSUME call[c].at = "best"
      PROVE  justifications'[call[c].block] = justifications[call[c].block]
  <2>1. Number[call[c].block] <= Number[finalized]
    BY <1>1, <1>6, BuriedIsFinalized DEF CallInv
  <2>2. call[c].block \in imported
    BY <1>6 DEF ReadInv
  <2>. QED  BY <2>1, <2>2, SettledJustification
<1>7. call[c].at = "best" => (EnoughParticipate(call[c].block)' <=> EnoughParticipate(call[c].block))
  BY <1>3, <1>6 DEF EnoughParticipate
<1>. QED  BY <1>4, <1>5, <1>7 DEF ReadInv

-----------------------------------------------------------------------------
(* What a complete status says.                                             *)

\* The participation that is complained of is that of the justification.
LEMMA StatusParticipation ==
  ASSUME NEW b, NEW n, NEW justification, NEW vs
  PROVE  TooFewParticipate(FinalityStatus(b, n, justification, vs)) <=>
           justification # None /\ ParticipationRate(justification, vs) < RulesMinParticipation
<1> DEFINE status == FinalityStatus(b, n, justification, vs)
<1>1. status.has_justification = (justification # None)
  BY Zenon DEF FinalityStatus
<1>2. status.participation_rate = IF justification = None THEN 0
                                  ELSE ParticipationRate(justification, vs)
  BY Zenon DEF FinalityStatus
<1>. QED  BY <1>1, <1>2, Zenon DEF TooFewParticipate

\* Enough is not too little.
LEMMA RateType ==
  ASSUME NEW justification \in Justifications, NEW vs \in VoterSets
  PROVE  ParticipationRate(justification, vs) \in Nat
<1>1. SignedWeight(justification, vs) \in Nat /\ TotalWeight(vs) \in Nat
  BY SignedWeightType, TotalWeightType
<1>2. 100 * SignedWeight(justification, vs) \in Nat
  BY <1>1
<1>. QED  BY <1>1, <1>2, DivisionType DEF ParticipationRate

\* A status read above the block has full confidence in it.
LEMMA FullConfidence ==
  ASSUME TypeOK, NEW c \in Callers,
         Number[call[c].block] <= call[c].finalizedNumber
  PROVE  Confidence(Status(c)) >= ConfidenceThreshold
<1>1. Status(c).is_finalized = (Number[call[c].block] <= call[c].finalizedNumber)
  BY Zenon DEF Status, FinalityStatus
<1>2. Status(c).is_finalized
  BY <1>1, Zenon
<1>3. Confidence(Status(c)) = 100
  BY <1>2, Zenon DEF Confidence
<1>. QED  BY <1>3, ConfigAssumption

-----------------------------------------------------------------------------
(* The steps of the calls.                                                  *)

\* A call that has ended has nothing read to rely on.
LEMMA ReturnedReadInv ==
  ASSUME TypeOK, NEW c \in Callers, NEW verdict \in Verdicts, Return(c, verdict)
  PROVE  ReadInv(c)' /\ call'[c].at = "idle" /\ call'[c].verdict = verdict
<1>1. call'[c] = [NoCall EXCEPT !.block = call[c].block, !.number = call[c].number,
                                !.known = call[c].known, !.verdict = verdict]
  BY DEF Return, TypeOK, FinalityTypeOK
<1>2. call'[c].at = "idle" /\ call'[c].verdict = verdict
  BY <1>1 DEF NoCall
<1>. QED  BY <1>2 DEF ReadInv

\* No step of an undeniable call says `not_final`, unless its block is too old.
LEMMA NeverDenied ==
  ASSUME ReadsInv, NEW c \in Callers, Undeniable(c)
  PROVE  /\ ~ LowConfidence(c)
         /\ ~ FewConfirmations(c)
         /\ call[c].at = "best" =>
              (ForkTooDeep(call[c].block) \/ TooFewParticipate(call[c].status)
                 => TooOld(call[c].block))
<1> USE DEF ReadsInv
<1>1. call[c] \in Calls /\ call[c].block \in Blocks /\ call[c].finalizedNumber \in Nat
  BY DEF TypeOK, FinalityTypeOK, Calls
<1>2. Number[call[c].block] \in Nat /\ Number[finalized] \in Nat /\ Number[best] \in Nat
  BY <1>1, TreeAssumption DEF TypeOK, ChainTypeOK
<1>3. EnoughParticipate(call[c].block)
  BY DEF Undeniable, Settled
<1>4. ASSUME call[c].at = "voters"
      PROVE  Number[call[c].block] + MinConfirmations <= call[c].finalizedNumber
  BY <1>4 DEF Undeniable
<1>5. ~ LowConfidence(c)
  <2> SUFFICES ASSUME LowConfidence(c) PROVE FALSE
    OBVIOUS
  <2>1. call[c].at = "voters" /\ Confidence(Status(c)) < ConfidenceThreshold
    BY DEF LowConfidence
  <2>2. Number[call[c].block] <= call[c].finalizedNumber
    BY <1>1, <1>2, <1>4, <2>1, ConfigAssumption
  <2>3. Confidence(Status(c)) >= ConfidenceThreshold
    BY <2>2, FullConfidence
  <2>4. Confidence(Status(c)) \in Int
    BY StatusOfCallType, ConfidenceType
  <2>. QED  BY <2>1, <2>3, <2>4, ConfigAssumption
<1>6. ~ FewConfirmations(c)
  <2> SUFFICES ASSUME FewConfirmations(c) PROVE FALSE
    OBVIOUS
  <2>1. call[c].at = "voters" /\ Status(c).confirmations < MinConfirmations
    BY DEF FewConfirmations
  <2>2. Number[call[c].block] + MinConfirmations <= call[c].finalizedNumber
    BY <1>4, <2>1
  <2>3. Status(c).confirmations = SaturatingSub(call[c].finalizedNumber, Number[call[c].block])
    BY DEF Status, FinalityStatus
  <2>. QED  BY <1>1, <1>2, <2>1, <2>2, <2>3, ConfigAssumption DEF SaturatingSub
<1>7. ASSUME call[c].at = "best"
      PROVE  ForkTooDeep(call[c].block) \/ TooFewParticipate(call[c].status)
               => TooOld(call[c].block)
  <2>1. ForkTooDeep(call[c].block) => TooOld(call[c].block)
    <3>1. ForkTooDeep(call[c].block) => Number[best] > Number[call[c].block] + MaxForkDepth
      BY <1>2, ConfigAssumption DEF ForkTooDeep, SaturatingSub
    <3>. QED  BY <3>1 DEF TooOld
  <2>. QED  BY <1>3, <1>7, <2>1 DEF ReadInv
<1>. QED  BY <1>5, <1>6, <1>7

\* A step of a call keeps what the call itself relies on.
LEMMA ReadInvStep ==
  ASSUME VotersKept, ReadsInv, TypeOK', NEW c \in Callers, CallStep(c)
  PROVE  ReadInv(c)'
<1> USE DEF ReadsInv
<1>1. call[c] \in Calls /\ call[c].block \in Blocks /\ call[c].finalizedNumber \in Nat
  BY DEF TypeOK, FinalityTypeOK, Calls
<1>2. Number[call[c].block] \in Nat /\ Number[finalized] \in Nat
  BY <1>1, TreeAssumption DEF TypeOK, ChainTypeOK
<1>3. ReadInv(c) /\ CallInv(c)
  BY DEF BuriedInv
<1>4. /\ imported' = imported /\ finalized' = finalized /\ justifications' = justifications
      /\ declared \subseteq declared'
  BY CallStepFrame DEF chainVars
<1>5. voter_set' = voter_set
  BY DEF VotersKept
<1>6. CASE \E verdict \in Verdicts : Return(c, verdict)
  BY <1>6, ReturnedReadInv
<1>7. CASE VerifyBlockHash(c)
  <2>1. CASE Return(c, "error")
    BY <1>6, <2>1 DEF Verdicts
  <2>2. CASE call[c].block \in imported /\ call' = [call EXCEPT ![c].at = "info"]
    <3>1. call'[c] = [call[c] EXCEPT !.at = "info"]
      BY <2>2 DEF TypeOK, FinalityTypeOK
    <3>. QED  BY <1>1, <1>3, <1>4, <2>2, <3>1 DEF ReadInv, Calls
  <2>. QED  BY <1>7, <2>1, <2>2 DEF VerifyBlockHash
<1>8. CASE ReadInfo(c)
  <2>1. call'[c] = [call[c] EXCEPT !.at = "justification",
                                   !.finalizedNumber = Number[finalized]]
    BY <1>8 DEF ReadInfo, TypeOK, FinalityTypeOK
  <2>2. /\ call'[c].at = "justification" /\ call'[c].finalizedNumber = Number[finalized]
        /\ call'[c].block = call[c].block
        /\ call'[c].phase = call[c].phase /\ call'[c].verdict = call[c].verdict
    BY <1>1, <2>1 DEF Calls
  <2>4. call[c].phase = "rules" => MinConfirmations > 0 \/ Number[call[c].block] <= Number[finalized]
    BY <1>3, <1>8 DEF CallInv, ReadInfo
  <2>5. call[c].block \in imported
    BY <1>3, <1>8 DEF ReadInv, ReadInfo
  <2>. QED  BY <1>3, <1>4, <2>2, <2>4, <2>5 DEF ReadInv
<1>9. CASE ReadJustification(c)
  <2>1. call'[c] = [call[c] EXCEPT !.at = "voters",
                                   !.justification = justifications[call[c].block]]
    BY <1>9 DEF ReadJustification, TypeOK, FinalityTypeOK
  <2>2. /\ call'[c].at = "voters" /\ call'[c].justification = justifications[call[c].block]
        /\ call'[c].block = call[c].block
        /\ call'[c].phase = call[c].phase /\ call'[c].verdict = call[c].verdict
        /\ call'[c].finalizedNumber = call[c].finalizedNumber
    BY <1>1, <2>1 DEF Calls
  <2>3. call[c].at = "justification"
    BY <1>9 DEF ReadJustification
  <2>. QED  BY <1>3, <1>4, <2>2, <2>3 DEF ReadInv
<1>10. CASE HighConfidence(c)
  <2>1. call'[c] = [call[c] EXCEPT !.at = "info", !.phase = "rules",
                                   !.finalizedNumber = 0, !.justification = None]
    BY <1>10 DEF HighConfidence, TypeOK, FinalityTypeOK
  <2>2. /\ call'[c].at = "info" /\ call'[c].block = call[c].block
    BY <1>1, <2>1 DEF Calls
  <2>3. call[c].at = "voters"
    BY <1>10 DEF HighConfidence
  <2>. QED  BY <1>3, <1>4, <2>2, <2>3 DEF ReadInv
<1>11. CASE EnoughConfirmations(c)
  <2>1. call'[c] = [call[c] EXCEPT !.at = "best", !.status = Status(c),
                                   !.finalizedNumber = 0, !.justification = None]
    BY <1>11 DEF EnoughConfirmations, TypeOK, FinalityTypeOK
  <2>2. /\ call'[c].at = "best" /\ call'[c].block = call[c].block
        /\ call'[c].status = Status(c)
    BY <1>1, <2>1 DEF Calls
  <2>3. call[c].at = "voters" /\ call[c].phase = "rules"
        /\ Status(c).confirmations >= MinConfirmations
    BY <1>11 DEF EnoughConfirmations
  <2>4. Number[call[c].block] <= call[c].finalizedNumber
    <3>1. Status(c).confirmations = SaturatingSub(call[c].finalizedNumber, Number[call[c].block])
      BY DEF Status, FinalityStatus
    <3>2. MinConfirmations > 0 \/ Number[call[c].block] <= call[c].finalizedNumber
      BY <1>3, <2>3 DEF ReadInv
    <3>. QED  BY <1>1, <1>2, <2>3, <3>1, <3>2, ConfigAssumption DEF SaturatingSub
  <2>5. call[c].justification = justifications[call[c].block]
    BY <1>3, <2>3, <2>4 DEF ReadInv
  <2>6. TooFewParticipate(Status(c)) <=>
          /\ justifications[call[c].block] # None
          /\ ParticipationRate(justifications[call[c].block], voter_set) < RulesMinParticipation
    BY <2>5, StatusParticipation DEF Status
  <2>7. justifications[call[c].block] # None =>
          ParticipationRate(justifications[call[c].block], voter_set) \in Nat
    BY <1>1, RateType DEF TypeOK, ChainTypeOK, FinalityTypeOK
  <2>8. TooFewParticipate(Status(c)) <=> ~ EnoughParticipate(call[c].block)
    BY <2>6, <2>7 DEF EnoughParticipate, RulesMinParticipation
  <2>9. EnoughParticipate(call[c].block)' <=> EnoughParticipate(call[c].block)
    BY <1>4, <1>5, <2>2 DEF EnoughParticipate
  <2>10. call[c].block \in imported
    BY <1>3, <2>3 DEF ReadInv
  <2>. QED  BY <1>3, <1>4, <2>2, <2>8, <2>9, <2>10 DEF ReadInv
<1>12. CASE LowConfidence(c) \/ FewConfirmations(c)
  BY <1>6, <1>12 DEF LowConfidence, FewConfirmations, Verdicts
<1>13. CASE CheckDepthAndParticipation(c)
  BY <1>6, <1>13 DEF CheckDepthAndParticipation, Verdicts
<1>14. CASE FailRead(c)
  BY <1>6, <1>14 DEF FailRead, Verdicts
<1>. QED
  BY <1>7, <1>8, <1>9, <1>10, <1>11, <1>12, <1>13, <1>14 DEF CallStep

\* A step of an undeniable call keeps it so.
LEMMA UndeniableStep ==
  ASSUME VotersKept, ReadsInv, TypeOK', NEW c \in Callers, CallStep(c), Undeniable(c)
  PROVE  Undeniable(c)'
<1> USE DEF ReadsInv
<1>1. call[c] \in Calls /\ call \in [Callers -> Calls]
  BY DEF TypeOK, FinalityTypeOK
<1>2. /\ Settled(call[c].block)' /\ call'[c].block = call[c].block
      /\ TooOld(call[c].block) => TooOld(call[c].block)'
  <2>1. [ChainNext]_chainVars
    BY CallStepFrame
  <2>2. call'[c].block = call[c].block
    BY CallKeepsBlock
  <2>. QED  BY <2>1, <2>2, SettledBlockStays DEF Undeniable
<1>3. ASSUME call'[c].verdict = "not_final" => TooOld(call[c].block),
             call'[c].at \in {"justification", "voters"} =>
               Number[call'[c].block] + MinConfirmations <= call'[c].finalizedNumber
      PROVE  Undeniable(c)'
  BY <1>2, <1>3 DEF Undeniable
<1>4. ASSUME NEW verdict \in Verdicts, Return(c, verdict),
             verdict = "not_final" => TooOld(call[c].block)
      PROVE  Undeniable(c)'
  BY <1>3, <1>4, ReturnedReadInv
<1>5. CASE VerifyBlockHash(c)
  <2>1. CASE Return(c, "error")
    BY <1>4, <2>1 DEF Verdicts
  <2>2. CASE call' = [call EXCEPT ![c].at = "info"]
    BY <1>1, <1>3, <2>2 DEF Calls, Undeniable
  <2>. QED  BY <1>5, <2>1, <2>2 DEF VerifyBlockHash
<1>6. CASE ReadInfo(c)
  <2>1. /\ call'[c].finalizedNumber = Number[finalized] /\ call'[c].block = call[c].block
        /\ call'[c].verdict = call[c].verdict
    BY <1>1, <1>6 DEF ReadInfo, Calls
  <2>. QED  BY <1>3, <2>1 DEF Undeniable, Settled, IsBuried
<1>7. CASE ReadJustification(c)
  <2>1. /\ call'[c].finalizedNumber = call[c].finalizedNumber
        /\ call'[c].block = call[c].block /\ call'[c].verdict = call[c].verdict
        /\ call[c].at = "justification"
    BY <1>1, <1>7 DEF ReadJustification, Calls
  <2>. QED  BY <1>3, <2>1 DEF Undeniable
<1>8. CASE HighConfidence(c)
  BY <1>1, <1>3, <1>8 DEF HighConfidence, Calls, Undeniable
<1>9. CASE EnoughConfirmations(c)
  BY <1>1, <1>3, <1>9 DEF EnoughConfirmations, Calls, Undeniable
<1>10. CASE CheckDepthAndParticipation(c)
  <2>1. PICK verdict \in {"not_final", "final"} :
          /\ Return(c, verdict)
          /\ verdict = "not_final" =>
               ForkTooDeep(call[c].block) \/ TooFewParticipate(call[c].status)
    BY <1>10 DEF CheckDepthAndParticipation
  <2>2. verdict = "not_final" => TooOld(call[c].block)
    BY <1>10, <2>1, NeverDenied DEF CheckDepthAndParticipation
  <2>. QED  BY <1>4, <2>1, <2>2 DEF Verdicts
<1>11. CASE FailRead(c)
  BY <1>4, <1>11 DEF FailRead, Verdicts
<1>. QED
  BY <1>5, <1>6, <1>7, <1>8, <1>9, <1>10, <1>11, NeverDenied DEF CallStep

\* A call about a ripe block is undeniable from its beginning.
LEMMA RipeIsUndeniable ==
  ASSUME TypeOK, NEW c \in Callers, NEW b \in Blocks, NEW n, IsFinal(c, b, n), Ripe(b)
  PROVE  Undeniable(c)'
<1>1. /\ call'[c].at = "header" /\ call'[c].block = b /\ call'[c].verdict = "none"
  BY DEF IsFinal, NoCall, TypeOK, FinalityTypeOK
<1>2. UNCHANGED <<chainVars, voter_set>>
  BY DEF IsFinal
<1>3. b \in imported /\ IsBuried(b)
  BY DEF Ripe, IsBuried
<1>4. EnoughParticipate(b)
  <2>1. ~ /\ justifications[b] # None
          /\ ParticipationRate(justifications[b], voter_set) < RulesMinParticipation
    BY StatusParticipation DEF Ripe
  <2>2. justifications[b] # None => ParticipationRate(justifications[b], voter_set) \in Nat
    BY RateType DEF TypeOK, ChainTypeOK, FinalityTypeOK
  <2>. QED  BY <2>1, <2>2 DEF EnoughParticipate, RulesMinParticipation
<1>. QED  BY <1>1, <1>2, <1>3, <1>4
          DEF Undeniable, Settled, IsBuried, EnoughParticipate, chainVars

-----------------------------------------------------------------------------
(* The invariants of the specification.                                     *)

LEMMA ReadsInvInit == Init => ReadsInv
<1> SUFFICES ASSUME Init PROVE ReadsInv
  OBVIOUS
<1>1. TypeOK
  BY TypeInit
<1>2. ASSUME NEW c \in Callers PROVE CallInv(c) /\ ReadInv(c)
  BY DEF Init, CallInv, ReadInv, NoCall
<1>3. best \in imported
  BY DEF Init, ChainInit
<1>. QED  BY <1>1, <1>2, <1>3 DEF ReadsInv, BuriedInv

LEMMA ReadsInvStep ==
  ASSUME ConfigIsStrict, VotersKept, ReadsInv, TypeOK', [Next]_vars
  PROVE  ReadsInv'
<1> USE DEF ReadsInv
<1>1. BuriedInv' /\ best' \in imported'
  BY BuriedStep, BestIsImported, PredicateChainStep
<1> SUFFICES ASSUME NEW d \in Callers
             PROVE  ReadInv(d)'
  BY <1>1
<1>2. ASSUME call'[d] = call[d], [ChainNext]_chainVars
      PROVE  ReadInv(d)'
  BY <1>2, ReadInvStable DEF BuriedInv
<1>3. CASE ChainStep
  BY <1>2, <1>3 DEF ChainStep, finalityVars
<1>4. ASSUME NEW list \in AuthorityLists, HandleAuthoritySetUpdate(list)
      PROVE  ReadInv(d)'
  BY <1>2, <1>4 DEF HandleAuthoritySetUpdate, ReplaceVoterSet
<1>5. ASSUME NEW c \in Callers, NEW b, NEW n, IsFinal(c, b, n)
      PROVE  ReadInv(d)'
  <2>1. CASE d # c
    BY <1>2, <1>5, <2>1 DEF IsFinal, TypeOK, FinalityTypeOK
  <2>2. CASE d = c
    <3>1. call'[c].at = "header"
      BY <1>5 DEF IsFinal, NoCall, TypeOK, FinalityTypeOK
    <3>. QED  BY <2>2, <3>1 DEF ReadInv
  <2>. QED  BY <2>1, <2>2
<1>6. ASSUME NEW c \in Callers, CallStep(c)
      PROVE  ReadInv(d)'
  <2>1. CASE d # c
    BY <1>2, <1>6, <2>1, CallStepFrame
  <2>2. CASE d = c
    BY <1>6, <2>2, ReadInvStep
  <2>. QED  BY <2>1, <2>2
<1>7. CASE UNCHANGED vars
  BY <1>2, <1>7 DEF vars, finalityVars
<1>. QED  BY <1>3, <1>4, <1>5, <1>6, <1>7 DEF Next

LEMMA ReadsInvariant ==
  ASSUME ConfigIsStrict
  PROVE  Spec /\ [][VotersKept]_voter_set => []ReadsInv
<1>1. ReadsInv /\ TypeOK' /\ [Next]_vars /\ [VotersKept]_voter_set => ReadsInv'
  BY ReadsInvStep DEF VotersKept
<1>. QED  BY <1>1, ReadsInvInit, TypeInvariant, PTL DEF Spec

\* What is declared final is settled, the block that is just being declared, too.
LEMMA DeclaredStep ==
  ASSUME VotersKept, GadgetInv, TypeOK', [ChainNext]_chainVars, NEW c \in Callers,
         declared' = declared \/ CheckDepthAndParticipation(c)
  PROVE  \A b \in declared' : Settled(b)'
<1> USE DEF GadgetInv, ReadsInv
<1>1. declared \in SUBSET Blocks /\ call[c] \in Calls
  BY DEF TypeOK, FinalityTypeOK
<1>2. ASSUME NEW b \in declared
      PROVE  Settled(b)'
  BY <1>1, SettledStays
<1>3. CASE declared' = declared
  BY <1>2, <1>3
<1>4. CASE CheckDepthAndParticipation(c) /\ declared' = declared \cup {call[c].block}
             /\ ~ TooFewParticipate(call[c].status)
  <2>1. call[c].at = "best" /\ call[c].block \in Blocks
    BY <1>1, <1>4 DEF CheckDepthAndParticipation, Calls
  <2>2. PICK b \in Blocks : b = call[c].block
    BY <2>1
  <2>3. Settled(b)
    BY <1>4, <2>1, <2>2 DEF BuriedInv, CallInv, ReadInv, Settled
  <2>4. Settled(b)'
    BY <2>3, SettledStays
  <2>5. declared' = declared \cup {b}
    BY <1>4, <2>2
  <2>. QED  BY <1>2, <2>4, <2>5
<1>5. CheckDepthAndParticipation(c) /\ declared' # declared =>
        declared' = declared \cup {call[c].block} /\ ~ TooFewParticipate(call[c].status)
  BY DEF CheckDepthAndParticipation, Return
<1>. QED  BY <1>3, <1>4, <1>5

LEMMA GadgetInvInit == Init => GadgetInv
<1> SUFFICES ASSUME Init PROVE GadgetInv
  OBVIOUS
<1>1. \A c \in Callers : ~ call[c].known
  BY DEF Init, NoCall
<1>. QED  BY <1>1, ReadsInvInit DEF Init, GadgetInv

\* What a call knows to be final it never denies, whatever the others do.
LEMMA KnownStable ==
  ASSUME VotersKept, GadgetInv, TypeOK', [ChainNext]_chainVars, NEW d \in Callers,
         call'[d] = call[d], declared \subseteq declared'
  PROVE  call'[d].known => call'[d].block \in declared' /\ Undeniable(d)'
<1>1. call[d].known => Undeniable(d)'
  BY UndeniableStable DEF GadgetInv, ReadsInv
<1>. QED  BY <1>1 DEF GadgetInv

\* Every step keeps what the promise rests on.
LEMMA GadgetInvStep ==
  ASSUME ConfigIsStrict, VotersKept, GadgetInv, TypeOK', [Next]_vars
  PROVE  GadgetInv'
<1> USE DEF GadgetInv
<1>1. ReadsInv'
  BY ReadsInvStep
<1>2. ASSUME UNCHANGED call, declared' = declared, [ChainNext]_chainVars
      PROVE  GadgetInv'
  <2>1. \A d \in Callers :
          call'[d].known => call'[d].block \in declared' /\ Undeniable(d)'
    BY <1>2, KnownStable
  <2>2. \A b \in declared : Settled(b)'
    BY <1>2, SettledStays DEF ReadsInv, TypeOK, FinalityTypeOK
  <2>. QED  BY <1>1, <1>2, <2>1, <2>2
<1>3. CASE ChainStep
  BY <1>2, <1>3 DEF ChainStep, finalityVars
<1>4. ASSUME NEW list \in AuthorityLists, HandleAuthoritySetUpdate(list)
      PROVE  GadgetInv'
  BY <1>2, <1>4 DEF HandleAuthoritySetUpdate, ReplaceVoterSet
<1>5. ASSUME NEW c \in Callers, NEW b \in Blocks, NEW n \in {Number[x] : x \in Blocks},
             IsFinal(c, b, n)
      PROVE  GadgetInv'
  <2>1. UNCHANGED <<chainVars, voter_set>> /\ declared' = declared
    BY <1>5 DEF IsFinal
  <2>2. \A x \in declared' : Settled(x)'
    BY <2>1, DeclaredStep
  <2>3. ASSUME NEW d \in Callers, d # c
        PROVE  call'[d].known => call'[d].block \in declared' /\ Undeniable(d)'
    <3>1. call'[d] = call[d]
      BY <1>5, <2>3 DEF IsFinal, ReadsInv, TypeOK, FinalityTypeOK
    <3>. QED  BY <2>1, <3>1, KnownStable
  <2>4. call'[c].known => call'[c].block \in declared' /\ Undeniable(c)'
    <3>1. /\ call'[c].at = "header" /\ call'[c].block = b /\ call'[c].verdict = "none"
          /\ call'[c].known = (b \in declared)
      BY <1>5 DEF IsFinal, NoCall, ReadsInv, TypeOK, FinalityTypeOK
    <3>2. call'[c].known => b \in declared
      BY <3>1, Zenon
    <3>3. b \in declared => Settled(b)'
      BY <2>1, <2>2
    <3>4. b \in declared => Undeniable(c)'
      BY <3>1, <3>3 DEF Undeniable, Settled, IsBuried, EnoughParticipate
    <3>. QED  BY <2>1, <3>1, <3>2, <3>4
  <2>. QED  BY <1>1, <2>2, <2>3, <2>4
<1>6. ASSUME NEW c \in Callers, CallStep(c)
      PROVE  GadgetInv'
  <2>1. /\ UNCHANGED chainVars /\ declared \subseteq declared'
        /\ \A d \in Callers \ {c} : call'[d] = call[d]
    BY <1>6, CallStepFrame DEF ReadsInv
  <2>2. declared' = declared \/ CheckDepthAndParticipation(c)
    BY <1>6 DEF CallStep, VerifyBlockHash, ReadInfo, ReadJustification, LowConfidence,
       HighConfidence, FewConfirmations, EnoughConfirmations, FailRead, Return
  <2>3. \A b \in declared' : Settled(b)'
    BY <2>1, <2>2, DeclaredStep
  <2>4. ASSUME NEW d \in Callers, d # c
        PROVE  call'[d].known => call'[d].block \in declared' /\ Undeniable(d)'
    BY <2>1, <2>4, KnownStable
  <2>5. call'[c].known => call'[c].block \in declared' /\ Undeniable(c)'
    <3>1. call'[c].block = call[c].block /\ call'[c].known = call[c].known
      BY <1>6, CallKeepsBlock DEF ReadsInv
    <3>2. call[c].known => Undeniable(c)'
      BY <1>6, UndeniableStep
    <3>. QED  BY <2>1, <3>1, <3>2
  <2>. QED  BY <1>1, <2>3, <2>4, <2>5
<1>7. CASE UNCHANGED vars
  BY <1>2, <1>7 DEF vars, finalityVars
<1>. QED  BY <1>3, <1>4, <1>5, <1>6, <1>7 DEF Next

\* A block declared final before a call began is called not final by it only once the
\* client knows a block more than max_fork_depth above it.
THEOREM FinalityIrrevocableHolds ==
  ASSUME ConfigIsStrict
  PROVE  Spec /\ [][VotersKept]_voter_set => []FinalityIrrevocable
<1>1. GadgetInv /\ TypeOK' /\ [Next]_vars /\ [VotersKept]_voter_set => GadgetInv'
  BY GadgetInvStep DEF VotersKept
<1>2. GadgetInv => FinalityIrrevocable
  BY DEF GadgetInv, Undeniable, FinalityIrrevocable
<1>. QED  BY <1>1, <1>2, GadgetInvInit, TypeInvariant, PTL DEF Spec

-----------------------------------------------------------------------------
(* The refinement.  What the gadget sees of a state:                        *)

Height == Number[finalized]
Asked == [c \in Callers |-> call[c].block]
AnswerOf(entry) == IF entry.at = "idle" THEN entry.verdict ELSE "pending"
Answer == [c \in Callers |-> AnswerOf(call[c])]
Sure == [c \in Callers |-> call[c].known]
Aged == {b \in Blocks : TooOld(b)}

\* A step of one call is seen in the fields of that call only.
LEMMA SeenOfCall ==
  ASSUME TypeOK, NEW c \in Callers, NEW entry, call' = [call EXCEPT ![c] = entry]
  PROVE  /\ Asked' = [Asked EXCEPT ![c] = entry.block]
         /\ Answer' = [Answer EXCEPT ![c] = AnswerOf(entry)]
         /\ Sure' = [Sure EXCEPT ![c] = entry.known]
<1>1. call'[c] = entry /\ \A d \in Callers : d # c => call'[d] = call[d]
  BY DEF TypeOK, FinalityTypeOK
<1>2. Asked' = [d \in Callers |-> IF d = c THEN entry.block ELSE Asked[d]]
  <2>1. \A d \in Callers : call'[d].block = IF d = c THEN entry.block ELSE call[d].block
    BY <1>1
  <2>. QED  BY <2>1, Zenon DEF Asked
<1>3. Answer' = [d \in Callers |-> IF d = c THEN AnswerOf(entry) ELSE Answer[d]]
  <2>1. \A d \in Callers : AnswerOf(call'[d]) = IF d = c THEN AnswerOf(entry)
                                                ELSE AnswerOf(call[d])
    BY <1>1
  <2>. QED  BY <2>1, Zenon DEF Answer
<1>4. Sure' = [d \in Callers |-> IF d = c THEN entry.known ELSE Sure[d]]
  <2> DEFINE Known(e) == e.known
  <2>1. Sure = [d \in Callers |-> Known(call[d])] /\ Sure' = [d \in Callers |-> Known(call'[d])]
    BY Zenon DEF Sure
  <2>2. entry.known = Known(entry)
    BY Zenon
  <2>. HIDE DEF Known
  <2>3. \A d \in Callers : Known(call'[d]) = IF d = c THEN Known(entry) ELSE Known(call[d])
    BY <1>1
  <2>. QED  BY <2>1, <2>2, <2>3, Zenon
<1>5. DOMAIN Asked = Callers /\ DOMAIN Answer = Callers /\ DOMAIN Sure = Callers
  BY DEF Asked, Answer, Sure
<1>. QED  BY <1>2, <1>3, <1>4, <1>5, Zenon

\* A step that changes neither the question, nor that it is running, is not seen.
LEMMA UnseenStep ==
  ASSUME TypeOK, TypeOK', NEW c \in Callers, UNCHANGED chainVars, declared' = declared,
         \A d \in Callers \ {c} : call'[d] = call[d],
         call[c].at # "idle", call'[c].at # "idle",
         call'[c].block = call[c].block, call'[c].known = call[c].known
  PROVE  UNCHANGED <<Height, Asked, Answer, Sure, declared, Aged>>
<1>1. \A d \in Callers : /\ call'[d].block = call[d].block
                         /\ call'[d].known = call[d].known
                         /\ AnswerOf(call'[d]) = AnswerOf(call[d])
  BY Zenon DEF AnswerOf
<1>2. Asked' = Asked
  BY <1>1 DEF Asked
<1>3. Answer' = Answer
  BY <1>1 DEF Answer
<1>4. Sure' = Sure
  BY <1>1, Zenon DEF Sure
<1>. QED  BY <1>2, <1>3, <1>4 DEF Height, Aged, TooOld, chainVars

\* A call that returns is an answer.
LEMMA SeenReturn ==
  ASSUME TypeOK, NEW c \in Callers, NEW verdict \in Verdicts, Return(c, verdict),
         UNCHANGED chainVars, call[c].at # "idle"
  PROVE  /\ Height' = Height /\ Asked' = Asked /\ Sure' = Sure /\ Aged' = Aged
         /\ Answer[c] = "pending"
         /\ Answer' = [Answer EXCEPT ![c] = verdict]
         /\ declared' = IF verdict = "final" THEN declared \cup {Asked[c]} ELSE declared
<1> DEFINE entry == [NoCall EXCEPT !.block = call[c].block, !.number = call[c].number,
                                   !.known = call[c].known, !.verdict = verdict]
<1>1. call' = [call EXCEPT ![c] = entry]
  BY DEF Return
<1>2. entry.block = call[c].block /\ entry.known = call[c].known
      /\ entry.at = "idle" /\ entry.verdict = verdict
  BY DEF NoCall
<1>. HIDE DEF entry
<1>3. /\ Asked' = [Asked EXCEPT ![c] = entry.block]
      /\ Answer' = [Answer EXCEPT ![c] = AnswerOf(entry)]
      /\ Sure' = [Sure EXCEPT ![c] = entry.known]
  BY <1>1, SeenOfCall
<1>4. Asked' = Asked
  BY <1>2, <1>3 DEF Asked
<1>5. Sure' = Sure
  BY <1>2, <1>3, Zenon DEF Sure
<1>6. Answer[c] = "pending" /\ Answer' = [Answer EXCEPT ![c] = verdict]
  BY <1>2, <1>3 DEF Answer, AnswerOf
<1>7. declared' = IF verdict = "final" THEN declared \cup {Asked[c]} ELSE declared
  BY DEF Return, Asked
<1>. QED  BY <1>4, <1>5, <1>6, <1>7 DEF Height, Aged, TooOld, chainVars

\* What the gadget sees, through the INSTANCE, is what is named here.
LEMMA Unseen ==
  ASSUME UNCHANGED <<Height, Asked, Answer, Sure, declared, Aged>>
  PROVE  UNCHANGED Gadget!vars
BY Zenon DEF Gadget!vars, Height, Asked, Answer, AnswerOf, Sure, Aged

\* An answer to a running question is a step of the gadget.
LEMMA ReturnIsAnswer ==
  ASSUME TypeOK, NEW c \in Callers, NEW verdict \in Verdicts \ {"none"},
         Return(c, verdict), UNCHANGED chainVars, call[c].at # "idle",
         verdict = "final" => IsBuried(call[c].block),
         verdict = "not_final" => ~ call[c].known \/ TooOld(call[c].block)
  PROVE  Gadget!Next
<1>1. /\ Height' = Height /\ Asked' = Asked /\ Sure' = Sure /\ Aged' = Aged
      /\ Answer[c] = "pending"
      /\ Answer' = [Answer EXCEPT ![c] = verdict]
      /\ declared' = IF verdict = "final" THEN declared \cup {Asked[c]} ELSE declared
  BY SeenReturn
<1>2. CASE verdict = "final"
  <2>1. Number[Asked[c]] + MinConfirmations <= Height
    BY <1>2 DEF IsBuried, Asked, Height
  <2>2. Gadget!Affirm(c)
    BY <1>1, <1>2, <2>1
    DEF Gadget!Affirm, Gadget!Buried, Height, Asked, Answer, AnswerOf, Sure, Aged
  <2>. QED  BY <2>2 DEF Gadget!Next
<1>3. CASE verdict = "not_final"
  <2>1. ~ Sure[c] \/ Asked[c] \in Aged
    <3>1. CASE ~ call[c].known
      BY <3>1, Zenon DEF Sure
    <3>2. CASE TooOld(call[c].block)
      BY <3>2 DEF Asked, Aged, TypeOK, FinalityTypeOK, Calls
    <3>. QED  BY <1>3, <3>1, <3>2
  <2>2. Gadget!Deny(c)
    BY <1>1, <1>3, <2>1 DEF Gadget!Deny, Height, Asked, Answer, AnswerOf, Sure, Aged
  <2>. QED  BY <2>2 DEF Gadget!Next
<1>4. CASE verdict = "error"
  <2>1. Gadget!Fail(c)
    BY <1>1, <1>4 DEF Gadget!Fail, Height, Asked, Answer, AnswerOf, Sure, Aged
  <2>. QED  BY <2>1 DEF Gadget!Next
<1>. QED  BY <1>2, <1>3, <1>4 DEF Verdicts

\* The chain is seen to age or to move up its finalized block.
LEMMA ChainStepIsSeen ==
  ASSUME TypeOK, ChainStep
  PROVE  Gadget!Next
<1>1. UNCHANGED <<Asked, Answer, Sure, declared>>
  BY DEF ChainStep, finalityVars, Asked, Answer, AnswerOf, Sure
<1>2. ASSUME NEW b \in Blocks, ImportBlock(b)
      PROVE  Gadget!Next
  <2>1. Height' = Height
    BY <1>2 DEF ImportBlock, Height
  <2>2. Aged' \in SUBSET Blocks /\ Aged \subseteq Aged'
    <3>1. \A x \in Blocks : TooOld(x) => TooOld(x)'
      BY <1>2, TooOldStays DEF ChainNext
    <3>. QED  BY <3>1 DEF Aged
  <2>3. Gadget!Age
    BY <1>1, <2>1, <2>2, Zenon DEF Gadget!Age, Height, Asked, Answer, AnswerOf, Sure, Aged
  <2>. QED  BY <2>3 DEF Gadget!Next
<1>3. ASSUME NEW b \in Blocks, FinalizeBlock(b)
      PROVE  Gadget!Next
  <2>1. Number[b] > Height /\ Height' = Number[b] /\ Aged' = Aged
    BY <1>3 DEF FinalizeBlock, Height, Aged, TooOld
  <2>2. Gadget!Finalize
    BY <1>1, <2>1, Zenon DEF Gadget!Finalize, Height, Asked, Answer, AnswerOf, Sure, Aged
  <2>. QED  BY <2>2 DEF Gadget!Next
<1>. QED  BY <1>2, <1>3 DEF ChainStep, ChainNext

\* is_final is entered: a question.
LEMMA IsFinalIsAsk ==
  ASSUME TypeOK, NEW c \in Callers, NEW b \in Blocks, NEW n, IsFinal(c, b, n)
  PROVE  Gadget!Next
<1> DEFINE known == b \in declared
           entry == [NoCall EXCEPT !.at = "header", !.block = b, !.number = n, !.known = known]
<1>1. call' = [call EXCEPT ![c] = entry]
  BY DEF IsFinal
<1>2. entry.at = "header" /\ entry.block = b
  BY DEF NoCall
<1>3. entry.known = known
  BY Zenon DEF NoCall
<1>. HIDE DEF entry
<1>4. /\ Asked' = [Asked EXCEPT ![c] = entry.block]
      /\ Answer' = [Answer EXCEPT ![c] = AnswerOf(entry)]
      /\ Sure' = [Sure EXCEPT ![c] = entry.known]
  BY <1>1, SeenOfCall
<1>5. Asked' = [Asked EXCEPT ![c] = b] /\ Answer' = [Answer EXCEPT ![c] = "pending"]
  BY <1>2, <1>4 DEF AnswerOf
<1>6. Sure' = [Sure EXCEPT ![c] = b \in declared]
  BY <1>3, <1>4, Zenon
<1>7. Answer[c] # "pending"
  BY DEF IsFinal, Answer, AnswerOf, TypeOK, FinalityTypeOK, Calls, Verdicts
<1>8. Height' = Height /\ declared' = declared /\ Aged' = Aged
  BY DEF IsFinal, chainVars, Height, Aged, TooOld
<1>9. Gadget!Ask(c, b)
  BY <1>5, <1>6, <1>7, <1>8, Zenon
  DEF Gadget!Ask, Height, Asked, Answer, AnswerOf, Sure, Aged
<1>. QED  BY <1>9 DEF Gadget!Next

\* The steps of a call are unseen, up to its return.
LEMMA CallStepIsAnswer ==
  ASSUME VotersKept, GadgetInv, TypeOK', NEW c \in Callers, CallStep(c)
  PROVE  Gadget!Next \/ UNCHANGED Gadget!vars
<1> USE DEF GadgetInv, ReadsInv
<1>1. UNCHANGED chainVars /\ \A d \in Callers \ {c} : call'[d] = call[d]
  BY CallStepFrame
<1>2. call[c] \in Calls /\ call[c].at # "idle"
  BY DEF TypeOK, FinalityTypeOK, CallStep, VerifyBlockHash, ReadInfo, ReadJustification,
         LowConfidence, HighConfidence, FewConfirmations, EnoughConfirmations,
         CheckDepthAndParticipation, FailRead
<1>3. CASE Return(c, "error")
  BY <1>1, <1>2, <1>3, ReturnIsAnswer DEF Verdicts
<1>4. CASE LowConfidence(c) \/ FewConfirmations(c)
  <2>1. ~ call[c].known
    BY <1>4, NeverDenied
  <2>2. Return(c, "not_final")
    BY <1>4 DEF LowConfidence, FewConfirmations
  <2>. QED  BY <1>1, <1>2, <2>1, <2>2, ReturnIsAnswer DEF Verdicts
<1>5. CASE CheckDepthAndParticipation(c)
  <2>1. CASE ForkTooDeep(call[c].block) \/ TooFewParticipate(call[c].status)
    <3>1. ~ call[c].known \/ TooOld(call[c].block)
      BY <1>5, <2>1, NeverDenied DEF CheckDepthAndParticipation
    <3>2. Return(c, "not_final")
      BY <1>5, <2>1 DEF CheckDepthAndParticipation
    <3>. QED  BY <1>1, <1>2, <3>1, <3>2, ReturnIsAnswer DEF Verdicts
  <2>2. CASE ~ (ForkTooDeep(call[c].block) \/ TooFewParticipate(call[c].status))
    <3>1. IsBuried(call[c].block)
      BY <1>5 DEF CheckDepthAndParticipation, BuriedInv, CallInv
    <3>2. Return(c, "final")
      BY <1>5, <2>2 DEF CheckDepthAndParticipation
    <3>. QED  BY <1>1, <1>2, <3>1, <3>2, ReturnIsAnswer DEF Verdicts
  <2>. QED  BY <2>1, <2>2
<1>6. ASSUME NEW at \in Reads \ {"idle"}, call'[c].at = at, declared' = declared,
             call'[c].block = call[c].block, call'[c].known = call[c].known
      PROVE  UNCHANGED Gadget!vars
  BY <1>1, <1>2, <1>6, UnseenStep, Unseen
<1>7. CASE call' = [call EXCEPT ![c].at = "info"] /\ declared' = declared
  BY <1>2, <1>6, <1>7 DEF Calls, Reads, TypeOK, FinalityTypeOK
<1>8. CASE ReadInfo(c)
  BY <1>2, <1>6, <1>8 DEF ReadInfo, Calls, Reads, TypeOK, FinalityTypeOK
<1>9. CASE ReadJustification(c)
  BY <1>2, <1>6, <1>9 DEF ReadJustification, Calls, Reads, TypeOK, FinalityTypeOK
<1>10. CASE HighConfidence(c)
  BY <1>2, <1>6, <1>10 DEF HighConfidence, Calls, Reads, TypeOK, FinalityTypeOK
<1>11. CASE EnoughConfirmations(c)
  BY <1>2, <1>6, <1>11 DEF EnoughConfirmations, Calls, Reads, TypeOK, FinalityTypeOK
<1>. QED
  BY <1>3, <1>4, <1>5, <1>7, <1>8, <1>9, <1>10, <1>11
  DEF CallStep, VerifyBlockHash, FailRead

\* The predicate implements the gadget: every step is a step of the gadget or is
\* not seen by it.
THEOREM ImplementsGadgetHolds ==
  ASSUME ConfigIsStrict
  PROVE  Spec /\ [][VotersKept]_voter_set => ImplementsGadget
<1>1. Init => Gadget!Init
  <2> SUFFICES ASSUME Init PROVE Gadget!Init
    OBVIOUS
  <2>1. \A c \in Callers : call[c] = NoCall
    BY DEF Init
  <2>2. NoCall.block = Genesis /\ NoCall.at = "idle" /\ NoCall.verdict = "none"
        /\ NoCall.known = FALSE
    BY DEF NoCall
  <2>3. finalized = Genesis /\ declared = {}
    BY DEF Init, ChainInit
  <2>4. {b \in Blocks : TooOld(b)} = {}
    <3>1. \A b \in Blocks : ~ (Number[Genesis] > Number[b] + MaxForkDepth)
      BY TreeAssumption, ConfigAssumption
    <3>. QED  BY <3>1 DEF Init, ChainInit, TooOld
  <2>. QED  BY <2>1, <2>2, <2>3, <2>4, Zenon DEF Gadget!Init
<1>2. GadgetInv /\ TypeOK' /\ [Next]_vars /\ [VotersKept]_voter_set
        => [Gadget!Next]_(Gadget!vars)
  <2> SUFFICES ASSUME GadgetInv, TypeOK', [Next]_vars, VotersKept
               PROVE  Gadget!Next \/ UNCHANGED Gadget!vars
    BY DEF VotersKept
  <2>0. TypeOK
    BY DEF GadgetInv, ReadsInv
  <2>1. CASE ChainStep
    BY <2>0, <2>1, ChainStepIsSeen
  <2>2. ASSUME NEW list \in AuthorityLists, HandleAuthoritySetUpdate(list)
        PROVE  UNCHANGED Gadget!vars
    <3>1. UNCHANGED <<finalized, imported, call, declared>>
      BY <2>2 DEF HandleAuthoritySetUpdate, ReplaceVoterSet, chainVars
    <3>. QED  BY <3>1, Unseen DEF Height, Asked, Answer, AnswerOf, Sure, Aged, TooOld
  <2>3. ASSUME NEW c \in Callers, NEW b \in Blocks, NEW n \in {Number[x] : x \in Blocks},
               IsFinal(c, b, n)
        PROVE  Gadget!Next
    BY <2>0, <2>3, IsFinalIsAsk
  <2>4. ASSUME NEW c \in Callers, CallStep(c)
        PROVE  Gadget!Next \/ UNCHANGED Gadget!vars
    BY <2>4, CallStepIsAnswer
  <2>5. CASE UNCHANGED vars
    <3>1. UNCHANGED <<finalized, imported, call, declared>>
      BY <2>5 DEF vars, finalityVars, chainVars
    <3>. QED  BY <3>1, Unseen DEF Height, Asked, Answer, AnswerOf, Sure, Aged, TooOld
  <2>. QED  BY <2>1, <2>2, <2>3, <2>4, <2>5 DEF Next
<1>3. GadgetInv /\ TypeOK' /\ [Next]_vars /\ [VotersKept]_voter_set => GadgetInv'
  BY GadgetInvStep DEF VotersKept
<1>. QED
  BY <1>1, <1>2, <1>3, GadgetInvInit, TypeInvariant, PTL DEF Spec, ImplementsGadget, Gadget!Spec
=============================================================================
