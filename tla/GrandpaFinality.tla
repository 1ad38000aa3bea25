--------------------------- MODULE GrandpaFinality ---------------------------
(***************************************************************************)
(* The finality predicate: GrandpaFinality::is_final over a                 *)
(* SubstrateVerificationClient (src/finality/mod.rs).                       *)
(*                                                                          *)
(* A call of is_final reads the client several times: the header of the     *)
(* block, then for the confidence, and once more for the chain rules,       *)
(* `info`, the block's justification and the voter set, and at the end      *)
(* `info` again.  Each read is a step, so that the chain may grow,          *)
(* reorganise or finalize, and the voter set change, between any two.       *)
(***************************************************************************)
EXTENDS FinalityRules

CONSTANT Callers   \* the tasks that call is_final, one call each at a time

VARIABLES
  voter_set,   \* SubstrateVerificationClient.voter_set
  call,        \* [Callers -> Calls], the running or last is_final of each caller
  declared,    \* history: the blocks is_final has answered `true` for
  in_force     \* history: the voter sets in force during the call of each caller

voterVars == <<voter_set, in_force>>
finalityVars == <<voterVars, call, declared>>
vars == <<chainVars, finalityVars>>

-----------------------------------------------------------------------------
(* A call of is_final: the read it does next (`at`), the evaluation of the  *)
(* status it belongs to (`phase`), the block reference, what it has read,   *)
(* and the verdict it ended with; `known` is history: the block had been    *)
(* declared final before the call began.                                    *)
Reads == {"idle", "header", "info", "justification", "voters", "best"}
Phases == {"confidence", "rules"}
Verdicts == {"none", "final", "not_final", "error"}

Calls == [at : Reads, phase : Phases, block : Blocks, number : Nat,
          finalizedNumber : Nat, justification : Justifications \cup {None},
          status : Statuses, verdict : Verdicts, known : BOOLEAN]

NoCall == [at |-> "idle", phase |-> "confidence", block |-> Genesis, number |-> 0,
           finalizedNumber |-> 0, justification |-> None,
           status |-> NoStatus, verdict |-> "none", known |-> FALSE]

FinalityTypeOK ==
  /\ voter_set \in VoterSets
  /\ call \in [Callers -> Calls]
  /\ declared \in SUBSET Blocks
  /\ in_force \in [Callers -> SUBSET VoterSets]

TypeOK == ChainTypeOK /\ FinalityTypeOK

Init ==
  /\ ChainInit
  /\ voter_set \in VoterSets
  /\ call = [c \in Callers |-> NoCall]
  /\ declared = {}
  /\ in_force = [c \in Callers |-> {voter_set}]

-----------------------------------------------------------------------------
\* is_final is entered with a reference to any block, by hash and number.
IsFinal(c, b, n) ==
  /\ call[c].at = "idle"
  /\ call' = [call EXCEPT ![c] = [NoCall EXCEPT !.at = "header", !.block = b, !.number = n,
                                                !.known = b \in declared]]
  /\ in_force' = [in_force EXCEPT ![c] = {voter_set}]
  /\ UNCHANGED <<chainVars, voter_set, declared>>

\* The call ends: what it has read is dropped, the verdict stays visible.
Return(c, verdict) ==
  /\ call' = [call EXCEPT ![c] = [NoCall EXCEPT !.block = call[c].block,
                                                !.number = call[c].number,
                                                !.known = call[c].known,
                                                !.verdict = verdict]]
  /\ declared' = IF verdict = "final" THEN declared \cup {call[c].block} ELSE declared

\* verify_block_hash: the header must exist and carry the number of the
\* reference; either way of failing is an error of is_final.
VerifyBlockHash(c) ==
  /\ call[c].at = "header"
  /\ IF call[c].block \in imported /\ Number[call[c].block] = call[c].number
     THEN call' = [call EXCEPT ![c].at = "info"] /\ UNCHANGED declared
     ELSE Return(c, "error")
  /\ UNCHANGED <<chainVars, voterVars>>

\* get_finality_status: the header, which is still there, and info().
ReadInfo(c) ==
  /\ call[c].at = "info"
  /\ call' = [call EXCEPT ![c].at = "justification",
                          ![c].finalizedNumber = Number[finalized]]
  /\ UNCHANGED <<chainVars, voterVars, declared>>

\* get_finality_status: the justification, if the block has one.
ReadJustification(c) ==
  /\ call[c].at = "justification"
  /\ call' = [call EXCEPT ![c].at = "voters",
                          ![c].justification = justifications[call[c].block]]
  /\ UNCHANGED <<chainVars, voterVars, declared>>

\* The status get_finality_status returns: the justification is verified under
\* the voter set of this moment.
Status(c) ==
  FinalityStatus(call[c].block, call[c].finalizedNumber, call[c].justification, voter_set)

\* The confidence is below the threshold of the predicate: not final.
LowConfidence(c) ==
  /\ call[c].at = "voters" /\ call[c].phase = "confidence"
  /\ Confidence(Status(c)) < ConfidenceThreshold
  /\ Return(c, "not_final")
  /\ UNCHANGED <<chainVars, voterVars>>

\* The confidence suffices: verify_chain_rules reads the status once more.
HighConfidence(c) ==
  /\ call[c].at = "voters" /\ call[c].phase = "confidence"
  /\ Confidence(Status(c)) >= ConfidenceThreshold
  /\ call' = [call EXCEPT ![c].at = "info", ![c].phase = "rules",
                          ![c].finalizedNumber = 0, ![c].justification = None]
  /\ UNCHANGED <<chainVars, voterVars, declared>>

\* verify_chain_rules, the minimum confirmations.
FewConfirmations(c) ==
  /\ call[c].at = "voters" /\ call[c].phase = "rules"
  /\ Status(c).confirmations < MinConfirmations
  /\ Return(c, "not_final")
  /\ UNCHANGED <<chainVars, voterVars>>

\* Variation: the block counts as its own first confirmation.
EnoughConfirmationsWithOwn(c) ==
  /\ call[c].at = "voters" /\ call[c].phase = "rules"
  /\ Status(c).confirmations + 1 >= MinConfirmations
  /\ call' = [call EXCEPT ![c].at = "best", ![c].status = Status(c),
                          ![c].finalizedNumber = 0, ![c].justification = None]
  /\ UNCHANGED <<chainVars, voterVars, declared>>

EnoughConfirmations(c) ==
  /\ call[c].at = "voters" /\ call[c].phase = "rules"
  /\ Status(c).confirmations >= MinConfirmations
  /\ call' = [call EXCEPT ![c].at = "best", ![c].status = Status(c),
                          ![c].finalizedNumber = 0, ![c].justification = None]
  /\ UNCHANGED <<chainVars, voterVars, declared>>

\* verify_chain_rules, its end: the fork depth against the best block of this
\* moment, and the participation of the status.
CheckDepthAndParticipation(c) ==
  /\ call[c].at = "best"
  /\ Return(c, IF ForkTooDeep(call[c].block) \/ TooFewParticipate(call[c].status)
               THEN "not_final" ELSE "final")
  /\ UNCHANGED <<chainVars, voterVars>>

\* The client fails a read; `?` hands the error to the caller of is_final.
FailRead(c) ==
  /\ call[c].at \in {"header", "info", "justification"}
  /\ Return(c, "error")
  /\ UNCHANGED <<chainVars, voterVars>>

\* A step of a running call.
CallStep(c) ==
  \/ VerifyBlockHash(c)
  \/ ReadInfo(c)
  \/ ReadJustification(c)
  \/ LowConfidence(c)
  \/ HighConfidence(c)
  \/ FewConfirmations(c)
  \/ EnoughConfirmations(c)
  \/ CheckDepthAndParticipation(c)
  \/ FailRead(c)

\* The voter set is replaced, under the feet of the running calls.
ReplaceVoterSet(vs) ==
  /\ voter_set' = vs
  /\ in_force' = [c \in Callers |-> IF call[c].at = "idle" THEN in_force[c]
                                   ELSE in_force[c] \cup {vs}]
  /\ UNCHANGED <<chainVars, call, declared>>

\* Variation: a list is taken over without asking whether it makes a voter set.
HandleAuthoritySetUpdateUnchecked(list) == ReplaceVoterSet(VoterSet(list))

\* handle_authority_set_update: a list that makes no voter set is an error and
\* leaves the old one in place.  update_authorities_from_runtime replaces the
\* voter set in the same way, with the list of a runtime.
HandleAuthoritySetUpdate(list) ==
  /\ IsVoterSet(list)
  /\ ReplaceVoterSet(VoterSet(list))

ChainStep == ChainNext /\ UNCHANGED finalityVars

Next ==
  \/ ChainStep
  \/ \E list \in AuthorityLists : HandleAuthoritySetUpdate(list)
  \/ \E c \in Callers :
       \/ \E b \in Blocks, n \in {Number[x] : x \in Blocks} : IsFinal(c, b, n)
       \/ CallStep(c)

Spec == Init /\ [][Next]_vars

-----------------------------------------------------------------------------
\* A verdict of "final" is about a block at least min_confirmations below the
\* last finalized one (src/finality/mod.rs:883 and :936), now and for ever: the
\* two readings of the status happen at different heights of the chain, and
\* with min_confirmations = 0 only the first of them, through the confidence,
\* keeps out blocks that are not finalized.
FinalIsBuried ==
  \A c \in Callers :
    call[c].verdict = "final" =>
      Number[call[c].block] + MinConfirmations <= Number[finalized]

\* Some block that the client knows is more than max_fork_depth above b: from then
\* on the depth may refuse b, whatever was said of it before (finding ForkDepthIsAge).
TooOld(b) == \E x \in imported : Number[x] > Number[b] + MaxForkDepth

\* A block that is_final has answered `true` for is never answered `false` later,
\* however the chain moves during the calls, unless the chain has grown more than
\* max_fork_depth above it: a caller acts on `true` (src/observer/mod.rs:329) and
\* cannot take it back.
FinalityIrrevocable ==
  \A c \in Callers :
    call[c].known /\ call[c].verdict = "not_final" => TooOld(call[c].block)

\* The block has nothing to wait for: it is buried, and its justification, if it
\* has one, is signed by enough of the voters in force.
Ripe(b) ==
  /\ b \in imported
  /\ Number[b] + MinConfirmations <= Number[finalized]
  /\ ~ TooFewParticipate(FinalityStatus(b, Number[finalized], justifications[b], voter_set))

\* The weight of the voters, counted once each, that signed a justification.
SignerUnits(justification, vs) ==
  {u \in Units(vs) : \E i \in DOMAIN justification :
                        justification[i].valid /\ justification[i].id = u[1]}

\* A voter signed two of the precommits, which verify_justification adds up both
\* (src/finality/mod.rs:572).
SomeVoterSignsTwice(justification, vs) ==
  \E i, k \in DOMAIN justification :
    /\ i # k /\ justification[i].id = justification[k].id
    /\ justification[i].id \in DOMAIN vs
    /\ justification[i].valid /\ justification[k].valid

\* The required participation of different voters of vs; or one voter's weight was
\* counted twice, and then nothing follows of how many signed.
Attests(justification, vs) ==
  \/ 100 * Cardinality(SignerUnits(justification, vs)) >= RulesMinParticipation * TotalWeight(vs)
  \/ SomeVoterSignsTwice(justification, vs)

\* With any confidence threshold above the 20% a block has for free, a verdict of
\* "final" rests on evidence: the block is not above the last finalized one, or its
\* justification carries the required participation of one voter set that was in
\* force while the call ran (src/finality/mod.rs:365 and :951), not of a mix of the
\* sets before and after an update.  The exception is a voter that signs twice.
FinalHasEvidence ==
  \A c \in Callers :
    call[c].verdict = "final" =>
      LET b == call[c].block
      IN  \/ Number[b] <= Number[finalized]
          \/ justifications[b] # None /\ \E vs \in in_force[c] : Attests(justifications[b], vs)

-----------------------------------------------------------------------------
(* The promise of the predicate.                                            *)

Gadget == INSTANCE FinalityGadget WITH
  height <- Number[finalized],
  asked  <- [c \in Callers |-> call[c].block],
  answer <- [c \in Callers |-> IF call[c].at = "idle" THEN call[c].verdict ELSE "pending"],
  sure   <- [c \in Callers |-> call[c].known],
  aged   <- {b \in Blocks : TooOld(b)}

\* A call of is_final with all its reads looks like one question that is decided
\* in one moment: `final` only of a block that is buried in that moment,
\* `not_final` of a block it was `final` for when the question was put only once the
\* chain is more than max_fork_depth above that block, and a running call is
\* answered before the next one (src/finality/mod.rs:330-383).
ImplementsGadget == Gadget!Spec

-----------------------------------------------------------------------------
(* What comments of src/finality/mod.rs say of the predicate.               *)

\* :675 "Check if block is already finalized": a block that is declared final
\* is the last finalized block or one below it on its branch.
FinalOnFinalizedChain ==
  \A b \in declared : b \in Ancestors[finalized]

\* :416 "Maximum allowed fork depth" and :941 "Check fork depth": a block of
\* the best chain is on no fork and is not refused for the depth of one.
OnlyForksAreTooDeep ==
  [][\A c \in Callers :
       /\ call[c].at = "best"
       /\ call'[c].verdict = "not_final"
       /\ call[c].block \in Ancestors[best]
       => TooFewParticipate(call[c].status)]_vars
=============================================================================
