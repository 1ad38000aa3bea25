-------------------------- MODULE FinalityWaitProofs --------------------------
(***************************************************************************)
(* Theorems about FinalityWait, for every tree of blocks, any number of     *)
(* waiting tasks and of callers of is_final beside them: the type           *)
(* invariant, that tasks which wait use the predicate by its own steps, and *)
(* what a wait that ended with Ok or with a timeout says of its block.      *)
(***************************************************************************)
EXTENDS FinalityWait, GrandpaFinalityProofs

\* An evaluation is a call about the block that is waited for, and a sleeping
\* task has no call.
OneWaitInv(c) ==
  /\ wait[c].at = "evaluating" => wait[c].block = call[c].block
  /\ wait[c].at = "sleeping" => call[c].at = "idle"

WaitInv ==
  /\ TypeOK
  /\ wait \in [Callers -> Waits]
  /\ \A c \in Callers : OneWaitInv(c)

\* A wait changes the predicate by steps of the predicate only.
LEMMA WaitIsPredicateStep ==
  ASSUME wait \in [Callers -> Waits], [WaitNext]_waitVars
  PROVE  [Next]_vars
<1>1. CASE OtherStep
  BY <1>1 DEF OtherStep, Next
<1>2. ASSUME NEW c \in Callers, NEW b \in Blocks, NEW n \in {Number[x] : x \in Blocks},
             WaitForFinality(c, b, n)
      PROVE  [Next]_vars
  BY <1>2 DEF WaitForFinality, Next
<1>3. ASSUME NEW c \in Callers, WaitStep(c)
      PROVE  [Next]_vars
  <2>1. CASE WakeUp(c)
    <3>1. IsFinal(c, wait[c].block, wait[c].number)
      BY <2>1 DEF WakeUp
    <3>2. wait[c].block \in Blocks /\ wait[c].number \in {Number[x] : x \in Blocks}
      BY DEF Waits
    <3>. QED  BY <3>1, <3>2 DEF Next
  <2>2. CASE CallStep(c)
    BY <2>2 DEF Next
  <2>3. CASE UNCHANGED vars
    BY <2>3
  <2>. QED  BY <1>3, <2>1, <2>2, <2>3
            DEF WaitStep, EvaluationStep, FoundFinal, FailWait, TimeOut, Sleep, EndWait
<1>4. ASSUME NEW c \in Callers, TimeoutElapses(c)
      PROVE  [Next]_vars
  BY <1>4 DEF TimeoutElapses
<1>5. CASE UNCHANGED waitVars
  BY <1>5 DEF waitVars
<1>. QED  BY <1>1, <1>2, <1>3, <1>4, <1>5 DEF WaitNext

LEMMA WaitInvStep ==
  ASSUME WaitInv, TypeOK', [WaitNext]_waitVars
  PROVE  WaitInv'
<1> USE DEF WaitInv
<1>0. \A d \in Callers : wait[d] \in Waits /\ OneWaitInv(d)
  OBVIOUS
<1> SUFFICES ASSUME NEW d \in Callers
             PROVE  wait' \in [Callers -> Waits] /\ OneWaitInv(d)'
  <2>1. CASE Callers = {}
    BY <2>1 DEF WaitNext, OtherStep, waitVars
  <2>2. CASE Callers # {}
    BY <2>2
  <2>. QED  BY <2>1, <2>2
<1>2. ASSUME wait' = wait, call'[d] = call[d]
      PROVE  wait' \in [Callers -> Waits] /\ OneWaitInv(d)'
  BY <1>0, <1>2 DEF OneWaitInv
<1>3. CASE OtherStep
  <2>1. CASE call'[d] = call[d]
    BY <1>2, <1>3, <2>1 DEF OtherStep
  <2>2. CASE wait[d].at = "idle"
    BY <1>3, <2>2 DEF OtherStep, OneWaitInv
  <2>3. ASSUME NEW c \in Callers, c # d, CallStep(c)
        PROVE  call'[d] = call[d]
    BY <2>3, CallKeepsBlock
  <2>4. ASSUME NEW c \in Callers, c # d, NEW b, NEW n, IsFinal(c, b, n)
        PROVE  call'[d] = call[d]
    BY <2>4 DEF IsFinal, TypeOK, FinalityTypeOK
  <2>. QED  BY <1>3, <2>1, <2>2, <2>3, <2>4
            DEF OtherStep, ChainStep, HandleAuthoritySetUpdate, ReplaceVoterSet, finalityVars
<1>4. ASSUME NEW c \in Callers, NEW b \in Blocks, NEW n \in {Number[x] : x \in Blocks},
             WaitForFinality(c, b, n)
      PROVE  wait' \in [Callers -> Waits] /\ OneWaitInv(d)'
  <2> DEFINE ripe == Ripe(b)
             started == [NoWait EXCEPT !.at = "evaluating", !.block = b, !.number = n,
                                       !.ripe = ripe]
  <2>1. ripe \in BOOLEAN
    BY SMT DEF Ripe
  <2>2. wait' = [wait EXCEPT ![c] = started] /\ IsFinal(c, b, n)
    BY <1>4 DEF WaitForFinality
  <2>. HIDE DEF ripe
  <2>3. started \in Waits /\ started.at = "evaluating" /\ started.block = b
    BY <2>1, TreeAssumption DEF Waits, NoWait
  <2>. HIDE DEF started
  <2>4. call'[c].block = b /\ \A x \in Callers \ {c} : call'[x] = call[x]
    BY <2>2 DEF IsFinal, NoCall, TypeOK, FinalityTypeOK
  <2>5. CASE d = c
    BY <2>2, <2>3, <2>4, <2>5 DEF OneWaitInv
  <2>6. CASE d # c
    BY <1>0, <2>2, <2>3, <2>4, <2>6 DEF OneWaitInv
  <2>. QED  BY <2>5, <2>6
<1>5. ASSUME NEW c \in Callers, EvaluationStep(c)
      PROVE  wait' \in [Callers -> Waits] /\ OneWaitInv(d)'
  <2>1. wait' = wait /\ CallStep(c) /\ wait[c].at = "evaluating"
    BY <1>5 DEF EvaluationStep
  <2>2. CASE d # c
    BY <1>2, <2>1, <2>2, CallKeepsBlock
  <2>3. CASE d = c
    <3>1. call'[d].block = call[d].block
      BY <2>1, <2>3, CallKeepsBlock
    <3>. QED  BY <1>0, <2>1, <2>3, <3>1 DEF OneWaitInv
  <2>. QED  BY <2>2, <2>3
<1>6. ASSUME NEW c \in Callers, NEW result \in {"ok", "timeout", "error"}, EndWait(c, result)
      PROVE  wait' \in [Callers -> Waits] /\ OneWaitInv(d)'
  <2>1. call' = call
    BY <1>6 DEF EndWait, vars, finalityVars
  <2>2. [wait[c] EXCEPT !.at = "idle", !.result = result] \in Waits
    BY <1>0 DEF Waits
  <2>3. wait' = [wait EXCEPT ![c] = [wait[c] EXCEPT !.at = "idle", !.result = result]]
    BY <1>6 DEF EndWait
  <2>4. CASE d # c
    BY <1>0, <2>1, <2>2, <2>3, <2>4 DEF OneWaitInv
  <2>5. CASE d = c
    <3>1. wait'[d].at = "idle"
      BY <1>0, <2>3, <2>5 DEF Waits
    <3>. QED  BY <2>2, <2>3, <3>1 DEF OneWaitInv
  <2>. QED  BY <2>4, <2>5
<1>7. ASSUME NEW c \in Callers, FoundFinal(c) \/ FailWait(c) \/ TimeOut(c)
      PROVE  wait' \in [Callers -> Waits] /\ OneWaitInv(d)'
  BY <1>6, <1>7 DEF FoundFinal, FailWait, TimeOut
<1>8. ASSUME NEW c \in Callers, Sleep(c) \/ TimeoutElapses(c)
      PROVE  wait' \in [Callers -> Waits] /\ OneWaitInv(d)'
  <2>1. call' = call
    BY <1>8 DEF Sleep, TimeoutElapses, vars, finalityVars
  <2>2. CASE Sleep(c)
    <3>1. wait' = [wait EXCEPT ![c] = [wait[c] EXCEPT !.at = "sleeping"]] /\ call[c].at = "idle"
      BY <2>2 DEF Sleep, Evaluated
    <3>2. [wait[c] EXCEPT !.at = "sleeping"] \in Waits
      BY <1>0 DEF Waits
    <3>. QED  BY <1>0, <2>1, <3>1, <3>2 DEF OneWaitInv, Waits
  <2>3. CASE TimeoutElapses(c)
    <3>1. wait' = [wait EXCEPT ![c] = [wait[c] EXCEPT !.elapsed = TRUE]]
      BY <2>3 DEF TimeoutElapses
    <3>2. [wait[c] EXCEPT !.elapsed = TRUE] \in Waits
      BY <1>0 DEF Waits
    <3>. QED  BY <1>0, <2>1, <3>1, <3>2 DEF OneWaitInv, Waits
  <2>. QED  BY <1>8, <2>2, <2>3
<1>9. ASSUME NEW c \in Callers, WakeUp(c)
      PROVE  wait' \in [Callers -> Waits] /\ OneWaitInv(d)'
  <2> DEFINE ripe == Ripe(wait[c].block)
             woken == [wait[c] EXCEPT !.at = "evaluating", !.ripe = ripe]
  <2>1. ripe \in BOOLEAN
    BY SMT DEF Ripe
  <2>2. wait' = [wait EXCEPT ![c] = woken] /\ IsFinal(c, wait[c].block, wait[c].number)
    BY <1>9 DEF WakeUp
  <2>. HIDE DEF ripe
  <2>3. woken \in Waits /\ woken.at = "evaluating" /\ woken.block = wait[c].block
    BY <1>0, <2>1 DEF Waits
  <2>. HIDE DEF woken
  <2>4. call'[c].block = wait[c].block /\ \A x \in Callers \ {c} : call'[x] = call[x]
    BY <2>2 DEF IsFinal, NoCall, TypeOK, FinalityTypeOK
  <2>5. CASE d = c
    BY <1>0, <2>2, <2>3, <2>4, <2>5 DEF OneWaitInv
  <2>6. CASE d # c
    BY <1>0, <2>2, <2>3, <2>4, <2>6 DEF OneWaitInv
  <2>. QED  BY <2>5, <2>6
<1>10. CASE UNCHANGED waitVars
  BY <1>2, <1>10 DEF waitVars, vars, finalityVars
<1>. QED
  BY <1>3, <1>4, <1>5, <1>7, <1>8, <1>9, <1>10 DEF WaitNext, WaitStep

LEMMA WaitInvariant == WaitSpec => []WaitInv
<1>1. WaitInit => WaitInv
  <2> SUFFICES ASSUME WaitInit PROVE WaitInv
    OBVIOUS
  <2>1. TypeOK
    BY TypeInit DEF WaitInit
  <2>2. NoWait \in Waits
    BY TreeAssumption DEF NoWait, Waits
  <2>. QED  BY <2>1, <2>2 DEF WaitInit, WaitInv, OneWaitInv, NoWait
<1>2. WaitInv /\ [WaitNext]_waitVars => TypeOK'
  BY WaitIsPredicateStep, TypeStep DEF WaitInv
<1>3. WaitInv /\ TypeOK' /\ [WaitNext]_waitVars => WaitInv'
  BY WaitInvStep
<1>. QED  BY <1>1, <1>2, <1>3, PTL DEF WaitSpec

\* In every reachable state the variables have their types, and a task that sleeps
\* has no evaluation running.
THEOREM WaitTypeInvariant == WaitSpec => []WaitTypeOK
<1>1. WaitInv => WaitTypeOK
  BY DEF WaitInv, OneWaitInv, WaitTypeOK
<1>. QED  BY <1>1, WaitInvariant, PTL

-----------------------------------------------------------------------------
(* What holds of the predicate holds while tasks wait.                      *)

\* With tasks that wait, the predicate behaves as without them: whatever is proved
\* of GrandpaFinality alone is true of it here.
THEOREM WaitsUseThePredicate == WaitSpec => Spec
<1>1. WaitInit => Init
  BY DEF WaitInit
<1>2. WaitInv /\ [WaitNext]_waitVars => [Next]_vars
  BY WaitIsPredicateStep DEF WaitInv
<1>. QED  BY <1>1, <1>2, WaitInvariant, PTL DEF WaitSpec, Spec

\* So the promise of the predicate holds for tasks that wait, too: under the
\* conditions of ImplementsGadgetHolds they ask an abstract gadget.
THEOREM WaitsKeepThePromise ==
  ASSUME ConfigIsStrict
  PROVE  WaitSpec /\ [][VotersKept]_voter_set => ImplementsGadget
BY WaitsUseThePredicate, ImplementsGadgetHolds, PTL

\* The blocks that waits ended with Ok for are buried.
OkBuried == \A c \in Callers : wait[c].result = "ok" => IsBuried(wait[c].block)

\* Of all steps, only the end of a wait touches its result and no running wait
\* changes its block.
LEMMA OkBuriedStep ==
  ASSUME WaitInv, BuriedInv, OkBuried, [WaitNext]_waitVars
  PROVE  OkBuried'
<1> SUFFICES ASSUME NEW d \in Callers, wait'[d].result = "ok"
             PROVE  IsBuried(wait[d].block)'
  BY DEF OkBuried, IsBuried
<1>1. \A c \in Callers : wait[c] \in Waits /\ OneWaitInv(c)
  BY DEF WaitInv
<1>2. ASSUME wait'[d].block = wait[d].block, IsBuried(wait[d].block)
      PROVE  IsBuried(wait[d].block)'
  <2>1. PICK b \in Blocks : b = wait[d].block
    BY <1>1 DEF Waits
  <2>2. IsBuried(b)'
    BY <1>2, <2>1, WaitIsPredicateStep, StaysBuried DEF WaitInv
  <2>. QED  BY <1>2, <2>1, <2>2 DEF IsBuried
<1>3. ASSUME wait'[d].block = wait[d].block, wait'[d].result = wait[d].result
      PROVE  IsBuried(wait[d].block)'
  BY <1>2, <1>3 DEF OkBuried
<1>4. ASSUME NEW c \in Callers, NEW x, wait' = [wait EXCEPT ![c] = x],
             x.result = "ok" =>
               x.block = wait[c].block /\ IsBuried(wait[c].block)
      PROVE  IsBuried(wait[d].block)'
  <2>1. wait'[c] = x /\ \A e \in Callers \ {c} : wait'[e] = wait[e]
    BY <1>4 DEF WaitInv
  <2>2. CASE d = c
    BY <1>2, <1>4, <2>1, <2>2
  <2>3. CASE d # c
    BY <1>3, <2>1, <2>3
  <2>. QED  BY <2>2, <2>3
<1>5. ASSUME NEW c \in Callers, NEW b \in Blocks, NEW n, WaitForFinality(c, b, n)
      PROVE  IsBuried(wait[d].block)'
  <2> DEFINE x == [NoWait EXCEPT !.at = "evaluating", !.block = b, !.number = n, !.ripe = Ripe(b)]
  <2>1. wait' = [wait EXCEPT ![c] = x] /\ x.result = "none"
    BY <1>5 DEF WaitForFinality, NoWait
  <2>. HIDE DEF x
  <2>. QED  BY <1>4, <2>1
<1>6. ASSUME NEW c \in Callers, FoundFinal(c)
      PROVE  IsBuried(wait[d].block)'
  <2>1. /\ wait' = [wait EXCEPT ![c] = [wait[c] EXCEPT !.at = "idle", !.result = "ok"]]
        /\ wait[c].at = "evaluating" /\ call[c].verdict = "final"
    BY <1>6 DEF FoundFinal, Evaluated, EndWait
  <2>2. IsBuried(wait[c].block)
    BY <1>1, <2>1 DEF BuriedInv, CallInv, OneWaitInv
  <2>3. [wait[c] EXCEPT !.at = "idle", !.result = "ok"].block = wait[c].block
    BY <1>1 DEF Waits
  <2>. QED  BY <1>4, <2>1, <2>2, <2>3
<1>7. ASSUME NEW c \in Callers, NEW result \in {"timeout", "error"}, EndWait(c, result)
      PROVE  IsBuried(wait[d].block)'
  <2> DEFINE x == [wait[c] EXCEPT !.at = "idle", !.result = result]
  <2>1. wait' = [wait EXCEPT ![c] = x] /\ x.result # "ok"
    BY <1>1, <1>7 DEF EndWait, Waits
  <2>. HIDE DEF x
  <2>. QED  BY <1>4, <2>1
<1>8. ASSUME NEW c \in Callers, Sleep(c) \/ WakeUp(c) \/ TimeoutElapses(c)
      PROVE  IsBuried(wait[d].block)'
  <2>1. PICK x : /\ wait' = [wait EXCEPT ![c] = x]
                 /\ x.block = wait[c].block /\ x.result = wait[c].result
    BY <1>1, <1>8 DEF Sleep, WakeUp, TimeoutElapses, Waits
  <2>. QED  BY <1>4, <2>1 DEF OkBuried
<1>9. CASE UNCHANGED wait
  BY <1>3, <1>9
<1>. QED  BY <1>5, <1>6, <1>7, <1>8, <1>9
          DEF WaitNext, WaitStep, OtherStep, EvaluationStep, FailWait, TimeOut, waitVars

\* With a strict configuration, Ok is said of buried blocks only, in every
\* reachable state.
THEOREM OkIsBuriedHolds == ASSUME ConfigIsStrict PROVE WaitSpec => []OkIsBuried
<1>1. WaitInit => OkBuried
  BY DEF WaitInit, NoWait, OkBuried
<1>2. WaitInv /\ BuriedInv /\ OkBuried /\ [WaitNext]_waitVars => OkBuried'
  BY OkBuriedStep
<1>3. OkBuried => OkIsBuried
  BY DEF OkBuried, IsBuried, OkIsBuried
<1>. QED  BY <1>1, <1>2, <1>3, WaitInvariant, WaitsUseThePredicate, BuriedInvariant, PTL
          DEF WaitSpec

-----------------------------------------------------------------------------
(* A timeout is about a block that was not ripe.                            *)

\* An evaluation that began when the block was ripe gets no `false`, unless the
\* block is too old by then.
RipeInv(c) ==
  /\ wait[c].at = "evaluating" /\ wait[c].ripe => Undeniable(c)
  /\ wait[c].at # "idle" => wait[c].result # "timeout"
  /\ wait[c].result = "timeout" => ~ wait[c].ripe \/ TooOld(wait[c].block)

\* A wait that neither begins an evaluation nor ends with a timeout.
LEMMA RipeStable ==
  ASSUME [ChainNext]_chainVars, NEW c \in Callers, RipeInv(c),
         wait'[c].ripe = wait[c].ripe, wait'[c].block = wait[c].block,
         wait'[c].result = wait[c].result,
         wait'[c].at # "idle" => wait[c].at # "idle",
         wait'[c].at = "evaluating" => wait[c].at = "evaluating",
         wait[c].at = "evaluating" /\ Undeniable(c) => Undeniable(c)'
  PROVE  RipeInv(c)'
<1>1. wait'[c].ripe <=> wait[c].ripe
  BY Zenon
<1>2. TooOld(wait[c].block) => TooOld(wait[c].block)'
  <2>1. PICK b : b = wait[c].block
    OBVIOUS
  <2>2. TooOld(b) => TooOld(b)'
    BY TooOldStays
  <2>. QED  BY <2>1, <2>2 DEF TooOld
<1>. QED  BY <1>1, <1>2 DEF RipeInv

\* An evaluation begins.
LEMMA EvaluationIsRipe ==
  ASSUME WaitInv, NEW c \in Callers, NEW b \in Blocks, NEW n, NEW x, IsFinal(c, b, n),
         wait' = [wait EXCEPT ![c] = x],
         x.ripe => Ripe(b), x.result # "timeout"
  PROVE  /\ RipeInv(c)'
         /\ \A d \in Callers \ {c} : wait'[d] = wait[d] /\ call'[d] = call[d]
<1>1. Ripe(b) => Undeniable(c)'
  BY RipeIsUndeniable DEF WaitInv
<1>2. wait'[c] = x /\ \A d \in Callers \ {c} : wait'[d] = wait[d]
  BY DEF WaitInv
<1>3. \A d \in Callers \ {c} : call'[d] = call[d]
  BY DEF IsFinal, WaitInv, TypeOK, FinalityTypeOK
<1>4. wait'[c].ripe => x.ripe
  BY <1>2, Zenon
<1>. QED  BY <1>1, <1>2, <1>3, <1>4 DEF RipeInv

LEMMA RipeWaitStep ==
  ASSUME VotersKept, WaitInv, ReadsInv, TypeOK', \A c \in Callers : RipeInv(c),
         [WaitNext]_waitVars
  PROVE  \A c \in Callers : RipeInv(c)'
<1> SUFFICES ASSUME NEW d \in Callers
             PROVE  RipeInv(d)'
  OBVIOUS
<1> USE DEF WaitInv
<1>0. [ChainNext]_chainVars
  BY WaitIsPredicateStep, PredicateChainStep
<1>1. ASSUME wait'[d] = wait[d], call'[d] = call[d] \/ wait[d].at = "idle"
      PROVE  RipeInv(d)'
  <2>1. wait[d].at = "evaluating" /\ Undeniable(d) => Undeniable(d)'
    BY <1>0, <1>1, UndeniableStable
  <2>. QED  BY <1>0, <1>1, <2>1, RipeStable
<1>2. CASE OtherStep
  <2>1. wait' = wait
    BY <1>2 DEF OtherStep
  <2>2. ASSUME NEW c \in Callers, c # d, CallStep(c)
        PROVE  call'[d] = call[d]
    BY <2>2, CallKeepsBlock
  <2>3. ASSUME NEW c \in Callers, c # d, NEW b, NEW n, IsFinal(c, b, n)
        PROVE  call'[d] = call[d]
    BY <2>3 DEF IsFinal, TypeOK, FinalityTypeOK
  <2>4. call'[d] = call[d] \/ wait[d].at = "idle"
    BY <1>2, <2>2, <2>3 DEF OtherStep, ChainStep, HandleAuthoritySetUpdate, ReplaceVoterSet, finalityVars
  <2>. QED  BY <1>1, <2>1, <2>4
<1>3. ASSUME NEW c \in Callers, NEW b \in Blocks, NEW n, WaitForFinality(c, b, n)
      PROVE  RipeInv(d)'
  <2> DEFINE ripe == Ripe(b)
             x == [NoWait EXCEPT !.at = "evaluating", !.block = b, !.number = n, !.ripe = ripe]
  <2>1. wait' = [wait EXCEPT ![c] = x] /\ IsFinal(c, b, n) /\ (ripe => Ripe(b))
    BY <1>3 DEF WaitForFinality
  <2>. HIDE DEF ripe
  <2>2. x.ripe = ripe /\ x.result # "timeout"
    BY DEF NoWait
  <2>. HIDE DEF x
  <2>3. x.ripe => ripe
    BY <2>2, Zenon
  <2>4. /\ RipeInv(c)'
        /\ \A e \in Callers \ {c} : wait'[e] = wait[e] /\ call'[e] = call[e]
    BY <2>1, <2>2, <2>3, EvaluationIsRipe
  <2>. QED  BY <1>1, <2>4
<1>4. ASSUME NEW c \in Callers, WakeUp(c)
      PROVE  RipeInv(d)'
  <2> DEFINE ripe == Ripe(wait[c].block)
             x == [wait[c] EXCEPT !.at = "evaluating", !.ripe = ripe]
  <2>1. /\ wait' = [wait EXCEPT ![c] = x] /\ IsFinal(c, wait[c].block, wait[c].number)
        /\ (ripe => Ripe(wait[c].block)) /\ wait[c].at = "sleeping"
    BY <1>4 DEF WakeUp
  <2>. HIDE DEF ripe
  <2>2. x.ripe = ripe /\ x.result = wait[c].result /\ wait[c].block \in Blocks
    BY DEF Waits
  <2>. HIDE DEF x
  <2>3. x.result # "timeout"
    BY <2>1, <2>2 DEF RipeInv
  <2>4. x.ripe => ripe
    BY <2>2, Zenon
  <2>5. /\ RipeInv(c)'
        /\ \A e \in Callers \ {c} : wait'[e] = wait[e] /\ call'[e] = call[e]
    BY <2>1, <2>2, <2>3, <2>4, EvaluationIsRipe
  <2>. QED  BY <1>1, <2>5
<1>5. ASSUME NEW c \in Callers, EvaluationStep(c)
      PROVE  RipeInv(d)'
  <2>1. wait' = wait /\ CallStep(c)
    BY <1>5 DEF EvaluationStep
  <2>2. CASE c = d
    BY <1>0, <2>1, <2>2, UndeniableStep, RipeStable
  <2>3. CASE c # d
    BY <1>1, <2>1, <2>3, CallKeepsBlock
  <2>. QED  BY <2>2, <2>3
<1>6. ASSUME NEW c \in Callers, NEW result, EndWait(c, result),
             result = "timeout" => ~ wait[c].ripe \/ TooOld(wait[c].block)
      PROVE  RipeInv(d)'
  <2> DEFINE x == [wait[c] EXCEPT !.at = "idle", !.result = result]
  <2>1. wait' = [wait EXCEPT ![c] = x] /\ call' = call /\ imported' = imported
    BY <1>6 DEF EndWait, vars, finalityVars, chainVars
  <2>2. x.at = "idle" /\ x.result = result /\ x.ripe = wait[c].ripe
        /\ x.block = wait[c].block
    BY DEF Waits
  <2>. HIDE DEF x
  <2>3. CASE c = d
    <3>1. wait'[d] = x
      BY <2>1, <2>3
    <3>2. wait'[d].ripe => wait[d].ripe
      BY <2>2, <2>3, <3>1, Zenon
    <3>3. TooOld(wait[c].block) => TooOld(wait[d].block)'
      BY <2>1, <2>2, <2>3, <3>1 DEF TooOld
    <3>. QED  BY <1>6, <2>2, <2>3, <3>1, <3>2, <3>3 DEF RipeInv
  <2>4. CASE c # d
    BY <1>1, <2>1, <2>4
  <2>. QED  BY <2>3, <2>4
<1>7. ASSUME NEW c \in Callers, FoundFinal(c) \/ FailWait(c)
      PROVE  RipeInv(d)'
  BY <1>6, <1>7 DEF FoundFinal, FailWait
<1>8. ASSUME NEW c \in Callers, TimeOut(c)
      PROVE  RipeInv(d)'
  <2>1. ~ wait[c].ripe \/ TooOld(wait[c].block)
    BY <1>8 DEF TimeOut, Evaluated, RipeInv, Undeniable, OneWaitInv
  <2>. QED  BY <1>6, <1>8, <2>1 DEF TimeOut
<1>9. ASSUME NEW c \in Callers, Sleep(c) \/ TimeoutElapses(c)
      PROVE  RipeInv(d)'
  <2>1. call' = call /\ wait[c].at # "idle"
    BY <1>9 DEF Sleep, Evaluated, TimeoutElapses, vars, finalityVars
  <2>2. PICK x : /\ wait' = [wait EXCEPT ![c] = x]
                 /\ x = [wait[c] EXCEPT !.at = "sleeping"] \/ x = [wait[c] EXCEPT !.elapsed = TRUE]
    BY <1>9 DEF Sleep, TimeoutElapses
  <2>3. /\ x.ripe = wait[c].ripe /\ x.result = wait[c].result /\ x.block = wait[c].block
        /\ x.at = "sleeping" \/ x.at = wait[c].at
    BY <2>2 DEF Waits
  <2>4. CASE c = d
    <3>1. wait'[d] = x
      BY <2>2, <2>4
    <3>2. Undeniable(d) => Undeniable(d)'
      BY <1>0, <2>1, UndeniableStable
    <3>. QED  BY <1>0, <2>1, <2>3, <2>4, <3>1, <3>2, RipeStable
  <2>5. CASE c # d
    BY <1>1, <2>1, <2>2, <2>5
  <2>. QED  BY <2>4, <2>5
<1>10. CASE UNCHANGED waitVars
  BY <1>1, <1>10 DEF waitVars, vars, finalityVars
<1>. QED  BY <1>2, <1>3, <1>4, <1>5, <1>7, <1>8, <1>9, <1>10 DEF WaitNext, WaitStep

\* With a strict configuration and a voter set that stays, a wait ends with a timeout only
\* if its block was not ripe when the last evaluation was due, or is more than
\* max_fork_depth below a block that the client knows.
THEOREM TimeoutMeansUnripeHolds ==
  ASSUME ConfigIsStrict
  PROVE  WaitSpec /\ [][VotersKept]_voter_set => []TimeoutMeansUnripe
<1> DEFINE RipeInvs == \A c \in Callers : RipeInv(c)
<1>1. WaitInit => RipeInvs
  BY DEF WaitInit, NoWait, RipeInv
<1>2. WaitInv /\ WaitInv' /\ ReadsInv /\ RipeInvs /\ [WaitNext]_waitVars
        /\ [VotersKept]_voter_set => RipeInvs'
  BY RipeWaitStep DEF WaitInv, VotersKept
<1>3. RipeInvs => TimeoutMeansUnripe
  BY DEF RipeInv, TimeoutMeansUnripe
<1>. HIDE DEF RipeInvs
<1>. QED  BY <1>1, <1>2, <1>3, WaitInvariant, WaitsUseThePredicate, ReadsInvariant, PTL
          DEF WaitSpec
=============================================================================
