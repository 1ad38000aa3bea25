--------------------------- MODULE SSMPPalletProofs ---------------------------
(***************************************************************************)
(* Theorems about SSMPPallet, for any number of threads, targets and starts *)
(* and either answer of the library.                                        *)
(***************************************************************************)
EXTENDS SSMPPallet, TLAPS

\* The counters are numbers and the lock has one of its three states.
CountersOK ==
  /\ starts \in Nat
  /\ panics \in Nat
  /\ observers \in {"empty", "ready", "poisoned"}

\* A process whose OBSERVERS is still empty has not panicked: its start is not
\* used up by a panic.
PanicsInv ==
  /\ CountersOK
  /\ panics <= starts
  /\ observers = "empty" => panics < starts

LEMMA PanicsInit == Init => PanicsInv
BY DEF Init, PanicsInv, CountersOK

LEMMA PanicsStep == PanicsInv /\ [Next]_vars => PanicsInv'
<1> SUFFICES ASSUME PanicsInv, [Next]_vars
             PROVE  PanicsInv'
    OBVIOUS
<1> USE DEF PanicsInv, CountersOK
<1>1. ASSUME NEW e \in Executors, PanicOnInitialize(e)
      PROVE  PanicsInv'
    BY <1>1 DEF PanicOnInitialize
<1>2. ASSUME NEW e \in Executors, OnInitialize(e)
      PROVE  PanicsInv'
    BY <1>2 DEF OnInitialize
<1>3. ASSUME NEW e \in Executors, NEW target \in Targets, RegisterWatchTarget(e, target)
      PROVE  PanicsInv'
    BY <1>3 DEF RegisterWatchTarget
<1>4. ASSUME NEW e \in Executors, KeepBlock(e)
      PROVE  PanicsInv'
    BY <1>4 DEF KeepBlock
<1>5. ASSUME NEW e \in Executors, DropBlock(e)
      PROVE  PanicsInv'
    BY <1>5 DEF DropBlock
<1>6. CASE Restart
    BY <1>6 DEF Restart
<1>7. CASE UNCHANGED vars
    BY <1>7 DEF vars
<1> QED
    BY <1>1, <1>2, <1>3, <1>4, <1>5, <1>6, <1>7 DEF Next

\* The panic of SSMPObserver::new under the lock (src/lib.rs:227) happens at most
\* once in the life of a process, however many blocks are executed at a time.
THEOREM OnePanicPerProcessHolds == Spec => []OnePanicPerProcess
<1>1. PanicsInv => OnePanicPerProcess
    BY DEF PanicsInv, OnePanicPerProcess
<1> QED
    BY PanicsInit, PanicsStep, <1>1, PTL DEF Spec

-----------------------------------------------------------------------------
(* Type correctness.                                                        *)

LEMMA TypeStep == TypeOK /\ [Next]_vars => TypeOK'
<1> SUFFICES ASSUME TypeOK, [Next]_vars
             PROVE  TypeOK'
    OBVIOUS
<1> USE DEF TypeOK, Executions, NoExecution
<1>1. ASSUME NEW e \in Executors, PanicOnInitialize(e)
      PROVE  TypeOK'
    BY <1>1 DEF PanicOnInitialize
<1>2. ASSUME NEW e \in Executors, OnInitialize(e)
      PROVE  TypeOK'
    BY <1>2 DEF OnInitialize, StartCalls
<1>3. ASSUME NEW e \in Executors, NEW target \in Targets, RegisterWatchTarget(e, target)
      PROVE  TypeOK'
  <2>1. target \in NamedTargets /\ watched \in Seq(NamedTargets)
      BY <1>3 DEF RegisterWatchTarget
  <2>2. watched' \in Seq(NamedTargets)
    <3>1. watched' = Append(watched, target) \/ watched' = watched
        BY <1>3 DEF RegisterWatchTarget, Push
    <3> QED
        BY <2>1, <3>1
  <2>3. exec' \in [Executors -> Executions]
      BY <1>3, <2>1 DEF RegisterWatchTarget
  <2> QED
      BY <1>3, <2>2, <2>3 DEF RegisterWatchTarget
<1>4. ASSUME NEW e \in Executors, KeepBlock(e)
      PROVE  TypeOK'
    BY <1>4 DEF KeepBlock
<1>5. ASSUME NEW e \in Executors, DropBlock(e)
      PROVE  TypeOK'
    BY <1>5 DEF DropBlock
<1>6. CASE Restart
    BY <1>6, PalletAssumption DEF Restart
<1>7. CASE UNCHANGED vars
    BY <1>7 DEF vars
<1> QED
    BY <1>1, <1>2, <1>3, <1>4, <1>5, <1>6, <1>7 DEF Next

\* In every reachable state the variables have their types: nothing without a
\* module and a function name gets into the storage, a block or the list.
THEOREM PalletTypeInvariant == Spec => []TypeOK
<1>1. Init => TypeOK
    BY PalletAssumption DEF Init, TypeOK, NoExecution, Executions
<1> QED
    BY <1>1, TypeStep, PTL DEF Spec

-----------------------------------------------------------------------------
\* There is no observer to hand a target to.
NothingIsWatched == observers # "ready" /\ watched = <<>>

\* Where VoterSet::new refuses the empty list, as the finality-grandpa of Cargo.toml
\* does, the pallet never has an observer: whatever is registered, by any number of
\* blocks and after any restart, is never watched (src/lib.rs:227).
THEOREM RefusedVoterSetWatchesNothing ==
  ASSUME VoterSetAnswers = {FALSE}
  PROVE  Spec => []NothingIsWatched
<1> DEFINE Inv == NothingIsWatched /\ accepts = FALSE
<1>1. Init => Inv
    BY DEF Init, NothingIsWatched
<1>2. Inv /\ [Next]_vars => Inv'
    BY DEF Next, vars, NothingIsWatched, PanicOnInitialize, OnInitialize, RegisterWatchTarget,
           Push, KeepBlock, DropBlock, Restart
<1> QED
    BY <1>1, <1>2, PTL DEF Spec
=============================================================================
