------------------------------ MODULE SSMPPallet ------------------------------
(***************************************************************************)
(* The pallet (src/lib.rs): register_watch_target writes a target to the    *)
(* storage of the block that is executed and to the list of an observer     *)
(* that lives in the process, outside of any block.                         *)
(*                                                                          *)
(* Blocks are executed natively, some by several threads of the node at a   *)
(* time, to build or to import them.  The storage of a block counts only if *)
(* the block becomes the best one; the observer, in the static OBSERVERS,   *)
(* sees every execution and forgets everything when the process starts.     *)
(***************************************************************************)
EXTENDS Integers, Sequences

CONSTANTS
  Executors,          \* the threads that execute blocks
  Targets,            \* the watch targets submitted
  NamedTargets,       \* those with a module name and a function name
  VoterSetAnswers,    \* what VoterSet::new may say of an empty list: TRUE, a voter set
  MaxPushes,          \* bound: the pushes to the observer's list
  MaxStarts           \* bound: the starts of the process

ASSUME PalletAssumption ==
  /\ NamedTargets \subseteq Targets
  /\ VoterSetAnswers \subseteq BOOLEAN
  /\ MaxPushes \in Nat
  /\ MaxStarts \in Nat \ {0}

VARIABLES
  storage,      \* WatchTargets in the state of the best block
  exec,         \* [Executors -> Executions]
  observers,    \* OBSERVERS: nothing yet, an observer, or a poisoned lock
  watched,      \* watch_targets of the observer
  accepts,      \* the library: does VoterSet::new accept an empty list?
  starts,       \* history: how often the process has started
  panics        \* history: how often on_initialize has panicked

vars == <<storage, exec, observers, watched, accepts, starts, panics>>

\* An execution of a block: its storage, and whether its calls are being applied.
Executions == [at : {"idle", "calls"}, work : SUBSET NamedTargets]
NoExecution == [at |-> "idle", work |-> {}]

TypeOK ==
  /\ storage \in SUBSET NamedTargets
  /\ exec \in [Executors -> Executions]
  /\ observers \in {"empty", "ready", "poisoned"}
  /\ watched \in Seq(NamedTargets)
  /\ accepts \in VoterSetAnswers
  /\ starts \in 1 .. MaxStarts
  /\ panics \in Nat

Init ==
  /\ storage = {}
  /\ exec = [e \in Executors |-> NoExecution]
  /\ observers = "empty"
  /\ watched = <<>>
  /\ accepts \in VoterSetAnswers
  /\ starts = 1
  /\ panics = 0

-----------------------------------------------------------------------------
\* The block is begun on the state of the best one; its calls come next.
StartCalls(e) ==
  exec' = [exec EXCEPT ![e] = [at |-> "calls", work |-> storage]]

\* Variation: the poisoned lock is taken like any other.
PanicOnInitializeAgain(e) ==
  /\ exec[e].at = "idle"
  /\ observers \in {"empty", "poisoned"} /\ ~ accepts
  /\ observers' = "poisoned"
  /\ panics' = panics + 1
  /\ UNCHANGED <<storage, exec, watched, accepts, starts>>

\* on_initialize, with no observer in OBSERVERS: ensure_observer creates one
\* under the write lock, and SSMPObserver::new panics if an empty list makes no
\* voter set.  The block is given up; the lock, held by a panic, is poisoned.
PanicOnInitialize(e) ==
  /\ exec[e].at = "idle"
  /\ observers = "empty" /\ ~ accepts
  /\ observers' = "poisoned"
  /\ panics' = panics + 1
  /\ UNCHANGED <<storage, exec, watched, accepts, starts>>

\* Variation: without an observer the hook does not let the block through.
OnInitializeOrGiveUp(e) ==
  /\ exec[e].at = "idle"
  /\ observers = "ready" \/ (observers = "empty" /\ accepts)
  /\ observers' = "ready"
  /\ StartCalls(e)
  /\ UNCHANGED <<storage, watched, accepts, starts, panics>>

\* on_initialize, with an observer, with one it can create, or with a poisoned
\* lock, whose error ensure_observer turns into None and on_initialize drops.
OnInitialize(e) ==
  /\ exec[e].at = "idle"
  /\ observers = "empty" => accepts
  /\ observers' = IF observers = "empty" THEN "ready" ELSE observers
  /\ StartCalls(e)
  /\ UNCHANGED <<storage, watched, accepts, starts, panics>>

\* observer.register_watch_target, if observer() returns one.
Push(e, target) ==
  IF observers = "ready"
  THEN Len(watched) < MaxPushes /\ watched' = Append(watched, target)
  ELSE UNCHANGED watched

\* Variation: the names are not looked at.
RegisterAnyTarget(e, target) ==
  /\ exec[e].at = "calls"
  /\ exec' = [exec EXCEPT ![e].work = @ \cup {target}]
  /\ Push(e, target)
  /\ UNCHANGED <<storage, observers, accepts, starts, panics>>

\* register_watch_target: a target without a module or function name is an
\* error and changes nothing.
RegisterWatchTarget(e, target) ==
  /\ exec[e].at = "calls"
  /\ target \in NamedTargets
  /\ exec' = [exec EXCEPT ![e].work = @ \cup {target}]
  /\ Push(e, target)
  /\ UNCHANGED <<storage, observers, accepts, starts, panics>>

\* The executed block becomes the best one.
KeepBlock(e) ==
  /\ exec[e].at = "calls"
  /\ storage' = exec[e].work
  /\ exec' = [exec EXCEPT ![e] = NoExecution]
  /\ UNCHANGED <<observers, watched, accepts, starts, panics>>

\* The executed block is not imported, or stays beside the best chain.
DropBlock(e) ==
  /\ exec[e].at = "calls"
  /\ exec' = [exec EXCEPT ![e] = NoExecution]
  /\ UNCHANGED <<storage, observers, watched, accepts, starts, panics>>

\* The process ends and starts again, with the state of the best block and
\* without OBSERVERS.
Restart ==
  /\ starts < MaxStarts
  /\ starts' = starts + 1
  /\ exec' = [e \in Executors |-> NoExecution]
  /\ observers' = "empty"
  /\ watched' = <<>>
  /\ UNCHANGED <<storage, accepts, panics>>

Next ==
  \/ \E e \in Executors :
       \/ PanicOnInitialize(e)
       \/ OnInitialize(e)
       \/ \E target \in Targets : RegisterWatchTarget(e, target)
       \/ KeepBlock(e)
       \/ DropBlock(e)
  \/ Restart

Spec == Init /\ [][Next]_vars

\* A node whose block fails goes on trying to build and to import blocks.
FairSpec ==
  Spec /\ \A e \in Executors : WF_vars(PanicOnInitialize(e) \/ OnInitialize(e))

-----------------------------------------------------------------------------
\* A panic in the hook that runs in every block is met once per process, not in
\* every block (src/lib.rs:227).
OnePanicPerProcess == panics <= starts

\* And so the chain goes on: a thread that is to execute a block gets past
\* on_initialize in the end, whether or not there is an observer (src/lib.rs:154).
BlocksAreExecuted ==
  \A e \in Executors : exec[e].at = "idle" ~> exec[e].at = "calls"

-----------------------------------------------------------------------------
(* What comments of the source say of the pallet.                           *)

\* src/lib.rs:152 "Initialize observer if needed": the calls of a block find an
\* observer to register their targets with.
ObserverIsInitialized ==
  \A e \in Executors : exec[e].at = "calls" => observers = "ready"
=============================================================================
