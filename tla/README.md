# SSMP in TLA+

Specifications, model-checking runs and proofs for the SSMP pallet
(`src/src/`): a Substrate pallet with which users register *watch targets*, and
an observer that, for every finalized block whose events match a target,
generates a proof and routes it to a target chain. Paths below are relative to
the repository (`finality/mod.rs` is `src/src/finality/mod.rs`).

    tlc -workers 2 -config Finality.cfg MCGrandpaFinality.tla
    tlapm GrandpaFinalityProofs.tla

## 1. Inventory

| component | code | state | operations | talks to |
|---|---|---|---|---|
| blockchain client | external (`sp_blockchain`) | imported headers, best and finalized block, justifications | `header`, `info`, `justifications` | read by the finality predicate, the generators and the observer |
| finality predicate | `finality/mod.rs` 211-407, 461-998 | voter set behind a lock, configuration; per call: what it has read | `is_final`, `handle_authority_set_update` | reads the client several times per call; called by the observer and by whoever waits |
| finality waiting | `finality/mod.rs` 385-403 | per wait: when it began | `wait_for_finality` | calls `is_final` again and again |
| voter set updates and status cache | `finality/mod.rs` 269-321, 499-540, 608-641, 723-806 | two voter sets, one behind a lock; the cache behind another | `new_from_runtime`, `update_authorities_from_runtime`, `handle_authority_set_change`, `get_finality_status_cached` | reads the client and the runtime with no lock held |
| authority set manager | `finality/mod.rs` 73-174 | set in force, queue of changes, last finalized number | `schedule_change`, `process_finalized_block` | nobody calls it yet |
| observer and worker | `observer/mod.rs` | list of watch targets behind a lock; per notification: copy of the targets and position in it | `register_watch_target`, `handle_finality_notification`, `on_block_finalized`, `run_with_finality_stream` | `is_final`, runtime API `events`, proof generator, router |
| watch target pallet | `lib.rs` | `WatchTargets` in the chain's storage, the static `OBSERVERS` in the process | `on_initialize`, `register_watch_target`, `ensure_observer` | creates the observer and writes to its list |
| proof generation | `proof/generator.rs` | none | `generate_proof` of the Merkle and the BLS generator | client, observer |
| router adapter | `routing/mod.rs` | inner router behind an asynchronous lock | `route_message`, `update_topology`, ... | observer |
| proof verification | `verification/mod.rs` | list of verifiers | `register_verifier`, `verify_proof` | nobody: not part of the crate |
| FROST pallet | `pallet/mod.rs` | transitions, proofs, messages, latest block | `record_transition`, `generate_proof`, `verify_message` | nobody: not part of the crate |
| wrappers, runtime API, mocks, tests | the rest | none | | |

What is hard about it, and what each component must get right:

* **Finality predicate.** One verdict is put together from up to eight reads of
  a client and a voter set that others move meanwhile, and the status is read
  twice, for the confidence and for the chain rules. A verdict of *final* must
  be about a block that is buried under the finalized one, must rest on signed
  evidence, and must not be taken back.
* **Waiting.** The clock is looked at between two evaluations only, and one
  evaluation takes as long as the client takes. A wait must end, an `Ok` must be
  about a buried block, and the clock must not win against an answer that was there.
* **Voter set updates and cache.** What is read is written later, under a lock taken
  afterwards, while others do the same and time passes. No update may leave a voter
  set in force that is no one's, and no status, however late it was written, may
  claim more than the chain has finalized. `get_finality_status_cached` is private and
  has no caller in the crate: what is said of the cache is said of it as it is written.
* **Authority set manager.** Finality skips and repeats block numbers. No change
  may be lost or applied twice or out of order, and an old set id must not come back.
* **Observer.** The worker and other tasks are in the same handler at a time,
  for possibly the same block, while targets are registered. Any of its calls may
  fail in the middle of the list. What is routed must be about a final block; a
  handler that returns `Ok` must have served everything; an error must not end
  the worker.
* **Pallet.** The storage belongs to a block, the observer to a process: blocks
  are executed and dropped, several threads execute at a time, processes restart,
  and a panic under the lock of `OBSERVERS` poisons it for good.
* **Proof generation.** The two headers are read one after the other while the
  chain grows. The Merkle root must depend on every byte of the data, the last,
  shorter chunk included; and an error must mean that there is something wrong
  with the request, or with the client.

Every such place is a row of `hazards` in `PROJECT.json`, at its line.

## 2. Modules

| module | models | shape |
|---|---|---|
| `SubstrateClient` | the client, as the code reads it | external; the block tree is a constant, `ImportBlock` and `FinalizeBlock` move the client through it |
| `FinalityRules` | weights, participation, status, confidence, refusals | EXTENDS `SubstrateClient`; operators only |
| `GrandpaFinality` | `is_final` and all it calls, `handle_authority_set_update` | EXTENDS `FinalityRules`; `call[c]` is the running call of a task: the read it does next, its phase, what it has read, its verdict |
| `FinalityGadget` | what a caller of `is_final` may rely on | abstract: one question is decided in one moment; `GrandpaFinality` implements it |
| `FinalityWait` | `wait_for_finality` | EXTENDS `GrandpaFinality`: every evaluation is a call of `is_final`, step by step, while others call it too |
| `VoterSetUpdates` | creation from the runtime, and replacements of the voter set | EXTENDS `FinalityRules`; reading a list and writing the voter set are two steps |
| `FinalityCache` | `get_finality_status_cached` | EXTENDS `VoterSetUpdates`: one action per read, one for what happens under the write lock |
| `SSMPObserver` | observer and worker | EXTENDS `GrandpaFinality`: every handler runs its own `is_final`, step by step, between its own steps |
| `AuthoritySetManager` | the manager | one action per method |
| `SSMPPallet` | the pallet, the observer singleton, executions and restarts | one action per hook or call, per fate of a block, and for a restart |
| `ProofGeneration` | `generate_proof` of the Merkle and the BLS generator | EXTENDS `SubstrateClient` and `ProofData`; one action per read of the client, and one per kind of proof |
| `ProofData` | what the generators compute: supported types, leaves, root | operators only |
| `MC...` | instances for TLC | block trees, justifications, targets, lists |
| `...Proofs` | theorems about the module of that name | see section 4 |

### How the state corresponds to the code

*Calls of `is_final`.* `IsFinal` is the entry; `VerifyBlockHash`, `ReadInfo`,
`ReadJustification` are the client's answers in the order of the source; the voter
set is read by `verify_justification` when the status is complete, so the four
actions on a complete status (`LowConfidence`, `HighConfidence`,
`FewConfirmations`, `EnoughConfirmations`) read `voter_set` themselves, and
`CheckDepthAndParticipation` reads `info` for the last time. `FailRead` is any `?`
on an error of the client. The header of a block stays readable once it has been
imported, so the later reads of a header are not steps. History, which no step of the
code depends on, are `declared`, the field `known`, and `in_force`: the voter
sets that were in force while a task's call ran, which `ReplaceVoterSet` adds to.
`Ripe(b)` and `TooOld(b)` belong to the properties: a block has nothing left to wait
for, being buried, with a justification that suffices or none; and a known block is
more than `max_fork_depth` above it.

*The gadget.* `height` is the finalized number; a call that runs is a question
`pending`, its verdict the answer; `sure` is the history field `known`, that
the block was declared final before the call began. A read is a stutter, and so is
an import that leaves no block too old; the step that decides a verdict is `Affirm`,
`Deny` or `Fail`. `aged` are the blocks that the chain has left more than
`max_fork_depth` behind: the gadget vouches for them no longer.

*Waits.* `wait[c]` is the running or last wait of a task: it evaluates, sleeps two
seconds or is idle. `elapsed` is set once by `TimeoutElapses`, at any moment, and
looked at by `TimeOut` and `Sleep`, after an evaluation that said *not final*. The
history field `ripe` is `Ripe` of the block when the last evaluation was due.

*Voter set updates.* `created` is how far `new_from_runtime` has come: the
client object, then the predicate with its own copy, made from the best block of
that moment. `update[u]` lies between the read of a list and the write under the
lock.

*The cache.* `lookup[l]` is a task in `get_finality_status_cached`: the read it
does next and what it has read. An entry holds a status and an age in ticks, up
to `KeepFor`, beyond which the code tells no two ages apart. The age counts from the
moment the lock is obtained, as in the code, and not from the reads. `WriteToCache` is
the whole critical section of the write lock: the insertion and `retain`.

*Numbers.* The fractions of the code are `f64`; the model has hundredths, rounded
down, which keeps every comparison with the thresholds 0.67 and 0.95 for the
instances' weights. A weight is a number of *units*, so that sums of weights are
cardinalities of sets of units: this is what makes the sum provable without
recursion. `MaxU64` bounds a sum where the code saturates and where
`VoterSet::new` refuses a list.

*The voter set.* `VoterSet`, `IsVoterSet` are finality-grandpa's: authorities of
weight zero do not count, and there is no set without a voter or above the
range of u64.

*Observer.* `handling[c]` is the notification a task handles: `at` names the
await it is at. The client's notification of a finalized block is appended to
`stream` with `FinalizeBlock`. Events are sets of the byte strings they contain,
which is all `generic_event_match` asks of them; a search for an empty string
panics (`windows(0)`). Generator and router answer with a success or an error at
any time. `new` cannot succeed (see the findings), so the observer starts in the
state of `new_with_runtime_authorities`.

*Proof generation.* `request[r]` is the running or last request of a task. `Root`
is the root of the tree that `rs_merkle` builds on the chunks, with an arbitrary hash
of two nodes (`Hash`). The chunks are the leaves as they are, unhashed
(`generator.rs:102`), so that a chunk may be what two others hash to: data `A || B` and
data `H(A || B)` have one root, whatever the hash. An encoded proof has a length per generator,
compared with a limit that is part of the request. `ObserverTransition` is the
transition the observer builds.

*Pallet.* An execution works on a copy of the best block's storage; `KeepBlock`
makes it the best block's, `DropBlock` forgets it. `ensure_observer` is one step,
since it holds the write lock throughout. What finality-grandpa says of an empty
list is a choice made once (`accepts`): the release Cargo.toml asks for says no,
a comment in the code says yes, and what is claimed to hold is claimed of both.

## 3. Runs

| run | properties | what it shows |
|---|---|---|
| `Finality` | `TypeOK`, `FinalIsBuried`, `FinalityIrrevocable`, `ImplementsGadget` | verdicts of *final* are buried for ever and, with a voter set that does not change, never taken back until a known block is more than `max_fork_depth` above theirs; a call with all its reads looks like one question decided in one moment |
| `FinalityEvidence` | `FinalHasEvidence` | with a threshold of 60% a block above the finalized one can be declared final, and only on a justification that at least 67% of one voter set signed that was in force during the call, not of a mix of two; a voter that signs twice is the exception |
| `SetManager` | `TypeOK`, `AppliedInOrder`, `SetIdNeverGoesBack`, `OrderedChangesAreApplied`, `EveryChangeIsApplied` | the queue loses, repeats and reorders nothing; no call takes the set id back; nothing stays for ever |
| `Observer` | `ObserverTypeOK`, `RoutedIsBuried`, `OkServesEveryTarget`, `ServedInOrder`, `RipeBlocksAreProved` | the worker and a second task, with failing calls, panics and registrations in between: what is routed is buried, and no block that was ripe when it was notified, and is not too old, is dropped in silence |
| `ObserverLive` | `EveryNotificationIsHandled` | errors do not end the worker; a target with an empty message hash, which makes the matching panic, is the one thing that does |
| `Waiting` | `WaitTypeOK`, `OkIsBuried`, `TimeoutMeansUnripe`, `EveryWaitEnds` | a wait with retries, failing reads and a timer that may go off at any moment |
| `Verification` | `CacheTypeOK`, `AnswersDoNotOverstate`, `EntriesAreContemporary` | two tasks look statuses up through the cache while the voter set is replaced in two ways and the chain and the clock move |
| `Proofs` | `GenerationTypeOK`, `RootCommitsToData`, `OnlyDefectsAreRefused` | two tasks, both generators, imports and failing reads between the steps; the root tells data of equally many chunks apart, and refusals have a reason |
| `Pallet` | `TypeOK`, `OnePanicPerProcess`, `BlocksAreExecuted` | two threads, dropped blocks, restarts, and both answers of the library: without an observer the chain goes on |

Three runs have counterexamples; each disagrees with a line of the repository:

| run | line | the counterexample |
|---|---|---|
| `StaleForkFinal` | `finality/mod.rs:675` "Check if block is already finalized" | a block of an abandoned fork is declared final: only numbers are compared |
| `ForkDepthIsAge` | `finality/mod.rs:416` "Maximum allowed fork depth" | a finalized block of the best chain becomes *not final* when it is older than the depth; at 50 blocks, after five minutes of a chain with six-second blocks |
| `NoObserver` | `lib.rs:152` "Initialize observer if needed" | `SSMPObserver::new` panics in the first block, the lock is poisoned, and from the second block on targets are stored and announced with no observer |

Met while modelling and not given a run:

* A due change of the authority set waits behind a later one, against
  `finality/mod.rs:141` "Process any pending changes that should be activated"
  (`OrderedChangesAreApplied` has the premise that avoids it, `EveryChangeIsApplied`
  shows that it only waits).
* Two changes scheduled under one set get one id, so that the second replaces the
  list and not the id. `SetIdNeverGoesBack` is the promise that is left: it is true
  of this code and of one that numbers changes after the queue.
* A voter's two precommits in one commit count twice (`finality/mod.rs:572`), so
  that participation can exceed 1 and two of three voters pass for three. The instance
  of `FinalityEvidence` has such a justification, and `FinalHasEvidence`, which counts
  signers, names it as its exception (`SomeVoterSignsTwice`): without it the
  property is violated.
* 0.67 is more than 2/3: 69 of 103 equal voters, a supermajority to GRANDPA, are
  refused, against `finality/mod.rs:365` "2/3 validator participation required".
* A block is notified when it is finalized and has no confirmations yet; with
  `min_confirmations` above zero `is_final` denies it, the handler returns `Ok(())`
  (`observer/mod.rs:335`) and nothing asks again, against `README.md:5` "Upon
  finality, it triggers the generation of cryptographic proofs".
  `RipeBlocksAreProved` is what is left of that sentence.
* Only the newest finalized block is notified; events of the blocks finalized with
  it are never matched.
* An empty message hash passes the checks of `register_watch_target` and ends the
  handler's task with a panic (`observer/mod.rs:459`); when it is the worker, later
  notifications are never handled. `ObserverLive` has
  such a target, and `EveryNotificationIsHandled` names the panic as its exception.
* The leaves of the Merkle tree are not hashed (`generator.rs:102`), so that data of
  different numbers of chunks can have one root. `RootCommitsToData` compares data of
  equally many chunks; the instance of `Proofs` has two data of different numbers with
  one root, for which the property without that condition is violated.
* After a restart the targets in the storage are watched by nobody, and targets of
  dropped blocks stay in the observer's list (`lib.rs:223`, `:184`). With the library
  that Cargo.toml asks for there is no observer to see it with.
* The transition the observer builds has no source block and no data, so that the
  default generator refuses it for every target, as `OnlyDefectsAreRefused` says of
  every transition of that kind.

`FinalityIrrevocable`, `ImplementsGadget`, `TimeoutMeansUnripe` and
`RipeBlocksAreProved` are claimed while the voter set is not replaced by another:
justifications are measured with the voter set of the moment of the call, so that a
new set may deny a block its predecessor was satisfied with. Their instances offer one list
that makes a voter set, beside lists that make none and must change nothing.

### Bounds

* Block trees: a branch of three blocks and a fork of one. Three blocks are enough
  for a block to be declared final, buried deeper and measured against a fork
  depth; one fork is enough for a stale block with a known header. `FinalityEvidence`,
  `Observer` and `Waiting` use a branch of two.
* Three voters of weight one: with 67% a majority of two is just not enough.
  Lists that make no voter set (nobody of positive weight; too heavy) are offered
  to every update. `FinalityEvidence` lets the set change to a single voter and
  back, and has justifications of all voters, of two, of none that can be decoded, and
  of two with one of them twice.
* `Waiting`: a branch of two blocks and a fork of one, so that a block ripens under
  a wait, or never does; a justification that falls short of the participation, or
  none. One waiting task: waits share no state but the voter set; the theorems are
  for any number.
* `Verification`: the genesis block and one that changes the authorities; two
  tasks that look up (one writes late what the other has made newer), one that
  updates, and the predicate's caller, who replaces the voter set as well.
  `FreshFor` 1 and `KeepFor` 2 are the least ticks that tell fresh, stale and swept
  entries apart (5 and 30 seconds in the code). About 700,000 states, the tasks
  that look up taken for interchangeable, as all that is checked treats them alike.
* One call at a time in the finality runs: calls share only the history
  `declared`. The theorem about `FinalIsBuried` is for any number of callers, and
  the observer's runs have two.
* Fork depth 2 in `Finality`, one less than the tree is high, and 1 in `Waiting` and
  `Observer`: the genesis block gets too old and is denied again, the others do not, so
  that the exception of the properties and what they promise without it both occur.
* `MaxScheduled` changes (3) at block numbers 1 to 3 and two lists: every order of
  two due changes around a later one. `MaxTargets` registrations (2) of three
  targets. `MaxPushes` (4), `MaxStarts` (3) in the pallet, two threads.
* Proof generation: chunks of two bytes (32 in the code) and data of no byte, of a
  part of a chunk, of one, two and three chunks, differing in a byte, in the order of
  the chunks, in the length or only in zeros at the end, and one chunk that is the hash
  of two others; a hash without collisions on these; sizes at and above the limit. The
  two tasks are interchangeable.

### Fairness

* `ObserverFairSpec`: weak fairness of the worker's own steps. The runtime polls
  a task as long as it can go on; calls it awaits answer, with a success or an
  error. Nothing is assumed of other tasks, the chain or the authorities.
* `WaitFairSpec`: weak fairness of each task's `WaitStep` (the runtime polls a
  waiting task and wakes it from its sleep, the client answers, with a value or an
  error) and of `TimeoutElapses` (time passes). Finality itself may stop.
* `AuthoritySetManager`'s `FairSpec`: again and again a block at least as high as
  all scheduled changes is finalized: the chain's finality goes on. The manager
  has no thread of its own.
* `SSMPPallet`'s `FairSpec`: a node whose block fails goes on trying to build and
  import blocks. Nothing forces a block to be kept.

The other runs use no fairness. No run turns off deadlock checking: a client can
always be asked again, so no state is without a step.

## 4. Proofs

TLAPS checks these for every value of the constants, from the assumptions stated
with the constants (`TreeAssumption`, `ConfigAssumption`, `AuthorityAssumption`,
`ObserverAssumption`, `UpdatesAssumption`, `CacheAssumption` and the like). Three
further conditions are assumed by some theorems, and named there:

* `ConfigIsStrict`: the threshold is above 60% or there is at least one
  confirmation. The code's users set 0.95 or so; `FinalityEvidence` shows what a
  threshold of 60 lets through.
* `[][VotersKept]_voter_set`: the voter set is not replaced by another one. It is a
  hypothesis about the behaviour, not about the lists: other sets exist, and lists that
  make none are still refused. `OneVoterSetIsKept` proves it of the runs' instances,
  where all lists that make a voter set make the same one.
* `BaseIsTooLow`: the threshold is above 20%, the confidence a block has for free. With
  less, and no minimum of confirmations, a block nobody has signed is declared final.

Nothing is assumed of how high the chain grows, or of who signs how often: what
the fork depth and double votes do is in the properties, as their exceptions.

| theorem | of | conditions |
|---|---|---|
| `GrandpaFinalityProofs!TypeInvariant` | `TypeOK` | |
| `GrandpaFinalityProofs!FinalIsBuriedHolds` | `FinalIsBuried` | strict |
| `GrandpaFinalityProofs!FinalHasEvidenceHolds` | `FinalHasEvidence` | base too low |
| `GrandpaFinalityProofs!FinalityIrrevocableHolds` | `FinalityIrrevocable` | strict, voters kept |
| `GrandpaFinalityProofs!ImplementsGadgetHolds` | `ImplementsGadget` | strict, voters kept |
| `FinalityWaitProofs!WaitTypeInvariant` | `WaitTypeOK` | |
| `FinalityWaitProofs!WaitsUseThePredicate` | `WaitSpec => Spec` | |
| `FinalityWaitProofs!WaitsKeepThePromise` | `ImplementsGadget`, of waits | strict, voters kept |
| `FinalityWaitProofs!OkIsBuriedHolds` | `OkIsBuried` | strict |
| `FinalityWaitProofs!TimeoutMeansUnripeHolds` | `TimeoutMeansUnripe` | strict, voters kept |
| `FinalityCacheProofs!CacheTypeInvariant` | `CacheTypeOK` | |
| `FinalityCacheProofs!AnswersDoNotOverstateHolds` | `AnswersDoNotOverstate` | |
| `FinalityCacheProofs!EntriesAreContemporaryHolds` | `EntriesAreContemporary` | |
| `SSMPObserverProofs!ObserverTypeInvariant` | `ObserverTypeOK` | |
| `SSMPObserverProofs!ObserverUsesThePredicate` | `ObserverSpec => Spec` | |
| `SSMPObserverProofs!ObserverKeepsThePromise` | `ImplementsGadget`, of the handlers | strict, voters kept |
| `SSMPObserverProofs!ServedInOrderHolds` | `ServedInOrder` | |
| `SSMPObserverProofs!OkServesEveryTargetHolds` | `OkServesEveryTarget` | |
| `SSMPObserverProofs!RoutedIsBuriedHolds` | `RoutedIsBuried` | strict |
| `SSMPObserverProofs!RipeBlocksAreProvedHolds` | `RipeBlocksAreProved` | strict, voters kept |
| `AuthoritySetManagerProofs!TypeInvariant` | `TypeOK` | |
| `AuthoritySetManagerProofs!AppliedInOrderHolds` | `AppliedInOrder` | |
| `AuthoritySetManagerProofs!SetIdNeverGoesBackHolds` | `SetIdNeverGoesBack` | |
| `AuthoritySetManagerProofs!OrderedChangesAreAppliedHolds` | `OrderedChangesAreApplied` | |
| `ProofGenerationProofs!GenerationTypeInvariant` | `GenerationTypeOK` | |
| `ProofGenerationProofs!LeavesCommitToData` | equal leaves are of equal data, up to zeros at the end | |
| `ProofGenerationProofs!OnlyDefectsAreRefusedHolds` | `OnlyDefectsAreRefused` | |
| `ProofGenerationProofs!ObserverTransitionIsNeverProvedHolds` | the observer's transition is refused | |
| `SSMPPalletProofs!PalletTypeInvariant` | `TypeOK` | |
| `SSMPPalletProofs!OnePanicPerProcessHolds` | `OnePanicPerProcess` | |
| `SSMPPalletProofs!RefusedVoterSetWatchesNothing` | no target is ever watched | the library refuses the empty voter set |

The arguments:

* *Types.* The weights need the finiteness of sets of units, from which sums and
  participation rates are naturals (`FinalityRulesProofs`).
* *Buried.* `FinalIsBuried` is not inductive: the verdict is decided by the last
  step from a status read earlier. The invariant adds that what a call carries is
  a lower bound of the chain's height (`CallInv`: the finalized number it read is at
  most the present one, and a status that passed the confirmations is of a buried
  block, or of one that passed the threshold as finalized). Finalized numbers only
  grow, which carries all parts over every chain step.
* *Evidence.* A block that passes the confidence is finalized or justified, and the
  justification of a block above the finalized one does not change: the rules
  measure that one, under the voter set of their moment, which is in force during
  the call (`EvidenceInv`). What they add up, a share per precommit, is at most the
  weight of the signers, by an injection of the units that are counted into those of
  the voters, unless a voter signed twice: then the exception applies.
* *Irrevocable, and the gadget.* A block that is not above the finalized one gets
  no other justification, and while the voter set stays it is measured the same way for
  ever: it is `Settled`. A call about a settled, buried block is `Undeniable`: each of
  its later reads keeps it so, and it can decide *not final* only when the best block
  is beyond the fork depth, that is when the block is `TooOld`, as it then stays.
  `GadgetInv` says that declared blocks are settled and that a call that began after
  its block was declared is undeniable; the refinement follows step by step, with
  `Deny` the step that needs it and imports the steps of `Age`.
* *Waits and the observer.* Each of their steps is a step of the predicate or leaves
  it alone (`WaitIsPredicateStep`, `ObserverIsPredicateStep`), so that both
  specifications imply `Spec` and every theorem about the predicate, the refinement of
  the gadget included, is one about them. What they add: an evaluation, or a handler,
  whose block was ripe when it began runs an undeniable call (`RipeIsUndeniable`),
  so that neither the clock nor the early `Ok(())` can follow it while the block is not
  too old.
* *The observer's list.* The served targets of a handler are the matching ones below
  its position, and its copy is a prefix of the list, at least as long as what was
  registered when it was entered (`HandlingOK`).
* *The cache.* Whatever a lookup has read, put together or written is sound for what
  was finalized then, hence for what is finalized by now; updates only run once
  both objects exist, and every list that is about to be written makes a voter set.
  All ages grow at once, and each writer sweeps what is `KeepFor` older than its own
  entry.
* *The manager.* `AppliedInOrder` is inductive once typed, from associativity and
  splitting of sequences; `SetIdNeverGoesBack` needs `QueuedIds`: the ids in the queue
  are each the id in force or its successor and never decrease, whatever the order of
  their blocks. `OrderedChangesAreApplied`
  follows from `AppliedInOrder`: the queue is the end of what was scheduled, so that it
  is ordered if that is, and the first change not due has none due behind it.
* *Proof generation.* `RequestInv` says what a request has passed by the place it is
  at, which stays true as the client forgets no block: when a proof is built both blocks
  are known, hence not the default one. Every byte has one place in the
  chunks (`PlaceOfByte`, from the arithmetic of the rounded-up division), so that equal
  chunks have equal bytes (`LeavesCommitToData`), and just the empty data have none
  (`EmptyHasNoRoot`). The tree above the leaves is built by recursion over its height,
  so that `RootCommitsToData` itself is model-checked.
* *The pallet.* A process whose `OBSERVERS` is still empty has a start no panic has
  used up; and with a library that refuses the empty voter set it is never anything
  but empty or poisoned.

Every safety and every action property of the passing runs is a theorem, but
`RootCommitsToData`. Only model-checked are that one, the counterexamples and the
liveness properties
(`EveryChangeIsApplied`, `EveryNotificationIsHandled`, `EveryWaitEnds`,
`BlocksAreExecuted`): liveness under fairness is out of the prover's reach. No module with
theorems uses recursive operators; the ancestors of a block and the levels of a
Merkle tree are recursive functions: of the first the proofs use nothing but that steps
are guarded by it, of the second nothing.

## 5. Not modelled, and the plan

Not modelled for good:

* `verification/mod.rs` and `pallet/mod.rs` are not compiled into the crate (no `mod`
  declares them); the former's verifiers are placeholders that answer true, the
  latter is written against constructors of other signatures.
* The router adapter (`routing/mod.rs`) keeps nothing but the router it wraps:
  `update_topology`, the one call that takes the write lock, takes `&mut self`, so
  that Rust lets no other call of the adapter run beside it.
* Wrappers, the runtime API's declaration, mocks and tests hold no state of the
  system. Metrics and logs are left out everywhere, and so are the reads of the
  verification client that decide nothing (`get_current_set_id`, `get_block`,
  `verify_block_inclusion`).
* `GrandpaFinality.voter_set`, the second copy, is modelled up to its creation: no
  code reads or replaces it afterwards.

Stated by no property, although the steps are in the model:

* Of two updates of the voter set the older may be written last
  (`finality/mod.rs:623`), a late set of another number replaces a newer one
  (`:746`), and the predicate's own copy may be of another block than the client's
  (`:520`): the code has no order of voter sets that could be violated.
* A block handled by two handlers is routed twice (`observer/mod.rs:496`): the code
  promises no single delivery.

What could follow:

1. `SSMPObserver` composed with `ProofGeneration` in place of the generator that may
   answer anything. `ObserverTransitionIsNeverProvedHolds` says what comes of it with
   the default configuration: no proof is ever routed.
2. What is promised of blocks that are finalized together with a notified one.
3. Once the observer's creation is repaired: which registered targets it watches,
   across restarts and dropped blocks.
