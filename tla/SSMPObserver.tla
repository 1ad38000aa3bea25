----------------------------- MODULE SSMPObserver -----------------------------
(***************************************************************************)
(* SSMPObserver and SSMPWorker (src/observer/mod.rs): a finality            *)
(* notification is checked with is_final, the watch targets are copied, and *)
(* for each target that an event of the block matches a proof is generated  *)
(* and, with a router, a message routed.                                    *)
(*                                                                          *)
(* The worker handles the notifications of its stream one after another;    *)
(* other tasks enter the same handler through on_block_finalized.  Every    *)
(* handler runs its own is_final, a `call` of module GrandpaFinality.       *)
(***************************************************************************)
EXTENDS GrandpaFinality, SequencesExt

CONSTANTS
  Worker,       \* the task of SSMPWorker; the other Callers call on_block_finalized
  Names,        \* byte strings that events contain and targets look for
  Empty,        \* the empty byte string
  NoHash,       \* message_hash = None
  Targets,      \* the watch targets that can be registered
  Events,       \* [Blocks -> Seq(SUBSET Names)], the events of each block
  HasRouter,    \* whether the observer has a message_router
  MaxTargets    \* bound: the number of registrations

WatchTarget == [module_name   : Names \cup {Empty},
                function_name : Names \cup {Empty},
                message_hash  : Names \cup {Empty, NoHash}]

ASSUME ObserverAssumption ==
  /\ Worker \in Callers
  /\ Targets \subseteq WatchTarget
  /\ Events \in [Blocks -> Seq(SUBSET Names)]
  /\ HasRouter \in BOOLEAN
  /\ MaxTargets \in Nat

VARIABLES
  watch_targets,  \* RwLock<Vec<WatchTarget>>
  stream,         \* the notifications the worker has not taken yet
  handling,       \* [Callers -> Handlings], the notification of each task
  routed          \* history: the <<block, target>> pairs handed to the router

observerVars == <<watch_targets, stream, handling, routed>>
allVars == <<vars, observerVars>>

-----------------------------------------------------------------------------
\* generic_event_match: names and hash are searched in the bytes of the event,
\* and `windows` of length zero panics, that of the hash only if both names are
\* in the event.
EventMatch(event, target) ==
  CASE Empty \in {target.module_name, target.function_name}     -> "panic"
    [] Empty \notin {target.module_name, target.function_name}
       /\ ~ {target.module_name, target.function_name} \subseteq event -> "no_match"
    [] OTHER -> IF target.message_hash = Empty THEN "panic"
                ELSE IF target.message_hash \in event \cup {NoHash} THEN "match"
                ELSE "no_match"

\* matches_watch_target: the first event that does not fail to match decides.
BlockMatch(b, target) ==
  LET outcome(i) == EventMatch(Events[b][i], target)
      deciding == {i \in DOMAIN Events[b] : outcome(i) # "no_match"}
  IN  IF deciding = {} THEN "no_match"
      ELSE outcome(CHOOSE i \in deciding : \A j \in deciding : i <= j)

-----------------------------------------------------------------------------
(* A notification being handled: where the handler is, the block, the copy  *)
(* of the targets, the index of the next one, and how the handler returned. *)
(* History: how many targets were registered when it was entered and whether *)
(* the block was ripe then, and the indices it has finished a proof and a    *)
(* message for.                                                             *)
Stages == {"idle", "is_final", "targets", "proof", "route", "dead"}
Results == {"none", "ok", "error"}

Handlings == [at : Stages, block : Blocks, targets : Seq(Targets), next : Nat,
              registered : Nat, ripe : BOOLEAN, served : SUBSET Nat, result : Results]

NoHandling == [at |-> "idle", block |-> Genesis, targets |-> <<>>, next |-> 1,
               registered |-> 0, ripe |-> FALSE, served |-> {}, result |-> "none"]

ObserverTypeOK ==
  /\ TypeOK
  /\ watch_targets \in Seq(Targets)
  /\ stream \in Seq(Blocks)
  /\ handling \in [Callers -> Handlings]
  /\ routed \in SUBSET (Blocks \X Targets)

ObserverInit ==
  /\ Init
  /\ watch_targets = <<>>
  /\ stream = <<>>
  /\ handling = [c \in Callers |-> NoHandling]
  /\ routed = {}

-----------------------------------------------------------------------------
\* The chain goes on; the client notifies the worker of each finalized block it
\* is told of, not of the blocks in between.
ImportStep ==
  /\ \E b \in Blocks : ImportBlock(b)
  /\ UNCHANGED <<finalityVars, observerVars>>

FinalizeStep ==
  /\ \E b \in Blocks : FinalizeBlock(b) /\ stream' = Append(stream, b)
  /\ UNCHANGED <<finalityVars, watch_targets, handling, routed>>

AuthorityStep ==
  /\ \E list \in AuthorityLists : HandleAuthoritySetUpdate(list)
  /\ UNCHANGED observerVars

\* register_watch_target: a push, whatever is in the vector already.
RegisterWatchTarget(target) ==
  /\ Len(watch_targets) < MaxTargets
  /\ watch_targets' = Append(watch_targets, target)
  /\ UNCHANGED <<vars, stream, handling, routed>>

\* handle_finality_notification is entered and calls is_final.
Handle(c, b, n) ==
  /\ handling[c].at = "idle"
  /\ handling' = [handling EXCEPT ![c] = [NoHandling EXCEPT !.at = "is_final", !.block = b,
                             !.registered = Len(watch_targets), !.ripe = Ripe(b)]]
  /\ IsFinal(c, b, n)
  /\ UNCHANGED <<watch_targets, routed>>

\* run_with_finality_stream takes the next notification.
NextNotification ==
  /\ stream # <<>>
  /\ Handle(Worker, Head(stream), Number[Head(stream)])
  /\ stream' = Tail(stream)

\* on_block_finalized, for any block reference.
OnBlockFinalized(c, b, n) ==
  /\ c # Worker
  /\ Handle(c, b, n)
  /\ UNCHANGED stream

\* A step of the is_final a handler waits for.
IsFinalStep(c) ==
  /\ handling[c].at = "is_final"
  /\ CallStep(c)
  /\ UNCHANGED observerVars

\* Variation: the worker's loop ends with an error, too.
ReturnAndStopOnError(c, result) ==
  /\ handling' = [handling EXCEPT ![c].at = IF result = "error" THEN "dead" ELSE "idle",
                                  ![c].result = result]
  /\ UNCHANGED <<vars, watch_targets, stream, routed>>

\* The handler returns; the worker logs an error and takes the next notification.
ReturnFromHandler(c, result) ==
  /\ handling' = [handling EXCEPT ![c].at = "idle", ![c].result = result]
  /\ UNCHANGED <<vars, watch_targets, stream, routed>>

\* is_final says `false`, which is a success, or fails.
NotFinal(c) ==
  /\ handling[c].at = "is_final" /\ call[c].at = "idle"
  /\ call[c].verdict \in {"not_final", "error"}
  /\ ReturnFromHandler(c, IF call[c].verdict = "error" THEN "error" ELSE "ok")

\* Variation: whatever is_final says, unless it fails, the targets are served.
CloneTargetsUnlessError(c) ==
  /\ handling[c].at = "is_final" /\ call[c].at = "idle"
  /\ call[c].verdict # "error"
  /\ handling' = [handling EXCEPT ![c].at = "targets", ![c].targets = watch_targets]
  /\ UNCHANGED <<vars, watch_targets, stream, routed>>

\* is_final says `true`: the targets are cloned under the read lock.
CloneTargets(c) ==
  /\ handling[c].at = "is_final" /\ call[c].at = "idle"
  /\ call[c].verdict = "final"
  /\ handling' = [handling EXCEPT ![c].at = "targets", ![c].targets = watch_targets]
  /\ UNCHANGED <<vars, watch_targets, stream, routed>>

\* Variation: the loop stops one target early.
LastTargetLeftOut(c) ==
  /\ handling[c].at = "targets" /\ handling[c].next >= Len(handling[c].targets)
  /\ ReturnFromHandler(c, "ok")

\* The loop is through.
AllTargetsDone(c) ==
  /\ handling[c].at = "targets" /\ handling[c].next > Len(handling[c].targets)
  /\ ReturnFromHandler(c, "ok")

\* The events of the block are fetched and matched with the next target.
Match(c, outcome) ==
  /\ handling[c].at = "targets" /\ handling[c].next <= Len(handling[c].targets)
  /\ outcome = BlockMatch(handling[c].block, handling[c].targets[handling[c].next])

SkipTarget(c) ==
  /\ Match(c, "no_match")
  /\ handling' = [handling EXCEPT ![c].next = @ + 1]
  /\ UNCHANGED <<vars, watch_targets, stream, routed>>

MatchTarget(c) ==
  /\ Match(c, "match")
  /\ handling' = [handling EXCEPT ![c].at = "proof"]
  /\ UNCHANGED <<vars, watch_targets, stream, routed>>

\* A panic ends the task of the handler.
PanicInMatch(c) ==
  /\ Match(c, "panic")
  /\ handling' = [handling EXCEPT ![c].at = "dead"]
  /\ UNCHANGED <<vars, watch_targets, stream, routed>>

\* The target is served and the loop goes on behind it.
Serve(c) ==
  handling' = [handling EXCEPT ![c].at = "targets", ![c].next = @ + 1,
                               ![c].served = @ \cup {handling[c].next}]

\* generate_proof answers with a proof, which is routed if there is a router.
GenerateProof(c) ==
  /\ handling[c].at = "proof"
  /\ IF HasRouter THEN handling' = [handling EXCEPT ![c].at = "route"] ELSE Serve(c)
  /\ UNCHANGED <<vars, watch_targets, stream, routed>>

\* route_message accepts the message.
RouteMessage(c) ==
  /\ handling[c].at = "route"
  /\ routed' = routed \cup {<<handling[c].block, handling[c].targets[handling[c].next]>>}
  /\ Serve(c)
  /\ UNCHANGED <<vars, watch_targets, stream>>

\* Variation: the loop goes on behind a target that fails.
FailAndContinue(c) ==
  /\ \/ handling[c].at = "targets" /\ handling[c].next <= Len(handling[c].targets)
     \/ handling[c].at \in {"proof", "route"}
  /\ handling' = [handling EXCEPT ![c].at = "targets", ![c].next = @ + 1]
  /\ UNCHANGED <<vars, watch_targets, stream, routed>>

\* The runtime API, the proof generator or the router fails: `?` gives up the
\* target and all targets behind it.
FailTarget(c) ==
  /\ \/ handling[c].at = "targets" /\ handling[c].next <= Len(handling[c].targets)
     \/ handling[c].at \in {"proof", "route"}
  /\ ReturnFromHandler(c, "error")

HandlerStep(c) ==
  \/ IsFinalStep(c)
  \/ NotFinal(c)
  \/ CloneTargets(c)
  \/ AllTargetsDone(c)
  \/ SkipTarget(c)
  \/ MatchTarget(c)
  \/ PanicInMatch(c)
  \/ GenerateProof(c)
  \/ RouteMessage(c)
  \/ FailTarget(c)

ObserverNext ==
  \/ ImportStep
  \/ FinalizeStep
  \/ AuthorityStep
  \/ \E target \in Targets : RegisterWatchTarget(target)
  \/ NextNotification
  \/ \E c \in Callers :
       \/ \E b \in Blocks, n \in {Number[x] : x \in Blocks} : OnBlockFinalized(c, b, n)
       \/ HandlerStep(c)

ObserverSpec == ObserverInit /\ [][ObserverNext]_allVars

\* The runtime polls the worker's task as long as it can go on; what it awaits
\* answers, with a success or an error.
ObserverFairSpec ==
  ObserverSpec /\ WF_allVars(NextNotification \/ HandlerStep(Worker))

-----------------------------------------------------------------------------
\* Whatever was routed is about a block that is still min_confirmations deep
\* below the finalized one, although is_final was asked long before, about a
\* target that is registered and that an event of the block matches
\* (src/observer/mod.rs:335-363).
RoutedIsBuried ==
  \A message \in routed :
    LET b == message[1]
        target == message[2]
    IN  /\ Number[b] + MinConfirmations <= Number[finalized]
        /\ \E i \in DOMAIN watch_targets : watch_targets[i] = target
        /\ BlockMatch(b, target) = "match"

Matching(c, targets) ==
  {i \in DOMAIN targets : BlockMatch(handling[c].block, targets[i]) = "match"}

\* A handler that found its block final and returned without an error has served
\* every matching target of its copy once, and the copy holds every target
\* registered before the handler was entered, whatever was registered since
\* (src/observer/mod.rs:339-365).
OkServesEveryTarget ==
  \A c \in Callers :
    handling[c].result = "ok" /\ call[c].verdict = "final" =>
      /\ handling[c].served = Matching(c, handling[c].targets)
      /\ handling[c].registered <= Len(handling[c].targets)
      /\ IsPrefix(handling[c].targets, watch_targets)

\* A target is served only when all matching targets registered before it have
\* been: an error leaves the later targets without a message, never an earlier
\* one (src/observer/mod.rs:345).
ServedInOrder ==
  \A c \in Callers : \A i \in handling[c].served :
    \A j \in Matching(c, handling[c].targets) : j < i => j \in handling[c].served

\* The task of the handler was ended by its target: one with an empty message hash,
\* which registration accepts (src/lib.rs:173) and `windows` panics on
\* (src/observer/mod.rs:459).
PanickedInMatch(c) ==
  /\ handling[c].at = "dead"
  /\ handling[c].next \in DOMAIN handling[c].targets
  /\ BlockMatch(handling[c].block, handling[c].targets[handling[c].next]) = "panic"

\* Every notification of the stream is handled to the end some day: one that fails
\* does not stop the worker (src/observer/mod.rs:545-549).  Nothing stops it but a
\* target that makes the matching panic.
EveryNotificationIsHandled ==
  \A b \in Blocks :
    (\E i \in DOMAIN stream : stream[i] = b) ~>
      \/ PanickedInMatch(Worker)
      \/ /\ handling[Worker].block = b
         /\ handling[Worker].at = "idle"
         /\ handling[Worker].result \in {"ok", "error"}

\* README.md:5 "Upon finality, it triggers the generation of cryptographic
\* proofs", as far as it goes: a block that was ripe when its handler was entered,
\* that the chain has not left more than max_fork_depth behind, and whose handler
\* returned without an error, has been proved and routed for every matching target
\* that was registered then.  Any other block is dropped without an error, and
\* nothing retries it (src/observer/mod.rs:335).
RipeBlocksAreProved ==
  \A c \in Callers :
    handling[c].result = "ok" /\ handling[c].ripe /\ ~ TooOld(handling[c].block) =>
      \A i \in Matching(c, watch_targets) :
        i <= handling[c].registered => i \in handling[c].served
=============================================================================
