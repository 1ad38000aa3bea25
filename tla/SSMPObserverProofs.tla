-------------------------- MODULE SSMPObserverProofs --------------------------
(***************************************************************************)
(* Theorems about SSMPObserver, for every tree of blocks and its events,    *)
(* any number of tasks that handle notifications and any registrations: the *)
(* type invariant, that targets are served in order and, without an error,  *)
(* all of them, that what is routed is about a buried block, and that no    *)
(* block is dropped that was ripe when it was notified and that the chain   *)
(* has not left too far behind.                                             *)
(***************************************************************************)
EXTENDS SSMPObserver, GrandpaFinalityProofs

\* The indices of the targets that block b matches.
MatchIn(b, targets) == {i \in DOMAIN targets : BlockMatch(b, targets[i]) = "match"}

\* The copy of a handler is what was registered when it was made, and at least
\* what was registered when the handler was entered.
Copied(h, registered) ==
  /\ h.registered <= Len(h.targets)
  /\ Len(h.targets) <= Len(registered)
  /\ \A i \in 1 .. Len(h.targets) : h.targets[i] = registered[i]

\* A handler h, the call k of is_final that it has made and the registered
\* targets: while it serves, its block is final; it has served what matches below
\* `next`.
HandlingOK(h, k, registered) ==
  /\ h \in Handlings /\ h.next >= 1
  /\ h.at # "is_final" => k.at = "idle"
  /\ h.at = "is_final" =>
       k.block = h.block /\ h.registered <= Len(registered) /\ h.next = 1
  /\ h.at \in {"targets", "proof", "route"} =>
       k.verdict = "final" /\ k.block = h.block /\ Copied(h, registered)
  /\ h.at \in {"proof", "route"} => h.next \in MatchIn(h.block, h.targets)
  /\ h.result # "none" => h.at = "idle"
  /\ h.result = "ok" /\ k.verdict = "final" =>
       h.next > Len(h.targets) /\ Copied(h, registered)
  /\ h.served = {i \in MatchIn(h.block, h.targets) : i < h.next}

\* What is routed is about a registered target that an event matches.
RoutedMatches ==
  /\ routed \in SUBSET (Blocks \X Targets)
  /\ \A message \in routed :
       /\ \E i \in DOMAIN watch_targets : watch_targets[i] = message[2]
       /\ BlockMatch(message[1], message[2]) = "match"

ObserverInv ==
  /\ TypeOK
  /\ watch_targets \in Seq(Targets)
  /\ stream \in Seq(Blocks)
  /\ handling \in [Callers -> Handlings]
  /\ \A c \in Callers : HandlingOK(handling[c], call[c], watch_targets)
  /\ RoutedMatches

-----------------------------------------------------------------------------
(* The observer changes the predicate by steps of the predicate.            *)

LEMMA ObserverIsPredicateStep ==
  ASSUME stream \in Seq(Blocks), [ObserverNext]_allVars
  PROVE  [Next]_vars
<1>1. CASE ImportStep
  BY <1>1 DEF ImportStep, Next, ChainStep, ChainNext
<1>2. CASE FinalizeStep
  BY <1>2 DEF FinalizeStep, Next, ChainStep, ChainNext
<1>3. CASE AuthorityStep
  BY <1>3 DEF AuthorityStep, Next
<1>4. ASSUME NEW target \in Targets, RegisterWatchTarget(target)
      PROVE  [Next]_vars
  BY <1>4 DEF RegisterWatchTarget
<1>5. CASE NextNotification
  <2>1. Head(stream) \in Blocks
    BY <1>5 DEF NextNotification
  <2>2. Number[Head(stream)] \in {Number[x] : x \in Blocks}
    BY <2>1
  <2>3. Worker \in Callers
    BY ObserverAssumption
  <2>4. IsFinal(Worker, Head(stream), Number[Head(stream)])
    BY <1>5 DEF NextNotification, Handle
  <2>. QED  BY <2>1, <2>2, <2>3, <2>4 DEF Next
<1>6. ASSUME NEW c \in Callers, NEW b \in Blocks, NEW n \in {Number[x] : x \in Blocks},
             OnBlockFinalized(c, b, n)
      PROVE  [Next]_vars
  BY <1>6 DEF OnBlockFinalized, Handle, Next
<1>7. ASSUME NEW c \in Callers, HandlerStep(c)
      PROVE  [Next]_vars
  <2>1. CASE CallStep(c)
    BY <2>1 DEF Next
  <2>. QED  BY <1>7, <2>1
            DEF HandlerStep, IsFinalStep, NotFinal, CloneTargets, AllTargetsDone, SkipTarget,
                MatchTarget, PanicInMatch, GenerateProof, RouteMessage, FailTarget,
                ReturnFromHandler
<1>8. CASE UNCHANGED allVars
  BY <1>8 DEF allVars
<1>. QED  BY <1>1, <1>2, <1>3, <1>4, <1>5, <1>6, <1>7, <1>8 DEF ObserverNext

-----------------------------------------------------------------------------
(* The handlers.                                                            *)

\* Registering more targets disturbs no handler.
LEMMA RegisterKeeps ==
  ASSUME NEW h, NEW k, NEW ts \in Seq(Targets), NEW target \in Targets, HandlingOK(h, k, ts)
  PROVE  HandlingOK(h, k, Append(ts, target))
<1>1. h.targets \in Seq(Targets) /\ h.registered \in Nat
  BY DEF HandlingOK, Handlings
<1>2. /\ Len(Append(ts, target)) = Len(ts) + 1
      /\ \A i \in 1 .. Len(ts) : Append(ts, target)[i] = ts[i]
  OBVIOUS
<1>3. Copied(h, ts) => Copied(h, Append(ts, target))
  BY <1>1, <1>2 DEF Copied
<1>4. h.registered <= Len(ts) => h.registered <= Len(Append(ts, target))
  BY <1>1, <1>2
<1>. QED  BY <1>3, <1>4 DEF HandlingOK

\* A handler that takes a step leaves the others and their calls alone.
LEMMA HandlerKeeps ==
  ASSUME ObserverInv, [ObserverNext]_allVars, NEW c \in Callers, NEW x, NEW k,
         handling' = [handling EXCEPT ![c] = x], call'[c] = k,
         \A d \in Callers \ {c} : call'[d] = call[d],
         UNCHANGED watch_targets, stream' \in Seq(Blocks), RoutedMatches',
         HandlingOK(x, k, watch_targets)
  PROVE  ObserverInv'
<1>1. TypeOK'
  BY ObserverIsPredicateStep, TypeStep DEF ObserverInv
<1>2. x \in Handlings
  BY DEF HandlingOK
<1>3. handling' \in [Callers -> Handlings] /\ handling'[c] = x
      /\ \A d \in Callers \ {c} : handling'[d] = handling[d]
  BY <1>2 DEF ObserverInv
<1>4. \A d \in Callers : HandlingOK(handling'[d], call'[d], watch_targets')
  BY <1>3 DEF ObserverInv
<1>. QED  BY <1>1, <1>3, <1>4 DEF ObserverInv

\* The fields of a handler and of its call that a step reads.
LEMMA HandlerFields ==
  ASSUME ObserverInv, NEW c \in Callers
  PROVE  /\ HandlingOK(handling[c], call[c], watch_targets)
         /\ handling[c] \in Handlings
         /\ handling[c].block \in Blocks /\ handling[c].targets \in Seq(Targets)
         /\ handling[c].next \in Nat /\ handling[c].registered \in Nat
         /\ handling[c].served \in SUBSET Nat
BY DEF ObserverInv, Handlings

\* A step of a handler that ends no call of is_final and routes nothing.
LEMMA OwnStepKeeps ==
  ASSUME ObserverInv, [ObserverNext]_allVars, NEW c \in Callers, NEW x,
         handling' = [handling EXCEPT ![c] = x],
         UNCHANGED <<vars, watch_targets, stream, routed>>,
         HandlingOK(x, call[c], watch_targets)
  PROVE  ObserverInv'
<1>1. call' = call /\ stream' \in Seq(Blocks) /\ RoutedMatches'
  BY DEF vars, finalityVars, ObserverInv, RoutedMatches
<1>. QED  BY <1>1, HandlerKeeps

\* A handler is entered: nothing is served yet, and is_final is asked.
LEMMA HandleKeeps ==
  ASSUME ObserverInv, [ObserverNext]_allVars, NEW c \in Callers, NEW b \in Blocks, NEW n,
         Handle(c, b, n), stream' \in Seq(Blocks)
  PROVE  ObserverInv'
<1> DEFINE ripe == Ripe(b)
           x == [NoHandling EXCEPT !.at = "is_final", !.block = b,
                   !.registered = Len(watch_targets), !.ripe = ripe]
<1>1. ripe \in BOOLEAN
  BY SMT DEF Ripe
<1>2. /\ handling' = [handling EXCEPT ![c] = x] /\ IsFinal(c, b, n)
      /\ UNCHANGED <<watch_targets, routed>>
  BY DEF Handle
<1>. HIDE DEF ripe
<1>3. Len(watch_targets) \in Nat
  BY DEF ObserverInv
<1>4. /\ x \in Handlings /\ x.at = "is_final" /\ x.block = b
      /\ x.registered = Len(watch_targets) /\ x.next = 1 /\ x.targets = <<>>
      /\ x.served = {} /\ x.result = "none"
  <2>1. <<>> \in Seq(Targets) /\ {} \in SUBSET Nat /\ 1 \in Nat
    OBVIOUS
  <2>2. x \in Handlings
    BY <1>1, <1>3, <2>1 DEF NoHandling, Handlings, Stages, Results
  <2>3. /\ x.at = "is_final" /\ x.block = b
        /\ x.registered = Len(watch_targets) /\ x.next = 1
        /\ x.result = "none"
    BY DEF NoHandling
  <2>4. x.targets = <<>>
    BY DEF NoHandling
  <2>5. x.served = {}
    BY DEF NoHandling
  <2>. QED  BY <2>2, <2>3, <2>4, <2>5
<1>. HIDE DEF x
<1>5. call'[c].block = b /\ \A d \in Callers \ {c} : call'[d] = call[d]
  BY <1>2 DEF IsFinal, NoCall, ObserverInv, TypeOK, FinalityTypeOK
<1>6. MatchIn(x.block, x.targets) = {}
  BY <1>4 DEF MatchIn
<1>7. HandlingOK(x, call'[c], watch_targets)
  BY <1>3, <1>4, <1>5, <1>6 DEF HandlingOK
<1>8. RoutedMatches'
  BY <1>2 DEF ObserverInv, RoutedMatches
<1>. QED  BY <1>2, <1>5, <1>7, <1>8, HandlerKeeps

\* is_final goes on while its handler waits.
LEMMA IsFinalStepKeeps ==
  ASSUME ObserverInv, [ObserverNext]_allVars, NEW c \in Callers, IsFinalStep(c)
  PROVE  ObserverInv'
<1>1. /\ CallStep(c) /\ UNCHANGED <<watch_targets, stream, handling, routed>>
      /\ handling[c].at = "is_final"
  BY DEF IsFinalStep, observerVars
<1>2. call'[c].block = call[c].block /\ \A d \in Callers \ {c} : call'[d] = call[d]
  BY <1>1, CallKeepsBlock DEF ObserverInv
<1>3. handling' = [handling EXCEPT ![c] = handling[c]] /\ stream' \in Seq(Blocks)
      /\ RoutedMatches'
  BY <1>1 DEF ObserverInv, RoutedMatches
<1>4. HandlingOK(handling[c], call'[c], watch_targets)
  <2>1. handling[c].result = "none"
    BY <1>1, HandlerFields DEF HandlingOK, Handlings, Results
  <2>. QED  BY <1>1, <1>2, <2>1, HandlerFields DEF HandlingOK
<1>. QED  BY <1>1, <1>2, <1>3, <1>4, HandlerKeeps

\* The handler returns.
LEMMA ReturnKeeps ==
  ASSUME ObserverInv, [ObserverNext]_allVars, NEW c \in Callers, NEW result \in {"ok", "error"},
         ReturnFromHandler(c, result), call[c].at = "idle", handling[c].at # "idle",
         result = "ok" /\ call[c].verdict = "final" =>
           handling[c].at = "targets" /\ handling[c].next > Len(handling[c].targets)
  PROVE  ObserverInv'
<1> DEFINE x == [handling[c] EXCEPT !.at = "idle", !.result = result]
<1>1. /\ handling' = [handling EXCEPT ![c] = x]
      /\ UNCHANGED <<vars, watch_targets, stream, routed>>
  BY DEF ReturnFromHandler
<1>2. /\ x \in Handlings /\ x.at = "idle" /\ x.result = result
      /\ x.block = handling[c].block /\ x.targets = handling[c].targets
      /\ x.next = handling[c].next /\ x.served = handling[c].served
      /\ x.registered = handling[c].registered
  BY HandlerFields DEF Handlings, Stages, Results
<1>. HIDE DEF x
<1>3. HandlingOK(x, call[c], watch_targets)
  BY <1>2, HandlerFields DEF HandlingOK, Copied
<1>. QED  BY <1>1, <1>3, OwnStepKeeps

\* The targets are copied, once is_final has said `true`.
LEMMA CloneKeeps ==
  ASSUME ObserverInv, [ObserverNext]_allVars, NEW c \in Callers, CloneTargets(c)
  PROVE  ObserverInv'
<1> DEFINE x == [handling[c] EXCEPT !.at = "targets", !.targets = watch_targets]
<1>1. /\ handling' = [handling EXCEPT ![c] = x]
      /\ UNCHANGED <<vars, watch_targets, stream, routed>>
      /\ handling[c].at = "is_final" /\ call[c].at = "idle" /\ call[c].verdict = "final"
  BY DEF CloneTargets
<1>2. watch_targets \in Seq(Targets)
  BY DEF ObserverInv
<1>3. /\ x \in Handlings /\ x.at = "targets" /\ x.result = handling[c].result
      /\ x.block = handling[c].block /\ x.targets = watch_targets
      /\ x.next = handling[c].next /\ x.served = handling[c].served
      /\ x.registered = handling[c].registered
  BY <1>2, HandlerFields DEF Handlings, Stages
<1>. HIDE DEF x
<1>4. /\ handling[c].next = 1 /\ handling[c].registered <= Len(watch_targets)
      /\ call[c].block = handling[c].block /\ handling[c].result = "none"
  BY <1>1, HandlerFields DEF HandlingOK, Handlings, Results
<1>5. handling[c].served = {}
  <2>1. \A i \in MatchIn(handling[c].block, handling[c].targets) : i >= 1
    BY HandlerFields DEF MatchIn
  <2>. QED  BY <1>4, <2>1, HandlerFields DEF HandlingOK, MatchIn
<1>6. {i \in MatchIn(x.block, x.targets) : i < x.next} = {}
  BY <1>2, <1>3, <1>4 DEF MatchIn
<1>7. Copied(x, watch_targets)
  BY <1>2, <1>3, <1>4 DEF Copied
<1>8. HandlingOK(x, call[c], watch_targets)
  BY <1>1, <1>3, <1>4, <1>5, <1>6, <1>7 DEF HandlingOK
<1>. QED  BY <1>1, <1>8, OwnStepKeeps

\* A target that no event matches is passed over.
LEMMA SkipKeeps ==
  ASSUME ObserverInv, [ObserverNext]_allVars, NEW c \in Callers, SkipTarget(c)
  PROVE  ObserverInv'
<1> DEFINE h == handling[c]
           x == [h EXCEPT !.next = h.next + 1]
<1>1. /\ handling' = [handling EXCEPT ![c] = x]
      /\ UNCHANGED <<vars, watch_targets, stream, routed>>
      /\ h.at = "targets" /\ BlockMatch(h.block, h.targets[h.next]) = "no_match"
  BY DEF SkipTarget, Match
<1>2. /\ x \in Handlings /\ x.at = "targets" /\ x.result = h.result /\ x.block = h.block
      /\ x.targets = h.targets /\ x.next = h.next + 1 /\ x.served = h.served
      /\ x.registered = h.registered
  BY <1>1, HandlerFields DEF Handlings
<1>. HIDE DEF x
<1>3. h.result = "none"
  BY <1>1, HandlerFields DEF HandlingOK, Handlings, Results
<1>4. {i \in MatchIn(h.block, h.targets) : i < h.next + 1}
        = {i \in MatchIn(h.block, h.targets) : i < h.next}
  BY <1>1, HandlerFields DEF MatchIn
<1>5. HandlingOK(x, call[c], watch_targets)
  BY <1>1, <1>2, <1>3, <1>4, HandlerFields DEF HandlingOK, Copied
<1>. QED  BY <1>1, <1>5, OwnStepKeeps

\* A handler moves to another stage with the same target.
LEMMA StageKeeps ==
  ASSUME ObserverInv, [ObserverNext]_allVars, NEW c \in Callers,
         NEW stage \in {"proof", "route", "dead"},
         handling' = [handling EXCEPT ![c].at = stage],
         UNCHANGED <<vars, watch_targets, stream, routed>>,
         handling[c].at \in {"targets", "proof"},
         stage # "dead" =>
           handling[c].next \in MatchIn(handling[c].block, handling[c].targets)
  PROVE  ObserverInv'
<1> DEFINE h == handling[c]
           x == [h EXCEPT !.at = stage]
<1>1. handling' = [handling EXCEPT ![c] = x]
  OBVIOUS
<1>2. /\ x \in Handlings /\ x.at = stage /\ x.result = h.result /\ x.block = h.block
      /\ x.targets = h.targets /\ x.next = h.next /\ x.served = h.served
      /\ x.registered = h.registered
  BY HandlerFields DEF Handlings, Stages
<1>. HIDE DEF x
<1>3. h.result = "none"
  BY HandlerFields DEF HandlingOK, Handlings, Results
<1>4. HandlingOK(x, call[c], watch_targets)
  BY <1>2, <1>3, HandlerFields DEF HandlingOK, Copied
<1>. QED  BY <1>1, <1>4, OwnStepKeeps

\* The target is served, and nothing behind it.
LEMMA ServeKeeps ==
  ASSUME ObserverInv, [ObserverNext]_allVars, NEW c \in Callers, Serve(c),
         handling[c].at \in {"proof", "route"},
         UNCHANGED <<vars, watch_targets, stream>>, RoutedMatches'
  PROVE  ObserverInv'
<1> DEFINE h == handling[c]
           x == [h EXCEPT !.at = "targets", !.next = h.next + 1,
                          !.served = h.served \cup {h.next}]
<1>1. handling' = [handling EXCEPT ![c] = x]
  BY DEF Serve
<1>2. /\ x \in Handlings /\ x.at = "targets" /\ x.result = h.result /\ x.block = h.block
      /\ x.targets = h.targets /\ x.next = h.next + 1
      /\ x.served = h.served \cup {h.next} /\ x.registered = h.registered
  <2> DEFINE served == h.served \cup {h.next}
  <2>1. served \in SUBSET Nat /\ h.next + 1 \in Nat
    BY HandlerFields
  <2>2. x = [h EXCEPT !.at = "targets", !.next = h.next + 1, !.served = served]
    OBVIOUS
  <2>. HIDE DEF served, x
  <2>3. /\ x \in Handlings /\ x.at = "targets" /\ x.result = h.result /\ x.block = h.block
        /\ x.targets = h.targets /\ x.next = h.next + 1
        /\ x.served = served /\ x.registered = h.registered
    BY <2>1, <2>2, HandlerFields DEF Handlings, Stages
  <2>. QED  BY <2>3 DEF served
<1>. HIDE DEF x
<1>3. h.result = "none" /\ h.next \in MatchIn(h.block, h.targets)
  BY HandlerFields DEF HandlingOK, Handlings, Results
<1>4. {i \in MatchIn(h.block, h.targets) : i < h.next + 1}
        = {i \in MatchIn(h.block, h.targets) : i < h.next} \cup {h.next}
  BY <1>3, HandlerFields DEF MatchIn
<1>5. HandlingOK(x, call[c], watch_targets)
  BY <1>2, <1>3, <1>4, HandlerFields DEF HandlingOK, Copied
<1>6. call' = call /\ stream' \in Seq(Blocks)
  BY DEF vars, finalityVars, ObserverInv
<1>. QED  BY <1>1, <1>5, <1>6, HandlerKeeps

-----------------------------------------------------------------------------
(* The invariant of the specification.                                      *)

LEMMA ObserverInvInit == ObserverInit => ObserverInv
<1> SUFFICES ASSUME ObserverInit PROVE ObserverInv
  OBVIOUS
<1>1. TypeOK
  BY TypeInit DEF ObserverInit
<1>2. NoHandling \in Handlings
  <2>1. <<>> \in Seq(Targets) /\ {} \in SUBSET Nat
    OBVIOUS
  <2>. QED  BY <2>1, TreeAssumption DEF NoHandling, Handlings, Stages, Results
<1>3. MatchIn(Genesis, <<>>) = {}
  BY DEF MatchIn
<1>4. HandlingOK(NoHandling, NoCall, <<>>)
  <2>1. /\ NoHandling.at = "idle" /\ NoHandling.result = "none"
        /\ NoHandling.block = Genesis /\ NoHandling.next = 1
    BY DEF NoHandling
  <2>2. NoHandling.targets = <<>>
    BY DEF NoHandling
  <2>3. NoHandling.served = {}
    BY DEF NoHandling
  <2>4. NoCall.at = "idle"
    BY DEF NoCall
  <2>. QED  BY <1>2, <1>3, <2>1, <2>2, <2>3, <2>4 DEF HandlingOK
<1>. QED  BY <1>1, <1>2, <1>4 DEF ObserverInit, Init, ObserverInv, RoutedMatches

LEMMA ObserverInvStep == ObserverInv /\ [ObserverNext]_allVars => ObserverInv'
<1> SUFFICES ASSUME ObserverInv, [ObserverNext]_allVars
             PROVE  ObserverInv'
  OBVIOUS
<1>1. TypeOK'
  BY ObserverIsPredicateStep, TypeStep DEF ObserverInv
<1>2. ASSUME UNCHANGED <<call, watch_targets, handling, routed>>, stream' \in Seq(Blocks)
      PROVE  ObserverInv'
  BY <1>1, <1>2 DEF ObserverInv, RoutedMatches
<1>3. CASE ImportStep \/ AuthorityStep \/ UNCHANGED allVars
  BY <1>2, <1>3 DEF ImportStep, AuthorityStep, HandleAuthoritySetUpdate, ReplaceVoterSet, allVars, vars,
                    finalityVars, observerVars, ObserverInv
<1>4. CASE FinalizeStep
  <2>1. UNCHANGED <<call, watch_targets, handling, routed>>
    BY <1>4 DEF FinalizeStep, finalityVars
  <2>2. stream' \in Seq(Blocks)
    BY <1>4 DEF FinalizeStep, ObserverInv
  <2>. QED  BY <1>2, <2>1, <2>2
<1>5. ASSUME NEW target \in Targets, RegisterWatchTarget(target)
      PROVE  ObserverInv'
  <2>1. /\ watch_targets' = Append(watch_targets, target)
        /\ UNCHANGED <<call, stream, handling, routed>>
    BY <1>5 DEF RegisterWatchTarget, vars, finalityVars
  <2>2. watch_targets \in Seq(Targets) /\ watch_targets' \in Seq(Targets)
        /\ \A i \in DOMAIN watch_targets : i \in DOMAIN watch_targets'
                                           /\ watch_targets'[i] = watch_targets[i]
    BY <2>1 DEF ObserverInv
  <2>3. \A c \in Callers : HandlingOK(handling'[c], call'[c], watch_targets')
    BY <2>1, <2>2, RegisterKeeps DEF ObserverInv
  <2>4. RoutedMatches'
    BY <2>1, <2>2 DEF ObserverInv, RoutedMatches
  <2>. QED  BY <1>1, <2>1, <2>2, <2>3, <2>4 DEF ObserverInv
<1>6. CASE NextNotification
  <2>1. Handle(Worker, Head(stream), Number[Head(stream)]) /\ Head(stream) \in Blocks
        /\ stream' \in Seq(Blocks)
    BY <1>6 DEF NextNotification, ObserverInv
  <2>. QED  BY <2>1, HandleKeeps, ObserverAssumption
<1>7. ASSUME NEW c \in Callers, NEW b \in Blocks, NEW n \in {Number[x] : x \in Blocks},
             OnBlockFinalized(c, b, n)
      PROVE  ObserverInv'
  <2>1. Handle(c, b, n) /\ stream' \in Seq(Blocks)
    BY <1>7 DEF OnBlockFinalized, ObserverInv
  <2>. QED  BY <2>1, HandleKeeps
<1>8. ASSUME NEW c \in Callers, HandlerStep(c)
      PROVE  ObserverInv'
  <2>0. HandlingOK(handling[c], call[c], watch_targets)
    BY HandlerFields
  <2>1. CASE IsFinalStep(c)
    BY <2>1, IsFinalStepKeeps
  <2>2. CASE NotFinal(c)
    <3>1. PICK result \in {"ok", "error"} : ReturnFromHandler(c, result)
      BY <2>2 DEF NotFinal
    <3>. QED  BY <2>2, <3>1, ReturnKeeps DEF NotFinal
  <2>3. CASE CloneTargets(c)
    BY <2>3, CloneKeeps
  <2>4. CASE AllTargetsDone(c)
    BY <2>0, <2>4, ReturnKeeps DEF AllTargetsDone, HandlingOK
  <2>5. CASE SkipTarget(c)
    BY <2>5, SkipKeeps
  <2>6. CASE MatchTarget(c)
    <3>1. handling[c].next \in MatchIn(handling[c].block, handling[c].targets)
      <4>1. handling[c].next \in DOMAIN handling[c].targets
        <5>1. handling[c].next >= 1
          BY <2>0 DEF HandlingOK
        <5>. QED  BY <2>6, <5>1, HandlerFields DEF MatchTarget, Match
      <4>. QED  BY <2>6, <4>1 DEF MatchTarget, Match, MatchIn
    <3>. QED  BY <2>6, <3>1, StageKeeps DEF MatchTarget, Match
  <2>7. CASE PanicInMatch(c)
    BY <2>7, StageKeeps DEF PanicInMatch, Match
  <2>8. CASE GenerateProof(c)
    <3>1. RoutedMatches /\ (UNCHANGED <<watch_targets, routed>> => RoutedMatches')
      BY DEF ObserverInv, RoutedMatches
    <3>2. CASE HasRouter
      BY <2>0, <2>8, <3>2, StageKeeps DEF GenerateProof, HandlingOK
    <3>3. CASE ~ HasRouter
      BY <2>8, <3>1, <3>3, ServeKeeps DEF GenerateProof
    <3>. QED  BY <3>2, <3>3
  <2>9. CASE RouteMessage(c)
    <3> DEFINE target == handling[c].targets[handling[c].next]
    <3>1. /\ handling[c].at = "route" /\ Serve(c) /\ UNCHANGED <<vars, watch_targets, stream>>
          /\ routed' = routed \cup {<<handling[c].block, target>>}
      BY <2>9 DEF RouteMessage
    <3>2. /\ handling[c].next \in 1 .. Len(handling[c].targets)
          /\ BlockMatch(handling[c].block, target) = "match"
          /\ Copied(handling[c], watch_targets)
      BY <2>0, <3>1, HandlerFields DEF HandlingOK, MatchIn
    <3>3. /\ target \in Targets
          /\ handling[c].next \in DOMAIN watch_targets
          /\ watch_targets[handling[c].next] = target
      <4>1. watch_targets \in Seq(Targets)
        BY DEF ObserverInv
      <4>. QED  BY <3>2, <4>1, HandlerFields DEF Copied
    <3>4. RoutedMatches'
      <4>1. <<handling[c].block, target>> \in Blocks \X Targets
        BY <3>3, HandlerFields
      <4>. QED  BY <3>1, <3>2, <3>3, <4>1 DEF ObserverInv, RoutedMatches
    <3>. QED  BY <3>1, <3>4, ServeKeeps
  <2>10. CASE FailTarget(c)
    BY <2>0, <2>10, ReturnKeeps DEF FailTarget, HandlingOK
  <2>. QED  BY <1>8, <2>1, <2>2, <2>3, <2>4, <2>5, <2>6, <2>7, <2>8, <2>9, <2>10
            DEF HandlerStep
<1>. QED  BY <1>3, <1>4, <1>5, <1>6, <1>7, <1>8 DEF ObserverNext

LEMMA ObserverInvariant == ObserverSpec => []ObserverInv
BY ObserverInvInit, ObserverInvStep, PTL DEF ObserverSpec

\* The observer leaves the predicate a behaviour of its own: whatever is proved of
\* GrandpaFinality alone is true of it under the observer.
THEOREM ObserverUsesThePredicate == ObserverSpec => Spec
<1>1. ObserverInit => Init
  BY DEF ObserverInit
<1>2. ObserverInv /\ [ObserverNext]_allVars => [Next]_vars
  BY ObserverIsPredicateStep DEF ObserverInv
<1>. QED  BY <1>1, <1>2, ObserverInvariant, PTL DEF ObserverSpec, Spec

\* So the handlers ask an abstract gadget, under the conditions of
\* ImplementsGadgetHolds.
THEOREM ObserverKeepsThePromise ==
  ASSUME ConfigIsStrict
  PROVE  ObserverSpec /\ [][VotersKept]_voter_set => ImplementsGadget
BY ObserverUsesThePredicate, ImplementsGadgetHolds, PTL

-----------------------------------------------------------------------------
(* What the observer promises.                                              *)

\* In every reachable state the variables have their types.
THEOREM ObserverTypeInvariant == ObserverSpec => []ObserverTypeOK
<1>1. ObserverInv => ObserverTypeOK
  BY DEF ObserverInv, RoutedMatches, ObserverTypeOK
<1>. QED  BY <1>1, ObserverInvariant, PTL

\* A target is served only after all matching targets registered before it.
THEOREM ServedInOrderHolds == ObserverSpec => []ServedInOrder
<1>1. ObserverInv => ServedInOrder
  <2> SUFFICES ASSUME ObserverInv, NEW c \in Callers, NEW i \in handling[c].served,
                      NEW j \in Matching(c, handling[c].targets), j < i
               PROVE  j \in handling[c].served
    BY DEF ServedInOrder
  <2>1. handling[c].served =
          {k \in MatchIn(handling[c].block, handling[c].targets) : k < handling[c].next}
    BY HandlerFields DEF HandlingOK
  <2>2. i \in Int /\ j \in Int /\ handling[c].next \in Int
    BY HandlerFields DEF Matching
  <2>. QED  BY <2>1, <2>2 DEF Matching, MatchIn
<1>. QED  BY <1>1, ObserverInvariant, PTL

\* A handler that found its block final and returned Ok has served every matching
\* target registered before it was entered.
THEOREM OkServesEveryTargetHolds == ObserverSpec => []OkServesEveryTarget
<1>1. ObserverInv => OkServesEveryTarget
  <2> SUFFICES ASSUME ObserverInv, NEW c \in Callers,
                      handling[c].result = "ok", call[c].verdict = "final"
               PROVE  /\ handling[c].served = Matching(c, handling[c].targets)
                      /\ handling[c].registered <= Len(handling[c].targets)
                      /\ IsPrefix(handling[c].targets, watch_targets)
    BY DEF OkServesEveryTarget
  <2> DEFINE h == handling[c]
  <2>1. /\ h.next > Len(h.targets) /\ Copied(h, watch_targets)
        /\ h.served = {i \in MatchIn(h.block, h.targets) : i < h.next}
    BY HandlerFields DEF HandlingOK
  <2>2. h.served = Matching(c, h.targets)
    <3>1. \A i \in MatchIn(h.block, h.targets) : i < h.next
      BY <2>1, HandlerFields DEF MatchIn
    <3>. QED  BY <2>1, <3>1 DEF Matching, MatchIn
  <2>3. IsPrefix(h.targets, watch_targets)
    <3>1. watch_targets \in Seq(Targets) /\ h.targets \in Seq(Targets)
      BY HandlerFields DEF ObserverInv
    <3>2. \A i \in 1 .. Len(h.targets) :
            SubSeq(h.targets, 1, Len(h.targets))[i]
              = SubSeq(watch_targets, 1, Len(h.targets))[i]
      BY <2>1, <3>1 DEF Copied
    <3>3. SubSeq(h.targets, 1, Len(h.targets)) = SubSeq(watch_targets, 1, Len(h.targets))
      BY <2>1, <3>1, <3>2 DEF Copied
    <3>. QED  BY <2>1, <3>3 DEF IsPrefix, Copied
  <2>. QED  BY <2>1, <2>2, <2>3 DEF Copied
<1>. QED  BY <1>1, ObserverInvariant, PTL

\* A message is about a block that is_final called final, or routed already.
LEMMA RoutedIsFinal ==
  ASSUME ObserverInv, [ObserverNext]_allVars
  PROVE  \A message \in routed' :
           \/ message \in routed
           \/ \E c \in Callers : call[c].verdict = "final" /\ message[1] = call[c].block
<1>1. ASSUME NEW c \in Callers, HandlerStep(c), ~ RouteMessage(c)
      PROVE  routed' = routed
  BY <1>1 DEF HandlerStep, IsFinalStep, observerVars, NotFinal, CloneTargets, AllTargetsDone,
              SkipTarget, MatchTarget, PanicInMatch, GenerateProof, FailTarget,
              ReturnFromHandler
<1>2. routed' = routed \/ \E c \in Callers : RouteMessage(c)
  BY <1>1 DEF ObserverNext, allVars, observerVars, ImportStep, FinalizeStep, AuthorityStep,
              RegisterWatchTarget, NextNotification, OnBlockFinalized, Handle
<1>3. ASSUME NEW c \in Callers, RouteMessage(c), NEW message \in routed' \ routed
      PROVE  call[c].verdict = "final" /\ message[1] = call[c].block
  <2>1. handling[c].at = "route" /\ message[1] = handling[c].block
    BY <1>3 DEF RouteMessage
  <2>. QED  BY <2>1, HandlerFields DEF HandlingOK
<1>. QED  BY <1>2, <1>3

\* The blocks of routed messages are buried.
RoutedBuriedInv == \A message \in routed : IsBuried(message[1])

LEMMA RoutedBuriedStep ==
  ASSUME ObserverInv, BuriedInv, RoutedBuriedInv, [ObserverNext]_allVars
  PROVE  RoutedBuriedInv'
<1>1. \A b \in Blocks : IsBuried(b) => IsBuried(b)'
  BY ObserverIsPredicateStep, StaysBuried DEF ObserverInv
<1>2. \A c \in Callers : call[c].verdict = "final" =>
        call[c].block \in Blocks /\ IsBuried(call[c].block)
  BY DEF ObserverInv, TypeOK, FinalityTypeOK, Calls, BuriedInv, CallInv
<1>3. ASSUME NEW message \in routed'
      PROVE  IsBuried(message[1])'
  <2>1. message[1] \in Blocks /\ IsBuried(message[1])
    BY <1>2, RoutedIsFinal DEF ObserverInv, RoutedMatches, RoutedBuriedInv
  <2>2. PICK b \in Blocks : b = message[1]
    BY <2>1
  <2>. QED  BY <1>1, <2>1, <2>2 DEF IsBuried
<1>. QED  BY <1>3 DEF RoutedBuriedInv, IsBuried

\* With a strict configuration, whatever was routed is about a block that is still
\* buried, a target that is registered and an event that matches it.
THEOREM RoutedIsBuriedHolds == ASSUME ConfigIsStrict PROVE ObserverSpec => []RoutedIsBuried
<1>1. ObserverInit => RoutedBuriedInv
  BY DEF ObserverInit, RoutedBuriedInv
<1>2. ObserverInv /\ BuriedInv /\ RoutedBuriedInv /\ [ObserverNext]_allVars
        => RoutedBuriedInv'
  BY RoutedBuriedStep
<1>3. ObserverInv /\ RoutedBuriedInv => RoutedIsBuried
  BY DEF ObserverInv, RoutedMatches, RoutedBuriedInv, IsBuried, RoutedIsBuried
<1>. QED  BY <1>1, <1>2, <1>3, ObserverInvariant, ObserverUsesThePredicate, BuriedInvariant, PTL
          DEF ObserverSpec

-----------------------------------------------------------------------------
(* Ripe blocks are proved.                                                  *)

\* A handler that was entered when its block was ripe gets no `false` unless the
\* block is too old by then, so that it returns Ok after it has served the targets
\* only.
RipeInv(c) ==
  handling[c].ripe => /\ handling[c].at = "is_final" => Undeniable(c)
                      /\ handling[c].result = "ok" =>
                           call[c].verdict = "final" \/ TooOld(handling[c].block)

\* A handler that is entered has not returned, and asks about its block.
LEMMA HandleRipe ==
  ASSUME ObserverInv, NEW c \in Callers, NEW b \in Blocks, NEW n, Handle(c, b, n)
  PROVE  RipeInv(c)' /\ \A d \in Callers \ {c} : handling'[d] = handling[d] /\ call'[d] = call[d]
<1> DEFINE ripe == Ripe(b)
           x == [NoHandling EXCEPT !.at = "is_final", !.block = b,
                   !.registered = Len(watch_targets), !.ripe = ripe]
<1>1. ripe => Undeniable(c)'
  BY RipeIsUndeniable DEF Handle, ObserverInv
<1>2. handling' = [handling EXCEPT ![c] = x]
  BY DEF Handle
<1>. HIDE DEF ripe
<1>3. x.result = "none" /\ x.ripe = ripe
  BY DEF NoHandling
<1>. HIDE DEF x
<1>4. handling'[c] = x /\ \A d \in Callers \ {c} : handling'[d] = handling[d]
  BY <1>2 DEF ObserverInv
<1>5. \A d \in Callers \ {c} : call'[d] = call[d]
  BY DEF Handle, IsFinal, ObserverInv, TypeOK, FinalityTypeOK
<1>6. handling'[c].ripe => ripe
  BY <1>3, <1>4, Zenon
<1>7. handling'[c].result # "ok"
  BY <1>3, <1>4
<1>8. handling'[c].ripe => Undeniable(c)'
  BY <1>1, <1>6
<1>. QED  BY <1>4, <1>5, <1>7, <1>8 DEF RipeInv

\* A handler step keeps its own promise and is not seen by the other handlers.
LEMMA HandlerRipe ==
  ASSUME VotersKept, ObserverInv, ReadsInv, TypeOK', NEW c \in Callers, RipeInv(c),
         HandlerStep(c), [ChainNext]_chainVars
  PROVE  RipeInv(c)' /\ \A d \in Callers \ {c} : handling'[d] = handling[d] /\ call'[d] = call[d]
<1>1. CASE IsFinalStep(c)
  <2>1. CallStep(c) /\ handling' = handling /\ handling[c].at = "is_final"
    BY <1>1 DEF IsFinalStep, observerVars
  <2>2. \A d \in Callers \ {c} : call'[d] = call[d]
    BY <2>1, CallKeepsBlock DEF ObserverInv
  <2>3. handling[c].result = "none"
    BY <2>1, HandlerFields DEF HandlingOK, Handlings, Results
  <2>4. Undeniable(c) => Undeniable(c)'
    BY <2>1, UndeniableStep
  <2>. QED  BY <2>1, <2>2, <2>3, <2>4 DEF RipeInv
<1>2. ASSUME NEW x, handling' = [handling EXCEPT ![c] = x], UNCHANGED vars,
             x.ripe = handling[c].ripe, x.block = handling[c].block, x.at # "is_final",
             handling[c].ripe /\ x.result = "ok" =>
               call[c].verdict = "final" \/ TooOld(handling[c].block)
      PROVE  RipeInv(c)' /\ \A d \in Callers \ {c} : handling'[d] = handling[d] /\ call'[d] = call[d]
  <2>1. handling'[c] = x /\ call' = call /\ imported' = imported
        /\ \A d \in Callers \ {c} : handling'[d] = handling[d]
    BY <1>2 DEF ObserverInv, vars, finalityVars, chainVars
  <2>2. handling'[c].ripe => handling[c].ripe
    BY <1>2, <2>1, Zenon
  <2>3. TooOld(handling[c].block) => TooOld(handling[c].block)'
    BY <1>2, <2>1 DEF TooOld
  <2>. QED  BY <1>2, <2>1, <2>2, <2>3 DEF RipeInv
<1>3. ASSUME NEW result, ReturnFromHandler(c, result),
             handling[c].ripe /\ result = "ok" =>
               call[c].verdict = "final" \/ TooOld(handling[c].block)
      PROVE  RipeInv(c)' /\ \A d \in Callers \ {c} : handling'[d] = handling[d] /\ call'[d] = call[d]
  <2> DEFINE x == [handling[c] EXCEPT !.at = "idle", !.result = result]
  <2>1. handling' = [handling EXCEPT ![c] = x] /\ UNCHANGED vars
    BY <1>3 DEF ReturnFromHandler
  <2>2. /\ x.ripe = handling[c].ripe /\ x.at = "idle" /\ x.result = result
        /\ x.block = handling[c].block
    BY HandlerFields DEF Handlings
  <2>. HIDE DEF x
  <2>. QED  BY <1>2, <1>3, <2>1, <2>2
<1>4. CASE NotFinal(c)
  <2>1. handling[c].at = "is_final" /\ call[c].verdict \in {"not_final", "error"}
        /\ ReturnFromHandler(c, IF call[c].verdict = "error" THEN "error" ELSE "ok")
    BY <1>4 DEF NotFinal
  <2>2. handling[c].ripe => call[c].verdict = "error" \/ TooOld(handling[c].block)
    BY <2>1, HandlerFields DEF RipeInv, Undeniable, HandlingOK
  <2>. QED  BY <1>3, <2>1, <2>2
<1>5. CASE AllTargetsDone(c)
  <2>1. ReturnFromHandler(c, "ok") /\ call[c].verdict = "final"
    BY <1>5, HandlerFields DEF AllTargetsDone, HandlingOK
  <2>. QED  BY <1>3, <2>1
<1>6. CASE FailTarget(c)
  BY <1>3, <1>6 DEF FailTarget
<1>7. ASSUME NEW stage \in {"targets", "proof", "route", "dead"}, NEW x,
             handling' = [handling EXCEPT ![c] = x], UNCHANGED vars,
             x.at = stage, x.ripe = handling[c].ripe, x.result = handling[c].result,
             x.block = handling[c].block, handling[c].at # "idle"
      PROVE  RipeInv(c)' /\ \A d \in Callers \ {c} : handling'[d] = handling[d] /\ call'[d] = call[d]
  <2>1. x.result = "none"
    BY <1>7, HandlerFields DEF HandlingOK, Handlings, Results
  <2>. QED  BY <1>2, <1>7, <2>1
<1>8. CASE CloneTargets(c)
  <2> DEFINE x == [handling[c] EXCEPT !.at = "targets", !.targets = watch_targets]
  <2>1. handling' = [handling EXCEPT ![c] = x] /\ UNCHANGED vars /\ handling[c].at # "idle"
    BY <1>8 DEF CloneTargets
  <2>2. /\ x.at = "targets" /\ x.ripe = handling[c].ripe /\ x.result = handling[c].result
        /\ x.block = handling[c].block
    BY HandlerFields DEF Handlings
  <2>. HIDE DEF x
  <2>. QED  BY <1>7, <2>1, <2>2
<1>9. CASE SkipTarget(c)
  <2> DEFINE x == [handling[c] EXCEPT !.next = handling[c].next + 1]
  <2>1. handling' = [handling EXCEPT ![c] = x] /\ UNCHANGED vars /\ handling[c].at = "targets"
    BY <1>9 DEF SkipTarget, Match
  <2>2. /\ x.at = "targets" /\ x.ripe = handling[c].ripe /\ x.result = handling[c].result
        /\ x.block = handling[c].block
    BY <2>1, HandlerFields DEF Handlings
  <2>. HIDE DEF x
  <2>. QED  BY <1>7, <2>1, <2>2
<1>10. ASSUME NEW stage \in {"proof", "route", "dead"}, UNCHANGED vars,
              handling' = [handling EXCEPT ![c].at = stage], handling[c].at # "idle"
       PROVE  RipeInv(c)' /\ \A d \in Callers \ {c} : handling'[d] = handling[d] /\ call'[d] = call[d]
  <2> DEFINE x == [handling[c] EXCEPT !.at = stage]
  <2>1. handling' = [handling EXCEPT ![c] = x]
    BY <1>10
  <2>2. /\ x.at = stage /\ x.ripe = handling[c].ripe /\ x.result = handling[c].result
        /\ x.block = handling[c].block
    BY HandlerFields DEF Handlings
  <2>. HIDE DEF x
  <2>. QED  BY <1>7, <1>10, <2>1, <2>2
<1>11. CASE MatchTarget(c) \/ PanicInMatch(c)
  BY <1>10, <1>11 DEF MatchTarget, PanicInMatch, Match
<1>12. ASSUME Serve(c), UNCHANGED vars, handling[c].at # "idle"
       PROVE  RipeInv(c)' /\ \A d \in Callers \ {c} : handling'[d] = handling[d] /\ call'[d] = call[d]
  <2> DEFINE served == handling[c].served \cup {handling[c].next}
             x == [handling[c] EXCEPT !.at = "targets", !.next = handling[c].next + 1,
                                      !.served = served]
  <2>1. handling' = [handling EXCEPT ![c] = x]
    BY <1>12 DEF Serve
  <2>. HIDE DEF served
  <2>2. /\ x.at = "targets" /\ x.ripe = handling[c].ripe /\ x.result = handling[c].result
        /\ x.block = handling[c].block
    BY HandlerFields DEF Handlings
  <2>. HIDE DEF x
  <2>. QED  BY <1>7, <1>12, <2>1, <2>2
<1>13. CASE GenerateProof(c)
  BY <1>10, <1>12, <1>13 DEF GenerateProof
<1>14. CASE RouteMessage(c)
  BY <1>12, <1>14 DEF RouteMessage
<1>. QED
  BY <1>1, <1>4, <1>5, <1>6, <1>8, <1>9, <1>11, <1>13, <1>14 DEF HandlerStep

LEMMA RipeStep ==
  ASSUME VotersKept, ObserverInv, ReadsInv, TypeOK', \A c \in Callers : RipeInv(c),
         [ObserverNext]_allVars
  PROVE  \A c \in Callers : RipeInv(c)'
<1> SUFFICES ASSUME NEW d \in Callers
             PROVE  RipeInv(d)'
  OBVIOUS
<1>1. [ChainNext]_chainVars
  BY ObserverIsPredicateStep, PredicateChainStep DEF ObserverInv
<1>2. ASSUME handling'[d] = handling[d], call'[d] = call[d]
      PROVE  RipeInv(d)'
  <2>1. Undeniable(d) => Undeniable(d)'
    BY <1>1, <1>2, UndeniableStable DEF ObserverInv
  <2>2. TooOld(handling[d].block) => TooOld(handling[d].block)'
    <3>1. PICK b : b = handling[d].block
      OBVIOUS
    <3>2. TooOld(b) => TooOld(b)'
      BY <1>1, TooOldStays
    <3>. QED  BY <1>2, <3>1, <3>2 DEF TooOld
  <2>. QED  BY <1>2, <2>1, <2>2 DEF RipeInv
<1>3. CASE ImportStep \/ FinalizeStep \/ AuthorityStep
           \/ (\E target \in Targets : RegisterWatchTarget(target)) \/ UNCHANGED allVars
  BY <1>2, <1>3 DEF ImportStep, FinalizeStep, AuthorityStep, HandleAuthoritySetUpdate, ReplaceVoterSet,
                    RegisterWatchTarget, allVars, vars, finalityVars, observerVars
<1>4. ASSUME NEW c \in Callers, NEW b \in Blocks, NEW n, Handle(c, b, n)
      PROVE  RipeInv(d)'
  <2>1. CASE c = d
    BY <1>4, <2>1, HandleRipe
  <2>2. CASE c # d
    BY <1>2, <1>4, <2>2, HandleRipe
  <2>. QED  BY <2>1, <2>2
<1>5. CASE NextNotification
  <2>1. Handle(Worker, Head(stream), Number[Head(stream)]) /\ Head(stream) \in Blocks
    BY <1>5 DEF NextNotification, ObserverInv
  <2>. QED  BY <1>4, <2>1, ObserverAssumption
<1>6. ASSUME NEW c \in Callers, NEW b \in Blocks, NEW n, OnBlockFinalized(c, b, n)
      PROVE  RipeInv(d)'
  BY <1>4, <1>6 DEF OnBlockFinalized
<1>7. ASSUME NEW c \in Callers, HandlerStep(c)
      PROVE  RipeInv(d)'
  <2>1. CASE c = d
    BY <1>1, <1>7, <2>1, HandlerRipe
  <2>2. CASE c # d
    BY <1>1, <1>2, <1>7, <2>2, HandlerRipe
  <2>. QED  BY <2>1, <2>2
<1>. QED  BY <1>3, <1>5, <1>6, <1>7 DEF ObserverNext

\* With a strict configuration and a voter set that stays, a block that was ripe when its
\* handler was entered, and is not too old, has been proved and routed for every
\* matching target of that moment, if the handler returned Ok.
THEOREM RipeBlocksAreProvedHolds ==
  ASSUME ConfigIsStrict
  PROVE  ObserverSpec /\ [][VotersKept]_voter_set => []RipeBlocksAreProved
<1> DEFINE RipeInvs == \A c \in Callers : RipeInv(c)
<1>1. ObserverInit => RipeInvs
  BY DEF ObserverInit, NoHandling, RipeInv
<1>2. ObserverInv /\ ObserverInv' /\ ReadsInv /\ RipeInvs /\ [ObserverNext]_allVars
        /\ [VotersKept]_voter_set => RipeInvs'
  BY RipeStep DEF ObserverInv, VotersKept
<1>3. ObserverInv /\ RipeInvs => RipeBlocksAreProved
  <2> SUFFICES ASSUME ObserverInv, RipeInvs, NEW c \in Callers,
                      handling[c].result = "ok", handling[c].ripe,
                      ~ TooOld(handling[c].block), NEW i \in Matching(c, watch_targets), i <= handling[c].registered
               PROVE  i \in handling[c].served
    BY DEF RipeBlocksAreProved
  <2>1. call[c].verdict = "final"
    BY DEF RipeInv
  <2>2. /\ handling[c].next > Len(handling[c].targets)
        /\ Copied(handling[c], watch_targets)
        /\ handling[c].served =
             {k \in MatchIn(handling[c].block, handling[c].targets) : k < handling[c].next}
    BY <2>1, HandlerFields DEF HandlingOK
  <2>3. watch_targets \in Seq(Targets)
    BY DEF ObserverInv
  <2>4. i \in 1 .. Len(handling[c].targets) /\ handling[c].targets[i] = watch_targets[i]
    BY <2>2, <2>3, HandlerFields DEF Matching, Copied
  <2>. QED  BY <2>2, <2>4, HandlerFields DEF Matching, MatchIn
<1>. HIDE DEF RipeInvs
<1>. QED  BY <1>1, <1>2, <1>3, ObserverInvariant, ObserverUsesThePredicate, ReadsInvariant, PTL
          DEF ObserverSpec
=============================================================================
