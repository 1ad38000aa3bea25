------------------------- MODULE AuthoritySetManager -------------------------
(***************************************************************************)
(* AuthoritySetManager (src/finality/mod.rs:102): the authority set of the  *)
(* moment and the queue of changes that finalized blocks will activate.     *)
(* Both methods take `&mut self`, so each call is one step.                 *)
(***************************************************************************)
EXTENDS Integers, Sequences

CONSTANTS
  AuthorityLists,   \* the lists of authorities a set can have
  InitialList,      \* the list of the set the manager is created with
  InitialSetId,     \* and its id
  BlockNumbers,     \* the numbers changes are scheduled for and blocks have
  MaxScheduled      \* bound: how many changes are scheduled in a behaviour

ASSUME ManagerAssumption ==
  /\ InitialList \in AuthorityLists
  /\ InitialSetId \in Nat
  /\ BlockNumbers \subseteq Nat
  /\ MaxScheduled \in Nat

VARIABLES
  current_set,      \* the set in force: [authorities, set_id]
  pending_changes,  \* Vec<AuthoritySetChange>, first scheduled first
  last_finalized,
  scheduled,        \* history: every change ever scheduled, in order
  applied           \* history: every change ever applied, in order

vars == <<current_set, pending_changes, last_finalized, scheduled, applied>>

AuthoritySet == [authorities : AuthorityLists, set_id : Nat]
AuthoritySetChange == [set_id : Nat, authorities : AuthorityLists, scheduled_at : BlockNumbers]

TypeOK ==
  /\ current_set \in AuthoritySet
  /\ pending_changes \in Seq(AuthoritySetChange)
  /\ last_finalized \in Nat
  /\ scheduled \in Seq(AuthoritySetChange)
  /\ applied \in Seq(AuthoritySetChange)

\* AuthoritySetManager::new
Init ==
  /\ current_set = [authorities |-> InitialList, set_id |-> InitialSetId]
  /\ pending_changes = <<>>
  /\ last_finalized = 0
  /\ scheduled = <<>>
  /\ applied = <<>>

\* Variation: a change takes effect one block late.
ScheduleChangeLate(authorities, at) ==
  /\ Len(scheduled) < MaxScheduled
  /\ LET change == [set_id       |-> current_set.set_id + 1,
                    authorities  |-> authorities,
                    scheduled_at |-> at + 1]
     IN  /\ pending_changes' = Append(pending_changes, change)
         /\ scheduled' = Append(scheduled, change)
  /\ UNCHANGED <<current_set, last_finalized, applied>>

\* A change goes to the end of the queue, numbered after the set in force, not
\* after the change queued before it.
ScheduleChange(authorities, at) ==
  /\ Len(scheduled) < MaxScheduled
  /\ LET change == [set_id       |-> current_set.set_id + 1,
                    authorities  |-> authorities,
                    scheduled_at |-> at]
     IN  /\ pending_changes' = Append(pending_changes, change)
         /\ scheduled' = Append(scheduled, change)
  /\ UNCHANGED <<current_set, last_finalized, applied>>

\* Variation: a change for the finalized block itself is left for the next one.
DuePrefixStrict(k, number) ==
  /\ \A i \in 1 .. k : pending_changes[i].scheduled_at < number
  /\ k < Len(pending_changes) => pending_changes[k + 1].scheduled_at >= number

\* The first k changes of the queue are due, and the loop stops behind them.
DuePrefix(k, number) ==
  /\ \A i \in 1 .. k : pending_changes[i].scheduled_at <= number
  /\ k < Len(pending_changes) => pending_changes[k + 1].scheduled_at > number

\* Variation: the loop takes the changes off the end of the vector.
ProcessNewestFirst(number) ==
  /\ last_finalized' = number
  /\ \E k \in 0 .. Len(pending_changes) :
       LET n == Len(pending_changes)
       IN  /\ \A i \in n - k + 1 .. n : pending_changes[i].scheduled_at <= number
           /\ k < n => pending_changes[n - k].scheduled_at > number
           /\ current_set' = IF k = 0 THEN current_set
                             ELSE [authorities |-> pending_changes[n - k + 1].authorities,
                                   set_id      |-> pending_changes[n - k + 1].set_id]
           /\ applied' = applied \o [i \in 1 .. k |-> pending_changes[n + 1 - i]]
           /\ pending_changes' = SubSeq(pending_changes, 1, n - k)
  /\ UNCHANGED scheduled

\* apply_change, for the last of the k changes the loop takes off the queue; the
\* sets of the others are in force only within the call.
ProcessFinalizedBlock(number) ==
  /\ last_finalized' = number
  /\ \E k \in 0 .. Len(pending_changes) :
       /\ DuePrefix(k, number)
       /\ current_set' = IF k = 0 THEN current_set
                         ELSE [authorities |-> pending_changes[k].authorities,
                               set_id      |-> pending_changes[k].set_id]
       /\ applied' = applied \o SubSeq(pending_changes, 1, k)
       /\ pending_changes' = SubSeq(pending_changes, k + 1, Len(pending_changes))
  /\ UNCHANGED scheduled

Next ==
  \/ \E authorities \in AuthorityLists, at \in BlockNumbers : ScheduleChange(authorities, at)
  \/ \E number \in BlockNumbers : ProcessFinalizedBlock(number)

Spec == Init /\ [][Next]_vars

\* The chain goes on finalizing: again and again a block is finalized that is at
\* least as high as every scheduled change.
LatestNumber(n) == n \in BlockNumbers /\ \A m \in BlockNumbers : m <= n

FairSpec ==
  Spec /\ WF_vars(\E number \in BlockNumbers :
                    LatestNumber(number) /\ ProcessFinalizedBlock(number))

-----------------------------------------------------------------------------
\* Changes are applied in the order they were scheduled in, each exactly once,
\* and none is dropped, however many blocks finality skips or repeats
\* (src/finality/mod.rs:142-149).
AppliedInOrder == scheduled = applied \o pending_changes

\* No call takes the set id back: a change that waits behind one for a later block
\* carries an old number (src/finality/mod.rs:124), and it is taken off the queue
\* before every change with a newer one (src/finality/mod.rs:142).
SetIdNeverGoesBack == [][current_set'.set_id >= current_set.set_id]_vars

IsOrdered(changes) ==
  \A i, j \in DOMAIN changes : i <= j => changes[i].scheduled_at <= changes[j].scheduled_at

IsDue(change) == change.scheduled_at <= last_finalized

\* When changes are scheduled in the order of their blocks, no change that is
\* due survives the processing of a finalized block.
OrderedChangesAreApplied ==
  [][\A number \in BlockNumbers :
       ProcessFinalizedBlock(number) /\ IsOrdered(scheduled) =>
         \A i \in DOMAIN pending_changes' : ~ IsDue(pending_changes[i])']_vars

\* Every scheduled change is applied some day, also those behind a change for a
\* later block.
EveryChangeIsApplied ==
  \A n \in 1 .. MaxScheduled : Len(scheduled) >= n ~> Len(applied) >= n
=============================================================================
