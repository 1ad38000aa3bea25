---------------------- MODULE AuthoritySetManagerProofs ----------------------
(***************************************************************************)
(* Theorems about AuthoritySetManager, for all lists, block numbers and     *)
(* lengths of the queue.                                                    *)
(***************************************************************************)
EXTENDS AuthoritySetManager, SequenceTheorems, TLAPS

-----------------------------------------------------------------------------
(* Sequences.                                                               *)

\* A sequence is its first k elements followed by the others.
LEMMA SplitSeq ==
  ASSUME NEW S, NEW s \in Seq(S), NEW k \in 0 .. Len(s)
  PROVE  /\ SubSeq(s, 1, k) \in Seq(S)
         /\ SubSeq(s, k + 1, Len(s)) \in Seq(S)
         /\ SubSeq(s, 1, k) \o SubSeq(s, k + 1, Len(s)) = s
<1>1. Len(s) \in Nat /\ k \in Nat /\ \A i \in 1 .. Len(s) : s[i] \in S
  BY LenProperties
<1>2. SubSeq(s, 1, k) \in Seq(S)
  <2>1. \A i \in 1 .. k : s[i] \in S
    BY <1>1
  <2>. QED  BY <1>1, <2>1, SubSeqProperties
<1>3. SubSeq(s, k + 1, Len(s)) \in Seq(S)
  <2>1. \A i \in k + 1 .. Len(s) : s[i] \in S
    BY <1>1
  <2>. QED  BY <1>1, <2>1, SubSeqProperties
<1>4. SubSeq(s, 1, k) \o SubSeq(s, k + 1, Len(s)) = SubSeq(s, 1, Len(s))
  <2>1. 1 \in 1 .. Len(s) + 1 /\ k \in 1 - 1 .. Len(s) /\ Len(s) \in k .. Len(s)
    BY <1>1
  <2>. QED  BY <2>1, ConcatAdjacentSubSeq
<1>. QED  BY <1>2, <1>3, <1>4, SubSeqFull

\* Concatenating and appending to the second of two queues of changes.
LEMMA ConcatChanges ==
  ASSUME NEW s \in Seq(AuthoritySetChange), NEW t \in Seq(AuthoritySetChange)
  PROVE  /\ \A u \in Seq(AuthoritySetChange) : (s \o t) \o u = s \o (t \o u)
         /\ \A e \in AuthoritySetChange : Append(s \o t, e) = s \o Append(t, e)
<1> DEFINE S == AuthoritySetChange
<1> HIDE DEF S
<1>1. \A x, y, z \in Seq(S) : (x \o y) \o z = x \o (y \o z)
  BY ConcatAssociative
<1>2. ASSUME NEW x \in Seq(S), NEW e \in S
      PROVE  Append(x, e) = x \o <<e>> /\ <<e>> \in Seq(S)
  <2>1. Append(x, e) = x \o <<e>>
    BY AppendIsConcat
  <2>. QED  BY <2>1
<1>3. \A x, y \in Seq(S) : x \o y \in Seq(S)
  BY ConcatProperties
<1>4. ASSUME NEW x \in Seq(S), NEW y \in Seq(S), NEW e \in S
      PROVE  Append(x \o y, e) = x \o Append(y, e)
  <2>1. x \o y \in Seq(S) /\ <<e>> \in Seq(S)
    BY <1>2, <1>3
  <2>2. Append(x \o y, e) = (x \o y) \o <<e>>
    BY <1>2, <2>1
  <2>3. (x \o y) \o <<e>> = x \o (y \o <<e>>)
    BY <1>1, <2>1
  <2>4. y \o <<e>> = Append(y, e)
    BY <1>2
  <2>. QED  BY <2>2, <2>3, <2>4
<1>. QED  BY <1>1, <1>4 DEF S

-----------------------------------------------------------------------------
(* Type correctness.                                                        *)

LEMMA QueueType ==
  ASSUME TypeOK
  PROVE  /\ Len(pending_changes) \in Nat
         /\ current_set.set_id \in Nat
         /\ \A i \in 1 .. Len(pending_changes) :
              pending_changes[i] \in AuthoritySetChange /\ pending_changes[i].set_id \in Nat
<1>1. pending_changes \in Seq(AuthoritySetChange) /\ current_set \in AuthoritySet
  BY DEF TypeOK
<1>2. Len(pending_changes) \in Nat
  BY <1>1
<1>3. \A i \in 1 .. Len(pending_changes) : pending_changes[i] \in AuthoritySetChange
  BY <1>1
<1>. QED  BY <1>1, <1>2, <1>3 DEF AuthoritySet, AuthoritySetChange

\* What the call takes off the queue, and what it leaves.
LEMMA ProcessedQueue ==
  ASSUME TypeOK, NEW k \in 0 .. Len(pending_changes)
  PROVE  /\ SubSeq(pending_changes, 1, k) \in Seq(AuthoritySetChange)
         /\ SubSeq(pending_changes, k + 1, Len(pending_changes)) \in Seq(AuthoritySetChange)
         /\ SubSeq(pending_changes, 1, k)
              \o SubSeq(pending_changes, k + 1, Len(pending_changes)) = pending_changes
BY SplitSeq DEF TypeOK

\* The changes behind the first k are the others, in their order.
LEMMA RestOfQueue ==
  ASSUME TypeOK, NEW k \in 0 .. Len(pending_changes), NEW rest,
         rest = SubSeq(pending_changes, k + 1, Len(pending_changes))
  PROVE  /\ Len(rest) = Len(pending_changes) - k
         /\ \A i \in 1 .. Len(pending_changes) - k : rest[i] = pending_changes[k + i]
<1> DEFINE n == Len(pending_changes)
<1>1. n \in Nat /\ \A i \in k + 1 .. n : pending_changes[i] \in AuthoritySetChange
  BY QueueType
<1>2. /\ Len(rest) = IF k + 1 <= n THEN n - (k + 1) + 1 ELSE 0
      /\ \A i \in 1 .. n - (k + 1) + 1 : rest[i] = pending_changes[(k + 1) + i - 1]
  BY <1>1, SubSeqProperties
<1>. QED  BY <1>1, <1>2

\* Every variable keeps its type in every step.
THEOREM TypeInvariant == Spec => []TypeOK
<1>1. Init => TypeOK
  BY ManagerAssumption DEF Init, TypeOK, AuthoritySet
<1>2. TypeOK /\ [Next]_vars => TypeOK'
  <2> SUFFICES ASSUME TypeOK, [Next]_vars PROVE TypeOK'
    OBVIOUS
  <2>1. ASSUME NEW authorities \in AuthorityLists, NEW at \in BlockNumbers,
               ScheduleChange(authorities, at)
        PROVE  TypeOK'
    <3>1. [set_id |-> current_set.set_id + 1, authorities |-> authorities,
           scheduled_at |-> at] \in AuthoritySetChange
      BY DEF TypeOK, AuthoritySet, AuthoritySetChange
    <3>. QED  BY <2>1, <3>1 DEF TypeOK, ScheduleChange
  <2>2. ASSUME NEW number \in BlockNumbers, ProcessFinalizedBlock(number)
        PROVE  TypeOK'
    <3>1. PICK k \in 0 .. Len(pending_changes) :
            /\ current_set' = IF k = 0 THEN current_set
                              ELSE [authorities |-> pending_changes[k].authorities,
                                    set_id      |-> pending_changes[k].set_id]
            /\ applied' = applied \o SubSeq(pending_changes, 1, k)
            /\ pending_changes' = SubSeq(pending_changes, k + 1, Len(pending_changes))
      BY <2>2 DEF ProcessFinalizedBlock
    <3>2. current_set' \in AuthoritySet
      <4>1. k # 0 => pending_changes[k] \in AuthoritySetChange
        BY DEF TypeOK
      <4>. QED  BY <3>1, <4>1 DEF TypeOK, AuthoritySet, AuthoritySetChange
    <3>3. applied' \in Seq(AuthoritySetChange) /\ pending_changes' \in Seq(AuthoritySetChange)
      BY <3>1, ProcessedQueue, ConcatProperties DEF TypeOK
    <3>4. last_finalized' \in Nat /\ scheduled' = scheduled
      BY <2>2, ManagerAssumption DEF ProcessFinalizedBlock
    <3>. QED  BY <3>2, <3>3, <3>4 DEF TypeOK
  <2>3. CASE UNCHANGED vars
    BY <2>3 DEF vars, TypeOK
  <2>. QED  BY <2>1, <2>2, <2>3 DEF Next
<1>. QED  BY <1>1, <1>2, PTL DEF Spec

-----------------------------------------------------------------------------
(* Nothing is lost.                                                         *)

\* The changes applied so far, followed by the queue, are the changes scheduled.
THEOREM AppliedInOrderHolds == Spec => []AppliedInOrder
<1>1. Init => AppliedInOrder
  BY DEF Init, AppliedInOrder
<1>2. TypeOK /\ AppliedInOrder /\ [Next]_vars => AppliedInOrder'
  <2> SUFFICES ASSUME TypeOK, AppliedInOrder, [Next]_vars PROVE AppliedInOrder'
    OBVIOUS
  <2>1. ASSUME NEW authorities \in AuthorityLists, NEW at \in BlockNumbers,
               ScheduleChange(authorities, at)
        PROVE  AppliedInOrder'
    <3> DEFINE change == [set_id |-> current_set.set_id + 1, authorities |-> authorities,
                          scheduled_at |-> at]
    <3>1. change \in AuthoritySetChange
      BY DEF TypeOK, AuthoritySet, AuthoritySetChange
    <3>2. /\ pending_changes' = Append(pending_changes, change)
          /\ scheduled' = Append(scheduled, change)
          /\ applied' = applied
      BY <2>1 DEF ScheduleChange
    <3> HIDE DEF change
    <3>3. Append(applied \o pending_changes, change) = applied \o Append(pending_changes, change)
      <4>1. applied \in Seq(AuthoritySetChange) /\ pending_changes \in Seq(AuthoritySetChange)
        BY DEF TypeOK
      <4>. QED  BY <3>1, <4>1, ConcatChanges
    <3>. QED  BY <3>2, <3>3 DEF AppliedInOrder
  <2>2. ASSUME NEW number \in BlockNumbers, ProcessFinalizedBlock(number)
        PROVE  AppliedInOrder'
    <3>1. PICK k \in 0 .. Len(pending_changes) :
            /\ applied' = applied \o SubSeq(pending_changes, 1, k)
            /\ pending_changes' = SubSeq(pending_changes, k + 1, Len(pending_changes))
      BY <2>2 DEF ProcessFinalizedBlock
    <3> DEFINE front == SubSeq(pending_changes, 1, k)
               back == SubSeq(pending_changes, k + 1, Len(pending_changes))
    <3>2. /\ front \in Seq(AuthoritySetChange) /\ back \in Seq(AuthoritySetChange)
          /\ front \o back = pending_changes
      BY ProcessedQueue
    <3>3. applied' = applied \o front /\ pending_changes' = back
      BY <3>1
    <3> HIDE DEF front, back
    <3>4. applied' \o pending_changes' = applied \o pending_changes
      <4>1. applied \in Seq(AuthoritySetChange)
        BY DEF TypeOK
      <4>2. (applied \o front) \o back = applied \o (front \o back)
        BY <3>2, <4>1, ConcatChanges
      <4>. QED  BY <3>2, <3>3, <4>2
    <3>. QED  BY <2>2, <3>4 DEF AppliedInOrder, ProcessFinalizedBlock
  <2>3. CASE UNCHANGED vars
    BY <2>3 DEF vars, AppliedInOrder
  <2>. QED  BY <2>1, <2>2, <2>3 DEF Next
<1>. QED  BY <1>1, <1>2, TypeInvariant, PTL DEF Spec

-----------------------------------------------------------------------------
(* The set id.                                                              *)

\* A queued change was numbered after the set in force when it was scheduled.
\* Since then the id in force has stayed or become the id of a queued change,
\* so that only two ids are ever in the queue, in ascending order.
QueuedIds ==
  /\ \A i \in 1 .. Len(pending_changes) :
       pending_changes[i].set_id \in {current_set.set_id, current_set.set_id + 1}
  /\ \A i, j \in 1 .. Len(pending_changes) :
       i <= j => pending_changes[i].set_id <= pending_changes[j].set_id

LEMMA ScheduleKeepsQueuedIds ==
  ASSUME TypeOK, QueuedIds, NEW authorities \in AuthorityLists, NEW at \in BlockNumbers,
         ScheduleChange(authorities, at)
  PROVE  QueuedIds' /\ current_set' = current_set
<1> DEFINE change == [set_id |-> current_set.set_id + 1, authorities |-> authorities,
                      scheduled_at |-> at]
           n == Len(pending_changes)
<1>1. /\ n \in Nat /\ current_set.set_id \in Nat
      /\ \A i \in 1 .. n : pending_changes[i].set_id \in Nat
  BY QueueType
<1>2. /\ Len(pending_changes') = n + 1
      /\ pending_changes'[n + 1] = change
      /\ \A i \in 1 .. n : pending_changes'[i] = pending_changes[i]
      /\ current_set' = current_set
  BY DEF ScheduleChange, TypeOK
<1>3. change.set_id = current_set.set_id + 1
  OBVIOUS
<1> HIDE DEF change, n
<1>4. \A i \in 1 .. n + 1 :
        pending_changes'[i].set_id \in {current_set.set_id, current_set.set_id + 1}
  BY <1>1, <1>2, <1>3 DEF QueuedIds, n
<1>5. \A i, j \in 1 .. n + 1 :
        i <= j => pending_changes'[i].set_id <= pending_changes'[j].set_id
  BY <1>1, <1>2, <1>3, <1>4 DEF QueuedIds, n
<1>. QED  BY <1>2, <1>4, <1>5 DEF QueuedIds

LEMMA ProcessKeepsQueuedIds ==
  ASSUME TypeOK, QueuedIds, NEW number \in BlockNumbers, ProcessFinalizedBlock(number)
  PROVE  /\ QueuedIds'
         /\ current_set'.set_id \in {current_set.set_id, current_set.set_id + 1}
<1> DEFINE n == Len(pending_changes)
<1>1. PICK k \in 0 .. n :
        /\ current_set' = IF k = 0 THEN current_set
                          ELSE [authorities |-> pending_changes[k].authorities,
                                set_id      |-> pending_changes[k].set_id]
        /\ pending_changes' = SubSeq(pending_changes, k + 1, n)
  BY DEF ProcessFinalizedBlock
<1>2. /\ n \in Nat /\ current_set.set_id \in Nat
      /\ \A i \in 1 .. n : pending_changes[i].set_id \in Nat
  BY QueueType
<1>3. /\ Len(pending_changes') = n - k
      /\ \A i \in 1 .. n - k : pending_changes'[i] = pending_changes[k + i]
  BY <1>1, RestOfQueue
<1>4. current_set'.set_id = IF k = 0 THEN current_set.set_id ELSE pending_changes[k].set_id
  BY <1>1
<1>5. current_set'.set_id \in {current_set.set_id, current_set.set_id + 1}
  BY <1>2, <1>4 DEF QueuedIds
<1> HIDE DEF n
<1>6. \A i \in 1 .. n - k :
        pending_changes'[i].set_id \in {current_set'.set_id, current_set'.set_id + 1}
  <2> SUFFICES ASSUME NEW i \in 1 .. n - k
               PROVE  pending_changes[k + i].set_id
                        \in {current_set'.set_id, current_set'.set_id + 1}
    BY <1>3
  <2>1. k + i \in 1 .. n
    BY <1>2
  <2>2. pending_changes[k + i].set_id \in {current_set.set_id, current_set.set_id + 1}
    BY <2>1 DEF QueuedIds, n
  <2>3. k # 0 => /\ pending_changes[k].set_id \in {current_set.set_id, current_set.set_id + 1}
                 /\ pending_changes[k].set_id <= pending_changes[k + i].set_id
    <3>1. k # 0 => k \in 1 .. n /\ k <= k + i
      BY <1>2
    <3>. QED  BY <2>1, <3>1 DEF QueuedIds, n
  <2>. QED  BY <1>2, <1>4, <2>2, <2>3
<1>7. \A i, j \in 1 .. n - k :
        i <= j => pending_changes'[i].set_id <= pending_changes'[j].set_id
  <2> SUFFICES ASSUME NEW i \in 1 .. n - k, NEW j \in 1 .. n - k, i <= j
               PROVE  pending_changes[k + i].set_id <= pending_changes[k + j].set_id
    BY <1>3
  <2>1. k + i \in 1 .. n /\ k + j \in 1 .. n /\ k + i <= k + j
    BY <1>2
  <2>. QED  BY <2>1 DEF QueuedIds, n
<1>. QED  BY <1>3, <1>5, <1>6, <1>7 DEF QueuedIds

\* In no step of any behaviour does the set id go back (src/finality/mod.rs:124, :142).
THEOREM SetIdNeverGoesBackHolds == Spec => SetIdNeverGoesBack
<1>1. Init => QueuedIds
  BY DEF Init, QueuedIds
<1>2. TypeOK /\ QueuedIds /\ [Next]_vars =>
        /\ QueuedIds'
        /\ current_set'.set_id >= current_set.set_id
  <2> SUFFICES ASSUME TypeOK, QueuedIds, [Next]_vars
               PROVE  /\ QueuedIds'
                      /\ current_set'.set_id >= current_set.set_id
    OBVIOUS
  <2>1. CASE \E authorities \in AuthorityLists, at \in BlockNumbers :
               ScheduleChange(authorities, at)
    BY <2>1, ScheduleKeepsQueuedIds, QueueType
  <2>2. CASE \E number \in BlockNumbers : ProcessFinalizedBlock(number)
    BY <2>2, ProcessKeepsQueuedIds, QueueType
  <2>3. CASE UNCHANGED vars
    BY <2>3, QueueType DEF vars, QueuedIds
  <2>. QED  BY <2>1, <2>2, <2>3 DEF Next
<1>. QED  BY <1>1, <1>2, TypeInvariant, PTL DEF Spec, SetIdNeverGoesBack

-----------------------------------------------------------------------------
(* Nothing due is left behind.                                              *)

\* The queue is the end of what was scheduled, and so ordered if that is.
LEMMA QueueIsOrdered ==
  ASSUME TypeOK, AppliedInOrder, IsOrdered(scheduled)
  PROVE  \A i, j \in 1 .. Len(pending_changes) :
           i <= j => pending_changes[i].scheduled_at <= pending_changes[j].scheduled_at
<1>1. /\ Len(applied) \in Nat /\ Len(pending_changes) \in Nat
      /\ Len(scheduled) = Len(applied) + Len(pending_changes)
      /\ \A i \in 1 .. Len(pending_changes) :
           scheduled[Len(applied) + i] = pending_changes[i]
  BY DEF TypeOK, AppliedInOrder
<1>2. DOMAIN scheduled = 1 .. Len(scheduled)
  BY DEF TypeOK
<1> SUFFICES ASSUME NEW i \in 1 .. Len(pending_changes), NEW j \in 1 .. Len(pending_changes),
                    i <= j
             PROVE  pending_changes[i].scheduled_at <= pending_changes[j].scheduled_at
  OBVIOUS
<1>3. /\ Len(applied) + i \in DOMAIN scheduled
      /\ Len(applied) + j \in DOMAIN scheduled
      /\ Len(applied) + i <= Len(applied) + j
  BY <1>1, <1>2
<1>4. scheduled[Len(applied) + i].scheduled_at <= scheduled[Len(applied) + j].scheduled_at
  BY <1>3 DEF IsOrdered
<1>. QED  BY <1>1, <1>4

\* While changes are scheduled in the order of their blocks, the loop over the front of
\* the queue misses no change that is due (src/finality/mod.rs:142-149).
THEOREM OrderedChangesAreAppliedHolds == Spec => OrderedChangesAreApplied
<1>1. ASSUME TypeOK, AppliedInOrder, NEW number \in BlockNumbers,
             ProcessFinalizedBlock(number), IsOrdered(scheduled)
      PROVE  \A i \in DOMAIN pending_changes' : ~ IsDue(pending_changes[i])'
  <2>1. PICK k \in 0 .. Len(pending_changes) :
          /\ DuePrefix(k, number)
          /\ pending_changes' = SubSeq(pending_changes, k + 1, Len(pending_changes))
    BY <1>1 DEF ProcessFinalizedBlock
  <2> DEFINE n == Len(pending_changes)
  <2>2. /\ n \in Nat
        /\ \A i \in 1 .. n : pending_changes[i].scheduled_at \in Nat
    BY <1>1, QueueType, ManagerAssumption DEF AuthoritySetChange
  <2>3. /\ DOMAIN pending_changes' = 1 .. n - k
        /\ \A i \in 1 .. n - k : pending_changes'[i] = pending_changes[k + i]
    <3>1. pending_changes' \in Seq(AuthoritySetChange)
      BY <1>1, <2>1, ProcessedQueue
    <3>2. /\ Len(pending_changes') = n - k
          /\ \A i \in 1 .. n - k : pending_changes'[i] = pending_changes[k + i]
      BY <1>1, <2>1, RestOfQueue
    <3>. QED  BY <3>1, <3>2
  <2>4. last_finalized' = number /\ number \in Nat
    BY <1>1, ManagerAssumption DEF ProcessFinalizedBlock
  <2> SUFFICES ASSUME NEW i \in 1 .. n - k
               PROVE  ~ (pending_changes[k + i].scheduled_at <= number)
    BY <2>3, <2>4 DEF IsDue
  <2>5. k + 1 \in 1 .. n /\ k + i \in 1 .. n /\ k + 1 <= k + i /\ k < n
    BY <2>2
  <2>6. pending_changes[k + 1].scheduled_at > number
    BY <2>1, <2>5 DEF DuePrefix
  <2>7. pending_changes[k + 1].scheduled_at <= pending_changes[k + i].scheduled_at
    BY <1>1, <2>5, QueueIsOrdered
  <2>. QED  BY <2>2, <2>4, <2>5, <2>6, <2>7
<1>2. TypeOK /\ AppliedInOrder =>
        [\A number \in BlockNumbers :
           ProcessFinalizedBlock(number) /\ IsOrdered(scheduled) =>
             \A i \in DOMAIN pending_changes' : ~ IsDue(pending_changes[i])']_vars
  BY <1>1
<1>. QED  BY <1>2, TypeInvariant, AppliedInOrderHolds, PTL DEF OrderedChangesAreApplied
=============================================================================
