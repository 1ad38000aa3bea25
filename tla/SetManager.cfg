SPECIFICATION FairSpec
CONSTANTS
  AuthorityLists = {listA, listB}
  InitialList = listA
  InitialSetId = 0
  BlockNumbers <- MCBlockNumbers
  MaxScheduled = 3
INVARIANTS
  TypeOK
  AppliedInOrder
PROPERTIES
  SetIdNeverGoesBack
  OrderedChangesAreApplied
  EveryChangeIsApplied
