SPECIFICATION Spec
CONSTANTS
  g = g
  a1 = a1
  a2 = a2
  a3 = a3
  b1 = b1
  v1 = v1
  v2 = v2
  v3 = v3
  Genesis = g
  Blocks <- ShortBlocks
  Parent <- ShortParent
  Number <- ShortNumber
  None = none
  Callers = {c1}
  Authorities <- MCAuthorities
  AuthorityLists <- FixedList
  Justifications <- TwoVotes
  MaxU64 = 4
  ConfidenceThreshold = 95
  MinConfirmations = 1
  ParamsMinConfirmations = 2
  ParamsMinParticipation = 67
  MaxForkDepth = 3
INVARIANT
  FinalOnFinalizedChain
