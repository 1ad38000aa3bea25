SPECIFICATION WaitFairSpec
CONSTANTS
  g = g
  a1 = a1
  a2 = a2
  b1 = b1
  v1 = v1
  v2 = v2
  v3 = v3
  Genesis = g
  Blocks <- MCBlocks
  Parent <- MCParent
  Number <- MCNumber
  None = none
  Callers = {c1}
  Authorities <- MCAuthorities
  AuthorityLists <- FixedOrRefused
  Justifications <- MCJustifications
  MaxU64 = 4
  ConfidenceThreshold = 61
  MinConfirmations = 1
  ParamsMinConfirmations = 2
  ParamsMinParticipation = 67
  MaxForkDepth = 1
INVARIANTS
  WaitTypeOK
  OkIsBuried
  TimeoutMeansUnripe
PROPERTY
  EveryWaitEnds
