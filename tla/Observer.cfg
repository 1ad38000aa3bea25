SPECIFICATION ObserverSpec
CONSTANTS
  g = g
  a1 = a1
  a2 = a2
  v1 = v1
  pallet = pallet
  call_a = call_a
  call_b = call_b
  hash_a = hash_a
  Genesis = g
  Blocks <- MCBlocks
  Parent <- MCParent
  Number <- MCNumber
  Justifications <- NoJustifications
  None = none
  Callers = {worker, task}
  Authorities <- MCAuthorities
  AuthorityLists <- MCLists
  MaxU64 = 1
  ConfidenceThreshold = 95
  MinConfirmations = 1
  ParamsMinConfirmations = 2
  ParamsMinParticipation = 67
  MaxForkDepth = 1
  Worker = worker
  Names <- MCNames
  Empty = empty
  NoHash = noHash
  Targets <- ThreeTargets
  Events <- MCEvents
  HasRouter = TRUE
  MaxTargets = 2
INVARIANTS
  ObserverTypeOK
  RoutedIsBuried
  OkServesEveryTarget
  ServedInOrder
  RipeBlocksAreProved
