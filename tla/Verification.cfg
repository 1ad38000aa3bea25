SPECIFICATION CacheSpec
CONSTANTS
  g = g
  a1 = a1
  v1 = v1
  v2 = v2
  Genesis = g
  Blocks <- MCBlocks
  Parent <- MCParent
  Number <- MCNumber
  None = none
  Authorities <- MCAuthorities
  AuthorityLists <- MCLists
  Justifications <- MCJustifications
  MaxU64 = 2
  ConfidenceThreshold = 95
  MinConfirmations = 1
  ParamsMinConfirmations = 2
  ParamsMinParticipation = 67
  MaxForkDepth = 50
  Updaters = {u1}
  RuntimeList <- MCRuntimeList
  Lookers = {l1, l2}
  NoEntry = noEntry
  FreshFor = 1
  KeepFor = 2
INVARIANTS
  CacheTypeOK
  AnswersDoNotOverstate
  EntriesAreContemporary
SYMMETRY Interchangeable
