SPECIFICATION GenerationSpec
CONSTANTS
  g = g
  a1 = a1
  Genesis = g
  Blocks <- MCBlocks
  Parent <- MCParent
  Number <- MCNumber
  Justifications <- NoJustifications
  None = none
  NoBlock = noBlock
  ChunkSize = 2
  Hash <- MCHash
  Requesters = {r1, r2}
  Transitions <- MCTransitions
  ProofSizes <- MCProofSizes
  SizeLimits = {1, 2}
SYMMETRY Symmetry
INVARIANTS
  GenerationTypeOK
  RootCommitsToData
  OnlyDefectsAreRefused
