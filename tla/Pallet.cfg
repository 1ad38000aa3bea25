SPECIFICATION FairSpec
CONSTANTS
  t1 = t1
  t2 = t2
  nameless = nameless
  Executors = {e1, e2}
  Targets <- MCTargets
  NamedTargets <- MCNamedTargets
  VoterSetAnswers <- EitherAnswer
  MaxPushes = 4
  MaxStarts = 3
INVARIANTS
  TypeOK
  OnePanicPerProcess
PROPERTY
  BlocksAreExecuted
