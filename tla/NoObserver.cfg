SPECIFICATION Spec
CONSTANTS
  t1 = t1
  t2 = t2
  nameless = nameless
  Executors = {e1, e2}
  Targets <- MCTargets
  NamedTargets <- MCNamedTargets
  VoterSetAnswers <- RefusesNobody
  MaxPushes = 4
  MaxStarts = 3
INVARIANT
  ObserverIsInitialized
