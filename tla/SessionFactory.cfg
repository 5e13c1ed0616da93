SPECIFICATION Spec
CONSTANTS
  Engines = {e1, e2}
  Addresses = {11, 12, 13, 14}
  Commits = {c1, c2}
  None = None
  Gone = Gone
SYMMETRY Symmetry
INVARIANTS
  EarlierRunsKept
  OneHistoryPerRun
  EngineWired
