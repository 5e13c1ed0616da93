SPECIFICATION Spec
CONSTANTS
  SlmStates = {s1, s2, s3, s4, s5}
  Scores = {1, 2, 3}
  BeamWidth = 4
  MaxBests = {1, 2}
SYMMETRY Symmetry
INVARIANTS
  HeapCoversMap
  BestOfEachKept
