SPECIFICATION Spec
CONSTANTS
  LenModulus = 256
  Typed = {"pattern", "stroke", "sep", "punct"}
  MaxLattice = 6
  MaxMixed = 3
  MaxSyls = 2
  MaxKeys = 2
INVARIANTS
  SegmentsCanonical
  LatticeFresh
  SentenceTiles
PROPERTY ChoicesStand
CHECK_DEADLOCK FALSE
