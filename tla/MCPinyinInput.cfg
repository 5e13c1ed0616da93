SPECIFICATION Spec
CONSTANTS
  Letters <- MCLetters
  Syllables <- MCSyllables
  MapInitials <- MCMapInitials
  MapFinals <- MCMapFinals
  ZeroInitials <- MCZeroInitials
  CorrectionPairs <- MCCorrectionPairs
  Setups <- MCSetups
  UserWords <- MCUserWords
  MaxUsrdefLen = 2
  MaxStringCount = 6
  Semicolon = TRUE
  MaxKeys = 5
INVARIANTS
  TrieHoldsWords
  SegmentsTile
  WordsFound
  EditsAsTyped
CHECK_DEADLOCK FALSE
PROPERTIES
  ChangeReported
