SPECIFICATION Spec
CONSTANTS
  xhDataMaps <- MCXhDataMaps
  MaxStrokeModulus = 8
  WordIdModulus = 4096
  Setups <- MCSetups
  Lexicon <- MCLexicon
  Words <- MCWords
  MaxKeys = 7
  LenModulus = 256
INVARIANTS
  XhWordsFound
  FullSpellingFinds
CHECK_DEADLOCK FALSE
