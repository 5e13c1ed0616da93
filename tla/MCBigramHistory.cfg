SPECIFICATION MCSpec
CONSTANTS
  w0 = w0
  w1 = w1
  Words = {w0, w1}
  Unknown = w0
  UserWords = {w1}
  DCWID = DC
  Streams <- MCStreams
  Cap = 4
  ShortTerm = 1
  MaxFreq = 2
INVARIANTS
  CountsCoverMemory
  PairsCoverMemory
  ForgottenWithinRun
