CONSTANTS
    N = 3
    WordCount = 4
    Breakers = {2}
    Excluded = {1}
    CutOff <- MCCutOff
    Corpora <- MCCorpora
    ParaMax = 2
    MaxCut = 2
    Milestones <- MCMilestones
    BowLimit = 3
    Lexicon <- MCLexicon
    RealWordStart = 3
    Stok = 2
    Ambi = 1
    Sentences <- MCSentences
    Words3 = {1, 2, 3}
    MaxWords = 5
SPECIFICATION Spec
INVARIANTS
    CountsOccurrences
    TreeHoldsNgrams
    Normalised
    ThreadedAgrees
    TableFaithful
    BestSegmentation
CHECK_DEADLOCK FALSE
