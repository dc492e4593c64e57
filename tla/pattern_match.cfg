\* Patterns of up to three pieces with every address of up to four characters.
SPECIFICATION FairSpec
CONSTANTS
  Patterns <- MCPatterns
  Inputs <- MCInputs
INVARIANT PatternInv
INVARIANT InBounds
INVARIANT MatchIsRight
INVARIANT NoMatchIsRight
PROPERTY CallsReturn
