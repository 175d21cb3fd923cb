CONSTANTS
  Ask <- MCAsk
  Target <- MCTarget
  Intercepts = TRUE
SPECIFICATION HttpFairSpec
INVARIANTS AnswersMatch OnlySparesLeft
PROPERTIES HandleMovesOn
CHECK_DEADLOCK FALSE
