CONSTANTS
  MaxGen = 3
  MaxKills = 3
SPECIFICATION RootSpec
INVARIANTS KillsAreHarmless RootIsStable
