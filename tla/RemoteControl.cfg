SPECIFICATION FairSpec
CONSTANTS
  MaxCommands = 2
  MaxFaults = 1
INVARIANT TypeOK
INVARIANT CommandRules
PROPERTY CommandsKept
PROPERTY EveryCommandSettles
PROPERTY ScreenConverges
CHECK_DEADLOCK FALSE
