SPECIFICATION FairSpec
CONSTANTS
  CommandCapacity = 32
  EventCapacity = 128
  HistoryLimit = 100
  RefreshCommands = 6
  Options <- MCOptions
  Commands = {}
  Interludes = {}
  MaxPresses = 7
  MaxTyped = 0
  MaxInputs = 7
  MaxInterludes = 0
  MaxFaults = 0
PROPERTIES GivenUpWhenExited
CHECK_DEADLOCK FALSE
