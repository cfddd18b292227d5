SPECIFICATION FairSpec
CONSTANTS
  CommandCapacity = 2
  EventCapacity = 2
  HistoryLimit = 1
  RefreshCommands = 2
  Options <- MCOptions
  Commands = {"Query", "Exit"}
  Interludes = {"PasswordPrompt", "Unrecognized"}
  MaxPresses = 3
  MaxTyped = 2
  MaxInputs = 4
  MaxInterludes = 1
  MaxFaults = 1
INVARIANTS ConnectionInv AppAgrees LastWish OneAtATime FreshSession OwnResponse StartupInOrder
PROPERTIES ConnectingEnds DisconnectTaken
CHECK_DEADLOCK FALSE
