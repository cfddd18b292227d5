SPECIFICATION FairSpec
CONSTANTS
  EnvKeys = {k1, k2}
  NoKey = NoKey
  Unlimited = Unlimited
  NoBlock = NoBlock
  NoBuf = NoBuf
  MaxEnvEntries = Unlimited
  MaxMultiLineLines = 2
  Commands = {"Pid", "Status", "Quit"}
  EventClasses = {"info"}
  BodyClasses = {"text", "empty"}
  MaxRejects = 0
  MaxCommands = 2
  MaxBody = 2
  MaxEvents = 1
  MaxEnvLines = 2
INVARIANTS RepliesMatch NothingInvented BlocksWhole
PROPERTIES ImplementsChannel EveryCommandAnswered
CHECK_DEADLOCK FALSE
