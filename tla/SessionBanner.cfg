SPECIFICATION SessionSpec
CONSTANTS
  EnvKeys = {}
  NoKey = NoKey
  Unlimited = Unlimited
  NoBlock = NoBlock
  NoBuf = NoBuf
  MaxEnvEntries = Unlimited
  MaxMultiLineLines = Unlimited
  Commands = {"Version"}
  EventClasses = {"info"}
  BodyClasses = {"text"}
  MaxRejects = 0
  MaxCommands = 2
  MaxBody = 1
  MaxEvents = 1
  MaxEnvLines = 1
  MaxCancels = 0
INVARIANTS NoSurprise
CHECK_DEADLOCK FALSE
