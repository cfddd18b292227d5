SPECIFICATION Spec
CONSTANTS
  EnvKeys = {k1}
  NoKey = NoKey
  Unlimited = Unlimited
  NoBlock = NoBlock
  NoBuf = NoBuf
  MaxEnvEntries = Unlimited
  MaxMultiLineLines = Unlimited
  Commands = {"SetVersionBelow4", "Status"}
  EventClasses = {}
  BodyClasses = {"text"}
  MaxRejects = 0
  MaxCommands = 2
  MaxBody = 1
  MaxEvents = 1
  MaxEnvLines = 1
INVARIANTS AnswersRecognised
CHECK_DEADLOCK FALSE
