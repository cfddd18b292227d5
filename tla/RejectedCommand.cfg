SPECIFICATION Spec
CONSTANTS
  EnvKeys = {k1}
  NoKey = NoKey
  Unlimited = Unlimited
  NoBlock = NoBlock
  NoBuf = NoBuf
  MaxEnvEntries = Unlimited
  MaxMultiLineLines = Unlimited
  Commands = {"NeedStr", "Status"}
  EventClasses = {}
  BodyClasses = {"text"}
  MaxRejects = 1
  MaxCommands = 2
  MaxBody = 1
  MaxEvents = 1
  MaxEnvLines = 1
INVARIANTS AnswersRecognised
CHECK_DEADLOCK FALSE
