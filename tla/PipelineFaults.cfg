SPECIFICATION Spec
CONSTANTS
  EnvKeys = {k1}
  NoKey = NoKey
  Unlimited = Unlimited
  NoBlock = NoBlock
  NoBuf = NoBuf
  MaxEnvEntries = 0
  MaxMultiLineLines = 2
  Commands = {"NeedStr", "RawMultiLine"}
  EventClasses = {"garbage", "malformed"}
  BodyClasses = {"text", "garbage"}
  MaxRejects = 1
  MaxCommands = 2
  MaxBody = 3
  MaxEvents = 1
  MaxEnvLines = 1
INVARIANTS FaultInv BackInStep NeverMixed
CHECK_DEADLOCK FALSE
