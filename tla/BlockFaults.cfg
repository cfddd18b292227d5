SPECIFICATION Spec
CONSTANTS
  EnvKeys = {k1, k2}
  NoKey = NoKey
  Unlimited = Unlimited
  NoBlock = NoBlock
  NoBuf = NoBuf
  MaxEnvEntries = 1
  MaxMultiLineLines = Unlimited
  Commands = {"Status", "Pkcs11IdGet"}
  EventClasses = {"garbage", "address", "prompt"}
  BodyClasses = {"text"}
  MaxRejects = 0
  MaxCommands = 1
  MaxBody = 1
  MaxEvents = 3
  MaxEnvLines = 2
INVARIANTS EventsComplete
CHECK_DEADLOCK FALSE
