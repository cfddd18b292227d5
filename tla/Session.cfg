SPECIFICATION FairSession
CONSTANTS
  EnvKeys = {}
  NoKey = NoKey
  Unlimited = Unlimited
  NoBlock = NoBlock
  NoBuf = NoBuf
  MaxEnvEntries = Unlimited
  MaxMultiLineLines = Unlimited
  Commands = {"History", "NeedStr", "Exit"}
  EventClasses = {"note", "prompt", "garbage"}
  BodyClasses = {"text"}
  MaxRejects = 1
  MaxCommands = 2
  MaxBody = 1
  MaxEvents = 2
  MaxEnvLines = 1
  MaxCancels = 1
INVARIANTS SessionInv OwnAnswer KindMatches MatchUntilFailure NothingLost
PROPERTIES CallReturns
CHECK_DEADLOCK FALSE
