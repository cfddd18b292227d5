SPECIFICATION ConsoleSpec
CONSTANTS
  Modes = {"Sanitize"}
  Inputs <- MCRawProtocols
  TypedLines <- MCNone
  Later <- MCNone
  Fields <- MCNone
  MaxCommands = 2
INVARIANTS RequestPerCommand
CHECK_DEADLOCK FALSE
