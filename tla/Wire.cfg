SPECIFICATION ConsoleSpec
CONSTANTS
  Modes = {"Sanitize", "Strict"}
  Inputs <- MCInputs
  TypedLines <- MCTyped
  Later <- MCLater
  Fields <- MCFields
  MaxCommands = 2
INVARIANTS WireInv OneRequestEach ArgumentsWhole ParsedBack OnlyTyped LabelsTell
CHECK_DEADLOCK FALSE
