SPECIFICATION Spec
CONSTANTS
  Symbols = {"<", ">", "0", "1", "x"}
  Open = "<"
  Close = ">"
  Keys <- MCKeys
  Values <- MCValues
  MaxText = 6
  MaxMappings = 2
INVARIANTS
  RestoredInOnePass
  ReplacementsCounted
