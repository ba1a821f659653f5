SPECIFICATION Spec
CONSTANTS
  Types = {"PERSON"}
  Values = {"v"}
  Formats = {"json"}
  MaxChunks = 2
  MaxFound = 1
  Layouts <- MCLayouts
  Letters = 2
  MaxDepth = 2
  MaxCells = 3
INVARIANT
  SkippedTextWithheld
