SPECIFICATION Spec
CONSTANTS
  Types = {"PERSON"}
  Values = {"v", "w"}
  Formats = {"json"}
  MaxChunks = 2
  MaxFound = 1
  Layouts <- MCSharedPaths
  Letters = 2
  MaxDepth = 2
  MaxCells = 3
INVARIANT
  LeavesStayInPlace
