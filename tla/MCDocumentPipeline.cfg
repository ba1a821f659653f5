SPECIFICATION Spec
CONSTANTS
  Types = {"PERSON", "CITY"}
  Values = {"v", "w"}
  Formats = {"text", "csv", "json", "xlsx"}
  MaxChunks = 3
  MaxFound = 2
  Layouts <- MCLayouts
  Letters = 2
  MaxDepth = 2
  MaxCells = 3
INVARIANTS
  TypeOK
  UnifiedPlaceholders
  NumberedInDocumentOrder
  EachCellItsOwn
  RawTextOnlyWhereKnown
