SPECIFICATION Spec
CONSTANTS
  a = a
  b = b
  Symbols <- MCSymbols
  Texts <- MCTexts
  Types = {"PERSON", "CITY"}
  Scores = {1, 2}
  MaxResults = 3
INVARIANTS
  TypeOK
  AcceptedDisjoint
  DroppedForCause
  PlaceholdersConsistent
  NumberedLeftToRight
  PendingSpansIntact
PROPERTY
  ImplementsContract
