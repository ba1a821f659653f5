SPECIFICATION Spec
CONSTANTS
  MaxRequests = 4
  MaxFound = 1
INVARIANTS
  TypeOK
  MappingIsOfShownResult
  NothingLeftBehind
  NeverAnOlderMapping
