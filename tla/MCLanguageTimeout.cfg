SPECIFICATION Spec
CONSTANTS
  r1 = r1
  r2 = r2
  r3 = r3
  Requests <- MCRequests
  Documents <- MCDocuments
  Workers = 1
  Codes = {"en", "de"}
  Mapped = {"en", "de"}
PROPERTY
  KnownLanguageKept
