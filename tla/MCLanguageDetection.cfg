SPECIFICATION Spec
CONSTANTS
  r1 = r1
  r2 = r2
  r3 = r3
  Requests <- MCRequests
  Documents <- MCDocuments
  Workers = 2
  Codes = {"en", "de", "xx"}
  Mapped = {"en", "de"}
INVARIANTS
  TypeOK
  AnswerUsable
  DetectorsBounded
PROPERTIES
  NoWorkForTheAnswered
  EveryCallReturns
  QueueDrains
