SPECIFICATION Spec
CONSTANTS
  api = api
  web = web
  ApiRequests <- MCApi
  WebRequests <- MCWeb
  Operations = {"detect", "anonymize"}
  Supported = {"en", "de"}
  Languages = {"de", "xx"}
  Fallback = "en"
  Findings <- MCFindings
  InstanceLists <- MCInstanceLists
  TermLists <- MCTermLists
  InstanceFloors <- MCInstanceFloors
  RequestFloors <- MCRequestFloors
  DefaultThreshold = 1
  RequestThresholds <- MCThresholds
  Words = {"", "ann", "bonn", "cy", "long"}
  MaxTerms = 2
  LongWords = {"long"}
  AuditFile = TRUE
  MaxSetups = 2
INVARIANTS
  TypeOK
  SameByEveryRoute
  EveryOmissionExplained
  MergedListsOrdered
  StatusExplained
  AuditedOnce
  HandlersAccounted
