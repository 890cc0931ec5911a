SPECIFICATION FairSpec
CONSTANTS
  Docs <- FiveDocs
  Volatile <- Ends
  Keys <- ThreeKeys
  BatchSize = 2
  MaxCalls = 2
  MaxCursors = 3
INVARIANTS
  TypeOK
  DeliveredInOrder
  DeliveredFromSnapshot
  ReturnIsComplete
  CleanReturnLeavesNoCursor
PROPERTIES
  AnsweredCallsEnd
