SPECIFICATION Spec
CONSTANTS
  Docs <- FiveDocs
  Volatile <- Ends
  Keys <- ThreeKeys
  BatchSize = 2
  MaxCalls = 1
  MaxCursors = 3
INVARIANTS
  SelectsAllRecords
