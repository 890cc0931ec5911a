SPECIFICATION Spec
CONSTANTS
  c1 = c1  c2 = c2  k1 = k1  k2 = k2
  Null = Null
  Clients = {c1, c2}
  Collections <- MCCollections
  Keys = {k1, k2}
  Handles <- MCHandles
  Initially <- MCInitially
  MaxCalls <- OneEach
INVARIANTS TypeOK ReadWasTrue ReturnedIdWasWritten ThrowMeansNoWrite FailsOnlyIfAbsent WritesWhatHandleNames
