SPECIFICATION FairSpec
CONSTANTS
  k1 = k1  a = a  b = b
  Null = Null
  Collections = {1, 2}
  VertexCollections <- MCVertexCollections
  VertexKeys = {k1}
  Edges <- MCEdges
  Ids <- MCIds
  FullLists <- MCFullLists
  MaxCalls = 1
INVARIANTS TypeOK ReturnMeansGone LeftInUnfinished NothingElseRemoved SelectionIsComplete
PROPERTIES AnsweredCallsEnd
