SPECIFICATION Spec
CONSTANTS
  c1 = c1
  c2 = c2
  n1 = n1
  Clients = {c1, c2}
  Names = {n1}
  Kinds = {"collection", "graph", "database", "user"}
  Initially <- EmptyOrFull
  MaxCalls <- TwoAndOne
INVARIANTS TypeOK AnswerWasTrue ReturnMeansDone ThrowMeansNoEffect
