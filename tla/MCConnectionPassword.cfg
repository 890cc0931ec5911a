SPECIFICATION Spec
CONSTANTS
  Clients = {o1}
  UsersAPIs = {u1, u2}
  Connections <- MCConnections
  Default <- Local
  Volatile <- MCVolatile
  Null = Null
INVARIANTS
  ResetTakesEffect
