\* One thread sends every kind of request over the same reused handle.
CONSTANTS
  t1 = t1  t2 = t2  h1 = h1  h2 = h2  h3 = h3
  alice = alice  bob = bob  doc = doc
  Null = Null  NoThread = NoThread  NoBody = NoBody  NoLogin = NoLogin
  Urls <- MCUrls
  Bodies = {doc}
  Logins = {alice, bob}
  Parts = 2
  Threads = {t1}
  Handles = {h1, h2}
  Requests <- AllRequests
  LoginsOf <- AnyLogin
  JsonModes = {TRUE, FALSE}
  Replies <- AllReplies
  MaxCalls <- TwoCalls
SPECIFICATION Spec
INVARIANTS TypeOK WireIsOwnRequest ResponseIsOwn
