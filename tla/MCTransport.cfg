\* Two threads contend for the pool; handles outlive calls.
CONSTANTS
  t1 = t1  t2 = t2  h1 = h1  h2 = h2  h3 = h3
  alice = alice  bob = bob  doc = doc
  Null = Null  NoThread = NoThread  NoBody = NoBody  NoLogin = NoLogin
  Urls <- MCUrls
  Bodies = {doc}
  Logins = {alice, bob}
  Parts = 2
  Threads = {t1, t2}
  Handles = {h1, h2, h3}
  Requests <- ConcurrentRequests
  LoginsOf <- OwnLogin
  JsonModes = {FALSE}
  Replies <- JsonOrHtml
  MaxCalls <- TwoAndOne
SPECIFICATION FairSpec
INVARIANTS ExclusiveHandles HandlesAccountedFor PoolBounded
PROPERTIES HandleUntouchedByOthers CallsReachNetwork ImplementsService
