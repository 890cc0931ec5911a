--------------------------- MODULE TransportProofs ---------------------------
(***************************************************************************)
(* Theorems about Transport, for every number of threads, handles, calls   *)
(* and requests.  The lemmas on options come first (a reused handle sends  *)
(* what a new one would), then the inductive invariant of the pool, then   *)
(* that of the exchange each thread has in progress.                       *)
(***************************************************************************)
EXTENDS Transport, SequenceTheorems, FiniteSetTheorems, TLAPS

(* A reused handle sends what the request says, whatever its options were. *)

\* setConnectData keeps the type of the options.
LEMMA SetConnectDataType ==
  ASSUME NEW o \in Options, NEW login \in Logins
  PROVE  setConnectData(o, login) \in Options /\ setConnectData(o, login).login = login
BY DEF setConnectData, Options

\* The content of a request is a payload in one of the encodings.
LEMMA ContentType ==
  ASSUME NEW r \in Request, NEW json \in BOOLEAN
  PROVE  content(r, json) \in Content
BY DEF content, Content, Request, NoContent, Encodings

\* What libcurl sends is a message, whatever options are set.
LEMMA WireType ==
  ASSUME NEW o \in Options
  PROVE  Wire(o) \in WireMessage
<1>1. NoContent \in Content
  BY DEF NoContent, Content, Encodings
<1> QED
  BY <1>1 DEF Wire, WireMessage, Options, Methods, Customs, Verbs

\* After setVerb(SetHttpGet(o), verb) the three options that decide the verb are
\* those of `verb`; nothing else has changed.
ForVerb(s, o, verb) ==
  /\ s \in Options
  /\ verb \in {"GET", "POST"} => s.custom = ""
  /\ verb \notin {"GET", "POST"} => s.custom = verb
  /\ s.method = IF verb = "POST" THEN "POST" ELSE "GET"
  /\ s.nobody = (verb = "HEAD")
  /\ s.headers = o.headers /\ s.url = o.url /\ s.login = o.login

\* What is left of the options after the switch over the verb.
LEMMA SetVerbResult ==
  ASSUME NEW o \in Options, NEW verb \in Verbs
  PROVE  ForVerb(setVerb(SetHttpGet(o), verb), o, verb)
<1> USE DEF ForVerb
<1>1. CASE verb = "POST"
  BY <1>1 DEF setVerb, SetHttpGet, SetPost, SetCustom, Options, Methods, Customs
<1>2. CASE verb = "GET"
  BY <1>2 DEF setVerb, SetHttpGet, SetCustom, Options, Methods, Customs
<1>3. CASE verb = "HEAD"
  BY <1>3 DEF setVerb, SetHttpGet, SetCustom, SetNoBody, Options, Methods, Customs
<1>4. CASE verb \notin {"POST", "GET", "HEAD"}
  BY <1>4 DEF setVerb, SetHttpGet, SetCustom, Options, Methods, Customs, Verbs
<1> QED
  BY <1>1, <1>2, <1>3, <1>4

\* The options of a handle before sendRequest make no difference to what it puts
\* on the wire: no verb, body, header or URL of an earlier request is left.
THEOREM Memoryless ==
  ASSUME NEW o \in Options, NEW r \in Request, r.verb # "ILLEGAL",
         NEW json \in BOOLEAN
  PROVE  /\ sendRequest(o, r, json) \in Options
         /\ Wire(sendRequest(o, r, json)) = Expected(r, o.login, json)
<1> DEFINE opened == [o EXCEPT !.headers = headerList(r, json), !.url = r.url]
           s == setVerb(SetHttpGet(opened), r.verb)
<1>1. r.verb \in Verbs /\ r.url \in Urls /\ r.body \in Bodies \cup {NoBody}
      /\ (r.verb = "POST" => r.body # NoBody)
      /\ (r.verb \in {"GET", "HEAD"} => r.body = NoBody)
  BY DEF Request
<1>2. opened \in Options /\ opened.login = o.login /\ opened.url = r.url
      /\ opened.headers = headerList(r, json)
  BY DEF Options, Request, headerList
<1> HIDE DEF opened
<1>3. ForVerb(s, opened, r.verb)
  BY <1>1, <1>2, SetVerbResult
<1>4. sendRequest(o, r, json) = setPayload(s, r, json)
  BY DEF sendRequest, opened
<1> HIDE DEF s
<1>5. CASE r.body = NoBody
  <2>1. setPayload(s, r, json) = s
    BY <1>5 DEF setPayload
  <2>2. Wire(s) = Expected(r, o.login, json)
    BY <1>1, <1>2, <1>3, <1>5 DEF Wire, Expected, content, Verbs, ForVerb
  <2> QED
    BY <1>3, <1>4, <2>1, <2>2 DEF ForVerb
<1>6. CASE r.body # NoBody
  <2> DEFINE c == content(r, json)
             p == SetPostFields(s, c)
  <2>1. setPayload(s, r, json) = p
    BY <1>6 DEF setPayload
  <2>2. c \in Content
    BY ContentType
  <2> HIDE DEF c
  <2>3. /\ p \in Options /\ p.method = "POST" /\ p.post = c
        /\ p.custom = s.custom /\ p.nobody = s.nobody /\ p.headers = s.headers
        /\ p.url = s.url /\ p.login = s.login
    BY <1>3, <2>2 DEF SetPostFields, Options, Methods, ForVerb
  <2> HIDE DEF p
  <2>4. Wire(p) = [verb |-> r.verb, url |-> r.url, headers |-> headerList(r, json),
                   content |-> c, login |-> o.login]
    BY <1>1, <1>2, <1>3, <1>6, <2>3 DEF Wire, Verbs, ForVerb
  <2> QED
    BY <1>4, <2>1, <2>3, <2>4 DEF Expected, c
<1> QED
  BY <1>5, <1>6

------------------------------------------------------------------------------
(* The pool.  Between release() and pop() the top slot of the stack holds  *)
(* Null; only the thread that holds the mutex can see it.                  *)

PoolTypeOK ==
  /\ pc \in [Threads -> PCs]
  /\ curl_object \in [Threads -> Handles \cup {Null}]
  /\ pool_ \in Seq(Handles \cup {Null})
  /\ pool_mutex \in Threads \cup {NoThread}
  /\ live \subseteq Handles

MutexInv == \A t \in Threads : pc[t] \in PoolSteps <=> pool_mutex = t

TakeInv ==
  \A t \in Threads :
    /\ pc[t] \in {"take", "pop"} => pool_ # <<>>
    /\ pc[t] = "pop" => pool_[Len(pool_)] = Null

SlotInv ==
  \A i \in 1 .. Len(pool_) :
    pool_[i] = Null => i = Len(pool_) /\ \E t \in Threads : pc[t] = "pop"

PoolInv == PoolTypeOK /\ MutexInv /\ TakeInv /\ SlotInv /\ ExclusiveHandles
           /\ HandlesAccountedFor

\* A step of t outside the pool's critical sections, which leaves pool and
\* ownership alone.
LEMMA PoolFrame ==
  ASSUME PoolInv, NEW t \in Threads, NEW to \in PCs,
         pc' = [pc EXCEPT ![t] = to],
         pc[t] \notin PoolSteps, to \notin PoolSteps,
         pc[t] \in OwnerSteps <=> to \in OwnerSteps,
         UNCHANGED <<curl_object, pool_, pool_mutex, live>>
  PROVE  PoolInv'
<1> USE DEF PoolInv
<1>1. PoolTypeOK'
  BY DEF PoolTypeOK
<1>2. MutexInv'
  BY DEF PoolTypeOK, MutexInv
<1>3. TakeInv' /\ SlotInv'
  BY DEF PoolTypeOK, TakeInv, SlotInv, PoolSteps
<1>4. ExclusiveHandles' /\ HandlesAccountedFor'
  BY DEF PoolTypeOK, ExclusiveHandles, HandlesAccountedFor, InPool
<1> QED
  BY <1>1, <1>2, <1>3, <1>4

\* Taking the mutex, in get_resource or in return_resource.
LEMMA PoolLock ==
  ASSUME PoolInv, NEW t \in Threads, NEW to \in {"grow", "push"},
         pc' = [pc EXCEPT ![t] = to], pc[t] = IF to = "grow" THEN "lock_get" ELSE "lock_return",
         pool_mutex = NoThread, pool_mutex' = t,
         UNCHANGED <<curl_object, pool_, live>>
  PROVE  PoolInv'
<1> USE DEF PoolInv, PoolSteps, OwnerSteps
<1>1. PoolTypeOK'
  BY DEF PoolTypeOK, PCs
<1>2. MutexInv'
  BY TransportAssumption DEF PoolTypeOK, MutexInv
<1>3. TakeInv' /\ SlotInv'
  BY DEF PoolTypeOK, TakeInv, SlotInv
<1>4. ExclusiveHandles' /\ HandlesAccountedFor'
  BY DEF PoolTypeOK, ExclusiveHandles, HandlesAccountedFor, InPool
<1> QED
  BY <1>1, <1>2, <1>3, <1>4

\* Growing an empty pool by a new handle keeps the pool's invariant.
LEMMA PoolGrow ==
  ASSUME PoolInv, NEW t \in Threads, Grow(t)
  PROVE  PoolInv'
<1> USE DEF PoolInv
<1>1. CASE pool_ # <<>>
  <2>1. UNCHANGED <<curl_object, pool_, pool_mutex, live>> /\ pc[t] = "grow"
        /\ pc' = [pc EXCEPT ![t] = "take"]
    BY <1>1 DEF Grow, Goto
  <2>2. PoolTypeOK'
    BY <2>1 DEF PoolTypeOK, PCs, PoolSteps
  <2>3. MutexInv'
    BY <2>1 DEF PoolTypeOK, MutexInv, PoolSteps
  <2>4. TakeInv' /\ SlotInv'
    BY <1>1, <2>1 DEF PoolTypeOK, TakeInv, SlotInv
  <2>5. ExclusiveHandles' /\ HandlesAccountedFor'
    BY <2>1 DEF PoolTypeOK, ExclusiveHandles, HandlesAccountedFor, InPool, OwnerSteps
  <2> QED
    BY <2>2, <2>3, <2>4, <2>5
<1>2. CASE pool_ = <<>>
  <2>1. PICK h \in Handles \ live : pool_' = <<h>> /\ live' = live \cup {h}
    BY <1>2 DEF Grow
  <2>2. /\ UNCHANGED <<curl_object, pool_mutex>> /\ pc[t] = "grow"
        /\ pc' = [pc EXCEPT ![t] = "take"]
        /\ Len(pool_) = 0 /\ Len(pool_') = 1 /\ pool_'[1] = h /\ h # Null
    BY <1>2, <2>1, TransportAssumption DEF Grow, Goto
  <2>3. PoolTypeOK'
    BY <2>1, <2>2 DEF PoolTypeOK, PCs, PoolSteps
  <2>4. MutexInv'
    BY <2>2 DEF PoolTypeOK, MutexInv, PoolSteps
  <2>5. \A u \in Threads : pc[u] # "pop"
    BY <2>2 DEF MutexInv, PoolSteps
  <2>6. TakeInv' /\ SlotInv'
    BY <2>1, <2>2, <2>5 DEF PoolTypeOK, TakeInv, SlotInv
  <2>7. \A u \in Threads : curl_object[u] # h
    BY <2>1, <2>2 DEF HandlesAccountedFor
  <2>8. ExclusiveHandles'
    BY <2>1, <2>2, <2>7 DEF ExclusiveHandles, InPool
  <2>9. \A x : InPool(x)' <=> x = h
    BY <2>2 DEF InPool
  <2>10. \A x : ~InPool(x)
    BY <2>2 DEF InPool
  <2>11. HandlesAccountedFor'
    BY <2>1, <2>2, <2>9, <2>10 DEF PoolTypeOK, HandlesAccountedFor, OwnerSteps
  <2> QED
    BY <2>3, <2>4, <2>6, <2>8, <2>11
<1> QED
  BY <1>1, <1>2

\* release() moves the handle from the slot to the thread.
LEMMA PoolTake ==
  ASSUME PoolInv, NEW t \in Threads, Take(t)
  PROVE  PoolInv'
<1> USE DEF PoolInv
<1> DEFINE n == Len(pool_)
           h == pool_[n]
<1>1. /\ pc[t] = "take" /\ pc' = [pc EXCEPT ![t] = "pop"] /\ pool_ # <<>>
      /\ curl_object' = [curl_object EXCEPT ![t] = h]
      /\ UNCHANGED <<pool_mutex, live>> /\ pool_ \in Seq(Handles \cup {Null})
  BY DEF Take, Goto, PoolTypeOK, handleVars
<1>2. n \in Nat \ {0} /\ n \in 1 .. n /\ h \in Handles \cup {Null}
  BY <1>1, EmptySeq, ElementOfSeq
<1>3. \A u \in Threads : pc[u] # "pop"
  BY <1>1 DEF MutexInv, PoolSteps
<1>4. h \in Handles /\ h # Null
  BY <1>2, <1>3, TransportAssumption DEF SlotInv
<1>5. /\ pool_' \in Seq(Handles \cup {Null}) /\ Len(pool_') = n
      /\ \A j \in 1 .. n : pool_'[j] = IF j = n THEN Null ELSE pool_[j]
  <2>1. pool_' = [pool_ EXCEPT ![n] = Null]
    BY DEF Take
  <2>2. Null \in Handles \cup {Null}
    OBVIOUS
  <2> QED
    BY <1>1, <1>2, <2>1, <2>2, ExceptSeq
<1>6. \A j \in 1 .. n - 1 : pool_[j] # h /\ pool_[j] # Null
  BY <1>2, <1>3 DEF ExclusiveHandles, SlotInv
<1>7. \A x \in Handles : InPool(x)' <=> InPool(x) /\ x # h
  BY <1>2, <1>4, <1>5, <1>6, TransportAssumption DEF InPool
<1>8. InPool(h) /\ \A u \in Threads : curl_object[u] # h
  BY <1>2, <1>4 DEF InPool, ExclusiveHandles
<1> HIDE DEF h, n
<1>9. PoolTypeOK'
  BY <1>1, <1>4, <1>5 DEF PoolTypeOK, PCs, PoolSteps
<1>10. MutexInv'
  BY <1>1 DEF PoolTypeOK, MutexInv, PoolSteps
<1>11. TakeInv'
  <2>1. pool_' # <<>>
    BY <1>2, <1>5
  <2>2. \A u \in Threads \ {t} : pc'[u] \notin {"take", "pop"}
    BY <1>1, <1>10 DEF PoolTypeOK, MutexInv, PoolSteps
  <2> QED
    BY <1>1, <1>2, <1>5, <2>1, <2>2 DEF PoolTypeOK, TakeInv
<1>12. SlotInv'
  BY <1>1, <1>2, <1>5, <1>6 DEF PoolTypeOK, SlotInv
<1>13. ExclusiveHandles'
  <2>1. \A u, v \in Threads : curl_object'[u] = curl_object'[v] => u = v \/ curl_object'[u] = Null
    BY <1>1, <1>8 DEF PoolTypeOK, ExclusiveHandles
  <2>2. \A u \in Threads : \A x \in Handles : curl_object'[u] = x => ~InPool(x)'
    BY <1>1, <1>4, <1>7, TransportAssumption DEF PoolTypeOK, ExclusiveHandles
  <2>3. \A i, j \in 1 .. Len(pool_') : pool_'[i] = pool_'[j] => i = j
    BY <1>2, <1>5, <1>6 DEF ExclusiveHandles, n
  <2> QED
    BY <2>1, <2>2, <2>3, <1>9 DEF PoolTypeOK, ExclusiveHandles, InPool
<1>14. HandlesAccountedFor'
  <2>1. curl_object[t] = Null
    BY <1>1 DEF HandlesAccountedFor, OwnerSteps
  <2>2. live' = {x \in Handles : InPool(x)' \/ \E u \in Threads : curl_object'[u] = x}
    BY <1>1, <1>4, <1>7, <1>8, <2>1, TransportAssumption DEF PoolTypeOK, HandlesAccountedFor
  <2>3. \A u \in Threads : pc'[u] \in OwnerSteps <=> curl_object'[u] # Null
    BY <1>1, <1>4 DEF PoolTypeOK, HandlesAccountedFor, OwnerSteps
  <2> QED
    BY <2>2, <2>3 DEF HandlesAccountedFor, InPool
<1> QED
  BY <1>9, <1>10, <1>11, <1>12, <1>13, <1>14

\* pop() removes the empty slot and no other.
LEMMA PoolPop ==
  ASSUME PoolInv, NEW t \in Threads, Pop(t)
  PROVE  PoolInv'
<1> USE DEF PoolInv
<1> DEFINE n == Len(pool_)
<1>1. /\ pc[t] = "pop" /\ pc' = [pc EXCEPT ![t] = "connect"] /\ pool_ # <<>>
      /\ pool_' = SubSeq(pool_, 1, n - 1) /\ pool_mutex' = NoThread
      /\ UNCHANGED <<curl_object, live>> /\ pool_ \in Seq(Handles \cup {Null})
  BY DEF Pop, Goto, PoolTypeOK, handleVars
<1>2. n \in Nat \ {0} /\ n \in 1 .. n /\ pool_[n] = Null
  BY <1>1, EmptySeq DEF TakeInv
<1> HIDE DEF n
<1>3. /\ pool_' \in Seq(Handles \cup {Null}) /\ Len(pool_') = n - 1
      /\ \A j \in 1 .. n - 1 : pool_'[j] = pool_[j]
  <2>1. \A i \in 1 .. n - 1 : pool_[i] \in Handles \cup {Null}
    BY <1>1, <1>2, ElementOfSeq DEF n
  <2>2. 1 \in Int /\ n - 1 \in Int
    BY <1>2
  <2>3. /\ SubSeq(pool_, 1, n - 1) \in Seq(Handles \cup {Null})
        /\ Len(SubSeq(pool_, 1, n - 1)) = IF 1 <= n - 1 THEN n - 1 - 1 + 1 ELSE 0
        /\ \A i \in 1 .. n - 1 - 1 + 1 : SubSeq(pool_, 1, n - 1)[i] = pool_[1 + i - 1]
    BY <2>1, <2>2, SubSeqProperties
  <2>4. Len(SubSeq(pool_, 1, n - 1)) = n - 1
    BY <1>2, <2>3
  <2>5. \A i \in 1 .. n - 1 : i \in 1 .. n - 1 - 1 + 1 /\ 1 + i - 1 = i
    BY <1>2
  <2> QED
    BY <1>1, <2>3, <2>4, <2>5
<1>4. \A j \in 1 .. n - 1 : pool_[j] # Null
  BY <1>2 DEF SlotInv, n
<1>5. \A x \in Handles : InPool(x)' <=> InPool(x)
  <2>1. ASSUME NEW x \in Handles, NEW i \in 1 .. Len(pool_'), pool_'[i] = x  PROVE InPool(x)
    BY <1>2, <1>3, <2>1 DEF InPool, n
  <2>2. ASSUME NEW x \in Handles, NEW i \in 1 .. Len(pool_), pool_[i] = x  PROVE InPool(x)'
    <3>1. i \in 1 .. n - 1
      BY <1>2, <2>2, TransportAssumption DEF n
    <3> QED
      BY <1>3, <2>2, <3>1 DEF InPool
  <2> QED
    BY <2>1, <2>2 DEF InPool
<1>6. PoolTypeOK'
  BY <1>1, <1>3 DEF PoolTypeOK, PCs, OwnerSteps
<1>7. MutexInv'
  BY <1>1, TransportAssumption DEF PoolTypeOK, MutexInv, PoolSteps
<1>8. TakeInv'
  BY <1>1, <1>7, TransportAssumption DEF PoolTypeOK, TakeInv, MutexInv, PoolSteps
<1>9. SlotInv'
  BY <1>2, <1>3, <1>4 DEF SlotInv, n
<1>10. ExclusiveHandles'
  <2>1. \A u \in Threads : \A x \in Handles : curl_object'[u] = x => ~InPool(x)'
    BY <1>1, <1>5, TransportAssumption DEF PoolTypeOK, ExclusiveHandles
  <2>2. \A i, j \in 1 .. Len(pool_') : pool_'[i] = pool_'[j] => i = j
    BY <1>2, <1>3 DEF ExclusiveHandles, n
  <2> QED
    BY <1>1, <2>1, <2>2, <1>6 DEF PoolTypeOK, ExclusiveHandles, InPool
<1>11. HandlesAccountedFor'
  <2>1. live' = {x \in Handles : InPool(x)' \/ \E u \in Threads : curl_object'[u] = x}
    BY <1>1, <1>5 DEF HandlesAccountedFor
  <2>2. \A u \in Threads : pc'[u] \in OwnerSteps <=> curl_object'[u] # Null
    BY <1>1 DEF PoolTypeOK, HandlesAccountedFor, OwnerSteps
  <2> QED
    BY <2>1, <2>2 DEF HandlesAccountedFor, InPool
<1> QED
  BY <1>6, <1>7, <1>8, <1>9, <1>10, <1>11

\* push() moves the handle from the thread to a slot of its own.
LEMMA PoolPush ==
  ASSUME PoolInv, NEW t \in Threads, Push(t)
  PROVE  PoolInv'
<1> USE DEF PoolInv
<1> DEFINE n == Len(pool_)
           h == curl_object[t]
<1>1. /\ pc[t] = "push" /\ pc' = [pc EXCEPT ![t] = "check"]
      /\ pool_' = Append(pool_, h) /\ pool_mutex' = NoThread
      /\ curl_object' = [curl_object EXCEPT ![t] = Null]
      /\ UNCHANGED live /\ pool_ \in Seq(Handles \cup {Null})
  BY DEF Push, Goto, PoolTypeOK, handleVars
<1>2. h \in Handles /\ h # Null /\ ~InPool(h)
  BY <1>1 DEF PoolTypeOK, HandlesAccountedFor, OwnerSteps, ExclusiveHandles
<1> HIDE DEF h
<1>3. /\ pool_' \in Seq(Handles \cup {Null}) /\ Len(pool_') = n + 1 /\ n \in Nat
      /\ \A j \in 1 .. n : pool_'[j] = pool_[j]
      /\ pool_'[n + 1] = h
  BY <1>1, <1>2
<1>4. \A u \in Threads : pc[u] # "pop"
  BY <1>1 DEF MutexInv, PoolSteps
<1>5. \A j \in 1 .. n : pool_[j] # Null /\ pool_[j] # h
  BY <1>2, <1>4 DEF SlotInv, InPool
<1> HIDE DEF n
<1>6. \A x \in Handles : InPool(x)' <=> InPool(x) \/ x = h
  BY <1>3 DEF InPool, n
<1>7. PoolTypeOK'
  BY <1>1, <1>3 DEF PoolTypeOK, PCs, OwnerSteps
<1>8. MutexInv'
  BY <1>1, TransportAssumption DEF PoolTypeOK, MutexInv, PoolSteps
<1>9. TakeInv'
  BY <1>1, <1>8, TransportAssumption DEF PoolTypeOK, TakeInv, MutexInv, PoolSteps
<1>10. SlotInv'
  BY <1>2, <1>3, <1>5 DEF SlotInv
<1>11. ExclusiveHandles'
  <2>1. \A u, v \in Threads : curl_object'[u] = curl_object'[v] => u = v \/ curl_object'[u] = Null
    BY <1>1 DEF PoolTypeOK, ExclusiveHandles
  <2>2. \A u \in Threads : \A x \in Handles : curl_object'[u] = x => ~InPool(x)'
    BY <1>1, <1>2, <1>6, TransportAssumption DEF PoolTypeOK, ExclusiveHandles, h
  <2>3. \A i, j \in 1 .. Len(pool_') : pool_'[i] = pool_'[j] => i = j
    BY <1>3, <1>5 DEF ExclusiveHandles, n
  <2> QED
    BY <2>1, <2>2, <2>3, <1>7 DEF PoolTypeOK, ExclusiveHandles, InPool
<1>12. HandlesAccountedFor'
  <2>1. live' = {x \in Handles : InPool(x)' \/ \E u \in Threads : curl_object'[u] = x}
    BY <1>1, <1>2, <1>6, TransportAssumption DEF PoolTypeOK, HandlesAccountedFor, h
  <2>2. \A u \in Threads : pc'[u] \in OwnerSteps <=> curl_object'[u] # Null
    BY <1>1 DEF PoolTypeOK, HandlesAccountedFor, OwnerSteps
  <2> QED
    BY <2>1, <2>2 DEF HandlesAccountedFor, InPool
<1> QED
  BY <1>7, <1>8, <1>9, <1>10, <1>11, <1>12

\* A constructor that throws leaves the pool as it was.
LEMMA PoolGrowFails ==
  ASSUME PoolInv, NEW t \in Threads, GrowFails(t)
  PROVE  PoolInv'
<1> USE DEF PoolInv
<1>1. /\ pc[t] = "grow" /\ pc' = [pc EXCEPT ![t] = "idle"] /\ pool_mutex' = NoThread
      /\ UNCHANGED <<curl_object, pool_, live>>
  BY DEF GrowFails, Goto, handleVars
<1>2. PoolTypeOK'
  BY <1>1 DEF PoolTypeOK, PCs
<1>3. MutexInv'
  BY <1>1, TransportAssumption DEF PoolTypeOK, MutexInv, PoolSteps
<1>4. TakeInv' /\ SlotInv'
  BY <1>1 DEF PoolTypeOK, TakeInv, SlotInv
<1>5. ExclusiveHandles' /\ HandlesAccountedFor'
  BY <1>1 DEF PoolTypeOK, ExclusiveHandles, HandlesAccountedFor, InPool, OwnerSteps
<1> QED
  BY <1>2, <1>3, <1>4, <1>5

\* An exception after get_resource: the handle goes with the call.
LEMMA PoolThrow ==
  ASSUME PoolInv, NEW t \in Threads, pc[t] \in {"options", "parse"}, Throw(t)
  PROVE  PoolInv'
<1> USE DEF PoolInv
<1> DEFINE h == curl_object[t]
<1>1. /\ pc' = [pc EXCEPT ![t] = "idle"]
      /\ curl_object' = [curl_object EXCEPT ![t] = Null]
      /\ live' = live \ {h} /\ UNCHANGED <<pool_, pool_mutex>>
  BY DEF Throw, poolVars
<1>2. h \in Handles /\ h # Null /\ ~InPool(h)
  BY DEF PoolTypeOK, HandlesAccountedFor, OwnerSteps, ExclusiveHandles
<1>3. \A u \in Threads \ {t} : curl_object[u] # h
  BY <1>2 DEF ExclusiveHandles
<1> HIDE DEF h
<1>4. PoolTypeOK'
  BY <1>1 DEF PoolTypeOK, PCs
<1>5. MutexInv'
  BY <1>1 DEF PoolTypeOK, MutexInv, PoolSteps
<1>6. TakeInv' /\ SlotInv'
  BY <1>1 DEF PoolTypeOK, TakeInv, SlotInv
<1>7. ExclusiveHandles'
  BY <1>1 DEF PoolTypeOK, ExclusiveHandles, InPool
<1>8. \A x : InPool(x)' <=> InPool(x)
  BY <1>1 DEF InPool
<1>9. HandlesAccountedFor'
  <2>1. live' = {x \in Handles : InPool(x)' \/ \E u \in Threads : curl_object'[u] = x}
    BY <1>1, <1>2, <1>3, <1>8, TransportAssumption DEF PoolTypeOK, HandlesAccountedFor, h
  <2>2. \A u \in Threads : pc'[u] \in OwnerSteps <=> curl_object'[u] # Null
    BY <1>1 DEF PoolTypeOK, HandlesAccountedFor, OwnerSteps
  <2> QED
    BY <2>1, <2>2 DEF HandlesAccountedFor, InPool
<1> QED
  BY <1>4, <1>5, <1>6, <1>7, <1>9

\* The program starts with an empty pool and no handles.
LEMMA PoolInit == Init => PoolInv
<1> SUFFICES ASSUME Init PROVE PoolInv
  OBVIOUS
<1>1. Len(pool_) = 0 /\ pool_ \in Seq(Handles \cup {Null})
  BY EmptySeq DEF Init
<1> QED
  BY <1>1, TransportAssumption
  DEF Init, PoolInv, PoolTypeOK, MutexInv, TakeInv, SlotInv, ExclusiveHandles,
      HandlesAccountedFor, InPool, PCs, PoolSteps, OwnerSteps

\* Every step keeps the pool's invariant: one step of the proof per action.
LEMMA PoolStep == PoolInv /\ [Next]_vars => PoolInv'
<1> SUFFICES ASSUME PoolInv, [Next]_vars PROVE PoolInv'
  OBVIOUS
<1>1. CASE UNCHANGED vars
  BY <1>1 DEF vars, PoolInv, PoolTypeOK, MutexInv, TakeInv, SlotInv, ExclusiveHandles,
              HandlesAccountedFor, InPool
<1>2. ASSUME NEW t \in Threads, StartCall(t) PROVE PoolInv'
  BY <1>2, PoolFrame DEF StartCall, Goto, PCs, PoolSteps, OwnerSteps, poolVars, handleVars
<1>3. ASSUME NEW t \in Threads, Library(t) PROVE PoolInv'
  <2>1. CASE LockGet(t)
    BY <2>1, PoolLock DEF LockGet, Goto, handleVars
  <2>2. CASE Grow(t) \/ GrowFails(t) \/ Take(t) \/ Pop(t) \/ Push(t)
    BY <2>2, PoolGrow, PoolGrowFails, PoolTake, PoolPop, PoolPush
  <2>3. CASE SetConnectData(t)
    BY <2>3, PoolFrame DEF SetConnectData, Goto, PCs, PoolSteps, OwnerSteps, poolVars
  <2>4. CASE SendRequest(t)
    BY <2>4, PoolFrame DEF SendRequest, Goto, PCs, PoolSteps, OwnerSteps, poolVars
  <2>5. CASE IllegalVerb(t) \/ MalformedReply(t)
    BY <2>5, PoolThrow DEF IllegalVerb, MalformedReply
  <2>6. CASE GetResponse(t)
    BY <2>6, PoolFrame DEF GetResponse, Goto, PCs, PoolSteps, OwnerSteps, poolVars, handleVars
  <2>7. CASE LockReturn(t)
    BY <2>7, PoolLock DEF LockReturn, Goto, handleVars
  <2>8. CASE CheckResponse(t)
    BY <2>8, PoolFrame DEF CheckResponse, Goto, PCs, PoolSteps, OwnerSteps, poolVars, handleVars
  <2> QED
    BY <1>3, <2>1, <2>2, <2>3, <2>4, <2>5, <2>6, <2>7, <2>8 DEF Library
<1>4. ASSUME NEW t \in Threads, Network(t) PROVE PoolInv'
  <2>1. PICK to \in {"perform", "receive", "body", "parse"} :
          /\ pc' = [pc EXCEPT ![t] = to] /\ pc[t] \in NetworkSteps
          /\ UNCHANGED <<curl_object, pool_, pool_mutex, live>>
    BY <1>4 DEF Network, ConnectFails, Transmit, Resend, ReceiveEmpty, ReceiveStatus,
                ReceiveFragment, Breaks, Goto, NetworkSteps, poolVars, handleVars
  <2> QED
    BY <2>1, PoolFrame DEF PCs, PoolSteps, OwnerSteps, NetworkSteps
<1> QED
  BY <1>1, <1>2, <1>3, <1>4 DEF Next, Finished

\* In every reachable state the pool's mutex, its stack, the handles threads own and the
\* handles that live fit together.
THEOREM PoolInvariant == Spec => []PoolInv
  BY PoolInit, PoolStep, PTL DEF Spec

\* No two threads, and no thread and the pool, ever hold the same RequestCurlObject.
THEOREM Exclusion == Spec => []ExclusiveHandles
  BY PoolInvariant, PTL DEF PoolInv

\* No handle leaks and none is used after its destruction, on any exit of a call.
THEOREM Accounting == Spec => []HandlesAccountedFor
  BY PoolInvariant, PTL DEF PoolInv

(* The pool grows with the calls in progress: a handle is made only when the   *)
(* pool is empty, and then every live handle is owned by another thread.       *)

\* There are finitely many handles, no more than threads.
LiveBounded == IsFiniteSet(live) /\ Cardinality(live) <= Cardinality(Threads)

\* When the pool is empty and a thread owns no handle, the other threads own all there are.
LEMMA OwnedByOthers ==
  ASSUME PoolInv, NEW t \in Threads, pool_ = <<>>, curl_object[t] = Null
  PROVE  IsFiniteSet(live) /\ Cardinality(live) + 1 <= Cardinality(Threads)
<1> DEFINE others == Threads \ {t}
           owners == {u \in others : curl_object[u] # Null}
           f == [u \in owners |-> curl_object[u]]
<1>1. \A h : ~InPool(h)
  <2>1. Len(pool_) = 0
    BY EmptySeq
  <2> QED
    BY <2>1 DEF InPool
<1>2. /\ live = {h \in Handles : \E u \in Threads : curl_object[u] = h}
      /\ \A u \in Threads : curl_object[u] \in Handles \cup {Null}
  BY <1>1 DEF PoolInv, PoolTypeOK, HandlesAccountedFor
<1>3. f \in Surjection(owners, live)
  <2>1. \A u \in owners : curl_object[u] \in live
    BY <1>2
  <2>2. \A h \in live : \E u \in owners : curl_object[u] = h
    BY <1>2, TransportAssumption
  <2> QED
    BY <2>1, <2>2 DEF Surjection
<1>4. /\ IsFiniteSet(others) /\ Cardinality(others) = Cardinality(Threads) - 1
      /\ Cardinality(Threads) \in Nat
  BY TransportAssumption, FS_RemoveElement, FS_CardinalityType
<1>5. owners \in SUBSET others
  OBVIOUS
<1> HIDE DEF others, owners, f
<1>6. IsFiniteSet(owners) /\ Cardinality(owners) <= Cardinality(others)
  BY <1>4, <1>5, FS_Subset
<1>7. IsFiniteSet(live) /\ Cardinality(live) <= Cardinality(owners)
  BY <1>3, <1>6, FS_Surjection
<1>8. Cardinality(live) \in Nat /\ Cardinality(owners) \in Nat
  BY <1>6, <1>7, FS_CardinalityType
<1> QED
  BY <1>4, <1>6, <1>7, <1>8

\* Every step keeps the bound.  Only get_resource makes a handle.
LEMMA BoundStep == PoolInv /\ LiveBounded /\ [Next]_vars => LiveBounded'
<1> SUFFICES ASSUME PoolInv, LiveBounded, [Next]_vars PROVE LiveBounded'
  OBVIOUS
<1>1. CASE live' \in SUBSET live
  <2>1. IsFiniteSet(live') /\ Cardinality(live') <= Cardinality(live)
    BY <1>1, FS_Subset DEF LiveBounded
  <2>2. Cardinality(live') \in Nat /\ Cardinality(live) \in Nat /\ Cardinality(Threads) \in Nat
    BY <2>1, TransportAssumption, FS_CardinalityType DEF LiveBounded
  <2> QED
    BY <2>1, <2>2 DEF LiveBounded
<1>2. ASSUME NEW t \in Threads, Grow(t), pool_ = <<>>
      PROVE  LiveBounded'
  <2>1. PICK h \in Handles \ live : live' = live \cup {h}
    BY <1>2 DEF Grow
  <2>2. curl_object[t] = Null
    BY <1>2 DEF Grow, Goto, PoolInv, HandlesAccountedFor, OwnerSteps
  <2>3. IsFiniteSet(live) /\ Cardinality(live) + 1 <= Cardinality(Threads)
    BY <1>2, <2>2, OwnedByOthers
  <2>4. IsFiniteSet(live') /\ Cardinality(live') = Cardinality(live) + 1
    BY <2>1, <2>3, FS_AddElement
  <2> QED
    BY <2>3, <2>4 DEF LiveBounded
<1>3. ASSUME NEW t \in Threads, StartCall(t) \/ Library(t) \/ Network(t),
             ~(Grow(t) /\ pool_ = <<>>)
      PROVE  live' \in SUBSET live
  <2>1. CASE StartCall(t) \/ LockGet(t) \/ Grow(t) \/ GrowFails(t) \/ Take(t) \/ Pop(t)
             \/ SetConnectData(t) \/ SendRequest(t)
    BY <1>3, <2>1 DEF StartCall, LockGet, Grow, GrowFails, Take, Pop, SetConnectData,
                      SendRequest, handleVars
  <2>2. CASE IllegalVerb(t) \/ MalformedReply(t) \/ GetResponse(t) \/ LockReturn(t)
             \/ Push(t) \/ CheckResponse(t)
    BY <2>2 DEF IllegalVerb, MalformedReply, Throw, GetResponse, LockReturn, Push,
                CheckResponse, handleVars
  <2>3. CASE Network(t)
    BY <2>3 DEF Network, ConnectFails, Transmit, Resend, ReceiveEmpty, ReceiveStatus,
                ReceiveFragment, Breaks, handleVars
  <2> QED
    BY <1>3, <2>1, <2>2, <2>3 DEF Library
<1>4. CASE UNCHANGED vars
  BY <1>1, <1>4 DEF vars
<1> QED
  BY <1>1, <1>2, <1>3, <1>4 DEF Next, Finished

\* There are never more handles than threads, however many calls they have made.
THEOREM Bounded == Spec => []PoolBounded
<1>1. Init => LiveBounded
  <2>1. Cardinality({}) = 0 /\ IsFiniteSet({})
    BY FS_EmptySet
  <2>2. Cardinality(Threads) \in Nat
    BY TransportAssumption, FS_CardinalityType
  <2> QED
    BY <2>1, <2>2 DEF Init, LiveBounded
<1>2. LiveBounded => PoolBounded
  BY DEF LiveBounded, PoolBounded
<1> QED
  BY <1>1, <1>2, BoundStep, PoolInvariant, PTL DEF Spec

------------------------------------------------------------------------------
(* The exchange a thread has in progress on its handle. *)

ExchangeTypeOK ==
  /\ calls \in [Threads -> Nat]
  /\ call \in [Threads -> Call \cup {NoCall}]
  /\ options \in [Handles -> Options]
  /\ buffers \in [Handles -> Buffers(Tags)]
  /\ reused \in [Handles -> BOOLEAN]
  /\ served \in [Threads -> Seq(WireMessage)]
  /\ arrived \in [Threads -> 0 .. Parts]
  /\ response \in [Threads -> Buffers(Tags)]
  /\ ended \in [Threads -> {"none", "return", "throw"}]

\* b holds (the beginning of) the reply to t's call, or nothing.
OwnReply(t, b) ==
  /\ b.body = ReplyBody(Tag(t), Len(b.body))
  /\ b.code # 0 => b.code \in Codes /\ served[t] # <<>>

BeforeSend == {"lock_get", "grow", "take", "pop", "connect", "options"}

CallInv(t) ==
  /\ pc[t] # "idle" => call[t] \in Call /\ ended[t] = "none"
  /\ pc[t] \in BeforeSend => served[t] = <<>> /\ arrived[t] = 0
  /\ pc[t] \in {"receive", "body"} => served[t] # <<>>
  /\ pc[t] \in {"lock_return", "push", "check"} => OwnReply(t, response[t])
  /\ ended[t] = "return" => OwnReply(t, response[t]) /\ response[t].code # 0
  /\ \A i \in 1 .. Len(served[t]) :
       served[t][i] = Expected(call[t].r, call[t].login, call[t].json)

\* o and b are the options and buffers of t's handle.
HandleInv(t, o, b) ==
  /\ pc[t] = "options" => o.login = call[t].login
  /\ pc[t] \in NetworkSteps => Wire(o) = Expected(call[t].r, call[t].login, call[t].json)
  /\ pc[t] \in {"perform", "receive"} => b = NoReply /\ arrived[t] = 0
  /\ pc[t] = "body" => /\ arrived[t] < Parts /\ b.code \in Codes
                      /\ b.body = ReplyBody(Tag(t), arrived[t])
  /\ pc[t] = "parse" => OwnReply(t, b)

ExchangeInv ==
  /\ PoolInv
  /\ ExchangeTypeOK
  /\ \A t \in Threads : CallInv(t)
  /\ \A t \in Threads : HandleInv(t, options[curl_object[t]], buffers[curl_object[t]])

\* The fragments of a reply, one more at a time.
LEMMA ReplyBodyFacts ==
  ASSUME NEW tag \in Tags, NEW n \in 0 .. Parts
  PROVE  /\ ReplyBody(tag, n) \in Seq(Fragment(Tags))
         /\ Len(ReplyBody(tag, n)) = n
         /\ n < Parts => Append(ReplyBody(tag, n), <<tag, n + 1>>) = ReplyBody(tag, n + 1)
<1> DEFINE b(k) == ReplyBody(tag, k)
<1>1. \A k \in 0 .. Parts : b(k) \in [1 .. k -> Fragment(Tags)]
  BY PartsAssumption DEF ReplyBody, Fragment
<1>2. \A k \in 0 .. Parts : b(k) \in Seq(Fragment(Tags)) /\ Len(b(k)) = k
  BY <1>1, PartsAssumption
<1>3. ASSUME n < Parts PROVE Append(b(n), <<tag, n + 1>>) = b(n + 1)
  <2>1. n + 1 \in 0 .. Parts /\ <<tag, n + 1>> \in Fragment(Tags)
    BY <1>3, PartsAssumption DEF Fragment
  <2>2. /\ Append(b(n), <<tag, n + 1>>) \in Seq(Fragment(Tags))
        /\ Len(Append(b(n), <<tag, n + 1>>)) = n + 1
        /\ \A i \in 1 .. n : Append(b(n), <<tag, n + 1>>)[i] = b(n)[i]
        /\ Append(b(n), <<tag, n + 1>>)[n + 1] = <<tag, n + 1>>
    <3> HIDE DEF b
    <3> QED
      BY <1>2, <2>1
  <2>3. \A i \in 1 .. n + 1 : Append(b(n), <<tag, n + 1>>)[i] = b(n + 1)[i]
    BY <2>1, <2>2 DEF ReplyBody
  <2> HIDE DEF b
  <2> QED
    BY <1>2, <2>1, <2>2, <2>3, SeqEqual
<1> QED
  BY <1>2, <1>3

\* A step of one thread leaves the call of another, and its handle, alone.
LEMMA Locality ==
  ASSUME PoolInv, ExchangeTypeOK, NEW u \in Threads, NEW t \in Threads, t # u,
         StartCall(u) \/ Library(u) \/ Network(u)
  PROVE  /\ pc'[t] = pc[t] /\ calls'[t] = calls[t] /\ call'[t] = call[t]
         /\ served'[t] = served[t] /\ arrived'[t] = arrived[t]
         /\ response'[t] = response[t] /\ ended'[t] = ended[t]
         /\ curl_object'[t] = curl_object[t]
         /\ curl_object[t] # Null =>
              /\ options'[curl_object[t]] = options[curl_object[t]]
              /\ buffers'[curl_object[t]] = buffers[curl_object[t]]
              /\ reused'[curl_object[t]] = reused[curl_object[t]]
<1> USE DEF PoolInv, PoolTypeOK, ExchangeTypeOK
<1>1. curl_object[t] # Null => curl_object[u] # curl_object[t] /\ curl_object[t] \in Handles
  BY DEF ExclusiveHandles
<1>2. CASE StartCall(u)
  BY <1>2 DEF StartCall, Goto, poolVars, handleVars
<1>3. CASE LockGet(u) \/ Grow(u) \/ GrowFails(u) \/ Take(u) \/ Pop(u)
  BY <1>3 DEF LockGet, Grow, GrowFails, Take, Pop, Goto, callVars, poolVars, handleVars, netVars
<1>4. CASE SetConnectData(u) \/ SendRequest(u)
  BY <1>1, <1>4 DEF SetConnectData, SendRequest, Goto, callVars, poolVars, netVars
<1>5. CASE IllegalVerb(u) \/ MalformedReply(u)
  BY <1>1, <1>5 DEF IllegalVerb, MalformedReply, Throw, poolVars, netVars
<1>6. CASE GetResponse(u) \/ LockReturn(u) \/ Push(u) \/ CheckResponse(u)
  BY <1>6 DEF GetResponse, LockReturn, Push, CheckResponse, Goto, callVars, poolVars,
              handleVars, netVars
<1>7. CASE Network(u)
  BY <1>1, <1>7 DEF Network, ConnectFails, Transmit, Resend, ReceiveEmpty, ReceiveStatus,
                    ReceiveFragment, Breaks, Goto, callVars, poolVars, handleVars, netVars
<1> QED
  BY <1>2, <1>3, <1>4, <1>5, <1>6, <1>7 DEF Library

\* What a thread that owns a handle can rely on.
LEMMA OwnedHandle ==
  ASSUME PoolInv, NEW t \in Threads, pc[t] \in OwnerSteps
  PROVE  curl_object[t] \in Handles
BY DEF PoolInv, PoolTypeOK, HandlesAccountedFor

\* A new handle has options and buffers of the right types.
LEMMA NewValues == NewOptions \in Options /\ NoReply \in Buffers(Tags)
<1>1. <<>> \in Seq(Fragment(Tags))
  BY EmptySeq
<1> QED
  BY <1>1 DEF NewOptions, Options, NoContent, Content, Encodings, Methods, Customs,
              NoReply, Buffers, ContentTypes

\* headerCallback keeps the type of the buffers.
LEMMA StatusType ==
  ASSUME NEW b \in Buffers(Tags), NEW code \in Nat, NEW ctype \in ContentTypes
  PROVE  receiveStatus(b, code, ctype) \in Buffers(Tags)
BY DEF receiveStatus, Buffers

\* bodyCallback keeps the type of the buffers.
LEMMA BodyType ==
  ASSUME NEW b \in Buffers(Tags), NEW f \in Fragment(Tags)
  PROVE  bodyCallback(b, f) \in Buffers(Tags)
<1>1. b.body \in Seq(Fragment(Tags))
  BY DEF Buffers
<1>2. Append(b.body, f) \in Seq(Fragment(Tags))
  BY <1>1
<1> QED
  BY <1>2 DEF bodyCallback, Buffers

\* Starting a call keeps the types of the exchange.
LEMMA TypesOfCall ==
  ASSUME ExchangeInv, NEW t \in Threads, StartCall(t)
  PROVE  ExchangeTypeOK' /\ call'[t] \in Call
<1> USE DEF ExchangeInv, ExchangeTypeOK
<1>1. PICK r \in Requests, login \in LoginsOf[t], json \in JsonModes :
        call' = [call EXCEPT ![t] = [r |-> r, login |-> login, json |-> json]]
  BY DEF StartCall
<1>2. [r |-> r, login |-> login, json |-> json] \in Call
  BY TransportAssumption DEF Call
<1>3. call' \in [Threads -> Call \cup {NoCall}] /\ call'[t] \in Call
  BY <1>1, <1>2
<1>4. <<>> \in Seq(WireMessage)
  BY EmptySeq
<1> QED
  BY <1>3, <1>4, NewValues, PartsAssumption DEF StartCall, handleVars

\* The steps that set options keep the types of the exchange.
LEMMA TypesOfOptions ==
  ASSUME ExchangeInv, NEW t \in Threads, SetConnectData(t) \/ SendRequest(t)
  PROVE  ExchangeTypeOK'
<1> USE DEF ExchangeInv, ExchangeTypeOK
<1>1. curl_object[t] \in Handles /\ call[t] \in Call
  BY OwnedHandle DEF SetConnectData, SendRequest, Goto, OwnerSteps, CallInv
<1>2. CASE SetConnectData(t)
  <2>1. setConnectData(options[curl_object[t]], call[t].login) \in Options
    BY <1>1, SetConnectDataType DEF Call
  <2> QED
    BY <1>2, <2>1 DEF SetConnectData, callVars, netVars
<1>3. CASE SendRequest(t)
  <2>1. call[t].r \in Request /\ call[t].json \in BOOLEAN /\ call[t].r.verb # "ILLEGAL"
    BY <1>1, <1>3, TransportAssumption DEF Call, SendRequest
  <2>2. sendRequest(options[curl_object[t]], call[t].r, call[t].json) \in Options
    BY <1>1, <2>1, Memoryless
  <2> QED
    BY <1>3, <2>2, NewValues DEF SendRequest, callVars, netVars
<1> QED
  BY <1>2, <1>3

\* The library's other steps keep the types of the exchange.
LEMMA TypesOfLibrary ==
  ASSUME ExchangeInv, NEW t \in Threads, Library(t)
  PROVE  ExchangeTypeOK'
<1> USE DEF ExchangeInv, ExchangeTypeOK
<1>1. CASE LockGet(t) \/ Grow(t) \/ GrowFails(t) \/ Take(t) \/ Pop(t) \/ LockReturn(t)
           \/ Push(t) \/ CheckResponse(t)
  BY <1>1 DEF LockGet, Grow, GrowFails, Take, Pop, LockReturn, Push, CheckResponse,
              callVars, handleVars, netVars
<1>2. CASE SetConnectData(t) \/ SendRequest(t)
  BY <1>2, TypesOfOptions
<1>3. CASE IllegalVerb(t) \/ MalformedReply(t)
  <2>1. Throw(t)
    BY <1>3 DEF IllegalVerb, MalformedReply
  <2>2. options' \in [Handles -> Options] /\ buffers' \in [Handles -> Buffers(Tags)]
    BY <2>1, NewValues DEF Throw
  <2>3. reused' \in [Handles -> BOOLEAN] /\ ended' \in [Threads -> {"none", "return", "throw"}]
    BY <2>1 DEF Throw
  <2> QED
    BY <2>1, <2>2, <2>3 DEF Throw, netVars
<1>4. CASE GetResponse(t)
  <2>1. curl_object[t] \in Handles
    BY <1>4, OwnedHandle DEF GetResponse, Goto, OwnerSteps
  <2>2. getResponse(buffers[curl_object[t]]) \in Buffers(Tags)
    BY <2>1 DEF getResponse, Buffers, ContentTypes
  <2> QED
    BY <1>4, <2>2 DEF GetResponse, handleVars, netVars
<1> QED
  BY <1>1, <1>2, <1>3, <1>4 DEF Library

\* The steps of libcurl and the network keep the types of the exchange.
LEMMA TypesOfNetwork ==
  ASSUME ExchangeInv, NEW t \in Threads, Network(t)
  PROVE  ExchangeTypeOK'
<1> USE DEF ExchangeInv, ExchangeTypeOK
<1> DEFINE h == curl_object[t]
<1>1. h \in Handles /\ pc[t] \in NetworkSteps /\ call[t] \in Call
  BY OwnedHandle DEF Network, ConnectFails, Transmit, Resend, ReceiveEmpty, ReceiveStatus,
                     ReceiveFragment, Breaks, Goto, OwnerSteps, CallInv, NetworkSteps
<1>2. CASE ConnectFails(t) \/ Resend(t) \/ Breaks(t)
  BY <1>2 DEF ConnectFails, Resend, Breaks, callVars, netVars
<1>3. CASE Transmit(t)
  <2>1. Append(served[t], Wire(options[h])) \in Seq(WireMessage)
    BY <1>1, WireType
  <2> QED
    BY <1>3, <2>1 DEF Transmit, callVars, handleVars
<1>4. CASE ReceiveEmpty(t)
  <2>1. PICK code \in Codes :
          /\ buffers' = [buffers EXCEPT ![h] = receiveStatus(@, code, "none")]
          /\ reused' = [reused EXCEPT ![h] = TRUE]
    BY <1>4 DEF ReceiveEmpty
  <2>2. receiveStatus(buffers[h], code, "none") \in Buffers(Tags)
    <3>1. code \in Nat /\ "none" \in ContentTypes
      BY TransportAssumption DEF Codes, ContentTypes
    <3> QED
      BY <1>1, <3>1, StatusType
  <2> QED
    BY <1>4, <2>1, <2>2 DEF ReceiveEmpty, callVars, netVars
<1>5. CASE ReceiveStatus(t)
  <2>1. PICK reply \in Replies :
          /\ buffers' = [buffers EXCEPT ![h] = receiveStatus(@, reply.code, reply.ctype)]
          /\ reused' = [reused EXCEPT ![h] = FALSE]
    BY <1>5 DEF ReceiveStatus
  <2>2. receiveStatus(buffers[h], reply.code, reply.ctype) \in Buffers(Tags)
    <3>1. reply.code \in Nat /\ reply.ctype \in ContentTypes
      BY TransportAssumption
    <3> QED
      BY <1>1, <3>1, StatusType
  <2> QED
    BY <1>5, <2>1, <2>2 DEF ReceiveStatus, callVars, netVars
<1>6. CASE ReceiveFragment(t)
  <2>1. pc[t] = "body" /\ arrived[t] \in Nat /\ arrived[t] < Parts
    BY <1>6, PartsAssumption DEF ReceiveFragment, Goto, HandleInv
  <2>2. arrived[t] + 1 \in 0 .. Parts /\ <<Tag(t), arrived[t] + 1>> \in Fragment(Tags)
    BY <2>1, PartsAssumption DEF Fragment, Tag, Tags
  <2>3. bodyCallback(buffers[h], <<Tag(t), arrived[t] + 1>>) \in Buffers(Tags)
    BY <1>1, <2>2, BodyType
  <2>4. buffers' \in [Handles -> Buffers(Tags)]
    BY <1>6, <2>3 DEF ReceiveFragment
  <2>5. arrived' \in [Threads -> 0 .. Parts] /\ reused' \in [Handles -> BOOLEAN]
    BY <1>6, <2>2 DEF ReceiveFragment
  <2> QED
    BY <1>6, <2>4, <2>5 DEF ReceiveFragment, callVars
<1> QED
  BY <1>2, <1>3, <1>4, <1>5, <1>6 DEF Network

\* The invariant of a thread's own call after its own step.
LEMMA OwnCall ==
  ASSUME ExchangeInv, NEW t \in Threads, StartCall(t) \/ Library(t) \/ Network(t)
  PROVE  CallInv(t)'
<1> USE DEF ExchangeInv, ExchangeTypeOK, PoolInv, PoolTypeOK
<1>1. CallInv(t) /\ HandleInv(t, options[curl_object[t]], buffers[curl_object[t]])
  OBVIOUS
<1>2. CASE StartCall(t)
  <2>1. /\ served'[t] = <<>> /\ arrived'[t] = 0 /\ ended'[t] = "none" /\ pc'[t] = "lock_get"
        /\ call'[t] \in Call
    BY <1>2, TypesOfCall DEF StartCall, Goto
  <2>2. \A i \in 1 .. Len(served'[t]) : FALSE
    BY <2>1
  <2> QED
    BY <2>1, <2>2 DEF CallInv, BeforeSend
<1>3. CASE LockGet(t) \/ Grow(t) \/ Take(t) \/ Pop(t) \/ SetConnectData(t) \/ SendRequest(t)
  BY <1>1, <1>3 DEF LockGet, Grow, Take, Pop, SetConnectData, SendRequest, Goto, callVars,
                    netVars, CallInv, BeforeSend
<1>4. CASE GrowFails(t)
  BY <1>1, <1>4 DEF GrowFails, Goto, netVars, CallInv, BeforeSend
<1>5. CASE IllegalVerb(t) \/ MalformedReply(t)
  BY <1>1, <1>5 DEF IllegalVerb, MalformedReply, Throw, netVars, CallInv, BeforeSend
<1>6. CASE GetResponse(t)
  <2>1. OwnReply(t, buffers[curl_object[t]])
    BY <1>1, <1>6 DEF GetResponse, Goto, HandleInv
  <2>2. response'[t] = getResponse(buffers[curl_object[t]])
    BY <1>6 DEF GetResponse
  <2>3. curl_object[t] \in Handles
    BY <1>6, OwnedHandle DEF GetResponse, Goto, OwnerSteps
  <2>4. /\ response'[t].body = buffers[curl_object[t]].body
        /\ response'[t].code = buffers[curl_object[t]].code
    BY <2>2, <2>3 DEF getResponse, Buffers
  <2>5. OwnReply(t, response[t])'
    BY <1>6, <2>1, <2>4 DEF OwnReply, GetResponse, netVars, Tag
  <2> QED
    BY <1>1, <1>6, <2>5 DEF GetResponse, Goto, netVars, CallInv, BeforeSend
<1>7. CASE LockReturn(t) \/ Push(t)
  BY <1>1, <1>7 DEF LockReturn, Push, Goto, callVars, netVars, CallInv, BeforeSend, OwnReply, Tag
<1>8. CASE CheckResponse(t)
  BY <1>1, <1>8 DEF CheckResponse, Goto, netVars, CallInv, BeforeSend, OwnReply, Tag
<1>9. CASE Transmit(t)
  <2>1. /\ served'[t] = Append(served[t], Wire(options[curl_object[t]]))
        /\ pc[t] = "perform" /\ pc'[t] = "receive" /\ served[t] \in Seq(WireMessage)
        /\ UNCHANGED <<calls, call, response, ended>>
    BY <1>9 DEF Transmit, Goto, callVars
  <2>2. Wire(options[curl_object[t]]) = Expected(call[t].r, call[t].login, call[t].json)
    BY <1>1, <2>1 DEF HandleInv, NetworkSteps
  <2>3. Wire(options[curl_object[t]]) \in WireMessage
    BY <2>1, OwnedHandle, WireType DEF OwnerSteps
  <2>4. /\ Len(served'[t]) = Len(served[t]) + 1 /\ Len(served[t]) \in Nat
        /\ \A i \in 1 .. Len(served[t]) : served'[t][i] = served[t][i]
        /\ served'[t][Len(served[t]) + 1] = Wire(options[curl_object[t]])
        /\ served'[t] # <<>>
    BY <2>1, <2>3
  <2>5. \A i \in 1 .. Len(served'[t]) :
          served'[t][i] = Expected(call[t].r, call[t].login, call[t].json)
    <3>1. \A i \in 1 .. Len(served[t]) :
            served[t][i] = Expected(call[t].r, call[t].login, call[t].json)
      BY <1>1 DEF CallInv
    <3>2. \A i \in 1 .. Len(served'[t]) : i \in 1 .. Len(served[t]) \/ i = Len(served[t]) + 1
      BY <2>4
    <3> QED
      BY <2>2, <2>4, <3>1, <3>2
  <2> QED
    BY <1>1, <2>1, <2>4, <2>5 DEF CallInv, BeforeSend
<1>10. CASE ConnectFails(t) \/ Resend(t) \/ ReceiveEmpty(t) \/ ReceiveStatus(t) \/ Breaks(t)
            \/ ReceiveFragment(t)
  <2>1. /\ UNCHANGED <<calls, call, response, ended, served>>
        /\ pc[t] \in NetworkSteps /\ pc'[t] \in {"perform", "body", "parse"}
        /\ pc'[t] = "body" => pc[t] \in {"receive", "body"}
    BY <1>10 DEF ConnectFails, Resend, ReceiveEmpty, ReceiveStatus, Breaks, ReceiveFragment,
                 Goto, callVars, netVars, NetworkSteps
  <2> QED
    BY <1>1, <2>1 DEF CallInv, BeforeSend, NetworkSteps
<1> QED
  BY <1>2, <1>3, <1>4, <1>5, <1>6, <1>7, <1>8, <1>9, <1>10 DEF Library, Network

\* The invariant of the handle a thread owns after the thread's own step.
LEMMA OwnHandle ==
  ASSUME ExchangeInv, NEW t \in Threads, StartCall(t) \/ Library(t) \/ Network(t)
  PROVE  HandleInv(t, options[curl_object[t]], buffers[curl_object[t]])'
<1> USE DEF ExchangeInv, ExchangeTypeOK, PoolInv, PoolTypeOK
<1> DEFINE h == curl_object[t]
<1>1. CallInv(t) /\ HandleInv(t, options[h], buffers[h])
  OBVIOUS
<1>2. CASE StartCall(t) \/ LockGet(t) \/ Grow(t) \/ GrowFails(t) \/ Take(t) \/ Pop(t)
           \/ IllegalVerb(t) \/ MalformedReply(t) \/ GetResponse(t) \/ LockReturn(t)
           \/ Push(t) \/ CheckResponse(t)
  <2>1. pc'[t] \notin NetworkSteps \cup {"options", "parse"}
    BY <1>2 DEF StartCall, LockGet, Grow, GrowFails, Take, Pop, IllegalVerb, MalformedReply,
                Throw, GetResponse, LockReturn, Push, CheckResponse, Goto, NetworkSteps
  <2> QED
    BY <2>1 DEF HandleInv, NetworkSteps
<1>3. ASSUME pc[t] \in OwnerSteps PROVE h \in Handles
  BY <1>3, OwnedHandle
<1>4. CASE SetConnectData(t)
  <2>1. /\ pc'[t] = "options" /\ h \in Handles /\ call[t] \in Call
        /\ options'[h] = setConnectData(options[h], call[t].login)
        /\ UNCHANGED <<curl_object, call>>
    BY <1>1, <1>3, <1>4 DEF SetConnectData, Goto, OwnerSteps, callVars, CallInv
  <2>2. options'[h].login = call[t].login
    BY <2>1, SetConnectDataType DEF Call
  <2> QED
    BY <2>1, <2>2 DEF HandleInv, NetworkSteps
<1>5. CASE SendRequest(t)
  <2>1. /\ pc[t] = "options" /\ pc'[t] = "perform" /\ h \in Handles /\ call[t] \in Call
        /\ call[t].r.verb # "ILLEGAL"
        /\ options'[h] = sendRequest(options[h], call[t].r, call[t].json)
        /\ buffers'[h] = NoReply
        /\ UNCHANGED <<curl_object, call, arrived>>
    BY <1>1, <1>3, <1>5 DEF SendRequest, Goto, OwnerSteps, callVars, netVars, CallInv
  <2>2. call[t].r \in Request /\ call[t].json \in BOOLEAN
    BY <2>1, TransportAssumption DEF Call
  <2>3. Wire(options'[h]) = Expected(call[t].r, options[h].login, call[t].json)
    BY <2>1, <2>2, Memoryless
  <2>4. options[h].login = call[t].login /\ arrived[t] = 0
    BY <1>1, <2>1 DEF HandleInv, CallInv, BeforeSend
  <2> QED
    BY <2>1, <2>3, <2>4 DEF HandleInv, NetworkSteps
<1>6. CASE Network(t)
  <2> DEFINE E == Expected(call[t].r, call[t].login, call[t].json)
  <2>1. h \in Handles /\ UNCHANGED <<curl_object, call, options, calls>> /\ pc[t] \in NetworkSteps
    BY <1>3, <1>6 DEF Network, ConnectFails, Transmit, Resend, ReceiveEmpty, ReceiveStatus,
                ReceiveFragment, Breaks, Goto, callVars, handleVars, OwnerSteps, NetworkSteps
  <2>2. Wire(options'[h]) = E /\ E' = E
    BY <1>1, <2>1 DEF HandleInv
  <2> HIDE DEF E
  <2>3. Tag(t) \in Tags /\ Tag(t)' = Tag(t)
    BY <2>1 DEF Tag, Tags
  <2>4. 0 \in 0 .. Parts /\ ReplyBody(Tag(t), 0) = <<>>
    <3>1. 0 \in 0 .. Parts
      BY PartsAssumption
    <3>2. ReplyBody(Tag(t), 0) \in Seq(Fragment(Tags)) /\ Len(ReplyBody(Tag(t), 0)) = 0
      BY <2>3, <3>1, ReplyBodyFacts
    <3> QED
      BY <3>1, <3>2, EmptySeq
  <2>5. NoReply.body = <<>> /\ NoReply.code = 0 /\ Len(<<>>) = 0
    BY DEF NoReply
  <2>6. CASE ConnectFails(t)
    <3>1. pc'[t] = "parse" /\ buffers'[h] = NoReply
      BY <1>1, <2>1, <2>6 DEF ConnectFails, Goto, HandleInv
    <3>2. OwnReply(t, NoReply)'
      BY <2>3, <2>4, <2>5 DEF OwnReply
    <3> QED
      BY <2>1, <3>1, <3>2 DEF HandleInv, NetworkSteps
  <2>7. CASE Transmit(t) \/ Resend(t)
    <3>1. pc'[t] \in {"perform", "receive"} /\ buffers'[h] = NoReply /\ arrived'[t] = 0
      BY <1>1, <2>1, <2>7 DEF Transmit, Resend, Goto, HandleInv, handleVars, netVars
    <3> QED
      BY <2>1, <2>2, <3>1 DEF HandleInv, E
  <2>8. CASE ReceiveEmpty(t)
    <3>1. PICK code \in Codes : buffers' = [buffers EXCEPT ![h] = receiveStatus(@, code, "none")]
      BY <2>8 DEF ReceiveEmpty
    <3>2. /\ pc[t] = "receive" /\ pc'[t] = "parse" /\ buffers[h] = NoReply
          /\ served[t] # <<>> /\ UNCHANGED served
      BY <1>1, <2>1, <2>8 DEF ReceiveEmpty, Goto, HandleInv, CallInv, netVars
    <3>3. buffers'[h].body = <<>> /\ buffers'[h].code = code
      BY <2>1, <2>5, <3>1, <3>2 DEF receiveStatus, NoReply
    <3>4. OwnReply(t, buffers[h])'
      BY <2>1, <2>3, <2>4, <2>5, <3>2, <3>3 DEF OwnReply, Codes
    <3> QED
      BY <2>1, <3>2, <3>4 DEF HandleInv, NetworkSteps
  <2>9. CASE ReceiveStatus(t)
    <3>1. PICK reply \in Replies :
            buffers' = [buffers EXCEPT ![h] = receiveStatus(@, reply.code, reply.ctype)]
      BY <2>9 DEF ReceiveStatus
    <3>2. /\ pc[t] = "receive" /\ pc'[t] = "body" /\ buffers[h] = NoReply
          /\ arrived[t] = 0 /\ UNCHANGED arrived
      BY <1>1, <2>1, <2>9 DEF ReceiveStatus, Goto, HandleInv, netVars
    <3>3. buffers'[h].body = <<>> /\ buffers'[h].code = reply.code /\ reply.code \in Codes
      BY <2>1, <2>5, <3>1, <3>2 DEF receiveStatus, NoReply, Codes
    <3> QED
      BY <2>1, <2>2, <2>3, <2>4, <3>2, <3>3, PartsAssumption DEF HandleInv, NetworkSteps, E
  <2>10. CASE ReceiveFragment(t)
    <3> DEFINE k == arrived[t]
    <3>1. /\ pc[t] = "body" /\ k \in 0 .. Parts /\ k < Parts
          /\ buffers[h].code \in Codes /\ buffers[h].body = ReplyBody(Tag(t), k)
          /\ served[t] # <<>> /\ UNCHANGED served
      BY <1>1, <2>1, <2>10 DEF ReceiveFragment, Goto, HandleInv, CallInv
    <3>2. /\ buffers'[h].body = Append(buffers[h].body, <<Tag(t), k + 1>>)
          /\ buffers'[h].code = buffers[h].code
      BY <2>1, <2>10 DEF ReceiveFragment, bodyCallback, Buffers
    <3>3. k + 1 \in 0 .. Parts
      BY <3>1, PartsAssumption
    <3>4. buffers'[h].body = ReplyBody(Tag(t), k + 1) /\ Len(buffers'[h].body) = k + 1
      <4> HIDE DEF k
      <4>1. Append(ReplyBody(Tag(t), k), <<Tag(t), k + 1>>) = ReplyBody(Tag(t), k + 1)
        BY <2>3, <3>1, ReplyBodyFacts
      <4>2. Len(ReplyBody(Tag(t), k + 1)) = k + 1
        BY <2>3, <3>3, ReplyBodyFacts
      <4> QED
        BY <3>1, <3>2, <4>1, <4>2
    <3>5. arrived'[t] = k + 1 /\ pc'[t] = IF k + 1 = Parts THEN "parse" ELSE "body"
      BY <2>10 DEF ReceiveFragment, Goto
    <3> HIDE DEF k
    <3>6. CASE k + 1 = Parts
      <4>1. OwnReply(t, buffers[h])'
        BY <2>1, <2>3, <3>1, <3>2, <3>4 DEF OwnReply
      <4> QED
        BY <2>1, <3>5, <3>6, <4>1 DEF HandleInv, NetworkSteps
    <3>7. CASE k + 1 # Parts
      <4>1. pc'[t] = "body" /\ arrived'[t] < Parts
        BY <3>3, <3>5, <3>7, PartsAssumption
      <4> QED
        BY <2>1, <2>2, <2>3, <3>1, <3>2, <3>4, <3>5, <4>1 DEF HandleInv, NetworkSteps, E
    <3> QED
      BY <3>6, <3>7
  <2>11. CASE Breaks(t)
    <3>1. pc'[t] = "parse" /\ UNCHANGED <<buffers, served>>
      BY <2>11 DEF Breaks, netVars
    <3>2. OwnReply(t, buffers[h])
      <4>1. CASE pc[t] = "receive"
        BY <1>1, <2>4, <2>5, <4>1 DEF HandleInv, OwnReply
      <4>2. CASE pc[t] = "body"
        BY <1>1, <2>3, <4>2, ReplyBodyFacts DEF HandleInv, OwnReply, CallInv
      <4> QED
        BY <2>11, <4>1, <4>2 DEF Breaks
    <3> QED
      BY <2>1, <2>3, <3>1, <3>2 DEF HandleInv, OwnReply, NetworkSteps
  <2> QED
    BY <1>6, <2>6, <2>7, <2>8, <2>9, <2>10, <2>11 DEF Network
<1> QED
  BY <1>2, <1>4, <1>5, <1>6 DEF Library

\* The program starts without an exchange in progress.
LEMMA ExchangeInit == Init => ExchangeInv
<1> SUFFICES ASSUME Init PROVE ExchangeInv
  OBVIOUS
<1>1. PoolInv
  BY PoolInit
<1>2. ExchangeTypeOK
  BY NewValues, EmptySeq, PartsAssumption DEF Init, ExchangeTypeOK
<1>3. ASSUME NEW t \in Threads
      PROVE  CallInv(t) /\ HandleInv(t, options[curl_object[t]], buffers[curl_object[t]])
  <2>1. pc[t] = "idle" /\ ended[t] = "none" /\ served[t] = <<>>
    BY DEF Init
  <2>2. \A i \in 1 .. Len(served[t]) : FALSE
    BY <2>1
  <2> QED
    BY <2>1, <2>2 DEF CallInv, HandleInv, BeforeSend, NetworkSteps
<1> QED
  BY <1>1, <1>2, <1>3 DEF ExchangeInv

\* Every step keeps the invariant of the exchanges.
LEMMA ExchangeStep == ExchangeInv /\ [Next]_vars => ExchangeInv'
<1> SUFFICES ASSUME ExchangeInv, [Next]_vars PROVE ExchangeInv'
  OBVIOUS
<1>1. PoolInv'
  BY PoolStep DEF ExchangeInv
<1>2. CASE UNCHANGED vars
  <2>1. ExchangeTypeOK'
    BY <1>2 DEF ExchangeInv, ExchangeTypeOK, vars
  <2>2. ASSUME NEW t \in Threads
        PROVE  CallInv(t)' /\ HandleInv(t, options[curl_object[t]], buffers[curl_object[t]])'
    BY <1>2 DEF ExchangeInv, CallInv, HandleInv, OwnReply, Tag, vars
  <2> QED
    BY <1>1, <2>1, <2>2 DEF ExchangeInv
<1>3. ASSUME NEW u \in Threads, StartCall(u) \/ Library(u) \/ Network(u)
      PROVE  ExchangeInv'
  <2>1. ExchangeTypeOK'
    BY <1>3, TypesOfCall, TypesOfLibrary, TypesOfNetwork
  <2>2. CallInv(u)' /\ HandleInv(u, options[curl_object[u]], buffers[curl_object[u]])'
    BY <1>3, OwnCall, OwnHandle
  <2>3. ASSUME NEW t \in Threads, t # u
        PROVE  CallInv(t)' /\ HandleInv(t, options[curl_object[t]], buffers[curl_object[t]])'
    <3>1. CallInv(t) /\ HandleInv(t, options[curl_object[t]], buffers[curl_object[t]])
      BY DEF ExchangeInv
    <3>2. /\ pc'[t] = pc[t] /\ calls'[t] = calls[t] /\ call'[t] = call[t]
          /\ served'[t] = served[t] /\ arrived'[t] = arrived[t]
          /\ response'[t] = response[t] /\ ended'[t] = ended[t]
          /\ curl_object'[t] = curl_object[t]
          /\ curl_object[t] # Null =>
               /\ options'[curl_object[t]] = options[curl_object[t]]
               /\ buffers'[curl_object[t]] = buffers[curl_object[t]]
      BY <1>3, <2>3, Locality DEF ExchangeInv
    <3>3. CallInv(t)'
      BY <3>1, <3>2 DEF CallInv, OwnReply, Tag
    <3>4. pc[t] \in NetworkSteps \cup {"options", "parse"} => curl_object[t] # Null
      BY DEF ExchangeInv, PoolInv, HandlesAccountedFor, NetworkSteps, OwnerSteps
    <3>5. CASE curl_object[t] # Null
      <4> DEFINE o == options[curl_object[t]]
                 b == buffers[curl_object[t]]
      <4>1. o' = o /\ b' = b
        BY <3>2, <3>5
      <4> HIDE DEF o, b
      <4>2. HandleInv(t, o, b) => HandleInv(t, o, b)'
        BY <3>2, <4>1 DEF HandleInv, OwnReply, Tag
      <4> QED
        BY <3>1, <3>3, <4>2 DEF o, b
    <3>6. CASE curl_object[t] = Null
      <4>1. pc'[t] \notin NetworkSteps \cup {"options", "parse"}
        BY <3>2, <3>4, <3>6
      <4> QED
        BY <3>3, <4>1 DEF HandleInv, NetworkSteps
    <3> QED
      BY <3>5, <3>6
  <2> QED
    BY <1>1, <2>1, <2>2, <2>3 DEF ExchangeInv
<1> QED
  BY <1>2, <1>3 DEF Next, Finished

\* In every reachable state a call's handle, its buffers and what the server has received
\* are those of the step of sendREQUEST the call is at.
THEOREM ExchangeInvariant == Spec => []ExchangeInv
  BY ExchangeInit, ExchangeStep, PTL DEF Spec

\* Type correctness.
THEOREM TypeCorrect == Spec => []TypeOK
<1>1. ExchangeInv => TypeOK
  BY DEF ExchangeInv, ExchangeTypeOK, PoolInv, PoolTypeOK, TypeOK
<1> QED
  BY <1>1, ExchangeInvariant, PTL

\* Whatever the pooled handle did before, for whichever thread, the server receives
\* exactly the request and the login of the call that borrowed the handle.
THEOREM OwnRequest == Spec => []WireIsOwnRequest
<1>1. ExchangeInv => WireIsOwnRequest
  BY DEF ExchangeInv, CallInv, WireIsOwnRequest
<1> QED
  BY <1>1, ExchangeInvariant, PTL

\* A call that returns got the reply to its own request (or the beginning of it).
THEOREM OwnResponse == Spec => []ResponseIsOwn
<1>1. ExchangeInv => ResponseIsOwn
  BY DEF ExchangeInv, CallInv, OwnReply, ResponseIsOwn
<1> QED
  BY <1>1, ExchangeInvariant, PTL

\* A thread's own step on its handle moves its program counter or its reply.
LEMMA OwnStepMoves ==
  ASSUME ExchangeInv, NEW t \in Threads, StartCall(t) \/ Library(t) \/ Network(t)
  PROVE  pc'[t] # pc[t] \/ arrived'[t] # arrived[t]
<1> USE DEF ExchangeInv, ExchangeTypeOK, PoolInv, PoolTypeOK
<1>1. CASE ReceiveFragment(t)
  BY <1>1, PartsAssumption DEF ReceiveFragment
<1>2. CASE IllegalVerb(t) \/ MalformedReply(t) \/ Breaks(t)
  BY <1>2 DEF IllegalVerb, MalformedReply, Breaks, Throw
<1>3. CASE StartCall(t) \/ LockGet(t) \/ Grow(t) \/ GrowFails(t) \/ Take(t) \/ Pop(t)
           \/ SetConnectData(t) \/ SendRequest(t) \/ GetResponse(t) \/ LockReturn(t)
           \/ Push(t) \/ CheckResponse(t)
  BY <1>3 DEF StartCall, LockGet, Grow, GrowFails, Take, Pop, SetConnectData, SendRequest,
              GetResponse, LockReturn, Push, CheckResponse, Goto
<1>4. CASE ConnectFails(t) \/ Transmit(t) \/ Resend(t) \/ ReceiveEmpty(t) \/ ReceiveStatus(t)
  BY <1>4 DEF ConnectFails, Transmit, Resend, ReceiveEmpty, ReceiveStatus, Goto
<1> QED
  BY <1>1, <1>2, <1>3, <1>4 DEF Library, Network

\* While a thread owns a handle, every other thread leaves it as it is and alive.
THEOREM Untouched == Spec => HandleUntouchedByOthers
<1>1. ASSUME ExchangeInv, ExchangeInv', [Next]_vars, NEW t \in Threads, NEW h \in Handles,
             curl_object[t] = h, pc'[t] = pc[t], arrived'[t] = arrived[t]
      PROVE  options'[h] = options[h] /\ buffers'[h] = buffers[h] /\ h \in live'
  <2>1. CASE UNCHANGED vars
    BY <1>1, <2>1 DEF vars, ExchangeInv, PoolInv, HandlesAccountedFor
  <2>2. ASSUME NEW u \in Threads, StartCall(u) \/ Library(u) \/ Network(u)
        PROVE  options'[h] = options[h] /\ buffers'[h] = buffers[h] /\ h \in live'
    <3>1. t # u
      BY <1>1, <2>2, OwnStepMoves
    <3>2. /\ curl_object'[t] = h
          /\ options'[h] = options[h] /\ buffers'[h] = buffers[h]
      BY <1>1, <2>2, <3>1, Locality, TransportAssumption DEF ExchangeInv
    <3> QED
      BY <1>1, <3>2 DEF ExchangeInv, PoolInv, HandlesAccountedFor
  <2> QED
    BY <1>1, <2>1, <2>2 DEF Next, Finished
<1>2. ExchangeInv /\ ExchangeInv' /\ [Next]_vars =>
        [\A t \in Threads : \A h \in Handles :
           curl_object[t] = h /\ pc'[t] = pc[t] /\ arrived'[t] = arrived[t]
             => options'[h] = options[h] /\ buffers'[h] = buffers[h] /\ h \in live']_vars
  BY <1>1
<1> QED
  BY <1>2, ExchangeInvariant, PTL DEF Spec, HandleUntouchedByOthers
==============================================================================
