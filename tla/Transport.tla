------------------------------ MODULE Transport ------------------------------
(***************************************************************************)
(* Threads that make library calls.  Each call goes through sendREQUEST:   *)
(* take a RequestCurlObject from the process-wide CurlPool, log in, send   *)
(* the request, read the reply, give the object back.  The pool is a stack *)
(* behind a mutex; a thread may be interrupted between any two statements  *)
(* of get_resource and return_resource, and while the network is at work.  *)
(*                                                                         *)
(* An exception between get_resource and return_resource destroys the      *)
(* handle the unique_ptr of sendREQUEST owns; it never goes back.          *)
(***************************************************************************)
EXTENDS RequestCurlObject, FiniteSets

CONSTANTS Threads,    \* threads, each with an API object of its own
          Handles,    \* identities of RequestCurlObjects, reused once destroyed
          Null,       \* the empty unique_ptr
          NoThread,   \* the owner of a free mutex
          Requests,   \* the requests the threads make
          LoginsOf,   \* thread -> logins its API object may be connected with
          JsonModes,  \* values of !use_velocypack_put met by sendRequest
          Replies,    \* (status code, content type) pairs of replies with a body
          MaxCalls    \* bound: thread -> calls it makes

ASSUME TransportAssumption ==
  /\ IsFiniteSet(Threads)
  /\ Null \notin Handles
  /\ NoThread \notin Threads
  /\ Requests \subseteq Request /\ Null \notin Requests
  /\ LoginsOf \in [Threads -> SUBSET Logins]
  /\ JsonModes \subseteq BOOLEAN
  /\ Replies \subseteq [code : Nat \ {0}, ctype : ContentTypes \ {"none"}]
  /\ MaxCalls \in [Threads -> Nat]

VARIABLES
  pc,         \* thread -> where it is in sendREQUEST
  calls,      \* thread -> calls it has started
  call,       \* thread -> request, login and encoding of its latest call
  curl_object,\* thread -> the handle its unique_ptr owns, or Null
  pool_,      \* the stack of the pool, top last; a released slot holds Null
  pool_mutex, \* the owner of the pool's mutex, or NoThread
  live,       \* handles constructed and not destroyed
  options,    \* handle -> its libcurl options
  buffers,    \* handle -> its reply buffers
  reused,     \* handle -> a connection of an earlier exchange is kept alive
  served,     \* thread -> what the server has received of its call, in order
  arrived,    \* thread -> fragments of the reply delivered so far
  response,   \* thread -> the HttpMessage getResponse made
  ended       \* thread -> how its latest call ended

vars == <<pc, calls, call, curl_object, pool_, pool_mutex, live, options, buffers,
          reused, served, arrived, response, ended>>
callVars   == <<calls, call, response, ended>>
poolVars   == <<pool_, pool_mutex>>
handleVars == <<live, options, buffers, reused>>
netVars    == <<served, arrived>>

Call   == [r : Requests, login : Logins, json : JsonModes]
NoCall == [r |-> Null, login |-> NoLogin, json |-> FALSE]
Tag(t) == <<t, calls[t]>>
Tags   == Threads \X Nat
Codes  == {reply.code : reply \in Replies}

Goto(t, from, to) == pc[t] = from /\ pc' = [pc EXCEPT ![t] = to]

Init ==
  /\ pc = [t \in Threads |-> "idle"]
  /\ calls = [t \in Threads |-> 0]
  /\ call = [t \in Threads |-> NoCall]
  /\ curl_object = [t \in Threads |-> Null]
  /\ pool_ = <<>> /\ pool_mutex = NoThread
  /\ live = {}
  /\ options = [h \in Handles |-> NewOptions]
  /\ buffers = [h \in Handles |-> NoReply]
  /\ reused = [h \in Handles |-> FALSE]
  /\ served = [t \in Threads |-> <<>>]
  /\ arrived = [t \in Threads |-> 0]
  /\ response = [t \in Threads |-> NoReply]
  /\ ended = [t \in Threads |-> "none"]

\* A library operation calls sendREQUEST.  use_velocypack_put is read later, in
\* sendRequest; its value is picked here, nothing looks at it in between.
StartCall(t) ==
  /\ Goto(t, "idle", "lock_get")
  /\ calls[t] < MaxCalls[t]
  /\ calls' = [calls EXCEPT ![t] = @ + 1]
  /\ \E r \in Requests, login \in LoginsOf[t], json \in JsonModes :
       call' = [call EXCEPT ![t] = [r |-> r, login |-> login, json |-> json]]
  /\ served' = [served EXCEPT ![t] = <<>>]
  /\ arrived' = [arrived EXCEPT ![t] = 0]
  /\ response' = [response EXCEPT ![t] = NoReply]
  /\ ended' = [ended EXCEPT ![t] = "none"]
  /\ UNCHANGED <<curl_object, poolVars, handleVars>>

------------------------------------------------------------------------------
(* CurlPool::get_resource *)

\* Mutant: get_resource without its lock_guard.
LockGet_Unguarded(t) ==
  /\ Goto(t, "lock_get", "grow")
  /\ UNCHANGED <<callVars, curl_object, poolVars, handleVars, netVars>>

LockGet(t) ==
  /\ Goto(t, "lock_get", "grow")
  /\ pool_mutex = NoThread
  /\ pool_mutex' = t
  /\ UNCHANGED <<callVars, curl_object, pool_, handleVars, netVars>>

\* Mutant: a handle is made for every call, not only for an empty pool.
Grow_Always(t) ==
  LET h == CHOOSE x \in Handles : x \notin live IN
  /\ Goto(t, "grow", "take")
  /\ h \in Handles \ live /\ pool_' = Append(pool_, h) /\ live' = live \cup {h}
  /\ UNCHANGED <<callVars, curl_object, pool_mutex, options, buffers, reused, netVars>>

\* A handle that is not live has the options and buffers of a new one.  Which
\* free identity the allocator picks makes no difference.
Grow(t) ==
  LET h == CHOOSE x \in Handles : x \notin live IN
  /\ Goto(t, "grow", "take")
  /\ IF pool_ # <<>> THEN UNCHANGED <<pool_, live>>
     ELSE h \in Handles \ live /\ pool_' = <<h>> /\ live' = live \cup {h}
  /\ UNCHANGED <<callVars, curl_object, pool_mutex, options, buffers, reused, netVars>>

\* The constructor throws "Curl did not initialize!"; unwinding frees the mutex.
GrowFails(t) ==
  /\ Goto(t, "grow", "idle")
  /\ pool_ = <<>>
  /\ pool_mutex' = NoThread
  /\ ended' = [ended EXCEPT ![t] = "throw"]
  /\ UNCHANGED <<calls, call, response, curl_object, pool_, handleVars, netVars>>

\* Mutant: get() instead of release(): the slot keeps owning the handle.
Take_NotReleased(t) ==
  /\ Goto(t, "take", "pop")
  /\ pool_ # <<>>
  /\ curl_object' = [curl_object EXCEPT ![t] = pool_[Len(pool_)]]
  /\ UNCHANGED <<callVars, poolVars, handleVars, netVars>>

Take(t) ==
  /\ Goto(t, "take", "pop")
  /\ pool_ # <<>>
  /\ curl_object' = [curl_object EXCEPT ![t] = pool_[Len(pool_)]]
  /\ pool_' = [pool_ EXCEPT ![Len(pool_)] = Null]
  /\ UNCHANGED <<callVars, pool_mutex, handleVars, netVars>>

\* Mutant: the mutex is still held when get_resource returns.
Pop_NoUnlock(t) ==
  /\ Goto(t, "pop", "connect")
  /\ pool_ # <<>>
  /\ pool_' = SubSeq(pool_, 1, Len(pool_) - 1)
  /\ UNCHANGED <<callVars, curl_object, pool_mutex, handleVars, netVars>>

Pop(t) ==
  /\ Goto(t, "pop", "connect")
  /\ pool_ # <<>>
  /\ pool_' = SubSeq(pool_, 1, Len(pool_) - 1)
  /\ pool_mutex' = NoThread
  /\ UNCHANGED <<callVars, curl_object, handleVars, netVars>>

------------------------------------------------------------------------------
(* The body of sendREQUEST, on the handle the thread owns *)

\* An exception leaves sendREQUEST before return_resource.
Throw(t) ==
  LET h == curl_object[t] IN
  /\ pc' = [pc EXCEPT ![t] = "idle"]
  /\ ended' = [ended EXCEPT ![t] = "throw"]
  /\ curl_object' = [curl_object EXCEPT ![t] = Null]
  /\ live' = live \ {h}
  /\ options' = [options EXCEPT ![h] = NewOptions]
  /\ buffers' = [buffers EXCEPT ![h] = NoReply]
  /\ reused' = [reused EXCEPT ![h] = FALSE]
  /\ UNCHANGED <<calls, call, response, poolVars, netVars>>

SetConnectData(t) ==
  LET h == curl_object[t] IN
  /\ Goto(t, "connect", "options")
  /\ options' = [options EXCEPT ![h] = setConnectData(@, call[t].login)]
  /\ UNCHANGED <<callVars, curl_object, poolVars, live, buffers, reused, netVars>>

\* Mutant: an illegal verb is sent as a custom one.
SendRequest_AnyVerb(t) ==
  LET h == curl_object[t] IN
  /\ Goto(t, "options", "perform")
  /\ options' = [options EXCEPT ![h] = sendRequest(@, call[t].r, call[t].json)]
  /\ buffers' = [buffers EXCEPT ![h] = NoReply]
  /\ UNCHANGED <<callVars, curl_object, poolVars, live, reused, netVars>>

\* Mutant: _responseBody is not cleared.
SendRequest_KeepBody(t) ==
  LET h == curl_object[t] IN
  /\ Goto(t, "options", "perform")
  /\ call[t].r.verb # "ILLEGAL"
  /\ options' = [options EXCEPT ![h] = sendRequest(@, call[t].r, call[t].json)]
  /\ buffers' = [buffers EXCEPT ![h].code = 0, ![h].ctype = "none"]
  /\ UNCHANGED <<callVars, curl_object, poolVars, live, reused, netVars>>

SendRequest(t) ==
  LET h == curl_object[t] IN
  /\ Goto(t, "options", "perform")
  /\ call[t].r.verb # "ILLEGAL"
  /\ options' = [options EXCEPT ![h] = sendRequest(@, call[t].r, call[t].json)]
  /\ buffers' = [buffers EXCEPT ![h] = NoReply]
  /\ UNCHANGED <<callVars, curl_object, poolVars, live, reused, netVars>>

IllegalVerb(t) ==
  /\ pc[t] = "options"
  /\ call[t].r.verb = "ILLEGAL"
  /\ Throw(t)

\* The callers ignore what sendRequest returns: an error of the transfer ends
\* here like a success, in getResponse.
GetResponse(t) ==
  LET h == curl_object[t] IN
  /\ Goto(t, "parse", "lock_return")
  /\ ~ParserThrows(buffers[h])
  /\ response' = [response EXCEPT ![t] = getResponse(buffers[h])]
  /\ UNCHANGED <<calls, call, ended, curl_object, poolVars, handleVars, netVars>>

MalformedReply(t) ==
  /\ pc[t] = "parse"
  /\ ParserThrows(buffers[curl_object[t]])
  /\ Throw(t)

(* CurlPool::return_resource *)

LockReturn(t) ==
  /\ Goto(t, "lock_return", "push")
  /\ pool_mutex = NoThread
  /\ pool_mutex' = t
  /\ UNCHANGED <<callVars, curl_object, pool_, handleVars, netVars>>

\* Mutant: the handle is given back and still used (not moved from).
Push_NotMoved(t) ==
  /\ Goto(t, "push", "check")
  /\ pool_' = Append(pool_, curl_object[t])
  /\ pool_mutex' = NoThread
  /\ UNCHANGED <<callVars, curl_object, handleVars, netVars>>

Push(t) ==
  /\ Goto(t, "push", "check")
  /\ pool_' = Append(pool_, curl_object[t])
  /\ curl_object' = [curl_object EXCEPT ![t] = Null]
  /\ pool_mutex' = NoThread
  /\ UNCHANGED <<callVars, handleVars, netVars>>

\* Mutant: status code 0 is not an error.
CheckResponse_NoStatusCheck(t) ==
  /\ Goto(t, "check", "idle")
  /\ ended' = [ended EXCEPT ![t] = "return"]
  /\ UNCHANGED <<calls, call, response, curl_object, poolVars, handleVars, netVars>>

\* The two checks after return_resource.
CheckResponse(t) ==
  /\ Goto(t, "check", "idle")
  /\ ended' = [ended EXCEPT ![t] =
                 IF isContentTypeVPack(response[t]) /\ response[t].code # 0
                 THEN "return" ELSE "throw"]
  /\ UNCHANGED <<calls, call, response, curl_object, poolVars, handleVars, netVars>>

------------------------------------------------------------------------------
(* curl_easy_perform: libcurl, the network and the server (external) *)

ConnectFails(t) ==
  /\ Goto(t, "perform", "parse")
  /\ reused' = [reused EXCEPT ![curl_object[t]] = FALSE]
  /\ UNCHANGED <<callVars, curl_object, poolVars, live, options, buffers, netVars>>

Transmit(t) ==
  /\ Goto(t, "perform", "receive")
  /\ served' = [served EXCEPT ![t] = Append(@, Wire(options[curl_object[t]]))]
  /\ UNCHANGED <<callVars, curl_object, poolVars, handleVars, arrived>>

\* A kept connection died before the first byte of the reply: libcurl repeats
\* the request on a new connection, whatever its verb.
Resend(t) ==
  LET h == curl_object[t] IN
  /\ Goto(t, "receive", "perform")
  /\ reused[h]
  /\ reused' = [reused EXCEPT ![h] = FALSE]
  /\ UNCHANGED <<callVars, curl_object, poolVars, live, options, buffers, netVars>>

\* Status line and headers of a reply without a body: a complete exchange.
ReceiveEmpty(t) ==
  LET h == curl_object[t] IN
  \E code \in Codes :
    /\ Goto(t, "receive", "parse")
    /\ buffers' = [buffers EXCEPT ![h] = receiveStatus(@, code, "none")]
    /\ reused' = [reused EXCEPT ![h] = TRUE]
    /\ UNCHANGED <<callVars, curl_object, poolVars, live, options, netVars>>

\* Status line and headers of a reply whose body follows.
ReceiveStatus(t) ==
  LET h == curl_object[t] IN
  \E reply \in Replies :
    /\ Goto(t, "receive", "body")
    /\ ~options[h].nobody
    /\ buffers' = [buffers EXCEPT ![h] = receiveStatus(@, reply.code, reply.ctype)]
    /\ reused' = [reused EXCEPT ![h] = FALSE]
    /\ UNCHANGED <<callVars, curl_object, poolVars, live, options, netVars>>

ReceiveFragment(t) ==
  LET h == curl_object[t]
      last == arrived[t] + 1 = Parts
  IN
  /\ Goto(t, "body", IF last THEN "parse" ELSE "body")
  /\ arrived' = [arrived EXCEPT ![t] = @ + 1]
  /\ buffers' = [buffers EXCEPT ![h] = bodyCallback(@, <<Tag(t), arrived[t] + 1>>)]
  /\ reused' = [reused EXCEPT ![h] = last]
  /\ UNCHANGED <<callVars, curl_object, poolVars, live, options, served>>

\* The connection is lost in the middle of the exchange.
Breaks(t) ==
  /\ pc[t] \in {"receive", "body"}
  /\ pc' = [pc EXCEPT ![t] = "parse"]
  /\ reused' = [reused EXCEPT ![curl_object[t]] = FALSE]
  /\ UNCHANGED <<callVars, curl_object, poolVars, live, options, buffers, netVars>>

Network(t) ==
  ConnectFails(t) \/ Transmit(t) \/ Resend(t) \/ ReceiveEmpty(t) \/ ReceiveStatus(t)
  \/ ReceiveFragment(t) \/ Breaks(t)

Library(t) ==
  LockGet(t) \/ Grow(t) \/ GrowFails(t) \/ Take(t) \/ Pop(t) \/ SetConnectData(t)
  \/ SendRequest(t) \/ IllegalVerb(t) \/ GetResponse(t) \/ MalformedReply(t)
  \/ LockReturn(t) \/ Push(t) \/ CheckResponse(t)

Finished ==
  /\ \A t \in Threads : pc[t] = "idle" /\ calls[t] = MaxCalls[t]
  /\ UNCHANGED vars

Next == (\E t \in Threads : StartCall(t) \/ Library(t) \/ Network(t)) \/ Finished

Spec == Init /\ [][Next]_vars

\* The scheduler runs every thread that can run.  Nothing is assumed of the
\* network: sendRequest sets no timeout, so a silent server may hold a call forever.
FairSpec == Spec /\ \A t \in Threads : WF_vars(Library(t))
------------------------------------------------------------------------------
(* Properties *)

InPool(h) == \E i \in 1 .. Len(pool_) : pool_[i] = h

PoolSteps    == {"grow", "take", "pop", "push"}
OwnerSteps   == {"pop", "connect", "options", "perform", "receive", "body", "parse",
                 "lock_return", "push"}
NetworkSteps == {"perform", "receive", "body"}
PCs == {"idle", "lock_get", "check"} \cup PoolSteps \cup OwnerSteps

\* Types of all variables.
TypeOK ==
  /\ pc \in [Threads -> PCs]
  /\ calls \in [Threads -> Nat]
  /\ call \in [Threads -> Call \cup {NoCall}]
  /\ curl_object \in [Threads -> Handles \cup {Null}]
  /\ pool_ \in Seq(Handles \cup {Null})
  /\ pool_mutex \in Threads \cup {NoThread}
  /\ live \subseteq Handles
  /\ options \in [Handles -> Options]
  /\ buffers \in [Handles -> Buffers(Tags)]
  /\ reused \in [Handles -> BOOLEAN]
  /\ served \in [Threads -> Seq(WireMessage)]
  /\ arrived \in [Threads -> 0 .. Parts]
  /\ response \in [Threads -> Buffers(Tags)]
  /\ ended \in [Threads -> {"none", "return", "throw"}]

\* A RequestCurlObject belongs to one thread or to one slot of the pool, never to
\* two of them (the unique_ptr that get_resource releases under the mutex).
ExclusiveHandles ==
  /\ \A t, u \in Threads : curl_object[t] = curl_object[u] => t = u \/ curl_object[t] = Null
  /\ \A t \in Threads : curl_object[t] # Null => ~InPool(curl_object[t])
  /\ \A i, j \in 1 .. Len(pool_) : pool_[i] = pool_[j] => i = j

\* No handle is lost and none is used after its destruction, whatever exception
\* ends a call: the live handles are those of the pool and of the running calls,
\* and a call that uses its handle has one.
HandlesAccountedFor ==
  /\ live = {h \in Handles : InPool(h) \/ \E t \in Threads : curl_object[t] = h}
  /\ \A t \in Threads : pc[t] \in OwnerSteps <=> curl_object[t] # Null

\* The pool grows with the number of concurrent calls, not with the calls made.
PoolBounded == Cardinality(live) <= Cardinality(Threads)

\* What a reused handle sends is the request of the call that borrowed it, with
\* that call's credentials: no verb, body, header, URL or login of an earlier
\* exchange (of any thread) is left on it.
WireIsOwnRequest ==
  \A t \in Threads : \A i \in 1 .. Len(served[t]) :
    served[t][i] = Expected(call[t].r, call[t].login, call[t].json)

\* A call that returns was answered: it has a status code the server sent after
\* receiving the request, and no fragment of another exchange's reply.
ResponseIsOwn ==
  \A t \in Threads : ended[t] = "return" =>
    /\ served[t] # <<>>
    /\ response[t].code \in Codes
    /\ response[t].body = ReplyBody(Tag(t), Len(response[t].body))

\* While a thread owns a handle, nobody else's step changes the handle.
HandleUntouchedByOthers ==
  [][\A t \in Threads : \A h \in Handles :
       curl_object[t] = h /\ pc'[t] = pc[t] /\ arrived'[t] = arrived[t]
         => options'[h] = options[h] /\ buffers'[h] = buffers[h] /\ h \in live']_vars

\* A call never waits for another call's network: outside curl_easy_perform every
\* call runs on until it ends or enters curl_easy_perform itself.
CallsReachNetwork ==
  \A t \in Threads :
    pc[t] \notin NetworkSteps ~> pc[t] \in NetworkSteps \cup {"idle"}

\* Transport implements the service the operations rely on.
Service == INSTANCE RequestService WITH
  Clients <- Threads,
  Calls   <- Call,
  Message <- LAMBDA c : Expected(c.r, c.login, c.json),
  open    <- [t \in Threads |-> IF pc[t] = "idle" THEN NoCall ELSE call[t]],
  answer  <- [t \in Threads |->
                [how  |-> ended[t],
                 code |-> IF ended[t] = "return" THEN response[t].code ELSE 0,
                 body |-> IF ended[t] = "return" THEN response[t].body ELSE <<>>]]
ImplementsService == Service!Spec

\* "Send a request to the server and wait into a response it received"
\* (arangocollection.cpp:76): a reply that is returned is the reply the server
\* sent, not what arrived of it before the connection broke.
ReturnedReplyIsWhole ==
  \A t \in Threads : ended[t] = "return" => arrived[t] \in {0, Parts}
==============================================================================
