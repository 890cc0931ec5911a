---------------------------- MODULE ServiceProofs ----------------------------
(***************************************************************************)
(* Transport implements RequestService, for every number of threads,       *)
(* handles, calls and requests: the pool, the reused handles and what      *)
(* libcurl does with them are invisible in what the server receives of a   *)
(* call and in how the call ends.                                          *)
(***************************************************************************)
EXTENDS TransportProofs

(* How often a request is sent.  libcurl repeats it on a kept connection    *)
(* only, and what it repeats it on is a new one.                            *)

\* The server receives a request a second time after a repetition only, and after one there is
\* no kept connection left to repeat it on.
RetryInv(t, kept) ==
  /\ pc[t] = "perform" => served[t] = <<>> \/ (Len(served[t]) = 1 /\ ~kept)
  /\ pc[t] = "receive" => Len(served[t]) = 1 \/ (Len(served[t]) = 2 /\ ~kept)

ServiceInv ==
  /\ ExchangeInv
  /\ \A t \in Threads : RetryInv(t, reused[curl_object[t]])

\* The mapping: a call is open until sendREQUEST has ended, and it is answered by how it ended.
Open(t) == IF pc[t] = "idle" THEN NoCall ELSE call[t]
AnswerTo(t) == [how  |-> ended[t],
                code |-> IF ended[t] = "return" THEN response[t].code ELSE 0,
                body |-> IF ended[t] = "return" THEN response[t].body ELSE <<>>]

\* Before the first call nothing has been sent.
LEMMA ServiceInit == Init => ServiceInv
<1>1. Init => \A t \in Threads : RetryInv(t, reused[curl_object[t]])
  BY DEF Init, RetryInv
<1> QED
  BY <1>1, ExchangeInit DEF ServiceInv

\* A thread's own step sends its request no oftener than that.
LEMMA OwnRetry ==
  ASSUME ServiceInv, NEW t \in Threads, StartCall(t) \/ Library(t) \/ Network(t)
  PROVE  RetryInv(t, reused[curl_object[t]])'
<1> DEFINE h == curl_object[t]
<1>1. /\ ExchangeTypeOK /\ PoolInv /\ CallInv(t) /\ RetryInv(t, reused[h])
      /\ pc \in [Threads -> PCs] /\ curl_object \in [Threads -> Handles \cup {Null}]
  BY DEF ServiceInv, ExchangeInv, PoolInv, PoolTypeOK
<1>2. pc[t] \in OwnerSteps => h \in Handles
  BY <1>1, OwnedHandle
<1>3. CASE StartCall(t) \/ LockGet(t) \/ Grow(t) \/ GrowFails(t) \/ Take(t) \/ Pop(t)
           \/ SetConnectData(t) \/ IllegalVerb(t) \/ GetResponse(t) \/ MalformedReply(t)
           \/ LockReturn(t) \/ Push(t) \/ CheckResponse(t) \/ ConnectFails(t)
           \/ ReceiveEmpty(t) \/ ReceiveStatus(t) \/ ReceiveFragment(t) \/ Breaks(t)
  <2>1. pc'[t] \notin {"perform", "receive"}
    BY <1>1, <1>3
    DEF StartCall, LockGet, Grow, GrowFails, Take, Pop, SetConnectData, IllegalVerb,
        GetResponse, MalformedReply, Throw, LockReturn, Push, CheckResponse, ConnectFails,
        ReceiveEmpty, ReceiveStatus, ReceiveFragment, Breaks, Goto
  <2> QED
    BY <2>1 DEF RetryInv
<1>4. CASE SendRequest(t)
  <2>1. pc[t] = "options" /\ pc'[t] = "perform" /\ served' = served
    BY <1>1, <1>4 DEF SendRequest, Goto, netVars
  <2> QED
    BY <1>1, <2>1 DEF RetryInv, CallInv, BeforeSend
<1>5. CASE Transmit(t)
  <2>1. /\ pc[t] = "perform" /\ pc'[t] = "receive"
        /\ served' = [served EXCEPT ![t] = Append(@, Wire(options[h]))]
        /\ UNCHANGED <<reused, curl_object>>
    BY <1>1, <1>5 DEF Transmit, Goto, handleVars
  <2>2. served[t] \in Seq(WireMessage) /\ Wire(options[h]) \in WireMessage
    BY <1>1, <1>2, <2>1, WireType DEF ExchangeTypeOK, OwnerSteps
  <2>3. Len(served'[t]) = Len(served[t]) + 1
    BY <1>1, <2>1, <2>2, AppendProperties DEF ExchangeTypeOK
  <2>4. served[t] = <<>> => Len(served[t]) = 0
    BY EmptySeq
  <2>5. reused'[curl_object'[t]] = reused[h] /\ Len(served[t]) \in Nat
    BY <2>1, <2>2
  <2>6. Len(served[t]) = 0 \/ (Len(served[t]) = 1 /\ ~reused[h])
    BY <1>1, <2>1, <2>4 DEF RetryInv
  <2>7. Len(served'[t]) = 1 \/ (Len(served'[t]) = 2 /\ ~reused'[curl_object'[t]])
    <3> DEFINE n == Len(served[t])
               m == Len(served'[t])
               kept == reused[h]
               keeps == reused'[curl_object'[t]]
    <3>1. m = n + 1 /\ keeps = kept
      BY <2>3, <2>5
    <3>2. n = 0 \/ (n = 1 /\ ~kept)
      BY <2>6
    <3> HIDE DEF n, m, kept, keeps
    <3>3. CASE n = 0
      <4>1. m = 1
        BY <3>1, <3>3
      <4> QED
        BY <4>1 DEF m
    <3>4. CASE n = 1 /\ ~kept
      <4>1. m = 2 /\ ~keeps
        BY <3>1, <3>4
      <4> QED
        BY <4>1 DEF m, keeps
    <3> QED
      BY <3>2, <3>3, <3>4
  <2> QED
    BY <2>1, <2>7 DEF RetryInv
<1>6. CASE Resend(t)
  <2>1. /\ pc[t] = "receive" /\ pc'[t] = "perform" /\ reused[h]
        /\ reused' = [reused EXCEPT ![h] = FALSE] /\ UNCHANGED <<served, curl_object>>
    BY <1>1, <1>6 DEF Resend, Goto, netVars
  <2>2. Len(served[t]) = 1 /\ ~reused'[h]
    BY <1>1, <1>2, <2>1 DEF RetryInv, OwnerSteps, ExchangeTypeOK
  <2> QED
    BY <2>1, <2>2 DEF RetryInv
<1> QED
  BY <1>3, <1>4, <1>5, <1>6 DEF Library, Network

\* Every step keeps the invariant of the refinement.
LEMMA ServiceStep == ServiceInv /\ [Next]_vars => ServiceInv'
<1> SUFFICES ASSUME ServiceInv, [Next]_vars PROVE ServiceInv'
  OBVIOUS
<1>1. ExchangeInv'
  BY ExchangeStep DEF ServiceInv
<1>2. CASE UNCHANGED vars
  BY <1>1, <1>2 DEF vars, ServiceInv, RetryInv
<1>3. ASSUME NEW u \in Threads, StartCall(u) \/ Library(u) \/ Network(u),
             NEW t \in Threads
      PROVE  RetryInv(t, reused[curl_object[t]])'
  <2>1. CASE t = u
    BY <1>3, <2>1, OwnRetry
  <2>2. CASE t # u
    <3>1. /\ pc'[t] = pc[t] /\ served'[t] = served[t] /\ curl_object'[t] = curl_object[t]
          /\ curl_object[t] # Null => reused'[curl_object[t]] = reused[curl_object[t]]
      BY <1>3, <2>2, Locality DEF ServiceInv, ExchangeInv
    <3>2. pc[t] \in {"perform", "receive"} => curl_object[t] # Null
      BY DEF ServiceInv, ExchangeInv, PoolInv, HandlesAccountedFor, OwnerSteps
    <3> QED
      BY <3>1, <3>2 DEF ServiceInv, RetryInv
  <2> QED
    BY <2>1, <2>2
<1> QED
  BY <1>1, <1>2, <1>3 DEF ServiceInv, Next, Finished

------------------------------------------------------------------------------
(* The refinement. *)

\* The state of the service changes where the step is; Kept says that it does not change at t.
Kept(t) == /\ calls'[t] = calls[t] /\ Open(t)' = Open(t)
           /\ served'[t] = served[t] /\ AnswerTo(t)' = AnswerTo(t)

\* The calls open and the answers given, as the service has them.
OpenCalls == [t \in Threads |-> Open(t)]
Answered  == [t \in Threads |-> AnswerTo(t)]

\* A step that changes the service at no thread is a stutter of the service.
LEMMA Stutters ==
  ASSUME ExchangeTypeOK, ExchangeTypeOK', \A t \in Threads : Kept(t)
  PROVE  UNCHANGED Service!vars
<1>1. calls' = calls /\ served' = served
  BY DEF ExchangeTypeOK, Kept
<1>2. OpenCalls' = OpenCalls /\ Answered' = Answered
  BY DEF Kept, OpenCalls, Answered
<1> QED
  BY <1>1, <1>2 DEF Service!vars, Open, AnswerTo, OpenCalls, Answered

\* A step of one thread changes the service at that thread only.
LEMMA Updates ==
  ASSUME ExchangeTypeOK, ExchangeTypeOK', NEW t \in Threads, \A u \in Threads \ {t} : Kept(u)
  PROVE  /\ OpenCalls' = [OpenCalls EXCEPT ![t] = Open(t)']
         /\ Answered' = [Answered EXCEPT ![t] = AnswerTo(t)']
         /\ calls' = [calls EXCEPT ![t] = calls'[t]]
         /\ served' = [served EXCEPT ![t] = served'[t]]
<1>1. \A u \in Threads \ {t} : /\ Open(u)' = Open(u) /\ AnswerTo(u)' = AnswerTo(u)
                               /\ calls'[u] = calls[u] /\ served'[u] = served[u]
  BY DEF Kept
<1>2. OpenCalls' = [OpenCalls EXCEPT ![t] = Open(t)']
  BY <1>1 DEF OpenCalls
<1>3. Answered' = [Answered EXCEPT ![t] = AnswerTo(t)']
  BY <1>1 DEF Answered
<1>4. calls' = [calls EXCEPT ![t] = calls'[t]] /\ served' = [served EXCEPT ![t] = served'[t]]
  BY <1>1 DEF ExchangeTypeOK
<1> QED
  BY <1>2, <1>3, <1>4

\* The other threads see nothing of a thread's step.
LEMMA OthersKept ==
  ASSUME ExchangeInv, NEW t \in Threads, StartCall(t) \/ Library(t) \/ Network(t),
         NEW u \in Threads \ {t}
  PROVE  Kept(u)
<1>1. /\ pc'[u] = pc[u] /\ calls'[u] = calls[u] /\ call'[u] = call[u] /\ served'[u] = served[u]
      /\ response'[u] = response[u] /\ ended'[u] = ended[u]
  BY Locality DEF ExchangeInv
<1> QED
  BY <1>1 DEF Kept, Open, AnswerTo

\* A call under way is a call.
LEMMA IsOpen ==
  ASSUME ExchangeInv, NEW t \in Threads, pc[t] # "idle"
  PROVE  Open(t) = call[t] /\ call[t] \in Call /\ call[t] # NoCall /\ AnswerTo(t) = Service!NoAnswer
<1>1. call[t] \in Call /\ ended[t] = "none"
  BY DEF ExchangeInv, CallInv
<1>2. call[t] # NoCall
  <2>1. call[t].r # Null
    BY <1>1, TransportAssumption DEF Call
  <2>2. NoCall.r = Null
    BY DEF NoCall
  <2> QED
    BY <2>1, <2>2
<1> QED
  BY <1>1, <1>2 DEF Open, AnswerTo, Service!NoAnswer

\* A library operation that calls sendREQUEST asks the service.
LEMMA StartAsks ==
  ASSUME ExchangeInv, ExchangeInv', NEW t \in Threads, StartCall(t)
  PROVE  Service!Ask(t)
<1>1. ExchangeTypeOK /\ ExchangeTypeOK'
  BY DEF ExchangeInv
<1>2. /\ OpenCalls' = [OpenCalls EXCEPT ![t] = Open(t)']
      /\ Answered' = [Answered EXCEPT ![t] = AnswerTo(t)']
      /\ served' = [served EXCEPT ![t] = served'[t]]
  BY <1>1, OthersKept, Updates
<1>3. /\ pc[t] = "idle" /\ pc'[t] = "lock_get" /\ calls[t] < MaxCalls[t]
      /\ calls' = [calls EXCEPT ![t] = @ + 1] /\ served' = [served EXCEPT ![t] = <<>>]
      /\ ended'[t] = "none"
  BY <1>1 DEF StartCall, Goto, ExchangeTypeOK, ExchangeInv, PoolInv, PoolTypeOK
<1>4. call'[t] \in Call
  BY TypesOfCall
<1>5. OpenCalls[t] = NoCall /\ Open(t)' = call'[t] /\ AnswerTo(t)' = Service!NoAnswer
  BY <1>3 DEF OpenCalls, Open, AnswerTo, Service!NoAnswer
<1>6. \E x \in Call : OpenCalls' = [OpenCalls EXCEPT ![t] = x]
  BY <1>2, <1>4, <1>5
<1>7. Answered' = [Answered EXCEPT ![t] = Service!NoAnswer]
  BY <1>2, <1>5
<1> QED
  BY <1>3, <1>5, <1>6, <1>7 DEF Service!Ask, OpenCalls, Answered, Open, AnswerTo

\* A transmission is a service of the request the call stated, the second one at most.
LEMMA TransmitServes ==
  ASSUME ServiceInv, ServiceInv', NEW t \in Threads, Transmit(t)
  PROVE  Service!Serve(t)
<1>1. /\ ExchangeInv /\ ExchangeTypeOK /\ ExchangeTypeOK'
      /\ HandleInv(t, options[curl_object[t]], buffers[curl_object[t]])
      /\ RetryInv(t, reused[curl_object[t]]) /\ pc \in [Threads -> PCs]
  BY DEF ServiceInv, ExchangeInv, PoolInv, PoolTypeOK
<1>2. /\ OpenCalls' = [OpenCalls EXCEPT ![t] = Open(t)']
      /\ Answered' = [Answered EXCEPT ![t] = AnswerTo(t)']
  BY <1>1, OthersKept, Updates DEF Network
<1>3. /\ pc[t] = "perform" /\ pc'[t] = "receive"
      /\ served' = [served EXCEPT ![t] = Append(@, Wire(options[curl_object[t]]))]
      /\ UNCHANGED <<calls, call, response, ended>>
  BY <1>1 DEF Transmit, Goto, callVars
<1>4. Wire(options[curl_object[t]]) = Expected(call[t].r, call[t].login, call[t].json)
  BY <1>1, <1>3 DEF HandleInv, NetworkSteps
<1>5. Len(served[t]) < 2
  <2>1. served[t] = <<>> => Len(served[t]) = 0
    BY EmptySeq
  <2> DEFINE n == Len(served[t])
  <2>2. n = 0 \/ n = 1
    BY <1>1, <1>3, <2>1 DEF RetryInv
  <2> HIDE DEF n
  <2>3. n < 2
    BY <2>2
  <2> QED
    BY <2>3 DEF n
<1>6. OpenCalls[t] = call[t] /\ call[t] # NoCall
  BY <1>1, <1>3, IsOpen DEF OpenCalls
<1>7. Open(t)' = Open(t) /\ AnswerTo(t)' = AnswerTo(t)
  BY <1>3 DEF Open, AnswerTo
<1>8. OpenCalls' = OpenCalls /\ Answered' = Answered
  BY <1>2, <1>7 DEF OpenCalls, Answered
<1>9. served' = [served EXCEPT ![t] =
                   Append(@, Expected(OpenCalls[t].r, OpenCalls[t].login, OpenCalls[t].json))]
  BY <1>3, <1>4, <1>6
<1> QED
  BY <1>3, <1>5, <1>6, <1>8, <1>9 DEF Service!Serve, OpenCalls, Answered, Open, AnswerTo

\* How sendREQUEST ends is an end the service allows: an exception ...
LEMMA ThrowFails ==
  ASSUME ExchangeInv, ExchangeInv', NEW t \in Threads,
         GrowFails(t) \/ IllegalVerb(t) \/ MalformedReply(t)
  PROVE  Service!Fail(t)
<1>1. ExchangeTypeOK /\ ExchangeTypeOK' /\ pc \in [Threads -> PCs]
  BY DEF ExchangeInv, PoolInv, PoolTypeOK
<1>2. /\ OpenCalls' = [OpenCalls EXCEPT ![t] = Open(t)']
      /\ Answered' = [Answered EXCEPT ![t] = AnswerTo(t)']
  BY <1>1, OthersKept, Updates DEF Library
<1>3. /\ pc[t] # "idle" /\ pc'[t] = "idle" /\ ended'[t] = "throw"
      /\ UNCHANGED <<calls, served>>
  BY <1>1 DEF GrowFails, IllegalVerb, MalformedReply, Throw, Goto, netVars, ExchangeTypeOK
<1>4. OpenCalls[t] # NoCall
  BY <1>3, IsOpen DEF OpenCalls
<1>5. Open(t)' = NoCall /\ AnswerTo(t)' = Service!Exception
  BY <1>3 DEF Open, AnswerTo, Service!Exception
<1> QED
  BY <1>2, <1>3, <1>4, <1>5
  DEF Service!Fail, Service!Close, OpenCalls, Answered, Open, AnswerTo

\* ... or the reply to the call's own request, or the beginning of it.
LEMMA CheckAnswers ==
  ASSUME ExchangeInv, ExchangeInv', NEW t \in Threads, CheckResponse(t)
  PROVE  Service!Answer(t) \/ Service!Fail(t)
<1>1. /\ ExchangeTypeOK /\ ExchangeTypeOK' /\ pc \in [Threads -> PCs]
      /\ CallInv(t) /\ CallInv(t)'
  BY DEF ExchangeInv, PoolInv, PoolTypeOK
<1>2. /\ OpenCalls' = [OpenCalls EXCEPT ![t] = Open(t)']
      /\ Answered' = [Answered EXCEPT ![t] = AnswerTo(t)']
  BY <1>1, OthersKept, Updates DEF Library
<1>3. /\ pc[t] = "check" /\ pc'[t] = "idle" /\ UNCHANGED <<calls, served, response>>
      /\ ended'[t] = "throw" \/ (ended'[t] = "return" /\ response[t].code # 0)
  BY <1>1 DEF CheckResponse, Goto, netVars, ExchangeTypeOK
<1>4. OpenCalls[t] # NoCall /\ Open(t)' = NoCall
  BY <1>3, IsOpen DEF OpenCalls, Open
<1>5. CASE ended'[t] = "throw"
  <2>1. AnswerTo(t)' = Service!Exception
    BY <1>5 DEF AnswerTo, Service!Exception
  <2> QED
    BY <1>2, <1>3, <1>4, <2>1
    DEF Service!Fail, Service!Close, OpenCalls, Answered, Open, AnswerTo
<1>6. CASE ended'[t] = "return" /\ response[t].code # 0
  <2> DEFINE body == response[t].body
             code == response[t].code
             n == Len(body)
             a == [how |-> "return", code |-> code, body |-> body]
  <2>1. /\ body = ReplyBody(<<t, calls[t]>>, n) /\ code \in Codes /\ served[t] # <<>>
    BY <1>1, <1>3, <1>6 DEF CallInv, OwnReply, Tag
  <2>2. body \in Seq(Fragment(Tags))
    BY <1>1 DEF ExchangeTypeOK, Buffers
  <2>3. n \in 0 .. Parts
    <3> HIDE DEF body
    <3>1. n \in Nat
      BY <2>2
    <3>2. CASE n # 0
      <4>1. n \in 1 .. n
        BY <3>1, <3>2
      <4>2. body[n] \in Fragment(Tags)
        BY <2>2, <4>1
      <4>3. body[n] = <<<<t, calls[t]>>, n>>
        <5> HIDE DEF n
        <5> QED
          BY <2>1, <4>1 DEF ReplyBody
      <4>4. n \in 1 .. Parts
        BY <4>2, <4>3 DEF Fragment
      <4> QED
        BY <3>1, <4>4, PartsAssumption
    <3> QED
      BY <3>1, <3>2, PartsAssumption
  <2>4. AnswerTo(t)' = a
    BY <1>3, <1>6 DEF AnswerTo
  <2> HIDE DEF body, code, n
  <2>5. a \in Service!Answers(t)
    BY <2>1, <2>3 DEF Service!Answers, ReplyBody
  <2> HIDE DEF a
  <2>6. PICK b \in Service!Answers(t) : AnswerTo(t)' = b
    BY <2>4, <2>5
  <2>7. Service!Close(t, b)
    BY <1>2, <1>3, <1>4, <2>6 DEF Service!Close, OpenCalls, Answered, Open, AnswerTo
  <2>8. served[t] # <<>>
    BY <2>1
  <2> QED
    BY <2>7, <2>8 DEF Service!Answer
<1> QED
  BY <1>3, <1>5, <1>6

\* The rest of the pool's, the handle's and libcurl's work is not seen by the service.
LEMMA InternalKept ==
  ASSUME ExchangeInv, NEW t \in Threads,
         \/ LockGet(t) \/ Grow(t) \/ Take(t) \/ Pop(t) \/ SetConnectData(t) \/ SendRequest(t)
         \/ GetResponse(t) \/ LockReturn(t) \/ Push(t)
         \/ ConnectFails(t) \/ Resend(t) \/ ReceiveEmpty(t) \/ ReceiveStatus(t)
         \/ ReceiveFragment(t) \/ Breaks(t)
  PROVE  Kept(t)
<1>1. ExchangeTypeOK /\ pc \in [Threads -> PCs]
  BY DEF ExchangeInv, PoolInv, PoolTypeOK
<1>2. /\ pc[t] # "idle" /\ pc'[t] # "idle"
      /\ calls' = calls /\ call' = call /\ served' = served /\ ended' = ended
  BY <1>1 DEF LockGet, Grow, Take, Pop, SetConnectData, SendRequest, GetResponse,
        LockReturn, Push, ConnectFails, Resend, ReceiveEmpty, ReceiveStatus,
        ReceiveFragment, Breaks, Goto, callVars, netVars
<1>3. ended[t] = "none"
  BY <1>2 DEF ExchangeInv, CallInv
<1> QED
  BY <1>2, <1>3 DEF Kept, Open, AnswerTo

\* Every step of Transport is a step of the service or changes nothing the service has.
LEMMA StepImplements ==
  ServiceInv /\ ServiceInv' /\ [Next]_vars => [Service!Next]_Service!vars
<1> SUFFICES ASSUME ServiceInv, ServiceInv', [Next]_vars
             PROVE  [Service!Next]_Service!vars
  OBVIOUS
<1>1. ExchangeInv /\ ExchangeInv' /\ ExchangeTypeOK /\ ExchangeTypeOK'
  BY DEF ServiceInv, ExchangeInv
<1>2. CASE UNCHANGED vars
  <2>1. \A t \in Threads : Kept(t)
    BY <1>2 DEF vars, Kept, Open, AnswerTo
  <2> QED
    BY <1>1, <2>1, Stutters
<1>3. ASSUME NEW t \in Threads, StartCall(t) \/ Library(t) \/ Network(t)
      PROVE  [Service!Next]_Service!vars
  <2>1. CASE StartCall(t)
    BY <1>1, <2>1, StartAsks DEF Service!Next
  <2>2. CASE Transmit(t)
    BY <2>2, TransmitServes DEF Service!Next
  <2>3. CASE GrowFails(t) \/ IllegalVerb(t) \/ MalformedReply(t)
    BY <1>1, <2>3, ThrowFails DEF Service!Next
  <2>4. CASE CheckResponse(t)
    BY <1>1, <2>4, CheckAnswers DEF Service!Next
  <2>5. CASE \/ LockGet(t) \/ Grow(t) \/ Take(t) \/ Pop(t) \/ SetConnectData(t)
             \/ SendRequest(t) \/ GetResponse(t) \/ LockReturn(t) \/ Push(t)
             \/ ConnectFails(t) \/ Resend(t) \/ ReceiveEmpty(t) \/ ReceiveStatus(t)
             \/ ReceiveFragment(t) \/ Breaks(t)
    <3>1. Kept(t)
      BY <1>1, <2>5, InternalKept
    <3>2. \A u \in Threads \ {t} : Kept(u)
      BY <1>1, <1>3, OthersKept
    <3>3. \A u \in Threads : Kept(u)
      BY <3>1, <3>2
    <3> QED
      BY <1>1, <3>3, Stutters
  <2> QED
    BY <1>3, <2>1, <2>2, <2>3, <2>4, <2>5 DEF Library, Network
<1> QED
  BY <1>2, <1>3 DEF Next, Finished

\* In every reachable state a request has been received once, or twice after a repetition.
THEOREM ServiceInvariant == Spec => []ServiceInv
  BY ServiceInit, ServiceStep, PTL DEF Spec

\* Transport implements the service the operations rely on: pool, handles and libcurl show
\* in nothing but what RequestService allows.
THEOREM Implements == Spec => ImplementsService
<1>1. Init => Service!Init
  BY DEF Init, Service!Init, Service!NoAnswer
<1> QED
  BY <1>1, StepImplements, ServiceInvariant, PTL DEF Spec, Service!Spec, ImplementsService
=============================================================================
