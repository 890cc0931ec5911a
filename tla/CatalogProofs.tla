--------------------------- MODULE CatalogProofs ---------------------------
(***************************************************************************)
(* Proofs about Catalog: for any clients, names and kinds, what the answer *)
(* of a call, its return and its exception say about the catalog is true,  *)
(* whatever other clients do between its requests.                         *)
(***************************************************************************)
EXTENDS Catalog, TLAPS

\* The status that says the thing has been created, dropped or changed.
Success(c) == CASE Op(c) = "create" -> CreateStatus(Kind(c))
                [] Op(c) = "drop"   -> DropStatus(Kind(c))
                [] Op(c) = "change" -> ChangeStatus(Kind(c))

\* A call sends the requests of its operation, and has changed nothing before the last.
StageInv(c) ==
  /\ pc[c] # "idle" => /\ call[c] \in Call /\ outcome[c] = "none"
                       /\ NamesOf(Kind(c), catalog) \in seen[c]
  /\ pc[c] = "check" => /\ Op(c) \in {"exist", "create", "drop"} /\ effects[c] = 0
                        /\ Op(c) = "exist" \/ Kind(c) # "user"
  /\ pc[c] = "build" => /\ Op(c) \in {"create", "drop", "change"} /\ effects[c] = 0
                        /\ reply[c] = 0
  /\ pc[c] = "act"   => Op(c) \in {"create", "drop", "change"}
  /\ pc[c] = "list"  => Op(c) = "names" /\ effects[c] = 0 /\ result[c] = {}

\* A reply tells of the catalog at some moment of the call, and of what the call has done.
ReplyInv(c) ==
  /\ pc[c] = "check" =>
       /\ reply[c] \in {0, StatusOK, StatusNotFound, Unavailable}
       /\ reply[c] = StatusOK => WasThere(c)
       /\ reply[c] = StatusNotFound => WasGone(c)
  /\ pc[c] = "act" =>
       /\ reply[c] \in {0, Success(c), StatusNotFound, StatusConflict, Unavailable}
       /\ reply[c] = Success(c) /\ Op(c) = "drop" => WasGone(c)
       /\ reply[c] = Success(c) /\ Op(c) # "drop" => WasThere(c) /\ effects[c] > 0
       /\ ~resent[c] => effects[c] <= 1 /\ (reply[c] # Success(c) => effects[c] = 0)
  /\ pc[c] = "list" =>
       /\ reply[c] \in {0, StatusOK, Unavailable}
       /\ reply[c] = StatusOK => listed[c] \in seen[c]

\* What the properties say of one client.
EndInv(c) ==
  /\ Ended(c, "exist", "no") /\ Kind(c) # "user" => WasGone(c)
  /\ Ended(c, "exist", "yes") /\ Kind(c) \in {"collection", "user"} => WasThere(c)
  /\ Ended(c, "names", "returned") => result[c] \in seen[c] \cup {{}}
  /\ Ended(c, "create", "returned") /\ Kind(c) \in {"collection", "user"} => WasThere(c)
  /\ Ended(c, "drop", "returned") => WasGone(c)
  /\ Ended(c, "change", "returned") => effects[c] > 0 /\ WasThere(c)
  /\ ~resent[c] =>
       /\ effects[c] <= 1
       /\ Op(c) \in {"exist", "names"} \/ outcome[c] = "threw" => effects[c] = 0

ClientInv(c) == StageInv(c) /\ ReplyInv(c) /\ EndInv(c)

IInv == TypeOK /\ \A c \in Clients : ClientInv(c)

\* The names of things of a kind are names, and a thing is among them if it is there.
LEMMA NamesMean ==
  ASSUME NEW things \in SUBSET Things
  PROVE  /\ \A kind : NamesOf(kind, things) \in SUBSET Names
         /\ \A thing \in Things : thing.name \in NamesOf(thing.kind, things) <=> thing \in things
<1>1. \A thing \in things : thing.name \in Names
  BY DEF Things
<1>2. ASSUME NEW thing \in Things
      PROVE  thing.name \in NamesOf(thing.kind, things) <=> thing \in things
  <2>1. ASSUME NEW x \in things, x.kind = thing.kind, x.name = thing.name PROVE x = thing
    BY <2>1 DEF Things
  <2> QED
    BY <2>1 DEF NamesOf
<1> QED
  BY <1>1, <1>2 DEF NamesOf

\* A call that has begun is about a thing.
LEMMA CallOf ==
  ASSUME NEW c \in Clients, call[c] \in Call
  PROVE  /\ call[c].thing \in Things /\ Kind(c) \in Kinds /\ Name(c) \in Names
         /\ Op(c) \in {"exist", "create", "drop", "change", "names"}
         /\ Kind(c) = call[c].thing.kind /\ Name(c) = call[c].thing.name
BY DEF Call, Things, Kind, Name, Op

\* A reply means success to the client just if it is the server's for success.
LEMMA StatusMeans ==
  ASSUME NEW kind \in Kinds, NEW status \in {StatusNotFound, StatusConflict, Unavailable}
  PROVE  /\ Created(kind, CreateStatus(kind)) /\ ~Created(kind, status)
         /\ Dropped(kind, DropStatus(kind)) /\ ~Dropped(kind, status)
         /\ Changed(kind, ChangeStatus(kind)) /\ ~Changed(kind, status)
         /\ CreateStatus(kind) \in Nat \ {0} /\ DropStatus(kind) \in Nat \ {0}
         /\ ChangeStatus(kind) \in Nat \ {0}
BY CatalogAssumption
   DEF Created, Dropped, Changed, CreateStatus, DropStatus, ChangeStatus, StatusOK, StatusCreated,
       StatusAccepted, StatusBadRequest, StatusNotFound, StatusConflict, Unavailable

\* What a step of another client leaves of a client: its variables, and what it has seen.
Kept(d) ==
  /\ pc'[d] = pc[d] /\ call'[d] = call[d] /\ reply'[d] = reply[d] /\ listed'[d] = listed[d]
  /\ outcome'[d] = outcome[d] /\ result'[d] = result[d]
  /\ effects'[d] = effects[d] /\ resent'[d] = resent[d]
  /\ seen[d] \subseteq seen'[d]
  /\ pc[d] # "idle" => NamesOf(Kind(d), catalog') \in seen'[d]

\* The invariant of a client speaks of moments there have been: more of them do no harm.
LEMMA InvKept == ASSUME NEW d \in Clients, ClientInv(d), Kept(d) PROVE ClientInv(d)'
<1>1. Op(d)' = Op(d) /\ Kind(d)' = Kind(d) /\ Name(d)' = Name(d)
  BY DEF Kept, Op, Kind, Name
<1>2. Success(d)' = Success(d)
  BY <1>1 DEF Success
<1>3. (WasThere(d) => WasThere(d)') /\ (WasGone(d) => WasGone(d)')
  BY <1>1 DEF Kept, WasThere, WasGone
<1>4. StageInv(d)'
  BY <1>1 DEF ClientInv, StageInv, Kept
<1>5. ReplyInv(d)'
  BY <1>1, <1>2, <1>3 DEF ClientInv, ReplyInv, Kept
<1>6. EndInv(d)'
  BY <1>1, <1>3 DEF ClientInv, EndInv, Ended, Kept
<1> QED
  BY <1>4, <1>5, <1>6 DEF ClientInv

\* A step of one client leaves the invariant if it does so for the client and disturbs no other.
LEMMA InvLocal ==
  ASSUME IInv, NEW c \in Clients, TypeOK', ClientInv(c)', \A d \in Clients \ {c} : Kept(d)
  PROVE  IInv'
<1>1. ASSUME NEW d \in Clients PROVE ClientInv(d)'
  BY InvKept DEF IInv
<1> QED
  BY <1>1 DEF IInv

\* The invariant holds before the first call.
LEMMA InvInit == Init => IInv
<1> SUFFICES ASSUME Init PROVE IInv
  OBVIOUS
<1>1. TypeOK
  BY CatalogAssumption DEF Init, TypeOK, Things, NoCall
<1>2. ASSUME NEW c \in Clients PROVE ClientInv(c)
  BY DEF Init, ClientInv, StageInv, ReplyInv, EndInv, Ended, Op, NoCall
<1> QED
  BY <1>1, <1>2 DEF IInv

\* What the end of a call says of the catalog and of what the call has done.
WellEnded(c, how, names) ==
  /\ Op(c) = "exist" /\ how = "no" /\ Kind(c) # "user" => WasGone(c)
  /\ Op(c) = "exist" /\ how = "yes" /\ Kind(c) \in {"collection", "user"} => WasThere(c)
  /\ Op(c) = "names" /\ how = "returned" => names \in seen[c] \cup {{}}
  /\ Op(c) = "create" /\ how = "returned" /\ Kind(c) \in {"collection", "user"} => WasThere(c)
  /\ Op(c) = "drop" /\ how = "returned" => WasGone(c)
  /\ Op(c) = "change" /\ how = "returned" => effects[c] > 0 /\ WasThere(c)
  /\ ~resent[c] =>
       /\ effects[c] <= 1
       /\ Op(c) \in {"exist", "names"} \/ how = "threw" => effects[c] = 0

\* A call that ends well leaves the invariant.
LEMMA InvEnd ==
  ASSUME IInv, NEW c \in Clients, NEW how \in {"yes", "no", "returned", "threw", "no answer"},
         NEW names \in SUBSET Names, End(c, how, names), WellEnded(c, how, names)
  PROVE  IInv'
<1>1. /\ pc' = [pc EXCEPT ![c] = "idle"] /\ outcome' = [outcome EXCEPT ![c] = how]
      /\ result' = [result EXCEPT ![c] = names] /\ reply' = [reply EXCEPT ![c] = 0]
      /\ listed' = [listed EXCEPT ![c] = {}]
      /\ UNCHANGED <<catalog, seen, effects, calls, call, resent>>
  BY DEF End, serverVars, callVars
<1>2. TypeOK
  BY DEF IInv
<1>3. TypeOK'
  BY <1>1, <1>2 DEF TypeOK, Op
<1>4. ASSUME NEW d \in Clients \ {c} PROVE Kept(d)
  BY <1>1, <1>2 DEF Kept, TypeOK, IInv, ClientInv, StageInv
<1>5. /\ pc'[c] = "idle" /\ outcome'[c] = how /\ result'[c] = names
      /\ Op(c)' = Op(c) /\ Kind(c)' = Kind(c) /\ WasThere(c)' = WasThere(c)
      /\ WasGone(c)' = WasGone(c)
  BY <1>1, <1>2 DEF TypeOK, Op, Kind, Name, WasThere, WasGone
<1>6. ClientInv(c)'
  BY <1>1, <1>5 DEF WellEnded, ClientInv, StageInv, ReplyInv, EndInv, Ended
<1> QED
  BY <1>3, <1>4, <1>6, InvLocal

\* The same of a call that returns no names.
LEMMA InvEndEmpty ==
  ASSUME IInv, NEW c \in Clients, NEW how \in {"yes", "no", "returned", "threw", "no answer"},
         End(c, how, {}), WellEnded(c, how, {})
  PROVE  IInv'
<1> DEFINE names == {}
<1>1. names \in SUBSET Names /\ End(c, how, names) /\ WellEnded(c, how, names)
  OBVIOUS
<1> HIDE DEF names
<1> QED
  BY <1>1, InvEnd

\* A call begins in the state of the catalog it has seen first.
LEMMA InvStart ==
  ASSUME IInv, NEW c \in Clients, NEW op \in {"exist", "create", "drop", "change", "names"},
         NEW thing \in Things, Start(c, op, thing)
  PROVE  IInv'
<1> DEFINE what == IF op = "names" THEN "list"
                   ELSE IF op = "change" \/ (op # "exist" /\ thing.kind = "user") THEN "build"
                   ELSE "check"
<1>1. /\ calls' = [calls EXCEPT ![c] = @ + 1]
      /\ call' = [call EXCEPT ![c] = [op |-> op, thing |-> thing]]
      /\ pc' = [pc EXCEPT ![c] = what]
      /\ outcome' = [outcome EXCEPT ![c] = "none"] /\ result' = [result EXCEPT ![c] = {}]
      /\ seen' = [seen EXCEPT ![c] = {NamesOf(thing.kind, catalog)}]
      /\ effects' = [effects EXCEPT ![c] = 0] /\ resent' = [resent EXCEPT ![c] = FALSE]
      /\ UNCHANGED <<catalog, reply, listed>> /\ pc[c] = "idle"
  BY DEF Start, NoNames
<1>2. TypeOK /\ reply[c] = 0
  BY <1>1 DEF IInv, TypeOK
<1>3. [op |-> op, thing |-> thing] \in Call
  BY DEF Call
<1>4. /\ what \in {"list", "build", "check"}
      /\ what = "list" => op = "names"
      /\ what = "build" => op \in {"create", "drop", "change"}
      /\ what = "check" => op \in {"exist", "create", "drop"} /\ (op = "exist" \/ thing.kind # "user")
  OBVIOUS
<1>5. NamesOf(thing.kind, catalog) \in SUBSET Names
  BY <1>2, NamesMean DEF TypeOK
<1> HIDE DEF what
<1>6. /\ pc'[c] = what /\ outcome'[c] = "none" /\ result'[c] = {} /\ effects'[c] = 0
      /\ resent'[c] = FALSE /\ reply'[c] = 0 /\ call'[c] = [op |-> op, thing |-> thing]
      /\ seen'[c] = {NamesOf(thing.kind, catalog)}
      /\ Op(c)' = op /\ Kind(c)' = thing.kind
  BY <1>1, <1>2 DEF TypeOK, Op, Kind
<1>7. TypeOK'
  <2>1. /\ calls' \in [Clients -> Nat] /\ call' \in [Clients -> Call \cup {NoCall}]
    <3>1. calls[c] + 1 \in Nat
      <4>1. calls[c] \in Nat
        BY <1>2 DEF TypeOK
      <4> QED
        BY <4>1
    <3>2. calls' \in [Clients -> Nat]
      BY <1>1, <1>2, <3>1 DEF TypeOK
    <3>3. call' \in [Clients -> Call \cup {NoCall}]
      BY <1>1, <1>2, <1>3 DEF TypeOK
    <3> QED
      BY <3>2, <3>3
  <2>2. /\ pc' \in [Clients -> {"idle", "check", "build", "act", "list"}]
        /\ outcome' \in [Clients -> {"none", "yes", "no", "returned", "threw", "no answer"}]
        /\ result' \in [Clients -> SUBSET Names] /\ seen' \in [Clients -> SUBSET SUBSET Names]
        /\ effects' \in [Clients -> Nat] /\ resent' \in [Clients -> BOOLEAN]
    BY <1>1, <1>2, <1>4, <1>5 DEF TypeOK
  <2>3. ASSUME NEW d \in Clients
        PROVE  /\ pc'[d] = "idle" => reply'[d] = 0
               /\ pc'[d] \in {"build", "act"} => Op(d)' \in {"create", "drop", "change"}
    BY <1>1, <1>2, <1>4, <1>6 DEF TypeOK, Op
  <2> QED
    BY <1>1, <1>2, <2>1, <2>2, <2>3 DEF TypeOK
<1>8. ASSUME NEW d \in Clients \ {c} PROVE Kept(d)
  BY <1>1, <1>2 DEF Kept, TypeOK, IInv, ClientInv, StageInv
<1>9. StageInv(c)'
  BY <1>1, <1>3, <1>4, <1>6 DEF StageInv
<1>10. ReplyInv(c)' /\ EndInv(c)'
  <2>1. StatusOK # 0 /\ StatusNotFound # 0
    BY DEF StatusOK, StatusNotFound
  <2> QED
    BY <1>4, <1>6, <2>1 DEF ReplyInv, EndInv, Ended
<1> QED
  BY <1>7, <1>8, <1>9, <1>10, InvLocal DEF ClientInv

\* The steps of a client between its start and its end.
LEMMA InvGoOn ==
  ASSUME IInv, NEW c \in Clients, GoOn(c) \/ Send(c)
  PROVE  IInv'
<1>1. TypeOK /\ ClientInv(c)
  BY DEF IInv
<1>2. CASE GoOn(c)
  <2>1. /\ pc[c] = "check" /\ Op(c) # "exist" /\ pc' = [pc EXCEPT ![c] = "build"]
        /\ reply' = [reply EXCEPT ![c] = 0]
        /\ UNCHANGED <<catalog, seen, effects, calls, call, listed, outcome, result, resent>>
    BY <1>2 DEF GoOn, Received, serverVars, callVars, endVars
  <2>2. Op(c) \in {"create", "drop"} /\ effects[c] = 0
    BY <1>1, <2>1 DEF ClientInv, StageInv
  <2>3. TypeOK'
    BY <1>1, <2>1, <2>2 DEF TypeOK, Op
  <2>4. ASSUME NEW d \in Clients \ {c} PROVE Kept(d)
    BY <1>1, <2>1 DEF Kept, TypeOK, IInv, ClientInv, StageInv
  <2>5. pc'[c] = "build" /\ reply'[c] = 0 /\ Op(c)' = Op(c) /\ Kind(c)' = Kind(c)
    BY <1>1, <2>1 DEF TypeOK, Op, Kind
  <2>6. StageInv(c)'
    BY <1>1, <2>1, <2>2, <2>5 DEF ClientInv, StageInv
  <2>7. ReplyInv(c)' /\ EndInv(c)'
    BY <1>1, <2>1, <2>2, <2>5 DEF ClientInv, ReplyInv, EndInv, Ended, StageInv
  <2> QED
    BY <2>3, <2>4, <2>6, <2>7, InvLocal DEF ClientInv
<1>3. CASE Send(c)
  <2>1. /\ pc[c] = "build" /\ pc' = [pc EXCEPT ![c] = "act"]
        /\ UNCHANGED <<catalog, seen, effects, calls, call, reply, listed, outcome, result, resent>>
    BY <1>3 DEF Send, serverVars, callVars, endVars
  <2>2. Op(c) \in {"create", "drop", "change"} /\ effects[c] = 0 /\ reply[c] = 0 /\ call[c] \in Call
    BY <1>1, <2>1 DEF ClientInv, StageInv
  <2>3. TypeOK'
    BY <1>1, <2>1, <2>2 DEF TypeOK, Op
  <2>4. ASSUME NEW d \in Clients \ {c} PROVE Kept(d)
    BY <1>1, <2>1 DEF Kept, TypeOK, IInv, ClientInv, StageInv
  <2>5. pc'[c] = "act" /\ Op(c)' = Op(c) /\ Kind(c)' = Kind(c) /\ Success(c)' = Success(c)
    BY <1>1, <2>1 DEF TypeOK, Op, Kind, Success
  <2>6. Success(c) # 0
    BY <2>2, CallOf, StatusMeans DEF Success
  <2>7. StageInv(c)'
    BY <1>1, <2>1, <2>2, <2>5 DEF ClientInv, StageInv
  <2>8. ReplyInv(c)' /\ EndInv(c)'
    BY <1>1, <2>1, <2>2, <2>5, <2>6 DEF ClientInv, ReplyInv, EndInv, Ended, StageInv
  <2> QED
    BY <2>3, <2>4, <2>7, <2>8, InvLocal DEF ClientInv
<1> QED
  BY <1>2, <1>3

\* Every way a call can end is a good one.
LEMMA InvEnds ==
  ASSUME IInv, NEW c \in Clients,
         NoAnswer(c) \/ Check(c) \/ IllegalArgument(c) \/ Act(c) \/ List(c)
  PROVE  IInv'
<1>1. TypeOK /\ StageInv(c) /\ ReplyInv(c) /\ EndInv(c)
  BY DEF IInv, ClientInv
<1>2. /\ effects[c] \in Nat /\ resent[c] \in BOOLEAN /\ listed[c] \in SUBSET Names
      /\ StatusOK # 0 /\ StatusNotFound # 0 /\ Unavailable # 0 /\ StatusOK # StatusNotFound
      /\ StatusOK # Unavailable /\ StatusNotFound # Unavailable
  <2>1. effects[c] \in Nat /\ resent[c] \in BOOLEAN /\ listed[c] \in SUBSET Names
    BY <1>1 DEF TypeOK
  <2>2. /\ StatusOK # 0 /\ StatusNotFound # 0 /\ Unavailable # 0 /\ StatusOK # StatusNotFound
        /\ StatusOK # Unavailable /\ StatusNotFound # Unavailable
    BY DEF StatusOK, StatusNotFound, Unavailable
  <2> QED
    BY <2>1, <2>2
<1>3. /\ ~resent[c] => effects[c] <= 1
      /\ ~resent[c] /\ Op(c) \in {"exist", "names"} => effects[c] = 0
  BY <1>1 DEF EndInv
<1>4. pc[c] # "idle" => /\ Kind(c) \in Kinds
                        /\ Op(c) \in {"exist", "create", "drop", "change", "names"}
  BY <1>1, CallOf DEF StageInv
<1>5. CASE NoAnswer(c)
  <2>1. WellEnded(c, "no answer", {})
    BY <1>3 DEF WellEnded
  <2> QED
    BY <1>5, <2>1, InvEndEmpty DEF NoAnswer
<1>6. CASE Check(c)
  <2>1. /\ pc[c] = "check" /\ Op(c) \in {"exist", "create", "drop"} /\ effects[c] = 0
        /\ Op(c) = "exist" \/ Kind(c) # "user"
        /\ reply[c] \in {StatusOK, StatusNotFound, Unavailable}
        /\ reply[c] = StatusOK => WasThere(c)
        /\ reply[c] = StatusNotFound => WasGone(c)
    BY <1>1, <1>6 DEF Check, Received, StageInv, ReplyInv
  <2>2. CASE End(c, "threw", {})
    <3>1. WellEnded(c, "threw", {})
      BY <2>1 DEF WellEnded
    <3> QED
      BY <2>2, <3>1, InvEndEmpty
  <2>3. /\ Exists(Kind(c), reply[c]) /\ ~CheckThrows(Kind(c), reply[c])
             /\ Kind(c) \in {"collection", "user"} => WasThere(c)
        /\ ~Exists(Kind(c), reply[c]) /\ Kind(c) # "user" => WasGone(c)
    BY <1>2, <2>1 DEF Exists, CheckThrows
  <2>4. CASE /\ ~CheckThrows(Kind(c), reply[c]) /\ Op(c) = "exist"
             /\ End(c, IF Exists(Kind(c), reply[c]) THEN "yes" ELSE "no", {})
    <3>1. CASE Exists(Kind(c), reply[c])
      <4>1. WellEnded(c, "yes", {})
        BY <2>1, <2>3, <2>4, <3>1 DEF WellEnded
      <4> QED
        BY <2>4, <3>1, <4>1, InvEndEmpty
    <3>2. CASE ~Exists(Kind(c), reply[c])
      <4>1. WellEnded(c, "no", {})
        BY <2>1, <2>3, <2>4, <3>2 DEF WellEnded
      <4> QED
        BY <2>4, <3>2, <4>1, InvEndEmpty
    <3> QED
      BY <3>1, <3>2
  <2>5. CASE /\ ~CheckThrows(Kind(c), reply[c]) /\ Op(c) # "exist"
             /\ Exists(Kind(c), reply[c]) = (Op(c) = "create") /\ End(c, "returned", {})
    <3>1. Op(c) = "create" /\ Kind(c) \in {"collection", "user"} => WasThere(c)
      BY <2>3, <2>5
    <3>2. Op(c) = "drop" => WasGone(c)
      BY <2>1, <2>3, <2>5
    <3>3. Op(c) \in {"create", "drop"} /\ effects[c] <= 1
      BY <2>1, <2>5
    <3>4. WellEnded(c, "returned", {})
      BY <2>1, <3>1, <3>2, <3>3 DEF WellEnded
    <3> QED
      BY <2>5, <3>4, InvEndEmpty
  <2> QED
    BY <1>6, <2>2, <2>4, <2>5 DEF Check
<1>7. CASE IllegalArgument(c)
  <2>1. effects[c] = 0
    BY <1>1, <1>7 DEF IllegalArgument, StageInv
  <2>2. WellEnded(c, "threw", {})
    BY <2>1 DEF WellEnded
  <2> QED
    BY <1>7, <2>2, InvEndEmpty DEF IllegalArgument
<1>8. CASE Act(c)
  <2>1. /\ pc[c] = "act" /\ reply[c] # 0 /\ Op(c) \in {"create", "drop", "change"}
        /\ reply[c] \in {Success(c), StatusNotFound, StatusConflict, Unavailable}
    BY <1>1, <1>8 DEF Act, Received, StageInv, ReplyInv
  <2>2. CASE reply[c] = Success(c)
    <3>1. WellEnded(c, "returned", {})
      BY <1>1, <1>3, <2>1, <2>2 DEF WellEnded, ReplyInv
    <3>2. End(c, "returned", {})
      BY <1>4, <1>8, <2>1, <2>2, StatusMeans DEF Act, Success
    <3> QED
      BY <3>1, <3>2, InvEndEmpty
  <2>3. CASE reply[c] # Success(c)
    <3>1. WellEnded(c, "threw", {})
      BY <1>1, <1>3, <2>1, <2>3 DEF WellEnded, ReplyInv
    <3>2. End(c, "threw", {})
      BY <1>4, <1>8, <2>1, <2>3, StatusMeans DEF Act
    <3> QED
      BY <3>1, <3>2, InvEndEmpty
  <2> QED
    BY <2>2, <2>3
<1>9. CASE List(c)
  <2>1. /\ pc[c] = "list" /\ Op(c) = "names" /\ effects[c] = 0 /\ result[c] = {}
        /\ reply[c] = StatusOK => listed[c] \in seen[c]
    BY <1>1, <1>9 DEF List, Received, StageInv, ReplyInv
  <2> DEFINE names == IF reply[c] = StatusOK THEN listed[c] ELSE {}
  <2>2. End(c, "returned", names)
    BY <1>9, <2>1 DEF List
  <2>3. names \in SUBSET Names /\ names \in seen[c] \cup {{}}
    BY <1>2, <2>1
  <2> HIDE DEF names
  <2>4. WellEnded(c, "returned", names)
    BY <2>1, <2>3 DEF WellEnded
  <2> QED
    BY <2>2, <2>3, <2>4, InvEnd
<1> QED
  BY <1>5, <1>6, <1>7, <1>8, <1>9

\* A reply that changes nothing and tells what is so leaves the invariant.
LEMMA InvReplies ==
  ASSUME IInv, NEW c \in Clients, NEW status \in Nat, Replies(c, status), UNCHANGED serverVars,
         reply[c] = 0, NEW names \in SUBSET Names, listed' = [listed EXCEPT ![c] = names],
         \/ /\ pc[c] = "check" /\ status \in {StatusOK, StatusNotFound, Unavailable}
            /\ status = StatusOK => WasThere(c)
            /\ status = StatusNotFound => WasGone(c)
         \/ pc[c] = "act" /\ status \in {StatusNotFound, StatusConflict, Unavailable}
         \/ /\ pc[c] = "list" /\ status \in {StatusOK, Unavailable}
            /\ status = StatusOK => names \in seen[c]
  PROVE  IInv'
<1>1. TypeOK /\ StageInv(c) /\ ReplyInv(c) /\ EndInv(c)
  BY DEF IInv, ClientInv
<1>2. /\ reply' = [reply EXCEPT ![c] = status]
      /\ UNCHANGED <<catalog, seen, effects, pc, calls, call, outcome, result, resent>>
  BY DEF Replies, serverVars, callVars, endVars
<1>3. pc[c] # "idle"
  OBVIOUS
<1>4. TypeOK'
  <2>1. reply' \in [Clients -> Nat] /\ listed' \in [Clients -> SUBSET Names]
    BY <1>1, <1>2 DEF TypeOK
  <2>2. \A d \in Clients : pc'[d] = "idle" => reply'[d] = 0
    BY <1>1, <1>2, <1>3 DEF TypeOK
  <2> QED
    BY <1>1, <1>2, <2>1, <2>2 DEF TypeOK, Op
<1>5. ASSUME NEW d \in Clients \ {c} PROVE Kept(d)
  BY <1>1, <1>2 DEF Kept, TypeOK, IInv, ClientInv, StageInv
<1>6. /\ reply'[c] = status /\ listed'[c] = names /\ Op(c)' = Op(c) /\ Kind(c)' = Kind(c)
      /\ Success(c)' = Success(c) /\ WasThere(c)' = WasThere(c) /\ WasGone(c)' = WasGone(c)
  BY <1>1, <1>2 DEF TypeOK, Op, Kind, Name, Success, WasThere, WasGone
<1>7. StageInv(c)' /\ EndInv(c)'
  BY <1>1, <1>2, <1>3, <1>6 DEF StageInv, EndInv, Ended
<1>8. pc[c] = "act" => Success(c) \notin {0, StatusNotFound, StatusConflict, Unavailable}
  <2> SUFFICES ASSUME pc[c] = "act"
               PROVE  Success(c) \notin {0, StatusNotFound, StatusConflict, Unavailable}
    OBVIOUS
  <2>1. Kind(c) \in Kinds /\ Op(c) \in {"create", "drop", "change"}
    BY <1>1, CallOf DEF StageInv
  <2> QED
    BY <2>1, StatusMeans DEF Success
<1>9. ReplyInv(c)'
  BY <1>1, <1>2, <1>6, <1>8 DEF ReplyInv, StatusOK, Unavailable
<1> QED
  BY <1>4, <1>5, <1>7, <1>9, InvLocal DEF ClientInv

\* A change of the catalog is seen by every call in progress; the call that has made it is
\* told so.
LEMMA InvChange ==
  ASSUME IInv, NEW c \in Clients, NEW things \in SUBSET Things, Change(c, things),
         Replies(c, Success(c)), UNCHANGED listed, pc[c] = "act", reply[c] = 0,
         IF Op(c) = "drop" THEN call[c].thing \notin things ELSE call[c].thing \in things
  PROVE  IInv'
<1>1. TypeOK /\ StageInv(c) /\ ReplyInv(c) /\ EndInv(c)
  BY DEF IInv, ClientInv
<1>2. /\ reply' = [reply EXCEPT ![c] = Success(c)]
      /\ UNCHANGED <<pc, calls, call, outcome, result, resent, listed>>
      /\ catalog' = things /\ effects' = [effects EXCEPT ![c] = @ + 1]
      /\ seen' = [d \in Clients |-> IF pc[d] = "idle" THEN seen[d]
                                    ELSE seen[d] \cup {NamesOf(Kind(d), things)}]
  BY DEF Replies, Change, callVars, endVars
<1>3. /\ Kind(c) \in Kinds /\ Op(c) \in {"create", "drop", "change"} /\ call[c] \in Call
      /\ call[c].thing \in Things
  BY <1>1, CallOf DEF StageInv
<1>4. Success(c) \in Nat \ {0}
  BY <1>3, StatusMeans, CatalogAssumption DEF Success
<1>5. TypeOK'
  <2>1. reply' \in [Clients -> Nat] /\ effects' \in [Clients -> Nat]
    <3>1. effects[c] + 1 \in Nat
      <4>1. effects[c] \in Nat
        BY <1>1 DEF TypeOK
      <4> QED
        BY <4>1
    <3>2. reply' \in [Clients -> Nat]
      BY <1>1, <1>2, <1>4 DEF TypeOK
    <3>3. effects' \in [Clients -> Nat]
      BY <1>1, <1>2, <3>1 DEF TypeOK
    <3> QED
      BY <3>2, <3>3
  <2>2. seen' \in [Clients -> SUBSET SUBSET Names]
    <3>1. ASSUME NEW d \in Clients
          PROVE  (IF pc[d] = "idle" THEN seen[d] ELSE seen[d] \cup {NamesOf(Kind(d), things)})
                   \in SUBSET SUBSET Names
      <4>1. seen[d] \in SUBSET SUBSET Names
        BY <1>1 DEF TypeOK
      <4>2. NamesOf(Kind(d), things) \in SUBSET Names
        BY NamesMean
      <4> QED
        BY <4>1, <4>2
    <3> QED
      BY <1>2, <3>1
  <2>3. \A d \in Clients : pc'[d] = "idle" => reply'[d] = 0
    BY <1>1, <1>2 DEF TypeOK
  <2> QED
    BY <1>1, <1>2, <2>1, <2>2, <2>3 DEF TypeOK, Op
<1>6. ASSUME NEW d \in Clients \ {c} PROVE Kept(d)
  BY <1>1, <1>2 DEF Kept, TypeOK
<1>7. /\ reply'[c] = Success(c) /\ Op(c)' = Op(c) /\ Kind(c)' = Kind(c) /\ Name(c)' = Name(c)
      /\ Success(c)' = Success(c) /\ effects'[c] = effects[c] + 1 /\ effects[c] \in Nat
      /\ NamesOf(Kind(c), things) \in seen'[c]
  BY <1>1, <1>2 DEF TypeOK, Op, Kind, Name, Success
<1>8. IF Op(c) = "drop" THEN WasGone(c)' ELSE WasThere(c)'
  <2>1. Name(c) \in NamesOf(Kind(c), things) <=> call[c].thing \in things
    BY <1>3, NamesMean DEF Kind, Name
  <2> QED
    BY <1>7, <2>1 DEF WasGone, WasThere
<1>9. StageInv(c)'
  BY <1>1, <1>2, <1>3, <1>7 DEF StageInv
<1>10. ~resent[c] => effects[c] = 0
  BY <1>1, <1>4 DEF ReplyInv
<1>11. outcome[c] = "none"
  BY <1>1 DEF StageInv
<1>12. ReplyInv(c)'
  BY <1>2, <1>3, <1>7, <1>8, <1>10 DEF ReplyInv
<1>13. EndInv(c)'
  BY <1>2, <1>3, <1>7, <1>10, <1>11 DEF EndInv, Ended
<1> QED
  BY <1>5, <1>6, <1>9, <1>12, <1>13, InvLocal DEF ClientInv

\* The server's steps: the request is answered by what there is.
LEMMA InvServe ==
  ASSUME IInv, NEW c \in Clients, ServeCheck(c) \/ ServeList(c) \/ Refuse(c)
  PROVE  IInv'
<1>1. TypeOK /\ StageInv(c) /\ ReplyInv(c) /\ listed[c] \in SUBSET Names /\ catalog \in SUBSET Things
  BY DEF IInv, ClientInv, TypeOK
<1>2. listed \in [Clients -> SUBSET Names]
  BY <1>1 DEF TypeOK
<1>3. pc[c] # "idle" => call[c] \in Call /\ NamesOf(Kind(c), catalog) \in seen[c]
  BY <1>1 DEF StageInv
<1>4. /\ StatusOK \in Nat /\ StatusNotFound \in Nat /\ Unavailable \in Nat
      /\ StatusOK # StatusNotFound /\ StatusOK # Unavailable /\ StatusNotFound # Unavailable
  BY DEF StatusOK, StatusNotFound, Unavailable
<1>5. CASE ServeCheck(c)
  <2> DEFINE status == IF call[c].thing \in catalog THEN StatusOK ELSE StatusNotFound
             names == listed[c]
  <2>1. /\ pc[c] = "check" /\ reply[c] = 0 /\ Replies(c, status) /\ UNCHANGED <<serverVars, listed>>
    BY <1>5 DEF ServeCheck, Waits
  <2>2. Name(c) \in NamesOf(Kind(c), catalog) <=> call[c].thing \in catalog
    BY <1>1, <1>3, <2>1, CallOf, NamesMean
  <2>3. /\ status \in Nat /\ status \in {StatusOK, StatusNotFound, Unavailable}
        /\ status = StatusOK => WasThere(c)
        /\ status = StatusNotFound => WasGone(c)
    BY <1>3, <1>4, <2>1, <2>2 DEF WasThere, WasGone
  <2>4. names \in SUBSET Names /\ listed' = [listed EXCEPT ![c] = names]
    BY <1>1, <1>2, <2>1
  <2> HIDE DEF status, names
  <2> QED
    BY <2>1, <2>3, <2>4, InvReplies
<1>6. CASE ServeList(c)
  <2> DEFINE status == StatusOK
             names == NamesOf(Kind(c), catalog)
  <2>1. /\ pc[c] = "list" /\ reply[c] = 0 /\ Replies(c, status) /\ UNCHANGED serverVars
        /\ listed' = [listed EXCEPT ![c] = names]
    BY <1>6 DEF ServeList, Waits
  <2>2. names \in SUBSET Names /\ names \in seen[c]
    BY <1>1, <1>3, <2>1, NamesMean
  <2>3. status \in Nat /\ status \in {StatusOK, Unavailable}
    BY <1>4
  <2> HIDE DEF status, names
  <2> QED
    BY <2>1, <2>2, <2>3, InvReplies
<1>7. CASE Refuse(c)
  <2> DEFINE status == Unavailable
             names == listed[c]
  <2>1. /\ pc[c] \in {"check", "act", "list"} /\ reply[c] = 0 /\ Replies(c, status)
        /\ UNCHANGED serverVars /\ listed' = listed
    BY <1>7 DEF Refuse
  <2>2. names \in SUBSET Names /\ listed' = [listed EXCEPT ![c] = names]
    BY <1>1, <1>2, <2>1
  <2>3. /\ status \in Nat /\ status = Unavailable /\ status # StatusOK /\ status # StatusNotFound
    BY <1>4
  <2> HIDE DEF status, names
  <2> QED
    BY <2>1, <2>2, <2>3, InvReplies
<1> QED
  BY <1>5, <1>6, <1>7

\* Creation, removal and change of a thing: done and told so, or refused for what there is.
LEMMA InvServeAct ==
  ASSUME IInv, NEW c \in Clients, ServeCreate(c) \/ ServeDrop(c) \/ ServeChange(c)
  PROVE  IInv'
<1>1. TypeOK /\ StageInv(c) /\ listed[c] \in SUBSET Names /\ catalog \in SUBSET Things
  BY DEF IInv, ClientInv, TypeOK
<1>2. listed \in [Clients -> SUBSET Names]
  BY <1>1 DEF TypeOK
<1>3. pc[c] = "act" /\ reply[c] = 0 /\ UNCHANGED listed
  BY DEF ServeCreate, ServeDrop, ServeChange, Waits
<1>4. call[c].thing \in Things
  BY <1>1, <1>3, CallOf DEF StageInv
<1>5. ASSUME NEW status \in {StatusNotFound, StatusConflict}, Replies(c, status),
             UNCHANGED serverVars
      PROVE  IInv'
  <2> DEFINE names == listed[c]
  <2>1. names \in SUBSET Names /\ listed' = [listed EXCEPT ![c] = names]
    BY <1>1, <1>2, <1>3
  <2>2. status \in Nat /\ status \in {StatusNotFound, StatusConflict, Unavailable}
    BY <1>5 DEF StatusNotFound, StatusConflict
  <2> HIDE DEF names
  <2> QED
    BY <1>3, <1>5, <2>1, <2>2, InvReplies
<1>6. \A others \in Along(c) : others \in SUBSET Things
  BY DEF Along
<1>7. CASE ServeCreate(c)
  <2>1. Success(c) = CreateStatus(Kind(c)) /\ Op(c) = "create"
    BY <1>7 DEF ServeCreate, Success
  <2>2. CASE /\ \E others \in Along(c) : Change(c, catalog \cup {call[c].thing} \cup others)
             /\ Replies(c, CreateStatus(Kind(c)))
    <3>1. PICK others \in Along(c) : Change(c, catalog \cup {call[c].thing} \cup others)
      BY <2>2
    <3> DEFINE things == catalog \cup {call[c].thing} \cup others
    <3>2. things \in SUBSET Things /\ call[c].thing \in things /\ Change(c, things)
      BY <1>1, <1>4, <1>6, <3>1
    <3> HIDE DEF things
    <3> QED
      BY <1>3, <2>1, <2>2, <3>2, InvChange
  <2> QED
    BY <1>5, <1>7, <2>2 DEF ServeCreate
<1>8. CASE ServeDrop(c)
  <2>1. Success(c) = DropStatus(Kind(c)) /\ Op(c) = "drop"
    BY <1>8 DEF ServeDrop, Success
  <2>2. CASE /\ \E others \in Along(c) : Change(c, catalog \ ({call[c].thing} \cup others))
             /\ Replies(c, DropStatus(Kind(c)))
    <3>1. PICK others \in Along(c) : Change(c, catalog \ ({call[c].thing} \cup others))
      BY <2>2
    <3> DEFINE things == catalog \ ({call[c].thing} \cup others)
    <3>2. things \in SUBSET Things /\ call[c].thing \notin things /\ Change(c, things)
      BY <1>1, <3>1
    <3> HIDE DEF things
    <3> QED
      BY <1>3, <2>1, <2>2, <3>2, InvChange
  <2> QED
    BY <1>5, <1>8, <2>2 DEF ServeDrop
<1>9. CASE ServeChange(c)
  <2>1. Success(c) = ChangeStatus(Kind(c)) /\ Op(c) = "change"
    BY <1>9 DEF ServeChange, Success
  <2>2. CASE /\ call[c].thing \in catalog
             /\ \E others \in Along(c) : Change(c, catalog \cup others)
             /\ Replies(c, ChangeStatus(Kind(c)))
    <3>1. PICK others \in Along(c) : Change(c, catalog \cup others)
      BY <2>2
    <3> DEFINE things == catalog \cup others
    <3>2. things \in SUBSET Things /\ call[c].thing \in things /\ Change(c, things)
      BY <1>1, <1>6, <2>2, <3>1
    <3> HIDE DEF things
    <3> QED
      BY <1>3, <2>1, <2>2, <3>2, InvChange
  <2> QED
    BY <1>5, <1>9, <2>2 DEF ServeChange
<1> QED
  BY <1>7, <1>8, <1>9

\* After a repetition the call does not know what it has done; nothing is claimed then.
LEMMA InvResend == ASSUME IInv, NEW c \in Clients, Resend(c) PROVE IInv'
<1>1. TypeOK /\ StageInv(c) /\ ReplyInv(c) /\ EndInv(c)
  BY DEF IInv, ClientInv
<1>2. /\ pc[c] # "idle" /\ resent' = [resent EXCEPT ![c] = TRUE]
      /\ reply' = [reply EXCEPT ![c] = 0] /\ listed' = [listed EXCEPT ![c] = {}]
      /\ UNCHANGED <<catalog, seen, effects, pc, calls, call, outcome, result>>
  BY DEF Resend, serverVars, callVars, endVars
<1>3. TypeOK'
  BY <1>1, <1>2 DEF TypeOK, Op
<1>4. ASSUME NEW d \in Clients \ {c} PROVE Kept(d)
  BY <1>1, <1>2 DEF Kept, TypeOK, IInv, ClientInv, StageInv
<1>5. /\ reply'[c] = 0 /\ resent'[c] = TRUE /\ Op(c)' = Op(c) /\ Kind(c)' = Kind(c)
      /\ Success(c)' = Success(c)
  BY <1>1, <1>2 DEF TypeOK, Op, Kind, Success
<1>6. StatusOK # 0 /\ StatusNotFound # 0
  BY DEF StatusOK, StatusNotFound
<1>7. pc[c] = "act" => Success(c) # 0
  <2> SUFFICES ASSUME pc[c] = "act" PROVE Success(c) # 0
    OBVIOUS
  <2>1. Kind(c) \in Kinds /\ Op(c) \in {"create", "drop", "change"}
    BY <1>1, CallOf DEF StageInv
  <2> QED
    BY <2>1, StatusMeans DEF Success
<1>8. StageInv(c)' /\ EndInv(c)'
  BY <1>1, <1>2, <1>5 DEF StageInv, EndInv, Ended
<1>9. ReplyInv(c)'
  BY <1>1, <1>2, <1>5, <1>6, <1>7 DEF ReplyInv
<1> QED
  BY <1>3, <1>4, <1>8, <1>9, InvLocal DEF ClientInv

\* The invariant speaks of the variables only.
LEMMA InvStutter == ASSUME IInv, UNCHANGED vars PROVE IInv'
<1>1. UNCHANGED <<catalog, pc, calls, call, reply, listed, outcome, result, seen, effects, resent>>
  BY DEF vars
<1>2. TypeOK'
  BY <1>1 DEF IInv, TypeOK, Op
<1>3. ASSUME NEW d \in Clients PROVE ClientInv(d)'
  <2>1. ClientInv(d)
    BY DEF IInv
  <2>2. Kept(d)
    BY <1>1, <2>1 DEF Kept, ClientInv, StageInv
  <2> QED
    BY <2>1, <2>2, InvKept
<1> QED
  BY <1>2, <1>3 DEF IInv

\* The inductive invariant: a reply on its way is true of some moment of its call, says whether
\* the call has changed the catalog, and is what the call ends by.
THEOREM CatalogInvariant == Spec => []IInv
<1>1. ASSUME IInv, NEW c \in Clients, Client(c) PROVE IInv'
  <2>1. CASE \E op \in {"exist", "create", "drop", "change", "names"}, thing \in Things :
               Start(c, op, thing)
    BY <2>1, <1>1, InvStart
  <2>2. CASE GoOn(c) \/ Send(c)
    BY <2>2, <1>1, InvGoOn
  <2>3. CASE NoAnswer(c) \/ Check(c) \/ IllegalArgument(c) \/ Act(c) \/ List(c)
    BY <2>3, <1>1, InvEnds
  <2> QED
    BY <1>1, <2>1, <2>2, <2>3 DEF Client
<1>2. ASSUME IInv, NEW c \in Clients, Server(c) PROVE IInv'
  <2>1. CASE ServeCheck(c) \/ ServeList(c) \/ Refuse(c)
    BY <2>1, <1>2, InvServe
  <2>2. CASE ServeCreate(c) \/ ServeDrop(c) \/ ServeChange(c)
    BY <2>2, <1>2, InvServeAct
  <2>3. CASE Resend(c)
    BY <2>3, <1>2, InvResend
  <2> QED
    BY <1>2, <2>1, <2>2, <2>3 DEF Server
<1>3. IInv /\ [Next]_vars => IInv'
  BY <1>1, <1>2, InvStutter DEF Next, Finished
<1> QED
  BY InvInit, <1>3, PTL DEF Spec

\* The variables keep their types: between calls no reply is on its way.
THEOREM TypeCorrect == Spec => []TypeOK
<1>1. IInv => TypeOK
  BY DEF IInv
<1> QED
  BY CatalogInvariant, <1>1, PTL

\* What a question and a listing answer was true at some moment of the call.
THEOREM Answers == Spec => []AnswerWasTrue
<1>1. IInv => AnswerWasTrue
  BY DEF IInv, ClientInv, EndInv, AnswerWasTrue
<1> QED
  BY CatalogInvariant, <1>1, PTL

\* A creation, a removal or a change that returns is witnessed by the catalog, whoever wins the
\* race between the check and the request that depends on it.
THEOREM Returns == Spec => []ReturnMeansDone
<1>1. IInv => ReturnMeansDone
  BY DEF IInv, ClientInv, EndInv, ReturnMeansDone
<1> QED
  BY CatalogInvariant, <1>1, PTL

\* An exception over a reply means that the call has changed nothing.
THEOREM NoEffect == Spec => []ThrowMeansNoEffect
<1>1. IInv => ThrowMeansNoEffect
  BY DEF IInv, ClientInv, EndInv, ThrowMeansNoEffect
<1> QED
  BY CatalogInvariant, <1>1, PTL
=============================================================================
