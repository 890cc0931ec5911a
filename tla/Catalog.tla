------------------------------ MODULE Catalog ------------------------------
(***************************************************************************)
(* Clients that create, drop, look for and list the things a server keeps  *)
(* by name: collections, graphs, databases and users.                      *)
(*                                                                         *)
(* createCollection, createGraph and createDatabase ask first whether the  *)
(* thing exists and post it only if not; dropCollection, removeGraph and   *)
(* removeDatabase likewise.  Other clients do the same between the check   *)
(* and the request that depends on it.  createUser and removeUser do not   *)
(* ask, and neither do the calls that change a thing: updateUser,          *)
(* grantUserToDataBase, addVertexGraph and addEdgeGraph.                   *)
(*                                                                         *)
(* Each request is executed when the server answers it.  The reply may be  *)
(* lost, and then sendREQUEST throws, or libcurl sends the request again.  *)
(***************************************************************************)
EXTENDS Naturals, FiniteSets

CONSTANTS Clients,   \* threads, each with API objects of its own
          Names,     \* names of things
          Kinds,     \* the kinds of things asked for
          Initially, \* bound: sets of things there are at first
          MaxCalls   \* bound: client -> calls it makes

ASSUME CatalogAssumption ==
  /\ Kinds \subseteq {"collection", "graph", "database", "user"}
  /\ Initially \subseteq SUBSET [kind : Kinds, name : Names]
  /\ MaxCalls \in [Clients -> Nat]

VARIABLES
  catalog,   \* the things there are
  pc,        \* client -> "idle", "build", or the request sent: "check", "act", "list"
  calls,     \* client -> calls it has made
  call,      \* client -> operation and thing of its latest call
  reply,     \* client -> status code of the reply on its way; 0: none
  listed,    \* client -> the names in that reply
  outcome,   \* client -> how its latest call ended
  result,    \* client -> the names its latest call returned
  seen,      \* history: client -> sets of names of the kind its call is about that
             \* there have been since the call began
  effects,   \* history: client -> times its call has changed the catalog
  resent     \* history: client -> libcurl has repeated a request of its call

vars == <<catalog, pc, calls, call, reply, listed, outcome, result, seen, effects, resent>>
serverVars == <<catalog, seen, effects>>
callVars   == <<calls, call>>
endVars    == <<outcome, result>>

Things == [kind : Kinds, name : Names]
Call   == [op : {"exist", "create", "drop", "change", "names"}, thing : Things]
NoCall == [op |-> "none"]

StatusOK       == 200
StatusCreated  == 201
StatusAccepted == 202
StatusBadRequest == 400
StatusNotFound == 404
StatusConflict == 409
Unavailable    == 503   \* stands for every error but the two above

\* What the server answers when it has created, removed or changed a thing.
CreateStatus(kind) == CASE kind = "collection" -> StatusOK
                        [] kind = "graph" -> StatusAccepted
                        [] kind \in {"database", "user"} -> StatusCreated
DropStatus(kind)   == CASE kind \in {"collection", "database"} -> StatusOK
                        [] kind \in {"graph", "user"} -> StatusAccepted
ChangeStatus(kind) == IF kind = "graph" THEN StatusAccepted ELSE StatusOK

NamesOf(kind, things) == {thing.name : thing \in {x \in things : x.kind = kind}}

\* Mutant: existCollection goes by the status code alone.
CheckThrows_Never(kind, status) == kind = "none" /\ status = 0

\* existCollection reads the collection's status from the body of every reply but a
\* 404, and the body of an error has none.
CheckThrows(kind, status) == kind = "collection" /\ status \notin {StatusOK, StatusNotFound}

\* Mutant: an error is taken for absence.
Exists_OnlyOK(kind, status) == kind \in Kinds /\ status = StatusOK

\* existGraph and existDatabase go by the status code; existUser wants a 200.
Exists(kind, status) ==
  IF kind = "user" THEN status = StatusOK ELSE status # StatusNotFound

\* Mutant: only a 200 is a success.
Created_OnlyOK(kind, status) == kind \in Kinds /\ status = StatusOK

\* The status codes that createX, dropX and the calls that change X take for success.
Created(kind, status) ==
  IF kind = "graph" THEN status <= StatusAccepted ELSE status = CreateStatus(kind)

Dropped(kind, status) ==
  IF kind = "graph" THEN status <= StatusAccepted ELSE status = DropStatus(kind)

Changed(kind, status) ==
  IF kind = "graph" THEN status < StatusBadRequest ELSE status = ChangeStatus(kind)

Init ==
  /\ catalog \in Initially
  /\ pc = [c \in Clients |-> "idle"] /\ calls = [c \in Clients |-> 0]
  /\ call = [c \in Clients |-> NoCall]
  /\ reply = [c \in Clients |-> 0] /\ listed = [c \in Clients |-> {}]
  /\ outcome = [c \in Clients |-> "none"] /\ result = [c \in Clients |-> {}]
  /\ seen = [c \in Clients |-> {}] /\ effects = [c \in Clients |-> 0]
  /\ resent = [c \in Clients |-> FALSE]

-----------------------------------------------------------------------------
(* The client. *)

Op(c)   == call[c].op
Kind(c) == call[c].thing.kind
Name(c) == call[c].thing.name

\* A listing collects the names in a set of its own.
NoNames(c) == result' = [result EXCEPT ![c] = {}]

\* Creation and removal of a user, and changes, send their request at once; the others
\* check first.
Start(c, op, thing) ==
  /\ op = "change" => thing.kind \in {"graph", "user"}
  /\ pc[c] = "idle" /\ calls[c] < MaxCalls[c]
  /\ calls' = [calls EXCEPT ![c] = @ + 1]
  /\ call' = [call EXCEPT ![c] = [op |-> op, thing |-> thing]]
  /\ pc' = [pc EXCEPT ![c] = IF op = "names" THEN "list"
                             ELSE IF op = "change" \/ (op # "exist" /\ thing.kind = "user")
                                  THEN "build"
                             ELSE "check"]
  /\ outcome' = [outcome EXCEPT ![c] = "none"] /\ NoNames(c)
  /\ seen' = [seen EXCEPT ![c] = {NamesOf(thing.kind, catalog)}]
  /\ effects' = [effects EXCEPT ![c] = 0] /\ resent' = [resent EXCEPT ![c] = FALSE]
  /\ UNCHANGED <<catalog, reply, listed>>

\* The call returns or throws; the reply goes with the unique_ptr that holds it.
End(c, how, names) ==
  /\ pc' = [pc EXCEPT ![c] = "idle"]
  /\ outcome' = [outcome EXCEPT ![c] = how] /\ result' = [result EXCEPT ![c] = names]
  /\ reply' = [reply EXCEPT ![c] = 0] /\ listed' = [listed EXCEPT ![c] = {}]
  /\ UNCHANGED <<serverVars, callVars, resent>>

\* sendREQUEST throws; whether the request was executed is not known.
NoAnswer(c) == pc[c] \in {"check", "act", "list"} /\ End(c, "no answer", {})

Received(c, what) == pc[c] = what /\ reply[c] # 0

Check(c) ==
  /\ Received(c, "check")
  /\ LET there == Exists(Kind(c), reply[c]) IN
     \/ CheckThrows(Kind(c), reply[c]) /\ End(c, "threw", {})
     \/ /\ ~CheckThrows(Kind(c), reply[c]) /\ Op(c) = "exist"
        /\ End(c, IF there THEN "yes" ELSE "no", {})
     \/ /\ ~CheckThrows(Kind(c), reply[c]) /\ Op(c) # "exist"
        /\ there = (Op(c) = "create")
        /\ End(c, "returned", {})

\* Mutant: a question goes on to a request of its own.
GoOn_AnyCall(c) ==
  /\ Received(c, "check")
  /\ ~CheckThrows(Kind(c), reply[c])
  /\ Exists(Kind(c), reply[c]) = (Op(c) = "drop")
  /\ pc' = [pc EXCEPT ![c] = "build"]
  /\ reply' = [reply EXCEPT ![c] = 0]
  /\ UNCHANGED <<serverVars, callVars, listed, endVars, resent>>

\* The check says there is something to do.
GoOn(c) ==
  /\ Received(c, "check") /\ Op(c) # "exist"
  /\ ~CheckThrows(Kind(c), reply[c])
  /\ Exists(Kind(c), reply[c]) = (Op(c) = "drop")
  /\ pc' = [pc EXCEPT ![c] = "build"]
  /\ reply' = [reply EXCEPT ![c] = 0]
  /\ UNCHANGED <<serverVars, callVars, listed, endVars, resent>>

\* The request that creates, drops or changes the thing is built and sent.
Send(c) ==
  /\ pc[c] = "build"
  /\ pc' = [pc EXCEPT ![c] = "act"]
  /\ UNCHANGED <<serverVars, callVars, reply, listed, endVars, resent>>

\* Edge definitions, or a user's extra data, that do not parse.
IllegalArgument(c) ==
  /\ pc[c] = "build" /\ Op(c) \in {"create", "change"} /\ Kind(c) # "collection"
  /\ End(c, "threw", {})

Act(c) ==
  /\ Received(c, "act")
  /\ LET done == CASE Op(c) = "create" -> Created(Kind(c), reply[c])
                   [] Op(c) = "drop"   -> Dropped(Kind(c), reply[c])
                   [] Op(c) = "change" -> Changed(Kind(c), reply[c]) IN
     End(c, IF done THEN "returned" ELSE "threw", {})

\* collectionNames, graphNames, databaseNames, userNames: no names unless the reply
\* is a 200.
List(c) ==
  /\ Received(c, "list")
  /\ End(c, "returned", result[c] \cup IF reply[c] = StatusOK THEN listed[c] ELSE {})

-----------------------------------------------------------------------------
(* The server and the network. *)

Replies(c, status) ==
  /\ reply' = [reply EXCEPT ![c] = status]
  /\ UNCHANGED <<pc, callVars, endVars, resent>>

Waits(c, what) == pc[c] = what /\ reply[c] = 0

ServeCheck(c) ==
  /\ Waits(c, "check")
  /\ Replies(c, IF call[c].thing \in catalog THEN StatusOK ELSE StatusNotFound)
  /\ UNCHANGED <<serverVars, listed>>

\* The catalog, or a thing in it, changes; what calls in progress have seen grows.
Change(c, things) ==
  /\ catalog' = things
  /\ effects' = [effects EXCEPT ![c] = @ + 1]
  /\ seen' = [d \in Clients |-> IF pc[d] = "idle" THEN seen[d]
                                ELSE seen[d] \cup {NamesOf(Kind(d), things)}]

\* A graph brings the collections of its edge definitions along, and takes them with it
\* when it is dropped with dropCollections; a new database brings the users it is for.
Along(c) == SUBSET {thing \in Things :
                      \/ Kind(c) = "graph" /\ thing.kind = "collection"
                      \/ Kind(c) = "database" /\ Op(c) = "create" /\ thing.kind = "user"}

ServeCreate(c) ==
  /\ Waits(c, "act") /\ Op(c) = "create"
  /\ \/ /\ call[c].thing \notin catalog
        /\ \E others \in Along(c) : Change(c, catalog \cup {call[c].thing} \cup others)
        /\ Replies(c, CreateStatus(Kind(c)))
     \/ /\ call[c].thing \in catalog
        /\ Replies(c, StatusConflict) /\ UNCHANGED serverVars
  /\ UNCHANGED listed

ServeDrop(c) ==
  /\ Waits(c, "act") /\ Op(c) = "drop"
  /\ \/ /\ call[c].thing \in catalog
        /\ \E others \in Along(c) : Change(c, catalog \ ({call[c].thing} \cup others))
        /\ Replies(c, DropStatus(Kind(c)))
     \/ /\ call[c].thing \notin catalog
        /\ Replies(c, StatusNotFound) /\ UNCHANGED serverVars
  /\ UNCHANGED listed

ServeChange(c) ==
  /\ Waits(c, "act") /\ Op(c) = "change"
  /\ \/ /\ call[c].thing \in catalog
        /\ \E others \in Along(c) : Change(c, catalog \cup others)
        /\ Replies(c, ChangeStatus(Kind(c)))
     \/ /\ call[c].thing \notin catalog
        /\ Replies(c, StatusNotFound) /\ UNCHANGED serverVars
  /\ UNCHANGED listed

ServeList(c) ==
  /\ Waits(c, "list")
  /\ listed' = [listed EXCEPT ![c] = NamesOf(Kind(c), catalog)]
  /\ Replies(c, StatusOK) /\ UNCHANGED serverVars

\* The server is in maintenance, the login is not accepted or may not do this.
Refuse(c) ==
  /\ pc[c] \in {"check", "act", "list"} /\ reply[c] = 0
  /\ Replies(c, Unavailable) /\ UNCHANGED <<serverVars, listed>>

\* The kept connection closes before the reply comes; libcurl sends again, once.
Resend(c) ==
  /\ pc[c] # "idle" /\ reply[c] # 0 /\ ~resent[c]
  /\ resent' = [resent EXCEPT ![c] = TRUE]
  /\ reply' = [reply EXCEPT ![c] = 0] /\ listed' = [listed EXCEPT ![c] = {}]
  /\ UNCHANGED <<serverVars, pc, callVars, endVars>>

-----------------------------------------------------------------------------

Client(c) == \/ \E op \in {"exist", "create", "drop", "change", "names"}, thing \in Things :
                  Start(c, op, thing)
             \/ NoAnswer(c) \/ Check(c) \/ GoOn(c) \/ Send(c) \/ IllegalArgument(c)
             \/ Act(c) \/ List(c)
Server(c) == \/ ServeCheck(c) \/ ServeCreate(c) \/ ServeDrop(c) \/ ServeChange(c)
             \/ ServeList(c) \/ Refuse(c) \/ Resend(c)

Finished == (\A c \in Clients : pc[c] = "idle" /\ calls[c] = MaxCalls[c]) /\ UNCHANGED vars

Next == (\E c \in Clients : Client(c) \/ Server(c)) \/ Finished

Spec == Init /\ [][Next]_vars

-----------------------------------------------------------------------------
(* Properties. *)

\* The variables have their types; between calls nothing is on its way, and only a
\* call that creates, drops or changes sends a request that does.
TypeOK ==
  /\ catalog \subseteq Things
  /\ pc \in [Clients -> {"idle", "check", "build", "act", "list"}]
  /\ calls \in [Clients -> Nat] /\ call \in [Clients -> Call \cup {NoCall}]
  /\ reply \in [Clients -> Nat] /\ listed \in [Clients -> SUBSET Names]
  /\ outcome \in [Clients -> {"none", "yes", "no", "returned", "threw", "no answer"}]
  /\ result \in [Clients -> SUBSET Names]
  /\ seen \in [Clients -> SUBSET SUBSET Names]
  /\ effects \in [Clients -> Nat] /\ resent \in [Clients -> BOOLEAN]
  /\ \A c \in Clients : pc[c] = "idle" => reply[c] = 0
  /\ \A c \in Clients : pc[c] \in {"build", "act"} => Op(c) \in {"create", "drop", "change"}

WasThere(c) == \E names \in seen[c] : Name(c) \in names
WasGone(c)  == \E names \in seen[c] : Name(c) \notin names
Ended(c, op, how) == pc[c] = "idle" /\ Op(c) = op /\ outcome[c] = how

\* existX says no of a thing other than a user only if it was not there at some moment
\* of the call, and yes of a collection or a user only if it was: existCollection and
\* existUser do not mistake an error for an answer.  The names a listing returns are the
\* names there were at one moment, or none (the status is not reported to the caller).
AnswerWasTrue ==
  \A c \in Clients :
    /\ Ended(c, "exist", "no") /\ Kind(c) # "user" => WasGone(c)
    /\ Ended(c, "exist", "yes") /\ Kind(c) \in {"collection", "user"} => WasThere(c)
    /\ Ended(c, "names", "returned") => result[c] \in seen[c] \cup {{}}

\* Whoever else creates and drops things between the check and the request: createCollection
\* and createUser return only if the thing was there at some moment of the call; dropCollection,
\* removeGraph, removeDatabase and removeUser only if it was absent at some moment; updateUser,
\* grantUserToDataBase, addVertexGraph and addEdgeGraph, which do not look first, only if the
\* server has made the change, to a thing that was there then.
ReturnMeansDone ==
  \A c \in Clients :
    /\ Ended(c, "create", "returned") /\ Kind(c) \in {"collection", "user"} => WasThere(c)
    /\ Ended(c, "drop", "returned") => WasGone(c)
    /\ Ended(c, "change", "returned") => effects[c] > 0 /\ WasThere(c)

\* Without a repeated request a call changes the catalog once at most, and not at all
\* if it looks or lists, or throws over a reply: whoever wins the race after the check,
\* the loser's exception means that nothing of it has happened.
ThrowMeansNoEffect ==
  \A c \in Clients :
    ~resent[c] =>
      /\ effects[c] <= 1
      /\ Op(c) \in {"exist", "names"} \/ outcome[c] = "threw" => effects[c] = 0
============================================================================
