-------------------------------- MODULE Edges --------------------------------
(***************************************************************************)
(* Removal of many documents, and selection of the edges of a vertex.      *)
(*                                                                         *)
(* removeEdges lists the edge collections and then asks each of them, in   *)
(* the order of their names, to remove the edges to the vertex and, in a   *)
(* second request, the edges from it.  The selection of edges lists them   *)
(* too, and puts the names into one query.  Meanwhile other clients create *)
(* and drop edge collections, insert edges and remove them, and a request  *)
(* of an earlier call that was given up may be executed: that is one more  *)
(* removal by someone else.  removeByTemplate and removeByKeys are one     *)
(* request each.                                                           *)
(*                                                                         *)
(* The vertex of removeEdges is named by a collection and a handle, which  *)
(* getId makes an id of (DocumentHandles): not always that of the vertex   *)
(* the caller means.  A template stands for the edges that match it.  The  *)
(* result of a query comes in one reply here; Cursor models the batches.   *)
(***************************************************************************)
EXTENDS Naturals, Sequences, DocumentHandles

CONSTANTS Collections, \* edge collections, as numbers in the order of their names
          VertexCollections, \* collections of vertices; sequences of letters
          VertexKeys,  \* keys of vertices
          Edges,       \* the edges there can be
          Ids,         \* bound: handles for removeByKeys, <<key>> or <<collection, key>>
          FullLists,   \* bound: the values of full_list_of_edges
          MaxCalls,    \* bound: calls the client makes
          Null         \* no key

Keys == {e.key : e \in Edges}
Vertices == VertexCollections \X VertexKeys
VertexHandles == {<<k>> : k \in VertexKeys} \cup Vertices

ASSUME EdgesAssumption ==
  /\ Collections \subseteq Nat
  /\ VertexCollections \subseteq Seq(STRING)
  /\ \A e \in Edges : /\ DOMAIN e = {"coll", "from", "to", "key"} /\ e.coll \in Collections
                      /\ e.from \in Vertices /\ e.to \in Vertices
  /\ Ids \subseteq {<<k>> : k \in Keys} \cup (Collections \X Keys)
  /\ FullLists \subseteq SUBSET Collections
  /\ MaxCalls \in Nat
  /\ Null \notin Keys

VARIABLES
  full_list_of_edges, \* the collections edges are selected from; {}: all there are
  collections, \* the edge collections there are
  edges,       \* the edges there are
  pc,          \* "idle", or the request sent: "list", "remove", "select"
  calls,       \* calls made so far
  op,          \* operation of the latest call
  steps,       \* what it asks for, in each collection, one request after the other
  step,        \* the request it is at
  todo,        \* the collections it has not finished
  reply,       \* the reply on its way
  outcome,     \* how the latest call ended
  result,      \* the edges it has selected
  asked,       \* history: the edges the caller means
  own,         \* history: the vertex is named by a handle of the collection passed with it
  stayed,      \* history: the edges there without interruption since the call began
  removed,     \* history: the edges its requests have removed
  refused,     \* history: the listing, or the query, of the call was refused
  resent       \* history: libcurl has repeated a request of the call

serverVars == <<collections, edges>>
clientVars == <<pc, calls, op, steps, step, todo>>
endVars    == <<outcome, result>>
vars == <<full_list_of_edges, serverVars, clientVars, reply, endVars, asked, own, stayed,
          removed, refused, resent>>

StatusOK         == 200
StatusBadRequest == 400
NoReply == [status |-> 0, names |-> {}, found |-> {}]

In(colls) == {e \in Edges : e.coll \in colls}
To(v)     == {e \in Edges : e.to = v}
From(v)   == {e \in Edges : e.from = v}

Init ==
  /\ full_list_of_edges \in FullLists
  /\ collections = Collections /\ edges = Edges
  /\ pc = "idle" /\ calls = 0 /\ op = "none"
  /\ steps = <<>> /\ step = 0 /\ todo = {}
  /\ reply = NoReply /\ outcome = "none" /\ result = {}
  /\ asked = {} /\ own = TRUE /\ stayed = {} /\ removed = {}
  /\ refused = FALSE /\ resent = FALSE

-----------------------------------------------------------------------------
(* The client. *)

Start(operation, requests, colls, meant) ==
  /\ pc = "idle" /\ calls < MaxCalls
  /\ calls' = calls + 1
  /\ op' = operation /\ steps' = requests /\ step' = 1 /\ todo' = colls
  /\ result' = {}
  /\ asked' = meant /\ stayed' = edges /\ removed' = {}
  /\ refused' = FALSE /\ resent' = FALSE
  /\ UNCHANGED <<full_list_of_edges, serverVars, reply>>

Sends(what) == pc' = what /\ outcome' = "none"

\* The requests are for the vertex of the id made; the caller means the vertex named.
RemoveEdges(coll, handle) ==
  LET vertexid == getId(coll, handle)
      vertex   == NamedBy(coll, handle) IN
  /\ Start("removeEdges", <<To(vertexid), From(vertexid)>>, Collections,
           To(vertex) \cup From(vertex))
  /\ own' = OwnHandle(coll, handle)
  /\ Sends("list")

RemoveByTemplate(coll, template) ==
  /\ Start("remove", <<template>>, {coll}, template \cap In({coll}))
  /\ own' = TRUE
  /\ \/ Sends("remove")
     \/ outcome' = "threw" /\ UNCHANGED pc    \* the template does not parse

\* What is left of an id of another collection has a slash in it, and is no key.
getKey(collname, id) ==
  IF Len(id) = 1 THEN id[1] ELSE IF id[1] = collname THEN id[2] ELSE Null

RemoveByKeys(coll, ids) ==
  LET keys == {getKey(coll, id) : id \in ids} IN
  /\ Start("remove", <<{e \in Edges : e.key \in keys}>>, {coll},
           {e \in In({coll}) : <<e.key>> \in ids \/ <<coll, e.key>> \in ids})
  /\ own' = TRUE /\ Sends("remove")

\* Mutant: for all edges of a vertex, the ones to it only.
Directed_NoAny(type, v) == IF type = "EdgesFrom" THEN From(v) ELSE To(v)

\* ANY, OUTBOUND and INBOUND.
Directed(type, v) == CASE type = "EdgesAll"  -> To(v) \cup From(v)
                       [] type = "EdgesFrom" -> From(v)
                       [] type = "EdgesTo"   -> To(v)

\* A query that names its collections needs no listing.  Otherwise all edges are meant,
\* or those in the collections of full_list_of_edges.
SelectEdges(type, v, named) ==
  LET meant == IF named # {} THEN named
               ELSE IF full_list_of_edges # {} THEN full_list_of_edges ELSE Collections IN
  /\ Start("select", <<Directed(type, v)>>, named,
           In(meant) \cap {e \in Edges : \/ type # "EdgesTo" /\ e.from = v
                                         \/ type # "EdgesFrom" /\ e.to = v})
  /\ own' = TRUE
  /\ \/ Sends(IF named = {} THEN "list" ELSE "select")
     \/ outcome' = "threw" /\ UNCHANGED pc    \* the query does not parse

\* The call returns or throws.
End(how, found) ==
  /\ pc' = "idle" /\ outcome' = how /\ result' = found
  /\ UNCHANGED <<calls, op, steps>>

\* sendREQUEST throws; whether the request was executed is not known.
NoAnswer ==
  /\ pc # "idle" /\ reply' = NoReply
  /\ End("no answer", {})
  /\ UNCHANGED <<full_list_of_edges, serverVars, step, todo, asked, own, stayed, removed,
                 refused, resent>>

Received(what) ==
  /\ pc = what /\ reply # NoReply
  /\ reply' = NoReply
  /\ refused' = (refused \/ (what # "remove" /\ reply.status # StatusOK))
  /\ UNCHANGED <<full_list_of_edges, serverVars, asked, own, stayed, removed, resent>>

Continue(what) == pc' = what /\ UNCHANGED <<calls, op, steps, endVars>>

\* collectionNames: no names unless the status is 200.
Names == IF reply.status = StatusOK THEN reply.names ELSE {}

\* Of those in full_list_of_edges, when there is such a list, what exists.
getSubset(names) ==
  IF full_list_of_edges = {} THEN names ELSE full_list_of_edges \cap names

\* Mutant: the first collection is asked before looking whether there is one.
Loop_Eager == Continue("remove")

\* for( const auto& edgecoll: edges)
Loop == IF todo' = {} THEN End("returned", {}) ELSE Continue("remove")

ReceiveNames ==
  /\ Received("list")
  /\ \/ op = "removeEdges" /\ todo' = Names /\ Loop
     \/ op = "select" /\ todo' = getSubset(Names) /\ Continue("select")
  /\ UNCHANGED step

\* The collection the loop is at.
Current == CHOOSE coll \in todo : \A other \in todo : coll <= other

\* Mutant: the status is not looked at.
Removed_Any(status) == status # 0

Removed(status) == status < StatusBadRequest

\* Mutant: the next collection follows the first request already.
Advance_OneRequest ==
  todo' = todo \ {Current} /\ UNCHANGED step /\ Loop

\* The collection's next request, or the next collection.
Advance ==
  IF step < Len(steps) THEN step' = step + 1 /\ Continue("remove") /\ UNCHANGED todo
  ELSE step' = 1 /\ todo' = todo \ {Current} /\ Loop

\* Mutant: ask again.
Fail_Retry == Continue("remove") /\ UNCHANGED <<step, todo>>

\* removeByTemplate and removeByKeys throw over an error, and removeEdges with them.
Fail == End("threw", {}) /\ UNCHANGED <<step, todo>>

ReceiveRemoved ==
  /\ Received("remove")
  /\ IF Removed(reply.status) THEN Advance ELSE Fail

\* selectQuery returns what there is, and nothing over an error.
ReceiveFound ==
  /\ Received("select")
  /\ End("returned", reply.found)
  /\ UNCHANGED <<step, todo>>

-----------------------------------------------------------------------------
(* The server, the network and other clients. *)

Asked(what) == pc = what /\ reply = NoReply

Replies(r) ==
  /\ reply' = r
  /\ UNCHANGED <<full_list_of_edges, clientVars, endVars, asked, own, refused, resent>>

ServeList ==
  /\ Asked("list")
  /\ Replies([NoReply EXCEPT !.status = StatusOK, !.names = collections])
  /\ UNCHANGED <<serverVars, stayed, removed>>

ServeRemove ==
  LET matching == edges \cap In({Current}) \cap steps[step] IN
  /\ Asked("remove") /\ Current \in collections
  /\ edges' = edges \ matching /\ stayed' = stayed \ matching
  /\ removed' = removed \cup matching
  /\ Replies([NoReply EXCEPT !.status = StatusOK])
  /\ UNCHANGED collections

\* A query without collections is none.
ServeSelect ==
  /\ Asked("select") /\ todo # {} /\ todo \subseteq collections
  /\ Replies([NoReply EXCEPT !.status = StatusOK, !.found = edges \cap In(todo) \cap steps[1]])
  /\ UNCHANGED <<serverVars, stayed, removed>>

\* There is no such collection, no right to use it, the server is in maintenance.
Refuse ==
  /\ pc # "idle" /\ reply = NoReply
  /\ Replies([NoReply EXCEPT !.status = StatusBadRequest])
  /\ UNCHANGED <<serverVars, stayed, removed>>

\* The kept connection closes before the reply comes; libcurl sends again, once a call.
Resend ==
  /\ pc # "idle" /\ reply # NoReply /\ ~resent
  /\ reply' = NoReply /\ resent' = TRUE
  /\ UNCHANGED <<full_list_of_edges, serverVars, clientVars, endVars, asked, own, stayed,
                 removed, refused>>

Others(colls, there) ==
  /\ collections' = colls /\ edges' = there /\ stayed' = stayed \cap there
  /\ UNCHANGED <<full_list_of_edges, clientVars, reply, endVars, asked, own, removed, refused,
                 resent>>

Insert(e)    == e \notin edges /\ e.coll \in collections /\ Others(collections, edges \cup {e})
Delete(e)    == e \in edges /\ Others(collections, edges \ {e})
Create(coll) == coll \notin collections /\ Others(collections \cup {coll}, edges)
Drop(coll)   == coll \in collections /\ Others(collections \ {coll}, edges \ In({coll}))

-----------------------------------------------------------------------------

Receive == ReceiveNames \/ ReceiveRemoved \/ ReceiveFound

Client ==
  \/ \E coll \in VertexCollections, handle \in VertexHandles : RemoveEdges(coll, handle)
  \/ \E v \in Vertices, type \in {"EdgesAll", "EdgesFrom", "EdgesTo"} :
       \E named \in SUBSET Collections : SelectEdges(type, v, named)
  \/ \E coll \in Collections :
       \/ \E v \in Vertices : \E template \in {To(v), From(v)} : RemoveByTemplate(coll, template)
       \/ \E ids \in SUBSET Ids : RemoveByKeys(coll, ids)
  \/ NoAnswer \/ Receive

Server == \/ ServeList \/ ServeRemove \/ ServeSelect \/ Refuse \/ Resend
          \/ \E e \in Edges : Insert(e) \/ Delete(e)
          \/ \E coll \in Collections : Create(coll) \/ Drop(coll)

Finished == pc = "idle" /\ calls = MaxCalls /\ UNCHANGED vars

Next == Client \/ Server \/ Finished

Spec == Init /\ [][Next]_vars

\* The client's thread runs while it has something to do; nothing is assumed of the server.
FairSpec == Spec /\ WF_vars(Receive)

-----------------------------------------------------------------------------
(* Properties. *)

\* The variables have their types; edges are in collections there are, and a removal goes
\* to a collection.
TypeOK ==
  /\ full_list_of_edges \subseteq Collections
  /\ collections \subseteq Collections /\ edges \subseteq In(collections)
  /\ pc \in {"idle", "list", "remove", "select"} /\ calls \in 0 .. MaxCalls
  /\ op \in {"none", "removeEdges", "remove", "select"}
  /\ steps \in Seq(SUBSET Edges) /\ step \in 0 .. Len(steps) /\ todo \subseteq Collections
  /\ reply \in [status : Nat, names : SUBSET Collections, found : SUBSET Edges]
  /\ outcome \in {"none", "returned", "threw", "no answer"} /\ result \subseteq Edges
  /\ asked \subseteq Edges /\ own \in BOOLEAN
  /\ stayed \subseteq edges /\ removed \subseteq Edges
  /\ refused \in BOOLEAN /\ resent \in BOOLEAN
  /\ pc = "idle" => reply = NoReply
  /\ pc = "remove" => todo # {}

Removal == op \in {"removeEdges", "remove"}

\* When removeEdges, removeByTemplate or removeByKeys returns, none of the edges the caller
\* means has been there all the time, whatever other clients do to edges and collections
\* between the listing and the removals, unless the listing was refused, or the vertex was
\* named by the id of another collection than the one passed with it, which getId may
\* make the id of no vertex.
ReturnMeansGone ==
  Removal /\ outcome = "returned" /\ ~refused /\ own => stayed \cap asked = {}

\* removeEdges that fails half-way has finished the collections before the one it failed at:
\* what it was to remove and is still there is in that collection or behind it.
LeftInUnfinished == op = "removeEdges" /\ outcome \in {"threw", "no answer"} /\ own =>
  \A e \in stayed \cap asked : e.coll \in todo

\* A removal removes nothing that the caller does not mean.  removeEdges removes no edge that
\* does not touch the vertex named, whatever getId makes of the collection and the handle:
\* not those of the vertex with the same key in the collection passed, nor of one whose
\* collection has a name that ends in the same letters.  (An id names its vertex also when
\* another collection is passed with it.)  removeByKeys removes no document
\* whose key is that of a document in another collection.
NothingElseRemoved == removed \subseteq asked

\* A selection of edges that returns and was not refused has found every edge that was there all
\* the time, although its collections were listed before the edges were looked for.
SelectionIsComplete ==
  op = "select" /\ outcome = "returned" /\ ~refused => stayed \cap asked \subseteq result

\* As long as every request is answered in some way, every call ends: collections that are
\* created or dropped meanwhile do not keep the loop of removeEdges going.
AnsweredCallsEnd ==
  LET Unanswered == pc # "idle" /\ reply = NoReply IN
  (Unanswered ~> ~Unanswered) => (pc # "idle" ~> pc = "idle")
=============================================================================
