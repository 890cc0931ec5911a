---------------------------- MODULE EdgesProofs ----------------------------
(***************************************************************************)
(* Proofs about Edges: for any collections, vertices, edges, handles and   *)
(* lists, what the caller means is gone when a removal returns, nothing    *)
(* else is removed, a removal that fails half-way leaves edges in the      *)
(* unfinished collections only, and a selection finds what stays.          *)
(***************************************************************************)
EXTENDS Edges, SequenceTheorems, TLAPS

\* An operation sends its own kinds of requests, and its loop is at one of its steps.
RequestInv ==
  /\ pc = "list" => op \in {"removeEdges", "select"} /\ step = 1
  /\ pc = "remove" => Removal
  /\ pc = "select" => op = "select"
  /\ pc # "idle" => outcome = "none" /\ step \in 1 .. Len(steps)
  /\ reply # NoReply => reply.status \in {StatusOK, StatusBadRequest}

\* The requests of a call ask for what its caller means.
AskedInv ==
  /\ op = "removeEdges" => LET requested == UNION {steps[i] : i \in 1 .. Len(steps)} IN
                             requested \subseteq asked /\ (own => requested = asked)
  /\ op = "remove" => /\ Len(steps) = 1
                      /\ \E coll \in Collections :
                           /\ asked = steps[1] \cap In({coll}) /\ todo \subseteq {coll}
  /\ op = "select" => /\ Len(steps) = 1 /\ asked \subseteq steps[1]
                      /\ pc = "list" /\ full_list_of_edges # {} =>
                           asked \subseteq In(full_list_of_edges)

\* A listing has the collections of all edges that have been there since the call began.
ListInv == pc = "list" /\ reply.status = StatusOK => stayed \subseteq In(reply.names)

\* What a call is to remove: nothing is said of a vertex that no handle of its own collection
\* names.
Due == IF own THEN stayed \cap asked ELSE {}

\* Unless the listing was refused, what a removal has still to do is in the collections left.
LeftInv ==
  /\ Removal /\ ~refused => Due \subseteq In(todo)
  /\ Removal /\ ~refused /\ outcome = "returned" => todo = {}
  /\ Removal /\ refused => outcome = "returned"

\* In the collection the loop is at, the requests before this one are done; and so is
\* this one when it has been answered.
CurrentInv ==
  pc = "remove" =>
    \A e \in Due : e.coll = Current =>
      /\ \E i \in step .. Len(steps) : e \in steps[i]
      /\ reply.status = StatusOK => e \notin steps[step]

\* A selection looks where the edges are that it means, and its answer has them.
SelectInv ==
  op = "select" /\ ~refused =>
    /\ pc = "select" => /\ stayed \cap asked \subseteq In(todo)
                        /\ reply.status = StatusOK => stayed \cap asked \subseteq reply.found
    /\ outcome = "returned" => stayed \cap asked \subseteq result

IInv == /\ TypeOK /\ RequestInv /\ AskedInv /\ ListInv /\ LeftInv /\ CurrentInv /\ SelectInv
        /\ NothingElseRemoved

\* The edges in collections, to a vertex and from it are edges.
LEMMA EdgeSets ==
  /\ \A colls : In(colls) \subseteq Edges
  /\ \A v : To(v) \subseteq Edges /\ From(v) \subseteq Edges
BY DEF In, To, From

\* A call starts in the invariant: nothing has come back from the server.
LEMMA InvInit == Init => IInv
<1> SUFFICES ASSUME Init PROVE IInv
  OBVIOUS
<1>1. edges \subseteq In(collections) /\ full_list_of_edges \subseteq Collections
  BY EdgesAssumption DEF Init, In
<1>2. steps \in Seq(SUBSET Edges) /\ step \in 0 .. Len(steps) /\ calls \in 0 .. MaxCalls
  BY EdgesAssumption DEF Init
<1>3. TypeOK
  BY <1>1, <1>2 DEF Init, TypeOK, NoReply
<1> QED
  BY <1>3 DEF Init, IInv, RequestInv, AskedInv, ListInv, LeftInv, Due, CurrentInv, SelectInv,
              NothingElseRemoved, Removal, NoReply

\* A call that starts has its types; nothing is refused, removed or on its way.
LEMMA Started ==
  ASSUME NEW operation \in {"removeEdges", "remove", "select"}, NEW requests \in Seq(SUBSET Edges),
         requests # <<>>, NEW colls \in SUBSET Collections, NEW meant \in SUBSET Edges, IInv,
         Start(operation, requests, colls, meant),
         NEW what \in {"list", "remove", "select"}, what = "remove" => colls # {},
         own' \in BOOLEAN,
         \/ Sends(what)
         \/ outcome' = "threw" /\ UNCHANGED pc
  PROVE  /\ TypeOK' /\ NothingElseRemoved'
         /\ \/ pc' = what /\ outcome' = "none"
            \/ pc' = "idle" /\ outcome' = "threw"
         /\ op' = operation /\ steps' = requests /\ step' = 1 /\ step' \in 1 .. Len(steps')
         /\ todo' = colls /\ asked' = meant /\ result' = {} /\ ~refused'
         /\ stayed' = edges /\ reply' = NoReply /\ UNCHANGED full_list_of_edges
<1>1. pc = "idle" /\ reply = NoReply /\ calls < MaxCalls /\ TypeOK
  BY DEF Start, IInv, TypeOK
<1>2. /\ UNCHANGED <<full_list_of_edges, collections, edges, reply>>
      /\ calls' = calls + 1 /\ op' = operation /\ steps' = requests /\ step' = 1 /\ todo' = colls
      /\ result' = {} /\ asked' = meant /\ stayed' = edges /\ removed' = {}
      /\ refused' = FALSE /\ resent' = FALSE
  BY DEF Start, serverVars
<1>3. \/ pc' = what /\ outcome' = "none"
      \/ pc' = "idle" /\ outcome' = "threw"
  BY <1>1 DEF Sends
<1>4. Len(requests) \in Nat \ {0} /\ 1 \in 1 .. Len(requests)
  OBVIOUS
<1>5. calls' \in 0 .. MaxCalls
  <2>1. MaxCalls \in Nat
    BY EdgesAssumption
  <2>2. calls \in 0 .. MaxCalls
    BY DEF IInv, TypeOK
  <2> QED
    BY <1>1, <1>2, <2>1, <2>2
<1>6. edges' \subseteq In(collections')
  BY <1>1, <1>2 DEF TypeOK, In
<1>7. steps' \in Seq(SUBSET Edges) /\ step' \in 0 .. Len(steps')
  BY <1>2, <1>4
<1>8. /\ full_list_of_edges' \subseteq Collections /\ collections' \subseteq Collections
      /\ reply' \in [status : Nat, names : SUBSET Collections, found : SUBSET Edges]
      /\ stayed' \subseteq edges'
  BY <1>1, <1>2 DEF TypeOK
<1>9. /\ outcome' \in {"none", "threw"} /\ pc' \in {"idle", what}
      /\ pc' = "idle" => reply' = NoReply
      /\ pc' = "remove" => todo' # {}
  BY <1>1, <1>2, <1>3
<1>10. TypeOK'
  BY <1>2, <1>5, <1>6, <1>7, <1>8, <1>9 DEF TypeOK
<1> QED
  BY <1>1, <1>2, <1>3, <1>4, <1>10 DEF NothingElseRemoved

\* A collection's name is a suffix of itself.
LEMMA SuffixOfItself == \A s \in Seq(STRING) : IsSuffix(s, s)
<1> TAKE s \in Seq(STRING)
<1>1. Len(Reverse(s)) \in Nat
  BY DEF Reverse
<1> QED
  BY <1>1 DEF IsSuffix, IsPrefix

\* A collection followed by a key is the id of two parts; by an id, it is of three.
LEMMA Prefixed ==
  /\ \A x, y : Len(<<x, y>>) = 2 /\ <<x, y>>[1] = x
  /\ \A x, y : <<x>> \o <<y>> = <<x, y>>
  /\ \A x, y, z : Len(<<x>> \o <<y, z>>) = 3
<1>1. ASSUME NEW x, NEW y PROVE <<x>> \o <<y>> = <<x, y>>
  <2> DEFINE S == {x, y}
             p == <<x>>
             q == <<y>>
             r == <<x, y>>
  <2>1. /\ p \in Seq(S) /\ q \in Seq(S) /\ r \in Seq(S)
        /\ Len(p) = 1 /\ Len(q) = 1 /\ Len(r) = 2
        /\ p[1] = x /\ q[1] = y /\ r[1] = x /\ r[2] = y
    OBVIOUS
  <2> HIDE DEF S, p, q, r
  <2>2. /\ p \o q \in Seq(S) /\ Len(p \o q) = 2
        /\ \A i \in 1 .. 2 : (p \o q)[i] = IF i <= 1 THEN p[i] ELSE q[i - 1]
    BY <2>1, ConcatProperties
  <2>3. \A i \in 1 .. 2 : (p \o q)[i] = r[i]
    BY <2>1, <2>2
  <2>4. p \o q = r
    BY <2>1, <2>2, <2>3, SeqEqual
  <2> QED
    BY <2>4 DEF p, q, r
<1>2. \A x, y, z : Len(<<x>> \o <<y, z>>) = 3
  OBVIOUS
<1>3. \A x, y : Len(<<x, y>>) = 2 /\ <<x, y>>[1] = x
  OBVIOUS
<1> QED
  BY <1>1, <1>2, <1>3

\* getId makes the id of the vertex named, or one of no vertex; the first if the handle is a key
\* or an id of the collection passed.
LEMMA HandleNames ==
  ASSUME NEW coll \in VertexCollections, NEW handle \in VertexHandles
  PROVE  /\ getId(coll, handle) = NamedBy(coll, handle) \/ getId(coll, handle) \notin Vertices
         /\ OwnHandle(coll, handle) => getId(coll, handle) = NamedBy(coll, handle)
<1>1. ASSUME NEW k \in VertexKeys, handle = <<k>>
      PROVE  getId(coll, handle) = NamedBy(coll, handle)
  <2>1. Len(handle) = 1 /\ handle[1] = k
    BY <1>1
  <2>2. ~(\E i \in 1 .. Len(handle) - 1 : IsSuffix(coll, handle[i]))
    BY <2>1
  <2>3. getId(coll, handle) = <<coll>> \o <<k>> /\ NamedBy(coll, handle) = <<coll, k>>
    BY <1>1, <2>1, <2>2 DEF getId, NamedBy
  <2> QED
    BY <2>3, Prefixed
<1>2. ASSUME NEW other \in VertexCollections, NEW k \in VertexKeys, handle = <<other, k>>
      PROVE  /\ \/ getId(coll, handle) = NamedBy(coll, handle)
                \/ getId(coll, handle) \notin Vertices
             /\ OwnHandle(coll, handle) => getId(coll, handle) = NamedBy(coll, handle)
  <2>1. Len(handle) = 2 /\ handle[1] = other
    BY <1>2, Prefixed
  <2>2. NamedBy(coll, handle) = handle
    BY <2>1 DEF NamedBy
  <2>3. getId(coll, handle) = handle \/ getId(coll, handle) = <<coll>> \o <<other, k>>
    BY <1>2 DEF getId
  <2>4. <<coll>> \o <<other, k>> \notin Vertices
    <3> DEFINE t == <<coll>> \o <<other, k>>
    <3>1. Len(t) = 3
      BY Prefixed
    <3>2. \A id \in Vertices : Len(id) = 2
      BY DEF Vertices
    <3> HIDE DEF t
    <3>3. t \notin Vertices
      BY <3>1, <3>2
    <3> QED
      BY <3>3 DEF t
  <2>5. OwnHandle(coll, handle) => getId(coll, handle) = handle
    <3>1. SUFFICES ASSUME other = coll PROVE getId(coll, handle) = handle
      BY <2>1 DEF OwnHandle
    <3>2. IsSuffix(coll, handle[1])
      BY <2>1, <3>1, EdgesAssumption, SuffixOfItself
    <3>3. 1 \in 1 .. Len(handle) - 1
      BY <2>1
    <3> QED
      BY <3>2, <3>3 DEF getId
  <2> QED
    BY <2>2, <2>3, <2>4, <2>5
<1> QED
  BY <1>1, <1>2 DEF VertexHandles, Vertices

\* What is asked for in the name of the vertex made is meant by the caller, since no edge has an
\* end that is no vertex; and it is all of that for a handle of the collection passed.
LEMMA RequestsMean ==
  ASSUME NEW coll \in VertexCollections, NEW handle \in VertexHandles
  PROVE  LET id     == getId(coll, handle)
             vertex == NamedBy(coll, handle) IN
         /\ To(id) \cup From(id) \subseteq To(vertex) \cup From(vertex)
         /\ OwnHandle(coll, handle) => To(id) \cup From(id) = To(vertex) \cup From(vertex)
<1>1. ASSUME NEW id, id \notin Vertices PROVE To(id) \cup From(id) = {}
  BY <1>1, EdgesAssumption DEF To, From
<1> QED
  BY <1>1, HandleNames

\* removeEdges asks each collection for the edges to the vertex made and then from it.
LEMMA InvRemoveEdges ==
  ASSUME NEW coll \in VertexCollections, NEW handle \in VertexHandles, IInv,
         RemoveEdges(coll, handle)
  PROVE  IInv'
<1> DEFINE id == getId(coll, handle)
           vertex == NamedBy(coll, handle)
           requests == <<To(id), From(id)>>
           meant == To(vertex) \cup From(vertex)
<1>1. requests \in Seq(SUBSET Edges) /\ requests # <<>> /\ Len(requests) = 2
  BY EdgeSets
<1>2. To(id) \cup From(id) = UNION {requests[i] : i \in 1 .. Len(requests)}
  BY <1>1
<1>3. /\ UNION {requests[i] : i \in 1 .. Len(requests)} \subseteq meant
      /\ OwnHandle(coll, handle) => UNION {requests[i] : i \in 1 .. Len(requests)} = meant
  BY <1>2, RequestsMean
<1>4. /\ Start("removeEdges", requests, Collections, meant) /\ Sends("list")
      /\ own' = OwnHandle(coll, handle) /\ own' \in BOOLEAN
  BY DEF RemoveEdges, OwnHandle
<1>5. meant \in SUBSET Edges /\ Collections \in SUBSET Collections
  BY EdgeSets
<1> HIDE DEF requests, meant
<1>6. /\ TypeOK' /\ NothingElseRemoved' /\ pc' \in {"list", "idle"} /\ outcome' # "returned"
      /\ pc' # "idle" => outcome' = "none"
      /\ op' = "removeEdges" /\ steps' = requests /\ step' = 1 /\ step' \in 1 .. Len(steps')
      /\ todo' = Collections /\ asked' = meant /\ ~refused' /\ reply' = NoReply
  BY <1>1, <1>4, <1>5, Started
<1>7. RequestInv' /\ AskedInv'
  BY <1>3, <1>4, <1>6 DEF RequestInv, AskedInv
<1>8. LeftInv'
  BY <1>5, <1>6, EdgesAssumption DEF LeftInv, Due, In
<1>9. ListInv' /\ CurrentInv' /\ SelectInv'
  BY <1>6 DEF ListInv, CurrentInv, SelectInv, NoReply, StatusOK
<1> QED
  BY <1>6, <1>7, <1>8, <1>9 DEF IInv

\* One request that removes, in one collection, exactly what the caller means.
LEMMA InvRemove ==
  ASSUME NEW coll \in Collections, NEW these \in SUBSET Edges, IInv,
         Start("remove", <<these>>, {coll}, these \cap In({coll})), own' \in BOOLEAN,
         \/ Sends("remove")
         \/ outcome' = "threw" /\ UNCHANGED pc
  PROVE  IInv'
<1> DEFINE requests == <<these>>
<1>1. /\ requests \in Seq(SUBSET Edges) /\ requests # <<>> /\ Len(requests) = 1
      /\ requests[1] = these
  OBVIOUS
<1> DEFINE meant == these \cap In({coll})
           colls == {coll}
           what == "remove"
<1>2. /\ what \in {"list", "remove", "select"} /\ what = "remove"
      /\ Start("remove", requests, colls, meant)
      /\ meant \in SUBSET Edges /\ colls \in SUBSET Collections /\ colls # {} /\ own' \in BOOLEAN
      /\ \/ Sends(what)
         \/ outcome' = "threw" /\ UNCHANGED pc
  OBVIOUS
<1> HIDE DEF requests, meant, colls, what
<1>3. /\ TypeOK' /\ NothingElseRemoved' /\ pc' \in {"remove", "idle"} /\ outcome' # "returned"
      /\ pc' # "idle" => outcome' = "none"
      /\ op' = "remove" /\ steps' = requests /\ step' = 1 /\ step' \in 1 .. Len(steps')
      /\ todo' = colls /\ asked' = meant /\ ~refused' /\ reply' = NoReply
  BY <1>1, <1>2, Started
<1>4. RequestInv' /\ AskedInv'
  BY <1>1, <1>3 DEF RequestInv, AskedInv, Removal, meant, colls
<1>5. LeftInv'
  BY <1>3 DEF LeftInv, Due, meant, colls
<1>6. CurrentInv'
  BY <1>1, <1>3 DEF CurrentInv, Due, NoReply, StatusOK, meant
<1>7. ListInv' /\ SelectInv'
  BY <1>3 DEF ListInv, SelectInv
<1> QED
  BY <1>3, <1>4, <1>5, <1>6, <1>7 DEF IInv

\* removeByTemplate is such a request.
LEMMA InvRemoveByTemplate ==
  ASSUME NEW coll \in Collections, NEW template \in SUBSET Edges, IInv,
         RemoveByTemplate(coll, template)
  PROVE  IInv'
BY InvRemove DEF RemoveByTemplate

\* The keys taken from the handles are, in the collection, those the handles name: what is
\* left of an id of another collection is no key.
LEMMA KeysMean ==
  ASSUME NEW coll \in Collections, NEW ids \in SUBSET Ids
  PROVE  LET keys == {getKey(coll, id) : id \in ids} IN
         {e \in In({coll}) : <<e.key>> \in ids \/ <<coll, e.key>> \in ids}
           = {e \in Edges : e.key \in keys} \cap In({coll})
<1> DEFINE keys == {getKey(coll, id) : id \in ids}
<1> SUFFICES ASSUME NEW e \in In({coll})
             PROVE  e.key \in keys <=> <<e.key>> \in ids \/ <<coll, e.key>> \in ids
  BY EdgeSets
<1>1. e.key \in Keys
  BY DEF Keys, In
<1>2. ASSUME NEW id \in ids PROVE getKey(coll, id) = e.key <=> id \in {<<e.key>>, <<coll, e.key>>}
  <2>1. CASE id \in {<<k>> : k \in Keys}
    BY <2>1 DEF getKey
  <2>2. CASE id \in Collections \X Keys
    <3>1. PICK other \in Collections, k \in Keys : id = <<other, k>>
      BY <2>2
    <3>2. Len(id) = 2 /\ id[1] = other /\ id[2] = k
      BY <3>1
    <3> QED
      BY <1>1, <3>1, <3>2, EdgesAssumption DEF getKey
  <2> QED
    BY <2>1, <2>2, EdgesAssumption
<1> QED
  BY <1>2

\* So is removeByKeys, since the keys mean the handles.
LEMMA InvRemoveByKeys ==
  ASSUME NEW coll \in Collections, NEW ids \in SUBSET Ids, IInv, RemoveByKeys(coll, ids)
  PROVE  IInv'
<1> DEFINE these == {e \in Edges : e.key \in {getKey(coll, id) : id \in ids}}
<1>1. /\ Start("remove", <<these>>, {coll}, these \cap In({coll})) /\ Sends("remove")
      /\ own' \in BOOLEAN
  BY KeysMean DEF RemoveByKeys
<1> QED
  BY <1>1, InvRemove

\* A selection asks the collections it means for the edges of its direction.
LEMMA InvSelectEdges ==
  ASSUME NEW v \in Vertices, NEW type \in {"EdgesAll", "EdgesFrom", "EdgesTo"},
         NEW named \in SUBSET Collections, IInv, SelectEdges(type, v, named)
  PROVE  IInv'
<1> DEFINE full == full_list_of_edges
           colls == IF named # {} THEN named ELSE IF full # {} THEN full ELSE Collections
           requests == <<Directed(type, v)>>
           meant == In(colls) \cap {e \in Edges : \/ type # "EdgesTo" /\ e.from = v
                                                  \/ type # "EdgesFrom" /\ e.to = v}
           what == IF named = {} THEN "list" ELSE "select"
<1>1. Directed(type, v) \in SUBSET Edges
  BY EdgeSets DEF Directed
<1>2. /\ requests \in Seq(SUBSET Edges) /\ requests # <<>> /\ Len(requests) = 1
      /\ requests[1] = Directed(type, v)
  BY <1>1
<1>3. meant \subseteq Directed(type, v)
  BY DEF Directed, To, From
<1>4. meant \subseteq In(colls) /\ meant \subseteq Edges
  BY EdgeSets
<1>5. Start("select", requests, named, meant) /\ own' \in BOOLEAN
  BY DEF SelectEdges
<1>6. \/ Sends(what)
      \/ outcome' = "threw" /\ UNCHANGED pc
  BY DEF SelectEdges
<1>7. what \in {"list", "select"} /\ (what = "select" => named # {})
  OBVIOUS
<1> HIDE DEF requests, meant, what
<1>8. /\ TypeOK' /\ NothingElseRemoved' /\ pc' \in {what, "idle"} /\ outcome' # "returned"
      /\ pc' # "idle" => outcome' = "none"
      /\ op' = "select" /\ steps' = requests /\ step' = 1 /\ step' \in 1 .. Len(steps')
      /\ todo' = named /\ asked' = meant /\ ~refused' /\ reply' = NoReply
      /\ UNCHANGED full_list_of_edges
  BY <1>2, <1>4, <1>5, <1>6, <1>7, Started
<1>9. pc' = "list" => named = {}
  BY <1>7, <1>8 DEF what
<1>10. RequestInv' /\ AskedInv'
  BY <1>2, <1>3, <1>4, <1>7, <1>8, <1>9 DEF RequestInv, AskedInv
<1>11. SelectInv'
  BY <1>4, <1>7, <1>8 DEF SelectInv, NoReply, StatusOK
<1>12. ListInv' /\ LeftInv' /\ CurrentInv'
  BY <1>7, <1>8 DEF ListInv, LeftInv, CurrentInv, Due, Removal, NoReply, StatusOK
<1> QED
  BY <1>8, <1>10, <1>11, <1>12 DEF IInv

\* A call without an answer leaves what it has not finished.
LEMMA InvNoAnswer == IInv /\ NoAnswer => IInv'
<1> SUFFICES ASSUME IInv, NoAnswer PROVE IInv'
  OBVIOUS
<1> USE DEF IInv, NoAnswer, End
<1>1. TypeOK'
  BY DEF TypeOK, NoReply, serverVars
<1>2. RequestInv' /\ AskedInv'
  BY DEF RequestInv, AskedInv, Removal
<1>3. LeftInv'
  BY DEF LeftInv, Due, Removal, RequestInv
<1>4. ListInv' /\ CurrentInv' /\ SelectInv' /\ NothingElseRemoved'
  BY DEF ListInv, CurrentInv, Due, SelectInv, NothingElseRemoved
<1> QED
  BY <1>1, <1>2, <1>3, <1>4

\* What is common to the steps that follow a reply.
LEMMA InvReceived ==
  ASSUME NEW what \in {"list", "remove", "select"}, IInv, Received(what)
  PROVE  /\ pc = what /\ reply' = NoReply
         /\ reply.status \in {StatusOK, StatusBadRequest}
         /\ outcome = "none" /\ step \in 1 .. Len(steps)
         /\ UNCHANGED <<full_list_of_edges, collections, edges, asked, own, stayed, removed, resent>>
         /\ refused' = (refused \/ (what # "remove" /\ reply.status # StatusOK))
BY DEF IInv, Received, RequestInv, serverVars

\* The names of the listing are what there is to do, and the edges that stayed are there.
LEMMA InvReceiveNames == IInv /\ ReceiveNames => IInv'
<1> SUFFICES ASSUME IInv, ReceiveNames PROVE IInv'
  OBVIOUS
<1> USE DEF IInv, ReceiveNames
<1>0. Received("list")
  OBVIOUS
<1>1. /\ pc = "list" /\ reply' = NoReply /\ outcome = "none" /\ step \in 1 .. Len(steps)
      /\ reply.status \in {StatusOK, StatusBadRequest}
      /\ UNCHANGED <<full_list_of_edges, collections, edges, asked, own, stayed, removed, resent>>
      /\ refused' = (refused \/ reply.status # StatusOK)
  BY <1>0, InvReceived
<1>2. Names \subseteq Collections /\ (reply.status = StatusOK => stayed \subseteq In(Names))
  BY <1>1 DEF TypeOK, ListInv, Names
<1>3. CASE op = "removeEdges" /\ todo' = Names /\ Loop
  <2>1. /\ UNCHANGED <<op, steps, step, calls>>
        /\ IF todo' = {} THEN pc' = "idle" /\ outcome' = "returned" /\ result' = {}
           ELSE pc' = "remove" /\ UNCHANGED <<outcome, result>>
    BY <1>3 DEF Loop, End, Continue, endVars
  <2>2. TypeOK'
    BY <1>1, <1>2, <1>3, <2>1 DEF TypeOK, NoReply
  <2>3. RequestInv' /\ AskedInv'
    BY <1>1, <1>3, <2>1 DEF RequestInv, AskedInv, Removal
  <2>4. LeftInv'
    BY <1>1, <1>2, <1>3, <2>1 DEF LeftInv, Due, Removal, Names, TypeOK
  <2>5. ASSUME pc' = "remove", NEW e \in Due
        PROVE  \E i \in step .. Len(steps) : e \in steps[i]
    BY <1>1, <1>3, <2>5 DEF AskedInv, RequestInv, Due
  <2>6. CurrentInv'
    BY <1>1, <2>1, <2>5 DEF CurrentInv, Due, NoReply, StatusOK
  <2>7. ListInv' /\ SelectInv' /\ NothingElseRemoved'
    BY <1>1, <1>3, <2>1 DEF ListInv, SelectInv, NothingElseRemoved
  <2> QED
    BY <2>2, <2>3, <2>4, <2>6, <2>7
<1>4. CASE op = "select" /\ todo' = getSubset(Names) /\ Continue("select")
  <2>1. UNCHANGED <<op, steps, step, calls, outcome, result>> /\ pc' = "select"
    BY <1>4 DEF Continue, endVars
  <2>2. TypeOK'
    BY <1>1, <1>2, <1>4, <2>1 DEF TypeOK, NoReply, getSubset
  <2>3. RequestInv' /\ AskedInv'
    BY <1>1, <1>4, <2>1 DEF RequestInv, AskedInv, Removal
  <2>4. ASSUME ~refused' PROVE stayed \cap asked \subseteq In(todo')
    BY <1>1, <1>2, <1>4, <2>4 DEF AskedInv, In, getSubset
  <2>5. SelectInv'
    BY <1>1, <2>1, <2>4 DEF SelectInv, NoReply, StatusOK
  <2>6. ListInv' /\ LeftInv' /\ CurrentInv' /\ NothingElseRemoved'
    BY <1>1, <1>4, <2>1 DEF ListInv, LeftInv, CurrentInv, Due, NothingElseRemoved, Removal
  <2> QED
    BY <2>2, <2>3, <2>5, <2>6
<1> QED
  BY <1>3, <1>4

\* A removal that succeeded is followed by the collection's next one, the next collection
\* or the return; one that failed by the exception.
LEMMA InvReceiveRemoved == IInv /\ ReceiveRemoved => IInv'
<1> SUFFICES ASSUME IInv, ReceiveRemoved PROVE IInv'
  OBVIOUS
<1>0. TypeOK /\ RequestInv /\ AskedInv /\ LeftInv /\ CurrentInv /\ SelectInv /\ removed \subseteq asked
  BY DEF IInv, NothingElseRemoved
<1>1. /\ pc = "remove" /\ reply' = NoReply /\ outcome = "none" /\ step \in 1 .. Len(steps)
      /\ reply.status \in {StatusOK, StatusBadRequest} /\ Removal /\ ~refused
      /\ UNCHANGED <<full_list_of_edges, collections, edges, asked, own, stayed, removed, resent,
                     refused>>
  <2>1. Received("remove")
    BY DEF ReceiveRemoved
  <2> QED
    BY <1>0, <2>1, InvReceived DEF RequestInv, LeftInv, TypeOK
<1>2. Removal <=> op # "select" /\ op # "none"
  BY <1>0 DEF Removal, TypeOK
<1>3. Len(steps) \in Nat /\ step \in Nat
  <2>1. steps \in Seq(SUBSET Edges)
    BY <1>0 DEF TypeOK
  <2>2. Len(steps) \in Nat
    BY <2>1
  <2> QED
    BY <1>1, <2>2
<1>4. CASE Removed(reply.status) /\ step < Len(steps)
  <2>1. UNCHANGED <<calls, op, steps, pc, outcome, result, todo>> /\ step' = step + 1
    BY <1>1, <1>4 DEF ReceiveRemoved, Advance, Continue, endVars
  <2>2. reply.status = StatusOK
    BY <1>1, <1>4 DEF Removed, StatusBadRequest
  <2>3. step' \in 1 .. Len(steps) /\ step' \in 0 .. Len(steps)
    BY <1>3, <1>4, <2>1
  <2>4. TypeOK'
    BY <1>0, <1>1, <2>1, <2>3 DEF TypeOK, NoReply
  <2>5. CurrentInv'
    <3>1. ASSUME NEW e \in Due, e.coll = Current
          PROVE  \E i \in step' .. Len(steps) : e \in steps[i]
      <4>1. PICK i \in step .. Len(steps) : e \in steps[i]
        BY <1>0, <1>1, <3>1 DEF CurrentInv
      <4>2. i # step
        BY <1>0, <1>1, <2>2, <3>1, <4>1 DEF CurrentInv
      <4> QED
        BY <1>3, <2>1, <4>1, <4>2
    <3>2. Current' = Current /\ Due' = Due
      BY <1>1, <2>1 DEF Current, Due
    <3> QED
      BY <1>1, <2>1, <3>1, <3>2 DEF CurrentInv, NoReply, StatusOK
  <2>6. RequestInv' /\ AskedInv' /\ LeftInv' /\ SelectInv'
    BY <1>0, <1>1, <2>1, <2>3 DEF RequestInv, AskedInv, LeftInv, Due, SelectInv, Removal
  <2> QED
    BY <1>0, <1>1, <2>1, <2>4, <2>5, <2>6 DEF IInv, ListInv, NothingElseRemoved
<1>5. CASE Removed(reply.status) /\ ~(step < Len(steps))
  <2>1. /\ UNCHANGED <<calls, op, steps>> /\ step' = 1 /\ todo' = todo \ {Current}
        /\ IF todo' = {} THEN pc' = "idle" /\ outcome' = "returned" /\ result' = {}
           ELSE UNCHANGED <<pc, outcome, result>>
    BY <1>1, <1>5 DEF ReceiveRemoved, Advance, Loop, End, Continue, endVars
  <2>2. reply.status = StatusOK /\ step = Len(steps)
    BY <1>1, <1>3, <1>5 DEF Removed, StatusBadRequest
  <2>3. step' \in 1 .. Len(steps) /\ step' \in 0 .. Len(steps)
    BY <1>1, <1>3, <2>1
  <2>4. TypeOK'
    BY <1>0, <1>1, <2>1, <2>3 DEF TypeOK, NoReply
  <2>0. Due' = Due
    BY <1>1 DEF Due
  <2>5. ASSUME NEW e \in Due PROVE e \in In(todo')
    <3>1. e \in In(todo)
      BY <1>0, <1>1 DEF LeftInv
    <3>2. e.coll # Current
      BY <1>0, <1>1, <1>3, <2>2 DEF CurrentInv
    <3> QED
      BY <2>1, <3>1, <3>2 DEF In
  <2>6. LeftInv'
    BY <1>1, <2>0, <2>1, <2>5 DEF LeftInv
  <2>7. CurrentInv'
    <3>1. ASSUME pc' = "remove", NEW e \in Due, e.coll = Current'
          PROVE  \E i \in 1 .. Len(steps) : e \in steps[i]
      <4>1. CASE op = "removeEdges"
        BY <1>0, <3>1, <4>1 DEF AskedInv, Due
      <4>2. CASE op = "remove"
        <5>1. Len(steps) = 1 /\ e \in steps[1]
          BY <1>0, <3>1, <4>2 DEF AskedInv, Due
        <5> QED
          BY <5>1
      <4> QED
        BY <1>1, <4>1, <4>2 DEF Removal
    <3> QED
      BY <1>1, <2>0, <2>1, <3>1 DEF CurrentInv, NoReply, StatusOK
  <2>8. RequestInv' /\ AskedInv' /\ SelectInv'
    BY <1>0, <1>1, <1>2, <2>1, <2>3 DEF RequestInv, AskedInv, SelectInv, Removal
  <2> QED
    BY <1>0, <1>1, <2>1, <2>4, <2>6, <2>7, <2>8 DEF IInv, ListInv, NothingElseRemoved
<1>6. CASE ~Removed(reply.status)
  <2>1. /\ UNCHANGED <<calls, op, steps, step, todo>>
        /\ pc' = "idle" /\ outcome' = "threw" /\ result' = {}
    BY <1>6 DEF ReceiveRemoved, Fail, End
  <2>2. TypeOK'
    BY <1>0, <1>1, <2>1 DEF TypeOK, NoReply
  <2>3. RequestInv' /\ AskedInv'
    BY <1>0, <1>1, <1>2, <2>1 DEF RequestInv, AskedInv, Removal
  <2>4. LeftInv' /\ CurrentInv' /\ SelectInv'
    BY <1>0, <1>1, <1>2, <2>1 DEF LeftInv, Due, CurrentInv, SelectInv, Removal
  <2> QED
    BY <1>0, <1>1, <2>1, <2>2, <2>3, <2>4 DEF IInv, ListInv, NothingElseRemoved
<1> QED
  BY <1>4, <1>5, <1>6

\* A selection returns what the answer has, which is all that stayed unless it was refused.
LEMMA InvReceiveFound == IInv /\ ReceiveFound => IInv'
<1> SUFFICES ASSUME IInv, ReceiveFound PROVE IInv'
  OBVIOUS
<1>0. TypeOK /\ RequestInv /\ AskedInv /\ LeftInv /\ SelectInv /\ removed \subseteq asked
  BY DEF IInv, NothingElseRemoved
<1>1. /\ pc = "select" /\ op = "select" /\ reply' = NoReply
      /\ reply.status \in {StatusOK, StatusBadRequest}
      /\ UNCHANGED <<full_list_of_edges, collections, edges, asked, own, stayed, removed, resent>>
      /\ refused' = (refused \/ reply.status # StatusOK)
  <2>1. Received("select")
    BY DEF ReceiveFound
  <2> QED
    BY <1>0, <2>1, InvReceived DEF RequestInv
<1>2. /\ UNCHANGED <<calls, op, steps, step, todo>>
      /\ pc' = "idle" /\ outcome' = "returned" /\ result' = reply.found
  BY DEF ReceiveFound, End
<1>3. TypeOK'
  BY <1>0, <1>1, <1>2 DEF TypeOK, NoReply
<1>4. SelectInv'
  BY <1>0, <1>1, <1>2 DEF SelectInv
<1>5. RequestInv' /\ AskedInv' /\ LeftInv' /\ CurrentInv'
  BY <1>0, <1>1, <1>2 DEF RequestInv, AskedInv, LeftInv, CurrentInv, Due, Removal
<1> QED
  BY <1>0, <1>1, <1>2, <1>3, <1>4, <1>5 DEF IInv, ListInv, NothingElseRemoved

\* An answer that is about what it was asked, while edges can only go from those that stay.
LEMMA InvReplies ==
  ASSUME IInv, NEW r \in [status : Nat, names : SUBSET Collections, found : SUBSET Edges],
         Replies(r), r.status \in {StatusOK, StatusBadRequest}, pc # "idle",
         UNCHANGED collections, edges' \subseteq edges, stayed' \subseteq stayed,
         stayed' \subseteq edges', removed' \subseteq asked,
         r.status = StatusOK =>
           /\ pc = "list" => stayed' \subseteq In(r.names)
           /\ pc = "remove" => \A e \in stayed' : e.coll = Current => e \notin steps[step]
           /\ pc = "select" => stayed' \cap asked \cap In(todo) \subseteq r.found
  PROVE  IInv'
<1>0. /\ TypeOK /\ RequestInv /\ AskedInv /\ LeftInv /\ CurrentInv /\ SelectInv
      /\ removed \subseteq asked
  BY DEF IInv, NothingElseRemoved
<1>1. reply' = r /\ UNCHANGED <<full_list_of_edges, pc, calls, op, steps, step, todo, outcome,
                                result, asked, own, refused, resent, collections>>
  BY DEF Replies, clientVars, endVars
<1>2. TypeOK'
  BY <1>0, <1>1 DEF TypeOK, In
<1>3. Current' = Current
  BY <1>1 DEF Current
<1>4. CurrentInv'
  BY <1>0, <1>1, <1>3 DEF CurrentInv, Due
<1>5. RequestInv'
  BY <1>0, <1>1 DEF RequestInv, Removal
<1>6. AskedInv'
  BY <1>0, <1>1 DEF AskedInv
<1>7. LeftInv'
  BY <1>0, <1>1 DEF LeftInv, Due, Removal
<1>8. SelectInv'
  BY <1>0, <1>1 DEF SelectInv, RequestInv
<1>9. ListInv' /\ NothingElseRemoved'
  BY <1>1 DEF ListInv, NothingElseRemoved
<1> QED
  BY <1>2, <1>4, <1>5, <1>6, <1>7, <1>8, <1>9 DEF IInv

\* A listing has all collections, and edges are in collections there are.
LEMMA InvServeList == IInv /\ ServeList => IInv'
<1> SUFFICES ASSUME IInv, ServeList PROVE IInv'
  OBVIOUS
<1> DEFINE r == [NoReply EXCEPT !.status = StatusOK, !.names = collections]
<1>1. TypeOK /\ pc = "list" /\ removed \subseteq asked
  BY DEF IInv, ServeList, Asked, NothingElseRemoved
<1>2. /\ r \in [status : Nat, names : SUBSET Collections, found : SUBSET Edges]
      /\ r.status = StatusOK /\ r.names = collections
  BY <1>1 DEF TypeOK, NoReply, StatusOK
<1>3. Replies(r) /\ UNCHANGED <<collections, edges, stayed, removed>>
  BY DEF ServeList, serverVars
<1>4. stayed \subseteq edges /\ edges \subseteq In(collections)
  BY <1>1 DEF TypeOK
<1> HIDE DEF r
<1> QED
  BY <1>1, <1>2, <1>3, <1>4, InvReplies

\* A removal takes away what it asks for in the collection, which the caller means.
LEMMA InvServeRemove == IInv /\ ServeRemove => IInv'
<1> SUFFICES ASSUME IInv, ServeRemove PROVE IInv'
  OBVIOUS
<1> DEFINE r == [NoReply EXCEPT !.status = StatusOK]
           matching == edges \cap In({Current}) \cap steps[step]
<1>1. TypeOK /\ RequestInv /\ AskedInv /\ pc = "remove" /\ removed \subseteq asked
  BY DEF IInv, ServeRemove, Asked, NothingElseRemoved
<1>2. /\ r \in [status : Nat, names : SUBSET Collections, found : SUBSET Edges]
      /\ r.status = StatusOK
  BY DEF NoReply, StatusOK
<1>3. /\ Replies(r) /\ UNCHANGED collections
      /\ edges' = edges \ matching /\ stayed' = stayed \ matching
      /\ removed' = removed \cup matching
  BY DEF ServeRemove
<1>4. matching \subseteq asked
  <2>1. step \in 1 .. Len(steps) /\ Removal
    BY <1>1 DEF RequestInv
  <2>2. CASE op = "removeEdges"
    BY <1>1, <2>1, <2>2 DEF AskedInv
  <2>3. CASE op = "remove"
    <3>1. PICK coll \in Collections : asked = steps[1] \cap In({coll}) /\ todo \subseteq {coll}
      BY <1>1, <2>3 DEF AskedInv
    <3>2. todo = {coll}
      BY <1>1, <3>1 DEF TypeOK
    <3>3. step = 1
      <4>1. Len(steps) = 1
        BY <1>1, <2>3 DEF AskedInv
      <4> QED
        BY <2>1, <4>1
    <3>4. Current = coll
      BY <3>2 DEF Current
    <3> QED
      BY <3>1, <3>3, <3>4
  <2> QED
    BY <2>1, <2>2, <2>3 DEF Removal
<1>5. ASSUME NEW e \in stayed', e.coll = Current PROVE e \notin steps[step]
  BY <1>1, <1>3, <1>5 DEF TypeOK, In
<1>6. stayed' \subseteq stayed /\ stayed' \subseteq edges' /\ edges' \subseteq edges
  BY <1>1, <1>3 DEF TypeOK
<1>7. removed' \subseteq asked
  BY <1>1, <1>3, <1>4
<1> HIDE DEF r, matching
<1> QED
  BY <1>1, <1>2, <1>3, <1>5, <1>6, <1>7, InvReplies

\* A query finds the edges there are.
LEMMA InvServeSelect == IInv /\ ServeSelect => IInv'
<1> SUFFICES ASSUME IInv, ServeSelect PROVE IInv'
  OBVIOUS
<1> DEFINE found == edges \cap In(todo) \cap steps[1]
           r == [NoReply EXCEPT !.status = StatusOK, !.found = found]
<1>1. TypeOK /\ AskedInv /\ pc = "select" /\ op = "select" /\ removed \subseteq asked
  BY DEF IInv, ServeSelect, Asked, RequestInv, NothingElseRemoved
<1>2. found \subseteq Edges /\ stayed \subseteq edges /\ asked \subseteq steps[1]
  BY <1>1, EdgeSets DEF TypeOK, AskedInv
<1>3. stayed \cap asked \cap In(todo) \subseteq found
  BY <1>2
<1> HIDE DEF found
<1>4. /\ r \in [status : Nat, names : SUBSET Collections, found : SUBSET Edges]
      /\ r.status = StatusOK /\ r.found = found
  BY <1>2 DEF NoReply, StatusOK
<1>5. Replies(r) /\ UNCHANGED <<collections, edges, stayed, removed>>
  BY DEF ServeSelect, serverVars, found
<1> HIDE DEF r
<1> QED
  BY <1>1, <1>2, <1>3, <1>4, <1>5, InvReplies

\* A refusal changes nothing.
LEMMA InvRefuse == IInv /\ Refuse => IInv'
<1> SUFFICES ASSUME IInv, Refuse PROVE IInv'
  OBVIOUS
<1> DEFINE r == [NoReply EXCEPT !.status = StatusBadRequest]
<1>1. TypeOK /\ pc # "idle" /\ removed \subseteq asked /\ stayed \subseteq edges
  BY DEF IInv, Refuse, TypeOK, NothingElseRemoved
<1>2. /\ r \in [status : Nat, names : SUBSET Collections, found : SUBSET Edges]
      /\ r.status = StatusBadRequest /\ StatusBadRequest # StatusOK
  BY DEF NoReply, StatusBadRequest, StatusOK
<1>3. Replies(r) /\ UNCHANGED <<collections, edges, stayed, removed>>
  BY DEF Refuse, serverVars
<1> HIDE DEF r
<1> QED
  BY <1>1, <1>2, <1>3, InvReplies

\* A request that is sent again has no reply yet.
LEMMA InvResend == IInv /\ Resend => IInv'
<1> SUFFICES ASSUME IInv, Resend PROVE IInv'
  OBVIOUS
<1>0. /\ TypeOK /\ RequestInv /\ AskedInv /\ LeftInv /\ CurrentInv /\ SelectInv
      /\ removed \subseteq asked
  BY DEF IInv, NothingElseRemoved
<1>1. /\ reply' = NoReply /\ resent' = TRUE
      /\ UNCHANGED <<full_list_of_edges, pc, calls, op, steps, step, todo, outcome, result, asked,
                     own, refused, collections, edges, stayed, removed>>
  BY DEF Resend, serverVars, clientVars, endVars
<1>2. TypeOK'
  BY <1>0, <1>1 DEF TypeOK, NoReply
<1>3. Current' = Current
  BY <1>1 DEF Current
<1>4. CurrentInv' /\ ListInv' /\ SelectInv'
  BY <1>0, <1>1, <1>3 DEF CurrentInv, Due, ListInv, SelectInv, NoReply, StatusOK
<1>5. RequestInv' /\ AskedInv' /\ LeftInv'
  BY <1>0, <1>1 DEF RequestInv, AskedInv, LeftInv, Due, Removal
<1> QED
  BY <1>0, <1>1, <1>2, <1>4, <1>5 DEF IInv, NothingElseRemoved

\* Whatever others do to edges and collections, no edge comes to those that stayed.
LEMMA InvOthers ==
  ASSUME IInv, NEW colls \in SUBSET Collections, NEW there \in SUBSET Edges,
         there \subseteq In(colls), Others(colls, there)
  PROVE  IInv'
<1>0. /\ TypeOK /\ RequestInv /\ AskedInv /\ ListInv /\ LeftInv /\ CurrentInv /\ SelectInv
      /\ removed \subseteq asked
  BY DEF IInv, NothingElseRemoved
<1>1. /\ collections' = colls /\ edges' = there /\ stayed' = stayed \cap there
      /\ UNCHANGED <<full_list_of_edges, pc, calls, op, steps, step, todo, reply, outcome, result,
                     asked, own, removed, refused, resent>>
  BY DEF Others, clientVars, endVars
<1>2. TypeOK'
  BY <1>0, <1>1 DEF TypeOK
<1>3. Current' = Current
  BY <1>1 DEF Current
<1>4. CurrentInv'
  BY <1>0, <1>1, <1>3 DEF CurrentInv, Due
<1>5. RequestInv' /\ AskedInv' /\ LeftInv'
  BY <1>0, <1>1 DEF RequestInv, AskedInv, LeftInv, Due, Removal
<1>6. ListInv' /\ SelectInv'
  BY <1>0, <1>1 DEF ListInv, SelectInv
<1> QED
  BY <1>0, <1>1, <1>2, <1>4, <1>5, <1>6 DEF IInv, NothingElseRemoved

\* Inserting and deleting an edge, creating and dropping a collection are such changes.
LEMMA InvChange ==
  ASSUME IInv,
         \/ \E e \in Edges : Insert(e) \/ Delete(e)
         \/ \E coll \in Collections : Create(coll) \/ Drop(coll)
  PROVE  IInv'
<1>1. collections \subseteq Collections /\ edges \subseteq In(collections) /\ edges \subseteq Edges
  BY EdgeSets DEF IInv, TypeOK
<1>2. ASSUME NEW e \in Edges, Insert(e) PROVE IInv'
  BY <1>1, <1>2, InvOthers DEF Insert, In
<1>3. ASSUME NEW e \in Edges, Delete(e) PROVE IInv'
  BY <1>1, <1>3, InvOthers DEF Delete
<1>4. ASSUME NEW coll \in Collections, Create(coll) PROVE IInv'
  BY <1>1, <1>4, InvOthers DEF Create, In
<1>5. ASSUME NEW coll \in Collections, Drop(coll) PROVE IInv'
  BY <1>1, <1>5, InvOthers DEF Drop, In
<1> QED
  BY <1>2, <1>3, <1>4, <1>5

\* Steps that change nothing leave the invariant.
LEMMA InvStutter == IInv /\ UNCHANGED vars => IInv'
<1> SUFFICES ASSUME IInv, UNCHANGED vars PROVE IInv'
  OBVIOUS
<1>1. UNCHANGED <<full_list_of_edges, collections, edges, pc, calls, op, steps, step, todo, reply,
                  outcome, result, asked, own, stayed, removed, refused, resent>>
  BY DEF vars, serverVars, clientVars, endVars
<1>2. TypeOK'
  BY <1>1 DEF IInv, TypeOK
<1>3. CurrentInv'
  BY <1>1 DEF IInv, CurrentInv, Current, Due
<1>4. RequestInv' /\ ListInv' /\ LeftInv' /\ SelectInv'
  BY <1>1 DEF IInv, RequestInv, ListInv, LeftInv, Due, SelectInv, Removal
<1>5. AskedInv'
  BY <1>1 DEF IInv, AskedInv
<1> QED
  BY <1>1, <1>2, <1>3, <1>4, <1>5 DEF IInv, NothingElseRemoved

\* The inductive invariant: the requests of a call ask for what its caller means, and of that
\* there is only left what the requests to come will ask for.
THEOREM EdgesInvariant == Spec => []IInv
<1>1. ASSUME IInv, Client PROVE IInv'
  <2>1. ASSUME NEW coll \in VertexCollections, NEW handle \in VertexHandles,
               RemoveEdges(coll, handle)
        PROVE  IInv'
    BY <1>1, <2>1, InvRemoveEdges
  <2>2. ASSUME NEW v \in Vertices, NEW type \in {"EdgesAll", "EdgesFrom", "EdgesTo"},
               NEW named \in SUBSET Collections, SelectEdges(type, v, named)
        PROVE  IInv'
    BY <1>1, <2>2, InvSelectEdges
  <2>3. ASSUME NEW coll \in Collections, NEW v \in Vertices, NEW template \in {To(v), From(v)},
               RemoveByTemplate(coll, template)
        PROVE  IInv'
    BY <1>1, <2>3, EdgeSets, InvRemoveByTemplate
  <2>4. ASSUME NEW coll \in Collections, NEW ids \in SUBSET Ids, RemoveByKeys(coll, ids)
        PROVE  IInv'
    BY <1>1, <2>4, InvRemoveByKeys
  <2> QED
    BY <1>1, <2>1, <2>2, <2>3, <2>4, InvNoAnswer, InvReceiveNames, InvReceiveRemoved,
       InvReceiveFound DEF Client, Receive
<1>2. ASSUME IInv, Server PROVE IInv'
  BY <1>2, InvServeList, InvServeRemove, InvServeSelect, InvRefuse, InvResend, InvChange DEF Server
<1>3. IInv /\ [Next]_vars => IInv'
  BY <1>1, <1>2, InvStutter DEF Next, Finished
<1> QED
  BY InvInit, <1>3, PTL DEF Spec

\* The variables keep their types: in particular a removal goes to a collection that is left.
THEOREM TypeCorrect == Spec => []TypeOK
<1>1. IInv => TypeOK
  BY DEF IInv
<1> QED
  BY EdgesInvariant, <1>1, PTL

\* When a removal returns over a listing that was not refused, no edge the caller means has
\* been there all the time, whatever others did between the listing and the removals.
THEOREM Gone == Spec => []ReturnMeansGone
<1>1. IInv => ReturnMeansGone
  BY DEF IInv, LeftInv, Due, ReturnMeansGone, In
<1> QED
  BY EdgesInvariant, <1>1, PTL

\* What removeEdges leaves when it fails is in the collections it has not finished.
THEOREM Unfinished == Spec => []LeftInUnfinished
<1>1. IInv => LeftInUnfinished
  BY DEF IInv, LeftInv, Due, LeftInUnfinished, Removal, In
<1> QED
  BY EdgesInvariant, <1>1, PTL

\* No removal removes an edge that its caller does not mean.
THEOREM NothingElse == Spec => []NothingElseRemoved
<1>1. IInv => NothingElseRemoved
  BY DEF IInv
<1> QED
  BY EdgesInvariant, <1>1, PTL

\* A selection that is not refused returns every edge that stayed.
THEOREM Selected == Spec => []SelectionIsComplete
<1>1. IInv => SelectionIsComplete
  BY DEF IInv, SelectInv, SelectionIsComplete
<1> QED
  BY EdgesInvariant, <1>1, PTL
=============================================================================
