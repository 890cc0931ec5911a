------------------------------ MODULE Documents ------------------------------
(***************************************************************************)
(* Clients that create, read, update, delete and look for single documents *)
(* (createDocument ... existsDocument, and the records of a graph, which   *)
(* differ in the path of the request only).  Each call is one request.     *)
(*                                                                         *)
(* The request is executed when the server answers it.  When the reply is  *)
(* lost, sendREQUEST throws or libcurl sends the request again; when the   *)
(* connection is lost with the request still under way, the server may     *)
(* execute it at any later time.                                           *)
(*                                                                         *)
(* Callers name a document by a collection and a handle, of which getId    *)
(* (DocumentHandles) makes the id that goes into the URL.                  *)
(***************************************************************************)
EXTENDS Naturals, Sequences, DocumentHandles

CONSTANTS Clients,     \* threads, each with an API object of its own
          Collections, \* collections; non-empty sequences of letters
          Keys,        \* keys of documents
          Handles,     \* bound: the handles passed, <<key>> or <<collection, key>>
          Initially,   \* bound: the sets of documents there are at first
          MaxCalls,    \* bound: client -> calls it makes
          Null         \* no document, no handle

Ids    == Collections \X Keys
Values == {<<"first", 0>>} \cup (Clients \X Nat)  \* what writes make of documents

ASSUME DocumentsAssumption ==
  /\ Collections \subseteq Seq(STRING) \ {<<>>}
  /\ Null \notin Handles \cup Ids \cup Values
  /\ Handles \subseteq {<<k>> : k \in Keys} \cup Ids
  /\ Initially \subseteq SUBSET Ids
  /\ MaxCalls \in [Clients -> Nat]

VARIABLES
  documents, \* id -> the write that made the document what it is, or Null
  abandoned, \* requests under way whose call has ended without an answer
  pc,        \* client -> "idle" or "sent"
  calls,     \* client -> calls it has made
  call,      \* client -> operation, collection and handle of its latest call
  reply,     \* client -> status, document and value of the reply on its way
  outcome,   \* client -> how its latest call ended
  result,    \* client -> the document id or the value it returned
  seen,      \* history: client -> values of the document its call is about since it began
  written,   \* history: client -> the documents its call has changed, in order
  resent,    \* history: client -> libcurl has repeated its request
  refused    \* history: client -> the server has refused its request

vars == <<documents, abandoned, pc, calls, call, reply, outcome, result, seen, written,
          resent, refused>>
callVars   == <<calls, call, resent>>
endVars    == <<outcome, result>>
serverVars == <<documents, abandoned, seen, written>>

StatusOK         == 200
StatusAccepted   == 202
StatusBadRequest == 400
StatusNotFound   == 404
StatusConflict   == 409
Unavailable      == 503   \* stands for every error but the two above

Writes == {"create", "update", "delete"}
Ops    == Writes \cup {"read", "exists"}
Tag(c) == <<c, calls[c]>>  \* what the latest call of c writes
NoCall == [op |-> "none", coll |-> Null, handle |-> Null]
Failure(status) == [status |-> status, id |-> Null, value |-> Null]
NoReply == Failure(0)

\* createDocument takes the key from the record; Null: the server makes one.
Target(x) ==
  IF x.op = "create" THEN IF x.handle = Null THEN Null ELSE <<x.coll, x.handle[1]>>
  ELSE getId(x.coll, x.handle)

\* The document the caller means.
Named(x) ==
  IF x.op # "create" THEN NamedBy(x.coll, x.handle)
  ELSE IF x.handle = Null THEN Null ELSE <<x.coll, x.handle[1]>>

Init ==
  /\ documents \in {[id \in Ids |-> IF id \in S THEN <<"first", 0>> ELSE Null] :
                      S \in Initially}
  /\ abandoned = {}
  /\ pc = [c \in Clients |-> "idle"] /\ calls = [c \in Clients |-> 0]
  /\ call = [c \in Clients |-> NoCall] /\ reply = [c \in Clients |-> NoReply]
  /\ outcome = [c \in Clients |-> "none"] /\ result = [c \in Clients |-> Null]
  /\ seen = [c \in Clients |-> {}] /\ written = [c \in Clients |-> <<>>]
  /\ resent = [c \in Clients |-> FALSE] /\ refused = [c \in Clients |-> FALSE]

-----------------------------------------------------------------------------
(* The client. *)

Arguments(op) ==
  [op : {op}, coll : Collections,
   handle : IF op = "create" THEN {h \in Handles : Len(h) = 1} \cup {Null} ELSE Handles]

Start(c, x) ==
  /\ pc[c] = "idle" /\ calls[c] < MaxCalls[c]
  /\ calls' = [calls EXCEPT ![c] = @ + 1]
  /\ call' = [call EXCEPT ![c] = x]
  /\ result' = [result EXCEPT ![c] = Null]
  /\ seen' = [seen EXCEPT ![c] = IF Named(x) = Null THEN {} ELSE {documents[Named(x)]}]
  /\ written' = [written EXCEPT ![c] = <<>>]
  /\ resent' = [resent EXCEPT ![c] = FALSE] /\ refused' = [refused EXCEPT ![c] = FALSE]
  /\ UNCHANGED <<documents, abandoned, reply>>

Send(c, x) ==
  /\ Start(c, x)
  /\ pc' = [pc EXCEPT ![c] = "sent"]
  /\ outcome' = [outcome EXCEPT ![c] = "none"]

\* The record does not parse: nothing is sent.
IllegalRecord(c, x) ==
  /\ x.op \in {"create", "update"}
  /\ Start(c, x)
  /\ outcome' = [outcome EXCEPT ![c] = "threw"]
  /\ UNCHANGED pc

\* Mutant: the reply stays behind.
End_ReplyStays(c, how, value) ==
  /\ pc' = [pc EXCEPT ![c] = "idle"]
  /\ outcome' = [outcome EXCEPT ![c] = how] /\ result' = [result EXCEPT ![c] = value]
  /\ UNCHANGED <<documents, reply, seen, written, refused, callVars>>

End(c, how, value) ==
  /\ pc' = [pc EXCEPT ![c] = "idle"]
  /\ outcome' = [outcome EXCEPT ![c] = how] /\ result' = [result EXCEPT ![c] = value]
  /\ reply' = [reply EXCEPT ![c] = NoReply]
  /\ UNCHANGED <<documents, seen, written, refused, callVars>>

\* sendREQUEST throws.  The request has not been executed, or its reply is lost, or it
\* is still under way.
NoAnswer(c) ==
  /\ pc[c] = "sent" /\ End(c, "no answer", Null)
  /\ \/ UNCHANGED abandoned
     \/ /\ reply[c] = NoReply /\ call[c].op \in Writes
        /\ abandoned' = abandoned \cup {[call |-> call[c], tag |-> Tag(c)]}

Received(c, ops) == pc[c] = "sent" /\ reply[c] # NoReply /\ call[c].op \in ops

\* Mutant: the status is not looked at.
Read_NoStatusCheck(c) ==
  /\ Received(c, {"read"}) /\ UNCHANGED abandoned
  /\ End(c, "returned", reply[c].value)

Read(c) ==
  /\ Received(c, {"read"}) /\ UNCHANGED abandoned
  /\ IF reply[c].status = StatusOK THEN End(c, "returned", reply[c].value)
                                   ELSE End(c, "threw", Null)

\* Mutant: everything but a 404 is existence.
Exists_NotFoundOnly(c) ==
  /\ Received(c, {"exists"}) /\ UNCHANGED abandoned
  /\ End(c, IF reply[c].status # StatusNotFound THEN "yes" ELSE "no", Null)

Exists(c) ==
  /\ Received(c, {"exists"}) /\ UNCHANGED abandoned
  /\ End(c, IF reply[c].status = StatusOK THEN "yes" ELSE "no", Null)

\* Mutant: no status is an error.
Written_Any(status) == status # 0

\* Mutant: only a 200 is a success.
Written_OnlyOK(status) == status = StatusOK

\* What createX, updateX and deleteX take for success.
Written(status) == status < StatusBadRequest

\* createX and updateX return the id the server sends, deleteX returns true.
Wrote(c) ==
  /\ Received(c, Writes) /\ UNCHANGED abandoned
  /\ IF Written(reply[c].status)
     THEN End(c, "returned", IF call[c].op = "delete" THEN Null ELSE reply[c].id)
     ELSE End(c, "threw", Null)

-----------------------------------------------------------------------------
(* The server and the network. *)

There(id) == id \in Ids /\ documents[id] # Null

\* The documents a write may go to, here and now.
Writable(x) ==
  IF x.op # "create" THEN {id \in {Target(x)} : There(id)}
  ELSE {id \in Ids : id[1] = x.coll /\ ~There(id) /\ Target(x) \in {Null, id}}

\* The document changes; what calls in progress have seen of it grows.
Change(id, x, tag) ==
  LET value == IF x.op = "delete" THEN Null ELSE tag IN
  /\ documents' = [documents EXCEPT ![id] = value]
  /\ seen' = [c \in Clients |-> IF pc[c] = "sent" /\ Named(call[c]) = id
                                THEN seen[c] \cup {value} ELSE seen[c]]

Replies(c, r) ==
  /\ reply' = [reply EXCEPT ![c] = r]
  /\ UNCHANGED <<abandoned, pc, callVars, endVars>>

Asked(c, ops) == pc[c] = "sent" /\ reply[c] = NoReply /\ call[c].op \in ops

ServeRead(c) ==
  /\ Asked(c, {"read", "exists"})
  /\ LET id == Target(call[c]) IN
     Replies(c, IF There(id) THEN [status |-> StatusOK, id |-> id, value |-> documents[id]]
                ELSE Failure(StatusNotFound))
  /\ UNCHANGED <<documents, seen, written, refused>>

ServeWrite(c) ==
  /\ Asked(c, Writes)
  /\ \E id \in Writable(call[c]) :
       /\ Change(id, call[c], Tag(c))
       /\ written' = [written EXCEPT ![c] = Append(@, id)]
       /\ Replies(c, [status |-> StatusAccepted, id |-> id, value |-> Null])
  /\ UNCHANGED refused

\* There is no such document, or there is one already.
ServeNoWrite(c) ==
  /\ Asked(c, Writes) /\ Writable(call[c]) = {}
  /\ Replies(c, Failure(IF call[c].op = "create" THEN StatusConflict ELSE StatusNotFound))
  /\ UNCHANGED <<documents, seen, written, refused>>

\* The server is in maintenance, the login may not do this, a schema is violated.
Refuse(c) ==
  /\ Asked(c, Ops)
  /\ Replies(c, Failure(Unavailable))
  /\ refused' = [refused EXCEPT ![c] = TRUE]
  /\ UNCHANGED <<documents, seen, written>>

\* The kept connection closes before the reply comes; libcurl sends again, once.
Resend(c) ==
  /\ pc[c] = "sent" /\ reply[c] # NoReply /\ ~resent[c]
  /\ resent' = [resent EXCEPT ![c] = TRUE]
  /\ reply' = [reply EXCEPT ![c] = NoReply]
  /\ UNCHANGED <<serverVars, pc, calls, call, endVars, refused>>

\* A request without a caller is executed.
ServeAbandoned(r) ==
  /\ abandoned' = abandoned \ {r}
  /\ \E id \in Writable(r.call) : Change(id, r.call, r.tag)
  /\ UNCHANGED <<pc, callVars, reply, endVars, written, refused>>

-----------------------------------------------------------------------------

Client(c) == \/ \E op \in Ops : \E x \in Arguments(op) : Send(c, x) \/ IllegalRecord(c, x)
             \/ NoAnswer(c) \/ Read(c) \/ Exists(c) \/ Wrote(c)
Server(c) == ServeRead(c) \/ ServeWrite(c) \/ ServeNoWrite(c) \/ Refuse(c) \/ Resend(c)

Finished == (\A c \in Clients : pc[c] = "idle" /\ calls[c] = MaxCalls[c]) /\ UNCHANGED vars

Next == \/ \E c \in Clients : Client(c) \/ Server(c)
        \/ \E r \in abandoned : ServeAbandoned(r)
        \/ Finished

Spec == Init /\ [][Next]_vars

-----------------------------------------------------------------------------
(* Properties. *)

Calls  == UNION {Arguments(op) : op \in Ops}

\* The variables have their types; nothing is on its way to an idle client, and only
\* writes go on without a caller.
TypeOK ==
  /\ documents \in [Ids -> Values \cup {Null}]
  /\ abandoned \subseteq [call : {x \in Calls : x.op \in Writes}, tag : Clients \X Nat]
  /\ pc \in [Clients -> {"idle", "sent"}] /\ calls \in [Clients -> Nat]
  /\ call \in [Clients -> Calls \cup {NoCall}]
  /\ reply \in [Clients -> [status : Nat, id : Ids \cup {Null}, value : Values \cup {Null}]]
  /\ outcome \in [Clients -> {"none", "yes", "no", "returned", "threw", "no answer"}]
  /\ result \in [Clients -> Values \cup Ids \cup {Null}]
  /\ \A c \in Clients : result[c] # Null =>
       IF call[c].op = "read" THEN result[c] \in Values ELSE result[c] \in Ids
  /\ seen \in [Clients -> SUBSET (Values \cup {Null})]
  /\ written \in [Clients -> Seq(Ids)]
  /\ resent \in [Clients -> BOOLEAN] /\ refused \in [Clients -> BOOLEAN]
  /\ \A c \in Clients : pc[c] = "idle" => reply[c] = NoReply

Ended(c, ops, how) == pc[c] = "idle" /\ call[c].op \in ops /\ outcome[c] = how

\* readDocument returns what the document was at some moment of the call, never the
\* body of an error; existsDocument says yes only of a document that was there.
ReadWasTrue ==
  \A c \in Clients :
    /\ Ended(c, {"read"}, "returned") => result[c] \in seen[c] \ {Null}
    /\ Ended(c, {"exists"}, "yes") => seen[c] # {Null}

\* createDocument and updateDocument return the id of a document that this call has
\* written, and createDocument one of the collection it was asked to write to.
ReturnedIdWasWritten ==
  \A c \in Clients :
    /\ Ended(c, {"create", "update"}, "returned") => result[c] \in Range(written[c])
    /\ Ended(c, {"create"}, "returned") => result[c][1] = call[c].coll

\* A call writes once at most unless libcurl repeats its request, and not at all if it
\* throws over a reply: the caller may then try again without doing it twice.
ThrowMeansNoWrite ==
  \A c \in Clients :
    ~resent[c] =>
      /\ Len(written[c]) <= 1
      /\ outcome[c] \in {"threw", "no"} => written[c] = <<>>

\* A handle that is a key, or an id of the collection passed with it, finds its document:
\* unless the server refuses, an operation on a document that is there throughout the
\* call does not fail for want of it, whoever else writes to it.
FailsOnlyIfAbsent ==
  \A c \in Clients :
    pc[c] = "idle" /\ call[c].op \in {"read", "delete", "exists"} /\ outcome[c] \in {"threw", "no"}
        /\ ~refused[c] /\ OwnHandle(call[c].coll, call[c].handle)
      => Null \in seen[c]

\* The document updateDocument and deleteDocument write is the one the handle names.
WritesWhatHandleNames ==
  \A c \in Clients :
    call[c].op \in {"update", "delete"} => Range(written[c]) \subseteq {Named(call[c])}

\* What the test of deleteDocument expects (tst_collection_api.h:172): with the name of
\* another collection than the document's it throws.
OtherCollectionThrows ==
  \A c \in Clients :
    Ended(c, {"delete"}, "returned") /\ Len(call[c].handle) = 2
      => call[c].handle[1] = call[c].coll
=============================================================================
