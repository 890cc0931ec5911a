------------------------------- MODULE Cursor -------------------------------
(***************************************************************************)
(* selectQuery and selectAll: post a query, extract the records of the     *)
(* first batch, and fetch the batches that are left from the server's      *)
(* cursor, one PUT each.  The records go to the caller's callback.         *)
(* lookupByKeys gets all its records with the first reply.                 *)
(*                                                                         *)
(* The server answers a query from the collection as it is at that moment  *)
(* and keeps what does not fit the batch in a cursor.  It drops a cursor   *)
(* with its last batch, at its TTL, or when it restarts.  Meanwhile other  *)
(* clients write to the collection.  libcurl repeats a request whose kept  *)
(* connection turns out to be closed (Transport, Resend); the server may   *)
(* have executed it by then.                                               *)
(*                                                                         *)
(* sendREQUEST is one request here: it ends in a reply, or it throws       *)
(* because there was none.  Transport is the model of what it does.        *)
(***************************************************************************)
EXTENDS Naturals, Sequences, FiniteSets

CONSTANTS Docs,       \* documents, as numbers in the order the server lists them
          Volatile,   \* bound: the documents other clients write
          Keys,       \* the documents lookupByKeys asks for
          BatchSize,  \* batch_size
          MaxCalls,   \* bound: calls the client makes
          MaxCursors  \* bound: cursors the server opens

ASSUME CursorAssumption ==
  /\ Docs \subseteq Nat /\ IsFiniteSet(Docs)
  /\ Volatile \subseteq Docs /\ Keys \subseteq Docs
  /\ BatchSize \in Nat \ {0}
  /\ MaxCalls \in Nat
  /\ MaxCursors \in Nat

VARIABLES
  documents, \* the collection
  cursors,   \* cursor id -> documents it still holds; <<>>: not open
  opened,    \* cursors opened so far
  pc,        \* where the client is
  calls,     \* calls made so far
  request,   \* the request being sent: a query, or the next batch of a cursor
  reply,     \* the server's answer to it, not yet received
  slice,     \* the reply the client works on
  todo,      \* records of slice not yet extracted
  delivered, \* records the callback has taken
  outcome,   \* how the latest call ended
  snapshot,  \* history: the listing that answered the query of this call
  since,     \* history: cursors opened before this call
  resent,    \* history: kinds of the requests of this call libcurl repeated
  refused    \* history: this call met a reply of status 400 or more

vars == <<documents, cursors, opened, pc, calls, request, reply, slice, todo,
          delivered, outcome, snapshot, since, resent, refused>>
serverVars == <<documents, cursors, opened, snapshot>>

Ids == 1..MaxCursors
StatusBadRequest == 400

Query       == [kind |-> "query", id |-> 0]
Lookup      == [kind |-> "lookup", id |-> 0]
Batch(id)   == [kind |-> "batch", id |-> id]
NoReply     == [status |-> 0, rows |-> <<>>, hasMore |-> FALSE, id |-> 0]
Refusal     == [status |-> StatusBadRequest, rows |-> <<>>, hasMore |-> FALSE, id |-> 0]
Ok(rows, hasMore, id) == [status |-> 200, rows |-> rows, hasMore |-> hasMore, id |-> id]

Min2(a, b) == IF a <= b THEN a ELSE b
FirstRows(s) == SubSeq(s, 1, Min2(BatchSize, Len(s)))
OtherRows(s) == SubSeq(s, Min2(BatchSize, Len(s)) + 1, Len(s))

Ordered(s)  == \A i, j \in DOMAIN s : i < j => s[i] < s[j]
Listings(S) == {s \in [1..Cardinality(S) -> S] : Ordered(s)}

Init ==
  /\ documents \in {Docs \ V : V \in SUBSET Volatile}
  /\ cursors = [i \in Ids |-> <<>>] /\ opened = 0
  /\ pc = "idle" /\ calls = 0
  /\ request = Query /\ reply = NoReply
  /\ slice = NoReply /\ todo = <<>> /\ delivered = <<>>
  /\ outcome = "none"
  /\ snapshot = <<>> /\ since = 0 /\ resent = {} /\ refused = FALSE

-----------------------------------------------------------------------------
(* The client. *)

\* A reply of an earlier call is dropped with the unique_ptr that held it.
StartCall ==
  /\ calls < MaxCalls
  /\ calls' = calls + 1
  /\ slice' = NoReply /\ delivered' = <<>>
  /\ snapshot' = <<>> /\ since' = opened /\ resent' = {} /\ refused' = FALSE

\* selectQuery with a query of a known type, selectAll, lookupByKeys.
Select(first) ==
  /\ pc = "idle" /\ StartCall
  /\ pc' = "sent" /\ request' = first /\ reply' = NoReply /\ outcome' = "none"
  /\ UNCHANGED <<documents, cursors, opened, todo>>

\* The default branch of selectQuery's switch, and the templates, bind
\* variables and options that do not parse: nothing is sent.
IllegalQuery ==
  /\ pc = "idle" /\ StartCall
  /\ outcome' = "threw"
  /\ UNCHANGED <<documents, cursors, opened, pc, request, reply, todo>>

\* An exception leaves selectQuery, or it returns; nothing is sent to the server.
End(how) ==
  /\ pc' = "idle" /\ outcome' = how /\ todo' = <<>>
  /\ UNCHANGED <<serverVars, calls, request, delivered, since, resent>>

\* sendREQUEST throws: "Connections error".  The server may or may not have
\* executed the request.
NoAnswer ==
  /\ pc = "sent" /\ reply' = NoReply
  /\ End("threw")
  /\ UNCHANGED <<slice, refused>>

\* Mutant: ask again instead of returning.
ReceiveRefusal_Retry ==
  /\ pc = "sent" /\ reply.status >= StatusBadRequest
  /\ reply' = NoReply /\ refused' = TRUE
  /\ UNCHANGED <<serverVars, pc, calls, request, slice, todo, delivered, outcome, since, resent>>

\* The reply is an error status: return, as if there were no more records.
ReceiveRefusal ==
  /\ pc = "sent" /\ reply.status >= StatusBadRequest
  /\ reply' = NoReply /\ refused' = TRUE
  /\ End("returned")
  /\ UNCHANGED slice

\* Mutant: the status is not looked at.
ReceiveRows_NoStatusCheck ==
  /\ pc = "sent" /\ reply # NoReply
  /\ pc' = "extract" /\ slice' = reply /\ todo' = reply.rows /\ reply' = NoReply
  /\ UNCHANGED <<serverVars, calls, request, delivered, outcome, since, resent, refused>>

\* Mutant: query_result is not read again from the new slice.
ReceiveRows_StaleResult ==
  /\ pc = "sent" /\ reply # NoReply /\ reply.status < StatusBadRequest
  /\ pc' = "extract" /\ slice' = reply /\ reply' = NoReply
  /\ todo' = IF slice = NoReply THEN reply.rows ELSE slice.rows
  /\ UNCHANGED <<serverVars, calls, request, delivered, outcome, since, resent, refused>>

ReceiveRows ==
  /\ pc = "sent" /\ reply # NoReply /\ reply.status < StatusBadRequest
  /\ pc' = "extract" /\ slice' = reply /\ todo' = reply.rows /\ reply' = NoReply
  /\ UNCHANGED <<serverVars, calls, request, delivered, outcome, since, resent, refused>>

\* extractData: one record to the callback.
Deliver ==
  /\ pc = "extract" /\ todo # <<>>
  /\ delivered' = Append(delivered, Head(todo)) /\ todo' = Tail(todo)
  /\ UNCHANGED <<serverVars, pc, calls, request, reply, slice, outcome, since, resent,
                 refused>>

CallbackThrows ==
  /\ pc = "extract" /\ todo # <<>>
  /\ End("threw")
  /\ UNCHANGED <<reply, slice, refused>>

\* Mutant: the next batch replaces records that have not been extracted yet.
More_Eager ==
  /\ pc = "extract" /\ slice.hasMore
  /\ pc' = "sent" /\ request' = Batch(slice.id) /\ reply' = NoReply
  /\ UNCHANGED <<serverVars, calls, slice, todo, delivered, outcome, since, resent,
                 refused>>

\* while( hasMore ): the next batch of the cursor the last reply names.
More ==
  /\ pc = "extract" /\ todo = <<>> /\ slice.hasMore
  /\ pc' = "sent" /\ request' = Batch(slice.id) /\ reply' = NoReply
  /\ UNCHANGED <<serverVars, calls, slice, todo, delivered, outcome, since, resent,
                 refused>>

\* Mutant: hasMore is not looked at.
Return_FirstBatch ==
  /\ pc = "extract" /\ todo = <<>>
  /\ End("returned")
  /\ UNCHANGED <<reply, slice, refused>>

Return ==
  /\ pc = "extract" /\ todo = <<>> /\ ~slice.hasMore
  /\ End("returned")
  /\ UNCHANGED <<reply, slice, refused>>

-----------------------------------------------------------------------------
(* The server and the network. *)

clientVars == <<pc, calls, request, slice, todo, delivered, outcome, since, refused>>

Waiting(kind) == pc = "sent" /\ request.kind = kind /\ reply = NoReply

\* The query is answered from the collection as it is now.
ServeQuery ==
  /\ Waiting("query")
  /\ \E s \in Listings(documents) :
       /\ snapshot' = s
       /\ IF OtherRows(s) = <<>>
          THEN /\ reply' = Ok(FirstRows(s), FALSE, 0)
               /\ UNCHANGED <<cursors, opened>>
          ELSE /\ opened < MaxCursors
               /\ opened' = opened + 1
               /\ cursors' = [cursors EXCEPT ![opened + 1] = OtherRows(s)]
               /\ reply' = Ok(FirstRows(s), TRUE, opened + 1)
  /\ UNCHANGED <<documents, resent, clientVars>>

ServeLookup ==
  /\ Waiting("lookup")
  /\ \E s \in Listings(documents \cap Keys) :
       snapshot' = s /\ reply' = Ok(s, FALSE, 0)
  /\ UNCHANGED <<documents, cursors, opened, resent, clientVars>>

ServeBatch ==
  LET id == request.id  s == cursors[id] IN
  /\ Waiting("batch") /\ s # <<>>
  /\ cursors' = [cursors EXCEPT ![id] = OtherRows(s)]
  /\ reply' = Ok(FirstRows(s), OtherRows(s) # <<>>, id)
  /\ UNCHANGED <<documents, opened, snapshot, resent, clientVars>>

\* The cursor is not there any more, the batch size is illegal, the user has lost
\* access, the collection is unknown, the server is in maintenance.
Refuse ==
  /\ pc = "sent" /\ reply = NoReply
  /\ reply' = Refusal
  /\ UNCHANGED <<serverVars, resent, clientVars>>

\* The kept connection closes before the reply comes; libcurl sends again, once.
Resend ==
  /\ pc = "sent" /\ reply # NoReply /\ request.kind \notin resent
  /\ reply' = NoReply /\ resent' = resent \cup {request.kind}
  /\ UNCHANGED <<serverVars, clientVars>>

\* A cursor reaches its TTL, or the server restarts.
Expire(id) ==
  /\ cursors[id] # <<>>
  /\ cursors' = [cursors EXCEPT ![id] = <<>>]
  /\ UNCHANGED <<documents, opened, snapshot, reply, resent, clientVars>>

\* Other clients insert and remove documents.
Write(d) ==
  /\ documents' = IF d \in documents THEN documents \ {d} ELSE documents \cup {d}
  /\ UNCHANGED <<cursors, opened, snapshot, reply, resent, clientVars>>

-----------------------------------------------------------------------------

Client == \/ Select(Query) \/ Select(Lookup) \/ IllegalQuery \/ NoAnswer \/ ReceiveRefusal \/ ReceiveRows
          \/ Deliver \/ CallbackThrows \/ More \/ Return
Server == \/ ServeQuery \/ ServeLookup \/ ServeBatch \/ Refuse \/ Resend
          \/ \E id \in Ids : Expire(id)
          \/ \E d \in Volatile : Write(d)

Finished == pc = "idle" /\ calls = MaxCalls /\ UNCHANGED vars

Next == Client \/ Server \/ Finished

Spec == Init /\ [][Next]_vars

\* The client's thread runs while it has something to do.  Nothing is assumed of
\* the server: sendRequest sets no timeout.
FairSpec == Spec /\ WF_vars(ReceiveRefusal \/ ReceiveRows \/ Deliver \/ More \/ Return)

-----------------------------------------------------------------------------
(* Properties. *)

Reply == [status : Nat, rows : Seq(Docs), hasMore : BOOLEAN, id : Nat]

\* The variables have their types; a reply being worked on is a good one, and one
\* that promises more names a cursor.
TypeOK ==
  /\ documents \subseteq Docs
  /\ cursors \in [Ids -> Seq(Docs)] /\ opened \in 0..MaxCursors
  /\ pc \in {"idle", "sent", "extract"} /\ calls \in 0..MaxCalls
  /\ request \in {Query, Lookup} \cup {Batch(id) : id \in Ids}
  /\ reply \in Reply /\ slice \in Reply
  /\ pc = "extract" => slice.status = 200
  /\ \A r \in {reply, slice} : r.hasMore => r.id \in 1..opened
  /\ todo \in Seq(Docs) /\ delivered \in Seq(Docs)
  /\ outcome \in {"none", "returned", "threw"}
  /\ snapshot \in Seq(Docs) /\ since \in 0..opened /\ resent \subseteq {"query", "lookup", "batch"} /\ refused \in BOOLEAN

IsPrefixOf(s, t) == Len(s) <= Len(t) /\ s = SubSeq(t, 1, Len(s))

\* No record is delivered twice or out of the server's order, whatever the network
\* and the other clients do between two batches (selectQuery's while loop).
DeliveredInOrder == Ordered(delivered)

\* What the callback has taken is a prefix of one state of the collection, the one
\* that answered the query, although the collection changes during the call;
\* except after libcurl has repeated the request for a batch.
DeliveredFromSnapshot == "batch" \notin resent => IsPrefixOf(delivered, snapshot)

\* A call that returns has delivered every record of that state, unless the server
\* refused a request or libcurl repeated the request for a batch.
ReturnIsComplete ==
  outcome = "returned" /\ ~refused /\ "batch" \notin resent => delivered = snapshot

\* Between calls a cursor is open at the server only on account of a call that
\* threw, was refused a batch or had a request repeated ("need close cursor???").
CleanReturnLeavesNoCursor ==
  outcome = "returned" /\ ~refused /\ resent = {} =>
    \A id \in Ids : cursors[id] # <<>> => id <= since

\* As long as every request is answered in some way, every call ends.
AnsweredCallsEnd ==
  LET Unanswered == pc = "sent" /\ reply = NoReply IN
  (Unanswered ~> ~Unanswered) => (pc # "idle" ~> pc = "idle")

\* What arangocollection.h promises of selectQuery and selectAll: the function is
\* executed for all the records of the query's result, if the call returns at all
\* (calls with a repeated request aside).
SelectsAllRecords == outcome = "returned" /\ resent = {} => delivered = snapshot
=============================================================================
