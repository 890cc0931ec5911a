--------------------------- MODULE DocumentsProofs ---------------------------
(***************************************************************************)
(* Proofs about Documents: for any clients, collections, keys and handles, *)
(* what a call returns or throws says the truth about the document it      *)
(* names and about what the call has written, whatever other calls and     *)
(* requests without a caller do meanwhile.                                 *)
(***************************************************************************)
EXTENDS Documents, SequenceTheorems, TLAPS

\* The handle is a key, or an id of the collection passed with it.
Own(x) == OwnHandle(x.coll, x.handle)

\* A call under way has seen its document as it is.
SeenInv(c) ==
  pc[c] = "sent" =>
    /\ call[c] \in Calls /\ outcome[c] = "none" /\ result[c] = Null
    /\ Named(call[c]) \in Ids => documents[Named(call[c])] \in seen[c]

\* What a call has written are documents it may write; reading calls write nothing.
WrittenInv(c) ==
  /\ call[c].op \notin Writes => written[c] = <<>>
  /\ call[c].op = "create" => \A id \in Range(written[c]) : id[1] = call[c].coll
  /\ call[c].op \in {"update", "delete"} => Range(written[c]) \subseteq {Named(call[c])}
  /\ ~resent[c] => Len(written[c]) <= 1

\* A reply tells of the document at some moment of the call, and of what the call has done.
ReplyInv(c) ==
  pc[c] = "sent" =>
    /\ reply[c].status \in {0, StatusOK, StatusAccepted, StatusNotFound, StatusConflict, Unavailable}
    /\ reply[c].status = 0 => reply[c] = NoReply
    /\ reply[c].status = StatusOK =>
         call[c].op \notin Writes /\ reply[c].value \in seen[c] \ {Null}
    /\ reply[c].status = StatusAccepted =>
         call[c].op \in Writes /\ reply[c].id \in Range(written[c])
    /\ reply[c].status = StatusNotFound /\ Own(call[c]) => Null \in seen[c]
    /\ reply[c].status = StatusConflict => call[c].op = "create"
    /\ reply[c].status = Unavailable => refused[c]
    /\ reply[c].status # StatusAccepted /\ ~resent[c] => written[c] = <<>>

\* What the properties say of one client when its call has ended.
EndInv(c) ==
  /\ Ended(c, {"read"}, "returned") => result[c] \in seen[c] \ {Null}
  /\ Ended(c, {"exists"}, "yes") => \E value \in seen[c] : value # Null
  /\ Ended(c, {"create", "update"}, "returned") => result[c] \in Range(written[c])
  /\ outcome[c] \in {"threw", "no"} /\ ~resent[c] => written[c] = <<>>
  /\ /\ pc[c] = "idle" /\ call[c].op \in {"read", "delete", "exists"}
     /\ outcome[c] \in {"threw", "no"} /\ ~refused[c] /\ Own(call[c])
     => Null \in seen[c]

ClientInv(c) == SeenInv(c) /\ WrittenInv(c) /\ ReplyInv(c) /\ EndInv(c)

IInv == TypeOK /\ \A c \in Clients : ClientInv(c)

\* Requests that go on without a caller.
Requests == [call : {x \in Calls : x.op \in Writes}, tag : Clients \X Nat]

\* The statuses the client tells apart.
LEMMA Statuses ==
  /\ StatusOK \in Nat /\ StatusAccepted \in Nat /\ StatusNotFound \in Nat /\ StatusConflict \in Nat
  /\ Unavailable \in Nat /\ 0 \in Nat
  /\ StatusOK \notin {0, StatusAccepted, StatusNotFound, StatusConflict, Unavailable}
  /\ StatusAccepted \notin {0, StatusNotFound, StatusConflict, Unavailable}
  /\ StatusNotFound \notin {0, StatusConflict, Unavailable}
  /\ StatusConflict \notin {0, Unavailable} /\ Unavailable # 0
  /\ Written(StatusAccepted) /\ ~Written(StatusNotFound) /\ ~Written(StatusConflict)
  /\ ~Written(Unavailable)
BY DEF StatusOK, StatusAccepted, StatusNotFound, StatusConflict, Unavailable, Written,
       StatusBadRequest

\* What a reply without a document says.
LEMMA Failures ==
  \A status \in Nat :
    /\ Failure(status) \in [status : Nat, id : Ids \cup {Null}, value : Values \cup {Null}]
    /\ Failure(status).status = status
BY DEF Failure

\* What a call is made of.
LEMMA CallOf ==
  ASSUME NEW x \in Calls
  PROVE  /\ x.op \in Ops /\ x.coll \in Collections
         /\ x.op = "create" => x.handle = Null \/ (x.handle # Null /\ \E k \in Keys : x.handle = <<k>>)
         /\ x.op # "create" => /\ x.handle # Null
                               /\ \/ \E k \in Keys : x.handle = <<k>>
                                  \/ \E coll \in Collections, k \in Keys : x.handle = <<coll, k>>
<1>1. PICK op \in Ops : x \in Arguments(op)
  BY DEF Calls
<1>2. /\ x.op = op /\ x.coll \in Collections
      /\ x.handle \in IF op = "create" THEN {h \in Handles : Len(h) = 1} \cup {Null} ELSE Handles
  BY <1>1 DEF Arguments
<1>3. ASSUME NEW h \in Handles
      PROVE  /\ h # Null
             /\ \/ \E k \in Keys : h = <<k>>
                \/ \E coll \in Collections, k \in Keys : h = <<coll, k>>
  BY DocumentsAssumption DEF Ids
<1>4. ASSUME NEW h \in Handles, Len(h) = 1 PROVE \E k \in Keys : h = <<k>>
  <2>1. ASSUME NEW coll \in Collections, NEW k \in Keys, h = <<coll, k>> PROVE FALSE
    <3>1. Len(<<coll, k>>) = 2
      OBVIOUS
    <3> QED
      BY <1>4, <2>1, <3>1
  <2> QED
    BY <1>3, <2>1
<1>5. CASE op = "create"
  BY <1>2, <1>3, <1>4, <1>5
<1>6. CASE op # "create"
  BY <1>2, <1>3, <1>6
<1> QED
  BY <1>1, <1>2, <1>5, <1>6

\* The parts of a document's id.
LEMMA IdOf ==
  ASSUME NEW coll \in Collections, NEW k \in Keys
  PROVE  /\ <<coll, k>> \in Ids /\ <<coll, k>>[1] = coll /\ Len(<<coll, k>>) = 2
         /\ Len(<<k>>) = 1 /\ <<k>>[1] = k
         /\ \A id \in Ids : Len(id) = 2
BY DEF Ids

\* A collection's name is a suffix of itself.
LEMMA SuffixOfItself == \A s \in Seq(STRING) : IsSuffix(s, s)
<1> TAKE s \in Seq(STRING)
<1>1. Len(Reverse(s)) \in Nat
  BY DEF Reverse
<1> QED
  BY <1>1 DEF IsSuffix, IsPrefix

\* getId makes the id the handle names, or one of no document; the first if the handle is a key or
\* an id of the collection passed.
LEMMA HandleNames ==
  ASSUME NEW x \in Calls
  PROVE  /\ x.op = "create" => Target(x) = Named(x) /\ Named(x) \in Ids \cup {Null}
         /\ x.op # "create" => /\ Named(x) \in Ids
                               /\ Target(x) = Named(x) \/ Target(x) \notin Ids
                               /\ Own(x) => Target(x) = Named(x)
<1>1. CASE x.op = "create"
  <2>1. CASE x.handle = Null
    BY <1>1, <2>1 DEF Target, Named, NamedBy
  <2>2. CASE x.handle # Null
    <3>1. PICK k \in Keys : x.handle = <<k>>
      BY <1>1, <2>2, CallOf
    <3>2. x.coll \in Collections /\ x.handle[1] = k
      BY <3>1, CallOf
    <3>3. <<x.coll, k>> \in Ids
      BY <3>2, IdOf
    <3> QED
      BY <1>1, <2>2, <3>2, <3>3 DEF Target, Named, NamedBy
  <2> QED
    BY <2>1, <2>2
<1>2. CASE x.op # "create"
  <2>1. x.handle # Null /\ x.coll \in Collections
    BY <1>2, CallOf
  <2>2. ASSUME NEW k \in Keys, x.handle = <<k>>
        PROVE  Named(x) \in Ids /\ Target(x) = Named(x)
    <3>1. Len(x.handle) = 1 /\ x.handle[1] = k
      BY <2>2
    <3>2. ~(\E i \in 1 .. Len(x.handle) - 1 : IsSuffix(x.coll, x.handle[i]))
      BY <3>1
    <3>3. Target(x) = <<x.coll>> \o <<k>>
      BY <1>2, <2>2, <3>2 DEF Target, getId
    <3>4. <<x.coll>> \o <<k>> = <<x.coll, k>>
      <4> DEFINE S == {x.coll, k}
                 p == <<x.coll>>
                 q == <<k>>
                 r == <<x.coll, k>>
      <4>1. /\ p \in Seq(S) /\ q \in Seq(S) /\ r \in Seq(S)
            /\ Len(p) = 1 /\ Len(q) = 1 /\ Len(r) = 2
            /\ p[1] = x.coll /\ q[1] = k /\ r[1] = x.coll /\ r[2] = k
        OBVIOUS
      <4> HIDE DEF S, p, q, r
      <4>2. /\ p \o q \in Seq(S) /\ Len(p \o q) = 2
            /\ \A i \in 1 .. 2 : (p \o q)[i] = IF i <= 1 THEN p[i] ELSE q[i - 1]
        BY <4>1, ConcatProperties
      <4>3. \A i \in 1 .. 2 : (p \o q)[i] = r[i]
        BY <4>1, <4>2
      <4>4. p \o q = r
        BY <4>1, <4>2, <4>3, SeqEqual
      <4> QED
        BY <4>4 DEF p, q, r
    <3>5. Named(x) = <<x.coll, k>>
      BY <1>2, <2>1, <3>1 DEF Named, NamedBy
    <3> QED
      BY <2>1, <3>3, <3>4, <3>5, IdOf
  <2>3. ASSUME NEW coll \in Collections, NEW k \in Keys, x.handle = <<coll, k>>
        PROVE  /\ Named(x) \in Ids
               /\ Target(x) = Named(x) \/ Target(x) \notin Ids
               /\ Own(x) => Target(x) = Named(x)
    <3>1. Len(x.handle) = 2 /\ x.handle[1] = coll
      BY <2>3
    <3>2. Named(x) = x.handle /\ Named(x) \in Ids
      BY <1>2, <2>3, <3>1, IdOf DEF Named, NamedBy
    <3>3. Target(x) = x.handle \/ Target(x) = <<x.coll>> \o <<coll, k>>
      BY <1>2, <2>3 DEF Target, getId
    <3>4. Len(<<x.coll>> \o <<coll, k>>) = 3
      OBVIOUS
    <3>5. <<x.coll>> \o <<coll, k>> \notin Ids
      <4> DEFINE t == <<x.coll>> \o <<coll, k>>
      <4>1. Len(t) = 3
        BY <3>4
      <4>2. \A id \in Ids : Len(id) = 2
        BY IdOf
      <4> HIDE DEF t
      <4>3. t \notin Ids
        BY <4>1, <4>2
      <4> QED
        BY <4>3 DEF t
    <3>6. Own(x) => Target(x) = x.handle
      <4>1. SUFFICES ASSUME coll = x.coll PROVE Target(x) = x.handle
        BY <3>1 DEF Own, OwnHandle
      <4>2. IsSuffix(x.coll, x.handle[1])
        BY <2>1, <3>1, <4>1, DocumentsAssumption, SuffixOfItself
      <4>3. 1 \in 1 .. Len(x.handle) - 1
        BY <3>1
      <4> QED
        BY <1>2, <4>2, <4>3 DEF Target, getId
    <3> QED
      BY <3>2, <3>3, <3>5, <3>6
  <2> QED
    BY <1>2, <2>2, <2>3, CallOf
<1> QED
  BY <1>1, <1>2

\* Where a write may go.
LEMMA WritableIs ==
  ASSUME NEW x \in Calls, x.op \in Writes
  PROVE  /\ Writable(x) \subseteq Ids
         /\ x.op = "create" => \A id \in Writable(x) : id[1] = x.coll
         /\ x.op # "create" => Writable(x) \subseteq {Named(x)}
         /\ x.op # "create" /\ Own(x) /\ Writable(x) = {} => documents[Named(x)] = Null
<1>1. CASE x.op = "create"
  BY <1>1 DEF Writable
<1>2. CASE x.op # "create"
  <2>1. Writable(x) = {id \in {Target(x)} : There(id)}
    BY <1>2 DEF Writable
  <2>2. /\ Named(x) \in Ids
        /\ Target(x) = Named(x) \/ Target(x) \notin Ids
        /\ Own(x) => Target(x) = Named(x)
    BY <1>2, HandleNames
  <2> QED
    BY <1>2, <2>1, <2>2 DEF There
<1> QED
  BY <1>1, <1>2

\* Writing once more adds a document to those written.
LEMMA RangeAppend ==
  \A s \in Seq(Ids), id \in Ids :
    /\ Append(s, id) \in Seq(Ids) /\ Range(Append(s, id)) = Range(s) \cup {id}
    /\ Len(Append(s, id)) = Len(s) + 1 /\ Len(s) \in Nat
    /\ s = <<>> <=> Len(s) = 0
<1> TAKE s \in Seq(Ids), id \in Ids
<1>1. Append(s, id) \in Seq(Ids) /\ Len(Append(s, id)) = Len(s) + 1 /\ Len(s) \in Nat
  BY AppendProperties
<1>2. Range(Append(s, id)) = Range(s) \cup {id}
  BY AppendProperties DEF Range
<1>3. s = <<>> <=> Len(s) = 0
  BY EmptySeq
<1> QED
  BY <1>1, <1>2, <1>3

\* The types of what a client has; TypeOK says so of each.
LEMMA TypesOf ==
  ASSUME TypeOK, NEW c \in Clients
  PROVE  /\ pc[c] \in {"idle", "sent"} /\ calls[c] \in Nat /\ call[c] \in Calls \cup {NoCall}
         /\ reply[c] \in [status : Nat, id : Ids \cup {Null}, value : Values \cup {Null}]
         /\ seen[c] \subseteq Values \cup {Null} /\ written[c] \in Seq(Ids)
         /\ resent[c] \in BOOLEAN /\ refused[c] \in BOOLEAN
         /\ pc[c] = "idle" => reply[c] = NoReply
BY DEF TypeOK

\* What a step of another client leaves of a client: its variables, and what it has seen.
Kept(d) ==
  /\ pc'[d] = pc[d] /\ call'[d] = call[d] /\ reply'[d] = reply[d] /\ outcome'[d] = outcome[d]
  /\ result'[d] = result[d] /\ written'[d] = written[d]
  /\ resent'[d] = resent[d] /\ refused'[d] = refused[d]
  /\ seen[d] \subseteq seen'[d]
  /\ pc[d] = "sent" /\ Named(call[d]) \in Ids => documents'[Named(call[d])] \in seen'[d]

\* The invariant of a client speaks of moments there have been: more of them do no harm.
LEMMA InvKept == ASSUME NEW d \in Clients, ClientInv(d), Kept(d) PROVE ClientInv(d)'
<1>1. Own(call[d])' = Own(call[d]) /\ Named(call[d])' = Named(call[d])
  BY DEF Kept, Own, OwnHandle, Named, NamedBy
<1>2. SeenInv(d)'
  BY <1>1 DEF ClientInv, SeenInv, Kept
<1>3. WrittenInv(d)'
  BY <1>1 DEF ClientInv, WrittenInv, Kept
<1>4. ReplyInv(d)'
  BY <1>1 DEF ClientInv, ReplyInv, Kept
<1>5. EndInv(d)'
  BY <1>1 DEF ClientInv, EndInv, Ended, Kept
<1> QED
  BY <1>2, <1>3, <1>4, <1>5 DEF ClientInv

\* A step of one client leaves the invariant if it does so for the client and disturbs no other.
LEMMA InvLocal ==
  ASSUME IInv, NEW c \in Clients, TypeOK', ClientInv(c)', \A d \in Clients \ {c} : Kept(d)
  PROVE  IInv'
<1>1. ASSUME NEW d \in Clients PROVE ClientInv(d)'
  BY InvKept DEF IInv
<1> QED
  BY <1>1 DEF IInv

\* The invariant holds before the first call.
LEMMA InvInit == Init => IInv
<1> SUFFICES ASSUME Init PROVE IInv
  OBVIOUS
<1>1. documents \in [Ids -> Values \cup {Null}]
  BY DEF Init, Values
<1>2. NoReply \in [status : Nat, id : Ids \cup {Null}, value : Values \cup {Null}]
  BY Failures DEF NoReply
<1>3. TypeOK
  BY <1>1, <1>2 DEF Init, TypeOK
<1>4. ASSUME NEW c \in Clients PROVE ClientInv(c)
  <2>1. /\ pc[c] = "idle" /\ outcome[c] = "none" /\ call[c].op = "none" /\ written[c] = <<>>
    BY DEF Init, NoCall
  <2>2. Len(<<>>) = 0
    OBVIOUS
  <2> QED
    BY <2>1, <2>2 DEF ClientInv, SeenInv, WrittenInv, ReplyInv, EndInv, Ended, Writes
<1> QED
  BY <1>3, <1>4 DEF IInv

\* The end of a call says the truth about its document and about what it has written.
WellEnded(c, how, value) ==
  /\ how \in {"yes", "no", "returned", "threw", "no answer"}
  /\ value # Null => IF call[c].op = "read" THEN value \in Values ELSE value \in Ids
  /\ call[c].op = "read" /\ how = "returned" => value \in seen[c] \ {Null}
  /\ call[c].op = "exists" /\ how = "yes" => \E v \in seen[c] : v # Null
  /\ call[c].op \in {"create", "update"} /\ how = "returned" => value \in Range(written[c])
  /\ how \in {"threw", "no"} /\ ~resent[c] => written[c] = <<>>
  /\ call[c].op \in {"read", "delete", "exists"} /\ how \in {"threw", "no"} /\ ~refused[c]
       /\ Own(call[c]) => Null \in seen[c]

\* A call that ends well leaves the invariant.
LEMMA InvEnd ==
  ASSUME IInv, NEW c \in Clients, NEW how, NEW value, End(c, how, value), WellEnded(c, how, value),
         abandoned' \subseteq Requests
  PROVE  IInv'
<1>1. /\ pc' = [pc EXCEPT ![c] = "idle"] /\ outcome' = [outcome EXCEPT ![c] = how]
      /\ result' = [result EXCEPT ![c] = value] /\ reply' = [reply EXCEPT ![c] = NoReply]
      /\ UNCHANGED <<documents, seen, written, refused, calls, call, resent>>
  BY DEF End, callVars
<1>2. TypeOK
  BY DEF IInv
<1>3. TypeOK'
  <2>1. NoReply \in [status : Nat, id : Ids \cup {Null}, value : Values \cup {Null}]
    BY Failures DEF NoReply
  <2>2. /\ pc' \in [Clients -> {"idle", "sent"}]
        /\ outcome' \in [Clients -> {"none", "yes", "no", "returned", "threw", "no answer"}]
    BY <1>1, <1>2 DEF TypeOK, WellEnded
  <2>3. reply' \in [Clients -> [status : Nat, id : Ids \cup {Null}, value : Values \cup {Null}]]
    BY <1>1, <1>2, <2>1 DEF TypeOK
  <2>4. ASSUME NEW d \in Clients
        PROVE  result'[d] # Null => IF call'[d].op = "read" THEN result'[d] \in Values
                                    ELSE result'[d] \in Ids
    <3>1. CASE d = c
      BY <1>1, <1>2, <3>1 DEF TypeOK, WellEnded
    <3>2. CASE d # c
      BY <1>1, <1>2, <3>2 DEF TypeOK
    <3> QED
      BY <3>1, <3>2
  <2>6. result' \in [Clients -> Values \cup Ids \cup {Null}]
    <3>1. value \in Values \cup Ids \cup {Null}
      BY DEF WellEnded
    <3> QED
      BY <1>1, <1>2, <3>1 DEF TypeOK
  <2>5. ASSUME NEW d \in Clients PROVE pc'[d] = "idle" => reply'[d] = NoReply
    BY <1>1, <1>2 DEF TypeOK
  <2> QED
    BY <1>1, <1>2, <2>2, <2>3, <2>4, <2>5, <2>6 DEF TypeOK, Requests
<1>4. ASSUME NEW d \in Clients \ {c} PROVE Kept(d)
  BY <1>1, <1>2 DEF Kept, TypeOK, IInv, ClientInv, SeenInv
<1>5. /\ pc'[c] = "idle" /\ outcome'[c] = how /\ result'[c] = value
      /\ Own(call[c])' = Own(call[c]) /\ Named(call[c])' = Named(call[c])
  BY <1>1, <1>2 DEF TypeOK, Own, OwnHandle, Named, NamedBy
<1>6. ClientInv(c)'
  <2>1. WrittenInv(c)
    BY DEF IInv, ClientInv
  <2>2. WrittenInv(c)'
    BY <1>1, <1>5, <2>1 DEF WrittenInv
  <2>3. EndInv(c)'
    BY <1>1, <1>5 DEF WellEnded, EndInv, Ended
  <2> QED
    BY <1>5, <2>2, <2>3 DEF ClientInv, SeenInv, ReplyInv
<1> QED
  BY <1>3, <1>4, <1>6, InvLocal

\* A call begins in the state of the document it has seen first.
LEMMA InvStart ==
  ASSUME IInv, NEW c \in Clients, NEW op \in Ops, NEW x \in Arguments(op),
         Send(c, x) \/ IllegalRecord(c, x)
  PROVE  IInv'
<1> DEFINE first == IF Named(x) = Null THEN {} ELSE {documents[Named(x)]}
<1>1. /\ calls' = [calls EXCEPT ![c] = @ + 1] /\ call' = [call EXCEPT ![c] = x]
      /\ result' = [result EXCEPT ![c] = Null] /\ seen' = [seen EXCEPT ![c] = first]
      /\ written' = [written EXCEPT ![c] = <<>>]
      /\ resent' = [resent EXCEPT ![c] = FALSE] /\ refused' = [refused EXCEPT ![c] = FALSE]
      /\ UNCHANGED <<documents, abandoned, reply>> /\ pc[c] = "idle"
  BY DEF Send, IllegalRecord, Start
<1>2. \/ /\ pc' = [pc EXCEPT ![c] = "sent"] /\ outcome' = [outcome EXCEPT ![c] = "none"]
      \/ /\ pc' = pc /\ outcome' = [outcome EXCEPT ![c] = "threw"]
         /\ x.op \in {"create", "update"}
  BY DEF Send, IllegalRecord
<1>3. TypeOK /\ reply[c] = NoReply
  BY <1>1 DEF IInv, TypeOK
<1>4. x \in Calls
  BY DEF Calls
<1>5. Named(x) \in Ids \cup {Null}
  BY <1>4, HandleNames
<1>6. first \subseteq Values \cup {Null} /\ (Named(x) \in Ids => documents[Named(x)] \in first)
  <2>1. Null \notin Ids
    BY DocumentsAssumption
  <2>2. \A id \in Ids : documents[id] \in Values \cup {Null}
    BY <1>3 DEF TypeOK
  <2> QED
    BY <1>5, <2>1, <2>2
<1> HIDE DEF first
<1>7. TypeOK'
  <2>1. calls' \in [Clients -> Nat]
    <3>1. calls[c] \in Nat
      BY <1>3 DEF TypeOK
    <3>2. calls[c] + 1 \in Nat
      BY <3>1
    <3> QED
      BY <1>1, <1>3, <3>2 DEF TypeOK
  <2>2. pc' \in [Clients -> {"idle", "sent"}] /\ call' \in [Clients -> Calls \cup {NoCall}]
    BY <1>1, <1>2, <1>3, <1>4 DEF TypeOK
  <2>3. /\ outcome' \in [Clients -> {"none", "yes", "no", "returned", "threw", "no answer"}]
        /\ result' \in [Clients -> Values \cup Ids \cup {Null}]
    BY <1>1, <1>2, <1>3 DEF TypeOK
  <2>4. seen' \in [Clients -> SUBSET (Values \cup {Null})]
    BY <1>1, <1>3, <1>6 DEF TypeOK
  <2>5. /\ written' \in [Clients -> Seq(Ids)]
        /\ resent' \in [Clients -> BOOLEAN] /\ refused' \in [Clients -> BOOLEAN]
    <3>1. <<>> \in Seq(Ids)
      OBVIOUS
    <3> QED
      BY <1>1, <1>3, <3>1 DEF TypeOK
  <2>6. ASSUME NEW d \in Clients
        PROVE  /\ result'[d] # Null => IF call'[d].op = "read" THEN result'[d] \in Values
                                       ELSE result'[d] \in Ids
               /\ pc'[d] = "idle" => reply'[d] = NoReply
    <3>1. CASE d = c
      BY <1>1, <1>3, <3>1 DEF TypeOK
    <3>2. CASE d # c
      BY <1>1, <1>2, <1>3, <3>2 DEF TypeOK
    <3> QED
      BY <3>1, <3>2
  <2> QED
    BY <1>1, <1>3, <2>1, <2>2, <2>3, <2>4, <2>5, <2>6 DEF TypeOK
<1>8. ASSUME NEW d \in Clients \ {c} PROVE Kept(d)
  BY <1>1, <1>2, <1>3 DEF Kept, TypeOK, IInv, ClientInv, SeenInv
<1>9. /\ call'[c] = x /\ result'[c] = Null /\ seen'[c] = first /\ written'[c] = <<>>
      /\ resent'[c] = FALSE /\ reply'[c] = NoReply /\ documents' = documents
      /\ Named(call[c])' = Named(x)
      /\ \/ pc'[c] = "sent" /\ outcome'[c] = "none"
         \/ pc'[c] = "idle" /\ outcome'[c] = "threw" /\ x.op \in {"create", "update"}
  BY <1>1, <1>2, <1>3 DEF TypeOK, Named, NamedBy
<1>10. SeenInv(c)'
  BY <1>4, <1>6, <1>9 DEF SeenInv
<1>11. WrittenInv(c)'
  <2>1. Range(<<>>) = {} /\ Len(<<>>) = 0
    BY DEF Range
  <2> QED
    BY <1>9, <2>1 DEF WrittenInv
<1>12. ReplyInv(c)'
  <2>1. reply'[c].status = 0
    BY <1>9, Failures DEF NoReply
  <2> QED
    BY <1>9, <2>1, Statuses DEF ReplyInv
<1>13. EndInv(c)'
  BY <1>9 DEF EndInv, Ended
<1> QED
  BY <1>7, <1>8, <1>10, <1>11, <1>12, <1>13, InvLocal DEF ClientInv

\* Every way a call can end is a good one.
LEMMA InvEnds ==
  ASSUME IInv, NEW c \in Clients, NoAnswer(c) \/ Read(c) \/ Exists(c) \/ Wrote(c)
  PROVE  IInv'
<1>1. /\ TypeOK /\ SeenInv(c) /\ WrittenInv(c) /\ ReplyInv(c) /\ EndInv(c)
      /\ pc[c] = "sent" /\ call[c] \in Calls
  <2>1. pc[c] = "sent"
    BY DEF NoAnswer, Read, Exists, Wrote, Received
  <2> QED
    BY <2>1 DEF IInv, ClientInv, SeenInv
<1>2. /\ reply[c].value \in Values \cup {Null} /\ reply[c].id \in Ids \cup {Null}
      /\ abandoned \subseteq Requests /\ calls[c] \in Nat
      /\ Range(written[c]) \subseteq Ids /\ Null \notin Ids \cup Values
  <2>1. reply[c].value \in Values \cup {Null} /\ reply[c].id \in Ids \cup {Null}
    BY <1>1, TypesOf
  <2>2. abandoned \subseteq Requests /\ calls[c] \in Nat
    BY <1>1 DEF TypeOK, Requests
  <2>3. Range(written[c]) \subseteq Ids
    BY <1>1, TypesOf DEF Range
  <2> QED
    BY <2>1, <2>2, <2>3, DocumentsAssumption
<1>3. reply[c] # NoReply => reply[c].status # 0
  BY <1>1 DEF ReplyInv
<1>4. CASE NoAnswer(c)
  <2>1. WellEnded(c, "no answer", Null)
    BY DEF WellEnded
  <2>2. abandoned' \subseteq Requests
    <3>1. call[c].op \in Writes => [call |-> call[c], tag |-> Tag(c)] \in Requests
      BY <1>1, <1>2 DEF Requests, Tag
    <3> QED
      BY <1>2, <1>4, <3>1 DEF NoAnswer
  <2> QED
    BY <1>4, <2>1, <2>2, InvEnd DEF NoAnswer
<1>5. CASE Read(c)
  <2>1. call[c].op = "read" /\ reply[c] # NoReply /\ abandoned' = abandoned
    BY <1>5 DEF Read, Received
  <2>2. CASE reply[c].status = StatusOK
    <3>1. WellEnded(c, "returned", reply[c].value)
      BY <1>1, <1>2, <2>1, <2>2 DEF WellEnded, ReplyInv
    <3> QED
      BY <1>2, <1>5, <2>1, <2>2, <3>1, InvEnd DEF Read
  <2>3. CASE reply[c].status # StatusOK
    <3>1. reply[c].status \in {StatusNotFound, Unavailable}
      BY <1>1, <1>3, <2>1, <2>3 DEF ReplyInv, Writes
    <3>2. WellEnded(c, "threw", Null)
      BY <1>1, <2>1, <3>1, Statuses DEF WellEnded, ReplyInv
    <3> QED
      BY <1>2, <1>5, <2>1, <2>3, <3>2, InvEnd DEF Read
  <2> QED
    BY <2>2, <2>3
<1>6. CASE Exists(c)
  <2>1. call[c].op = "exists" /\ reply[c] # NoReply /\ abandoned' = abandoned
    BY <1>6 DEF Exists, Received
  <2>2. CASE reply[c].status = StatusOK
    <3>1. WellEnded(c, "yes", Null)
      BY <1>1, <2>1, <2>2 DEF WellEnded, ReplyInv
    <3> QED
      BY <1>2, <1>6, <2>1, <2>2, <3>1, InvEnd DEF Exists
  <2>3. CASE reply[c].status # StatusOK
    <3>1. reply[c].status \in {StatusNotFound, Unavailable}
      BY <1>1, <1>3, <2>1, <2>3 DEF ReplyInv, Writes
    <3>2. WellEnded(c, "no", Null)
      BY <1>1, <2>1, <3>1, Statuses DEF WellEnded, ReplyInv
    <3> QED
      BY <1>2, <1>6, <2>1, <2>3, <3>2, InvEnd DEF Exists
  <2> QED
    BY <2>2, <2>3
<1>7. CASE Wrote(c)
  <2>1. call[c].op \in Writes /\ reply[c] # NoReply /\ abandoned' = abandoned
    BY <1>7 DEF Wrote, Received
  <2>2. reply[c].status \in {StatusAccepted, StatusNotFound, StatusConflict, Unavailable}
    BY <1>1, <1>3, <2>1 DEF ReplyInv
  <2>3. CASE reply[c].status = StatusAccepted
    <3> DEFINE value == IF call[c].op = "delete" THEN Null ELSE reply[c].id
    <3>1. End(c, "returned", value)
      BY <1>7, <2>3, Statuses DEF Wrote
    <3>2. reply[c].id \in Range(written[c])
      BY <1>1, <2>3 DEF ReplyInv
    <3>3. WellEnded(c, "returned", value)
      BY <1>2, <2>1, <3>2 DEF WellEnded, Writes
    <3> HIDE DEF value
    <3> QED
      BY <1>2, <2>1, <3>1, <3>3, InvEnd
  <2>4. CASE reply[c].status # StatusAccepted
    <3>1. End(c, "threw", Null)
      BY <1>7, <2>2, <2>4, Statuses DEF Wrote
    <3>2. WellEnded(c, "threw", Null)
      BY <1>1, <2>1, <2>2, <2>4, Statuses DEF WellEnded, ReplyInv, Writes
    <3> QED
      BY <1>2, <2>1, <3>1, <3>2, InvEnd
  <2> QED
    BY <2>3, <2>4
<1> QED
  BY <1>4, <1>5, <1>6, <1>7

\* A document changes: it has its new value, and the calls about it have seen that.
LEMMA Changed ==
  ASSUME TypeOK, \A d \in Clients : SeenInv(d),
         NEW x \in Calls, NEW id \in Ids, NEW tag \in Clients \X Nat, Change(id, x, tag)
  PROVE  /\ documents' \in [Ids -> Values \cup {Null}]
         /\ seen' \in [Clients -> SUBSET (Values \cup {Null})]
         /\ \A d \in Clients :
              /\ seen[d] \subseteq seen'[d]
              /\ pc[d] = "sent" /\ Named(call[d]) \in Ids => documents'[Named(call[d])] \in seen'[d]
<1> DEFINE value == IF x.op = "delete" THEN Null ELSE tag
<1>1. value \in Values \cup {Null}
  BY DEF Values
<1>2. /\ documents' = [documents EXCEPT ![id] = value]
      /\ seen' = [d \in Clients |-> IF pc[d] = "sent" /\ Named(call[d]) = id
                                    THEN seen[d] \cup {value} ELSE seen[d]]
  BY DEF Change
<1> HIDE DEF value
<1>3. documents' \in [Ids -> Values \cup {Null}]
  BY <1>1, <1>2 DEF TypeOK
<1>4. ASSUME NEW d \in Clients
      PROVE  /\ seen[d] \subseteq seen'[d] /\ seen'[d] \in SUBSET (Values \cup {Null})
             /\ pc[d] = "sent" /\ Named(call[d]) \in Ids =>
                  documents'[Named(call[d])] \in seen'[d]
  <2>1. seen[d] \subseteq Values \cup {Null} /\ documents \in [Ids -> Values \cup {Null}]
    BY DEF TypeOK
  <2>2. pc[d] = "sent" /\ Named(call[d]) \in Ids => documents[Named(call[d])] \in seen[d]
    BY DEF SeenInv
  <2> QED
    BY <1>1, <1>2, <2>1, <2>2
<1>5. seen' \in [Clients -> SUBSET (Values \cup {Null})]
  BY <1>2, <1>4
<1> QED
  BY <1>3, <1>4, <1>5

\* A step that sets the reply of a client whose request is under way keeps the types.
LEMMA Replied ==
  ASSUME TypeOK, NEW c \in Clients, pc[c] = "sent",
         NEW r \in [status : Nat, id : Ids \cup {Null}, value : Values \cup {Null}],
         reply' = [reply EXCEPT ![c] = r],
         UNCHANGED <<abandoned, pc, calls, call, outcome, result>>,
         documents' \in [Ids -> Values \cup {Null}],
         seen' \in [Clients -> SUBSET (Values \cup {Null})],
         written' \in [Clients -> Seq(Ids)],
         resent' \in [Clients -> BOOLEAN], refused' \in [Clients -> BOOLEAN]
  PROVE  TypeOK' /\ reply'[c] = r
<1>1. reply' \in [Clients -> [status : Nat, id : Ids \cup {Null}, value : Values \cup {Null}]]
  BY DEF TypeOK
<1>2. reply'[c] = r /\ \A d \in Clients : pc'[d] = "idle" => reply'[d] = NoReply
  BY DEF TypeOK
<1> QED
  BY <1>1, <1>2 DEF TypeOK

\* A reading call is answered with the document as it is.
LEMMA InvServeRead == ASSUME IInv, NEW c \in Clients, ServeRead(c) PROVE IInv'
<1>1. TypeOK /\ SeenInv(c) /\ WrittenInv(c) /\ ReplyInv(c)
  BY DEF IInv, ClientInv
<1> DEFINE id == Target(call[c])
           r == IF There(id) THEN [status |-> StatusOK, id |-> id, value |-> documents[id]]
                ELSE Failure(StatusNotFound)
<1>2. /\ pc[c] = "sent" /\ call[c].op \in {"read", "exists"} /\ reply' = [reply EXCEPT ![c] = r]
      /\ UNCHANGED <<documents, seen, written, refused, abandoned, pc, calls, call, resent,
                     outcome, result>>
  BY DEF ServeRead, Asked, Replies, callVars, endVars
<1>3. call[c] \in Calls /\ call[c].op # "create" /\ call[c].op \notin Writes
  BY <1>1, <1>2 DEF SeenInv, Writes
<1>4. /\ Named(call[c]) \in Ids /\ documents[Named(call[c])] \in seen[c]
      /\ id = Named(call[c]) \/ id \notin Ids
      /\ Own(call[c]) => id = Named(call[c])
  BY <1>1, <1>2, <1>3, HandleNames DEF SeenInv
<1>5. /\ r \in [status : Nat, id : Ids \cup {Null}, value : Values \cup {Null}]
      /\ \/ /\ r.status = StatusOK /\ r.value \in seen[c] \ {Null}
         \/ /\ r.status = StatusNotFound /\ (Own(call[c]) => Null \in seen[c])
  <2>1. CASE There(id)
    <3>1. id \in Ids /\ documents[id] # Null /\ documents[id] \in Values
      BY <1>1, <2>1 DEF There, TypeOK
    <3>2. r = [status |-> StatusOK, id |-> id, value |-> documents[id]]
      BY <2>1
    <3> HIDE DEF r, id
    <3> QED
      BY <1>4, <3>1, <3>2, Statuses
  <2>2. CASE ~There(id)
    <3>1. r = Failure(StatusNotFound) /\ (Own(call[c]) => documents[id] = Null)
      BY <1>4, <2>2 DEF There
    <3> HIDE DEF r, id
    <3>2. StatusNotFound \in Nat
      BY Statuses
    <3> QED
      BY <1>4, <3>1, <3>2, Failures
  <2> QED
    BY <2>1, <2>2
<1> HIDE DEF r, id
<1>6. TypeOK' /\ reply'[c] = r
  <2>1. /\ documents' \in [Ids -> Values \cup {Null}]
        /\ seen' \in [Clients -> SUBSET (Values \cup {Null})] /\ written' \in [Clients -> Seq(Ids)]
        /\ resent' \in [Clients -> BOOLEAN] /\ refused' \in [Clients -> BOOLEAN]
    BY <1>1, <1>2 DEF TypeOK
  <2> QED
    BY <1>1, <1>2, <1>5, <2>1, Replied
<1>7. ASSUME NEW d \in Clients \ {c} PROVE Kept(d)
  BY <1>1, <1>2 DEF Kept, TypeOK, IInv, ClientInv, SeenInv
<1>8. ClientInv(c)'
  <2>1. SeenInv(c)' /\ WrittenInv(c)'
    BY <1>1, <1>2 DEF SeenInv, WrittenInv, Named, NamedBy
  <2>2. ReplyInv(c)'
    <3>1. Own(call[c])' = Own(call[c]) /\ written'[c] = <<>>
      BY <1>1, <1>2, <1>3 DEF Own, OwnHandle, WrittenInv
    <3> QED
      BY <1>2, <1>3, <1>5, <1>6, <3>1, Statuses DEF ReplyInv
  <2>3. EndInv(c)'
    BY <1>1, <1>2 DEF EndInv, Ended, SeenInv
  <2> QED
    BY <2>1, <2>2, <2>3 DEF ClientInv
<1> QED
  BY <1>6, <1>7, <1>8, InvLocal

\* A write is executed for its caller.
LEMMA InvServeWrite == ASSUME IInv, NEW c \in Clients, ServeWrite(c) PROVE IInv'
<1>1. TypeOK /\ SeenInv(c) /\ WrittenInv(c) /\ ReplyInv(c) /\ \A d \in Clients : SeenInv(d)
  BY DEF IInv, ClientInv
<1>2. /\ pc[c] = "sent" /\ reply[c] = NoReply /\ call[c].op \in Writes
      /\ UNCHANGED <<refused, abandoned, pc, calls, call, resent, outcome, result>>
  BY DEF ServeWrite, Asked, Replies, callVars, endVars
<1>3. PICK id \in Writable(call[c]) :
        /\ Change(id, call[c], Tag(c)) /\ written' = [written EXCEPT ![c] = Append(@, id)]
        /\ reply' = [reply EXCEPT ![c] = [status |-> StatusAccepted, id |-> id, value |-> Null]]
  BY DEF ServeWrite, Replies
<1>4. call[c] \in Calls /\ call[c].op \in Writes
  BY <1>1, <1>2 DEF SeenInv
<1>5. /\ id \in Ids
      /\ call[c].op = "create" => id[1] = call[c].coll
      /\ call[c].op # "create" => id = Named(call[c])
  BY <1>3, <1>4, WritableIs
<1>6. Tag(c) \in Clients \X Nat
  BY <1>1 DEF Tag, TypeOK
<1>7. /\ documents' \in [Ids -> Values \cup {Null}]
      /\ seen' \in [Clients -> SUBSET (Values \cup {Null})]
      /\ \A d \in Clients :
           /\ seen[d] \subseteq seen'[d]
           /\ pc[d] = "sent" /\ Named(call[d]) \in Ids => documents'[Named(call[d])] \in seen'[d]
  BY <1>1, <1>3, <1>4, <1>5, <1>6, Changed
<1>8. /\ written[c] \in Seq(Ids) /\ Append(written[c], id) \in Seq(Ids)
      /\ Range(Append(written[c], id)) = Range(written[c]) \cup {id}
      /\ Len(Append(written[c], id)) = Len(written[c]) + 1 /\ Len(written[c]) \in Nat
      /\ written[c] = <<>> <=> Len(written[c]) = 0
  BY <1>1, <1>5, RangeAppend DEF TypeOK
<1>9. /\ written' \in [Clients -> Seq(Ids)] /\ written'[c] = Append(written[c], id)
      /\ \A d \in Clients \ {c} : written'[d] = written[d]
  BY <1>1, <1>3, <1>8 DEF TypeOK
<1> DEFINE r == [status |-> StatusAccepted, id |-> id, value |-> Null]
<1>10. /\ r \in [status : Nat, id : Ids \cup {Null}, value : Values \cup {Null}]
       /\ r.status = StatusAccepted /\ r.id = id /\ reply' = [reply EXCEPT ![c] = r]
  BY <1>3, <1>5, Statuses
<1> HIDE DEF r
<1>11. TypeOK' /\ reply'[c] = r
  <2>1. resent' \in [Clients -> BOOLEAN] /\ refused' \in [Clients -> BOOLEAN]
    BY <1>1, <1>2 DEF TypeOK
  <2> QED
    BY <1>1, <1>2, <1>7, <1>9, <1>10, <2>1, Replied
<1>12. ASSUME NEW d \in Clients \ {c} PROVE Kept(d)
  BY <1>1, <1>2, <1>7, <1>9, <1>10 DEF Kept, TypeOK
<1>13. Named(call[c])' = Named(call[c]) /\ Own(call[c])' = Own(call[c])
  BY <1>2 DEF Named, NamedBy, Own, OwnHandle
<1>14. ClientInv(c)'
  <2>1. SeenInv(c)'
    BY <1>1, <1>2, <1>7, <1>13 DEF SeenInv
  <2>2. WrittenInv(c)'
    <3>1. ~resent[c] => written[c] = <<>>
      <4>1. reply[c].status = 0
        BY <1>2, Failures, Statuses DEF NoReply
      <4> QED
        BY <1>1, <1>2, <4>1, Statuses DEF ReplyInv
    <3>2. /\ resent'[c] = resent[c] /\ call'[c] = call[c]
          /\ Range(written'[c]) = Range(written[c]) \cup {id}
          /\ ~resent[c] => Len(written'[c]) <= 1
      BY <1>2, <1>8, <1>9, <3>1
    <3> QED
      BY <1>1, <1>2, <1>5, <1>13, <3>2 DEF WrittenInv, Writes
  <2>3. ReplyInv(c)'
    <3>1. id \in Range(written'[c])
      BY <1>8, <1>9
    <3> QED
      BY <1>2, <1>10, <1>11, <3>1, Statuses DEF ReplyInv
  <2>4. EndInv(c)'
    BY <1>1, <1>2 DEF EndInv, Ended, SeenInv
  <2> QED
    BY <2>1, <2>2, <2>3, <2>4 DEF ClientInv
<1> QED
  BY <1>11, <1>12, <1>14, InvLocal

\* A request that is not executed: the document is not as it would have to be, or the server
\* refuses.
LEMMA InvServeFailure ==
  ASSUME IInv, NEW c \in Clients, ServeNoWrite(c) \/ Refuse(c)
  PROVE  IInv'
<1>1. TypeOK /\ SeenInv(c) /\ WrittenInv(c) /\ ReplyInv(c)
  BY DEF IInv, ClientInv
<1>2. /\ pc[c] = "sent" /\ reply[c] = NoReply
      /\ UNCHANGED <<documents, seen, written, abandoned, pc, calls, call, resent, outcome,
                     result>>
  BY DEF ServeNoWrite, Refuse, Asked, Replies, callVars, endVars
<1>3. call[c] \in Calls
  BY <1>1, <1>2 DEF SeenInv
<1>4. PICK status \in {StatusConflict, StatusNotFound, Unavailable} :
        /\ reply' = [reply EXCEPT ![c] = Failure(status)]
        /\ status = Unavailable => refused' = [refused EXCEPT ![c] = TRUE]
        /\ status # Unavailable => refused' = refused
        /\ status = StatusConflict => call[c].op = "create"
        /\ status = StatusNotFound => call[c].op \in {"update", "delete"} /\ Writable(call[c]) = {}
  <2>1. CASE ServeNoWrite(c)
    <3>1. call[c].op = "create" => reply' = [reply EXCEPT ![c] = Failure(StatusConflict)]
      BY <2>1 DEF ServeNoWrite, Replies
    <3>2. call[c].op # "create" => reply' = [reply EXCEPT ![c] = Failure(StatusNotFound)]
      BY <2>1 DEF ServeNoWrite, Replies
    <3>3. call[c].op \in Writes /\ Writable(call[c]) = {} /\ refused' = refused
      BY <2>1 DEF ServeNoWrite, Asked
    <3> QED
      BY <3>1, <3>2, <3>3, Statuses DEF Writes
  <2>2. CASE Refuse(c)
    BY <2>2, Statuses DEF Refuse, Replies
  <2> QED
    BY <2>1, <2>2
<1> DEFINE r == Failure(status)
<1>5. r \in [status : Nat, id : Ids \cup {Null}, value : Values \cup {Null}] /\ r.status = status
  BY Failures, Statuses
<1>6. reply' = [reply EXCEPT ![c] = r]
  BY <1>4
<1> HIDE DEF r
<1>7. refused' \in [Clients -> BOOLEAN] /\ (status = Unavailable => refused'[c])
      /\ \A d \in Clients \ {c} : refused'[d] = refused[d]
  BY <1>1, <1>4 DEF TypeOK
<1>8. TypeOK' /\ reply'[c] = r
  <2>1. /\ documents' \in [Ids -> Values \cup {Null}]
        /\ seen' \in [Clients -> SUBSET (Values \cup {Null})] /\ written' \in [Clients -> Seq(Ids)]
        /\ resent' \in [Clients -> BOOLEAN]
    BY <1>1, <1>2 DEF TypeOK
  <2> QED
    BY <1>1, <1>2, <1>5, <1>6, <1>7, <2>1, Replied
<1>9. ASSUME NEW d \in Clients \ {c} PROVE Kept(d)
  BY <1>1, <1>2, <1>6, <1>7 DEF Kept, TypeOK, IInv, ClientInv, SeenInv
<1>10. Named(call[c])' = Named(call[c]) /\ Own(call[c])' = Own(call[c])
  BY <1>2 DEF Named, NamedBy, Own, OwnHandle
<1>11. SeenInv(c)' /\ WrittenInv(c)'
  BY <1>1, <1>2, <1>10 DEF SeenInv, WrittenInv
<1>12. ReplyInv(c)'
  <2>1. ~resent[c] => written[c] = <<>>
    <3>1. reply[c].status = 0
      BY <1>2, Failures, Statuses DEF NoReply
    <3> QED
      BY <1>1, <1>2, <3>1, Statuses DEF ReplyInv
  <2>2. status = StatusNotFound /\ Own(call[c]) => Null \in seen[c]
    <3>1. SUFFICES ASSUME status = StatusNotFound, Own(call[c]) PROVE Null \in seen[c]
      OBVIOUS
    <3>2. call[c].op \in Writes /\ call[c].op # "create" /\ Writable(call[c]) = {}
      BY <1>4, <3>1 DEF Writes
    <3>3. documents[Named(call[c])] = Null /\ Named(call[c]) \in Ids
      BY <1>3, <3>1, <3>2, WritableIs, HandleNames
    <3> QED
      BY <1>1, <1>2, <3>3 DEF SeenInv
  <2> QED
    BY <1>2, <1>4, <1>5, <1>7, <1>8, <1>10, <2>1, <2>2, Statuses DEF ReplyInv
<1>13. EndInv(c)'
  BY <1>1, <1>2 DEF EndInv, Ended, SeenInv
<1> QED
  BY <1>8, <1>9, <1>11, <1>12, <1>13, InvLocal DEF ClientInv

\* A request is repeated: the call may write a second time.
LEMMA InvResend == ASSUME IInv, NEW c \in Clients, Resend(c) PROVE IInv'
<1>1. TypeOK /\ SeenInv(c) /\ WrittenInv(c)
  BY DEF IInv, ClientInv
<1>2. /\ pc[c] = "sent" /\ reply' = [reply EXCEPT ![c] = NoReply]
      /\ resent' = [resent EXCEPT ![c] = TRUE]
      /\ UNCHANGED <<documents, abandoned, seen, written, pc, calls, call, outcome, result, refused>>
  BY DEF Resend, serverVars, endVars
<1>3. NoReply \in [status : Nat, id : Ids \cup {Null}, value : Values \cup {Null}]
      /\ NoReply.status = 0
  BY Failures DEF NoReply
<1>4. /\ resent' \in [Clients -> BOOLEAN] /\ resent'[c]
      /\ \A d \in Clients \ {c} : resent'[d] = resent[d]
  BY <1>1, <1>2 DEF TypeOK
<1>5. TypeOK' /\ reply'[c] = NoReply
  <2>1. /\ documents' \in [Ids -> Values \cup {Null}]
        /\ seen' \in [Clients -> SUBSET (Values \cup {Null})] /\ written' \in [Clients -> Seq(Ids)]
        /\ refused' \in [Clients -> BOOLEAN]
    BY <1>1, <1>2 DEF TypeOK
  <2> QED
    BY <1>1, <1>2, <1>3, <1>4, <2>1, Replied
<1>6. ASSUME NEW d \in Clients \ {c} PROVE Kept(d)
  BY <1>1, <1>2, <1>4 DEF Kept, TypeOK, IInv, ClientInv, SeenInv
<1>7. Named(call[c])' = Named(call[c])
  BY <1>2 DEF Named, NamedBy
<1>8. SeenInv(c)' /\ WrittenInv(c)'
  BY <1>1, <1>2, <1>4, <1>7 DEF SeenInv, WrittenInv
<1>9. ReplyInv(c)' /\ EndInv(c)'
  BY <1>1, <1>2, <1>3, <1>4, <1>5, Statuses DEF ReplyInv, EndInv, Ended, SeenInv
<1> QED
  BY <1>5, <1>6, <1>8, <1>9, InvLocal DEF ClientInv

\* A request without a caller is executed: the calls under way see its effect.
LEMMA InvServeAbandoned == ASSUME IInv, NEW r \in abandoned, ServeAbandoned(r) PROVE IInv'
<1>1. TypeOK /\ \A d \in Clients : SeenInv(d)
  BY DEF IInv, ClientInv
<1>2. r.call \in Calls /\ r.call.op \in Writes /\ r.tag \in Clients \X Nat
  BY <1>1 DEF TypeOK
<1>3. /\ abandoned' \subseteq abandoned
      /\ UNCHANGED <<pc, calls, call, resent, reply, outcome, result, written, refused>>
  BY DEF ServeAbandoned, callVars, endVars
<1>4. PICK id \in Writable(r.call) : Change(id, r.call, r.tag)
  BY DEF ServeAbandoned
<1>5. id \in Ids
  BY <1>2, <1>4, WritableIs
<1> DEFINE x == r.call
           tag == r.tag
<1>6. x \in Calls /\ tag \in Clients \X Nat /\ Change(id, x, tag)
  BY <1>2, <1>4
<1> HIDE DEF x, tag
<1>7. /\ documents' \in [Ids -> Values \cup {Null}]
      /\ seen' \in [Clients -> SUBSET (Values \cup {Null})]
      /\ \A d \in Clients :
           /\ seen[d] \subseteq seen'[d]
           /\ pc[d] = "sent" /\ Named(call[d]) \in Ids => documents'[Named(call[d])] \in seen'[d]
  BY <1>1, <1>5, <1>6, Changed
<1>8. TypeOK'
  <2>1. abandoned' \subseteq [call : {y \in Calls : y.op \in Writes}, tag : Clients \X Nat]
    BY <1>1, <1>3 DEF TypeOK
  <2> QED
    BY <1>1, <1>3, <1>7, <2>1 DEF TypeOK
<1>9. ASSUME NEW d \in Clients PROVE ClientInv(d)'
  <2>1. Kept(d)
    BY <1>3, <1>7 DEF Kept
  <2> QED
    BY <2>1, InvKept DEF IInv
<1> QED
  BY <1>8, <1>9 DEF IInv

\* The invariant speaks of the variables only.
LEMMA InvStutter == ASSUME IInv, UNCHANGED vars PROVE IInv'
<1>1. UNCHANGED <<documents, abandoned, pc, calls, call, reply, outcome, result, seen, written,
                  resent, refused>>
  BY DEF vars
<1>2. TypeOK'
  <2>1. TypeOK
    BY DEF IInv
  <2> QED
    BY <1>1, <2>1 DEF TypeOK
<1>3. ASSUME NEW d \in Clients PROVE ClientInv(d)'
  <2>1. Kept(d)
    BY <1>1 DEF Kept, IInv, ClientInv, SeenInv
  <2> QED
    BY <2>1, InvKept DEF IInv
<1> QED
  BY <1>2, <1>3 DEF IInv

\* ---------------------------------------------------------------------------
\* The theorems.

\* The inductive invariant: what a call has seen and written accounts for the reply on its way,
\* and for what it returns or throws.
THEOREM DocumentsInvariant == Spec => []IInv
<1>1. ASSUME IInv, NEW c \in Clients, Client(c) PROVE IInv'
  BY <1>1, InvStart, InvEnds DEF Client
<1>2. ASSUME IInv, NEW c \in Clients, Server(c) PROVE IInv'
  BY <1>2, InvServeRead, InvServeWrite, InvServeFailure, InvResend DEF Server
<1>3. IInv /\ [Next]_vars => IInv'
  BY <1>1, <1>2, InvServeAbandoned, InvStutter DEF Next, Finished
<1> QED
  BY InvInit, <1>3, PTL DEF Spec

\* The variables keep their types; nothing is on its way to a client between its calls.
THEOREM TypeCorrect == Spec => []TypeOK
<1>1. IInv => TypeOK
  BY DEF IInv
<1> QED
  BY DocumentsInvariant, <1>1, PTL

\* readDocument returns a value the document had during the call, and existsDocument says yes of
\* a document that was there, whatever other clients and lost requests do.
THEOREM ReadsAreTrue == Spec => []ReadWasTrue
<1>1. IInv => ReadWasTrue
  BY DEF IInv, ClientInv, EndInv, ReadWasTrue
<1> QED
  BY DocumentsInvariant, <1>1, PTL

\* The id createDocument and updateDocument return is of a document this call has written, and in
\* createDocument's case of the collection it was asked to write to.
THEOREM ReturnedIds == Spec => []ReturnedIdWasWritten
<1>1. IInv => ReturnedIdWasWritten
  BY DEF IInv, ClientInv, WrittenInv, EndInv, Ended, ReturnedIdWasWritten
<1> QED
  BY DocumentsInvariant, <1>1, PTL

\* A call whose request is not repeated writes once at most, and not at all if it throws over a
\* reply.
THEOREM ThrowsWriteNothing == Spec => []ThrowMeansNoWrite
<1>1. IInv => ThrowMeansNoWrite
  BY DEF IInv, ClientInv, WrittenInv, EndInv, ThrowMeansNoWrite
<1> QED
  BY DocumentsInvariant, <1>1, PTL

\* An operation the server does not refuse fails only if its document was away at some moment of
\* the call, when the handle is a key or an id of the collection passed.
THEOREM FailuresAreTrue == Spec => []FailsOnlyIfAbsent
<1>1. IInv => FailsOnlyIfAbsent
  BY DEF IInv, ClientInv, EndInv, Own, OwnHandle, FailsOnlyIfAbsent
<1> QED
  BY DocumentsInvariant, <1>1, PTL

\* updateDocument and deleteDocument write the document the handle names or none, whatever
\* collection is passed with it and however often the request is sent.
THEOREM WritesTheNamed == Spec => []WritesWhatHandleNames
<1>1. IInv => WritesWhatHandleNames
  BY DEF IInv, ClientInv, WrittenInv, WritesWhatHandleNames
<1> QED
  BY DocumentsInvariant, <1>1, PTL
=============================================================================
