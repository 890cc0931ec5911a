----------------------------- MODULE CursorProofs -----------------------------
(***************************************************************************)
(* Proofs about Cursor: for any documents, batch size and number of calls  *)
(* and cursors, what the callback has taken is in the server's order and   *)
(* comes from one state of the collection, a call that returns has         *)
(* delivered all of it unless a request was refused or repeated, and       *)
(* leaves no cursor behind.                                                *)
(***************************************************************************)
EXTENDS Cursor, SequenceTheorems, FiniteSetTheorems, TLAPS

\* The rows of the batch the call has in hand, extracted or not.
InHand == IF pc = "extract" THEN todo ELSE reply.rows

\* The rows the server keeps for the rest of the call.
AtServer ==
  CASE pc = "extract" /\ slice.hasMore -> cursors[slice.id]
    [] pc = "sent" /\ request.kind = "batch" -> cursors[request.id]
    [] pc = "sent" /\ request.kind # "batch" /\ reply.hasMore -> cursors[reply.id]
    [] OTHER -> <<>>

\* The call has been told that there are no more rows than those in hand.
LastInHand == \/ pc = "extract" /\ ~slice.hasMore
              \/ pc = "sent" /\ reply.status = 200 /\ ~reply.hasMore

\* A reply is on its way only to a request; a good reply to the request for a batch is about
\* the cursor asked for.
ReplyInv ==
  /\ reply = NoReply \/ reply = Refusal \/ reply.status = 200
  /\ pc # "sent" => reply = NoReply
  /\ pc # "extract" => todo = <<>>
  /\ pc = "sent" /\ request.kind # "batch" => delivered = <<>>
  /\ request.kind = "batch" => request.id <= opened
  /\ request.kind = "batch" /\ reply.hasMore => reply.id = request.id
  /\ pc # "idle" => outcome = "none"

\* Delivered, in hand, at the server: the rows come in this order.
OrderInv == /\ Ordered(delivered)
            /\ pc # "idle" => Ordered((delivered \o InHand) \o AtServer)

\* As long as no batch is lost, the three make up the listing that answered the query, or a
\* part of it once the cursor has expired.
SnapshotInv ==
  "batch" \notin resent =>
    /\ IsPrefixOf(delivered, snapshot)
    /\ pc # "idle" => /\ IsPrefixOf(delivered \o InHand, snapshot)
                      /\ AtServer # <<>> => (delivered \o InHand) \o AtServer = snapshot
                      /\ LastInHand => delivered \o InHand = snapshot
    /\ pc = "idle" /\ outcome = "returned" /\ ~refused => delivered = snapshot

\* Of the cursors opened since the call began only the one it reads is open.
OpenInv ==
  /\ \A id \in Ids : cursors[id] # <<>> => id <= opened
  /\ resent = {} =>
       \A id \in Ids : cursors[id] # <<>> /\ id > since =>
         /\ pc = "sent" /\ request.kind # "batch" => reply.hasMore /\ id = reply.id
         /\ pc = "sent" /\ request.kind = "batch" => id = request.id /\ ~LastInHand
         /\ pc = "extract" => slice.hasMore /\ id = slice.id
         /\ pc = "idle" => outcome # "returned" \/ refused

IInv == TypeOK /\ ReplyInv /\ OrderInv /\ SnapshotInv /\ OpenInv

\* ---------------------------------------------------------------------------
\* Sequences of rows.

\* A batch takes rows off the front: nothing is lost and nothing is added.
LEMMA RowsSplit ==
  ASSUME NEW s \in Seq(Docs)
  PROVE  /\ FirstRows(s) \in Seq(Docs) /\ OtherRows(s) \in Seq(Docs)
         /\ FirstRows(s) \o OtherRows(s) = s
<1> DEFINE k == Min2(BatchSize, Len(s))
<1>1. Len(s) \in Nat /\ BatchSize \in Nat
  BY CursorAssumption
<1>2. k \in 0 .. Len(s)
  BY <1>1 DEF Min2
<1>3. \A i \in 1 .. Len(s) : s[i] \in Docs
  OBVIOUS
<1> HIDE DEF k
<1>4. SubSeq(s, 1, k) \in Seq(Docs) /\ SubSeq(s, k + 1, Len(s)) \in Seq(Docs)
  BY <1>1, <1>2, <1>3, SubSeqProperties
<1>5. SubSeq(s, 1, k) \o SubSeq(s, k + 1, Len(s)) = SubSeq(s, 1, Len(s))
  <2>1. 1 \in 1 .. Len(s) + 1 /\ k \in 1 - 1 .. Len(s) /\ Len(s) \in k .. Len(s)
    BY <1>1, <1>2
  <2> QED
    BY <2>1, ConcatAdjacentSubSeq
<1>6. SubSeq(s, 1, Len(s)) = s
  BY SubSeqFull
<1> QED
  BY <1>4, <1>5, <1>6 DEF FirstRows, OtherRows, k

\* Three parts, whichever two are put together first.
LEMMA RowsAssoc ==
  \A d, f, o \in Seq(Docs) : (d \o f) \o o = d \o (f \o o)
BY ConcatAssociative

\* A listing is a sequence of documents in order.
LEMMA ListingRows ==
  ASSUME NEW S \in SUBSET Docs, NEW s \in Listings(S)
  PROVE  s \in Seq(Docs) /\ Ordered(s)
<1>1. Cardinality(S) \in Nat
  BY CursorAssumption, FS_Subset, FS_CardinalityType
<1>2. s \in [1 .. Cardinality(S) -> Docs] /\ Ordered(s)
  BY DEF Listings
<1> QED
  BY <1>1, <1>2

\* Rows in order stay so when some are taken out of the middle or off the end.
LEMMA OrderedParts ==
  ASSUME NEW d \in Seq(Docs), NEW r \in Seq(Docs), NEW a \in Seq(Docs), Ordered((d \o r) \o a)
  PROVE  Ordered(d) /\ Ordered(d \o r) /\ Ordered(d \o a)
<1>1. /\ d \o r \in Seq(Docs) /\ Len(d \o r) = Len(d) + Len(r)
      /\ \A i \in 1 .. Len(d) + Len(r) : (d \o r)[i] = IF i <= Len(d) THEN d[i] ELSE r[i - Len(d)]
  BY ConcatProperties
<1>2. /\ d \o a \in Seq(Docs) /\ Len(d \o a) = Len(d) + Len(a)
      /\ \A i \in 1 .. Len(d) + Len(a) : (d \o a)[i] = IF i <= Len(d) THEN d[i] ELSE a[i - Len(d)]
  BY ConcatProperties
<1> DEFINE all == (d \o r) \o a
           n == Len(d) + Len(r)
<1>3. /\ all \in Seq(Docs) /\ Len(all) = n + Len(a)
      /\ \A i \in 1 .. n + Len(a) : all[i] = IF i <= n THEN (d \o r)[i] ELSE a[i - n]
  BY <1>1, ConcatProperties
<1>4. Len(d) \in Nat /\ Len(r) \in Nat /\ Len(a) \in Nat
  OBVIOUS
<1>5. /\ DOMAIN d = 1 .. Len(d) /\ DOMAIN (d \o r) = 1 .. Len(d) + Len(r)
      /\ DOMAIN (d \o a) = 1 .. Len(d) + Len(a) /\ DOMAIN all = 1 .. n + Len(a)
  BY <1>1, <1>2, <1>3
<1>6. \A i, j \in 1 .. n + Len(a) : i < j => all[i] < all[j]
  BY <1>5 DEF Ordered
<1> HIDE DEF all
<1>7. \A i \in 1 .. n : all[i] = (d \o r)[i]
  BY <1>3, <1>4
<1>8. Ordered(d \o r)
  <2> SUFFICES ASSUME NEW i \in 1 .. n, NEW j \in 1 .. n, i < j PROVE (d \o r)[i] < (d \o r)[j]
    BY <1>5 DEF Ordered
  <2>1. i \in 1 .. n + Len(a) /\ j \in 1 .. n + Len(a)
    BY <1>4
  <2> QED
    BY <1>6, <1>7, <2>1
<1>9. Ordered(d)
  <2> SUFFICES ASSUME NEW i \in 1 .. Len(d), NEW j \in 1 .. Len(d), i < j PROVE d[i] < d[j]
    BY <1>5 DEF Ordered
  <2>1. i \in 1 .. n /\ j \in 1 .. n
    BY <1>4
  <2>2. (d \o r)[i] = d[i] /\ (d \o r)[j] = d[j]
    BY <1>1, <1>4, <2>1
  <2> QED
    BY <1>5, <1>8, <2>1, <2>2 DEF Ordered
<1>10. Ordered(d \o a)
  <2> DEFINE pos(i) == IF i <= Len(d) THEN i ELSE i + Len(r)
  <2>1. ASSUME NEW i \in 1 .. Len(d) + Len(a)
        PROVE  pos(i) \in 1 .. n + Len(a) /\ all[pos(i)] = (d \o a)[i]
    <3>1. CASE i <= Len(d)
      <4>1. i \in 1 .. n /\ i \in 1 .. n + Len(a)
        BY <1>4, <3>1
      <4>2. all[i] = d[i]
        BY <1>1, <1>7, <3>1, <4>1
      <4> QED
        BY <1>2, <3>1, <4>1, <4>2
    <3>2. CASE ~(i <= Len(d))
      <4>1. i + Len(r) \in 1 .. n + Len(a) /\ ~(i + Len(r) <= n) /\ (i + Len(r)) - n = i - Len(d)
        BY <1>4, <3>2
      <4>2. all[i + Len(r)] = a[i - Len(d)]
        BY <1>3, <4>1
      <4> QED
        BY <1>2, <3>2, <4>1, <4>2
    <3> QED
      BY <3>1, <3>2
  <2> SUFFICES ASSUME NEW i \in 1 .. Len(d) + Len(a), NEW j \in 1 .. Len(d) + Len(a), i < j
               PROVE  (d \o a)[i] < (d \o a)[j]
    BY <1>5 DEF Ordered
  <2>2. pos(i) < pos(j)
    BY <1>4
  <2> HIDE DEF pos
  <2> QED
    BY <1>6, <2>1, <2>2
<1> QED
  BY <1>8, <1>9, <1>10

\* What comes before something is a prefix of the whole.
LEMMA PrefixParts ==
  ASSUME NEW s \in Seq(Docs), NEW t \in Seq(Docs)
  PROVE  /\ IsPrefixOf(s, s \o t)
         /\ \A u \in Seq(Docs) : IsPrefixOf(s \o t, u) => IsPrefixOf(s, u)
<1>1. /\ s \o t \in Seq(Docs) /\ Len(s \o t) = Len(s) + Len(t)
      /\ \A i \in 1 .. Len(s) + Len(t) : (s \o t)[i] = IF i <= Len(s) THEN s[i] ELSE t[i - Len(s)]
  BY ConcatProperties
<1>2. Len(s) \in Nat /\ Len(t) \in Nat
  OBVIOUS
<1>3. ASSUME NEW u \in Seq(Docs), Len(s) <= Len(u), \A i \in 1 .. Len(s) : u[i] = s[i]
      PROVE  IsPrefixOf(s, u)
  <2>1. \A i \in 1 .. Len(s) : u[i] \in Docs
    BY <1>2, <1>3
  <2>2. /\ SubSeq(u, 1, Len(s)) \in Seq(Docs)
        /\ Len(SubSeq(u, 1, Len(s))) = IF 1 <= Len(s) THEN Len(s) - 1 + 1 ELSE 0
        /\ \A i \in 1 .. Len(s) - 1 + 1 : SubSeq(u, 1, Len(s))[i] = u[1 + i - 1]
    BY <1>2, <2>1, SubSeqProperties
  <2>3. Len(SubSeq(u, 1, Len(s))) = Len(s)
    BY <1>2, <2>2
  <2>4. \A i \in 1 .. Len(s) : SubSeq(u, 1, Len(s))[i] = s[i]
    BY <1>2, <1>3, <2>2
  <2>5. s = SubSeq(u, 1, Len(s))
    BY <2>2, <2>3, <2>4, SeqEqual
  <2> QED
    BY <1>3, <2>5 DEF IsPrefixOf
<1>4. IsPrefixOf(s, s \o t)
  <2>1. Len(s) <= Len(s \o t) /\ \A i \in 1 .. Len(s) : (s \o t)[i] = s[i]
    BY <1>1, <1>2
  <2> QED
    BY <1>1, <1>3, <2>1
<1>5. ASSUME NEW u \in Seq(Docs), IsPrefixOf(s \o t, u) PROVE IsPrefixOf(s, u)
  <2>1. Len(s) + Len(t) <= Len(u) /\ s \o t = SubSeq(u, 1, Len(s) + Len(t))
    BY <1>1, <1>5 DEF IsPrefixOf
  <2>2. \A i \in 1 .. Len(s) + Len(t) : u[i] \in Docs
    BY <1>2, <2>1
  <2>3. \A i \in 1 .. Len(s) + Len(t) - 1 + 1 : SubSeq(u, 1, Len(s) + Len(t))[i] = u[1 + i - 1]
    BY <1>2, <2>2, SubSeqProperties
  <2>4. \A i \in 1 .. Len(s) : u[i] = s[i]
    BY <1>1, <1>2, <2>1, <2>3
  <2>5. Len(s) <= Len(u)
    BY <1>2, <2>1
  <2> QED
    BY <1>3, <2>4, <2>5
<1> QED
  BY <1>4, <1>5

\* extractData moves a record from the front of the batch to the end of what is delivered.
LEMMA HandOver ==
  ASSUME NEW d \in Seq(Docs), NEW t \in Seq(Docs), t # <<>>
  PROVE  /\ Append(d, Head(t)) \in Seq(Docs) /\ Tail(t) \in Seq(Docs)
         /\ Append(d, Head(t)) \o Tail(t) = d \o t
<1>1. /\ Head(t) \in Docs /\ Tail(t) \in Seq(Docs)
      /\ Len(Tail(t)) = Len(t) - 1 /\ \A i \in 1 .. Len(Tail(t)) : Tail(t)[i] = t[i + 1]
  BY HeadTailProperties
<1> DEFINE h == Append(d, Head(t))
<1>2. /\ h \in Seq(Docs) /\ Len(h) = Len(d) + 1 /\ h[Len(d) + 1] = Head(t)
      /\ \A i \in 1 .. Len(d) : h[i] = d[i]
  BY <1>1, AppendProperties
<1>3. Head(t) = t[1] /\ Len(t) \in Nat \ {0} /\ Len(d) \in Nat
  OBVIOUS
<1> HIDE DEF h
<1>4. /\ h \o Tail(t) \in Seq(Docs) /\ Len(h \o Tail(t)) = Len(h) + Len(Tail(t))
      /\ \A i \in 1 .. Len(h) + Len(Tail(t)) :
           (h \o Tail(t))[i] = IF i <= Len(h) THEN h[i] ELSE Tail(t)[i - Len(h)]
  BY <1>1, <1>2, ConcatProperties
<1>5. /\ d \o t \in Seq(Docs) /\ Len(d \o t) = Len(d) + Len(t)
      /\ \A i \in 1 .. Len(d) + Len(t) : (d \o t)[i] = IF i <= Len(d) THEN d[i] ELSE t[i - Len(d)]
  BY ConcatProperties
<1>6. Len(h \o Tail(t)) = Len(d \o t)
  BY <1>1, <1>2, <1>3, <1>4, <1>5
<1>7. ASSUME NEW i \in 1 .. Len(d) + Len(t) PROVE (h \o Tail(t))[i] = (d \o t)[i]
  <2>1. i \in 1 .. Len(h) + Len(Tail(t))
    BY <1>1, <1>2, <1>3
  <2>2. CASE i <= Len(d)
    BY <1>2, <1>3, <1>4, <1>5, <2>1, <2>2
  <2>3. CASE i = Len(d) + 1
    BY <1>2, <1>3, <1>4, <1>5, <2>1, <2>3
  <2>4. CASE i > Len(d) + 1
    <3>1. /\ ~(i <= Len(h)) /\ i - Len(h) \in 1 .. Len(Tail(t)) /\ (i - Len(h)) + 1 = i - Len(d)
      BY <1>1, <1>2, <1>3, <2>4
    <3>2. (h \o Tail(t))[i] = t[i - Len(d)]
      BY <1>1, <1>4, <2>1, <3>1
    <3>3. ~(i <= Len(d))
      BY <1>3, <2>4
    <3> QED
      BY <1>5, <3>2, <3>3
  <2>5. i <= Len(d) \/ i = Len(d) + 1 \/ i > Len(d) + 1
    <3>1. i \in Int /\ Len(d) \in Int
      OBVIOUS
    <3> QED
      BY <3>1
  <2> QED
    BY <2>2, <2>3, <2>4, <2>5
<1> QED
  BY <1>1, <1>2, <1>4, <1>5, <1>6, <1>7, SeqEqual DEF h

\* ---------------------------------------------------------------------------
\* Replies and requests.

\* What the three kinds of replies and of requests say.
LEMMA Fields ==
  /\ NoReply \in Reply /\ NoReply.status = 0 /\ NoReply.rows = <<>> /\ ~NoReply.hasMore
  /\ Refusal \in Reply /\ Refusal.status = 400 /\ Refusal.rows = <<>> /\ ~Refusal.hasMore
  /\ \A rows \in Seq(Docs), more \in BOOLEAN, id \in Nat :
       /\ Ok(rows, more, id) \in Reply
       /\ Ok(rows, more, id).status = 200 /\ Ok(rows, more, id).rows = rows
       /\ Ok(rows, more, id).hasMore = more /\ Ok(rows, more, id).id = id
  /\ Query.kind = "query" /\ Lookup.kind = "lookup"
  /\ \A id : Batch(id).kind = "batch" /\ Batch(id).id = id
<1>1. <<>> \in Seq(Docs)
  OBVIOUS
<1>2. /\ NoReply \in Reply /\ NoReply.status = 0 /\ NoReply.rows = <<>> /\ ~NoReply.hasMore
  BY <1>1 DEF NoReply, Reply
<1>3. /\ Refusal \in Reply /\ Refusal.status = 400 /\ Refusal.rows = <<>> /\ ~Refusal.hasMore
  BY <1>1 DEF Refusal, Reply, StatusBadRequest
<1>4. \A rows \in Seq(Docs), more \in BOOLEAN, id \in Nat :
        /\ Ok(rows, more, id) \in Reply
        /\ Ok(rows, more, id).status = 200 /\ Ok(rows, more, id).rows = rows
        /\ Ok(rows, more, id).hasMore = more /\ Ok(rows, more, id).id = id
  BY DEF Ok, Reply
<1>5. /\ Query.kind = "query" /\ Lookup.kind = "lookup"
      /\ \A id : Batch(id).kind = "batch" /\ Batch(id).id = id
  BY DEF Query, Lookup, Batch
<1> QED
  BY <1>2, <1>3, <1>4, <1>5

\* The rows of a call are sequences of documents, wherever they are.
RowsOK ==
  /\ InHand \in Seq(Docs) /\ AtServer \in Seq(Docs)
  /\ delivered \in Seq(Docs) /\ snapshot \in Seq(Docs) /\ todo \in Seq(Docs)
  /\ reply.rows \in Seq(Docs) /\ slice.rows \in Seq(Docs)
  /\ request.kind \in {"query", "lookup", "batch"}
  /\ request.kind = "batch" => request.id \in Ids /\ cursors[request.id] \in Seq(Docs)
  /\ reply.hasMore => reply.id \in Ids /\ cursors[reply.id] \in Seq(Docs)
  /\ slice.hasMore => slice.id \in Ids /\ cursors[slice.id] \in Seq(Docs)

\* They are so because the variables have their types.
LEMMA RowTypes == TypeOK => RowsOK
<1> SUFFICES ASSUME TypeOK PROVE RowsOK
  OBVIOUS
<1>1. /\ delivered \in Seq(Docs) /\ snapshot \in Seq(Docs) /\ todo \in Seq(Docs)
      /\ reply.rows \in Seq(Docs) /\ slice.rows \in Seq(Docs)
  BY DEF TypeOK, Reply
<1>2. /\ request.kind \in {"query", "lookup", "batch"}
      /\ request.kind = "batch" => request.id \in Ids
  BY DEF TypeOK, Query, Lookup, Batch
<1>3. (reply.hasMore => reply.id \in Ids) /\ (slice.hasMore => slice.id \in Ids)
  <2>1. opened \in 0 .. MaxCursors /\ MaxCursors \in Nat
    BY CursorAssumption DEF TypeOK
  <2>2. \A r \in {reply, slice} : r.hasMore => r.id \in 1 .. opened
    BY DEF TypeOK
  <2> QED
    BY <2>1, <2>2 DEF Ids
<1>4. \A id \in Ids : cursors[id] \in Seq(Docs)
  BY DEF TypeOK
<1>5. InHand \in Seq(Docs)
  BY <1>1 DEF InHand
<1>6. AtServer \in Seq(Docs)
  BY <1>2, <1>3, <1>4 DEF AtServer
<1> QED
  BY <1>1, <1>2, <1>3, <1>4, <1>5, <1>6 DEF RowsOK

\* ---------------------------------------------------------------------------
\* Rows on their way from the server to the callback.

\* A step within a call that moves rows along, or loses what is at the server.
LEMMA Advance ==
  ASSUME TypeOK, TypeOK', OrderInv, SnapshotInv, pc # "idle", pc' # "idle",
         delivered' \o InHand' = delivered \o InHand, AtServer' = AtServer \/ AtServer' = <<>>,
         LastInHand' => LastInHand, UNCHANGED <<snapshot, resent>>
  PROVE  OrderInv' /\ SnapshotInv'
<1>1. /\ InHand \in Seq(Docs) /\ AtServer \in Seq(Docs) /\ delivered \in Seq(Docs)
      /\ snapshot \in Seq(Docs)
  BY RowTypes DEF RowsOK
<1>2. InHand' \in Seq(Docs) /\ AtServer' \in Seq(Docs) /\ delivered' \in Seq(Docs)
  <2>1. RowsOK'
    BY RowTypes, PTL
  <2> QED
    BY <2>1 DEF RowsOK
<1> DEFINE got == delivered \o InHand
<1>3. got \in Seq(Docs)
  BY <1>1, ConcatProperties
<1>4. Ordered(got \o AtServer) /\ Ordered(got)
  BY <1>1, OrderedParts DEF OrderInv
<1>5. Ordered((delivered' \o InHand') \o AtServer')
  BY <1>3, <1>4, ConcatEmptySeq
<1>6. Ordered(delivered')
  BY <1>2, <1>5, OrderedParts
<1>7. OrderInv'
  BY <1>5, <1>6 DEF OrderInv
<1>8. SnapshotInv'
  <2> SUFFICES ASSUME "batch" \notin resent
               PROVE  /\ IsPrefixOf(delivered', snapshot)
                      /\ IsPrefixOf(delivered' \o InHand', snapshot)
                      /\ AtServer' # <<>> => (delivered' \o InHand') \o AtServer' = snapshot
                      /\ LastInHand' => delivered' \o InHand' = snapshot
    BY DEF SnapshotInv, IsPrefixOf
  <2>1. /\ IsPrefixOf(got, snapshot)
        /\ AtServer # <<>> => got \o AtServer = snapshot
        /\ LastInHand => got = snapshot
    BY DEF SnapshotInv
  <2>2. IsPrefixOf(delivered', snapshot)
    BY <1>1, <1>2, <2>1, PrefixParts
  <2> QED
    BY <2>1, <2>2
<1> QED
  BY <1>7, <1>8

\* The end of a call, whichever way, if it has everything when it returns.
LEMMA Ending ==
  ASSUME TypeOK, OrderInv, SnapshotInv, pc # "idle", pc' = "idle",
         UNCHANGED <<delivered, snapshot, resent>>,
         outcome' = "returned" /\ ~refused' => LastInHand /\ InHand = <<>>
  PROVE  OrderInv' /\ SnapshotInv'
<1>1. OrderInv'
  BY DEF OrderInv, Ordered
<1>2. delivered \in Seq(Docs)
  BY RowTypes DEF RowsOK
<1>3. delivered \o <<>> = delivered
  BY <1>2, ConcatEmptySeq
<1>4. SnapshotInv'
  BY <1>3 DEF SnapshotInv, IsPrefixOf
<1> QED
  BY <1>1, <1>4

\* Between calls and outside of them nothing moves.
LEMMA Resting ==
  ASSUME OrderInv, SnapshotInv, pc = "idle",
         UNCHANGED <<pc, delivered, snapshot, resent, outcome, refused>>
  PROVE  OrderInv' /\ SnapshotInv'
BY DEF OrderInv, SnapshotInv, Ordered, IsPrefixOf

\* Rows come into hand when nothing has been delivered: those of a listing.
LEMMA Answering ==
  ASSUME TypeOK', NEW s \in Seq(Docs), Ordered(s), pc' = "sent", delivered' = <<>>,
         snapshot' = s,
         \/ InHand' \o AtServer' = s
         \/ InHand' = <<>> /\ AtServer' = <<>> /\ ~LastInHand',
         LastInHand' => AtServer' = <<>>
  PROVE  OrderInv' /\ SnapshotInv'
<1>1. InHand' \in Seq(Docs) /\ AtServer' \in Seq(Docs)
  <2>1. RowsOK'
    BY RowTypes, PTL
  <2> QED
    BY <2>1 DEF RowsOK
<1>2. delivered' \o InHand' = InHand'
  BY <1>1, ConcatEmptySeq
<1>3. <<>> \in Seq(Docs) /\ Ordered(<<>>) /\ <<>> \o s = s /\ Len(<<>>) = 0
  BY ConcatEmptySeq DEF Ordered
<1>4. IsPrefixOf(<<>>, s)
  BY <1>3, PrefixParts
<1>5. CASE InHand' \o AtServer' = s
  <2>1. IsPrefixOf(InHand', s)
    BY <1>1, <1>5, PrefixParts
  <2>2. LastInHand' => InHand' = s
    BY <1>1, <1>5, ConcatEmptySeq
  <2> QED
    BY <1>2, <1>3, <1>4, <1>5, <2>1, <2>2 DEF OrderInv, SnapshotInv, IsPrefixOf, Ordered
<1>6. CASE InHand' = <<>> /\ AtServer' = <<>> /\ ~LastInHand'
  <2>1. (delivered' \o InHand') \o AtServer' = <<>>
    BY <1>2, <1>3, <1>6, ConcatEmptySeq
  <2> QED
    BY <1>2, <1>3, <1>4, <1>6, <2>1 DEF OrderInv, SnapshotInv, IsPrefixOf, Ordered
<1> QED
  BY <1>5, <1>6

\* ---------------------------------------------------------------------------
\* The steps of the client.

\* The invariant holds before the first call.
LEMMA InvInit == Init => IInv
<1> SUFFICES ASSUME Init PROVE IInv
  OBVIOUS
<1>1. <<>> \in Seq(Docs) /\ Len(<<>>) = 0 /\ Ordered(<<>>) /\ SubSeq(<<>>, 1, 0) = <<>>
  BY DEF Ordered
<1>2. documents \subseteq Docs /\ cursors \in [Ids -> Seq(Docs)]
  BY <1>1 DEF Init
<1>3. opened \in 0 .. MaxCursors /\ calls \in 0 .. MaxCalls /\ since \in 0 .. opened
  BY CursorAssumption DEF Init
<1>4. \A r \in {reply, slice} : ~r.hasMore
  BY Fields DEF Init
<1>5. TypeOK
  <2>1. /\ pc \in {"idle", "sent", "extract"} /\ pc # "extract"
        /\ request \in {Query, Lookup} \cup {Batch(id) : id \in Ids}
        /\ reply \in Reply /\ slice \in Reply
    BY Fields DEF Init
  <2>2. /\ todo \in Seq(Docs) /\ delivered \in Seq(Docs) /\ snapshot \in Seq(Docs)
        /\ outcome \in {"none", "returned", "threw"}
        /\ resent \subseteq {"query", "lookup", "batch"} /\ refused \in BOOLEAN
    BY <1>1 DEF Init
  <2> QED
    BY <1>2, <1>3, <1>4, <2>1, <2>2 DEF TypeOK
<1>6. ReplyInv
  BY Fields DEF Init, ReplyInv
<1>7. OrderInv /\ SnapshotInv
  BY <1>1 DEF Init, OrderInv, SnapshotInv, IsPrefixOf
<1>8. OpenInv
  BY DEF Init, OpenInv
<1> QED
  BY <1>5, <1>6, <1>7, <1>8 DEF IInv

\* A call starts with nothing delivered, and every open cursor is of an earlier call.
LEMMA InvStart ==
  ASSUME IInv, Select(Query) \/ Select(Lookup) \/ IllegalQuery
  PROVE  IInv'
<1>1. TypeOK /\ ReplyInv /\ OpenInv
  BY DEF IInv
<1>2. /\ pc = "idle" /\ calls' = calls + 1 /\ calls < MaxCalls
      /\ slice' = NoReply /\ delivered' = <<>> /\ snapshot' = <<>> /\ since' = opened
      /\ resent' = {} /\ refused' = FALSE /\ UNCHANGED <<documents, cursors, opened, todo>>
  BY DEF Select, IllegalQuery, StartCall
<1>3. \/ /\ pc' = "sent" /\ request' \in {Query, Lookup} /\ reply' = NoReply /\ outcome' = "none"
      \/ pc' = "idle" /\ outcome' = "threw" /\ UNCHANGED <<request, reply>>
  BY <1>2 DEF Select, IllegalQuery
<1>4. reply = NoReply /\ todo = <<>> /\ reply' = NoReply
  BY <1>1, <1>2, <1>3 DEF ReplyInv
<1>5. TypeOK'
  <2>1. calls' \in 0 .. MaxCalls
    BY <1>1, <1>2, CursorAssumption DEF TypeOK
  <2>2. <<>> \in Seq(Docs) /\ since' \in 0 .. opened'
    BY <1>1, <1>2 DEF TypeOK
  <2>3. pc' \in {"idle", "sent"} /\ outcome' \in {"none", "threw"}
    BY <1>3
  <2>4. request' \in {Query, Lookup} \cup {Batch(id) : id \in Ids}
    BY <1>1, <1>3 DEF TypeOK
  <2>5. \A r \in {reply', slice'} : ~r.hasMore
    BY <1>2, <1>4, Fields
  <2>6. /\ documents' \subseteq Docs /\ cursors' \in [Ids -> Seq(Docs)]
        /\ opened' \in 0 .. MaxCursors /\ reply' \in Reply /\ slice' \in Reply
        /\ todo' \in Seq(Docs) /\ delivered' \in Seq(Docs) /\ snapshot' \in Seq(Docs)
    BY <1>1, <1>2, <1>4, <2>2, Fields DEF TypeOK
  <2>7. resent' \subseteq {"query", "lookup", "batch"} /\ refused' \in BOOLEAN
    BY <1>2
  <2> QED
    BY <2>1, <2>2, <2>3, <2>4, <2>5, <2>6, <2>7 DEF TypeOK
<1>6. ReplyInv'
  BY <1>1, <1>2, <1>3, <1>4, Fields DEF ReplyInv
<1>7. OrderInv' /\ SnapshotInv'
  <2>1. <<>> \in Seq(Docs) /\ Ordered(<<>>) /\ Len(<<>>) = 0 /\ <<>> \o <<>> = <<>>
    BY ConcatEmptySeq DEF Ordered
  <2>2. IsPrefixOf(<<>>, <<>>)
    BY <2>1, PrefixParts
  <2>3. pc' # "idle" => InHand' = <<>> /\ AtServer' = <<>> /\ ~LastInHand' /\ pc' = "sent"
    BY <1>3, <1>4, Fields DEF InHand, AtServer, LastInHand
  <2>4. pc' = "idle" => outcome' = "threw"
    BY <1>3
  <2> QED
    BY <1>2, <2>1, <2>2, <2>3, <2>4 DEF OrderInv, SnapshotInv, IsPrefixOf, Ordered
<1>8. OpenInv'
  <2>1. \A id \in Ids : cursors'[id] # <<>> => id <= opened'
    BY <1>1, <1>2 DEF OpenInv
  <2>2. \A id \in Ids : ~(cursors'[id] # <<>> /\ id > since')
    <3>1. opened \in Nat /\ \A id \in Ids : id \in Nat
      BY <1>1, CursorAssumption DEF TypeOK, Ids
    <3> QED
      BY <1>2, <2>1, <3>1
  <2> QED
    BY <2>1, <2>2 DEF OpenInv
<1> QED
  BY <1>5, <1>6, <1>7, <1>8 DEF IInv

\* A call ends: without an answer, over a refusal, in the callback, or with its last row.
LEMMA InvEnds ==
  ASSUME IInv, NoAnswer \/ ReceiveRefusal \/ CallbackThrows \/ Return
  PROVE  IInv'
<1>1. TypeOK /\ ReplyInv /\ OrderInv /\ SnapshotInv /\ OpenInv
  BY DEF IInv
<1>2. /\ pc' = "idle" /\ todo' = <<>>
      /\ UNCHANGED <<documents, cursors, opened, snapshot, calls, request, delivered, since,
                     resent, slice>>
  BY DEF NoAnswer, ReceiveRefusal, CallbackThrows, Return, End, serverVars
<1>3. /\ pc \in {"sent", "extract"}
      /\ reply' = NoReply \/ (pc = "extract" /\ reply' = reply)
  <2>1. CASE NoAnswer \/ ReceiveRefusal
    BY <2>1 DEF NoAnswer, ReceiveRefusal
  <2>2. CASE CallbackThrows \/ Return
    BY <2>2 DEF CallbackThrows, Return
  <2> QED
    BY <2>1, <2>2
<1>4. reply' = NoReply
  BY <1>1, <1>3 DEF ReplyInv
<1>5. /\ outcome' \in {"returned", "threw"} /\ refused' \in BOOLEAN
      /\ outcome' = "returned" /\ ~refused' => pc = "extract" /\ todo = <<>> /\ ~slice.hasMore
  BY <1>1 DEF NoAnswer, ReceiveRefusal, CallbackThrows, Return, End, TypeOK
<1>6. TypeOK'
  <2>1. \A r \in {reply', slice'} : r.hasMore => r.id \in 1 .. opened'
    BY <1>1, <1>2, <1>4, Fields DEF TypeOK
  <2>2. <<>> \in Seq(Docs)
    OBVIOUS
  <2> QED
    BY <1>1, <1>2, <1>4, <1>5, <2>1, <2>2, Fields DEF TypeOK
<1>7. ReplyInv'
  BY <1>1, <1>2, <1>4, Fields DEF ReplyInv
<1>8. OrderInv' /\ SnapshotInv'
  <2>1. pc # "idle"
    BY <1>3
  <2>2. outcome' = "returned" /\ ~refused' => LastInHand /\ InHand = <<>>
    BY <1>5 DEF LastInHand, InHand
  <2> QED
    BY <1>1, <1>2, <2>1, <2>2, Ending
<1>9. OpenInv'
  BY <1>1, <1>2, <1>5 DEF OpenInv
<1> QED
  BY <1>6, <1>7, <1>8, <1>9 DEF IInv

\* The rows of a good reply come into hand.
LEMMA InvReceiveRows == ASSUME IInv, ReceiveRows PROVE IInv'
<1>1. TypeOK /\ ReplyInv /\ OrderInv /\ SnapshotInv /\ OpenInv
  BY DEF IInv
<1>2. /\ pc = "sent" /\ pc' = "extract" /\ slice' = reply /\ todo' = reply.rows
      /\ reply # NoReply /\ reply.status < 400 /\ reply' = NoReply
      /\ UNCHANGED <<documents, cursors, opened, snapshot, calls, request, delivered, outcome,
                     since, resent, refused>>
  BY DEF ReceiveRows, serverVars, StatusBadRequest
<1>3. reply.status = 200
  BY <1>1, <1>2, Fields DEF ReplyInv
<1>4. TypeOK'
  <2>1. \A r \in {reply', slice'} : r.hasMore => r.id \in 1 .. opened'
    BY <1>1, <1>2, Fields DEF TypeOK
  <2>2. reply.rows \in Seq(Docs)
    BY <1>1, RowTypes DEF RowsOK
  <2> QED
    BY <1>1, <1>2, <1>3, <2>1, <2>2, Fields DEF TypeOK
<1>5. ReplyInv'
  BY <1>1, <1>2, Fields DEF ReplyInv
<1>6. OrderInv' /\ SnapshotInv'
  <2>1. delivered' \o InHand' = delivered \o InHand
    BY <1>2 DEF InHand
  <2>2. AtServer' = AtServer \/ AtServer' = <<>>
    BY <1>1, <1>2 DEF AtServer, ReplyInv
  <2>3. LastInHand' => LastInHand
    BY <1>2, <1>3 DEF LastInHand
  <2>4. pc # "idle" /\ pc' # "idle"
    BY <1>2
  <2> QED
    BY <1>1, <1>2, <1>4, <2>1, <2>2, <2>3, <2>4, Advance
<1>7. OpenInv'
  BY <1>1, <1>2, <1>3 DEF OpenInv, ReplyInv, LastInHand
<1> QED
  BY <1>4, <1>5, <1>6, <1>7 DEF IInv

\* extractData hands a record to the callback.
LEMMA InvDeliver == ASSUME IInv, Deliver PROVE IInv'
<1>1. TypeOK /\ ReplyInv /\ OrderInv /\ SnapshotInv /\ OpenInv
  BY DEF IInv
<1>2. /\ pc = "extract" /\ todo # <<>>
      /\ delivered' = Append(delivered, Head(todo)) /\ todo' = Tail(todo)
      /\ UNCHANGED <<documents, cursors, opened, snapshot, pc, calls, request, reply, slice,
                     outcome, since, resent, refused>>
  BY DEF Deliver, serverVars
<1>3. delivered \in Seq(Docs) /\ todo \in Seq(Docs)
  BY <1>1 DEF TypeOK
<1>4. /\ delivered' \in Seq(Docs) /\ todo' \in Seq(Docs)
      /\ delivered' \o todo' = delivered \o todo
  BY <1>2, <1>3, HandOver
<1>5. TypeOK'
  BY <1>1, <1>2, <1>4 DEF TypeOK
<1>6. ReplyInv'
  BY <1>1, <1>2 DEF ReplyInv
<1>7. OrderInv' /\ SnapshotInv'
  <2>1. delivered' \o InHand' = delivered \o InHand
    BY <1>2, <1>4 DEF InHand
  <2>2. AtServer' = AtServer /\ LastInHand' = LastInHand
    BY <1>2 DEF AtServer, LastInHand
  <2>3. pc # "idle" /\ pc' # "idle"
    BY <1>2
  <2> QED
    BY <1>1, <1>2, <1>5, <2>1, <2>2, <2>3, Advance
<1>8. OpenInv'
  BY <1>1, <1>2 DEF OpenInv, LastInHand
<1> QED
  BY <1>5, <1>6, <1>7, <1>8 DEF IInv

\* The next batch is asked for when all rows in hand are delivered.
LEMMA InvMore == ASSUME IInv, More PROVE IInv'
<1>1. TypeOK /\ ReplyInv /\ OrderInv /\ SnapshotInv /\ OpenInv
  BY DEF IInv
<1>2. /\ pc = "extract" /\ todo = <<>> /\ slice.hasMore
      /\ pc' = "sent" /\ request' = Batch(slice.id) /\ reply' = NoReply
      /\ UNCHANGED <<documents, cursors, opened, snapshot, calls, slice, todo, delivered,
                     outcome, since, resent, refused>>
  BY DEF More, serverVars
<1>3. slice.id \in Ids /\ slice.id \in 1 .. opened
  BY <1>1, <1>2, RowTypes DEF RowsOK, TypeOK
<1>4. request'.kind = "batch" /\ request'.id = slice.id
  BY <1>2, Fields
<1>5. TypeOK'
  <2>1. \A r \in {reply', slice'} : r.hasMore => r.id \in 1 .. opened'
    BY <1>1, <1>2, Fields DEF TypeOK
  <2> QED
    BY <1>1, <1>2, <1>3, <2>1, Fields DEF TypeOK
<1>6. ReplyInv'
  BY <1>1, <1>2, <1>3, <1>4, Fields DEF ReplyInv, TypeOK
<1>7. OrderInv' /\ SnapshotInv'
  <2>1. delivered' \o InHand' = delivered \o InHand
    BY <1>2, Fields DEF InHand
  <2>2. AtServer' = AtServer /\ ~LastInHand'
    BY <1>2, <1>4, Fields DEF AtServer, LastInHand
  <2>3. pc # "idle" /\ pc' # "idle"
    BY <1>2
  <2> QED
    BY <1>1, <1>2, <1>5, <2>1, <2>2, <2>3, Advance
<1>8. OpenInv'
  BY <1>1, <1>2, <1>4, Fields DEF OpenInv, LastInHand
<1> QED
  BY <1>5, <1>6, <1>7, <1>8 DEF IInv

\* ---------------------------------------------------------------------------
\* The steps of the server and the network.

\* The query, or the lookup, is answered from one state of the collection.
LEMMA InvServeFirst == ASSUME IInv, ServeQuery \/ ServeLookup PROVE IInv'
<1>1. TypeOK /\ ReplyInv /\ OrderInv /\ SnapshotInv /\ OpenInv
  BY DEF IInv
<1>2. /\ pc = "sent" /\ request.kind # "batch" /\ reply = NoReply
      /\ UNCHANGED <<documents, resent, pc, calls, request, slice, todo, delivered, outcome,
                     since, refused>>
  BY DEF ServeQuery, ServeLookup, Waiting, clientVars
<1>3. delivered = <<>> /\ todo = <<>>
  BY <1>1, <1>2 DEF ReplyInv
<1>4. opened \in 0 .. MaxCursors /\ MaxCursors \in Nat /\ since \in 0 .. opened
  BY <1>1, CursorAssumption DEF TypeOK
<1>5. PICK s \in Seq(Docs) :
        /\ Ordered(s) /\ snapshot' = s
        /\ \/ reply' = Ok(s, FALSE, 0) /\ UNCHANGED <<cursors, opened>>
           \/ /\ opened < MaxCursors /\ opened' = opened + 1
              /\ cursors' = [cursors EXCEPT ![opened + 1] = OtherRows(s)]
              /\ reply' = Ok(FirstRows(s), TRUE, opened + 1)
  <2>1. CASE ServeQuery
    <3>1. documents \in SUBSET Docs
      BY <1>1 DEF TypeOK
    <3>2. PICK s \in Listings(documents) :
            /\ snapshot' = s
            /\ IF OtherRows(s) = <<>>
               THEN reply' = Ok(FirstRows(s), FALSE, 0) /\ UNCHANGED <<cursors, opened>>
               ELSE /\ opened < MaxCursors /\ opened' = opened + 1
                    /\ cursors' = [cursors EXCEPT ![opened + 1] = OtherRows(s)]
                    /\ reply' = Ok(FirstRows(s), TRUE, opened + 1)
      BY <2>1 DEF ServeQuery
    <3>3. s \in Seq(Docs) /\ Ordered(s)
      BY <3>1, ListingRows
    <3>4. OtherRows(s) = <<>> => FirstRows(s) = s
      BY <3>3, RowsSplit, ConcatEmptySeq
    <3> QED
      BY <3>2, <3>3, <3>4
  <2>2. CASE ServeLookup
    <3>1. documents \cap Keys \in SUBSET Docs
      BY <1>1 DEF TypeOK
    <3>2. PICK s \in Listings(documents \cap Keys) : snapshot' = s /\ reply' = Ok(s, FALSE, 0)
      BY <2>2 DEF ServeLookup
    <3>3. s \in Seq(Docs) /\ Ordered(s)
      BY <3>1, ListingRows
    <3>4. UNCHANGED <<cursors, opened>>
      BY <2>2 DEF ServeLookup
    <3> QED
      BY <3>2, <3>3, <3>4
  <2> QED
    BY <2>1, <2>2
<1>6. FirstRows(s) \in Seq(Docs) /\ OtherRows(s) \in Seq(Docs) /\ FirstRows(s) \o OtherRows(s) = s
  BY RowsSplit
<1>7. CASE reply' = Ok(s, FALSE, 0) /\ UNCHANGED <<cursors, opened>>
  <2>1. reply' \in Reply /\ reply'.status = 200 /\ reply'.rows = s /\ ~reply'.hasMore
    <3> DEFINE more == FALSE
               id == 0
    <3>1. more \in BOOLEAN /\ id \in Nat /\ reply' = Ok(s, more, id)
      BY <1>7
    <3> HIDE DEF more, id
    <3>2. reply' \in Reply /\ reply'.status = 200 /\ reply'.rows = s /\ reply'.hasMore = more
      BY <3>1, Fields
    <3> QED
      BY <3>2 DEF more
  <2>2. TypeOK'
    <3>1. \A r \in {reply', slice'} : r.hasMore => r.id \in 1 .. opened'
      <4>1. slice' = slice /\ opened' = opened
        BY <1>2, <1>7
      <4>2. slice.hasMore => slice.id \in 1 .. opened
        BY <1>1 DEF TypeOK
      <4> QED
        BY <2>1, <4>1, <4>2
    <3> QED
      BY <1>1, <1>2, <1>5, <1>7, <2>1, <3>1 DEF TypeOK
  <2>3. ReplyInv'
    BY <1>1, <1>2, <1>7, <2>1 DEF ReplyInv
  <2>4. InHand' = s /\ AtServer' = <<>>
    BY <1>2, <2>1 DEF InHand, AtServer
  <2>5. OrderInv' /\ SnapshotInv'
    <3>1. InHand' \o AtServer' = s
      BY <2>4, ConcatEmptySeq
    <3>2. pc' = "sent" /\ delivered' = <<>>
      BY <1>2, <1>3
    <3> QED
      BY <1>5, <2>2, <2>4, <3>1, <3>2, Answering
  <2>6. OpenInv'
    BY <1>1, <1>2, <1>7, Fields DEF OpenInv
  <2> QED
    BY <2>2, <2>3, <2>5, <2>6 DEF IInv
<1>8. CASE /\ opened < MaxCursors /\ opened' = opened + 1
           /\ cursors' = [cursors EXCEPT ![opened + 1] = OtherRows(s)]
           /\ reply' = Ok(FirstRows(s), TRUE, opened + 1)
  <2>1. opened + 1 \in Ids /\ opened + 1 \in Nat /\ opened' \in 0 .. MaxCursors
    BY <1>4, <1>8 DEF Ids
  <2>2. /\ reply' \in Reply /\ reply'.status = 200 /\ reply'.rows = FirstRows(s)
        /\ reply'.hasMore /\ reply'.id = opened + 1
    <3> DEFINE more == TRUE
               id == opened + 1
               f == FirstRows(s)
    <3>1. f \in Seq(Docs) /\ more \in BOOLEAN /\ id \in Nat /\ reply' = Ok(f, more, id)
      BY <1>6, <1>8, <2>1
    <3> HIDE DEF more, id, f
    <3>2. /\ reply' \in Reply /\ reply'.status = 200 /\ reply'.rows = f
          /\ reply'.hasMore = more /\ reply'.id = id
      BY <3>1, Fields
    <3> QED
      BY <3>2 DEF more, id, f
  <2>3. /\ cursors' \in [Ids -> Seq(Docs)] /\ cursors'[opened + 1] = OtherRows(s)
        /\ \A id \in Ids : id # opened + 1 => cursors'[id] = cursors[id]
    BY <1>1, <1>6, <1>8, <2>1 DEF TypeOK
  <2>4. TypeOK'
    <3>1. \A r \in {reply', slice'} : r.hasMore => r.id \in 1 .. opened'
      <4>1. opened + 1 \in 1 .. opened' /\ \A id \in 1 .. opened : id \in 1 .. opened'
        BY <1>4, <1>8
      <4> QED
        BY <1>1, <1>2, <2>2, <4>1 DEF TypeOK
    <3>2. since' \in 0 .. opened'
      BY <1>2, <1>4, <1>8
    <3> QED
      BY <1>1, <1>2, <1>5, <2>1, <2>2, <2>3, <3>1, <3>2 DEF TypeOK
  <2>5. ReplyInv'
    BY <1>1, <1>2, <2>2 DEF ReplyInv
  <2>6. InHand' = FirstRows(s) /\ AtServer' = OtherRows(s) /\ ~LastInHand'
    BY <1>2, <2>2, <2>3 DEF InHand, AtServer, LastInHand
  <2>7. OrderInv' /\ SnapshotInv'
    <3>1. InHand' \o AtServer' = s /\ pc' = "sent" /\ delivered' = <<>>
      BY <1>2, <1>3, <1>6, <2>6
    <3> QED
      BY <1>5, <2>4, <2>6, <3>1, Answering
  <2>8. OpenInv'
    <3>1. \A id \in Ids : cursors'[id] # <<>> => id <= opened'
      BY <1>1, <1>4, <1>8, <2>3 DEF OpenInv, Ids
    <3>2. resent = {} => \A id \in Ids : cursors'[id] # <<>> /\ id > since => id = opened + 1
      BY <1>1, <1>2, <2>3, Fields DEF OpenInv
    <3> QED
      BY <1>2, <2>2, <3>1, <3>2 DEF OpenInv
  <2> QED
    BY <2>4, <2>5, <2>7, <2>8 DEF IInv
<1> QED
  BY <1>5, <1>7, <1>8

\* A batch: the first rows of what the cursor holds.
LEMMA InvServeBatch == ASSUME IInv, ServeBatch PROVE IInv'
<1>1. TypeOK /\ ReplyInv /\ OrderInv /\ SnapshotInv /\ OpenInv
  BY DEF IInv
<1> DEFINE id == request.id
           s == cursors[id]
<1>2. /\ pc = "sent" /\ request.kind = "batch" /\ reply = NoReply /\ s # <<>>
      /\ cursors' = [cursors EXCEPT ![id] = OtherRows(s)]
      /\ reply' = Ok(FirstRows(s), OtherRows(s) # <<>>, id)
      /\ UNCHANGED <<documents, opened, snapshot, resent, pc, calls, request, slice, todo,
                     delivered, outcome, since, refused>>
  BY DEF ServeBatch, Waiting, clientVars
<1>3. id \in Ids /\ s \in Seq(Docs) /\ id \in Nat /\ id \in 1 .. opened
  <2>1. id \in Ids /\ s \in Seq(Docs)
    BY <1>1, <1>2, RowTypes DEF RowsOK
  <2>2. id <= opened /\ opened \in Nat
    BY <1>1, <1>2, CursorAssumption DEF ReplyInv, TypeOK
  <2> QED
    BY <2>1, <2>2, CursorAssumption DEF Ids
<1>4. FirstRows(s) \in Seq(Docs) /\ OtherRows(s) \in Seq(Docs) /\ FirstRows(s) \o OtherRows(s) = s
  BY <1>3, RowsSplit
<1>5. /\ reply' \in Reply /\ reply'.status = 200 /\ reply'.rows = FirstRows(s)
      /\ reply'.hasMore = (OtherRows(s) # <<>>) /\ reply'.id = id
  <2> DEFINE more == OtherRows(s) # <<>>
  <2>1. more \in BOOLEAN /\ reply' = Ok(FirstRows(s), more, id)
    BY <1>2
  <2> HIDE DEF more
  <2>2. /\ reply' \in Reply /\ reply'.status = 200 /\ reply'.rows = FirstRows(s)
        /\ reply'.hasMore = more /\ reply'.id = id
    BY <1>3, <1>4, <2>1, Fields
  <2> QED
    BY <2>2 DEF more
<1>6. /\ cursors' \in [Ids -> Seq(Docs)] /\ cursors'[id] = OtherRows(s)
      /\ \A i \in Ids : i # id => cursors'[i] = cursors[i]
  BY <1>1, <1>2, <1>3, <1>4 DEF TypeOK
<1>7. InHand = <<>> /\ AtServer = s /\ ~LastInHand
  BY <1>2, Fields DEF InHand, AtServer, LastInHand
<1>8. InHand' = FirstRows(s) /\ AtServer' = OtherRows(s) /\ (LastInHand' => OtherRows(s) = <<>>)
  BY <1>2, <1>5, <1>6 DEF InHand, AtServer, LastInHand
<1> HIDE DEF s, id
<1>9. TypeOK'
  <2>1. \A r \in {reply', slice'} : r.hasMore => r.id \in 1 .. opened'
    BY <1>1, <1>2, <1>3, <1>5 DEF TypeOK
  <2> QED
    BY <1>1, <1>2, <1>5, <1>6, <2>1 DEF TypeOK
<1>10. ReplyInv'
  BY <1>1, <1>2, <1>5 DEF ReplyInv, id
<1>11. delivered \in Seq(Docs) /\ snapshot \in Seq(Docs)
  BY <1>1 DEF TypeOK
<1>12. (delivered \o FirstRows(s)) \o OtherRows(s) = delivered \o s
  <2> DEFINE f == FirstRows(s)
             o == OtherRows(s)
  <2>1. f \in Seq(Docs) /\ o \in Seq(Docs) /\ f \o o = s
    BY <1>4
  <2> HIDE DEF f, o
  <2>2. (delivered \o f) \o o = delivered \o (f \o o)
    BY <1>11, <2>1, RowsAssoc
  <2>3. (delivered \o f) \o o = delivered \o s
    BY <2>1, <2>2
  <2> QED
    BY <2>3 DEF f, o
<1>13. Ordered(delivered \o s) /\ delivered \o InHand = delivered
  BY <1>1, <1>2, <1>7, <1>11, ConcatEmptySeq DEF OrderInv
<1>14. OrderInv'
  BY <1>1, <1>2, <1>8, <1>12, <1>13 DEF OrderInv, Ordered
<1>15. SnapshotInv'
  <2> SUFFICES ASSUME "batch" \notin resent PROVE SnapshotInv'
    BY <1>2 DEF SnapshotInv
  <2>1. IsPrefixOf(delivered, snapshot) /\ delivered \o s = snapshot
    BY <1>1, <1>2, <1>7, <1>13 DEF SnapshotInv
  <2>2. delivered \o FirstRows(s) \in Seq(Docs)
    BY <1>4, <1>11, ConcatProperties
  <2>3. IsPrefixOf(delivered \o FirstRows(s), snapshot)
    BY <1>4, <1>12, <2>1, <2>2, PrefixParts
  <2>4. OtherRows(s) = <<>> => delivered \o FirstRows(s) = snapshot
    BY <1>12, <2>1, <2>2, ConcatEmptySeq
  <2> QED
    BY <1>2, <1>8, <1>12, <2>1, <2>3, <2>4 DEF SnapshotInv, IsPrefixOf
<1>16. OpenInv'
  <2>1. \A i \in Ids : cursors'[i] # <<>> => i <= opened'
    BY <1>1, <1>2, <1>6, <1>3 DEF OpenInv
  <2>2. resent = {} => \A i \in Ids : cursors'[i] # <<>> /\ i > since => i = id /\ ~LastInHand'
    BY <1>1, <1>2, <1>6, <1>8 DEF OpenInv, id
  <2> QED
    BY <1>2, <2>1, <2>2 DEF OpenInv, id
<1> QED
  BY <1>9, <1>10, <1>14, <1>15, <1>16 DEF IInv

\* A request is refused: nothing comes, and the cursor stays.
LEMMA InvRefuse == ASSUME IInv, Refuse PROVE IInv'
<1>1. TypeOK /\ ReplyInv /\ OrderInv /\ SnapshotInv /\ OpenInv
  BY DEF IInv
<1>2. /\ pc = "sent" /\ reply = NoReply /\ reply' = Refusal
      /\ UNCHANGED <<documents, cursors, opened, snapshot, resent, pc, calls, request, slice,
                     todo, delivered, outcome, since, refused>>
  BY DEF Refuse, serverVars, clientVars
<1>3. TypeOK'
  <2>1. \A r \in {reply', slice'} : r.hasMore => r.id \in 1 .. opened'
    BY <1>1, <1>2, Fields DEF TypeOK
  <2> QED
    BY <1>1, <1>2, <2>1, Fields DEF TypeOK
<1>4. ReplyInv'
  BY <1>1, <1>2, Fields DEF ReplyInv
<1>5. InHand' = InHand /\ AtServer' = AtServer /\ ~LastInHand'
  BY <1>2, Fields DEF InHand, AtServer, LastInHand
<1>6. OrderInv' /\ SnapshotInv'
  <2>1. delivered' \o InHand' = delivered \o InHand /\ pc # "idle" /\ pc' # "idle"
    BY <1>2, <1>5
  <2> QED
    BY <1>1, <1>2, <1>3, <1>5, <2>1, Advance
<1>7. OpenInv'
  BY <1>1, <1>2, <1>5, Fields DEF OpenInv
<1> QED
  BY <1>3, <1>4, <1>6, <1>7 DEF IInv

\* A request is repeated: the rows of a batch that was on its way are lost, and the rows after
\* it follow what has been delivered.
LEMMA InvResend == ASSUME IInv, Resend PROVE IInv'
<1>1. TypeOK /\ ReplyInv /\ OrderInv /\ SnapshotInv /\ OpenInv
  BY DEF IInv
<1>2. /\ pc = "sent" /\ reply # NoReply /\ reply' = NoReply
      /\ resent' = resent \cup {request.kind}
      /\ UNCHANGED <<documents, cursors, opened, snapshot, pc, calls, request, slice, todo,
                     delivered, outcome, since, refused>>
  BY DEF Resend, serverVars, clientVars
<1>3. request.kind \in {"query", "lookup", "batch"}
  BY <1>1, RowTypes DEF RowsOK
<1>4. TypeOK'
  <2>1. \A r \in {reply', slice'} : r.hasMore => r.id \in 1 .. opened'
    BY <1>1, <1>2, Fields DEF TypeOK
  <2>2. resent' \subseteq {"query", "lookup", "batch"}
    BY <1>1, <1>2, <1>3 DEF TypeOK
  <2> QED
    BY <1>1, <1>2, <2>1, <2>2, Fields DEF TypeOK
<1>5. ReplyInv'
  BY <1>1, <1>2, Fields DEF ReplyInv
<1>6. InHand' = <<>> /\ ~LastInHand'
  BY <1>2, Fields DEF InHand, LastInHand
<1>7. /\ InHand \in Seq(Docs) /\ AtServer \in Seq(Docs) /\ delivered \in Seq(Docs)
      /\ snapshot \in Seq(Docs)
  BY <1>1, RowTypes DEF RowsOK
<1>8. CASE request.kind = "batch"
  <2>1. AtServer' = AtServer
    BY <1>2, <1>8 DEF AtServer
  <2>2. Ordered(delivered \o AtServer) /\ Ordered(delivered)
    BY <1>1, <1>2, <1>7, OrderedParts DEF OrderInv
  <2>3. (delivered' \o InHand') \o AtServer' = delivered \o AtServer
    BY <1>2, <1>6, <1>7, <2>1, ConcatEmptySeq
  <2>4. OrderInv'
    BY <1>2, <2>2, <2>3 DEF OrderInv, Ordered
  <2>5. SnapshotInv'
    BY <1>2, <1>8 DEF SnapshotInv
  <2> QED
    BY <2>4, <2>5, <1>4, <1>5, <1>1, <1>2 DEF IInv, OpenInv
<1>9. CASE request.kind # "batch"
  <2>1. AtServer' = <<>> /\ delivered = <<>>
    BY <1>1, <1>2, <1>9, Fields DEF AtServer, ReplyInv
  <2>2. <<>> \in Seq(Docs) /\ Ordered(<<>>) /\ <<>> \o <<>> = <<>> /\ Len(<<>>) = 0
    BY ConcatEmptySeq DEF Ordered
  <2>3. OrderInv'
    BY <1>2, <1>6, <2>1, <2>2 DEF OrderInv, Ordered
  <2>4. <<>> \o snapshot = snapshot
    BY <1>7, ConcatEmptySeq
  <2>5. IsPrefixOf(<<>>, snapshot)
    BY <1>7, <2>2, <2>4, PrefixParts
  <2>6. SnapshotInv'
    BY <1>2, <1>6, <2>1, <2>2, <2>5 DEF SnapshotInv, IsPrefixOf
  <2> QED
    BY <1>1, <1>2, <1>4, <1>5, <2>3, <2>6 DEF IInv, OpenInv
<1> QED
  BY <1>8, <1>9

\* A cursor goes, or another client writes: what is left of a call comes from what has been read.
LEMMA InvOthers ==
  ASSUME IInv, \/ \E id \in Ids : Expire(id)
               \/ \E d \in Volatile : Write(d)
  PROVE  IInv'
<1>1. TypeOK /\ ReplyInv /\ OrderInv /\ SnapshotInv /\ OpenInv
  BY DEF IInv
<1>2. UNCHANGED <<opened, snapshot, reply, resent, pc, calls, request, slice, todo, delivered,
                  outcome, since, refused>>
  BY DEF Expire, Write, clientVars
<1>3. /\ documents' \subseteq Docs /\ cursors' \in [Ids -> Seq(Docs)]
      /\ \A id \in Ids : cursors'[id] = cursors[id] \/ cursors'[id] = <<>>
  <2>1. CASE \E id \in Ids : Expire(id)
    BY <1>1, <2>1 DEF TypeOK, Expire
  <2>2. CASE \E d \in Volatile : Write(d)
    BY <1>1, <2>2, CursorAssumption DEF TypeOK, Write
  <2> QED
    BY <2>1, <2>2
<1>4. TypeOK'
  BY <1>1, <1>2, <1>3 DEF TypeOK
<1>5. ReplyInv'
  BY <1>1, <1>2 DEF ReplyInv
<1>6. InHand' = InHand /\ LastInHand' = LastInHand
  BY <1>2 DEF InHand, LastInHand
<1>7. AtServer' = AtServer \/ AtServer' = <<>>
  <2>1. RowsOK
    BY <1>1, RowTypes
  <2>2. /\ request.kind = "batch" => request.id \in Ids
        /\ reply.hasMore => reply.id \in Ids
        /\ slice.hasMore => slice.id \in Ids
    BY <2>1 DEF RowsOK
  <2> QED
    BY <1>2, <1>3, <2>2 DEF AtServer
<1>8. OrderInv' /\ SnapshotInv'
  <2>1. CASE pc = "idle"
    BY <1>1, <1>2, <2>1, Resting
  <2>2. CASE pc # "idle"
    <3>1. delivered' \o InHand' = delivered \o InHand /\ pc' # "idle"
      BY <1>2, <1>6, <2>2
    <3> QED
      BY <1>1, <1>2, <1>4, <1>6, <1>7, <2>2, <3>1, Advance
  <2> QED
    BY <2>1, <2>2
<1>9. OpenInv'
  <2>1. \A id \in Ids : cursors'[id] # <<>> => cursors[id] # <<>>
    BY <1>3
  <2> QED
    BY <1>1, <1>2, <1>6, <2>1 DEF OpenInv
<1> QED
  BY <1>4, <1>5, <1>8, <1>9 DEF IInv

\* The invariant speaks of the variables only.
LEMMA InvStutter == ASSUME IInv, UNCHANGED vars PROVE IInv'
<1>1. UNCHANGED <<documents, cursors, opened, pc, calls, request, reply, slice, todo, delivered,
                  outcome, snapshot, since, resent, refused>>
  BY DEF vars
<1> QED
  <2>1. TypeOK'
    <3>1. TypeOK
      BY DEF IInv
    <3> QED
      BY <1>1, <3>1 DEF TypeOK
  <2>2. ReplyInv'
    BY <1>1 DEF IInv, ReplyInv
  <2>3. InHand' = InHand /\ AtServer' = AtServer /\ LastInHand' = LastInHand
    BY <1>1 DEF InHand, AtServer, LastInHand
  <2>4. OrderInv'
    <3>1. OrderInv
      BY DEF IInv
    <3> QED
      BY <1>1, <2>3, <3>1 DEF OrderInv, Ordered
  <2>5. SnapshotInv'
    <3>1. SnapshotInv
      BY DEF IInv
    <3> QED
      BY <1>1, <2>3, <3>1 DEF SnapshotInv, IsPrefixOf
  <2>6. OpenInv'
    <3>1. OpenInv
      BY DEF IInv
    <3> QED
      BY <1>1, <2>3, <3>1 DEF OpenInv
  <2> QED
    BY <2>1, <2>2, <2>4, <2>5, <2>6 DEF IInv

\* ---------------------------------------------------------------------------
\* The theorems.

\* The inductive invariant: what is delivered, in hand and at the server make up the listing
\* that answered the query, in order, as far as nothing has been lost.
THEOREM CursorInvariant == Spec => []IInv
<1>1. ASSUME IInv, Client PROVE IInv'
  BY <1>1, InvStart, InvEnds, InvReceiveRows, InvDeliver, InvMore DEF Client
<1>2. ASSUME IInv, Server PROVE IInv'
  BY <1>2, InvServeFirst, InvServeBatch, InvRefuse, InvResend, InvOthers DEF Server
<1>3. IInv /\ [Next]_vars => IInv'
  BY <1>1, <1>2, InvStutter DEF Next, Finished
<1> QED
  BY InvInit, <1>3, PTL DEF Spec

\* The variables keep their types; a reply that promises more rows names a cursor.
THEOREM TypeCorrect == Spec => []TypeOK
<1>1. IInv => TypeOK
  BY DEF IInv
<1> QED
  BY CursorInvariant, <1>1, PTL

\* For any number of batches, no row is delivered twice or out of order, even when requests for
\* batches are repeated.
THEOREM InOrder == Spec => []DeliveredInOrder
<1>1. IInv => DeliveredInOrder
  BY DEF IInv, OrderInv, DeliveredInOrder
<1> QED
  BY CursorInvariant, <1>1, PTL

\* What is delivered is a prefix of one state of the collection, whatever others write.
THEOREM FromSnapshot == Spec => []DeliveredFromSnapshot
<1>1. IInv => DeliveredFromSnapshot
  BY DEF IInv, SnapshotInv, DeliveredFromSnapshot
<1> QED
  BY CursorInvariant, <1>1, PTL

\* A call that returns, and met no refusal and no repeated batch, has delivered that whole state.
THEOREM Complete == Spec => []ReturnIsComplete
<1>1. IInv => ReturnIsComplete
  BY DEF IInv, SnapshotInv, ReplyInv, ReturnIsComplete
<1> QED
  BY CursorInvariant, <1>1, PTL

\* A call that returns, and met no refusal and no repetition, has left no cursor open.
THEOREM NoCursorLeft == Spec => []CleanReturnLeavesNoCursor
<1>1. IInv => CleanReturnLeavesNoCursor
  <2> SUFFICES ASSUME IInv, outcome = "returned", ~refused, resent = {}, NEW id \in Ids,
                      cursors[id] # <<>>
               PROVE  id <= since
    BY DEF CleanReturnLeavesNoCursor
  <2>1. pc = "idle"
    BY DEF IInv, ReplyInv, TypeOK
  <2>2. ~(id > since)
    BY <2>1 DEF IInv, OpenInv
  <2>3. since \in Int /\ id \in Int
    BY DEF IInv, TypeOK, Ids
  <2> QED
    BY <2>2, <2>3
<1> QED
  BY CursorInvariant, <1>1, PTL
=============================================================================
