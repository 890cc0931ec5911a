----------------------------- MODULE MCTransport -----------------------------
(* Small instances of Transport. *)
EXTENDS Transport, TLC

CONSTANTS t1, t2, h1, h2, h3, alice, bob, doc

MCUrls == {"/doc", "/cursor"}
MCMeta == {"accept", "content-type"}

\* Two threads: a POST that leaves a body and the POST method on the handle, and
\* the body-less PUT of a cursor, each thread with its own login.
Insert == [verb |-> "POST", url |-> "/doc", meta |-> {"content-type"}, body |-> doc]
More   == [verb |-> "PUT", url |-> "/cursor", meta |-> MCMeta, body |-> NoBody]
ConcurrentRequests == {Insert, More}
OwnLogin == (t1 :> {alice}) @@ (t2 :> {bob})
TwoAndOne == (t1 :> 2) @@ (t2 :> 1)
JsonOrHtml == {[code |-> 200, ctype |-> "json"], [code |-> 200, ctype |-> "other"]}

\* One thread: every verb, with and without a payload, the illegal verb included.
AllRequests == {r \in Request : r.url = "/doc" /\ r.meta = MCMeta}
AnyLogin == (t1 :> {alice, bob})
TwoCalls == (t1 :> 2)
AllReplies == [code : {200, 404}, ctype : {"json", "vpack", "other"}]
==============================================================================
