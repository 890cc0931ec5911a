# arango-cpp: a verification development in TLA+

arango-cpp is a C++ client library for ArangoDB.  A program makes API objects
(collections, graphs, a root client for databases and users); every operation of theirs
is one or several HTTP requests over libcurl handles taken from one process-wide pool.
The library has few lines and little state of its own.  What is hard about it is that

- the pool and its handles are shared by all threads, and a handle remembers every
  libcurl option of its last request;
- a request can be lost, executed without an answer, executed twice, or answered in part;
- operations made of several requests (check and create, query and cursor, list and
  remove) are interleaved with those of other clients of the same server;
- the server's state (logins, databases, cursors) changes under a connected object.

The modules here model that, TLC checks small instances, and TLAPS proves the properties
of every component for all values of the constants.

## 1. Inventory

Paths are relative to the repository.

| Part | State | Operations | Made correct by |
|---|---|---|---|
| `CurlPool` (`src/curlobjects_pool.h`, `src/arangocurl.cpp` 13-39) | stack `pool_`, `pool_mutex`; one static object | `get_resource`, `return_resource` | a handle has one owner; none is lost; the pool does not grow with the number of calls; nobody waits for another call's network |
| `RequestCurlObject` (`src/arangocurl.h`, `src/arangocurl.cpp` 41-267) | libcurl options (verb, no-body, posted fields, headers, URL, login), `_responseHeaders`, `_responseBody` | constructor, destructor, `setConnectData`, `sendRequest`, `getResponse`, two callbacks | a reused handle sends the request at hand and nothing of an earlier one; the reply is the reply to that request |
| `HttpMessage` (`src/arangorequests.*`) | headers, payload, parsed slices | `createRequest`, `setContentType`, `addVPack`, `slices`, `payloadAsString` | what is sent says what the operation meant, in either encoding |
| `sendREQUEST` (`src/arangocollection.cpp` 77-101, copied in `src/arangodbusers.cpp` 8-32) | none | the exchange all operations make | it ends with the reply to its request, or throws; the handle is given back or destroyed |
| `ArangoDBAPIBase` (`src/arangocollection.cpp` 15-29, 109-132) | `connect_data`, `connected_message`, `batch_size` | construction, `resetDBConnection`, `testConnection` | the object works with the connection it was last given, and its message is about that connection |
| `ArangoDBRootClient` (`src/arangoconnect.cpp` 105-142) | `rootData`, `pusers` | `resetDBConnection`, delegation | both agree |
| settings (`src/arangoconnect.cpp` 52-103) | process-wide `use_velocypack_put`, `use_velocypack_get` | `connectFromSettings` and two wrappers | a request is right in either encoding, whatever the last one was in |
| collections, graphs, databases, users (`src/arangocollection.cpp` 138-221, `src/arangograph.cpp`, `src/arangodbusers.cpp`) | none; the server's catalog | exist, create, drop, list, update a user, grant, add collections to a graph | an answer was true; a return means that it is done; an exception means that it is not |
| queries (`src/arangocollection.cpp` 333-673) | the slice and `hasMore` of the current batch; the server's cursor | `selectQuery`, `selectAll`, `lookupByKeys`, `collectQuery` | every record of one state of the collection, once, in order; no cursor left behind; it ends |
| documents (`src/arangocollection.cpp` 223-329, `src/arangograph.cpp` 113-252) | none | create, read, update, delete, exists | what is returned was true of the document the handle names, and an exception over a reply means that nothing was written |
| removal (`src/arangocollection.cpp` 676-757) | none | `removeByTemplate`, `removeByKeys`, `removeEdges`; the selection of edges lists collections first, too | what the caller means and was there all the time is gone when the call returns, and nothing else; what is left after a failure is in the unfinished part |
| document handles (`src/arangocollection.cpp` 32-66, `include/arango-cpp/arangocollection.h` 71-100) | none | `sanitization`, `getId`, `getKey` | a key comes of every text, and a key stays what it is; a handle finds its own document |
| `ArangoDBQuery` (`src/arangoquery.cpp`), helpers, logger, exceptions | none that outlives a call | strings | - |

How they interact: an operation builds an `HttpMessage` (`createREQUEST`), calls
`sendREQUEST`, which borrows a handle from the pool, logs in, sends, makes the response
message and gives the handle back; the operation then looks at the status code and at the
parsed body.  API objects share nothing with each other but the pool and the two flags.
Callers pass callbacks to the queries; they run on the calling thread.

Who runs concurrently: any number of threads, each with API objects of its own (the
objects have no lock; the pool has one, which is what the library offers), other clients
of the server, and the server itself.

## 2. Modules

| Module | Models |
|---|---|
| `RequestCurlObject` | values of a handle and the pure effect of `setConnectData`, `sendRequest`, `getResponse` and the callbacks on them; what libcurl sends with given options (`Wire`, external) and the reference `Expected` |
| `Transport` | threads in `sendREQUEST` over the pool and the handles; one action per statement of `get_resource` and `return_resource`, one per step of `sendREQUEST`, and the network's actions |
| `RequestService` | abstract specification of `sendREQUEST`: a call's own request is received at most twice, and a response comes only after that |
| `Connection` | API objects and the root client being constructed, reset and tested while servers, logins and databases come and go and requests fail |
| `Cursor` | one client in `selectQuery`, `selectAll` or `lookupByKeys`, the server's cursors, other clients' writes |
| `Catalog` | clients that check, create, drop, change and list collections, graphs, databases and users; the collections the server creates and drops with a graph, and the users it creates with a database |
| `DocumentHandles` | `getId`, and what a handle names, for `Documents` and `Edges` |
| `Documents` | clients that create, read, update, delete and look for single documents, by key and by id |
| `Edges` | one client that removes edges and documents by template, by keys, or all edges of a vertex named by key or by id, and selects the edges of a vertex; other clients that change edges and collections |
| `Sanitization` | the loop that makes a key of a text, run on a text and then on its own result |
| `TransportProofs`, `ConnectionProofs`, `SanitizationProofs`, `EdgesProofs`, `CatalogProofs`, `CursorProofs`, `DocumentsProofs` | theorems about the module of that name |
| `ServiceProofs` | the theorem that `Transport` implements `RequestService` |
| `MCTransport`, `MCConnection`, `MCCursor`, `MCCatalog`, `MCDocuments`, `MCEdges`, `MCSanitization` | constants of the small instances |

`Transport` extends `RequestCurlObject` and is shown to implement `RequestService`
(`ImplementsService`).  `Documents` and `Edges` extend `DocumentHandles`.  `Cursor`, `Catalog`, `Documents`, `Edges` and
`Connection` take a request as one step each for asking, serving and receiving, with the outcomes that `RequestService` permits:
it is answered, it is answered after being executed twice (`Resend`), or the call throws
(`NoAnswer`, at any moment, so that the request may or may not have been executed).  In
`Connection` the request changes nothing at the server, so that repeating it makes no
difference; that it is not answered, or that its reply cannot be read, is `AskFails`.

### Correspondence to the code

*Transport.*  `pc[t]` is the statement thread `t` is at: `lock_get`, `grow`, `take`, `pop`
in `get_resource`; `connect`, `options`, `perform`, `receive`, `body`, `parse` in
`setConnectData`, `sendRequest` and `getResponse`; `lock_return`, `push` in
`return_resource`; `check` for the two tests at the end.  `curl_object`, `pool_`,
`pool_mutex` are the variables of those names; a slot of the stack after `release()` is
`Null`.  An exception between borrowing and returning destroys the handle
(`Throw`: an illegal verb, or a JSON body that does not parse).  A connection may fail
before, during or after the reply; the result of `curl_easy_perform` is ignored, as in the
code, so a broken transfer goes on to `getResponse`.  `isContentTypeVPack` is the code's
(`the content type, or a non-empty payload`), which is why it never throws here either.
The values of a handle that do not reach the wire (error buffer, `_request`) are left out.

*Connection.*  A connection is a record of URL, user, access, database and password; `Same`
is `operator==`, without the password.  `ResetDBConnection` returns early when they are
the same and otherwise replaces the connection and starts the test.  `Ask` is the exchange
when the server answers, `AskFails` when an exception comes of it, whatever state the server is in:
the connection fails or breaks, the handle cannot be made, the status is another, the body cannot be
read.  `Tested` writes `connected_message`.  A text that says that the exchange failed
(`Failures`) can come of either, and tells nothing about the server.  The object under construction starts as `Default`.
`RootReset` and `Swap` are the two halves of the root client's reset: the new users object
is constructed (and tested) before the old one is destroyed.

*Cursor.*  `slice` is the reply being worked on, `todo` the records `extractData` has not
passed on, `delivered` what the callback took.  `Select(Query)` is `selectQuery` or
`selectAll` (`collectQuery` calls the former), `Select(Lookup)` is `lookupByKeys`.  The
listing of edge collections that `createEdgeRequest` may make first changes nothing at the
server and is not a step of its own; its exception is `IllegalQuery`.

*Catalog.*  `Check` and `GoOn` are what follows the reply to `existX`, `Act` what follows
the reply to the request that creates or drops.  `CheckThrows`, `Exists`, `Created` and
`Dropped` are the status tests of the four kinds, which differ: `existCollection` reads the
body and throws on the body of an error, `existGraph` and `existDatabase` take all but 404
for existence, `existUser` all but 200 for absence.  A body with status 5 ("deleted") is
not produced by the servers these requests are for and is left out.  The operation
"change" is `updateUser` and `grantUserToDataBase` for users, `addVertexGraph` and
`addEdgeGraph` for graphs: one request, without a check before it.  A graph brings its
collections along: they are created with it, and dropped with it when the caller of
`removeGraph` says so; a database brings along the users that `createDatabase` passes with it
(`Along`).

*Documents.*  `Send` is an operation up to `sendREQUEST`, `Read`, `Exists` and `Wrote` what
follows it; the record operations of a graph differ in the path and in where the id stands
in the reply.  `getId` (in `DocumentHandles`) is over the parts of a handle, a handle being a key
or a collection and a key; names of collections are sequences of letters because the code
searches them.  What the caller means (`NamedBy`) is defined apart from it.
`documents` keeps of a document which call wrote it.

*Edges.*  `todo` is what is left of the listing in the loop of `removeEdges`, `step` which of
the collection's two requests is under way (edges to the vertex, then edges from it);
`Current`, the collection the loop is at, is the least, because `collectionNames` returns an
ordered set.  `removeByTemplate` and `removeByKeys` are the same requests without loop or
listing.  The vertex of `removeEdges` is named by a collection and a handle: the requests are
for the id that `getId` makes of them, what the caller means (`asked`) is about `NamedBy`, and
`own` remembers whether the handle was a key or an id of that very collection.  A graph's vertices
are documents, so an id that no document has is that of no vertex either.  `getKey` is over the
parts of a handle.  A selection of edges without collections
of its own asks for the listing first and puts the names into the query, restricted to
`full_list_of_edges` when that is set.  The server is taken to remove by keys the documents
with exactly these keys; a key with a slash in it, which `getKey` leaves of an id of another
collection, is the key of none.

*Sanitization.*  `input_key` is what the loop has not seen, `legal_key` what it has made,
`first` whether an illegal character gets an underscore (the code's flag).  Characters are
bytes; which of them are letters is the locale's answer to `isalnum`, hence the parameter
`Alnum`.  `SanitizeAgain` starts over with the result, as callers do with a stored handle.
`MaxLength` is the code's 254.

## 3. Runs

`expect` is what TLC must find.  State counts are from TLC with two workers.

| Run | Config | Expect | Distinct states | Question |
|---|---|---|---|---|
| transport | `MCTransport.cfg` | pass | 286 320 | two threads, three calls, every interleaving and failure |
| transport_reuse | `MCTransportReuse.cfg` | pass | 245 181 | every pair of requests over one reused handle |
| transport_broken | `MCTransportBroken.cfg` | violation | - | can a partial reply be returned? |
| connection | `MCConnection.cfg` | pass | 888 400 | resets and tests against changing servers and over failing requests |
| connection_password | `MCConnectionPassword.cfg` | violation | - | does a reset take effect? |
| cursor | `MCCursor.cfg` | pass | 113 764 | two calls of up to three batches |
| cursor_partial | `MCCursorPartial.cfg` | violation | - | does a call that returns deliver all records? |
| catalog | `MCCatalog.cfg` | pass | 1 757 957 | two clients, three calls, on one name of each kind |
| documents | `MCDocuments.cfg` | pass | 923 443 | two clients, one call each, by key and by id, in two collections |
| documents_other | `MCDocumentsOther.cfg` | violation | - | does a call throw that names another collection than the document's? |
| edges | `MCEdges.cfg` | pass | 87 904 | one call that removes or selects edges while others change everything |
| sanitization | `MCSanitization.cfg` | pass | 34 273 | every text of up to five characters, sanitized twice |

### What the passing runs show

- **transport.**  `ExclusiveHandles`, `HandlesAccountedFor`, `PoolBounded`: one owner per
  handle, no leak and no use after destruction on any exit, at most one handle per thread.
  `HandleUntouchedByOthers`: an owned handle changes by its owner's steps only.
  `CallsReachNetwork` (liveness): outside `curl_easy_perform` every call goes on, whatever
  the others' networks do.  `ImplementsService`: the refinement.
- **transport_reuse.**  `WireIsOwnRequest`: what the server receives is what the request
  says by itself.  `ResponseIsOwn`: what is returned was received in this exchange.
- **connection.**  `AccountInForce`, `ReportIsAboutConnection`, `RootFollowsData`, and
  `ReportWasTrue`: that it is connected, that the login is not accepted, or that there is no such
  database, is reported only if it was so at some moment of the test.  Of a report that the
  exchange failed nothing is claimed, since `sendREQUEST` may throw at any time.
- **cursor.**  `DeliveredInOrder`, `DeliveredFromSnapshot`, `ReturnIsComplete`,
  `CleanReturnLeavesNoCursor`, `AnsweredCallsEnd` (liveness).
- **catalog.**  `AnswerWasTrue` (exist and list), `ReturnMeansDone` (create, drop, change),
  `ThrowMeansNoEffect`.  They speak of "some moment of the call", which is all a client
  without transactions can know.
- **documents.**  `ReadWasTrue`, `ReturnedIdWasWritten`, `ThrowMeansNoWrite`,
  `FailsOnlyIfAbsent`, `WritesWhatHandleNames`, all about the document the handle names
  (`NamedBy`), which is defined apart from what `getId` makes of the handle.
- **edges.**  `ReturnMeansGone`, `LeftInUnfinished` (what a removal that failed half-way has
  left is in the collection it failed at or behind it), `NothingElseRemoved`,
  `SelectionIsComplete`, `AnsweredCallsEnd` (liveness: the loop of `removeEdges` ends).
  `asked`, the edges the caller means, is defined apart from what the requests ask for: for
  removeEdges the edges of the vertex named, so that `NothingElseRemoved` is about what `getId`
  makes of the vertex as well as about what `getKey` makes of documents.
- **sanitization.**  `ResultIsKey`, `KeysAreKept`, and `AgreesWithReference`, which compares
  the loop with a definition that has none.

Their antecedents say where the promise ends: `~refused` and `"batch" \notin resent` in
`Cursor`, `~resent` in `Catalog` and `Documents`, `~refused` in `Documents` and `Edges`, `own` in `Edges`
(as `OwnHandle` in `Documents`), the kinds whose existence check fails open.  What happens beyond
them is the code's behaviour and no property forbids it: cursors left open by early exits,
the empty set of a refused listing, a request executed after its call was given up.

### What the violations show

1. `transport_broken`: `sendREQUEST` ignores the result of `sendRequest`
   (`src/arangocollection.cpp:86`); a body other than JSON that is cut short is returned.
2. `connection_password`: `operator==` ignores passwords (`src/arangoconnect.cpp:31-45`),
   so a reset that changes nothing else is dropped (`src/arangocollection.cpp:24`), in the
   constructor too.
3. `cursor_partial`: a refused request for a later batch ends a selection as if it were complete
   (`src/arangocollection.cpp` 537-539, 590-592).  The same silence about a refused query
   (521-523, 577-579) is not flagged: no records have been promised then.
4. `documents_other`: `getId` searches for the name of the collection anywhere in the handle
   (`include/arango-cpp/arangocollection.h:79`), so that `mytest/k1` passed with `test` is
   taken for an id, and `deleteDocument` deletes a document of `mytest`.

Four more disagreements of the same kind were met while modelling and are set aside by an
antecedent or a parameter instead of having a run of their own:

- `existGraph` and `existDatabase` take every status but 404 for existence
  (`src/arangograph.cpp:19`), so that `createGraph` returns over a 503 without a graph;
  `ReturnMeansDone` makes no promise about the creation of graphs and databases.
- `collectionNames` returns no names when the listing is refused
  (`src/arangocollection.cpp:201`), so that `removeEdges` returns and has removed nothing;
  `ReturnMeansGone` has `~refused`.
- `removeEdges` hands its vertex to the same `getId` (`src/arangocollection.cpp:707`): with the id
  of a vertex of another collection it either removes the edges of that vertex, although it was
  asked about this collection, or, when the id does not contain this collection's name, asks for
  the edges of a vertex there is none of, and returns.  `NothingElseRemoved` allows the former,
  which is what the id names; `ReturnMeansGone` and `LeftInUnfinished` have `own`.
- `KeyPunctuationCharacters` (`src/arangocollection.cpp:44`) lacks the percent sign that the
  comment above it lists among the characters of a key; in `Sanitization` it is one of
  `Others`, whose members are replaced.

### Bounds

- *Transport*: two threads are enough to contend for every statement of the pool; one makes
  two calls and the other one, so that a handle is reused by its own and by the other
  thread, and is destroyed and made again.  A reply has two fragments: one that arrives and
  one that does not.  Three handle identities for two threads, so that `PoolBounded` could
  fail.  The reuse run takes all verbs instead of two threads: interference between threads
  is settled by the first run (and by the proofs).
- *Connection*: one client object, a root client with the old and the new users object,
  five connections that differ pairwise in password, database, or everything; three facts
  that change (the password of the local root, a database, a server).
- *Cursor*: five documents in batches of two make a full, a middle and a short batch; the
  two documents that others write make the listing of three to five documents.  Two calls,
  so that a cursor of the first is there during the second.  Three cursors: a query that is
  repeated opens two.
- *Catalog*: one name, since things of different names do not meet; all kinds; two clients
  with two calls and one.

- *Documents*: two collections, the name of one the end of the name of the other, each with
  two keys of which callers name one: the other is what the server makes when it is left to
  it, and a creation that is repeated makes two.  Every call meets one of the other client's
  and, through `abandoned`, one that the other client has given up.
- *Edges*: two collections, so that the loop has one behind it and one before it; three
  edges, one of them a loop at its vertex (which both requests of a step match) and two with
  the same key in different collections.  Two collections of vertices, the name of one the end
  of the name of the other, with a vertex of the same key in each, so that `getId` meets keys,
  ids of its own collection, ids it takes for its own, and ids it does not know.  One call: a call leaves nothing behind that the
  next one reads, and other clients have already put the collections in any state.
- *Sanitization*: five kinds of characters (letter, legal punctuation, whitespace and two
  illegal ones that are not), five characters, keys of three: every text of the shape
  "trimmed, cut, in a run, at either end" is among them.

### Fairness

- `Transport`: weak fairness of each thread's own steps (`Library`), which is the operating
  system running runnable threads.  The mutex is held over a few statements only, so weak
  fairness suffices in the instance: with finitely many calls nobody is overtaken for ever.
- `Cursor`, `Edges`: weak fairness of the client's steps that follow a reply.
- No fairness of the network or the server anywhere: `sendRequest` sets no timeout, so a
  silent server may hold a call for ever.  `AnsweredCallsEnd` has the answers as its
  antecedent instead.

## 4. Proofs

`TransportProofs` (any threads, handles, requests, logins, replies, number of fragments):

- `Memoryless`: `Wire(sendRequest(o, r, json))` does not depend on what `o` held before,
  except for the login, which `setConnectData` has just set.  By cases over the verb
  (`SetVerbResult`) and over the payload.
- `PoolInvariant`: `PoolInv` is inductive.  `ExclusiveHandles` alone is not: after
  `Take` the top slot is empty, and only the mutex keeps other threads from seeing it.  The
  strengthening says that the owner of the mutex is the one thread inside the pool
  (`MutexInv`), that a slot is empty only on top and only while that thread is at `pop`
  (`SlotInv`), and that `Take` finds a handle (`TakeInv`).  `Exclusion` and `Accounting`
  follow.
- `ExchangeInvariant`: on top of that, what an owned handle, its buffers and the server
  hold at each `pc` of its owner.  One lemma says that a step of one thread leaves the
  exchange of another alone (`Locality`), which needs the exclusion just proved; the rest is
  about a thread's own steps.  `TypeCorrect`, `OwnRequest`, `OwnResponse` and `Untouched`
  follow.
- `Bounded`: never more handles than threads.  Only `Grow` makes a handle, and only over an
  empty pool; then, by `HandlesAccountedFor`, every live handle has an owner, and the thread
  that makes the new one is none of them (`OwnedByOthers`).  It needs that the threads are
  finitely many.

`ServiceProofs` (the same constants):

- `Implements`: `Transport` implements `RequestService`.  `StartCall` is `Ask`, `Transmit` is
  `Serve`, `CheckResponse` is `Answer` or `Fail`, an exception is `Fail`, and every other step
  leaves what the service has as it is (`InternalKept`); a step of one thread changes it at that
  thread only (`Updates`, from `Locality`).  That what is sent is the request and that what is
  returned is its reply comes from `ExchangeInv`.  That a request is sent twice at most does not,
  and is what `ServiceInvariant` adds (`RetryInv`): libcurl repeats a request on a kept
  connection only, and after that the connection is not a kept one.

`ConnectionProofs` (any objects, connections and facts):

- `ConnectionInvariant`: `Inv`, which adds to the checked invariants what is known while a
  test is going on (`TestInv`: an answer was true, or is a failure) and while the root client's new object is not yet in place
  (`RootInv`).  `TypeCorrect`, `Account`, `Reported`, `RootFollows`, `Truthful` follow.

`SanitizationProofs` (any alphabet, any text, any limit of the length):

- `SanitizationInvariant`: `IInv`.  `TrimInv` says that nothing is made while
  whitespace is taken off, `BlankInv` that something is left or made unless the text is blank,
  `KeyInv` that of a text that is a key already, the part made and the part left are the text
  (`Split`), so that no character of it is ever replaced or cut, `DoneInv` what a result is.
  `TypeCorrect`, `Legality` and `Idempotence` follow.
- `Reference`: the key is the one of the definition without a loop (`AgreesWithReference`).
  `RefInv` says that, while the ends are trimmed, what is left is a window of the text outside
  of which there is only whitespace (`WindowInv`), and that in the loop the key so far is what
  the definition makes of the characters seen so far (`LookedInv`).  `RankFacts` counts the
  characters that are kept, one at a time; `WindowIsTrimmed` is why trimming from both ends
  stops at the text the definition trims.

`EdgesProofs` (any collections, vertices, edges, keys and limits):

- `RequestsMean`: what the two requests of `removeEdges` ask for is meant by the caller, since
  `getId` makes the id of the vertex named or that of no vertex (`HandleNames`), and is all that is
  meant when the handle is one of the collection passed.
- `EdgesInvariant`: `IInv`.  `AskedInv` relates what the requests ask for to what the caller
  means, `ListInv` says that a listing has the collections of all edges that stayed since the
  call began, `LeftInv` that of these edges those the caller means (`Due`: none
  when `own` does not hold) are in the collections still to do, `CurrentInv` that in the collection the loop is at they are not matched by a request
  that has been answered, `SelectInv` the same of a selection.  `ReturnMeansGone` by
  itself says nothing until the call returns; `LeftInv` is what the loop keeps.  `TypeCorrect`,
  `Gone`, `Unfinished`, `NothingElse` and `Selected` follow.

`CatalogProofs` (any clients, names and kinds, any first states, any number of calls):

- `CatalogInvariant`: `IInv`.  `StageInv` says which requests a call of which operation
  is in, and that what there is now is among what the call has seen; `ReplyInv` that a
  reply on its way is true of something the call has seen, and whether the call has changed the
  catalog; `EndInv` what the properties say.  A step of one client leaves of another its
  variables and lets what it has seen grow (`Kept`), and the invariant of a client survives
  that (`InvKept`), so each step is proved for its own client only (`InvLocal`).
  `StatusMeans` is why the client and the server agree on what a success is, for all four
  kinds.  `TypeCorrect`, `Answers`, `Returns` and `NoEffect` follow.

`CursorProofs` (any documents, batch size, number of calls and of cursors):

- `CursorInvariant`: `IInv`.  The properties speak of what is delivered; what a step keeps is
  about all three places rows are in.  `OrderInv` says that the rows delivered, those in hand
  and those at the server are in order in this order, even after a batch has been lost with a
  repeated request; `SnapshotInv` that until then the three make up the listing that
  answered the query, and that the rows in hand are the last ones when the reply says so;
  `OpenInv` that of the cursors opened since the call began only the one it reads is open.
  `RowsSplit` says that the server's cutting of a batch, and `HandOver` that the callback's
  taking a record, lose and add none.  `TypeCorrect`, `InOrder`, `FromSnapshot`, `Complete` and
  `NoCursorLeft` follow.

`DocumentsProofs` (any clients, collections, names of collections, keys and handles):

- `DocumentsInvariant`: `IInv`, client by client: `SeenInv` (a call under way has seen its
  document as it is), `WrittenInv` (what it has written is what it may write), `ReplyInv` (a
  reply on its way is true of something seen and tells whether anything was written), `EndInv`
  (what the properties say).  As in `CatalogProofs` a step of another client is one lemma
  (`InvKept`).  `HandleNames` says what `getId` makes of a handle, by cases over the parts
  of the handle: the id of the document it names, or the id of none; always the former for a key
  or an id of the collection passed.  `TypeCorrect`, `ReadsAreTrue`,
  `ReturnedIds`, `ThrowsWriteNothing`, `FailuresAreTrue` and `WritesTheNamed` follow.

Assumptions are the named ASSUMEs of the modules, which TLC evaluates in every run.  They
separate the constants that stand for nothing (`Null`, `NoThread`, `NoBody`) from the values
proper, say which sets the parameters are from, and, of `Transport`, that a process has finitely
many threads; of `Documents`, that a collection has a name and that the name is not empty; of
`Edges`, that the ends of an edge are vertices.
Each invariant was checked by TLC on the constants of its component's run before it was proved.

Every invariant, every action property and the refinement that a passing run checks is a
theorem.  Only model-checked: the liveness properties (`CallsReachNetwork` and the
`AnsweredCallsEnd` of `Cursor` and `Edges`), since TLAPS has neither ENABLED nor leads-to under
fairness, and the four violations, which are counterexamples.  No module uses RECURSIVE
operators.

## 5. Not modelled

- The settings file: `connectFromSettings` is a sequence of lookups in one text, each of which
  succeeds, falls back on the local root, or throws.  What matters to others is that it sets
  the two encoding flags; a request reads each of them once, so that `JsonModes`, the
  encodings a request of `Transport` may be in, stands for their changes.
- `ArangoDBQuery`: it concatenates AQL.  `Cursor` and `Edges` take a query by what it selects.
  (`createAQLRequest` looks for `RETURN` in capitals; a query that fails for that is refused,
  which `Refuse` covers.)  The batch size of a query is a constant; its doubling for
  `batchSize` may overflow.
- Replies without a body, on which `slices().front()` is undefined.
- VelocyPack, JSON, query text, handles as strings: data that the properties do not tell
  apart.  The header split at `;` belongs here.
- `curl_global_init` and `curl_global_cleanup` at the start and exit of the process.
- One API object used by two threads: the library has no lock for it and does not offer it.

## 6. Plan

Done: all components with state, each with its run, its inductive invariant and its proofs, and
the refinement of `RequestService`.

1. A theorem that relates `Cursor`, `Catalog`, `Documents`, `Edges` and `Connection` to
   `RequestService`.  They take from it the outcomes of a request (`Resend`, `NoAnswer`, a
   reply after the request was received) by reading, not by INSTANCE.
2. What of the termination of the loops is a safety property: that every reply that is worked
   on leaves less to do (rows in `Cursor`, collections in `Edges`).
