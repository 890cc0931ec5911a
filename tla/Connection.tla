----------------------------- MODULE Connection -----------------------------
(***************************************************************************)
(* What API objects are connected with.  An ArangoDBAPIBase starts as the  *)
(* local default connection, and resetDBConnection - its constructor calls *)
(* it too - replaces that and asks the server for its version, unless the  *)
(* old and the new connection are equal as operator== sees them, which     *)
(* does not look at the password.                                          *)
(*                                                                         *)
(* ArangoDBRootClient keeps a copy of its connection and makes a new users *)
(* object at every reset; the old one goes when the new one is complete.   *)
(*                                                                         *)
(* Logins, databases and servers come and go at any time, between a test   *)
(* and the report of it too.  A test may fail although the server is up    *)
(* and the login right: then the report is the text of the exception.  An  *)
(* object is used by one thread.                                           *)
(***************************************************************************)
CONSTANTS Clients,     \* collection and graph API objects of the program
          UsersAPIs,   \* identities of the root client's users objects
          Connections, \* the connections the program passes
          Default,     \* ArangoDBConnection()
          Volatile,    \* bound: the facts about servers that change
          Null         \* no connection, no object, no report

Objects == Clients \cup UsersAPIs

VARIABLES
  connect_data,      \* object -> its connection; Null: not constructed
  connected_message, \* object -> the report of its latest test, or Null
  testing,           \* object -> "no", "asking", or the answer on its way
  rootData,          \* the root client's connection; Null: no root client yet
  pusers,            \* the users object the root client works with
  servers,           \* facts: which servers run, which logins and databases exist
  requested,         \* history: object -> the connection last passed to it
  truths             \* history: object -> answers true since the test going on began

objectVars  == <<connect_data, connected_message, testing>>
vars == <<objectVars, rootData, pusers, servers, requested, truths>>

Up(c)    == <<"up", c.url>>
Login(c) == <<"login", c.url, c.name, c.password>>
DB(c)    == <<"db", c.url, c.db>>
Facts    == UNION {{Up(c), Login(c), DB(c)} : c \in Connections}

\* The server's answer to GET /_api/version with this connection.
Answer(facts, c) ==
  CASE Up(c) \notin facts -> "Connections error"
    [] Up(c) \in facts /\ Login(c) \notin facts -> "not authorized"
    [] {Up(c), Login(c)} \subseteq facts /\ DB(c) \notin facts -> "database not found"
    [] {Up(c), Login(c), DB(c)} \subseteq facts -> "connected"

\* What operator== of ArangoDBConnection, and of ArangoDBUser within, compares.
Compared == {"url", "name", "access", "db"}

\* How a test may end whatever the server has: without a reply (status 0), or over one
\* that is no answer: another status, a body cut short, an illegal content type.
Failures == {"Connections error", "error"}

Answers == {"connected", "not authorized", "database not found"} \cup Failures
Report  == [about : Connections, answer : Answers]

ASSUME ConnectionAssumption ==
  /\ Default \in Connections
  /\ \A c \in Connections : DOMAIN c = Compared \cup {"password"}
  /\ Null \notin Connections \cup Report
  /\ Clients \cap UsersAPIs = {}
  /\ Null \notin Objects
  /\ Volatile \subseteq Facts

\* Mutant: the database is not compared.
Same_NoDatabase(l, r) == \A f \in Compared \ {"db"} : l[f] = r[f]

\* operator== of ArangoDBConnection, and of ArangoDBUser within.
Same(l, r) == \A f \in Compared : l[f] = r[f]

Init ==
  /\ connect_data = [o \in Objects |-> Null]
  /\ connected_message = [o \in Objects |-> Null]
  /\ testing = [o \in Objects |-> "no"]
  /\ rootData = Null /\ pusers = Null
  /\ servers = Facts
  /\ requested = [o \in Objects |-> Null]
  /\ truths = [o \in Objects |-> {}]

-----------------------------------------------------------------------------
(* API objects. *)

\* Mutant: the connection is replaced without a test.
Replace_NoTest(o, c) ==
  /\ connect_data' = [connect_data EXCEPT ![o] = c]
  /\ UNCHANGED <<connected_message, testing, truths>>

\* Mutant: the test starts before the assignment.
Replace_TestFirst(o, c) ==
  /\ connect_data' = [connect_data EXCEPT ![o] = c]
  /\ connected_message' = [connected_message EXCEPT ![o] = Null]
  /\ testing' = [testing EXCEPT ![o] =
       Answer(servers, IF connect_data[o] = Null THEN Default ELSE connect_data[o])]
  /\ truths' = [truths EXCEPT ![o] = {Answer(servers, c)}]

\* Mutant: only the login is assigned.
Replace_LoginOnly(o, c) ==
  /\ connect_data' = [connect_data EXCEPT ![o] =
       [(IF @ = Null THEN Default ELSE @) EXCEPT !.name = c.name, !.password = c.password]]
  /\ connected_message' = [connected_message EXCEPT ![o] = Null]
  /\ testing' = [testing EXCEPT ![o] = "asking"]
  /\ truths' = [truths EXCEPT ![o] = {Answer(servers, c)}]

\* testConnection starts: the message is cleared and the request made.
Replace(o, c) ==
  /\ connect_data' = [connect_data EXCEPT ![o] = c]
  /\ connected_message' = [connected_message EXCEPT ![o] = Null]
  /\ testing' = [testing EXCEPT ![o] = "asking"]
  /\ truths' = [truths EXCEPT ![o] = {Answer(servers, c)}]

\* resetDBConnection, on an object connected with "old".
ResetDBConnection(o, old, c) ==
  /\ requested' = [requested EXCEPT ![o] = c]
  /\ \/ /\ Same(old, c)
        /\ connect_data' = [connect_data EXCEPT ![o] = old]
        /\ UNCHANGED <<connected_message, testing, truths>>
     \/ ~Same(old, c) /\ Replace(o, c)

\* The constructor: connect_data is a default connection before the reset.
Construct(o, c) ==
  /\ connect_data[o] = Null
  /\ ResetDBConnection(o, Default, c)

ConstructClient(o, c) ==
  /\ Construct(o, c)
  /\ UNCHANGED <<rootData, pusers, servers>>

Reset(o, c) ==
  /\ connect_data[o] # Null /\ testing[o] = "no"
  /\ ResetDBConnection(o, connect_data[o], c)
  /\ UNCHANGED <<rootData, pusers, servers>>

Ends(o, answer) ==
  /\ testing[o] = "asking"
  /\ testing' = [testing EXCEPT ![o] = answer]
  /\ UNCHANGED <<connect_data, connected_message, rootData, pusers, servers, requested,
                 truths>>

\* The server's answer arrives.
Ask(o) == Ends(o, Answer(servers, connect_data[o]))

\* The connection is lost, the handle cannot be made, or the reply cannot be read:
\* sendREQUEST or the reading of the body throws, and testConnection catches.
AskFails(o) == \E failure \in Failures : Ends(o, failure)

\* connected_message gets the text of the answer or of the exception.
Tested(o) ==
  /\ testing[o] \notin {"no", "asking"}
  /\ connected_message' =
       [connected_message EXCEPT ![o] = [about |-> connect_data[o], answer |-> testing[o]]]
  /\ testing' = [testing EXCEPT ![o] = "no"] /\ truths' = [truths EXCEPT ![o] = {}]
  /\ UNCHANGED <<connect_data, rootData, pusers, servers, requested>>

-----------------------------------------------------------------------------
(* The root client. *)

Spare == {o \in UsersAPIs : connect_data[o] = Null}
Fresh == UsersAPIs \ (Spare \cup {pusers})   \* constructed, not yet in place

\* Mutant: the users object is made before rootData is replaced.
RootReset_OldData(o, c) ==
  /\ o \in Spare /\ Fresh = {}
  /\ Construct(o, IF rootData = Null THEN Default ELSE rootData)
  /\ rootData' = c
  /\ UNCHANGED <<pusers, servers>>

\* ArangoDBRootClient::resetDBConnection, its constructor too.
RootReset(o, c) ==
  /\ o \in Spare /\ Fresh = {}
  /\ rootData' = c
  /\ Construct(o, c)
  /\ UNCHANGED <<pusers, servers>>

Without(f, o, value) == IF o = Null THEN f ELSE [f EXCEPT ![o] = value]

\* pusers.reset: the new object is complete, the old one is destroyed.
Swap(o) ==
  /\ o \in Fresh /\ testing[o] = "no"
  /\ pusers' = o
  /\ connect_data' = Without(connect_data, pusers, Null)
  /\ connected_message' = Without(connected_message, pusers, Null)
  /\ requested' = Without(requested, pusers, Null)
  /\ UNCHANGED <<testing, rootData, servers, truths>>

-----------------------------------------------------------------------------

\* A server starts or stops, a login or a database is created or removed.
Change(fact) ==
  /\ servers' = IF fact \in servers THEN servers \ {fact} ELSE servers \cup {fact}
  /\ truths' = [o \in Objects |->
       IF testing[o] = "no" THEN truths[o]
       ELSE truths[o] \cup {Answer(servers', connect_data[o])}]
  /\ UNCHANGED <<objectVars, rootData, pusers, requested>>

Next ==
  \/ \E o \in Clients, c \in Connections : ConstructClient(o, c) \/ Reset(o, c)
  \/ \E o \in Objects : Ask(o) \/ AskFails(o) \/ Tested(o)
  \/ \E o \in UsersAPIs, c \in Connections : RootReset(o, c)
  \/ \E o \in UsersAPIs : Swap(o)
  \/ \E fact \in Volatile : Change(fact)

Spec == Init /\ [][Next]_vars

-----------------------------------------------------------------------------
(* Properties. *)

Constructed == {o \in Objects : connect_data[o] # Null}
Settled     == {o \in Constructed : testing[o] = "no"}

\* The variables have their types; only a constructed object is tested or has a
\* report, and the root client's users object is a constructed one.
TypeOK ==
  /\ connect_data \in [Objects -> Connections \cup {Null}]
  /\ connected_message \in [Objects -> Report \cup {Null}]
  /\ testing \in [Objects -> {"no", "asking"} \cup Answers]
  /\ rootData \in Connections \cup {Null}
  /\ pusers \in UsersAPIs \cup {Null}
  /\ servers \subseteq Facts
  /\ requested \in [Objects -> Connections \cup {Null}]
  /\ truths \in [Objects -> SUBSET Answers]
  /\ \A o \in Objects \ Constructed : connected_message[o] = Null /\ testing[o] = "no"
  /\ pusers # Null => pusers \in Settled

\* Whatever resets came before, an object works on the server, the database and the
\* account of its last one, with a connection that was passed as a whole (TypeOK), or
\* the default: never the user of one with the password or the server of another.
\* What it may lack is the password of the last reset (operator== ignores it).
AccountInForce ==
  \A o \in Constructed : \A f \in Compared : connect_data[o][f] = requested[o][f]

\* getConnectMessage tells of a test of the very connection in use, password
\* included; it is empty only on an object connected as the local default.
ReportIsAboutConnection ==
  \A o \in Settled :
    \/ connected_message[o] = Null /\ connect_data[o] = Default
    \/ connected_message[o] # Null /\ connected_message[o].about = connect_data[o]

\* A report that tells of the server - that the client is connected, that the login is not
\* accepted, that there is no such database - was true of the connection in use at some
\* moment since the reset that asked for it, although the servers change and replies are
\* lost while the test is going on.  Any other report is the text of an exception, and
\* tells that the test has failed; it is not evidence of anything about the server.
ReportWasTrue ==
  [][\A o \in Objects :
       connected_message'[o] \notin {Null, connected_message[o]}
         => connected_message'[o].answer \in truths[o] \cup Failures]_vars

\* Between resets the root client's users object is connected with rootData, or as
\* the default when rootData differs from the default in nothing but the password.
RootFollowsData ==
  pusers # Null /\ Fresh = {} =>
    \/ connect_data[pusers] = rootData
    \/ Same(rootData, Default) /\ connect_data[pusers] = Default

\* What a reset is documented to do, "Reset connections to ArangoDB server": once it
\* is over the object is connected with what was passed, password included.
ResetTakesEffect ==
  \A o \in Settled : connect_data[o] = requested[o]
=============================================================================
