-------------------------- MODULE ConnectionProofs --------------------------
(***************************************************************************)
(* Theorems about Connection, for every set of objects and connections.    *)
(* The invariant ties the account an object works with to the last reset,  *)
(* the report to the connection in use, and the users object of the root   *)
(* client, the one in place and the one being made, to rootData.           *)
(***************************************************************************)
EXTENDS Connection, TLAPS

\* What a constructor leaves: the connection, or the default when they are the same.
ConnectedAs(o, c) ==
  connect_data[o] = c \/ (Same(c, Default) /\ connect_data[o] = Default)

\* The root client: the users object being made was given rootData, and so was the
\* one in place when none is being made.
RootInv ==
  /\ \A o \in UsersAPIs : connect_data[o] # Null => ConnectedAs(o, requested[o])
  /\ \A o \in Fresh : requested[o] = rootData /\ \A p \in Fresh : p = o
  /\ pusers # Null /\ Fresh = {} => requested[pusers] = rootData

\* What the server would say to a test in progress is among what was true since it began,
\* and so is what the test has ended with, unless it has failed.
TestInv ==
  \A o \in Objects :
    /\ testing[o] # "no" => Answer(servers, connect_data[o]) \in truths[o]
    /\ testing[o] \notin {"no", "asking"} => testing[o] \in truths[o] \cup Failures

Inv == TypeOK /\ AccountInForce /\ ReportIsAboutConnection /\ RootInv /\ TestInv

\* Whatever the facts, a test ends with one of the answers.
LEMMA AnswerType ==
  ASSUME NEW facts, NEW c
  PROVE  Answer(facts, c) \in Answers
BY DEF Answer, Answers, Failures

\* operator== of the connections is symmetric.
LEMMA SameSymmetric ==
  ASSUME NEW c, NEW d, Same(c, d)
  PROVE  Same(d, c)
BY DEF Same

\* The two states of a test that is not answered are no answers.
LEMMA NotAnswers == "no" \notin Answers /\ "asking" \notin Answers
BY DEF Answers, Failures

\* The program starts in the invariant: no object is constructed.
LEMMA InvInit == Init => Inv
<1> SUFFICES ASSUME Init PROVE Inv
  OBVIOUS
<1>1. TypeOK
  BY DEF Init, TypeOK, Constructed, Objects
<1>2. AccountInForce /\ ReportIsAboutConnection /\ TestInv
  BY DEF Init, AccountInForce, ReportIsAboutConnection, TestInv, Settled, Constructed
<1>3. RootInv
  BY DEF Init, RootInv, Fresh, Spare, Objects
<1> QED
  BY <1>1, <1>2, <1>3 DEF Inv

\* What resetDBConnection does to one object, in its constructor or later.
ResetOf(o, old, c) ==
  /\ ResetDBConnection(o, old, c)
  /\ testing[o] = "no" /\ servers' = servers
  /\ connect_data[o] = old \/ (connect_data[o] = Null /\ old = Default)

ObjectsOK == AccountInForce /\ ReportIsAboutConnection /\ TestInv

\* The parts of TypeOK a reset can disturb, but for the root client's.
ObjectTypes ==
  /\ connect_data \in [Objects -> Connections \cup {Null}]
  /\ connected_message \in [Objects -> Report \cup {Null}]
  /\ testing \in [Objects -> {"no", "asking"} \cup Answers]
  /\ requested \in [Objects -> Connections \cup {Null}]
  /\ truths \in [Objects -> SUBSET Answers]
  /\ \A o \in Objects \ Constructed : connected_message[o] = Null /\ testing[o] = "no"

\* resetDBConnection keeps the types.
LEMMA ResetTypes ==
  ASSUME Inv, NEW o \in Objects, NEW old \in Connections, NEW c \in Connections,
         ResetOf(o, old, c)
  PROVE  /\ ObjectTypes'
         /\ connect_data'[o] # Null
         /\ \A p \in Objects \ {o} : /\ connect_data'[p] = connect_data[p]
                                     /\ testing'[p] = testing[p]
                                     /\ requested'[p] = requested[p]
         /\ requested'[o] = c
         /\ connect_data'[o] = IF Same(old, c) THEN old ELSE c
<1> USE ConnectionAssumption DEF Inv, TypeOK, ResetOf, ResetDBConnection, Constructed
<1>1. CASE Same(old, c) /\ connect_data' = [connect_data EXCEPT ![o] = old]
           /\ UNCHANGED <<connected_message, testing, truths>>
  BY <1>1 DEF ObjectTypes
<1>2. CASE ~Same(old, c) /\ Replace(o, c)
  BY <1>2, AnswerType DEF ObjectTypes, Replace
<1> QED
  BY <1>1, <1>2

\* resetDBConnection keeps what the invariant says of connections, reports and tests.
LEMMA ResetObjects ==
  ASSUME Inv, NEW o \in Objects, NEW old \in Connections, NEW c \in Connections,
         ResetOf(o, old, c)
  PROVE  ObjectsOK'
<1>0. /\ \A p \in Objects \ {o} : /\ connect_data'[p] = connect_data[p]
                                  /\ requested'[p] = requested[p]
      /\ requested'[o] = c
      /\ connect_data'[o] = IF Same(old, c) THEN old ELSE c
  BY ResetTypes
<1> USE ConnectionAssumption DEF Inv, TypeOK, ResetOf, ResetDBConnection
<1>1. AccountInForce'
  <2> SUFFICES ASSUME NEW p \in Objects, connect_data'[p] # Null, NEW f \in Compared
               PROVE  connect_data'[p][f] = requested'[p][f]
    BY DEF AccountInForce, Constructed
  <2>1. CASE p = o
    BY <2>1, <1>0 DEF Same
  <2>2. CASE p # o
    BY <2>2, <1>0 DEF AccountInForce, Constructed
  <2> QED
    BY <2>1, <2>2
<1>2. CASE Same(old, c) /\ connect_data' = [connect_data EXCEPT ![o] = old]
           /\ UNCHANGED <<connected_message, testing, truths>>
  <2>1. ReportIsAboutConnection'
    BY <1>2 DEF ReportIsAboutConnection, Settled, Constructed
  <2>2. TestInv'
    BY <1>2 DEF TestInv
  <2> QED
    BY <1>1, <2>1, <2>2 DEF ObjectsOK
<1>3. CASE ~Same(old, c) /\ Replace(o, c)
  <2>1. ReportIsAboutConnection'
    BY <1>3 DEF ReportIsAboutConnection, Settled, Constructed, Replace
  <2>2. TestInv'
    BY <1>3 DEF TestInv, Replace
  <2> QED
    BY <1>1, <2>1, <2>2 DEF ObjectsOK
<1> QED
  BY <1>2, <1>3

\* Every step keeps the invariant: one step of the proof per action.
LEMMA InvStep == Inv /\ [Next]_vars => Inv'
<1> SUFFICES ASSUME Inv, [Next]_vars PROVE Inv'
  OBVIOUS
<1> USE ConnectionAssumption
<1>1. ASSUME NEW o \in Clients, NEW c \in Connections, ConstructClient(o, c) PROVE Inv'
  <2>1. ResetOf(o, Default, c) /\ o \in Objects
    BY <1>1 DEF ConstructClient, Construct, ResetOf, Inv, TypeOK, Objects, Constructed
  <2>2. ObjectTypes' /\ ObjectsOK'
    BY <2>1, ResetTypes, ResetObjects
  <2>3. TypeOK'
    BY <1>1, <2>1, <2>2, ResetTypes
       DEF TypeOK, ObjectTypes, Settled, Constructed, ConstructClient, Inv, Objects
  <2>4. RootInv'
    <3>1. /\ \A p \in UsersAPIs : connect_data'[p] = connect_data[p] /\ requested'[p] = requested[p]
          /\ pusers' = pusers /\ rootData' = rootData
      BY <1>1, <2>1, ResetTypes DEF ConstructClient, Objects
    <3>2. Fresh' = Fresh
      BY <3>1 DEF Fresh, Spare
    <3> QED
      BY <3>1, <3>2 DEF RootInv, ConnectedAs, Fresh, Spare, Inv, TypeOK
  <2> QED
    BY <2>2, <2>3, <2>4 DEF Inv, ObjectsOK
<1>2. ASSUME NEW o \in Clients, NEW c \in Connections, Reset(o, c) PROVE Inv'
  <2>1. ResetOf(o, connect_data[o], c) /\ o \in Objects /\ connect_data[o] \in Connections
    BY <1>2 DEF Reset, ResetOf, Inv, TypeOK, Objects
  <2>2. ObjectTypes' /\ ObjectsOK'
    BY <2>1, ResetTypes, ResetObjects
  <2>3. TypeOK'
    BY <1>2, <2>1, <2>2, ResetTypes
       DEF TypeOK, ObjectTypes, Settled, Constructed, Reset, Inv, Objects
  <2>4. RootInv'
    <3>1. /\ \A p \in UsersAPIs : connect_data'[p] = connect_data[p] /\ requested'[p] = requested[p]
          /\ pusers' = pusers /\ rootData' = rootData
      BY <1>2, <2>1, ResetTypes DEF Reset, Objects
    <3>2. Fresh' = Fresh
      BY <3>1 DEF Fresh, Spare
    <3> QED
      BY <3>1, <3>2 DEF RootInv, ConnectedAs, Fresh, Spare, Inv, TypeOK
  <2> QED
    BY <2>2, <2>3, <2>4 DEF Inv, ObjectsOK
<1>3. ASSUME NEW o \in Objects, NEW answer \in Answers, Ends(o, answer),
             answer \in truths[o] \cup Failures
      PROVE  Inv'
  <2> USE <1>3, NotAnswers DEF Ends, Inv
  <2>1. TypeOK'
    BY DEF TypeOK, Settled, Constructed
  <2>2. AccountInForce'
    BY DEF AccountInForce, Constructed
  <2>3. ReportIsAboutConnection'
    BY DEF ReportIsAboutConnection, Settled, Constructed, TypeOK
  <2>4. RootInv'
    BY DEF RootInv, ConnectedAs, Fresh, Spare
  <2>5. TestInv'
    BY DEF TestInv, TypeOK
  <2> QED
    BY <2>1, <2>2, <2>3, <2>4, <2>5
<1>4. ASSUME NEW o \in Objects, Ask(o) \/ AskFails(o) PROVE Inv'
  <2>1. CASE Ask(o)
    <3>1. testing[o] = "asking" /\ Ends(o, Answer(servers, connect_data[o]))
      BY <2>1 DEF Ask, Ends
    <3>2. Answer(servers, connect_data[o]) \in truths[o]
      BY <3>1 DEF Inv, TestInv
    <3> QED
      BY <1>3, <3>1, <3>2, AnswerType
  <2>2. CASE AskFails(o)
    BY <1>3, <2>2 DEF AskFails, Answers
  <2> QED
    BY <1>4, <2>1, <2>2
<1>5. ASSUME NEW o \in Objects, Tested(o) PROVE Inv'
  <2> USE <1>5, NotAnswers DEF Tested, Inv
  <2>0. /\ connect_data[o] \in Connections /\ testing[o] \in Answers
        /\ [about |-> connect_data[o], answer |-> testing[o]] \in Report
    BY DEF TypeOK, Constructed, Report
  <2>1. TypeOK'
    BY <2>0 DEF TypeOK, Settled, Constructed
  <2>2. AccountInForce'
    BY DEF AccountInForce, Constructed
  <2>3. ReportIsAboutConnection'
    BY <2>0 DEF ReportIsAboutConnection, Settled, Constructed, TypeOK
  <2>4. RootInv'
    BY DEF RootInv, ConnectedAs, Fresh, Spare
  <2>5. TestInv'
    BY DEF TestInv, TypeOK
  <2> QED
    BY <2>1, <2>2, <2>3, <2>4, <2>5
<1>6. ASSUME NEW o \in UsersAPIs, NEW c \in Connections, RootReset(o, c) PROVE Inv'
  <2>1. ResetOf(o, Default, c) /\ o \in Objects
    BY <1>6 DEF RootReset, Construct, ResetOf, Inv, TypeOK, Objects, Constructed
  <2>2. ObjectTypes' /\ ObjectsOK'
    BY <2>1, ResetTypes, ResetObjects
  <2>3. TypeOK'
    <3>1. /\ rootData' = c /\ pusers' = pusers /\ servers' = servers /\ pusers # o
      BY <1>6 DEF RootReset, Spare, Objects, Construct, Inv, TypeOK, Settled, Constructed
    <3>2. pusers # Null => connect_data'[pusers] # Null /\ testing'[pusers] = "no"
                           /\ pusers \in Objects
      BY <2>1, <3>1, ResetTypes DEF Inv, TypeOK, Settled, Constructed, Objects
    <3> QED
      BY <2>2, <3>1, <3>2 DEF TypeOK, ObjectTypes, Settled, Constructed, Inv, Objects
  <2>4. RootInv'
    <3>1. \A p \in UsersAPIs : connect_data'[p] # Null =>
            \/ connect_data'[p] = requested'[p]
            \/ Same(requested'[p], Default) /\ connect_data'[p] = Default
      <4> SUFFICES ASSUME NEW p \in UsersAPIs, connect_data'[p] # Null
                   PROVE  \/ connect_data'[p] = requested'[p]
                          \/ Same(requested'[p], Default) /\ connect_data'[p] = Default
        OBVIOUS
      <4>1. CASE p = o
        BY <4>1, <2>1, ResetTypes, SameSymmetric
      <4>2. CASE p # o
        BY <4>2, <2>1, ResetTypes DEF RootInv, ConnectedAs, Inv, Objects
      <4> QED
        BY <4>1, <4>2
    <3>2. Fresh' = {o} /\ requested'[o] = rootData'
      BY <1>6, <2>1, ResetTypes
         DEF Fresh, Spare, RootReset, Inv, Objects, TypeOK, Settled, Constructed
    <3> QED
      BY <3>1, <3>2 DEF RootInv, ConnectedAs
  <2> QED
    BY <2>2, <2>3, <2>4 DEF Inv, ObjectsOK
<1>7. ASSUME NEW o \in UsersAPIs, Swap(o) PROVE Inv'
  <2> USE <1>7 DEF Swap, Without, Inv
  <2>0. /\ o \in Objects /\ o # pusers /\ connect_data[o] # Null
        /\ pusers # Null => pusers \in Objects
        /\ \A p \in Objects : connect_data'[p] = IF p = pusers THEN Null ELSE connect_data[p]
        /\ \A p \in Objects : requested'[p] = IF p = pusers THEN Null ELSE requested[p]
        /\ \A p \in Objects :
             connected_message'[p] = IF p = pusers THEN Null ELSE connected_message[p]
    BY DEF Fresh, Spare, Objects, TypeOK
  <2>1. TypeOK'
    BY <2>0 DEF TypeOK, Settled, Constructed, Objects
  <2>2. AccountInForce'
    BY <2>0 DEF AccountInForce, Constructed
  <2>3. ReportIsAboutConnection'
    BY <2>0 DEF ReportIsAboutConnection, Settled, Constructed
  <2>4. RootInv'
    <3>1. Fresh' = {} /\ requested'[o] = rootData'
      BY <2>0 DEF RootInv, Fresh, Spare, Objects
    <3>2. \A p \in UsersAPIs : connect_data'[p] # Null =>
            \/ connect_data'[p] = requested'[p]
            \/ Same(requested'[p], Default) /\ connect_data'[p] = Default
      BY <2>0 DEF RootInv, ConnectedAs, Objects
    <3> QED
      BY <3>1, <3>2 DEF RootInv, ConnectedAs
  <2>5. TestInv'
    BY <2>0 DEF TestInv, TypeOK, Settled
  <2> QED
    BY <2>1, <2>2, <2>3, <2>4, <2>5
<1>8. ASSUME NEW fact \in Volatile, Change(fact) PROVE Inv'
  <2> USE <1>8, AnswerType DEF Change, Inv
  <2>1. TypeOK'
    BY DEF TypeOK, Settled, Constructed, objectVars
  <2>2. AccountInForce'
    BY DEF AccountInForce, Constructed, objectVars
  <2>3. ReportIsAboutConnection'
    BY DEF ReportIsAboutConnection, Settled, Constructed, objectVars
  <2>4. RootInv'
    BY DEF RootInv, ConnectedAs, Fresh, Spare, objectVars
  <2>5. TestInv'
    BY DEF TestInv, TypeOK, objectVars
  <2> QED
    BY <2>1, <2>2, <2>3, <2>4, <2>5
<1>9. ASSUME UNCHANGED vars PROVE Inv'
  BY <1>9 DEF vars, objectVars, Inv, TypeOK, AccountInForce, ReportIsAboutConnection, RootInv,
              TestInv, ConnectedAs, Fresh, Spare, Settled, Constructed
<1> QED
  BY <1>1, <1>2, <1>4, <1>5, <1>6, <1>7, <1>8, <1>9 DEF Next

\* The invariant holds throughout: what resets, tests and servers do never pulls the
\* account, the report and the root client apart.
THEOREM ConnectionInvariant == Spec => []Inv
  BY InvInit, InvStep, PTL DEF Spec

\* The variables of Connection have their types.
THEOREM TypeCorrect == Spec => []TypeOK
<1>1. Inv => TypeOK
  BY DEF Inv
<1> QED
  BY <1>1, ConnectionInvariant, PTL

\* An object works with the server, database and account of its last reset.
THEOREM Account == Spec => []AccountInForce
<1>1. Inv => AccountInForce
  BY DEF Inv
<1> QED
  BY <1>1, ConnectionInvariant, PTL

\* getConnectMessage tells of the connection in use, and is empty only on the default.
THEOREM Reported == Spec => []ReportIsAboutConnection
<1>1. Inv => ReportIsAboutConnection
  BY DEF Inv
<1> QED
  BY <1>1, ConnectionInvariant, PTL

\* The root client's users object is connected with rootData, or as the default when
\* only the password differs.
THEOREM RootFollows == Spec => []RootFollowsData
<1>1. Inv => RootFollowsData
  BY DEF Inv, TypeOK, RootInv, RootFollowsData, ConnectedAs, Settled, Constructed
<1> QED
  BY <1>1, ConnectionInvariant, PTL

\* A report that tells of the server was true of the connection during the test, however
\* many exchanges fail and whatever changes meanwhile.
THEOREM Truthful == Spec => ReportWasTrue
<1>1. Inv /\ [Next]_vars =>
        [\A o \in Objects :
           connected_message'[o] \notin {Null, connected_message[o]}
             => connected_message'[o].answer \in truths[o] \cup Failures]_vars
  <2> SUFFICES ASSUME Inv, Next, NEW o \in Objects,
                      connected_message'[o] \notin {Null, connected_message[o]}
               PROVE  connected_message'[o].answer \in truths[o] \cup Failures
    OBVIOUS
  <2>1. \E p \in Objects : Tested(p)
    BY DEF Next, Inv, TypeOK, ConstructClient, Reset, Construct, ResetDBConnection, Replace,
           RootReset, Ask, AskFails, Ends, Swap, Without, Change, objectVars, Objects
  <2> QED
    BY <2>1 DEF Tested, Inv, TypeOK, TestInv
<1> QED
  BY <1>1, ConnectionInvariant, PTL DEF Spec, ReportWasTrue
=============================================================================
