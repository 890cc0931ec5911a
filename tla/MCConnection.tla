---------------------------- MODULE MCConnection ----------------------------
(* A client object and a root client with its two users objects. *)
EXTENDS Connection

Conn(url, name, access, db, password) ==
  [url |-> url, name |-> name, access |-> access, db |-> db, password |-> password]

Local  == Conn("localhost", "root", "rw", "_system", "")
Secret == [Local EXCEPT !.password = "secret"]
Data   == [Local EXCEPT !.db = "test_db_api"]
Remote == Conn("remote", "user", "ro", "test_db_api", "secret")
Guess  == [Remote EXCEPT !.password = "guess"]

MCConnections == {Local, Secret, Data, Remote, Guess}
\* The local root's password is set or removed, the database is dropped, the remote
\* server goes down.
MCVolatile == {Login(Local), DB(Data), Up(Remote)}
=============================================================================
