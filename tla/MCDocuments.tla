----------------------------- MODULE MCDocuments -----------------------------
(* Two collections, the name of one the end of the name of the other.           *)
EXTENDS Documents, TLC
CONSTANTS c1, c2, k1, k2

Test   == <<"t", "e", "s", "t">>
MyTest == <<"m", "y">> \o Test
MCCollections == {Test, MyTest}
\* A key, an id of either collection.
MCHandles == {<<k1>>, <<Test, k1>>, <<MyTest, k1>>}
MCInitially == {{}, {<<Test, k1>>, <<MyTest, k1>>}}
OneEach == [c \in Clients |-> 1]
OneCall == (c1 :> 1) @@ (c2 :> 0)
==============================================================================
