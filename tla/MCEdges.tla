------------------------------- MODULE MCEdges -------------------------------
(* Two collections of edges, and two of vertices, the name of one the end of    *)
(* the name of the other, each with a vertex of the same key; a loop, and an    *)
(* edge key that is in both collections.                                        *)
EXTENDS Edges
CONSTANTS k1, a, b
Test   == <<"t", "e", "s", "t">>
MyTest == <<"m", "y">> \o Test
MCVertexCollections == {Test, MyTest}
v == <<Test, k1>>
w == <<MyTest, k1>>
Edge(coll, from, to, key) == [coll |-> coll, from |-> from, to |-> to, key |-> key]
MCEdges == {Edge(1, v, w, a), Edge(1, w, v, b), Edge(2, v, v, a)}
MCIds == {<<a>>, <<1, b>>, <<2, a>>}
MCFullLists == {{}, {2}}
==============================================================================
