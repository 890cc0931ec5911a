--------------------------- MODULE DocumentHandles ---------------------------
(***************************************************************************)
(* How an API object makes the id of a document of what a caller passes: a *)
(* collection and a handle.  A handle is a key, <<key>>, or an id, that is *)
(* a collection and a key.  Names of collections are sequences of letters, *)
(* because getId searches for them.                                        *)
(***************************************************************************)
EXTENDS Naturals, Sequences, SequencesExt

\* Mutant: an id is taken for a key.
getId_AlwaysPrefix(collname, key) == <<collname>> \o key

\* Mutant: the collection passed replaces the one in the id.
getId_KeyOnly(collname, key) == <<collname, key[Len(key)]>>

\* getId takes for an id what contains the collection's name followed by a slash, wherever
\* it is.  A result of more than two parts is the id of no document.
getId(collname, key) ==
  IF \E i \in 1 .. Len(key) - 1 : IsSuffix(collname, key[i]) THEN key
  ELSE <<collname>> \o key

\* The document the caller means: an id names itself, whatever collection is passed with it.
NamedBy(collname, key) == IF Len(key) = 2 THEN key ELSE <<collname, key[1]>>

\* A key, or an id of the collection passed with it.
OwnHandle(collname, key) == Len(key) = 1 \/ key[1] = collname
==============================================================================
