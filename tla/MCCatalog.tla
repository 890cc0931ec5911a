----------------------------- MODULE MCCatalog -----------------------------
(* Two clients and one name of each kind. *)
EXTENDS Catalog, TLC
CONSTANTS c1, c2, n1
TwoAndOne == (c1 :> 2) @@ (c2 :> 1)
EmptyOrFull == {{}, Things}
===========================================================================
