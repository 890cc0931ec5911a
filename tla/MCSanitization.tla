--------------------------- MODULE MCSanitization ---------------------------
(* All texts of up to five characters, one of each kind, and keys of up to     *)
(* three.                                                                      *)
EXTENDS Sanitization
CONSTANTS letter, underscore, space, percent, byte
UpToFive == UNION {[1 .. n -> {letter, underscore, space, percent, byte}] : n \in 0 .. 5}
=============================================================================
