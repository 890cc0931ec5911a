------------------------------- MODULE MCCursor -------------------------------
(* Three batches at most: five documents, two a batch; the first and the last    *)
(* document come and go.                                                         *)
EXTENDS Cursor
FiveDocs == 1..5
Ends == {1, 5}
ThreeKeys == {1, 2, 4}
===============================================================================
