--------------------------- MODULE MCDocumentExport ---------------------------
(* Instances of DocumentExport for TLC. *)
EXTENDS DocumentExport

CONSTANTS p1, p2

BothPages == {p1, p2}
=============================================================================
