---------------------------- MODULE MCBatchExport ----------------------------
(* Instances of BatchExport for TLC. *)
EXTENDS BatchExport

TwoDocs   == 1..2
ThreeDocs == 1..3

=============================================================================
