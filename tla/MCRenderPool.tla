---------------------------- MODULE MCRenderPool ----------------------------
(* Instances of RenderPool for TLC. *)
EXTENDS RenderPool, TLC

CONSTANTS a, b

\* A scan of three pages, and an export of one.
ScanAndExport == a :> 3 @@ b :> 1
=============================================================================
