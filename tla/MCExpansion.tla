----------------------------- MODULE MCExpansion -----------------------------
(* Instances of Expansion for TLC. *)
EXTENDS Expansion

CONSTANT u1

OneUploader == {u1}
=============================================================================
