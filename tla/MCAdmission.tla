----------------------------- MODULE MCAdmission -----------------------------
(* Instances of Admission for TLC. *)
EXTENDS AdmissionWork

OneDoc    == {1}
TwoDocs   == {1, 2}

\* One owner for every document; and the last document another owner's.
OneOwner   == [d \in Docs |-> "ann"]
LastIsBobs == [d \in Docs |-> IF \A e \in Docs : e <= d THEN "bob" ELSE "ann"]
=============================================================================
