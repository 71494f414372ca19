---------------------------- MODULE AdmissionWork ----------------------------
(* The queue of Admission as the abstract one of OneWorker: an admission     *)
(* that is about to start a run has its document reserved, and a live run    *)
(* has its document in hand.                                                 *)
EXTENDS Admission

Starting(d)  == {a \in Admitters : adm[a].pc = "start" /\ adm[a].doc = d}
LiveOn(d)    == {r \in Runs : Live(r) /\ runDoc[r] = d}
EverStarted  == {r \in Runs : runPc[r] # "none"}

Work == INSTANCE OneWorker WITH
  Docs      <- Docs,
  Reservers <- Admitters,
  Workers   <- Runs,
  reserved  <- [d \in Docs |-> Starting(d)],
  held      <- [d \in Docs |-> LiveOn(d)],
  known     <- EverStarted

\* Admissions, runs, recovery and lost processes together give each document one
\* worker at a time, reserved for it first, that never comes back once it is gone:
\* the conditional claim and the cancel before a restart make a lock of the row.
OneWorkerAtATime == Work!Spec

=============================================================================
