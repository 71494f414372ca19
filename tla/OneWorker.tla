------------------------------ MODULE OneWorker ------------------------------
(***************************************************************************)
(* What the queue promises of a document: it is reserved once, handed to    *)
(* the worker the reservation was made for, and in one worker's hands until *)
(* that worker lets it go.  A worker is handed one document, once.          *)
(***************************************************************************)
CONSTANTS
  Docs,
  Reservers,  \* who may reserve a document for a worker
  Workers

VARIABLES
  reserved,   \* those who have reserved each document
  held,       \* the workers that have each document in hand
  known       \* the workers that were ever handed one

Init ==
  /\ reserved = [d \in Docs |-> {}]
  /\ held = [d \in Docs |-> {}]
  /\ known = {}

Reserve(d, a) ==
  /\ reserved[d] = {} /\ held[d] = {}
  /\ reserved' = [reserved EXCEPT ![d] = {a}]
  /\ UNCHANGED <<held, known>>

Withdraw(d) ==
  /\ reserved' = [reserved EXCEPT ![d] = {}]
  /\ UNCHANGED <<held, known>>

HandOver(d, w) ==
  /\ reserved[d] # {} /\ w \notin known
  /\ reserved' = [reserved EXCEPT ![d] = {}]
  /\ held' = [held EXCEPT ![d] = {w}]
  /\ known' = known \cup {w}

LetGo(d) ==
  /\ held' = [held EXCEPT ![d] = {}]
  /\ UNCHANGED <<reserved, known>>

Next ==
  \E d \in Docs :
    \/ \E a \in Reservers : Reserve(d, a)
    \/ Withdraw(d)
    \/ \E w \in Workers : HandOver(d, w)
    \/ LetGo(d)

Spec == Init /\ [][Next]_<<reserved, held, known>>

=============================================================================
