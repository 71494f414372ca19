--------------------------- MODULE AdmissionProofs ---------------------------
(***************************************************************************)
(* Proofs about the processing queue of module Admission, for any number    *)
(* of documents, owners, requests, runs and faults.                         *)
(*                                                                         *)
(* Types: an admission hands its locals from one action to the next, so     *)
(* the locals of each process have to fit the place it is at (TypeInv).     *)
(*                                                                         *)
(* One live run per document, where nobody retries a failed document and    *)
(* no container's expansion starts runs of its own.  OneRunPerDocument is   *)
(* not inductive.  An admission starts a run on what it claimed earlier, so *)
(* what it relies on is that its claim keeps every other admission out      *)
(* (StartsAlone) and that a claim is only made of a row no live run is      *)
(* behind (RunIsNamed).  The sweep gives rows back, so what it read earlier *)
(* must still be lost when it does (LostStaysLost).                         *)
(*                                                                         *)
(* Claims: no admission leaves one behind, whatever the instance allows.    *)
(*                                                                         *)
(* Until something fails, with retries sent one at a time (Undisturbed):    *)
(* a row then tells whether somebody is at work on its document (RowsInv),  *)
(* and a document that is ready, or about to be retried, is in nobody's     *)
(* hands (OverInv).  So a retry gives no document a second run, and what is *)
(* ready stays ready.  Nothing but a claim adds to the counts, and what an  *)
(* admission means to claim fits what it has counted (CountsInv): alone it  *)
(* exceeds no limit.                                                        *)
(***************************************************************************)
EXTENDS Admission, FiniteSetTheorems, WellFoundedInduction, TLAPS

-----------------------------------------------------------------------------
(* Types of the operators the actions are built from. *)

LEMMA RoomType ==
  /\ \A o : OwnerRoom(o) \in Nat
  /\ GlobalRoom \in Nat
  /\ \A m, n \in Nat : AtMost(m, n) \in Nat
<1>1. \A S \in SUBSET Docs : Cardinality(S) \in Nat
  BY DocsAssumption, FS_Subset, FS_CardinalityType
<1>2. \A o : InFlight(o) \in Nat
  BY <1>1 DEF InFlight
<1>3. InFlightAll \in Nat
  BY <1>1 DEF InFlightAll
<1> QED
  BY <1>2, <1>3, BoundsAssumption DEF OwnerRoom, GlobalRoom, AtMost

\* Where an admission is between two documents of its list, two owners or two turns.
Resting == {"idle", "turn", "count"}

LEMMA IdleType == Idle \in LocalStates /\ Idle.pc = "idle"
  BY DEF Idle, LocalStates

LEMMA InTurnType ==
  ASSUME NEW rounds \in BOOLEAN, NEW turn \in SUBSET Docs, NEW again \in SUBSET Docs
  PROVE  /\ InTurn(rounds, turn, again) \in LocalStates
         /\ InTurn(rounds, turn, again).pc \in Resting
  BY DEF InTurn, Idle, LocalStates, Resting

LEMMA OwnerDoneType ==
  ASSUME NEW l \in LocalStates, l.rep \in Docs
  PROVE  OwnerDone(l) \in LocalStates /\ OwnerDone(l).pc \in Resting
<1> DEFINE again == IF l.rounds /\ l.won THEN l.again \cup {l.rep} ELSE l.again
           turn  == IF l.turn = {} THEN again ELSE l.turn
<1>1. /\ l.rounds \in BOOLEAN /\ l.turn \in SUBSET Docs /\ l.again \in SUBSET Docs
  BY DEF LocalStates
<1>2. again \in SUBSET Docs /\ turn \in SUBSET Docs
  BY <1>1
<1>3. again \ turn \in SUBSET Docs
  BY <1>2
<1>4. OwnerDone(l) = InTurn(l.rounds, turn, again \ turn)
  BY DEF OwnerDone
<1> HIDE DEF again, turn
<1> QED
  BY <1>1, <1>2, <1>3, <1>4, InTurnType

LEMMA DocDoneType ==
  ASSUME NEW l \in LocalStates, l.rep \in Docs
  PROVE  /\ DocDone(l) \in LocalStates
         /\ DocDone(l).pc \in Resting \cup {"claim"}
         /\ DocDone(l).pc = "claim" => DocDone(l).rep = l.rep
<1>1. CASE l.waiting = {}
  BY <1>1, OwnerDoneType DEF DocDone, Resting
<1>2. CASE l.waiting # {}
  BY <1>2 DEF DocDone, LocalStates
<1> QED
  BY <1>1, <1>2

LEMMA AdmitQueuedType ==
  ASSUME NEW d \in Docs
  PROVE  AdmitQueued(d) \in LocalStates /\ AdmitQueued(d).pc \in Resting
<1>1. FALSE \in BOOLEAN /\ {d} \in SUBSET Docs /\ {} \in SUBSET Docs
  OBVIOUS
<1> QED
  BY <1>1, InTurnType DEF AdmitQueued

LEMMA AdmitFairlyType ==
  AdmitFairly \in LocalStates /\ AdmitFairly.pc \in Resting
<1>1. Capped \in BOOLEAN /\ WaitingOwners \in SUBSET Docs /\ {} \in SUBSET Docs
  BY DEF Capped, WaitingOwners
<1> QED
  BY <1>1, InTurnType DEF AdmitFairly

LEMMA AdmitAfterType ==
  ASSUME NEW d \in Docs
  PROVE  AdmitAfter(d) \in LocalStates /\ AdmitAfter(d).pc \in Resting
  BY AdmitFairlyType, AdmitQueuedType, IdleType DEF AdmitAfter, Resting

-----------------------------------------------------------------------------
(* Type correctness. *)

TypeInv == TypeOK /\ Locals

LEMMA InitType == Init => TypeInv
<1> SUFFICES ASSUME Init PROVE TypeInv
  OBVIOUS
<1>1. Idle \in LocalStates
  BY IdleType
<1>2. TypeOK
  BY <1>1, DocsAssumption DEF Init, TypeOK, Statuses, Working, RunIds, NoRun, Steps, Stages,
     NoRequest, SweepIdle, NoCandidate, Candidates, NoChild
<1>3. Locals
  BY ProcessesAssumption DEF Init, Locals, Idle, NoRequest, SweepIdle, NoChild, Admitters
<1> QED
  BY <1>2, <1>3 DEF TypeInv

\* A step of the admission of a that touches its own locals, and rows.
LEMMA AdmStep ==
  ASSUME TypeInv, NEW a \in Admitters, NEW l \in LocalStates,
         adm' = [adm EXCEPT ![a] = l],
         adm[a].pc # "idle",
         l.pc \notin Resting => l.rep \in Docs,
         l.pc \in {"start", "record", "unclaim"} => l.doc \in Docs,
         l.pc # "record",
         UNCHANGED <<runDoc, runPc, req, sweep, child>>
  PROVE  adm' \in [Admitters -> LocalStates] /\ Locals'
<1>1. adm \in [Admitters -> LocalStates] /\ Locals
  BY DEF TypeInv, TypeOK
<1>2. /\ adm' \in [Admitters -> LocalStates]
      /\ adm'[a] = l
      /\ \A b \in Admitters : b # a => adm'[b] = adm[b]
  BY <1>1
<1>3. Sweeper \in Admitters /\ Runs \subseteq Admitters /\ Requests \subseteq Admitters
  BY DEF Admitters
<1> QED
  BY <1>1, <1>2, <1>3 DEF Locals, Resting

Looks(a) == TakeTurn(a) \/ CountOwner(a) \/ CountAll(a) \/ FindWaiting(a)

\* Where an admission goes that only reads rows.
LEMMA LookType ==
  ASSUME TypeInv, NEW a \in Admitters, Looks(a)
  PROVE  \E m \in LocalStates : /\ adm' = [adm EXCEPT ![a] = m]
                                /\ m.pc \in Resting \cup {"cap", "find", "claim"}
                                /\ m.pc \notin Resting => m.rep \in Docs
<1> DEFINE l == adm[a]
<1>0. /\ l \in LocalStates
      /\ l.pc \notin Resting => l.rep \in Docs
  BY DEF TypeInv, TypeOK, Locals, Resting
<1>1. CASE TakeTurn(a)
  <2>1. [l EXCEPT !.pc = "count"] \in LocalStates
    BY <1>0 DEF LocalStates
  <2> QED
    BY <1>1, <1>0, <2>1, IdleType DEF TakeTurn, Resting, LocalStates
<1>2. CASE CountOwner(a)
  <2>1. PICK d \in l.turn :
          adm' = [adm EXCEPT ![a] =
            LET k    == [l EXCEPT !.turn = @ \ {d}, !.rep = d]
                free == OwnerRoom(OwnerOf[d])
                room == IF k.rounds THEN AtMost(1, free) ELSE free
            IN  IF Capped THEN [k EXCEPT !.pc = "cap", !.room = room]
                ELSE IF room = 0 THEN OwnerDone(k)
                ELSE [k EXCEPT !.pc = "find", !.room = room]]
    BY <1>2 DEF CountOwner
  <2> DEFINE k    == [l EXCEPT !.turn = @ \ {d}, !.rep = d]
             free == OwnerRoom(OwnerOf[d])
             room == IF k.rounds THEN AtMost(1, free) ELSE free
  <2>2. k \in LocalStates /\ k.rep = d /\ d \in Docs
    BY <1>0 DEF LocalStates
  <2>3. room \in Nat
    BY RoomType
  <2>4. OwnerDone(k) \in LocalStates /\ OwnerDone(k).pc \in Resting
    BY <2>2, OwnerDoneType
  <2>5. \A p \in {"cap", "find"} :
          /\ [k EXCEPT !.pc = p, !.room = room] \in LocalStates
          /\ [k EXCEPT !.pc = p, !.room = room].pc = p
          /\ [k EXCEPT !.pc = p, !.room = room].rep = d
    BY <2>2, <2>3 DEF LocalStates
  <2> HIDE DEF k, room
  <2>6. adm' = [adm EXCEPT ![a] =
          IF Capped THEN [k EXCEPT !.pc = "cap", !.room = room]
          ELSE IF room = 0 THEN OwnerDone(k)
          ELSE [k EXCEPT !.pc = "find", !.room = room]]
    BY <2>1 DEF k, room
  <2> QED
    BY <2>6, <2>2, <2>4, <2>5
<1>3. CASE CountAll(a)
  <2> DEFINE room == AtMost(GlobalRoom, l.room)
  <2>1. room \in Nat
    BY <1>0, RoomType DEF LocalStates
  <2>2. l.pc = "cap" /\ l.rep \in Docs
    BY <1>3, <1>0 DEF CountAll, Resting
  <2>3. OwnerDone(l) \in LocalStates /\ OwnerDone(l).pc \in Resting
    BY <1>0, <2>2, OwnerDoneType
  <2>4. /\ [l EXCEPT !.pc = "find", !.room = room] \in LocalStates
        /\ [l EXCEPT !.pc = "find", !.room = room].pc = "find"
        /\ [l EXCEPT !.pc = "find", !.room = room].rep = l.rep
    BY <1>0, <2>1 DEF LocalStates
  <2>5. adm' = [adm EXCEPT ![a] = IF room = 0 THEN OwnerDone(l)
                                  ELSE [l EXCEPT !.pc = "find", !.room = room]]
    BY <1>3 DEF CountAll
  <2> HIDE DEF room
  <2> QED
    BY <2>2, <2>3, <2>4, <2>5
<1>4. CASE FindWaiting(a)
  <2> DEFINE list == TakeOldest(l.room, WaitingOf(OwnerOf[l.rep]))
  <2>1. list \in SUBSET Docs
    BY DEF TakeOldest, WaitingOf
  <2>2. l.pc = "find" /\ l.rep \in Docs
    BY <1>4, <1>0 DEF FindWaiting, Resting
  <2>3. OwnerDone(l) \in LocalStates /\ OwnerDone(l).pc \in Resting
    BY <1>0, <2>2, OwnerDoneType
  <2>4. /\ [l EXCEPT !.pc = "claim", !.room = 0, !.waiting = list] \in LocalStates
        /\ [l EXCEPT !.pc = "claim", !.room = 0, !.waiting = list].pc = "claim"
        /\ [l EXCEPT !.pc = "claim", !.room = 0, !.waiting = list].rep = l.rep
    BY <1>0, <2>1 DEF LocalStates
  <2>5. adm' = [adm EXCEPT ![a] = IF list = {} THEN OwnerDone(l)
                                  ELSE [l EXCEPT !.pc = "claim", !.room = 0, !.waiting = list]]
    BY <1>4 DEF FindWaiting
  <2> HIDE DEF list
  <2> QED
    BY <2>2, <2>3, <2>4, <2>5
<1> QED
  BY <1>1, <1>2, <1>3, <1>4 DEF Looks

LEMMA AdmitType ==
  ASSUME TypeInv, NEW a \in Admitters, Admit(a), overlapped' \in BOOLEAN
  PROVE  TypeInv'
<1> USE DEF TypeInv
<1> DEFINE l == adm[a]
<1>0. /\ l \in LocalStates
      /\ l.pc \notin Resting => l.rep \in Docs
      /\ l.pc \in {"start", "record", "unclaim"} => l.doc \in Docs
      /\ l.pc = "record" => l.new \in Runs
  BY DEF TypeOK, Locals, Resting
<1>f. ASSUME UNCHANGED <<status, bytes, recoveries, life, runDoc, runPc, exec, cancelled,
                         req, sweep, child, retries, abandoned>>,
             runId' \in [Docs -> RunIds], faults' \in Nat,
             adm' \in [Admitters -> LocalStates], Locals'
      PROVE  TypeInv'
  BY <1>f DEF TypeOK
<1>1. CASE Looks(a)
  <2>1. PICK m \in LocalStates : /\ adm' = [adm EXCEPT ![a] = m]
                                 /\ m.pc \in Resting \cup {"cap", "find", "claim"}
                                 /\ m.pc \notin Resting => m.rep \in Docs
    BY <1>1, LookType
  <2>2. /\ adm[a].pc # "idle"
        /\ UNCHANGED <<docVars, runVars, req, sweep, child, hist>>
    BY <1>1 DEF Looks, TakeTurn, CountOwner, CountAll, FindWaiting
  <2>3. adm' \in [Admitters -> LocalStates] /\ Locals'
    BY <2>1, <2>2, AdmStep DEF runVars, Resting
  <2> QED
    BY <1>f, <2>2, <2>3 DEF docVars, runVars, hist, TypeOK
<1>5. CASE Claim(a)
  <2>1. l.pc = "claim" /\ l.rep \in Docs
    BY <1>5, <1>0 DEF Claim, Resting
  <2>2. PICK d \in l.waiting :
          LET k == [l EXCEPT !.waiting = @ \ {d}] IN
          \/ /\ runId' = [runId EXCEPT ![d] = Pending(a)]
             /\ adm' = [adm EXCEPT ![a] = [k EXCEPT !.pc = "start", !.doc = d]]
          \/ /\ adm' = [adm EXCEPT ![a] = DocDone(k)]
             /\ UNCHANGED runId
    BY <1>5 DEF Claim
  <2> DEFINE k == [l EXCEPT !.waiting = @ \ {d}]
  <2>3. k \in LocalStates /\ k.rep = l.rep /\ d \in Docs
    BY <1>0 DEF LocalStates
  <2>4. /\ [k EXCEPT !.pc = "start", !.doc = d] \in LocalStates
        /\ [k EXCEPT !.pc = "start", !.doc = d].pc = "start"
        /\ [k EXCEPT !.pc = "start", !.doc = d].rep = l.rep
        /\ [k EXCEPT !.pc = "start", !.doc = d].doc = d
    BY <2>3 DEF LocalStates
  <2>5. /\ DocDone(k) \in LocalStates
        /\ DocDone(k).pc \in Resting \cup {"claim"}
        /\ DocDone(k).pc = "claim" => DocDone(k).rep = l.rep
    BY <2>1, <2>3, DocDoneType
  <2>6. adm' = [adm EXCEPT ![a] = [k EXCEPT !.pc = "start", !.doc = d]]
        \/ adm' = [adm EXCEPT ![a] = DocDone(k)]
    BY <2>2
  <2> HIDE DEF k
  <2>7. PICK m \in LocalStates : /\ adm' = [adm EXCEPT ![a] = m]
                                 /\ m.pc \in Resting \cup {"claim", "start"}
                                 /\ m.pc \notin Resting => m.rep \in Docs
                                 /\ m.pc = "start" => m.doc \in Docs
    BY <2>1, <2>3, <2>4, <2>5, <2>6 DEF Resting
  <2>8. adm' \in [Admitters -> LocalStates] /\ Locals'
    BY <1>5, <2>1, <2>7, AdmStep DEF Claim, runVars, Resting
  <2>9. runId' \in [Docs -> RunIds]
    BY <2>2, <2>3 DEF TypeOK, RunIds
  <2> QED
    BY <1>5, <1>f, <2>8, <2>9 DEF Claim, runVars, hist, TypeOK
<1>6. ASSUME NEW r \in Runs, StartRun(a, r)
      PROVE  TypeInv'
  <2> DEFINE m == [l EXCEPT !.pc = "record", !.new = r]
  <2>1. l.pc = "start" /\ l.rep \in Docs /\ l.doc \in Docs /\ runPc[r] = "none"
    BY <1>6, <1>0 DEF StartRun, NextRun, Resting
  <2>2. m \in LocalStates /\ m.pc = "record" /\ m.new = r /\ m.doc = l.doc /\ m.rep = l.rep
    BY <1>0 DEF LocalStates
  <2>3. adm' = [adm EXCEPT ![a] = m]
    BY ZenonT(40), <1>6, <1>0 DEF StartRun, TypeOK, LocalStates
  <2> HIDE DEF m
  <2>4. /\ adm' \in [Admitters -> LocalStates]
        /\ adm'[a] = m
        /\ \A b \in Admitters : b # a => adm'[b] = adm[b]
    BY <2>2, <2>3 DEF TypeOK
  <2>5. /\ runDoc' = [runDoc EXCEPT ![r] = l.doc]
        /\ runPc' = [runPc EXCEPT ![r] = "queued"]
        /\ UNCHANGED <<req, sweep, child>>
    BY <1>6 DEF StartRun
  <2>6. /\ runDoc' \in [Runs -> Docs \cup {Nobody}]
        /\ runPc' \in [Runs -> Steps \cup {"none", "ended"}]
    BY <2>1, <2>5 DEF TypeOK, Steps, Stages, Working
  <2>7. Sweeper \in Admitters /\ Runs \subseteq Admitters /\ Requests \subseteq Admitters
    BY DEF Admitters
  <2>8. /\ runDoc'[r] = l.doc /\ runPc'[r] = "queued"
        /\ \A s \in Runs : s # r => runDoc'[s] = runDoc[s] /\ runPc'[s] = runPc[s]
    BY <2>5 DEF TypeOK
  <2>9. Locals'
    <3>1. ASSUME NEW b \in Admitters
          PROVE  /\ adm'[b].pc \notin {"idle", "turn", "count"} => adm'[b].rep \in Docs
                 /\ adm'[b].pc \in {"start", "record", "unclaim"} => adm'[b].doc \in Docs
                 /\ adm'[b].pc = "record" => /\ adm'[b].new \in Runs
                                            /\ runPc'[adm'[b].new] # "none"
                                            /\ runDoc'[adm'[b].new] = adm'[b].doc
      <4>1. CASE b = a
        BY <4>1, <2>1, <2>2, <2>4, <2>8
      <4>2. CASE b # a
        <5>1. adm'[b] = adm[b]
          BY <4>2, <2>4
        <5> QED
          BY <5>1, <2>1, <2>8 DEF Locals
      <4> QED
        BY <4>1, <4>2
    <3>2. ASSUME NEW s \in Runs
          PROVE  /\ runPc'[s] # "none" => runDoc'[s] \in Docs
                 /\ runPc'[s] # "ended" => adm'[s].pc = "idle"
      BY <2>1, <2>4, <2>7, <2>8 DEF Locals
    <3>3. \A q \in Requests :
            /\ req[q].pc # "idle" => req[q].doc \in Docs /\ adm'[q].pc = "idle"
            /\ req[q].pc = "extend" => req[q].seen \in Statuses
      BY <2>1, <2>4, <2>7 DEF Locals
    <3>4. sweep.pc # "admit" => adm'[Sweeper].pc = "idle"
      BY <2>1, <2>4, <2>7 DEF Locals
    <3> QED
      BY <3>1, <3>2, <3>3, <3>4, <2>5 DEF Locals
  <2> QED
    BY <1>6, <2>4, <2>6, <2>9 DEF StartRun, docVars, hist, TypeOK
<1>7. CASE StartFails(a)
  <2> DEFINE m == [l EXCEPT !.pc = "unclaim"]
  <2>1. l.pc = "start" /\ l.rep \in Docs /\ l.doc \in Docs
    BY <1>7, <1>0 DEF StartFails, Resting
  <2>2. m \in LocalStates /\ m.pc = "unclaim" /\ m.doc = l.doc /\ m.rep = l.rep
    BY <1>0 DEF LocalStates
  <2>3. adm' = [adm EXCEPT ![a] = m]
    BY <1>7 DEF StartFails
  <2> HIDE DEF m
  <2>4. adm' \in [Admitters -> LocalStates] /\ Locals'
    BY <1>7, <2>1, <2>2, <2>3, AdmStep DEF StartFails, runVars
  <2> QED
    BY <1>7, <1>f, <2>4 DEF StartFails, docVars, runVars, TypeOK
<1>8. CASE Unclaim(a)
  <2>1. adm' \in [Admitters -> LocalStates] /\ Locals'
    BY <1>8, IdleType, AdmStep DEF Unclaim, runVars, Resting
  <2>2. runId' \in [Docs -> RunIds]
    <3> DEFINE v == IF Holds(a, l.doc) THEN NoRun ELSE runId[l.doc]
    <3>1. runId' = [runId EXCEPT ![l.doc] = v]
      BY <1>8 DEF Unclaim
    <3>2. l.doc \in Docs
      BY <1>8, <1>0 DEF Unclaim
    <3>3. v \in RunIds
      BY <3>2 DEF RunIds, TypeOK
    <3> QED
      BY <3>1, <3>2, <3>3 DEF TypeOK
  <2> QED
    BY <1>8, <1>f, <2>1, <2>2 DEF Unclaim, runVars, hist, TypeOK
<1>9. CASE RecordRun(a)
  <2> DEFINE m == [l EXCEPT !.won = TRUE]
  <2>1. l.pc = "record" /\ l.rep \in Docs /\ l.doc \in Docs /\ l.new \in Runs
    BY <1>9, <1>0 DEF RecordRun, Resting
  <2>2. m \in LocalStates /\ m.rep = l.rep
    BY <1>0 DEF LocalStates
  <2>3. adm' = [adm EXCEPT ![a] = DocDone(m)]
    BY <1>9 DEF RecordRun
  <2> HIDE DEF m
  <2>4. /\ DocDone(m) \in LocalStates
        /\ DocDone(m).pc \in Resting \cup {"claim"}
        /\ DocDone(m).pc = "claim" => DocDone(m).rep = l.rep
    BY <2>1, <2>2, DocDoneType
  <2>5. adm' \in [Admitters -> LocalStates] /\ Locals'
    BY <1>9, <2>1, <2>3, <2>4, AdmStep DEF RecordRun, runVars, Resting
  <2>6. runId' \in [Docs -> RunIds]
    <3> DEFINE v == IF Holds(a, l.doc) THEN Started(l.new) ELSE runId[l.doc]
    <3>1. runId' = [runId EXCEPT ![l.doc] = v]
      BY <1>9 DEF RecordRun
    <3>2. v \in RunIds
      BY <2>1 DEF RunIds, TypeOK
    <3> QED
      BY <3>1, <3>2, <2>1 DEF TypeOK
  <2> QED
    BY <1>9, <1>f, <2>5, <2>6 DEF RecordRun, runVars, hist, TypeOK
<1> QED
  BY <1>1, <1>5, <1>6, <1>7, <1>8, <1>9 DEF Admit, Looks

-----------------------------------------------------------------------------
LEMMA RunType ==
  ASSUME TypeInv, NEW r \in Runs, Run(r), overlapped' \in BOOLEAN
  PROVE  TypeInv'
<1> USE DEF TypeInv
<1>0. Sweeper \in Admitters /\ Runs \subseteq Admitters /\ Requests \subseteq Admitters
  BY DEF Admitters
\* A step of a run that leaves the processes alone.
<1>f. ASSUME UNCHANGED <<runId, recoveries, life, runDoc, adm, req, sweep, child, retries, abandoned>>,
             status' \in [Docs -> Statuses],
             bytes' \in [Docs -> {"none", "upload", "source"}],
             cancelled' = cancelled,
             faults' \in Nat,
             exec' \in [Runs -> {"idle", "busy", "lost"}],
             runPc' \in [Runs -> Steps \cup {"none", "ended"}],
             \A s \in Runs : (runPc'[s] = "none") = (runPc[s] = "none"),
             \A s \in Runs : runPc[s] = "ended" => runPc'[s] = "ended"
      PROVE  TypeInv'
  <2>1. TypeOK'
    BY <1>f DEF TypeOK
  <2>2. adm' = adm /\ req' = req /\ sweep' = sweep /\ child' = child /\ runDoc' = runDoc
    BY <1>f
  <2>3. Locals
    OBVIOUS
  <2>4. ASSUME NEW b \in Admitters
        PROVE  /\ adm[b].pc \notin {"idle", "turn", "count"} => adm[b].rep \in Docs
               /\ adm[b].pc \in {"start", "record", "unclaim"} => adm[b].doc \in Docs
               /\ adm[b].pc = "record" => /\ adm[b].new \in Runs
                                         /\ runPc'[adm[b].new] # "none"
                                         /\ runDoc[adm[b].new] = adm[b].doc
    BY <1>f, <2>3 DEF Locals
  <2>5. ASSUME NEW s \in Runs
        PROVE  /\ runPc'[s] # "none" => runDoc[s] \in Docs
               /\ runPc'[s] # "ended" => adm[s].pc = "idle"
    BY <1>f, <2>3 DEF Locals
  <2>6. Locals'
    BY <2>2, <2>3, <2>4, <2>5 DEF Locals
  <2> QED
    BY <2>1, <2>6
<1>1. CASE BeginStage(r)
  BY <1>1, <1>f DEF BeginStage, docVars, procVars, hist, TypeOK, Stages, Statuses, Working
<1>2. CASE CompleteStage(r)
  <2>1. bytes' \in [Docs -> {"none", "upload", "source"}]
    BY <1>2 DEF CompleteStage, Ingested, TypeOK
  <2>2. NextStage[runPc[r]] \in Steps
    BY <1>2 DEF CompleteStage, NextStage, Steps, Stages, Working
  <2>3. "ended" \notin Steps /\ "none" \notin Steps /\ runPc[r] \in Steps
    BY <1>2 DEF CompleteStage, Steps, Stages, Working
  <2> QED
    BY <1>2, <1>f, <2>1, <2>2, <2>3 DEF CompleteStage, procVars, hist, TypeOK
<1>3. CASE FailStage(r)
  BY <1>3, <1>f DEF FailStage, docVars, procVars, hist, TypeOK, Steps, Stages, Working
<1>4. CASE BeginEnd(r)
  BY <1>4, <1>f DEF BeginEnd, docVars, procVars, hist, TypeOK
<1>5. CASE CompleteEnd(r)
  BY ZenonT(40), <1>5, <1>f DEF CompleteEnd, Outcome, procVars, hist, TypeOK, Statuses, Steps
<1>6. CASE FinishFails(r)
  BY <1>6, <1>f DEF FinishFails, procVars, TypeOK, Statuses, Steps
<1>7. CASE RowIsGone(r)
  BY <1>7, <1>f DEF RowIsGone, Writing, docVars, procVars, hist, TypeOK, Stages, Working
<1>8. CASE WorkerDies(r)
  <2>1. bytes' \in [Docs -> {"none", "upload", "source"}]
    BY <1>8 DEF WorkerDies, Ingested, TypeOK
  <2>2. status' \in [Docs -> Statuses]
    BY <1>8 DEF WorkerDies, Outcome, TypeOK, Statuses
  <2> QED
    BY <1>8, <1>f, <2>1, <2>2 DEF WorkerDies, procVars, TypeOK
<1>9. CASE Redeliver(r)
  BY <1>9, <1>f DEF Redeliver, docVars, procVars, hist, TypeOK
<1>10. CASE AdmitNext(r)
  <2>1. runDoc[r] \in Docs
    BY <1>10 DEF AdmitNext, Locals
  <2>2. AdmitAfter(runDoc[r]) \in LocalStates /\ AdmitAfter(runDoc[r]).pc \in Resting
    BY <2>1, AdmitAfterType
  <2>3. /\ adm' \in [Admitters -> LocalStates]
        /\ adm'[r].pc \in Resting
        /\ \A b \in Admitters : b # r => adm'[b] = adm[b]
    BY <1>10, <1>0, <2>2 DEF AdmitNext, TypeOK
  <2>4. TypeOK'
    BY <1>10, <2>3 DEF AdmitNext, docVars, hist, TypeOK
  <2>5. Locals'
    BY <1>10, <1>0, <2>3, ProcessesAssumption DEF AdmitNext, Locals, Resting, docVars, hist, TypeOK
  <2> QED
    BY <2>4, <2>5
<1>11. CASE AdmitNextDies(r)
  <2>1. /\ adm' \in [Admitters -> LocalStates]
        /\ adm'[r].pc = "idle"
        /\ \A b \in Admitters : b # r => adm'[b] = adm[b]
    BY <1>11, <1>0, IdleType DEF AdmitNextDies, TypeOK
  <2>2. abandoned' \subseteq Admitters
    BY <1>11, <1>0 DEF AdmitNextDies, Unrecorded, TypeOK
  <2>3. TypeOK'
    BY <1>11, <2>1, <2>2 DEF AdmitNextDies, docVars, TypeOK, Steps
  <2>4. runPc[r] = "ended"
    BY <1>11 DEF AdmitNextDies, Locals
  <2>5. Locals'
    BY <1>11, <1>0, <2>1, <2>4, ProcessesAssumption DEF AdmitNextDies, Locals, docVars, TypeOK
  <2> QED
    BY <2>3, <2>5
<1> QED
  BY <1>1, <1>2, <1>3, <1>4, <1>5, <1>6, <1>7, <1>8, <1>9, <1>10, <1>11 DEF Run

-----------------------------------------------------------------------------
\* A process that is not in the middle of an admission begins one, or gives up.
LEMMA RequestStep ==
  ASSUME TypeInv, NEW q \in Requests, NEW l \in LocalStates, l.pc \in Resting,
         NEW m \in [pc : {"idle", "process", "retry", "extend"}, doc : Docs \cup {Nobody},
                    seen : Statuses \cup {"none"}],
         m.pc # "idle" => m.doc \in Docs /\ l.pc = "idle",
         m.pc = "extend" => m.seen \in Statuses,
         adm' = [adm EXCEPT ![q] = l],
         req' = [req EXCEPT ![q] = m],
         UNCHANGED <<runDoc, runPc, sweep, child>>
  PROVE  /\ adm' \in [Admitters -> LocalStates]
         /\ req' \in [Requests -> [pc : {"idle", "process", "retry", "extend"},
                        doc : Docs \cup {Nobody}, seen : Statuses \cup {"none"}]]
         /\ Locals'
<1>1. TypeOK /\ Locals /\ q \in Admitters
  BY DEF TypeInv, Admitters
<1>2. /\ adm' \in [Admitters -> LocalStates]
      /\ adm'[q] = l
      /\ \A b \in Admitters : b # q => adm'[b] = adm[b]
  BY <1>1 DEF TypeOK
<1>3. /\ req' \in [Requests -> [pc : {"idle", "process", "retry", "extend"},
                     doc : Docs \cup {Nobody}, seen : Statuses \cup {"none"}]]
      /\ req'[q] = m
      /\ \A b \in Requests : b # q => req'[b] = req[b]
  BY <1>1 DEF TypeOK
<1>4. /\ Runs \subseteq Admitters /\ Requests \subseteq Admitters /\ Sweeper \in Admitters
      /\ q \notin Runs /\ q # Sweeper
  BY ProcessesAssumption DEF Admitters
<1>5. Locals'
  BY <1>1, <1>2, <1>3, <1>4 DEF Locals, Resting
<1> QED
  BY <1>2, <1>3, <1>5

\* The same, where the process has no admission and begins none.
LEMMA ReadStep ==
  ASSUME TypeInv, NEW q \in Requests,
         NEW m \in [pc : {"idle", "process", "retry", "extend"}, doc : Docs \cup {Nobody},
                    seen : Statuses \cup {"none"}],
         m.pc # "idle" => m.doc \in Docs /\ adm[q].pc = "idle",
         m.pc = "extend" => m.seen \in Statuses,
         req' = [req EXCEPT ![q] = m],
         UNCHANGED <<adm, runDoc, runPc, sweep, child>>
  PROVE  /\ req' \in [Requests -> [pc : {"idle", "process", "retry", "extend"},
                        doc : Docs \cup {Nobody}, seen : Statuses \cup {"none"}]]
         /\ Locals'
<1>1. TypeOK /\ Locals
  BY DEF TypeInv
<1>2. /\ req' \in [Requests -> [pc : {"idle", "process", "retry", "extend"},
                     doc : Docs \cup {Nobody}, seen : Statuses \cup {"none"}]]
      /\ req'[q] = m
      /\ \A b \in Requests : b # q => req'[b] = req[b]
  BY <1>1 DEF TypeOK
<1>3. Locals'
  BY <1>1, <1>2 DEF Locals
<1> QED
  BY <1>2, <1>3

LEMMA NoRequestType ==
  /\ NoRequest \in [pc : {"idle", "process", "retry", "extend"}, doc : Docs \cup {Nobody},
                     seen : Statuses \cup {"none"}]
  /\ NoRequest.pc = "idle"
  BY DEF NoRequest

LEMMA RequestType ==
  ASSUME TypeInv, NEW q \in Requests, Request(q), overlapped' \in BOOLEAN
  PROVE  TypeInv'
<1>0. TypeOK /\ Locals /\ q \in Admitters
  BY DEF TypeInv, Admitters
<1>f. ASSUME UNCHANGED <<recoveries, runDoc, runPc, exec, cancelled, sweep, child>>,
             status' \in [Docs -> Statuses],
             runId' \in [Docs -> RunIds],
             bytes' \in [Docs -> {"none", "upload", "source"}],
             life' \in [Docs -> {"kept", "due", "gone"}],
             faults' \in Nat, retries' \in Nat, abandoned' \subseteq Admitters,
             adm' \in [Admitters -> LocalStates],
             req' \in [Requests -> [pc : {"idle", "process", "retry", "extend"},
                        doc : Docs \cup {Nobody}, seen : Statuses \cup {"none"}]],
             Locals'
      PROVE  TypeInv'
  BY <1>f, <1>0 DEF TypeInv, TypeOK
<1>r. ASSUME NEW d \in Docs, NEW p \in {"process", "retry", "extend"}, Read(q, d, p),
             UNCHANGED <<adm, runDoc, runPc, sweep, child>>
      PROVE  /\ req' \in [Requests -> [pc : {"idle", "process", "retry", "extend"},
                            doc : Docs \cup {Nobody}, seen : Statuses \cup {"none"}]]
             /\ Locals'
  <2> DEFINE m == [pc |-> p, doc |-> d, seen |-> IF p = "extend" THEN status[d] ELSE "none"]
  <2>1. m \in [pc : {"idle", "process", "retry", "extend"}, doc : Docs \cup {Nobody},
               seen : Statuses \cup {"none"}]
    BY <1>0 DEF TypeOK
  <2>2. m.doc \in Docs /\ adm[q].pc = "idle" /\ req' = [req EXCEPT ![q] = m]
    BY <1>r DEF Read
  <2>3. m.pc = "extend" => m.seen \in Statuses
    BY <1>0 DEF TypeOK
  <2> HIDE DEF m
  <2> QED
    BY <1>r, <2>1, <2>2, <2>3, ReadStep
<1>1. ASSUME NEW d \in Docs, ProcessRead(q, d)
      PROVE  TypeInv'
  <2>1. /\ Read(q, d, "process")
        /\ UNCHANGED <<docVars, runVars, adm, sweep, child, hist>>
    BY <1>1 DEF ProcessRead, hist
  <2> QED
    BY <1>0, <2>1, <1>f, <1>r DEF docVars, runVars, hist, TypeOK
<1>2. ASSUME NEW d \in Docs, RetryRead(q, d)
      PROVE  TypeInv'
  BY <1>0, <1>2, <1>f, <1>r DEF RetryRead, docVars, runVars, TypeOK
<1>3. ASSUME NEW d \in Docs, ExtendRead(q, d)
      PROVE  TypeInv'
  BY <1>0, <1>3, <1>f, <1>r DEF ExtendRead, docVars, runVars, TypeOK
<1>4. CASE ProcessWrite(q)
  <2> DEFINE d == req[q].doc
  <2>1. d \in Docs /\ adm[q].pc = "idle"
    BY <1>0, <1>4 DEF ProcessWrite, Locals
  <2>2. PICK l \in LocalStates : l.pc \in Resting /\ adm' = [adm EXCEPT ![q] = l]
    BY <1>0, <1>4, <2>1, AdmitQueuedType DEF ProcessWrite, TypeOK, Resting
  <2>3. /\ adm' \in [Admitters -> LocalStates]
        /\ req' \in [Requests -> [pc : {"idle", "process", "retry", "extend"},
                        doc : Docs \cup {Nobody}, seen : Statuses \cup {"none"}]]
        /\ Locals'
    BY <1>4, <2>2, NoRequestType, RequestStep DEF ProcessWrite, runVars
  <2>4. status' \in [Docs -> Statuses] /\ bytes' \in [Docs -> {"none", "upload", "source"}]
    BY <1>0, <1>4, <2>1 DEF ProcessWrite, TypeOK, Statuses, Working
  <2> QED
    BY <1>0, <1>4, <1>f, <2>3, <2>4 DEF ProcessWrite, runVars, hist, TypeOK
<1>5. CASE RetryWrite(q)
  <2> DEFINE d == req[q].doc
  <2>1. d \in Docs /\ adm[q].pc = "idle"
    BY <1>0, <1>5 DEF RetryWrite, Locals
  <2>2. PICK l \in LocalStates : l.pc \in Resting /\ adm' = [adm EXCEPT ![q] = l]
    BY <1>0, <1>5, <2>1, AdmitQueuedType DEF RetryWrite, TypeOK, Resting
  <2>3. /\ adm' \in [Admitters -> LocalStates]
        /\ req' \in [Requests -> [pc : {"idle", "process", "retry", "extend"},
                        doc : Docs \cup {Nobody}, seen : Statuses \cup {"none"}]]
        /\ Locals'
    BY <1>5, <2>2, NoRequestType, RequestStep DEF RetryWrite, runVars
  <2>4. status' \in [Docs -> Statuses] /\ runId' \in [Docs -> RunIds]
    BY SMTT(20), <1>0, <1>5, <2>1 DEF RetryWrite, TypeOK, Statuses, Working, RunIds
  <2> QED
    BY <1>0, <1>5, <1>f, <2>3, <2>4 DEF RetryWrite, runVars, hist, TypeOK
<1>6. CASE ExtendWrite(q)
  <2> DEFINE d == req[q].doc
  <2>1. d \in Docs /\ req[q].seen \in Statuses
    BY <1>0, <1>6 DEF ExtendWrite, Locals
  <2>2. /\ req' \in [Requests -> [pc : {"idle", "process", "retry", "extend"},
                        doc : Docs \cup {Nobody}, seen : Statuses \cup {"none"}]]
        /\ Locals'
    BY <1>6, NoRequestType, ReadStep DEF ExtendWrite, runVars
  <2>3. status' \in [Docs -> Statuses] /\ life' \in [Docs -> {"kept", "due", "gone"}]
    BY <1>0, <1>6, <2>1 DEF ExtendWrite, TypeOK, Statuses
  <2> QED
    BY <1>0, <1>6, <1>f, <2>2, <2>3 DEF ExtendWrite, runVars, hist, TypeOK
<1>7. CASE RequestDies(q)
  <2>1. /\ adm' \in [Admitters -> LocalStates]
        /\ req' \in [Requests -> [pc : {"idle", "process", "retry", "extend"},
                        doc : Docs \cup {Nobody}, seen : Statuses \cup {"none"}]]
        /\ Locals'
    BY <1>7, IdleType, NoRequestType, RequestStep DEF RequestDies, runVars, Resting
  <2>2. abandoned' \subseteq Admitters
    BY <1>0, <1>7 DEF RequestDies, Unrecorded, TypeOK, Admitters
  <2> QED
    BY <1>0, <1>7, <1>f, <2>1, <2>2 DEF RequestDies, docVars, runVars, TypeOK
<1> QED
  BY <1>1, <1>2, <1>3, <1>4, <1>5, <1>6, <1>7 DEF Request

-----------------------------------------------------------------------------
LEMMA ExpandType ==
  ASSUME TypeInv, Expand, overlapped' \in BOOLEAN
  PROVE  TypeInv'
<1>0. TypeOK /\ Locals
  BY DEF TypeInv
<1>1. ASSUME NEW d \in Docs, ChildRead(d)
      PROVE  TypeInv'
  <2>1. child'.pc = "start" /\ child'.doc = d /\ child'.new = 0
    BY <1>1 DEF ChildRead, NoChild
  <2>2. child' \in [pc : {"idle", "start", "record"}, doc : Docs \cup {Nobody}, new : {0} \cup Runs]
    BY <1>1 DEF ChildRead, NoChild
  <2>3. TypeOK'
    BY <1>0, <1>1, <2>2 DEF ChildRead, docVars, runVars, hist, TypeOK
  <2>4. Locals'
    BY <1>0, <1>1, <2>1 DEF ChildRead, runVars, Locals
  <2> QED
    BY <2>3, <2>4 DEF TypeInv
<1>2. ASSUME NEW r \in Runs, ChildStart(r)
      PROVE  TypeInv'
  <2>1. /\ child.pc = "start" /\ child.doc \in Docs /\ runPc[r] = "none"
        /\ runDoc' = [runDoc EXCEPT ![r] = child.doc]
        /\ runPc' = [runPc EXCEPT ![r] = "queued"]
        /\ child' = [child EXCEPT !.pc = "record", !.new = r]
    BY <1>0, <1>2 DEF ChildStart, NextRun, Locals
  <2>2. child' \in [pc : {"idle", "start", "record"}, doc : Docs \cup {Nobody}, new : {0} \cup Runs]
    BY <1>0, <2>1 DEF TypeOK
  <2>3. child'.doc \in Docs /\ child'.new = r
    BY <1>0, <2>1 DEF TypeOK
  <2>4. /\ runDoc' \in [Runs -> Docs \cup {Nobody}]
        /\ runPc' \in [Runs -> Steps \cup {"none", "ended"}]
    BY <1>0, <2>1 DEF TypeOK, Steps, Stages, Working
  <2>5. /\ runDoc'[r] = child.doc /\ runPc'[r] = "queued"
        /\ \A s \in Runs : s # r => runDoc'[s] = runDoc[s] /\ runPc'[s] = runPc[s]
    BY <1>0, <2>1 DEF TypeOK
  <2>6. TypeOK'
    BY <1>0, <1>2, <2>2, <2>4 DEF ChildStart, docVars, hist, TypeOK
  <2>7. adm' = adm /\ req' = req /\ sweep' = sweep
    BY <1>2 DEF ChildStart
  <2>8. ASSUME NEW b \in Admitters
        PROVE  /\ adm[b].pc \notin {"idle", "turn", "count"} => adm[b].rep \in Docs
               /\ adm[b].pc \in {"start", "record", "unclaim"} => adm[b].doc \in Docs
               /\ adm[b].pc = "record" => /\ adm[b].new \in Runs
                                         /\ runPc'[adm[b].new] # "none"
                                         /\ runDoc'[adm[b].new] = adm[b].doc
    BY <1>0, <2>1, <2>5 DEF Locals
  <2>9. ASSUME NEW s \in Runs
        PROVE  /\ runPc'[s] # "none" => runDoc'[s] \in Docs
               /\ runPc'[s] # "ended" => adm[s].pc = "idle"
    BY <1>0, <2>1, <2>5 DEF Locals
  <2>10. Locals'
    BY <1>0, <2>3, <2>7, <2>8, <2>9 DEF Locals
  <2> QED
    BY <2>6, <2>10 DEF TypeInv
<1>3. CASE ChildRecord
  <2> DEFINE v == IF Exists(child.doc) THEN Started(child.new) ELSE runId[child.doc]
  <2>1. child.doc \in Docs /\ child.new \in Runs /\ runId' = [runId EXCEPT ![child.doc] = v]
    BY <1>0, <1>3 DEF ChildRecord, Locals
  <2>2. v \in RunIds
    BY <1>0, <2>1 DEF RunIds, TypeOK
  <2>3. runId' \in [Docs -> RunIds]
    BY <1>0, <2>1, <2>2 DEF TypeOK
  <2>4. /\ child' \in [pc : {"idle", "start", "record"}, doc : Docs \cup {Nobody}, new : {0} \cup Runs]
        /\ child'.pc = "idle"
    BY <1>3 DEF ChildRecord, NoChild
  <2>5. TypeOK'
    BY <1>0, <1>3, <2>3, <2>4 DEF ChildRecord, runVars, hist, TypeOK
  <2>6. Locals'
    BY <1>0, <1>3, <2>4 DEF ChildRecord, runVars, Locals
  <2> QED
    BY <2>5, <2>6 DEF TypeInv
<1> QED
  BY <1>1, <1>2, <1>3 DEF Expand

LEMMA ExpireType ==
  ASSUME TypeInv, NEW d \in Docs, Expire(d), overlapped' \in BOOLEAN
  PROVE  TypeInv'
<1>1. life' \in [Docs -> {"kept", "due", "gone"}]
  BY DEF TypeInv, TypeOK, Expire
<1>2. TypeOK'
  BY <1>1 DEF TypeInv, TypeOK, Expire, runVars, procVars, hist
<1>3. Locals'
  BY DEF TypeInv, Locals, Expire, runVars, procVars
<1> QED
  BY <1>2, <1>3 DEF TypeInv

LEMMA SweepType ==
  ASSUME TypeInv, Sweep, overlapped' \in BOOLEAN
  PROVE  TypeInv'
<1>0. TypeOK /\ Locals /\ Sweeper \in Admitters
  BY DEF TypeInv, Admitters
<1> DEFINE Sweeps == [pc : {"idle", "recover", "lost", "cancel", "requeue", "admit"},
                      found : SUBSET Candidates, cur : Candidates]
       Shape == /\ IF sweep.pc \in {"cancel", "requeue"}
                   THEN sweep.cur.doc \in Docs ELSE sweep.cur = NoCandidate
                /\ \A c \in sweep.found :
                     /\ c.doc \in Docs /\ c.doc # sweep.cur.doc
                     /\ \A e \in sweep.found : e.doc = c.doc => e = c
<1>c. /\ NoCandidate \in Candidates /\ NoCandidate.doc \notin Docs
      /\ SweepIdle \in Sweeps /\ SweepIdle.pc = "idle"
      /\ SweepIdle.found = {} /\ SweepIdle.cur = NoCandidate
  BY ProcessesAssumption DEF NoCandidate, Candidates, SweepIdle, RunIds
<1>s. Shape /\ sweep \in Sweeps
  BY <1>0 DEF Locals, TypeOK
<1>t. Shape'
  <2>1. CASE SweepExpired
    BY <1>s, <1>c, <2>1 DEF SweepExpired
  <2>2. CASE FindLost
    <3>1. sweep.cur = NoCandidate
      BY <1>s, <2>2 DEF FindLost
    <3> QED
      BY <1>s, <1>c, <2>2, <3>1 DEF FindLost
  <2>3. CASE TakeCandidate
    BY <1>s, <2>3 DEF TakeCandidate
  <2>4. CASE SkipMoving
    BY <1>s, <2>4 DEF SkipMoving
  <2>5. CASE CancelLost
    BY <1>s, <2>5 DEF CancelLost
  <2>6. CASE CancelFails
    BY <1>s, <1>c, <2>6 DEF CancelFails
  <2>7. CASE Requeue
    BY <1>s, <1>c, <2>7 DEF Requeue
  <2>8. CASE AdmitStalled
    BY <1>s, <1>c, <2>8 DEF AdmitStalled
  <2>9. CASE EndSweep
    BY <1>c, <2>9 DEF EndSweep
  <2>10. CASE SweeperDies
    BY <1>c, <2>10 DEF SweeperDies
  <2> QED
    BY <2>1, <2>2, <2>3, <2>4, <2>5, <2>6, <2>7, <2>8, <2>9, <2>10 DEF Sweep
\* A step of the sweep outside the admission it makes.
<1>f. ASSUME UNCHANGED <<bytes, runDoc, runPc, exec, adm, req, child, retries, abandoned>>,
             status' \in [Docs -> Statuses],
             runId' \in [Docs -> RunIds],
             recoveries' \in [Docs -> Nat],
             life' \in [Docs -> {"kept", "due", "gone"}],
             cancelled' \in [Runs -> BOOLEAN],
             faults' \in Nat,
             sweep' \in Sweeps,
             sweep.pc # "admit" \/ adm[Sweeper].pc = "idle"
      PROVE  TypeInv'
  <2>1. TypeOK'
    BY <1>0, <1>f DEF TypeOK
  <2>2. Locals'
    BY <1>0, <1>f, <1>t DEF Locals
  <2> QED
    BY <2>1, <2>2 DEF TypeInv
<1>1. CASE SweepExpired
  BY <1>0, <1>1, <1>f DEF SweepExpired, runVars, hist, TypeOK, Statuses
<1>2. CASE FindLost
  <2>1. {[doc |-> d, runId |-> runId[d], recoveries |-> recoveries[d]] :
           d \in {e \in Docs : Stalled(e)}} \in SUBSET Candidates
    BY <1>0 DEF TypeOK, Candidates
  <2>2. sweep' \in Sweeps
    BY <1>0, <1>2, <2>1 DEF FindLost, TypeOK
  <2> QED
    BY <1>0, <1>2, <2>2, <1>f DEF FindLost, docVars, runVars, hist, TypeOK
<1>3. CASE TakeCandidate
  BY ZenonT(40), <1>0, <1>3, <1>f DEF TakeCandidate, docVars, runVars, hist, TypeOK
<1>4. CASE SkipMoving
  BY <1>0, <1>4, <1>f DEF SkipMoving, docVars, runVars, hist, TypeOK
<1>5. CASE CancelLost
  <2>1. cancelled' \in [Runs -> BOOLEAN]
    BY <1>0, <1>5 DEF CancelLost, CancelledBy, TypeOK
  <2> QED
    BY <1>0, <1>5, <2>1, <1>f DEF CancelLost, docVars, hist, TypeOK
<1>6. CASE CancelFails
  <2>1. sweep' \in Sweeps /\ sweep.pc # "admit"
    BY <1>0, <1>6, <1>c DEF CancelFails, TypeOK
  <2>2. faults' \in Nat /\ UNCHANGED <<docVars, runVars, adm, req, child, retries, abandoned>>
    BY <1>0, <1>6 DEF CancelFails, TypeOK
  <2> HIDE DEF Sweeps
  <2> QED
    BY <1>0, <2>1, <2>2, <1>f DEF docVars, runVars, TypeOK
<1>7. CASE Requeue
  <2>1. sweep' \in Sweeps
    BY <1>0, <1>7, <1>c DEF Requeue, TypeOK
  <2>2. sweep.cur.recoveries \in Nat
    BY <1>0 DEF TypeOK, Candidates
  <2>3. recoveries' \in [Docs -> Nat]
    BY <1>0, <1>7, <2>2 DEF Requeue, TypeOK
  <2>4. status' \in [Docs -> Statuses] /\ runId' \in [Docs -> RunIds]
    BY <1>0, <1>7 DEF Requeue, TypeOK, Statuses, Working, RunIds
  <2> QED
    BY <1>0, <1>7, <2>1, <2>3, <2>4, <1>f DEF Requeue, runVars, hist, TypeOK
<1>8. CASE AdmitStalled
  <2>1. adm' \in [Admitters -> LocalStates]
    BY <1>0, <1>8, AdmitFairlyType DEF AdmitStalled, TypeOK
  <2>2. sweep' \in Sweeps
    BY <1>0, <1>8 DEF AdmitStalled, TypeOK
  <2>3. TypeOK'
    BY <1>0, <1>8, <2>1, <2>2 DEF AdmitStalled, docVars, runVars, hist, TypeOK
  <2>4. /\ adm'[Sweeper] = AdmitFairly
        /\ \A b \in Admitters : b # Sweeper => adm'[b] = adm[b]
    BY <1>0, <1>8 DEF AdmitStalled, TypeOK
  <2>5. sweep'.pc # "admit" => adm'[Sweeper].pc = "idle"
    <3>1. sweep'.pc # "admit" => WaitingOwners = {}
      BY <1>0, <1>8 DEF AdmitStalled, TypeOK
    <3> QED
      BY <3>1, <2>4, IdleType DEF AdmitFairly, InTurn
  <2>6. /\ Runs \subseteq Admitters /\ Requests \subseteq Admitters
        /\ Sweeper \notin Runs /\ Sweeper \notin Requests
    BY ProcessesAssumption DEF Admitters
  <2>7. Locals'
    BY <1>0, <1>8, <2>4, <2>5, <2>6, <1>t, AdmitFairlyType
    DEF AdmitStalled, runVars, Locals, Resting
  <2> QED
    BY <2>3, <2>7 DEF TypeInv
<1>9. CASE EndSweep
  BY <1>0, <1>9, <1>c, <1>f DEF EndSweep, docVars, runVars, hist, TypeOK
<1>10. CASE SweeperDies
  <2>1. /\ adm' \in [Admitters -> LocalStates]
        /\ adm'[Sweeper] = Idle
        /\ \A b \in Admitters : b # Sweeper => adm'[b] = adm[b]
    BY <1>0, <1>10, IdleType DEF SweeperDies, TypeOK
  <2>2. abandoned' \subseteq Admitters
    BY <1>0, <1>10 DEF SweeperDies, Unrecorded, TypeOK, Admitters
  <2>3. TypeOK'
    BY <1>0, <1>10, <1>c, <2>1, <2>2 DEF SweeperDies, docVars, runVars, TypeOK
  <2>4. /\ Runs \subseteq Admitters /\ Requests \subseteq Admitters
        /\ Sweeper \notin Runs /\ Sweeper \notin Requests
    BY ProcessesAssumption DEF Admitters
  <2>5. Locals'
    BY <1>0, <1>10, <2>1, <2>4, <1>t, IdleType DEF SweeperDies, runVars, Locals
  <2> QED
    BY <2>3, <2>5 DEF TypeInv
<1> QED
  BY <1>1, <1>2, <1>3, <1>4, <1>5, <1>6, <1>7, <1>8, <1>9, <1>10 DEF Sweep

-----------------------------------------------------------------------------
LEMMA NextType == TypeInv /\ [Next]_vars => TypeInv'
<1> SUFFICES ASSUME TypeInv, [Next]_vars PROVE TypeInv'
  OBVIOUS
<1>1. CASE Step /\ overlapped' = (overlapped \/ Overlap')
  <2>1. overlapped' \in BOOLEAN
    BY <1>1 DEF Overlap
  <2> QED
    BY <1>1, <2>1, AdmitType, RunType, RequestType, ExpandType, ExpireType, SweepType DEF Step
<1>2. CASE UNCHANGED vars
  BY <1>2 DEF vars, docVars, runVars, procVars, hist, TypeInv, TypeOK, Locals
<1> QED
  BY <1>1, <1>2 DEF Next, AtRest

\* Every variable keeps its type, for any constants; the rows' run ids, the
\* admissions' locals and the sweep's candidates among them.
THEOREM TypeCorrect == Spec => []TypeOK
<1>1. Init => TypeInv
  BY InitType
<1>2. TypeInv /\ [Next]_vars => TypeInv'
  BY NextType
<1>3. TypeInv => TypeOK
  BY DEF TypeInv
<1> QED
  BY <1>1, <1>2, <1>3, PTL DEF Spec

-----------------------------------------------------------------------------
(* One live run. *)

\* Only a claim and the sweep decide who processes a document.
ClaimsOnly == Allows \cap {"retry", "children"} = {}

\* A retry is handled only where there may be some, and no expansion step is.
NoOtherStarts ==
  /\ \A q \in Requests : req[q].pc = "retry" => "retry" \in Allows
  /\ child.pc = "idle"

OneRunInv ==
  /\ TypeInv /\ NoOtherStarts
  /\ OneRunPerDocument /\ RunIsNamed /\ StartsAlone /\ LostStaysLost

-----------------------------------------------------------------------------
(* Run ids. *)

LEMMA RunIdFacts ==
  /\ \A a, b : Pending(a) = Pending(b) => a = b
  /\ \A r, s : Started(r) = Started(s) => r = s
  /\ \A a, r : Pending(a) # Started(r)
  /\ \A a : Pending(a) # NoRun
  /\ \A r : Started(r) # NoRun
  /\ \A i \in RunIds : \/ i = NoRun
                       \/ \E a \in Admitters : i = Pending(a)
                       \/ \E r \in Runs : i = Started(r)
  BY DEF Pending, Started, NoRun, RunIds

LEMMA LiveStarted ==
  ASSUME NEW r \in Runs, Live(r) PROVE runPc[r] \notin {"none", "admit", "ended"}
  BY DEF Live, Writing, Stages, Working

-----------------------------------------------------------------------------
\* A step that claims no document, starts no run and gives no row back: fewer
\* runs are live, fewer rows exist, and an admission with a document in hand
\* keeps it, or drops it, or is lost with the run it started.
LEMMA QuietStep ==
  ASSUME OneRunInv, TypeInv', NoOtherStarts',
         runId' = runId,
         \A r \in Runs : Live(r)' => Live(r) /\ runDoc'[r] = runDoc[r],
         \A d \in Docs : Exists(d)' => Exists(d),
         \A a \in Admitters : adm'[a].pc = "start" => adm'[a] = adm[a],
         \A a \in Admitters, r \in Runs :
           adm[a].pc = "record" /\ adm[a].new = r /\ Live(r)' => adm'[a] = adm[a]
  PROVE  OneRunPerDocument' /\ RunIsNamed' /\ StartsAlone'
<1>1. OneRunPerDocument /\ RunIsNamed /\ StartsAlone /\ TypeOK /\ Locals
  BY DEF OneRunInv, TypeInv
<1>2. OneRunPerDocument'
  BY <1>1 DEF OneRunPerDocument
<1>3. RunIsNamed'
  <2> SUFFICES ASSUME NEW r \in Runs, Live(r)', Exists(runDoc[r])', runId[runDoc[r]] # Started(r)
               PROVE  \E a \in Admitters : /\ runId[runDoc[r]] = Pending(a)
                                           /\ adm'[a].pc = "record" /\ adm'[a].new = r
    BY DEF RunIsNamed
  <2>1. runDoc[r] \in Docs
    BY <1>1, LiveStarted DEF Locals
  <2>2. PICK a \in Admitters : /\ runId[runDoc[r]] = Pending(a)
                               /\ adm[a].pc = "record" /\ adm[a].new = r
    BY <1>1, <2>1 DEF RunIsNamed
  <2>3. adm'[a] = adm[a]
    BY <2>2
  <2> QED
    BY <2>2, <2>3
<1>4. StartsAlone'
  <2> SUFFICES ASSUME NEW a \in Admitters, adm'[a].pc = "start"
               PROVE  /\ \A r \in Runs : Live(r)' => runDoc'[r] # adm'[a].doc
                      /\ \A b \in Admitters : adm'[b].pc = "start" /\ adm'[b].doc = adm'[a].doc => b = a
                      /\ Exists(adm[a].doc)' => runId'[adm'[a].doc] = Pending(a)
    BY DEF StartsAlone
  <2>1. adm'[a] = adm[a] /\ adm[a].pc = "start" /\ adm[a].doc \in Docs
    BY <1>1 DEF Locals
  <2>2. \A b \in Admitters : adm'[b].pc = "start" => adm[b].pc = "start" /\ adm'[b] = adm[b]
    OBVIOUS
  <2> QED
    BY <1>1, <2>1, <2>2 DEF StartsAlone
<1> QED
  BY <1>2, <1>3, <1>4

InHand == {"start", "record", "unclaim"}

\* A step outside the sweep: a claim is only given up by the admission that made
\* it, a document is only taken in hand with a claim of a row that had none, and
\* a run that is cancelled or past its writes stays so.
LEMMA LostStep ==
  ASSUME OneRunInv, sweep' = sweep,
         \A d \in Docs, a \in Admitters :
           runId[d] = Pending(a) /\ runId'[d] # Pending(a) => adm[a].doc = d /\ adm[a].pc \in InHand,
         \A a \in Admitters : adm'[a].pc \in InHand =>
           \/ adm[a].pc \in InHand /\ adm'[a].doc = adm[a].doc
           \/ runId[adm'[a].doc] = NoRun,
         \A r \in Runs : cancelled[r] \/ runPc[r] \in {"admit", "ended"} =>
                         cancelled'[r] \/ runPc'[r] \in {"admit", "ended"}
  PROVE  LostStaysLost'
<1>1. LostStaysLost /\ Locals /\ TypeOK
  BY DEF OneRunInv, TypeInv
<1>2. ASSUME NEW c \in sweep.found \cup {sweep.cur}, NEW a \in Admitters, c.runId = Pending(a)
      PROVE  /\ runId'[c.doc] = c.runId
             /\ adm'[a].doc = c.doc => adm'[a].pc \notin {"start", "record", "unclaim"}
  <2>1. c.doc \in Docs
    BY <1>1, <1>2, RunIdFacts DEF Locals, NoCandidate
  <2>2. /\ runId[c.doc] = c.runId
        /\ adm[a].doc = c.doc => adm[a].pc \notin InHand
    BY <1>1, <1>2 DEF LostStaysLost, InHand
  <2>3. runId'[c.doc] = c.runId
    BY <1>2, <2>1, <2>2
  <2>4. runId[c.doc] # NoRun
    BY <1>2, <2>2, RunIdFacts
  <2> QED
    BY <2>2, <2>3, <2>4 DEF InHand
<1>3. ASSUME NEW r \in Runs, sweep.pc = "requeue", sweep.cur.runId = Started(r)
      PROVE  cancelled'[r] \/ runPc'[r] \in {"admit", "ended"}
  BY <1>1, <1>3 DEF LostStaysLost
<1> QED
  BY <1>2, <1>3 DEF LostStaysLost

\* An admission that moves on without a claim and without a run.
LEMMA QuietAdmission ==
  ASSUME OneRunInv, TypeInv', NEW a \in Admitters, NEW l \in LocalStates,
         adm' = [adm EXCEPT ![a] = l],
         adm[a].pc # "record",
         l.pc \in InHand => l.pc = "unclaim" /\ adm[a].pc = "start" /\ l.doc = adm[a].doc,
         UNCHANGED <<runId, life, runVars, req, sweep, child, abandoned>>
  PROVE  OneRunInv'
<1>1. TypeOK /\ NoOtherStarts
  BY DEF OneRunInv, TypeInv
<1>2. adm'[a] = l /\ \A b \in Admitters : b # a => adm'[b] = adm[b]
  BY <1>1 DEF TypeOK
<1>3. \A r \in Runs : Live(r)' <=> Live(r)
  BY DEF Live, Writing, runVars
<1>4. NoOtherStarts'
  BY <1>1 DEF NoOtherStarts
<1>5. OneRunPerDocument' /\ RunIsNamed' /\ StartsAlone'
  BY <1>2, <1>3, <1>4, QuietStep DEF InHand, Exists, runVars
<1>6. LostStaysLost'
  BY <1>2, LostStep DEF InHand, runVars
<1> QED
  BY <1>4, <1>5, <1>6 DEF OneRunInv

-----------------------------------------------------------------------------
(* The actions. *)

\* The two ways a claim goes: the row is the admission's, or it is passed over.
LEMMA ClaimShape ==
  ASSUME TypeInv, NEW a \in Admitters, Claim(a)
  PROVE  \E d \in Docs, m \in LocalStates :
           /\ adm' = [adm EXCEPT ![a] = m]
           /\ \/ /\ MayClaim(d) /\ runId' = [runId EXCEPT ![d] = Pending(a)]
                 /\ m.pc = "start" /\ m.doc = d
              \/ runId' = runId /\ m.pc \notin InHand
<1>0. adm[a] \in LocalStates /\ adm[a].rep \in Docs
  BY DEF TypeInv, TypeOK, Locals, Claim
<1>1. PICK d \in adm[a].waiting :
        LET l == [adm[a] EXCEPT !.waiting = @ \ {d}] IN
        \/ /\ MayClaim(d)
           /\ runId' = [runId EXCEPT ![d] = Pending(a)]
           /\ adm' = [adm EXCEPT ![a] = [l EXCEPT !.pc = "start", !.doc = d]]
        \/ /\ ~MayClaim(d)
           /\ adm' = [adm EXCEPT ![a] = DocDone(l)]
           /\ UNCHANGED runId
  BY DEF Claim
<1> DEFINE rest == adm[a].waiting \ {d}
           l    == [adm[a] EXCEPT !.waiting = rest]
           m    == [l EXCEPT !.pc = "start", !.doc = d]
<1>2. d \in Docs /\ rest \in SUBSET Docs
  <2>1. adm[a].waiting \in SUBSET Docs
    BY <1>0 DEF LocalStates
  <2> QED
    BY <1>1, <2>1
<1>3. \/ /\ MayClaim(d)
         /\ runId' = [runId EXCEPT ![d] = Pending(a)]
         /\ adm' = [adm EXCEPT ![a] = m]
      \/ adm' = [adm EXCEPT ![a] = DocDone(l)] /\ runId' = runId
  BY <1>1
<1> HIDE DEF rest
<1>4. l \in LocalStates /\ l.rep \in Docs
  BY <1>0, <1>2 DEF LocalStates
<1> HIDE DEF l
<1>5. m \in LocalStates /\ m.pc = "start" /\ m.doc = d
  BY <1>2, <1>4 DEF LocalStates
<1>6. DocDone(l) \in LocalStates /\ DocDone(l).pc \notin InHand
  BY <1>4, DocDoneType DEF Resting, InHand
<1> HIDE DEF m
<1> QED
  BY <1>2, <1>3, <1>5, <1>6

LEMMA ClaimOneRun ==
  ASSUME OneRunInv, TypeInv', NEW a \in Admitters, Claim(a)
  PROVE  OneRunInv'
<1>0. /\ OneRunPerDocument /\ RunIsNamed /\ StartsAlone /\ LostStaysLost
      /\ TypeOK /\ Locals /\ NoOtherStarts
  BY DEF OneRunInv, TypeInv
<1>1. PICK d \in Docs, m \in LocalStates :
        /\ adm' = [adm EXCEPT ![a] = m]
        /\ \/ /\ MayClaim(d) /\ runId' = [runId EXCEPT ![d] = Pending(a)]
              /\ m.pc = "start" /\ m.doc = d
           \/ runId' = runId /\ m.pc \notin InHand
  BY ClaimShape DEF OneRunInv
<1>2. /\ UNCHANGED <<life, runVars, req, sweep, child, abandoned>>
      /\ adm[a].pc = "claim"
  BY DEF Claim, hist
<1>3. d \in Docs
  OBVIOUS
<1>4. CASE runId' = runId /\ m.pc \notin InHand
  BY <1>1, <1>2, <1>4, QuietAdmission
<1>5. CASE /\ MayClaim(d) /\ runId' = [runId EXCEPT ![d] = Pending(a)]
           /\ m.pc = "start" /\ m.doc = d
  <2>1. /\ Exists(d) /\ runId[d] = NoRun
        /\ adm'[a].pc = "start" /\ adm'[a].doc = d
        /\ \A b \in Admitters : b # a => adm'[b] = adm[b]
    BY <1>0, <1>1, <1>5 DEF MayClaim, TypeOK
  <2>2. \A e \in Docs : runId'[e] = IF e = d THEN Pending(a) ELSE runId[e]
    BY <1>0, <1>5 DEF TypeOK
  <2>3. \A r \in Runs : Live(r)' <=> Live(r)
    BY <1>2 DEF Live, Writing, runVars
  <2>4. \A e \in Docs : Exists(e)' <=> Exists(e)
    BY <1>2 DEF Exists
  <2>5. \A r \in Runs : Live(r) => runDoc[r] # d
    BY <1>0, <2>1, RunIdFacts DEF RunIsNamed
  <2>6. \A b \in Admitters : adm[b].pc = "start" => adm[b].doc # d
    BY <1>0, <2>1, RunIdFacts DEF StartsAlone
  <2>7. OneRunPerDocument'
    BY <1>0, <1>2, <2>3 DEF OneRunPerDocument, runVars
  <2>8. RunIsNamed'
    <3> SUFFICES ASSUME NEW r \in Runs, Live(r), Exists(runDoc[r]), runId'[runDoc[r]] # Started(r)
                 PROVE  \E b \in Admitters : /\ runId'[runDoc[r]] = Pending(b)
                                             /\ adm'[b].pc = "record" /\ adm'[b].new = r
      BY <1>2, <2>3 DEF RunIsNamed, runVars, Exists
    <3>1. runDoc[r] \in Docs /\ runDoc[r] # d
      BY <1>0, <2>5, LiveStarted DEF Locals
    <3>2. PICK b \in Admitters : /\ runId[runDoc[r]] = Pending(b)
                                 /\ adm[b].pc = "record" /\ adm[b].new = r
      BY <1>0, <2>2, <3>1 DEF RunIsNamed
    <3> QED
      BY <1>2, <2>1, <2>2, <3>1, <3>2
  <2>9. StartsAlone'
    <3> SUFFICES ASSUME NEW b \in Admitters, adm'[b].pc = "start"
                 PROVE  /\ \A r \in Runs : Live(r) => runDoc[r] # adm'[b].doc
                        /\ \A c \in Admitters :
                             adm'[c].pc = "start" /\ adm'[c].doc = adm'[b].doc => c = b
                        /\ life[adm'[b].doc] # "gone" => runId'[adm'[b].doc] = Pending(b)
      BY <1>2, <2>3 DEF StartsAlone, runVars, Exists
    <3>1. CASE b = a
      BY <2>1, <2>2, <2>5, <2>6, <1>3, <3>1
    <3>2. CASE b # a
      <4>1. adm'[b] = adm[b] /\ adm[b].doc \in Docs /\ adm[b].doc # d
        BY <1>0, <2>1, <2>6, <3>2 DEF Locals
      <4> QED
        BY <1>0, <2>1, <2>2, <4>1, <3>2 DEF StartsAlone, Exists
    <3> QED
      BY <3>1, <3>2
  <2>10. LostStaysLost'
    <3>1. \A e \in Docs, b \in Admitters : runId[e] = Pending(b) => runId'[e] = Pending(b)
      BY <2>1, <2>2, RunIdFacts
    <3> QED
      BY <1>2, <2>1, <3>1, LostStep DEF runVars
  <2>11. NoOtherStarts'
    BY <1>0, <1>2 DEF NoOtherStarts
  <2> QED
    BY <2>7, <2>8, <2>9, <2>10, <2>11 DEF OneRunInv
<1> QED
  BY <1>1, <1>4, <1>5

LEMMA StartOneRun ==
  ASSUME OneRunInv, TypeInv', NEW a \in Admitters, NEW r \in Runs, StartRun(a, r)
  PROVE  OneRunInv'
<1>0. /\ OneRunPerDocument /\ RunIsNamed /\ StartsAlone /\ LostStaysLost
      /\ TypeOK /\ Locals /\ NoOtherStarts
  BY DEF OneRunInv, TypeInv
<1> DEFINE d == adm[a].doc
<1>1. /\ UNCHANGED <<runId, life, cancelled, req, sweep, child, abandoned>>
      /\ adm[a].pc = "start" /\ runPc[r] = "none"
  BY DEF StartRun, NextRun, docVars, hist
<1>2. /\ adm'[a].pc = "record" /\ adm'[a].new = r /\ adm'[a].doc = d
      /\ \A b \in Admitters : b # a => adm'[b] = adm[b]
      /\ runDoc'[r] = d /\ runPc'[r] = "queued"
      /\ \A s \in Runs : s # r => runDoc'[s] = runDoc[s] /\ runPc'[s] = runPc[s]
  BY <1>0 DEF StartRun, TypeOK
<1>3. \A s \in Runs : s # r => (Live(s)' <=> Live(s))
  BY <1>1, <1>2 DEF Live, Writing
<1>4. d \in Docs /\ (Exists(d) => runId[d] = Pending(a))
  BY <1>0, <1>1 DEF Locals, StartsAlone
<1>5. \A s \in Runs : Live(s) => runDoc[s] # d /\ s # r
  BY <1>0, <1>1, LiveStarted DEF StartsAlone
<1>6. \A e \in Docs : Exists(e)' <=> Exists(e)
  BY <1>1 DEF Exists
<1>7. OneRunPerDocument'
  BY <1>0, <1>2, <1>3, <1>5 DEF OneRunPerDocument
<1>8. RunIsNamed'
  <2> SUFFICES ASSUME NEW s \in Runs, Live(s)', life[runDoc'[s]] # "gone", runId[runDoc'[s]] # Started(s)
               PROVE  \E b \in Admitters : /\ runId[runDoc'[s]] = Pending(b)
                                           /\ adm'[b].pc = "record" /\ adm'[b].new = s
    BY <1>1 DEF RunIsNamed, Exists
  <2>1. CASE s = r
    BY <1>2, <1>4, <2>1 DEF Exists
  <2>2. CASE s # r
    <3>1. PICK b \in Admitters : /\ runId[runDoc[s]] = Pending(b)
                                 /\ adm[b].pc = "record" /\ adm[b].new = s
      BY <1>0, <1>2, <1>3, <2>2 DEF RunIsNamed, Exists
    <3>2. b # a
      BY <1>1, <3>1
    <3> QED
      BY <1>2, <2>2, <3>1, <3>2
  <2> QED
    BY <2>1, <2>2
<1>9. StartsAlone'
  <2> SUFFICES ASSUME NEW b \in Admitters, adm'[b].pc = "start"
               PROVE  /\ \A s \in Runs : Live(s)' => runDoc'[s] # adm'[b].doc
                      /\ \A c \in Admitters :
                           adm'[c].pc = "start" /\ adm'[c].doc = adm'[b].doc => c = b
                      /\ life[adm'[b].doc] # "gone" => runId[adm'[b].doc] = Pending(b)
    BY <1>1 DEF StartsAlone, Exists
  <2>1. b # a /\ adm'[b] = adm[b]
    BY <1>2
  <2>2. adm[b].doc # d
    BY <1>0, <1>1, <2>1 DEF StartsAlone
  <2>3. \A s \in Runs : Live(s)' => runDoc'[s] # adm[b].doc
    BY <1>0, <1>2, <1>3, <2>1, <2>2 DEF StartsAlone
  <2>4. \A c \in Admitters : adm'[c].pc = "start" => adm'[c] = adm[c]
    BY <1>2
  <2> QED
    BY <1>0, <2>1, <2>3, <2>4 DEF StartsAlone, Exists
<1>10. LostStaysLost'
  BY <1>1, <1>2, LostStep DEF InHand
<1>11. NoOtherStarts'
  BY <1>0, <1>1 DEF NoOtherStarts
<1> QED
  BY <1>7, <1>8, <1>9, <1>10, <1>11 DEF OneRunInv

\* The claim of an admission that stops holding its document: given back, or
\* replaced by the run it started.
LEMMA LetGoOneRun ==
  ASSUME OneRunInv, TypeInv', NEW a \in Admitters,
         Unclaim(a) \/ RecordRun(a)
  PROVE  OneRunInv'
<1>0. /\ OneRunPerDocument /\ RunIsNamed /\ StartsAlone /\ LostStaysLost
      /\ TypeOK /\ Locals /\ NoOtherStarts
  BY DEF OneRunInv, TypeInv
<1> DEFINE d == adm[a].doc
<1>1. /\ UNCHANGED <<life, runVars, req, sweep, child, abandoned>>
      /\ adm[a].pc \in {"record", "unclaim"} /\ d \in Docs
  BY <1>0 DEF Unclaim, RecordRun, hist, Locals
<1>2. /\ adm'[a].pc \notin InHand
      /\ \A b \in Admitters : b # a => adm'[b] = adm[b]
  <2>1. CASE Unclaim(a)
    BY <1>0, <2>1, IdleType DEF Unclaim, TypeOK, InHand
  <2>2. CASE RecordRun(a)
    <3> DEFINE l == [adm[a] EXCEPT !.won = TRUE]
    <3>1. adm[a] \in LocalStates /\ adm[a].rep \in Docs
      BY <1>0, <2>2 DEF RecordRun, TypeOK, Locals
    <3>2. l \in LocalStates /\ l.rep \in Docs
      BY <3>1 DEF LocalStates
    <3>3. DocDone(l).pc \notin InHand
      BY <3>2, DocDoneType DEF Resting, InHand
    <3> QED
      BY <1>0, <2>2, <3>3 DEF RecordRun, TypeOK
  <2> QED
    BY <2>1, <2>2
<1>3. PICK i \in {NoRun, Started(adm[a].new)} :
         /\ runId' = [runId EXCEPT ![d] = IF Holds(a, d) THEN i ELSE @]
         /\ adm[a].pc = "record" => i = Started(adm[a].new)
  BY DEF Unclaim, RecordRun
<1>4. \A e \in Docs : runId'[e] = IF e = d /\ Holds(a, d) THEN i ELSE runId[e]
  BY <1>0, <1>3 DEF TypeOK
<1>5. \A r \in Runs : Live(r)' <=> Live(r)
  BY <1>1 DEF Live, Writing, runVars
<1>6. OneRunPerDocument'
  BY <1>0, <1>1, <1>5 DEF OneRunPerDocument, runVars
<1>7. RunIsNamed'
  <2> SUFFICES ASSUME NEW r \in Runs, Live(r), Exists(runDoc[r]), runId'[runDoc[r]] # Started(r)
               PROVE  \E b \in Admitters : /\ runId'[runDoc[r]] = Pending(b)
                                           /\ adm'[b].pc = "record" /\ adm'[b].new = r
    BY <1>1, <1>5 DEF RunIsNamed, runVars, Exists
  <2>1. runDoc[r] \in Docs
    BY <1>0, LiveStarted DEF Locals
  <2>2. runId[runDoc[r]] # Started(r)
    BY <1>4, <2>1, RunIdFacts DEF Holds
  <2>3. PICK b \in Admitters : /\ runId[runDoc[r]] = Pending(b)
                               /\ adm[b].pc = "record" /\ adm[b].new = r
    BY <1>0, <2>2 DEF RunIsNamed
  <2>4. b # a
    <3> SUFFICES ASSUME b = a PROVE FALSE
      OBVIOUS
    <3>1. runDoc[r] = d
      BY <1>0, <2>3 DEF Locals
    <3> QED
      BY <1>3, <1>4, <2>1, <2>3, <3>1 DEF Holds
  <2> QED
    BY <1>2, <1>4, <2>1, <2>3, <2>4, RunIdFacts DEF Holds
<1>8. StartsAlone'
  <2> SUFFICES ASSUME NEW b \in Admitters, adm'[b].pc = "start"
               PROVE  /\ \A r \in Runs : Live(r) => runDoc[r] # adm'[b].doc
                      /\ \A c \in Admitters :
                           adm'[c].pc = "start" /\ adm'[c].doc = adm'[b].doc => c = b
                      /\ life[adm'[b].doc] # "gone" => runId'[adm'[b].doc] = Pending(b)
    BY <1>1, <1>5 DEF StartsAlone, runVars, Exists
  <2>1. b # a /\ adm'[b] = adm[b] /\ adm[b].doc \in Docs
    BY <1>0, <1>2 DEF Locals, InHand
  <2>2. \A c \in Admitters : adm'[c].pc = "start" => adm'[c] = adm[c]
    BY <1>2 DEF InHand
  <2>3. life[adm[b].doc] # "gone" => runId[adm[b].doc] = Pending(b)
    BY <1>0, <2>1 DEF StartsAlone, Exists
  <2>4. life[adm[b].doc] # "gone" => runId'[adm[b].doc] = Pending(b)
    BY <1>4, <2>1, <2>3, RunIdFacts DEF Holds
  <2> QED
    BY <1>0, <2>1, <2>2, <2>4 DEF StartsAlone
<1>9. LostStaysLost'
  <2>1. \A e \in Docs, b \in Admitters :
          runId[e] = Pending(b) /\ runId'[e] # Pending(b) => adm[b].doc = e /\ adm[b].pc \in InHand
    BY <1>1, <1>4, RunIdFacts DEF Holds, InHand
  <2>2. \A b \in Admitters : adm'[b].pc \in InHand => adm'[b] = adm[b]
    BY <1>2
  <2> QED
    BY <1>1, <2>1, <2>2, LostStep DEF runVars
<1>10. NoOtherStarts'
  BY <1>0, <1>1 DEF NoOtherStarts
<1> QED
  BY <1>6, <1>7, <1>8, <1>9, <1>10 DEF OneRunInv

LEMMA AdmitOneRun ==
  ASSUME OneRunInv, TypeInv', NEW a \in Admitters, Admit(a)
  PROVE  OneRunInv'
<1>0. TypeOK /\ Locals /\ adm[a] \in LocalStates
  BY DEF OneRunInv, TypeInv, TypeOK
\* Quiet steps: what is left to show is where the admission goes.
<1>q. ASSUME NEW l \in LocalStates, adm' = [adm EXCEPT ![a] = l], adm[a].pc # "record",
             l.pc \in InHand => l.pc = "unclaim" /\ adm[a].pc = "start" /\ l.doc = adm[a].doc,
             UNCHANGED <<docVars, runVars, req, sweep, child, abandoned>>
      PROVE  OneRunInv'
  BY <1>q, QuietAdmission DEF docVars
<1>1. CASE Looks(a)
  <2>1. PICK m \in LocalStates : /\ adm' = [adm EXCEPT ![a] = m]
                                 /\ m.pc \in Resting \cup {"cap", "find", "claim"}
    BY <1>1, LookType DEF OneRunInv
  <2>2. /\ adm[a].pc # "record"
        /\ UNCHANGED <<docVars, runVars, req, sweep, child, abandoned>>
    BY <1>1 DEF Looks, TakeTurn, CountOwner, CountAll, FindWaiting, hist
  <2> QED
    BY <1>q, <2>1, <2>2 DEF Resting, InHand
<1>2. CASE StartFails(a)
  <2> DEFINE l == [adm[a] EXCEPT !.pc = "unclaim"]
  <2>1. l \in LocalStates /\ l.pc = "unclaim" /\ l.doc = adm[a].doc
    BY <1>0 DEF LocalStates
  <2> QED
    BY <1>2, <1>q, <2>1 DEF StartFails, InHand
<1> QED
  BY <1>1, <1>2, ClaimOneRun, StartOneRun, LetGoOneRun DEF Admit, Looks

\* Any step that leaves the run ids of the rows alone and takes no document in
\* hand: runs go on or end, admissions are made or lost, rows expire.
LEMMA QuietRows ==
  ASSUME OneRunInv, TypeInv', NoOtherStarts',
         UNCHANGED <<runId, runDoc>>,
         abandoned \subseteq abandoned',
         \A r \in Runs : /\ Writing(r)' => Writing(r)
                         /\ cancelled[r] => cancelled'[r],
         \A d \in Docs : Exists(d)' => Exists(d),
         \A a \in Admitters : /\ adm'[a].pc \in InHand => adm'[a] = adm[a]
                              /\ adm[a].pc = "record" => \/ adm'[a] = adm[a]
                                                         \/ adm[a].new \in abandoned'
  PROVE  OneRunPerDocument' /\ RunIsNamed' /\ StartsAlone'
<1>1. \A r \in Runs : Live(r)' => Live(r) /\ runDoc'[r] = runDoc[r]
  BY DEF Live
<1>2. \A a \in Admitters, r \in Runs :
        adm[a].pc = "record" /\ adm[a].new = r /\ Live(r)' => adm'[a] = adm[a]
  BY DEF Live
<1>3. \A a \in Admitters : adm'[a].pc = "start" => adm'[a] = adm[a]
  BY DEF InHand
<1> QED
  BY <1>1, <1>2, <1>3, QuietStep

LEMMA QuietStays ==
  ASSUME OneRunInv, TypeInv', NoOtherStarts',
         UNCHANGED <<runId, runDoc, sweep>>,
         abandoned \subseteq abandoned',
         \A r \in Runs : /\ Writing(r)' => Writing(r)
                         /\ cancelled[r] => cancelled'[r]
                         /\ runPc[r] \in {"admit", "ended"} => runPc'[r] \in {"admit", "ended"},
         \A d \in Docs : Exists(d)' => Exists(d),
         \A a \in Admitters : /\ adm'[a].pc \in InHand => adm'[a] = adm[a]
                              /\ adm[a].pc = "record" => \/ adm'[a] = adm[a]
                                                         \/ adm[a].new \in abandoned'
  PROVE  OneRunInv'
<1>1. OneRunPerDocument' /\ RunIsNamed' /\ StartsAlone'
  BY QuietRows
<1>2. LostStaysLost'
  BY LostStep
<1> QED
  BY <1>1, <1>2 DEF OneRunInv

LEMMA RunOneRun ==
  ASSUME OneRunInv, TypeInv', NEW r \in Runs, Run(r)
  PROVE  OneRunInv'
<1>0. TypeOK /\ Locals /\ NoOtherStarts
  BY DEF OneRunInv, TypeInv
<1>1. /\ UNCHANGED <<runId, life, runDoc, cancelled, req, sweep, child>>
      /\ abandoned \subseteq abandoned'
  BY DEF Run, BeginStage, CompleteStage, FailStage, FinishFails, BeginEnd, CompleteEnd, RowIsGone,
     AdmitNext, WorkerDies, AdmitNextDies, Redeliver, docVars, procVars, hist
<1>2. NoOtherStarts'
  BY <1>0, <1>1 DEF NoOtherStarts
\* The run goes from one stage to the next, or to its last step, or ends.
<1>3. ASSUME NEW s \in Runs
      PROVE  /\ Writing(s)' => Writing(s)
             /\ runPc[s] \in {"admit", "ended"} => runPc'[s] \in {"admit", "ended"}
  <2>1. \/ runPc' = runPc
        \/ \E p \in Steps \cup {"ended"} :
             /\ runPc' = [runPc EXCEPT ![r] = p]
             /\ p \notin {"admit", "ended"} => Writing(r)
             /\ runPc[r] \in {"admit", "ended"} => p \in {"admit", "ended"}
    <3>1. CASE CompleteStage(r)
      <4>1. runPc[r] \in Stages /\ NextStage[runPc[r]] \in Steps
        BY <3>1 DEF CompleteStage, NextStage, Steps, Stages, Working
      <4> QED
        BY <3>1, <4>1 DEF CompleteStage, Writing, Stages, Working
    <3>2. CASE FailStage(r)
      BY <3>2 DEF FailStage, Writing, Steps, Stages, Working
    <3>3. CASE FinishFails(r)
      BY <3>3 DEF FinishFails, Writing, Steps, Stages, Working
    <3>4. CASE CompleteEnd(r)
      BY <3>4 DEF CompleteEnd, Writing, Steps, Stages, Working
    <3>5. CASE RowIsGone(r)
      BY <3>5 DEF RowIsGone, Writing, Steps, Stages, Working
    <3>6. CASE AdmitNext(r)
      BY <3>6 DEF AdmitNext, Steps
    <3>7. CASE AdmitNextDies(r)
      BY <3>7 DEF AdmitNextDies, Steps
    <3>8. CASE BeginStage(r) \/ BeginEnd(r) \/ WorkerDies(r) \/ Redeliver(r)
      BY <3>8 DEF BeginStage, BeginEnd, WorkerDies, Redeliver
    <3> QED
      BY <3>1, <3>2, <3>3, <3>4, <3>5, <3>6, <3>7, <3>8 DEF Run
  <2> QED
    BY <1>0, <2>1 DEF TypeOK, Writing, Stages, Working
<1>4. ASSUME NEW a \in Admitters
      PROVE  /\ adm'[a].pc \in InHand => adm'[a] = adm[a]
             /\ adm[a].pc = "record" => adm'[a] = adm[a] \/ adm[a].new \in abandoned'
  <2>1. CASE AdmitNext(r)
    <3>1. runDoc[r] \in Docs /\ adm[r].pc = "idle" /\ r \in Admitters
      BY <1>0, <2>1 DEF AdmitNext, Locals, Admitters
    <3>2. adm'[r].pc \notin InHand
      BY <1>0, <2>1, <3>1, AdmitAfterType DEF AdmitNext, Resting, InHand, TypeOK
    <3> QED
      BY <1>0, <2>1, <3>1, <3>2 DEF AdmitNext, TypeOK
  <2>2. CASE AdmitNextDies(r)
    <3>1. adm'[r] = Idle /\ \A b \in Admitters : b # r => adm'[b] = adm[b]
      BY <1>0, <2>2 DEF AdmitNextDies, TypeOK, Admitters
    <3>2. adm[r].pc = "record" => adm[r].new \in abandoned'
      BY <1>0, <2>2 DEF AdmitNextDies, Unrecorded, Locals, Admitters
    <3> QED
      BY <3>1, <3>2, IdleType DEF InHand
  <2>3. CASE ~AdmitNext(r) /\ ~AdmitNextDies(r)
    BY <2>3 DEF Run, BeginStage, CompleteStage, FailStage, FinishFails, BeginEnd, CompleteEnd,
       RowIsGone, WorkerDies, Redeliver, procVars
  <2> QED
    BY <2>1, <2>2, <2>3
<1>5. \A d \in Docs : Exists(d)' => Exists(d)
  BY <1>1 DEF Exists
<1> QED
  BY <1>1, <1>2, <1>3, <1>4, <1>5, QuietStays

LEMMA RequestOneRun ==
  ASSUME OneRunInv, TypeInv', NEW q \in Requests, Request(q), ~RetryWrite(q)
  PROVE  OneRunInv'
<1>0. TypeOK /\ Locals /\ NoOtherStarts /\ q \in Admitters
  BY DEF OneRunInv, TypeInv, Admitters
<1>2. /\ UNCHANGED <<runId, runVars, sweep, child>>
      /\ abandoned \subseteq abandoned'
  BY DEF Request, ProcessRead, RetryRead, ProcessWrite, ExtendRead, ExtendWrite, RequestDies, docVars, hist
<1>3. NoOtherStarts'
  <2>1. \E m : (m.pc = "retry" => "retry" \in Allows) /\ req' = [req EXCEPT ![q] = m]
    BY DEF Request, ProcessRead, RetryRead, ProcessWrite, ExtendRead, ExtendWrite, RequestDies, Read, NoRequest
  <2> QED
    BY <1>0, <1>2, <2>1 DEF NoOtherStarts, TypeOK
<1>4. \A d \in Docs : Exists(d)' => Exists(d)
  <2>1. CASE ExtendWrite(q)
    BY <1>0, <2>1 DEF ExtendWrite, Exists, TypeOK
  <2>2. CASE ~ExtendWrite(q)
    BY <2>2 DEF Request, ProcessRead, RetryRead, ProcessWrite, ExtendRead, RequestDies, docVars, Exists
  <2> QED
    BY <2>1, <2>2
<1>5. ASSUME NEW a \in Admitters
      PROVE  /\ adm'[a].pc \in InHand => adm'[a] = adm[a]
             /\ adm[a].pc = "record" => adm'[a] = adm[a] \/ adm[a].new \in abandoned'
  <2>1. CASE ProcessWrite(q)
    <3>1. req[q].doc \in Docs /\ adm[q].pc = "idle"
      BY <1>0, <2>1 DEF ProcessWrite, Locals
    <3>2. AdmitQueued(req[q].doc).pc \notin InHand
      BY <3>1, AdmitQueuedType DEF Resting, InHand
    <3> QED
      BY <1>0, <2>1, <3>1, <3>2 DEF ProcessWrite, TypeOK
  <2>2. CASE RequestDies(q)
    <3>1. adm'[q] = Idle /\ \A b \in Admitters : b # q => adm'[b] = adm[b]
      BY <1>0, <2>2 DEF RequestDies, TypeOK
    <3>2. adm[q].pc = "record" => adm[q].new \in abandoned'
      BY <1>0, <2>2 DEF RequestDies, Unrecorded, Locals
    <3> QED
      BY <3>1, <3>2, IdleType DEF InHand
  <2>3. CASE ~ProcessWrite(q) /\ ~RequestDies(q)
    BY <2>3 DEF Request, ProcessRead, RetryRead, ExtendRead, ExtendWrite
  <2> QED
    BY <2>1, <2>2, <2>3
<1> QED
  BY <1>2, <1>3, <1>4, <1>5, QuietStays DEF runVars, Writing

LEMMA ExpireOneRun ==
  ASSUME OneRunInv, TypeInv', NEW d \in Docs, Expire(d)
  PROVE  OneRunInv'
<1>1. UNCHANGED <<runId, runVars, adm, req, sweep, child, abandoned>>
  BY DEF Expire, procVars, hist
<1>2. \A e \in Docs : Exists(e)' => Exists(e)
  BY DEF Expire, Exists, OneRunInv, TypeInv, TypeOK
<1>3. NoOtherStarts'
  BY <1>1 DEF OneRunInv, NoOtherStarts
<1> QED
  BY <1>1, <1>2, <1>3, QuietStays DEF runVars, Writing

\* The sweep.  Its last step on a lost document is the one that gives a row back.
LEMMA RequeueOneRun ==
  ASSUME OneRunInv, TypeInv', Requeue
  PROVE  OneRunInv'
<1>0. /\ OneRunPerDocument /\ RunIsNamed /\ StartsAlone /\ LostStaysLost
      /\ TypeOK /\ Locals /\ NoOtherStarts
  BY DEF OneRunInv, TypeInv
<1> DEFINE c == sweep.cur
           d == c.doc
<1>1. /\ UNCHANGED <<life, runVars, adm, req, child, abandoned>>
      /\ sweep.pc = "requeue" /\ sweep'.cur = NoCandidate /\ sweep'.pc = "lost"
      /\ sweep'.found = sweep.found
  BY <1>0 DEF Requeue, hist, TypeOK
<1>2. d \in Docs /\ c.runId \in RunIds
  BY <1>0, <1>1 DEF Locals, TypeOK, Candidates
<1>3. \/ runId' = runId
      \/ runId[d] = c.runId /\ runId' = [runId EXCEPT ![d] = NoRun]
  BY DEF Requeue, StillLost
<1>4. \A r \in Runs : Live(r)' <=> Live(r)
  BY <1>1 DEF Live, Writing, runVars
<1>5. NoOtherStarts'
  BY <1>0, <1>1 DEF NoOtherStarts
<1>6. CASE runId' = runId
  <2>1. OneRunPerDocument' /\ RunIsNamed' /\ StartsAlone'
    BY <1>1, <1>5, <1>6, QuietRows DEF runVars, Writing, Exists
  <2>2. LostStaysLost'
    BY <1>0, <1>1, <1>6, RunIdFacts DEF LostStaysLost, NoCandidate
  <2> QED
    BY <1>5, <2>1, <2>2 DEF OneRunInv
<1>7. CASE runId[d] = c.runId /\ runId' = [runId EXCEPT ![d] = NoRun]
  <2>1. \A e \in Docs : runId'[e] = IF e = d THEN NoRun ELSE runId[e]
    BY <1>0, <1>7 DEF TypeOK
  \* No run is behind the row, and no admission is about to start one.
  <2>2. \A r \in Runs : Live(r) => runDoc[r] # d \/ ~Exists(d)
    <3> SUFFICES ASSUME NEW r \in Runs, Live(r), runDoc[r] = d, Exists(d) PROVE FALSE
      OBVIOUS
    <3>1. CASE c.runId = Started(r)
      BY <1>0, <1>1, <3>1, LiveStarted DEF LostStaysLost, Live
    <3>2. CASE c.runId # Started(r)
      <4>1. PICK a \in Admitters : c.runId = Pending(a) /\ adm[a].pc = "record" /\ adm[a].new = r
        BY <1>0, <1>7, <3>2 DEF RunIsNamed
      <4>2. adm[a].doc = d
        BY <1>0, <4>1 DEF Locals
      <4> QED
        BY <1>0, <4>1, <4>2 DEF LostStaysLost
    <3> QED
      BY <3>1, <3>2
  <2>3. \A a \in Admitters : adm[a].pc = "start" => adm[a].doc # d \/ ~Exists(d)
    BY <1>0, <1>7 DEF StartsAlone, LostStaysLost
  <2>4. OneRunPerDocument'
    BY <1>0, <1>1, <1>4 DEF OneRunPerDocument, runVars
  <2>5. RunIsNamed'
    <3> SUFFICES ASSUME NEW r \in Runs, Live(r), Exists(runDoc[r])
                 PROVE  \/ runId'[runDoc[r]] = Started(r)
                        \/ \E b \in Admitters : /\ runId'[runDoc[r]] = Pending(b)
                                                 /\ adm[b].pc = "record" /\ adm[b].new = r
      BY <1>1, <1>4 DEF RunIsNamed, runVars, Exists
    <3>1. runDoc[r] \in Docs /\ runDoc[r] # d
      BY <1>0, <2>2, LiveStarted DEF Locals
    <3> QED
      BY <1>0, <2>1, <3>1 DEF RunIsNamed
  <2>6. StartsAlone'
    <3> SUFFICES ASSUME NEW a \in Admitters, adm[a].pc = "start", Exists(adm[a].doc)
                 PROVE  runId'[adm[a].doc] = Pending(a)
      BY <1>0, <1>1, <1>4 DEF StartsAlone, runVars, Exists
    <3>1. adm[a].doc \in Docs /\ adm[a].doc # d
      BY <1>0, <2>3 DEF Locals
    <3> QED
      BY <1>0, <2>1, <3>1 DEF StartsAlone
  <2>7. LostStaysLost'
    <3> SUFFICES ASSUME NEW e \in sweep.found, NEW a \in Admitters, e.runId = Pending(a)
                 PROVE  /\ runId'[e.doc] = e.runId
                        /\ adm[a].doc = e.doc => adm[a].pc \notin {"start", "record", "unclaim"}
      BY <1>1, RunIdFacts DEF LostStaysLost, NoCandidate
    <3>1. e.doc \in Docs /\ e.doc # d
      BY <1>0 DEF Locals
    <3> QED
      BY <1>0, <2>1, <3>1 DEF LostStaysLost
  <2> QED
    BY <1>5, <2>4, <2>5, <2>6, <2>7 DEF OneRunInv
<1> QED
  BY <1>3, <1>6, <1>7

LEMMA SweepOneRun ==
  ASSUME OneRunInv, TypeInv', Sweep
  PROVE  OneRunInv'
<1>0. TypeOK /\ Locals /\ NoOtherStarts /\ LostStaysLost /\ Sweeper \in Admitters
  BY DEF OneRunInv, TypeInv, Admitters
<1>f. NoCandidate.runId = NoRun /\ NoRun.kind = "none"
  BY DEF NoCandidate, NoRun
\* The steps that leave the rows' run ids alone.
<1>1. ASSUME ~Requeue, LostStaysLost'
      PROVE  OneRunInv'
  <2>1. /\ UNCHANGED <<runId, runDoc, runPc, req, child>>
        /\ abandoned \subseteq abandoned'
    BY <1>1 DEF Sweep, SweepExpired, FindLost, TakeCandidate, SkipMoving, CancelLost, CancelFails,
       AdmitStalled, EndSweep, SweeperDies, docVars, runVars, hist
  <2>2. NoOtherStarts'
    BY <1>0, <2>1 DEF NoOtherStarts
  <2>3. ASSUME NEW r \in Runs, cancelled[r] PROVE cancelled'[r]
    <3>1. CASE CancelLost
      BY <1>0, <2>3, <3>1 DEF CancelLost, CancelledBy, TypeOK
    <3>2. CASE ~CancelLost
      BY <1>1, <2>3, <3>2 DEF Sweep, SweepExpired, FindLost, TakeCandidate, SkipMoving, CancelFails,
         AdmitStalled, EndSweep, SweeperDies, runVars
    <3> QED
      BY <3>1, <3>2
  <2>4. ASSUME NEW d \in Docs, Exists(d)' PROVE Exists(d)
    <3>1. CASE SweepExpired
      BY <1>0, <2>4, <3>1 DEF SweepExpired, Exists
    <3>2. CASE ~SweepExpired
      BY <1>1, <2>4, <3>2 DEF Sweep, FindLost, TakeCandidate, SkipMoving, CancelLost, CancelFails,
         AdmitStalled, EndSweep, SweeperDies, docVars, Exists
    <3> QED
      BY <3>1, <3>2
  <2>5. ASSUME NEW a \in Admitters
        PROVE  /\ adm'[a].pc \in InHand => adm'[a] = adm[a]
               /\ adm[a].pc = "record" => adm'[a] = adm[a] \/ adm[a].new \in abandoned'
    <3>1. CASE AdmitStalled
      <4>1. adm[Sweeper].pc = "idle"
        BY <1>0, <3>1 DEF AdmitStalled, Locals
      <4>2. adm'[Sweeper].pc \notin InHand
        BY <1>0, <3>1, AdmitFairlyType DEF AdmitStalled, Resting, InHand, TypeOK
      <4> QED
        BY <1>0, <3>1, <4>1, <4>2 DEF AdmitStalled, TypeOK
    <3>2. CASE SweeperDies
      <4>1. adm'[Sweeper] = Idle /\ \A b \in Admitters : b # Sweeper => adm'[b] = adm[b]
        BY <1>0, <3>2 DEF SweeperDies, TypeOK
      <4>2. adm[Sweeper].pc = "record" => adm[Sweeper].new \in abandoned'
        BY <1>0, <3>2 DEF SweeperDies, Unrecorded, Locals
      <4> QED
        BY <4>1, <4>2, IdleType DEF InHand
    <3>3. CASE ~AdmitStalled /\ ~SweeperDies
      BY <1>1, <3>3 DEF Sweep, SweepExpired, FindLost, TakeCandidate, SkipMoving, CancelLost,
         CancelFails, EndSweep
    <3> QED
      BY <3>1, <3>2, <3>3
  <2>6. OneRunPerDocument' /\ RunIsNamed' /\ StartsAlone'
    BY <2>1, <2>2, <2>3, <2>4, <2>5, QuietRows DEF Writing
  <2> QED
    BY <1>1, <2>2, <2>6 DEF OneRunInv
<1>2. CASE SweepExpired
  <2>1. UNCHANGED <<runId, cancelled, runPc, adm>> /\ sweep'.found = sweep.found
        /\ sweep'.cur = sweep.cur /\ sweep'.pc = "recover"
    BY <1>0, <1>2 DEF SweepExpired, runVars, TypeOK
  <2>2. LostStaysLost'
    BY <1>0, <2>1 DEF LostStaysLost
  <2> QED
    BY <1>1, <1>2, <2>2 DEF SweepExpired, Requeue
\* What is found lost has no admission at work on it and no run behind it.
<1>3. CASE FindLost
  <2>1. /\ UNCHANGED <<runId, cancelled, runPc, adm>>
        /\ sweep'.cur = NoCandidate /\ sweep'.pc = "lost"
        /\ \A c \in sweep'.found : /\ c.doc \in Docs /\ c.runId = runId[c.doc]
                                   /\ ~MovedByAdmission(c.doc)
    BY <1>0, <1>3 DEF FindLost, docVars, runVars, TypeOK, Locals, Stalled
  <2>2. LostStaysLost'
    BY <1>f, <2>1, RunIdFacts DEF LostStaysLost, MovedByAdmission
  <2> QED
    BY <1>1, <1>3, <2>2 DEF FindLost, Requeue
<1>4. CASE TakeCandidate
  <2>1. /\ UNCHANGED <<runId, cancelled, runPc, adm>> /\ sweep'.pc = "cancel"
        /\ sweep'.cur \in sweep.found /\ sweep'.found \subseteq sweep.found
    BY <1>0, <1>4 DEF TakeCandidate, docVars, runVars, TypeOK
  <2>2. LostStaysLost'
    BY <1>0, <2>1 DEF LostStaysLost
  <2> QED
    BY <1>1, <1>4, <2>2 DEF TakeCandidate, Requeue
<1>5. CASE SkipMoving
  <2>1. /\ UNCHANGED <<runId, cancelled, runPc, adm>> /\ sweep'.pc = "lost"
        /\ sweep'.cur = sweep.cur /\ sweep'.found \subseteq sweep.found
    BY <1>0, <1>5 DEF SkipMoving, docVars, runVars, TypeOK
  <2>2. LostStaysLost'
    BY <1>0, <2>1 DEF LostStaysLost
  <2> QED
    BY <1>1, <1>5, <2>2 DEF SkipMoving, Requeue
<1>6. CASE CancelLost
  <2>1. /\ UNCHANGED <<runId, runPc, adm>> /\ cancelled' = CancelledBy(sweep.cur)
        /\ sweep'.cur = sweep.cur /\ sweep'.found = sweep.found
    BY <1>0, <1>6 DEF CancelLost, docVars, TypeOK
  <2>2. ASSUME NEW r \in Runs, sweep.cur.runId = Started(r)
        PROVE  cancelled'[r] \/ runPc[r] \in {"admit", "ended"}
    BY <1>0, <2>1, <2>2 DEF CancelledBy, Started, TypeOK
  <2>3. LostStaysLost'
    BY <1>0, <2>1, <2>2 DEF LostStaysLost
  <2> QED
    BY <1>1, <1>6, <2>3 DEF CancelLost, Requeue
<1>7. CASE CancelFails
  <2>1. /\ UNCHANGED <<runId, cancelled, runPc, adm>> /\ sweep'.pc = "lost"
        /\ sweep'.cur = NoCandidate /\ sweep'.found = sweep.found
    BY <1>0, <1>7 DEF CancelFails, docVars, runVars, TypeOK
  <2>2. LostStaysLost'
    BY <1>0, <1>f, <2>1, RunIdFacts DEF LostStaysLost
  <2> QED
    BY <1>1, <1>7, <2>2 DEF CancelFails, Requeue
<1>8. CASE AdmitStalled
  <2>1. /\ UNCHANGED <<runId, cancelled, runPc>> /\ sweep'.pc # "requeue"
        /\ sweep'.cur = sweep.cur /\ sweep'.found = sweep.found
        /\ adm'[Sweeper].pc \notin InHand
        /\ \A b \in Admitters : b # Sweeper => adm'[b] = adm[b]
    BY <1>0, <1>8, AdmitFairlyType DEF AdmitStalled, docVars, runVars, TypeOK, Resting, InHand
  <2>2. LostStaysLost'
    BY <1>0, <2>1 DEF LostStaysLost, InHand
  <2> QED
    BY <1>1, <1>8, <2>2 DEF AdmitStalled, Requeue
<1>9. CASE EndSweep \/ SweeperDies
  <2>1. sweep' = SweepIdle
    BY <1>9 DEF EndSweep, SweeperDies
  <2>2. LostStaysLost'
    BY <1>f, <2>1, RunIdFacts DEF LostStaysLost, SweepIdle
  <2> QED
    BY <1>1, <1>9, <2>2, RequeueOneRun
<1> QED
  BY <1>2, <1>3, <1>4, <1>5, <1>6, <1>7, <1>8, <1>9, RequeueOneRun DEF Sweep

-----------------------------------------------------------------------------
LEMMA InitOneRun == Init => OneRunInv
<1> SUFFICES ASSUME Init PROVE OneRunInv
  OBVIOUS
<1>1. TypeInv
  BY InitType
<1>2. \A r \in Runs : ~Live(r)
  BY LiveStarted DEF Init
<1>3. OneRunPerDocument /\ RunIsNamed
  BY <1>2 DEF OneRunPerDocument, RunIsNamed
<1>4. StartsAlone
  BY DEF Init, StartsAlone, Idle
<1>5. LostStaysLost
  BY RunIdFacts DEF Init, LostStaysLost, SweepIdle, NoCandidate
<1>6. NoOtherStarts
  BY DEF Init, NoOtherStarts, NoRequest, NoChild
<1> QED
  BY <1>1, <1>3, <1>4, <1>5, <1>6 DEF OneRunInv

\* Where no children are expanded, whatever is done but to write a retry.
LEMMA StepOneRun ==
  ASSUME "children" \notin Allows, OneRunInv, TypeInv', Step, \A q \in Requests : ~RetryWrite(q)
  PROVE  OneRunInv'
<1>1. ~Expand
  BY DEF Expand, ChildRead, ChildStart, ChildRecord, OneRunInv, NoOtherStarts
<1> QED
  BY <1>1, AdmitOneRun, RunOneRun, RequestOneRun, ExpireOneRun, SweepOneRun DEF Step

LEMMA RestOneRun ==
  ASSUME OneRunInv, TypeInv', UNCHANGED vars
  PROVE  OneRunInv'
<1>1. OneRunPerDocument' /\ RunIsNamed' /\ NoOtherStarts'
  BY DEF vars, docVars, runVars, procVars, hist, OneRunInv, OneRunPerDocument, RunIsNamed,
     NoOtherStarts, Live, Writing, Exists
<1>2. StartsAlone' /\ LostStaysLost'
  BY DEF vars, docVars, runVars, procVars, hist, OneRunInv, StartsAlone, LostStaysLost,
     Live, Writing, Exists
<1> QED
  BY <1>1, <1>2 DEF OneRunInv

LEMMA NextOneRun == ClaimsOnly /\ OneRunInv /\ [Next]_vars => OneRunInv'
<1> SUFFICES ASSUME ClaimsOnly, OneRunInv, [Next]_vars PROVE OneRunInv'
  OBVIOUS
<1>1. TypeInv'
  BY NextType DEF OneRunInv
<1>2. "children" \notin Allows /\ \A q \in Requests : ~RetryWrite(q)
  BY DEF ClaimsOnly, OneRunInv, NoOtherStarts, RetryWrite
<1> QED
  BY <1>1, <1>2, StepOneRun, RestOneRun DEF Next, AtRest

LEMMA OneRunAlways == ClaimsOnly => (Spec => []OneRunInv)
<1> SUFFICES ASSUME ClaimsOnly PROVE Spec => []OneRunInv
  OBVIOUS
<1>1. Init => OneRunInv
  BY InitOneRun
<1>2. OneRunInv /\ [Next]_vars => OneRunInv'
  BY NextOneRun
<1> QED
  BY <1>1, <1>2, PTL DEF Spec

\* Where only claims and the sweep decide who processes a document, it has one
\* live run at most: whatever dies, fails, expires, is sent twice or is found
\* lost, no two runs both go on to write its row.
THEOREM OneRun == ClaimsOnly => (Spec => []OneRunPerDocument)
<1> SUFFICES ASSUME ClaimsOnly PROVE Spec => []OneRunPerDocument
  OBVIOUS
<1>1. OneRunInv => OneRunPerDocument
  BY DEF OneRunInv
<1> QED
  BY <1>1, OneRunAlways, PTL

\* In the same systems a live run is the one its row names, or the one that the
\* holder of the row's claim is about to record.
THEOREM Named == ClaimsOnly => (Spec => []RunIsNamed)
<1> SUFFICES ASSUME ClaimsOnly PROVE Spec => []RunIsNamed
  OBVIOUS
<1>1. OneRunInv => RunIsNamed
  BY DEF OneRunInv
<1> QED
  BY <1>1, OneRunAlways, PTL

\* And an admission that is about to start a run finds no live one, and nobody else
\* about to start one.
THEOREM StartAlone == ClaimsOnly => (Spec => []StartsAlone)
<1> SUFFICES ASSUME ClaimsOnly PROVE Spec => []StartsAlone
  OBVIOUS
<1>1. OneRunInv => StartsAlone
  BY DEF OneRunInv
<1> QED
  BY <1>1, OneRunAlways, PTL

\* And what the sweep has read as lost is still lost when it gives the row back.
THEOREM StaysLost == ClaimsOnly => (Spec => []LostStaysLost)
<1> SUFFICES ASSUME ClaimsOnly PROVE Spec => []LostStaysLost
  OBVIOUS
<1>1. OneRunInv => LostStaysLost
  BY DEF OneRunInv
<1> QED
  BY <1>1, OneRunAlways, PTL

-----------------------------------------------------------------------------
(* Claims. *)

\* What every step keeps: a row is only given a claim by the admission that takes
\* its document in hand, and a document is only let go with its claim, or with
\* its row, or by a process that is lost.
KeepsClaims ==
  /\ abandoned \subseteq abandoned'
  /\ \A d \in Docs : Exists(d)' => Exists(d)
  /\ \A d \in Docs, a \in Admitters : runId'[d] = Pending(a) =>
       \/ runId[d] = Pending(a)
       \/ adm'[a].doc = d /\ adm'[a].pc \in InHand
  /\ \A a \in Admitters : adm[a].pc \in InHand =>
       \/ adm'[a].pc \in InHand /\ adm'[a].doc = adm[a].doc
       \/ a \in abandoned'
       \/ Exists(adm[a].doc) => runId'[adm[a].doc] # Pending(a)

LEMMA HeldStep ==
  ASSUME ClaimIsHeld, KeepsClaims PROVE ClaimIsHeld'
<1> SUFFICES ASSUME NEW d \in Docs, NEW a \in Admitters, a \notin abandoned',
                    runId'[d] = Pending(a), Exists(d)'
             PROVE  adm'[a].doc = d /\ adm'[a].pc \in InHand
  BY DEF ClaimIsHeld, InHand
<1>1. Exists(d) /\ a \notin abandoned
  BY DEF KeepsClaims
<1>2. CASE runId[d] = Pending(a)
  <2>1. adm[a].doc = d /\ adm[a].pc \in InHand
    BY <1>1, <1>2 DEF ClaimIsHeld, InHand
  <2> QED
    BY <1>1, <2>1 DEF KeepsClaims
<1>3. CASE runId[d] # Pending(a)
  BY <1>3 DEF KeepsClaims
<1> QED
  BY <1>2, <1>3

\* Admissions, in the four ways they touch a claim.
LEMMA AdmitHeld ==
  ASSUME TypeInv, TypeInv', NEW a \in Admitters, Admit(a)
  PROVE  KeepsClaims
<1>0. TypeOK /\ Locals
  BY DEF TypeInv
<1>1. /\ UNCHANGED life /\ abandoned' = abandoned
      /\ \A d \in Docs : Exists(d)' <=> Exists(d)
  BY DEF Admit, TakeTurn, CountOwner, CountAll, FindWaiting, Claim, StartRun, StartFails, Unclaim,
     RecordRun, docVars, hist, Exists
<1>2. \A b \in Admitters : b # a => adm'[b] = adm[b]
  <2>1. CASE Looks(a)
    BY <1>0, <2>1, LookType DEF TypeOK
  <2>2. CASE Claim(a)
    BY <1>0, <2>2, ClaimShape DEF TypeOK
  <2>3. CASE ~Looks(a) /\ ~Claim(a)
    BY <1>0, <2>3 DEF Admit, Looks, StartRun, StartFails, Unclaim, RecordRun, TypeOK
  <2> QED
    BY <2>1, <2>2, <2>3
<1>3. CASE Looks(a)
  <2>1. runId' = runId /\ adm[a].pc \notin InHand
    BY <1>3 DEF Looks, TakeTurn, CountOwner, CountAll, FindWaiting, docVars, InHand
  <2> QED
    BY <1>1, <1>2, <2>1 DEF KeepsClaims
<1>4. CASE Claim(a)
  <2>1. adm[a].pc \notin InHand
    BY <1>4 DEF Claim, InHand
  <2>2. \/ runId' = runId
        \/ \E d \in Docs : /\ runId' = [runId EXCEPT ![d] = Pending(a)]
                           /\ adm'[a].pc = "start" /\ adm'[a].doc = d
    BY <1>0, <1>4, ClaimShape DEF TypeOK
  <2> QED
    BY <1>0, <1>1, <1>2, <2>1, <2>2, RunIdFacts DEF KeepsClaims, InHand, TypeOK
<1>5. CASE (\E r \in Runs : StartRun(a, r)) \/ StartFails(a)
  <2>1. runId' = runId /\ adm'[a].pc \in InHand /\ adm'[a].doc = adm[a].doc
    BY <1>0, <1>5 DEF StartRun, StartFails, docVars, InHand, TypeOK, LocalStates
  <2> QED
    BY <1>1, <1>2, <2>1 DEF KeepsClaims
<1>6. CASE Unclaim(a) \/ RecordRun(a)
  <2>1. PICK i \in {NoRun, Started(adm[a].new)} :
          runId' = [runId EXCEPT ![adm[a].doc] = IF Holds(a, adm[a].doc) THEN i ELSE @]
    BY <1>6 DEF Unclaim, RecordRun
  <2>2. \A d \in Docs : runId'[d] = IF d = adm[a].doc /\ Holds(a, d) THEN i ELSE runId[d]
    BY <1>0, <2>1 DEF TypeOK
  <2>3. i # Pending(a) /\ \A b \in Admitters : i # Pending(b)
    BY RunIdFacts
  <2>4. adm[a].doc \in Docs
    BY <1>0, <1>6 DEF Unclaim, RecordRun, Locals
  <2> QED
    BY <1>1, <1>2, <2>2, <2>3, <2>4 DEF KeepsClaims, Holds
<1> QED
  BY <1>3, <1>4, <1>5, <1>6 DEF Admit, Looks

\* A step of anything else: an admission is made by a process that had none, or
\* is lost, and rows are only given back or handed to a run.
LEMMA OtherHeld ==
  ASSUME abandoned \subseteq abandoned',
         \A d \in Docs : Exists(d)' => Exists(d),
         \A d \in Docs : runId'[d] = runId[d] \/ \A a \in Admitters : runId'[d] # Pending(a),
         \A a \in Admitters : adm[a].pc \in InHand => adm'[a] = adm[a] \/ a \in abandoned'
  PROVE  KeepsClaims
  BY DEF KeepsClaims

LEMMA RunHeld ==
  ASSUME TypeInv, NEW r \in Runs, Run(r) PROVE KeepsClaims
<1>0. TypeOK /\ Locals /\ r \in Admitters
  BY DEF TypeInv, Admitters
<1>1. /\ UNCHANGED <<runId, life>> /\ abandoned \subseteq abandoned'
  BY DEF Run, BeginStage, CompleteStage, FailStage, FinishFails, BeginEnd, CompleteEnd, RowIsGone,
     AdmitNext, WorkerDies, AdmitNextDies, Redeliver, docVars, procVars, hist
<1>2. ASSUME NEW a \in Admitters, adm[a].pc \in InHand
      PROVE  adm'[a] = adm[a] \/ a \in abandoned'
  <2>1. CASE AdmitNext(r)
    BY <1>0, <1>2, <2>1 DEF AdmitNext, Locals, InHand, TypeOK
  <2>2. CASE AdmitNextDies(r)
    BY <1>0, <1>2, <2>2 DEF AdmitNextDies, TypeOK
  <2>3. CASE ~AdmitNext(r) /\ ~AdmitNextDies(r)
    BY <2>3 DEF Run, BeginStage, CompleteStage, FailStage, FinishFails, BeginEnd, CompleteEnd,
       RowIsGone, WorkerDies, Redeliver, procVars
  <2> QED
    BY <2>1, <2>2, <2>3
<1> QED
  BY <1>1, <1>2, OtherHeld DEF Exists

LEMMA RequestHeld ==
  ASSUME TypeInv, NEW q \in Requests, Request(q) PROVE KeepsClaims
<1>0. TypeOK /\ Locals /\ q \in Admitters
  BY DEF TypeInv, Admitters
<1>1. abandoned \subseteq abandoned'
  BY DEF Request, ProcessRead, RetryRead, ExtendRead, ProcessWrite, RetryWrite, ExtendWrite,
     RequestDies, hist
<1>2. \A d \in Docs : Exists(d)' => Exists(d)
  <2>1. CASE ExtendWrite(q)
    BY <1>0, <2>1 DEF ExtendWrite, Exists, TypeOK
  <2>2. CASE ~ExtendWrite(q)
    BY <2>2 DEF Request, ProcessRead, RetryRead, ExtendRead, ProcessWrite, RetryWrite, RequestDies,
       docVars, Exists
  <2> QED
    BY <2>1, <2>2
<1>3. \A d \in Docs : runId'[d] \in {runId[d], NoRun}
  <2>1. CASE RetryWrite(q)
    BY <1>0, <2>1 DEF RetryWrite, TypeOK
  <2>2. CASE ~RetryWrite(q)
    BY <2>2 DEF Request, ProcessRead, RetryRead, ExtendRead, ProcessWrite, ExtendWrite, RequestDies,
       docVars
  <2> QED
    BY <2>1, <2>2
<1>4. ASSUME NEW a \in Admitters, adm[a].pc \in InHand
      PROVE  adm'[a] = adm[a] \/ a \in abandoned'
  <2>1. CASE ProcessWrite(q) \/ RetryWrite(q)
    <3>1. adm[q].pc = "idle"
      BY <1>0, <2>1 DEF ProcessWrite, RetryWrite, Locals
    <3>2. a # q
      BY <1>4, <3>1 DEF InHand
    <3> QED
      BY <1>0, <2>1, <3>2 DEF ProcessWrite, RetryWrite, TypeOK
  <2>2. CASE RequestDies(q)
    BY <1>0, <2>2 DEF RequestDies, TypeOK
  <2>3. CASE ~ProcessWrite(q) /\ ~RetryWrite(q) /\ ~RequestDies(q)
    BY <2>3 DEF Request, ProcessRead, RetryRead, ExtendRead, ExtendWrite
  <2> QED
    BY <2>1, <2>2, <2>3
<1> QED
  BY <1>1, <1>2, <1>3, <1>4, OtherHeld, RunIdFacts

LEMMA ExpandHeld ==
  ASSUME TypeInv, Expand PROVE KeepsClaims
<1>0. TypeOK /\ Locals
  BY DEF TypeInv
<1>1. UNCHANGED <<life, adm, abandoned>>
  BY DEF Expand, ChildRead, ChildStart, ChildRecord, docVars, hist
<1>2. \A d \in Docs : runId'[d] \in {runId[d], Started(child.new)}
  BY ZenonT(40), <1>0 DEF Expand, ChildRead, ChildStart, ChildRecord, docVars, TypeOK
<1> QED
  BY <1>1, <1>2, OtherHeld, RunIdFacts DEF Exists

LEMMA SweepHeld ==
  ASSUME TypeInv, Sweep PROVE KeepsClaims
<1>0. TypeOK /\ Locals /\ Sweeper \in Admitters
  BY DEF TypeInv, Admitters
<1>1. abandoned \subseteq abandoned'
  BY DEF Sweep, SweepExpired, FindLost, TakeCandidate, SkipMoving, CancelLost, CancelFails, Requeue,
     AdmitStalled, EndSweep, SweeperDies, hist
<1>2. \A d \in Docs : Exists(d)' => Exists(d)
  <2>1. CASE SweepExpired
    BY <1>0, <2>1 DEF SweepExpired, Exists
  <2>2. CASE ~SweepExpired
    BY <2>2 DEF Sweep, FindLost, TakeCandidate, SkipMoving, CancelLost, CancelFails, Requeue,
       AdmitStalled, EndSweep, SweeperDies, docVars, Exists
  <2> QED
    BY <2>1, <2>2
<1>3. \A d \in Docs : runId'[d] \in {runId[d], NoRun}
  <2>1. CASE Requeue
    BY <1>0, <2>1 DEF Requeue, TypeOK
  <2>2. CASE ~Requeue
    BY <2>2 DEF Sweep, SweepExpired, FindLost, TakeCandidate, SkipMoving, CancelLost, CancelFails,
       AdmitStalled, EndSweep, SweeperDies, docVars
  <2> QED
    BY <2>1, <2>2
<1>4. ASSUME NEW a \in Admitters, adm[a].pc \in InHand
      PROVE  adm'[a] = adm[a] \/ a \in abandoned'
  <2>1. CASE AdmitStalled
    <3>1. adm[Sweeper].pc = "idle"
      BY <1>0, <2>1 DEF AdmitStalled, Locals
    <3>2. a # Sweeper
      BY <1>4, <3>1 DEF InHand
    <3> QED
      BY <1>0, <2>1, <3>2 DEF AdmitStalled, TypeOK
  <2>2. CASE SweeperDies
    BY <1>0, <2>2 DEF SweeperDies, TypeOK
  <2>3. CASE ~AdmitStalled /\ ~SweeperDies
    BY <2>3 DEF Sweep, SweepExpired, FindLost, TakeCandidate, SkipMoving, CancelLost, CancelFails,
       Requeue, EndSweep
  <2> QED
    BY <2>1, <2>2, <2>3
<1> QED
  BY <1>1, <1>2, <1>3, <1>4, OtherHeld, RunIdFacts

-----------------------------------------------------------------------------
ClaimInv == TypeInv /\ ClaimIsHeld

LEMMA NextHeld == ClaimInv /\ [Next]_vars => ClaimInv'
<1> SUFFICES ASSUME ClaimInv, [Next]_vars PROVE ClaimInv'
  OBVIOUS
<1>1. TypeInv /\ TypeInv'
  BY NextType DEF ClaimInv
<1>2. KeepsClaims
  <2>1. ASSUME NEW d \in Docs, Expire(d) PROVE KeepsClaims
    <3>1. UNCHANGED <<runId, adm, abandoned>> /\ \A e \in Docs : Exists(e)' => Exists(e)
      BY <1>1, <2>1 DEF Expire, procVars, hist, Exists, TypeInv, TypeOK
    <3> QED
      BY <3>1, OtherHeld
  <2>2. CASE UNCHANGED vars
    BY <2>2, OtherHeld DEF vars, docVars, procVars, hist, Exists
  <2> QED
    BY <1>1, <2>1, <2>2, AdmitHeld, RunHeld, RequestHeld, ExpandHeld, SweepHeld DEF Next, Step, AtRest
<1> QED
  BY <1>1, <1>2, HeldStep DEF ClaimInv

\* No admission leaves a claim behind on its way out, whatever else happens: a
\* pending claim belongs to an admission still at work on it, or to a process
\* that was lost.
THEOREM ClaimsHeld == Spec => []ClaimIsHeld
<1>1. Init => ClaimInv
  BY InitType, RunIdFacts DEF Init, ClaimInv, ClaimIsHeld
<1>2. ClaimInv /\ [Next]_vars => ClaimInv'
  BY NextHeld
<1>3. ClaimInv => ClaimIsHeld
  BY DEF ClaimInv
<1> QED
  BY <1>1, <1>2, <1>3, PTL DEF Spec

-----------------------------------------------------------------------------
(* The limits. *)

\* A finite set of numbers that is not empty has a largest one.
LEMMA LargestOf ==
  ASSUME NEW S \in SUBSET Docs, S # {}
  PROVE  \E m \in S : \A d \in S : d <= m
<1> DEFINE Above(d) == {e \in S : e > d}
           I == {Above(d) : d \in S}
<1>1. IsFiniteSet(S) /\ S \subseteq Nat
  BY DocsAssumption, FS_Subset
<1>2. IsWellFoundedOn(StrictSubsetOrdering(S), SUBSET S)
  BY <1>1, FS_StrictSubsetOrderingWellFounded, FS_FiniteSubsetsOfFinite
<1>3. I \in SUBSET (SUBSET S) /\ I # {}
  OBVIOUS
<1>4. PICK T \in I : \A U \in I : <<U, T>> \notin StrictSubsetOrdering(S)
  <2> HIDE DEF I
  <2> QED
    BY <1>2, <1>3, WFMin
<1>5. PICK m \in S : T = Above(m)
  BY <1>4
<1>6. ASSUME NEW d \in S, d > m
      PROVE  FALSE
  <2>0. d \in Nat /\ m \in Nat /\ S \subseteq Nat
    BY <1>1
  <2>1. Above(d) \in I /\ Above(d) \subseteq T /\ d \in T /\ d \notin Above(d)
    <3>1. Above(d) \in I
      OBVIOUS
    <3>2. ASSUME NEW e \in Above(d) PROVE e \in T
      <4>1. e \in S /\ e \in Nat /\ e > m
        BY <1>6, <2>0
      <4> QED
        BY <1>5, <4>1
    <3>3. d \in T
      BY <1>5, <1>6
    <3>4. d \notin Above(d)
      BY <2>0
    <3> QED
      BY <3>1, <3>2, <3>3, <3>4
  <2>2. <<Above(d), T>> \in StrictSubsetOrdering(S)
    BY <1>3, <1>4, <2>1 DEF StrictSubsetOrdering
  <2> QED
    BY <1>4, <2>1, <2>2
<1> QED
  BY <1>1, <1>6

\* A list of at most n documents has at most n.
LEMMA TakesAtMost ==
  ASSUME NEW n \in Nat, NEW S \in SUBSET Docs
  PROVE  /\ TakeOldest(n, S) \subseteq S
         /\ Cardinality(TakeOldest(n, S)) <= n
<1>1. PICK T : T = TakeOldest(n, S)
  OBVIOUS
<1>2. T \subseteq S /\ T \in SUBSET Docs /\ Docs \subseteq Nat
  BY <1>1, DocsAssumption DEF TakeOldest
<1>3. IsFiniteSet(T) /\ IsFiniteSet(S) /\ Cardinality(T) \in Nat
  BY <1>2, DocsAssumption, FS_Subset, FS_CardinalityType
<1>4. CASE T = {}
  BY <1>1, <1>2, <1>4, FS_EmptySet
<1>5. CASE T # {}
  <2>1. PICK m \in T : \A d \in T : d <= m
    BY <1>2, <1>5, LargestOf
  <2>2. PICK B : B = {e \in S : e < m}
    OBVIOUS
  <2>3. Cardinality(B) < n
    BY <1>1, <2>1, <2>2 DEF TakeOldest
  <2>4. T \ {m} \in SUBSET B /\ IsFiniteSet(B)
    <3>1. B \in SUBSET S
      BY <2>2
    <3>2. ASSUME NEW d \in T, d # m PROVE d \in B
      BY <1>2, <2>1, <2>2, <3>2
    <3> QED
      BY <1>3, <3>1, <3>2, FS_Subset
  <2>5. Cardinality(T \ {m}) <= Cardinality(B)
    BY <2>4, FS_Subset
  <2>6. Cardinality(T \ {m}) = Cardinality(T) - 1
    BY <1>3, <2>1, FS_RemoveElement
  <2>7. Cardinality(B) \in Nat
    BY <2>4, FS_CardinalityType
  <2> QED
    BY <1>1, <1>2, <1>3, <2>3, <2>5, <2>6, <2>7
<1> QED
  BY <1>4, <1>5

LEMMA CountsAreNumbers ==
  /\ \A o : InFlight(o) \in Nat
  /\ InFlightAll \in Nat
  /\ \A S \in SUBSET Docs : IsFiniteSet(S) /\ Cardinality(S) \in Nat
<1>1. \A S \in SUBSET Docs : IsFiniteSet(S) /\ Cardinality(S) \in Nat
  BY DocsAssumption, FS_Subset, FS_CardinalityType
<1> QED
  BY <1>1 DEF InFlight, InFlightAll

\* Where no document is claimed, no count grows.
NoneClaimed == \A d \in Docs : Claimed(d)' => Claimed(d)

LEMMA CountsShrink ==
  ASSUME NoneClaimed
  PROVE  /\ \A o : InFlight(o)' <= InFlight(o) /\ InFlight(o)' \in Nat
         /\ InFlightAll' <= InFlightAll /\ InFlightAll' \in Nat
<1>1. ASSUME NEW S \in SUBSET Docs, NEW T \in SUBSET S
      PROVE  Cardinality(T) <= Cardinality(S) /\ Cardinality(T) \in Nat
  BY CountsAreNumbers, FS_Subset, FS_CardinalityType
<1>2. ASSUME NEW o
      PROVE  InFlight(o)' <= InFlight(o) /\ InFlight(o)' \in Nat
  <2>1. PICK S : S = {d \in Docs : OwnerOf[d] = o /\ Claimed(d)}
    OBVIOUS
  <2>2. PICK T : T = {d \in Docs : OwnerOf[d] = o /\ Claimed(d)'}
    OBVIOUS
  <2>3. S \in SUBSET Docs /\ T \in SUBSET S
    BY <2>1, <2>2 DEF NoneClaimed
  <2>4. InFlight(o) = Cardinality(S) /\ InFlight(o)' = Cardinality(T)
    BY <2>1, <2>2 DEF InFlight
  <2> QED
    BY <1>1, <2>3, <2>4
<1>3. InFlightAll' <= InFlightAll /\ InFlightAll' \in Nat
  <2>1. PICK S : S = {d \in Docs : Claimed(d)}
    OBVIOUS
  <2>2. PICK T : T = {d \in Docs : Claimed(d)'}
    OBVIOUS
  <2>3. S \in SUBSET Docs /\ T \in SUBSET S
    BY <2>1, <2>2 DEF NoneClaimed
  <2>4. InFlightAll = Cardinality(S) /\ InFlightAll' = Cardinality(T)
    BY <2>1, <2>2 DEF InFlightAll
  <2> QED
    BY <1>1, <2>3, <2>4
<1> QED
  BY <1>2, <1>3

\* And where one is, only its owner's and the global one, by one.
LEMMA CountsGrow ==
  ASSUME NEW d \in Docs, \A e \in Docs : Claimed(e)' => Claimed(e) \/ e = d
  PROVE  /\ \A o : /\ InFlight(o)' \in Nat
                   /\ InFlight(o)' <= InFlight(o) + (IF o = OwnerOf[d] THEN 1 ELSE 0)
         /\ InFlightAll' <= InFlightAll + 1 /\ InFlightAll' \in Nat
<1>1. ASSUME NEW S \in SUBSET Docs, NEW T \in SUBSET Docs, T \subseteq S \cup {d}
      PROVE  /\ Cardinality(T) <= Cardinality(S) + 1 /\ Cardinality(T) \in Nat
             /\ T \subseteq S => Cardinality(T) <= Cardinality(S)
  <2>1. IsFiniteSet(S) /\ Cardinality(S) \in Nat /\ Cardinality(T) \in Nat
    BY CountsAreNumbers
  <2>2. /\ IsFiniteSet(S \cup {d})
        /\ Cardinality(S \cup {d}) = Cardinality(S) \/ Cardinality(S \cup {d}) = Cardinality(S) + 1
    BY <2>1, FS_AddElement
  <2>3. Cardinality(T) <= Cardinality(S \cup {d})
    BY <1>1, <2>2, FS_Subset
  <2>4. T \subseteq S => Cardinality(T) <= Cardinality(S)
    BY <2>1, FS_Subset
  <2> QED
    BY <2>1, <2>2, <2>3, <2>4
<1>2. ASSUME NEW o
      PROVE  /\ InFlight(o)' \in Nat
             /\ InFlight(o)' <= InFlight(o) + (IF o = OwnerOf[d] THEN 1 ELSE 0)
  <2>1. PICK S : S = {e \in Docs : OwnerOf[e] = o /\ Claimed(e)}
    OBVIOUS
  <2>2. PICK T : T = {e \in Docs : OwnerOf[e] = o /\ Claimed(e)'}
    OBVIOUS
  <2>3. /\ S \in SUBSET Docs /\ T \in SUBSET Docs /\ T \subseteq S \cup {d}
        /\ o # OwnerOf[d] => T \subseteq S
    BY <2>1, <2>2
  <2>4. InFlight(o) = Cardinality(S) /\ InFlight(o)' = Cardinality(T)
    BY <2>1, <2>2 DEF InFlight
  <2>5. Cardinality(S) \in Nat
    BY <2>3, CountsAreNumbers
  <2> QED
    BY <1>1, <2>3, <2>4, <2>5
<1>3. InFlightAll' <= InFlightAll + 1 /\ InFlightAll' \in Nat
  <2>1. PICK S : S = {e \in Docs : Claimed(e)}
    OBVIOUS
  <2>2. PICK T : T = {e \in Docs : Claimed(e)'}
    OBVIOUS
  <2>3. S \in SUBSET Docs /\ T \in SUBSET Docs /\ T \subseteq S \cup {d}
    BY <2>1, <2>2
  <2>4. InFlightAll = Cardinality(S) /\ InFlightAll' = Cardinality(T)
    BY <2>1, <2>2 DEF InFlightAll
  <2> QED
    BY <1>1, <2>3, <2>4
<1> QED
  BY <1>2, <1>3

\* Nobody extends, no container is expanded and no request is sent twice.
Undisturbed == Allows \cap {"children", "extend", "resend"} = {}

\* Nothing was lost and nothing has failed: no recovery is at work.
Calm ==
  /\ abandoned = {}
  /\ \A r \in Runs : ~cancelled[r] /\ exec[r] # "lost"
  /\ \A a \in Admitters : adm[a].pc # "unclaim"
  /\ sweep.pc \in {"idle", "recover", "lost", "admit"} /\ sweep.found = {}
  /\ \A q \in Requests : req[q].pc \in {"idle", "process", "retry"}

\* One request at a time is about to queue a document, and what is to be processed
\* is an upload still.
Asked ==
  /\ \A p, q \in Requests :
       req[p].pc # "idle" /\ req[q].pc # "idle" /\ req[p].doc = req[q].doc => p = q
  /\ \A q \in Requests : req[q].pc = "process" /\ life[req[q].doc] = "kept" =>
       status[req[q].doc] = "uploading"

\* What an admission has on its list is past its upload.
Listed ==
  \A a \in Admitters : \A d \in adm[a].waiting : life[d] = "kept" => status[d] # "uploading"

\* Where a run has its row to write still (Writing).
Writes == Stages \cup {"finish", "fail"}

\* The row tells whether somebody is at work on the document.
Told(d) ==
  /\ runId[d] = NoRun => status[d] \in {"uploading", "queued"}
  /\ status[d] = "uploading" => runId[d] = NoRun
  /\ \A a \in Admitters : runId[d] = Pending(a) =>
       (status[d] \in Working <=> adm[a].pc = "start" \/ runPc[adm[a].new] \in Writes)
  /\ \A r \in Runs : runId[d] = Started(r) =>
       runDoc[r] = d /\ runPc[r] # "none" /\ (status[d] \in Working <=> runPc[r] \in Writes)

RowsInv == Calm /\ Asked /\ Listed /\ \A d \in Docs : life[d] = "kept" => Told(d)

\* What an admission with the locals l still means to claim keeps within the limits.
Counted(l) ==
  LET o == OwnerOf[l.rep] IN
  /\ l.pc \in {"cap", "find"} => InFlight(o) + l.room <= Limit
  /\ l.pc = "find" /\ Capped => InFlightAll + l.room <= Cap
  /\ l.pc \in {"claim", "start", "record"} =>
       /\ \A d \in l.waiting : OwnerOf[d] = o
       /\ InFlight(o) + Cardinality(l.waiting) <= Limit
       /\ Capped => InFlightAll + Cardinality(l.waiting) <= Cap

Limits == /\ \A o \in Owners : InFlight(o) <= Limit
          /\ Capped => InFlightAll <= Cap

CountsInv ==
  /\ Overlap => overlapped
  /\ ~overlapped => Limits /\ \A a \in Admitters : Admitting(a) => Counted(adm[a])

\* A step that claims nothing keeps the counts, if what an admission newly means
\* to claim fits them.
LEMMA CountsStay ==
  ASSUME CountsInv, TypeInv, NoneClaimed, overlapped' = (overlapped \/ Overlap'),
         \A a \in Admitters : ~overlapped /\ Admitting(a)' =>
           adm'[a] = adm[a] \/ Counted(adm[a])'
  PROVE  CountsInv'
<1>1. /\ \A o : InFlight(o)' <= InFlight(o) /\ InFlight(o)' \in Nat
      /\ InFlightAll' <= InFlightAll /\ InFlightAll' \in Nat
  BY CountsShrink
<1>2. (\A o : InFlight(o) \in Nat) /\ InFlightAll \in Nat
  BY CountsAreNumbers
<1>3. Limit \in Nat /\ Cap \in Nat
  BY BoundsAssumption
<1>4. Overlap' => overlapped'
  OBVIOUS
<1>5. ~overlapped' => Limits'
  <2>1. ~overlapped' => ~overlapped
    BY DEF TypeInv, TypeOK
  <2>2. Capped' <=> Capped
    BY DEF Capped
  <2> QED
    BY <1>1, <1>2, <1>3, <2>1, <2>2 DEF CountsInv, Limits
<1>6. ASSUME ~overlapped', NEW a \in Admitters, Admitting(a)'
      PROVE  Counted(adm[a])'
  <2>0. ~overlapped
    BY <1>6
  <2>1. CASE adm'[a] = adm[a]
    <3>1. Admitting(a) /\ Counted(adm[a])
      BY <1>6, <2>0, <2>1 DEF CountsInv, Admitting
    <3>2. adm[a].room \in Nat /\ Cardinality(adm[a].waiting) \in Nat
      BY CountsAreNumbers DEF TypeInv, TypeOK, LocalStates
    <3>3. Capped' <=> Capped
      BY DEF Capped
    <3>o. PICK o : o = OwnerOf[adm[a].rep]
      OBVIOUS
    <3>4. InFlight(o)' <= InFlight(o) /\ InFlight(o)' \in Nat /\ InFlight(o) \in Nat
      BY <1>1, <1>2
    <3>5. adm[a].pc \in {"cap", "find"} => InFlight(o)' + adm[a].room <= Limit
      BY <1>3, <3>1, <3>2, <3>4, <3>o DEF Counted
    <3>6. adm[a].pc = "find" /\ Capped => InFlightAll' + adm[a].room <= Cap
      BY <1>1, <1>2, <1>3, <3>1, <3>2 DEF Counted
    <3>7. adm[a].pc \in {"claim", "start", "record"} =>
            /\ \A d \in adm[a].waiting : OwnerOf[d] = o
            /\ InFlight(o)' + Cardinality(adm[a].waiting) <= Limit
            /\ Capped => InFlightAll' + Cardinality(adm[a].waiting) <= Cap
      BY <1>1, <1>2, <1>3, <3>1, <3>2, <3>4, <3>o DEF Counted
    <3> QED
      BY <2>1, <3>3, <3>5, <3>6, <3>7, <3>o DEF Counted
  <2>2. CASE adm'[a] # adm[a]
    BY <1>6, <2>0, <2>2
  <2> QED
    BY <2>1, <2>2
<1> QED
  BY <1>4, <1>5, <1>6 DEF CountsInv

-----------------------------------------------------------------------------
(* Where an admission goes. *)

LEMMA RestsEmpty ==
  /\ Idle.pc \in Resting /\ Idle.waiting = {}
  /\ \A rounds, turn, again :
       InTurn(rounds, turn, again).pc \in Resting /\ InTurn(rounds, turn, again).waiting = {}
  /\ \A l : OwnerDone(l).pc \in Resting /\ OwnerDone(l).waiting = {}
  /\ AdmitFairly.pc \in Resting /\ AdmitFairly.waiting = {}
  /\ \A d : /\ AdmitQueued(d).pc \in Resting /\ AdmitQueued(d).waiting = {}
            /\ AdmitAfter(d).pc \in Resting /\ AdmitAfter(d).waiting = {}
<1>1. Idle.pc \in Resting /\ Idle.waiting = {}
  BY DEF Idle, Resting
<1>2. ASSUME NEW rounds, NEW turn, NEW again
      PROVE  InTurn(rounds, turn, again).pc \in Resting /\ InTurn(rounds, turn, again).waiting = {}
  BY DEF InTurn, Idle, Resting
<1>3. ASSUME NEW l
      PROVE  OwnerDone(l).pc \in Resting /\ OwnerDone(l).waiting = {}
  BY <1>2 DEF OwnerDone
<1>4. AdmitFairly.pc \in Resting /\ AdmitFairly.waiting = {}
  BY <1>2 DEF AdmitFairly
<1>5. ASSUME NEW d
      PROVE  /\ AdmitQueued(d).pc \in Resting /\ AdmitQueued(d).waiting = {}
             /\ AdmitAfter(d).pc \in Resting /\ AdmitAfter(d).waiting = {}
  BY <1>1, <1>2, <1>4 DEF AdmitAfter, AdmitQueued
<1> QED
  BY <1>1, <1>2, <1>3, <1>4, <1>5

LEMMA DocDoneShape ==
  ASSUME NEW l \in LocalStates
  PROVE  \/ DocDone(l).pc \in Resting /\ DocDone(l).waiting = {}
         \/ /\ DocDone(l).pc = "claim" /\ DocDone(l).waiting = l.waiting
            /\ DocDone(l).rep = l.rep
<1>1. CASE l.waiting = {}
  BY <1>1, RestsEmpty DEF DocDone
<1>2. CASE l.waiting # {}
  BY <1>2 DEF DocDone, LocalStates
<1> QED
  BY <1>1, <1>2

LEMMA RoomFits ==
  /\ \A o : /\ OwnerRoom(o) \in Nat
            /\ InFlight(o) <= Limit => InFlight(o) + OwnerRoom(o) <= Limit
  /\ GlobalRoom \in Nat
  /\ InFlightAll <= Cap => InFlightAll + GlobalRoom <= Cap
  /\ \A m, n \in Nat : AtMost(m, n) \in Nat /\ AtMost(m, n) <= m /\ AtMost(m, n) <= n
<1>1. /\ \A o : InFlight(o) \in Nat
      /\ InFlightAll \in Nat /\ Limit \in Nat /\ Cap \in Nat
  BY CountsAreNumbers, BoundsAssumption
<1> QED
  BY <1>1 DEF OwnerRoom, GlobalRoom, AtMost

\* An admission that counts and lists means to claim what there is room for.
LEMMA LookShape ==
  ASSUME TypeInv, NEW a \in Admitters, Looks(a),
         Limits, Admitting(a) => Counted(adm[a])
  PROVE  \E m \in LocalStates :
           /\ adm' = [adm EXCEPT ![a] = m]
           /\ m.pc \notin Resting => Counted(m)
<1> DEFINE l == adm[a]
<1>0. l \in LocalStates /\ (l.pc \notin Resting => l.rep \in Docs)
  BY DEF TypeInv, TypeOK, Locals, Resting
<1>1. CASE TakeTurn(a)
  <2>1. /\ [l EXCEPT !.pc = "count"] \in LocalStates /\ Idle \in LocalStates
        /\ [l EXCEPT !.pc = "count"].pc \in Resting
    BY <1>0, IdleType DEF LocalStates, Resting
  <2> QED
    BY <1>1, <2>1, RestsEmpty DEF TakeTurn
<1>2. CASE CountOwner(a)
  <2>1. PICK d \in l.turn :
          adm' = [adm EXCEPT ![a] =
            LET k    == [l EXCEPT !.turn = @ \ {d}, !.rep = d]
                free == OwnerRoom(OwnerOf[d])
                room == IF k.rounds THEN AtMost(1, free) ELSE free
            IN  IF Capped THEN [k EXCEPT !.pc = "cap", !.room = room]
                ELSE IF room = 0 THEN OwnerDone(k)
                ELSE [k EXCEPT !.pc = "find", !.room = room]]
    BY <1>2 DEF CountOwner
  <2> DEFINE k    == [l EXCEPT !.turn = @ \ {d}, !.rep = d]
             free == OwnerRoom(OwnerOf[d])
             room == IF k.rounds THEN AtMost(1, free) ELSE free
  <2>2. k \in LocalStates /\ k.rep = d /\ d \in Docs
    BY <1>0 DEF LocalStates
  <2>3. room \in Nat /\ room <= free /\ free \in Nat /\ InFlight(OwnerOf[d]) \in Nat
    BY RoomFits, CountsAreNumbers
  <2>4. InFlight(OwnerOf[d]) + free <= Limit
    <3>1. OwnerOf[d] \in Owners
      BY <2>2, DocsAssumption
    <3> QED
      BY <3>1, RoomFits DEF Limits
  <2>5. InFlight(OwnerOf[d]) + room <= Limit
    <3> HIDE DEF free, room
    <3> QED
      BY <2>3, <2>4, BoundsAssumption
  <2>6. OwnerDone(k) \in LocalStates /\ OwnerDone(k).pc \in Resting
    BY <2>2, OwnerDoneType
  <2>7. \A p \in {"cap", "find"} :
          /\ [k EXCEPT !.pc = p, !.room = room] \in LocalStates
          /\ [k EXCEPT !.pc = p, !.room = room].pc = p
          /\ [k EXCEPT !.pc = p, !.room = room].rep = d
          /\ [k EXCEPT !.pc = p, !.room = room].room = room
    BY <2>2, <2>3 DEF LocalStates
  <2> HIDE DEF k, room
  <2>8. adm' = [adm EXCEPT ![a] =
          IF Capped THEN [k EXCEPT !.pc = "cap", !.room = room]
          ELSE IF room = 0 THEN OwnerDone(k)
          ELSE [k EXCEPT !.pc = "find", !.room = room]]
    BY <2>1 DEF k, room
  <2>9. Counted([k EXCEPT !.pc = "cap", !.room = room])
    BY <2>5, <2>7 DEF Counted
  <2>10. ~Capped => Counted([k EXCEPT !.pc = "find", !.room = room])
    BY <2>5, <2>7 DEF Counted
  <2> QED
    BY <2>6, <2>7, <2>8, <2>9, <2>10
<1>3. CASE CountAll(a)
  <2> DEFINE room == AtMost(GlobalRoom, l.room)
             m == [l EXCEPT !.pc = "find", !.room = room]
  <2>1. /\ l.pc = "cap" /\ l.rep \in Docs /\ l.room \in Nat
        /\ InFlight(OwnerOf[l.rep]) \in Nat /\ InFlightAll \in Nat /\ GlobalRoom \in Nat
    BY <1>3, <1>0, RoomFits, CountsAreNumbers DEF CountAll, Resting, LocalStates
  <2>2. room \in Nat /\ room <= l.room /\ room <= GlobalRoom
    BY <2>1, RoomFits
  <2>3. OwnerDone(l) \in LocalStates /\ OwnerDone(l).pc \in Resting
    BY <1>0, <2>1, OwnerDoneType
  <2>4. /\ m \in LocalStates
        /\ m.pc = "find" /\ m.rep = l.rep /\ m.room = room
    BY <1>0, <2>2 DEF LocalStates
  <2>5. adm' = [adm EXCEPT ![a] = IF room = 0 THEN OwnerDone(l) ELSE m]
    BY <1>3 DEF CountAll
  <2>6. InFlight(OwnerOf[l.rep]) + l.room <= Limit
    BY <2>1 DEF Counted, Admitting
  <2>7. Capped => InFlightAll + GlobalRoom <= Cap
    BY RoomFits DEF Limits
  <2> HIDE DEF room, m
  <2>8. InFlight(OwnerOf[l.rep]) + room <= Limit
    BY <2>1, <2>2, <2>6, BoundsAssumption
  <2>9. Capped => InFlightAll + room <= Cap
    BY <2>1, <2>2, <2>7, BoundsAssumption
  <2>10. Counted(m)
    BY <2>4, <2>8, <2>9 DEF Counted
  <2> QED
    BY <2>3, <2>4, <2>5, <2>10
<1>4. CASE FindWaiting(a)
  <2>1. PICK o : o = OwnerOf[l.rep]
    OBVIOUS
  <2>2. PICK list : list = TakeOldest(l.room, WaitingOf(o))
    OBVIOUS
  <2> DEFINE m == [l EXCEPT !.pc = "claim", !.room = 0, !.waiting = list]
  <2>3. l.pc = "find" /\ l.rep \in Docs /\ l.room \in Nat
    BY <1>4, <1>0 DEF FindWaiting, Resting, LocalStates
  <2>4. /\ list \subseteq WaitingOf(o) /\ list \in SUBSET Docs
        /\ Cardinality(list) <= l.room /\ Cardinality(list) \in Nat
    <3>1. WaitingOf(o) \in SUBSET Docs
      BY DEF WaitingOf
    <3> QED
      BY <2>2, <2>3, <3>1, TakesAtMost, CountsAreNumbers
  <2>5. \A d \in list : OwnerOf[d] = o
    BY <2>4 DEF WaitingOf
  <2>6. OwnerDone(l) \in LocalStates /\ OwnerDone(l).pc \in Resting
    BY <1>0, <2>3, OwnerDoneType
  <2>7. m \in LocalStates /\ m.pc = "claim" /\ m.rep = l.rep /\ m.waiting = list
    BY <1>0, <2>4 DEF LocalStates
  <2>8. adm' = [adm EXCEPT ![a] = IF list = {} THEN OwnerDone(l) ELSE m]
    BY <1>4, <2>1, <2>2 DEF FindWaiting
  <2> HIDE DEF m
  <2>9. InFlight(o) + l.room <= Limit /\ (Capped => InFlightAll + l.room <= Cap)
    BY <2>1, <2>3 DEF Counted, Admitting
  <2>10. InFlight(o) \in Nat /\ InFlightAll \in Nat
    BY CountsAreNumbers
  <2>11. /\ InFlight(o) + Cardinality(list) <= Limit
         /\ Capped => InFlightAll + Cardinality(list) <= Cap
    BY <2>3, <2>4, <2>9, <2>10, BoundsAssumption
  <2>12. Counted(m)
    BY <2>1, <2>5, <2>7, <2>11 DEF Counted
  <2> QED
    BY <2>6, <2>7, <2>8, <2>12
<1> QED
  BY <1>1, <1>2, <1>3, <1>4 DEF Looks

-----------------------------------------------------------------------------
(* The counts, for the steps of an admission. *)

\* An admission that goes on with its list, or with part of it.
LEMMA CountsCarry ==
  ASSUME CountsInv, TypeInv, NoneClaimed, ~overlapped, overlapped' = (overlapped \/ Overlap'),
         NEW a \in Admitters, NEW m \in LocalStates, adm'[a] = m,
         adm[a].pc \in {"claim", "start", "record"}, m.pc \in {"claim", "start", "record"},
         m.rep = adm[a].rep, m.waiting \subseteq adm[a].waiting
  PROVE  Counted(adm[a])'
<1>1. PICK o : o = OwnerOf[m.rep]
  OBVIOUS
<1>2. /\ InFlight(o)' <= InFlight(o) /\ InFlight(o)' \in Nat /\ InFlight(o) \in Nat
      /\ InFlightAll' <= InFlightAll /\ InFlightAll' \in Nat /\ InFlightAll \in Nat
  BY CountsShrink, CountsAreNumbers
<1>3. PICK w : w = Cardinality(adm[a].waiting)
  OBVIOUS
<1>4. PICK v : v = Cardinality(m.waiting)
  OBVIOUS
<1>5. v <= w /\ v \in Nat /\ w \in Nat
  <2>1. adm[a].waiting \in SUBSET Docs /\ m.waiting \in SUBSET adm[a].waiting
    BY DEF TypeInv, TypeOK, LocalStates
  <2>2. m.waiting \in SUBSET Docs
    BY <2>1
  <2> QED
    BY <1>3, <1>4, <2>1, <2>2, CountsAreNumbers, FS_Subset
<1>6. /\ \A d \in m.waiting : OwnerOf[d] = o
      /\ InFlight(o) + w <= Limit
      /\ Capped => InFlightAll + w <= Cap
  BY <1>1, <1>3 DEF CountsInv, Counted, Admitting
<1>7. InFlight(o)' + v <= Limit
  BY <1>2, <1>5, <1>6, BoundsAssumption
<1>8. ASSUME Capped PROVE InFlightAll' + v <= Cap
  <2>1. InFlightAll + w <= Cap
    BY <1>6, <1>8
  <2>2. PICK n, k : n = InFlightAll /\ k = InFlightAll'
    OBVIOUS
  <2>3. k <= n /\ k \in Nat /\ n \in Nat /\ n + w <= Cap /\ Cap \in Nat
    BY <1>2, <2>1, <2>2, BoundsAssumption
  <2>4. k + v <= Cap
    BY <1>5, <2>3
  <2> QED
    BY <2>2, <2>4
<1> QED
  BY <1>1, <1>4, <1>6, <1>7, <1>8 DEF Counted, Capped

LEMMA ClaimCounts ==
  ASSUME CountsInv, TypeInv, NEW a \in Admitters, Claim(a),
         overlapped' = (overlapped \/ Overlap')
  PROVE  CountsInv'
<1>0. adm[a] \in LocalStates /\ adm[a].pc = "claim" /\ TypeOK /\ Locals
  BY DEF TypeInv, TypeOK, Claim
<1>1. PICK d \in adm[a].waiting :
        LET l == [adm[a] EXCEPT !.waiting = @ \ {d}] IN
        \/ /\ MayClaim(d)
           /\ runId' = [runId EXCEPT ![d] = Pending(a)]
           /\ adm' = [adm EXCEPT ![a] = [l EXCEPT !.pc = "start", !.doc = d]]
        \/ /\ ~MayClaim(d)
           /\ adm' = [adm EXCEPT ![a] = DocDone(l)]
           /\ UNCHANGED runId
  BY DEF Claim
<1>2. PICK rest : rest = adm[a].waiting \ {d}
  OBVIOUS
<1>3. /\ adm[a].waiting \in SUBSET Docs /\ rest \in SUBSET Docs
      /\ d \in Docs /\ rest \subseteq adm[a].waiting
  BY <1>0, <1>1, <1>2 DEF LocalStates
<1>4. PICK l : l = [adm[a] EXCEPT !.waiting = rest]
  OBVIOUS
<1>5. /\ l \in LocalStates /\ l.waiting = rest
      /\ l.pc = adm[a].pc /\ l.rep = adm[a].rep
  BY <1>0, <1>3, <1>4 DEF LocalStates
<1>6. UNCHANGED <<status, life>>
  BY DEF Claim
<1>7. CASE ~MayClaim(d) /\ adm' = [adm EXCEPT ![a] = DocDone(l)] /\ UNCHANGED runId
  <2>1. NoneClaimed
    BY <1>6, <1>7 DEF NoneClaimed, Claimed
  <2>2. DocDone(l) \in LocalStates
    <3>1. l.rep \in Docs
      BY <1>0, <1>5 DEF Locals
    <3> QED
      BY <1>5, <3>1, DocDoneType
  <2>3. adm'[a] = DocDone(l) /\ \A b \in Admitters : b # a => adm'[b] = adm[b]
    BY <1>0, <1>7 DEF TypeOK
  <2>4. ASSUME ~overlapped, Admitting(a)' PROVE Counted(adm[a])'
    <3>1. DocDone(l).pc = "claim" /\ DocDone(l).waiting = rest /\ DocDone(l).rep = adm[a].rep
      BY <1>5, <2>3, <2>4, DocDoneShape DEF Admitting, Resting
    <3> QED
      BY <1>0, <1>3, <2>1, <2>2, <2>3, <2>4, <3>1, CountsCarry
  <2> QED
    BY <2>1, <2>3, <2>4, CountsStay
<1>8. CASE /\ MayClaim(d)
           /\ runId' = [runId EXCEPT ![d] = Pending(a)]
           /\ adm' = [adm EXCEPT ![a] = [l EXCEPT !.pc = "start", !.doc = d]]
  <2>1. PICK m : m = [l EXCEPT !.pc = "start", !.doc = d]
    OBVIOUS
  <2>2. m.pc = "start" /\ m.rep = adm[a].rep /\ m.waiting = rest
    BY <1>5, <2>1 DEF LocalStates
  <2>3. adm'[a] = m /\ \A b \in Admitters : b # a => adm'[b] = adm[b]
    BY <1>0, <1>8, <2>1 DEF TypeOK
  <2>4. \A e \in Docs : Claimed(e)' => Claimed(e) \/ e = d
    BY <1>0, <1>6, <1>8 DEF Claimed, TypeOK
  <2>5. /\ \A o : /\ InFlight(o)' \in Nat
                  /\ InFlight(o)' <= InFlight(o) + (IF o = OwnerOf[d] THEN 1 ELSE 0)
        /\ InFlightAll' <= InFlightAll + 1 /\ InFlightAll' \in Nat
    BY <1>3, <2>4, CountsGrow
  <2>6. SUFFICES ASSUME ~overlapped' PROVE Limits' /\ \A b \in Admitters : Admitting(b)' => Counted(adm[b])'
    BY DEF CountsInv
  <2>7. ~overlapped /\ ~Overlap' /\ Limits /\ Counted(adm[a])
    BY <1>0, <2>6 DEF CountsInv, Admitting, TypeOK
  <2>8. PICK o : o = OwnerOf[adm[a].rep]
    OBVIOUS
  <2>9. PICK w : w = Cardinality(rest)
    OBVIOUS
  <2>10. w \in Nat /\ Cardinality(adm[a].waiting) = w + 1
    <3>1. IsFiniteSet(adm[a].waiting) /\ Cardinality(adm[a].waiting) \in Nat /\ w \in Nat
      BY <1>3, <2>9, CountsAreNumbers
    <3>2. w = Cardinality(adm[a].waiting) - 1
      BY <1>1, <1>2, <2>9, <3>1, FS_RemoveElement
    <3> QED
      BY <3>1, <3>2
  <2>11. /\ \A e \in adm[a].waiting : OwnerOf[e] = o
         /\ InFlight(o) + (w + 1) <= Limit
         /\ Capped => InFlightAll + (w + 1) <= Cap
    BY <1>0, <2>7, <2>8, <2>10 DEF Counted
  <2>12. OwnerOf[d] = o /\ \A e \in rest : OwnerOf[e] = o
    BY <1>1, <1>3, <2>11
  <2>13. (\A p : InFlight(p) \in Nat) /\ InFlightAll \in Nat /\ Limit \in Nat /\ Cap \in Nat
    BY CountsAreNumbers, BoundsAssumption
  <2>14. /\ InFlight(o)' + w <= Limit /\ InFlight(o)' <= Limit
         /\ Capped => InFlightAll' + w <= Cap /\ InFlightAll' <= Cap
    <3>1. InFlight(o)' <= InFlight(o) + 1 /\ InFlight(o)' \in Nat
      BY <2>5, <2>12
    <3>2. InFlight(o)' + w <= Limit /\ InFlight(o)' <= Limit
      BY <2>10, <2>11, <2>13, <3>1
    <3>3. ASSUME Capped PROVE InFlightAll' + w <= Cap /\ InFlightAll' <= Cap
      <4>1. InFlightAll + (w + 1) <= Cap
        BY <2>11, <3>3
      <4>2. PICK n, k : n = InFlightAll /\ k = InFlightAll'
        OBVIOUS
      <4>3. k <= n + 1 /\ k \in Nat /\ n \in Nat /\ n + (w + 1) <= Cap /\ Cap \in Nat
        BY <2>5, <2>13, <4>1, <4>2
      <4>4. k + w <= Cap /\ k <= Cap
        BY <2>10, <4>3
      <4> QED
        BY <4>2, <4>4
    <3> QED
      BY <3>2, <3>3
  <2>15. Limits'
    <3>1. ASSUME NEW p \in Owners PROVE InFlight(p)' <= Limit
      <4>1. CASE p = o
        BY <2>14, <4>1
      <4>2. CASE p # o
        <5>1. InFlight(p)' <= InFlight(p) + 0 /\ InFlight(p)' \in Nat
          BY <2>5, <2>12, <4>2
        <5> QED
          BY <2>7, <2>13, <5>1 DEF Limits
      <4> QED
        BY <4>1, <4>2
    <3> QED
      BY <2>14, <3>1 DEF Limits, Capped
  <2>16. Counted(adm[a])'
    BY <2>2, <2>3, <2>8, <2>9, <2>12, <2>14 DEF Counted, Capped
  <2>17. \A b \in Admitters : Admitting(b)' => b = a
    BY <2>2, <2>3, <2>7 DEF Overlap, Admitting
  <2> QED
    BY <2>15, <2>16, <2>17
<1> QED
  BY <1>1, <1>2, <1>4, <1>7, <1>8

LEMMA AdmitCounts ==
  ASSUME CountsInv, TypeInv, NEW a \in Admitters, Admit(a),
         overlapped' = (overlapped \/ Overlap')
  PROVE  CountsInv'
<1>0. adm[a] \in LocalStates /\ TypeOK /\ Locals
  BY DEF TypeInv, TypeOK
<1>n. ASSUME NEW m \in LocalStates, adm' = [adm EXCEPT ![a] = m], NoneClaimed,
             ~overlapped /\ m.pc \notin Resting => Counted(adm[a])'
      PROVE  CountsInv'
  <2>1. adm'[a] = m /\ \A b \in Admitters : b # a => adm'[b] = adm[b]
    BY <1>0, <1>n DEF TypeOK
  <2>2. Admitting(a)' => m.pc \notin Resting
    BY <2>1 DEF Admitting, Resting
  <2> QED
    BY <1>n, <2>1, <2>2, CountsStay
<1>u. UNCHANGED docVars => NoneClaimed
  BY DEF docVars, NoneClaimed, Claimed
<1>1. CASE Looks(a)
  <2>1. UNCHANGED docVars
    BY <1>1 DEF Looks, TakeTurn, CountOwner, CountAll, FindWaiting
  <2>2. CASE overlapped
    <3>1. PICK m \in LocalStates : adm' = [adm EXCEPT ![a] = m]
      BY <1>1, LookType
    <3> QED
      BY <1>n, <1>u, <2>1, <2>2, <3>1
  <2>3. CASE ~overlapped
    <3>1. Limits /\ (Admitting(a) => Counted(adm[a]))
      BY <2>3 DEF CountsInv
    <3>2. PICK m \in LocalStates : /\ adm' = [adm EXCEPT ![a] = m]
                                   /\ m.pc \notin Resting => Counted(m)
      BY <1>1, <3>1, LookShape
    <3>3. adm'[a] = m
      BY <1>0, <3>2 DEF TypeOK
    <3>4. Counted(m) => Counted(adm[a])'
      BY <2>1, <3>3 DEF Counted, docVars, InFlight, InFlightAll, Claimed, Capped
    <3> QED
      BY <1>n, <1>u, <2>1, <3>2, <3>4
  <2> QED
    BY <2>2, <2>3, <1>0 DEF TypeOK
<1>2. CASE Claim(a)
  BY <1>2, ClaimCounts
<1>3. CASE \E r \in Runs : StartRun(a, r)
  <2>1. PICK r \in Runs : StartRun(a, r)
    BY <1>3
  <2>2. PICK m : m = [adm[a] EXCEPT !.pc = "record", !.new = r]
    OBVIOUS
  <2>3. /\ m \in LocalStates /\ m.pc = "record" /\ m.rep = adm[a].rep /\ m.waiting = adm[a].waiting
        /\ adm' = [adm EXCEPT ![a] = m] /\ adm'[a] = m
    <3>1. m \in LocalStates /\ m.pc = "record" /\ m.rep = adm[a].rep /\ m.waiting = adm[a].waiting
      BY <1>0, <2>2 DEF LocalStates
    <3>2. adm \in [Admitters -> LocalStates] /\ adm' = [adm EXCEPT ![a].pc = "record", ![a].new = r]
      BY <1>0, <2>1 DEF StartRun, TypeOK
    <3>3. adm' = [adm EXCEPT ![a] = m]
      BY <1>0, <2>2, <3>2 DEF LocalStates
    <3> QED
      BY <3>1, <3>2, <3>3
  <2>4. NoneClaimed /\ adm[a].pc = "start"
    BY <1>u, <2>1 DEF StartRun
  <2>5. ~overlapped => Counted(adm[a])'
    BY <2>3, <2>4, CountsCarry
  <2> QED
    BY <1>n, <2>3, <2>4, <2>5
<1>4. CASE StartFails(a)
  <2>1. PICK m : m = [adm[a] EXCEPT !.pc = "unclaim"]
    OBVIOUS
  <2>2. /\ m \in LocalStates /\ m.pc = "unclaim"
        /\ adm' = [adm EXCEPT ![a] = m] /\ adm'[a] = m
    <3>1. m \in LocalStates /\ m.pc = "unclaim"
      BY <1>0, <2>1 DEF LocalStates
    <3>2. adm \in [Admitters -> LocalStates] /\ adm' = [adm EXCEPT ![a].pc = "unclaim"]
      BY <1>0, <1>4 DEF StartFails, TypeOK
    <3>3. adm' = [adm EXCEPT ![a] = m]
      BY <1>0, <2>1, <3>2 DEF LocalStates
    <3> QED
      BY <3>1, <3>2, <3>3
  <2>3. NoneClaimed /\ Counted(adm[a])'
    BY <1>u, <1>4, <2>2 DEF StartFails, Counted
  <2> QED
    BY <1>n, <2>2, <2>3
<1>5. CASE Unclaim(a)
  <2>1. NoneClaimed
    BY <1>0, <1>5 DEF Unclaim, NoneClaimed, Claimed, TypeOK
  <2> QED
    BY <1>n, <1>5, <2>1, IdleType DEF Unclaim, Resting
<1>6. CASE RecordRun(a)
  <2>1. PICK l : l = [adm[a] EXCEPT !.won = TRUE]
    OBVIOUS
  <2>2. /\ l \in LocalStates /\ l.rep = adm[a].rep /\ l.waiting = adm[a].waiting
        /\ l.rep \in Docs /\ adm[a].pc = "record"
    BY <1>0, <1>6, <2>1 DEF LocalStates, RecordRun, Locals
  <2>3. /\ adm' = [adm EXCEPT ![a] = DocDone(l)] /\ adm'[a] = DocDone(l)
        /\ DocDone(l) \in LocalStates
    BY <1>0, <1>6, <2>1, <2>2, DocDoneType DEF RecordRun, TypeOK
  <2>4. NoneClaimed
    BY <1>0, <1>6, RunIdFacts DEF RecordRun, NoneClaimed, Claimed, Holds, TypeOK
  <2>5. ASSUME ~overlapped, DocDone(l).pc \notin Resting PROVE Counted(adm[a])'
    <3>1. DocDone(l).pc = "claim" /\ DocDone(l).waiting = adm[a].waiting /\ DocDone(l).rep = adm[a].rep
      BY <2>2, <2>5, DocDoneShape
    <3> QED
      BY <2>2, <2>3, <2>4, <2>5, <3>1, CountsCarry
  <2> QED
    BY <1>n, <2>3, <2>4, <2>5
<1> QED
  BY <1>1, <1>2, <1>3, <1>4, <1>5, <1>6 DEF Admit, Looks

-----------------------------------------------------------------------------
(* The rows, while nothing fails. *)

Sure == OneRunInv /\ ClaimIsHeld /\ RowsInv

LEMMA SureFacts ==
  Sure => /\ TypeOK /\ Locals /\ NoOtherStarts
          /\ RunIsNamed /\ StartsAlone
          /\ Calm /\ Asked /\ Listed /\ \A d \in Docs : life[d] = "kept" => Told(d)
  BY DEF Sure, OneRunInv, TypeInv, RowsInv

\* A claim is held by an admission that starts a run, or has started one.
LEMMA HolderHas ==
  ASSUME Sure, NEW d \in Docs, life[d] = "kept", NEW a \in Admitters, runId[d] = Pending(a)
  PROVE  adm[a].doc = d /\ adm[a].pc \in {"start", "record"}
  BY SureFacts DEF Sure, ClaimIsHeld, Calm, Exists

\* A run that will write again is the one its row names, and the row says so.
LEMMA WriterNamed ==
  ASSUME Sure, NEW r \in Runs, runPc[r] \in Writes
  PROVE  /\ runDoc[r] \in Docs
         /\ life[runDoc[r]] = "kept" =>
              /\ runId[runDoc[r]] # NoRun
              /\ status[runDoc[r]] \in Working
<1>1. Live(r)
  BY SureFacts DEF Live, Calm, Writing, Writes
<1>2. runDoc[r] \in Docs
  BY <1>1, LiveStarted, SureFacts DEF Locals
<1>3. CASE life[runDoc[r]] = "kept"
  <2>1. /\ Exists(runDoc[r]) /\ Told(runDoc[r])
    BY <1>2, <1>3, SureFacts DEF Exists
  <2>2. CASE runId[runDoc[r]] = Started(r)
    BY <1>2, <2>1, <2>2, RunIdFacts DEF Told
  <2>3. CASE \E a \in Admitters : /\ runId[runDoc[r]] = Pending(a)
                                  /\ adm[a].pc = "record" /\ adm[a].new = r
    BY <1>2, <2>1, <2>3, RunIdFacts DEF Told
  <2> QED
    BY <1>1, <2>1, <2>2, <2>3, SureFacts DEF RunIsNamed
<1> QED
  BY <1>2, <1>3

\* A step of a run that moves the status of its own row only while it writes it,
\* and leaves it a status that tells where the run is.
LEMMA RunTells ==
  ASSUME Sure, NEW r \in Runs,
         UNCHANGED <<runId, life, runDoc>>,
         \A a \in Admitters : adm[a].pc \in InHand => adm'[a] = adm[a],
         \A s \in Runs : /\ s # r => (runPc'[s] \in Writes <=> runPc[s] \in Writes)
                         /\ runPc[s] # "none" => runPc'[s] # "none",
         \A d \in Docs : d # runDoc[r] => status'[d] = status[d],
         runDoc[r] \in Docs =>
           /\ status'[runDoc[r]] = "uploading" => status[runDoc[r]] = "uploading"
           /\ runPc[r] \notin Writes => status'[runDoc[r]] = status[runDoc[r]] /\ runPc'[r] \notin Writes
           /\ runPc[r] \in Writes /\ life[runDoc[r]] = "kept" =>
                (status'[runDoc[r]] \in Working <=> runPc'[r] \in Writes)
  PROVE  /\ \A d \in Docs : life'[d] = "kept" => Told(d)'
         /\ NoneClaimed
<1>1. ASSUME NEW d \in Docs, life[d] = "kept"
      PROVE  Told(d)'
  <2>0. Told(d)
    BY <1>1, SureFacts
  <2>1. CASE d # runDoc[r]
    <3>1. status'[d] = status[d] /\ runId'[d] = runId[d]
      BY <2>1
    <3>2. ASSUME NEW a \in Admitters, runId[d] = Pending(a)
          PROVE  status[d] \in Working <=> adm'[a].pc = "start" \/ runPc'[adm'[a].new] \in Writes
      <4>1. adm[a].doc = d /\ adm[a].pc \in {"start", "record"} /\ adm'[a] = adm[a]
        BY <1>1, <3>2, HolderHas DEF InHand
      <4>2. CASE adm[a].pc = "start"
        BY <2>0, <3>2, <4>1, <4>2 DEF Told
      <4>3. CASE adm[a].pc = "record"
        <5>1. adm[a].new \in Runs /\ runDoc[adm[a].new] = d
          BY <4>1, <4>3, SureFacts DEF Locals
        <5>2. runPc'[adm[a].new] \in Writes <=> runPc[adm[a].new] \in Writes
          BY <2>1, <5>1
        <5> QED
          BY <2>0, <3>2, <4>1, <5>2 DEF Told
      <4> QED
        BY <4>1, <4>2, <4>3
    <3>3. ASSUME NEW s \in Runs, runId[d] = Started(s)
          PROVE  runDoc'[s] = d /\ runPc'[s] # "none" /\ (status[d] \in Working <=> runPc'[s] \in Writes)
      <4>1. runDoc[s] = d /\ runPc[s] # "none" /\ (status[d] \in Working <=> runPc[s] \in Writes)
        BY <2>0, <3>3 DEF Told
      <4>2. s # r
        BY <2>1, <4>1
      <4> QED
        BY <4>1, <4>2
    <3> QED
      BY <2>0, <3>1, <3>2, <3>3 DEF Told
  <2>2. CASE d = runDoc[r] /\ runPc[r] \notin Writes
    <3>1. status'[d] = status[d] /\ runId'[d] = runId[d] /\ \A s \in Runs : (runPc'[s] \in Writes <=> runPc[s] \in Writes)
      BY <2>2
    <3>2. ASSUME NEW a \in Admitters, runId[d] = Pending(a)
          PROVE  status[d] \in Working <=> adm'[a].pc = "start" \/ runPc'[adm'[a].new] \in Writes
      <4>1. adm[a].pc \in {"start", "record"} /\ adm'[a] = adm[a]
        BY <1>1, <3>2, HolderHas DEF InHand
      <4>2. adm[a].pc = "record" => adm[a].new \in Runs
        BY SureFacts DEF Locals
      <4> QED
        BY <2>0, <3>1, <3>2, <4>1, <4>2 DEF Told
    <3> QED
      BY <2>0, <3>1, <3>2 DEF Told
  <2>3. CASE d = runDoc[r] /\ runPc[r] \in Writes
    <3>1. runId[d] # NoRun /\ status[d] \in Working /\ status'[d] # "uploading"
      BY <1>1, <2>3, WriterNamed DEF Working
    <3>2. status'[d] \in Working <=> runPc'[r] \in Writes
      BY <1>1, <2>3
    <3>3. ASSUME NEW a \in Admitters, runId[d] = Pending(a)
          PROVE  status'[d] \in Working <=> adm'[a].pc = "start" \/ runPc'[adm'[a].new] \in Writes
      <4>1. Exists(d) /\ Live(r)
        BY <1>1, <2>3, SureFacts DEF Exists, Live, Calm, Writing, Writes
      <4>2. PICK b \in Admitters : runId[d] = Pending(b) /\ adm[b].pc = "record" /\ adm[b].new = r
        BY <2>3, <3>3, <4>1, RunIdFacts, SureFacts DEF RunIsNamed
      <4>3. b = a
        <5>1. Pending(a) = Pending(b)
          BY <3>3, <4>2
        <5>2. \A x, y : Pending(x) = Pending(y) => x = y
          BY RunIdFacts
        <5> QED
          BY <5>1, <5>2
      <4>4. adm'[a] = adm[a]
        BY <4>2, <4>3 DEF InHand
      <4> QED
        BY <3>2, <4>2, <4>3, <4>4
    <3>4. ASSUME NEW s \in Runs, runId[d] = Started(s)
          PROVE  runDoc'[s] = d /\ runPc'[s] # "none" /\ (status'[d] \in Working <=> runPc'[s] \in Writes)
      <4>1. Exists(d) /\ Live(r) /\ runDoc[s] = d /\ runPc[s] # "none"
        BY <1>1, <2>0, <2>3, <3>4, SureFacts DEF Exists, Live, Calm, Writing, Writes, Told
      <4>2. s = r
        BY <2>3, <3>4, <4>1, RunIdFacts, SureFacts DEF RunIsNamed
      <4> QED
        BY <3>2, <4>1, <4>2
    <3> QED
      BY <3>1, <3>3, <3>4 DEF Told
  <2> QED
    BY <2>1, <2>2, <2>3
<1>2. ASSUME NEW d \in Docs, Claimed(d)'
      PROVE  Claimed(d)
  <2>1. runId[d] # NoRun /\ status'[d] \in Working /\ life[d] = "kept"
    BY <1>2 DEF Claimed
  <2>2. CASE d = runDoc[r] /\ runPc[r] \in Writes
    BY <2>1, <2>2, WriterNamed DEF Claimed
  <2>3. CASE ~(d = runDoc[r] /\ runPc[r] \in Writes)
    BY <2>1, <2>3 DEF Claimed
  <2> QED
    BY <2>2, <2>3
<1> QED
  BY <1>1, <1>2 DEF NoneClaimed

\* The steps of a run that fails nowhere.
LEMMA RunRows ==
  ASSUME Sure, TypeInv', NEW r \in Runs, Run(r), faults = 0, faults' = 0
  PROVE  /\ RowsInv' /\ NoneClaimed
         /\ \A a \in Admitters : adm'[a] = adm[a] \/ adm'[a].pc \in Resting
<1>0. TypeOK /\ Locals /\ Calm /\ r \in Admitters
  BY SureFacts DEF Admitters
<1>1. \/ BeginStage(r) \/ CompleteStage(r) \/ FailStage(r) \/ BeginEnd(r) \/ CompleteEnd(r)
      \/ RowIsGone(r) \/ AdmitNext(r)
  <2>1. ~FinishFails(r) /\ ~WorkerDies(r) /\ ~AdmitNextDies(r)
    BY DEF FinishFails, WorkerDies, AdmitNextDies
  <2>2. ~Redeliver(r)
    BY <1>0 DEF Redeliver, Calm
  <2> QED
    BY <2>1, <2>2 DEF Run
<1>2. UNCHANGED <<runId, life, runDoc, cancelled, req, sweep, child, abandoned>>
  BY <1>1 DEF BeginStage, CompleteStage, FailStage, BeginEnd, CompleteEnd, RowIsGone, AdmitNext,
     docVars, procVars, hist
<1>3. \A s \in Runs : exec'[s] # "lost"
  BY <1>0, <1>1 DEF BeginStage, CompleteStage, FailStage, BeginEnd, CompleteEnd, RowIsGone, AdmitNext,
     Calm, TypeOK
<1>4. ASSUME NEW a \in Admitters
      PROVE  /\ adm[a].pc \in InHand => adm'[a] = adm[a]
             /\ adm'[a] = adm[a] \/ (adm'[a].pc \in Resting /\ adm'[a].waiting = {})
  <2>1. CASE AdmitNext(r)
    <3>1. adm[r].pc = "idle"
      BY <1>0, <2>1 DEF AdmitNext, Locals
    <3> QED
      BY <1>0, <2>1, <3>1, RestsEmpty DEF AdmitNext, InHand, TypeOK
  <2>2. CASE ~AdmitNext(r)
    BY <1>1, <2>2 DEF BeginStage, CompleteStage, FailStage, BeginEnd, CompleteEnd, RowIsGone, procVars
  <2> QED
    BY <2>1, <2>2
<1>5. /\ \A s \in Runs : s # r => (runPc'[s] \in Writes <=> runPc[s] \in Writes)
      /\ \A d \in Docs : d # runDoc[r] => status'[d] = status[d]
      /\ runDoc[r] \in Docs =>
           /\ status'[runDoc[r]] = "uploading" => status[runDoc[r]] = "uploading"
           /\ runPc[r] \notin Writes => status'[runDoc[r]] = status[runDoc[r]] /\ runPc'[r] \notin Writes
           /\ runPc[r] \in Writes /\ life[runDoc[r]] = "kept" =>
                (status'[runDoc[r]] \in Working <=> runPc'[r] \in Writes)
  <2>w. runPc[r] \in Writes /\ life[runDoc[r]] = "kept" => status[runDoc[r]] \in Working
    BY WriterNamed
  <2>1. CASE BeginStage(r)
    BY <1>0, <2>1 DEF BeginStage, Writes, Stages, Working, TypeOK
  <2>2. CASE CompleteStage(r)
    <3>1. NextStage[runPc[r]] \in Writes /\ runPc[r] \in Writes
      BY <2>2 DEF CompleteStage, NextStage, Writes, Stages, Working
    <3> QED
      BY <1>0, <2>w, <2>2, <3>1 DEF CompleteStage, TypeOK
  <2>3. CASE FailStage(r)
    BY <1>0, <2>w, <2>3 DEF FailStage, docVars, Writes, Stages, TypeOK
  <2>4. CASE BeginEnd(r)
    BY <1>0, <2>w, <2>4 DEF BeginEnd, docVars, Writes, TypeOK
  <2>5. CASE CompleteEnd(r)
    BY <1>0, <2>5 DEF CompleteEnd, Outcome, Writes, Stages, Working, TypeOK
  <2>6. CASE RowIsGone(r)
    BY <1>0, <2>6 DEF RowIsGone, docVars, Writing, Writes, Stages, Working, Exists, TypeOK
  <2>7. CASE AdmitNext(r)
    BY <1>0, <2>7 DEF AdmitNext, docVars, Writes, Stages, Working, TypeOK
  <2> QED
    BY <1>1, <2>1, <2>2, <2>3, <2>4, <2>5, <2>6, <2>7
<1>n. \A s \in Runs : runPc[s] # "none" => runPc'[s] # "none"
  <2>1. CASE CompleteStage(r)
    BY <1>0, <2>1 DEF CompleteStage, NextStage, Stages, Working, TypeOK
  <2>2. CASE ~CompleteStage(r)
    BY <1>0, <1>1, <2>2 DEF BeginStage, FailStage, BeginEnd, CompleteEnd, RowIsGone, AdmitNext, TypeOK
  <2> QED
    BY <2>1, <2>2
<1>6. (\A d \in Docs : life'[d] = "kept" => Told(d)') /\ NoneClaimed
  BY <1>2, <1>4, <1>5, <1>n, RunTells
<1>7. Calm'
  BY <1>0, <1>2, <1>3, <1>4 DEF Calm, Resting
<1>8. ASSUME NEW d \in Docs, life[d] = "kept", status[d] = "uploading"
      PROVE  status'[d] = "uploading"
  <2>1. CASE d = runDoc[r] /\ runPc[r] \in Writes
    BY <1>8, <2>1, WriterNamed DEF Working
  <2>2. CASE ~(d = runDoc[r] /\ runPc[r] \in Writes)
    BY <1>5, <1>8, <2>2
  <2> QED
    BY <2>1, <2>2
<1>9. Asked'
  <2>1. \A q \in Requests : req[q].pc # "idle" => req[q].doc \in Docs
    BY <1>0 DEF Locals
  <2> QED
    BY <1>2, <1>8, <2>1, SureFacts DEF Asked
<1>10. Listed'
  <2>1. ASSUME NEW a \in Admitters, NEW d \in adm'[a].waiting, life[d] = "kept"
        PROVE  status'[d] # "uploading"
    <3>1. d \in adm[a].waiting /\ d \in Docs
      BY <1>0, <1>4, <2>1 DEF TypeOK, LocalStates
    <3> QED
      BY <1>5, <2>1, <3>1, SureFacts DEF Listed
  <2> QED
    BY <1>2, <2>1 DEF Listed
<1> QED
  BY <1>4, <1>6, <1>7, <1>9, <1>10 DEF RowsInv

\* What an admission newly lists waits.
LEMMA LookLists ==
  ASSUME TypeInv, NEW a \in Admitters, Looks(a)
  PROVE  \A d \in adm'[a].waiting : d \in adm[a].waiting \/ Waiting(d)
<1> DEFINE l == adm[a]
<1>0. l \in LocalStates /\ adm \in [Admitters -> LocalStates]
  BY DEF TypeInv, TypeOK
<1>1. CASE TakeTurn(a)
  BY <1>0, <1>1, RestsEmpty DEF TakeTurn, LocalStates
<1>2. CASE CountOwner(a)
  <2>1. PICK d \in l.turn :
          adm' = [adm EXCEPT ![a] =
            LET k    == [l EXCEPT !.turn = @ \ {d}, !.rep = d]
                free == OwnerRoom(OwnerOf[d])
                room == IF k.rounds THEN AtMost(1, free) ELSE free
            IN  IF Capped THEN [k EXCEPT !.pc = "cap", !.room = room]
                ELSE IF room = 0 THEN OwnerDone(k)
                ELSE [k EXCEPT !.pc = "find", !.room = room]]
    BY <1>2 DEF CountOwner
  <2> DEFINE k == [l EXCEPT !.turn = @ \ {d}, !.rep = d]
  <2>2. PICK room : room = IF k.rounds THEN AtMost(1, OwnerRoom(OwnerOf[d])) ELSE OwnerRoom(OwnerOf[d])
    OBVIOUS
  <2>3. adm' = [adm EXCEPT ![a] =
          IF Capped THEN [k EXCEPT !.pc = "cap", !.room = room]
          ELSE IF room = 0 THEN OwnerDone(k)
          ELSE [k EXCEPT !.pc = "find", !.room = room]]
    BY <2>1, <2>2
  <2>4. \A p \in {"cap", "find"} : [k EXCEPT !.pc = p, !.room = room].waiting = l.waiting
    BY <1>0 DEF LocalStates
  <2>5. OwnerDone(k).waiting = {}
    BY RestsEmpty
  <2> HIDE DEF k
  <2> QED
    BY <1>0, <2>3, <2>4, <2>5
<1>3. CASE CountAll(a)
  <2>1. PICK room : adm' = [adm EXCEPT ![a] = IF room = 0 THEN OwnerDone(l)
                                              ELSE [l EXCEPT !.pc = "find", !.room = room]]
    BY <1>3 DEF CountAll
  <2>2. [l EXCEPT !.pc = "find", !.room = room].waiting = l.waiting
    BY <1>0 DEF LocalStates
  <2> QED
    BY <1>0, <2>1, <2>2, RestsEmpty
<1>4. CASE FindWaiting(a)
  <2>1. PICK list : /\ list = TakeOldest(l.room, WaitingOf(OwnerOf[l.rep]))
                    /\ adm' = [adm EXCEPT ![a] =
                         IF list = {} THEN OwnerDone(l)
                         ELSE [l EXCEPT !.pc = "claim", !.room = 0, !.waiting = list]]
    BY <1>4 DEF FindWaiting
  <2>2. [l EXCEPT !.pc = "claim", !.room = 0, !.waiting = list].waiting = list
    BY <1>0 DEF LocalStates
  <2>3. \A d \in list : Waiting(d)
    BY <2>1 DEF TakeOldest, WaitingOf
  <2> QED
    BY <1>0, <2>1, <2>2, <2>3, RestsEmpty
<1> QED
  BY <1>1, <1>2, <1>3, <1>4 DEF Looks

\* The steps of an admission.
LEMMA AdmitRows ==
  ASSUME Sure, TypeInv', NEW a \in Admitters, Admit(a), faults = 0, faults' = 0
  PROVE  RowsInv'
<1>0. /\ TypeInv /\ TypeOK /\ Locals /\ Calm /\ Asked /\ Listed
      /\ adm[a] \in LocalStates /\ adm[a].waiting \in SUBSET Docs
      /\ \A d \in Docs : life[d] = "kept" => Told(d)
  BY SureFacts DEF Sure, OneRunInv, TypeOK, LocalStates
\* Whatever the step, only its own row, its own run and its own locals change.
<1>1. /\ UNCHANGED <<status, life, exec, cancelled, req, sweep, child, abandoned>>
      /\ ~StartFails(a) /\ ~Unclaim(a)
  <2>1. ~StartFails(a) /\ ~Unclaim(a)
    BY <1>0 DEF StartFails, Unclaim, Calm
  <2> QED
    BY <2>1 DEF Admit, TakeTurn, CountOwner, CountAll, FindWaiting, Claim, StartRun, RecordRun,
       docVars, runVars, hist
<1>2. \A b \in Admitters : b # a => adm'[b] = adm[b]
  <2>1. CASE Looks(a)
    BY <1>0, <2>1, LookType DEF TypeOK
  <2>2. CASE Claim(a)
    BY <1>0, <2>2, ClaimShape DEF TypeOK
  <2>3. CASE ~Looks(a) /\ ~Claim(a)
    BY <1>0, <1>1, <2>3 DEF Admit, Looks, StartRun, RecordRun, TypeOK
  <2> QED
    BY <2>1, <2>2, <2>3
<1>f. ASSUME adm'[a].pc # "unclaim",
             \A d \in adm'[a].waiting : d \in adm[a].waiting \/ Waiting(d),
             \A d \in Docs : life[d] = "kept" => Told(d)'
      PROVE  RowsInv'
  <2>1. Calm'
    BY <1>0, <1>1, <1>2, <1>f DEF Calm
  <2>2. Asked'
    BY <1>0, <1>1 DEF Asked
  <2>3. Listed'
    <3>1. ASSUME NEW b \in Admitters, NEW d \in adm'[b].waiting, life[d] = "kept"
          PROVE  status[d] # "uploading"
      <4>1. d \in adm[b].waiting \/ Waiting(d)
        BY <1>2, <1>f, <3>1
      <4> QED
        BY <1>0, <3>1, <4>1 DEF Listed, Waiting
    <3> QED
      BY <1>1, <3>1 DEF Listed
  <2> QED
    BY <1>1, <1>f, <2>1, <2>2, <2>3 DEF RowsInv
<1>3. CASE Looks(a)
  <2>1. /\ UNCHANGED <<runId, runDoc, runPc>>
        /\ adm[a].pc \notin {"start", "record"}
    BY <1>3 DEF Looks, TakeTurn, CountOwner, CountAll, FindWaiting, docVars, runVars
  <2>2. adm'[a].pc # "unclaim"
    BY <1>0, <1>3, LookType DEF Resting, TypeOK
  <2>3. ASSUME NEW d \in Docs, life[d] = "kept" PROVE Told(d)'
    <3>1. \A b \in Admitters : runId[d] = Pending(b) => adm'[b] = adm[b]
      BY <1>2, <2>1, <2>3, HolderHas
    <3>2. Told(d)
      BY <1>0, <2>3
    <3> QED
      BY <1>1, <2>1, <3>1, <3>2 DEF Told
  <2> QED
    BY <1>0, <1>3, <1>f, <2>2, <2>3, LookLists
<1>4. CASE Claim(a)
  <2>0. adm[a].pc = "claim" /\ UNCHANGED <<runDoc, runPc>>
    BY <1>4 DEF Claim, runVars
  <2>1. PICK d \in adm[a].waiting :
          LET l == [adm[a] EXCEPT !.waiting = @ \ {d}] IN
          \/ /\ MayClaim(d)
             /\ runId' = [runId EXCEPT ![d] = Pending(a)]
             /\ adm' = [adm EXCEPT ![a] = [l EXCEPT !.pc = "start", !.doc = d]]
          \/ /\ ~MayClaim(d)
             /\ adm' = [adm EXCEPT ![a] = DocDone(l)]
             /\ UNCHANGED runId
    BY <1>4 DEF Claim
  <2>2. PICK l : l = [adm[a] EXCEPT !.waiting = @ \ {d}]
    OBVIOUS
  <2>3. /\ d \in Docs /\ l \in LocalStates /\ l.waiting = adm[a].waiting \ {d}
    <3>1. adm[a].waiting \ {d} \in SUBSET Docs
      BY <1>0
    <3> QED
      BY <1>0, <2>2, <3>1 DEF LocalStates
  <2>4. CASE adm' = [adm EXCEPT ![a] = DocDone(l)] /\ UNCHANGED runId
    <3>1. adm'[a] = DocDone(l)
      BY <1>0, <2>4 DEF TypeOK
    <3>2. ASSUME NEW e \in Docs, life[e] = "kept" PROVE Told(e)'
      <4>1. \A b \in Admitters : runId[e] = Pending(b) => adm'[b] = adm[b]
        BY <1>2, <2>0, <3>2, HolderHas
      <4>2. Told(e)
        BY <1>0, <3>2
      <4> QED
        BY <1>1, <2>0, <2>4, <4>1, <4>2 DEF Told
    <3> QED
      BY <1>f, <2>3, <3>1, <3>2, DocDoneShape DEF Resting
  <2>5. CASE /\ MayClaim(d)
             /\ runId' = [runId EXCEPT ![d] = Pending(a)]
             /\ adm' = [adm EXCEPT ![a] = [l EXCEPT !.pc = "start", !.doc = d]]
    <3>1. adm'[a].pc = "start" /\ adm'[a].waiting = adm[a].waiting \ {d}
      BY <1>0, <2>3, <2>5 DEF TypeOK, LocalStates
    <3>2. \A e \in Docs : runId'[e] = IF e = d THEN Pending(a) ELSE runId[e]
      BY <1>0, <2>5 DEF TypeOK
    <3>3. ASSUME NEW e \in Docs, life[e] = "kept" PROVE Told(e)'
      <4>1. Told(e)
        BY <1>0, <3>3
      <4>2. CASE e = d
        <5>1. status[d] = "queued" /\ runId'[d] = Pending(a)
          BY <1>0, <2>1, <2>5, <3>2, <3>3, <4>1, <4>2 DEF Told, Listed, MayClaim
        <5> QED
          BY <1>1, <3>1, <4>2, <5>1, RunIdFacts DEF Told, Working
      <4>3. CASE e # d
        <5>1. \A b \in Admitters : runId[e] = Pending(b) => adm'[b] = adm[b]
          BY <1>2, <2>0, <3>3, HolderHas
        <5>2. runId'[e] = runId[e]
          BY <3>2, <4>3
        <5> QED
          BY <1>1, <2>0, <4>1, <5>1, <5>2 DEF Told
      <4> QED
        BY <4>2, <4>3
    <3> QED
      BY <1>f, <3>1, <3>3
  <2> QED
    BY <2>1, <2>2, <2>4, <2>5
<1>5. CASE \E r \in Runs : StartRun(a, r)
  <2>1. PICK r \in Runs : StartRun(a, r)
    BY <1>5
  <2>2. /\ adm[a].pc = "start" /\ runPc[r] = "none" /\ runId' = runId
        /\ adm'[a].pc = "record" /\ adm'[a].new = r /\ adm'[a].waiting = adm[a].waiting
        /\ runPc'[r] = "queued"
        /\ \A s \in Runs : s # r => runDoc'[s] = runDoc[s] /\ runPc'[s] = runPc[s]
    BY <1>0, <2>1 DEF StartRun, NextRun, docVars, TypeOK, LocalStates
  <2>3. ASSUME NEW d \in Docs, life[d] = "kept" PROVE Told(d)'
    <3>0. Told(d)
      BY <1>0, <2>3
    <3>1. ASSUME NEW b \in Admitters, runId[d] = Pending(b)
          PROVE  status[d] \in Working <=> adm'[b].pc = "start" \/ runPc'[adm'[b].new] \in Writes
      <4>1. adm[b].pc \in {"start", "record"}
        BY <2>3, <3>1, HolderHas
      <4>2. CASE b = a
        BY <2>2, <3>0, <3>1, <4>2 DEF Told, Writes, Stages, Working
      <4>3. CASE b # a
        <5>1. adm'[b] = adm[b]
          BY <1>2, <4>3
        <5>2. adm[b].pc = "record" => adm[b].new \in Runs /\ adm[b].new # r
          BY <1>0, <2>2 DEF Locals
        <5> QED
          BY <2>2, <3>0, <3>1, <4>1, <5>1, <5>2 DEF Told
      <4> QED
        BY <4>2, <4>3
    <3>2. ASSUME NEW s \in Runs, runId[d] = Started(s)
          PROVE  runDoc'[s] = d /\ runPc'[s] # "none" /\ (status[d] \in Working <=> runPc'[s] \in Writes)
      BY <2>2, <3>0, <3>2 DEF Told
    <3> QED
      BY <1>1, <2>2, <3>0, <3>1, <3>2 DEF Told
  <2> QED
    BY <1>f, <2>2, <2>3
<1>6. CASE RecordRun(a)
  <2>1. PICK l : l = [adm[a] EXCEPT !.won = TRUE]
    OBVIOUS
  <2>2. PICK d : d = adm[a].doc
    OBVIOUS
  <2>3. /\ l \in LocalStates /\ l.waiting = adm[a].waiting
        /\ adm[a].pc = "record" /\ d \in Docs /\ UNCHANGED <<runDoc, runPc>>
        /\ adm[a].new \in Runs /\ runPc[adm[a].new] # "none" /\ runDoc[adm[a].new] = d
    BY <1>0, <1>6, <2>1, <2>2 DEF LocalStates, RecordRun, Locals, runVars
  <2>4. /\ adm'[a] = DocDone(l)
        /\ \A e \in Docs : runId'[e] = IF e = d /\ Holds(a, d) THEN Started(adm[a].new) ELSE runId[e]
    BY <1>0, <1>6, <2>1, <2>2, <2>3 DEF RecordRun, TypeOK
  <2>5. ASSUME NEW e \in Docs, life[e] = "kept" PROVE Told(e)'
    <3>0. Told(e)
      BY <1>0, <2>5
    <3>1. CASE e = d /\ Holds(a, d)
      <4>1. runId[e] = Pending(a) /\ runId'[e] = Started(adm[a].new)
        BY <2>4, <3>1 DEF Holds
      <4>2. status[e] \in Working <=> runPc[adm[a].new] \in Writes
        BY <2>3, <3>0, <4>1 DEF Told
      <4>3. status[e] # "uploading"
        BY <3>0, <4>1, RunIdFacts DEF Told
      <4> QED
        BY <1>1, <2>3, <3>1, <4>1, <4>2, <4>3, RunIdFacts DEF Told
    <3>2. CASE ~(e = d /\ Holds(a, d))
      <4>1. runId'[e] = runId[e]
        BY <2>4, <3>2
      <4>2. runId[e] # Pending(a)
        BY <2>2, <2>5, <3>2, HolderHas DEF Holds, Exists
      <4>3. \A b \in Admitters : runId[e] = Pending(b) => adm'[b] = adm[b]
        BY <1>2, <4>2
      <4> QED
        BY <1>1, <2>3, <3>0, <4>1, <4>3 DEF Told
    <3> QED
      BY <3>1, <3>2
  <2> QED
    BY <1>f, <2>3, <2>4, <2>5, DocDoneShape DEF Resting
<1> QED
  BY <1>1, <1>3, <1>4, <1>5, <1>6 DEF Admit, Looks

\* Any other step: rows stop being kept, or are queued while they name no run.
LEMMA RowsPass ==
  ASSUME Sure, UNCHANGED <<runId, runDoc, runPc>>,
         \A d \in Docs : life'[d] = "kept" =>
           /\ life[d] = "kept"
           /\ status'[d] = status[d] \/ (runId[d] = NoRun /\ status'[d] = "queued"),
         \A a \in Admitters : adm[a].pc \in InHand => adm'[a] = adm[a]
  PROVE  /\ \A d \in Docs : life'[d] = "kept" => Told(d)'
         /\ NoneClaimed
<1>1. ASSUME NEW d \in Docs, life'[d] = "kept" PROVE Told(d)'
  <2>1. life[d] = "kept" /\ Told(d)
    BY <1>1, SureFacts
  <2>2. \A a \in Admitters : runId[d] = Pending(a) => adm'[a] = adm[a]
    BY <2>1, HolderHas DEF InHand
  <2>3. CASE status'[d] = status[d]
    BY <2>1, <2>2, <2>3 DEF Told
  <2>4. CASE runId[d] = NoRun /\ status'[d] = "queued"
    BY <2>4, RunIdFacts DEF Told
  <2> QED
    BY <1>1, <2>3, <2>4
<1>2. NoneClaimed
  BY DEF NoneClaimed, Claimed
<1> QED
  BY <1>1, <1>2

\* Where no row is an upload again, lists and requests stay right.
LEMMA ListsPass ==
  ASSUME Sure, req' = req,
         \A d \in Docs : life'[d] = "kept" => life[d] = "kept" /\ status'[d] = status[d],
         \A a \in Admitters : adm'[a] = adm[a] \/ adm'[a].waiting = {}
  PROVE  Asked' /\ Listed'
<1>1. Locals /\ TypeOK /\ Asked /\ Listed
  BY SureFacts
<1>2. \A q \in Requests : req[q].pc = "process" => req[q].doc \in Docs
  BY <1>1 DEF Locals
<1>3. Asked'
  BY <1>1, <1>2 DEF Asked
<1>4. ASSUME NEW a \in Admitters, NEW d \in adm'[a].waiting, life'[d] = "kept"
      PROVE  status'[d] # "uploading"
  <2>1. d \in adm[a].waiting
    BY <1>4
  <2>2. d \in Docs
    BY <1>1, <2>1 DEF TypeOK, LocalStates
  <2> QED
    BY <1>1, <1>4, <2>1, <2>2 DEF Listed
<1> QED
  BY <1>3, <1>4 DEF Listed

LEMMA RequestRows ==
  ASSUME Undisturbed, Sure, TypeInv', NEW q \in Requests, Request(q), faults = 0, faults' = 0
  PROVE  /\ RowsInv' /\ NoneClaimed
         /\ \A a \in Admitters : adm'[a] = adm[a] \/ adm'[a].pc \in Resting
<1>0. /\ TypeOK /\ Locals /\ Calm /\ Asked /\ Listed /\ q \in Admitters
      /\ \A d \in Docs : life[d] = "kept" => Told(d)
  BY SureFacts DEF Admitters
<1>1. (\E d \in Docs : ProcessRead(q, d) \/ RetryRead(q, d)) \/ ProcessWrite(q) \/ RetryWrite(q)
  <2>1. \A d \in Docs : ~ExtendRead(q, d)
    BY DEF Undisturbed, ExtendRead
  <2>2. ~ExtendWrite(q)
    BY <1>0 DEF ExtendWrite, Calm
  <2>3. ~RequestDies(q)
    BY DEF RequestDies
  <2> QED
    BY <2>1, <2>2, <2>3 DEF Request
<1>2. CASE \E d \in Docs : ProcessRead(q, d) \/ RetryRead(q, d)
  <2>1. PICK d \in Docs : ProcessRead(q, d) \/ RetryRead(q, d)
    BY <1>2
  <2>2. /\ UNCHANGED <<status, runId, life, runDoc, runPc, exec, cancelled, adm, sweep, abandoned>>
        /\ Alone(d)
    BY <2>1 DEF ProcessRead, RetryRead, Read, docVars, runVars, hist
  <2>3. PICK m : /\ req' = [req EXCEPT ![q] = m] /\ m.doc = d
                 /\ m.pc \in {"process", "retry"}
                 /\ m.pc = "process" => status[d] = "uploading"
    <3>1. CASE ProcessRead(q, d)
      <4>1. PICK m : m = [pc |-> "process", doc |-> d, seen |-> "none"]
        OBVIOUS
      <4>2. m.pc = "process" /\ m.doc = d /\ status[d] = "uploading"
        BY <3>1, <4>1 DEF ProcessRead, Undisturbed
      <4>3. req' = [req EXCEPT ![q] = m]
        BY <3>1, <4>1 DEF ProcessRead, Read
      <4> QED
        BY <4>2, <4>3
    <3>2. CASE RetryRead(q, d)
      <4>1. PICK m : m = [pc |-> "retry", doc |-> d, seen |-> "none"]
        OBVIOUS
      <4>2. m.pc = "retry" /\ m.doc = d
        BY <4>1
      <4>3. req' = [req EXCEPT ![q] = m]
        BY <3>2, <4>1 DEF RetryRead, Read
      <4> QED
        BY <4>2, <4>3
    <3> QED
      BY <2>1, <3>1, <3>2
  <2>4. /\ \A p \in Requests : req'[p] = IF p = q THEN m ELSE req[p]
        /\ \A p \in Requests : req[p].doc # d
    <3>1. \A p \in Requests : req[p].doc # d
      BY <2>2 DEF Alone, Answering, Undisturbed
    <3> QED
      BY <1>0, <2>3, <3>1 DEF TypeOK
  <2>5. Asked'
    BY <1>0, <2>2, <2>3, <2>4 DEF Asked
  <2>6. Calm'
    BY <1>0, <2>2, <2>3, <2>4 DEF Calm
  <2>7. Listed'
    BY <1>0, <2>2 DEF Listed
  <2>8. (\A e \in Docs : life'[e] = "kept" => Told(e)') /\ NoneClaimed
    BY <2>2, RowsPass
  <2> QED
    BY <2>2, <2>5, <2>6, <2>7, <2>8 DEF RowsInv
<1>3. CASE ProcessWrite(q) \/ RetryWrite(q)
  <2>1. PICK d : d = req[q].doc
    OBVIOUS
  <2>2. /\ req[q].pc # "idle" /\ d \in Docs /\ adm[q].pc = "idle"
        /\ UNCHANGED <<life, runDoc, runPc, exec, cancelled, sweep, abandoned>>
        /\ \A p \in Requests : req'[p] = IF p = q THEN NoRequest ELSE req[p]
    BY <1>0, <1>3, <2>1 DEF ProcessWrite, RetryWrite, Locals, runVars, hist, TypeOK
  <2>3. /\ \A e \in Docs : \/ status'[e] = status[e] /\ runId'[e] = runId[e]
                           \/ /\ e = d /\ status'[e] = "queued"
                              /\ \/ runId'[e] = NoRun
                                 \/ req[q].pc = "process" /\ runId'[e] = runId[e]
        /\ \A a \in Admitters : adm'[a] = adm[a] \/ (a = q /\ adm'[a] = AdmitQueued(d))
    <3>1. CASE ProcessWrite(q)
      BY <1>0, <2>1, <2>2, <3>1 DEF ProcessWrite, TypeOK
    <3>2. CASE RetryWrite(q)
      BY <1>0, <2>1, <2>2, <3>2 DEF RetryWrite, TypeOK
    <3> QED
      BY <1>3, <3>1, <3>2
  <2>4. life[d] = "kept" /\ req[q].pc = "process" => runId[d] = NoRun
    BY <1>0, <2>1, <2>2 DEF Asked, Told
  <2>5. \A a \in Admitters : /\ adm'[a] = adm[a] \/ (adm'[a].pc \in Resting /\ adm'[a].waiting = {})
                             /\ adm[a].pc \in InHand => adm'[a] = adm[a]
    BY <2>2, <2>3, RestsEmpty DEF InHand
  <2>6. ASSUME NEW e \in Docs, life'[e] = "kept" PROVE Told(e)' /\ (Claimed(e)' => Claimed(e))
    <3>1. life[e] = "kept" /\ Told(e)
      BY <1>0, <2>2, <2>6
    <3>2. \A a \in Admitters : runId[e] = Pending(a) => adm'[a] = adm[a]
      BY <2>5, <3>1, HolderHas DEF InHand
    <3>3. CASE status'[e] = status[e] /\ runId'[e] = runId[e]
      BY <2>2, <3>1, <3>2, <3>3 DEF Told, Claimed
    <3>4. CASE status'[e] = "queued" /\ runId'[e] = NoRun
      BY <3>4, RunIdFacts DEF Told, Claimed
    <3> QED
      BY <2>2, <2>3, <2>4, <3>1, <3>3, <3>4
  <2>7. NoneClaimed
    BY <2>2, <2>6 DEF NoneClaimed, Claimed
  <2>10. Calm'
    BY <1>0, <2>2, <2>5 DEF Calm, NoRequest, Resting
  <2>8. Asked'
    <3>1. \A p \in Requests : req'[p].pc # "idle" => p # q /\ req'[p] = req[p] /\ req[p].pc # "idle"
      BY <2>2 DEF NoRequest
    <3>2. \A p \in Requests : req[p].pc # "idle" /\ p # q => req[p].doc # d /\ req[p].doc \in Docs
      BY <1>0, <2>1, <2>2 DEF Asked, Locals
    <3>3. ASSUME NEW p \in Requests, req'[p].pc = "process", life'[req'[p].doc] = "kept"
          PROVE  status'[req'[p].doc] = "uploading"
      <4>1. PICK e : e = req[p].doc
        OBVIOUS
      <4>2. e \in Docs /\ e # d /\ req'[p].doc = e /\ req[p].pc = "process"
        BY <3>1, <3>2, <3>3, <4>1
      <4>3. status'[e] = status[e] /\ life[e] = "kept"
        BY <2>2, <2>3, <3>3, <4>2
      <4> QED
        BY <1>0, <4>1, <4>2, <4>3 DEF Asked
    <3>4. \A p, s \in Requests :
            req'[p].pc # "idle" /\ req'[s].pc # "idle" /\ req'[p].doc = req'[s].doc => p = s
      BY <1>0, <3>1 DEF Asked
    <3> QED
      BY <3>3, <3>4 DEF Asked
  <2>9. Listed'
    <3>1. ASSUME NEW a \in Admitters, NEW e \in adm'[a].waiting, life[e] = "kept"
          PROVE  status'[e] # "uploading"
      <4>1. e \in adm[a].waiting /\ e \in Docs
        BY <1>0, <2>5, <3>1 DEF TypeOK, LocalStates
      <4> QED
        BY <1>0, <2>3, <3>1, <4>1 DEF Listed
    <3> QED
      BY <2>2, <3>1 DEF Listed
  <2> QED
    BY <2>5, <2>6, <2>7, <2>8, <2>9, <2>10 DEF RowsInv
<1> QED
  BY <1>1, <1>2, <1>3

LEMMA ExpireRows ==
  ASSUME Sure, NEW d \in Docs, Expire(d)
  PROVE  RowsInv' /\ NoneClaimed /\ adm' = adm
<1>1. /\ UNCHANGED <<status, runId, runDoc, runPc, exec, cancelled, adm, req, sweep, abandoned>>
      /\ \A e \in Docs : life'[e] = "kept" => life[e] = "kept"
  BY SureFacts DEF Expire, runVars, procVars, hist, TypeOK
<1>2. (\A e \in Docs : life'[e] = "kept" => Told(e)') /\ NoneClaimed
  BY <1>1, RowsPass
<1>3. Asked' /\ Listed'
  BY <1>1, ListsPass
<1>4. Calm'
  BY <1>1, SureFacts DEF Calm
<1> QED
  BY <1>1, <1>2, <1>3, <1>4 DEF RowsInv

\* While nothing fails, the sweep finds nothing lost.
LEMMA NothingStalls ==
  ASSUME Sure, NEW d \in Docs
  PROVE  ~Stalled(d)
<1> SUFFICES ASSUME Claimed(d), ~MovedByRun(d), ~MovedByAdmission(d)
             PROVE  FALSE
  BY DEF Stalled
<1>1. life[d] = "kept" /\ runId[d] # NoRun /\ status[d] \in Working /\ runId[d] \in RunIds /\ Told(d)
  BY SureFacts DEF Claimed, TypeOK
<1>2. CASE \E a \in Admitters : runId[d] = Pending(a)
  BY <1>1, <1>2, HolderHas DEF MovedByAdmission
<1>3. CASE \E r \in Runs : runId[d] = Started(r)
  BY <1>1, <1>3, SureFacts DEF Told, MovedByRun, Writing, Writes, Calm
<1> QED
  BY <1>1, <1>2, <1>3, RunIdFacts

LEMMA SweepRows ==
  ASSUME Sure, Sweep, faults = 0, faults' = 0
  PROVE  /\ RowsInv' /\ NoneClaimed
         /\ \A a \in Admitters : adm'[a] = adm[a] \/ adm'[a].pc \in Resting
<1>0. TypeOK /\ Locals /\ Calm /\ Sweeper \in Admitters
  BY SureFacts DEF Admitters
<1>1. SweepExpired \/ AdmitStalled \/ EndSweep
  <2>1. ~FindLost
    BY NothingStalls DEF FindLost
  <2>2. ~TakeCandidate /\ ~SkipMoving /\ ~CancelLost /\ ~CancelFails /\ ~Requeue
    BY <1>0 DEF TakeCandidate, SkipMoving, CancelLost, CancelFails, Requeue, Calm
  <2>3. ~SweeperDies
    BY DEF SweeperDies
  <2> QED
    BY <2>1, <2>2, <2>3 DEF Sweep
<1>2. /\ UNCHANGED <<runId, runDoc, runPc, exec, cancelled, req, abandoned>>
      /\ \A d \in Docs : life'[d] = "kept" => life[d] = "kept" /\ status'[d] = status[d]
  BY <1>0, <1>1 DEF SweepExpired, AdmitStalled, EndSweep, docVars, runVars, hist, TypeOK
<1>3. sweep'.pc \in {"idle", "recover", "lost", "admit"} /\ sweep'.found = {}
  BY <1>0, <1>1 DEF SweepExpired, AdmitStalled, EndSweep, SweepIdle, Calm, TypeOK
<1>4. \A a \in Admitters : /\ adm'[a] = adm[a] \/ (adm'[a].pc \in Resting /\ adm'[a].waiting = {})
                           /\ adm[a].pc \in InHand => adm'[a] = adm[a]
  <2>1. CASE AdmitStalled
    <3>1. adm[Sweeper].pc = "idle"
      BY <1>0, <2>1 DEF AdmitStalled, Locals
    <3> QED
      BY <1>0, <2>1, <3>1, RestsEmpty DEF AdmitStalled, InHand, TypeOK
  <2>2. CASE ~AdmitStalled
    BY <1>1, <2>2 DEF SweepExpired, EndSweep
  <2> QED
    BY <2>1, <2>2
<1>5. (\A e \in Docs : life'[e] = "kept" => Told(e)') /\ NoneClaimed
  BY <1>2, <1>4, RowsPass
<1>6. Asked' /\ Listed'
  BY <1>2, <1>4, ListsPass
<1>7. Calm'
  BY <1>0, <1>2, <1>3, <1>4 DEF Calm, Resting
<1> QED
  BY <1>4, <1>5, <1>6, <1>7 DEF RowsInv

-----------------------------------------------------------------------------
(* Retries, and what is ready. *)

\* Nobody is at work on d, and nobody can take it up before it is given back.
Over(d) ==
  /\ runId[d] # NoRun
  /\ \A r \in Runs : runDoc[r] = d => runPc[r] \notin Writes
  /\ \A a \in Admitters : adm[a].pc = "start" => adm[a].doc # d

\* Nobody has been at work on d yet, nor means to be.
Untouched(d) ==
  /\ runId[d] = NoRun
  /\ \A a \in Admitters : d \notin adm[a].waiting

OverInv ==
  /\ \A d \in Docs : Exists(d) /\ status[d] = "ready" => Over(d)
  /\ \A q \in Requests : req[q].pc = "retry" /\ Exists(req[q].doc) =>
       Over(req[q].doc) /\ status[req[q].doc] # "ready"
  /\ \A q \in Requests : req[q].pc = "process" /\ Exists(req[q].doc) => Untouched(req[q].doc)

\* What the others rest on: the rows and runs of every document that is over stay
\* so, a document becomes ready when it is over, and one that is to be processed
\* is left alone.
LEMMA OverPass ==
  ASSUME Sure, OverInv,
         \A d \in Docs : Exists(d)' => Exists(d),
         \A d \in Docs : Exists(d) /\ Over(d) =>
           Over(d)' /\ (status'[d] = "ready" => status[d] = "ready"),
         \A d \in Docs : Exists(d) /\ status'[d] = "ready" => status[d] = "ready" \/ Over(d)',
         \A q \in Requests : req'[q] = req[q] \/ req'[q].pc = "idle",
         \A q \in Requests : \A d \in Docs :
           req[q].pc = "process" /\ req[q].doc = d /\ Exists(d) /\ Untouched(d) => Untouched(d)'
  PROVE  OverInv'
<1>1. \A q \in Requests : req[q].pc # "idle" => req[q].doc \in Docs
  BY SureFacts DEF Locals
<1>2. \A d \in Docs : Exists(d)' /\ status'[d] = "ready" => Over(d)'
  BY DEF OverInv
<1>3. ASSUME NEW q \in Requests, NEW d \in Docs, req'[q].pc = "retry", req'[q].doc = d, Exists(d)'
      PROVE  Over(d)' /\ status'[d] # "ready"
  <2>1. req'[q] = req[q] /\ Exists(d)
    BY <1>3
  <2> QED
    BY <1>3, <2>1 DEF OverInv
<1>4. ASSUME NEW q \in Requests, NEW d \in Docs, req'[q].pc = "process", req'[q].doc = d, Exists(d)'
      PROVE  Untouched(d)'
  <2>1. req'[q] = req[q] /\ Exists(d)
    BY <1>4
  <2> QED
    BY <1>4, <2>1 DEF OverInv
<1>5. \A q \in Requests : req'[q].pc # "idle" => req'[q].doc \in Docs
  BY <1>1
<1>6. \A q \in Requests : \A d \in Docs :
        req'[q].pc = "retry" /\ req'[q].doc = d /\ Exists(d)' => Over(d)' /\ status'[d] # "ready"
  BY <1>3
<1>7. \A q \in Requests : \A d \in Docs :
        req'[q].pc = "process" /\ req'[q].doc = d /\ Exists(d)' => Untouched(d)'
  BY <1>4
<1> QED
  BY <1>2, <1>5, <1>6, <1>7 DEF OverInv, Over, Untouched, Exists

LEMMA AdmitOver ==
  ASSUME Sure, OverInv, NEW a \in Admitters, Admit(a), faults = 0, faults' = 0
  PROVE  OverInv'
<1>0. /\ TypeInv /\ TypeOK /\ Locals /\ Calm /\ Asked
      /\ adm[a] \in LocalStates /\ adm[a].waiting \in SUBSET Docs
  BY SureFacts DEF TypeInv, TypeOK, LocalStates
<1>1. UNCHANGED <<status, life, req>>
  BY DEF Admit, TakeTurn, CountOwner, CountAll, FindWaiting, Claim, StartRun, StartFails, Unclaim,
     RecordRun, docVars
<1>f. ASSUME \A d \in Docs : Exists(d) /\ Over(d) => Over(d)',
             \A q \in Requests : \A d \in Docs :
               req[q].pc = "process" /\ req[q].doc = d /\ Exists(d) /\ Untouched(d) => Untouched(d)'
      PROVE  OverInv'
  <2>1. \A d \in Docs : Exists(d)' <=> Exists(d)
    BY <1>1 DEF Exists
  <2> QED
    BY <1>1, <1>f, <2>1, OverPass
<1>2. CASE Looks(a)
  <2>1. UNCHANGED <<runId, runDoc, runPc>>
    BY <1>2 DEF Looks, TakeTurn, CountOwner, CountAll, FindWaiting, docVars, runVars
  <2>2. adm'[a].pc # "start" /\ \A b \in Admitters : b # a => adm'[b] = adm[b]
    BY <1>0, <1>2, LookType DEF Resting, TypeOK
  <2>3. \A d \in Docs : Over(d) => Over(d)'
    BY <2>1, <2>2 DEF Over
  <2>4. ASSUME NEW q \in Requests, NEW d \in Docs, req[q].pc = "process", req[q].doc = d, Untouched(d)
        PROVE  Untouched(d)'
    <3>1. ~Waiting(d)
      BY <1>0, <2>4 DEF Asked, Waiting
    <3>2. d \notin adm'[a].waiting
      BY <1>0, <1>2, <2>4, <3>1, LookLists DEF Untouched
    <3> QED
      BY <2>1, <2>2, <2>4, <3>2 DEF Untouched
  <2> QED
    BY <1>f, <2>3, <2>4
<1>3. CASE Claim(a)
  <2>1. PICK d \in adm[a].waiting :
          LET l == [adm[a] EXCEPT !.waiting = @ \ {d}] IN
          \/ /\ MayClaim(d)
             /\ runId' = [runId EXCEPT ![d] = Pending(a)]
             /\ adm' = [adm EXCEPT ![a] = [l EXCEPT !.pc = "start", !.doc = d]]
          \/ /\ ~MayClaim(d)
             /\ adm' = [adm EXCEPT ![a] = DocDone(l)]
             /\ UNCHANGED runId
    BY <1>3 DEF Claim
  <2>2. PICK l : l = [adm[a] EXCEPT !.waiting = @ \ {d}]
    OBVIOUS
  <2>3. /\ d \in Docs /\ l \in LocalStates /\ l.waiting = adm[a].waiting \ {d}
        /\ UNCHANGED <<runDoc, runPc>>
    <3>1. adm[a].waiting \ {d} \in SUBSET Docs
      BY <1>0
    <3> QED
      BY <1>0, <1>3, <2>2, <3>1 DEF LocalStates, Claim, runVars
  <2>4. /\ adm'[a].waiting \subseteq adm[a].waiting
        /\ \A b \in Admitters : b # a => adm'[b] = adm[b]
        /\ \/ adm'[a].pc # "start" /\ runId' = runId
           \/ /\ adm'[a].doc = d /\ runId[d] = NoRun
              /\ \A e \in Docs : runId'[e] = IF e = d THEN Pending(a) ELSE runId[e]
    <3>1. CASE adm' = [adm EXCEPT ![a] = DocDone(l)] /\ UNCHANGED runId
      <4>1. adm'[a] = DocDone(l) /\ \A b \in Admitters : b # a => adm'[b] = adm[b]
        BY <1>0, <3>1 DEF TypeOK
      <4>2. DocDone(l).waiting \subseteq adm[a].waiting /\ DocDone(l).pc # "start"
        BY <2>3, DocDoneShape DEF Resting
      <4> QED
        BY <3>1, <4>1, <4>2
    <3>2. CASE /\ MayClaim(d)
               /\ runId' = [runId EXCEPT ![d] = Pending(a)]
               /\ adm' = [adm EXCEPT ![a] = [l EXCEPT !.pc = "start", !.doc = d]]
      <4>1. /\ adm'[a] = [l EXCEPT !.pc = "start", !.doc = d]
            /\ \A b \in Admitters : b # a => adm'[b] = adm[b]
        BY <1>0, <3>2 DEF TypeOK
      <4>2. adm'[a].waiting = adm[a].waiting \ {d} /\ adm'[a].doc = d
        BY <2>3, <4>1 DEF LocalStates
      <4>3. runId[d] = NoRun /\ \A e \in Docs : runId'[e] = IF e = d THEN Pending(a) ELSE runId[e]
        BY <1>0, <3>2 DEF MayClaim, TypeOK
      <4> QED
        BY <4>1, <4>2, <4>3
    <3> QED
      BY <2>1, <2>2, <3>1, <3>2
  <2>5. \A e \in Docs : Over(e) => Over(e)'
    BY <2>3, <2>4, RunIdFacts DEF Over
  <2>6. \A e \in Docs : Untouched(e) => Untouched(e)'
    BY <2>1, <2>4 DEF Untouched
  <2> QED
    BY <1>f, <2>5, <2>6
<1>4. CASE \E r \in Runs : StartRun(a, r)
  <2>1. PICK r \in Runs : StartRun(a, r)
    BY <1>4
  <2>2. /\ adm[a].pc = "start" /\ runId' = runId
        /\ adm'[a].pc = "record" /\ adm'[a].waiting = adm[a].waiting
        /\ \A b \in Admitters : b # a => adm'[b] = adm[b]
        /\ runDoc'[r] = adm[a].doc
        /\ \A s \in Runs : s # r => runDoc'[s] = runDoc[s] /\ runPc'[s] = runPc[s]
    BY <1>0, <2>1 DEF StartRun, docVars, TypeOK, LocalStates
  <2>3. \A e \in Docs : Over(e) => Over(e)'
    BY <2>2 DEF Over
  <2>4. \A e \in Docs : Untouched(e) => Untouched(e)'
    BY <2>2 DEF Untouched
  <2> QED
    BY <1>f, <2>3, <2>4
<1>5. CASE RecordRun(a)
  <2>1. PICK l : l = [adm[a] EXCEPT !.won = TRUE]
    OBVIOUS
  <2>2. l \in LocalStates /\ l.waiting = adm[a].waiting /\ UNCHANGED <<runDoc, runPc>>
    BY <1>0, <1>5, <2>1 DEF LocalStates, RecordRun, runVars
  <2>3. adm'[a] = DocDone(l) /\ \A b \in Admitters : b # a => adm'[b] = adm[b]
    BY <1>0, <1>5, <2>1 DEF RecordRun, TypeOK
  <2>4. adm'[a].pc # "start" /\ adm'[a].waiting \subseteq adm[a].waiting
    BY <2>2, <2>3, DocDoneShape DEF Resting
  <2>5. \A e \in Docs : runId'[e] = runId[e] \/ (runId[e] = Pending(a) /\ runId'[e] = Started(adm[a].new))
    BY <1>0, <1>5 DEF RecordRun, Holds, TypeOK
  <2>6. \A e \in Docs : Over(e) => Over(e)'
    BY <2>2, <2>3, <2>4, <2>5, RunIdFacts DEF Over
  <2>7. \A e \in Docs : Untouched(e) => Untouched(e)'
    BY <2>3, <2>4, <2>5, RunIdFacts DEF Untouched
  <2> QED
    BY <1>f, <2>6, <2>7
<1>6. ~StartFails(a) /\ ~Unclaim(a)
  BY <1>0 DEF StartFails, Unclaim, Calm
<1> QED
  BY <1>2, <1>3, <1>4, <1>5, <1>6 DEF Admit, Looks

\* The steps of a run: it writes its own row, and only a last step makes it ready.
LEMMA RunOver ==
  ASSUME Sure, OverInv, NEW r \in Runs, Run(r), faults = 0, faults' = 0
  PROVE  OverInv'
<1>0. TypeOK /\ Locals /\ Calm /\ r \in Admitters
  BY SureFacts DEF Admitters
<1>1. \/ BeginStage(r) \/ CompleteStage(r) \/ FailStage(r) \/ BeginEnd(r) \/ CompleteEnd(r)
      \/ RowIsGone(r) \/ AdmitNext(r)
  <2>1. ~FinishFails(r) /\ ~WorkerDies(r) /\ ~AdmitNextDies(r)
    BY DEF FinishFails, WorkerDies, AdmitNextDies
  <2>2. ~Redeliver(r)
    BY <1>0 DEF Redeliver, Calm
  <2> QED
    BY <2>1, <2>2 DEF Run
<1>2. UNCHANGED <<runId, life, runDoc, req>>
  BY <1>1 DEF BeginStage, CompleteStage, FailStage, BeginEnd, CompleteEnd, RowIsGone, AdmitNext,
     docVars, procVars
<1>3. \A a \in Admitters : adm'[a] = adm[a] \/ (adm'[a].pc \in Resting /\ adm'[a].waiting = {})
  <2>1. CASE AdmitNext(r)
    BY <1>0, <2>1, RestsEmpty DEF AdmitNext, TypeOK
  <2>2. CASE ~AdmitNext(r)
    BY <1>1, <2>2 DEF BeginStage, CompleteStage, FailStage, BeginEnd, CompleteEnd, RowIsGone, procVars
  <2> QED
    BY <2>1, <2>2
<1>4. \A s \in Runs : runPc'[s] \in Writes => runPc[s] \in Writes
  BY <1>0, <1>1 DEF BeginStage, CompleteStage, FailStage, BeginEnd, CompleteEnd, RowIsGone, AdmitNext,
     Writes, Stages, Working, TypeOK
<1>5. /\ \A d \in Docs : d # runDoc[r] \/ runPc[r] \notin Writes => status'[d] = status[d]
      /\ \A d \in Docs : status'[d] = "ready" => status[d] = "ready" \/ runPc'[r] = "admit"
  <2>1. CASE BeginStage(r)
    BY <1>0, <2>1 DEF BeginStage, Writes, Stages, Working, TypeOK
  <2>2. CASE CompleteEnd(r)
    BY <1>0, <2>2 DEF CompleteEnd, Writes, TypeOK
  <2>3. CASE ~BeginStage(r) /\ ~CompleteEnd(r)
    BY <1>1, <2>3 DEF CompleteStage, FailStage, BeginEnd, RowIsGone, AdmitNext, docVars
  <2> QED
    BY <2>1, <2>2, <2>3
<1>6. \A d \in Docs : Over(d) => Over(d)' /\ status'[d] = status[d]
  BY <1>2, <1>3, <1>4, <1>5 DEF Over, Resting
<1>7. ASSUME NEW d \in Docs, Exists(d), status'[d] = "ready", status[d] # "ready"
      PROVE  Over(d)'
  <2>1. d = runDoc[r] /\ runPc[r] \in Writes /\ Live(r)
    BY <1>0, <1>5, <1>7 DEF Live, Calm, Writing, Writes
  <2>2. runId[d] # NoRun
    BY <1>7, <2>1, SureFacts, RunIdFacts DEF RunIsNamed
  <2>3. \A a \in Admitters : adm[a].pc = "start" => adm[a].doc # d
    BY <2>1, SureFacts DEF StartsAlone
  <2>4. ASSUME NEW s \in Runs, runDoc[s] = d PROVE runPc'[s] \notin Writes
    <3>1. CASE s = r
      BY <1>5, <1>7, <3>1 DEF Writes, Stages, Working
    <3>2. CASE s # r
      <4>1. ~Live(s)
        BY <2>1, <2>4, <3>2 DEF Sure, OneRunInv, OneRunPerDocument
      <4> QED
        BY <1>0, <1>4, <4>1 DEF Live, Calm, Writing, Writes
    <3> QED
      BY <3>1, <3>2
  <2> QED
    BY <1>2, <1>3, <2>2, <2>3, <2>4 DEF Over, Resting
<1>8. \A d \in Docs : Untouched(d) => Untouched(d)'
  BY <1>2, <1>3 DEF Untouched
<1>9. \A d \in Docs : Exists(d)' <=> Exists(d)
  BY <1>2 DEF Exists
<1> QED
  BY <1>2, <1>6, <1>7, <1>8, <1>9, OverPass

\* Requests: a document that is retried has failed, and is in nobody's hands.
LEMMA RequestOver ==
  ASSUME Undisturbed, Sure, OverInv, NEW q \in Requests, Request(q), faults = 0, faults' = 0
  PROVE  OverInv'
<1>0. /\ TypeOK /\ Locals /\ Calm /\ Asked /\ Listed /\ q \in Admitters
      /\ \A d \in Docs : life[d] = "kept" => Told(d)
  BY SureFacts DEF Admitters
<1>1. (\E d \in Docs : ProcessRead(q, d) \/ RetryRead(q, d)) \/ ProcessWrite(q) \/ RetryWrite(q)
  BY <1>0 DEF Request, Undisturbed, ExtendRead, ExtendWrite, Calm, RequestDies
<1>2. ASSUME NEW d \in Docs, ProcessRead(q, d) \/ RetryRead(q, d)
      PROVE  OverInv'
  <2>1. /\ UNCHANGED <<status, runId, life, runDoc, runPc, adm>>
        /\ life[d] = "kept" /\ Exists(d)
    BY <1>2 DEF ProcessRead, RetryRead, Read, docVars, runVars, Exists
  <2>2. \A p \in Requests : p # q => req'[p] = req[p]
    BY <1>0, <1>2 DEF ProcessRead, RetryRead, Read, TypeOK
  <2>3. CASE ProcessRead(q, d)
    <3>1. req'[q].pc = "process" /\ req'[q].doc = d
      BY <1>0, <2>3 DEF ProcessRead, Read, TypeOK
    <3>2. runId[d] = NoRun /\ status[d] = "uploading"
      BY <2>3 DEF ProcessRead, Undisturbed
    <3>3. Untouched(d)
      BY <1>0, <2>1, <3>2 DEF Untouched, Listed
    <3> QED
      BY <2>1, <2>2, <3>1, <3>3 DEF OverInv, Over, Untouched, Exists
  <2>4. CASE RetryRead(q, d)
    <3>1. req'[q].pc = "retry" /\ req'[q].doc = d
      BY <1>0, <2>4 DEF RetryRead, Read, TypeOK
    <3>2. status[d] = "failed" /\ Told(d)
      BY <1>0, <2>1, <2>4 DEF RetryRead, MayRetry
    <3>3. runId[d] # NoRun
      BY <3>2 DEF Told
    <3>4. \A r \in Runs : runDoc[r] = d => runPc[r] \notin Writes
      BY <2>1, <3>2, WriterNamed DEF Working
    <3>5. ASSUME NEW a \in Admitters, adm[a].pc = "start", adm[a].doc = d
          PROVE  FALSE
      <4>1. runId[d] = Pending(a)
        BY <2>1, <3>5, SureFacts DEF StartsAlone
      <4> QED
        BY <3>2, <3>5, <4>1 DEF Told, Working
    <3>6. Over(d)
      BY <3>3, <3>4, <3>5 DEF Over
    <3> QED
      BY <2>1, <2>2, <3>1, <3>2, <3>6 DEF OverInv, Over, Untouched, Exists
  <2> QED
    BY <1>2, <2>3, <2>4
<1>3. CASE ProcessWrite(q) \/ RetryWrite(q)
  <2>1. PICK d : d = req[q].doc
    OBVIOUS
  <2>2. /\ req[q].pc # "idle" /\ d \in Docs /\ UNCHANGED <<life, runDoc, runPc>>
        /\ \A p \in Requests : req'[p] = IF p = q THEN NoRequest ELSE req[p]
    BY <1>0, <1>3, <2>1 DEF ProcessWrite, RetryWrite, Locals, runVars, TypeOK
  <2>3. /\ \A e \in Docs : e # d => status'[e] = status[e] /\ runId'[e] = runId[e]
        /\ \/ status'[d] = status[d] /\ ~Exists(d)
           \/ status'[d] = "queued"
        /\ \A a \in Admitters : adm'[a] = adm[a] \/ adm'[a] = AdmitQueued(d)
    BY <1>0, <1>3, <2>1, <2>2 DEF ProcessWrite, RetryWrite, TypeOK
  <2>4. \A a \in Admitters : adm'[a] = adm[a] \/ (adm'[a].pc \in Resting /\ adm'[a].waiting = {})
    BY <2>3, RestsEmpty
  <2>5. \A e \in Docs : e # d => (Over(e) => Over(e)') /\ (Untouched(e) => Untouched(e)')
    BY <2>2, <2>3, <2>4 DEF Over, Untouched, Resting
  <2>6. \A p \in Requests : req'[p].pc # "idle" =>
          req'[p] = req[p] /\ req[p].doc \in Docs /\ req[p].doc # d
    BY <1>0, <2>1, <2>2 DEF Asked, Locals, NoRequest
  <2>7. \A e \in Docs : Exists(e)' <=> Exists(e)
    BY <2>2 DEF Exists
  <2>8. ASSUME NEW e \in Docs, Exists(e)', status'[e] = "ready" PROVE Over(e)'
    <3>1. e # d
      BY <2>3, <2>7, <2>8
    <3> QED
      BY <2>3, <2>5, <2>7, <2>8, <3>1 DEF OverInv
  <2>9. ASSUME NEW p \in Requests, NEW e \in Docs, req'[p].doc = e, Exists(e)'
        PROVE  /\ req'[p].pc = "retry" => Over(e)' /\ status'[e] # "ready"
               /\ req'[p].pc = "process" => Untouched(e)'
    <3>1. req'[p].pc # "idle" => e # d /\ req'[p] = req[p] /\ req[p].doc = e
      BY <2>6, <2>9
    <3> QED
      BY <2>3, <2>5, <2>7, <2>9, <3>1 DEF OverInv
  <2>10. \A p \in Requests : req'[p].pc # "idle" => req'[p].doc \in Docs
    BY <2>6
  <2>11. \A p \in Requests : \A e \in Docs : req'[p].doc = e /\ Exists(e)' =>
           /\ req'[p].pc = "retry" => Over(e)' /\ status'[e] # "ready"
           /\ req'[p].pc = "process" => Untouched(e)'
    BY <2>9
  <2> QED
    BY <2>8, <2>10, <2>11 DEF OverInv, Over, Untouched, Exists
<1> QED
  BY <1>1, <1>2, <1>3

LEMMA ExpireOver ==
  ASSUME Sure, OverInv, NEW d \in Docs, Expire(d)
  PROVE  OverInv'
<1>1. /\ UNCHANGED <<status, runId, runDoc, runPc, adm, req>>
      /\ \A e \in Docs : Exists(e)' => Exists(e)
  BY SureFacts DEF Expire, runVars, procVars, Exists, TypeOK
<1>2. \A e \in Docs : (Over(e) => Over(e)') /\ (Untouched(e) => Untouched(e)')
  BY <1>1 DEF Over, Untouched
<1> QED
  BY <1>1, <1>2, OverPass

LEMMA SweepOver ==
  ASSUME Sure, OverInv, Sweep, faults = 0, faults' = 0
  PROVE  OverInv'
<1>0. TypeOK /\ Locals /\ Calm /\ Sweeper \in Admitters
  BY SureFacts DEF Admitters
<1>1. SweepExpired \/ AdmitStalled \/ EndSweep
  <2>1. ~FindLost
    BY NothingStalls DEF FindLost
  <2>2. ~TakeCandidate /\ ~SkipMoving /\ ~CancelLost /\ ~CancelFails /\ ~Requeue
    BY <1>0 DEF TakeCandidate, SkipMoving, CancelLost, CancelFails, Requeue, Calm
  <2>3. ~SweeperDies
    BY DEF SweeperDies
  <2> QED
    BY <2>1, <2>2, <2>3 DEF Sweep
<1>2. /\ UNCHANGED <<runId, runDoc, runPc, req>>
      /\ \A d \in Docs : status'[d] = status[d] \/ status'[d] = "expired"
      /\ \A d \in Docs : Exists(d)' => Exists(d)
  BY <1>0, <1>1 DEF SweepExpired, AdmitStalled, EndSweep, docVars, runVars, Exists, TypeOK
<1>3. \A a \in Admitters : adm'[a] = adm[a] \/ (adm'[a].pc \in Resting /\ adm'[a].waiting = {})
  BY <1>0, <1>1, RestsEmpty DEF SweepExpired, AdmitStalled, EndSweep, TypeOK
<1>4. \A e \in Docs : (Over(e) => Over(e)') /\ (Untouched(e) => Untouched(e)')
  BY <1>2, <1>3 DEF Over, Untouched, Resting
<1> QED
  BY <1>2, <1>4, OverPass

\* The one step that gives a row to another run without a claim: it is given up by
\* everybody first.
LEMMA RetryOneRun ==
  ASSUME Sure, OverInv, TypeInv', NEW q \in Requests, RetryWrite(q)
  PROVE  OneRunInv'
<1>0. /\ OneRunPerDocument /\ RunIsNamed /\ StartsAlone /\ LostStaysLost
      /\ TypeOK /\ Locals /\ NoOtherStarts /\ Calm /\ q \in Admitters
  BY SureFacts DEF Sure, OneRunInv, Admitters
<1>1. PICK d : d = req[q].doc
  OBVIOUS
<1>2. /\ d \in Docs /\ adm[q].pc = "idle" /\ UNCHANGED <<life, runVars, sweep, child, abandoned>>
      /\ \A p \in Requests : req'[p] = req[p] \/ req'[p] = NoRequest
  BY <1>0, <1>1 DEF RetryWrite, Locals, hist, TypeOK
<1>3. /\ \A e \in Docs : runId'[e] = runId[e] \/ (e = d /\ Exists(d))
      /\ \A a \in Admitters : adm'[a] = adm[a] \/ (a = q /\ adm'[a].pc \in Resting)
  BY <1>0, <1>1, <1>2, RestsEmpty DEF RetryWrite, TypeOK
<1>4. Exists(d) => Over(d)
  BY <1>1 DEF OverInv, RetryWrite
<1>5. \A r \in Runs : Live(r)' <=> Live(r)
  BY <1>2 DEF Live, Writing, runVars
<1>6. \A a \in Admitters : adm'[a].pc \in InHand \/ adm[a].pc \in InHand => adm'[a] = adm[a]
  BY <1>2, <1>3 DEF Resting, InHand
<1>7. OneRunPerDocument'
  BY <1>0, <1>2, <1>5 DEF OneRunPerDocument, runVars
<1>8. RunIsNamed'
  <2> SUFFICES ASSUME NEW r \in Runs, Live(r), Exists(runDoc[r]), runId'[runDoc[r]] # Started(r)
               PROVE  \E a \in Admitters : /\ runId'[runDoc[r]] = Pending(a)
                                           /\ adm'[a].pc = "record" /\ adm'[a].new = r
    BY <1>2, <1>5 DEF RunIsNamed, runVars, Exists
  <2>1. runDoc[r] \in Docs
    BY <1>0, LiveStarted DEF Locals
  <2>2. runId'[runDoc[r]] = runId[runDoc[r]]
    BY <1>3, <1>4, <2>1 DEF Over, Live, Writing, Writes
  <2>3. PICK a \in Admitters : /\ runId[runDoc[r]] = Pending(a)
                               /\ adm[a].pc = "record" /\ adm[a].new = r
    BY <1>0, <2>2 DEF RunIsNamed
  <2> QED
    BY <1>6, <2>2, <2>3 DEF InHand
<1>9. StartsAlone'
  <2> SUFFICES ASSUME NEW a \in Admitters, adm'[a].pc = "start"
               PROVE  /\ \A r \in Runs : Live(r) => runDoc[r] # adm'[a].doc
                      /\ \A b \in Admitters :
                           adm'[b].pc = "start" /\ adm'[b].doc = adm'[a].doc => b = a
                      /\ Exists(adm'[a].doc) => runId'[adm'[a].doc] = Pending(a)
    BY <1>2, <1>5 DEF StartsAlone, runVars, Exists
  <2>1. \A b \in Admitters : adm'[b].pc = "start" => adm'[b] = adm[b]
    BY <1>6 DEF InHand
  <2>2. adm[a].pc = "start" /\ adm'[a] = adm[a] /\ adm[a].doc \in Docs
    BY <1>0, <2>1 DEF Locals
  <2>3. runId'[adm[a].doc] = runId[adm[a].doc]
    BY <1>3, <1>4, <2>2 DEF Over
  <2> QED
    BY <1>0, <2>1, <2>2, <2>3 DEF StartsAlone
<1>10. LostStaysLost'
  <2>1. sweep.found = {} /\ sweep.cur = NoCandidate /\ sweep.pc # "requeue"
    BY <1>0 DEF Calm, Locals
  <2>2. \A a \in Admitters : NoCandidate.runId # Pending(a)
    BY RunIdFacts DEF NoCandidate
  <2> QED
    BY <1>2, <2>1, <2>2 DEF LostStaysLost
<1>11. NoOtherStarts'
  BY <1>0, <1>2 DEF NoOtherStarts, NoRequest
<1> QED
  BY <1>7, <1>8, <1>9, <1>10, <1>11 DEF OneRunInv

-----------------------------------------------------------------------------
(* What holds until the first fault. *)

LimitInv ==
  /\ TypeInv /\ ClaimIsHeld
  /\ faults = 0 => OneRunInv /\ RowsInv /\ CountsInv /\ OverInv

LEMMA InitLimit == Init => LimitInv
<1> SUFFICES ASSUME Init PROVE LimitInv
  OBVIOUS
<1>1. OneRunInv /\ TypeInv
  BY InitOneRun, InitType
<1>2. ClaimIsHeld
  BY RunIdFacts DEF Init, ClaimIsHeld
<1>3. RowsInv
  <2>1. Calm /\ Asked /\ Listed
    BY DEF Init, Calm, Asked, Listed, Idle, SweepIdle, NoRequest
  <2>2. \A d \in Docs : Told(d)
    BY RunIdFacts DEF Init, Told, Working
  <2> QED
    BY <2>1, <2>2 DEF RowsInv
<1>4. CountsInv
  <2>1. \A d \in Docs : ~Claimed(d)
    BY DEF Init, Claimed
  <2>2. (\A o : InFlight(o) = 0) /\ InFlightAll = 0
    <3>1. /\ \A o : {d \in Docs : OwnerOf[d] = o /\ Claimed(d)} = {}
          /\ {d \in Docs : Claimed(d)} = {}
      BY <2>1
    <3> QED
      BY <3>1, FS_EmptySet DEF InFlight, InFlightAll
  <2>3. \A a \in Admitters : ~Admitting(a)
    BY DEF Init, Admitting, Idle
  <2> QED
    BY <2>2, <2>3, BoundsAssumption DEF CountsInv, Limits, Overlap
<1>5. OverInv
  BY DEF Init, OverInv, NoRequest
<1> QED
  BY <1>1, <1>2, <1>3, <1>4, <1>5 DEF LimitInv

\* A step makes one fault or none, and none beyond the bound.
FaultStep == faults' = faults \/ (faults' = faults + 1 /\ faults < MaxFaults)

LEMMA FaultsStep == [Next]_vars => FaultStep
<1> SUFFICES ASSUME [Next]_vars PROVE FaultStep
  OBVIOUS
<1>1. ASSUME NEW a \in Admitters, Admit(a) PROVE FaultStep
  BY <1>1 DEF FaultStep, Admit, TakeTurn, CountOwner, CountAll, FindWaiting, Claim, StartRun,
     StartFails, Unclaim, RecordRun, hist
<1>2. ASSUME NEW r \in Runs, Run(r) PROVE FaultStep
  BY <1>2 DEF FaultStep, Run, BeginStage, CompleteStage, FailStage, FinishFails, BeginEnd,
     CompleteEnd, RowIsGone, AdmitNext, WorkerDies, AdmitNextDies, Redeliver, hist
<1>3. ASSUME NEW q \in Requests, Request(q) PROVE FaultStep
  BY <1>3 DEF FaultStep, Request, ProcessRead, RetryRead, ExtendRead, ProcessWrite, RetryWrite,
     ExtendWrite, RequestDies, hist
<1>4. CASE Expand
  BY <1>4 DEF FaultStep, Expand, ChildRead, ChildStart, ChildRecord, hist
<1>5. ASSUME NEW d \in Docs, Expire(d) PROVE FaultStep
  BY <1>5 DEF FaultStep, Expire, hist
<1>6. CASE Sweep
  BY <1>6 DEF FaultStep, Sweep, SweepExpired, FindLost, TakeCandidate, SkipMoving, CancelLost,
     CancelFails, Requeue, AdmitStalled, EndSweep, SweeperDies, hist
<1>7. CASE UNCHANGED vars
  BY <1>7 DEF FaultStep, vars, hist
<1> QED
  BY <1>1, <1>2, <1>3, <1>4, <1>5, <1>6, <1>7 DEF Next, Step, AtRest

\* A fault is never taken back.
LEMMA FaultsStay ==
  ASSUME TypeOK, [Next]_vars, faults' = 0
  PROVE  faults = 0
  BY FaultsStep DEF FaultStep, TypeOK

\* While nothing fails, a step keeps what the rows tell and what the counts allow.
LEMMA StepLimit ==
  ASSUME Undisturbed, Sure, CountsInv, TypeInv', Step, overlapped' = (overlapped \/ Overlap'),
         faults = 0, faults' = 0
  PROVE  RowsInv' /\ CountsInv'
<1>0. TypeInv
  BY DEF Sure, OneRunInv
<1>1. ASSUME NoneClaimed, \A a \in Admitters : adm'[a] = adm[a] \/ adm'[a].pc \in Resting
      PROVE  CountsInv'
  <2>1. \A a \in Admitters : Admitting(a)' => adm'[a] = adm[a]
    BY <1>1 DEF Admitting, Resting
  <2> QED
    BY <1>0, <1>1, <2>1, CountsStay
<1>2. ASSUME NEW a \in Admitters, Admit(a) PROVE RowsInv' /\ CountsInv'
  BY <1>0, <1>2, AdmitRows, AdmitCounts
<1>3. ASSUME NEW r \in Runs, Run(r) PROVE RowsInv' /\ CountsInv'
  BY <1>1, <1>3, RunRows
<1>4. ASSUME NEW q \in Requests, Request(q) PROVE RowsInv' /\ CountsInv'
  BY <1>1, <1>4, RequestRows
<1>5. ~Expand
  BY SureFacts DEF Expand, ChildRead, ChildStart, ChildRecord, Undisturbed, NoOtherStarts
<1>6. ASSUME NEW d \in Docs, Expire(d) PROVE RowsInv' /\ CountsInv'
  BY <1>1, <1>6, ExpireRows
<1>7. ASSUME Sweep PROVE RowsInv' /\ CountsInv'
  BY <1>1, <1>7, SweepRows
<1> QED
  BY <1>2, <1>3, <1>4, <1>5, <1>6, <1>7 DEF Step

\* And it keeps a document in one pair of hands, a retried one too.
LEMMA StepOver ==
  ASSUME Undisturbed, Sure, OverInv, TypeInv', Step, faults = 0, faults' = 0
  PROVE  OneRunInv' /\ OverInv'
<1>1. OneRunInv'
  <2>1. "children" \notin Allows /\ OneRunInv
    BY DEF Undisturbed, Sure
  <2> QED
    BY <2>1, StepOneRun, RetryOneRun
<1>2. ~Expand
  BY SureFacts DEF Expand, ChildRead, ChildStart, ChildRecord, Undisturbed, NoOtherStarts
<1>3. OverInv'
  BY <1>2, AdmitOver, RunOver, RequestOver, ExpireOver, SweepOver DEF Step
<1> QED
  BY <1>1, <1>3

LEMMA NextLimit == Undisturbed /\ LimitInv /\ [Next]_vars => LimitInv'
<1> SUFFICES ASSUME Undisturbed, LimitInv, [Next]_vars PROVE LimitInv'
  OBVIOUS
<1>1. ClaimIsHeld /\ TypeInv
  BY DEF LimitInv
<1>2. ClaimIsHeld' /\ TypeInv'
  BY <1>1, NextHeld DEF ClaimInv
<1>3. ASSUME faults' = 0 PROVE OneRunInv' /\ RowsInv' /\ CountsInv' /\ OverInv'
  <2>1. faults = 0
    BY <1>1, <1>3, FaultsStay DEF TypeInv
  <2>2. OneRunInv /\ RowsInv /\ CountsInv /\ OverInv /\ Sure
    BY <1>1, <2>1 DEF LimitInv, Sure
  <2>3. CASE Step /\ overlapped' = (overlapped \/ Overlap')
    <3>1. RowsInv' /\ CountsInv'
      BY <1>2, <1>3, <2>1, <2>2, <2>3, StepLimit
    <3>2. OneRunInv' /\ OverInv'
      BY <1>2, <1>3, <2>1, <2>2, <2>3, StepOver
    <3> QED
      BY <3>1, <3>2
  <2>4. CASE UNCHANGED vars
    <3>1. RowsInv'
      BY <2>2, <2>4 DEF vars, docVars, runVars, procVars, hist, RowsInv, Calm, Asked, Listed, Told
    <3>2. CountsInv'
      BY <2>2, <2>4 DEF vars, docVars, procVars, CountsInv, Limits, Counted, Overlap, Admitting,
         InFlight, InFlightAll, Claimed, Capped
    <3>3. OneRunInv'
      BY <1>2, <2>2, <2>4, RestOneRun
    <3>4. OverInv'
      BY <2>2, <2>4 DEF vars, docVars, runVars, procVars, OverInv, Over, Untouched, Exists
    <3> QED
      BY <3>1, <3>2, <3>3, <3>4
  <2> QED
    BY <2>3, <2>4 DEF Next, AtRest
<1> QED
  BY <1>2, <1>3 DEF LimitInv

LEMMA LimitAlways == Undisturbed => (Spec => []LimitInv)
<1> SUFFICES ASSUME Undisturbed PROVE Spec => []LimitInv
  OBVIOUS
<1>1. Init => LimitInv
  BY InitLimit
<1>2. LimitInv /\ [Next]_vars => LimitInv'
  BY NextLimit
<1> QED
  BY <1>1, <1>2, PTL DEF Spec

\* Where documents are uploaded, handed over, retried, expired and swept, and until
\* something fails: as long as no two admissions have overlapped, an owner never
\* has more documents in flight than its limit, nor all owners more than the cap.
THEOREM LimitAlone == Undisturbed => (Spec => [](faults = 0 => LimitHeldAlone))
<1> SUFFICES ASSUME Undisturbed PROVE Spec => [](faults = 0 => LimitHeldAlone)
  OBVIOUS
<1>1. LimitInv => (faults = 0 => LimitHeldAlone)
  BY DEF LimitInv, CountsInv, Limits, LimitHeldAlone
<1> QED
  BY <1>1, LimitAlways, PTL

\* In the same systems a retry never gives a document a second live run: until
\* something fails there is one at most, it is the one the row names, and an
\* admission about to start one finds none.
THEOREM RetriedAlone ==
  Undisturbed => (Spec => [](faults = 0 => OneRunPerDocument /\ RunIsNamed /\ StartsAlone))
<1> SUFFICES ASSUME Undisturbed
             PROVE  Spec => [](faults = 0 => OneRunPerDocument /\ RunIsNamed /\ StartsAlone)
  OBVIOUS
<1>1. LimitInv => (faults = 0 => OneRunPerDocument /\ RunIsNamed /\ StartsAlone)
  BY DEF LimitInv, OneRunInv
<1> QED
  BY <1>1, LimitAlways, PTL

-----------------------------------------------------------------------------
(* What is ready stays ready. *)

\* One step of ReadyStaysReady.
ReadyStep == \A d \in Docs : status[d] = "ready" => status'[d] \notin Working

\* A run writes a document it may still write, and one that is over is not.
LEMMA RunReady ==
  ASSUME Sure, OverInv, NEW r \in Runs, Run(r), faults = 0, faults' = 0
  PROVE  ReadyStep
<1>0. TypeOK
  BY SureFacts
<1>1. \/ BeginStage(r) \/ CompleteStage(r) \/ FailStage(r) \/ BeginEnd(r) \/ CompleteEnd(r)
      \/ RowIsGone(r) \/ AdmitNext(r) \/ Redeliver(r)
  BY DEF Run, FinishFails, WorkerDies, AdmitNextDies
<1>2. CASE BeginStage(r)
  <2>1. \A d \in Docs : status[d] = "ready" => d # runDoc[r]
    BY <1>2 DEF BeginStage, OverInv, Over, Writes
  <2>2. \A d \in Docs : d # runDoc[r] => status'[d] = status[d]
    BY <1>0, <1>2 DEF BeginStage, TypeOK
  <2> QED
    BY <2>1, <2>2 DEF ReadyStep, Working
<1>3. CASE CompleteEnd(r)
  BY <1>0, <1>3 DEF CompleteEnd, Outcome, ReadyStep, Working, TypeOK
<1>4. CASE ~BeginStage(r) /\ ~CompleteEnd(r)
  <2>1. status' = status
    BY <1>1, <1>4 DEF CompleteStage, FailStage, BeginEnd, RowIsGone, AdmitNext, Redeliver, docVars
  <2> QED
    BY <2>1 DEF ReadyStep, Working
<1> QED
  BY <1>2, <1>3, <1>4

\* A request writes a document that failed, or that nobody has taken up yet.
LEMMA RequestReady ==
  ASSUME Sure, OverInv, NEW q \in Requests, Request(q), faults = 0, faults' = 0
  PROVE  ReadyStep
<1>0. TypeOK /\ Calm /\ Locals
  BY SureFacts
<1>1. CASE ProcessWrite(q) \/ RetryWrite(q)
  <2>1. req[q].doc \in Docs
    BY <1>0, <1>1 DEF ProcessWrite, RetryWrite, Locals
  <2>2. \A d \in Docs : d # req[q].doc => status'[d] = status[d]
    BY <1>0, <1>1 DEF ProcessWrite, RetryWrite, TypeOK
  <2>3. status[req[q].doc] = "ready" => status'[req[q].doc] = "ready"
    <3>1. CASE RetryWrite(q)
      BY <2>1, <3>1 DEF RetryWrite, OverInv
    <3>2. CASE ProcessWrite(q)
      <4>1. Exists(req[q].doc) => status[req[q].doc] # "ready"
        BY <2>1, <3>2 DEF ProcessWrite, OverInv, Over, Untouched
      <4> QED
        BY <3>2, <4>1 DEF ProcessWrite
    <3> QED
      BY <1>1, <3>1, <3>2
  <2> QED
    BY <2>2, <2>3 DEF ReadyStep, Working
<1>2. CASE ~ProcessWrite(q) /\ ~RetryWrite(q)
  <2>1. ~ExtendWrite(q)
    BY <1>0 DEF ExtendWrite, Calm
  <2>2. status' = status
    BY <1>2, <2>1 DEF Request, ProcessRead, RetryRead, ExtendRead, RequestDies, docVars
  <2> QED
    BY <2>2 DEF ReadyStep, Working
<1> QED
  BY <1>1, <1>2

LEMMA StepReady ==
  ASSUME Undisturbed, Sure, OverInv, Step, faults = 0, faults' = 0
  PROVE  ReadyStep
<1>1. ASSUME NEW a \in Admitters, Admit(a) PROVE ReadyStep
  <2>1. status' = status
    BY <1>1 DEF Admit, TakeTurn, CountOwner, CountAll, FindWaiting, Claim, StartRun, StartFails,
       Unclaim, RecordRun, docVars
  <2> QED
    BY <2>1 DEF ReadyStep, Working
<1>2. ~Expand
  BY SureFacts DEF Expand, ChildRead, ChildStart, ChildRecord, Undisturbed, NoOtherStarts
<1>3. ASSUME NEW d \in Docs, Expire(d) PROVE ReadyStep
  BY <1>3 DEF Expire, ReadyStep, Working
<1>4. ASSUME Sweep PROVE ReadyStep
  <2>1. ~Requeue
    BY SureFacts DEF Requeue, Calm
  <2>2. status' = status \/ \A d \in Docs : status'[d] \in {status[d], "expired"}
    BY <1>4, <2>1 DEF Sweep, SweepExpired, FindLost, TakeCandidate, SkipMoving, CancelLost,
       CancelFails, AdmitStalled, EndSweep, SweeperDies, docVars
  <2> QED
    BY <2>2 DEF ReadyStep, Working
<1> QED
  BY <1>1, RunReady, RequestReady, <1>2, <1>3, <1>4 DEF Step

\* No fault happens where none may.
LEMMA FaultsAlways == Spec => [](TypeInv /\ faults <= MaxFaults)
<1>1. Init => TypeInv /\ faults <= MaxFaults
  BY InitType, BoundsAssumption DEF Init
<1>2. TypeInv /\ faults <= MaxFaults /\ [Next]_vars => (TypeInv /\ faults <= MaxFaults)'
  <2> SUFFICES ASSUME TypeInv, faults <= MaxFaults, [Next]_vars
               PROVE  (TypeInv /\ faults <= MaxFaults)'
    OBVIOUS
  <2>1. faults \in Nat /\ MaxFaults \in Nat
    BY BoundsAssumption DEF TypeInv, TypeOK
  <2>2. TypeInv'
    BY NextType
  <2>3. faults' <= MaxFaults
    BY <2>1, FaultsStep DEF FaultStep
  <2> QED
    BY <2>2, <2>3
<1> QED
  BY <1>1, <1>2, PTL DEF Spec

\* In the same systems no step returns a document that is ready to the queue or to
\* a stage, while nothing has failed; and none ever does where nothing may fail.
THEOREM ReadyKept ==
  Undisturbed => /\ Spec => [][faults' = 0 => ReadyStep]_vars
                 /\ MaxFaults = 0 => (Spec => ReadyStaysReady)
<1>1. ASSUME Undisturbed PROVE Spec => [][faults' = 0 => ReadyStep]_vars
  <2>1. LimitInv /\ [Next]_vars => [faults' = 0 => ReadyStep]_vars
    <3> SUFFICES ASSUME LimitInv, Next, faults' = 0 PROVE ReadyStep \/ UNCHANGED vars
      OBVIOUS
    <3>1. faults = 0
      BY FaultsStay DEF LimitInv, TypeInv
    <3>2. Sure /\ OverInv
      BY <3>1 DEF LimitInv, Sure
    <3> QED
      BY <1>1, <3>1, <3>2, StepReady DEF Next, AtRest
  <2>2. Undisturbed => (Spec => []LimitInv)
    BY LimitAlways
  <2> QED
    BY <1>1, <2>1, <2>2, PTL DEF Spec
<1>2. ASSUME Undisturbed, MaxFaults = 0 PROVE Spec => ReadyStaysReady
  <2>1. /\ TypeInv /\ faults <= MaxFaults
        /\ (TypeInv /\ faults <= MaxFaults)'
        /\ [faults' = 0 => ReadyStep]_vars
        => [\A d \in Docs : status[d] = "ready" => status'[d] \notin Working]_vars
    <3>1. TypeInv' /\ (faults <= MaxFaults)' => faults' = 0
      BY <1>2 DEF TypeInv, TypeOK
    <3> QED
      BY <3>1 DEF ReadyStep
  <2>2. Spec => [][faults' = 0 => ReadyStep]_vars
    BY <1>1, <1>2
  <2> QED
    BY <2>1, <2>2, FaultsAlways, PTL DEF ReadyStaysReady
<1> QED
  BY <1>1, <1>2
=============================================================================
