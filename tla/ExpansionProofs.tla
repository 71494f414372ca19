--------------------------- MODULE ExpansionProofs ---------------------------
(***************************************************************************)
(* Proofs about the expansion and the charging of a message, for any number *)
(* of parts, uploaders, runs, attempts and faults.                          *)
(***************************************************************************)
EXTENDS Expansion, FiniteSetTheorems, TLAPS

-----------------------------------------------------------------------------
(* Where an attempt is, and what it may rely on there.                      *)

AtBatch   == {"batch", "join"}
AtPart    == {"find", "remove", "check", "refuse", "claim", "seal", "record"}
InExpand  == AtBatch \cup AtPart \cup {"mark"}
InExtract == {"charge", "stamp", "return", "stop"}
Unpaid    == {"seal", "record"}

\* A run that has a step to take, or is taking one.
Alive(r) ==
  \/ Busy(r)
  \/ run[r].step \notin {"none", "over"} /\ r \notin cancelled

\* The call an attempt is at belongs to the step it is at.
Fits ==
  \A r \in Runs :
    /\ run[r].at \in InExpand => run[r].step = "expand"
    /\ run[r].at \in InExtract => run[r].step = "extract"
    /\ run[r].at = "lost" => run[r].step \in {"expand", "extract"}

\* Recovery gives a document back when it has cancelled the run.
Silenced ==
  /\ sweep.at # "idle" => sweep.run \in Runs
  /\ sweep.at = "requeue" => sweep.run \in cancelled

\* What an attempt finds under its own name, before it records the bytes, has none.
OwnIsHalf ==
  \A r \in Runs : LET c == child[run[r].part] IN
    run[r].at \in Unpaid /\ c.by = Me(r) => c.state = "half"

\* No document that was not charged.
NoneUnpaid == Cardinality(Holding({"half", "sealed"})) <= uploads.message

\* Only the run that the row names goes on, and only while the row is at work.
Alone == \A r \in Runs : Alive(r) => row.run = r /\ row.status = "working"

IsMade(p) == child[p].state \in {"sealed", "refused"}

\* What the run has read is still so.
Knows(r) ==
  /\ run[r].step \in {"extract", "finish"} => row.meta.marked
  /\ run[r].step = "finish" => row.meta.charged
  /\ run[r].at \in InExpand => run[r].copy = row.meta /\ ~row.meta.marked
  /\ run[r].at \in {"charge", "stamp"} => run[r].copy = row.meta /\ ~row.meta.charged
  /\ run[r].at = "return" => row.meta.charged
  /\ run[r].at \in AtBatch => row.batch = NoAttempt
  /\ run[r].at \in InExpand \ {"batch"} => run[r].batch # NoAttempt
  /\ run[r].at \in AtPart \cup {"mark"} => run[r].batch = row.batch

\* What the run knows of the parts.
KnowsParts(r) ==
  LET part == run[r].part
      c    == child[part] IN
  /\ run[r].at \in {"idle"} \cup AtBatch => part = 1
  /\ run[r].at \in AtPart => \A p \in AllParts : p < part => IsMade(p)
  /\ run[r].at = "mark" => \A p \in AllParts : IsMade(p)
  /\ run[r].at = "remove" => c = run[r].seen /\ c.state # "sealed"
  /\ run[r].at \in {"check", "refuse", "claim"} => c = NoChild
  /\ run[r].at \in Unpaid => c.state = "half"
  /\ run[r].at \in {"claim"} \cup Unpaid => part \notin Refused

\* The rows, whoever is at work.
RowsFit ==
  /\ row.meta.marked => \A p \in AllParts : IsMade(p)
  /\ \A p \in AllParts : child[p].state = "none" => child[p] = NoChild
  /\ \A p \in AllParts : child[p].state # "none" => child[p].batch = row.batch /\ row.batch # NoAttempt
  /\ \A p \in AllParts : child[p].state \in {"half", "sealed"} => p \notin Refused
  /\ row.status = "ready" => row.meta.marked /\ row.meta.charged

ClaimsPaid ==
  uploads.message = Cardinality(Holding({"sealed"})) + torn.claims + Cardinality(At(Unpaid))

ChargesPaid ==
  charges = (IF row.meta.charged THEN 1 ELSE 0) + torn.charges + Cardinality(At({"stamp"}))

Pending == {u \in Uploaders : upload[u] = "charge"}

\* Whoever has passed the check and not charged yet counts as if it had.
Covered ==
  Used + Cardinality(Pending) + Cardinality(At({"claim"})) <= Limit + Cardinality(Uploaders)

Always == TypeOK /\ Fits /\ Silenced /\ OwnIsHalf /\ NoneUnpaid

ByOneRun ==
  /\ Alone
  /\ \A r \in Runs : Alive(r) => Knows(r) /\ KnowsParts(r)
  /\ RowsFit
  /\ ClaimsPaid /\ ChargesPaid /\ Covered

ExpansionInv == Always /\ (~overlap => ByOneRun)

-----------------------------------------------------------------------------
(* Types. *)

\* The initial values have their types.
LEMMA Values ==
  /\ Fresh \in Metadata
  /\ NoAttempt \in Tries
  /\ NoChild \in Children /\ NoChild.state = "none" /\ NoChild.by = NoAttempt
  /\ NoRun \in Attempts /\ NoRun.at = "idle" /\ NoRun.step = "none" /\ NoRun.try = 1 /\ NoRun.part = 1
  /\ Parts \in Nat /\ Parts >= 1 /\ MaxRuns \in Nat /\ MaxTries \in Nat /\ MaxTries >= 1
<1>1. Fresh \in Metadata
  BY DEF Fresh, Metadata
<1>2. NoAttempt \in Tries
  BY DEF Tries
<1>3. NoChild \in Children /\ NoChild.state = "none" /\ NoChild.by = NoAttempt
  BY <1>2 DEF NoChild, Children
<1>4. Parts \in Nat /\ Parts >= 1 /\ MaxRuns \in Nat /\ MaxTries \in Nat /\ MaxTries >= 1
  BY BoundsAssumption
<1>5. NoRun \in Attempts /\ NoRun.at = "idle" /\ NoRun.step = "none" /\ NoRun.try = 1 /\ NoRun.part = 1
  BY <1>1, <1>2, <1>3, <1>4 DEF NoRun, Attempts, AllParts
<1> QED
  BY <1>1, <1>2, <1>3, <1>4, <1>5

\* An attempt has a name that no other run's attempt has.
LEMMA Named ==
  ASSUME TypeOK, NEW r \in Runs
  PROVE  /\ run[r] \in Attempts
         /\ Me(r) \in Tries /\ Me(r) # NoAttempt
         /\ \A s \in Runs : Me(s) = Me(r) => s = r
         /\ child[run[r].part] \in Children
<1>1. \A s \in Runs : run[s] \in Attempts /\ run[s].try \in 1..MaxTries
  BY DEF TypeOK, Attempts
<1>2. Me(r) \in Tries /\ \A s \in Runs : Me(s) = Me(r) => s = r
  BY <1>1 DEF Me, Tries
<1>3. Me(r) # NoAttempt
  BY Values DEF Me, NoAttempt, Runs
<1>4. child[run[r].part] \in Children
  BY <1>1 DEF TypeOK, Attempts
<1> QED
  BY <1>1, <1>2, <1>3, <1>4

\* What a run does to its own record.
LEMMA EnterType ==
  ASSUME TypeOK, NEW r \in Runs,
         NEW step \in {"expand", "extract", "finish", "fail", "quota", "over"}, Enter(r, step)
  PROVE  /\ run' \in [Runs -> Attempts]
         /\ run' = [run EXCEPT ![r] = run'[r]]
         /\ run'[r].at = "idle" /\ run'[r].step = step /\ run'[r].try = 1 /\ run'[r].part = 1
<1>1. [NoRun EXCEPT !.step = step] \in Attempts
  BY Values DEF Attempts
<1>2. run' = [run EXCEPT ![r] = [NoRun EXCEPT !.step = step]] /\ run \in [Runs -> Attempts]
  BY DEF Enter, TypeOK
<1>3. run'[r] = [NoRun EXCEPT !.step = step]
  BY <1>2
<1> QED
  BY <1>1, <1>2, <1>3, Values DEF NoRun

LEMMA GotoType ==
  ASSUME TypeOK, NEW r \in Runs, NEW at \in InExpand \cup InExtract \cup {"lost"}, Goto(r, at)
  PROVE  /\ run' \in [Runs -> Attempts]
         /\ run'[r] = [run[r] EXCEPT !.at = at]
         /\ run' = [run EXCEPT ![r] = run'[r]]
<1>1. run \in [Runs -> Attempts] /\ run' = [run EXCEPT ![r].at = at]
  BY DEF Goto, TypeOK
<1>2. [run[r] EXCEPT !.at = at] \in Attempts
  BY <1>1 DEF Attempts, InExpand, InExtract, AtBatch, AtPart
<1> QED
  BY <1>1, <1>2

LEMMA NextPartType ==
  ASSUME TypeOK, NEW r \in Runs, NextPart(r)
  PROVE  /\ run' \in [Runs -> Attempts]
         /\ run' = [run EXCEPT ![r] = run'[r]]
         /\ run'[r].at = IF run[r].part < Parts THEN "find" ELSE "mark"
         /\ run'[r].part = IF run[r].part < Parts THEN run[r].part + 1 ELSE run[r].part
         /\ run'[r].step = run[r].step /\ run'[r].copy = run[r].copy
         /\ run'[r].batch = run[r].batch /\ run'[r].try = run[r].try
<1> DEFINE part == IF run[r].part < Parts THEN run[r].part + 1 ELSE run[r].part
           at   == IF run[r].part < Parts THEN "find" ELSE "mark"
           new  == [run[r] EXCEPT !.part = part, !.at = at]
<1>1. run \in [Runs -> Attempts] /\ run[r] \in Attempts /\ run[r].part \in AllParts
  BY DEF TypeOK, Attempts
<1>2. run' = [run EXCEPT ![r] = new]
  BY <1>1 DEF NextPart
<1>3. part \in AllParts
  BY <1>1, Values DEF AllParts
<1>4. new \in Attempts
  BY <1>1, <1>3 DEF Attempts
<1>5. run'[r] = new
  BY <1>1, <1>2
<1>6. /\ new.part = part /\ new.at = at /\ new.step = run[r].step /\ new.copy = run[r].copy
      /\ new.batch = run[r].batch /\ new.try = run[r].try
  BY <1>1 DEF Attempts
<1> QED
  BY <1>1, <1>2, <1>4, <1>5, <1>6

LEMMA RepeatType ==
  ASSUME TypeOK, NEW r \in Runs, run[r].step \in {"expand", "extract"}, Repeat(r)
  PROVE  /\ run' \in [Runs -> Attempts]
         /\ run' = [run EXCEPT ![r] = run'[r]]
         /\ run'[r].at = "idle" /\ run'[r].step \in {run[r].step, "fail"} /\ run'[r].part = 1
<1> DEFINE new == IF run[r].try < MaxTries
                  THEN [NoRun EXCEPT !.step = run[r].step, !.try = run[r].try + 1]
                  ELSE [NoRun EXCEPT !.step = "fail"]
<1>1. run \in [Runs -> Attempts] /\ run[r].try \in 1..MaxTries
  BY DEF TypeOK, Attempts
<1>2. run' = [run EXCEPT ![r] = new]
  BY <1>1 DEF Repeat
<1>3. run[r].try < MaxTries => run[r].try + 1 \in 1..MaxTries
  BY <1>1, Values
<1>4. new \in Attempts /\ new.at = "idle" /\ new.step \in {run[r].step, "fail"} /\ new.part = 1
  BY <1>1, <1>3, Values DEF Attempts, NoRun
<1> QED
  BY <1>1, <1>2, <1>4

LEMMA TornType ==
  ASSUME TypeOK, NEW r \in Runs, TornAt(r)
  PROVE  /\ torn' \in [claims : Nat, charges : Nat]
         /\ torn'.claims = torn.claims + (IF run[r].at \in Unpaid THEN 1 ELSE 0)
         /\ torn'.charges = torn.charges + (IF run[r].at = "stamp" THEN 1 ELSE 0)
BY DEF TornAt, TypeOK, Unpaid

-----------------------------------------------------------------------------
(* Steps of a run. *)

RunStep(r) == Expand(r) \/ Extract(r) \/ CallThrows(r) \/ WorkerDies(r) \/ Redeliver(r)

\* An attempt is over with its work undone: its call threw, its worker is lost, or
\* another worker begins it again.
AttemptEnds(r) ==
  /\ run' \in [Runs -> Attempts]
  /\ run' = [run EXCEPT ![r] = run'[r]]
  /\ run'[r].at \in {"idle", "lost"}
  /\ run'[r].step \in {run[r].step, "fail"}
  /\ run'[r].at = "lost" => run'[r].step \in {"expand", "extract"}
  /\ run'[r].at = "idle" => run'[r].part = 1
  /\ TornAt(r)
  /\ UNCHANGED <<row, child, uploads, charges, cancelled, outside>>
  /\ faults' \in 0..MaxFaults

\* A record of torn charges to which nothing is added.
LEMMA TornSame ==
  ASSUME TypeOK, NEW r \in Runs, run[r].at \notin Unpaid \cup {"stamp"}, UNCHANGED torn
  PROVE  TornAt(r)
BY DEF TypeOK, TornAt, Unpaid

LEMMA StepOfAttempt ==
  ASSUME TypeOK, Fits, NEW r \in Runs, Busy(r)
  PROVE  /\ run[r].at \in InExpand \cup InExtract
         /\ run[r].step \in {"expand", "extract"}
<1>1. run[r].at \in InExpand \cup InExtract
  BY DEF TypeOK, Attempts, Busy, InExpand, InExtract, AtBatch, AtPart
<1> QED
  BY <1>1 DEF Fits

\* Each way an attempt can end with its work undone.
LEMMA ThrownEnds ==
  ASSUME TypeOK, Fits, NEW r \in Runs, Busy(r), Thrown(r),
         UNCHANGED <<row, child, uploads, charges, cancelled, outside>>, faults' \in 0..MaxFaults
  PROVE  AttemptEnds(r)
<1>1. run[r].step \in {"expand", "extract"}
  BY StepOfAttempt
<1>2. Repeat(r) /\ TornAt(r)
  BY DEF Thrown
<1> QED
  BY <1>1, <1>2, RepeatType DEF AttemptEnds

LEMMA CallThrowsEnds ==
  ASSUME TypeOK, Fits, NEW r \in Runs, CallThrows(r)
  PROVE  AttemptEnds(r) /\ Alive(r)
<1>1. faults' \in 0..MaxFaults
  BY BoundsAssumption DEF CallThrows, TypeOK
<1> QED
  BY <1>1, ThrownEnds DEF CallThrows, Alive

LEMMA WorkerDiesEnds ==
  ASSUME TypeOK, Fits, NEW r \in Runs, WorkerDies(r)
  PROVE  AttemptEnds(r) /\ Alive(r)
<1>1. faults' \in 0..MaxFaults
  BY BoundsAssumption DEF WorkerDies, TypeOK
<1>2. Busy(r) /\ Goto(r, "lost") /\ TornAt(r)
  BY DEF WorkerDies
<1>3. run[r].step \in {"expand", "extract"} /\ run[r] \in Attempts
  BY <1>2, StepOfAttempt, Named
<1>4. "lost" \in InExpand \cup InExtract \cup {"lost"}
  OBVIOUS
<1>5. /\ run' \in [Runs -> Attempts] /\ run' = [run EXCEPT ![r] = run'[r]]
      /\ run'[r] = [run[r] EXCEPT !.at = "lost"]
  BY <1>2, <1>4, GotoType
<1>6. run'[r].at = "lost" /\ run'[r].step = run[r].step
  BY <1>3, <1>5 DEF Attempts
<1>7. UNCHANGED <<row, child, uploads, charges, cancelled, outside>>
  BY DEF WorkerDies
<1> QED
  BY <1>1, <1>2, <1>3, <1>5, <1>6, <1>7 DEF AttemptEnds, Alive

LEMMA RedeliverEnds ==
  ASSUME TypeOK, Fits, NEW r \in Runs, Redeliver(r)
  PROVE  AttemptEnds(r) /\ Alive(r)
<1>1. run[r].at = "lost" /\ r \notin cancelled /\ Repeat(r)
  BY DEF Redeliver
<1>2. run[r].step \in {"expand", "extract"}
  BY <1>1 DEF Fits
<1>3. TornAt(r) /\ faults' \in 0..MaxFaults
  BY <1>1, TornSame DEF Redeliver, Unpaid, TypeOK
<1>4. UNCHANGED <<row, child, uploads, charges, cancelled, outside>>
  BY DEF Redeliver
<1> QED
  BY <1>1, <1>2, <1>3, <1>4, RepeatType DEF AttemptEnds, Alive

\* The calls whose row another attempt has taken away throw.
LEMMA Refusals ==
  ASSUME TypeOK, Fits, NEW r \in Runs,
         \/ RemoveHalf(r) /\ child[run[r].part].by # run[r].seen.by
         \/ RefusePart(r) /\ child[run[r].part] # NoChild
         \/ ClaimPart(r) /\ child[run[r].part] # NoChild
         \/ RecordPart(r) /\ child[run[r].part].by # Me(r)
  PROVE  AttemptEnds(r)
<1>1. faults \in 0..MaxFaults
  BY DEF TypeOK
<1>2. /\ Busy(r) /\ Thrown(r) /\ faults' = faults
      /\ UNCHANGED <<row, child, uploads, charges, cancelled, outside>>
  BY DEF RemoveHalf, RefusePart, ClaimPart, RecordPart, Busy
<1> QED
  BY <1>1, <1>2, ThrownEnds

-----------------------------------------------------------------------------
(* Every step has its effect on the runs.  *)

LEMMA EndsType ==
  ASSUME TypeOK, NEW r \in Runs, AttemptEnds(r)
  PROVE  TypeOK'
<1>1. torn' \in [claims : Nat, charges : Nat]
  BY TornType DEF AttemptEnds
<1> QED
  BY <1>1 DEF AttemptEnds, TypeOK, outside

LEMMA RowType ==
  ASSUME TypeOK, NEW r \in Runs, NEW state \in {"half", "refused"}
  PROVE  /\ Row(r, state) \in Children
         /\ Row(r, state).state = state /\ Row(r, state).by = Me(r)
         /\ Row(r, state).batch = run[r].batch
BY Named DEF Row, Children, Attempts

LEMMA ExpandType ==
  ASSUME TypeOK, Fits, NEW r \in Runs, Expand(r)
  PROVE  TypeOK'
<1> USE DEF TypeOK, outside
<1>0. /\ run[r] \in Attempts /\ run[r].part \in AllParts /\ run[r].copy \in Metadata
      /\ run[r].batch \in Tries /\ child[run[r].part] \in Children
  BY Named DEF Attempts
<1>1. CASE ReadMessage(r)
  <2>1. CASE row.meta.marked
    BY <1>1, <2>1, EnterType DEF ReadMessage
  <2>2. CASE ~row.meta.marked
    <3> DEFINE new == [run[r] EXCEPT !.copy = row.meta, !.batch = row.batch,
                                     !.at = IF row.batch = NoAttempt THEN "batch" ELSE "find"]
    <3>1. run' = [run EXCEPT ![r] = new]
      BY <1>1, <2>2 DEF ReadMessage
    <3>2. row.meta \in Metadata /\ row.batch \in Tries
      OBVIOUS
    <3>3. new \in Attempts
      BY <1>0, <3>2 DEF Attempts
    <3> QED
      BY <1>1, <3>1, <3>3 DEF ReadMessage
  <2> QED
    BY <2>1, <2>2
<1>2. CASE CreateBatch(r)
  <2> DEFINE new == [run[r] EXCEPT !.at = "join", !.batch = Me(r)]
  <2>1. run' = [run EXCEPT ![r] = new]
    BY <1>2 DEF CreateBatch
  <2>2. new \in Attempts
    BY <1>0, Named DEF Attempts
  <2> QED
    BY <1>2, <2>1, <2>2 DEF CreateBatch
<1>3. CASE JoinBatch(r)
  <2>1. run' \in [Runs -> Attempts]
    BY <1>3, GotoType DEF JoinBatch, InExpand, AtPart
  <2> QED
    BY <1>0, <1>3, <2>1 DEF JoinBatch
<1>4. CASE FindChild(r)
  <2>1. CASE IsDone(child[run[r].part])
    BY <1>4, <2>1, NextPartType DEF FindChild
  <2>2. CASE ~IsDone(child[run[r].part])
    <3> DEFINE c   == child[run[r].part]
               new == [run[r] EXCEPT !.seen = c, !.at = IF c.state = "none" THEN "check" ELSE "remove"]
    <3>1. run' = [run EXCEPT ![r] = new]
      BY <1>4, <2>2 DEF FindChild
    <3>2. new \in Attempts
      BY <1>0 DEF Attempts
    <3> QED
      BY <1>4, <3>1, <3>2 DEF FindChild
  <2> QED
    BY <2>1, <2>2
<1>5. CASE RemoveHalf(r)
  <2>1. CASE child[run[r].part].by = run[r].seen.by
    <3> DEFINE new == [run[r] EXCEPT !.at = "check", !.seen = NoChild]
    <3>1. /\ run' = [run EXCEPT ![r] = new]
          /\ child' = [child EXCEPT ![run[r].part] = NoChild] /\ UNCHANGED torn
      BY <1>5, <2>1 DEF RemoveHalf
    <3>2. new \in Attempts
      BY <1>0, Values DEF Attempts
    <3>3. child' \in [AllParts -> Children]
      BY <3>1, Values
    <3> QED
      BY <1>5, <3>1, <3>2, <3>3 DEF RemoveHalf
  <2> QED
    BY <1>5, <2>1, Refusals, EndsType
<1>6. CASE CheckPart(r)
  <2>1. run' \in [Runs -> Attempts]
    BY <1>6, GotoType DEF CheckPart, InExpand, AtPart
  <2> QED
    BY <1>6, <2>1 DEF CheckPart
<1>7. CASE RefusePart(r)
  <2>1. CASE child[run[r].part] = NoChild
    <3>1. child' \in [AllParts -> Children]
      BY <1>0, <1>7, <2>1, RowType DEF RefusePart
    <3>2. run' \in [Runs -> Attempts]
      BY <1>7, <2>1, NextPartType DEF RefusePart
    <3> QED
      BY <1>7, <2>1, <3>1, <3>2 DEF RefusePart
  <2> QED
    BY <1>7, <2>1, Refusals, EndsType
<1>8. CASE ClaimPart(r)
  <2>1. CASE child[run[r].part] = NoChild
    <3>1. child' \in [AllParts -> Children]
      BY <1>0, <1>8, <2>1, RowType DEF ClaimPart
    <3>2. run' \in [Runs -> Attempts]
      BY <1>8, <2>1, GotoType DEF ClaimPart, InExpand, AtPart
    <3>3. uploads' = [uploads EXCEPT !.message = @ + 1] /\ UNCHANGED torn
      BY <1>8, <2>1 DEF ClaimPart
    <3> QED
      BY <1>8, <3>1, <3>2, <3>3 DEF ClaimPart
  <2> QED
    BY <1>8, <2>1, Refusals, EndsType
<1>9. CASE SealPart(r)
  <2>1. run' \in [Runs -> Attempts]
    BY <1>9, GotoType DEF SealPart, InExpand, AtPart
  <2> QED
    BY <1>9, <2>1 DEF SealPart
<1>10. CASE RecordPart(r)
  <2>1. CASE child[run[r].part].by = Me(r)
    <3>1. child' = [child EXCEPT ![run[r].part] = [child[run[r].part] EXCEPT !.state = "sealed"]]
      BY <1>10, <2>1 DEF RecordPart
    <3>2. [child[run[r].part] EXCEPT !.state = "sealed"] \in Children
      BY <1>0 DEF Children
    <3>3. child' \in [AllParts -> Children]
      BY <3>1, <3>2
    <3>4. run' \in [Runs -> Attempts] /\ UNCHANGED torn
      BY <1>10, <2>1, NextPartType DEF RecordPart
    <3> QED
      BY <1>10, <3>3, <3>4 DEF RecordPart
  <2> QED
    BY <1>10, <2>1, Refusals, EndsType
<1>11. CASE MarkExpanded(r)
  <2>1. run' \in [Runs -> Attempts]
    BY <1>11, EnterType DEF MarkExpanded
  <2>2. [run[r].copy EXCEPT !.marked = TRUE] \in Metadata
    BY <1>0 DEF Metadata
  <2> QED
    BY <1>11, <2>1, <2>2 DEF MarkExpanded
<1> QED
  BY <1>1, <1>2, <1>3, <1>4, <1>5, <1>6, <1>7, <1>8, <1>9, <1>10, <1>11 DEF Expand

LEMMA ExtractType ==
  ASSUME TypeOK, Fits, NEW r \in Runs, Extract(r)
  PROVE  TypeOK'
<1> USE DEF TypeOK, outside
<1>0. run[r] \in Attempts /\ run[r].copy \in Metadata
  BY Named DEF Attempts
<1>1. CASE ReadForCharge(r)
  <2>1. CASE row.meta.charged
    BY <1>1, <2>1, EnterType DEF ReadForCharge
  <2>2. CASE ~row.meta.charged
    <3> DEFINE new == [run[r] EXCEPT !.copy = row.meta, !.at = "charge"]
    <3>1. run' = [run EXCEPT ![r] = new]
      BY <1>1, <2>2 DEF ReadForCharge
    <3>2. new \in Attempts
      BY <1>0 DEF Attempts
    <3> QED
      BY <1>1, <3>1, <3>2 DEF ReadForCharge
  <2> QED
    BY <2>1, <2>2
<1>2. CASE ChargeMessage(r)
  <2>1. run' \in [Runs -> Attempts]
    BY <1>2, GotoType DEF ChargeMessage, InExtract
  <2> QED
    BY <1>2, <2>1 DEF ChargeMessage
<1>3. CASE StampCharge(r)
  <2>1. run' \in [Runs -> Attempts]
    BY <1>3, GotoType DEF StampCharge, InExtract
  <2>2. Stamp(run[r].copy) \in Metadata
    BY <1>0 DEF Metadata, Stamp
  <2> QED
    BY <1>3, <2>1, <2>2 DEF StampCharge
<1>4. CASE EndExtract(r)
  <2>1. run' \in [Runs -> Attempts]
    BY <1>4, EnterType DEF EndExtract
  <2> QED
    BY <1>4, <2>1 DEF EndExtract
<1>5. CASE EndRun(r)
  <2>1. run' \in [Runs -> Attempts]
    <3>1. [NoRun EXCEPT !.step = "over"] \in Attempts
      BY Values DEF Attempts
    <3> QED
      BY <1>5, <3>1 DEF EndRun, Enter
  <2>2. run[r].step \in {"finish", "fail", "quota"}
    BY <1>5 DEF EndRun, MayBegin
  <2> QED
    BY <1>5, <2>1, <2>2 DEF EndRun, Outcome
<1> QED
  BY <1>1, <1>2, <1>3, <1>4, <1>5 DEF Extract

-----------------------------------------------------------------------------
(* The kinds of steps a run takes.                                          *)

Removes(r) == RemoveHalf(r) /\ child[run[r].part].by = run[r].seen.by
Refuses(r) == RefusePart(r) /\ child[run[r].part] = NoChild
Claims(r)  == ClaimPart(r) /\ child[run[r].part] = NoChild
Records(r) == RecordPart(r) /\ child[run[r].part].by = Me(r)

\* A step that leaves the children's rows alone.
Plain(r) ==
  \/ ReadMessage(r) \/ CreateBatch(r) \/ JoinBatch(r) \/ FindChild(r)
  \/ CheckPart(r) \/ SealPart(r) \/ MarkExpanded(r)
  \/ Extract(r) \/ AttemptEnds(r)

LEMMA Kinds ==
  ASSUME TypeOK, Fits, NEW r \in Runs, RunStep(r)
  PROVE  Plain(r) \/ Removes(r) \/ Refuses(r) \/ Claims(r) \/ Records(r)
<1>1. CASE Expand(r)
  BY <1>1, Refusals DEF Expand, Plain, Removes, Refuses, Claims, Records
<1>2. CASE Extract(r) \/ CallThrows(r) \/ WorkerDies(r) \/ Redeliver(r)
  BY <1>2, CallThrowsEnds, WorkerDiesEnds, RedeliverEnds DEF Plain
<1> QED
  BY <1>1, <1>2 DEF RunStep

LEMMA RunStepType ==
  ASSUME TypeOK, Fits, NEW r \in Runs, RunStep(r)
  PROVE  TypeOK'
BY ExpandType, ExtractType, EndsType, CallThrowsEnds, WorkerDiesEnds, RedeliverEnds DEF RunStep

\* A step is a live run's, and touches no other run nor anything outside.
LEMMA RunFrame ==
  ASSUME TypeOK, Fits, NEW r \in Runs, RunStep(r)
  PROVE  /\ Alive(r)
         /\ \A s \in Runs \ {r} : run'[s] = run[s]
         /\ cancelled' = cancelled /\ sweep' = sweep /\ upload' = upload /\ overlap' = overlap
         /\ row'.run = row.run
         /\ row'.status = row.status \/ (run'[r].at = "idle" /\ run'[r].step = "over")
<1>0. row \in [status : {"working", "failed", "ready"}, run : 0..MaxRuns,
               error : {"none", "fail", "quota", "worker-lost"}, batch : Tries, meta : Metadata]
      /\ run \in [Runs -> Attempts]
  BY DEF TypeOK
<1>1. CASE AttemptEnds(r)
  <2>1. Alive(r)
    <3>1. CASE Expand(r)
      BY <3>1 DEF Expand, ReadMessage, CreateBatch, JoinBatch, FindChild, RemoveHalf, CheckPart,
           RefusePart, ClaimPart, SealPart, RecordPart, MarkExpanded, MayBegin, Alive, Busy
    <3>2. CASE Extract(r)
      BY <3>2 DEF Extract, ReadForCharge, ChargeMessage, StampCharge, EndExtract, EndRun,
           MayBegin, Alive, Busy
    <3> QED
      BY <3>1, <3>2, CallThrowsEnds, WorkerDiesEnds, RedeliverEnds DEF RunStep
  <2> QED
    BY <1>0, <1>1, <2>1 DEF AttemptEnds, outside
<1>2. CASE Expand(r) /\ ~AttemptEnds(r)
  <2>1. Alive(r)
    BY <1>2 DEF Expand, ReadMessage, CreateBatch, JoinBatch, FindChild, RemoveHalf, CheckPart,
         RefusePart, ClaimPart, SealPart, RecordPart, MarkExpanded, MayBegin, Alive, Busy
  <2>2. UNCHANGED <<cancelled, outside>>
    BY <1>2 DEF Expand, ReadMessage, CreateBatch, JoinBatch, FindChild, RemoveHalf, CheckPart,
         RefusePart, ClaimPart, SealPart, RecordPart, MarkExpanded
  <2>3. row'.run = row.run /\ row'.status = row.status
    BY <1>0, <1>2 DEF Expand, ReadMessage, CreateBatch, JoinBatch, FindChild, RemoveHalf, CheckPart,
         RefusePart, ClaimPart, SealPart, RecordPart, MarkExpanded
  <2>4. \A s \in Runs \ {r} : run'[s] = run[s]
    BY <1>0, <1>2, Refusals DEF Expand, ReadMessage, CreateBatch, JoinBatch, FindChild, RemoveHalf,
         CheckPart, RefusePart, ClaimPart, SealPart, RecordPart, MarkExpanded, Goto, Enter, NextPart
  <2> QED
    BY <2>1, <2>2, <2>3, <2>4 DEF outside
<1>3. CASE Extract(r)
  <2>1. Alive(r)
    BY <1>3 DEF Extract, ReadForCharge, ChargeMessage, StampCharge, EndExtract, EndRun,
         MayBegin, Alive, Busy
  <2>2. UNCHANGED <<cancelled, outside>>
    BY <1>3 DEF Extract, ReadForCharge, ChargeMessage, StampCharge, EndExtract, EndRun
  <2>3. \A s \in Runs \ {r} : run'[s] = run[s]
    BY <1>0, <1>3 DEF Extract, ReadForCharge, ChargeMessage, StampCharge, EndExtract, EndRun,
         Goto, Enter
  <2>4. row'.run = row.run
    BY <1>0, <1>3 DEF Extract, ReadForCharge, ChargeMessage, StampCharge, EndExtract, EndRun
  <2>5. CASE EndRun(r)
    BY <1>0, <2>1, <2>2, <2>3, <2>4, <2>5, Values DEF EndRun, Enter, outside, NoRun
  <2>6. CASE ~EndRun(r)
    <3>1. row'.status = row.status
      BY <1>0, <1>3, <2>6 DEF Extract, ReadForCharge, ChargeMessage, StampCharge, EndExtract
    <3> QED
      BY <2>1, <2>2, <2>3, <2>4, <3>1 DEF outside
  <2> QED
    BY <2>5, <2>6
<1> QED
  BY <1>1, <1>2, <1>3, CallThrowsEnds, WorkerDiesEnds, RedeliverEnds DEF RunStep

-----------------------------------------------------------------------------
(* Counting.                                                                *)

LEMMA Counts ==
  /\ \A S : Cardinality(Holding(S)) \in Nat
  /\ \A S : Cardinality(At(S)) \in Nat
  /\ IsFiniteSet(Uploaders) /\ Cardinality(Uploaders) \in Nat
  /\ IsFiniteSet(Pending) /\ Cardinality(Pending) \in Nat
  /\ Cardinality(Pending) <= Cardinality(Uploaders)
<1>1. IsFiniteSet(AllParts) /\ IsFiniteSet(Runs)
  BY Values, FS_Interval DEF AllParts, Runs
<1>2. \A S : Holding(S) \in SUBSET AllParts /\ At(S) \in SUBSET Runs
  BY DEF Holding, At
<1>3. \A S : IsFiniteSet(Holding(S)) /\ IsFiniteSet(At(S))
  BY <1>1, <1>2, FS_Subset
<1>4. IsFiniteSet(Uploaders) /\ Pending \in SUBSET Uploaders
  BY BoundsAssumption DEF Pending
<1>5. IsFiniteSet(Pending) /\ Cardinality(Pending) <= Cardinality(Uploaders)
  BY <1>4, FS_Subset
<1> QED
  BY <1>3, <1>4, <1>5, FS_CardinalityType

\* One child's row changes.
LEMMA Recount ==
  ASSUME TypeOK, NEW S, NEW p \in AllParts, NEW c, child' = [child EXCEPT ![p] = c]
  PROVE  Cardinality(Holding(S))' = Cardinality(Holding(S))
           + (IF c.state \in S THEN 1 ELSE 0) - (IF child[p].state \in S THEN 1 ELSE 0)
<1>1. IsFiniteSet(AllParts)
  BY Values, FS_Interval DEF AllParts
<1>2. IsFiniteSet(Holding(S))
  BY <1>1, FS_Subset DEF Holding
<1>3. Cardinality(Holding(S)) \in Nat
  BY Counts
<1>4. p \in Holding(S) <=> child[p].state \in S
  BY DEF Holding
<1>5. child'[p] = c /\ \A q \in AllParts \ {p} : child'[q] = child[q]
  BY DEF TypeOK
<1>6. CASE c.state \in S
  <2>1. Holding(S)' = Holding(S) \cup {p}
    BY <1>5, <1>6 DEF Holding
  <2>2. Cardinality(Holding(S) \cup {p}) =
          IF p \in Holding(S) THEN Cardinality(Holding(S)) ELSE Cardinality(Holding(S)) + 1
    BY <1>2, FS_AddElement
  <2>3. Cardinality(Holding(S))' = Cardinality(Holding(S) \cup {p})
    BY <2>1
  <2> QED
    BY <1>3, <1>4, <1>6, <2>2, <2>3
<1>7. CASE c.state \notin S
  <2>1. Holding(S)' = Holding(S) \ {p}
    BY <1>5, <1>7 DEF Holding
  <2>2. Cardinality(Holding(S) \ {p}) =
          IF p \in Holding(S) THEN Cardinality(Holding(S)) - 1 ELSE Cardinality(Holding(S))
    BY <1>2, FS_RemoveElement
  <2>3. Cardinality(Holding(S))' = Cardinality(Holding(S) \ {p})
    BY <2>1
  <2> QED
    BY <1>3, <1>4, <1>7, <2>2, <2>3
<1> QED
  BY <1>6, <1>7

LEMMA CountOne ==
  ASSUME NEW T, NEW x, T \subseteq {x}
  PROVE  Cardinality(T) = IF x \in T THEN 1 ELSE 0
<1>1. CASE x \in T
  <2>1. T = {x}
    BY <1>1
  <2> QED
    BY <1>1, <2>1, FS_Singleton
<1>2. CASE x \notin T
  <2>1. T = {}
    BY <1>2
  <2> QED
    BY <1>2, <2>1, FS_EmptySet
<1> QED
  BY <1>1, <1>2

\* A run that is alive is alone, and stays so: what it counts for.
LEMMA CountMine ==
  ASSUME TypeOK, Fits, Alone, NEW r \in Runs, RunStep(r), NEW S, S \cap {"idle", "lost"} = {}
  PROVE  /\ Cardinality(At(S)) = IF run[r].at \in S THEN 1 ELSE 0
         /\ Cardinality(At(S))' = IF run'[r].at \in S THEN 1 ELSE 0
<1>1. Alive(r) /\ \A s \in Runs \ {r} : run'[s] = run[s]
  BY RunFrame
<1>2. \A s \in Runs \ {r} : ~Busy(s)
  BY <1>1 DEF Alone, Alive
<1>3. \A s \in Runs \ {r} : run[s].at \notin S
  BY <1>2 DEF Busy
<1>4. \A s \in Runs \ {r} : run'[s].at \notin S
  BY <1>1, <1>3
<1>5. At(S) \subseteq {r} /\ At(S)' \subseteq {r}
  BY <1>3, <1>4 DEF At
<1>6. (r \in At(S) <=> run[r].at \in S) /\ (r \in At(S)' <=> run'[r].at \in S)
  BY DEF At
<1>7. Cardinality(At(S)) = IF r \in At(S) THEN 1 ELSE 0
  BY <1>5, CountOne
<1>8. Cardinality(At(S)') = IF r \in At(S)' THEN 1 ELSE 0
  BY <1>5, CountOne
<1> QED
  BY <1>6, <1>7, <1>8

-----------------------------------------------------------------------------
(* What holds whoever is at work.                                           *)

\* The call and the step after each kind of step.
LEMMA Places ==
  ASSUME TypeOK, Fits, NEW r \in Runs, RunStep(r)
  PROVE  \/ run'[r].at = "idle"
         \/ run'[r].at = "lost" /\ run'[r].step \in {"expand", "extract"}
         \/ run'[r].at \in InExpand /\ run'[r].step = "expand" /\ run'[r].try = run[r].try
         \/ run'[r].at \in InExtract /\ run'[r].step = "extract"
<1> USE DEF InExpand, InExtract, AtBatch, AtPart
<1>0. /\ run \in [Runs -> Attempts] /\ run[r] \in Attempts
      /\ run[r].at \in InExpand => run[r].step = "expand"
      /\ run[r].at \in InExtract => run[r].step = "extract"
  BY DEF TypeOK, Fits
<1>1. CASE AttemptEnds(r)
  BY <1>1 DEF AttemptEnds
<1>2. CASE ReadMessage(r) \/ MarkExpanded(r)
  <2>1. CASE \E step \in {"expand", "extract", "finish", "fail", "quota", "over"} : Enter(r, step)
    BY <2>1, EnterType
  <2>2. CASE ReadMessage(r) /\ ~row.meta.marked
    BY <1>0, <2>2 DEF ReadMessage, MayBegin, Attempts
  <2> QED
    BY <1>2, <2>1, <2>2 DEF ReadMessage, MarkExpanded
<1>3. CASE CreateBatch(r) \/ JoinBatch(r) \/ FindChild(r) \/ CheckPart(r) \/ SealPart(r)
  <2>1. CASE NextPart(r)
    BY <1>0, <1>3, <2>1, NextPartType DEF CreateBatch, JoinBatch, FindChild, CheckPart, SealPart
  <2>2. CASE ~NextPart(r)
    BY <1>0, <1>3, <2>2 DEF CreateBatch, JoinBatch, FindChild, CheckPart, SealPart, Goto, Attempts
  <2> QED
    BY <2>1, <2>2
<1>4. CASE Removes(r) \/ Claims(r)
  BY <1>0, <1>4 DEF Removes, RemoveHalf, Claims, ClaimPart, Goto, Attempts
<1>5. CASE Refuses(r) \/ Records(r)
  BY <1>0, <1>5, NextPartType DEF Refuses, RefusePart, Records, RecordPart
<1>6. CASE Extract(r)
  <2>1. CASE ReadForCharge(r) /\ ~row.meta.charged
    BY <1>0, <2>1 DEF ReadForCharge, MayBegin, Attempts
  <2>2. CASE ChargeMessage(r) \/ StampCharge(r)
    BY <1>0, <2>2 DEF ChargeMessage, StampCharge, Goto, Attempts
  <2>3. CASE \E step \in {"expand", "extract", "finish", "fail", "quota", "over"} : Enter(r, step)
    BY <2>3, EnterType
  <2> QED
    BY <1>6, <2>1, <2>2, <2>3 DEF Extract, ReadForCharge, EndExtract, EndRun
<1> QED
  BY <1>1, <1>2, <1>3, <1>4, <1>5, <1>6, Kinds DEF Plain

\* Every step leaves the run at a call of the step it is at.
LEMMA FitsRun ==
  ASSUME TypeOK, Fits, NEW r \in Runs, RunStep(r)
  PROVE  Fits'
<1>1. \A s \in Runs \ {r} : run'[s] = run[s]
  BY RunFrame
<1>2. /\ run'[r].at \in InExpand => run'[r].step = "expand"
      /\ run'[r].at \in InExtract => run'[r].step = "extract"
      /\ run'[r].at = "lost" => run'[r].step \in {"expand", "extract"}
  BY Places DEF InExpand, InExtract, AtBatch, AtPart
<1> QED
  BY <1>1, <1>2 DEF Fits

\* What is recorded is the attempt's own row, and it had no bytes yet.
LEMMA RecordsWrites ==
  ASSUME TypeOK, OwnIsHalf, NEW r \in Runs, Records(r)
  PROVE  LET p == run[r].part IN
         /\ child[p].state = "half" /\ child[p].by = Me(r) /\ uploads' = uploads
         /\ child' = [child EXCEPT ![p] = [child[p] EXCEPT !.state = "sealed"]]
<1>1. run[r].at = "record" /\ child[run[r].part].by = Me(r)
  BY DEF Records, RecordPart
<1>2. child[run[r].part].state = "half"
  BY <1>1 DEF OwnIsHalf, Unpaid
<1>3. child' = [child EXCEPT ![run[r].part] = [child[run[r].part] EXCEPT !.state = "sealed"]]
  BY Named DEF Records, RecordPart, TypeOK
<1> QED
  BY <1>1, <1>2, <1>3 DEF Records, RecordPart

\* The rows of the children, after each kind of step.
LEMMA ChildWrites ==
  ASSUME TypeOK, Fits, OwnIsHalf, NEW r \in Runs, RunStep(r)
  PROVE  LET p == run[r].part IN
         \/ Plain(r) /\ child' = child /\ uploads' = uploads
         \/ Removes(r) /\ child' = [child EXCEPT ![p] = NoChild] /\ uploads' = uploads
         \/ Refuses(r) /\ child' = [child EXCEPT ![p] = Row(r, "refused")] /\ uploads' = uploads
         \/ Claims(r) /\ child' = [child EXCEPT ![p] = Row(r, "half")]
              /\ uploads'.message = uploads.message + 1 /\ uploads'.others = uploads.others
         \/ /\ Records(r) /\ child[p].state = "half" /\ child[p].by = Me(r) /\ uploads' = uploads
            /\ child' = [child EXCEPT ![p] = [child[p] EXCEPT !.state = "sealed"]]
<1>1. CASE Plain(r)
  <2>1. child' = child /\ uploads' = uploads
    BY <1>1 DEF Plain, ReadMessage, CreateBatch, JoinBatch, FindChild, CheckPart, SealPart, MarkExpanded,
         Extract, ReadForCharge, ChargeMessage, StampCharge, EndExtract, EndRun, AttemptEnds
  <2> QED
    BY <1>1, <2>1
<1>2. CASE Removes(r)
  BY <1>2 DEF Removes, RemoveHalf
<1>3. CASE Refuses(r)
  BY <1>3 DEF Refuses, RefusePart
<1>4. CASE Claims(r)
  BY <1>4 DEF Claims, ClaimPart, TypeOK
<1>5. CASE Records(r)
  BY <1>5, RecordsWrites
<1> QED
  BY <1>1, <1>2, <1>3, <1>4, <1>5, Kinds

\* No attempt finds bytes under its own name before it has recorded them.
LEMMA OwnIsHalfRun ==
  ASSUME TypeOK, Fits, OwnIsHalf, NEW r \in Runs, RunStep(r)
  PROVE  OwnIsHalf'
<1>0. /\ child \in [AllParts -> Children] /\ run[r].part \in AllParts /\ run[r] \in Attempts
      /\ \A s \in Runs : run[s].part \in AllParts
  BY DEF TypeOK, Attempts
<1>1. \A s \in Runs \ {r} : run'[s] = run[s]
  BY RunFrame
<1>2. ASSUME NEW s \in Runs \ {r}
      PROVE  LET c == child'[run'[s].part] IN
             run'[s].at \in Unpaid /\ c.by = Me(s)' => c.state = "half"
  <2>1. run'[s] = run[s] /\ Me(s)' = Me(s) /\ Me(s) # Me(r) /\ Me(s) # NoAttempt
    BY <1>1, Named DEF Me
  <2>2. child'[run[s].part] = child[run[s].part] \/ child'[run[s].part].by \in {NoAttempt, Me(r)}
    <3>1. [child[run[r].part] EXCEPT !.state = "sealed"].by = child[run[r].part].by
      BY <1>0 DEF Children
    <3>2. NoChild.by = NoAttempt /\ Row(r, "refused").by = Me(r) /\ Row(r, "half").by = Me(r)
      BY Values, RowType
    <3> QED
      BY <1>0, <3>1, <3>2, ChildWrites
  <2> QED
    BY <2>1, <2>2 DEF OwnIsHalf
<1>3. LET c == child'[run'[r].part] IN
      run'[r].at \in Unpaid /\ c.by = Me(r)' => c.state = "half"
  <2>1. CASE Claims(r)
    <3>1. run'[r].part = run[r].part /\ child' = [child EXCEPT ![run[r].part] = Row(r, "half")]
      BY <1>0, <2>1 DEF Claims, ClaimPart, Goto, TypeOK, Attempts
    <3> QED
      BY <1>0, <3>1, RowType
  <2>2. CASE SealPart(r)
    <3>1. /\ run'[r].part = run[r].part /\ run'[r].try = run[r].try /\ child' = child
          /\ run[r].at \in Unpaid
      BY <1>0, <2>2 DEF SealPart, Goto, TypeOK, Attempts, Unpaid
    <3> QED
      BY <3>1 DEF OwnIsHalf, Me
  <2>3. CASE ~Claims(r) /\ ~SealPart(r)
    <3>1. CASE Removes(r) \/ Refuses(r) \/ Records(r)
      <4>1. run'[r].at \notin Unpaid
        BY <1>0, <3>1, NextPartType DEF Removes, RemoveHalf, Refuses, RefusePart, Records, RecordPart,
             Unpaid, TypeOK, Attempts
      <4> QED
        BY <4>1
    <3>2. CASE Plain(r)
      <4>1. CASE Extract(r)
        BY <4>1, Values DEF Extract, ReadForCharge, ChargeMessage, StampCharge, EndExtract,
             EndRun, Goto, Enter, Unpaid, TypeOK, Attempts, NoRun
      <4>2. CASE AttemptEnds(r)
        BY <4>2 DEF AttemptEnds, Unpaid
      <4>3. CASE ReadMessage(r) \/ CreateBatch(r) \/ JoinBatch(r) \/ CheckPart(r) \/ MarkExpanded(r)
        BY <4>3, Values DEF ReadMessage, CreateBatch, JoinBatch, CheckPart, MarkExpanded,
             Goto, Enter, Unpaid, TypeOK, Attempts, NoRun
      <4>4. CASE FindChild(r)
        BY <4>4, NextPartType DEF FindChild, Unpaid, TypeOK, Attempts
      <4> QED
        BY <2>3, <3>2, <4>1, <4>2, <4>3, <4>4 DEF Plain
    <3> QED
      BY <2>3, <3>1, <3>2, Kinds
  <2> QED
    BY <2>1, <2>2, <2>3
<1> QED
  BY <1>2, <1>3 DEF OwnIsHalf

\* The claim that creates a row charges it; no other step creates one.
LEMMA NoneUnpaidRun ==
  ASSUME TypeOK, Fits, OwnIsHalf, NoneUnpaid, NEW r \in Runs, RunStep(r)
  PROVE  NoneUnpaid'
<1> DEFINE p  == run[r].part
           S  == {"half", "sealed"}
<1>1. p \in AllParts /\ run[r] \in Attempts /\ child[p] \in Children /\ uploads.message \in Nat
  BY DEF TypeOK, Attempts
<1>2. Cardinality(Holding(S)) \in Nat /\ Cardinality(Holding(S)) <= uploads.message
  BY Counts DEF NoneUnpaid
<1>3. CASE child' = child /\ uploads' = uploads
  BY <1>3 DEF NoneUnpaid, Holding
<1>4. ASSUME NEW c, child' = [child EXCEPT ![p] = c], uploads' = uploads,
             c.state \in S => child[p].state \in S
      PROVE  NoneUnpaid'
  <2>1. Cardinality(Holding(S))' = Cardinality(Holding(S))
          + (IF c.state \in S THEN 1 ELSE 0) - (IF child[p].state \in S THEN 1 ELSE 0)
    BY <1>1, <1>4, Recount
  <2>2. Cardinality(Holding(S))' <= Cardinality(Holding(S))
    BY <1>2, <1>4, <2>1
  <2>3. Cardinality(Holding(S))' \in Nat \/ Cardinality(Holding(S))' \in Int
    BY <1>2, <2>1
  <2>4. uploads'.message = uploads.message
    BY <1>4
  <2>5. NoneUnpaid' <=> Cardinality(Holding(S))' <= uploads'.message
    BY DEF NoneUnpaid
  <2> QED
    BY <1>1, <1>2, <2>2, <2>3, <2>4, <2>5
<1>5. CASE Claims(r)
  <2>1. /\ child' = [child EXCEPT ![p] = Row(r, "half")]
        /\ uploads'.message = uploads.message + 1 /\ child[p] = NoChild
    BY <1>5 DEF Claims, ClaimPart, TypeOK
  <2>2. Row(r, "half").state = "half" /\ child[p].state = "none"
    BY <2>1, RowType, Values
  <2>3. Cardinality(Holding(S))' = Cardinality(Holding(S)) + 1
    <3> DEFINE c == Row(r, "half")
    <3> HIDE DEF c
    <3>1. Cardinality(Holding(S))' = Cardinality(Holding(S))
            + (IF c.state \in S THEN 1 ELSE 0) - (IF child[p].state \in S THEN 1 ELSE 0)
      BY <1>1, <2>1, Recount DEF c
    <3> QED
      BY <1>2, <2>2, <3>1 DEF c
  <2>4. NoneUnpaid' <=> Cardinality(Holding(S))' <= uploads'.message
    BY DEF NoneUnpaid
  <2> QED
    BY <1>1, <1>2, <2>1, <2>3, <2>4
<1>6. CASE Removes(r)
  <2>1. uploads' = uploads /\ child' = [child EXCEPT ![p] = NoChild] /\ NoChild.state \notin S
    BY <1>6, Values DEF Removes, RemoveHalf
  <2> QED
    BY <1>4, <2>1
<1>7. CASE Refuses(r)
  <2>1. /\ uploads' = uploads /\ child' = [child EXCEPT ![p] = Row(r, "refused")]
        /\ Row(r, "refused").state \notin S
    BY <1>7, RowType DEF Refuses, RefusePart
  <2> QED
    BY <1>4, <2>1
<1>8. CASE Records(r)
  <2>1. /\ child[p].state = "half" /\ uploads' = uploads
        /\ child' = [child EXCEPT ![p] = [child[p] EXCEPT !.state = "sealed"]]
    BY <1>8, RecordsWrites
  <2> QED
    BY <1>4, <2>1
<1> QED
  BY <1>3, <1>5, <1>6, <1>7, <1>8, ChildWrites

-----------------------------------------------------------------------------
(* What holds while one run at a time is at work.                           *)

\* From which call to which each step goes.
LEMMA Moves ==
  ASSUME TypeOK, NEW r \in Runs
  PROVE  LET new == run'[r].at IN
    /\ ReadMessage(r)   => run[r].at = "idle" /\ new \in {"idle", "batch", "find"}
    /\ CreateBatch(r)   => run[r].at = "batch" /\ new = "join"
    /\ JoinBatch(r)     => run[r].at = "join" /\ new = "find"
    /\ FindChild(r)     => run[r].at = "find" /\ new \in {"find", "mark", "check", "remove"}
    /\ Removes(r)       => run[r].at = "remove" /\ new = "check"
    /\ CheckPart(r)     => run[r].at = "check" /\ new \in {"refuse", "claim"}
    /\ Refuses(r)       => run[r].at = "refuse" /\ new \in {"find", "mark"}
    /\ Claims(r)        => run[r].at = "claim" /\ new = "seal"
    /\ SealPart(r)      => run[r].at = "seal" /\ new = "record"
    /\ Records(r)       => run[r].at = "record" /\ new \in {"find", "mark"}
    /\ MarkExpanded(r)  => run[r].at = "mark" /\ new = "idle"
    /\ ReadForCharge(r) => run[r].at = "idle" /\ new \in {"idle", "charge"}
    /\ ChargeMessage(r) => run[r].at = "charge" /\ new = "stamp"
    /\ StampCharge(r)   => run[r].at = "stamp" /\ new \in {"return", "stop"}
    /\ EndExtract(r)    => run[r].at \in {"return", "stop"} /\ new = "idle"
    /\ EndRun(r)        => run[r].at = "idle" /\ new = "idle"
    /\ AttemptEnds(r)   => new \in {"idle", "lost"}
<1>1. run \in [Runs -> Attempts] /\ run[r] \in Attempts
  BY DEF TypeOK
<1> USE <1>1 DEF Goto, Enter, MayBegin, Attempts
<1>2. ReadMessage(r) => run[r].at = "idle" /\ run'[r].at \in {"idle", "batch", "find"}
  BY Values DEF ReadMessage
<1>3. CreateBatch(r) => run[r].at = "batch" /\ run'[r].at = "join"
  BY DEF CreateBatch
<1>4. JoinBatch(r) => run[r].at = "join" /\ run'[r].at = "find"
  BY DEF JoinBatch
<1>5. FindChild(r) => run[r].at = "find" /\ run'[r].at \in {"find", "mark", "check", "remove"}
  BY NextPartType DEF FindChild
<1>6. Removes(r) => run[r].at = "remove" /\ run'[r].at = "check"
  BY DEF Removes, RemoveHalf
<1>7. CheckPart(r) => run[r].at = "check" /\ run'[r].at \in {"refuse", "claim"}
  BY DEF CheckPart
<1>8. Refuses(r) => run[r].at = "refuse" /\ run'[r].at \in {"find", "mark"}
  BY NextPartType DEF Refuses, RefusePart
<1>9. Claims(r) => run[r].at = "claim" /\ run'[r].at = "seal"
  BY DEF Claims, ClaimPart
<1>10. SealPart(r) => run[r].at = "seal" /\ run'[r].at = "record"
  BY DEF SealPart
<1>11. Records(r) => run[r].at = "record" /\ run'[r].at \in {"find", "mark"}
  BY NextPartType DEF Records, RecordPart
<1>12. MarkExpanded(r) => run[r].at = "mark" /\ run'[r].at = "idle"
  BY Values DEF MarkExpanded
<1>13. ReadForCharge(r) => run[r].at = "idle" /\ run'[r].at \in {"idle", "charge"}
  BY Values DEF ReadForCharge
<1>14. ChargeMessage(r) => run[r].at = "charge" /\ run'[r].at = "stamp"
  BY DEF ChargeMessage
<1>15. StampCharge(r) => run[r].at = "stamp" /\ run'[r].at \in {"return", "stop"}
  BY DEF StampCharge
<1>16. EndExtract(r) => run[r].at \in {"return", "stop"} /\ run'[r].at = "idle"
  BY Values DEF EndExtract
<1>17. EndRun(r) => run[r].at = "idle" /\ run'[r].at = "idle"
  BY Values DEF EndRun
<1>18. AttemptEnds(r) => run'[r].at \in {"idle", "lost"}
  BY DEF AttemptEnds
<1> QED
  BY <1>2, <1>3, <1>4, <1>5, <1>6, <1>7, <1>8, <1>9, <1>10, <1>11, <1>12, <1>13, <1>14, <1>15,
     <1>16, <1>17, <1>18

\* A step of an attempt that goes on tears nothing.
LEMMA NothingTorn ==
  ASSUME NEW r \in Runs, Plain(r) \/ Removes(r) \/ Refuses(r) \/ Claims(r) \/ Records(r), ~AttemptEnds(r)
  PROVE  torn' = torn
BY DEF Plain, Removes, Refuses, Claims, Records, ReadMessage, CreateBatch, JoinBatch, FindChild,
     RemoveHalf, CheckPart, RefusePart, ClaimPart, SealPart, RecordPart, MarkExpanded,
     Extract, ReadForCharge, ChargeMessage, StampCharge, EndExtract, EndRun

\* A run at work stays the only one.
LEMMA AloneRun ==
  ASSUME TypeOK, Fits, Alone, NEW r \in Runs, RunStep(r)
  PROVE  /\ Alone' /\ row.run = r /\ row.status = "working"
         /\ \A s \in Runs : Alive(s)' => s = r
<1>1. /\ Alive(r) /\ \A s \in Runs \ {r} : run'[s] = run[s]
      /\ cancelled' = cancelled /\ row'.run = row.run
      /\ row'.status = row.status \/ (run'[r].at = "idle" /\ run'[r].step = "over")
  BY RunFrame
<1>2. row.run = r /\ row.status = "working" /\ \A s \in Runs \ {r} : ~Alive(s)
  BY <1>1 DEF Alone
<1>3. \A s \in Runs \ {r} : ~Alive(s)'
  BY <1>1, <1>2 DEF Alive, Busy
<1>4. Alive(r)' => row'.status = "working"
  BY <1>1, <1>2 DEF Alive, Busy
<1> QED
  BY <1>1, <1>2, <1>3, <1>4 DEF Alone

\* An upload charged is a child with its bytes, a torn claim, or a claim under way.
LEMMA ClaimsPaidRun ==
  ASSUME Always, ByOneRun, NEW r \in Runs, RunStep(r)
  PROVE  ClaimsPaid'
<1> DEFINE p == run[r].part
           sealed == Cardinality(Holding({"sealed"}))
           atOld  == IF run[r].at \in Unpaid THEN 1 ELSE 0
           atNew  == IF run'[r].at \in Unpaid THEN 1 ELSE 0
<1>0. TypeOK /\ Fits /\ OwnIsHalf /\ Alone /\ ClaimsPaid /\ KnowsParts(r)
  BY RunFrame DEF Always, ByOneRun
<1>1. p \in AllParts /\ uploads.message \in Nat /\ torn.claims \in Nat /\ sealed \in Nat
  BY <1>0, Counts DEF TypeOK, Attempts
<1>2. Cardinality(At(Unpaid)) = atOld /\ Cardinality(At(Unpaid))' = atNew
  <2>1. Unpaid \cap {"idle", "lost"} = {}
    BY DEF Unpaid
  <2> QED
    BY <1>0, <2>1, CountMine
<1>3. ClaimsPaid' <=> uploads'.message = sealed' + torn'.claims + atNew
  BY <1>2 DEF ClaimsPaid
<1>4. uploads.message = sealed + torn.claims + atOld
  BY <1>0, <1>2 DEF ClaimsPaid
<1>5. CASE AttemptEnds(r)
  <2>1. atNew = 0
    BY <1>0, <1>5, Moves DEF Unpaid
  <2>2. torn'.claims = torn.claims + atOld
    BY <1>0, <1>5, TornType DEF AttemptEnds
  <2>3. sealed' = sealed /\ uploads' = uploads
    BY <1>5 DEF AttemptEnds, Holding
  <2> QED
    BY <1>1, <1>3, <1>4, <2>1, <2>2, <2>3
<1>6. CASE Plain(r) /\ ~AttemptEnds(r)
  <2>1. atNew = atOld
    BY <1>0, <1>6, Moves DEF Plain, Extract, Unpaid
  <2>2. torn' = torn
    BY <1>6, NothingTorn
  <2>3. child' = child /\ uploads' = uploads
    BY <1>6 DEF Plain, ReadMessage, CreateBatch, JoinBatch, FindChild, CheckPart, SealPart, MarkExpanded,
         Extract, ReadForCharge, ChargeMessage, StampCharge, EndExtract, EndRun
  <2>4. sealed' = sealed
    BY <2>3 DEF Holding
  <2> QED
    BY <1>3, <1>4, <2>1, <2>2, <2>3, <2>4
<1>7. CASE ~AttemptEnds(r) /\ (Removes(r) \/ Refuses(r))
  <2>1. atNew = 0 /\ atOld = 0
    BY <1>0, <1>7, Moves DEF Unpaid
  <2>2. torn' = torn
    BY <1>7, NothingTorn
  <2>3. child[p].state # "sealed"
    BY <1>0, <1>7, Moves, Values DEF KnowsParts
  <2>4. CASE Removes(r)
    <3>1. uploads' = uploads /\ child' = [child EXCEPT ![p] = NoChild] /\ NoChild.state # "sealed"
      BY <2>4, Values DEF Removes, RemoveHalf
    <3>2. sealed' = sealed + (IF NoChild.state \in {"sealed"} THEN 1 ELSE 0)
                           - (IF child[p].state \in {"sealed"} THEN 1 ELSE 0)
      BY <1>0, <1>1, <3>1, Recount
    <3> QED
      BY <1>1, <1>3, <1>4, <2>1, <2>2, <2>3, <3>1, <3>2
  <2>5. CASE Refuses(r)
    <3> DEFINE c == Row(r, "refused")
    <3>0. c.state # "sealed"
      BY <1>0, RowType
    <3> HIDE DEF c
    <3>1. uploads' = uploads /\ child' = [child EXCEPT ![p] = c]
      BY <2>5 DEF Refuses, RefusePart, c
    <3>2. sealed' = sealed + (IF c.state \in {"sealed"} THEN 1 ELSE 0)
                           - (IF child[p].state \in {"sealed"} THEN 1 ELSE 0)
      BY <1>0, <1>1, <3>1, Recount
    <3> QED
      BY <1>1, <1>3, <1>4, <2>1, <2>2, <2>3, <3>0, <3>1, <3>2
  <2> QED
    BY <1>7, <2>4, <2>5
<1>8. CASE ~AttemptEnds(r) /\ Claims(r)
  <2> DEFINE c == Row(r, "half")
  <2>0. c.state # "sealed"
    BY <1>0, RowType
  <2> HIDE DEF c
  <2>1. atNew = 1 /\ atOld = 0
    BY <1>0, <1>8, Moves DEF Unpaid
  <2>2. torn' = torn
    BY <1>8, NothingTorn
  <2>3. /\ uploads'.message = uploads.message + 1
        /\ child' = [child EXCEPT ![p] = c] /\ child[p].state # "sealed"
    BY <1>0, <1>8, Values DEF Claims, ClaimPart, TypeOK, c
  <2>4. sealed' = sealed + (IF c.state \in {"sealed"} THEN 1 ELSE 0)
                         - (IF child[p].state \in {"sealed"} THEN 1 ELSE 0)
    BY <1>0, <1>1, <2>3, Recount
  <2> QED
    BY <1>1, <1>3, <1>4, <2>0, <2>1, <2>2, <2>3, <2>4
<1>9. CASE ~AttemptEnds(r) /\ Records(r)
  <2> DEFINE c == [child[p] EXCEPT !.state = "sealed"]
  <2>0. c.state = "sealed"
    BY <1>0, <1>1 DEF TypeOK, Children
  <2> HIDE DEF c
  <2>1. atNew = 0 /\ atOld = 1
    BY <1>0, <1>9, Moves DEF Unpaid
  <2>2. torn' = torn
    BY <1>9, NothingTorn
  <2>3. uploads' = uploads /\ child' = [child EXCEPT ![p] = c] /\ child[p].state = "half"
    BY <1>0, <1>9, RecordsWrites DEF c
  <2>4. sealed' = sealed + (IF c.state \in {"sealed"} THEN 1 ELSE 0)
                         - (IF child[p].state \in {"sealed"} THEN 1 ELSE 0)
    BY <1>0, <1>1, <2>3, Recount
  <2> QED
    BY <1>1, <1>3, <1>4, <2>0, <2>1, <2>2, <2>3, <2>4
<1> QED
  BY <1>0, <1>5, <1>6, <1>7, <1>8, <1>9, Kinds

\* A charge is recorded, torn, or about to be recorded.
LEMMA ChargesPaidRun ==
  ASSUME Always, ByOneRun, NEW r \in Runs, RunStep(r)
  PROVE  ChargesPaid'
<1> DEFINE atOld == IF run[r].at = "stamp" THEN 1 ELSE 0
           atNew == IF run'[r].at = "stamp" THEN 1 ELSE 0
           marked == IF row.meta.charged THEN 1 ELSE 0
<1>0. TypeOK /\ Fits /\ Alone /\ ChargesPaid /\ Alive(r) /\ Knows(r)
  BY RunFrame DEF Always, ByOneRun
<1>1. /\ charges \in Nat /\ torn.charges \in Nat /\ row.meta \in Metadata /\ run[r].copy \in Metadata
      /\ row \in [status : {"working", "failed", "ready"}, run : 0..MaxRuns,
                  error : {"none", "fail", "quota", "worker-lost"}, batch : Tries, meta : Metadata]
  BY <1>0 DEF TypeOK, Attempts
<1>2. Cardinality(At({"stamp"})) = atOld /\ Cardinality(At({"stamp"}))' = atNew
  BY <1>0, CountMine
<1>3. ChargesPaid' <=> charges' = marked' + torn'.charges + atNew
  BY <1>2 DEF ChargesPaid
<1>4. charges = marked + torn.charges + atOld
  BY <1>0, <1>2 DEF ChargesPaid
<1>5. CASE AttemptEnds(r)
  <2>1. atNew = 0
    BY <1>0, <1>5, Moves
  <2>2. torn'.charges = torn.charges + atOld
    BY <1>0, <1>5, TornType DEF AttemptEnds
  <2>3. row' = row /\ charges' = charges
    BY <1>5 DEF AttemptEnds
  <2> QED
    BY <1>1, <1>3, <1>4, <2>1, <2>2, <2>3
<1>6. CASE ~AttemptEnds(r) /\ ChargeMessage(r)
  <2>1. atOld = 0 /\ atNew = 1 /\ torn' = torn
    BY <1>0, <1>6, Moves, NothingTorn DEF Plain, Extract
  <2>2. row' = row /\ charges' = charges + 1
    BY <1>6 DEF ChargeMessage
  <2> QED
    BY <1>1, <1>3, <1>4, <2>1, <2>2
<1>7. CASE ~AttemptEnds(r) /\ StampCharge(r)
  <2>1. atOld = 1 /\ atNew = 0 /\ torn' = torn
    BY <1>0, <1>7, Moves, NothingTorn DEF Plain, Extract
  <2>2. row' = [row EXCEPT !.meta = Stamp(run[r].copy)] /\ charges' = charges
    BY <1>7 DEF StampCharge
  <2>3. row'.meta.charged /\ ~row.meta.charged
    BY <1>0, <1>1, <1>7, <2>2 DEF Stamp, StampCharge, Knows, Metadata
  <2> QED
    BY <1>1, <1>3, <1>4, <2>1, <2>2, <2>3
<1>8. CASE ~AttemptEnds(r) /\ ~ChargeMessage(r) /\ ~StampCharge(r)
  <2>1. atOld = 0 /\ atNew = 0 /\ torn' = torn
    BY <1>0, <1>8, Moves, NothingTorn, Kinds DEF Plain, Extract
  <2>2. charges' = charges
    BY <1>0, <1>8, Kinds DEF Plain, Removes, Refuses, Claims, Records, ReadMessage, CreateBatch, JoinBatch,
         FindChild, RemoveHalf, CheckPart, RefusePart, ClaimPart, SealPart, RecordPart, MarkExpanded,
         Extract, ReadForCharge, EndExtract, EndRun
  <2>3. row'.meta.charged = row.meta.charged
    <3>1. CASE MarkExpanded(r)
      <4>1. run[r].copy = row.meta
        BY <1>0, <3>1 DEF MarkExpanded, Knows, InExpand
      <4> QED
        BY <1>1, <3>1, <4>1 DEF MarkExpanded, Metadata
    <3>2. CASE ~MarkExpanded(r)
      BY <1>0, <1>1, <1>8, <3>2, Kinds DEF Plain, Removes, Refuses, Claims, Records, ReadMessage, CreateBatch,
           JoinBatch, FindChild, RemoveHalf, CheckPart, RefusePart, ClaimPart, SealPart, RecordPart,
           Extract, ReadForCharge, EndExtract, EndRun
    <3> QED
      BY <3>1, <3>2
  <2> QED
    BY <1>1, <1>3, <1>4, <2>1, <2>2, <2>3
<1> QED
  BY <1>5, <1>6, <1>7, <1>8

\* Whoever passes the check finds room for one; those who have not charged yet are
\* the other uploaders and one run.
LEMMA Room ==
  ASSUME Limit \in Nat, Allows, uploads.message \in Nat, uploads.others \in Nat
  PROVE  Used \in Nat /\ Used + 1 <= Limit
BY DEF Used, Allows

\* Who passes the check has room for one; the others are the uploaders.
LEMMA CoveredRun ==
  ASSUME Always, ByOneRun, NEW r \in Runs, RunStep(r)
  PROVE  Covered'
<1> DEFINE atOld == IF run[r].at = "claim" THEN 1 ELSE 0
           atNew == IF run'[r].at = "claim" THEN 1 ELSE 0
           pending == Cardinality(Pending)
           all == Cardinality(Uploaders)
<1>0. TypeOK /\ Fits /\ Alone /\ Covered /\ OwnIsHalf
  BY DEF Always, ByOneRun
<1>1. /\ uploads.message \in Nat /\ uploads.others \in Nat /\ Limit \in Nat
      /\ pending \in Nat /\ all \in Nat /\ pending <= all
  BY <1>0, Counts, BoundsAssumption DEF TypeOK
<1>2. Cardinality(At({"claim"})) = atOld /\ Cardinality(At({"claim"}))' = atNew
  BY <1>0, CountMine
<1>3. pending' = pending
  BY <1>0, RunFrame DEF Pending
<1>4. Covered' <=> Used' + pending + atNew <= Limit + all
  BY <1>2, <1>3 DEF Covered
<1>5. Used + pending + atOld <= Limit + all
  BY <1>0, <1>2 DEF Covered
<1>6. CASE CheckPart(r) /\ ~AttemptEnds(r)
  <2>1. atOld = 0 /\ uploads' = uploads
    BY <1>0, <1>6, Moves DEF CheckPart
  <2>2. CASE Allows
    BY <1>1, <1>4, <2>1, <2>2, Room DEF Used
  <2>3. CASE ~Allows
    <3>1. atNew = 0
      BY <1>0, <1>6, <2>3 DEF CheckPart, Goto, TypeOK, Attempts
    <3> QED
      BY <1>4, <1>5, <2>1, <3>1 DEF Used
  <2> QED
    BY <2>2, <2>3
<1>7. CASE Claims(r) /\ ~AttemptEnds(r)
  <2>1. atOld = 1 /\ atNew = 0
    BY <1>0, <1>7, Moves
  <2>2. uploads'.message = uploads.message + 1 /\ uploads'.others = uploads.others
    BY <1>0, <1>7 DEF Claims, ClaimPart, TypeOK
  <2>3. Used' = Used + 1
    BY <1>1, <2>2 DEF Used
  <2> QED
    BY <1>1, <1>4, <1>5, <2>1, <2>3 DEF Used
<1>8. CASE (~CheckPart(r) /\ ~Claims(r)) \/ AttemptEnds(r)
  <2>1. atNew = 0
    BY <1>0, <1>8, Moves, Kinds DEF Plain, Extract
  <2>2. uploads' = uploads
    BY <1>0, <1>8, Kinds DEF Plain, Removes, Refuses, Records, ReadMessage, CreateBatch, JoinBatch,
         FindChild, RemoveHalf, RefusePart, SealPart, RecordPart, MarkExpanded,
         Extract, ReadForCharge, ChargeMessage, StampCharge, EndExtract, EndRun, AttemptEnds
  <2>3. Used' = Used
    BY <2>2 DEF Used
  <2> QED
    BY <1>1, <1>4, <1>5, <2>1, <2>3 DEF Used
<1> QED
  BY <1>6, <1>7, <1>8

\* What is known of an attempt that has just begun, or is over.
LEMMA Begun ==
  ASSUME NEW r \in Runs, run'[r].at \in {"idle", "lost"},
         run'[r].at = "idle" => run'[r].part = 1,
         run'[r].step \in {"extract", "finish"} => row'.meta.marked,
         run'[r].step = "finish" => row'.meta.charged
  PROVE  Knows(r)' /\ KnowsParts(r)'
BY DEF Knows, KnowsParts, InExpand, AtBatch, AtPart, Unpaid

\* An attempt that has entered a step, the marks written.
LEMMA Entered ==
  ASSUME TypeOK, NEW r \in Runs,
         NEW step \in {"expand", "extract", "finish", "fail", "quota", "over"}, Enter(r, step),
         step \in {"extract", "finish"} => row'.meta.marked,
         step = "finish" => row'.meta.charged
  PROVE  Knows(r)' /\ KnowsParts(r)'
<1>1. run'[r].at = "idle" /\ run'[r].step = step /\ run'[r].part = 1
  BY EnterType
<1> QED
  BY <1>1, Begun

\* The parts before the next one, when this one is made.
LEMMA PartMade ==
  ASSUME TypeOK, NEW r \in Runs, NextPart(r), run[r].at \in AtPart, run[r].step = "expand",
         Knows(r), KnowsParts(r), row' = row,
         NEW part \in AllParts, part = run[r].part,
         IsMade(part)', \A p \in AllParts : IsMade(p) => IsMade(p)'
  PROVE  Knows(r)' /\ KnowsParts(r)'
<1>1. part \in AllParts /\ Parts \in Nat /\ AllParts = 1..Parts
  BY Values DEF TypeOK, Attempts, AllParts
<1>2. \A p \in AllParts : p <= part => IsMade(p)'
  BY <1>1 DEF KnowsParts
<1>3. /\ run'[r].at = IF part < Parts THEN "find" ELSE "mark"
      /\ run'[r].part = IF part < Parts THEN part + 1 ELSE part
      /\ run'[r].step = "expand" /\ run'[r].copy = run[r].copy /\ run'[r].batch = run[r].batch
  BY NextPartType
<1>4. run'[r].at = "find" => \A p \in AllParts : p < run'[r].part => IsMade(p)'
  BY <1>1, <1>2, <1>3
<1>5. run'[r].at = "mark" => \A p \in AllParts : IsMade(p)'
  BY <1>1, <1>2, <1>3
<1>6. Knows(r)'
  BY <1>3 DEF Knows, InExpand, AtPart, AtBatch
<1>7. KnowsParts(r)'
  BY <1>3, <1>4, <1>5 DEF KnowsParts, AtPart, AtBatch, Unpaid
<1> QED
  BY <1>6, <1>7

\* The calls of expandContainer keep what the attempt has read true.
LEMMA KnowsExpand ==
  ASSUME Always, ByOneRun, NEW r \in Runs, Expand(r), ~AttemptEnds(r)
  PROVE  Knows(r)' /\ KnowsParts(r)'
<1> USE DEF InExpand, AtBatch, AtPart, Unpaid
<1>0. /\ TypeOK /\ Fits /\ OwnIsHalf /\ RowsFit /\ Knows(r) /\ KnowsParts(r)
  BY RunFrame DEF Always, ByOneRun, RunStep
<1>1. /\ run \in [Runs -> Attempts] /\ run[r] \in Attempts /\ child \in [AllParts -> Children]
      /\ run[r].part \in AllParts /\ run[r].copy \in Metadata /\ row.meta \in Metadata
      /\ row \in [status : {"working", "failed", "ready"}, run : 0..MaxRuns,
                  error : {"none", "fail", "quota", "worker-lost"}, batch : Tries, meta : Metadata]
  BY <1>0 DEF TypeOK, Attempts
<1>2. run[r].at \in InExpand => run[r].step = "expand"
  BY <1>0 DEF Fits
<1>3. CASE ReadMessage(r)
  <2>1. row' = row /\ child' = child /\ run[r].at = "idle" /\ run[r].step = "expand"
    BY <1>3 DEF ReadMessage, MayBegin
  <2>2. CASE row.meta.marked
    BY <1>0, <1>3, <2>1, <2>2, Entered DEF ReadMessage
  <2>3. CASE ~row.meta.marked
    <3> DEFINE at == IF row.batch = NoAttempt THEN "batch" ELSE "find"
    <3>1. run'[r] = [run[r] EXCEPT !.copy = row.meta, !.batch = row.batch, !.at = at]
      BY <1>1, <1>3, <2>3 DEF ReadMessage
    <3>2. run'[r].copy = row.meta /\ run'[r].batch = row.batch /\ run'[r].at = at
          /\ run'[r].step = "expand" /\ run'[r].part = 1
      BY <1>0, <1>1, <2>1, <3>1 DEF Attempts, KnowsParts
    <3>3. Knows(r)'
      BY <2>1, <2>3, <3>2 DEF Knows
    <3>4. \A p \in AllParts : ~(p < 1)
      BY Values DEF AllParts
    <3>5. KnowsParts(r)'
      BY <3>2, <3>4 DEF KnowsParts
    <3> QED
      BY <3>3, <3>5
  <2> QED
    BY <2>2, <2>3
<1>4. CASE CreateBatch(r)
  <2>1. run'[r] = [run[r] EXCEPT !.at = "join", !.batch = Me(r)] /\ run[r].at = "batch"
    BY <1>1, <1>4 DEF CreateBatch
  <2>2. /\ run'[r].at = "join" /\ run'[r].batch # NoAttempt /\ run'[r].step = run[r].step
        /\ run'[r].part = run[r].part /\ run'[r].copy = run[r].copy
    BY <1>0, <1>1, <2>1, Named DEF Attempts
  <2>3. row' = row /\ child' = child
    BY <1>4 DEF CreateBatch
  <2>4. Knows(r)'
    BY <1>0, <1>2, <2>1, <2>2, <2>3 DEF Knows
  <2>5. KnowsParts(r)'
    BY <1>0, <2>1, <2>2, <2>3 DEF KnowsParts
  <2> QED
    BY <2>4, <2>5
<1>5. CASE JoinBatch(r)
  <2>1. /\ run'[r] = [run[r] EXCEPT !.at = "find"] /\ run[r].at = "join" /\ child' = child
        /\ row' = [row EXCEPT !.batch = run[r].batch]
    BY <1>1, <1>5 DEF JoinBatch, Goto
  <2>2. /\ run'[r].at = "find" /\ run'[r].batch = run[r].batch /\ run'[r].step = run[r].step
        /\ run'[r].part = run[r].part /\ run'[r].copy = run[r].copy
    BY <1>0, <1>1, <2>1 DEF Attempts
  <2>3. row'.batch = run[r].batch /\ row'.meta = row.meta
    BY <1>1, <2>1
  <2>4. Knows(r)'
    BY <1>0, <1>2, <2>1, <2>2, <2>3 DEF Knows
  <2>5. run[r].part = 1 /\ \A p \in AllParts : ~(p < 1)
    BY <1>0, <2>1, Values DEF KnowsParts, AllParts
  <2>6. KnowsParts(r)'
    BY <2>2, <2>5 DEF KnowsParts
  <2> QED
    BY <2>4, <2>6
<1>6. CASE FindChild(r)
  <2> DEFINE c == child[run[r].part]
  <2>1. row' = row /\ child' = child /\ run[r].at = "find"
    BY <1>6 DEF FindChild
  <2>2. CASE IsDone(c)
    <3>0. PICK part \in AllParts : part = run[r].part
      BY <1>1
    <3>1. NextPart(r)
      BY <1>6, <2>2 DEF FindChild
    <3>2. \A p \in AllParts : IsMade(p)' <=> IsMade(p)
      BY <2>1 DEF IsMade
    <3>3. IsMade(part)
      BY <2>2, <3>0 DEF IsDone, IsMade
    <3>4. IsMade(part)' /\ \A p \in AllParts : IsMade(p) => IsMade(p)'
      BY <3>2, <3>3
    <3> QED
      BY <1>0, <1>2, <2>1, <3>0, <3>1, <3>4, PartMade
  <2>3. CASE ~IsDone(c)
    <3> DEFINE at == IF c.state = "none" THEN "check" ELSE "remove"
    <3>1. run'[r] = [run[r] EXCEPT !.seen = c, !.at = at]
      BY <1>1, <1>6, <2>3 DEF FindChild
    <3>2. /\ run'[r].at = at /\ run'[r].batch = run[r].batch /\ run'[r].step = run[r].step
          /\ run'[r].part = run[r].part /\ run'[r].copy = run[r].copy /\ run'[r].seen = c
      BY <1>1, <3>1 DEF Attempts
    <3>3. c.state # "sealed" /\ (c.state = "none" => c = NoChild)
      BY <1>0, <1>1, <2>3 DEF IsDone, RowsFit
    <3>4. Knows(r)'
      BY <1>0, <1>2, <2>1, <3>2 DEF Knows
    <3>5. \A p \in AllParts : p < run[r].part => IsMade(p)'
      BY <1>0, <2>1 DEF KnowsParts, IsMade
    <3>6. KnowsParts(r)'
      BY <2>1, <3>2, <3>3, <3>5 DEF KnowsParts
    <3> QED
      BY <3>4, <3>6
  <2> QED
    BY <2>2, <2>3
<1>7. CASE RemoveHalf(r)
  <2>0. child[run[r].part].by = run[r].seen.by
    BY <1>0, <1>7, Refusals
  <2>1. /\ run'[r] = [run[r] EXCEPT !.at = "check", !.seen = NoChild] /\ run[r].at = "remove"
        /\ child' = [child EXCEPT ![run[r].part] = NoChild] /\ row' = row
    BY <1>1, <1>7, <2>0 DEF RemoveHalf
  <2>2. /\ run'[r].at = "check" /\ run'[r].batch = run[r].batch /\ run'[r].step = run[r].step
        /\ run'[r].part = run[r].part /\ run'[r].copy = run[r].copy
    BY <1>1, <2>1 DEF Attempts
  <2>3. Knows(r)'
    BY <1>0, <1>2, <2>1, <2>2 DEF Knows
  <2>4. \A p \in AllParts : p < run[r].part => p # run[r].part
    BY <1>1, Values DEF AllParts
  <2>5. \A p \in AllParts : p < run[r].part => child'[p] = child[p]
    BY <1>1, <2>1, <2>4
  <2>6. \A p \in AllParts : p < run[r].part => IsMade(p)'
    BY <1>0, <2>1, <2>5 DEF KnowsParts, IsMade
  <2>7. child'[run[r].part] = NoChild
    BY <1>1, <2>1
  <2>8. KnowsParts(r)'
    BY <2>2, <2>6, <2>7 DEF KnowsParts
  <2> QED
    BY <2>3, <2>8
<1>8. CASE CheckPart(r)
  <2> DEFINE at == IF run[r].part \in Refused \/ ~Allows THEN "refuse" ELSE "claim"
  <2>1. run'[r] = [run[r] EXCEPT !.at = at] /\ run[r].at = "check" /\ child' = child /\ row' = row
    BY <1>1, <1>8 DEF CheckPart, Goto
  <2>2. /\ run'[r].at = at /\ run'[r].batch = run[r].batch /\ run'[r].step = run[r].step
        /\ run'[r].part = run[r].part /\ run'[r].copy = run[r].copy
    BY <1>1, <2>1 DEF Attempts
  <2>3. Knows(r)'
    BY <1>0, <1>2, <2>1, <2>2 DEF Knows
  <2>4. \A p \in AllParts : p < run[r].part => IsMade(p)'
    BY <1>0, <2>1 DEF KnowsParts, IsMade
  <2>5. child[run[r].part] = NoChild
    BY <1>0, <2>1 DEF KnowsParts
  <2>6. KnowsParts(r)'
    BY <2>1, <2>2, <2>4, <2>5 DEF KnowsParts
  <2> QED
    BY <2>3, <2>6
<1>9. CASE RefusePart(r)
  <2>1. PICK part \in AllParts : part = run[r].part
    BY <1>1
  <2>2. child[part] = NoChild
    BY <1>0, <1>9, <2>1, Refusals
  <2>3. /\ NextPart(r) /\ row' = row /\ run[r].at = "refuse"
        /\ child' = [child EXCEPT ![part] = Row(r, "refused")]
    BY <1>9, <2>1, <2>2 DEF RefusePart
  <2>4. Row(r, "refused").state = "refused"
    BY <1>0, RowType
  <2>5. child'[part].state = "refused" /\ \A p \in AllParts \ {part} : child'[p] = child[p]
    BY <1>1, <2>3, <2>4
  <2>6. IsMade(part)' /\ \A p \in AllParts : IsMade(p) => IsMade(p)'
    BY <2>5 DEF IsMade
  <2> QED
    BY <1>0, <1>2, <2>1, <2>3, <2>6, PartMade
<1>10. CASE ClaimPart(r)
  <2>0. child[run[r].part] = NoChild
    BY <1>0, <1>10, Refusals
  <2>1. /\ run'[r] = [run[r] EXCEPT !.at = "seal"] /\ run[r].at = "claim" /\ row' = row
        /\ child' = [child EXCEPT ![run[r].part] = Row(r, "half")]
    BY <1>1, <1>10, <2>0 DEF ClaimPart, Goto
  <2>2. /\ run'[r].at = "seal" /\ run'[r].batch = run[r].batch /\ run'[r].step = run[r].step
        /\ run'[r].part = run[r].part /\ run'[r].copy = run[r].copy
    BY <1>1, <2>1 DEF Attempts
  <2>3. Knows(r)'
    BY <1>0, <1>2, <2>1, <2>2 DEF Knows
  <2>4. \A p \in AllParts : p < run[r].part => p # run[r].part
    BY <1>1, Values DEF AllParts
  <2>5. \A p \in AllParts : p < run[r].part => child'[p] = child[p]
    BY <1>1, <2>1, <2>4
  <2>6. \A p \in AllParts : p < run[r].part => IsMade(p)'
    BY <1>0, <2>1, <2>5 DEF KnowsParts, IsMade
  <2>7. child'[run[r].part].state = "half" /\ run[r].part \notin Refused
    BY <1>0, <1>1, <2>1, RowType DEF KnowsParts
  <2>8. KnowsParts(r)'
    BY <2>2, <2>6, <2>7 DEF KnowsParts
  <2> QED
    BY <2>3, <2>8
<1>11. CASE SealPart(r)
  <2>1. run'[r] = [run[r] EXCEPT !.at = "record"] /\ run[r].at = "seal" /\ child' = child /\ row' = row
    BY <1>1, <1>11 DEF SealPart, Goto
  <2>2. /\ run'[r].at = "record" /\ run'[r].batch = run[r].batch /\ run'[r].step = run[r].step
        /\ run'[r].part = run[r].part /\ run'[r].copy = run[r].copy
    BY <1>1, <2>1 DEF Attempts
  <2>3. Knows(r)'
    BY <1>0, <1>2, <2>1, <2>2 DEF Knows
  <2>4. \A p \in AllParts : p < run[r].part => IsMade(p)'
    BY <1>0, <2>1 DEF KnowsParts, IsMade
  <2>5. child[run[r].part].state = "half" /\ run[r].part \notin Refused
    BY <1>0, <2>1 DEF KnowsParts
  <2>6. KnowsParts(r)'
    BY <2>1, <2>2, <2>4, <2>5 DEF KnowsParts
  <2> QED
    BY <2>3, <2>6
<1>12. CASE RecordPart(r)
  <2>1. PICK part \in AllParts : part = run[r].part
    BY <1>1
  <2>2. Records(r)
    BY <1>0, <1>12, Refusals DEF Records
  <2>3. NextPart(r) /\ row' = row /\ run[r].at = "record"
    BY <2>2 DEF Records, RecordPart
  <2>4. child' = [child EXCEPT ![part] = [child[part] EXCEPT !.state = "sealed"]]
    BY <1>0, <2>1, <2>2, RecordsWrites
  <2>5. [child[part] EXCEPT !.state = "sealed"].state = "sealed"
    BY <1>1 DEF Children
  <2>6. child'[part].state = "sealed" /\ \A p \in AllParts \ {part} : child'[p] = child[p]
    BY <1>1, <2>4, <2>5
  <2>7. IsMade(part)' /\ \A p \in AllParts : IsMade(p) => IsMade(p)'
    BY <2>6 DEF IsMade
  <2> QED
    BY <1>0, <1>2, <2>1, <2>3, <2>7, PartMade
<1>13. CASE MarkExpanded(r)
  <2>1. Enter(r, "extract") /\ row' = [row EXCEPT !.meta = [run[r].copy EXCEPT !.marked = TRUE]]
    BY <1>13 DEF MarkExpanded
  <2>2. row'.meta.marked
    BY <1>1, <2>1 DEF Metadata
  <2> QED
    BY <1>0, <2>1, <2>2, Entered
<1> QED
  BY <1>3, <1>4, <1>5, <1>6, <1>7, <1>8, <1>9, <1>10, <1>11, <1>12, <1>13 DEF Expand

\* So do those of the charge, and the end of the run.
LEMMA KnowsExtract ==
  ASSUME Always, ByOneRun, NEW r \in Runs, Extract(r), ~AttemptEnds(r)
  PROVE  Knows(r)' /\ KnowsParts(r)'
<1> USE DEF InExpand, AtBatch, AtPart, Unpaid
<1>0. TypeOK /\ Fits /\ Knows(r) /\ KnowsParts(r)
  BY RunFrame DEF Always, ByOneRun, RunStep
<1>1. /\ run \in [Runs -> Attempts] /\ run[r] \in Attempts /\ run[r].copy \in Metadata
      /\ row.meta \in Metadata
      /\ row \in [status : {"working", "failed", "ready"}, run : 0..MaxRuns,
                  error : {"none", "fail", "quota", "worker-lost"}, batch : Tries, meta : Metadata]
  BY <1>0 DEF TypeOK, Attempts
<1>2. run[r].at \in InExtract => run[r].step = "extract"
  BY <1>0 DEF Fits
<1>3. CASE ReadForCharge(r)
  <2>1. row' = row /\ run[r].at = "idle" /\ run[r].step = "extract" /\ row.meta.marked
    BY <1>0, <1>3 DEF ReadForCharge, MayBegin, Knows
  <2>2. CASE row.meta.charged
    BY <1>0, <1>3, <2>1, <2>2, Entered DEF ReadForCharge
  <2>3. CASE ~row.meta.charged
    <3>1. run'[r] = [run[r] EXCEPT !.copy = row.meta, !.at = "charge"]
      BY <1>1, <1>3, <2>3 DEF ReadForCharge
    <3>2. run'[r].copy = row.meta /\ run'[r].at = "charge" /\ run'[r].step = "extract"
      BY <1>1, <2>1, <3>1 DEF Attempts
    <3> QED
      BY <2>1, <2>3, <3>2 DEF Knows, KnowsParts
  <2> QED
    BY <2>2, <2>3
<1>4. CASE ChargeMessage(r)
  <2>1. run'[r] = [run[r] EXCEPT !.at = "stamp"] /\ run[r].at = "charge" /\ row' = row
    BY <1>1, <1>4 DEF ChargeMessage, Goto
  <2>2. run'[r].at = "stamp" /\ run'[r].step = "extract" /\ run'[r].copy = run[r].copy
    BY <1>1, <1>2, <2>1 DEF Attempts, InExtract
  <2> QED
    BY <1>0, <1>2, <2>1, <2>2 DEF Knows, KnowsParts, InExtract
<1>5. CASE StampCharge(r)
  <2> DEFINE at == IF charges <= ChargesCovered THEN "return" ELSE "stop"
  <2>1. /\ run'[r] = [run[r] EXCEPT !.at = at] /\ run[r].at = "stamp"
        /\ row' = [row EXCEPT !.meta = Stamp(run[r].copy)]
    BY <1>1, <1>5 DEF StampCharge, Goto
  <2>2. run'[r].at = at /\ run'[r].step = "extract"
    BY <1>1, <1>2, <2>1 DEF Attempts, InExtract
  <2>3. run[r].copy = row.meta /\ row.meta.marked
    BY <1>0, <1>2, <2>1 DEF Knows, InExtract
  <2>4. row'.meta.charged /\ row'.meta.marked
    BY <1>1, <2>1, <2>3 DEF Stamp, Metadata
  <2> QED
    BY <2>2, <2>4 DEF Knows, KnowsParts
<1>6. CASE EndExtract(r)
  <2>1. /\ Enter(r, IF run[r].at = "return" THEN "finish" ELSE "quota") /\ row' = row
        /\ run[r].at \in {"return", "stop"}
    BY <1>6 DEF EndExtract
  <2>2. row.meta.marked /\ (run[r].at = "return" => row.meta.charged)
    BY <1>0, <1>2, <2>1 DEF Knows, InExtract
  <2> QED
    BY <1>0, <2>1, <2>2, Entered
<1>7. CASE EndRun(r)
  <2>1. Enter(r, "over")
    BY <1>7 DEF EndRun
  <2> QED
    BY <1>0, <2>1, Entered
<1> QED
  BY <1>3, <1>4, <1>5, <1>6, <1>7 DEF Extract

\* Every step of a run leaves it knowing what it needs for the next.
LEMMA KnowsRun ==
  ASSUME Always, ByOneRun, NEW r \in Runs, RunStep(r)
  PROVE  Knows(r)' /\ KnowsParts(r)'
<1>1. TypeOK /\ Fits /\ Knows(r)
  BY RunFrame DEF Always, ByOneRun
<1>2. CASE AttemptEnds(r)
  <2>1. /\ run'[r].at \in {"idle", "lost"} /\ (run'[r].at = "idle" => run'[r].part = 1)
        /\ run'[r].step \in {run[r].step, "fail"} /\ row' = row
    BY <1>2 DEF AttemptEnds
  <2>2. /\ run'[r].step \in {"extract", "finish"} => row'.meta.marked
        /\ run'[r].step = "finish" => row'.meta.charged
    BY <1>1, <2>1 DEF Knows
  <2> QED
    BY <2>1, <2>2, Begun
<1>3. CASE ~AttemptEnds(r)
  BY <1>1, <1>3, KnowsExpand, KnowsExtract, CallThrowsEnds, WorkerDiesEnds, RedeliverEnds DEF RunStep
<1> QED
  BY <1>2, <1>3

\* The rows stay in order when one child's row is written by a message not yet marked.
LEMMA RowWritten ==
  ASSUME TypeOK, RowsFit, NEW p \in AllParts, NEW c, child' = [child EXCEPT ![p] = c], row' = row,
         ~row.meta.marked,
         c.state = "none" => c = NoChild,
         c.state # "none" => c.batch = row.batch /\ row.batch # NoAttempt,
         c.state \in {"half", "sealed"} => p \notin Refused
  PROVE  RowsFit'
<1>1. child'[p] = c /\ \A q \in AllParts \ {p} : child'[q] = child[q]
  BY DEF TypeOK
<1> QED
  BY <1>1 DEF RowsFit

\* The rows stay in order: a marked message is whole, a child is in its batch.
LEMMA RowsFitRun ==
  ASSUME Always, ByOneRun, NEW r \in Runs, RunStep(r)
  PROVE  RowsFit'
<1> USE DEF InExpand, AtBatch, AtPart, Unpaid
<1> DEFINE p == run[r].part
<1>0. /\ TypeOK /\ Fits /\ OwnIsHalf /\ RowsFit /\ Knows(r) /\ KnowsParts(r)
      /\ row.status = "working"
  BY RunFrame, AloneRun DEF Always, ByOneRun
<1>1. /\ run[r] \in Attempts /\ child \in [AllParts -> Children] /\ p \in AllParts
      /\ run[r].copy \in Metadata /\ row.meta \in Metadata
      /\ row \in [status : {"working", "failed", "ready"}, run : 0..MaxRuns,
                  error : {"none", "fail", "quota", "worker-lost"}, batch : Tries, meta : Metadata]
  BY <1>0 DEF TypeOK, Attempts
<1>2. CASE row' = row /\ child' = child
  BY <1>0, <1>2 DEF RowsFit, IsMade
<1>3. CASE JoinBatch(r)
  <2>1. /\ row' = [row EXCEPT !.batch = run[r].batch] /\ child' = child /\ run[r].at = "join"
    BY <1>3 DEF JoinBatch
  <2>2. /\ row'.meta = row.meta /\ row'.status = row.status
        /\ row.batch = NoAttempt
    BY <1>0, <1>1, <2>1 DEF Knows
  <2>3. \A q \in AllParts : child[q].state = "none"
    BY <1>0, <2>2 DEF RowsFit
  <2> QED
    BY <1>0, <2>1, <2>2, <2>3 DEF RowsFit, IsMade
<1>4. CASE MarkExpanded(r)
  <2>1. /\ row' = [row EXCEPT !.meta = [run[r].copy EXCEPT !.marked = TRUE]] /\ child' = child
        /\ run[r].at = "mark"
    BY <1>4 DEF MarkExpanded
  <2>2. row'.batch = row.batch /\ row'.status = "working"
    BY <1>0, <1>1, <2>1
  <2>3. \A q \in AllParts : IsMade(q)
    BY <1>0, <2>1 DEF KnowsParts
  <2> QED
    BY <1>0, <2>1, <2>2, <2>3 DEF RowsFit, IsMade
<1>5. CASE StampCharge(r)
  <2>1. row' = [row EXCEPT !.meta = Stamp(run[r].copy)] /\ child' = child /\ run[r].at = "stamp"
    BY <1>5 DEF StampCharge
  <2>2. run[r].copy = row.meta
    BY <1>0, <2>1 DEF Knows
  <2>3. row'.batch = row.batch /\ row'.status = "working" /\ row'.meta.marked = row.meta.marked
    BY <1>0, <1>1, <2>1, <2>2 DEF Stamp, Metadata
  <2> QED
    BY <1>0, <2>1, <2>3 DEF RowsFit, IsMade
<1>6. CASE EndRun(r)
  <2>1. /\ row' = [row EXCEPT !.status = Outcome(r),
                              !.error = IF run[r].step = "finish" THEN "none" ELSE run[r].step]
        /\ child' = child
    BY <1>6 DEF EndRun
  <2>2. row'.status = Outcome(r) /\ row'.meta = row.meta /\ row'.batch = row.batch
    BY <1>1, <2>1
  <2>3. row'.status = "ready" => row.meta.marked /\ row.meta.charged
    BY <1>0, <2>2 DEF Outcome, Knows
  <2> QED
    BY <1>0, <2>1, <2>2, <2>3 DEF RowsFit, IsMade
<1>7. CASE Removes(r)
  <2>1. child' = [child EXCEPT ![p] = NoChild] /\ row' = row /\ run[r].at = "remove"
    BY <1>7 DEF Removes, RemoveHalf
  <2>2. ~row.meta.marked
    BY <1>0, <2>1 DEF Knows
  <2> QED
    BY <1>0, <1>1, <2>1, <2>2, Values, RowWritten
<1>8. CASE Refuses(r)
  <2>1. child' = [child EXCEPT ![p] = Row(r, "refused")] /\ row' = row /\ run[r].at = "refuse"
    BY <1>8 DEF Refuses, RefusePart
  <2>2. ~row.meta.marked /\ run[r].batch = row.batch /\ row.batch # NoAttempt
    BY <1>0, <2>1 DEF Knows
  <2>3. Row(r, "refused").state = "refused" /\ Row(r, "refused").batch = run[r].batch
    BY <1>0, RowType
  <2> QED
    BY <1>0, <1>1, <2>1, <2>2, <2>3, RowWritten
<1>9. CASE Claims(r)
  <2>1. child' = [child EXCEPT ![p] = Row(r, "half")] /\ row' = row /\ run[r].at = "claim"
    BY <1>9 DEF Claims, ClaimPart
  <2>2. ~row.meta.marked /\ run[r].batch = row.batch /\ row.batch # NoAttempt /\ p \notin Refused
    BY <1>0, <2>1 DEF Knows, KnowsParts
  <2>3. Row(r, "half").state = "half" /\ Row(r, "half").batch = run[r].batch
    BY <1>0, RowType
  <2> QED
    BY <1>0, <1>1, <2>1, <2>2, <2>3, RowWritten
<1>10. CASE Records(r)
  <2> DEFINE c == [child[p] EXCEPT !.state = "sealed"]
  <2>1. child' = [child EXCEPT ![p] = c] /\ child[p].state = "half"
    BY <1>0, <1>10, RecordsWrites
  <2>2. row' = row /\ run[r].at = "record"
    BY <1>10 DEF Records, RecordPart
  <2>3. ~row.meta.marked
    BY <1>0, <2>2 DEF Knows
  <2>4. c.state = "sealed" /\ c.batch = child[p].batch
    BY <1>1 DEF Children
  <2>5. child[p].batch = row.batch /\ row.batch # NoAttempt /\ p \notin Refused
    BY <1>0, <1>1, <2>1 DEF RowsFit
  <2> HIDE DEF c
  <2> QED
    BY <1>0, <1>1, <2>1, <2>2, <2>3, <2>4, <2>5, RowWritten
<1>11. CASE AttemptEnds(r)
  BY <1>2, <1>11 DEF AttemptEnds
<1>12. CASE ~AttemptEnds(r) /\ Plain(r) /\ ~JoinBatch(r) /\ ~MarkExpanded(r) /\ ~StampCharge(r) /\ ~EndRun(r)
  <2>1. row' = row /\ child' = child
    BY <1>12 DEF Plain, ReadMessage, CreateBatch, FindChild, CheckPart, SealPart,
         Extract, ReadForCharge, ChargeMessage, EndExtract
  <2> QED
    BY <1>2, <2>1
<1> QED
  BY <1>0, <1>3, <1>4, <1>5, <1>6, <1>7, <1>8, <1>9, <1>10, <1>11, <1>12, Kinds

\* Every step of a run.
LEMMA RunPreserves ==
  ASSUME ExpansionInv, NEW r \in Runs, RunStep(r)
  PROVE  ExpansionInv'
<1>1. TypeOK /\ Fits /\ Silenced /\ OwnIsHalf /\ NoneUnpaid
  BY DEF ExpansionInv, Always
<1>2. Silenced'
  BY <1>1, RunFrame DEF Silenced
<1>3. Always'
  BY <1>1, <1>2, RunStepType, FitsRun, OwnIsHalfRun, NoneUnpaidRun DEF Always
<1>4. ASSUME ~overlap'  PROVE ByOneRun'
  <2>1. Always /\ ByOneRun /\ Alone
    BY <1>1, <1>4, RunFrame DEF ExpansionInv, ByOneRun
  <2>2. Alone' /\ \A s \in Runs : Alive(s)' => s = r
    BY <1>1, <2>1, AloneRun
  <2>3. Knows(r)' /\ KnowsParts(r)'
    BY <2>1, KnowsRun
  <2>4. \A s \in Runs : Alive(s)' => Knows(s)' /\ KnowsParts(s)'
    BY <2>2, <2>3
  <2> QED
    BY <2>1, <2>2, <2>4, RowsFitRun, ClaimsPaidRun, ChargesPaidRun, CoveredRun DEF ByOneRun
<1> QED
  BY <1>3, <1>4 DEF ExpansionInv

-----------------------------------------------------------------------------
(* The steps of the others: admission, the sweep, a retry, other uploads.   *)

\* A run starts only when nobody is at work.
LEMMA StartPreserves ==
  ASSUME ExpansionInv, NEW r \in Runs, Start(r)
  PROVE  ExpansionInv'
<1>0. /\ TypeOK /\ Fits /\ Silenced /\ OwnIsHalf /\ NoneUnpaid
      /\ row \in [status : {"working", "failed", "ready"}, run : 0..MaxRuns,
                  error : {"none", "fail", "quota", "worker-lost"}, batch : Tries, meta : Metadata]
  BY DEF ExpansionInv, Always, TypeOK
<1>1. /\ row.status = "working" /\ row.run = 0 /\ run[r].step = "none"
      /\ row' = [row EXCEPT !.run = r] /\ Enter(r, "expand")
      /\ child' = child /\ uploads' = uploads /\ charges' = charges /\ cancelled' = cancelled
      /\ sweep' = sweep /\ upload' = upload /\ overlap' = overlap /\ torn' = torn /\ faults' = faults
  BY DEF Start, outside
<1>2. /\ run' \in [Runs -> Attempts] /\ run' = [run EXCEPT ![r] = run'[r]]
      /\ run'[r].at = "idle" /\ run'[r].step = "expand"
  BY <1>0, <1>1, EnterType
<1>3. \A s \in Runs \ {r} : run'[s] = run[s]
  BY <1>2
<1>4. /\ row' \in [status : {"working", "failed", "ready"}, run : 0..MaxRuns,
                   error : {"none", "fail", "quota", "worker-lost"}, batch : Tries, meta : Metadata]
      /\ row'.run = r /\ row'.status = "working" /\ row'.meta = row.meta /\ row'.batch = row.batch
  BY <1>0, <1>1, Values DEF Runs
<1>5. run[r].at = "idle"
  BY <1>0, <1>1 DEF TypeOK, Attempts, Fits, InExpand, InExtract, AtBatch, AtPart
<1>6. TypeOK'
  BY <1>0, <1>1, <1>2, <1>4 DEF TypeOK
<1>7. Fits' /\ Silenced'
  BY <1>0, <1>1, <1>2, <1>3 DEF Fits, Silenced, InExpand, InExtract, AtBatch, AtPart
<1>8. OwnIsHalf'
  BY <1>0, <1>1, <1>2, <1>3 DEF OwnIsHalf, Unpaid, Me
<1>9. NoneUnpaid'
  BY <1>0, <1>1 DEF NoneUnpaid, Holding
<1>10. ASSUME ~overlap'  PROVE ByOneRun'
  <2>0. ByOneRun
    BY <1>1, <1>10 DEF ExpansionInv
  <2>1. \A s \in Runs : ~Alive(s)
    BY <1>1, <2>0 DEF ByOneRun, Alone, Runs
  <2>2. \A s \in Runs \ {r} : ~Alive(s)'
    BY <1>1, <1>3, <2>1 DEF Alive, Busy
  <2>3. Alone' /\ \A s \in Runs : Alive(s)' => s = r
    BY <1>4, <2>2 DEF Alone
  <2>4. Knows(r)' /\ KnowsParts(r)'
    BY <1>0, <1>1, Entered
  <2>5. RowsFit'
    BY <1>1, <1>4, <2>0 DEF ByOneRun, RowsFit, IsMade
  <2>6. At(Unpaid)' = At(Unpaid) /\ At({"stamp"})' = At({"stamp"}) /\ At({"claim"})' = At({"claim"})
    BY <1>2, <1>3, <1>5 DEF At, Unpaid
  <2>7. ClaimsPaid'
    BY <1>1, <2>0, <2>6 DEF ByOneRun, ClaimsPaid, Holding
  <2>8. ChargesPaid'
    BY <1>1, <1>4, <2>0, <2>6 DEF ByOneRun, ChargesPaid
  <2>9. Covered'
    BY <1>1, <2>0, <2>6 DEF ByOneRun, Covered, Used, Pending
  <2> QED
    BY <2>3, <2>4, <2>5, <2>7, <2>8, <2>9 DEF ByOneRun
<1> QED
  BY <1>6, <1>7, <1>8, <1>9, <1>10 DEF ExpansionInv, Always

\* A step that leaves the runs and the children alone.
LEMMA OthersFrame ==
  ASSUME Always, run' = run, child' = child, uploads'.message = uploads.message
  PROVE  Fits' /\ OwnIsHalf' /\ NoneUnpaid'
<1>1. Fits'
  BY DEF Always, Fits
<1>2. OwnIsHalf'
  BY DEF Always, OwnIsHalf, Me
<1>3. NoneUnpaid'
  BY DEF Always, NoneUnpaid, Holding
<1> QED
  BY <1>1, <1>2, <1>3

\* The row is left as it is, and a run may have been cancelled.
LEMMA RowKept ==
  ASSUME ByOneRun, row' = row, run' = run, child' = child, charges' = charges, torn' = torn,
         uploads' = uploads, upload' = upload, cancelled \subseteq cancelled'
  PROVE  ByOneRun'
<1>1. \A r \in Runs : Alive(r)' => Alive(r)
  BY DEF Alive, Busy
<1>2. \A r \in Runs : (Knows(r)' <=> Knows(r)) /\ (KnowsParts(r)' <=> KnowsParts(r))
  BY DEF Knows, KnowsParts, IsMade
<1>3. Alone' /\ RowsFit'
  BY <1>1 DEF ByOneRun, Alone, RowsFit, IsMade
<1>4. ClaimsPaid' /\ ChargesPaid' /\ Covered'
  BY DEF ByOneRun, ClaimsPaid, ChargesPaid, Covered, Used, Pending, Holding, At
<1> QED
  BY <1>1, <1>2, <1>3, <1>4 DEF ByOneRun

\* The row is rewritten when nobody is at work any more.
LEMMA GivenBack ==
  ASSUME ByOneRun, run' = run, child' = child, charges' = charges, torn' = torn,
         uploads' = uploads, upload' = upload, cancelled' = cancelled, \A r \in Runs : ~Alive(r),
         row'.batch = row.batch, row'.meta.marked = row.meta.marked,
         row'.meta.charged = row.meta.charged, row'.status # "ready"
  PROVE  ByOneRun'
<1>1. \A r \in Runs : ~Alive(r)'
  BY DEF Alive, Busy
<1>2. Alone' /\ RowsFit'
  BY <1>1 DEF ByOneRun, Alone, RowsFit, IsMade
<1>3. ClaimsPaid' /\ ChargesPaid' /\ Covered'
  BY DEF ByOneRun, ClaimsPaid, ChargesPaid, Covered, Used, Pending, Holding, At
<1> QED
  BY <1>1, <1>2, <1>3 DEF ByOneRun

\* Recovery gives the document back when the run it cancelled is still.
LEMMA SweepPreserves ==
  ASSUME ExpansionInv, Sweep
  PROVE  ExpansionInv'
<1>0. /\ Always /\ TypeOK /\ Silenced
      /\ row \in [status : {"working", "failed", "ready"}, run : 0..MaxRuns,
                  error : {"none", "fail", "quota", "worker-lost"}, batch : Tries, meta : Metadata]
      /\ sweep \in [at : {"idle", "cancel", "requeue"}, run : 0..MaxRuns, copy : Metadata]
      /\ row.meta \in Metadata /\ sweep.copy \in Metadata
  BY DEF ExpansionInv, Always, TypeOK
<1>1. /\ run' = run /\ child' = child /\ charges' = charges /\ torn' = torn
      /\ uploads' = uploads /\ upload' = upload /\ faults' = faults
  BY DEF Sweep, FindLost, CancelLost, Requeue
<1>2. Fits' /\ OwnIsHalf' /\ NoneUnpaid'
  BY <1>0, <1>1, OthersFrame
<1>3. CASE FindLost
  <2>1. /\ row' = row /\ cancelled' = cancelled /\ overlap' = overlap /\ row.run # 0
        /\ sweep' = [at |-> "cancel", run |-> row.run, copy |-> row.meta]
    BY <1>3 DEF FindLost
  <2>2. TypeOK' /\ Silenced'
    BY <1>0, <1>1, <2>1 DEF TypeOK, Silenced, Runs
  <2> QED
    BY <1>1, <1>2, <2>1, <2>2, RowKept DEF ExpansionInv, Always
<1>4. CASE CancelLost
  <2>1. /\ row' = row /\ cancelled' = cancelled \cup {sweep.run} /\ overlap' = overlap
        /\ sweep' = [sweep EXCEPT !.at = "requeue"] /\ sweep.at = "cancel"
    BY <1>4 DEF CancelLost
  <2>2. sweep.run \in Runs
    BY <1>0, <2>1 DEF Silenced
  <2>3. TypeOK' /\ Silenced'
    BY <1>0, <1>1, <2>1, <2>2 DEF TypeOK, Silenced
  <2> QED
    BY <1>1, <1>2, <2>1, <2>3, RowKept DEF ExpansionInv, Always
<1>5. CASE Requeue
  <2>1. /\ cancelled' = cancelled /\ sweep' = [at |-> "idle", run |-> 0, copy |-> Fresh]
        /\ sweep.at = "requeue"
    BY <1>5 DEF Requeue
  <2>2. Silenced' /\ sweep' \in [at : {"idle", "cancel", "requeue"}, run : 0..MaxRuns, copy : Metadata]
    BY <2>1, Values DEF Silenced
  <2>3. CASE row.run = sweep.run /\ row.status = "working"
    <3> DEFINE meta    == [sweep.copy EXCEPT !.recoveries = @ + 1]
               counted == [row EXCEPT !.meta = meta]
    <3>1. /\ row' = IF sweep.copy.recoveries >= MaxRecoveries
                    THEN [counted EXCEPT !.status = "failed", !.error = "worker-lost"]
                    ELSE [counted EXCEPT !.run = 0]
          /\ overlap' = (overlap \/ Busy(sweep.run) \/ row.meta # sweep.copy)
      BY <1>5, <2>3 DEF Requeue
    <3>2. /\ meta \in Metadata /\ meta.marked = sweep.copy.marked /\ meta.charged = sweep.copy.charged
      BY <1>0 DEF Metadata
    <3> HIDE DEF meta
    <3>3. /\ row' \in [status : {"working", "failed", "ready"}, run : 0..MaxRuns,
                       error : {"none", "fail", "quota", "worker-lost"}, batch : Tries, meta : Metadata]
          /\ row'.batch = row.batch /\ row'.meta = meta /\ row'.status \in {"failed", "working"}
      <4>1. 0 \in 0..MaxRuns
        BY Values
      <4>2. /\ counted \in [status : {"working", "failed", "ready"}, run : 0..MaxRuns,
                            error : {"none", "fail", "quota", "worker-lost"}, batch : Tries, meta : Metadata]
            /\ counted.batch = row.batch /\ counted.meta = meta /\ counted.status = "working"
        BY <1>0, <2>3, <3>2
      <4> HIDE DEF counted
      <4>3. CASE sweep.copy.recoveries >= MaxRecoveries
        BY <3>1, <4>2, <4>3
      <4>4. CASE ~(sweep.copy.recoveries >= MaxRecoveries)
        BY <3>1, <4>1, <4>2, <4>4
      <4> QED
        BY <4>3, <4>4
    <3>4. TypeOK'
      <4>1. overlap' \in BOOLEAN
        BY <3>1
      <4> QED
        BY <1>0, <1>1, <2>1, <2>2, <3>3, <4>1 DEF TypeOK
    <3>5. ASSUME ~overlap'  PROVE ByOneRun'
      <4>1. ~overlap /\ ~Busy(sweep.run) /\ row.meta = sweep.copy
        BY <3>1, <3>5
      <4>2. ByOneRun /\ Alone
        BY <4>1 DEF ExpansionInv, ByOneRun
      <4>3. sweep.run \in cancelled
        BY <1>0, <2>1 DEF Silenced
      <4>4. \A r \in Runs : ~Alive(r)
        BY <2>3, <4>1, <4>2, <4>3 DEF Alone, Alive
      <4> QED
        BY <1>1, <2>1, <3>2, <3>3, <4>1, <4>2, <4>4, GivenBack
    <3> QED
      BY <1>2, <2>2, <3>4, <3>5 DEF ExpansionInv, Always
  <2>4. CASE ~(row.run = sweep.run /\ row.status = "working")
    <3>1. row' = row /\ overlap' = overlap
      BY <1>5, <2>4 DEF Requeue
    <3>2. TypeOK'
      BY <1>0, <1>1, <2>1, <2>2, <3>1 DEF TypeOK
    <3> QED
      BY <1>1, <1>2, <2>1, <2>2, <3>1, <3>2, RowKept DEF ExpansionInv, Always
  <2> QED
    BY <2>3, <2>4
<1> QED
  BY <1>3, <1>4, <1>5 DEF Sweep

\* A failed document has no run at work.
LEMMA RetryPreserves ==
  ASSUME ExpansionInv, Retry
  PROVE  ExpansionInv'
<1>0. /\ Always /\ TypeOK
      /\ row \in [status : {"working", "failed", "ready"}, run : 0..MaxRuns,
                  error : {"none", "fail", "quota", "worker-lost"}, batch : Tries, meta : Metadata]
  BY DEF ExpansionInv, Always, TypeOK
<1>1. /\ run' = run /\ child' = child /\ charges' = charges /\ torn' = torn /\ cancelled' = cancelled
      /\ uploads' = uploads /\ upload' = upload /\ faults' = faults /\ sweep' = sweep /\ overlap' = overlap
      /\ row.status = "failed" /\ row' = [row EXCEPT !.status = "working", !.error = "none", !.run = 0]
  BY DEF Retry, outside
<1>2. /\ row' \in [status : {"working", "failed", "ready"}, run : 0..MaxRuns,
                   error : {"none", "fail", "quota", "worker-lost"}, batch : Tries, meta : Metadata]
      /\ row'.batch = row.batch /\ row'.meta = row.meta /\ row'.status = "working"
  <2>1. 0 \in 0..MaxRuns
    BY Values
  <2> QED
    BY <1>0, <1>1, <2>1
<1>3. TypeOK' /\ Silenced'
  BY <1>0, <1>1, <1>2 DEF TypeOK, Always, Silenced
<1>4. Fits' /\ OwnIsHalf' /\ NoneUnpaid'
  BY <1>0, <1>1, OthersFrame
<1>5. ASSUME ~overlap'  PROVE ByOneRun'
  <2>1. ByOneRun
    BY <1>1, <1>5 DEF ExpansionInv
  <2>2. \A r \in Runs : ~Alive(r)
    BY <1>1, <2>1 DEF ByOneRun, Alone
  <2> QED
    BY <1>1, <1>2, <2>1, <2>2, GivenBack
<1> QED
  BY <1>3, <1>4, <1>5 DEF ExpansionInv, Always

\* One run at most is past its check and has not charged.
LEMMA OneClaiming ==
  ASSUME Alone
  PROVE  Cardinality(At({"claim"})) <= 1
<1>1. At({"claim"}) \subseteq {row.run}
  BY DEF At, Alone, Alive, Busy
<1>2. Cardinality(At({"claim"})) = IF row.run \in At({"claim"}) THEN 1 ELSE 0
  BY <1>1, CountOne
<1> QED
  BY <1>2

\* Another upload passes the check with room for one, then charges it.
LEMMA UploadPreserves ==
  ASSUME ExpansionInv, NEW u \in Uploaders, Upload(u)
  PROVE  ExpansionInv'
<1> DEFINE pending == Cardinality(Pending)
           claims  == Cardinality(At({"claim"}))
           all     == Cardinality(Uploaders)
<1>0. /\ Always /\ TypeOK
      /\ uploads \in [message : Nat, others : Nat] /\ faults \in 0..MaxFaults
      /\ upload \in [Uploaders -> {"idle", "charge"}]
  BY DEF ExpansionInv, Always, TypeOK
<1>1. /\ run' = run /\ child' = child /\ charges' = charges /\ torn' = torn /\ cancelled' = cancelled
      /\ row' = row /\ sweep' = sweep /\ overlap' = overlap
  BY DEF Upload
<1>2. \/ /\ upload[u] = "idle" /\ Allows /\ upload' = [upload EXCEPT ![u] = "charge"]
         /\ uploads' = uploads /\ faults' = faults
      \/ /\ upload[u] = "charge" /\ upload' = [upload EXCEPT ![u] = "idle"]
         /\ uploads' = [uploads EXCEPT !.others = @ + 1] /\ faults' = faults
      \/ /\ upload[u] = "charge" /\ upload' = [upload EXCEPT ![u] = "idle"]
         /\ uploads' = uploads /\ faults < MaxFaults /\ faults' = faults + 1
  BY <1>0 DEF Upload, Reserve, ReserveDies
<1>3. uploads' \in [message : Nat, others : Nat] /\ uploads'.message = uploads.message
  BY <1>0, <1>2
<1>4. faults' \in 0..MaxFaults
  BY <1>0, <1>2, BoundsAssumption
<1>5. upload' \in [Uploaders -> {"idle", "charge"}]
  BY <1>0, <1>2
<1>6. TypeOK' /\ Silenced'
  BY <1>0, <1>1, <1>3, <1>4, <1>5 DEF TypeOK, Always, Silenced
<1>7. Fits' /\ OwnIsHalf' /\ NoneUnpaid'
  BY <1>0, <1>1, <1>3, OthersFrame
<1>8. /\ IsFiniteSet(Pending) /\ pending \in Nat /\ claims \in Nat /\ all \in Nat /\ pending <= all
      /\ pending' \in Nat /\ pending' <= all /\ claims' = claims
  <2>1. IsFiniteSet(Uploaders) /\ Pending' \in SUBSET Uploaders
    BY Counts DEF Pending
  <2>2. IsFiniteSet(Pending') /\ Cardinality(Pending') <= all
    BY <2>1, FS_Subset
  <2>3. At({"claim"})' = At({"claim"})
    BY <1>1 DEF At
  <2> QED
    BY <2>2, <2>3, Counts, FS_CardinalityType
<1>9. upload[u] = "charge" => pending' = pending - 1
  <2>1. SUFFICES ASSUME upload[u] = "charge"  PROVE pending' = pending - 1
    OBVIOUS
  <2>2. upload' = [upload EXCEPT ![u] = "idle"] /\ u \in Pending
    BY <1>2, <2>1 DEF Pending
  <2>3. Pending' = Pending \ {u}
    BY <1>0, <2>2 DEF Pending
  <2>4. Cardinality(Pending \ {u}) =
          IF u \in Pending THEN Cardinality(Pending) - 1 ELSE Cardinality(Pending)
    BY <1>8, FS_RemoveElement
  <2> QED
    BY <2>2, <2>3, <2>4
<1>10. ASSUME ~overlap'  PROVE ByOneRun'
  <2>0. ByOneRun /\ Alone /\ Covered
    BY <1>1, <1>10 DEF ExpansionInv, ByOneRun
  <2>1. Alone' /\ RowsFit' /\ ClaimsPaid' /\ ChargesPaid'
    <3>1. \A r \in Runs : Alive(r)' <=> Alive(r)
      BY <1>1 DEF Alive, Busy
    <3>2. Alone' /\ RowsFit'
      BY <1>1, <2>0, <3>1 DEF ByOneRun, Alone, RowsFit, IsMade
    <3>3. ClaimsPaid' /\ ChargesPaid'
      BY <1>1, <1>3, <2>0 DEF ByOneRun, ClaimsPaid, ChargesPaid, Holding, At
    <3> QED
      BY <3>2, <3>3
  <2>2. \A r \in Runs : Alive(r)' => Knows(r)' /\ KnowsParts(r)'
    <3>1. \A r \in Runs : (Alive(r)' <=> Alive(r)) /\ (Knows(r)' <=> Knows(r)) /\ (KnowsParts(r)' <=> KnowsParts(r))
      BY <1>1 DEF Alive, Busy, Knows, KnowsParts, IsMade
    <3> QED
      BY <2>0, <3>1 DEF ByOneRun
  <2>3. /\ Covered' <=> Used' + pending' + claims' <= Limit + all
        /\ Used + pending + claims <= Limit + all
    BY <2>0 DEF Covered
  <2>4. Limit \in Nat /\ claims <= 1 /\ Used \in Nat
    BY <1>0, <2>0, OneClaiming, BoundsAssumption DEF Used
  <2>5. Covered'
    <3>1. CASE upload[u] = "idle"
      <4>1. Allows /\ uploads' = uploads
        BY <1>2, <3>1
      <4>2. Used' = Used /\ Used + 1 <= Limit
        BY <1>0, <2>4, <4>1, Room DEF Used
      <4> QED
        BY <1>8, <2>3, <2>4, <4>2
    <3>2. CASE upload[u] = "charge"
      <4>1. Used' \in {Used, Used + 1}
        BY <1>0, <1>2, <3>2 DEF Used
      <4> QED
        BY <1>8, <1>9, <2>3, <2>4, <3>2, <4>1
    <3> QED
      BY <1>2, <3>1, <3>2
  <2> QED
    BY <2>1, <2>2, <2>5 DEF ByOneRun
<1> QED
  BY <1>6, <1>7, <1>10 DEF ExpansionInv, Always

-----------------------------------------------------------------------------
(* The invariant. *)

LEMMA InitInv == Init => ExpansionInv
<1> SUFFICES ASSUME Init  PROVE ExpansionInv
  OBVIOUS
<1> USE DEF Init
<1>1. TypeOK
  <2>1. 0 \in 0..MaxFaults /\ 0 \in 0..MaxRuns
    BY Values, BoundsAssumption
  <2>2. /\ row \in [status : {"working", "failed", "ready"}, run : 0..MaxRuns,
                    error : {"none", "fail", "quota", "worker-lost"}, batch : Tries, meta : Metadata]
        /\ sweep \in [at : {"idle", "cancel", "requeue"}, run : 0..MaxRuns, copy : Metadata]
    BY <2>1, Values
  <2>3. child \in [AllParts -> Children] /\ run \in [Runs -> Attempts]
    BY Values
  <2>4. uploads \in [message : Nat, others : Nat] /\ torn \in [claims : Nat, charges : Nat]
    OBVIOUS
  <2> QED
    BY <2>1, <2>2, <2>3, <2>4 DEF TypeOK
<1>2. \A r \in Runs : run[r].at = "idle" /\ run[r].step = "none"
  BY Values
<1>3. Fits /\ Silenced /\ OwnIsHalf
  BY <1>2 DEF Fits, Silenced, OwnIsHalf, Unpaid, InExpand, InExtract, AtBatch, AtPart
<1>4. \A p \in AllParts : child[p] = NoChild /\ child[p].state = "none"
  BY Values
<1>5. /\ Holding({"half", "sealed"}) = {} /\ Holding({"sealed"}) = {} /\ Pending = {}
      /\ At(Unpaid) = {} /\ At({"stamp"}) = {} /\ At({"claim"}) = {}
  BY <1>2, <1>4 DEF Holding, At, Pending, Unpaid
<1>6. Cardinality({}) = 0
  BY FS_EmptySet
<1>7. NoneUnpaid
  BY <1>5, <1>6 DEF NoneUnpaid
<1>8. Alone /\ \A r \in Runs : ~Alive(r)
  BY <1>2 DEF Alone, Alive, Busy
<1>9. RowsFit
  BY <1>4 DEF RowsFit, Fresh
<1>10. ClaimsPaid /\ ChargesPaid
  <2>1. /\ uploads.message = 0 /\ torn.claims = 0 /\ torn.charges = 0 /\ charges = 0
        /\ row.meta.charged = FALSE
    BY DEF Fresh
  <2>2. ClaimsPaid <=> 0 = 0 + 0 + 0
    BY <1>5, <1>6, <2>1 DEF ClaimsPaid
  <2>3. ChargesPaid <=> 0 = 0 + 0 + 0
    BY <1>5, <1>6, <2>1 DEF ChargesPaid
  <2> QED
    BY <2>2, <2>3
<1>11. Covered
  <2>1. Used = 0
    BY DEF Used
  <2>2. Covered <=> 0 + 0 + 0 <= Limit + Cardinality(Uploaders)
    BY <1>5, <1>6, <2>1 DEF Covered
  <2> QED
    BY <2>2, Counts, BoundsAssumption
<1> QED
  BY <1>1, <1>3, <1>7, <1>8, <1>9, <1>10, <1>11 DEF ExpansionInv, Always, ByOneRun

LEMMA NextInv == ExpansionInv /\ [Next]_vars => ExpansionInv'
<1> SUFFICES ASSUME ExpansionInv, [Next]_vars  PROVE ExpansionInv'
  OBVIOUS
<1>1. ASSUME NEW r \in Runs, Start(r)  PROVE ExpansionInv'
  BY <1>1, StartPreserves
<1>2. ASSUME NEW r \in Runs, RunStep(r)  PROVE ExpansionInv'
  BY <1>2, RunPreserves
<1>3. CASE Sweep
  BY <1>3, SweepPreserves
<1>4. CASE Retry
  BY <1>4, RetryPreserves
<1>5. ASSUME NEW u \in Uploaders, Upload(u)  PROVE ExpansionInv'
  BY <1>5, UploadPreserves
<1>6. CASE UNCHANGED vars
  <2>1. /\ row' = row /\ child' = child /\ uploads' = uploads /\ charges' = charges /\ run' = run
        /\ cancelled' = cancelled /\ sweep' = sweep /\ upload' = upload /\ torn' = torn
        /\ overlap' = overlap /\ faults' = faults
    BY <1>6 DEF vars
  <2>2. TypeOK' /\ Silenced'
    BY <2>1 DEF ExpansionInv, Always, TypeOK, Silenced
  <2>3. Fits' /\ OwnIsHalf' /\ NoneUnpaid'
    BY <2>1, OthersFrame DEF ExpansionInv
  <2>4. ~overlap' => ByOneRun'
    BY <2>1, RowKept DEF ExpansionInv
  <2> QED
    BY <2>2, <2>3, <2>4 DEF ExpansionInv, Always
<1> QED
  BY <1>1, <1>2, <1>3, <1>4, <1>5, <1>6 DEF Next, RunStep

\* Whoever is at work, and with what it rests on while one run at a time is.
LEMMA Invariance == Spec => []ExpansionInv
BY InitInv, NextInv, PTL DEF Spec

\* The types of the variables, in every run of expandContainer and what it charges.
THEOREM Typing == Spec => []TypeOK
<1>1. ExpansionInv => TypeOK
  BY DEF ExpansionInv, Always
<1> QED
  BY <1>1, Invariance, PTL

\* A message that carries the expansion's mark has become its batch, whatever
\* attempts were lost on the way, for any number of parts, runs and faults.
THEOREM MarkedIsWhole == Spec => []WholeWhenMarked
<1>1. ASSUME ExpansionInv, ~overlap
      PROVE  /\ row.meta.marked => Holding({"sealed", "refused"}) = AllParts
             /\ \A p \in Holding({"half", "sealed", "refused"}) : child[p].batch = row.batch
             /\ Holding({"half", "sealed"}) \cap Refused = {}
  <2>1. RowsFit
    BY <1>1 DEF ExpansionInv, ByOneRun
  <2> QED
    BY <2>1 DEF RowsFit, IsMade, Holding
<1>2. ExpansionInv => WholeWhenMarked
  BY <1>1 DEF WholeWhenMarked
<1> QED
  BY <1>2, Invariance, PTL

\* chargeAndClaim leaves no document uncharged, and while one run at a time is at
\* work overcharges one upload for every attempt lost before the bytes were recorded.
THEOREM UploadsPaid == Spec => []PaidPerDocument
<1>1. ExpansionInv => NoneUnpaid /\ (~overlap => ClaimsPaid)
  BY DEF ExpansionInv, Always, ByOneRun
<1>2. ExpansionInv => PaidPerDocument
  BY <1>1 DEF PaidPerDocument, NoneUnpaid, ClaimsPaid, Unpaid
<1> QED
  BY <1>2, Invariance, PTL

\* chargeDocumentUsage adds a message's own cost once, and once more for every
\* attempt lost before its mark; none is ready that lacks either mark.
THEOREM CostPaid == Spec => []ChargedOnce
<1>1. ExpansionInv => (~overlap => ChargesPaid /\ RowsFit)
  BY DEF ExpansionInv, ByOneRun
<1>2. ExpansionInv => ChargedOnce
  BY <1>1 DEF ChargedOnce, ChargesPaid, RowsFit
<1> QED
  BY <1>2, Invariance, PTL

\* checkQuota is not made in the transaction that charges: the allowance is exceeded
\* by as many uploads as there are other requests, and by no more.
THEOREM Exceeded == Spec => []WithinAllowance
<1>1. ASSUME ExpansionInv, ~overlap  PROVE Used <= Limit + Cardinality(Uploaders)
  <2>1. Covered /\ TypeOK
    BY <1>1 DEF ExpansionInv, Always, ByOneRun
  <2>2. Used \in Nat /\ Limit \in Nat
    BY <2>1, BoundsAssumption DEF TypeOK, Used
  <2> QED
    BY <2>1, <2>2, Counts DEF Covered
<1>2. ExpansionInv => WithinAllowance
  BY <1>1 DEF WithinAllowance
<1> QED
  BY <1>2, Invariance, PTL

\* A child whose bytes are recorded is left alone by every step that is repeated.
THEOREM SealedKept == Spec => SealedStays
<1>1. ASSUME ExpansionInv, [Next]_vars,
             NEW p \in AllParts, child[p].state = "sealed", ~overlap
      PROVE  child'[p] = child[p]
  <2>0. /\ Always /\ ByOneRun /\ TypeOK /\ Fits /\ OwnIsHalf
    BY <1>1 DEF ExpansionInv, Always
  <2>1. ASSUME NEW r \in Runs, RunStep(r)  PROVE child'[p] = child[p]
    <3> DEFINE part == run[r].part
    <3>1. KnowsParts(r) /\ child \in [AllParts -> Children] /\ part \in AllParts
      BY <2>0, <2>1, RunFrame DEF ByOneRun, TypeOK, Attempts
    <3>2. CASE child' = child
      BY <3>2
    <3>3. CASE Removes(r)
      <4>1. child[part].state # "sealed" /\ child' = [child EXCEPT ![part] = NoChild]
        BY <3>1, <3>3 DEF Removes, RemoveHalf, KnowsParts
      <4> QED
        BY <1>1, <3>1, <4>1
    <3>4. CASE Refuses(r) \/ Claims(r)
      <4>1. child[part] = NoChild /\ child[part].state # "sealed"
        BY <3>4, Values DEF Refuses, Claims
      <4>2. \A q \in AllParts \ {part} : child'[q] = child[q]
        BY <3>1, <3>4 DEF Refuses, RefusePart, Claims, ClaimPart
      <4> QED
        BY <1>1, <4>1, <4>2
    <3>5. CASE Records(r)
      <4>1. child[part].state = "half"
            /\ child' = [child EXCEPT ![part] = [child[part] EXCEPT !.state = "sealed"]]
        BY <2>0, <3>5, RecordsWrites
      <4> QED
        BY <1>1, <3>1, <4>1
    <3> QED
      BY <2>0, <2>1, <3>2, <3>3, <3>4, <3>5, ChildWrites
  <2>2. ASSUME ~\E r \in Runs : RunStep(r)  PROVE child' = child
    BY <1>1, <2>2 DEF Next, RunStep, Start, Sweep, FindLost, CancelLost, Requeue, Retry, Upload, vars
  <2> QED
    BY <2>1, <2>2
<1>2. ExpansionInv /\ [Next]_vars =>
        [\A p \in AllParts : child[p].state = "sealed" /\ ~overlap => child'[p] = child[p]]_vars
  BY <1>1
<1> QED
  BY <1>2, Invariance, PTL DEF Spec, SealedStays
=============================================================================
