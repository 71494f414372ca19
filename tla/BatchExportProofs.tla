-------------------------- MODULE BatchExportProofs --------------------------
(***************************************************************************)
(* Theorems about BatchExport, for any documents, width of a wave, number   *)
(* of exports, requests, restarts, runs and faults, whatever else may       *)
(* happen of Hazards.                                                       *)
(*                                                                         *)
(* The argument has two layers.                                             *)
(*                                                                         *)
(* Base says who works on an export, and holds whatever is lost.  The row   *)
(* of a run that works is not old, but for the run that the sweep started   *)
(* and is about to record (Aging): so an export the sweep finds rests, and  *)
(* as nothing that came to rest moves again (CalmKeeps) it rests until the  *)
(* sweep starts a run on it or lets it go (Held).  No two runs work on one  *)
(* export, those apart that a sweep lost before it had recorded them.       *)
(*                                                                         *)
(* Inv says what the one run makes of the row, while there is no such run   *)
(* (Tracked).  Nobody but it and the DELETE handler write the documents,    *)
(* the handler a list it read before; as it asked the export to stop before *)
(* it read, a run that has not been asked to stop is alone (Flagged, Alive) *)
(* and finds at its end what it wrote (Sound); and neither of the two stale *)
(* lists knows of a document exported that the other one, or the row, has   *)
(* forgotten (Covers).                                                      *)
(***************************************************************************)
EXTENDS BatchExport, TLAPS

Worked   == {"mark", "work", "skip"}
PostBusy == {"start", "record"}
StopBusy == {"cancel", "read", "write", "close"}
StepState == {"idle", "list", "resume", "mark", "work", "skip", "settle",
              "cancelled", "ready", "failed", "done", "stop", "threw", "lost"}

StepsState == [Docs \cup {0} -> StepState]
PostState  == [pc : {"idle", "create", "start", "record"}, of : {0} \cup Exports, new : {0} \cup Runs]
StopState  == [pc : {"idle", "flag", "cancel", "read", "write", "close"},
               of : {0} \cup Exports, run : {0} \cup Runs, seen : Lists]
LostState  == [of : Exports, run : Runs, asked : BOOLEAN, recoveries : 0..MaxRecoveries]
SweepState == [pc : {"idle", "next", "cancel", "close", "start", "claim", "surplus"},
               found : SUBSET LostState, cur : LostState \cup {NoCandidate}, new : {0} \cup Runs]

SweepBusy == {"cancel", "close", "start", "claim", "surplus"}

\* Every variable has its type, and the sweep restarts an export only while it may.
Typed ==
  /\ status \in [Exports -> Statuses]
  /\ runId \in [Exports -> {0} \cup Runs]
  /\ documents \in [Exports -> Lists]
  /\ cancelRequested \in [Exports -> BOOLEAN]
  /\ recoveries \in [Exports -> 0..MaxRecoveries]
  /\ runExport \in [Runs -> {0} \cup Exports]
  /\ runPc \in [Runs -> {"none", "plan", "wave", "settle", "finish", "fail", "ended"}]
  /\ wave \in [Runs -> SUBSET Docs]
  /\ left \in [Runs -> SUBSET Docs]
  /\ step \in [Runs -> StepsState]
  /\ seen \in [Runs -> Lists]
  /\ cancelled \in [Runs -> BOOLEAN]
  /\ post \in [Requests -> PostState]
  /\ stop \in StopState
  /\ sweep \in SweepState
  /\ faults \in 0..MaxFaults
  /\ \A q \in Requests : post[q].pc \in PostBusy => post[q].of \in Exports
  /\ stop.pc # "idle" => stop.of \in Exports
  /\ sweep.pc \in SweepBusy => sweep.cur \in LostState
  /\ sweep.pc \in {"start", "claim"} => sweep.cur.recoveries < MaxRecoveries

\* A step belongs to its place in the run.
Placed(r) ==
  /\ runPc[r] = "none" <=> runExport[r] = 0
  /\ runPc[r] = "none" => step[r][0] = "idle"
  /\ runPc[r] \in {"none", "plan"} => wave[r] = {} /\ \A d \in Docs : step[r][d] = "idle"
  /\ step[r][0] \in {"list", "resume"} => runPc[r] = "plan"
  /\ step[r][0] = "settle" => runPc[r] = "settle"
  /\ step[r][0] \in {"ready", "cancelled"} => runPc[r] = "finish"
  /\ step[r][0] = "failed" => runPc[r] \in {"finish", "fail"}
  /\ step[r][0] \notin Worked
  /\ \A d \in Docs : /\ step[r][d] \in Worked \cup {"idle", "done", "stop", "threw", "lost"}
                     /\ step[r][d] \in Worked => d \in wave[r] /\ runPc[r] \in {"wave", "fail", "ended"}
  /\ runPc[r] \in {"settle", "finish"} => WaveDone(r)

\* Run r works on export e.
Works(r, e) == runExport[r] = e /\ Moving(r)

\* No run is on an export that was not created.
Unborn(e) == status[e] = "none" => runId[e] = 0 /\ \A r \in Runs : runExport[r] # e

\* A request that creates an export is alone with it until its run is recorded.
Posted ==
  /\ \A q \in Requests : post[q].pc \in PostBusy =>
       status[post[q].of] # "none" /\ runId[post[q].of] = 0
  /\ \A q \in Requests : post[q].pc = "start" =>
       /\ status[post[q].of] # "ready"
       /\ IsActive(post[q].of) \/ cancelRequested[post[q].of]
       /\ \A r \in Runs : runExport[r] # post[q].of
  /\ \A p, q \in Requests :
       post[p].pc \in PostBusy /\ post[q].pc \in PostBusy /\ post[p].of = post[q].of => p = q

\* The exports that the sweep holds for lost.
Candidates == sweep.found \cup (IF sweep.pc \in {"cancel", "close", "start"} THEN {sweep.cur} ELSE {})

\* Nothing moves on an export that the sweep holds for lost.
Lost ==
  /\ \A c \in Candidates :
       /\ status[c.of] \notin {"none", "ready"} /\ runId[c.of] # 0
       /\ IsActive(c.of) \/ cancelRequested[c.of]
       /\ \A r \in Runs : ~Works(r, c.of)
  /\ \A c, d \in sweep.found : c.of = d.of => c = d
  /\ sweep.pc \in SweepBusy =>
       /\ status[sweep.cur.of] # "none" /\ runId[sweep.cur.of] # 0
       /\ \A c \in sweep.found : c.of # sweep.cur.of

OneMoves == \A r, s \in Runs : runExport[r] = runExport[s] /\ Moving(r) /\ Moving(s) => r = s

\* Whoever stops an export has asked it to stop, unless it was over by then.
Flagged ==
  /\ stop.pc # "idle" => status[stop.of] # "none"
  /\ stop.pc \in StopBusy => cancelRequested[stop.of] \/ ~IsActive(stop.of)

InPlan(list)  == \A d \in Docs : list[d] # "unplanned"
Uniform(list) == list = Nothing \/ InPlan(list)
Whole(list) ==
  /\ \A d \in Docs : list[d] \in Reached
  /\ \E d \in Docs : list[d] = "exported"

\* List b is not behind list a: it is planned and knows of what was exported.
Covers(a, b) ==
  /\ InPlan(a) => InPlan(b)
  /\ \A d \in Docs : a[d] = "exported" => b[d] = "exported"

\* The DELETE handler is about to write a list that it read of e.
Stale(e) == stop.pc = "write" /\ stop.of = e

\* The list of an export.
Listed(e) ==
  /\ Uniform(documents[e])
  /\ status[e] = "ready" => Whole(documents[e])
  /\ Stale(e) => /\ Uniform(stop.seen) /\ Covers(stop.seen, documents[e])
                 /\ status[e] = "ready" => stop.seen = documents[e]

\* A run that is not asked to stop works on an export that is going.
Alive(r, e) == ~cancelRequested[e] /\ runPc[r] \in {"plan", "wave", "settle"} => IsActive(e)

\* The list is planned, and so is the stale one.
OnPlan(r, e) ==
  (\/ \E d \in Docs : step[r][d] \in Worked
   \/ ~cancelRequested[e] /\ (runPc[r] \in {"wave", "settle", "finish"} \/ wave[r] # {}))
  => InPlan(documents[e]) /\ (Stale(e) => InPlan(stop.seen))

\* What a run that is alone with a live export has made of its documents.
Done(r, e) ==
  ~cancelRequested[e] /\ IsActive(e) =>
    /\ runPc[r] = "wave" => \A d \in Docs :
         /\ d \in left[r] \/ d \in wave[r] \/ documents[e][d] \in Reached
         /\ step[r][d] = "done" => documents[e][d] \in Reached
    /\ step[r][0] = "resume" => InPlan(documents[e])
    /\ step[r][0] = "settle" => seen[r] = documents[e]
    /\ runPc[r] = "finish" => \A d \in Docs : documents[e][d] \in Reached

\* What holds of the run r that works on e, and of the list.
Sound(r, e) ==
  /\ Alive(r, e)
  /\ OnPlan(r, e)
  /\ Done(r, e)
  /\ step[r][0] = "list" => documents[e] = Nothing
  /\ step[r][0] = "settle" => Uniform(seen[r]) /\ Covers(documents[e], seen[r])
  /\ \A d \in Docs : step[r][d] \in Worked => documents[e][d] # "exported"
  /\ step[r][0] = "ready" /\ IsActive(e) =>
       Whole(documents[e]) /\ (Stale(e) => stop.seen = documents[e])
  /\ status[e] = "ready" => runPc[r] \in {"finish", "fail", "ended"} /\ WaveDone(r)

\* The invariant of an export whose runs are all recorded.
Inv ==
  /\ Typed
  /\ \A r \in Runs : Placed(r)
  /\ \A e \in Exports : Unborn(e)
  /\ Posted
  /\ Lost
  /\ OneMoves
  /\ Flagged
  /\ \A e \in Exports : Listed(e)
  /\ \A r \in Runs, e \in Exports : Works(r, e) => Sound(r, e)

-----------------------------------------------------------------------------
(* What the helpers do. *)

LEMMA StillRests ==
  ASSUME NEW r \in Runs, runPc'[r] = runPc[r], wave'[r] = wave[r], step'[r] = step[r],
         cancelled[r] => cancelled'[r]
  PROVE  Moving(r)' => Moving(r)
BY DEF Moving, Busy, MayBegin, WaveDone, WaveThrows

LEMMA PlacedFrame ==
  ASSUME NEW r \in Runs, Placed(r), runExport'[r] = runExport[r], runPc'[r] = runPc[r],
         wave'[r] = wave[r], step'[r] = step[r]
  PROVE  Placed(r)'
BY DEF Placed, WaveDone

LEMMA CandidateType ==
  ASSUME Typed
  PROVE  \A c \in Candidates : c \in LostState /\ c.of \in Exports
BY DEF Typed, Candidates, SweepState, LostState, SweepBusy

LEMMA CancelledRuns ==
  ASSUME Typed, NEW n, cancelled' = Cancelled(n)
  PROVE  cancelled' \in [Runs -> BOOLEAN] /\ \A r \in Runs : cancelled[r] => cancelled'[r]
BY DEF Typed, Cancelled

LEMMA SettledList ==
  ASSUME NEW list \in Lists
  PROVE  /\ Settled(list) \in Lists
         /\ InPlan(list) => \A d \in Docs : Settled(list)[d] \in Reached
         /\ InPlan(Settled(list)) <=> InPlan(list)
         /\ \A d \in Docs : Settled(list)[d] = "exported" <=> list[d] = "exported"
         /\ (\A d \in Docs : list[d] \in Reached) => Settled(list) = list
         /\ list = Nothing => Settled(list) = Nothing
         /\ Uniform(list) => Uniform(Settled(list))
<1>1. /\ Settled(list) \in Lists
      /\ \A d \in Docs : Settled(list)[d] = IF list[d] \in {"pending", "exporting"} THEN "skipped" ELSE list[d]
  BY DEF Settled, Lists, DocumentStates, Reached
<1>2. InPlan(list) => \A d \in Docs : Settled(list)[d] \in Reached
  BY <1>1 DEF InPlan, Lists, DocumentStates, Reached
<1>3. InPlan(Settled(list)) <=> InPlan(list)
  BY <1>1 DEF InPlan
<1>4. \A d \in Docs : Settled(list)[d] = "exported" <=> list[d] = "exported"
  BY <1>1
<1>5. (\A d \in Docs : list[d] \in Reached) => Settled(list) = list
  BY DEF Settled, Lists, Reached
<1>6. list = Nothing => Settled(list) = Nothing
  BY DEF Settled, Nothing
<1> QED
  BY <1>1, <1>2, <1>3, <1>4, <1>5, <1>6 DEF Uniform

LEMMA ListTypes ==
  ASSUME Typed
  PROVE  /\ stop.seen \in Lists
         /\ \A e \in Exports : documents[e] \in Lists /\ cancelRequested[e] \in BOOLEAN
         /\ \A r \in Runs : seen[r] \in Lists
         /\ Nothing \in Lists
BY DEF Typed, StopState, Lists, Nothing, DocumentStates

LEMMA Letting ==
  ASSUME Typed, sweep' = SweepIdle \/ sweep' = Skipped
  PROVE  /\ sweep' \in SweepState /\ sweep'.pc \notin SweepBusy
         /\ sweep'.found \subseteq sweep.found /\ Candidates' \subseteq Candidates
<1>1. CASE sweep' = SweepIdle
  <2>1. sweep' = [pc |-> "idle", found |-> {}, cur |-> NoCandidate, new |-> 0]
    BY <1>1 DEF SweepIdle
  <2> QED
    BY <2>1 DEF SweepState, Candidates, SweepBusy
<1>2. CASE sweep' = Skipped
  <2>1. sweep' \in SweepState /\ sweep'.pc = "next" /\ sweep'.found = sweep.found
    BY <1>2 DEF Typed, SweepState, Skipped
  <2> QED
    BY <2>1 DEF Candidates, SweepBusy
<1> QED
  BY <1>1, <1>2

LEMMA StepTo ==
  ASSUME Typed, NEW r \in Runs, NEW x \in Docs \cup {0}, NEW s \in StepState,
         step' = [step EXCEPT ![r][x] = s]
  PROVE  /\ step' \in [Runs -> StepsState] /\ step'[r][x] = s
         /\ \A y \in (Docs \cup {0}) \ {x} : step'[r][y] = step[r][y]
         /\ \A q \in Runs \ {r} : step'[q] = step[q]
BY DEF Typed, StepsState

LEMMA StepZero ==
  ASSUME Typed, NEW r \in Runs, NEW s \in StepState, step' = [step EXCEPT ![r][0] = s]
  PROVE  /\ step' \in [Runs -> StepsState] /\ step'[r][0] = s
         /\ \A d \in Docs : step'[r][d] = step[r][d]
         /\ \A q \in Runs \ {r} : step'[q] = step[q]
<1>1. 0 \notin Docs
  BY DocsAssumption
<1> QED
  BY <1>1 DEF Typed, StepsState

LEMMA EndsPlaced ==
  ASSUME NEW r \in Runs, Placed(r), runPc[r] # "none",
         NEW n \in {"plan", "wave", "settle", "finish", "fail", "ended"}, runPc'[r] = n,
         step'[r][0] \in {"idle", "lost"}, \A d \in Docs : step'[r][d] = step[r][d],
         runExport'[r] = runExport[r], wave'[r] = wave[r], wave[r] \subseteq Docs,
         n = "plan" => runPc[r] = "plan",
         n \in {"settle", "finish"} => WaveDone(r),
         n \in {"plan", "settle", "finish"} => \A d \in Docs : step[r][d] \notin Worked
  PROVE  Placed(r)'
<1>1. \A d \in Docs : step[r][d] \in Worked => d \in wave[r] /\ n \in {"wave", "fail", "ended"}
  BY DEF Placed
<1>2. n \in {"settle", "finish"} => WaveDone(r)'
  BY DEF WaveDone
<1> QED
  BY <1>1, <1>2 DEF Placed, Worked

LEMMA InterruptedWrites ==
  ASSUME NEW r \in Runs, NEW d \in Docs, Interrupted(r, d)
  PROVE  \/ UNCHANGED <<documents, quiet>>
         \/ \E s \in {"exporting"} \cup Reached :
              documents' = Patched(runExport[r], d, s) /\ Touched(runExport[r])
<1>1. \A v \in Verdicts(r, d) : v.state \in {"exporting"} \cup Reached
  BY DEF Verdicts, Reached
<1> QED
  BY <1>1 DEF Interrupted

\* The runs are as they were, or cancelled.
RunsFrame ==
  /\ UNCHANGED <<runExport, runPc, wave, left, step, seen>>
  /\ \A r \in Runs : cancelled[r] => cancelled'[r]

\* The types of what a run and its steps write.
RunTypes ==
  /\ status \in [Exports -> Statuses]
  /\ documents \in [Exports -> Lists]
  /\ runPc \in [Runs -> {"none", "plan", "wave", "settle", "finish", "fail", "ended"}]
  /\ wave \in [Runs -> SUBSET Docs]
  /\ left \in [Runs -> SUBSET Docs]
  /\ step \in [Runs -> StepsState]
  /\ seen \in [Runs -> Lists]
  /\ faults \in 0..MaxFaults

-----------------------------------------------------------------------------
(* The run by itself: where its steps are, and what they write. *)

\* What a step of a run, or an interrupted one, may have written.
LEMMA RunWrites ==
  ASSUME NEW r \in Runs, Run(r) \/ RunFails(r)
  PROVE  \/ UNCHANGED <<status, documents, quiet>>
         \/ runPc[r] = "plan" /\ Busy(r, 0) /\ Planning(r)
         \/ \E d \in Docs, s \in {"exporting"} \cup Reached :
              /\ Busy(r, d) /\ UNCHANGED status
              /\ documents' = Patched(runExport[r], d, s)
              /\ Touched(runExport[r])
         \/ runPc[r] = "settle" /\ Settling(r)
         \/ runPc[r] \in {"finish", "fail"} /\ Busy(r, 0) /\ Finishing(r)
<1>1. CASE PlanRead(r) \/ PlanFails(r) \/ BeginWave(r) \/ EndWaves(r)
           \/ SettleRead(r) \/ FinishRead(r) \/ FailRead(r) \/ \E d \in Docs : StepRead(r, d)
  BY <1>1 DEF PlanRead, PlanFails, BeginWave, EndWaves, SettleRead, FinishRead, FailRead, StepRead, rowVars
<1>2. CASE PlanWrite(r) \/ SettleWrite(r) \/ FinishWrite(r)
  BY <1>2 DEF PlanWrite, SettleWrite, FinishWrite
<1>3. CASE \E d \in Docs : StepMark(r, d) \/ StepWrite(r, d)
  BY <1>3 DEF StepMark, StepWrite, Verdicts, Reached, Busy
<1>4. CASE SequenceThrows(r)
  BY <1>4 DEF SequenceThrows, SequenceInterrupted, Busy
<1>5. ASSUME NEW d \in Docs, StepThrows(r, d) \/ WorkerDies(r, d)
      PROVE  \/ UNCHANGED <<status, documents, quiet>>
             \/ \E s \in {"exporting"} \cup Reached :
                  /\ Busy(r, d) /\ UNCHANGED status
                  /\ documents' = Patched(runExport[r], d, s)
                  /\ Touched(runExport[r])
  <2>1. Busy(r, d) /\ Interrupted(r, d) /\ UNCHANGED status
    BY <1>5, DocsAssumption DEF StepThrows, WorkerDies
  <2> QED
    BY <2>1, InterruptedWrites
<1>6. CASE WorkerDies(r, 0)
  BY <1>6, DocsAssumption DEF WorkerDies, SequenceInterrupted, Busy
<1> QED
  BY <1>1, <1>2, <1>3, <1>4, <1>5, <1>6 DEF Run, RunFails

\* The others of the runs, and every process, are left alone.
RunAlone(r) ==
  /\ UNCHANGED <<runId, cancelRequested, recoveries, runExport, cancelled, post, stop, sweep, strays>>
  /\ \A q \in Runs \ {r} : /\ runPc'[q] = runPc[q] /\ wave'[q] = wave[q] /\ left'[q] = left[q]
                           /\ step'[q] = step[q] /\ seen'[q] = seen[q]

\* What a run keeps of itself and its row, whatever else works on the row.
RunTyped(r) == RunAlone(r) /\ RunTypes' /\ Placed(r)'

LEMMA RowTyped ==
  ASSUME Typed, NEW r \in Runs, Placed(r), Run(r) \/ RunFails(r)
  PROVE  status' \in [Exports -> Statuses] /\ documents' \in [Exports -> Lists]
<1>1. /\ status \in [Exports -> Statuses] /\ documents \in [Exports -> Lists] /\ seen[r] \in Lists
      /\ step[r][0] \in StepState
  BY DEF Typed, StepsState
<1>2. CASE UNCHANGED <<status, documents, quiet>>
  BY <1>1, <1>2
<1>3. CASE Planning(r)
  <2>1. PICK list \in Lists : list = [d \in Docs |-> "pending"]
    BY DEF Lists, DocumentStates
  <2> QED
    BY <1>1, <1>3, <2>1 DEF Planning, Statuses, Active
<1>4. CASE \E d \in Docs, s \in {"exporting"} \cup Reached :
             UNCHANGED status /\ documents' = Patched(runExport[r], d, s)
  <2>1. PICK d \in Docs, s \in DocumentStates :
          UNCHANGED status /\ documents' = [documents EXCEPT ![runExport[r]][d] = s]
    BY <1>4 DEF Patched, DocumentStates, Reached
  <2> QED
    BY <1>1, <2>1 DEF Lists
<1>5. CASE Settling(r)
  BY <1>1, <1>5, SettledList DEF Settling
<1>6. CASE runPc[r] \in {"finish", "fail"} /\ Busy(r, 0) /\ Finishing(r)
  <2>1. step[r][0] \in Statuses
    BY <1>1, <1>6 DEF Placed, Busy, StepState, Worked, Statuses
  <2> QED
    BY <1>1, <1>6, <2>1 DEF Finishing, Closed
<1> QED
  BY <1>2, <1>3, <1>4, <1>5, <1>6, RunWrites

LEMMA BusyDocument ==
  ASSUME NEW r \in Runs, Placed(r), NEW d \in Docs, Busy(r, d)
  PROVE  step[r][d] \in Worked
BY DEF Placed, Busy

\* A step of a document goes on, or ends.
LEMMA DocumentTyped ==
  ASSUME Typed, NEW r \in Runs, Placed(r), NEW d \in Docs,
         StepRead(r, d) \/ StepMark(r, d) \/ StepWrite(r, d) \/ StepThrows(r, d) \/ WorkerDies(r, d)
  PROVE  RunTyped(r)
<1>1. PICK n \in {"stop", "done", "mark", "skip", "work", "idle", "threw", "lost"} :
        /\ step' = [step EXCEPT ![r][d] = n]
        /\ n \in Worked => d \in wave[r]
        /\ d \in wave[r] /\ runPc[r] \in {"wave", "fail", "ended"}
  <2>1. CASE StepRead(r, d)
    BY <2>1 DEF StepRead
  <2>2. CASE StepMark(r, d) \/ StepWrite(r, d)
    BY <2>2 DEF StepMark, StepWrite, Verdicts, Placed, Worked
  <2>3. CASE StepThrows(r, d) \/ WorkerDies(r, d)
    <3>1. step[r][d] \in Worked
      BY <2>3, BusyDocument DEF StepThrows, WorkerDies
    <3> QED
      BY <2>3, <3>1 DEF StepThrows, WorkerDies, Placed
  <2> QED
    BY <2>1, <2>2, <2>3
<1>2. /\ UNCHANGED <<runId, cancelRequested, recoveries, runExport, cancelled, post, stop, sweep, strays>>
      /\ UNCHANGED <<runPc, wave, left, seen>>
      /\ (faults' = faults \/ (faults < MaxFaults /\ faults' = faults + 1))
  <2>1. d # 0
    BY DocsAssumption
  <2> QED
    BY <2>1 DEF StepRead, StepMark, StepWrite, StepThrows, WorkerDies, rowVars, procVars
<1>3. /\ step' \in [Runs -> StepsState] /\ step'[r][d] = n
      /\ \A y \in (Docs \cup {0}) \ {d} : step'[r][y] = step[r][y]
      /\ \A q \in Runs \ {r} : step'[q] = step[q]
  <2>1. n \in StepState
    BY DEF StepState
  <2> QED
    BY <1>1, <2>1, StepTo
<1>4. faults' \in 0..MaxFaults
  BY <1>2, BoundsAssumption DEF Typed
<1>5. RunTypes'
  BY <1>2, <1>3, <1>4, RowTyped DEF Typed, RunTypes, Run, RunFails
<1>6. step'[r][0] = step[r][0]
  BY <1>3, DocsAssumption
<1>7. \A c \in Docs : /\ step'[r][c] \in Worked \cup {"idle", "done", "stop", "threw", "lost"}
                      /\ step'[r][c] \in Worked => c \in wave[r] /\ runPc[r] \in {"wave", "fail", "ended"}
  BY <1>1, <1>3 DEF Placed, Worked
<1>8. Placed(r)'
  BY <1>1, <1>2, <1>6, <1>7 DEF Placed
<1> QED
  BY <1>2, <1>3, <1>5, <1>8 DEF RunTyped, RunAlone

\* The step of the sequence reads, and has something to write.
LEMMA ReadTyped ==
  ASSUME Typed, NEW r \in Runs, Placed(r),
         PlanRead(r) \/ SettleRead(r) \/ FinishRead(r) \/ FailRead(r)
  PROVE  RunTyped(r)
<1>1. PICK s \in {"list", "resume", "settle", "cancelled", "ready", "failed"} :
        /\ step' = [step EXCEPT ![r][0] = s]
        /\ s \in {"list", "resume"} => runPc[r] = "plan"
        /\ s = "settle" => runPc[r] = "settle"
        /\ s \in {"ready", "cancelled"} => runPc[r] = "finish"
        /\ s = "failed" => runPc[r] \in {"finish", "fail"}
        /\ runPc[r] # "none"
  BY DEF PlanRead, SettleRead, FinishRead, FailRead
<1>2. /\ UNCHANGED <<runId, cancelRequested, recoveries, runExport, cancelled, post, stop, sweep, strays>>
      /\ UNCHANGED <<runPc, wave, left, faults>>
      /\ seen' = seen \/ seen' = [seen EXCEPT ![r] = documents[runExport[r]]]
  BY DEF PlanRead, SettleRead, FinishRead, FailRead, rowVars, procVars
<1>3. /\ step' \in [Runs -> StepsState] /\ step'[r][0] = s
      /\ \A d \in Docs : step'[r][d] = step[r][d]
      /\ \A q \in Runs \ {r} : step'[q] = step[q]
  <2>1. s \in StepState
    BY DEF StepState
  <2> QED
    BY <1>1, <2>1, StepZero
<1>4. seen' \in [Runs -> Lists] /\ \A q \in Runs \ {r} : seen'[q] = seen[q]
  <2>1. runExport[r] \in Exports
    BY <1>1 DEF Placed, Typed
  <2> QED
    BY <1>2, <2>1 DEF Typed
<1>5. RunTypes'
  BY <1>2, <1>3, <1>4, RowTyped DEF Typed, RunTypes, Run
<1>6. wave[r] \subseteq Docs
  BY DEF Typed
<1>7. Placed(r)'
  BY <1>1, <1>2, <1>3, <1>6 DEF Placed, Worked, WaveDone
<1> QED
  BY <1>2, <1>3, <1>4, <1>5, <1>7 DEF RunTyped, RunAlone

\* The step of the sequence is over, or there was none to execute.
LEMMA SequenceTyped ==
  ASSUME Typed, NEW r \in Runs, Placed(r),
         \/ PlanWrite(r) \/ PlanFails(r) \/ SettleWrite(r) \/ FinishWrite(r)
         \/ SequenceThrows(r) \/ WorkerDies(r, 0)
  PROVE  RunTyped(r)
<1>1. Busy(r, 0) /\ runPc[r] \in {"plan", "settle", "finish", "fail"}
  <2>1. step[r][0] \in StepState
    BY DEF Typed, StepsState
  <2>2. Busy(r, 0)
    BY DEF PlanWrite, PlanFails, SettleWrite, FinishWrite, SequenceThrows, WorkerDies, Busy
  <2> QED
    BY <2>1, <2>2 DEF Placed, Busy, StepState, Worked
<1>2. PICK s \in {"idle", "lost"} : step' = [step EXCEPT ![r][0] = s]
  BY DEF PlanWrite, PlanFails, SettleWrite, FinishWrite, SequenceThrows, WorkerDies
<1>3. PICK n \in {"plan", "wave", "settle", "finish", "fail", "ended"} :
        /\ runPc' = [runPc EXCEPT ![r] = n]
        /\ n = "plan" => runPc[r] = "plan"
        /\ n \in {"settle", "finish"} => runPc[r] \in {"settle", "finish"}
  <2>1. CASE PlanWrite(r) \/ PlanFails(r) \/ SettleWrite(r) \/ FinishWrite(r)
    BY <2>1 DEF PlanWrite, PlanFails, SettleWrite, FinishWrite
  <2>2. CASE SequenceThrows(r)
    BY <1>1, <2>2 DEF SequenceThrows
  <2>3. CASE WorkerDies(r, 0)
    <3>1. runPc' = [runPc EXCEPT ![r] = runPc[r]]
      BY <2>3 DEF WorkerDies, Typed
    <3> QED
      BY <1>1, <3>1
  <2> QED
    BY <2>1, <2>2, <2>3
<1>4. /\ UNCHANGED <<runId, cancelRequested, recoveries, runExport, cancelled, post, stop, sweep, strays>>
      /\ UNCHANGED wave
      /\ left' = left \/ left' = [left EXCEPT ![r] = Docs]
      /\ seen' = seen \/ seen' = [seen EXCEPT ![r] = Nothing]
      /\ (faults' = faults \/ (faults < MaxFaults /\ faults' = faults + 1))
  BY DocsAssumption DEF PlanWrite, PlanFails, SettleWrite, FinishWrite, SequenceThrows, WorkerDies, rowVars, procVars
<1>5. /\ step' \in [Runs -> StepsState] /\ step'[r][0] = s
      /\ \A d \in Docs : step'[r][d] = step[r][d]
      /\ \A q \in Runs \ {r} : step'[q] = step[q]
  <2>1. s \in StepState
    BY DEF StepState
  <2> QED
    BY <1>2, <2>1, StepZero
<1>6. /\ left' \in [Runs -> SUBSET Docs] /\ seen' \in [Runs -> Lists] /\ faults' \in 0..MaxFaults
      /\ \A q \in Runs \ {r} : left'[q] = left[q] /\ seen'[q] = seen[q]
  BY <1>4, ListTypes, BoundsAssumption DEF Typed
<1>7. /\ runPc'[r] = n /\ \A q \in Runs \ {r} : runPc'[q] = runPc[q]
      /\ runPc' \in [Runs -> {"none", "plan", "wave", "settle", "finish", "fail", "ended"}]
  BY <1>3 DEF Typed
<1>8. RunTypes'
  BY <1>4, <1>5, <1>6, <1>7, RowTyped DEF Typed, RunTypes, Run, RunFails
<1>9. Placed(r)'
  <2>1. wave[r] \subseteq Docs
    BY DEF Typed
  <2>2. /\ n \in {"settle", "finish"} => WaveDone(r)
        /\ n \in {"plan", "settle", "finish"} => \A d \in Docs : step[r][d] \notin Worked
    BY <1>3 DEF Placed, WaveDone, Worked
  <2> QED
    BY <1>1, <1>3, <1>4, <1>5, <1>7, <2>1, <2>2, EndsPlaced
<1> QED
  BY <1>4, <1>5, <1>6, <1>7, <1>8, <1>9 DEF RunTyped, RunAlone

LEMMA WaveTyped ==
  ASSUME Typed, NEW r \in Runs, Placed(r), BeginWave(r) \/ EndWaves(r)
  PROVE  RunTyped(r)
<1>1. /\ UNCHANGED <<runId, cancelRequested, recoveries, runExport, cancelled, post, stop, sweep, strays>>
      /\ UNCHANGED <<step, seen, faults>> /\ runPc[r] = "wave"
  BY DEF BeginWave, EndWaves, rowVars, procVars
<1>2. CASE BeginWave(r)
  <2>1. PICK W : W = NextWave(left[r]) /\ W \subseteq left[r]
    BY DEF NextWave
  <2>2. /\ wave' = [wave EXCEPT ![r] = W] /\ left' = [left EXCEPT ![r] = @ \ W]
        /\ UNCHANGED runPc /\ WaveDone(r)
    BY <1>2, <2>1 DEF BeginWave
  <2>3. /\ wave' \in [Runs -> SUBSET Docs] /\ left' \in [Runs -> SUBSET Docs]
        /\ \A q \in Runs \ {r} : wave'[q] = wave[q] /\ left'[q] = left[q]
    BY <2>1, <2>2 DEF Typed
  <2>4. RunTypes'
    BY <1>1, <1>2, <2>2, <2>3, RowTyped DEF Typed, RunTypes, Run
  <2>5. Placed(r)'
    <3>1. \A d \in Docs : step[r][d] \notin Worked
      BY <2>2 DEF Placed, Worked, WaveDone
    <3> QED
      BY <1>1, <2>2, <3>1 DEF Placed
  <2> QED
    BY <1>1, <2>2, <2>3, <2>4, <2>5 DEF RunTyped, RunAlone
<1>3. CASE EndWaves(r)
  <2>1. PICK n \in {"fail", "settle", "finish"} :
          n = IF WaveThrows(r) THEN "fail" ELSE IF WaveStops(r) THEN "settle" ELSE "finish"
    OBVIOUS
  <2>2. /\ runPc' = [runPc EXCEPT ![r] = n] /\ UNCHANGED <<wave, left>>
        /\ n # "fail" => WaveDone(r)
    BY <1>3, <2>1 DEF EndWaves
  <2>3. /\ runPc'[r] = n /\ \A q \in Runs \ {r} : runPc'[q] = runPc[q]
        /\ runPc' \in [Runs -> {"none", "plan", "wave", "settle", "finish", "fail", "ended"}]
    BY <2>2 DEF Typed
  <2>4. RunTypes'
    BY <1>1, <1>3, <2>2, <2>3, RowTyped DEF Typed, RunTypes, Run
  <2>5. Placed(r)'
    <3>1. n # "fail" => \A d \in Docs : step[r][d] \notin Worked
      BY <2>2 DEF Placed, Worked, WaveDone
    <3> QED
      BY <1>1, <2>2, <2>3, <3>1 DEF Placed, Worked, WaveDone
  <2> QED
    BY <1>1, <2>2, <2>3, <2>4, <2>5 DEF RunTyped, RunAlone
<1> QED
  BY <1>2, <1>3

LEMMA EveryRunTyped ==
  ASSUME Typed, NEW r \in Runs, Placed(r), Run(r) \/ RunFails(r)
  PROVE  RunTyped(r)
BY DocumentTyped, ReadTyped, SequenceTyped, WaveTyped DEF Run, RunFails

-----------------------------------------------------------------------------
(* Who works on an export, whatever a lost sweep left unrecorded. *)

\* The runs that no lost sweep left unrecorded.
Recorded == Runs \ strays

\* None of them works on e.
Resting(e) == \A r \in Recorded : ~Works(r, e)

\* A request that creates an export is alone with it until its run is recorded.
Created ==
  /\ \A q \in Requests : post[q].pc \in PostBusy =>
       status[post[q].of] # "none" /\ runId[post[q].of] = 0
  /\ \A q \in Requests, r \in Runs : post[q].pc = "start" => runExport[r] # post[q].of
  /\ \A p, q \in Requests :
       post[p].pc \in PostBusy /\ post[q].pc \in PostBusy /\ post[p].of = post[q].of => p = q

\* The sweep has not done with its candidate.
Pending == {"cancel", "close", "start", "claim"}

\* An export that the sweep holds for lost keeps its run id, and rests.
Held ==
  /\ \A c \in sweep.found : runId[c.of] = c.run
  /\ sweep.pc \in Pending =>
       runId[sweep.cur.of] = sweep.cur.run /\ \A c \in sweep.found : c.of # sweep.cur.of
  /\ \A c, d \in sweep.found : c.of = d.of => c = d
  /\ \A c \in Candidates : Resting(c.of)
  /\ sweep.pc = "claim" => sweep.new \in Runs

\* The sweep is about to record r on e.
Claiming(r, e) == sweep.pc = "claim" /\ sweep.cur.of = e /\ sweep.new = r

\* The row of a run that works is not old, unless the sweep has just started it.
Aging ==
  \A e \in Exports, r \in Recorded :
    IsActive(e) /\ quiet[e] /\ runId[e] # 0 /\ Works(r, e) => Claiming(r, e)

Base ==
  /\ Typed
  /\ \A r \in Runs : Placed(r)
  /\ quiet \in [Exports -> BOOLEAN] /\ strays \subseteq Runs
  /\ \A e \in Exports : Unborn(e)
  /\ Created
  /\ Held
  /\ Aging
  /\ OneRunPerExport

\* No run is started or recorded, no row grows old, and the sweep records what it
\* started, or leaves it behind.
Calm ==
  /\ UNCHANGED <<runExport, runId>>
  /\ \A q \in Requests : post'[q].pc \in PostBusy => post'[q] = post[q]
  /\ \A r \in Runs : Moving(r)' => Moving(r)
  /\ \A e \in Exports : status'[e] = "none" => status[e] = "none"
  /\ \A e \in Exports : IsActive(e)' /\ quiet'[e] => IsActive(e) /\ quiet[e]
  /\ strays \subseteq strays'
  /\ sweep.pc = "claim" => sweep' = sweep \/ sweep.new \in strays'

LEMMA CalmKeeps ==
  ASSUME Base, Calm
  PROVE  /\ \A e \in Exports : Unborn(e)'
         /\ Created' /\ Aging' /\ OneRunPerExport'
         /\ \A e \in Exports : Resting(e) => Resting(e)'
<1>1. /\ UNCHANGED <<runExport, runId>> /\ strays \subseteq strays'
      /\ \A q \in Requests : post'[q].pc \in PostBusy => post'[q] = post[q]
      /\ \A e \in Exports : status'[e] = "none" => status[e] = "none"
  BY DEF Calm
<1>2. \A r \in Runs : Moving(r)' => Moving(r)
  BY DEF Calm
<1>3. \A r \in Runs, e \in Exports : Works(r, e)' => Works(r, e)
  BY <1>1, <1>2 DEF Works
<1>4. Recorded' \subseteq Recorded
  BY <1>1 DEF Recorded
<1>5. \A e \in Exports : Unborn(e)'
  BY <1>1 DEF Base, Unborn
<1>6. Created'
  <2>1. \A q \in Requests : post[q].pc \in PostBusy => post[q].of \in Exports
    BY DEF Base, Typed
  <2> QED
    BY <1>1, <2>1 DEF Base, Created, PostBusy
<1>7. ASSUME NEW e \in Exports, NEW r \in Recorded', IsActive(e)', quiet'[e], runId'[e] # 0, Works(r, e)'
      PROVE  Claiming(r, e)'
  <2>1. r \in Recorded /\ r \in Runs /\ r \notin strays'
    BY <1>4, <1>7 DEF Recorded
  <2>2. IsActive(e) /\ quiet[e]
    BY <1>7 DEF Calm
  <2>3. Claiming(r, e)
    BY <1>1, <1>3, <1>7, <2>1, <2>2 DEF Base, Aging
  <2> QED
    BY <2>1, <2>3 DEF Calm, Claiming
<1>8. OneRunPerExport'
  BY <1>1, <1>2 DEF Base, OneRunPerExport
<1>9. \A e \in Exports : Resting(e) => Resting(e)'
  BY <1>3, <1>4 DEF Resting, Recorded
<1> QED
  BY <1>5, <1>6, <1>7, <1>8, <1>9 DEF Aging

\* The sweep may let go of what it holds for lost.
LEMMA BaseKept ==
  ASSUME Base, Calm, Typed', \A r \in Runs : Placed(r)',
         quiet' \in [Exports -> BOOLEAN], strays' \subseteq Runs,
         sweep'.found \subseteq sweep.found, Candidates' \subseteq Candidates,
         sweep'.pc \in Pending => sweep.pc \in Pending /\ sweep'.cur = sweep.cur,
         sweep'.pc = "claim" => sweep' = sweep
  PROVE  Base'
<1>1. /\ \A e \in Exports : Unborn(e)'
      /\ Created' /\ Aging' /\ OneRunPerExport'
      /\ \A e \in Exports : Resting(e) => Resting(e)'
  BY CalmKeeps
<1>2. \A c \in Candidates : c.of \in Exports
  BY CandidateType DEF Base
<1>3. \A c \in Candidates' : Resting(c.of)'
  BY <1>1, <1>2 DEF Base, Held
<1>4. Held'
  BY <1>3 DEF Base, Held, Calm
<1> QED
  BY <1>1, <1>4 DEF Base

\* The runs are as they were, or cancelled.
LEMMA RunsStill ==
  ASSUME \A r \in Runs : Placed(r), RunsFrame
  PROVE  /\ UNCHANGED runExport
         /\ \A r \in Runs : Placed(r)'
         /\ \A r \in Runs : Moving(r)' => Moving(r)
BY StillRests, PlacedFrame DEF RunsFrame

\* A row that is written is not old.
LEMMA RowTouched ==
  ASSUME quiet \in [Exports -> BOOLEAN], NEW e, Touched(e),
         \A f \in Exports \ {e} : status'[f] = status[f]
  PROVE  /\ quiet' \in [Exports -> BOOLEAN]
         /\ \A f \in Exports : IsActive(f)' /\ quiet'[f] => IsActive(f) /\ quiet[f]
BY DEF Touched, IsActive

LEMMA PostTyped ==
  ASSUME post \in [Requests -> PostState], NEW q \in Requests, NEW s \in PostState, post' = [post EXCEPT ![q] = s]
  PROVE  /\ post' \in [Requests -> PostState] /\ post'[q] = s
         /\ \A p \in Requests \ {q} : post'[p] = post[p]
OBVIOUS

\* A request asks for nothing yet, or is given up.
LEMMA PostBase ==
  ASSUME Base, NEW q \in Requests, PostRead(q) \/ PostDies(q)
  PROVE  Base'
<1>1. Typed
  BY DEF Base
<1>2. /\ UNCHANGED <<status, runId, documents, cancelRequested, recoveries, quiet>>
      /\ UNCHANGED <<runExport, runPc, wave, left, step, seen, cancelled, stop, sweep, strays>>
      /\ faults' = faults \/ (faults < MaxFaults /\ faults' = faults + 1)
  BY DEF PostRead, PostDies, rowVars, runVars
<1>3. PICK s \in PostState : post' = [post EXCEPT ![q] = s] /\ s.pc \notin PostBusy
  <2>1. NoPost \in PostState /\ NoPost.pc = "idle"
    BY DEF NoPost, PostState
  <2>2. [post[q] EXCEPT !.pc = "create"] \in PostState
    BY <1>1 DEF Typed, PostState
  <2> QED
    BY <2>1, <2>2 DEF PostRead, PostDies, PostBusy, PostState
<1>4. /\ post' \in [Requests -> PostState] /\ post'[q] = s
      /\ \A p \in Requests \ {q} : post'[p] = post[p]
  BY <1>1, <1>3, PostTyped DEF Typed
<1>5. faults' \in 0..MaxFaults
  BY <1>1, <1>2, BoundsAssumption DEF Typed
<1>6. Typed'
  BY <1>1, <1>2, <1>3, <1>4, <1>5 DEF Typed
<1>7. RunsFrame /\ \A r \in Runs : Placed(r)' /\ (Moving(r)' => Moving(r))
  BY <1>2, RunsStill DEF Base, RunsFrame
<1>8. Calm
  BY <1>2, <1>3, <1>4, <1>7 DEF Calm, IsActive
<1>9. quiet' \in [Exports -> BOOLEAN] /\ strays' \subseteq Runs /\ Candidates' = Candidates
  BY <1>2 DEF Base, Candidates
<1> QED
  BY <1>2, <1>6, <1>7, <1>8, <1>9, BaseKept

LEMMA PostCreateBase ==
  ASSUME Base, NEW q \in Requests, PostCreate(q)
  PROVE  Base'
<1>1. Typed
  BY DEF Base
<1>2. PICK e \in Exports :
        /\ NextExport(e)
        /\ status' = [status EXCEPT ![e] = "queued"]
        /\ Touched(e)
        /\ post' = [post EXCEPT ![q].pc = "start", ![q].of = e]
  BY DEF PostCreate
<1>3. /\ UNCHANGED <<runId, documents, cancelRequested, recoveries>>
      /\ UNCHANGED <<runExport, runPc, wave, left, step, seen, cancelled, stop, sweep, faults, strays>>
  BY DEF PostCreate, runVars
<1>4. /\ status' \in [Exports -> Statuses] /\ status[e] = "none" /\ status'[e] = "queued"
      /\ \A f \in Exports \ {e} : status'[f] = status[f]
  BY <1>1, <1>2 DEF Typed, NextExport, Statuses, Active
<1>5. PICK s \in PostState : post' = [post EXCEPT ![q] = s] /\ s.pc = "start" /\ s.of = e
  <2>1. [post[q] EXCEPT !.pc = "start", !.of = e] \in PostState
    BY <1>1 DEF Typed, PostState
  <2> QED
    BY <1>2, <2>1 DEF PostState
<1>6. /\ post' \in [Requests -> PostState] /\ post'[q] = s
      /\ \A p \in Requests \ {q} : post'[p] = post[p]
  BY <1>1, <1>5, PostTyped DEF Typed
<1>7. Typed'
  BY <1>1, <1>3, <1>4, <1>5, <1>6 DEF Typed
<1>8. RunsFrame /\ \A r \in Runs : Placed(r)' /\ (Moving(r)' => Moving(r))
  BY <1>3, RunsStill DEF Base, RunsFrame
<1>9. /\ quiet' \in [Exports -> BOOLEAN] /\ strays' \subseteq Runs
      /\ \A f \in Exports : IsActive(f)' /\ quiet'[f] => IsActive(f) /\ quiet[f]
  BY <1>2, <1>3, <1>4, RowTouched DEF Base
<1>10. runId[e] = 0 /\ \A r \in Runs : runExport[r] # e
  BY <1>4 DEF Base, Unborn
<1>11. \A r \in Runs, f \in Exports : Works(r, f)' => Works(r, f)
  BY <1>3, <1>8 DEF Works
<1>12. \A f \in Exports : Unborn(f)'
  BY <1>3, <1>4 DEF Base, Unborn
<1>13. Created'
  <2>1. \A p \in Requests \ {q} : post[p].pc \in PostBusy => post[p].of \in Exports \ {e}
    BY <1>1, <1>4 DEF Base, Created, Typed
  <2> QED
    BY <1>3, <1>4, <1>5, <1>6, <1>10, <2>1 DEF Base, Created, PostBusy
<1>14. Held'
  <2>1. Candidates' = Candidates /\ \A c \in Candidates : c.of \in Exports
    BY <1>1, <1>3, CandidateType DEF Candidates
  <2>2. \A f \in Exports : Resting(f) => Resting(f)'
    BY <1>3, <1>11 DEF Resting, Recorded
  <2>3. \A c \in Candidates' : Resting(c.of)'
    BY <2>1, <2>2 DEF Base, Held
  <2> QED
    BY <1>3, <2>3 DEF Base, Held
<1>15. Aging'
  BY <1>3, <1>9, <1>11 DEF Base, Aging, Recorded, Claiming
<1>16. OneRunPerExport'
  BY <1>3, <1>8 DEF Base, OneRunPerExport
<1> QED
  BY <1>7, <1>8, <1>9, <1>12, <1>13, <1>14, <1>15, <1>16 DEF Base

\* A new run is started on an export on which no other works.
LEMMA StartBase ==
  ASSUME Base, NEW e \in Exports, NEW n \in Runs, Start(e, n), UNCHANGED <<rowVars, strays>>,
         status[e] # "none", Resting(e)
  PROVE  /\ \A r \in Runs : Placed(r)'
         /\ \A f \in Exports : Unborn(f)'
         /\ OneRunPerExport'
         /\ \A r \in Recorded', f \in Exports : Works(r, f)' => (r = n /\ f = e) \/ (Works(r, f) /\ f # e)
         /\ \A f \in Exports \ {e} : Resting(f) => Resting(f)'
         /\ runExport' \in [Runs -> {0} \cup Exports]
         /\ runPc' \in [Runs -> {"none", "plan", "wave", "settle", "finish", "fail", "ended"}]
         /\ runExport'[n] = e /\ \A r \in Runs \ {n} : runExport'[r] = runExport[r]
         /\ UNCHANGED <<status, runId, documents, cancelRequested, recoveries, quiet>>
         /\ UNCHANGED <<wave, left, step, seen, cancelled>>
<1>1. /\ UNCHANGED <<status, runId, documents, cancelRequested, recoveries, quiet>>
      /\ UNCHANGED <<wave, left, step, seen, cancelled, strays>>
      /\ runExport' = [runExport EXCEPT ![n] = e] /\ runPc' = [runPc EXCEPT ![n] = "plan"]
      /\ runPc[n] = "none"
  BY DEF Start, NextRun, rowVars
<1>2. /\ runExport'[n] = e /\ runPc'[n] = "plan"
      /\ \A r \in Runs \ {n} : runExport'[r] = runExport[r] /\ runPc'[r] = runPc[r]
      /\ runExport' \in [Runs -> {0} \cup Exports]
      /\ runPc' \in [Runs -> {"none", "plan", "wave", "settle", "finish", "fail", "ended"}]
  BY <1>1 DEF Base, Typed
<1>3. e # 0
  BY DEF Exports
<1>4. \A r \in Runs \ {n} : Moving(r)' => Moving(r)
  BY <1>1, <1>2, StillRests
<1>5. Placed(n) /\ step[n][0] = "idle" /\ wave[n] = {} /\ \A d \in Docs : step[n][d] = "idle"
  BY <1>1 DEF Base, Placed
<1>6. \A r \in Runs : Placed(r)'
  <2>1. ASSUME NEW r \in Runs \ {n}
        PROVE  Placed(r)'
    BY <1>1, <1>2, PlacedFrame DEF Base
  <2>2. Placed(n)'
    BY <1>1, <1>2, <1>3, <1>5 DEF Placed, Worked, WaveDone
  <2> QED
    BY <2>1, <2>2
<1>7. Recorded' = Recorded
  BY <1>1 DEF Recorded
<1>8. \A r \in Recorded \ {n}, f \in Exports : Works(r, f)' => Works(r, f) /\ f # e
  BY <1>2, <1>4 DEF Works, Resting, Recorded
<1>9. \A r \in Recorded', f \in Exports : Works(r, f)' => (r = n /\ f = e) \/ (Works(r, f) /\ f # e)
  BY <1>2, <1>7, <1>8 DEF Works
<1>10. OneRunPerExport'
  <2>1. \A r \in Recorded \ {n} : Moving(r)' => runExport'[r] # e
    BY <1>2, <1>4 DEF Works, Resting, Recorded
  <2> QED
    BY <1>1, <1>2, <1>4, <2>1 DEF Base, OneRunPerExport, Recorded
<1>11. \A f \in Exports : Unborn(f)'
  BY <1>1, <1>2 DEF Base, Unborn
<1>12. \A f \in Exports \ {e} : Resting(f) => Resting(f)'
  BY <1>7, <1>9 DEF Resting
<1> QED
  BY <1>1, <1>2, <1>6, <1>9, <1>10, <1>11, <1>12

LEMMA PostStartBase ==
  ASSUME Base, NEW q \in Requests, PostStart(q)
  PROVE  Base'
<1>1. Typed
  BY DEF Base
<1>2. PICK e \in Exports : e = post[q].of
  BY <1>1 DEF Typed, PostStart, PostBusy
<1>3. PICK n \in Runs :
        /\ Start(e, n)
        /\ post' = [post EXCEPT ![q].pc = "record", ![q].new = n]
  BY <1>2 DEF PostStart
<1>4. UNCHANGED <<rowVars, stop, sweep, faults, strays>> /\ post[q].pc = "start"
  BY DEF PostStart
<1>5. status[e] # "none" /\ runId[e] = 0 /\ Resting(e)
  BY <1>2, <1>4 DEF Base, Created, PostBusy, Resting, Works, Recorded
<1>6. /\ \A r \in Runs : Placed(r)'
      /\ \A f \in Exports : Unborn(f)'
      /\ OneRunPerExport'
      /\ \A r \in Recorded', f \in Exports : Works(r, f)' => (r = n /\ f = e) \/ (Works(r, f) /\ f # e)
      /\ \A f \in Exports \ {e} : Resting(f) => Resting(f)'
      /\ runExport' \in [Runs -> {0} \cup Exports]
      /\ runPc' \in [Runs -> {"none", "plan", "wave", "settle", "finish", "fail", "ended"}]
      /\ runExport'[n] = e /\ \A r \in Runs \ {n} : runExport'[r] = runExport[r]
      /\ UNCHANGED <<status, runId, documents, cancelRequested, recoveries, quiet>>
      /\ UNCHANGED <<wave, left, step, seen, cancelled>>
  BY <1>3, <1>4, <1>5, StartBase
<1>7. PICK s \in PostState : post' = [post EXCEPT ![q] = s] /\ s.pc = "record" /\ s.of = e
  <2>1. [post[q] EXCEPT !.pc = "record", !.new = n] \in PostState
    BY <1>1 DEF Typed, PostState
  <2> QED
    BY <1>1, <1>2, <1>3, <2>1 DEF Typed, PostState
<1>8. /\ post' \in [Requests -> PostState] /\ post'[q] = s
      /\ \A p \in Requests \ {q} : post'[p] = post[p]
  BY <1>1, <1>7, PostTyped DEF Typed
<1>9. Typed'
  BY <1>1, <1>4, <1>6, <1>7, <1>8 DEF Typed
<1>10. Created'
  <2>1. \A p \in Requests \ {q} : post[p].pc \in PostBusy => post[p].of # e
    BY <1>2, <1>4 DEF Base, Created, PostBusy
  <2> QED
    BY <1>2, <1>4, <1>5, <1>6, <1>7, <1>8, <2>1 DEF Base, Created, PostBusy
<1>11. Held'
  <2>1. Candidates' = Candidates /\ \A c \in Candidates : c.of \in Exports
    BY <1>1, <1>4, CandidateType DEF Candidates
  <2>2. \A c \in Candidates : c.of # e
    <3>1. \A c \in Candidates : runId[c.of] = c.run /\ c.run \in Runs
      BY <1>1, CandidateType DEF Base, Held, Candidates, Pending, LostState
    <3> QED
      BY <1>5, <3>1 DEF Runs
  <2>3. \A c \in Candidates' : Resting(c.of)'
    BY <1>6, <2>1, <2>2 DEF Base, Held
  <2> QED
    BY <1>4, <1>6, <2>3 DEF Base, Held
<1>12. Aging'
  BY <1>4, <1>5, <1>6 DEF Base, Aging, Recorded, Claiming, IsActive
<1> QED
  BY <1>4, <1>6, <1>9, <1>10, <1>11, <1>12 DEF Base

LEMMA PostRecordBase ==
  ASSUME Base, NEW q \in Requests, PostRecord(q)
  PROVE  Base'
<1>1. Typed
  BY DEF Base
<1>2. PICK e \in Exports : e = post[q].of
  BY <1>1 DEF Typed, PostRecord, PostBusy
<1>3. /\ post[q].pc = "record" /\ runId' = [runId EXCEPT ![e] = post[q].new] /\ Touched(e)
      /\ post' = [post EXCEPT ![q] = NoPost]
      /\ UNCHANGED <<status, documents, cancelRequested, recoveries>>
      /\ UNCHANGED <<runExport, runPc, wave, left, step, seen, cancelled, stop, sweep, faults, strays>>
  BY <1>2 DEF PostRecord, runVars
<1>4. status[e] # "none" /\ runId[e] = 0
  BY <1>2, <1>3 DEF Base, Created, PostBusy
<1>5. runId' \in [Exports -> {0} \cup Runs] /\ \A f \in Exports \ {e} : runId'[f] = runId[f]
  <2>1. post[q].new \in {0} \cup Runs
    BY <1>1 DEF Typed, PostState
  <2> QED
    BY <1>1, <1>3, <2>1 DEF Typed
<1>6. /\ post' \in [Requests -> PostState] /\ post'[q].pc = "idle"
      /\ \A p \in Requests \ {q} : post'[p] = post[p]
  <2>1. NoPost \in PostState /\ NoPost.pc = "idle"
    BY DEF NoPost, PostState
  <2> QED
    BY <1>1, <1>3, <2>1, PostTyped DEF Typed
<1>7. Typed'
  BY <1>1, <1>3, <1>5, <1>6 DEF Typed, PostBusy
<1>8. RunsFrame /\ \A r \in Runs : Placed(r)' /\ (Moving(r)' => Moving(r))
  BY <1>3, RunsStill DEF Base, RunsFrame
<1>9. /\ quiet' \in [Exports -> BOOLEAN] /\ strays' \subseteq Runs
      /\ ~quiet'[e] /\ \A f \in Exports : quiet'[f] => quiet[f]
  BY <1>3 DEF Base, Touched
<1>10. \A r \in Runs, f \in Exports : Works(r, f)' => Works(r, f)
  BY <1>3, <1>8 DEF Works
<1>11. \A f \in Exports : Unborn(f)'
  BY <1>3, <1>4, <1>5 DEF Base, Unborn
<1>12. Created'
  <2>1. \A p \in Requests \ {q} : post[p].pc \in PostBusy => post[p].of \in Exports \ {e}
    BY <1>1, <1>2, <1>3 DEF Base, Created, Typed, PostBusy
  <2> QED
    BY <1>3, <1>5, <1>6, <2>1 DEF Base, Created, PostBusy
<1>13. Held'
  <2>1. Candidates' = Candidates /\ \A c \in Candidates : c.of \in Exports
    BY <1>1, <1>3, CandidateType DEF Candidates
  <2>2. \A c \in sweep.found : c.run \in Runs /\ c.of \in Exports
    BY <1>1 DEF Typed, SweepState, LostState
  <2>3. sweep.pc \in Pending => sweep.cur.run \in Runs /\ sweep.cur.of \in Exports
    BY <1>1 DEF Typed, Pending, SweepBusy, LostState
  <2>4. \A f \in Exports : runId[f] \in Runs => f # e /\ runId'[f] = runId[f]
    BY <1>4, <1>5 DEF Runs
  <2>5. \A f \in Exports : Resting(f) => Resting(f)'
    BY <1>3, <1>10 DEF Resting, Recorded
  <2>6. \A c \in Candidates' : Resting(c.of)'
    BY <2>1, <2>5 DEF Base, Held
  <2> QED
    BY <1>3, <2>2, <2>3, <2>4, <2>6 DEF Base, Held
<1>14. Aging'
  BY <1>3, <1>5, <1>9, <1>10 DEF Base, Aging, Recorded, Claiming, IsActive
<1>15. OneRunPerExport'
  BY <1>3, <1>8 DEF Base, OneRunPerExport
<1> QED
  BY <1>7, <1>8, <1>9, <1>11, <1>12, <1>13, <1>14, <1>15 DEF Base

\* A step of the DELETE handler: the runs as they were or cancelled, the row touched.
LEMMA StopKept ==
  ASSUME Base, RunsFrame, cancelled' \in [Runs -> BOOLEAN], stop' \in StopState,
         stop'.pc # "idle" => stop'.of \in Exports,
         UNCHANGED <<runId, recoveries, post, sweep, strays>>,
         faults' \in 0..MaxFaults,
         documents' \in [Exports -> Lists], cancelRequested' \in [Exports -> BOOLEAN],
         NEW e, Touched(e) \/ UNCHANGED <<status, quiet>>,
         status' = status \/ status' = [status EXCEPT ![e] = IF IsActive(e) THEN "cancelled" ELSE @]
  PROVE  Base'
<1>1. Typed
  BY DEF Base
<1>2. UNCHANGED <<runExport, runPc, wave, left, step, seen>> /\ \A r \in Runs : Placed(r)' /\ (Moving(r)' => Moving(r))
  BY RunsStill DEF Base, RunsFrame
<1>3. /\ status' \in [Exports -> Statuses] /\ \A f \in Exports \ {e} : status'[f] = status[f]
      /\ \A f \in Exports : status'[f] = "none" => status[f] = "none"
  BY <1>1 DEF Typed, Statuses
<1>4. Typed'
  BY <1>1, <1>2, <1>3 DEF Typed
<1>5. /\ quiet' \in [Exports -> BOOLEAN]
      /\ \A f \in Exports : IsActive(f)' /\ quiet'[f] => IsActive(f) /\ quiet[f]
  <2>1. CASE Touched(e)
    BY <1>3, <2>1, RowTouched DEF Base
  <2>2. CASE UNCHANGED <<status, quiet>>
    BY <2>2 DEF Base, IsActive
  <2> QED
    BY <2>1, <2>2
<1>6. Calm
  BY <1>2, <1>3, <1>5 DEF Calm
<1>7. Candidates' = Candidates /\ strays' \subseteq Runs
  BY DEF Candidates, Base
<1> QED
  BY <1>2, <1>4, <1>5, <1>6, <1>7, BaseKept

LEMMA StopBase ==
  ASSUME Base, StopRead \/ Stop \/ StopDies
  PROVE  Base'
<1>1. /\ Typed /\ faults \in 0..MaxFaults /\ cancelled \in [Runs -> BOOLEAN]
      /\ documents \in [Exports -> Lists] /\ cancelRequested \in [Exports -> BOOLEAN]
      /\ stop \in StopState /\ stop.seen \in Lists /\ Nothing \in Lists
      /\ stop.pc # "idle" => stop.of \in Exports
  BY ListTypes DEF Base, Typed
<1>2. NoStop \in StopState /\ NoStop.pc = "idle"
  BY <1>1 DEF NoStop, StopState
<1>3. CASE StopRead
  <2>1. PICK e \in Exports : stop' = [NoStop EXCEPT !.pc = "flag", !.of = e, !.run = runId[e]]
    BY <1>3 DEF StopRead
  <2>2. UNCHANGED <<rowVars, runVars, post, sweep, faults, strays>>
    BY <1>3 DEF StopRead
  <2>3. stop' \in StopState /\ stop'.of \in Exports
    <3>1. runId[e] \in {0} \cup Runs
      BY <1>1 DEF Typed
    <3>2. stop' = [pc |-> "flag", of |-> e, run |-> runId[e], seen |-> Nothing]
      BY <2>1 DEF NoStop
    <3> QED
      BY <1>1, <3>1, <3>2 DEF StopState
  <2>4. RunsFrame /\ UNCHANGED <<runId, recoveries, cancelled, documents, cancelRequested, status, quiet>>
    BY <2>2 DEF RunsFrame, rowVars, runVars
  <2> QED
    BY <1>1, <2>2, <2>3, <2>4, StopKept
<1>4. CASE StopFlag
  <2>1. PICK e \in Exports : e = stop.of
    BY <1>1, <1>4 DEF StopFlag
  <2>2. /\ cancelRequested' = [cancelRequested EXCEPT ![e] = @ \/ IsActive(e)] /\ Touched(e)
        /\ stop' = [stop EXCEPT !.pc = "cancel"]
        /\ UNCHANGED <<status, runId, documents, recoveries, runVars, post, sweep, faults, strays>>
    BY <1>4, <2>1 DEF StopFlag
  <2>3. stop' \in StopState /\ stop'.of \in Exports
    BY <1>1, <2>1, <2>2 DEF StopState
  <2>4. cancelRequested' \in [Exports -> BOOLEAN]
    <3>1. IsActive(e) \in BOOLEAN
      BY DEF IsActive
    <3> QED
      BY <1>1, <2>2, <3>1
  <2>5. RunsFrame /\ UNCHANGED cancelled
    BY <2>2 DEF RunsFrame, runVars
  <2> QED
    BY <1>1, <2>2, <2>3, <2>4, <2>5, StopKept
<1>5. CASE StopCancel
  <2>1. /\ stop.pc = "cancel" /\ cancelled' = Cancelled(stop.run)
        /\ stop' = [stop EXCEPT !.pc = "read"]
        /\ UNCHANGED <<rowVars, runExport, runPc, wave, left, step, seen, post, sweep, faults, strays>>
    BY <1>5 DEF StopCancel
  <2>2. cancelled' \in [Runs -> BOOLEAN] /\ RunsFrame
    BY <1>1, <2>1, CancelledRuns DEF RunsFrame
  <2>3. stop' \in StopState /\ stop'.of \in Exports
    BY <1>1, <2>1 DEF StopState
  <2>4. UNCHANGED <<runId, recoveries, documents, cancelRequested, status, quiet>>
    BY <2>1 DEF rowVars
  <2> QED
    BY <1>1, <2>1, <2>2, <2>3, <2>4, StopKept
<1>6. CASE StopSettleRead
  <2>1. PICK e \in Exports : e = stop.of
    BY <1>1, <1>6 DEF StopSettleRead
  <2>2. /\ stop' = [stop EXCEPT !.pc = "write", !.seen = documents[e]]
        /\ UNCHANGED <<rowVars, runVars, post, sweep, faults, strays>>
    BY <1>6, <2>1 DEF StopSettleRead
  <2>3. stop' \in StopState /\ stop'.of \in Exports
    BY <1>1, <2>1, <2>2 DEF StopState
  <2>4. RunsFrame /\ UNCHANGED <<runId, recoveries, cancelled, documents, cancelRequested, status, quiet>>
    BY <2>2 DEF RunsFrame, rowVars, runVars
  <2> QED
    BY <1>1, <2>2, <2>3, <2>4, StopKept
<1>7. CASE StopSettleWrite
  <2>1. PICK e \in Exports, list \in Lists : e = stop.of /\ list = Settled(stop.seen)
    BY <1>1, <1>7, SettledList DEF StopSettleWrite
  <2>2. /\ documents' = [documents EXCEPT ![e] = list] /\ Touched(e)
        /\ stop' = [stop EXCEPT !.pc = "close", !.seen = Nothing]
        /\ UNCHANGED <<status, runId, cancelRequested, recoveries, runVars, post, sweep, faults, strays>>
    BY <1>7, <2>1 DEF StopSettleWrite
  <2>3. stop' \in StopState /\ stop'.of \in Exports
    BY <1>1, <2>1, <2>2 DEF StopState
  <2>4. documents' \in [Exports -> Lists]
    BY <1>1, <2>1, <2>2
  <2>5. RunsFrame /\ UNCHANGED cancelled
    BY <2>2 DEF RunsFrame, runVars
  <2> QED
    BY <1>1, <2>2, <2>3, <2>4, <2>5, StopKept
<1>8. CASE StopClose
  <2>1. PICK e \in Exports : e = stop.of
    BY <1>1, <1>8 DEF StopClose
  <2>2. /\ status' = [status EXCEPT ![e] = IF IsActive(e) THEN "cancelled" ELSE @] /\ Touched(e)
        /\ stop' = NoStop
        /\ UNCHANGED <<runId, documents, cancelRequested, recoveries, runVars, post, sweep, faults, strays>>
    BY <1>8, <2>1 DEF StopClose
  <2>3. RunsFrame /\ UNCHANGED cancelled
    BY <2>2 DEF RunsFrame, runVars
  <2> QED
    BY <1>1, <1>2, <2>2, <2>3, StopKept
<1>9. CASE StopDies
  <2>1. /\ faults < MaxFaults /\ faults' = faults + 1 /\ stop' = NoStop
        /\ UNCHANGED <<rowVars, runVars, post, sweep, strays>>
    BY <1>9 DEF StopDies
  <2>2. RunsFrame /\ UNCHANGED <<runId, recoveries, cancelled, documents, cancelRequested, status, quiet>>
    BY <2>1 DEF RunsFrame, rowVars, runVars
  <2>3. faults' \in 0..MaxFaults
    BY <1>1, <2>1, BoundsAssumption
  <2> QED
    BY <1>1, <1>2, <2>1, <2>2, <2>3, StopKept
<1> QED
  BY <1>3, <1>4, <1>5, <1>6, <1>7, <1>8, <1>9 DEF Stop

\* The sweep goes on or lets go, but records nothing.
LEMMA SweepHolds ==
  ASSUME Base, RunsFrame, cancelled' \in [Runs -> BOOLEAN], sweep' \in SweepState,
         UNCHANGED <<runId, documents, cancelRequested, recoveries, post, stop>>,
         faults' \in 0..MaxFaults,
         sweep'.pc \in SweepBusy => sweep.pc \in SweepBusy /\ sweep'.cur = sweep.cur,
         sweep'.pc = "start" => sweep'.cur.recoveries < MaxRecoveries, sweep'.pc # "claim",
         status' \in [Exports -> Statuses], quiet' \in [Exports -> BOOLEAN],
         \A f \in Exports : status'[f] = "none" => status[f] = "none",
         \A f \in Exports : IsActive(f)' /\ quiet'[f] => IsActive(f) /\ quiet[f],
         strays \subseteq strays', strays' \subseteq Runs,
         sweep.pc = "claim" => sweep.new \in strays',
         sweep'.found \subseteq sweep.found, Candidates' \subseteq Candidates,
         sweep'.pc \in Pending => sweep.pc \in Pending
  PROVE  Base'
<1>1. Typed
  BY DEF Base
<1>2. UNCHANGED <<runExport, runPc, wave, left, step, seen>> /\ \A r \in Runs : Placed(r)' /\ (Moving(r)' => Moving(r))
  BY RunsStill DEF Base, RunsFrame
<1>3. Typed'
  BY <1>1, <1>2 DEF Typed
<1>4. Calm
  BY <1>2 DEF Calm
<1> QED
  BY <1>2, <1>3, <1>4, BaseKept DEF Pending, SweepBusy

LEMMA SweepRests ==
  ASSUME Base, CancelLost \/ CloseLost \/ StopSurplus \/ CallFails \/ SweepDies
  PROVE  Base'
<1>1. /\ Typed /\ faults \in 0..MaxFaults /\ cancelled \in [Runs -> BOOLEAN]
      /\ status \in [Exports -> Statuses] /\ quiet \in [Exports -> BOOLEAN]
      /\ sweep \in SweepState /\ strays \subseteq Runs
  BY DEF Base, Typed
<1>2. CASE CancelLost
  <2>1. PICK next \in {"close", "start"} :
          next = IF sweep.cur.asked \/ GivesUp(sweep.cur) THEN "close" ELSE "start"
    OBVIOUS
  <2>2. /\ sweep.pc = "cancel" /\ cancelled' = Cancelled(sweep.cur.run)
        /\ sweep' = [sweep EXCEPT !.pc = next]
        /\ UNCHANGED <<rowVars, runExport, runPc, wave, left, step, seen, post, stop, faults, strays>>
    BY <1>2, <2>1 DEF CancelLost
  <2>3. cancelled' \in [Runs -> BOOLEAN] /\ RunsFrame
    BY <1>1, <2>2, CancelledRuns DEF RunsFrame
  <2>4. sweep' \in SweepState /\ sweep'.pc = next /\ sweep'.cur = sweep.cur /\ sweep'.found = sweep.found
    BY <1>1, <2>2 DEF SweepState
  <2>5. next = "start" => sweep.cur.recoveries < MaxRecoveries
    <3>1. sweep.cur \in LostState
      BY <1>1, <2>2 DEF Typed, SweepBusy
    <3> QED
      BY <2>1, <3>1, BoundsAssumption DEF GivesUp, LostState
  <2>6. UNCHANGED <<runId, recoveries, documents, cancelRequested, status, quiet>>
    BY <2>2 DEF rowVars
  <2>7. Candidates' = Candidates /\ sweep.pc \in SweepBusy /\ sweep.pc \in Pending
    BY <2>1, <2>2, <2>4 DEF Candidates, SweepBusy, Pending
  <2> QED
    BY <1>1, <2>1, <2>2, <2>3, <2>4, <2>5, <2>6, <2>7, SweepHolds DEF IsActive
<1>3. CASE CloseLost
  <2>1. /\ sweep.pc = "close" /\ sweep' = Skipped
        /\ UNCHANGED <<runId, documents, cancelRequested, recoveries, runVars, post, stop, faults, strays>>
    BY <1>3 DEF CloseLost
  <2>2. /\ sweep' \in SweepState /\ sweep'.pc \notin SweepBusy
        /\ sweep'.found \subseteq sweep.found /\ Candidates' \subseteq Candidates
    BY <1>1, <2>1, Letting
  <2>3. RunsFrame /\ UNCHANGED cancelled
    BY <2>1 DEF RunsFrame, runVars
  <2>4. PICK e : e = sweep.cur.of
    OBVIOUS
  <2>5. \/ \E s \in {"cancelled", "failed"} : status' = [status EXCEPT ![e] = s] /\ Touched(e)
        \/ UNCHANGED <<status, quiet>>
    BY <1>3, <2>4 DEF CloseLost
  <2>6. /\ status' \in [Exports -> Statuses] /\ quiet' \in [Exports -> BOOLEAN]
        /\ \A f \in Exports : status'[f] = "none" => status[f] = "none"
        /\ \A f \in Exports : IsActive(f)' /\ quiet'[f] => IsActive(f) /\ quiet[f]
    <3>1. CASE UNCHANGED <<status, quiet>>
      BY <1>1, <3>1 DEF IsActive
    <3>2. CASE \E s \in {"cancelled", "failed"} : status' = [status EXCEPT ![e] = s] /\ Touched(e)
      <4>1. /\ status' \in [Exports -> Statuses]
            /\ \A f \in Exports \ {e} : status'[f] = status[f]
            /\ \A f \in Exports : status'[f] = "none" => status[f] = "none"
        BY <1>1, <3>2 DEF Statuses
      <4> QED
        BY <1>1, <3>2, <4>1, RowTouched
    <3> QED
      BY <2>5, <3>1, <3>2
  <2> QED
    BY <1>1, <2>1, <2>2, <2>3, <2>6, SweepHolds DEF SweepBusy, Pending
<1>4. CASE StopSurplus \/ CallFails \/ SweepDies
  <2>1. /\ sweep' = SweepIdle \/ sweep' = Skipped
        /\ UNCHANGED <<rowVars, runExport, runPc, wave, left, step, seen, post, stop>>
        /\ cancelled' = cancelled \/ cancelled' = Cancelled(sweep.new)
        /\ faults' = faults \/ (faults < MaxFaults /\ faults' = faults + 1)
        /\ strays \subseteq strays' /\ strays' \subseteq strays \cup {sweep.new}
        /\ sweep.pc = "claim" => sweep.new \in strays'
        /\ sweep.pc # "claim" => strays' = strays
    BY <1>4 DEF StopSurplus, CallFails, SweepDies, runVars
  <2>2. /\ sweep' \in SweepState /\ sweep'.pc \notin SweepBusy
        /\ sweep'.found \subseteq sweep.found /\ Candidates' \subseteq Candidates
    BY <1>1, <2>1, Letting
  <2>3. cancelled' \in [Runs -> BOOLEAN] /\ RunsFrame
    BY <1>1, <2>1, CancelledRuns DEF RunsFrame
  <2>4. faults' \in 0..MaxFaults
    BY <1>1, <2>1, BoundsAssumption
  <2>5. UNCHANGED <<runId, recoveries, documents, cancelRequested, status, quiet>>
    BY <2>1 DEF rowVars
  <2>6. strays' \subseteq Runs
    BY <1>1, <2>1 DEF Base, Held
  <2> QED
    BY <1>1, <2>1, <2>2, <2>3, <2>4, <2>5, <2>6, SweepHolds DEF SweepBusy, Pending, IsActive
<1> QED
  BY <1>2, <1>3, <1>4

\* What the sweep finds is old, and so nothing works on it but what was left unrecorded.
LEMMA FindLostBase ==
  ASSUME Base, FindLost
  PROVE  /\ Base'
         /\ \A e \in Exports : Stalled(e) => Resting(e)
<1> DEFINE row(e) == [of |-> e, run |-> runId[e], asked |-> cancelRequested[e], recoveries |-> recoveries[e]]
<1>1. Typed
  BY DEF Base
<1>2. /\ sweep.pc = "idle"
      /\ sweep' = [sweep EXCEPT !.pc = "next", !.found = {row(e) : e \in {f \in Exports : Stalled(f)}}]
      /\ UNCHANGED <<rowVars, runVars, post, stop, faults, strays>>
      /\ UNCHANGED <<status, runId, documents, cancelRequested, recoveries, quiet>>
      /\ UNCHANGED <<runExport, runPc, wave, left, step, seen, cancelled>>
  BY DEF FindLost, rowVars, runVars
<1>3. \A e \in Exports : Stalled(e) => Resting(e)
  BY <1>2 DEF Base, Aging, Resting, Stalled, Claiming
<1>4. ASSUME NEW e \in Exports, Stalled(e)
      PROVE  row(e) \in LostState /\ row(e).of = e /\ row(e).run = runId[e] /\ Resting(e)
  <2>1. /\ runId[e] \in {0} \cup Runs /\ cancelRequested[e] \in BOOLEAN /\ recoveries[e] \in 0..MaxRecoveries
        /\ runId[e] # 0
    BY <1>1, <1>4 DEF Typed, Stalled
  <2> QED
    BY <1>3, <1>4, <2>1 DEF LostState
<1>5. PICK S : S = {row(e) : e \in {f \in Exports : Stalled(f)}}
  OBVIOUS
<1>6. \A c \in S : \E e \in Exports : Stalled(e) /\ c = row(e)
  BY <1>5
<1> HIDE DEF row
<1>7. /\ \A c \in S : c \in LostState /\ c.of \in Exports /\ runId[c.of] = c.run /\ Resting(c.of)
      /\ \A c, d \in S : c.of = d.of => c = d
  BY <1>4, <1>6
<1>8. sweep' \in SweepState /\ sweep'.pc = "next" /\ sweep'.found = S
  BY <1>1, <1>2, <1>5, <1>7 DEF Typed, SweepState
<1>9. Typed'
  BY <1>1, <1>2, <1>8 DEF Typed, SweepBusy
<1>10. RunsFrame /\ \A r \in Runs : Placed(r)' /\ (Moving(r)' => Moving(r))
  BY <1>2, RunsStill DEF Base, RunsFrame
<1>11. Calm
  BY <1>2, <1>10 DEF Calm, IsActive
<1>12. /\ \A e \in Exports : Unborn(e)'
       /\ Created' /\ Aging' /\ OneRunPerExport'
       /\ \A e \in Exports : Resting(e) => Resting(e)'
  BY <1>11, CalmKeeps
<1>13. Held'
  <2>1. Candidates' = S
    BY <1>8 DEF Candidates
  <2>2. \A c \in Candidates' : Resting(c.of)'
    BY <1>7, <1>12, <2>1
  <2> QED
    BY <1>2, <1>7, <1>8, <2>2 DEF Held, Pending
<1> QED
  BY <1>2, <1>3, <1>9, <1>10, <1>12, <1>13 DEF Base

LEMMA NextLostBase ==
  ASSUME Base, NextLost
  PROVE  Base'
<1>1. Typed
  BY DEF Base
<1>2. /\ sweep.pc = "next"
      /\ UNCHANGED <<rowVars, runVars, post, stop, faults, strays>>
      /\ UNCHANGED <<status, runId, documents, cancelRequested, recoveries, quiet>>
      /\ UNCHANGED <<runExport, runPc, wave, left, step, seen, cancelled>>
  BY DEF NextLost, rowVars, runVars
<1>3. RunsFrame /\ \A r \in Runs : Placed(r)' /\ (Moving(r)' => Moving(r))
  BY <1>2, RunsStill DEF Base, RunsFrame
<1>4. Calm
  BY <1>2, <1>3 DEF Calm, IsActive
<1>5. quiet' \in [Exports -> BOOLEAN] /\ strays' \subseteq Runs
  BY <1>2 DEF Base
<1>6. CASE sweep' = SweepIdle
  <2>1. /\ sweep' \in SweepState /\ sweep'.pc \notin SweepBusy
        /\ sweep'.found \subseteq sweep.found /\ Candidates' \subseteq Candidates
    BY <1>1, <1>6, Letting
  <2>2. Typed'
    BY <1>1, <1>2, <2>1 DEF Typed, SweepBusy
  <2> QED
    BY <1>3, <1>4, <1>5, <2>1, <2>2, BaseKept DEF SweepBusy, Pending
<1>7. CASE \E c \in sweep.found :
             sweep' = [sweep EXCEPT !.pc = "cancel", !.found = @ \ {c}, !.cur = c]
  <2>1. PICK c \in sweep.found :
             sweep' = [sweep EXCEPT !.pc = "cancel", !.found = @ \ {c}, !.cur = c]
    BY <1>7
  <2>2. sweep.found \subseteq LostState /\ c \in LostState
    BY <1>1 DEF Typed, SweepState
  <2>3. /\ sweep' \in SweepState /\ sweep'.pc = "cancel" /\ sweep'.cur = c
        /\ sweep'.found = sweep.found \ {c}
    BY <1>1, <2>1, <2>2 DEF Typed, SweepState
  <2>4. Typed'
    BY <1>1, <1>2, <2>2, <2>3 DEF Typed
  <2>5. /\ \A e \in Exports : Unborn(e)'
        /\ Created' /\ Aging' /\ OneRunPerExport'
        /\ \A e \in Exports : Resting(e) => Resting(e)'
    BY <1>4, CalmKeeps
  <2>6. Candidates = sweep.found /\ Candidates' = sweep.found /\ \A d \in sweep.found : d.of \in Exports
    BY <1>2, <2>2, <2>3 DEF Candidates, LostState
  <2>7. \A d \in Candidates' : Resting(d.of)'
    BY <2>5, <2>6 DEF Base, Held
  <2>8. Held'
    BY <1>2, <2>3, <2>7 DEF Base, Held
  <2> QED
    BY <1>3, <1>5, <2>4, <2>5, <2>8 DEF Base
<1> QED
  BY <1>6, <1>7 DEF NextLost

LEMMA RestartLostBase ==
  ASSUME Base, RestartLost
  PROVE  Base'
<1>1. Typed
  BY DEF Base
<1>2. PICK c \in Candidates : c = sweep.cur /\ sweep.pc = "start"
  BY DEF RestartLost, Candidates
<1>3. PICK e \in Exports : e = c.of
  BY <1>1, CandidateType
<1>4. PICK n \in Runs :
        /\ Start(e, n)
        /\ sweep' = [sweep EXCEPT !.pc = "claim", !.new = n]
  BY <1>2, <1>3 DEF RestartLost
<1>5. UNCHANGED <<rowVars, strays, post, stop, faults>>
  BY DEF RestartLost
<1>6. status[e] # "none" /\ runId[e] # 0 /\ Resting(e)
  <2>1. runId[e] = c.run /\ c.run \in Runs /\ Resting(e)
    BY <1>1, <1>2, <1>3, CandidateType DEF Base, Held, Pending, LostState
  <2> QED
    BY <2>1 DEF Base, Unborn, Runs
<1>7. /\ \A r \in Runs : Placed(r)'
      /\ \A f \in Exports : Unborn(f)'
      /\ OneRunPerExport'
      /\ \A r \in Recorded', f \in Exports : Works(r, f)' => (r = n /\ f = e) \/ (Works(r, f) /\ f # e)
      /\ \A f \in Exports \ {e} : Resting(f) => Resting(f)'
      /\ runExport' \in [Runs -> {0} \cup Exports]
      /\ runPc' \in [Runs -> {"none", "plan", "wave", "settle", "finish", "fail", "ended"}]
      /\ runExport'[n] = e /\ \A r \in Runs \ {n} : runExport'[r] = runExport[r]
      /\ UNCHANGED <<status, runId, documents, cancelRequested, recoveries, quiet>>
      /\ UNCHANGED <<wave, left, step, seen, cancelled>>
  BY <1>4, <1>5, <1>6, StartBase
<1>8. /\ sweep' \in SweepState /\ sweep'.pc = "claim" /\ sweep'.cur = sweep.cur /\ sweep'.new = n
      /\ sweep'.found = sweep.found /\ Candidates' = sweep.found
  BY <1>1, <1>4 DEF Typed, SweepState, Candidates
<1>9. sweep.cur \in LostState /\ sweep.cur.recoveries < MaxRecoveries
  BY <1>1, <1>2 DEF Typed, SweepBusy
<1>10. Typed'
  BY <1>1, <1>5, <1>7, <1>8, <1>9 DEF Typed
<1>11. Created'
  <2>1. \A q \in Requests : post[q].pc \in PostBusy => post[q].of # e
    BY <1>6 DEF Base, Created
  <2> QED
    BY <1>5, <1>7, <2>1 DEF Base, Created, PostBusy
<1>12. Held'
  <2>1. \A d \in sweep.found : d \in Candidates /\ d.of \in Exports \ {e}
    BY <1>1, <1>2, <1>3, CandidateType DEF Base, Held, Pending, Candidates
  <2>2. \A d \in Candidates' : Resting(d.of)'
    BY <1>7, <1>8, <2>1 DEF Base, Held
  <2> QED
    BY <1>2, <1>7, <1>8, <2>2 DEF Base, Held, Pending
<1>13. Aging'
  BY <1>2, <1>3, <1>5, <1>7, <1>8 DEF Base, Aging, Recorded, Claiming, IsActive
<1> QED
  BY <1>5, <1>7, <1>10, <1>11, <1>12, <1>13 DEF Base

LEMMA ClaimLostBase ==
  ASSUME Base, ClaimLost
  PROVE  Base'
<1>1. Typed
  BY DEF Base
<1>2. PICK c \in LostState : c = sweep.cur /\ sweep.pc = "claim" /\ c.recoveries < MaxRecoveries
  BY <1>1 DEF Typed, ClaimLost, SweepBusy
<1>3. PICK e \in Exports : e = c.of
  BY DEF LostState
<1>4. /\ UNCHANGED <<status, documents, cancelRequested, post, stop, faults, strays>>
      /\ UNCHANGED <<runExport, runPc, wave, left, step, seen, cancelled>>
      /\ \/ /\ runId' = [runId EXCEPT ![e] = sweep.new] /\ Touched(e)
            /\ recoveries' = [recoveries EXCEPT ![e] = c.recoveries + 1]
            /\ sweep' = Skipped
         \/ /\ sweep' = [sweep EXCEPT !.pc = "surplus"] /\ ~StillLost(c)
            /\ UNCHANGED <<runId, recoveries, quiet>>
  BY <1>2, <1>3 DEF ClaimLost, runVars
<1>5. /\ runId[e] = c.run /\ c.run \in Runs /\ sweep.new \in Runs /\ \A d \in sweep.found : d.of # e
      /\ c.recoveries + 1 \in 0..MaxRecoveries
  <2>1. runId[e] = c.run /\ \A d \in sweep.found : d.of # e
    BY <1>2, <1>3 DEF Base, Held, Pending
  <2>2. sweep.new \in Runs
    BY <1>2 DEF Base, Held
  <2>3. c.run \in Runs
    BY DEF LostState
  <2>4. PICK n \in 0..MaxRecoveries : n = c.recoveries
    BY DEF LostState
  <2>5. n + 1 \in 0..MaxRecoveries
    BY <1>2, <2>4, BoundsAssumption
  <2>6. c.recoveries + 1 \in 0..MaxRecoveries
    BY <2>4, <2>5, Zenon
  <2> QED
    BY <2>1, <2>2, <2>3, <2>6
<1>6. status[e] # "none" /\ runId[e] # 0
  BY <1>5 DEF Base, Unborn, Runs
<1>7. /\ runId' \in [Exports -> {0} \cup Runs] /\ \A f \in Exports \ {e} : runId'[f] = runId[f]
      /\ recoveries' \in [Exports -> 0..MaxRecoveries]
      /\ \A f \in Exports : runId'[f] = 0 => runId[f] = 0
  <2>1. PICK n \in Runs : n = sweep.new
    BY <1>5
  <2>2. PICK m \in 0..MaxRecoveries : m = c.recoveries + 1
    BY <1>5
  <2>3. /\ runId' = runId \/ runId' = [runId EXCEPT ![e] = n]
        /\ recoveries' = recoveries \/ recoveries' = [recoveries EXCEPT ![e] = m]
    BY <1>4, <2>1, <2>2
  <2>4. runId' \in [Exports -> {0} \cup Runs]
    BY <1>1, <2>3 DEF Typed
  <2>5. \A f \in Exports \ {e} : runId'[f] = runId[f]
    BY <1>1, <2>3 DEF Typed
  <2>6. recoveries' \in [Exports -> 0..MaxRecoveries]
    BY <1>1, <2>3 DEF Typed
  <2>7. \A f \in Exports : runId'[f] = 0 => runId[f] = 0
    BY <1>1, <2>3 DEF Typed, Runs
  <2> QED
    BY <2>4, <2>5, <2>6, <2>7
<1>8. /\ sweep' \in SweepState /\ sweep'.found = sweep.found /\ Candidates' = sweep.found
      /\ \/ sweep'.pc = "next"
         \/ sweep'.pc = "surplus" /\ sweep'.cur = sweep.cur
  BY <1>1, <1>4 DEF Typed, SweepState, Skipped, Candidates
<1>9. Typed'
  BY <1>1, <1>2, <1>4, <1>7, <1>8 DEF Typed, SweepBusy
<1>10. RunsFrame /\ \A r \in Runs : Placed(r)' /\ (Moving(r)' => Moving(r))
  BY <1>4, RunsStill DEF Base, RunsFrame
<1>11. \A r \in Runs, f \in Exports : Works(r, f)' => Works(r, f)
  BY <1>4, <1>10 DEF Works
<1>12. /\ quiet' \in [Exports -> BOOLEAN] /\ strays' \subseteq Runs
       /\ \A f \in Exports : quiet'[f] => quiet[f]
  BY <1>4 DEF Base, Touched
<1>13. \A f \in Exports : Unborn(f)'
  BY <1>4, <1>6, <1>7 DEF Base, Unborn
<1>14. Created'
  <2>1. \A q \in Requests : post[q].pc \in PostBusy => post[q].of \in Exports \ {e}
    BY <1>1, <1>6 DEF Base, Created, Typed
  <2> QED
    BY <1>4, <1>7, <2>1 DEF Base, Created, PostBusy
<1>15. Held'
  <2>1. \A d \in sweep.found : d \in Candidates /\ d.of \in Exports \ {e}
    BY <1>1, <1>5, CandidateType DEF Candidates
  <2>2. \A f \in Exports : Resting(f) => Resting(f)'
    BY <1>4, <1>11 DEF Resting, Recorded
  <2>3. \A d \in Candidates' : Resting(d.of)'
    BY <1>8, <2>1, <2>2 DEF Base, Held
  <2> QED
    BY <1>7, <1>8, <2>1, <2>3 DEF Base, Held, Pending
<1>16. Aging'
  <2>1. ASSUME NEW f \in Exports, NEW r \in Recorded', IsActive(f)', quiet'[f], Works(r, f)'
        PROVE  runId'[f] = 0
    <3>1. IsActive(f) /\ quiet[f] /\ Works(r, f) /\ r \in Recorded
      BY <1>4, <1>11, <1>12, <2>1 DEF IsActive, Recorded
    <3>2. CASE f # e
      BY <1>2, <1>3, <1>7, <3>1, <3>2 DEF Base, Aging, Claiming
    <3>3. CASE f = e
      <4>1. ~quiet'[e] \/ ~IsActive(e)
        BY <1>3, <1>4, <1>5 DEF Base, Touched, StillLost
      <4> QED
        BY <2>1, <3>1, <3>3, <4>1
    <3> QED
      BY <3>2, <3>3
  <2> QED
    BY <2>1 DEF Aging
<1>17. OneRunPerExport'
  BY <1>4, <1>10 DEF Base, OneRunPerExport
<1> QED
  BY <1>9, <1>10, <1>12, <1>13, <1>14, <1>15, <1>16, <1>17 DEF Base

\* A row grows old only while no run works on it.
LEMMA AgeBase ==
  ASSUME Base, NEW e \in Exports, Age(e)
  PROVE  Base'
<1>1. Typed
  BY DEF Base
<1>2. /\ \A r \in Runs : runExport[r] = e => ~Moving(r)
      /\ quiet' = [quiet EXCEPT ![e] = TRUE]
      /\ UNCHANGED <<status, runId, documents, cancelRequested, recoveries, post, stop, sweep, faults, strays>>
      /\ UNCHANGED <<runExport, runPc, wave, left, step, seen, cancelled>>
  BY DEF Age, runVars, procVars
<1>3. RunsFrame /\ \A r \in Runs : Placed(r)' /\ (Moving(r)' => Moving(r))
  BY <1>2, RunsStill DEF Base, RunsFrame
<1>4. \A r \in Runs, f \in Exports : Works(r, f)' => Works(r, f) /\ f # e
  BY <1>2, <1>3 DEF Works
<1>5. Typed'
  BY <1>1, <1>2 DEF Typed
<1>6. /\ quiet' \in [Exports -> BOOLEAN] /\ strays' \subseteq Runs
      /\ \A f \in Exports \ {e} : quiet'[f] = quiet[f]
  BY <1>2 DEF Base
<1>7. \A f \in Exports : Unborn(f)'
  BY <1>2 DEF Base, Unborn
<1>8. Created'
  BY <1>2 DEF Base, Created
<1>9. Held'
  <2>1. Candidates' = Candidates /\ \A c \in Candidates : c.of \in Exports
    BY <1>1, <1>2, CandidateType DEF Candidates
  <2>2. \A f \in Exports : Resting(f) => Resting(f)'
    BY <1>2, <1>4 DEF Resting, Recorded
  <2>3. \A c \in Candidates' : Resting(c.of)'
    BY <2>1, <2>2 DEF Base, Held
  <2> QED
    BY <1>2, <2>3 DEF Base, Held
<1>10. Aging'
  BY <1>2, <1>4, <1>6 DEF Base, Aging, Recorded, Claiming, IsActive
<1>11. OneRunPerExport'
  BY <1>2, <1>3 DEF Base, OneRunPerExport
<1> QED
  BY <1>3, <1>5, <1>6, <1>7, <1>8, <1>9, <1>10, <1>11 DEF Base

LEMMA RunMoves ==
  ASSUME NEW r \in Runs, Run(r) \/ RunFails(r)
  PROVE  Moving(r)
<1>1. CASE PlanRead(r) \/ SettleRead(r) \/ FinishRead(r) \/ FailRead(r)
  BY <1>1 DEF PlanRead, SettleRead, FinishRead, FailRead, Moving, MayBegin
<1>2. CASE PlanWrite(r) \/ SettleWrite(r) \/ FinishWrite(r) \/ SequenceThrows(r)
  BY <1>2 DEF PlanWrite, SettleWrite, FinishWrite, SequenceThrows, Moving
<1>3. CASE PlanFails(r)
  BY <1>3 DEF PlanFails, Moving, Busy
<1>4. CASE BeginWave(r) \/ EndWaves(r)
  BY <1>4 DEF BeginWave, EndWaves, Moving
<1>5. CASE \E d \in Docs : StepRead(r, d)
  BY <1>5 DEF StepRead, Moving
<1>6. CASE \E d \in Docs : StepMark(r, d) \/ StepWrite(r, d) \/ StepThrows(r, d)
  BY <1>6 DEF StepMark, StepWrite, StepThrows, Moving, Busy
<1>7. CASE \E x \in Docs \cup {0} : WorkerDies(r, x)
  BY <1>7 DEF WorkerDies, Moving
<1> QED
  BY <1>1, <1>2, <1>3, <1>4, <1>5, <1>6, <1>7 DEF Run, RunFails

\* A run that works writes a row, and starts nothing.
LEMMA RunBase ==
  ASSUME Base, NEW r \in Runs, Run(r) \/ RunFails(r)
  PROVE  Base' /\ RunTyped(r)
<1>1. Typed /\ Placed(r)
  BY DEF Base
<1>2. RunTyped(r)
  BY <1>1, EveryRunTyped
<1>3. /\ UNCHANGED <<runId, cancelRequested, recoveries, runExport, cancelled, post, stop, sweep, strays>>
      /\ \A q \in Runs \ {r} : /\ runPc'[q] = runPc[q] /\ wave'[q] = wave[q] /\ left'[q] = left[q]
                               /\ step'[q] = step[q] /\ seen'[q] = seen[q]
      /\ RunTypes' /\ Placed(r)'
  BY <1>2 DEF RunTyped, RunAlone
<1>4. Typed'
  BY <1>1, <1>3 DEF Typed, RunTypes
<1>5. \A q \in Runs : Placed(q)'
  BY <1>3, PlacedFrame DEF Base
<1>6. \A q \in Runs : Moving(q)' => Moving(q)
  BY <1>3, StillRests, RunMoves
<1>7. PICK e : e = runExport[r]
  OBVIOUS
<1>8. \/ UNCHANGED <<status, quiet>>
      \/ /\ Touched(e) /\ \A f \in Exports \ {e} : status'[f] = status[f]
         /\ \A f \in Exports : status'[f] = "none" => status[f] = "none"
  <2>1. status \in [Exports -> Statuses] /\ step[r][0] \in StepState
    BY <1>1 DEF Typed, StepsState
  <2>2. CASE Planning(r)
    BY <1>7, <2>1, <2>2 DEF Planning
  <2>3. CASE Touched(e) /\ UNCHANGED status
    BY <2>3
  <2>4. CASE Settling(r)
    BY <1>7, <2>4 DEF Settling
  <2>5. CASE Finishing(r)
    BY <1>7, <2>1, <2>5 DEF Finishing, Closed, StepState
  <2> QED
    BY <1>7, <2>2, <2>3, <2>4, <2>5, RunWrites
<1>9. /\ quiet' \in [Exports -> BOOLEAN]
      /\ \A f \in Exports : IsActive(f)' /\ quiet'[f] => IsActive(f) /\ quiet[f]
      /\ \A f \in Exports : status'[f] = "none" => status[f] = "none"
  BY <1>8, RowTouched DEF Base, IsActive
<1>10. Calm
  BY <1>3, <1>6, <1>9 DEF Calm
<1>11. Candidates' = Candidates /\ strays' \subseteq Runs
  BY <1>3 DEF Candidates, Base
<1>12. Base'
  BY <1>3, <1>4, <1>5, <1>9, <1>10, <1>11, BaseKept
<1> QED
  BY <1>2, <1>12

LEMMA StutterBase ==
  ASSUME Base, UNCHANGED vars
  PROVE  Base'
<1>1. /\ UNCHANGED <<status, runId, documents, cancelRequested, recoveries, quiet>>
      /\ UNCHANGED <<runExport, runPc, wave, left, step, seen, cancelled>>
      /\ UNCHANGED <<post, stop, sweep, faults, strays>>
  BY DEF vars, rowVars, runVars, procVars
<1>2. RunsFrame /\ \A r \in Runs : Placed(r)' /\ (Moving(r)' => Moving(r))
  BY <1>1, RunsStill DEF Base, RunsFrame
<1>3. Calm /\ Candidates' = Candidates
  BY <1>1, <1>2 DEF Calm, IsActive, Candidates
<1>4. Typed'
  BY <1>1 DEF Base, Typed
<1> QED
  BY <1>1, <1>2, <1>3, <1>4, BaseKept DEF Base

LEMMA InitBase == Init => Base
<1> SUFFICES ASSUME Init PROVE Base
  OBVIOUS
<1>1. Nothing \in Lists
  BY DEF Nothing, Lists, DocumentStates
<1>2. Typed
  <2>1. step \in [Runs -> StepsState]
    BY DEF Init, StepsState, StepState
  <2>2. post \in [Requests -> PostState]
    BY DEF Init, PostState, NoPost
  <2>3. stop \in StopState /\ stop.pc = "idle"
    BY <1>1 DEF Init, StopState, NoStop
  <2>4. sweep \in SweepState /\ sweep.pc = "idle"
    BY DEF Init, SweepState, SweepIdle
  <2>5. \A q \in Requests : post[q].pc = "idle"
    BY DEF Init, NoPost
  <2>6. recoveries \in [Exports -> 0..MaxRecoveries] /\ faults \in 0..MaxFaults
    BY BoundsAssumption DEF Init
  <2> QED
    BY <1>1, <2>1, <2>2, <2>3, <2>4, <2>5, <2>6
       DEF Init, Typed, Statuses, Active, PostBusy, SweepBusy
<1>3. \A r \in Runs : /\ step[r][0] = "idle" /\ \A d \in Docs : step[r][d] = "idle"
                      /\ runPc[r] = "none" /\ runExport[r] = 0 /\ wave[r] = {}
  BY DEF Init
<1>4. \A r \in Runs : Placed(r) /\ ~Moving(r)
  BY <1>3 DEF Placed, Worked, Moving, Busy
<1>5. \A e \in Exports : Unborn(e)
  BY <1>3 DEF Init, Unborn, Exports
<1>6. Created
  BY DEF Init, Created, NoPost, PostBusy
<1>7. Held
  BY DEF Init, Held, Candidates, SweepIdle, Pending
<1>8. Aging /\ OneRunPerExport
  BY <1>4 DEF Aging, Works, Recorded, OneRunPerExport
<1> QED
  BY <1>2, <1>4, <1>5, <1>6, <1>7, <1>8 DEF Init, Base

LEMMA NextBase == Base /\ [Next]_vars => Base'
<1> SUFFICES ASSUME Base, [Next]_vars PROVE Base'
  OBVIOUS
<1>1. CASE \E q \in Requests : PostRead(q) \/ Post(q) \/ PostDies(q)
  BY <1>1, PostBase, PostCreateBase, PostStartBase, PostRecordBase DEF Post
<1>2. CASE \E r \in Runs : Run(r) \/ RunFails(r)
  BY <1>2, RunBase
<1>3. CASE StopRead \/ Stop \/ StopDies
  BY <1>3, StopBase
<1>4. CASE \E e \in Exports : Age(e)
  BY <1>4, AgeBase
<1>5. CASE Sweep \/ CallFails \/ SweepDies
  BY <1>5, FindLostBase, NextLostBase, RestartLostBase, ClaimLostBase, SweepRests DEF Sweep
<1>6. CASE AtRest \/ UNCHANGED vars
  BY <1>6, StutterBase DEF AtRest
<1> QED
  BY <1>1, <1>2, <1>3, <1>4, <1>5, <1>6 DEF Next

-----------------------------------------------------------------------------
(* What a step leaves alone. *)

LEMMA ListedFrame ==
  ASSUME NEW e \in Exports, Listed(e), documents'[e] = documents[e],
         status'[e] = status[e] \/ status'[e] # "ready",
         Stale(e)' => Stale(e) /\ stop'.seen = stop.seen
  PROVE  Listed(e)'
BY DEF Listed, Uniform, InPlan, Whole, Covers

\* An export may be asked to stop, and then be closed.
LEMMA SoundFrame ==
  ASSUME NEW r \in Runs, NEW e \in Exports, Sound(r, e),
         cancelRequested[e] \in BOOLEAN, cancelRequested'[e] \in BOOLEAN,
         documents'[e] = documents[e], cancelRequested[e] => cancelRequested'[e],
         \/ status'[e] = status[e]
         \/ cancelRequested'[e] /\ ~IsActive(e)' /\ status'[e] # "ready",
         runPc'[r] = runPc[r], wave'[r] = wave[r], left'[r] = left[r], step'[r] = step[r],
         seen'[r] = seen[r],
         Stale(e)' => Stale(e) /\ stop'.seen = stop.seen
  PROVE  Sound(r, e)'
<1>1. Alive(r, e)'
  BY DEF Sound, Alive, IsActive
<1>2. OnPlan(r, e)'
  BY DEF Sound, OnPlan, InPlan
<1>3. Done(r, e)'
  BY DEF Sound, Done, IsActive, InPlan
<1> QED
  BY <1>1, <1>2, <1>3 DEF Sound, IsActive, Uniform, InPlan, Covers, Whole, WaveDone

LEMMA RunsKept ==
  ASSUME Inv, RunsFrame
  PROVE  /\ \A r \in Runs : Placed(r)'
         /\ OneMoves'
         /\ \A r \in Runs, e \in Exports : Works(r, e)' => Works(r, e)
<1>1. \A r \in Runs : Moving(r)' => Moving(r)
  BY StillRests DEF RunsFrame
<1>2. \A r \in Runs : Placed(r)'
  BY PlacedFrame DEF Inv, RunsFrame
<1> QED
  BY <1>1, <1>2 DEF Inv, OneMoves, Works, RunsFrame

\* The rows are as they were too, and no stale list is new.
LEMMA RowsKept ==
  ASSUME Inv, RunsFrame, UNCHANGED <<status, runId, documents, cancelRequested, recoveries>>,
         stop' = stop \/ stop'.pc # "write"
  PROVE  /\ \A e \in Exports : Unborn(e)' /\ Listed(e)'
         /\ \A r \in Runs, e \in Exports : Works(r, e)' => Sound(r, e)'
<1>1. UNCHANGED <<status, runId, documents, cancelRequested, recoveries>>
  OBVIOUS
<1>2. \A e \in Exports : Stale(e)' => Stale(e) /\ stop'.seen = stop.seen
  BY DEF Stale
<1>3. \A e \in Exports : Unborn(e)'
  BY <1>1 DEF Inv, Unborn, RunsFrame
<1>4. \A e \in Exports : Listed(e)'
  BY <1>1, <1>2, ListedFrame DEF Inv
<1>5. \A e \in Exports : cancelRequested[e] \in BOOLEAN /\ cancelRequested'[e] \in BOOLEAN
  BY <1>1 DEF Inv, Typed
<1>6. ASSUME NEW r \in Runs, NEW e \in Exports, Works(r, e)'
      PROVE  Sound(r, e)'
  <2>1. Sound(r, e)
    BY <1>6, RunsKept DEF Inv
  <2> QED
    BY <1>1, <1>2, <1>5, <2>1, SoundFrame DEF RunsFrame
<1> QED
  BY <1>3, <1>4, <1>6

LEMMA PostedFrame ==
  ASSUME Posted, UNCHANGED <<post, status, runId, cancelRequested, runExport>>
  PROVE  Posted'
BY DEF Posted, IsActive

LEMMA FlaggedFrame ==
  ASSUME Flagged, UNCHANGED <<stop, status, cancelRequested>>
  PROVE  Flagged'
BY DEF Flagged, IsActive

\* The sweep may let go of what it holds for lost.
LEMMA LostFrame ==
  ASSUME Lost, UNCHANGED <<status, runId, cancelRequested>>,
         sweep'.found \subseteq sweep.found, Candidates' \subseteq Candidates,
         sweep'.pc \in SweepBusy => sweep.pc \in SweepBusy /\ sweep'.cur = sweep.cur,
         \A r \in Runs, e \in Exports : Works(r, e)' => Works(r, e),
         \A c \in Candidates : c.of \in Exports
  PROVE  Lost'
<1>1. \A c \in Candidates' : c \in Candidates /\ c.of \in Exports
  OBVIOUS
<1>2. \A c \in Candidates' :
         /\ status'[c.of] \notin {"none", "ready"} /\ runId'[c.of] # 0
         /\ IsActive(c.of)' \/ cancelRequested'[c.of]
         /\ \A r \in Runs : ~Works(r, c.of)'
  BY <1>1 DEF Lost, IsActive
<1> QED
  BY <1>2 DEF Lost

LEMMA SweepKept ==
  ASSUME Inv, RunsFrame, UNCHANGED <<status, runId, cancelRequested, sweep>>
  PROVE  Lost'
<1>1. \A r \in Runs, e \in Exports : Works(r, e)' => Works(r, e)
  BY RunsKept
<1>2. Candidates' = Candidates
  BY DEF Candidates
<1> QED
  BY <1>1, <1>2, LostFrame, CandidateType DEF Inv

-----------------------------------------------------------------------------
(* POST. *)

LEMMA PostReadKeeps ==
  ASSUME Inv, NEW q \in Requests, PostRead(q)
  PROVE  Inv'
<1>1. /\ post' = [post EXCEPT ![q].pc = "create"]
      /\ UNCHANGED <<rowVars, runVars, stop, sweep, faults>>
  BY DEF PostRead
<1>2. /\ UNCHANGED <<status, runId, documents, cancelRequested, recoveries>>
      /\ UNCHANGED <<runExport, runPc, wave, left, step, seen, cancelled>>
  BY <1>1 DEF rowVars, runVars
<1>3. RunsFrame
  BY <1>2 DEF RunsFrame
<1>4. /\ [post[q] EXCEPT !.pc = "create"] \in PostState
      /\ post' = [post EXCEPT ![q] = [post[q] EXCEPT !.pc = "create"]]
  BY <1>1 DEF Inv, Typed, PostState
<1>5. /\ post'[q].pc = "create" /\ \A p \in Requests \ {q} : post'[p] = post[p]
      /\ post' \in [Requests -> PostState]
  BY <1>4 DEF Inv, Typed, PostState
<1>6. Typed'
  BY <1>1, <1>2, <1>5 DEF Inv, Typed, PostBusy
<1>7. Posted'
  BY <1>2, <1>5 DEF Inv, Posted, PostBusy, IsActive
<1>8. Lost' /\ Flagged'
  BY <1>1, <1>2, <1>3, SweepKept, FlaggedFrame DEF Inv
<1> QED
  BY <1>1, <1>2, <1>3, <1>6, <1>7, <1>8, RunsKept, RowsKept DEF Inv

LEMMA PostDiesKeeps ==
  ASSUME Inv, NEW q \in Requests, PostDies(q)
  PROVE  Inv'
<1>1. /\ post' = [post EXCEPT ![q] = NoPost] /\ faults < MaxFaults /\ faults' = faults + 1
      /\ UNCHANGED <<rowVars, runVars, stop, sweep>>
  BY DEF PostDies
<1>2. /\ UNCHANGED <<status, runId, documents, cancelRequested, recoveries>>
      /\ UNCHANGED <<runExport, runPc, wave, left, step, seen, cancelled>>
  BY <1>1 DEF rowVars, runVars
<1>3. RunsFrame
  BY <1>2 DEF RunsFrame
<1>4. NoPost \in PostState /\ NoPost.pc = "idle"
  BY DEF PostState, NoPost
<1>5. /\ post'[q].pc = "idle" /\ \A p \in Requests \ {q} : post'[p] = post[p]
      /\ post' \in [Requests -> PostState]
  BY <1>1, <1>4 DEF Inv, Typed
<1>6. faults' \in 0..MaxFaults
  BY <1>1, BoundsAssumption DEF Inv, Typed
<1>7. Typed'
  BY <1>1, <1>2, <1>5, <1>6 DEF Inv, Typed, PostBusy
<1>8. Posted'
  BY <1>2, <1>5 DEF Inv, Posted, PostBusy, IsActive
<1>9. Lost' /\ Flagged'
  BY <1>1, <1>2, <1>3, SweepKept, FlaggedFrame DEF Inv
<1> QED
  BY <1>1, <1>2, <1>3, <1>7, <1>8, <1>9, RunsKept, RowsKept DEF Inv

\* The row is nobody's yet.
LEMMA PostCreateKeeps ==
  ASSUME Inv, NEW q \in Requests, PostCreate(q)
  PROVE  Inv'
<1>1. PICK e \in Exports :
        /\ NextExport(e)
        /\ status' = [status EXCEPT ![e] = "queued"]
        /\ post' = [post EXCEPT ![q].pc = "start", ![q].of = e]
  BY DEF PostCreate
<1>2. UNCHANGED <<runId, documents, cancelRequested, recoveries, runVars, stop, sweep, faults>>
  BY DEF PostCreate
<1>3. UNCHANGED <<runExport, runPc, wave, left, step, seen, cancelled>>
  BY <1>2 DEF runVars
<1>4. RunsFrame
  BY <1>3 DEF RunsFrame
<1>5. /\ status[e] = "none" /\ status'[e] = "queued" /\ runId[e] = 0
      /\ \A f \in Exports \ {e} : status'[f] = status[f]
      /\ \A r \in Runs : runExport[r] # e
  BY <1>1 DEF Inv, Typed, NextExport, Unborn
<1>6. /\ [post[q] EXCEPT !.pc = "start", !.of = e] \in PostState
      /\ post' = [post EXCEPT ![q] = [post[q] EXCEPT !.pc = "start", !.of = e]]
  BY <1>1 DEF Inv, Typed, PostState
<1>7. /\ post'[q].pc = "start" /\ post'[q].of = e /\ \A p \in Requests \ {q} : post'[p] = post[p]
      /\ post' \in [Requests -> PostState]
  BY <1>6 DEF Inv, Typed, PostState
<1>8. status' \in [Exports -> Statuses]
  BY <1>1 DEF Inv, Typed, Statuses, Active
<1>9. Typed'
  BY <1>2, <1>3, <1>7, <1>8 DEF Inv, Typed, PostBusy
<1>10. Posted'
  <2>1. \A p \in Requests \ {q} : post[p].pc \in PostBusy => post[p].of # e /\ post[p].of \in Exports
    BY <1>5 DEF Inv, Typed, Posted
  <2> QED
    BY <1>2, <1>3, <1>5, <1>7, <2>1 DEF Inv, Posted, PostBusy, IsActive, Active
<1>11. Lost'
  <2>1. \A c \in Candidates : c.of \in Exports \ {e}
    BY <1>5, CandidateType DEF Inv, Lost
  <2>2. Candidates' = Candidates
    BY <1>2 DEF Candidates
  <2>3. sweep.pc \in SweepBusy => sweep.cur.of \in Exports \ {e}
    BY <1>5 DEF Inv, Typed, Lost, LostState
  <2>4. \A r \in Runs, f \in Exports : Works(r, f)' => Works(r, f)
    BY <1>4, RunsKept
  <2> QED
    BY <1>2, <1>5, <2>1, <2>2, <2>3, <2>4 DEF Inv, Lost, IsActive
<1>12. Flagged'
  <2>1. stop.pc # "idle" => stop.of \in Exports \ {e}
    BY <1>5 DEF Inv, Typed, Flagged
  <2> QED
    BY <1>2, <1>5, <2>1 DEF Inv, Flagged, IsActive, StopBusy
<1>13. \A f \in Exports : Unborn(f)'
  BY <1>2, <1>3, <1>5 DEF Inv, Unborn
<1>14. \A f \in Exports : Stale(f)' => Stale(f) /\ stop'.seen = stop.seen
  BY <1>2 DEF Stale
<1>15. \A f \in Exports : Listed(f)'
  BY <1>2, <1>5, <1>14, ListedFrame DEF Inv
<1>16. ASSUME NEW r \in Runs, NEW f \in Exports, Works(r, f)'
       PROVE  Sound(r, f)'
  <2>1. Works(r, f) /\ Sound(r, f)
    BY <1>4, <1>16, RunsKept DEF Inv
  <2>2. f # e
    BY <1>5, <2>1 DEF Works
  <2>3. status'[f] = status[f] /\ cancelRequested[f] \in BOOLEAN /\ cancelRequested' = cancelRequested
    BY <1>2, <1>5, <2>2 DEF Inv, Typed
  <2> QED
    BY <1>2, <1>3, <1>14, <2>1, <2>3, SoundFrame
<1> QED
  BY <1>4, <1>9, <1>10, <1>11, <1>12, <1>13, <1>15, <1>16, RunsKept DEF Inv

\* A new run of an export on which nothing moves.
LEMMA Starts ==
  ASSUME Inv, NEW e \in Exports, NEW n \in Runs, Start(e, n), UNCHANGED rowVars, stop' = stop,
         status[e] \notin {"none", "ready"}, IsActive(e) \/ cancelRequested[e],
         \A r \in Runs : ~Works(r, e)
  PROVE  /\ \A r \in Runs : Placed(r)'
         /\ OneMoves' /\ Flagged'
         /\ \A f \in Exports : Unborn(f)' /\ Listed(f)'
         /\ \A r \in Runs, f \in Exports : Works(r, f)' => Sound(r, f)'
         /\ runExport' \in [Runs -> {0} \cup Exports]
         /\ runPc' \in [Runs -> {"none", "plan", "wave", "settle", "finish", "fail", "ended"}]
         /\ runExport'[n] = e /\ \A r \in Runs \ {n} : runExport'[r] = runExport[r]
         /\ \A r \in Runs, f \in Exports : Works(r, f)' => f = e \/ Works(r, f)
<1>1. /\ UNCHANGED <<status, runId, documents, cancelRequested, recoveries>>
      /\ UNCHANGED <<wave, left, step, seen, cancelled>>
      /\ runExport' = [runExport EXCEPT ![n] = e] /\ runPc' = [runPc EXCEPT ![n] = "plan"]
      /\ runPc[n] = "none"
  BY DEF Start, NextRun, rowVars
<1>2. /\ runExport'[n] = e /\ runPc'[n] = "plan"
      /\ \A r \in Runs \ {n} : runExport'[r] = runExport[r] /\ runPc'[r] = runPc[r]
      /\ runExport' \in [Runs -> {0} \cup Exports]
      /\ runPc' \in [Runs -> {"none", "plan", "wave", "settle", "finish", "fail", "ended"}]
  BY <1>1 DEF Inv, Typed
<1>3. e # 0
  BY DEF Exports
<1>4. \A r \in Runs \ {n} : Moving(r)' => Moving(r)
  BY <1>1, <1>2, StillRests
<1>5. Placed(n) /\ step[n][0] = "idle" /\ wave[n] = {} /\ \A d \in Docs : step[n][d] = "idle"
  BY <1>1 DEF Inv, Placed
<1>6. \A r \in Runs : Placed(r)'
  <2>1. ASSUME NEW r \in Runs \ {n}
        PROVE  Placed(r)'
    BY <1>1, <1>2, PlacedFrame DEF Inv
  <2>2. Placed(n)'
    BY <1>1, <1>2, <1>3, <1>5 DEF Placed, Worked, WaveDone
  <2> QED
    BY <2>1, <2>2
<1>7. \A r \in Runs \ {n}, f \in Exports : Works(r, f)' => Works(r, f) /\ f # e
  BY <1>2, <1>4 DEF Works
<1>8. OneMoves'
  <2>1. \A r \in Runs \ {n} : Moving(r)' => runExport'[r] # e
    BY <1>2, <1>4 DEF Works
  <2> QED
    BY <1>2, <1>4, <2>1 DEF Inv, OneMoves
<1>9. \A f \in Exports : Unborn(f)'
  BY <1>1, <1>2 DEF Inv, Unborn
<1>10. \A f \in Exports : Stale(f)' => Stale(f) /\ stop'.seen = stop.seen
  BY DEF Stale
<1>11. \A f \in Exports : Listed(f)'
  BY <1>1, <1>10, ListedFrame DEF Inv
<1>12. Sound(n, e)'
  <2>1. Alive(n, e)' /\ OnPlan(n, e)' /\ Done(n, e)'
    BY <1>1, <1>2, <1>5 DEF Alive, OnPlan, Done, IsActive, Worked
  <2> QED
    BY <1>1, <1>2, <1>5, <2>1 DEF Sound, Worked
<1>13. ASSUME NEW r \in Runs, NEW f \in Exports, Works(r, f)'
       PROVE  Sound(r, f)'
  <2>1. CASE r = n
    BY <1>2, <1>12, <1>13, <2>1 DEF Works
  <2>2. CASE r # n
    <3>1. Sound(r, f)
      BY <1>7, <1>13, <2>2 DEF Inv
    <3>2. cancelRequested[f] \in BOOLEAN
      BY DEF Inv, Typed
    <3> QED
      BY <1>1, <1>2, <1>10, <2>2, <3>1, <3>2, SoundFrame
  <2> QED
    BY <2>1, <2>2
<1>14. \A r \in Runs, f \in Exports : Works(r, f)' => f = e \/ Works(r, f)
  BY <1>2, <1>7 DEF Works
<1>15. Flagged'
  BY <1>1, FlaggedFrame DEF Inv
<1> QED
  BY <1>2, <1>6, <1>8, <1>9, <1>11, <1>13, <1>14, <1>15

LEMMA PostStartKeeps ==
  ASSUME Inv, NEW q \in Requests, PostStart(q)
  PROVE  Inv'
<1>1. PICK n \in Runs :
        /\ Start(post[q].of, n)
        /\ post' = [post EXCEPT ![q].pc = "record", ![q].new = n]
  BY DEF PostStart
<1>2. PICK e \in Exports : e = post[q].of
  BY DEF Inv, Typed, PostStart, PostBusy
<1>3. /\ Start(e, n) /\ post[q].pc = "start"
      /\ UNCHANGED <<status, runId, documents, cancelRequested, recoveries, wave, left, step, seen, cancelled>>
      /\ UNCHANGED rowVars /\ UNCHANGED <<stop, sweep, faults>>
  BY <1>1, <1>2 DEF PostStart, Start, rowVars
<1>4. /\ status[e] \notin {"none", "ready"} /\ runId[e] = 0
      /\ IsActive(e) \/ cancelRequested[e]
      /\ \A r \in Runs : ~Works(r, e)
  BY <1>2, <1>3 DEF Inv, Posted, PostBusy, Works
<1>5. /\ [post[q] EXCEPT !.pc = "record", !.new = n] \in PostState
      /\ post' = [post EXCEPT ![q] = [post[q] EXCEPT !.pc = "record", !.new = n]]
  BY <1>1 DEF Inv, Typed, PostState
<1>6. /\ post'[q].pc = "record" /\ post'[q].of = e /\ \A p \in Requests \ {q} : post'[p] = post[p]
      /\ post' \in [Requests -> PostState]
  BY <1>2, <1>5 DEF Inv, Typed, PostState
<1>7. /\ \A r \in Runs : Placed(r)'
      /\ OneMoves' /\ Flagged'
      /\ \A f \in Exports : Unborn(f)' /\ Listed(f)'
      /\ \A r \in Runs, f \in Exports : Works(r, f)' => Sound(r, f)'
      /\ runExport' \in [Runs -> {0} \cup Exports]
      /\ runPc' \in [Runs -> {"none", "plan", "wave", "settle", "finish", "fail", "ended"}]
      /\ runExport'[n] = e /\ \A r \in Runs \ {n} : runExport'[r] = runExport[r]
      /\ \A r \in Runs, f \in Exports : Works(r, f)' => f = e \/ Works(r, f)
  BY <1>3, <1>4, Starts
<1>8. Typed'
  BY <1>3, <1>6, <1>7 DEF Inv, Typed, PostBusy
<1>9. Posted'
  <2>1. \A p \in Requests \ {q} : post[p].pc \in PostBusy => post[p].of # e
    BY <1>2, <1>3 DEF Inv, Posted, PostBusy
  <2> QED
    BY <1>3, <1>4, <1>6, <1>7, <2>1 DEF Inv, Posted, PostBusy, IsActive
<1>10. Lost'
  <2>1. \A c \in Candidates : c.of # e
    BY <1>4 DEF Inv, Lost
  <2>2. Candidates' = Candidates
    BY <1>3 DEF Candidates
  <2>3. \A c \in Candidates : c.of \in Exports
    BY CandidateType DEF Inv
  <2> QED
    BY <1>3, <1>7, <2>1, <2>2, <2>3 DEF Inv, Lost, IsActive
<1> QED
  BY <1>7, <1>8, <1>9, <1>10 DEF Inv

LEMMA PostRecordKeeps ==
  ASSUME Inv, NEW q \in Requests, PostRecord(q)
  PROVE  Inv'
<1>1. PICK e \in Exports : e = post[q].of
  BY DEF Inv, Typed, PostRecord, PostBusy
<1>2. /\ post[q].pc = "record" /\ runId' = [runId EXCEPT ![e] = post[q].new]
      /\ post' = [post EXCEPT ![q] = NoPost]
      /\ UNCHANGED <<status, documents, cancelRequested, recoveries, runVars, stop, sweep, faults>>
  BY <1>1 DEF PostRecord
<1>3. UNCHANGED <<runExport, runPc, wave, left, step, seen, cancelled>>
  BY <1>2 DEF runVars
<1>4. RunsFrame
  BY <1>3 DEF RunsFrame
<1>5. /\ status[e] # "none" /\ runId[e] = 0
      /\ \A f \in Exports \ {e} : runId'[f] = runId[f]
  BY <1>1, <1>2 DEF Inv, Typed, Posted, PostBusy
<1>6. NoPost \in PostState /\ NoPost.pc = "idle"
  BY DEF PostState, NoPost
<1>7. /\ post'[q].pc = "idle" /\ \A p \in Requests \ {q} : post'[p] = post[p]
      /\ post' \in [Requests -> PostState]
  BY <1>2, <1>6 DEF Inv, Typed
<1>8. runId' \in [Exports -> {0} \cup Runs]
  <2>1. post[q].new \in {0} \cup Runs
    BY DEF Inv, Typed, PostState
  <2> QED
    BY <1>2, <2>1 DEF Inv, Typed
<1>9. Typed'
  BY <1>2, <1>3, <1>7, <1>8 DEF Inv, Typed, PostBusy
<1>10. Posted'
  <2>1. \A p \in Requests \ {q} : post[p].pc \in PostBusy => post[p].of # e /\ post[p].of \in Exports
    BY <1>1, <1>2 DEF Inv, Typed, Posted, PostBusy
  <2> QED
    BY <1>2, <1>3, <1>5, <1>7, <2>1 DEF Inv, Posted, PostBusy, IsActive
<1>11. Lost'
  <2>1. \A c \in Candidates : c.of \in Exports \ {e}
    BY <1>5, CandidateType DEF Inv, Lost
  <2>2. Candidates' = Candidates
    BY <1>2 DEF Candidates
  <2>3. sweep.pc \in SweepBusy => sweep.cur.of \in Exports \ {e}
    BY <1>5 DEF Inv, Typed, Lost, LostState
  <2>4. \A r \in Runs, f \in Exports : Works(r, f)' => Works(r, f)
    BY <1>4, RunsKept
  <2> QED
    BY <1>2, <1>5, <2>1, <2>2, <2>3, <2>4 DEF Inv, Lost, IsActive
<1>12. \A f \in Exports : Unborn(f)'
  BY <1>2, <1>3, <1>5 DEF Inv, Unborn
<1>13. \A f \in Exports : Stale(f)' => Stale(f) /\ stop'.seen = stop.seen
  BY <1>2 DEF Stale
<1>14. \A f \in Exports : Listed(f)'
  BY <1>2, <1>13, ListedFrame DEF Inv
<1>15. ASSUME NEW r \in Runs, NEW f \in Exports, Works(r, f)'
       PROVE  Sound(r, f)'
  <2>1. Sound(r, f) /\ cancelRequested[f] \in BOOLEAN
    BY <1>4, <1>15, RunsKept DEF Inv, Typed
  <2> QED
    BY <1>2, <1>3, <1>13, <2>1, SoundFrame
<1>16. Flagged'
  BY <1>2, FlaggedFrame DEF Inv
<1> QED
  BY <1>4, <1>9, <1>10, <1>11, <1>12, <1>14, <1>15, <1>16, RunsKept DEF Inv

-----------------------------------------------------------------------------
(* DELETE. *)

LEMMA StopReadKeeps ==
  ASSUME Inv, StopRead
  PROVE  Inv'
<1>1. PICK e \in Exports : IsActive(e) /\ stop' = [NoStop EXCEPT !.pc = "flag", !.of = e, !.run = runId[e]]
  BY DEF StopRead
<1>2. /\ UNCHANGED <<rowVars, runVars, post, sweep, faults>>
      /\ UNCHANGED <<status, runId, documents, cancelRequested, recoveries>>
      /\ UNCHANGED <<runExport, runPc, wave, left, step, seen, cancelled>>
  BY DEF StopRead, rowVars, runVars
<1>3. RunsFrame
  BY <1>2 DEF RunsFrame
<1>4. stop' \in StopState /\ stop'.pc = "flag" /\ stop'.of = e
  <2>1. runId[e] \in {0} \cup Runs /\ Nothing \in Lists
    BY ListTypes DEF Inv, Typed
  <2>2. stop' = [pc |-> "flag", of |-> e, run |-> runId[e], seen |-> Nothing]
    BY <1>1 DEF NoStop
  <2> QED
    BY <2>1, <2>2 DEF StopState
<1>5. Typed'
  BY <1>2, <1>4 DEF Inv, Typed
<1>6. Flagged'
  BY <1>1, <1>2, <1>4 DEF Flagged, StopBusy, IsActive, Active
<1>7. Posted' /\ Lost'
  BY <1>2, <1>3, PostedFrame, SweepKept DEF Inv
<1> QED
  BY <1>2, <1>3, <1>4, <1>5, <1>6, <1>7, RunsKept, RowsKept DEF Inv

LEMMA StopDiesKeeps ==
  ASSUME Inv, StopDies
  PROVE  Inv'
<1>1. /\ faults < MaxFaults /\ faults' = faults + 1 /\ stop' = NoStop
      /\ UNCHANGED <<rowVars, runVars, post, sweep>>
      /\ UNCHANGED <<status, runId, documents, cancelRequested, recoveries>>
      /\ UNCHANGED <<runExport, runPc, wave, left, step, seen, cancelled>>
  BY DEF StopDies, rowVars, runVars
<1>2. RunsFrame
  BY <1>1 DEF RunsFrame
<1>3. stop' \in StopState /\ stop'.pc = "idle"
  BY <1>1, ListTypes DEF Inv, NoStop, StopState
<1>4. faults' \in 0..MaxFaults
  BY <1>1, BoundsAssumption DEF Inv, Typed
<1>5. Typed'
  BY <1>1, <1>3, <1>4 DEF Inv, Typed
<1>6. Flagged'
  BY <1>3 DEF Flagged, StopBusy
<1>7. Posted' /\ Lost'
  BY <1>1, <1>2, PostedFrame, SweepKept DEF Inv
<1> QED
  BY <1>1, <1>2, <1>3, <1>5, <1>6, <1>7, RunsKept, RowsKept DEF Inv

LEMMA StopCancelKeeps ==
  ASSUME Inv, StopCancel
  PROVE  Inv'
<1>1. /\ stop.pc = "cancel" /\ cancelled' = Cancelled(stop.run)
      /\ stop' = [stop EXCEPT !.pc = "read"]
      /\ UNCHANGED <<rowVars, post, sweep, faults>>
      /\ UNCHANGED <<status, runId, documents, cancelRequested, recoveries>>
      /\ UNCHANGED <<runExport, runPc, wave, left, step, seen>>
  BY DEF StopCancel, rowVars
<1>2. cancelled' \in [Runs -> BOOLEAN] /\ RunsFrame
  BY <1>1, CancelledRuns DEF Inv, RunsFrame
<1>3. stop' \in StopState /\ stop'.pc = "read" /\ stop'.of = stop.of
  BY <1>1 DEF Inv, Typed, StopState
<1>4. Typed'
  BY <1>1, <1>2, <1>3 DEF Inv, Typed
<1>5. Flagged'
  BY <1>1, <1>3 DEF Inv, Flagged, StopBusy, IsActive
<1>6. Posted' /\ Lost'
  BY <1>1, <1>2, PostedFrame, SweepKept DEF Inv
<1> QED
  BY <1>1, <1>2, <1>3, <1>4, <1>5, <1>6, RunsKept, RowsKept DEF Inv

LEMMA StopFlagKeeps ==
  ASSUME Inv, StopFlag
  PROVE  Inv'
<1>1. PICK e \in Exports : e = stop.of
  BY DEF Inv, Typed, StopFlag
<1>2. /\ stop.pc = "flag"
      /\ cancelRequested' = [cancelRequested EXCEPT ![e] = @ \/ IsActive(e)]
      /\ stop' = [stop EXCEPT !.pc = "cancel"]
      /\ UNCHANGED <<status, runId, documents, recoveries, post, sweep, faults>>
      /\ UNCHANGED <<runExport, runPc, wave, left, step, seen, cancelled>>
  BY <1>1 DEF StopFlag, runVars
<1>3. RunsFrame
  BY <1>2 DEF RunsFrame
<1>4. stop' \in StopState /\ stop'.pc = "cancel" /\ stop'.of = e
  BY <1>1, <1>2 DEF Inv, Typed, StopState
<1>5. /\ cancelRequested' \in [Exports -> BOOLEAN]
      /\ \A f \in Exports : cancelRequested[f] => cancelRequested'[f]
      /\ IsActive(e) => cancelRequested'[e]
  <2>1. cancelRequested \in [Exports -> BOOLEAN] /\ IsActive(e) \in BOOLEAN
    BY DEF Inv, Typed, IsActive
  <2> QED
    BY <1>2, <2>1
<1>6. Typed'
  BY <1>2, <1>4, <1>5 DEF Inv, Typed
<1>7. Flagged'
  BY <1>1, <1>2, <1>4, <1>5 DEF Inv, Flagged, StopBusy, IsActive
<1>8. Posted'
  <2>1. \A q \in Requests : post[q].pc \in PostBusy => post[q].of \in Exports
    BY DEF Inv, Typed
  <2> QED
    BY <1>2, <1>5, <2>1 DEF Inv, Posted, PostBusy, IsActive
<1>9. Lost'
  <2>1. \A r \in Runs, f \in Exports : Works(r, f)' => Works(r, f)
    BY <1>3, RunsKept
  <2>2. Candidates' = Candidates /\ \A c \in Candidates : c.of \in Exports
    BY <1>2, CandidateType DEF Inv, Candidates
  <2> QED
    BY <1>2, <1>5, <2>1, <2>2 DEF Inv, Lost, IsActive
<1>10. \A f \in Exports : ~Stale(f)'
  BY <1>4 DEF Stale
<1>11. \A f \in Exports : Unborn(f)' /\ Listed(f)'
  BY <1>2, <1>10, ListedFrame DEF Inv, Unborn
<1>12. ASSUME NEW r \in Runs, NEW f \in Exports, Works(r, f)'
       PROVE  Sound(r, f)'
  <2>1. Sound(r, f) /\ cancelRequested[f] \in BOOLEAN /\ cancelRequested'[f] \in BOOLEAN
    BY <1>3, <1>5, <1>12, RunsKept DEF Inv, Typed
  <2>2. cancelRequested[f] => cancelRequested'[f]
    BY <1>5
  <2> QED
    BY <1>2, <1>10, <2>1, <2>2, SoundFrame
<1> QED
  BY <1>3, <1>6, <1>7, <1>8, <1>9, <1>11, <1>12, RunsKept DEF Inv

\* What the handler reads is the list, and so covered by it.
LEMMA StopSettleReadKeeps ==
  ASSUME Inv, StopSettleRead
  PROVE  Inv'
<1>1. PICK e \in Exports : e = stop.of
  BY DEF Inv, Typed, StopSettleRead
<1>2. /\ stop.pc = "read" /\ stop' = [stop EXCEPT !.pc = "write", !.seen = documents[e]]
      /\ UNCHANGED <<rowVars, runVars, post, sweep, faults>>
      /\ UNCHANGED <<status, runId, documents, cancelRequested, recoveries>>
      /\ UNCHANGED <<runExport, runPc, wave, left, step, seen, cancelled>>
  BY <1>1 DEF StopSettleRead, rowVars, runVars
<1>3. RunsFrame
  BY <1>2 DEF RunsFrame
<1>4. stop' \in StopState /\ stop'.pc = "write" /\ stop'.of = e /\ stop'.seen = documents[e]
  BY <1>1, <1>2, ListTypes DEF Inv, Typed, StopState
<1>5. Typed'
  BY <1>2, <1>4 DEF Inv, Typed
<1>6. Flagged'
  BY <1>1, <1>2, <1>4 DEF Inv, Flagged, StopBusy, IsActive
<1>7. Posted' /\ Lost'
  BY <1>2, <1>3, PostedFrame, SweepKept DEF Inv
<1>8. \A f \in Exports : Stale(f)' => stop'.seen = documents[f]
  BY <1>4 DEF Stale
<1>9. \A f \in Exports : Unborn(f)' /\ Listed(f)'
  BY <1>2, <1>8 DEF Inv, Unborn, Listed, Uniform, Covers, InPlan, Whole
<1>10. ASSUME NEW r \in Runs, NEW f \in Exports, Works(r, f)'
       PROVE  Sound(r, f)'
  <2>1. Sound(r, f)
    BY <1>3, <1>10, RunsKept DEF Inv
  <2>2. Alive(r, f)' /\ Done(r, f)'
    BY <1>2, <2>1 DEF Sound, Alive, Done, IsActive, InPlan
  <2>3. OnPlan(r, f)'
    BY <1>2, <1>8, <2>1 DEF Sound, OnPlan, InPlan
  <2> QED
    BY <1>2, <1>8, <2>1, <2>2, <2>3 DEF Sound, IsActive, Uniform, InPlan, Covers, Whole, WaveDone
<1> QED
  BY <1>3, <1>5, <1>6, <1>7, <1>9, <1>10, RunsKept DEF Inv

\* The stale list knows of nothing that the row has not: nothing exported comes back, and
\* an export that is ready, or about to be, is left as it is.
LEMMA StopSettleWriteKeeps ==
  ASSUME Inv, StopSettleWrite
  PROVE  Inv'
<1>1. PICK e \in Exports : e = stop.of
  BY DEF Inv, Typed, StopSettleWrite
<1>2. /\ stop.pc = "write" /\ documents' = [documents EXCEPT ![e] = Settled(stop.seen)]
      /\ stop' = [stop EXCEPT !.pc = "close", !.seen = Nothing]
      /\ UNCHANGED <<status, runId, cancelRequested, recoveries, post, sweep, faults>>
      /\ UNCHANGED <<runExport, runPc, wave, left, step, seen, cancelled>>
  BY <1>1 DEF StopSettleWrite, runVars
<1>3. RunsFrame
  BY <1>2 DEF RunsFrame
<1>4. PICK list \in Lists : list = stop.seen
  BY ListTypes DEF Inv
<1>5. /\ documents' \in [Exports -> Lists] /\ documents'[e] = Settled(list)
      /\ \A f \in Exports \ {e} : documents'[f] = documents[f]
  BY <1>2, <1>4, SettledList DEF Inv, Typed
<1>6. stop' \in StopState /\ stop'.pc = "close" /\ stop'.of = e
  BY <1>1, <1>2, ListTypes DEF Inv, Typed, StopState
<1>7. Typed'
  BY <1>2, <1>5, <1>6 DEF Inv, Typed
<1>8. Flagged'
  BY <1>1, <1>2, <1>6 DEF Inv, Flagged, StopBusy, IsActive
<1>9. Posted' /\ Lost'
  BY <1>2, <1>3, PostedFrame, SweepKept DEF Inv
<1>10. \A f \in Exports : ~Stale(f)'
  BY <1>6 DEF Stale
<1>11. /\ Stale(e) /\ Uniform(list) /\ Covers(list, documents[e])
       /\ status[e] = "ready" => list = documents[e] /\ Whole(documents[e])
  BY <1>1, <1>2, <1>4 DEF Inv, Listed, Stale
<1>12. /\ Whole(list) => Settled(list) = list
       /\ InPlan(Settled(list)) <=> InPlan(list)
       /\ \A d \in Docs : Settled(list)[d] = "exported" <=> list[d] = "exported"
       /\ Uniform(Settled(list)) /\ (list = Nothing => Settled(list) = Nothing)
  BY <1>11, SettledList DEF Whole
<1>13. ASSUME NEW f \in Exports
       PROVE  Unborn(f)' /\ Listed(f)'
  <2>1. Unborn(f)'
    BY <1>2 DEF Inv, Unborn
  <2>2. CASE f # e
    BY <1>2, <1>5, <1>10, <2>1, <2>2, ListedFrame DEF Inv
  <2>3. CASE f = e
    <3>1. Uniform(documents[e])'
      BY <1>5, <1>12 DEF Uniform, InPlan
    <3>2. status'[e] = "ready" => Whole(documents[e])'
      BY <1>2, <1>5, <1>11, <1>12 DEF Whole
    <3> QED
      BY <1>10, <2>1, <2>3, <3>1, <3>2 DEF Listed
  <2> QED
    BY <2>2, <2>3
<1>14. ASSUME NEW r \in Runs, NEW f \in Exports, Works(r, f)'
       PROVE  Sound(r, f)'
  <2>1. Sound(r, f) /\ cancelRequested[f] \in BOOLEAN
    BY <1>3, <1>14, RunsKept, ListTypes DEF Inv
  <2>2. CASE f # e
    BY <1>2, <1>5, <1>10, <2>1, <2>2, SoundFrame
  <2>3. CASE f = e
    <3>1. cancelRequested[e] \/ ~IsActive(e)
      BY <1>1, <1>2 DEF Inv, Flagged, StopBusy
    <3>2. Alive(r, e)' /\ Done(r, e)'
      BY <1>2, <2>1, <2>3, <3>1 DEF Sound, Alive, Done, IsActive
    <3>3. OnPlan(r, e)'
      <4>1. OnPlan(r, e)
        BY <2>1, <2>3 DEF Sound
      <4>2. ASSUME (\/ \E d \in Docs : step[r][d] \in Worked
                    \/ ~cancelRequested[e] /\ (runPc[r] \in {"wave", "settle", "finish"} \/ wave[r] # {}))
            PROVE  InPlan(Settled(list))
        BY <1>4, <1>11, <1>12, <4>1, <4>2 DEF OnPlan
      <4> QED
        BY <1>2, <1>5, <1>10, <4>2 DEF OnPlan, InPlan
    <3>4. step[r][0] = "list" => Settled(list) = Nothing
      <4>1. ASSUME documents[e] = Nothing, list # Nothing
            PROVE  Settled(list) = Nothing
        <5>1. InPlan(Nothing)
          BY <1>11, <4>1 DEF Uniform, Covers
        <5>2. Docs = {}
          BY <5>1 DEF InPlan, Nothing
        <5> QED
          BY <5>2 DEF Settled, Nothing
      <4> QED
        BY <1>12, <2>1, <2>3, <4>1 DEF Sound
    <3>5. step[r][0] = "settle" => Uniform(seen[r]) /\ Covers(Settled(list), seen[r])
      BY <1>11, <1>12, <2>1, <2>3 DEF Sound, Covers
    <3>6. \A d \in Docs : step[r][d] \in Worked => Settled(list)[d] # "exported"
      BY <1>11, <1>12, <2>1, <2>3 DEF Sound, Covers
    <3>7. step[r][0] = "ready" /\ IsActive(e) => Whole(Settled(list))
      BY <1>4, <1>11, <1>12, <2>1, <2>3 DEF Sound
    <3>8. status[e] = "ready" => runPc[r] \in {"finish", "fail", "ended"} /\ WaveDone(r)
      BY <2>1, <2>3 DEF Sound
    <3> QED
      BY <1>2, <1>5, <1>10, <2>3, <3>2, <3>3, <3>4, <3>5, <3>6, <3>7, <3>8
         DEF Sound, IsActive, Uniform, InPlan, Covers, Whole, WaveDone
  <2> QED
    BY <2>2, <2>3
<1> QED
  BY <1>3, <1>7, <1>8, <1>9, <1>13, <1>14, RunsKept DEF Inv

LEMMA StopCloseKeeps ==
  ASSUME Inv, StopClose
  PROVE  Inv'
<1>1. PICK e \in Exports : e = stop.of
  BY DEF Inv, Typed, StopClose
<1>2. /\ stop.pc = "close" /\ stop' = NoStop
      /\ status' = [status EXCEPT ![e] = IF IsActive(e) THEN "cancelled" ELSE @]
      /\ UNCHANGED <<runId, documents, cancelRequested, recoveries, post, sweep, faults>>
      /\ UNCHANGED <<runExport, runPc, wave, left, step, seen, cancelled>>
  BY <1>1 DEF StopClose, runVars
<1>3. RunsFrame
  BY <1>2 DEF RunsFrame
<1>4. stop' \in StopState /\ stop'.pc = "idle"
  BY <1>2, ListTypes DEF Inv, NoStop, StopState
<1>5. IsActive(e) => cancelRequested[e]
  BY <1>1, <1>2 DEF Inv, Flagged, StopBusy
<1>6. \A f \in Exports : \/ status'[f] = status[f]
                         \/ /\ cancelRequested'[f] /\ ~IsActive(f)' /\ IsActive(f)
                            /\ status'[f] # "ready" /\ status'[f] # "none"
  BY <1>2, <1>5 DEF Inv, Typed, IsActive, Active
<1>7. status' \in [Exports -> Statuses]
  BY <1>2 DEF Inv, Typed, Statuses
<1>8. Typed'
  BY <1>2, <1>4, <1>7 DEF Inv, Typed
<1>9. Flagged'
  BY <1>4 DEF Flagged, StopBusy
<1>10. Posted'
  <2>1. \A q \in Requests : post[q].pc \in PostBusy => post[q].of \in Exports
    BY DEF Inv, Typed
  <2> QED
    BY <1>2, <1>6, <2>1 DEF Inv, Posted, PostBusy, IsActive
<1>11. Lost'
  <2>1. \A r \in Runs, f \in Exports : Works(r, f)' => Works(r, f)
    BY <1>3, RunsKept
  <2>2. Candidates' = Candidates /\ \A c \in Candidates : c.of \in Exports
    BY <1>2, CandidateType DEF Inv, Candidates
  <2>3. sweep.pc \in SweepBusy => sweep.cur.of \in Exports
    BY DEF Inv, Typed, LostState
  <2> QED
    BY <1>2, <1>6, <2>1, <2>2, <2>3 DEF Inv, Lost, IsActive
<1>12. \A f \in Exports : ~Stale(f)'
  BY <1>4 DEF Stale
<1>13. ASSUME NEW f \in Exports
       PROVE  Unborn(f)' /\ Listed(f)'
  <2>1. Unborn(f)'
    BY <1>2, <1>6 DEF Inv, Unborn
  <2> QED
    BY <1>2, <1>6, <1>12, <2>1, ListedFrame DEF Inv
<1>14. ASSUME NEW r \in Runs, NEW f \in Exports, Works(r, f)'
       PROVE  Sound(r, f)'
  <2>1. Sound(r, f) /\ cancelRequested[f] \in BOOLEAN
    BY <1>3, <1>14, RunsKept, ListTypes DEF Inv
  <2> QED
    BY <1>2, <1>6, <1>12, <2>1, SoundFrame
<1> QED
  BY <1>3, <1>8, <1>9, <1>10, <1>11, <1>13, <1>14, RunsKept DEF Inv

-----------------------------------------------------------------------------
(* The sweep. *)

\* A step of the sweep that touches neither rows nor runs, save for cancelling one.
LEMMA SweepKeeps ==
  ASSUME Inv, RunsFrame, UNCHANGED rowVars, UNCHANGED <<post, stop>>,
         cancelled' \in [Runs -> BOOLEAN], faults' \in 0..MaxFaults, sweep' \in SweepState,
         sweep'.pc \in SweepBusy => sweep'.cur \in LostState,
         sweep'.pc \in {"start", "claim"} => sweep'.cur.recoveries < MaxRecoveries,
         Lost'
  PROVE  Inv'
<1>1. /\ UNCHANGED <<status, runId, documents, cancelRequested, recoveries>>
      /\ UNCHANGED <<runExport, runPc, wave, left, step, seen>>
  BY DEF rowVars, RunsFrame
<1>2. Typed'
  BY <1>1 DEF Inv, Typed
<1>3. Posted' /\ Flagged'
  BY <1>1, PostedFrame, FlaggedFrame DEF Inv
<1> QED
  BY <1>1, <1>2, <1>3, RunsKept, RowsKept DEF Inv

LEMMA SweepLetsGo ==
  ASSUME Inv, RunsFrame, UNCHANGED rowVars, sweep'.found \subseteq sweep.found,
         Candidates' \subseteq Candidates,
         sweep'.pc \in SweepBusy => sweep.pc \in SweepBusy /\ sweep'.cur = sweep.cur
  PROVE  Lost'
<1>1. UNCHANGED <<status, runId, cancelRequested>>
  BY DEF rowVars
<1>2. \A r \in Runs, f \in Exports : Works(r, f)' => Works(r, f)
  BY RunsKept
<1> QED
  BY <1>1, <1>2, LostFrame, CandidateType DEF Inv

LEMMA FindLostKeeps ==
  ASSUME Base, Tracked, Inv, FindLost
  PROVE  Inv'
<1> DEFINE row(e) == [of |-> e, run |-> runId[e], asked |-> cancelRequested[e], recoveries |-> recoveries[e]]
<1>1. /\ sweep.pc = "idle"
      /\ sweep' = [sweep EXCEPT !.pc = "next", !.found = {row(e) : e \in {f \in Exports : Stalled(f)}}]
      /\ UNCHANGED <<rowVars, runVars, post, stop, faults>>
      /\ UNCHANGED <<status, runId, documents, cancelRequested, recoveries>>
      /\ UNCHANGED <<runExport, runPc, wave, left, step, seen, cancelled>>
  BY DEF FindLost, rowVars, runVars
<1>2. RunsFrame
  BY <1>1 DEF RunsFrame
<1>3. ASSUME NEW e \in Exports, Stalled(e)
      PROVE  /\ row(e) \in LostState /\ row(e).of = e
             /\ IsActive(e) /\ runId[e] # 0 /\ \A r \in Runs : ~Works(r, e)
  <2>1. runId[e] \in {0} \cup Runs /\ cancelRequested[e] \in BOOLEAN /\ recoveries[e] \in 0..MaxRecoveries
    BY DEF Inv, Typed
  <2>2. \A r \in Runs : ~Works(r, e)
    BY <1>3, FindLostBase DEF Resting, Recorded, Tracked
  <2> QED
    BY <1>3, <2>1, <2>2 DEF Stalled, LostState
<1>4. PICK S : S = {row(e) : e \in {f \in Exports : Stalled(f)}}
  OBVIOUS
<1>5. \A c \in S : \E e \in Exports : Stalled(e) /\ c = row(e)
  BY <1>4
<1> HIDE DEF row
<1>6. /\ \A c \in S : /\ c \in LostState /\ c.of \in Exports
                      /\ IsActive(c.of) /\ runId[c.of] # 0 /\ \A r \in Runs : ~Works(r, c.of)
      /\ \A c, d \in S : c.of = d.of => c = d
  BY <1>3, <1>5
<1>7. sweep' \in SweepState /\ sweep'.pc = "next" /\ sweep'.found = S
  BY <1>1, <1>4, <1>6 DEF Inv, Typed, SweepState
<1>8. Candidates' = S
  BY <1>7 DEF Candidates
<1>9. Lost'
  <2>1. \A r \in Runs, f \in Exports : Works(r, f)' => Works(r, f)
    BY <1>2, RunsKept
  <2>2. \A c \in S : status[c.of] \notin {"none", "ready"}
    BY <1>6 DEF IsActive, Active
  <2> QED
    BY <1>1, <1>6, <1>7, <1>8, <2>1, <2>2 DEF Lost, IsActive, SweepBusy
<1>10. cancelled' \in [Runs -> BOOLEAN] /\ faults' \in 0..MaxFaults
  BY <1>1 DEF Inv, Typed
<1> QED
  BY <1>1, <1>2, <1>7, <1>9, <1>10, SweepKeeps DEF SweepBusy

LEMMA NextLostKeeps ==
  ASSUME Inv, NextLost
  PROVE  Inv'
<1>1. /\ sweep.pc = "next" /\ UNCHANGED <<rowVars, runVars, post, stop, faults>>
      /\ UNCHANGED <<status, runId, documents, cancelRequested, recoveries>>
      /\ UNCHANGED <<runExport, runPc, wave, left, step, seen, cancelled>>
  BY DEF NextLost, rowVars, runVars
<1>2. RunsFrame /\ cancelled' \in [Runs -> BOOLEAN] /\ faults' \in 0..MaxFaults
  BY <1>1 DEF Inv, Typed, RunsFrame
<1>3. CASE sweep' = SweepIdle
  <2>1. /\ sweep' \in SweepState /\ sweep'.pc \notin SweepBusy
        /\ sweep'.found \subseteq sweep.found /\ Candidates' \subseteq Candidates
    BY <1>3, Letting DEF Inv
  <2>2. Lost'
    BY <1>1, <1>2, <2>1, SweepLetsGo
  <2> QED
    BY <1>1, <1>2, <2>1, <2>2, SweepKeeps DEF SweepBusy
<1>4. CASE \E c \in sweep.found :
             sweep' = [sweep EXCEPT !.pc = "cancel", !.found = @ \ {c}, !.cur = c]
  <2>1. PICK c \in sweep.found :
             sweep' = [sweep EXCEPT !.pc = "cancel", !.found = @ \ {c}, !.cur = c]
    BY <1>4
  <2>2. sweep.found \subseteq LostState /\ c \in LostState /\ c.of \in Exports
    BY DEF Inv, Typed, SweepState, LostState
  <2>3. /\ sweep' \in SweepState /\ sweep'.pc = "cancel" /\ sweep'.cur = c
        /\ sweep'.found = sweep.found \ {c}
    BY <2>1, <2>2 DEF Inv, Typed, SweepState
  <2>4. Candidates = sweep.found /\ Candidates' = sweep.found
    BY <1>1, <2>3 DEF Candidates
  <2>5. Lost'
    <3>1. \A r \in Runs, f \in Exports : Works(r, f)' => Works(r, f)
      BY <1>2, RunsKept
    <3>2. \A d \in sweep.found : d.of \in Exports
      BY <2>2 DEF LostState
    <3> QED
      BY <1>1, <2>3, <2>4, <3>1, <3>2 DEF Inv, Lost, IsActive
  <2> QED
    BY <1>1, <1>2, <2>2, <2>3, <2>5, SweepKeeps
<1> QED
  BY <1>3, <1>4 DEF NextLost

LEMMA CancelLostKeeps ==
  ASSUME Inv, CancelLost
  PROVE  Inv'
<1>1. PICK next \in {"close", "start"} : next = IF sweep.cur.asked \/ GivesUp(sweep.cur) THEN "close" ELSE "start"
  OBVIOUS
<1>2. /\ sweep.pc = "cancel" /\ cancelled' = Cancelled(sweep.cur.run)
      /\ sweep' = [sweep EXCEPT !.pc = next]
      /\ UNCHANGED <<rowVars, post, stop, faults>>
      /\ UNCHANGED <<runExport, runPc, wave, left, step, seen>>
  BY <1>1 DEF CancelLost
<1>3. RunsFrame /\ cancelled' \in [Runs -> BOOLEAN] /\ faults' \in 0..MaxFaults
  BY <1>2, CancelledRuns DEF Inv, Typed, RunsFrame
<1>4. sweep' \in SweepState /\ sweep'.pc = next /\ sweep'.cur = sweep.cur /\ sweep'.found = sweep.found
  BY <1>2 DEF Inv, Typed, SweepState
<1>5. sweep.cur \in LostState
  BY <1>2 DEF Inv, Typed, SweepBusy
<1>6. next = "start" => sweep.cur.recoveries < MaxRecoveries
  BY <1>1, <1>5, BoundsAssumption DEF GivesUp, LostState
<1>7. Lost'
  <2>1. Candidates' = Candidates
    BY <1>1, <1>2, <1>4 DEF Candidates
  <2> QED
    BY <1>2, <1>3, <1>4, <2>1, SweepLetsGo DEF SweepBusy
<1> QED
  BY <1>2, <1>3, <1>4, <1>5, <1>6, <1>7, SweepKeeps

LEMMA StopSurplusKeeps ==
  ASSUME Inv, StopSurplus
  PROVE  Inv'
<1>1. /\ cancelled' = Cancelled(sweep.new) /\ sweep' = Skipped
      /\ UNCHANGED <<rowVars, post, stop, faults>>
      /\ UNCHANGED <<runExport, runPc, wave, left, step, seen>>
  BY DEF StopSurplus
<1>2. RunsFrame /\ cancelled' \in [Runs -> BOOLEAN] /\ faults' \in 0..MaxFaults
  BY <1>1, CancelledRuns DEF Inv, Typed, RunsFrame
<1>3. /\ sweep' \in SweepState /\ sweep'.pc \notin SweepBusy
      /\ sweep'.found \subseteq sweep.found /\ Candidates' \subseteq Candidates
  BY <1>1, Letting DEF Inv
<1>4. Lost'
  BY <1>1, <1>2, <1>3, SweepLetsGo
<1> QED
  BY <1>1, <1>2, <1>3, <1>4, SweepKeeps DEF SweepBusy

\* A call of the sweep fails, or the sweep dies.
LEMMA SweepFailsKeeps ==
  ASSUME Inv, CallFails \/ SweepDies
  PROVE  Inv'
<1>1. /\ faults < MaxFaults /\ faults' = faults + 1
      /\ (sweep' = SweepIdle \/ sweep' = Skipped)
      /\ UNCHANGED <<rowVars, runVars, post, stop>>
      /\ UNCHANGED <<runExport, runPc, wave, left, step, seen, cancelled>>
  BY DEF CallFails, SweepDies, runVars
<1>2. RunsFrame /\ cancelled' \in [Runs -> BOOLEAN] /\ faults' \in 0..MaxFaults
  BY <1>1, BoundsAssumption DEF Inv, Typed, RunsFrame
<1>3. /\ sweep' \in SweepState /\ sweep'.pc \notin SweepBusy
      /\ sweep'.found \subseteq sweep.found /\ Candidates' \subseteq Candidates
  BY <1>1, Letting DEF Inv
<1>4. Lost'
  BY <1>1, <1>2, <1>3, SweepLetsGo
<1> QED
  BY <1>1, <1>2, <1>3, <1>4, SweepKeeps DEF SweepBusy

\* The export that is held for lost is closed: nothing works on it.
LEMMA CloseLostKeeps ==
  ASSUME Inv, CloseLost
  PROVE  Inv'
<1>1. PICK c \in Candidates : c = sweep.cur /\ sweep.pc = "close"
  BY DEF CloseLost, Candidates
<1>2. PICK e \in Exports : e = c.of
  BY CandidateType DEF Inv
<1>3. /\ \/ UNCHANGED status
         \/ status' = [status EXCEPT ![e] = "cancelled"]
         \/ status' = [status EXCEPT ![e] = "failed"]
      /\ sweep' = Skipped
      /\ UNCHANGED <<runId, documents, cancelRequested, recoveries, post, stop, faults>>
      /\ UNCHANGED <<runExport, runPc, wave, left, step, seen, cancelled>>
  BY <1>1, <1>2 DEF CloseLost, runVars
<1>4. RunsFrame
  BY <1>3 DEF RunsFrame
<1>5. /\ status[e] \notin {"none", "ready"} /\ runId[e] # 0 /\ \A r \in Runs : ~Works(r, e)
      /\ \A d \in sweep.found : d.of # e
  BY <1>1, <1>2 DEF Inv, Lost, SweepBusy
<1>6. /\ \A f \in Exports \ {e} : status'[f] = status[f]
      /\ status'[e] = status[e] \/ status'[e] \in {"cancelled", "failed"}
      /\ status' \in [Exports -> Statuses]
  BY <1>3 DEF Inv, Typed, Statuses
<1>7. /\ sweep' \in SweepState /\ sweep'.pc \notin SweepBusy /\ sweep'.pc = "next"
      /\ sweep'.found = sweep.found /\ Candidates' = sweep.found
  BY <1>3 DEF Inv, Typed, SweepState, Skipped, SweepBusy, Candidates
<1>8. Typed'
  BY <1>3, <1>6, <1>7 DEF Inv, Typed, SweepBusy
<1>9. Posted'
  <2>1. \A q \in Requests : post[q].pc \in PostBusy => post[q].of \in Exports \ {e}
    BY <1>5 DEF Inv, Typed, Posted
  <2> QED
    BY <1>3, <1>6, <2>1 DEF Inv, Posted, PostBusy, IsActive
<1>10. Lost'
  <2>1. \A d \in sweep.found : d \in Candidates /\ d.of \in Exports \ {e}
    BY <1>5, CandidateType DEF Inv, Candidates
  <2>2. \A r \in Runs, f \in Exports : Works(r, f)' => Works(r, f)
    BY <1>4, RunsKept
  <2> QED
    BY <1>3, <1>6, <1>7, <2>1, <2>2 DEF Inv, Lost, IsActive
<1>11. Flagged'
  <2>1. stop.pc # "idle" => stop.of \in Exports
    BY DEF Inv, Typed
  <2> QED
    BY <1>3, <1>5, <1>6, <2>1 DEF Inv, Flagged, StopBusy, IsActive, Active
<1>12. \A f \in Exports : Stale(f)' => Stale(f) /\ stop'.seen = stop.seen
  BY <1>3 DEF Stale
<1>13. ASSUME NEW f \in Exports
       PROVE  Unborn(f)' /\ Listed(f)'
  <2>1. status'[f] = status[f] \/ status'[f] \in {"cancelled", "failed"}
    BY <1>6
  <2>2. Unborn(f)'
    BY <1>3, <2>1 DEF Inv, Unborn
  <2> QED
    BY <1>3, <1>12, <2>1, <2>2, ListedFrame DEF Inv
<1>14. ASSUME NEW r \in Runs, NEW f \in Exports, Works(r, f)'
       PROVE  Sound(r, f)'
  <2>1. Works(r, f) /\ Sound(r, f) /\ cancelRequested[f] \in BOOLEAN
    BY <1>4, <1>14, RunsKept, ListTypes DEF Inv
  <2>2. status'[f] = status[f]
    BY <1>5, <1>6, <2>1
  <2> QED
    BY <1>3, <1>12, <2>1, <2>2, SoundFrame
<1> QED
  BY <1>4, <1>8, <1>9, <1>10, <1>11, <1>13, <1>14, RunsKept DEF Inv

\* A run is started on the export that is held for lost: nothing else works on it.
LEMMA RestartLostKeeps ==
  ASSUME Inv, RestartLost
  PROVE  Inv'
<1>1. PICK c \in Candidates : c = sweep.cur /\ sweep.pc = "start"
  BY DEF RestartLost, Candidates
<1>2. PICK e \in Exports : e = c.of
  BY CandidateType DEF Inv
<1>3. PICK n \in Runs :
        /\ Start(e, n)
        /\ sweep' = [sweep EXCEPT !.pc = "claim", !.new = n]
  BY <1>1, <1>2 DEF RestartLost
<1>4. /\ UNCHANGED rowVars /\ UNCHANGED <<post, stop, faults>>
      /\ UNCHANGED <<status, runId, documents, cancelRequested, recoveries, wave, left, step, seen, cancelled>>
  BY <1>3 DEF RestartLost, Start, rowVars
<1>5. /\ status[e] \notin {"none", "ready"} /\ runId[e] # 0 /\ \A r \in Runs : ~Works(r, e)
      /\ IsActive(e) \/ cancelRequested[e]
      /\ \A d \in sweep.found : d.of # e
  BY <1>1, <1>2 DEF Inv, Lost, SweepBusy
<1>6. /\ \A r \in Runs : Placed(r)'
      /\ OneMoves' /\ Flagged'
      /\ \A f \in Exports : Unborn(f)' /\ Listed(f)'
      /\ \A r \in Runs, f \in Exports : Works(r, f)' => Sound(r, f)'
      /\ runExport' \in [Runs -> {0} \cup Exports]
      /\ runPc' \in [Runs -> {"none", "plan", "wave", "settle", "finish", "fail", "ended"}]
      /\ runExport'[n] = e /\ \A r \in Runs \ {n} : runExport'[r] = runExport[r]
      /\ \A r \in Runs, f \in Exports : Works(r, f)' => f = e \/ Works(r, f)
  BY <1>3, <1>4, <1>5, Starts
<1>7. /\ sweep' \in SweepState /\ sweep'.pc = "claim" /\ sweep'.cur = sweep.cur
      /\ sweep'.found = sweep.found /\ Candidates' = sweep.found
  BY <1>3 DEF Inv, Typed, SweepState, Candidates
<1>8. sweep.cur \in LostState /\ sweep.cur.recoveries < MaxRecoveries
  BY <1>1 DEF Inv, Typed, SweepBusy
<1>9. Typed'
  BY <1>4, <1>6, <1>7, <1>8 DEF Inv, Typed
<1>10. Posted'
  <2>1. \A q \in Requests : post[q].pc \in PostBusy => post[q].of # e
    BY <1>5 DEF Inv, Posted
  <2> QED
    BY <1>4, <1>6, <2>1 DEF Inv, Posted, PostBusy, IsActive
<1>11. Lost'
  <2>1. \A d \in sweep.found : d \in Candidates /\ d.of \in Exports \ {e}
    BY <1>5, CandidateType DEF Inv, Candidates
  <2> QED
    BY <1>1, <1>4, <1>6, <1>7, <2>1 DEF Inv, Lost, IsActive, SweepBusy
<1> QED
  BY <1>6, <1>9, <1>10, <1>11 DEF Inv

LEMMA ClaimLostKeeps ==
  ASSUME Inv, ClaimLost
  PROVE  Inv'
<1>1. PICK c \in LostState : c = sweep.cur /\ sweep.pc = "claim" /\ c.recoveries < MaxRecoveries
  BY DEF Inv, Typed, ClaimLost, SweepBusy
<1>2. PICK e \in Exports : e = c.of
  BY DEF LostState
<1>3. /\ UNCHANGED <<status, documents, cancelRequested, runVars, post, stop, faults>>
      /\ UNCHANGED <<runExport, runPc, wave, left, step, seen, cancelled>>
      /\ \/ /\ runId' = [runId EXCEPT ![e] = sweep.new]
            /\ recoveries' = [recoveries EXCEPT ![e] = c.recoveries + 1]
            /\ sweep' = Skipped
         \/ /\ sweep' = [sweep EXCEPT !.pc = "surplus"]
            /\ UNCHANGED <<runId, recoveries>>
  BY <1>1, <1>2 DEF ClaimLost, runVars
<1>4. RunsFrame
  BY <1>3 DEF RunsFrame
<1>5. /\ status[e] # "none" /\ runId[e] # 0 /\ \A d \in sweep.found : d.of # e
  BY <1>1, <1>2 DEF Inv, Lost, SweepBusy
<1>6. /\ runId' \in [Exports -> {0} \cup Runs] /\ \A f \in Exports \ {e} : runId'[f] = runId[f]
      /\ recoveries' \in [Exports -> 0..MaxRecoveries]
  <2>1. sweep.new \in {0} \cup Runs
    BY DEF Inv, Typed, SweepState
  <2>2. c.recoveries + 1 \in 0..MaxRecoveries
    BY <1>1, BoundsAssumption DEF LostState
  <2> QED
    BY <1>3, <2>1, <2>2 DEF Inv, Typed
<1>7. /\ sweep' \in SweepState /\ sweep'.found = sweep.found /\ Candidates' = sweep.found
      /\ \/ sweep'.pc = "next"
         \/ sweep'.pc = "surplus" /\ sweep'.cur = sweep.cur /\ runId' = runId
  BY <1>3 DEF Inv, Typed, SweepState, Skipped, Candidates
<1>8. Typed'
  BY <1>1, <1>3, <1>6, <1>7 DEF Inv, Typed, SweepBusy
<1>9. Posted'
  <2>1. \A q \in Requests : post[q].pc \in PostBusy => post[q].of \in Exports \ {e}
    BY <1>5 DEF Inv, Typed, Posted
  <2> QED
    BY <1>3, <1>6, <2>1 DEF Inv, Posted, PostBusy, IsActive
<1>10. Lost'
  <2>1. \A d \in sweep.found : d \in Candidates /\ d.of \in Exports \ {e}
    BY <1>5, CandidateType DEF Inv, Candidates
  <2>2. \A r \in Runs, f \in Exports : Works(r, f)' => Works(r, f)
    BY <1>4, RunsKept
  <2> QED
    BY <1>1, <1>2, <1>3, <1>5, <1>6, <1>7, <2>1, <2>2 DEF Inv, Lost, IsActive, SweepBusy
<1>11. Flagged'
  BY <1>3, FlaggedFrame DEF Inv
<1>12. \A f \in Exports : Stale(f)' => Stale(f) /\ stop'.seen = stop.seen
  BY <1>3 DEF Stale
<1>13. ASSUME NEW f \in Exports
       PROVE  Unborn(f)' /\ Listed(f)'
  <2>1. Unborn(f)'
    BY <1>3, <1>5, <1>6 DEF Inv, Unborn
  <2> QED
    BY <1>3, <1>12, <2>1, ListedFrame DEF Inv
<1>14. ASSUME NEW r \in Runs, NEW f \in Exports, Works(r, f)'
       PROVE  Sound(r, f)'
  <2>1. Sound(r, f) /\ cancelRequested[f] \in BOOLEAN
    BY <1>4, <1>14, RunsKept, ListTypes DEF Inv
  <2> QED
    BY <1>3, <1>12, <2>1, SoundFrame
<1> QED
  BY <1>4, <1>8, <1>9, <1>10, <1>11, <1>13, <1>14, RunsKept DEF Inv

-----------------------------------------------------------------------------
(* The run: what a step of it has to show. *)

LEMMA Acting ==
  ASSUME Inv, NEW r \in Runs, Run(r) \/ RunFails(r)
  PROVE  \E e \in Exports : runExport[r] = e /\ Works(r, e)
<1>1. Moving(r)
  BY RunMoves
<1>2. runPc[r] # "none"
  BY <1>1 DEF Inv, Placed, Moving, Busy
<1>3. runExport[r] \in Exports
  BY <1>2 DEF Inv, Typed, Placed
<1> QED
  BY <1>1, <1>3 DEF Works

\* Nobody but the run that works on e touches its row, and it touches nothing else.
RunEffect(r, e) ==
  /\ UNCHANGED <<runId, cancelRequested, recoveries, runExport, cancelled, post, stop, sweep>>
  /\ \A f \in Exports \ {e} : status'[f] = status[f] /\ documents'[f] = documents[f]
  /\ \A q \in Runs \ {r} : /\ runPc'[q] = runPc[q] /\ wave'[q] = wave[q] /\ left'[q] = left[q]
                           /\ step'[q] = step[q] /\ seen'[q] = seen[q]

LEMMA RunKeeps ==
  ASSUME Inv, NEW r \in Runs, NEW e \in Exports, Works(r, e), RunEffect(r, e), RunTypes',
         Placed(r)', status'[e] # "none", IsActive(e)' => IsActive(e) \/ cancelRequested[e],
         Listed(e)', Sound(r, e)'
  PROVE  Inv'
<1>1. /\ UNCHANGED <<runId, cancelRequested, recoveries, runExport, cancelled, post, stop, sweep>>
      /\ \A f \in Exports \ {e} : status'[f] = status[f] /\ documents'[f] = documents[f]
      /\ \A q \in Runs \ {r} : /\ runPc'[q] = runPc[q] /\ wave'[q] = wave[q] /\ left'[q] = left[q]
                               /\ step'[q] = step[q] /\ seen'[q] = seen[q]
  BY DEF RunEffect
<1>2. runExport[r] = e /\ Moving(r)
  BY DEF Works
<1>3. Typed'
  BY <1>1 DEF Inv, Typed, RunTypes
<1>4. \A q \in Runs \ {r} : Moving(q)' => Moving(q) /\ runExport[q] # e
  BY <1>1, <1>2, StillRests DEF Inv, OneMoves
<1>5. OneMoves'
  BY <1>1, <1>2, <1>4 DEF Inv, OneMoves
<1>6. \A q \in Runs : Placed(q)'
  BY <1>1, PlacedFrame DEF Inv
<1>7. \A q \in Requests : post[q].pc \in PostBusy => post[q].of \in Exports
  BY DEF Inv, Typed
<1>8. Posted'
  <2>1. \A q \in Requests : post[q].pc = "start" => post[q].of # e
    BY <1>2 DEF Inv, Posted
  <2> QED
    BY <1>1, <1>7, <2>1 DEF Inv, Posted, PostBusy, IsActive
<1>9. \A q \in Runs, f \in Exports : Works(q, f)' => \/ Works(q, f) /\ f # e
                                                     \/ q = r /\ f = e
  BY <1>1, <1>2, <1>4 DEF Works
<1>10. Lost'
  <2>1. \A c \in Candidates : c.of \in Exports \ {e}
    BY CandidateType DEF Inv, Lost
  <2>2. Candidates' = Candidates
    BY <1>1 DEF Candidates
  <2>3. sweep.pc \in SweepBusy => sweep.cur.of \in Exports
    BY DEF Inv, Typed, LostState
  <2> QED
    BY <1>1, <1>9, <2>1, <2>2, <2>3 DEF Inv, Lost, IsActive
<1>11. Flagged'
  <2>1. stop.pc # "idle" => stop.of \in Exports
    BY DEF Inv, Typed
  <2> QED
    BY <1>1, <2>1 DEF Inv, Flagged, IsActive, StopBusy
<1>12. ASSUME NEW f \in Exports
       PROVE  Unborn(f)' /\ Listed(f)'
  <2>1. CASE f = e
    BY <2>1 DEF Unborn
  <2>2. CASE f # e
    BY <1>1, <2>2, ListedFrame DEF Inv, Unborn, Stale
  <2> QED
    BY <2>1, <2>2
<1>13. ASSUME NEW q \in Runs, NEW f \in Exports, Works(q, f)'
       PROVE  Sound(q, f)'
  <2>1. CASE f = e
    BY <1>9, <1>13, <2>1
  <2>2. CASE f # e
    <3>1. Works(q, f) /\ q # r
      BY <1>2, <1>9, <1>13, <2>2 DEF Works
    <3>2. Sound(q, f) /\ cancelRequested[f] \in BOOLEAN
      BY <3>1, ListTypes DEF Inv
    <3>3. Stale(f)' => Stale(f) /\ stop'.seen = stop.seen
      BY <1>1 DEF Stale
    <3> QED
      BY <1>1, <2>2, <3>1, <3>2, <3>3, SoundFrame
  <2> QED
    BY <2>1, <2>2
<1> QED
  BY <1>3, <1>5, <1>6, <1>8, <1>10, <1>11, <1>12, <1>13 DEF Inv

\* What holds before a step of the run.
LEMMA Before ==
  ASSUME Inv, NEW r \in Runs, NEW e \in Exports, Works(r, e)
  PROVE  /\ Placed(r) /\ Sound(r, e) /\ Listed(e) /\ RunTypes
         /\ status[e] # "none" /\ cancelRequested[e] \in BOOLEAN
         /\ Stale(e) => cancelRequested[e] \/ ~IsActive(e)
         /\ documents[e] \in Lists /\ seen[r] \in Lists
         /\ 0 \notin Docs /\ runPc[r] # "none"
         /\ step[r] \in StepsState
<1>1. status[e] # "none"
  BY DEF Inv, Unborn, Works
<1>2. Stale(e) => cancelRequested[e] \/ ~IsActive(e)
  BY DEF Inv, Flagged, StopBusy, Stale
<1>3. Placed(r) /\ Sound(r, e) /\ Listed(e) /\ RunTypes
  BY DEF Inv, Typed, RunTypes
<1>4. runPc[r] # "none"
  BY <1>3 DEF Placed, Works, Exports
<1> QED
  BY <1>1, <1>2, <1>3, <1>4, ListTypes, DocsAssumption DEF Inv, RunTypes

\* A step that only reads.
LEMMA ReadKeeps ==
  ASSUME Inv, NEW r \in Runs, NEW e \in Exports, Works(r, e), RunEffect(r, e),
         UNCHANGED <<status, documents>>, RunTypes', Placed(r)', Sound(r, e)'
  PROVE  Inv'
<1>1. Listed(e)'
  BY ListedFrame DEF Inv, RunEffect, Stale
<1>2. status'[e] # "none" /\ (IsActive(e)' => IsActive(e))
  BY Before DEF IsActive
<1> QED
  BY <1>1, <1>2, RunKeeps

-----------------------------------------------------------------------------
(* The run: what it reads. *)

LEMMA PlanReadKeeps ==
  ASSUME Inv, NEW r \in Runs, PlanRead(r)
  PROVE  Inv'
<1>1. PICK e \in Exports : runExport[r] = e /\ Works(r, e)
  BY Acting DEF Run
<1>2. /\ Placed(r) /\ Sound(r, e) /\ Listed(e) /\ RunTypes
      /\ status[e] # "none" /\ cancelRequested[e] \in BOOLEAN
      /\ Stale(e) => cancelRequested[e] \/ ~IsActive(e)
      /\ documents[e] \in Lists /\ seen[r] \in Lists
      /\ 0 \notin Docs /\ runPc[r] # "none"
      /\ step[r] \in StepsState
  BY <1>1, Before
<1>3. PICK s \in StepState : /\ s = IF Planned(e) THEN "resume" ELSE "list"
                           /\ s \in {"resume", "list"}
  BY DEF StepState
<1>4. /\ runPc[r] = "plan" /\ step' = [step EXCEPT ![r][0] = s]
      /\ UNCHANGED <<status, documents, runId, cancelRequested, recoveries, runExport, runPc, wave, left,
                     seen, cancelled, post, stop, sweep, faults>>
  BY <1>1, <1>3 DEF PlanRead, rowVars, procVars
<1>5. /\ step' \in [Runs -> StepsState] /\ step'[r][0] = s
      /\ \A d \in Docs : step'[r][d] = step[r][d]
      /\ \A q \in Runs \ {r} : step'[q] = step[q]
  BY <1>2, <1>4, StepZero DEF Inv
<1>6. RunEffect(r, e) /\ RunTypes'
  BY <1>2, <1>4, <1>5 DEF RunEffect, RunTypes
<1>7. Placed(r)'
  BY <1>2, <1>3, <1>4, <1>5 DEF Placed, Worked, WaveDone
<1>8. s = "resume" => InPlan(documents[e])
  BY <1>3 DEF Planned, InPlan
<1>9. s = "list" => documents[e] = Nothing
  BY <1>2, <1>3 DEF Planned, Listed, Uniform, InPlan
<1>10. Sound(r, e)'
  <2>1. Alive(r, e)' /\ OnPlan(r, e)'
    BY <1>2, <1>4, <1>5 DEF Sound, Alive, OnPlan, IsActive, InPlan, Stale
  <2>2. Done(r, e)'
    BY <1>3, <1>4, <1>5, <1>8 DEF Done, InPlan
  <2> QED
    BY <1>2, <1>3, <1>4, <1>5, <1>9, <2>1, <2>2
       DEF Sound, IsActive, WaveDone
<1> QED
  BY <1>1, <1>4, <1>6, <1>7, <1>10, ReadKeeps

LEMMA PlanFailsKeeps ==
  ASSUME Inv, NEW r \in Runs, PlanFails(r)
  PROVE  Inv'
<1>1. PICK e \in Exports : runExport[r] = e /\ Works(r, e)
  BY Acting DEF Run
<1>2. /\ Placed(r) /\ Sound(r, e) /\ Listed(e) /\ RunTypes
      /\ status[e] # "none" /\ cancelRequested[e] \in BOOLEAN
      /\ Stale(e) => cancelRequested[e] \/ ~IsActive(e)
      /\ documents[e] \in Lists /\ seen[r] \in Lists
      /\ 0 \notin Docs /\ runPc[r] # "none"
      /\ step[r] \in StepsState
  BY <1>1, Before
<1>3. "idle" \in StepState
  BY DEF StepState
<1>4. /\ runPc[r] = "plan" /\ step[r][0] = "list" /\ runPc' = [runPc EXCEPT ![r] = "fail"]
      /\ step' = [step EXCEPT ![r][0] = "idle"]
      /\ UNCHANGED <<status, documents, runId, cancelRequested, recoveries, runExport, wave, left,
                     seen, cancelled, post, stop, sweep, faults>>
  BY DEF PlanFails, rowVars, procVars
<1>5. /\ step' \in [Runs -> StepsState] /\ step'[r][0] = "idle"
      /\ \A d \in Docs : step'[r][d] = step[r][d]
      /\ \A q \in Runs \ {r} : step'[q] = step[q]
  BY <1>2, <1>3, <1>4, StepZero DEF Inv
<1>6. /\ runPc'[r] = "fail" /\ \A q \in Runs \ {r} : runPc'[q] = runPc[q]
      /\ runPc' \in [Runs -> {"none", "plan", "wave", "settle", "finish", "fail", "ended"}]
  BY <1>2, <1>4 DEF RunTypes
<1>7. RunEffect(r, e) /\ RunTypes'
  BY <1>2, <1>4, <1>5, <1>6 DEF RunEffect, RunTypes
<1>8. Placed(r)'
  BY <1>2, <1>4, <1>5, <1>6 DEF Placed, Worked, WaveDone
<1>9. Sound(r, e)'
  <2>1. wave[r] = {} /\ \A d \in Docs : step[r][d] = "idle"
    BY <1>2, <1>4 DEF Placed
  <2>2. Alive(r, e)' /\ OnPlan(r, e)' /\ Done(r, e)'
    BY <1>4, <1>5, <1>6, <2>1 DEF Alive, OnPlan, Done, Worked
  <2> QED
    BY <1>2, <1>4, <1>5, <1>6, <2>1, <2>2 DEF Sound, IsActive, WaveDone, Worked
<1> QED
  BY <1>1, <1>4, <1>7, <1>8, <1>9, ReadKeeps

LEMMA NextWaveOf ==
  ASSUME NEW S
  PROVE  NextWave(S) \subseteq S
BY DEF NextWave

LEMMA BeginWaveKeeps ==
  ASSUME Inv, NEW r \in Runs, BeginWave(r)
  PROVE  Inv'
<1>1. PICK e \in Exports : runExport[r] = e /\ Works(r, e)
  BY Acting DEF Run
<1>2. /\ Placed(r) /\ Sound(r, e) /\ Listed(e) /\ RunTypes
      /\ status[e] # "none" /\ cancelRequested[e] \in BOOLEAN
      /\ Stale(e) => cancelRequested[e] \/ ~IsActive(e)
      /\ documents[e] \in Lists /\ seen[r] \in Lists
      /\ 0 \notin Docs /\ runPc[r] # "none"
      /\ step[r] \in StepsState
  BY <1>1, Before
<1>3. PICK W : W = NextWave(left[r]) /\ W \subseteq left[r]
  BY NextWaveOf
<1>4. /\ runPc[r] = "wave" /\ WaveDone(r) /\ ~WaveStops(r)
      /\ wave' = [wave EXCEPT ![r] = W] /\ left' = [left EXCEPT ![r] = @ \ W]
      /\ UNCHANGED <<status, documents, runId, cancelRequested, recoveries, runExport, runPc, step,
                     seen, cancelled, post, stop, sweep, faults>>
  BY <1>3 DEF BeginWave, rowVars, procVars
<1>5. /\ wave'[r] = W /\ left'[r] = left[r] \ W /\ left[r] \subseteq Docs
      /\ \A q \in Runs \ {r} : wave'[q] = wave[q] /\ left'[q] = left[q]
      /\ wave' \in [Runs -> SUBSET Docs] /\ left' \in [Runs -> SUBSET Docs]
  BY <1>2, <1>3, <1>4 DEF RunTypes
<1>6. RunEffect(r, e) /\ RunTypes'
  BY <1>2, <1>4, <1>5 DEF RunEffect, RunTypes
<1>7. /\ \A d \in wave[r] : step[r][d] = "done"
      /\ \A d \in Docs : step[r][d] \notin Worked
  BY <1>2, <1>4 DEF Placed, Worked, WaveDone, WaveStops
<1>8. Placed(r)'
  BY <1>2, <1>4, <1>7 DEF Placed
<1>9. Sound(r, e)'
  <2>1. Alive(r, e)'
    BY <1>2, <1>4 DEF Sound, Alive, IsActive
  <2>2. OnPlan(r, e)'
    BY <1>2, <1>4, <1>7 DEF Sound, OnPlan, InPlan, Stale
  <2>3. Done(r, e)'
    BY <1>2, <1>4, <1>5, <1>7 DEF Sound, Done, IsActive, InPlan
  <2> QED
    BY <1>2, <1>4, <1>7, <2>1, <2>2, <2>3 DEF Sound, IsActive, Uniform, InPlan, Covers, Whole, Stale
<1> QED
  BY <1>1, <1>4, <1>6, <1>8, <1>9, ReadKeeps

LEMMA EndWavesKeeps ==
  ASSUME Inv, NEW r \in Runs, EndWaves(r)
  PROVE  Inv'
<1>1. PICK e \in Exports : runExport[r] = e /\ Works(r, e)
  BY Acting DEF Run
<1>2. /\ Placed(r) /\ Sound(r, e) /\ Listed(e) /\ RunTypes
      /\ status[e] # "none" /\ cancelRequested[e] \in BOOLEAN
      /\ Stale(e) => cancelRequested[e] \/ ~IsActive(e)
      /\ documents[e] \in Lists /\ seen[r] \in Lists
      /\ 0 \notin Docs /\ runPc[r] # "none"
      /\ step[r] \in StepsState
  BY <1>1, Before
<1>3. PICK n \in {"fail", "settle", "finish"} :
        n = IF WaveThrows(r) THEN "fail" ELSE IF WaveStops(r) THEN "settle" ELSE "finish"
  OBVIOUS
<1>4. /\ runPc[r] = "wave" /\ runPc' = [runPc EXCEPT ![r] = n]
      /\ UNCHANGED <<status, documents, runId, cancelRequested, recoveries, runExport, wave, left, step,
                     seen, cancelled, post, stop, sweep, faults>>
  BY <1>3 DEF EndWaves, rowVars, procVars
<1>5. /\ runPc'[r] = n /\ \A q \in Runs \ {r} : runPc'[q] = runPc[q]
      /\ runPc' \in [Runs -> {"none", "plan", "wave", "settle", "finish", "fail", "ended"}]
  BY <1>2, <1>4 DEF RunTypes
<1>6. RunEffect(r, e) /\ RunTypes'
  BY <1>2, <1>4, <1>5 DEF RunEffect, RunTypes
<1>7. /\ n # "fail" => WaveDone(r) /\ \A d \in Docs : step[r][d] \notin Worked
      /\ n = "finish" => left[r] = {} /\ \A d \in wave[r] : step[r][d] = "done"
  <2>1. n # "fail" => WaveDone(r) /\ (WaveStops(r) \/ left[r] = {})
    BY <1>3 DEF EndWaves
  <2>2. n = "finish" => ~WaveStops(r)
    BY <1>3
  <2> QED
    BY <1>2, <2>1, <2>2 DEF Placed, Worked, WaveDone, WaveStops
<1>8. step[r][0] \notin {"list", "resume", "settle", "ready", "cancelled", "failed"}
  BY <1>2, <1>4 DEF Placed
<1>9. Placed(r)'
  BY <1>2, <1>4, <1>5, <1>7, <1>8 DEF Placed, WaveDone
<1>10. Sound(r, e)'
  <2>1. Alive(r, e)'
    BY <1>2, <1>4, <1>5 DEF Sound, Alive, IsActive
  <2>2. OnPlan(r, e)'
    BY <1>2, <1>4, <1>5 DEF Sound, OnPlan, InPlan, Stale
  <2>3. Done(r, e)'
    BY <1>2, <1>4, <1>5, <1>7, <1>8 DEF Sound, Done, IsActive, InPlan
  <2> QED
    BY <1>2, <1>4, <1>8, <2>1, <2>2, <2>3 DEF Sound, IsActive
<1> QED
  BY <1>1, <1>4, <1>6, <1>9, <1>10, ReadKeeps

LEMMA StepReadKeeps ==
  ASSUME Inv, NEW r \in Runs, NEW d \in Docs, StepRead(r, d)
  PROVE  Inv'
<1>1. PICK e \in Exports : runExport[r] = e /\ Works(r, e)
  BY Acting DEF Run
<1>2. /\ Placed(r) /\ Sound(r, e) /\ Listed(e) /\ RunTypes
      /\ status[e] # "none" /\ cancelRequested[e] \in BOOLEAN
      /\ Stale(e) => cancelRequested[e] \/ ~IsActive(e)
      /\ documents[e] \in Lists /\ seen[r] \in Lists
      /\ 0 \notin Docs /\ runPc[r] # "none"
      /\ step[r] \in StepsState
  BY <1>1, Before
<1>3. PICK n \in {"stop", "done", "mark", "skip"} :
        /\ step' = [step EXCEPT ![r][d] = n]
        /\ n = "done" => documents[e][d] \in Reached
        /\ n \in {"mark", "skip"} => ~cancelRequested[e] /\ documents[e][d] \notin Reached
  BY <1>1 DEF StepRead, AlreadyDone
<1>4. /\ runPc[r] \in {"wave", "fail"} /\ d \in wave[r] /\ step[r][d] = "idle" /\ n \in StepState
      /\ UNCHANGED <<status, documents, runId, cancelRequested, recoveries, runExport, runPc, wave, left,
                     seen, cancelled, post, stop, sweep, faults>>
  BY DEF StepRead, rowVars, procVars, StepState
<1>5. /\ step' \in [Runs -> StepsState] /\ step'[r][d] = n
      /\ \A y \in (Docs \cup {0}) \ {d} : step'[r][y] = step[r][y]
      /\ \A q \in Runs \ {r} : step'[q] = step[q]
  BY <1>3, <1>4, StepTo DEF Inv
<1>6. RunEffect(r, e) /\ RunTypes'
  BY <1>2, <1>4, <1>5 DEF RunEffect, RunTypes
<1>7. step'[r][0] = step[r][0] /\ step[r][0] \notin {"list", "resume", "settle", "ready", "cancelled"}
  BY <1>2, <1>4, <1>5 DEF Placed
<1>8. Placed(r)'
  <2>1. \A c \in Docs : /\ step'[r][c] \in Worked \cup {"idle", "done", "stop", "threw", "lost"}
                        /\ step'[r][c] \in Worked => c \in wave[r] /\ runPc[r] \in {"wave", "fail", "ended"}
    BY <1>2, <1>4, <1>5 DEF Placed, Worked
  <2> QED
    BY <1>2, <1>4, <1>7, <2>1 DEF Placed
<1>9. status[e] # "ready"
  BY <1>2, <1>4 DEF Sound, WaveDone
<1>10. Sound(r, e)'
  <2>1. Alive(r, e)'
    BY <1>2, <1>4 DEF Sound, Alive, IsActive
  <2>2. OnPlan(r, e)'
    <3>1. (\/ \E c \in Docs : step'[r][c] \in Worked
           \/ ~cancelRequested[e] /\ (runPc[r] \in {"wave", "settle", "finish"} \/ wave[r] # {}))
          => (\/ \E c \in Docs : step[r][c] \in Worked
              \/ ~cancelRequested[e] /\ (runPc[r] \in {"wave", "settle", "finish"} \/ wave[r] # {}))
      BY <1>3, <1>4, <1>5 DEF Worked
    <3> QED
      BY <1>2, <1>4, <3>1 DEF Sound, OnPlan, InPlan, Stale
  <2>3. Done(r, e)'
    BY <1>2, <1>3, <1>4, <1>5, <1>7 DEF Sound, Done, IsActive, InPlan
  <2>4. \A c \in Docs : step'[r][c] \in Worked => documents[e][c] # "exported"
    BY <1>2, <1>3, <1>5 DEF Sound, Worked, Reached
  <2> QED
    BY <1>4, <1>7, <1>9, <2>1, <2>2, <2>3, <2>4 DEF Sound, IsActive
<1> QED
  BY <1>1, <1>4, <1>6, <1>8, <1>10, ReadKeeps

LEMMA SettleReadKeeps ==
  ASSUME Inv, NEW r \in Runs, SettleRead(r)
  PROVE  Inv'
<1>1. PICK e \in Exports : runExport[r] = e /\ Works(r, e)
  BY Acting DEF Run
<1>2. /\ Placed(r) /\ Sound(r, e) /\ Listed(e) /\ RunTypes
      /\ status[e] # "none" /\ cancelRequested[e] \in BOOLEAN
      /\ Stale(e) => cancelRequested[e] \/ ~IsActive(e)
      /\ documents[e] \in Lists /\ seen[r] \in Lists
      /\ 0 \notin Docs /\ runPc[r] # "none"
      /\ step[r] \in StepsState
  BY <1>1, Before
<1>3. PICK s \in StepState : s = "settle"
  BY DEF StepState
<1>4. /\ runPc[r] = "settle" /\ step' = [step EXCEPT ![r][0] = s]
      /\ seen' = [seen EXCEPT ![r] = documents[e]]
      /\ UNCHANGED <<status, documents, runId, cancelRequested, recoveries, runExport, runPc, wave, left,
                     cancelled, post, stop, sweep, faults>>
  BY <1>1, <1>3 DEF SettleRead, rowVars, procVars
<1>5. /\ step' \in [Runs -> StepsState] /\ step'[r][0] = s
      /\ \A d \in Docs : step'[r][d] = step[r][d]
      /\ \A q \in Runs \ {r} : step'[q] = step[q]
  BY <1>2, <1>3, <1>4, StepZero DEF Inv
<1>6. /\ seen'[r] = documents[e] /\ \A q \in Runs \ {r} : seen'[q] = seen[q]
      /\ seen' \in [Runs -> Lists]
  BY <1>2, <1>4 DEF RunTypes
<1>7. RunEffect(r, e) /\ RunTypes'
  BY <1>2, <1>4, <1>5, <1>6 DEF RunEffect, RunTypes
<1>8. Placed(r)'
  <2>1. WaveDone(r)'
    BY <1>2, <1>4, <1>5 DEF Placed, WaveDone, RunTypes
  <2> QED
    BY <1>2, <1>3, <1>4, <1>5, <2>1 DEF Placed, Worked
<1>9. Sound(r, e)'
  <2>1. Alive(r, e)' /\ OnPlan(r, e)'
    BY <1>2, <1>4, <1>5 DEF Sound, Alive, OnPlan, IsActive, InPlan, Stale
  <2>2. Done(r, e)'
    BY <1>3, <1>4, <1>5, <1>6 DEF Done
  <2>3. Uniform(documents[e]) /\ Covers(documents[e], documents[e])
    BY <1>2 DEF Listed, Covers
  <2> QED
    BY <1>2, <1>3, <1>4, <1>5, <1>6, <2>1, <2>2, <2>3 DEF Sound, IsActive, Uniform, InPlan, Covers
<1> QED
  BY <1>1, <1>4, <1>7, <1>8, <1>9, ReadKeeps

LEMMA FinishReadKeeps ==
  ASSUME Inv, NEW r \in Runs, FinishRead(r)
  PROVE  Inv'
<1>1. PICK e \in Exports : runExport[r] = e /\ Works(r, e)
  BY Acting DEF Run
<1>2. /\ Placed(r) /\ Sound(r, e) /\ Listed(e) /\ RunTypes
      /\ status[e] # "none" /\ cancelRequested[e] \in BOOLEAN
      /\ Stale(e) => cancelRequested[e] \/ ~IsActive(e)
      /\ documents[e] \in Lists /\ seen[r] \in Lists
      /\ 0 \notin Docs /\ runPc[r] # "none"
      /\ step[r] \in StepsState
  BY <1>1, Before
<1>3. PICK s \in StepState : /\ s \in {"cancelled", "ready", "failed"}
                           /\ s = IF cancelRequested[e] THEN "cancelled"
                                  ELSE IF HasFiles(e) THEN "ready" ELSE "failed"
  BY DEF StepState
<1>4. /\ runPc[r] = "finish" /\ step' = [step EXCEPT ![r][0] = s]
      /\ UNCHANGED <<status, documents, runId, cancelRequested, recoveries, runExport, runPc, wave, left,
                     seen, cancelled, post, stop, sweep, faults>>
  BY <1>1, <1>3 DEF FinishRead, rowVars, procVars
<1>5. /\ step' \in [Runs -> StepsState] /\ step'[r][0] = s
      /\ \A d \in Docs : step'[r][d] = step[r][d]
      /\ \A q \in Runs \ {r} : step'[q] = step[q]
  BY <1>2, <1>3, <1>4, StepZero DEF Inv
<1>6. RunEffect(r, e) /\ RunTypes'
  BY <1>2, <1>4, <1>5 DEF RunEffect, RunTypes
<1>7. WaveDone(r)'
  BY <1>2, <1>4, <1>5 DEF Placed, WaveDone, RunTypes
<1>8. Placed(r)'
  BY <1>2, <1>3, <1>4, <1>5, <1>7 DEF Placed, Worked
<1>9. s = "ready" /\ IsActive(e) => Whole(documents[e]) /\ ~Stale(e)
  BY <1>2, <1>3, <1>4 DEF Sound, Done, HasFiles, Whole
<1>10. Sound(r, e)'
  <2>1. Alive(r, e)' /\ OnPlan(r, e)'
    BY <1>2, <1>4, <1>5 DEF Sound, Alive, OnPlan, IsActive, InPlan, Stale
  <2>2. Done(r, e)'
    BY <1>2, <1>3, <1>4, <1>5 DEF Sound, Done, IsActive
  <2> QED
    BY <1>2, <1>3, <1>4, <1>5, <1>7, <1>9, <2>1, <2>2 DEF Sound, IsActive, Whole, Stale
<1> QED
  BY <1>1, <1>4, <1>6, <1>8, <1>10, ReadKeeps

LEMMA FailReadKeeps ==
  ASSUME Inv, NEW r \in Runs, FailRead(r)
  PROVE  Inv'
<1>1. PICK e \in Exports : runExport[r] = e /\ Works(r, e)
  BY Acting DEF Run
<1>2. /\ Placed(r) /\ Sound(r, e) /\ Listed(e) /\ RunTypes
      /\ status[e] # "none" /\ cancelRequested[e] \in BOOLEAN
      /\ Stale(e) => cancelRequested[e] \/ ~IsActive(e)
      /\ documents[e] \in Lists /\ seen[r] \in Lists
      /\ 0 \notin Docs /\ runPc[r] # "none"
      /\ step[r] \in StepsState
  BY <1>1, Before
<1>3. PICK s \in StepState : s = "failed"
  BY DEF StepState
<1>4. /\ runPc[r] = "fail" /\ step' = [step EXCEPT ![r][0] = s]
      /\ UNCHANGED <<status, documents, runId, cancelRequested, recoveries, runExport, runPc, wave, left,
                     seen, cancelled, post, stop, sweep, faults>>
  BY <1>1, <1>3 DEF FailRead, rowVars, procVars
<1>5. /\ step' \in [Runs -> StepsState] /\ step'[r][0] = s
      /\ \A d \in Docs : step'[r][d] = step[r][d]
      /\ \A q \in Runs \ {r} : step'[q] = step[q]
  BY <1>2, <1>3, <1>4, StepZero DEF Inv
<1>6. RunEffect(r, e) /\ RunTypes'
  BY <1>2, <1>4, <1>5 DEF RunEffect, RunTypes
<1>7. WaveDone(r) => WaveDone(r)'
  BY <1>2, <1>4, <1>5 DEF WaveDone, RunTypes
<1>8. Placed(r)'
  BY <1>2, <1>3, <1>4, <1>5 DEF Placed, Worked
<1>9. Sound(r, e)'
  <2>1. Alive(r, e)' /\ OnPlan(r, e)'
    BY <1>2, <1>4, <1>5 DEF Sound, Alive, OnPlan, IsActive, InPlan, Stale
  <2>2. Done(r, e)'
    BY <1>2, <1>3, <1>4, <1>5 DEF Sound, Done, IsActive
  <2> QED
    BY <1>2, <1>3, <1>4, <1>5, <1>7, <2>1, <2>2 DEF Sound, IsActive
<1> QED
  BY <1>1, <1>4, <1>6, <1>8, <1>9, ReadKeeps

-----------------------------------------------------------------------------
(* The run: what it writes. *)

\* A step of a document ends, or goes on, with what it wrote of its document.
LEMMA DocumentKeeps ==
  ASSUME Inv, NEW r \in Runs, NEW e \in Exports, NEW d \in Docs, Works(r, e), step[r][d] \in Worked,
         NEW n \in {"work", "done", "stop", "idle", "threw", "lost"},
         step' = [step EXCEPT ![r][d] = n],
         NEW s \in {"exporting"} \cup Reached,
         UNCHANGED documents \/ documents' = Patched(e, d, s),
         n = "done" => documents'[e][d] \in Reached,
         n = "work" => documents'[e][d] # "exported",
         UNCHANGED <<status, runId, cancelRequested, recoveries, runExport, runPc, wave, left, seen,
                     cancelled, post, stop, sweep>>,
         faults' \in 0..MaxFaults
  PROVE  Inv'
<1>2. /\ Placed(r) /\ Sound(r, e) /\ Listed(e) /\ RunTypes
      /\ status[e] # "none" /\ cancelRequested[e] \in BOOLEAN
      /\ documents[e] \in Lists
  BY Before
<1>3. /\ step' \in [Runs -> StepsState] /\ step'[r][d] = n
      /\ \A y \in (Docs \cup {0}) \ {d} : step'[r][y] = step[r][y]
      /\ \A q \in Runs \ {r} : step'[q] = step[q]
  <2>1. n \in StepState
    BY DEF StepState
  <2> QED
    BY <2>1, StepTo DEF Inv
<1>4. /\ documents' \in [Exports -> Lists]
      /\ \A f \in Exports \ {e} : documents'[f] = documents[f]
      /\ \A c \in Docs \ {d} : documents'[e][c] = documents[e][c]
      /\ documents'[e][d] = documents[e][d] \/ documents'[e][d] # "unplanned"
  <2>1. s \in DocumentStates /\ s # "unplanned"
    BY DEF DocumentStates, Reached
  <2>2. documents \in [Exports -> [Docs -> DocumentStates]]
    BY <1>2 DEF RunTypes, Lists
  <2>3. CASE UNCHANGED documents
    BY <2>2, <2>3 DEF Lists
  <2>4. CASE documents' = Patched(e, d, s)
    BY <2>1, <2>2, <2>4 DEF Patched, Lists
  <2> QED
    BY <2>3, <2>4
<1>5. RunEffect(r, e) /\ RunTypes'
  BY <1>2, <1>3, <1>4 DEF RunEffect, RunTypes
<1>6. /\ d \in wave[r] /\ runPc[r] \in {"wave", "fail", "ended"} /\ ~WaveDone(r)
      /\ step'[r][0] = step[r][0]
      /\ step[r][0] \notin {"list", "resume", "settle", "ready", "cancelled"}
  <2>1. 0 \in Docs \cup {0} /\ 0 # d
    BY DocsAssumption
  <2> QED
    BY <1>2, <1>3, <2>1 DEF Placed, Worked, WaveDone
<1>7. status[e] # "ready" /\ documents[e][d] # "exported"
  BY <1>2, <1>6 DEF Sound
<1>8. InPlan(documents[e]) /\ (Stale(e) => InPlan(stop.seen))
  BY <1>2 DEF Sound, OnPlan
<1>9. InPlan(documents[e])' /\ Stale(e)' = Stale(e)
  BY <1>4, <1>8 DEF InPlan, Stale
<1>10. Placed(r)'
  <2>1. \A c \in Docs : /\ step'[r][c] \in Worked \cup {"idle", "done", "stop", "threw", "lost"}
                        /\ step'[r][c] \in Worked => c \in wave[r] /\ runPc[r] \in {"wave", "fail", "ended"}
    BY <1>2, <1>3, <1>6 DEF Placed, Worked
  <2> QED
    BY <1>2, <1>6, <2>1 DEF Placed
<1>11. Listed(e)'
  BY <1>2, <1>4, <1>7, <1>8, <1>9 DEF Listed, Uniform, Covers
<1>12. Sound(r, e)'
  <2>1. Alive(r, e)'
    BY <1>2 DEF Sound, Alive, IsActive
  <2>2. OnPlan(r, e)'
    BY <1>8, <1>9 DEF OnPlan, InPlan
  <2>3. Done(r, e)'
    <3>1. Done(r, e) /\ step'[r][d] = n
      BY <1>2, <1>3 DEF Sound
    <3>2. \A c \in Docs \ {d} : step'[r][c] = step[r][c]
      BY <1>3
    <3>3. \A c \in Docs : step'[r][c] = "done" /\ ~cancelRequested[e] /\ IsActive(e) /\ runPc[r] = "wave"
                            => documents'[e][c] \in Reached
      BY <1>4, <3>1, <3>2 DEF Done
    <3>4. \A c \in Docs : ~cancelRequested[e] /\ IsActive(e) /\ runPc[r] = "wave"
                            => c \in left[r] \/ c \in wave[r] \/ documents'[e][c] \in Reached
      BY <1>4, <1>6, <3>1 DEF Done
    <3> QED
      BY <1>6, <3>3, <3>4 DEF Done, IsActive
  <2>4. \A c \in Docs : step'[r][c] \in Worked => documents'[e][c] # "exported"
    BY <1>2, <1>3, <1>4 DEF Sound, Worked
  <2> QED
    BY <1>6, <1>7, <2>1, <2>2, <2>3, <2>4 DEF Sound
<1> QED
  BY <1>2, <1>5, <1>10, <1>11, <1>12, RunKeeps DEF IsActive

LEMMA StepMarkKeeps ==
  ASSUME Inv, NEW r \in Runs, NEW d \in Docs, StepMark(r, d)
  PROVE  Inv'
<1>1. PICK e \in Exports : runExport[r] = e /\ Works(r, e)
  BY Acting DEF Run
<1>2. /\ step[r][d] \in Worked /\ step' = [step EXCEPT ![r][d] = "work"]
      /\ documents' = Patched(e, d, "exporting")
      /\ UNCHANGED <<status, runId, cancelRequested, recoveries, runExport, runPc, wave, left, seen,
                     cancelled, post, stop, sweep, faults>>
  BY <1>1 DEF StepMark, Worked, procVars
<1>3. documents'[e][d] = "exporting" /\ faults' \in 0..MaxFaults
  <2>1. documents \in [Exports -> Lists] /\ faults \in 0..MaxFaults
    BY DEF Inv, Typed
  <2> QED
    BY <1>2, <2>1 DEF Patched, Lists
<1> QED
  BY <1>1, <1>2, <1>3, DocumentKeeps

LEMMA StepWriteKeeps ==
  ASSUME Inv, NEW r \in Runs, NEW d \in Docs, StepWrite(r, d)
  PROVE  Inv'
<1>1. PICK e \in Exports : runExport[r] = e /\ Works(r, e)
  BY Acting DEF Run
<1>2. PICK v \in [state : Reached, outcome : {"done", "stop"}] :
        /\ step' = [step EXCEPT ![r][d] = v.outcome]
        /\ documents' = Patched(e, d, v.state)
  BY <1>1 DEF StepWrite, Verdicts, Reached
<1>3. /\ step[r][d] \in Worked
      /\ UNCHANGED <<status, runId, cancelRequested, recoveries, runExport, runPc, wave, left, seen,
                     cancelled, post, stop, sweep, faults>>
  BY DEF StepWrite, Worked, procVars
<1>4. documents'[e][d] = v.state /\ faults' \in 0..MaxFaults
  <2>1. documents \in [Exports -> Lists] /\ faults \in 0..MaxFaults
    BY DEF Inv, Typed
  <2> QED
    BY <1>2, <1>3, <2>1 DEF Patched, Lists
<1> QED
  BY <1>1, <1>2, <1>3, <1>4, DocumentKeeps

LEMMA StepThrowsKeeps ==
  ASSUME Inv, NEW r \in Runs, NEW d \in Docs, StepThrows(r, d)
  PROVE  Inv'
<1>1. PICK e \in Exports : runExport[r] = e /\ Works(r, e)
  BY Acting DEF RunFails
<1>2. PICK n \in {"idle", "threw"} : step' = [step EXCEPT ![r][d] = n]
  BY DEF StepThrows
<1>3. PICK s \in {"exporting"} \cup Reached : UNCHANGED documents \/ documents' = Patched(e, d, s)
  BY <1>1, InterruptedWrites DEF StepThrows
<1>4. /\ step[r][d] \in Worked
      /\ UNCHANGED <<status, runId, cancelRequested, recoveries, runExport, runPc, wave, left, seen,
                     cancelled, post, stop, sweep>>
  BY BusyDocument DEF Inv, StepThrows, procVars
<1>5. faults' \in 0..MaxFaults
  <2>1. faults \in 0..MaxFaults
    BY DEF Inv, Typed
  <2> QED
    BY <2>1, BoundsAssumption DEF StepThrows
<1> QED
  BY <1>1, <1>2, <1>3, <1>4, <1>5, DocumentKeeps

LEMMA StepDiesKeeps ==
  ASSUME Inv, NEW r \in Runs, NEW d \in Docs, WorkerDies(r, d)
  PROVE  Inv'
<1>1. PICK e \in Exports : runExport[r] = e /\ Works(r, e)
  BY Acting DEF RunFails
<1>2. /\ step[r][d] \in Worked /\ Interrupted(r, d) /\ step' = [step EXCEPT ![r][d] = "lost"]
      /\ UNCHANGED <<status, runId, cancelRequested, recoveries, runExport, runPc, wave, left, seen,
                     cancelled, post, stop, sweep>>
  BY BusyDocument, DocsAssumption DEF Inv, WorkerDies, procVars
<1>3. PICK s \in {"exporting"} \cup Reached : UNCHANGED documents \/ documents' = Patched(e, d, s)
  BY <1>1, <1>2, InterruptedWrites
<1>4. faults' \in 0..MaxFaults
  <2>1. faults \in 0..MaxFaults
    BY DEF Inv, Typed
  <2> QED
    BY <2>1, BoundsAssumption DEF WorkerDies
<1> QED
  BY <1>1, <1>2, <1>3, <1>4, DocumentKeeps

\* A step of the sequence is over: the run is at n.
Ends(r, n) ==
  /\ UNCHANGED <<runId, cancelRequested, recoveries, runExport, wave, cancelled, post, stop, sweep>>
  /\ \E s \in {"idle", "lost"} : step' = [step EXCEPT ![r][0] = s]
  /\ runPc' = [runPc EXCEPT ![r] = n]
  /\ \A q \in Runs \ {r} : left'[q] = left[q] /\ seen'[q] = seen[q]
  /\ left' \in [Runs -> SUBSET Docs]
  /\ seen' \in [Runs -> Lists]
  /\ faults' \in 0..MaxFaults

LEMMA EndsSo ==
  ASSUME Inv, NEW r \in Runs, NEW e \in Exports, Works(r, e),
         NEW n \in {"plan", "wave", "settle", "finish", "fail", "ended"}, Ends(r, n),
         documents' \in [Exports -> Lists], status' \in [Exports -> Statuses],
         \A f \in Exports \ {e} : status'[f] = status[f] /\ documents'[f] = documents[f]
  PROVE  /\ RunEffect(r, e) /\ RunTypes'
         /\ runPc'[r] = n /\ step'[r][0] \in {"idle", "lost"}
         /\ \A d \in Docs : step'[r][d] = step[r][d]
         /\ UNCHANGED <<cancelRequested, runExport, wave, stop>>
<1>1. PICK s \in {"idle", "lost"} : step' = [step EXCEPT ![r][0] = s]
  BY DEF Ends
<1>2. s \in StepState
  BY DEF StepState
<1>3. /\ step' \in [Runs -> StepsState] /\ step'[r][0] = s
      /\ \A d \in Docs : step'[r][d] = step[r][d]
      /\ \A q \in Runs \ {r} : step'[q] = step[q]
  BY <1>1, <1>2, StepZero DEF Inv
<1>4. RunTypes
  BY Before
<1>5. /\ runPc'[r] = n /\ \A q \in Runs \ {r} : runPc'[q] = runPc[q]
      /\ runPc' \in [Runs -> {"none", "plan", "wave", "settle", "finish", "fail", "ended"}]
  BY <1>4 DEF RunTypes, Ends
<1>6. RunEffect(r, e) /\ RunTypes'
  BY <1>3, <1>4, <1>5 DEF RunEffect, RunTypes, Ends
<1> QED
  BY <1>1, <1>3, <1>5, <1>6 DEF Ends

LEMMA PlanEnds ==
  ASSUME Inv, NEW r \in Runs, NEW e \in Exports, Works(r, e), runPc[r] = "plan", Busy(r, 0),
         Planning(r), NEW n \in {"plan", "wave", "fail"}, Ends(r, n), n = "wave" => left'[r] = Docs
  PROVE  Inv'
<1>2. /\ Placed(r) /\ Sound(r, e) /\ Listed(e) /\ RunTypes
      /\ status[e] # "none" /\ cancelRequested[e] \in BOOLEAN
      /\ Stale(e) => cancelRequested[e] \/ ~IsActive(e)
      /\ documents[e] \in Lists /\ runPc[r] # "none"
      /\ step[r] \in StepsState
  BY Before
<1>3. PICK list \in Lists : list = [d \in Docs |-> "pending"]
  BY DEF Lists, DocumentStates
<1>4. /\ runExport[r] = e /\ status' = [status EXCEPT ![e] = "running"]
      /\ documents' = IF step[r][0] = "resume" THEN documents ELSE [documents EXCEPT ![e] = list]
  BY <1>3 DEF Planning, Works
<1>5. /\ status' \in [Exports -> Statuses] /\ status'[e] = "running"
      /\ documents' \in [Exports -> Lists]
      /\ documents'[e] = IF step[r][0] = "resume" THEN documents[e] ELSE list
      /\ \A f \in Exports \ {e} : status'[f] = status[f] /\ documents'[f] = documents[f]
  BY <1>2, <1>4 DEF RunTypes, Statuses, Active
<1>6. /\ RunEffect(r, e) /\ RunTypes'
      /\ runPc'[r] = n /\ step'[r][0] \in {"idle", "lost"}
      /\ \A d \in Docs : step'[r][d] = step[r][d]
      /\ UNCHANGED <<cancelRequested, runExport, wave, stop>>
  BY <1>5, EndsSo
<1>7. /\ wave[r] = {} /\ \A d \in Docs : step[r][d] = "idle"
      /\ step[r][0] \in {"list", "resume"}
  <2>1. step[r][0] \in StepState
    BY <1>2 DEF StepsState
  <2> QED
    BY <1>2, <2>1 DEF Placed, Busy, StepState, Worked
<1>8. Placed(r)'
  BY <1>2, <1>6, <1>7, EndsPlaced DEF Worked
<1>9. IsActive(e)' /\ (~cancelRequested[e] => IsActive(e) /\ ~Stale(e))
  BY <1>2, <1>5 DEF Sound, Alive, IsActive, Active
<1>10. InPlan(list) /\ (~cancelRequested[e] => InPlan(documents[e])')
  <2>1. InPlan(list)
    BY <1>3 DEF InPlan
  <2>2. step[r][0] = "resume" /\ ~cancelRequested[e] => InPlan(documents[e])
    BY <1>2, <1>9 DEF Sound, Done
  <2> QED
    BY <1>5, <2>1, <2>2 DEF InPlan
<1>11. Listed(e)'
  <2>1. step[r][0] = "list" => documents[e] = Nothing
    BY <1>2 DEF Sound
  <2>2. CASE documents'[e] = documents[e]
    BY <1>2, <1>5, <1>6, <2>2, ListedFrame DEF Stale
  <2>3. CASE documents'[e] = list /\ documents[e] = Nothing
    <3>1. Stale(e) => Uniform(stop.seen) /\ \A d \in Docs : stop.seen[d] # "exported"
      BY <1>2, <2>3 DEF Listed, Covers, Nothing
    <3> QED
      BY <1>5, <1>6, <1>10, <2>3, <3>1 DEF Listed, Covers, Uniform, Stale, InPlan
  <2> QED
    BY <1>5, <1>7, <2>1, <2>2, <2>3
<1>12. Sound(r, e)'
  <2>1. Alive(r, e)'
    BY <1>9 DEF Alive
  <2>2. OnPlan(r, e)'
    BY <1>6, <1>7, <1>9, <1>10 DEF OnPlan, Stale, Worked
  <2>3. Done(r, e)'
    BY <1>6, <1>7 DEF Done
  <2> QED
    BY <1>5, <1>6, <1>7, <2>1, <2>2, <2>3 DEF Sound, Worked
<1> QED
  BY <1>5, <1>6, <1>8, <1>9, <1>11, <1>12, RunKeeps

LEMMA SettleEnds ==
  ASSUME Inv, NEW r \in Runs, NEW e \in Exports, Works(r, e), runPc[r] = "settle", Busy(r, 0),
         Settling(r), NEW n \in {"settle", "finish", "fail"}, Ends(r, n)
  PROVE  Inv'
<1>2. /\ Placed(r) /\ Sound(r, e) /\ Listed(e) /\ RunTypes
      /\ status[e] # "none" /\ cancelRequested[e] \in BOOLEAN
      /\ documents[e] \in Lists /\ seen[r] \in Lists
      /\ step[r] \in StepsState
  BY Before
<1>3. step[r][0] = "settle" /\ WaveDone(r) /\ wave[r] \subseteq Docs
  <2>1. step[r][0] \in StepState
    BY <1>2 DEF StepsState
  <2> QED
    BY <1>2, <2>1 DEF Placed, Busy, StepState, Worked, RunTypes
<1>4. PICK list \in Lists :
        /\ list = Settled(seen[r])
        /\ InPlan(seen[r]) => \A d \in Docs : list[d] \in Reached
        /\ InPlan(list) <=> InPlan(seen[r])
        /\ \A d \in Docs : list[d] = "exported" <=> seen[r][d] = "exported"
        /\ Uniform(seen[r]) => Uniform(list)
  BY <1>2, SettledList
<1>5. /\ documents' \in [Exports -> Lists] /\ documents'[e] = list /\ UNCHANGED status
      /\ \A f \in Exports \ {e} : documents'[f] = documents[f]
  BY <1>2, <1>4 DEF Settling, Works, RunTypes
<1>6. /\ RunEffect(r, e) /\ RunTypes'
      /\ runPc'[r] = n /\ step'[r][0] \in {"idle", "lost"}
      /\ \A d \in Docs : step'[r][d] = step[r][d]
      /\ UNCHANGED <<cancelRequested, runExport, wave, stop>>
  BY <1>2, <1>5, EndsSo DEF RunTypes
<1>7. /\ \A d \in Docs : step[r][d] \notin Worked
      /\ status[e] # "ready"
      /\ Uniform(seen[r]) /\ Covers(documents[e], seen[r])
      /\ ~cancelRequested[e] => IsActive(e) /\ InPlan(documents[e]) /\ seen[r] = documents[e]
                                /\ (Stale(e) => InPlan(stop.seen))
  <2>1. \A d \in Docs : step[r][d] \notin Worked
    BY <1>2, <1>3 DEF Placed, Worked, WaveDone
  <2> QED
    BY <1>2, <1>3, <2>1 DEF Sound, Alive, OnPlan, Done
<1>8. Placed(r)'
  BY <1>2, <1>3, <1>6, <1>7, EndsPlaced
<1>9. Listed(e)'
  <2>1. Stale(e) => Covers(stop.seen, list) /\ Uniform(stop.seen)
    BY <1>2, <1>4, <1>7 DEF Listed, Covers
  <2> QED
    BY <1>4, <1>5, <1>6, <1>7, <2>1 DEF Listed, Stale, Uniform, InPlan, Covers
<1>10. Sound(r, e)'
  <2>1. Alive(r, e)'
    BY <1>5, <1>6, <1>7 DEF Alive, IsActive
  <2>2. OnPlan(r, e)'
    <3>1. ~cancelRequested[e] => InPlan(list) /\ (Stale(e) => InPlan(stop.seen))
      BY <1>4, <1>7
    <3> QED
      BY <1>5, <1>6, <1>7, <3>1 DEF OnPlan, Stale, InPlan
  <2>3. Done(r, e)'
    BY <1>4, <1>5, <1>6, <1>7 DEF Done
  <2> QED
    BY <1>5, <1>6, <1>7, <2>1, <2>2, <2>3 DEF Sound, Worked
<1> QED
  BY <1>2, <1>5, <1>6, <1>8, <1>9, <1>10, RunKeeps DEF IsActive

LEMMA FinishEnds ==
  ASSUME Inv, NEW r \in Runs, NEW e \in Exports, Works(r, e), runPc[r] \in {"finish", "fail"},
         Busy(r, 0), Finishing(r), NEW n \in {runPc[r], "fail", "ended"}, Ends(r, n),
         left'[r] = left[r]
  PROVE  Inv'
<1>2. /\ Placed(r) /\ Sound(r, e) /\ Listed(e) /\ RunTypes
      /\ status[e] # "none" /\ cancelRequested[e] \in BOOLEAN
      /\ runPc[r] # "none"
      /\ step[r] \in StepsState
  BY Before
<1>3. /\ step[r][0] \in {"ready", "cancelled", "failed"} /\ wave[r] \subseteq Docs
      /\ n \in {"finish", "fail", "ended"} /\ (n = "finish" => runPc[r] = "finish")
  <2>1. step[r][0] \in StepState
    BY <1>2 DEF StepsState
  <2> QED
    BY <1>2, <2>1 DEF Placed, Busy, StepState, Worked, RunTypes
<1>4. PICK s \in {"ready", "cancelled", "failed"} : s = step[r][0]
  BY <1>3
<1>5. /\ status' \in [Exports -> Statuses] /\ UNCHANGED documents
      /\ status'[e] = IF IsActive(e) THEN s ELSE status[e]
      /\ \A f \in Exports \ {e} : status'[f] = status[f]
  <2>1. status' = [status EXCEPT ![e] = IF IsActive(e) THEN s ELSE @] /\ UNCHANGED documents
    BY <1>4 DEF Finishing, Closed, MayClose, Works
  <2> QED
    BY <1>2, <2>1 DEF RunTypes, Statuses, Active
<1>6. /\ RunEffect(r, e) /\ RunTypes'
      /\ runPc'[r] = n /\ step'[r][0] \in {"idle", "lost"}
      /\ \A d \in Docs : step'[r][d] = step[r][d]
      /\ UNCHANGED <<cancelRequested, runExport, wave, stop>>
  <2>1. documents' \in [Exports -> Lists] /\ documents' = documents
    BY <1>2, <1>5 DEF RunTypes
  <2> QED
    BY <1>3, <1>5, <2>1, EndsSo
<1>7. Placed(r)'
  <2>1. n = "finish" => WaveDone(r) /\ \A d \in Docs : step[r][d] \notin Worked
    BY <1>2, <1>3 DEF Placed, Worked, WaveDone
  <2> QED
    BY <1>2, <1>3, <1>6, <2>1, EndsPlaced
<1>8. ~IsActive(e)' /\ status'[e] # "none"
  BY <1>2, <1>5 DEF IsActive, Active
<1>9. status'[e] = "ready" => /\ Whole(documents[e]) /\ WaveDone(r)
                              /\ Stale(e) => stop.seen = documents[e]
  <2>1. CASE status[e] = "ready"
    BY <1>2, <2>1 DEF Listed, Sound
  <2>2. CASE s = "ready" /\ IsActive(e)
    BY <1>2, <1>4, <2>2 DEF Sound, Placed
  <2> QED
    BY <1>5, <2>1, <2>2
<1>10. Listed(e)'
  BY <1>2, <1>5, <1>6, <1>9 DEF Listed, Stale, Uniform, Whole, Covers, InPlan
<1>11. Sound(r, e)'
  <2>1. Alive(r, e)' /\ Done(r, e)'
    BY <1>3, <1>6, <1>8 DEF Alive, Done
  <2>2. OnPlan(r, e)'
    <3>1. (\/ \E d \in Docs : step'[r][d] \in Worked
           \/ ~cancelRequested[e] /\ (n \in {"wave", "settle", "finish"} \/ wave[r] # {}))
          => InPlan(documents[e]) /\ (Stale(e) => InPlan(stop.seen))
      BY <1>2, <1>3, <1>6 DEF Sound, OnPlan
    <3> QED
      BY <1>5, <1>6, <3>1 DEF OnPlan, Stale, InPlan
  <2>3. status'[e] = "ready" => WaveDone(r)'
    BY <1>3, <1>6, <1>9 DEF WaveDone
  <2>4. \A d \in Docs : step'[r][d] \in Worked => documents'[e][d] # "exported"
    BY <1>2, <1>5, <1>6 DEF Sound
  <2> QED
    BY <1>3, <1>6, <2>1, <2>2, <2>3, <2>4 DEF Sound
<1> QED
  BY <1>6, <1>7, <1>8, <1>10, <1>11, RunKeeps

\* The step wrote nothing.
LEMMA NothingEnds ==
  ASSUME Inv, NEW r \in Runs, NEW e \in Exports, Works(r, e), Busy(r, 0),
         UNCHANGED <<status, documents>>, NEW n \in {runPc[r], "fail", "ended"}, Ends(r, n),
         left'[r] = left[r]
  PROVE  Inv'
<1>2. /\ Placed(r) /\ Sound(r, e) /\ Listed(e) /\ RunTypes
      /\ status[e] # "none" /\ cancelRequested[e] \in BOOLEAN
      /\ runPc[r] # "none"
      /\ step[r] \in StepsState
  BY Before
<1>3. /\ runPc[r] \in {"plan", "settle", "finish", "fail"} /\ wave[r] \subseteq Docs
      /\ n \in {"plan", "settle", "finish", "fail", "ended"}
  <2>1. step[r][0] \in StepState
    BY <1>2 DEF StepsState
  <2> QED
    BY <1>2, <2>1 DEF Placed, Busy, StepState, Worked, RunTypes
<1>6. /\ RunEffect(r, e) /\ RunTypes'
      /\ runPc'[r] = n /\ step'[r][0] \in {"idle", "lost"}
      /\ \A d \in Docs : step'[r][d] = step[r][d]
      /\ UNCHANGED <<cancelRequested, runExport, wave, stop>>
  <2>1. /\ documents' \in [Exports -> Lists] /\ documents' = documents
        /\ status' \in [Exports -> Statuses] /\ status' = status
    BY <1>2 DEF RunTypes
  <2> QED
    BY <1>3, <2>1, EndsSo
<1>7. Placed(r)'
  <2>1. /\ n \in {"settle", "finish"} => WaveDone(r) /\ \A d \in Docs : step[r][d] \notin Worked
        /\ n = "plan" => \A d \in Docs : step[r][d] \notin Worked
    BY <1>2, <1>3 DEF Placed, Worked, WaveDone
  <2> QED
    BY <1>2, <1>3, <1>6, <2>1, EndsPlaced
<1>8. Sound(r, e)'
  <2>1. Alive(r, e)'
    BY <1>2, <1>3, <1>6 DEF Sound, Alive, IsActive
  <2>2. OnPlan(r, e)'
    <3>1. (\/ \E d \in Docs : step'[r][d] \in Worked
           \/ ~cancelRequested[e] /\ (n \in {"wave", "settle", "finish"} \/ wave[r] # {}))
          => InPlan(documents[e]) /\ (Stale(e) => InPlan(stop.seen))
      BY <1>2, <1>3, <1>6 DEF Sound, OnPlan
    <3> QED
      BY <1>6, <3>1 DEF OnPlan, Stale, InPlan
  <2>3. Done(r, e)'
    BY <1>2, <1>3, <1>6 DEF Sound, Done, IsActive
  <2>4. status'[e] = "ready" => n \in {"finish", "fail", "ended"} /\ WaveDone(r)'
    BY <1>2, <1>3, <1>6 DEF Sound, WaveDone
  <2>5. \A d \in Docs : step'[r][d] \in Worked => documents'[e][d] # "exported"
    BY <1>2, <1>6 DEF Sound
  <2> QED
    BY <1>6, <2>1, <2>2, <2>3, <2>4, <2>5 DEF Sound
<1> QED
  BY <1>6, <1>7, <1>8, ReadKeeps

LEMMA SequenceWriteKeeps ==
  ASSUME Inv, NEW r \in Runs, PlanWrite(r) \/ SettleWrite(r) \/ FinishWrite(r)
  PROVE  Inv'
<1>1. PICK e \in Exports : runExport[r] = e /\ Works(r, e)
  BY Acting DEF Run
<1>2. "idle" \in {"idle", "lost"} /\ Typed /\ Nothing \in Lists
  BY ListTypes DEF Inv
<1>3. CASE PlanWrite(r)
  <2>1. /\ runPc[r] = "plan" /\ Busy(r, 0) /\ Planning(r)
        /\ left' = [left EXCEPT ![r] = Docs]
    BY <1>3 DEF PlanWrite
  <2>2. left'[r] = Docs /\ Ends(r, "wave")
    BY <1>2, <1>3, <2>1 DEF PlanWrite, Ends, Typed, procVars
  <2> QED
    BY <1>1, <2>1, <2>2, PlanEnds
<1>4. CASE SettleWrite(r)
  <2>1. runPc[r] = "settle" /\ Busy(r, 0) /\ Settling(r)
    BY <1>4 DEF SettleWrite
  <2>2. Ends(r, "finish")
    BY <1>2, <1>4 DEF SettleWrite, Ends, Typed, procVars
  <2> QED
    BY <1>1, <2>1, <2>2, SettleEnds
<1>5. CASE FinishWrite(r)
  <2>1. runPc[r] \in {"finish", "fail"} /\ Busy(r, 0) /\ Finishing(r) /\ left'[r] = left[r]
    BY <1>5 DEF FinishWrite
  <2>2. Ends(r, "ended")
    BY <1>2, <1>5 DEF FinishWrite, Ends, Typed, procVars
  <2> QED
    BY <1>1, <2>1, <2>2, FinishEnds
<1> QED
  BY <1>3, <1>4, <1>5

\* The step of the sequence stops before its write or after it.
LEMMA SequenceKeeps ==
  ASSUME Inv, NEW r \in Runs, NEW e \in Exports, Works(r, e), Busy(r, 0), SequenceInterrupted(r),
         NEW n \in {runPc[r], "fail", "ended"}, n = "ended" => runPc[r] = "fail",
         Ends(r, n), left'[r] = left[r]
  PROVE  Inv'
<1>1. CASE UNCHANGED <<status, documents>>
  BY <1>1, NothingEnds
<1>2. CASE runPc[r] = "plan" /\ Planning(r)
  BY <1>2, PlanEnds
<1>3. CASE runPc[r] = "settle" /\ Settling(r)
  BY <1>3, SettleEnds
<1>4. CASE runPc[r] \in {"finish", "fail"} /\ Finishing(r)
  BY <1>4, FinishEnds
<1> QED
  BY <1>1, <1>2, <1>3, <1>4 DEF SequenceInterrupted

LEMMA SequenceThrowsKeeps ==
  ASSUME Inv, NEW r \in Runs, SequenceThrows(r)
  PROVE  Inv'
<1>1. PICK e \in Exports : runExport[r] = e /\ Works(r, e)
  BY Acting DEF RunFails
<1>2. PICK n \in {runPc[r], IF runPc[r] = "fail" THEN "ended" ELSE "fail"} :
        runPc' = [runPc EXCEPT ![r] = n]
  BY DEF SequenceThrows
<1>3. n \in {runPc[r], "fail", "ended"} /\ (n = "ended" => runPc[r] \in {"fail", "ended"})
  OBVIOUS
<1>4. runPc[r] # "ended" \/ ~Busy(r, 0)
  <2>1. Placed(r) /\ step[r] \in StepsState
    BY <1>1, Before
  <2>2. step[r][0] \in StepState
    BY <2>1 DEF StepsState
  <2> QED
    BY <2>1, <2>2 DEF Placed, Busy, StepState, Worked
<1>5. /\ Busy(r, 0) /\ SequenceInterrupted(r) /\ left'[r] = left[r]
  BY DEF SequenceThrows
<1>6. Ends(r, n)
  <2>1. Typed /\ Nothing \in Lists
    BY ListTypes DEF Inv
  <2>2. faults' \in 0..MaxFaults
    BY <2>1, BoundsAssumption DEF SequenceThrows, Typed
  <2>3. "idle" \in {"idle", "lost"} /\ step' = [step EXCEPT ![r][0] = "idle"]
    BY DEF SequenceThrows
  <2> QED
    BY <1>2, <2>1, <2>2, <2>3 DEF SequenceThrows, Ends, Typed, procVars
<1> QED
  BY <1>1, <1>3, <1>4, <1>5, <1>6, SequenceKeeps

LEMMA SequenceDiesKeeps ==
  ASSUME Inv, NEW r \in Runs, WorkerDies(r, 0)
  PROVE  Inv'
<1>1. PICK e \in Exports : runExport[r] = e /\ Works(r, e)
  BY Acting DEF RunFails
<1>2. PICK n \in {runPc[r], "fail", "ended"} : n = runPc[r]
  OBVIOUS
<1>3. /\ Busy(r, 0) /\ SequenceInterrupted(r) /\ left'[r] = left[r]
      /\ seen' = [seen EXCEPT ![r] = Nothing] /\ step' = [step EXCEPT ![r][0] = "lost"]
  BY DocsAssumption DEF WorkerDies
<1>4. runPc[r] # "ended"
  <2>1. Placed(r) /\ step[r] \in StepsState
    BY <1>1, Before
  <2>2. step[r][0] \in StepState
    BY <2>1 DEF StepsState
  <2> QED
    BY <1>3, <2>1, <2>2 DEF Placed, Busy, StepState, Worked
<1>5. Ends(r, n)
  <2>1. Typed /\ Nothing \in Lists
    BY ListTypes DEF Inv
  <2>2. faults' \in 0..MaxFaults
    BY <2>1, BoundsAssumption DEF WorkerDies, Typed
  <2>3. "lost" \in {"idle", "lost"}
    OBVIOUS
  <2>4. runPc' = [runPc EXCEPT ![r] = n]
    BY <1>2, <2>1 DEF WorkerDies, Typed
  <2> QED
    BY <1>3, <2>1, <2>2, <2>3, <2>4 DEF WorkerDies, Ends, Typed, procVars
<1> QED
  BY <1>1, <1>2, <1>3, <1>4, <1>5, SequenceKeeps

-----------------------------------------------------------------------------
(* The invariant. *)

\* The age of a row is nothing to what works on it.
LEMMA AgeKeeps ==
  ASSUME Inv, UNCHANGED <<status, runId, documents, cancelRequested, recoveries>>,
         UNCHANGED <<runVars, procVars, faults>>
  PROVE  Inv'
<1>1. UNCHANGED <<runExport, runPc, wave, left, step, seen, cancelled, post, stop, sweep, faults>>
  BY DEF runVars, procVars
<1>2. RunsFrame
  BY <1>1 DEF RunsFrame
<1>3. /\ \A r \in Runs : Placed(r)'
      /\ OneMoves'
      /\ \A e \in Exports : Unborn(e)' /\ Listed(e)'
      /\ \A r \in Runs, e \in Exports : Works(r, e)' => Sound(r, e)'
  BY <1>1, <1>2, RunsKept, RowsKept
<1>4. Typed'
  BY <1>1 DEF Inv, Typed
<1>5. Posted' /\ Flagged' /\ Lost'
  BY <1>1, <1>2, PostedFrame, FlaggedFrame, SweepKept DEF Inv
<1> QED
  BY <1>3, <1>4, <1>5 DEF Inv

LEMMA InitInv == Init => Inv
<1> SUFFICES ASSUME Init PROVE Inv
  OBVIOUS
<1>1. Nothing \in Lists
  BY DEF Nothing, Lists, DocumentStates
<1>2. Typed
  <2>1. step \in [Runs -> StepsState]
    BY DEF Init, StepsState, StepState
  <2>2. post \in [Requests -> PostState]
    BY DEF Init, PostState, NoPost
  <2>3. stop \in StopState /\ stop.pc = "idle"
    BY <1>1 DEF Init, StopState, NoStop
  <2>4. sweep \in SweepState /\ sweep.pc = "idle"
    BY DEF Init, SweepState, SweepIdle
  <2>5. \A q \in Requests : post[q].pc = "idle"
    BY DEF Init, NoPost
  <2>6. recoveries \in [Exports -> 0..MaxRecoveries] /\ faults \in 0..MaxFaults
    BY BoundsAssumption DEF Init
  <2> QED
    BY <1>1, <2>1, <2>2, <2>3, <2>4, <2>5, <2>6
       DEF Init, Typed, Statuses, Active, PostBusy, SweepBusy
<1>3. \A r \in Runs : /\ step[r][0] = "idle" /\ \A d \in Docs : step[r][d] = "idle"
                      /\ runPc[r] = "none" /\ runExport[r] = 0 /\ wave[r] = {}
  BY DEF Init
<1>4. \A r \in Runs : Placed(r)
  BY <1>3 DEF Placed, Worked
<1>5. \A r \in Runs : ~Moving(r)
  BY <1>3 DEF Moving, Busy
<1>6. \A e \in Exports : Unborn(e)
  BY <1>3 DEF Init, Unborn, Exports
<1>7. Posted /\ Flagged
  BY DEF Init, Posted, Flagged, NoPost, NoStop, PostBusy, StopBusy
<1>8. Lost
  BY DEF Init, Lost, Candidates, SweepIdle, SweepBusy
<1>9. OneMoves /\ \A r \in Runs, e \in Exports : ~Works(r, e)
  BY <1>5 DEF OneMoves, Works
<1>10. \A e \in Exports : Listed(e)
  BY DEF Init, Listed, Uniform, Stale, NoStop
<1> QED
  BY <1>2, <1>4, <1>6, <1>7, <1>8, <1>9, <1>10 DEF Inv

LEMMA NextInv ==
  ASSUME Base, Tracked, Inv, [Next]_vars
  PROVE  Inv'
<1>1. CASE \E q \in Requests : PostRead(q) \/ Post(q) \/ PostDies(q)
  BY <1>1, PostReadKeeps, PostCreateKeeps, PostStartKeeps, PostRecordKeeps, PostDiesKeeps DEF Post
<1>2. ASSUME NEW r \in Runs, Run(r)
      PROVE  Inv'
  <2>1. CASE PlanRead(r) \/ PlanFails(r) \/ BeginWave(r) \/ EndWaves(r)
    BY <2>1, PlanReadKeeps, PlanFailsKeeps, BeginWaveKeeps, EndWavesKeeps
  <2>2. CASE \E d \in Docs : StepRead(r, d) \/ StepMark(r, d) \/ StepWrite(r, d)
    BY <2>2, StepReadKeeps, StepMarkKeeps, StepWriteKeeps
  <2>3. CASE SettleRead(r) \/ FinishRead(r) \/ FailRead(r)
    BY <2>3, SettleReadKeeps, FinishReadKeeps, FailReadKeeps
  <2>4. CASE PlanWrite(r) \/ SettleWrite(r) \/ FinishWrite(r)
    BY <2>4, SequenceWriteKeeps
  <2> QED
    BY <1>2, <2>1, <2>2, <2>3, <2>4 DEF Run
<1>3. ASSUME NEW r \in Runs, RunFails(r)
      PROVE  Inv'
  <2>1. CASE \E d \in Docs : StepThrows(r, d)
    BY <2>1, StepThrowsKeeps
  <2>2. CASE SequenceThrows(r)
    BY <2>2, SequenceThrowsKeeps
  <2>3. CASE \E x \in Docs \cup {0} : WorkerDies(r, x)
    BY <2>3, StepDiesKeeps, SequenceDiesKeeps
  <2> QED
    BY <1>3, <2>1, <2>2, <2>3 DEF RunFails
<1>4. CASE StopRead \/ Stop \/ StopDies
  BY <1>4, StopReadKeeps, StopFlagKeeps, StopCancelKeeps, StopSettleReadKeeps, StopSettleWriteKeeps,
     StopCloseKeeps, StopDiesKeeps DEF Stop
<1>5. CASE Sweep \/ CallFails \/ SweepDies
  BY <1>5, FindLostKeeps, NextLostKeeps, CancelLostKeeps, CloseLostKeeps, RestartLostKeeps,
     ClaimLostKeeps, StopSurplusKeeps, SweepFailsKeeps DEF Sweep
<1>6. CASE (\E e \in Exports : Age(e)) \/ AtRest \/ UNCHANGED vars
  <2>1. UNCHANGED <<status, runId, documents, cancelRequested, recoveries>>
    BY <1>6 DEF Age, AtRest, vars, rowVars
  <2>2. UNCHANGED <<runVars, procVars, faults>>
    BY <1>6 DEF Age, AtRest, vars
  <2> QED
    BY <2>1, <2>2, AgeKeeps
<1> QED
  BY <1>1, <1>2, <1>3, <1>4, <1>5, <1>6 DEF Next

\* Once a run was left unrecorded, it has been.
LEMMA StraysStay ==
  ASSUME [Next]_vars
  PROVE  strays \subseteq strays'
<1>1. CASE \E q \in Requests : PostRead(q) \/ Post(q) \/ PostDies(q)
  BY <1>1 DEF PostRead, Post, PostCreate, PostStart, PostRecord, PostDies
<1>2. ASSUME NEW r \in Runs, Run(r) \/ RunFails(r)
      PROVE  strays' = strays
  <2>1. CASE PlanRead(r) \/ PlanWrite(r) \/ PlanFails(r) \/ BeginWave(r) \/ EndWaves(r)
             \/ SettleRead(r) \/ SettleWrite(r) \/ FinishRead(r) \/ FailRead(r) \/ FinishWrite(r)
    BY <2>1 DEF PlanRead, PlanWrite, PlanFails, BeginWave, EndWaves, SettleRead, SettleWrite,
                FinishRead, FailRead, FinishWrite
  <2>2. CASE \E d \in Docs : StepRead(r, d) \/ StepMark(r, d) \/ StepWrite(r, d) \/ StepThrows(r, d)
    BY <2>2 DEF StepRead, StepMark, StepWrite, StepThrows
  <2>3. CASE SequenceThrows(r) \/ \E x \in Docs \cup {0} : WorkerDies(r, x)
    BY <2>3 DEF SequenceThrows, WorkerDies
  <2> QED
    BY <1>2, <2>1, <2>2, <2>3 DEF Run, RunFails
<1>3. CASE StopRead \/ Stop \/ StopDies
  BY <1>3 DEF StopRead, Stop, StopFlag, StopCancel, StopSettleRead, StopSettleWrite, StopClose, StopDies
<1>4. CASE Sweep \/ CallFails \/ SweepDies
  BY <1>4 DEF Sweep, FindLost, NextLost, CancelLost, CloseLost, RestartLost, ClaimLost, StopSurplus,
              CallFails, SweepDies
<1>5. CASE (\E e \in Exports : Age(e)) \/ AtRest \/ UNCHANGED vars
  BY <1>5 DEF Age, AtRest, vars
<1> QED
  BY <1>1, <1>2, <1>3, <1>4, <1>5 DEF Next

\* The inductive invariant: who works on an export, and, while every run is recorded,
\* what it makes of the row.
Full == Base /\ (Tracked => Inv)

\* A step after which no run is unrecorded had none before it.
LEMMA TrackedBefore == Full /\ [Next]_vars => (Tracked' => Inv)
BY StraysStay DEF Full, Tracked

LEMMA InitFull == Init => Full
BY InitBase, InitInv DEF Full

LEMMA NextFull == Full /\ [Next]_vars => Full'
<1> SUFFICES ASSUME Full, [Next]_vars PROVE Full'
  OBVIOUS
<1>1. Base'
  BY NextBase DEF Full
<1>2. ASSUME Tracked'
      PROVE  Inv'
  <2>1. Tracked /\ Inv
    BY <1>2, StraysStay, TrackedBefore DEF Tracked
  <2> QED
    BY <2>1, NextInv DEF Full
<1> QED
  BY <1>1, <1>2 DEF Full

\* What holds of every reachable state: how the runs, the requests, the DELETE
\* handler and the sweep share the row of an export.
THEOREM Invariance == Spec => []Full
BY InitFull, NextFull, PTL DEF Spec

\* Every variable has its type.
THEOREM Typing == Spec => []TypeOK
<1>1. Full => TypeOK
  BY DEF Full, Base, Typed, TypeOK, StepsState, StepState, PostState, StopState, SweepState
<1> QED
  BY <1>1, Invariance, PTL

\* An archive that may be fetched has a verdict on every document, and a document,
\* while every run is recorded.
THEOREM ReadyWhole == Spec => []ReadyIsWhole
<1>1. Full => ReadyIsWhole
  BY DEF Full, Inv, Listed, Whole, ReadyIsWhole
<1> QED
  BY <1>1, Invariance, PTL

\* However the sweep, the requests and a person who stops the export meet, two runs
\* are never at work on one export, but for those a lost sweep left unrecorded: that
\* the sweep asks a row its age alone is enough.
THEOREM OneRun == Spec => []OneRunPerExport
<1>1. Full => OneRunPerExport
  BY DEF Full, Base
<1> QED
  BY <1>1, Invariance, PTL

-----------------------------------------------------------------------------
(* What a step may never do. *)

\* Nobody else than a run and these writes the status or the list of an export.
LEMMA OthersWrite ==
  ASSUME [Next]_vars, \A r \in Runs : ~Run(r) /\ ~RunFails(r)
  PROVE  \/ UNCHANGED <<status, documents>>
         \/ (\E q \in Requests : PostCreate(q)) \/ StopSettleWrite \/ StopClose \/ CloseLost
<1>1. CASE \E q \in Requests : PostRead(q) \/ Post(q) \/ PostDies(q)
  BY <1>1 DEF PostRead, Post, PostStart, PostRecord, PostDies, rowVars
<1>2. CASE StopRead \/ Stop \/ StopDies
  BY <1>2 DEF StopRead, Stop, StopFlag, StopCancel, StopSettleRead, StopDies, rowVars
<1>3. CASE Sweep \/ CallFails \/ SweepDies
  BY <1>3 DEF Sweep, FindLost, NextLost, CancelLost, RestartLost, ClaimLost, StopSurplus, CallFails,
              SweepDies, rowVars
<1>4. CASE (\E e \in Exports : Age(e)) \/ AtRest \/ UNCHANGED vars
  BY <1>4 DEF Age, AtRest, vars, rowVars
<1> QED
  BY <1>1, <1>2, <1>3, <1>4 DEF Next

\* Neither a late step of its run, nor a person who stops it late with a list read
\* before, nor the sweep touches an export that is ready.
THEOREM ReadyFinal == Spec => ReadyIsFinal
<1>1. ASSUME Inv, [Next]_vars, NEW e \in Exports, status[e] = "ready"
      PROVE  status'[e] = "ready" /\ documents'[e] = documents[e]
  <2>1. Typed /\ Listed(e)
    BY <1>1 DEF Inv
  <2>2. /\ status \in [Exports -> Statuses] /\ documents \in [Exports -> Lists] /\ ~IsActive(e)
    BY <1>1, <2>1 DEF Typed, IsActive, Active
  <2>3. ASSUME NEW r \in Runs, Run(r) \/ RunFails(r)
        PROVE  status'[e] = "ready" /\ documents'[e] = documents[e]
    <3>1. PICK f \in Exports : runExport[r] = f /\ Works(r, f)
      BY <1>1, <2>3, Acting
    <3>2. Sound(r, f) /\ Placed(r)
      BY <1>1, <3>1, Before
    <3>3. CASE runPc[r] = "plan" /\ Busy(r, 0) /\ Planning(r)
      <4>1. f # e
        BY <1>1, <3>2, <3>3 DEF Sound
      <4> QED
        BY <1>1, <2>2, <3>1, <3>3, <4>1 DEF Planning
    <3>4. CASE \E d \in Docs, s \in {"exporting"} \cup Reached :
                 Busy(r, d) /\ UNCHANGED status /\ documents' = Patched(f, d, s)
      <4>1. PICK d \in Docs, s \in {"exporting"} \cup Reached :
              Busy(r, d) /\ UNCHANGED status /\ documents' = Patched(f, d, s)
        BY <3>4
      <4>2. step[r][d] \in Worked
        BY <3>2, <4>1, BusyDocument
      <4>3. ~WaveDone(r)
        BY <3>2, <4>2 DEF Placed, WaveDone, Worked
      <4>4. f # e
        BY <1>1, <3>2, <4>3 DEF Sound
      <4> QED
        BY <1>1, <2>2, <4>1, <4>4 DEF Patched
    <3>5. CASE runPc[r] = "settle" /\ Settling(r)
      <4>1. f # e
        BY <1>1, <3>2, <3>5 DEF Sound
      <4> QED
        BY <1>1, <2>2, <3>1, <3>5, <4>1 DEF Settling
    <3>6. CASE Finishing(r)
      BY <1>1, <2>2, <3>1, <3>6 DEF Finishing, Closed, MayClose
    <3> QED
      BY <1>1, <2>3, <3>1, <3>3, <3>4, <3>5, <3>6, RunWrites
  <2>4. CASE StopSettleWrite
    <3>1. documents' = [documents EXCEPT ![stop.of] = Settled(stop.seen)] /\ UNCHANGED status
      BY <2>4 DEF StopSettleWrite
    <3>2. stop.of = e => Settled(stop.seen) = documents[e]
      <4>1. stop.of = e => stop.seen = documents[e] /\ Whole(documents[e])
        BY <1>1, <2>1, <2>4 DEF StopSettleWrite, Listed, Stale
      <4> QED
        BY <2>2, <4>1, SettledList DEF Whole
    <3> QED
      BY <1>1, <2>2, <3>1, <3>2
  <2>5. CASE StopClose
    BY <1>1, <2>2, <2>5 DEF StopClose
  <2>6. CASE CloseLost
    BY <1>1, <2>2, <2>6 DEF CloseLost, StillLost
  <2>7. CASE \E q \in Requests : PostCreate(q)
    BY <1>1, <2>2, <2>7 DEF PostCreate, NextExport
  <2> QED
    BY <1>1, <2>3, <2>4, <2>5, <2>6, <2>7, OthersWrite
<1>2. Full /\ [Next]_vars => [Tracked' => \A e \in Exports : status[e] = "ready" =>
                                status'[e] = "ready" /\ documents'[e] = documents[e]]_vars
  BY <1>1, TrackedBefore
<1> QED
  BY <1>2, Invariance, PTL DEF Spec, ReadyIsFinal

\* A document that was exported is not taken up again: not by the step that is tried
\* again, not by the run that the sweep starts, and not out of a list read before.
THEOREM OnceExported == Spec => ExportedOnce
<1>1. ASSUME Inv, [Next]_vars, NEW e \in Exports, NEW d \in Docs, documents[e][d] = "exported"
      PROVE  documents'[e][d] \notin {"pending", "exporting"}
  <2>1. Typed /\ documents \in [Exports -> Lists] /\ stop.seen \in Lists
    BY <1>1, ListTypes DEF Inv, Typed
  <2>2. \A list \in Lists : Settled(list)[d] \notin {"pending", "exporting"}
    BY DEF Settled
  <2>3. ASSUME NEW r \in Runs, Run(r) \/ RunFails(r)
        PROVE  documents'[e][d] \notin {"pending", "exporting"}
    <3>1. PICK f \in Exports : runExport[r] = f /\ Works(r, f)
      BY <1>1, <2>3, Acting
    <3>2. /\ Sound(r, f) /\ Placed(r) /\ step[r] \in StepsState /\ seen[r] \in Lists
      BY <1>1, <3>1, Before
    <3>3. CASE runPc[r] = "plan" /\ Busy(r, 0) /\ Planning(r)
      <4>1. step[r][0] \in {"list", "resume"}
        <5>1. step[r][0] \in StepState
          BY <3>2 DEF StepsState
        <5> QED
          BY <3>2, <3>3, <5>1 DEF Placed, Busy, StepState, Worked
      <4>2. step[r][0] = "list" => f # e
        BY <1>1, <3>2 DEF Sound, Nothing
      <4> QED
        BY <1>1, <2>1, <3>1, <3>3, <4>1, <4>2 DEF Planning
    <3>4. CASE \E c \in Docs, s \in {"exporting"} \cup Reached :
                 Busy(r, c) /\ UNCHANGED status /\ documents' = Patched(f, c, s)
      <4>1. PICK c \in Docs, s \in {"exporting"} \cup Reached :
              Busy(r, c) /\ UNCHANGED status /\ documents' = Patched(f, c, s)
        BY <3>4
      <4>2. f # e \/ c # d
        BY <1>1, <3>2, <4>1, BusyDocument DEF Sound
      <4> QED
        BY <1>1, <2>1, <4>1, <4>2 DEF Patched, Lists
    <3>5. CASE runPc[r] = "settle" /\ Settling(r)
      BY <1>1, <2>1, <2>2, <3>1, <3>2, <3>5 DEF Settling
    <3>6. CASE Finishing(r)
      BY <1>1, <3>6 DEF Finishing
    <3> QED
      BY <1>1, <2>3, <3>1, <3>3, <3>4, <3>5, <3>6, RunWrites
  <2>4. CASE StopSettleWrite
    BY <1>1, <2>1, <2>2, <2>4 DEF StopSettleWrite
  <2>5. CASE StopClose \/ CloseLost \/ \E q \in Requests : PostCreate(q)
    BY <1>1, <2>5 DEF StopClose, CloseLost, PostCreate
  <2> QED
    BY <1>1, <2>3, <2>4, <2>5, OthersWrite
<1>2. Full /\ [Next]_vars => [Tracked' => \A e \in Exports, d \in Docs : documents[e][d] = "exported" =>
                                documents'[e][d] \notin {"pending", "exporting"}]_vars
  BY <1>1, TrackedBefore
<1> QED
  BY <1>2, Invariance, PTL DEF Spec, ExportedOnce

=====
