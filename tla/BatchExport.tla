----------------------------- MODULE BatchExport -----------------------------
(***************************************************************************)
(* The export of a batch: the route that starts one and stops one           *)
(* (app/api/batches/[id]/export/route.ts), the durable run that exports its *)
(* documents in waves (lib/workflows/export-batch.ts) on one progress row   *)
(* (lib/documents/batch-exports.ts), and the sweep that starts a lost one   *)
(* again (lib/workflows/export-recovery.ts).                                *)
(*                                                                         *)
(* A step of a run reads its row, works, and writes its row: each of these  *)
(* is an action.  The steps of a wave are executed side by side.  The       *)
(* totals on the row are a function of the states of its documents, and so  *)
(* are left out.                                                            *)
(***************************************************************************)
EXTENDS Integers, FiniteSets

CONSTANTS
  Docs,           \* the documents of the batch: positive, in the plan's order
  Width,          \* exportConcurrency(): the documents of one wave
  MaxRecoveries,  \* restarts before a lost export is failed
  Requests,       \* POST handlers that may be open at once
  MaxExports,     \* bound: exports ever asked for
  MaxRuns,        \* bound: runs ever started
  MaxFaults,      \* bound: processes lost, steps and calls that fail
  Allows          \* what else may happen in this instance, of Hazards

\* "cancel": a person stops an export.
\* "clicks": a client asks for an export again before the first answer.
\* "orphan": a request dies between creating an export and recording its run.
\* "astray": a person stops an export although some run was never recorded.
Hazards == {"cancel", "clicks", "orphan", "astray"}

Exports == 1..MaxExports
Runs    == 1..MaxRuns

ASSUME DocsAssumption == Docs \subseteq Nat \ {0} /\ IsFiniteSet(Docs)

ASSUME BoundsAssumption ==
  /\ Width \in Nat \ {0}
  /\ MaxRecoveries \in Nat
  /\ MaxExports \in Nat
  /\ MaxRuns \in Nat
  /\ MaxFaults \in Nat
  /\ Allows \subseteq Hazards

VARIABLES
  \* export rows
  status,      \* "none" until the row is created
  runId,       \* workflowRunId, 0 for null
  documents,   \* the state of each document; "unplanned" while the list is empty
  cancelRequested,
  recoveries,
  quiet,       \* updatedAt is more than ANONIFY_STUCK_RUN_MINUTES ago
  \* durable runs
  runExport,   \* the export a run was started on, 0 before
  runPc,       \* where exportBatch is
  wave,        \* the documents of the current wave
  left,        \* those of the waves to come
  step,        \* where each step is: 0 is the step of the sequence, d that of a document
  seen,        \* the list a step has read
  cancelled,
  \* processes
  post,        \* POST handlers
  stop,        \* the DELETE handler
  sweep,
  faults,      \* bound
  strays       \* history: runs the sweep started and was lost before it recorded

rowVars  == <<status, runId, documents, cancelRequested, recoveries, quiet>>
runVars  == <<runExport, runPc, wave, left, step, seen, cancelled>>
procVars == <<post, stop, sweep>>
vars     == <<rowVars, runVars, procVars, faults, strays>>

-----------------------------------------------------------------------------
(* Rows. *)

Active   == {"queued", "running"}
Statuses == Active \cup {"none", "ready", "failed", "cancelled"}

IsActive(e) == status[e] \in Active

Reached == {"exported", "skipped"}

Planned(e) == \A d \in Docs : documents[e][d] # "unplanned"

Nothing == [d \in Docs |-> "unplanned"]

\* settleUnreached: the documents of a list that nobody has reached a verdict on.
Settled(list) == [d \in Docs |-> IF list[d] \in {"pending", "exporting"} THEN "skipped" ELSE list[d]]

\* patchDocumentState: one document's state in the row as it is, under its lock.
Patched(e, d, s) == [documents EXCEPT ![e][d] = s]

\* A write of the row, which sets updatedAt.  (What a guarded write that finds the
\* row over would leave is immaterial: nobody asks the age of such a row.)
Touched(e) == quiet' = [quiet EXCEPT ![e] = FALSE]

NextExport(e) == status[e] = "none" /\ \A f \in Exports : status[f] = "none" => e <= f
NextRun(r) == runPc[r] = "none" /\ \A s \in Runs : runPc[s] = "none" => r <= s

\* start(exportBatch, [e])
Start(e, r) ==
  /\ NextRun(r)
  /\ runExport' = [runExport EXCEPT ![r] = e]
  /\ runPc' = [runPc EXCEPT ![r] = "plan"]
  /\ UNCHANGED <<wave, left, step, seen, cancelled>>

-----------------------------------------------------------------------------
(* POST. *)

NoPost == [pc |-> "idle", of |-> 0, new |-> 0]

\* A click while an export is going joins it.
PostRead(q) ==
  /\ post[q].pc = "idle"
  /\ "clicks" \in Allows \/ \A p \in Requests : post[p].pc = "idle"
  /\ \A e \in Exports : ~IsActive(e)
  /\ \E e \in Exports : status[e] = "none"
  /\ post' = [post EXCEPT ![q].pc = "create"]
  /\ UNCHANGED <<rowVars, runVars, stop, sweep, faults, strays>>

PostCreate(q) ==
  /\ post[q].pc = "create"
  /\ \E e \in Exports :
       /\ NextExport(e)
       /\ status' = [status EXCEPT ![e] = "queued"]
       /\ Touched(e)
       /\ post' = [post EXCEPT ![q].pc = "start", ![q].of = e]
  /\ UNCHANGED <<runId, documents, cancelRequested, recoveries, runVars, stop, sweep, faults, strays>>

PostStart(q) ==
  /\ post[q].pc = "start"
  /\ \E r \in Runs :
       /\ Start(post[q].of, r)
       /\ post' = [post EXCEPT ![q].pc = "record", ![q].new = r]
  /\ UNCHANGED <<rowVars, stop, sweep, faults, strays>>

\* The run is recorded whatever has become of the row.
PostRecord(q) ==
  /\ post[q].pc = "record"
  /\ runId' = [runId EXCEPT ![post[q].of] = post[q].new]
  /\ Touched(post[q].of)
  /\ post' = [post EXCEPT ![q] = NoPost]
  /\ UNCHANGED <<status, documents, cancelRequested, recoveries, runVars, stop, sweep, faults, strays>>

\* The process dies, or a call of its throws: nothing is undone.
PostDies(q) ==
  /\ post[q].pc # "idle"
  /\ post[q].pc \in {"start", "record"} => "orphan" \in Allows
  /\ faults < MaxFaults
  /\ faults' = faults + 1
  /\ post' = [post EXCEPT ![q] = NoPost]
  /\ UNCHANGED <<rowVars, runVars, stop, sweep, strays>>

Post(q) == PostCreate(q) \/ PostStart(q) \/ PostRecord(q)

-----------------------------------------------------------------------------
(* exportBatch, on the row e == runExport[r]. *)

\* A step that a worker is executing.
Busy(r, x) == step[r][x] \notin {"idle", "done", "stop", "threw", "lost"}

\* The next step of the sequence may be taken up.
MayBegin(r) == step[r][0] = "idle" /\ ~cancelled[r]

\* The first documents of those left.
NextWave(S) == {d \in S : Cardinality({c \in S : c < d}) < Width}

PlanRead(r) ==
  /\ runPc[r] = "plan" /\ MayBegin(r)
  /\ step' = [step EXCEPT ![r][0] = IF Planned(runExport[r]) THEN "resume" ELSE "list"]
  /\ UNCHANGED <<rowVars, runExport, runPc, wave, left, seen, cancelled, procVars, faults, strays>>

\* runPlan writes status "running" whatever the status is.
Planning(r) ==
  LET e == runExport[r] IN
  /\ status' = [status EXCEPT ![e] = "running"]
  /\ documents' = IF step[r][0] = "resume" THEN documents
                  ELSE [documents EXCEPT ![e] = [d \in Docs |-> "pending"]]
  /\ Touched(e)

PlanWrite(r) ==
  /\ runPc[r] = "plan" /\ Busy(r, 0)
  /\ Planning(r)
  /\ runPc' = [runPc EXCEPT ![r] = "wave"]
  /\ left' = [left EXCEPT ![r] = Docs]
  /\ step' = [step EXCEPT ![r][0] = "idle"]
  /\ UNCHANGED <<runId, cancelRequested, recoveries, runExport, wave, seen, cancelled, procVars, faults, strays>>

\* The batch has no documents left.
PlanFails(r) ==
  /\ runPc[r] = "plan" /\ step[r][0] = "list"
  /\ runPc' = [runPc EXCEPT ![r] = "fail"]
  /\ step' = [step EXCEPT ![r][0] = "idle"]
  /\ UNCHANGED <<rowVars, runExport, wave, left, seen, cancelled, procVars, faults, strays>>

\* Promise.all of the wave is over, or there is none yet.
WaveDone(r)   == \A d \in wave[r] : step[r][d] \in {"done", "stop"}
WaveStops(r)  == \E d \in wave[r] : step[r][d] = "stop"
WaveThrows(r) == \E d \in wave[r] : step[r][d] = "threw"

BeginWave(r) ==
  /\ runPc[r] = "wave" /\ ~cancelled[r]
  /\ WaveDone(r) /\ ~WaveStops(r) /\ left[r] # {}
  /\ wave' = [wave EXCEPT ![r] = NextWave(left[r])]
  /\ left' = [left EXCEPT ![r] = @ \ NextWave(@)]
  /\ UNCHANGED <<rowVars, runExport, runPc, step, seen, cancelled, procVars, faults, strays>>

EndWaves(r) ==
  /\ runPc[r] = "wave" /\ ~cancelled[r]
  /\ \/ WaveDone(r) /\ (WaveStops(r) \/ left[r] = {})
     \/ WaveThrows(r)
  /\ runPc' = [runPc EXCEPT ![r] = IF WaveThrows(r) THEN "fail"
                                   ELSE IF WaveStops(r) THEN "settle" ELSE "finish"]
  /\ UNCHANGED <<rowVars, runExport, wave, left, step, seen, cancelled, procVars, faults, strays>>

\* Variant: a step that is tried again does not ask whether it got this far before.
AlreadyDoneNever(e, d) == FALSE

AlreadyDone(e, d) == documents[e][d] \in Reached

\* A step waiting for a worker when another one of its wave threw is executed too.
StepRead(r, d) ==
  /\ runPc[r] \in {"wave", "fail"} /\ d \in wave[r]
  /\ step[r][d] = "idle" /\ ~cancelled[r]
  /\ LET e == runExport[r] IN
     \E next \in IF cancelRequested[e] \/ status[e] = "cancelled" THEN {"stop"}
                 ELSE IF AlreadyDone(e, d) THEN {"done"}
                 ELSE {"mark", "skip"} :
       step' = [step EXCEPT ![r][d] = next]
  /\ UNCHANGED <<rowVars, runExport, runPc, wave, left, seen, cancelled, procVars, faults, strays>>

StepMark(r, d) ==
  /\ step[r][d] = "mark"
  /\ documents' = Patched(runExport[r], d, "exporting")
  /\ Touched(runExport[r])
  /\ step' = [step EXCEPT ![r][d] = "work"]
  /\ UNCHANGED <<status, runId, cancelRequested, recoveries, runExport, runPc, wave, left, seen,
                 cancelled, procVars, faults, strays>>

\* A document that is not ready is skipped; one that is has its allowance charged
\* and is exported: stored, refused by the verification, or past the allowance.
Verdicts(r, d) ==
  IF step[r][d] = "skip" THEN {[state |-> "skipped", outcome |-> "done"]}
  ELSE {[state |-> "exported", outcome |-> "done"], [state |-> "skipped", outcome |-> "done"],
        [state |-> "skipped", outcome |-> "stop"]}

StepWrite(r, d) ==
  /\ step[r][d] \in {"work", "skip"}
  /\ \E v \in Verdicts(r, d) :
       /\ documents' = Patched(runExport[r], d, v.state)
       /\ step' = [step EXCEPT ![r][d] = v.outcome]
  /\ Touched(runExport[r])
  /\ UNCHANGED <<status, runId, cancelRequested, recoveries, runExport, runPc, wave, left, seen,
                 cancelled, procVars, faults, strays>>

\* Before its next write of the row or after it, a step is interrupted.
Interrupted(r, d) ==
  \/ UNCHANGED <<documents, quiet>>
  \/ /\ step[r][d] = "mark"
     /\ documents' = Patched(runExport[r], d, "exporting")
     /\ Touched(runExport[r])
  \/ /\ step[r][d] \in {"work", "skip"}
     /\ \E v \in Verdicts(r, d) : documents' = Patched(runExport[r], d, v.state)
     /\ Touched(runExport[r])

\* It throws: to be tried again, or for good.
StepThrows(r, d) ==
  /\ Busy(r, d) /\ faults < MaxFaults
  /\ faults' = faults + 1
  /\ Interrupted(r, d)
  /\ \E next \in {"idle", "threw"} : step' = [step EXCEPT ![r][d] = next]
  /\ UNCHANGED <<status, runId, cancelRequested, recoveries, runExport, runPc, wave, left, seen,
                 cancelled, procVars, strays>>

SettleRead(r) ==
  /\ runPc[r] = "settle" /\ MayBegin(r)
  /\ seen' = [seen EXCEPT ![r] = documents[runExport[r]]]
  /\ step' = [step EXCEPT ![r][0] = "settle"]
  /\ UNCHANGED <<rowVars, runExport, runPc, wave, left, cancelled, procVars, faults, strays>>

\* settlePending writes the list it read, with no lock.
Settling(r) ==
  /\ documents' = [documents EXCEPT ![runExport[r]] = Settled(seen[r])]
  /\ Touched(runExport[r])
  /\ UNCHANGED status

SettleWrite(r) ==
  /\ runPc[r] = "settle" /\ Busy(r, 0)
  /\ Settling(r)
  /\ runPc' = [runPc EXCEPT ![r] = "finish"]
  /\ step' = [step EXCEPT ![r][0] = "idle"]
  /\ seen' = [seen EXCEPT ![r] = Nothing]
  /\ UNCHANGED <<runId, cancelRequested, recoveries, runExport, wave, left, cancelled, procVars, faults, strays>>

\* Variant: an archive of nothing is an archive.
HasFilesAlways(e) == TRUE

HasFiles(e) == \E d \in Docs : documents[e][d] = "exported"

\* The status the row is going to have is decided on what finishExport reads.
FinishRead(r) ==
  /\ runPc[r] = "finish" /\ MayBegin(r)
  /\ LET e == runExport[r] IN
     step' = [step EXCEPT ![r][0] =
       IF cancelRequested[e] THEN "cancelled"
       ELSE IF HasFiles(e) THEN "ready" ELSE "failed"]
  /\ UNCHANGED <<rowVars, runExport, runPc, wave, left, seen, cancelled, procVars, faults, strays>>

\* Variant: the last write does not ask whether the export is still going.
MayCloseAny(e) == TRUE

MayClose(e) == IsActive(e)

Closed(e, s) == [status EXCEPT ![e] = IF MayClose(e) THEN s ELSE @]

\* failExport: the documents nobody reached are left as they are.
FailRead(r) ==
  /\ runPc[r] = "fail" /\ MayBegin(r)
  /\ step' = [step EXCEPT ![r][0] = "failed"]
  /\ UNCHANGED <<rowVars, runExport, runPc, wave, left, seen, cancelled, procVars, faults, strays>>

Finishing(r) ==
  /\ status' = Closed(runExport[r], step[r][0])
  /\ Touched(runExport[r])
  /\ UNCHANGED documents

FinishWrite(r) ==
  /\ runPc[r] \in {"finish", "fail"} /\ Busy(r, 0)
  /\ Finishing(r)
  /\ runPc' = [runPc EXCEPT ![r] = "ended"]
  /\ step' = [step EXCEPT ![r][0] = "idle"]
  /\ UNCHANGED <<runId, cancelRequested, recoveries, runExport, wave, left, seen, cancelled, procVars, faults, strays>>

\* Before its write or after it, the step of the sequence is interrupted.
SequenceInterrupted(r) ==
  \/ UNCHANGED <<status, documents, quiet>>
  \/ runPc[r] = "plan" /\ Planning(r)
  \/ runPc[r] = "settle" /\ Settling(r)
  \/ runPc[r] \in {"finish", "fail"} /\ Finishing(r)

\* It throws: to be tried again, or for good; the run ends when failExport does.
SequenceThrows(r) ==
  /\ Busy(r, 0) /\ faults < MaxFaults
  /\ faults' = faults + 1
  /\ SequenceInterrupted(r)
  /\ \E next \in {runPc[r], IF runPc[r] = "fail" THEN "ended" ELSE "fail"} :
       runPc' = [runPc EXCEPT ![r] = next]
  /\ step' = [step EXCEPT ![r][0] = "idle"]
  /\ seen' = [seen EXCEPT ![r] = Nothing]
  /\ UNCHANGED <<runId, cancelRequested, recoveries, runExport, wave, left, cancelled, procVars, strays>>

\* The runner would take the job again after four hours; the sweep, after minutes,
\* has cancelled the run by then.
WorkerDies(r, x) ==
  /\ Busy(r, x) /\ faults < MaxFaults
  /\ faults' = faults + 1
  /\ \/ x \in Docs /\ Interrupted(r, x) /\ UNCHANGED <<status, seen>>
     \/ x = 0 /\ SequenceInterrupted(r) /\ seen' = [seen EXCEPT ![r] = Nothing]
  /\ step' = [step EXCEPT ![r][x] = "lost"]
  /\ UNCHANGED <<runId, cancelRequested, recoveries, runExport, runPc, wave, left, cancelled,
                 procVars, strays>>

Run(r) ==
  \/ PlanRead(r) \/ PlanWrite(r) \/ PlanFails(r)
  \/ BeginWave(r) \/ EndWaves(r)
  \/ \E d \in Docs : StepRead(r, d) \/ StepMark(r, d) \/ StepWrite(r, d)
  \/ SettleRead(r) \/ SettleWrite(r)
  \/ FinishRead(r) \/ FailRead(r) \/ FinishWrite(r)

RunFails(r) ==
  \/ \E d \in Docs : StepThrows(r, d)
  \/ SequenceThrows(r)
  \/ \E x \in Docs \cup {0} : WorkerDies(r, x)

-----------------------------------------------------------------------------
(* DELETE: asks the export to stop, cancels its run, and closes the row. *)

NoStop == [pc |-> "idle", of |-> 0, run |-> 0, seen |-> Nothing]

StopRead ==
  /\ "cancel" \in Allows
  /\ strays # {} => "astray" \in Allows
  /\ stop.pc = "idle"
  /\ \E e \in Exports :
       /\ IsActive(e) /\ \A f \in Exports : IsActive(f) => f <= e
       /\ stop' = [NoStop EXCEPT !.pc = "flag", !.of = e, !.run = runId[e]]
  /\ UNCHANGED <<rowVars, runVars, post, sweep, faults, strays>>

StopFlag ==
  /\ stop.pc = "flag"
  /\ cancelRequested' = [cancelRequested EXCEPT ![stop.of] = @ \/ IsActive(stop.of)]
  /\ Touched(stop.of)
  /\ stop' = [stop EXCEPT !.pc = "cancel"]
  /\ UNCHANGED <<status, runId, documents, recoveries, runVars, post, sweep, faults, strays>>

\* Cancelling stops a run before its next step, not in the middle of one; a run
\* that will not cancel, or has ended, is no error.
Cancelled(r) ==
  IF r \in Runs /\ runPc[r] # "ended" THEN [cancelled EXCEPT ![r] = TRUE] ELSE cancelled

StopCancel ==
  /\ stop.pc = "cancel"
  /\ cancelled' = Cancelled(stop.run)
  /\ stop' = [stop EXCEPT !.pc = "read"]
  /\ UNCHANGED <<rowVars, runExport, runPc, wave, left, step, seen, post, sweep, faults, strays>>

StopSettleRead ==
  /\ stop.pc = "read"
  /\ stop' = [stop EXCEPT !.pc = "write", !.seen = documents[stop.of]]
  /\ UNCHANGED <<rowVars, runVars, post, sweep, faults, strays>>

StopSettleWrite ==
  /\ stop.pc = "write"
  /\ documents' = [documents EXCEPT ![stop.of] = Settled(stop.seen)]
  /\ Touched(stop.of)
  /\ stop' = [stop EXCEPT !.pc = "close", !.seen = Nothing]
  /\ UNCHANGED <<status, runId, cancelRequested, recoveries, runVars, post, sweep, faults, strays>>

StopClose ==
  /\ stop.pc = "close"
  /\ status' = [status EXCEPT ![stop.of] = IF IsActive(stop.of) THEN "cancelled" ELSE @]
  /\ Touched(stop.of)
  /\ stop' = NoStop
  /\ UNCHANGED <<runId, documents, cancelRequested, recoveries, runVars, post, sweep, faults, strays>>

StopDies ==
  /\ stop.pc # "idle" /\ faults < MaxFaults
  /\ faults' = faults + 1
  /\ stop' = NoStop
  /\ UNCHANGED <<rowVars, runVars, post, sweep, strays>>

Stop == StopFlag \/ StopCancel \/ StopSettleRead \/ StopSettleWrite \/ StopClose

-----------------------------------------------------------------------------
(* recoverLostExports, in the sweep. *)

NoCandidate == [of |-> 0, run |-> 0, asked |-> FALSE, recoveries |-> 0]
SweepIdle   == [pc |-> "idle", found |-> {}, cur |-> NoCandidate, new |-> 0]

\* Some step of this run is executed, or is going to be.
Moving(r) ==
  \/ \E x \in Docs \cup {0} : Busy(r, x)
  \/ /\ ~cancelled[r]
     /\ \/ runPc[r] \in {"plan", "settle", "finish", "fail"} /\ MayBegin(r)
        \/ runPc[r] = "wave" /\ (WaveDone(r) \/ WaveThrows(r))
        \/ runPc[r] \in {"wave", "fail"} /\ \E d \in wave[r] : step[r][d] = "idle"

\* Time passes without a write of the row: while no run of the export moves and no
\* request stops it.  The minutes are longer than a healthy step, a wait for a worker
\* and a request take.
Age(e) ==
  /\ IsActive(e) /\ ~quiet[e]
  /\ \A r \in Runs : runExport[r] = e => ~Moving(r)
  /\ stop.of # e
  /\ quiet' = [quiet EXCEPT ![e] = TRUE]
  /\ UNCHANGED <<status, runId, documents, cancelRequested, recoveries, runVars, procVars, faults, strays>>

\* Variant: a run that was lost before it had planned is not looked for.
StalledRunning(e) == status[e] = "running" /\ runId[e] # 0 /\ quiet[e]

\* Variant: the age is not asked.
StalledAtOnce(e) == IsActive(e) /\ runId[e] # 0

\* What the sweep asks is the row's alone: not whether some run works on it.
Stalled(e) == IsActive(e) /\ runId[e] # 0 /\ quiet[e]

FindLost ==
  /\ sweep.pc = "idle"
  /\ \E e \in Exports : Stalled(e)
  /\ sweep' = [sweep EXCEPT !.pc = "next", !.found =
       {[of |-> e, run |-> runId[e], asked |-> cancelRequested[e], recoveries |-> recoveries[e]] :
          e \in {f \in Exports : Stalled(f)}}]
  /\ UNCHANGED <<rowVars, runVars, post, stop, faults, strays>>

NextLost ==
  /\ sweep.pc = "next"
  /\ IF sweep.found = {} THEN sweep' = SweepIdle
     ELSE \E c \in sweep.found :
            sweep' = [sweep EXCEPT !.pc = "cancel", !.found = @ \ {c}, !.cur = c]
  /\ UNCHANGED <<rowVars, runVars, post, stop, faults, strays>>

GivesUp(c) == c.recoveries >= MaxRecoveries

CancelLost ==
  /\ sweep.pc = "cancel"
  /\ cancelled' = Cancelled(sweep.cur.run)
  /\ sweep' = [sweep EXCEPT !.pc =
       IF sweep.cur.asked \/ GivesUp(sweep.cur) THEN "close" ELSE "start"]
  /\ UNCHANGED <<rowVars, runExport, runPc, wave, left, step, seen, post, stop, faults, strays>>

Skipped == [sweep EXCEPT !.pc = "next", !.cur = NoCandidate, !.new = 0]

\* The row is still on the run that was lost, and live.
StillLost(c) == runId[c.of] = c.run /\ IsActive(c.of)

CloseLost ==
  /\ sweep.pc = "close"
  /\ LET c == sweep.cur IN
     IF StillLost(c)
     THEN status' = [status EXCEPT ![c.of] = IF c.asked THEN "cancelled" ELSE "failed"] /\ Touched(c.of)
     ELSE UNCHANGED <<status, quiet>>
  /\ sweep' = Skipped
  /\ UNCHANGED <<runId, documents, cancelRequested, recoveries, runVars, post, stop, faults, strays>>

\* The new run is started before the row is given it.
RestartLost ==
  /\ sweep.pc = "start"
  /\ \E r \in Runs :
       /\ Start(sweep.cur.of, r)
       /\ sweep' = [sweep EXCEPT !.pc = "claim", !.new = r]
  /\ UNCHANGED <<rowVars, post, stop, faults, strays>>

ClaimLost ==
  /\ sweep.pc = "claim"
  /\ LET c == sweep.cur IN
     \/ /\ StillLost(c)
        /\ runId' = [runId EXCEPT ![c.of] = sweep.new]
        /\ recoveries' = [recoveries EXCEPT ![c.of] = c.recoveries + 1]
        /\ Touched(c.of)
        /\ sweep' = Skipped
     \/ /\ ~StillLost(c)
        /\ sweep' = [sweep EXCEPT !.pc = "surplus"]
        /\ UNCHANGED <<runId, recoveries, quiet>>
  /\ UNCHANGED <<status, documents, cancelRequested, runVars, post, stop, faults, strays>>

StopSurplus ==
  /\ sweep.pc = "surplus"
  /\ cancelled' = Cancelled(sweep.new)
  /\ sweep' = Skipped
  /\ UNCHANGED <<rowVars, runExport, runPc, wave, left, step, seen, post, stop, faults, strays>>

\* A run that will not cancel or start is left for the next sweep; so is a
\* surplus run that will not cancel.
CallFails ==
  /\ sweep.pc \in {"cancel", "start", "surplus"} /\ faults < MaxFaults
  /\ faults' = faults + 1
  /\ sweep' = Skipped
  /\ UNCHANGED <<rowVars, runVars, post, stop, strays>>

\* Lost before the claim, or with it, the sweep leaves a run that no row names, and
\* a row as old as it was.
SweepDies ==
  /\ sweep.pc # "idle" /\ faults < MaxFaults
  /\ sweep.pc = "claim" /\ stop.pc # "idle" => "astray" \in Allows
  /\ faults' = faults + 1
  /\ strays' = IF sweep.pc = "claim" THEN strays \cup {sweep.new} ELSE strays
  /\ sweep' = SweepIdle
  /\ UNCHANGED <<rowVars, runVars, post, stop>>

Sweep ==
  \/ FindLost \/ NextLost \/ CancelLost \/ CloseLost \/ RestartLost \/ ClaimLost \/ StopSurplus

-----------------------------------------------------------------------------
Init ==
  /\ status = [e \in Exports |-> "none"]
  /\ runId = [e \in Exports |-> 0]
  /\ documents = [e \in Exports |-> Nothing]
  /\ cancelRequested = [e \in Exports |-> FALSE]
  /\ recoveries = [e \in Exports |-> 0]
  /\ quiet = [e \in Exports |-> FALSE]
  /\ runExport = [r \in Runs |-> 0]
  /\ runPc = [r \in Runs |-> "none"]
  /\ wave = [r \in Runs |-> {}]
  /\ left = [r \in Runs |-> {}]
  /\ step = [r \in Runs |-> [x \in Docs \cup {0} |-> "idle"]]
  /\ seen = [r \in Runs |-> Nothing]
  /\ cancelled = [r \in Runs |-> FALSE]
  /\ post = [q \in Requests |-> NoPost]
  /\ stop = NoStop
  /\ sweep = SweepIdle
  /\ faults = 0
  /\ strays = {}

\* No export is going: the one state in which the system may rest.
AtRest == (\A e \in Exports : ~IsActive(e)) /\ UNCHANGED vars

Next ==
  \/ \E q \in Requests : PostRead(q) \/ Post(q) \/ PostDies(q)
  \/ \E r \in Runs : Run(r) \/ RunFails(r)
  \/ StopRead \/ Stop \/ StopDies
  \/ (\E e \in Exports : Age(e)) \/ Sweep \/ CallFails \/ SweepDies
  \/ AtRest

Spec == Init /\ [][Next]_vars

\* What goes on by itself: nobody has to ask for an export or to stop one, and nothing
\* makes a fault happen.
Work ==
  \/ \E q \in Requests : Post(q)
  \/ \E r \in Runs : Run(r)
  \/ Stop
  \/ \E e \in Exports : Age(e)
  \/ Sweep

\* Some of it is done while there is some to do.  No more is asked of the workers and
\* the scheduler, not even that they are fair to each run.
Fairness == WF_vars(Work)

FairSpec == Spec /\ Fairness

-----------------------------------------------------------------------------
(* Properties. *)

DocumentStates == {"unplanned", "pending", "exporting"} \cup Reached
Lists == [Docs -> DocumentStates]

\* Every variable has its type.
TypeOK ==
  /\ status \in [Exports -> Statuses]
  /\ runId \in [Exports -> {0} \cup Runs]
  /\ documents \in [Exports -> Lists]
  /\ cancelRequested \in [Exports -> BOOLEAN]
  /\ recoveries \in [Exports -> 0..MaxRecoveries]
  /\ quiet \in [Exports -> BOOLEAN]
  /\ runExport \in [Runs -> {0} \cup Exports]
  /\ runPc \in [Runs -> {"none", "plan", "wave", "settle", "finish", "fail", "ended"}]
  /\ wave \in [Runs -> SUBSET Docs]
  /\ left \in [Runs -> SUBSET Docs]
  /\ step \in [Runs -> [Docs \cup {0} ->
       {"idle", "list", "resume", "mark", "work", "skip", "settle",
        "cancelled", "ready", "failed", "done", "stop", "threw", "lost"}]]
  /\ seen \in [Runs -> Lists]
  /\ cancelled \in [Runs -> BOOLEAN]
  /\ post \in [Requests -> [pc : {"idle", "create", "start", "record"},
                            of : {0} \cup Exports, new : {0} \cup Runs]]
  /\ stop \in [pc : {"idle", "flag", "cancel", "read", "write", "close"},
               of : {0} \cup Exports, run : {0} \cup Runs, seen : Lists]
  /\ sweep.pc \in {"idle", "next", "cancel", "close", "start", "claim", "surplus"}
  /\ sweep.new \in {0} \cup Runs
  /\ faults \in 0..MaxFaults
  /\ strays \subseteq Runs

\* No sweep was lost with a run it had started and not recorded.  The row is then
\* still as old as the lost run left it, and the next sweep starts another run: two
\* work on one export, and nothing but OneRunPerExport is claimed of their writes.
Tracked == strays = {}

\* An export that is ready has a verdict on every document, and an archive of one
\* document at least.
ReadyIsWhole ==
  Tracked => \A e \in Exports : status[e] = "ready" =>
    /\ \A d \in Docs : documents[e][d] \in Reached
    /\ \E d \in Docs : documents[e][d] = "exported"

\* Nothing that a run, a late step, a person or the sweep does afterwards undoes an
\* export that is ready.
ReadyIsFinal ==
  [][Tracked' => \A e \in Exports : status[e] = "ready" =>
       status'[e] = "ready" /\ documents'[e] = documents[e]]_vars

\* One run works on an export, the runs that a lost sweep left unrecorded apart: a
\* second one is not at work before the first is lost, or stopped by a person.
OneRunPerExport ==
  \A r, s \in Runs \ strays : runExport[r] = runExport[s] /\ Moving(r) /\ Moving(s) => r = s

\* A document that has been exported is not exported again, however often the export
\* is started again.
ExportedOnce ==
  [][Tracked' => \A e \in Exports, d \in Docs : documents[e][d] = "exported" =>
       documents'[e][d] \notin {"pending", "exporting"}]_vars

\* An export that was asked for is over in the end, whatever works on it.
EveryExportSettles == \A e \in Exports : IsActive(e) ~> ~IsActive(e)

=============================================================================
