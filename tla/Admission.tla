------------------------------ MODULE Admission ------------------------------
(***************************************************************************)
(* The processing queue of lib/documents/admission.ts: documents that wait, *)
(* the admissions that start them (from the process and retry routes, from  *)
(* the end of a run and from the sweep), the durable runs themselves, and   *)
(* the sweep that finds lost runs again (lib/workflows/recovery.ts).        *)
(*                                                                         *)
(* The queue is not a table: a document waits when its row says "queued"    *)
(* and names no run.  Every database call of an admission is one action, so *)
(* admissions interleave between their reads and their writes.              *)
(*                                                                         *)
(* A stage of a run is the publishStatus step and the work step after it:   *)
(* BeginStage publishes, CompleteStage is the end of the work.  Documents   *)
(* here are not containers, and every failure may be retried (a refused     *)
(* retry is a retry nobody sends).                                          *)
(***************************************************************************)
EXTENDS Integers, FiniteSets

CONSTANTS
  Docs,           \* documents: naturals, in the order of createdAt
  Owners,         \* userFingerprint values
  Landed,         \* documents that wait from the start, their request having died
                  \* before its admission; with "children", a container's children
  OwnerOf,        \* the owner of each document
  Limit,          \* processingConcurrency(): per owner
  Cap,            \* ANONIFY_PROCESSING_GLOBAL_MAX, 0 when it is not set
  MaxRecoveries,  \* restarts before a lost document is failed
  Requests,       \* request handlers that may be open at once
  Sweeper,        \* the one process holding the sweep lock
  Nobody,         \* stands for null
  MaxRuns,        \* bound: runs ever started
  MaxRetries,     \* bound: times a person presses retry or extends
  MaxFaults,      \* bound: processes lost, starts, cancels and finishes that fail
  Allows          \* what else may happen in this instance, of Hazards

\* "resend": a client sends a request again before the first one is answered.
\* "orphan": an admission dies between starting a run and recording it.
\* "expiry": documents expire, or are deleted.
\* "retry": a person retries a document that has failed.
\* "extend": the retention of a document is extended while it is processed.
\* "children": the step that expanded a container starts its children's runs.
Hazards == {"resend", "orphan", "expiry", "retry", "extend", "children"}

Runs      == 1..MaxRuns
Admitters == Requests \cup {Sweeper} \cup Runs

ASSUME DocsAssumption ==
  /\ Docs \subseteq Nat
  /\ IsFiniteSet(Docs)
  /\ Landed \subseteq Docs
  /\ OwnerOf \in [Docs -> Owners]

ASSUME ProcessesAssumption ==
  /\ Requests \cap Runs = {}
  /\ Sweeper \notin Requests \cup Runs
  /\ Nobody \notin Docs

ASSUME BoundsAssumption ==
  /\ Limit \in Nat \ {0}
  /\ Cap \in Nat
  /\ MaxRecoveries \in Nat
  /\ MaxRuns \in Nat
  /\ MaxRetries \in Nat
  /\ MaxFaults \in Nat
  /\ Allows \subseteq Hazards

VARIABLES
  \* document rows
  status,      \* Document.status
  runId,       \* Document.workflowRunId
  bytes,       \* which blob key the row holds: the upload, then the source
  recoveries,  \* metadata.recoveries
  life,        \* "kept", "due" once expiresAt has passed, "gone" once purged
  \* durable runs
  runDoc,      \* the document a run was started on
  runPc,       \* the stage a run is at; "none" before it is started
  exec,        \* its current step: "idle" (queued), "busy" or "lost"
  cancelled,
  \* processes
  adm,         \* one admission per process: where it is, and its locals
  req,         \* request handlers
  sweep,
  child,       \* startChildRun of a container's expansion step
  \* history, and bounds
  faults, retries,
  abandoned,   \* admissions lost, and the runs they never recorded
  overlapped

docVars  == <<status, runId, bytes, recoveries, life>>
runVars  == <<runDoc, runPc, exec, cancelled>>
procVars == <<adm, req, sweep, child>>
hist     == <<faults, retries, abandoned>>
vars     == <<docVars, runVars, procVars, hist, overlapped>>

-----------------------------------------------------------------------------
(* Rows.  workflowRunId is null, a pending claim, or a run. *)

NoRun      == [kind |-> "none", of |-> Nobody]
Pending(a) == [kind |-> "pending", of |-> a]
Started(r) == [kind |-> "run", of |-> r]

RunIds == {NoRun} \cup {Pending(a) : a \in Admitters} \cup {Started(r) : r \in Runs}

Working  == {"queued", "extracting", "normalizing", "analyzing"}
Statuses == Working \cup {"uploading", "ready", "failed", "expired"}

Exists(d) == life[d] # "gone"

Claimed(d) == /\ runId[d] # NoRun
              /\ status[d] \in Working
              /\ life[d] = "kept"

\* inFlight(): a run that exists is in flight whatever stage it reports.
InFlight(o)  == Cardinality({d \in Docs : OwnerOf[d] = o /\ Claimed(d)})
InFlightAll  == Cardinality({d \in Docs : Claimed(d)})

\* As Waiting was before #190: a document past ingest holds no upload.
WaitingUploadOnly(d) ==
  /\ runId[d] = NoRun
  /\ status[d] = "queued"
  /\ bytes[d] = "upload"
  /\ life[d] = "kept"

Waiting(d) ==
  /\ runId[d] = NoRun
  /\ status[d] = "queued"
  /\ bytes[d] \in {"upload", "source"}
  /\ life[d] = "kept"

\* orderBy createdAt asc, as a guard on the document taken next.
Oldest(d, S) == d \in S /\ \A e \in S : d <= e

\* The n oldest of S: findMany with take n.
TakeOldest(n, S) == {d \in S : Cardinality({e \in S : e < d}) < n}

WaitingOf(o) == {d \in Docs : OwnerOf[d] = o /\ Waiting(d)}

\* groupBy owner with the oldest createdAt: that document stands for its owner.
WaitingOwners == {d \in Docs : Waiting(d) /\ Oldest(d, WaitingOf(OwnerOf[d]))}

-----------------------------------------------------------------------------
(* Admissions.  In "turn" and "again" a document stands for its owner.      *)

Capped == Cap # 0

Idle == [pc |-> "idle", rounds |-> FALSE, turn |-> {}, again |-> {}, rep |-> Nobody,
         room |-> 0, waiting |-> {}, doc |-> Nobody, new |-> 0, won |-> FALSE]

\* The loop over owners: those of this turn, and those another turn is due to.
InTurn(rounds, turn, again) ==
  IF turn = {} THEN Idle
  ELSE [Idle EXCEPT !.pc = IF rounds THEN "turn" ELSE "count",
                    !.rounds = rounds, !.turn = turn, !.again = again]

\* admitQueued for the owner of d.
AdmitQueued(d) == InTurn(FALSE, {d}, {})

\* admitFairly: every owner with something waiting, in rounds under a cap.
AdmitFairly == InTurn(Capped, WaitingOwners, {})

\* The admission a finished run makes for the next document.
AdmitAfter(d) ==
  IF Capped THEN AdmitFairly
  ELSE IF Exists(d) THEN AdmitQueued(d)
  ELSE Idle

\* One call of admitQueued has returned: on to the next owner of the turn, and
\* under a cap to the next turn, of the owners this one started something for.
OwnerDone(l) ==
  LET again == IF l.rounds /\ l.won THEN l.again \cup {l.rep} ELSE l.again
      turn  == IF l.turn = {} THEN again ELSE l.turn
  IN  InTurn(l.rounds, turn, again \ turn)

\* On to the next document of the list this admission read.
DocDone(l) ==
  IF l.waiting = {} THEN OwnerDone(l)
  ELSE [l EXCEPT !.pc = "claim", !.doc = Nobody, !.new = 0]

TakeTurn(a) ==
  /\ adm[a].pc = "turn"
  /\ adm' = [adm EXCEPT ![a] =
       IF InFlightAll >= Cap THEN Idle ELSE [adm[a] EXCEPT !.pc = "count"]]
  /\ UNCHANGED <<docVars, runVars, req, sweep, child, hist>>

AtMost(n, room) == IF room < n THEN room ELSE n

OwnerRoom(o) == IF InFlight(o) >= Limit THEN 0 ELSE Limit - InFlight(o)

CountOwner(a) ==
  /\ adm[a].pc = "count"
  /\ \E d \in adm[a].turn :
     /\ Oldest(d, adm[a].turn)
     /\ LET l    == [adm[a] EXCEPT !.turn = @ \ {d}, !.rep = d]
            free == OwnerRoom(OwnerOf[d])
            room == IF l.rounds THEN AtMost(1, free) ELSE free
        IN  adm' = [adm EXCEPT ![a] =
              IF Capped THEN [l EXCEPT !.pc = "cap", !.room = room]
              ELSE IF room = 0 THEN OwnerDone(l)
              ELSE [l EXCEPT !.pc = "find", !.room = room]]
  /\ UNCHANGED <<docVars, runVars, req, sweep, child, hist>>

\* Variant: the document that is about to start is not counted.
GlobalRoomOffByOne == IF InFlightAll > Cap THEN 0 ELSE (Cap + 1) - InFlightAll

GlobalRoom == IF InFlightAll >= Cap THEN 0 ELSE Cap - InFlightAll

CountAll(a) ==
  /\ adm[a].pc = "cap"
  /\ LET l    == adm[a]
         room == AtMost(GlobalRoom, l.room)
     IN  adm' = [adm EXCEPT ![a] =
           IF room = 0 THEN OwnerDone(l) ELSE [l EXCEPT !.pc = "find", !.room = room]]
  /\ UNCHANGED <<docVars, runVars, req, sweep, child, hist>>

FindWaiting(a) ==
  /\ adm[a].pc = "find"
  /\ LET l    == adm[a]
         list == TakeOldest(l.room, WaitingOf(OwnerOf[l.rep]))
     IN  adm' = [adm EXCEPT ![a] =
           IF list = {} THEN OwnerDone(l)
           ELSE [l EXCEPT !.pc = "claim", !.room = 0, !.waiting = list]]
  /\ UNCHANGED <<docVars, runVars, req, sweep, child, hist>>

\* Variant: the claim as it was before it was conditional, taking any row.
MayClaimAny(d) == Exists(d)

MayClaim(d) == Exists(d) /\ runId[d] = NoRun

Claim(a) ==
  /\ adm[a].pc = "claim"
  /\ \E d \in adm[a].waiting :
     /\ Oldest(d, adm[a].waiting)
     /\ LET l == [adm[a] EXCEPT !.waiting = @ \ {d}] IN
        \/ /\ MayClaim(d)
           /\ runId' = [runId EXCEPT ![d] = Pending(a)]
           /\ adm' = [adm EXCEPT ![a] = [l EXCEPT !.pc = "start", !.doc = d]]
        \/ /\ ~MayClaim(d)
           /\ adm' = [adm EXCEPT ![a] = DocDone(l)]
           /\ UNCHANGED runId
  /\ UNCHANGED <<status, bytes, recoveries, life, runVars, req, sweep, child, hist>>

\* start(): the run is created; ids are taken in order.
NextRun(r) == runPc[r] = "none" /\ \A s \in Runs : runPc[s] = "none" => r <= s

StartRun(a, r) ==
  /\ adm[a].pc = "start"
  /\ NextRun(r)
  /\ runDoc' = [runDoc EXCEPT ![r] = adm[a].doc]
  /\ runPc' = [runPc EXCEPT ![r] = "queued"]
  /\ adm' = [adm EXCEPT ![a].pc = "record", ![a].new = r]
  /\ UNCHANGED <<docVars, exec, cancelled, req, sweep, child, hist>>

StartFails(a) ==
  /\ adm[a].pc = "start"
  /\ faults < MaxFaults
  /\ faults' = faults + 1
  /\ adm' = [adm EXCEPT ![a].pc = "unclaim"]
  /\ UNCHANGED <<docVars, runVars, req, sweep, child, retries, abandoned>>

\* A row an admission still holds its claim on.
Holds(a, d) == Exists(d) /\ runId[d] = Pending(a)

\* Variant: the error is thrown with the claim still in place.
UnclaimNothing(a) ==
  /\ adm[a].pc = "unclaim"
  /\ adm' = [adm EXCEPT ![a] = Idle]
  /\ UNCHANGED <<docVars, runVars, req, sweep, child, hist>>

\* The error is rethrown: it ends the whole admission.
Unclaim(a) ==
  /\ adm[a].pc = "unclaim"
  /\ LET d == adm[a].doc IN
     runId' = [runId EXCEPT ![d] = IF Holds(a, d) THEN NoRun ELSE @]
  /\ adm' = [adm EXCEPT ![a] = Idle]
  /\ UNCHANGED <<status, bytes, recoveries, life, runVars, req, sweep, child, hist>>

RecordRun(a) ==
  /\ adm[a].pc = "record"
  /\ LET d == adm[a].doc IN
     runId' = [runId EXCEPT ![d] = IF Holds(a, d) THEN Started(adm[a].new) ELSE @]
  /\ adm' = [adm EXCEPT ![a] = DocDone([adm[a] EXCEPT !.won = TRUE])]
  /\ UNCHANGED <<status, bytes, recoveries, life, runVars, req, sweep, child, hist>>

Admit(a) ==
  \/ TakeTurn(a) \/ CountOwner(a) \/ CountAll(a) \/ FindWaiting(a)
  \/ Claim(a) \/ (\E r \in Runs : StartRun(a, r)) \/ StartFails(a)
  \/ Unclaim(a) \/ RecordRun(a)

-----------------------------------------------------------------------------
(* Durable runs: processDocument.  A step is idle while its job waits for a *)
(* worker, busy while a worker executes it, lost once that worker has died. *)

Stages == Working
Steps  == Stages \cup {"finish", "fail", "admit"}

NextStage == [queued |-> "extracting", extracting |-> "normalizing",
              normalizing |-> "analyzing", analyzing |-> "finish"]

\* A run that is still going to write its document's row.
Writing(r) == runPc[r] \in Stages \cup {"finish", "fail"}

\* publishStatus is an unconditional update of the row: it checks no run id.
BeginStage(r) ==
  /\ runPc[r] \in Stages
  /\ exec[r] = "idle" /\ ~cancelled[r]
  /\ Exists(runDoc[r])
  /\ status' = [status EXCEPT ![runDoc[r]] = runPc[r]]
  /\ exec' = [exec EXCEPT ![r] = "busy"]
  /\ UNCHANGED <<runId, bytes, recoveries, life, runDoc, runPc, cancelled, procVars, hist>>

\* Ingest swaps the upload for the stored source.
Ingested(r) ==
  IF runPc[r] = "extracting" /\ Exists(runDoc[r])
  THEN [bytes EXCEPT ![runDoc[r]] = "source"]
  ELSE bytes

CompleteStage(r) ==
  /\ runPc[r] \in Stages
  /\ exec[r] = "busy"
  /\ bytes' = Ingested(r)
  /\ runPc' = [runPc EXCEPT ![r] = NextStage[@]]
  /\ exec' = [exec EXCEPT ![r] = "idle"]
  /\ UNCHANGED <<status, runId, recoveries, life, runDoc, cancelled, procVars, hist>>

\* The step threw for good: processDocument goes to its catch.
FailStage(r) ==
  /\ runPc[r] \in Stages
  /\ exec[r] = "busy"
  /\ runPc' = [runPc EXCEPT ![r] = "fail"]
  /\ exec' = [exec EXCEPT ![r] = "idle"]
  /\ UNCHANGED <<docVars, runDoc, cancelled, procVars, hist>>

\* The finish step threw for good, before its write or after it.
FinishFails(r) ==
  /\ runPc[r] = "finish"
  /\ exec[r] = "busy"
  /\ faults < MaxFaults
  /\ faults' = faults + 1
  /\ Exists(runDoc[r])
  /\ status' \in {status, [status EXCEPT ![runDoc[r]] = "ready"]}
  /\ runPc' = [runPc EXCEPT ![r] = "fail"]
  /\ exec' = [exec EXCEPT ![r] = "idle"]
  /\ UNCHANGED <<runId, bytes, recoveries, life, runDoc, cancelled, procVars, retries, abandoned>>

BeginEnd(r) ==
  /\ runPc[r] \in {"finish", "fail"}
  /\ exec[r] = "idle" /\ ~cancelled[r]
  /\ exec' = [exec EXCEPT ![r] = "busy"]
  /\ UNCHANGED <<docVars, runDoc, runPc, cancelled, procVars, hist>>

\* Variant: the row is given the name of the step, which is no status.
OutcomeOfStep(r) == IF runPc[r] = "finish" THEN "ready" ELSE runPc[r]

Outcome(r) == IF runPc[r] = "finish" THEN "ready" ELSE "failed"

CompleteEnd(r) ==
  /\ runPc[r] \in {"finish", "fail"}
  /\ exec[r] = "busy"
  /\ Exists(runDoc[r])
  /\ status' = [status EXCEPT ![runDoc[r]] = Outcome(r)]
  /\ runPc' = [runPc EXCEPT ![r] = "admit"]
  /\ exec' = [exec EXCEPT ![r] = "idle"]
  /\ UNCHANGED <<runId, bytes, recoveries, life, runDoc, cancelled, procVars, hist>>

\* Variant: the step whose row is gone is tried again for ever.
RowIsGoneRetried(r) == FALSE

\* With the row gone every write throws, that of the failure too: the run dies
\* without admitting the next document.
RowIsGone(r) ==
  /\ Writing(r)
  /\ exec[r] # "lost"
  /\ exec[r] = "idle" => ~cancelled[r]
  /\ ~Exists(runDoc[r])
  /\ runPc' = [runPc EXCEPT ![r] = "ended"]
  /\ exec' = [exec EXCEPT ![r] = "idle"]
  /\ UNCHANGED <<docVars, runDoc, cancelled, procVars, hist>>

\* The last step of a run: from here on it only admits.
AdmitNext(r) ==
  /\ runPc[r] = "admit"
  /\ exec[r] = "idle" /\ ~cancelled[r]
  /\ runPc' = [runPc EXCEPT ![r] = "ended"]
  /\ adm' = [adm EXCEPT ![r] = AdmitAfter(runDoc[r])]
  /\ UNCHANGED <<docVars, runDoc, exec, cancelled, req, sweep, child, hist>>

\* An admission can be killed here unless that would orphan a started run.
Killable(a) == adm[a].pc = "record" => "orphan" \in Allows

\* The run an admission has started and not recorded.
Unrecorded(a) == IF adm[a].pc = "record" THEN {adm[a].new} \cap Runs ELSE {}

\* The worker dies before the step's write, or after it and before the step
\* is recorded as done.
WorkerDies(r) ==
  /\ exec[r] = "busy"
  /\ faults < MaxFaults
  /\ faults' = faults + 1
  /\ exec' = [exec EXCEPT ![r] = "lost"]
  /\ \/ UNCHANGED <<status, bytes>>
     \/ /\ runPc[r] \in {"finish", "fail"} /\ Exists(runDoc[r])
        /\ status' = [status EXCEPT ![runDoc[r]] = Outcome(r)]
        /\ UNCHANGED bytes
     \/ /\ runPc[r] = "extracting"
        /\ bytes' = Ingested(r)
        /\ UNCHANGED status
  /\ UNCHANGED <<runId, recoveries, life, runDoc, runPc, cancelled, procVars, retries, abandoned>>

\* It dies in the run's last step, in the middle of the admission.
AdmitNextDies(r) ==
  /\ adm[r].pc # "idle"
  /\ Killable(r)
  /\ faults < MaxFaults
  /\ faults' = faults + 1
  /\ runPc' = [runPc EXCEPT ![r] = "admit"]
  /\ exec' = [exec EXCEPT ![r] = "lost"]
  /\ adm' = [adm EXCEPT ![r] = Idle]
  /\ abandoned' = abandoned \cup {r} \cup Unrecorded(r)
  /\ UNCHANGED <<docVars, runDoc, cancelled, req, sweep, child, retries>>

\* Hours later the runner takes the dead worker's job again: a stage resumes
\* at its publishStatus step or at the work step after it.
Redeliver(r) ==
  /\ exec[r] = "lost"
  /\ ~cancelled[r]
  /\ \E e \in IF runPc[r] \in Stages THEN {"idle", "busy"} ELSE {"idle"} :
       exec' = [exec EXCEPT ![r] = e]
  /\ UNCHANGED <<docVars, runDoc, runPc, cancelled, procVars, hist>>

Run(r) ==
  \/ BeginStage(r) \/ CompleteStage(r) \/ FailStage(r)
  \/ BeginEnd(r) \/ CompleteEnd(r) \/ FinishFails(r)
  \/ RowIsGone(r) \/ AdmitNext(r) \/ WorkerDies(r) \/ AdmitNextDies(r) \/ Redeliver(r)

-----------------------------------------------------------------------------
(* Request handlers: POST /process, POST /retry and PATCH /documents/:id.   *)

NoRequest == [pc |-> "idle", doc |-> Nobody, seen |-> "none"]

\* The request about d that q is answering: a row it has read, or its admission.
Answering(q, d) == req[q].doc = d \/ d \in adm[q].turn \/ adm[q].rep = d

\* A client waits for the answer about a document before it asks again.
Alone(d) == "resend" \in Allows \/ \A q \in Requests : ~Answering(q, d)

Read(q, d, next) ==
  /\ req[q].pc = "idle" /\ adm[q].pc = "idle"
  /\ life[d] = "kept"
  /\ Alone(d)
  /\ req' = [req EXCEPT ![q] =
       [pc |-> next, doc |-> d, seen |-> IF next = "extend" THEN status[d] ELSE "none"]]

\* A document that already has a run is answered with it, and nothing changes.
ProcessRead(q, d) ==
  /\ runId[d] = NoRun
  /\ status[d] = "uploading" \/ "resend" \in Allows
  /\ Read(q, d, "process")
  /\ UNCHANGED <<docVars, runVars, adm, sweep, child, hist>>

\* The row is written whatever has become of it since the read.
ProcessWrite(q) ==
  /\ req[q].pc = "process"
  /\ LET d == req[q].doc IN
     \/ /\ Exists(d)
        /\ status' = [status EXCEPT ![d] = "queued"]
        /\ bytes' = [bytes EXCEPT ![d] = IF @ = "none" THEN "upload" ELSE @]
        /\ adm' = [adm EXCEPT ![q] = AdmitQueued(d)]
     \/ /\ ~Exists(d)
        /\ UNCHANGED <<status, bytes, adm>>
  /\ req' = [req EXCEPT ![q] = NoRequest]
  /\ UNCHANGED <<runId, recoveries, life, runVars, sweep, child, hist>>

\* Variant: a document that has not failed may be retried too.
MayRetryAny(d) == bytes[d] # "none"

MayRetry(d) == status[d] = "failed" /\ bytes[d] # "none"

RetryRead(q, d) ==
  /\ "retry" \in Allows
  /\ MayRetry(d)
  /\ retries < MaxRetries
  /\ retries' = retries + 1
  /\ Read(q, d, "retry")
  /\ UNCHANGED <<docVars, runVars, adm, sweep, child, faults, abandoned>>

RetryWrite(q) ==
  /\ req[q].pc = "retry"
  /\ LET d == req[q].doc IN
     \/ /\ Exists(d)
        /\ status' = [status EXCEPT ![d] = "queued"]
        /\ runId' = [runId EXCEPT ![d] = NoRun]
        /\ adm' = [adm EXCEPT ![q] = AdmitQueued(d)]
     \/ /\ ~Exists(d)
        /\ UNCHANGED <<status, runId, adm>>
  /\ req' = [req EXCEPT ![q] = NoRequest]
  /\ UNCHANGED <<bytes, recoveries, life, runVars, sweep, child, hist>>

\* An extension of the retention: requireDocument has read the row.
ExtendRead(q, d) ==
  /\ "extend" \in Allows
  /\ retries < MaxRetries
  /\ retries' = retries + 1
  /\ Read(q, d, "extend")
  /\ UNCHANGED <<docVars, runVars, adm, sweep, child, faults, abandoned>>

\* The status that was read is written back with the new expiry.
ExtendWrite(q) ==
  /\ req[q].pc = "extend"
  /\ LET d == req[q].doc IN
     \/ /\ Exists(d)
        /\ life' = [life EXCEPT ![d] = "kept"]
        /\ status' = [status EXCEPT ![d] = IF req[q].seen = "expired" THEN "ready" ELSE req[q].seen]
     \/ /\ ~Exists(d)
        /\ UNCHANGED <<life, status>>
  /\ req' = [req EXCEPT ![q] = NoRequest]
  /\ UNCHANGED <<runId, bytes, recoveries, runVars, adm, sweep, child, hist>>

RequestDies(q) ==
  /\ req[q].pc # "idle" \/ adm[q].pc # "idle"
  /\ Killable(q)
  /\ faults < MaxFaults
  /\ faults' = faults + 1
  /\ req' = [req EXCEPT ![q] = NoRequest]
  /\ adm' = [adm EXCEPT ![q] = Idle]
  /\ abandoned' = abandoned \cup {q} \cup Unrecorded(q)
  /\ UNCHANGED <<docVars, runVars, sweep, child, retries>>

Request(q) ==
  \/ \E d \in Docs : ProcessRead(q, d) \/ RetryRead(q, d) \/ ExtendRead(q, d)
  \/ ProcessWrite(q) \/ RetryWrite(q) \/ ExtendWrite(q) \/ RequestDies(q)

-----------------------------------------------------------------------------
(* startChildRun, for one child after the other; its own process. *)

NoChild == [pc |-> "idle", doc |-> Nobody, new |-> 0]

\* A child that has a run is passed over; a step tried again reads them again.
ChildRead(d) ==
  /\ "children" \in Allows
  /\ child.pc = "idle"
  /\ d \in Landed /\ Exists(d)
  /\ runId[d] = NoRun
  /\ child' = [NoChild EXCEPT !.pc = "start", !.doc = d]
  /\ UNCHANGED <<docVars, runVars, adm, req, sweep, hist>>

ChildStart(r) ==
  /\ child.pc = "start"
  /\ NextRun(r)
  /\ runDoc' = [runDoc EXCEPT ![r] = child.doc]
  /\ runPc' = [runPc EXCEPT ![r] = "queued"]
  /\ child' = [child EXCEPT !.pc = "record", !.new = r]
  /\ UNCHANGED <<docVars, exec, cancelled, adm, req, sweep, hist>>

\* The row is given the run whatever it has been given since the read.
ChildRecord ==
  /\ child.pc = "record"
  /\ runId' = [runId EXCEPT ![child.doc] = IF Exists(child.doc) THEN Started(child.new) ELSE @]
  /\ child' = NoChild
  /\ UNCHANGED <<status, bytes, recoveries, life, runVars, adm, req, sweep, hist>>

Expand ==
  \/ \E d \in Docs : ChildRead(d)
  \/ \E r \in Runs : ChildStart(r)
  \/ ChildRecord

-----------------------------------------------------------------------------
(* Expiry and the sweep. *)

\* expiresAt passes; or a person deletes the document, whatever its state.
Expire(d) ==
  /\ "expiry" \in Allows
  /\ life[d] = "kept"
  /\ \E l \in {"due", "gone"} : life' = [life EXCEPT ![d] = l]
  /\ UNCHANGED <<status, runId, bytes, recoveries, runVars, procVars, hist>>

NoCandidate == [doc |-> Nobody, runId |-> NoRun, recoveries |-> 0]
SweepIdle   == [pc |-> "idle", found |-> {}, cur |-> NoCandidate]

\* Some process is still going to move this document by itself: a run of it, or
\* an admission with the document in hand.
MovedByRun(d) ==
  \E r \in Runs : runDoc[r] = d /\ Writing(r) /\ ~cancelled[r] /\ exec[r] # "lost"

MovedByAdmission(d) ==
  \E a \in Admitters : adm[a].doc = d /\ adm[a].pc \in {"start", "record", "unclaim"}

\* Variant: only the events of its runs are looked at, not the age of the row.
StalledWhileStarted(d) == Claimed(d) /\ ~MovedByRun(d)

\* No sign of progress for ANONIFY_STUCK_RUN_MINUTES, which is longer than any
\* healthy step and any wait for a worker (docs/workflow.md, section 8).
Stalled(d) == Claimed(d) /\ ~MovedByRun(d) /\ ~MovedByAdmission(d)

\* markExpired and cleanupExpired.  A purge whose storage does not clear keeps
\* its row for the next sweep.
SweepExpired ==
  /\ sweep.pc = "idle"
  /\ LET due == {d \in Docs : life[d] = "due"} IN
     \E purged \in SUBSET due :
       /\ due # {}
       /\ status' = [d \in Docs |-> IF d \in due THEN "expired" ELSE status[d]]
       /\ life' = [d \in Docs |-> IF d \in purged THEN "gone" ELSE life[d]]
  /\ sweep' = [sweep EXCEPT !.pc = "recover"]
  /\ UNCHANGED <<runId, bytes, recoveries, runVars, adm, req, child, hist>>

\* A phase that finds nothing to do is passed over: sweep.pc is the last phase
\* that did something.
FindLost ==
  /\ \/ sweep.pc = "idle" /\ \A d \in Docs : life[d] # "due"
     \/ sweep.pc = "recover"
  /\ \E d \in Docs : Stalled(d)
  /\ sweep' = [sweep EXCEPT !.pc = "lost", !.found =
       {[doc |-> d, runId |-> runId[d], recoveries |-> recoveries[d]] :
          d \in {e \in Docs : Stalled(e)}}]
  /\ UNCHANGED <<docVars, runVars, adm, req, child, hist>>

\* Variant: the lost run is replaced without being cancelled.
CancelledByNone(c) == cancelled

\* A claim has no run to cancel, and cancelling an ended run is no error.
CancelledBy(c) ==
  IF c.runId.kind = "run" /\ runPc[c.runId.of] # "ended"
  THEN [cancelled EXCEPT ![c.runId.of] = TRUE]
  ELSE cancelled

\* The newest event of the next candidate is read: still no sign of progress.
TakeCandidate ==
  /\ sweep.pc = "lost"
  /\ \E c \in sweep.found :
     /\ Stalled(c.doc)
     /\ sweep' = [sweep EXCEPT !.pc = "cancel", !.found = @ \ {c}, !.cur = c]
  /\ UNCHANGED <<docVars, runVars, adm, req, child, hist>>

\* It has written an event since.
SkipMoving ==
  /\ sweep.pc = "lost"
  /\ \E c \in sweep.found :
     /\ ~Stalled(c.doc)
     /\ sweep' = [sweep EXCEPT !.found = @ \ {c}]
  /\ UNCHANGED <<docVars, runVars, adm, req, child, hist>>

\* Cancelling stops a run before its next step, not in the middle of one.
CancelLost ==
  /\ sweep.pc = "cancel"
  /\ cancelled' = CancelledBy(sweep.cur)
  /\ sweep' = [sweep EXCEPT !.pc = "requeue"]
  /\ UNCHANGED <<docVars, runDoc, runPc, exec, adm, req, child, hist>>

\* A run that will not cancel is left for the next sweep.
CancelFails ==
  /\ sweep.pc = "cancel"
  /\ sweep.cur.runId.kind = "run"
  /\ faults < MaxFaults
  /\ faults' = faults + 1
  /\ sweep' = [sweep EXCEPT !.pc = "lost", !.cur = NoCandidate]
  /\ UNCHANGED <<docVars, runVars, adm, req, child, retries, abandoned>>

\* Only if nothing else has moved it meanwhile.
StillLost(c) ==
  /\ Exists(c.doc)
  /\ runId[c.doc] = c.runId
  /\ status[c.doc] \in Working

Requeue ==
  /\ sweep.pc = "requeue"
  /\ LET c == sweep.cur
         d == c.doc IN
     \/ /\ StillLost(c)
        /\ recoveries' = [recoveries EXCEPT ![d] = c.recoveries + 1]
        /\ \/ /\ c.recoveries >= MaxRecoveries
              /\ status' = [status EXCEPT ![d] = "failed"]
              /\ UNCHANGED runId
           \/ /\ c.recoveries < MaxRecoveries
              /\ status' = [status EXCEPT ![d] = "queued"]
              /\ runId' = [runId EXCEPT ![d] = NoRun]
     \/ /\ ~StillLost(c)
        /\ UNCHANGED <<recoveries, status, runId>>
  /\ sweep' = [sweep EXCEPT !.pc = "lost", !.cur = NoCandidate]
  /\ UNCHANGED <<bytes, life, runVars, adm, req, child, hist>>

AdmitStalled ==
  /\ \/ sweep.pc = "idle" /\ \A d \in Docs : life[d] # "due" /\ ~Stalled(d)
     \/ sweep.pc = "recover" /\ \A d \in Docs : ~Stalled(d)
     \/ sweep.pc = "lost" /\ sweep.found = {}
  /\ sweep.pc = "idle" => WaitingOwners # {}
  /\ sweep' = [sweep EXCEPT !.pc = IF WaitingOwners = {} THEN "idle" ELSE "admit"]
  /\ adm' = [adm EXCEPT ![Sweeper] = AdmitFairly]
  /\ UNCHANGED <<docVars, runVars, req, child, hist>>

EndSweep ==
  /\ sweep.pc = "admit" /\ adm[Sweeper].pc = "idle"
  /\ sweep' = SweepIdle
  /\ UNCHANGED <<docVars, runVars, adm, req, child, hist>>

SweeperDies ==
  /\ sweep.pc # "idle"
  /\ Killable(Sweeper)
  /\ faults < MaxFaults
  /\ faults' = faults + 1
  /\ sweep' = SweepIdle
  /\ adm' = [adm EXCEPT ![Sweeper] = Idle]
  /\ abandoned' = abandoned \cup {Sweeper} \cup Unrecorded(Sweeper)
  /\ UNCHANGED <<docVars, runVars, req, child, retries>>

Sweep ==
  \/ SweepExpired \/ FindLost \/ TakeCandidate \/ SkipMoving \/ CancelLost \/ CancelFails
  \/ Requeue \/ AdmitStalled \/ EndSweep \/ SweeperDies

-----------------------------------------------------------------------------
Init ==
  /\ status = [d \in Docs |-> IF d \in Landed THEN "queued" ELSE "uploading"]
  /\ runId = [d \in Docs |-> NoRun]
  /\ bytes = [d \in Docs |-> IF d \notin Landed THEN "none"
                         ELSE IF "children" \in Allows THEN "source" ELSE "upload"]
  /\ recoveries = [d \in Docs |-> 0]
  /\ life = [d \in Docs |-> "kept"]
  /\ runDoc = [r \in Runs |-> Nobody]
  /\ runPc = [r \in Runs |-> "none"]
  /\ exec = [r \in Runs |-> "idle"]
  /\ cancelled = [r \in Runs |-> FALSE]
  /\ adm = [a \in Admitters |-> Idle]
  /\ req = [q \in Requests |-> NoRequest]
  /\ sweep = SweepIdle
  /\ child = NoChild
  /\ faults = 0 /\ retries = 0
  /\ abandoned = {}
  /\ overlapped = FALSE

Step ==
  \/ \E a \in Admitters : Admit(a)
  \/ \E r \in Runs : Run(r)
  \/ \E q \in Requests : Request(q)
  \/ Expand
  \/ \E d \in Docs : Expire(d)
  \/ Sweep

\* Two admissions between counting the room and using the last of it.
Admitting(a) == adm[a].pc \in {"cap", "find", "claim", "start", "record", "unclaim"}
Overlap == \E a, b \in Admitters : a # b /\ Admitting(a) /\ Admitting(b)

\* Nothing is left to do: the one state in which the system may rest.
AtRest ==
  /\ \A d \in Docs : status[d] \in {"ready", "failed", "expired"} \/ ~Exists(d)
  /\ UNCHANGED vars

Next ==
  \/ Step /\ overlapped' = (overlapped \/ Overlap')
  \/ AtRest

Spec == Init /\ [][Next]_vars

\* Each process goes on, the scheduler sweeps again and again, and the runner
\* takes a lost job back in the end; nothing makes a fault happen.
Fairness ==
  /\ \A a \in Admitters : WF_vars(Admit(a) /\ UNCHANGED faults /\ overlapped' = (overlapped \/ Overlap'))
  /\ \A r \in Runs : WF_vars(Run(r) /\ UNCHANGED faults /\ overlapped' = (overlapped \/ Overlap'))
  /\ \A q \in Requests : WF_vars((ProcessWrite(q) \/ RetryWrite(q) \/ ExtendWrite(q)) /\ overlapped' = (overlapped \/ Overlap'))
  /\ WF_vars(Expand /\ overlapped' = (overlapped \/ Overlap'))
  /\ WF_vars(Sweep /\ UNCHANGED faults /\ overlapped' = (overlapped \/ Overlap'))

FairSpec == Spec /\ Fairness

-----------------------------------------------------------------------------
(* Properties. *)

LocalStates == [pc : {"idle", "turn", "count", "cap", "find", "claim", "start",
                      "record", "unclaim"},
                rounds : BOOLEAN, turn : SUBSET Docs, again : SUBSET Docs,
                rep : Docs \cup {Nobody}, room : Nat, waiting : SUBSET Docs,
                doc : Docs \cup {Nobody}, new : {0} \cup Runs, won : BOOLEAN]

Candidates == [doc : Docs \cup {Nobody}, runId : RunIds, recoveries : Nat]

\* Every variable has its type.
TypeOK ==
  /\ status \in [Docs -> Statuses]
  /\ runId \in [Docs -> RunIds]
  /\ bytes \in [Docs -> {"none", "upload", "source"}]
  /\ recoveries \in [Docs -> Nat]
  /\ life \in [Docs -> {"kept", "due", "gone"}]
  /\ runDoc \in [Runs -> Docs \cup {Nobody}]
  /\ runPc \in [Runs -> Steps \cup {"none", "ended"}]
  /\ exec \in [Runs -> {"idle", "busy", "lost"}]
  /\ cancelled \in [Runs -> BOOLEAN]
  /\ adm \in [Admitters -> LocalStates]
  /\ req \in [Requests -> [pc : {"idle", "process", "retry", "extend"}, doc : Docs \cup {Nobody},
                           seen : Statuses \cup {"none"}]]
  /\ sweep \in [pc : {"idle", "recover", "lost", "cancel", "requeue", "admit"}, found : SUBSET Candidates,
                cur : Candidates]
  /\ child \in [pc : {"idle", "start", "record"}, doc : Docs \cup {Nobody}, new : {0} \cup Runs]
  /\ faults \in Nat /\ retries \in Nat
  /\ abandoned \subseteq Admitters
  /\ overlapped \in BOOLEAN

\* The locals of a process fit the place it is at, and each process does one
\* thing at a time.
Locals ==
  /\ \A a \in Admitters :
       /\ adm[a].pc \notin {"idle", "turn", "count"} => adm[a].rep \in Docs
       /\ adm[a].pc \in {"start", "record", "unclaim"} => adm[a].doc \in Docs
       /\ adm[a].pc = "record" => /\ adm[a].new \in Runs
                                 /\ runPc[adm[a].new] # "none"
                                 /\ runDoc[adm[a].new] = adm[a].doc
  /\ \A r \in Runs : /\ runPc[r] # "none" => runDoc[r] \in Docs
                     /\ runPc[r] # "ended" => adm[r].pc = "idle"
  /\ \A q \in Requests :
       /\ req[q].pc # "idle" => req[q].doc \in Docs /\ adm[q].pc = "idle"
       /\ req[q].pc = "extend" => req[q].seen \in Statuses
  /\ sweep.pc # "admit" => adm[Sweeper].pc = "idle"
  /\ IF sweep.pc \in {"cancel", "requeue"} THEN sweep.cur.doc \in Docs ELSE sweep.cur = NoCandidate
  /\ \A c \in sweep.found : /\ c.doc \in Docs /\ c.doc # sweep.cur.doc
                            /\ \A e \in sweep.found : e.doc = c.doc => e = c
  /\ child.pc # "idle" => child.doc \in Docs
  /\ child.pc = "record" => child.new \in Runs

\* A run that will still write its document's row, now or once its lost job is
\* taken up again, that nobody has cancelled, and that its admission recorded.
Live(r) == Writing(r) /\ ~cancelled[r] /\ r \notin abandoned

\* A document has one live run: the claim before the start and the cancel before
\* the restart leave it to one run at a time, lost workers included.
OneRunPerDocument ==
  \A r, s \in Runs : Live(r) /\ Live(s) /\ runDoc[r] = runDoc[s] => r = s

\* A live run is the one its document's row names, or the one the admission
\* that holds the row's claim is about to record there.
RunIsNamed ==
  \A r \in Runs : Live(r) /\ Exists(runDoc[r]) =>
    \/ runId[runDoc[r]] = Started(r)
    \/ \E a \in Admitters : /\ runId[runDoc[r]] = Pending(a)
                            /\ adm[a].pc = "record" /\ adm[a].new = r

\* An admission that is about to start a run is the only one, for that document,
\* and finds none running: its claim still stands if the row does.
StartsAlone ==
  \A a \in Admitters : adm[a].pc = "start" =>
    /\ \A r \in Runs : Live(r) => runDoc[r] # adm[a].doc
    /\ \A b \in Admitters : adm[b].pc = "start" /\ adm[b].doc = adm[a].doc => b = a
    /\ Exists(adm[a].doc) => runId[adm[a].doc] = Pending(a)

\* What the sweep has found lost stays lost until it deals with it: nobody takes
\* up a claim it has read, and a run it has cancelled writes no more.
LostStaysLost ==
  /\ \A c \in sweep.found \cup {sweep.cur}, a \in Admitters : c.runId = Pending(a) =>
       /\ runId[c.doc] = c.runId
       /\ adm[a].doc = c.doc => adm[a].pc \notin {"start", "record", "unclaim"}
  /\ \A r \in Runs : sweep.pc = "requeue" /\ sweep.cur.runId = Started(r) =>
       cancelled[r] \/ runPc[r] \in {"admit", "ended"}

\* Until two admissions overlap, an owner never has more documents in flight
\* than the limit, and all owners together never more than the cap.
LimitHeldAlone ==
  ~overlapped => /\ \A o \in Owners : InFlight(o) <= Limit
                 /\ Capped => InFlightAll <= Cap

\* A pending claim belongs to an admission that is still at work on it, unless
\* that process was lost: no admission leaves a claim behind on its way out.
ClaimIsHeld ==
  \A d \in Docs, a \in Admitters \ abandoned :
    runId[d] = Pending(a) /\ Exists(d) =>
      adm[a].doc = d /\ adm[a].pc \in {"start", "record", "unclaim"}

\* A document that has become ready is never put back to work: no run, late
\* request or sweep returns it to the queue or to a stage.
ReadyStaysReady ==
  [][\A d \in Docs : status[d] = "ready" => status'[d] \notin Working]_vars

\* A document handed over for processing is ready, failed or expired in the end.
EveryDocumentSettles ==
  \A d \in Docs : status[d] \in Working ~> ~(status[d] \in Working /\ Exists(d))

\* Every run that was started ends, or was cancelled: one whose document is purged
\* under it does too, and so does one that has been given a second run beside it.
EveryRunEnds ==
  \A r \in Runs : runPc[r] # "none" ~> runPc[r] = "ended" \/ cancelled[r]

=============================================================================
