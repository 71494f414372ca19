---------------------------- MODULE DocumentExport ----------------------------
(***************************************************************************)
(* The export of one document: the route that asks for one and stops one    *)
(* (app/api/documents/[id]/export), the durable run that builds, seals and  *)
(* stores its variants one step each (lib/workflows/export-document.ts,     *)
(* exportAndStore of lib/redaction/deliver.ts), the sweep that starts a     *)
(* lost one again (lib/workflows/export-recovery.ts), and the pages that    *)
(* collect its vaults (lib/redaction/export-client.ts, takeVaultEnvelope).  *)
(*                                                                         *)
(* Every attempt at a variant draws a new value key, so what it stores fits *)
(* together and fits nothing of another attempt: the attempts of a variant  *)
(* are numbered, and an object or a row is known by its attempt, 0 where    *)
(* there is none.  The objects of a variant have fixed names; storage       *)
(* writes over what has the name (the local and the S3 driver).             *)
(***************************************************************************)
EXTENDS Integers, FiniteSets

CONSTANTS
  Count,          \* the variants asked for: 1..Count
  Sealed,         \* the variants that have a vault
  Pages,          \* browser pages that share a key store
  MaxRecoveries,  \* restarts before a lost export is failed
  MaxRuns,        \* bound: runs ever started
  MaxFaults,      \* bound: processes lost, steps, calls and requests that fail
  Allows          \* what else may happen in this instance, of Hazards

\* "astray": the export is stopped, or its page opened, although some run was never
\* recorded.
Hazards == {"astray"}

Variants == 1..Count
Runs     == 1..MaxRuns

ASSUME BoundsAssumption ==
  /\ Count \in Nat \ {0}
  /\ Sealed \subseteq Variants
  /\ MaxRecoveries \in Nat
  /\ MaxRuns \in Nat
  /\ MaxFaults \in Nat
  /\ Allows \subseteq Hazards

VARIABLES
  \* the DocumentExport row
  status,          \* "none" until the row is created
  runId,           \* workflowRunId, 0 for null
  cancelRequested,
  recoveries,
  quiet,           \* updatedAt is more than ANONIFY_STUCK_RUN_MINUTES ago
  \* the ExportArtifact rows, and the objects in storage
  artifact,        \* of each variant: the attempt, and whether it names a vault
  object,          \* of each variant: its file, its report and its vault
  \* processes
  run,             \* durable runs of exportSingleDocument
  post,            \* the POST handler
  stop,            \* the DELETE handler
  sweep,
  key,             \* the private key in the browser's key store
  page,            \* pages collecting vaults
  \* history, and bounds
  attempts,        \* attempts made at each variant
  handed,          \* of each variant: how often its vault was handed over, and of which attempt
  storedSince,     \* variants stored since the stop was asked for
  strays,          \* runs the sweep started and was lost before it recorded
  faults

rowVars  == <<status, runId, cancelRequested, recoveries, quiet>>
stored   == <<artifact, object, attempts, storedSince>>
pageVars == <<key, page, handed>>
vars     == <<rowVars, stored, run, post, stop, sweep, pageVars, faults, strays>>

-----------------------------------------------------------------------------
Active   == {"queued", "running"}
Statuses == Active \cup {"none", "ready", "failed", "cancelled"}
IsActive == status \in Active

\* A write of the row, which sets updatedAt.  (What a guarded write that finds the
\* row over would leave is immaterial: nobody asks the age of such a row.)
Touched == quiet' = FALSE

NoRun == [pc |-> "none", at |-> 1, step |-> "idle", try |-> 0, cancelled |-> FALSE]

NextRun(r) == run[r].pc = "none" /\ \A s \in Runs : run[s].pc = "none" => r <= s

\* start(exportSingleDocument, [exportId])
Started(r) == [run EXCEPT ![r].pc = "start"]

\* Cancelling stops a run before its next step, not in the middle of one; a run
\* that will not cancel, or has ended, is no error.
Cancelled(r) ==
  IF r \in Runs /\ run[r].pc # "ended" THEN [run EXCEPT ![r].cancelled = TRUE] ELSE run

-----------------------------------------------------------------------------
(* POST. *)

PostCreate ==
  /\ post.pc = "create"
  /\ status' = "queued"
  /\ Touched
  /\ post' = [post EXCEPT !.pc = "start"]
  /\ UNCHANGED <<runId, cancelRequested, recoveries, stored, run, stop, sweep, pageVars, faults, strays>>

PostStart ==
  /\ post.pc = "start"
  /\ \E r \in Runs :
       /\ NextRun(r)
       /\ run' = Started(r)
       /\ post' = [post EXCEPT !.pc = "record", !.new = r]
  /\ UNCHANGED <<rowVars, stored, stop, sweep, pageVars, faults, strays>>

\* The run is recorded whatever has become of the row, and the page that asked
\* remembers its key once it is answered.
PostRecord ==
  /\ post.pc = "record"
  /\ runId' = post.new
  /\ Touched
  /\ post' = [post EXCEPT !.pc = "answered", !.new = 0]
  /\ key' = "held"
  /\ UNCHANGED <<status, cancelRequested, recoveries, stored, run, stop, sweep, page, handed, faults, strays>>

\* The process dies, or a call of its throws: nothing is undone.
PostDies ==
  /\ post.pc \in {"create", "start", "record"}
  /\ faults < MaxFaults
  /\ faults' = faults + 1
  /\ post' = [post EXCEPT !.pc = "answered", !.new = 0]
  /\ UNCHANGED <<rowVars, stored, run, stop, sweep, pageVars, strays>>

Post == PostCreate \/ PostStart \/ PostRecord

-----------------------------------------------------------------------------
(* exportSingleDocument. *)

\* A step that a worker is executing.
Busy(r) == run[r].step \notin {"idle", "lost"}

\* The next step may be taken up.
MayBegin(r, pc) == run[r].pc = pc /\ run[r].step = "idle" /\ ~run[r].cancelled

\* Variant: a stop that has been asked for is left to the cancelled run.
StopSeenClosed == status = "cancelled"

StopSeen == cancelRequested \/ status = "cancelled"

StartRead(r) ==
  /\ MayBegin(r, "start")
  /\ run' = IF StopSeen THEN [run EXCEPT ![r].pc = "finish"] ELSE [run EXCEPT ![r].step = "running"]
  /\ UNCHANGED <<rowVars, stored, post, stop, sweep, pageVars, faults, strays>>

\* A row that is running already is not written.
Running ==
  IF status = "queued" THEN status' = "running" /\ Touched ELSE UNCHANGED <<status, quiet>>

StartWrite(r) ==
  /\ run[r].step = "running"
  /\ Running
  /\ run' = [run EXCEPT ![r].pc = "variant", ![r].step = "idle"]
  /\ UNCHANGED <<runId, cancelRequested, recoveries, stored, post, stop, sweep, pageVars, faults, strays>>

\* Builds the variant, and has it verified, before it stores the first object.
VariantRead(r) ==
  /\ MayBegin(r, "variant")
  /\ LET v == run[r].at IN
     IF StopSeen
     THEN /\ run' = [run EXCEPT ![r].pc = "finish"]
          /\ UNCHANGED attempts
     ELSE /\ attempts' = [attempts EXCEPT ![v] = @ + 1]
          /\ run' = [run EXCEPT ![r].step = "file", ![r].try = attempts[v] + 1]
  /\ UNCHANGED <<rowVars, artifact, object, storedSince, post, stop, sweep, pageVars, faults, strays>>

\* While a variant is built and stored its progress is written to the row, at the
\* latest when the step that stored it ends.
Progress(r) ==
  /\ run[r].step \in {"file", "report", "vault", "row"} /\ quiet
  /\ Touched
  /\ UNCHANGED <<status, runId, cancelRequested, recoveries, stored, run, post, stop, sweep, pageVars,
                 faults, strays>>

\* exportAndStore: the file, the report, the vault, and only then the row.
NextWrite == [file |-> "report", report |-> "vault", vault |-> "row"]

\* Variant: a vault that is in storage already is left there.
PutOnce(r) ==
  LET v == run[r].at
      o == run[r].step IN
  [object EXCEPT ![v][o] = IF o # "vault" \/ (v \in Sealed /\ @ = 0) THEN run[r].try ELSE @]

Put(r) ==
  LET v == run[r].at
      o == run[r].step IN
  [object EXCEPT ![v][o] = IF o # "vault" \/ v \in Sealed THEN run[r].try ELSE @]

VariantPut(r) ==
  /\ run[r].step \in {"file", "report", "vault"}
  /\ object' = Put(r)
  /\ run' = [run EXCEPT ![r].step = NextWrite[@]]
  /\ UNCHANGED <<rowVars, artifact, attempts, storedSince, post, stop, sweep, pageVars, faults, strays>>

Upserted(r) ==
  LET v == run[r].at IN
  /\ artifact' = [artifact EXCEPT ![v] = [try |-> run[r].try, vault |-> v \in Sealed]]
  /\ storedSince' = IF cancelRequested THEN storedSince + 1 ELSE storedSince

VariantRow(r) ==
  /\ run[r].step = "row"
  /\ Upserted(r) /\ Touched
  /\ LET last == run[r].at = Count IN
     run' = [run EXCEPT ![r].step = "idle", ![r].try = 0, ![r].pc = IF last THEN "finish" ELSE @,
                        ![r].at = IF last THEN 1 ELSE @ + 1]
  /\ UNCHANGED <<status, runId, cancelRequested, recoveries, object, attempts, post, stop, sweep, pageVars,
                 faults, strays>>

\* Variant: a refusal stops the run as a cancel does.
AfterRefusalStop == "finish"

AfterRefusal == "fail"

\* The document is not ready, or its file or its report does not pass verification;
\* the file is stored by the time the report is looked at.
VariantRefused(r) ==
  /\ run[r].step \in {"file", "report"}
  /\ run' = [run EXCEPT ![r].step = "idle", ![r].try = 0, ![r].pc = AfterRefusal]
  /\ UNCHANGED <<rowVars, stored, post, stop, sweep, pageVars, faults, strays>>

FinishRead(r) ==
  /\ MayBegin(r, "finish")
  /\ run' = [run EXCEPT ![r].step = IF cancelRequested THEN "cancelled" ELSE "ready"]
  /\ UNCHANGED <<rowVars, stored, post, stop, sweep, pageVars, faults, strays>>

FailBegin(r) ==
  /\ MayBegin(r, "fail")
  /\ run' = [run EXCEPT ![r].step = "failed"]
  /\ UNCHANGED <<rowVars, stored, post, stop, sweep, pageVars, faults, strays>>

\* Variant: the last write does not ask whether the export is still going.
ClosedAs(s) == s

Closed(s) == IF IsActive THEN s ELSE status

CloseWrite(r) ==
  /\ run[r].step \in {"ready", "cancelled", "failed"}
  /\ status' = Closed(run[r].step)
  /\ Touched
  /\ run' = [run EXCEPT ![r].pc = "ended", ![r].step = "idle"]
  /\ UNCHANGED <<runId, cancelRequested, recoveries, stored, post, stop, sweep, pageVars, faults, strays>>

\* Before its next write or after it, a step is interrupted.
Interrupted(r) ==
  \/ UNCHANGED <<status, quiet, stored>>
  \/ run[r].step = "running" /\ Running /\ UNCHANGED stored
  \/ /\ run[r].step \in {"file", "report", "vault"} /\ object' = Put(r)
     /\ UNCHANGED <<status, quiet, artifact, attempts, storedSince>>
  \/ run[r].step = "row" /\ Upserted(r) /\ UNCHANGED <<status, quiet, object, attempts>>
  \/ /\ run[r].step \in {"ready", "cancelled", "failed"}
     /\ status' = Closed(run[r].step) /\ Touched /\ UNCHANGED stored

\* A step throws: to be tried again, or for good; the run ends when its last step does.
StepThrows(r) ==
  /\ Busy(r) /\ faults < MaxFaults
  /\ faults' = faults + 1
  /\ Interrupted(r)
  /\ \E next \in {run[r].pc, IF run[r].pc = "fail" THEN "ended" ELSE "fail"} :
       run' = [run EXCEPT ![r].step = "idle", ![r].try = 0, ![r].pc = next]
  /\ UNCHANGED <<runId, cancelRequested, recoveries, post, stop, sweep, pageVars, strays>>

\* The runner would take the job again after four hours; the sweep, after minutes,
\* has cancelled the run by then.
WorkerDies(r) ==
  /\ Busy(r) /\ faults < MaxFaults
  /\ faults' = faults + 1
  /\ Interrupted(r)
  /\ run' = [run EXCEPT ![r].step = "lost", ![r].try = 0]
  /\ UNCHANGED <<runId, cancelRequested, recoveries, post, stop, sweep, pageVars, strays>>

Run(r) ==
  \/ StartRead(r) \/ StartWrite(r)
  \/ VariantRead(r) \/ Progress(r) \/ VariantPut(r) \/ VariantRow(r) \/ VariantRefused(r)
  \/ FinishRead(r) \/ FailBegin(r) \/ CloseWrite(r)

-----------------------------------------------------------------------------
(* DELETE: asks the export to stop, cancels its run, and closes the row. *)

StopRead ==
  /\ stop.pc = "idle" /\ IsActive
  /\ strays # {} => "astray" \in Allows
  /\ stop' = [pc |-> "flag", run |-> runId]
  /\ UNCHANGED <<rowVars, stored, run, post, sweep, pageVars, faults, strays>>

StopFlag ==
  /\ stop.pc = "flag"
  /\ cancelRequested' = (cancelRequested \/ IsActive)
  /\ Touched
  /\ stop' = [stop EXCEPT !.pc = "cancel"]
  /\ UNCHANGED <<status, runId, recoveries, stored, run, post, sweep, pageVars, faults, strays>>

StopCancel ==
  /\ stop.pc = "cancel"
  /\ run' = Cancelled(stop.run)
  /\ stop' = [stop EXCEPT !.pc = "close"]
  /\ UNCHANGED <<rowVars, stored, post, sweep, pageVars, faults, strays>>

NoStop == [pc |-> "idle", run |-> 0]

StopClose ==
  /\ stop.pc = "close"
  /\ status' = Closed("cancelled")
  /\ Touched
  /\ stop' = NoStop
  /\ UNCHANGED <<runId, cancelRequested, recoveries, stored, run, post, sweep, pageVars, faults, strays>>

StopDies ==
  /\ stop.pc # "idle" /\ faults < MaxFaults
  /\ faults' = faults + 1
  /\ stop' = NoStop
  /\ UNCHANGED <<rowVars, stored, run, post, sweep, pageVars, strays>>

Stop == StopFlag \/ StopCancel \/ StopClose

-----------------------------------------------------------------------------
(* recoverLostExports, in the sweep. *)

SweepIdle == [pc |-> "idle", run |-> 0, asked |-> FALSE, recoveries |-> 0, new |-> 0]

\* Some step of this run is executed, or is going to be.
Moving(r) == \/ Busy(r)
             \/ run[r].pc \notin {"none", "ended"} /\ run[r].step = "idle" /\ ~run[r].cancelled

\* Time passes without a write of the row: while no run of the export moves and no
\* request stops it.  The minutes are longer than a healthy step goes without writing
\* its progress, and than a wait for a worker and a request take.
Age ==
  /\ IsActive /\ ~quiet
  /\ \A r \in Runs : ~Moving(r)
  /\ stop.pc = "idle"
  /\ quiet' = TRUE
  /\ UNCHANGED <<status, runId, cancelRequested, recoveries, stored, run, post, stop, sweep, pageVars,
                 faults, strays>>

\* Variant: a run that was lost before it had marked the row is not looked for.
StalledRunning == status = "running" /\ runId # 0 /\ quiet

\* What the sweep asks is the row's alone: not whether some run works on it.
Stalled == IsActive /\ runId # 0 /\ quiet

FindLost ==
  /\ sweep.pc = "idle" /\ Stalled
  /\ sweep' = [pc |-> "cancel", run |-> runId, asked |-> cancelRequested,
               recoveries |-> recoveries, new |-> 0]
  /\ UNCHANGED <<rowVars, stored, run, post, stop, pageVars, faults, strays>>

GivesUp == sweep.recoveries >= MaxRecoveries

CancelLost ==
  /\ sweep.pc = "cancel"
  /\ run' = Cancelled(sweep.run)
  /\ sweep' = [sweep EXCEPT !.pc = IF sweep.asked \/ GivesUp THEN "close" ELSE "start"]
  /\ UNCHANGED <<rowVars, stored, post, stop, pageVars, faults, strays>>

\* The row is still on the run that was lost, and live.
StillLost == runId = sweep.run /\ IsActive

CloseLost ==
  /\ sweep.pc = "close"
  /\ IF StillLost
     THEN status' = (IF sweep.asked THEN "cancelled" ELSE "failed") /\ Touched
     ELSE UNCHANGED <<status, quiet>>
  /\ sweep' = SweepIdle
  /\ UNCHANGED <<runId, cancelRequested, recoveries, stored, run, post, stop, pageVars, faults, strays>>

\* The new run is started before the row is given it.
RestartLost ==
  /\ sweep.pc = "start"
  /\ \E r \in Runs :
       /\ NextRun(r)
       /\ run' = Started(r)
       /\ sweep' = [sweep EXCEPT !.pc = "claim", !.new = r]
  /\ UNCHANGED <<rowVars, stored, post, stop, pageVars, faults, strays>>

ClaimLost ==
  /\ sweep.pc = "claim"
  /\ \/ /\ StillLost
        /\ runId' = sweep.new
        /\ recoveries' = sweep.recoveries + 1
        /\ Touched
        /\ sweep' = SweepIdle
     \/ /\ ~StillLost
        /\ sweep' = [sweep EXCEPT !.pc = "surplus"]
        /\ UNCHANGED <<runId, recoveries, quiet>>
  /\ UNCHANGED <<status, cancelRequested, stored, run, post, stop, pageVars, faults, strays>>

StopSurplus ==
  /\ sweep.pc = "surplus"
  /\ run' = Cancelled(sweep.new)
  /\ sweep' = SweepIdle
  /\ UNCHANGED <<rowVars, stored, post, stop, pageVars, faults, strays>>

\* A call that throws leaves the run to the next sweep, and so does a sweep that dies;
\* lost before the claim, or with it, it leaves a run that no row names, and a row as
\* old as it was.
SweepFails ==
  /\ sweep.pc # "idle" /\ faults < MaxFaults
  /\ sweep.pc = "claim" /\ stop.pc # "idle" => "astray" \in Allows
  /\ faults' = faults + 1
  /\ sweep' = SweepIdle
  /\ strays' = IF sweep.pc = "claim" THEN strays \cup {sweep.new} ELSE strays
  /\ UNCHANGED <<rowVars, stored, run, post, stop, pageVars>>

Sweep == FindLost \/ CancelLost \/ CloseLost \/ RestartLost \/ ClaimLost \/ StopSurplus

-----------------------------------------------------------------------------
(* Pages: openVaults, and takeVaultEnvelope on the server.  A page collects the *)
(* vaults one after the other, and waits for each answer.                       *)

NoPage == [pc |-> "idle", todo |-> {}, of |-> 0, got |-> 0, failed |-> FALSE]

Offered == {v \in Variants : artifact[v].vault}

\* The export is read back; its vaults are collected if it is ready and this
\* browser holds the key, which is forgotten if nothing is left to open with it.
PageView(p) ==
  /\ page[p].pc = "idle" /\ status = "ready" /\ key = "held"
  /\ strays # {} => "astray" \in Allows
  /\ IF Offered = {}
     THEN key' = "forgotten" /\ UNCHANGED page
     ELSE page' = [page EXCEPT ![p] = [NoPage EXCEPT !.pc = "next", !.todo = Offered]] /\ UNCHANGED key
  /\ UNCHANGED <<rowVars, stored, run, post, stop, sweep, handed, faults, strays>>

PageNext(p) ==
  /\ page[p].pc = "next"
  /\ \E v \in page[p].todo :
       /\ \A w \in page[p].todo : v <= w
       /\ page' = [page EXCEPT ![p].pc = "take", ![p].todo = @ \ {v}, ![p].of = v]
  /\ UNCHANGED <<rowVars, stored, run, post, stop, sweep, key, handed, faults, strays>>

\* The vault's row is read: a page that comes too late is told so (410).
TakeRead(p) ==
  /\ page[p].pc = "take"
  /\ page' = [page EXCEPT ![p].pc = IF artifact[page[p].of].vault THEN "claim" ELSE "next"]
  /\ UNCHANGED <<rowVars, stored, run, post, stop, sweep, key, handed, faults, strays>>

\* Variant: the vault is read before the row is cleared.
MayTakeAny(v) == TRUE

MayTake(v) == artifact[v].vault

TakeClaim(p) ==
  /\ page[p].pc = "claim"
  /\ LET v == page[p].of IN
     \/ /\ MayTake(v)
        /\ artifact' = [artifact EXCEPT ![v].vault = FALSE]
        /\ page' = [page EXCEPT ![p].pc = "get"]
     \/ /\ ~MayTake(v)
        /\ page' = [page EXCEPT ![p].pc = "next"]
        /\ UNCHANGED artifact
  /\ UNCHANGED <<rowVars, object, attempts, storedSince, run, post, stop, sweep, key, handed, faults, strays>>

TakeGet(p) ==
  /\ page[p].pc = "get"
  /\ page' = [page EXCEPT ![p].pc = "drop", ![p].got = object[page[p].of].vault]
  /\ UNCHANGED <<rowVars, stored, run, post, stop, sweep, key, handed, faults, strays>>

\* The envelope is deleted from storage, and the page has what was read.
TakeDrop(p) ==
  /\ page[p].pc = "drop"
  /\ LET v == page[p].of IN
     /\ object' = [object EXCEPT ![v].vault = 0]
     /\ handed' = [handed EXCEPT ![v] = [times |-> @.times + 1, try |-> page[p].got]]
  /\ page' = [page EXCEPT ![p].pc = "next", ![p].got = 0]
  /\ UNCHANGED <<rowVars, artifact, attempts, storedSince, run, post, stop, sweep, key, faults, strays>>

\* The request fails on its way, in storage, or with its server: once the row has
\* been cleared nobody gets this vault.
TakeFails(p) ==
  /\ page[p].pc \in {"take", "claim", "get", "drop"} /\ faults < MaxFaults
  /\ faults' = faults + 1
  /\ page' = [page EXCEPT ![p].pc = "next", ![p].got = 0, ![p].failed = TRUE]
  /\ UNCHANGED <<rowVars, stored, run, post, stop, sweep, key, handed, strays>>

\* Variant: the key is forgotten whatever became of the requests.
ForgetsAlways(p) == TRUE

Forgets(p) == ~page[p].failed

PageDone(p) ==
  /\ page[p].pc = "next" /\ page[p].todo = {}
  /\ key' = IF Forgets(p) THEN "forgotten" ELSE key
  /\ page' = [page EXCEPT ![p] = NoPage]
  /\ UNCHANGED <<rowVars, stored, run, post, stop, sweep, handed, faults, strays>>

\* The page is closed, or loaded again.
PageCloses(p) ==
  /\ page[p].pc = "next"
  /\ page' = [page EXCEPT ![p] = NoPage]
  /\ UNCHANGED <<rowVars, stored, run, post, stop, sweep, key, handed, faults, strays>>

Page(p) ==
  \/ PageView(p) \/ PageNext(p) \/ TakeRead(p) \/ TakeClaim(p) \/ TakeGet(p) \/ TakeDrop(p)
  \/ PageDone(p)

-----------------------------------------------------------------------------
Init ==
  /\ status = "none"
  /\ runId = 0
  /\ cancelRequested = FALSE
  /\ recoveries = 0
  /\ quiet = FALSE
  /\ artifact = [v \in Variants |-> [try |-> 0, vault |-> FALSE]]
  /\ object = [v \in Variants |-> [file |-> 0, report |-> 0, vault |-> 0]]
  /\ run = [r \in Runs |-> NoRun]
  /\ post = [pc |-> "create", new |-> 0]
  /\ stop = NoStop
  /\ sweep = SweepIdle
  /\ key = "none"
  /\ page = [p \in Pages |-> NoPage]
  /\ attempts = [v \in Variants |-> 0]
  /\ handed = [v \in Variants |-> [times |-> 0, try |-> 0]]
  /\ storedSince = 0
  /\ strays = {}
  /\ faults = 0

\* The export is over: the one state in which the system may rest.
AtRest == post.pc = "answered" /\ ~IsActive /\ UNCHANGED vars

Next ==
  \/ Post \/ PostDies
  \/ \E r \in Runs : Run(r) \/ StepThrows(r) \/ WorkerDies(r)
  \/ StopRead \/ Stop \/ StopDies
  \/ Age \/ Sweep \/ SweepFails
  \/ \E p \in Pages : Page(p) \/ TakeFails(p) \/ PageCloses(p)
  \/ AtRest

Spec == Init /\ [][Next]_vars

\* What has begun goes on, and the scheduler sweeps again and again; nobody has to
\* stop the export or to open its page, and nothing makes a fault happen.
Fairness ==
  /\ WF_vars(Post)
  /\ \A r \in Runs : WF_vars(Run(r))
  /\ WF_vars(Stop)
  /\ WF_vars(Age)
  /\ WF_vars(Sweep)

FairSpec == Spec /\ Fairness

-----------------------------------------------------------------------------
(* Properties. *)

\* Every variable has its type.
TypeOK ==
  /\ status \in Statuses
  /\ runId \in {0} \cup Runs
  /\ cancelRequested \in BOOLEAN
  /\ recoveries \in 0..MaxRecoveries
  /\ quiet \in BOOLEAN
  /\ artifact \in [Variants -> [try : Nat, vault : BOOLEAN]]
  /\ object \in [Variants -> [file : Nat, report : Nat, vault : Nat]]
  /\ run \in [Runs -> [pc : {"none", "start", "variant", "finish", "fail", "ended"},
                       at : Variants,
                       step : {"idle", "running", "file", "report", "vault", "row",
                               "ready", "cancelled", "failed", "lost"},
                       try : Nat, cancelled : BOOLEAN]]
  /\ post \in [pc : {"create", "start", "record", "answered"}, new : {0} \cup Runs]
  /\ stop \in [pc : {"idle", "flag", "cancel", "close"}, run : {0} \cup Runs]
  /\ sweep \in [pc : {"idle", "cancel", "close", "start", "claim", "surplus"},
                run : {0} \cup Runs, asked : BOOLEAN, recoveries : Nat, new : {0} \cup Runs]
  /\ key \in {"none", "held", "forgotten"}
  /\ page \in [Pages -> [pc : {"idle", "next", "take", "claim", "get", "drop"},
                         todo : SUBSET Variants, of : {0} \cup Variants, got : Nat, failed : BOOLEAN]]
  /\ attempts \in [Variants -> Nat]
  /\ handed \in [Variants -> [times : Nat, try : Nat]]
  /\ storedSince \in Nat
  /\ strays \subseteq Runs
  /\ faults \in 0..MaxFaults

\* No sweep was lost with a run it had started and not recorded.  The row is then
\* still as old as the lost run left it, and the next sweep starts another run: two
\* store the same objects, and nothing is claimed of what they leave there.
Tracked == strays = {}

\* What is stored of a variant is of one attempt: its row, its file and its report,
\* and the vault that the row names.
Whole(v) ==
  /\ artifact[v].try # 0
  /\ object[v].file = artifact[v].try
  /\ object[v].report = artifact[v].try
  /\ artifact[v].vault => object[v].vault = artifact[v].try

\* An export that is ready has every variant, each stored whole by one attempt,
\* however often its steps were interrupted and its run was started again.
ReadyIsWhole == Tracked /\ status = "ready" => \A v \in Variants : Whole(v)

\* A vault is handed over once, whichever pages ask for it, together or again.
HandedOverOnce == Tracked => \A v \in Variants : handed[v].times <= 1

\* A vault that was handed over opens the file that the finished export shows.
VaultFitsFile ==
  Tracked /\ status = "ready" =>
    \A v \in Variants : handed[v].times > 0 => handed[v].try = artifact[v].try

\* The browser does not forget its key while a vault it has not asked for, or that it
\* could ask for again, is still there.
KeyIsKept == Tracked /\ key = "forgotten" => Offered = {}

\* Once a stop has been asked for, the variant being built is the last to be stored.
StopsSoon == Tracked => storedSince <= 1

\* An export that is over stays as it ended.
OverStaysOver == [][status \notin Active \cup {"none"} => status' = status]_vars

\* An export whose run was recorded is over in the end.
ExportSettles == IsActive /\ runId # 0 ~> ~IsActive

=============================================================================
