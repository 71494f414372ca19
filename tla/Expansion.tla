------------------------------ MODULE Expansion ------------------------------
(***************************************************************************)
(* A message with attachments becomes a batch, and what that costs: the two *)
(* steps of a message's run that create documents and charge allowances,    *)
(* expandContainerStep (lib/documents/expand.ts) and extractAndNormalize    *)
(* (lib/workflows/process-document.ts, chargeDocumentUsage of               *)
(* lib/security/usage.ts); the sweep that gives a lost run's document to    *)
(* another run (lib/workflows/recovery.ts); a person who retries a failed   *)
(* document; and other uploads of the same owner                           *)
(* (lib/documents/reserve.ts), which spend the same allowance.              *)
(*                                                                         *)
(* Steps are repeated from the start: after a call that throws, after a     *)
(* worker that dies.  A child is known by the attempt that created it.      *)
(***************************************************************************)
EXTENDS Integers, FiniteSets

CONSTANTS
  Parts,          \* the parts of the message that become children: 1..Parts
  Refused,        \* those the plan refuses, for what they are
  Limit,          \* uploads the owner's allowance covers
  ChargesCovered, \* how often the message's own cost fits its allowance
  Uploaders,      \* other requests of the owner that reserve documents
  MaxRecoveries,  \* restarts before a lost document is failed
  MaxTries,       \* attempts at a step
  Slow,           \* whether a step may outlast the sweep's patience
  MaxRuns,        \* bound: runs ever started
  MaxFaults       \* bound: workers and requests lost, calls that throw

AllParts == 1..Parts
Runs     == 1..MaxRuns

ASSUME BoundsAssumption ==
  /\ Parts \in Nat \ {0}
  /\ Refused \subseteq AllParts
  /\ {Limit, ChargesCovered, MaxRecoveries, MaxRuns, MaxFaults} \subseteq Nat
  /\ MaxTries \in Nat \ {0}
  /\ Slow \in BOOLEAN
  /\ IsFiniteSet(Uploaders)

VARIABLES
  row,       \* the message's Document row
  child,     \* of each part: the row it became
  uploads,   \* UsageRecord.uploads of the owner's day: by the message and by others
  charges,   \* how often the message's own cost was added to it
  run,       \* runs of processDocument
  cancelled, \* runs cancelled
  sweep,
  upload,    \* requests of the other uploaders
  torn,      \* history: attempts that ended between a charge and its record
  overlap,   \* history: the document was given another run while a step of its run
             \* was executed, or had been since the sweep looked
  faults

vars == <<row, child, uploads, charges, run, cancelled, sweep, upload, torn, overlap, faults>>
outside == <<sweep, upload, overlap>>

-----------------------------------------------------------------------------
Fresh == [marked |-> FALSE, charged |-> FALSE, recoveries |-> 0]

NoAttempt == <<0, 0>>
NoChild   == [state |-> "none", by |-> NoAttempt, batch |-> NoAttempt]

\* at: "idle" between attempts, "lost" with its worker, else the next call of the
\* attempt that is being executed; copy and batch: the columns it has read.
NoRun == [step |-> "none", at |-> "idle", try |-> 1, part |-> 1,
          copy |-> Fresh, batch |-> NoAttempt, seen |-> NoChild]

Init ==
  /\ row = [status |-> "working", run |-> 0, error |-> "none", batch |-> NoAttempt, meta |-> Fresh]
  /\ child = [p \in AllParts |-> NoChild]
  /\ uploads = [message |-> 0, others |-> 0]
  /\ charges = 0
  /\ run = [r \in Runs |-> NoRun]
  /\ cancelled = {}
  /\ sweep = [at |-> "idle", run |-> 0, copy |-> Fresh]
  /\ upload = [u \in Uploaders |-> "idle"]
  /\ torn = [claims |-> 0, charges |-> 0]
  /\ overlap = FALSE
  /\ faults = 0

-----------------------------------------------------------------------------
(* checkQuota *)

Used == uploads.message + uploads.others

\* Variant: an allowance that is used up covers one more.
AllowsLate == Used <= Limit

Allows == Used + 1 <= Limit

-----------------------------------------------------------------------------
(* Runs and their steps. *)

Me(r)      == <<r, run[r].try>>
Busy(r)    == run[r].at \notin {"idle", "lost"}
MayBegin(r, step) == run[r].step = step /\ run[r].at = "idle" /\ r \notin cancelled

Goto(r, at)   == run' = [run EXCEPT ![r].at = at]
Enter(r, step) == run' = [run EXCEPT ![r] = [NoRun EXCEPT !.step = step]]

\* The next part, or the mark after the last one.
NextPart(r) ==
  run' = [run EXCEPT ![r].part = IF @ < Parts THEN @ + 1 ELSE @,
                     ![r].at = IF run[r].part < Parts THEN "find" ELSE "mark"]

\* What an attempt that ends here leaves torn: a charge whose record it has not made.
TornAt(r) ==
  torn' = [claims  |-> torn.claims  + (IF run[r].at \in {"seal", "record"} THEN 1 ELSE 0),
           charges |-> torn.charges + (IF run[r].at = "stamp" THEN 1 ELSE 0)]

\* The step is tried again from its start; after the last attempt the run fails.
Repeat(r) ==
  run' = [run EXCEPT ![r] =
            IF @.try < MaxTries THEN [NoRun EXCEPT !.step = run[r].step, !.try = run[r].try + 1]
                                ELSE [NoRun EXCEPT !.step = "fail"]]

\* A call that the database refuses throws.
Thrown(r) == Repeat(r) /\ TornAt(r)

\* Admission gives the waiting document a run.
Start(r) ==
  /\ row.status = "working" /\ row.run = 0
  /\ run[r].step = "none" /\ \A s \in Runs : run[s].step = "none" => r <= s
  /\ row' = [row EXCEPT !.run = r]
  /\ Enter(r, "expand")
  /\ UNCHANGED <<child, uploads, charges, cancelled, outside, torn, faults>>

-----------------------------------------------------------------------------
(* expandContainer *)

\* Reads the row.  A message that carries the mark is not expanded again.
ReadMessage(r) ==
  /\ MayBegin(r, "expand")
  /\ IF row.meta.marked
     THEN Enter(r, "extract")
     ELSE run' = [run EXCEPT ![r].copy = row.meta, ![r].batch = row.batch,
                             ![r].at = IF row.batch = NoAttempt THEN "batch" ELSE "find"]
  /\ UNCHANGED <<row, child, uploads, charges, cancelled, outside, torn, faults>>

\* createBatch: a batch of its own (nothing refers to one that is left behind), then
\* the message's row put in it.
CreateBatch(r) ==
  /\ run[r].at = "batch"
  /\ run' = [run EXCEPT ![r].at = "join", ![r].batch = Me(r)]
  /\ UNCHANGED <<row, child, uploads, charges, cancelled, outside, torn, faults>>

JoinBatch(r) ==
  /\ run[r].at = "join"
  /\ row' = [row EXCEPT !.batch = run[r].batch]
  /\ Goto(r, "find")
  /\ UNCHANGED <<child, uploads, charges, cancelled, outside, torn, faults>>

\* Variants: a row is enough; sealed bytes are not.
IsDoneRow(c)   == c.state # "none"
IsDoneNever(c) == FALSE

\* The part has become a document already.
IsDone(c) == c.state = "sealed"

FindChild(r) ==
  /\ run[r].at = "find"
  /\ LET c == child[run[r].part] IN
       IF IsDone(c) THEN NextPart(r)
       ELSE run' = [run EXCEPT ![r].seen = c, ![r].at = IF c.state = "none" THEN "check" ELSE "remove"]
  /\ UNCHANGED <<row, child, uploads, charges, cancelled, outside, torn, faults>>

\* The row an earlier attempt left without its bytes; deleting one that is gone throws.
RemoveHalf(r) ==
  /\ run[r].at = "remove"
  /\ LET p == run[r].part IN
       IF child[p].by = run[r].seen.by
       THEN /\ child' = [child EXCEPT ![p] = NoChild]
            /\ run' = [run EXCEPT ![r].at = "check", ![r].seen = NoChild]
            /\ UNCHANGED torn
       ELSE Thrown(r) /\ UNCHANGED child
  /\ UNCHANGED <<row, uploads, charges, cancelled, outside, faults>>

CheckPart(r) ==
  /\ run[r].at = "check"
  /\ Goto(r, IF run[r].part \in Refused \/ ~Allows THEN "refuse" ELSE "claim")
  /\ UNCHANGED <<row, child, uploads, charges, cancelled, outside, torn, faults>>

Row(r, state) == [state |-> state, by |-> Me(r), batch |-> run[r].batch]

\* (parentDocumentId, sourcePartPath) is unique.
RefusePart(r) ==
  /\ run[r].at = "refuse"
  /\ LET p == run[r].part IN
       IF child[p] = NoChild
       THEN child' = [child EXCEPT ![p] = Row(r, "refused")] /\ NextPart(r) /\ UNCHANGED torn
       ELSE Thrown(r) /\ UNCHANGED child
  /\ UNCHANGED <<row, uploads, charges, cancelled, outside, faults>>

\* chargeAndClaim: the upload is charged and the row created, or neither.
ClaimPart(r) ==
  /\ run[r].at = "claim"
  /\ LET p == run[r].part IN
       IF child[p] = NoChild
       THEN /\ child' = [child EXCEPT ![p] = Row(r, "half")]
            /\ uploads' = [uploads EXCEPT !.message = @ + 1]
            /\ Goto(r, "seal")
            /\ UNCHANGED torn
       ELSE Thrown(r) /\ UNCHANGED <<child, uploads>>
  /\ UNCHANGED <<row, charges, cancelled, outside, faults>>

\* putSealed, under the child's own name and key.
SealPart(r) ==
  /\ run[r].at = "seal"
  /\ Goto(r, "record")
  /\ UNCHANGED <<row, child, uploads, charges, cancelled, outside, torn, faults>>

\* The key, and with it the bytes, are the child's from here on.
RecordPart(r) ==
  /\ run[r].at = "record"
  /\ LET p == run[r].part IN
       IF child[p].by = Me(r)
       THEN child' = [child EXCEPT ![p].state = "sealed"] /\ NextPart(r) /\ UNCHANGED torn
       ELSE Thrown(r) /\ UNCHANGED child
  /\ UNCHANGED <<row, uploads, charges, cancelled, outside, faults>>

\* mark: the metadata read when the step began, with the mark.
MarkExpanded(r) ==
  /\ run[r].at = "mark"
  /\ row' = [row EXCEPT !.meta = [run[r].copy EXCEPT !.marked = TRUE]]
  /\ Enter(r, "extract")
  /\ UNCHANGED <<child, uploads, charges, cancelled, outside, torn, faults>>

Expand(r) ==
  \/ ReadMessage(r) \/ CreateBatch(r) \/ JoinBatch(r) \/ FindChild(r) \/ RemoveHalf(r)
  \/ CheckPart(r) \/ RefusePart(r) \/ ClaimPart(r) \/ SealPart(r) \/ RecordPart(r) \/ MarkExpanded(r)

-----------------------------------------------------------------------------
(* runExtractAndNormalize and chargeDocumentUsage; the end of the run. *)

\* A document that carries the mark is not charged again, nor stopped for what it cost.
ReadForCharge(r) ==
  /\ MayBegin(r, "extract")
  /\ IF row.meta.charged
     THEN Enter(r, "finish")
     ELSE run' = [run EXCEPT ![r].copy = row.meta, ![r].at = "charge"]
  /\ UNCHANGED <<row, child, uploads, charges, cancelled, outside, torn, faults>>

ChargeMessage(r) ==
  /\ run[r].at = "charge"
  /\ charges' = charges + 1
  /\ Goto(r, "stamp")
  /\ UNCHANGED <<row, child, uploads, cancelled, outside, torn, faults>>

\* Variant: the charge is not recorded.
StampNothing(copy) == copy

Stamp(copy) == [copy EXCEPT !.charged = TRUE]

StampCharge(r) ==
  /\ run[r].at = "stamp"
  /\ row' = [row EXCEPT !.meta = Stamp(run[r].copy)]
  /\ Goto(r, IF charges <= ChargesCovered THEN "return" ELSE "stop")
  /\ UNCHANGED <<child, uploads, charges, cancelled, outside, torn, faults>>

EndExtract(r) ==
  /\ run[r].at \in {"return", "stop"}
  /\ Enter(r, IF run[r].at = "return" THEN "finish" ELSE "quota")
  /\ UNCHANGED <<row, child, uploads, charges, cancelled, outside, torn, faults>>

Outcome(r) == IF run[r].step = "finish" THEN "ready" ELSE "failed"

EndRun(r) ==
  /\ \E step \in {"finish", "fail", "quota"} : MayBegin(r, step)
  /\ row' = [row EXCEPT !.status = Outcome(r),
                        !.error = IF run[r].step = "finish" THEN "none" ELSE run[r].step]
  /\ Enter(r, "over")
  /\ UNCHANGED <<child, uploads, charges, cancelled, outside, torn, faults>>

Extract(r) == ReadForCharge(r) \/ ChargeMessage(r) \/ StampCharge(r) \/ EndExtract(r) \/ EndRun(r)

-----------------------------------------------------------------------------
(* What goes wrong, and what is done about it. *)

CallThrows(r) ==
  /\ Busy(r) /\ run[r].at \notin {"return", "stop"} /\ faults < MaxFaults
  /\ faults' = faults + 1
  /\ Thrown(r)
  /\ UNCHANGED <<row, child, uploads, charges, cancelled, outside>>

WorkerDies(r) ==
  /\ Busy(r) /\ faults < MaxFaults
  /\ faults' = faults + 1
  /\ Goto(r, "lost")
  /\ TornAt(r)
  /\ UNCHANGED <<row, child, uploads, charges, cancelled, outside>>

\* The runner gives the job of a dead worker to another one.
Redeliver(r) ==
  /\ run[r].at = "lost" /\ r \notin cancelled
  /\ Slow \/ sweep.run # r
  /\ Repeat(r)
  /\ UNCHANGED <<row, child, uploads, charges, cancelled, outside, torn, faults>>

\* recoverLostRuns: a run that has neither written its row nor an event for so long.
Stalled(r) == run[r].at = "lost" \/ (Slow /\ Busy(r))

FindLost ==
  /\ sweep.at = "idle"
  /\ row.status = "working" /\ row.run # 0 /\ Stalled(row.run)
  /\ sweep' = [at |-> "cancel", run |-> row.run, copy |-> row.meta]
  /\ UNCHANGED <<row, child, uploads, charges, run, cancelled, upload, torn, overlap, faults>>

\* A run that is cancelled begins no other step; one being executed goes on.
CancelLost ==
  /\ sweep.at = "cancel"
  /\ cancelled' = cancelled \cup {sweep.run}
  /\ sweep' = [sweep EXCEPT !.at = "requeue"]
  /\ UNCHANGED <<row, child, uploads, charges, run, upload, torn, overlap, faults>>

\* Guarded on the run and the status, and written from the metadata read at first.
Requeue ==
  /\ sweep.at = "requeue"
  /\ sweep' = [at |-> "idle", run |-> 0, copy |-> Fresh]
  /\ IF row.run = sweep.run /\ row.status = "working"
     THEN /\ row' = LET counted == [row EXCEPT !.meta = [sweep.copy EXCEPT !.recoveries = @ + 1]]
                    IN IF sweep.copy.recoveries >= MaxRecoveries
                       THEN [counted EXCEPT !.status = "failed", !.error = "worker-lost"]
                       ELSE [counted EXCEPT !.run = 0]
          /\ overlap' = (overlap \/ Busy(sweep.run) \/ row.meta # sweep.copy)
     ELSE UNCHANGED <<row, overlap>>
  /\ UNCHANGED <<child, uploads, charges, run, cancelled, upload, torn, faults>>

Sweep == FindLost \/ CancelLost \/ Requeue

\* The retry route: what failed for the allowance is not tried again.
Retry ==
  /\ row.status = "failed" /\ row.error # "quota"
  /\ row' = [row EXCEPT !.status = "working", !.error = "none", !.run = 0]
  /\ UNCHANGED <<child, uploads, charges, run, cancelled, outside, torn, faults>>

-----------------------------------------------------------------------------
(* reserveDocument: checks the allowance, creates the document, charges the upload. *)

Reserve(u) ==
  \/ /\ upload[u] = "idle" /\ Allows
     /\ upload' = [upload EXCEPT ![u] = "charge"]
     /\ UNCHANGED uploads
  \/ /\ upload[u] = "charge"
     /\ upload' = [upload EXCEPT ![u] = "idle"]
     /\ uploads' = [uploads EXCEPT !.others = @ + 1]

ReserveDies(u) ==
  /\ upload[u] # "idle" /\ faults < MaxFaults
  /\ faults' = faults + 1
  /\ upload' = [upload EXCEPT ![u] = "idle"]
  /\ UNCHANGED uploads

Upload(u) ==
  /\ (Reserve(u) /\ UNCHANGED faults) \/ ReserveDies(u)
  /\ UNCHANGED <<row, child, charges, run, cancelled, sweep, torn, overlap>>

-----------------------------------------------------------------------------
Next ==
  \/ \E r \in Runs : Start(r) \/ Expand(r) \/ Extract(r) \/ CallThrows(r) \/ WorkerDies(r) \/ Redeliver(r)
  \/ Sweep
  \/ Retry
  \/ \E u \in Uploaders : Upload(u)

Spec == Init /\ [][Next]_vars

-----------------------------------------------------------------------------
Tries    == {NoAttempt} \cup (Runs \X (1..MaxTries))
Metadata == [marked : BOOLEAN, charged : BOOLEAN, recoveries : Nat]
Children == [state : {"none", "half", "sealed", "refused"}, by : Tries, batch : Tries]
Attempts == [step : {"none", "expand", "extract", "finish", "fail", "quota", "over"},
             at : {"idle", "lost", "batch", "join", "find", "remove", "check", "refuse", "claim",
                   "seal", "record", "mark", "charge", "stamp", "return", "stop"},
             try : 1..MaxTries, part : AllParts, copy : Metadata, batch : Tries, seen : Children]

TypeOK ==
  /\ row \in [status : {"working", "failed", "ready"}, run : 0..MaxRuns,
             error : {"none", "fail", "quota", "worker-lost"}, batch : Tries, meta : Metadata]
  /\ child \in [AllParts -> Children]
  /\ uploads \in [message : Nat, others : Nat]
  /\ charges \in Nat
  /\ run \in [Runs -> Attempts]
  /\ cancelled \subseteq Runs
  /\ sweep \in [at : {"idle", "cancel", "requeue"}, run : 0..MaxRuns, copy : Metadata]
  /\ upload \in [Uploaders -> {"idle", "charge"}]
  /\ torn \in [claims : Nat, charges : Nat]
  /\ overlap \in BOOLEAN
  /\ faults \in 0..MaxFaults

Holding(states) == {p \in AllParts : child[p].state \in states}
At(places)      == {r \in Runs : run[r].at \in places}

\* A message that carries the mark has become its batch: every part is a document
\* with its bytes, or a row that says why not, however often the step was repeated;
\* and whatever is created for it is in the message's own batch.  Unless two runs
\* worked at it at once.
WholeWhenMarked ==
  ~overlap =>
    /\ row.meta.marked => Holding({"sealed", "refused"}) = AllParts
    /\ \A p \in Holding({"half", "sealed", "refused"}) : child[p].batch = row.batch
    /\ Holding({"half", "sealed"}) \cap Refused = {}

\* No document is created that was not charged.  And unless two runs worked at the
\* message at once, what is charged beyond its documents is one upload for every
\* attempt that ended between its claim and the child's bytes: the next attempt
\* charges the part again.
PaidPerDocument ==
  /\ Cardinality(Holding({"half", "sealed"})) <= uploads.message
  /\ ~overlap =>
       uploads.message = Cardinality(Holding({"sealed"})) + torn.claims + Cardinality(At({"seal", "record"}))

\* What a message itself costs is charged once, and once more for every attempt
\* that ended between the charge and its record; and no message is ready that was
\* not expanded and charged.
ChargedOnce ==
  ~overlap =>
    /\ charges = (IF row.meta.charged THEN 1 ELSE 0) + torn.charges + Cardinality(At({"stamp"}))
    /\ row.status = "ready" => row.meta.marked /\ row.meta.charged

\* The allowance is checked before it is spent: it is exceeded by one upload at most
\* for every other request under way.
WithinAllowance == ~overlap => Used <= Limit + Cardinality(Uploaders)

\* A child that has its bytes is not removed, replaced or moved to another batch by
\* a step that is repeated: its own run, its review, refer to it.
SealedStays ==
  [][\A p \in AllParts : child[p].state = "sealed" /\ ~overlap => child'[p] = child[p]]_vars
=============================================================================
