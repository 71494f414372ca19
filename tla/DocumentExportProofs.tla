------------------------- MODULE DocumentExportProofs -------------------------
(***************************************************************************)
(* Theorems about DocumentExport, for any number of variants, sealed ones,  *)
(* pages, restarts, runs and faults.                                        *)
(*                                                                         *)
(* The argument has two layers.  In every state no two of the runs that were *)
(* recorded move at the same time: a row that has been quiet for so long is *)
(* one that no recorded run works on, but for the run the sweep has just    *)
(* started and is about to record (Alone).  A sweep that is lost in between *)
(* leaves a run that is no longer in this count.                            *)
(*   While that has not happened (Tracked) no two runs of the export build  *)
(* at the same time (OneMoves).  So what a run has stored stays as it       *)
(* stored it until the export is ready (Built), nothing is stored from then *)
(* on (Finished), and only then do pages collect: of a vault that is on     *)
(* offer nobody has anything yet, and whoever clears its row is alone with  *)
(* it (Taken).                                                              *)
(***************************************************************************)
EXTENDS DocumentExport, TLAPS

Building == {"file", "report", "vault", "row"}

AllWhole == \A v \in Variants : Whole(v)

RunState   == [pc : {"none", "start", "variant", "finish", "fail", "ended"}, at : Variants,
               step : {"idle", "running", "file", "report", "vault", "row",
                       "ready", "cancelled", "failed", "lost"},
               try : Nat, cancelled : BOOLEAN]
PostState  == [pc : {"create", "start", "record", "answered"}, new : {0} \cup Runs]
StopState  == [pc : {"idle", "flag", "cancel", "close"}, run : {0} \cup Runs]
SweepState == [pc : {"idle", "cancel", "close", "start", "claim", "surplus"},
               run : {0} \cup Runs, asked : BOOLEAN, recoveries : Nat, new : {0} \cup Runs]
PageState  == [pc : {"idle", "next", "take", "claim", "get", "drop"},
               todo : SUBSET Variants, of : {0} \cup Variants, got : Nat, failed : BOOLEAN]
RowState   == [try : Nat, vault : BOOLEAN]
FileState  == [file : Nat, report : Nat, vault : Nat]
HandState  == [times : Nat, try : Nat]

\* Every variable has its type, the sweep restarts an export only while it may and has
\* then started a run, and a request for a vault names a variant.
Typed ==
  /\ status \in Statuses
  /\ runId \in {0} \cup Runs
  /\ cancelRequested \in BOOLEAN
  /\ recoveries \in 0..MaxRecoveries
  /\ quiet \in BOOLEAN
  /\ artifact \in [Variants -> RowState]
  /\ object \in [Variants -> FileState]
  /\ run \in [Runs -> RunState]
  /\ post \in PostState
  /\ stop \in StopState
  /\ sweep \in SweepState
  /\ key \in {"none", "held", "forgotten"}
  /\ page \in [Pages -> PageState]
  /\ attempts \in [Variants -> Nat]
  /\ handed \in [Variants -> HandState]
  /\ storedSince \in Nat
  /\ strays \subseteq Runs
  /\ faults \in 0..MaxFaults
  /\ sweep.pc \in {"start", "claim"} => sweep.recoveries < MaxRecoveries
  /\ sweep.pc = "claim" => sweep.new \in Runs
  /\ \A p \in Pages : page[p].pc \in {"take", "claim", "get", "drop"} => page[p].of \in Variants

\* A step belongs to its place in the run, and a run that starts begins at the first
\* variant.
Placed(r) ==
  /\ run[r].step = "running" => run[r].pc = "start"
  /\ run[r].step \in Building => run[r].pc = "variant"
  /\ run[r].step \in {"ready", "cancelled"} => run[r].pc = "finish"
  /\ run[r].step = "failed" => run[r].pc = "fail"
  /\ run[r].pc \in {"none", "ended"} => run[r].step = "idle"
  /\ run[r].pc \in {"none", "start"} => run[r].at = 1

\* Nothing but the first run exists before the POST has recorded it.
Posted ==
  /\ post.pc = "create" => status = "none"
  /\ post.pc \in {"create", "start"} => status # "ready" /\ \A r \in Runs : run[r].pc = "none"
  /\ post.pc # "answered" => runId = 0 /\ sweep.pc = "idle"

\* The runs that are recorded, or that the sweep is about to record.
Recorded == Runs \ strays

\* One of them moves; none while the sweep holds the export for lost, and none once the
\* row has been quiet for long, but for the one the sweep has just started.
Alone ==
  /\ \A r, s \in Recorded : Moving(r) /\ Moving(s) => r = s
  /\ sweep.pc \in {"cancel", "close", "start"} => \A r \in Recorded : ~Moving(r)
  /\ sweep.pc \in {"cancel", "close", "start", "claim"} => runId = sweep.run
  /\ IsActive /\ quiet /\ runId # 0 =>
       \A r \in Recorded : Moving(r) => sweep.pc = "claim" /\ sweep.new = r

\* What holds in every state.
Base ==
  /\ Typed
  /\ \A r \in Runs : Placed(r)
  /\ Posted
  /\ Alone

\* One run moves, and none while the sweep holds the export for lost.
OneMoves ==
  /\ \A r, s \in Runs : Moving(r) /\ Moving(s) => r = s
  /\ sweep.pc \in {"cancel", "close", "start"} =>
       /\ \A r \in Runs : ~Moving(r)
       /\ status # "ready"

\* What the run that moves has stored: the variants before the one it is at, and the
\* objects of that one as far as it got.
Built(r) ==
  LET v == run[r].at IN
  Moving(r) =>
    /\ run[r].pc = "variant" => \A w \in Variants : w < v => Whole(w)
    /\ run[r].step \in {"report", "vault", "row"} => object[v].file = run[r].try
    /\ run[r].step \in {"vault", "row"} => object[v].report = run[r].try
    /\ run[r].step = "row" /\ v \in Sealed => object[v].vault = run[r].try
    /\ run[r].step \in Building => run[r].try # 0
    /\ run[r].pc = "finish" /\ run[r].step = "idle" => StopSeen \/ AllWhole
    /\ run[r].step = "ready" => status = "cancelled" \/ AllWhole
    /\ run[r].step = "cancelled" => cancelRequested

\* An export that is ready is whole, and no run will store anything more.
Finished ==
  status = "ready" =>
    /\ AllWhole
    /\ \A r \in Runs : Moving(r) => run[r].pc \in {"finish", "fail"}

Takes(p) == page[p].pc \in {"get", "drop"}

\* Pages collect from an export that is ready; a vault's row is cleared by one of them,
\* which alone hands it over.
Taken ==
  /\ \A p \in Pages : page[p].pc # "idle" => status = "ready"
  /\ \A p, q \in Pages : Takes(p) /\ Takes(q) /\ page[p].of = page[q].of => p = q
  /\ \A p \in Pages : Takes(p) => ~artifact[page[p].of].vault /\ handed[page[p].of].times = 0
  /\ \A p \in Pages : page[p].pc = "get" => object[page[p].of].vault = artifact[page[p].of].try
  /\ \A p \in Pages : page[p].pc = "drop" => page[p].got = artifact[page[p].of].try
  /\ \A v \in Variants : handed[v].times > 0 =>
       /\ status = "ready" /\ ~artifact[v].vault
       /\ handed[v].times = 1 /\ handed[v].try = artifact[v].try

\* What a page that has met no failure has still to ask for.
Asks(p) == page[p].todo \cup (IF page[p].pc \in {"take", "claim"} THEN {page[p].of} ELSE {})

\* A page that met no failure has asked for everything that is not on its list.
Kept ==
  /\ key = "forgotten" => status = "ready" /\ Offered = {}
  /\ \A p \in Pages : page[p].pc # "idle" /\ ~page[p].failed => Offered \subseteq Asks(p)

\* After the stop was asked for, only a variant that was being built is stored.
Stopping ==
  /\ ~cancelRequested => storedSince = 0
  /\ storedSince <= 1
  /\ \A r \in Runs : run[r].step \in Building => storedSince = 0

\* What holds as well while no run goes unrecorded.
Inv ==
  /\ Base
  /\ OneMoves
  /\ \A r \in Runs : Built(r)
  /\ Finished
  /\ Taken
  /\ Kept
  /\ Stopping

\* The inductive invariant.
Full == Base /\ (Tracked => Inv)

-----------------------------------------------------------------------------
(* What a step of one run does to the others. *)

\* A step of run r, as the other runs and the invariant see it.
Steps(r, pc, at, step, try) ==
  /\ run' \in [Runs -> RunState]
  /\ \A s \in Runs \ {r} : run'[s] = run[s]
  /\ run'[r].pc = pc /\ run'[r].at = at /\ run'[r].step = step /\ run'[r].try = try
  /\ run'[r].cancelled = run[r].cancelled

LEMMA TypedIsTypeOK == Typed => TypeOK
BY DEF Typed, TypeOK, RunState, PostState, StopState, SweepState, PageState, RowState, FileState,
       HandState

\* The run that moves is alone: nothing else moves after its step, and the sweep is not
\* about to start another.
LEMMA StepsAlone ==
  ASSUME Typed, OneMoves, NEW r \in Runs, Moving(r),
         NEW pc, NEW at, NEW step, NEW try, Steps(r, pc, at, step, try), sweep' = sweep
  PROVE  /\ \A s \in Runs \ {r} : ~Moving(s) /\ ~Moving(s)'
         /\ OneMoves'
<1>1. \A s \in Runs \ {r} : ~Moving(s)
  BY DEF OneMoves
<1>2. \A s \in Runs \ {r} : ~Moving(s)'
  BY <1>1 DEF Moving, Busy, Steps
<1>3. sweep'.pc \notin {"cancel", "close", "start"}
  BY DEF OneMoves
<1> QED
  BY <1>1, <1>2, <1>3 DEF OneMoves

LEMMA StepsPosted ==
  ASSUME Typed, Posted, NEW r \in Runs, Placed(r), Moving(r), UNCHANGED <<post, sweep, runId>>
  PROVE  Posted'
<1>1. run[r].pc # "none"
  BY DEF Moving, Busy, Placed
<1>2. post.pc \notin {"create", "start"}
  BY <1>1 DEF Posted
<1> QED
  BY <1>2 DEF Posted

LEMMA StepsPlaced ==
  ASSUME Typed, NEW r \in Runs, \A s \in Runs : Placed(s),
         NEW pc, NEW at, NEW step, NEW try, Steps(r, pc, at, step, try),
         step = "running" => pc = "start",
         step \in Building => pc = "variant",
         step \in {"ready", "cancelled"} => pc = "finish",
         step = "failed" => pc = "fail",
         pc \in {"none", "ended"} => step = "idle",
         pc \in {"none", "start"} => at = 1
  PROVE  \A s \in Runs : Placed(s)'
<1>1. Placed(r)'
  BY DEF Placed, Steps
<1>2. \A s \in Runs \ {r} : Placed(s)'
  BY DEF Placed, Steps
<1> QED
  BY <1>1, <1>2

LEMMA StepsBuilt ==
  ASSUME NEW r \in Runs, \A s \in Runs \ {r} : ~Moving(s)', Built(r)'
  PROVE  \A s \in Runs : Built(s)'
BY DEF Built

\* What a run has stored is still there if it has not moved, no object of the variant
\* it is at was written, and every variant that was whole still is.
LEMMA BuiltKept ==
  ASSUME NEW s \in Runs, Built(s), run'[s] = run[s], StopSeen => StopSeen',
         status = "cancelled" => status' = "cancelled",
         cancelRequested => cancelRequested',
         \A v \in Variants : Whole(v) => Whole(v)',
         Moving(s) /\ run[s].step \in Building => object'[run[s].at] = object[run[s].at]
  PROVE  Built(s)'
<1>1. Moving(s)' = Moving(s)
  BY DEF Moving, Busy
<1>2. AllWhole => AllWhole'
  BY DEF AllWhole
<1> SUFFICES ASSUME Moving(s)
             PROVE  Built(s)'
  BY <1>1 DEF Built
<1>3. run[s].pc = "variant" => \A w \in Variants : w < run[s].at => Whole(w)'
  BY DEF Built
<1>4. run[s].step \in Building => object'[run[s].at] = object[run[s].at]
  OBVIOUS
<1>5. run[s].pc = "finish" /\ run[s].step = "idle" => StopSeen' \/ AllWhole'
  BY <1>2 DEF Built
<1>6. run[s].step = "ready" => status' = "cancelled" \/ AllWhole'
  BY <1>2 DEF Built
<1>8. run[s].step = "cancelled" => cancelRequested'
  BY DEF Built
<1>7. /\ run[s].step \in {"report", "vault", "row"} => object'[run[s].at].file = run[s].try
      /\ run[s].step \in {"vault", "row"} => object'[run[s].at].report = run[s].try
      /\ run[s].step = "row" /\ run[s].at \in Sealed => object'[run[s].at].vault = run[s].try
      /\ run[s].step \in Building => run[s].try # 0
  BY <1>4 DEF Built, Building
<1> QED
  BY <1>3, <1>5, <1>6, <1>7, <1>8 DEF Built

LEMMA WholeKept ==
  ASSUME NEW v, artifact' = artifact, object' = object
  PROVE  Whole(v)' = Whole(v)
BY DEF Whole

\* A step that touches no run and nothing stored, and undoes no stop, leaves what was built.
LEMMA BuiltFrame ==
  ASSUME \A s \in Runs : Built(s), UNCHANGED <<run, artifact, object>>, StopSeen => StopSeen',
         status = "cancelled" => status' = "cancelled", cancelRequested => cancelRequested'
  PROVE  \A s \in Runs : Built(s)'
<1>1. \A v \in Variants : Whole(v) => Whole(v)'
  BY WholeKept
<1> QED
  BY <1>1, BuiltKept

\* Cancelling leaves every run where it is, and starts none.
LEMMA CancelledRuns ==
  ASSUME Typed, NEW x, run' = Cancelled(x)
  PROVE  /\ run' \in [Runs -> RunState]
         /\ \A s \in Runs : /\ run'[s].pc = run[s].pc /\ run'[s].at = run[s].at
                            /\ run'[s].step = run[s].step /\ run'[s].try = run[s].try
                            /\ Moving(s)' => Moving(s)
<1>1. CASE x \in Runs /\ run[x].pc # "ended"
  <2>1. run' = [run EXCEPT ![x] = [run[x] EXCEPT !.cancelled = TRUE]]
    BY <1>1 DEF Cancelled
  <2>2. run[x] \in RunState
    BY <1>1 DEF Typed
  <2>3. [run[x] EXCEPT !.cancelled = TRUE] \in RunState
    BY <2>2 DEF RunState
  <2>4. run' \in [Runs -> RunState]
    BY <2>1, <2>3 DEF Typed
  <2>5. ASSUME NEW s \in Runs
        PROVE  /\ run'[s].pc = run[s].pc /\ run'[s].at = run[s].at
               /\ run'[s].step = run[s].step /\ run'[s].try = run[s].try
               /\ run[s].cancelled => run'[s].cancelled
    <3>1. run[s] \in RunState
      BY DEF Typed
    <3> QED
      BY <2>1, <3>1 DEF Typed, RunState
  <2>6. \A s \in Runs : Moving(s)' => Moving(s)
    BY <2>5 DEF Moving, Busy
  <2> QED
    BY <2>4, <2>5, <2>6
<1>2. CASE ~(x \in Runs /\ run[x].pc # "ended")
  BY <1>2 DEF Cancelled, Typed, Moving, Busy
<1> QED
  BY <1>1, <1>2

LEMMA CancelledBuilt ==
  ASSUME Typed, NEW x, run' = Cancelled(x), \A s \in Runs : Built(s),
         UNCHANGED <<artifact, object, status, cancelRequested>>
  PROVE  \A s \in Runs : Built(s)'
<1> SUFFICES ASSUME NEW s \in Runs, Moving(s)'
             PROVE  Built(s)'
  BY DEF Built
<1>1. /\ run'[s].pc = run[s].pc /\ run'[s].at = run[s].at
      /\ run'[s].step = run[s].step /\ run'[s].try = run[s].try
      /\ Moving(s)
  BY CancelledRuns
<1>2. Built(s)
  OBVIOUS
<1>3. \A v \in Variants : Whole(v)' = Whole(v)
  BY WholeKept
<1>4. AllWhole' = AllWhole /\ StopSeen' = StopSeen
  BY <1>3 DEF AllWhole, StopSeen
<1> QED
  BY <1>1, <1>2, <1>3, <1>4 DEF Built

\* A run that is started stands at its beginning.
LEMMA StartedRun ==
  ASSUME Typed, NEW r \in Runs, NextRun(r), Placed(r), run' = Started(r)
  PROVE  /\ Steps(r, "start", 1, "idle", run[r].try)
         /\ Built(r)'
<1>1. run[r] \in RunState /\ run[r].pc = "none" /\ run[r].at = 1 /\ run[r].step = "idle"
  BY DEF Typed, NextRun, Placed
<1>2. run' = [run EXCEPT ![r] = [run[r] EXCEPT !.pc = "start"]]
  BY DEF Started
<1>3. [run[r] EXCEPT !.pc = "start"] \in RunState
  BY <1>1 DEF RunState
<1>4. run'[r] = [run[r] EXCEPT !.pc = "start"]
  BY <1>2 DEF Typed
<1>5. run' \in [Runs -> RunState] /\ \A s \in Runs \ {r} : run'[s] = run[s]
  BY <1>2, <1>3 DEF Typed
<1>6. run'[r].pc = "start" /\ run'[r].step = "idle"
  BY <1>1, <1>4 DEF RunState
<1>7. Built(r)'
  BY <1>6 DEF Built, Building
<1> QED
  BY <1>1, <1>4, <1>5, <1>6, <1>7 DEF Steps, RunState

\* A step that leaves the row live only where it was, moves no run that did not move, and
\* does not age the row.
LEMMA AloneKept ==
  ASSUME Alone, \A r \in Runs : Moving(r)' => Moving(r), UNCHANGED <<runId, sweep, strays>>,
         IsActive' => IsActive, quiet' => quiet
  PROVE  Alone'
<1>1. Recorded' = Recorded /\ \A r \in Recorded : Moving(r)' => Moving(r)
  BY DEF Recorded
<1> QED
  BY <1>1 DEF Alone

-----------------------------------------------------------------------------
(* The request that asks for the export, the one that stops it, the sweep, and the *)
(* pages: none of them stores anything of a variant.                              *)

LEMMA PostCreateBase ==
  ASSUME Base, PostCreate
  PROVE  Base'
<1>1. Typed'
  BY BoundsAssumption DEF Base, PostCreate, Touched, Typed, PostState, Statuses, Active, rowVars, stored,
         pageVars
<1>2. \A s \in Runs : Placed(s)'
  BY DEF Base, PostCreate, Placed, rowVars, stored, pageVars
<1>3. Posted'
  BY DEF Base, PostCreate, Touched, Typed, Posted, PostState, Statuses, Active, rowVars, stored, pageVars
<1>4. Alone'
  BY DEF Base, PostCreate, Posted, Alone, Recorded, Moving, Busy, rowVars, stored, pageVars
<1> QED
  BY <1>1, <1>2, <1>3, <1>4 DEF Base

LEMMA PostCreateKeeps ==
  ASSUME Inv, Base', PostCreate
  PROVE  Inv'
<1>1. OneMoves'
  BY DEF Inv, Base, PostCreate, Typed, Posted, Placed, OneMoves, Moving, Busy, PostState, Statuses,
         Active, rowVars, stored, pageVars
<1>2. \A s \in Runs : Built(s)'
  BY BuiltFrame DEF Inv, Base, Posted, PostCreate, StopSeen, rowVars, stored, pageVars
<1>3. Finished'
  BY WholeKept DEF Inv, Base, PostCreate, Typed, Finished, AllWhole, OneMoves, Posted, Moving, Busy,
         Statuses, Active, rowVars, stored, pageVars
<1>4. Taken'
  BY DEF Inv, Base, Posted, PostCreate, Typed, Taken, Takes, rowVars, stored, pageVars
<1>5. Kept'
  BY DEF Inv, Base, Posted, PostCreate, Typed, Taken, Kept, Asks, Offered, rowVars, stored,
         pageVars
<1>6. Stopping'
  BY DEF Inv, Base, PostCreate, Stopping, Statuses, Active, rowVars, stored, pageVars
<1> QED
  BY <1>1, <1>2, <1>3, <1>4, <1>5, <1>6 DEF Inv

LEMMA PostStartBase ==
  ASSUME Base, PostStart
  PROVE  Base'
<1>1. Typed'
  <2>1. PICK r \in Runs : NextRun(r) /\ run' = Started(r) /\ post' = [post EXCEPT !.pc = "record", !.new = r]
    BY DEF PostStart
  <2>2. run' \in [Runs -> RunState]
    BY <2>1, StartedRun DEF Base, Steps
  <2>3. post' \in PostState
    BY <2>1 DEF Base, Typed, PostState
  <2> QED
    BY <2>2, <2>3 DEF Base, Typed, PostStart, rowVars, stored, pageVars
<1>2. \A s \in Runs : Placed(s)'
  BY DEF Base, PostStart, Placed, Typed, RunState, NextRun, Started, rowVars, stored, pageVars
<1>3. Posted'
  BY DEF Base, PostStart, Typed, Posted, PostState, RunState, NextRun, Started, rowVars, stored,
         pageVars
<1>4. Alone'
  BY DEF Base, PostStart, Posted, Alone, Recorded, NextRun, Started, Typed, RunState, Placed, Moving,
         Busy, rowVars, stored, pageVars
<1> QED
  BY <1>1, <1>2, <1>3, <1>4 DEF Base

LEMMA PostStartKeeps ==
  ASSUME Inv, Base', PostStart
  PROVE  Inv'
<1>1. OneMoves'
  BY DEF Inv, Base, PostStart, Typed, Posted, Placed, OneMoves, Moving, Busy, PostState, RunState,
         NextRun, Started, rowVars, stored, pageVars
<1>2. \A s \in Runs : Built(s)'
  <2>1. PICK r \in Runs : NextRun(r) /\ run' = Started(r)
    BY DEF PostStart
  <2>2. \A s \in Runs \ {r} : ~Moving(s)'
    BY <2>1, StartedRun DEF Inv, Base, PostStart, Posted, Placed, Steps, Moving, Busy
  <2> QED
    BY <2>1, <2>2, StartedRun, StepsBuilt DEF Inv, Base
<1>3. Finished'
  <2>1. status # "ready"
    BY DEF Inv, Base, Posted, PostStart
  <2> QED
    BY <2>1 DEF PostStart, rowVars, Finished
<1>4. Taken'
  BY DEF Inv, Base, PostStart, Typed, PostState, RunState, Taken, Takes, NextRun, Started, rowVars,
         stored, pageVars
<1>5. Kept'
  BY DEF Inv, Base, PostStart, Typed, PostState, RunState, Taken, Kept, Asks, Offered, NextRun,
         Started, rowVars, stored, pageVars
<1>6. Stopping'
  BY DEF Inv, Base, PostStart, Stopping, Typed, RunState, NextRun, Started, rowVars, stored, pageVars
<1> QED
  BY <1>1, <1>2, <1>3, <1>4, <1>5, <1>6 DEF Inv

LEMMA PostRecordBase ==
  ASSUME Base, PostRecord
  PROVE  Base'
<1>1. Typed'
  BY BoundsAssumption DEF Base, PostRecord, Touched, Typed, PostState, rowVars, stored, pageVars
<1>2. \A s \in Runs : Placed(s)'
  BY DEF Base, PostRecord, Placed, rowVars, stored, pageVars
<1>3. Posted'
  BY DEF Base, PostRecord, Touched, Typed, Posted, PostState, rowVars, stored, pageVars
<1>4. Alone'
  BY DEF Base, PostRecord, Touched, Posted, Alone, Recorded, Moving, Busy, rowVars, stored, pageVars
<1> QED
  BY <1>1, <1>2, <1>3, <1>4 DEF Base

LEMMA PostRecordKeeps ==
  ASSUME Inv, Base', PostRecord
  PROVE  Inv'
<1>1. OneMoves'
  BY DEF Inv, Base, PostRecord, Typed, Posted, Placed, OneMoves, Moving, Busy, PostState, rowVars,
         stored, pageVars
<1>2. \A s \in Runs : Built(s)'
  BY BuiltFrame DEF Inv, Base, PostRecord, StopSeen, rowVars, stored, pageVars
<1>3. Finished'
  BY WholeKept DEF Inv, Base, PostRecord, Typed, Finished, AllWhole, OneMoves, Posted, Moving, Busy,
         rowVars, stored, pageVars
<1>4. Taken'
  BY DEF Inv, Base, PostRecord, Typed, PostState, Taken, Takes, rowVars, stored, pageVars
<1>5. Kept'
  BY DEF Inv, Base, PostRecord, Typed, PostState, Taken, Kept, Asks, Offered, rowVars, stored,
         pageVars
<1>6. Stopping'
  BY DEF Inv, Base, PostRecord, Stopping, rowVars, stored, pageVars
<1> QED
  BY <1>1, <1>2, <1>3, <1>4, <1>5, <1>6 DEF Inv

LEMMA PostDiesBase ==
  ASSUME Base, PostDies
  PROVE  Base'
<1>1. Typed'
  <2>1. faults' \in 0..MaxFaults
    BY BoundsAssumption DEF Base, Typed, PostDies
  <2>2. post' \in PostState
    BY DEF Base, Typed, PostDies, PostState
  <2> QED
    BY <2>1, <2>2 DEF Base, Typed, PostDies, rowVars, stored, pageVars
<1>2. \A s \in Runs : Placed(s)'
  BY DEF Base, PostDies, Placed, rowVars, stored, pageVars
<1>3. Posted'
  BY DEF Base, PostDies, Typed, Posted, PostState, rowVars, stored, pageVars
<1>4. Alone'
  BY AloneKept DEF Base, PostDies, Moving, Busy, IsActive, rowVars
<1> QED
  BY <1>1, <1>2, <1>3, <1>4 DEF Base

LEMMA PostDiesKeeps ==
  ASSUME Inv, Base', PostDies
  PROVE  Inv'
<1>1. OneMoves'
  BY DEF Inv, Base, PostDies, Typed, Posted, Placed, OneMoves, Moving, Busy, PostState, rowVars,
         stored, pageVars
<1>2. \A s \in Runs : Built(s)'
  BY BuiltFrame DEF Inv, Base, PostDies, StopSeen, rowVars, stored, pageVars
<1>3. Finished'
  BY WholeKept DEF Inv, Base, PostDies, Typed, Finished, AllWhole, OneMoves, Posted, Moving, Busy,
         rowVars, stored, pageVars
<1>4. Taken'
  BY DEF Inv, Base, PostDies, Typed, PostState, Taken, Takes, rowVars, stored, pageVars
<1>5. Kept'
  BY DEF Inv, Base, PostDies, Typed, PostState, Taken, Kept, Asks, Offered, rowVars, stored, pageVars
<1>6. Stopping'
  BY DEF Inv, Base, PostDies, Stopping, rowVars, stored, pageVars
<1> QED
  BY <1>1, <1>2, <1>3, <1>4, <1>5, <1>6 DEF Inv

LEMMA StopReadBase ==
  ASSUME Base, StopRead
  PROVE  Base'
<1>1. Typed'
  BY BoundsAssumption DEF Base, StopRead, Typed, StopState, IsActive, Active, rowVars, stored,
         pageVars
<1>2. \A s \in Runs : Placed(s)'
  BY DEF Base, StopRead, Placed, rowVars, stored, pageVars
<1>3. Posted'
  BY DEF Base, StopRead, Typed, Posted, StopState, IsActive, Active, rowVars, stored, pageVars
<1>4. Alone'
  BY AloneKept DEF Base, StopRead, Moving, Busy, IsActive, rowVars
<1> QED
  BY <1>1, <1>2, <1>3, <1>4 DEF Base

LEMMA StopReadKeeps ==
  ASSUME Inv, Base', StopRead
  PROVE  Inv'
<1>1. OneMoves'
  BY DEF Inv, Base, StopRead, Typed, Posted, Placed, OneMoves, Moving, Busy, StopState, IsActive,
         Active, rowVars, stored, pageVars
<1>2. \A s \in Runs : Built(s)'
  BY BuiltFrame DEF Inv, Base, StopRead, StopSeen, IsActive, Active, rowVars, stored, pageVars
<1>3. Finished'
  BY WholeKept DEF Inv, Base, StopRead, Typed, Finished, AllWhole, OneMoves, Posted, Moving, Busy,
         IsActive, Active, rowVars, stored, pageVars
<1>4. Taken'
  BY DEF Inv, Base, StopRead, Typed, StopState, Taken, Takes, IsActive, Active, rowVars, stored,
         pageVars
<1>5. Kept'
  BY DEF Inv, Base, StopRead, Typed, StopState, Taken, Kept, Asks, Offered, IsActive, Active, rowVars,
         stored, pageVars
<1>6. Stopping'
  BY DEF Inv, Base, StopRead, Stopping, IsActive, Active, rowVars, stored, pageVars
<1> QED
  BY <1>1, <1>2, <1>3, <1>4, <1>5, <1>6 DEF Inv

LEMMA StopFlagBase ==
  ASSUME Base, StopFlag
  PROVE  Base'
<1>1. Typed'
  BY BoundsAssumption DEF Base, StopFlag, Touched, Typed, StopState, IsActive, Active, rowVars, stored,
         pageVars
<1>2. \A s \in Runs : Placed(s)'
  BY DEF Base, StopFlag, Placed, rowVars, stored, pageVars
<1>3. Posted'
  BY DEF Base, StopFlag, Touched, Typed, Posted, StopState, IsActive, Active, rowVars, stored, pageVars
<1>4. Alone'
  BY AloneKept DEF Base, StopFlag, Touched, Moving, Busy, IsActive, rowVars
<1> QED
  BY <1>1, <1>2, <1>3, <1>4 DEF Base

LEMMA StopFlagKeeps ==
  ASSUME Inv, Base', StopFlag
  PROVE  Inv'
<1>1. OneMoves'
  BY DEF Inv, Base, StopFlag, Typed, Posted, Placed, OneMoves, Moving, Busy, StopState, IsActive,
         Active, rowVars, stored, pageVars
<1>2. \A s \in Runs : Built(s)'
  BY BuiltFrame DEF Inv, Base, StopFlag, StopSeen, IsActive, Active, rowVars, stored, pageVars
<1>3. Finished'
  BY WholeKept DEF Inv, Base, StopFlag, Typed, Finished, AllWhole, OneMoves, Posted, Moving, Busy,
         IsActive, Active, rowVars, stored, pageVars
<1>4. Taken'
  BY DEF Inv, Base, StopFlag, Typed, StopState, Taken, Takes, IsActive, Active, rowVars, stored,
         pageVars
<1>5. Kept'
  BY DEF Inv, Base, StopFlag, Typed, StopState, Taken, Kept, Asks, Offered, IsActive, Active, rowVars,
         stored, pageVars
<1>6. Stopping'
  BY DEF Inv, Base, StopFlag, Stopping, IsActive, Active, rowVars, stored, pageVars
<1> QED
  BY <1>1, <1>2, <1>3, <1>4, <1>5, <1>6 DEF Inv

LEMMA StopCancelBase ==
  ASSUME Base, StopCancel
  PROVE  Base'
<1>1. Typed'
  <2>1. run' \in [Runs -> RunState]
    BY CancelledRuns DEF Base, StopCancel
  <2>2. stop' \in StopState
    BY DEF Base, Typed, StopCancel, StopState
  <2> QED
    BY <2>1, <2>2 DEF Base, Typed, StopCancel, rowVars, stored, pageVars
<1>2. \A s \in Runs : Placed(s)'
  BY DEF Base, StopCancel, Placed, Typed, RunState, Cancelled, rowVars, stored, pageVars
<1>3. Posted'
  BY DEF Base, StopCancel, Typed, Posted, StopState, RunState, Cancelled, rowVars, stored,
         pageVars
<1>4. Alone'
  <2>1. \A r \in Runs : Moving(r)' => Moving(r)
    BY CancelledRuns DEF Base, StopCancel
  <2> QED
    BY <2>1, AloneKept DEF Base, StopCancel, IsActive, rowVars
<1> QED
  BY <1>1, <1>2, <1>3, <1>4 DEF Base

LEMMA StopCancelKeeps ==
  ASSUME Inv, Base', StopCancel
  PROVE  Inv'
<1>1. OneMoves'
  BY DEF Inv, Base, StopCancel, Typed, Posted, Placed, OneMoves, Moving, Busy, StopState, RunState,
         Cancelled, rowVars, stored, pageVars
<1>2. \A s \in Runs : Built(s)'
  BY CancelledBuilt DEF Inv, Base, StopCancel, rowVars, stored
<1>3. Finished'
  BY WholeKept DEF Inv, Base, StopCancel, Typed, Finished, AllWhole, OneMoves, Posted, Moving, Busy,
         Cancelled, rowVars, stored, pageVars
<1>4. Taken'
  BY DEF Inv, Base, StopCancel, Typed, StopState, RunState, Taken, Takes, Cancelled, rowVars, stored,
         pageVars
<1>5. Kept'
  BY DEF Inv, Base, StopCancel, Typed, StopState, RunState, Taken, Kept, Asks, Offered, Cancelled,
         rowVars, stored, pageVars
<1>6. Stopping'
  BY DEF Inv, Base, StopCancel, Stopping, Typed, RunState, Cancelled, rowVars, stored, pageVars
<1> QED
  BY <1>1, <1>2, <1>3, <1>4, <1>5, <1>6 DEF Inv

LEMMA StopCloseBase ==
  ASSUME Base, StopClose
  PROVE  Base'
<1>1. Typed'
  BY BoundsAssumption DEF Base, StopClose, Touched, Typed, StopState, Closed, IsActive, Active, Statuses,
         NoStop, rowVars, stored, pageVars
<1>2. \A s \in Runs : Placed(s)'
  BY DEF Base, StopClose, Placed, rowVars, stored, pageVars
<1>3. Posted'
  BY DEF Base, StopClose, Touched, Typed, Posted, StopState, Closed, IsActive, Active, Statuses, NoStop,
         rowVars, stored, pageVars
<1>4. Alone'
  BY AloneKept DEF Base, StopClose, Closed, Touched, Active, Moving, Busy, IsActive, rowVars
<1> QED
  BY <1>1, <1>2, <1>3, <1>4 DEF Base

LEMMA StopCloseKeeps ==
  ASSUME Inv, Base', StopClose
  PROVE  Inv'
<1>1. OneMoves'
  BY DEF Inv, Base, StopClose, Typed, Posted, Placed, OneMoves, Moving, Busy, StopState, Closed,
         IsActive, Active, Statuses, NoStop, rowVars, stored, pageVars
<1>2. \A s \in Runs : Built(s)'
  BY BuiltFrame DEF Inv, Base, StopClose, StopSeen, Closed, IsActive, Active, Statuses, NoStop,
         rowVars, stored, pageVars
<1>3. Finished'
  BY WholeKept DEF Inv, Base, StopClose, Typed, Finished, AllWhole, OneMoves, Posted, Moving, Busy,
         Closed, IsActive, Active, Statuses, NoStop, rowVars, stored, pageVars
<1>4. Taken'
  BY DEF Inv, Base, StopClose, Typed, StopState, Taken, Takes, Closed, IsActive, Active, Statuses,
         NoStop, rowVars, stored, pageVars
<1>5. Kept'
  BY DEF Inv, Base, StopClose, Typed, StopState, Taken, Kept, Asks, Offered, Closed, IsActive, Active,
         Statuses, NoStop, rowVars, stored, pageVars
<1>6. Stopping'
  BY DEF Inv, Base, StopClose, Stopping, Closed, IsActive, Active, Statuses, NoStop, rowVars, stored,
         pageVars
<1> QED
  BY <1>1, <1>2, <1>3, <1>4, <1>5, <1>6 DEF Inv

LEMMA StopDiesBase ==
  ASSUME Base, StopDies
  PROVE  Base'
<1>1. Typed'
  BY BoundsAssumption DEF Base, StopDies, Typed, StopState, NoStop, rowVars, stored, pageVars
<1>2. \A s \in Runs : Placed(s)'
  BY DEF Base, StopDies, Placed, rowVars, stored, pageVars
<1>3. Posted'
  BY DEF Base, StopDies, Typed, Posted, StopState, NoStop, rowVars, stored, pageVars
<1>4. Alone'
  BY AloneKept DEF Base, StopDies, Moving, Busy, IsActive, rowVars
<1> QED
  BY <1>1, <1>2, <1>3, <1>4 DEF Base

LEMMA StopDiesKeeps ==
  ASSUME Inv, Base', StopDies
  PROVE  Inv'
<1>1. OneMoves'
  BY DEF Inv, Base, StopDies, Typed, Posted, Placed, OneMoves, Moving, Busy, StopState, NoStop,
         rowVars, stored, pageVars
<1>2. \A s \in Runs : Built(s)'
  BY BuiltFrame DEF Inv, Base, StopDies, StopSeen, NoStop, rowVars, stored, pageVars
<1>3. Finished'
  BY WholeKept DEF Inv, Base, StopDies, Typed, Finished, AllWhole, OneMoves, Posted, Moving, Busy,
         NoStop, rowVars, stored, pageVars
<1>4. Taken'
  BY DEF Inv, Base, StopDies, Typed, StopState, Taken, Takes, NoStop, rowVars, stored, pageVars
<1>5. Kept'
  BY DEF Inv, Base, StopDies, Typed, StopState, Taken, Kept, Asks, Offered, NoStop, rowVars, stored,
         pageVars
<1>6. Stopping'
  BY DEF Inv, Base, StopDies, Stopping, NoStop, rowVars, stored, pageVars
<1> QED
  BY <1>1, <1>2, <1>3, <1>4, <1>5, <1>6 DEF Inv

LEMMA FindLostBase ==
  ASSUME Base, FindLost
  PROVE  Base'
<1>1. Typed'
  BY BoundsAssumption DEF Base, FindLost, Typed, SweepState, Stalled, IsActive, Active, rowVars,
         stored, pageVars
<1>2. \A s \in Runs : Placed(s)'
  BY DEF Base, FindLost, Placed, rowVars, stored, pageVars
<1>3. Posted'
  BY DEF Base, FindLost, Typed, Posted, SweepState, Stalled, IsActive, Active, rowVars, stored,
         pageVars
<1>4. Alone'
  <2>1. \A r \in Recorded : ~Moving(r)
    BY DEF Base, FindLost, Stalled, Alone
  <2>2. Recorded' = Recorded /\ \A r \in Recorded : ~Moving(r)'
    BY <2>1 DEF FindLost, Recorded, Moving, Busy
  <2>3. sweep'.pc = "cancel" /\ sweep'.run = runId /\ runId' = runId
    BY DEF FindLost, rowVars
  <2> QED
    BY <2>2, <2>3 DEF Alone
<1> QED
  BY <1>1, <1>2, <1>3, <1>4 DEF Base

LEMMA FindLostKeeps ==
  ASSUME Inv, Base', Tracked, FindLost
  PROVE  Inv'
<1>1. OneMoves'
  <2>1. Recorded = Runs /\ \A r \in Recorded : ~Moving(r)
    BY DEF Inv, Base, Alone, FindLost, Stalled, Tracked, Recorded
  <2>2. run' = run /\ status' = status /\ status # "ready"
    BY DEF FindLost, Stalled, IsActive, Active, rowVars
  <2> QED
    BY <2>1, <2>2 DEF OneMoves, Moving, Busy
<1>2. \A s \in Runs : Built(s)'
  BY BuiltFrame DEF Inv, Base, FindLost, StopSeen, Stalled, IsActive, Active, rowVars, stored,
         pageVars
<1>3. Finished'
  BY WholeKept DEF Inv, Base, FindLost, Typed, Finished, AllWhole, OneMoves, Posted, Moving, Busy,
         Stalled, IsActive, Active, rowVars, stored, pageVars
<1>4. Taken'
  BY DEF Inv, Base, FindLost, Typed, SweepState, Taken, Takes, Stalled, IsActive, Active, rowVars,
         stored, pageVars
<1>5. Kept'
  BY DEF Inv, Base, FindLost, Typed, SweepState, Taken, Kept, Asks, Offered, Stalled, IsActive,
         Active, rowVars, stored, pageVars
<1>6. Stopping'
  BY DEF Inv, Base, FindLost, Stopping, Stalled, IsActive, Active, rowVars, stored, pageVars
<1> QED
  BY <1>1, <1>2, <1>3, <1>4, <1>5, <1>6 DEF Inv

LEMMA CancelLostBase ==
  ASSUME Base, CancelLost
  PROVE  Base'
<1>1. Typed'
  <2>1. run' \in [Runs -> RunState]
    BY CancelledRuns DEF Base, CancelLost
  <2>2. sweep' \in SweepState
    BY DEF Base, Typed, CancelLost, SweepState
  <2>3. sweep'.pc \in {"start", "claim"} => sweep'.recoveries < MaxRecoveries
    BY BoundsAssumption DEF Base, Typed, CancelLost, GivesUp, SweepState
  <2> QED
    BY <2>1, <2>2, <2>3 DEF Base, Typed, CancelLost, rowVars, stored, pageVars
<1>2. \A s \in Runs : Placed(s)'
  BY DEF Base, CancelLost, Placed, Typed, RunState, Cancelled, GivesUp, rowVars, stored, pageVars
<1>3. Posted'
  BY DEF Base, CancelLost, Typed, Posted, SweepState, RunState, Cancelled, GivesUp, rowVars,
         stored, pageVars
<1>4. Alone'
  <2>1. /\ sweep'.pc \in {"close", "start"} /\ sweep'.run = sweep.run
        /\ UNCHANGED <<runId, strays>>
    BY DEF Base, Typed, CancelLost, SweepState, rowVars
  <2>2. \A r \in Runs : Moving(r)' => Moving(r)
    BY CancelledRuns DEF Base, CancelLost
  <2>3. \A r \in Recorded : ~Moving(r)
    BY DEF Base, CancelLost, Alone
  <2> QED
    BY <2>1, <2>2, <2>3 DEF Base, CancelLost, Alone, Recorded
<1> QED
  BY <1>1, <1>2, <1>3, <1>4 DEF Base

LEMMA CancelLostKeeps ==
  ASSUME Inv, Base', CancelLost
  PROVE  Inv'
<1>1. OneMoves'
  BY DEF Inv, Base, CancelLost, Typed, Posted, Placed, OneMoves, Moving, Busy, SweepState, RunState,
         Cancelled, GivesUp, rowVars, stored, pageVars
<1>2. \A s \in Runs : Built(s)'
  BY CancelledBuilt DEF Inv, Base, CancelLost, rowVars, stored
<1>3. Finished'
  BY WholeKept DEF Inv, Base, CancelLost, Typed, Finished, AllWhole, OneMoves, Posted, Moving, Busy,
         Cancelled, GivesUp, rowVars, stored, pageVars
<1>4. Taken'
  BY DEF Inv, Base, CancelLost, Typed, SweepState, RunState, Taken, Takes, Cancelled, GivesUp,
         rowVars, stored, pageVars
<1>5. Kept'
  BY DEF Inv, Base, CancelLost, Typed, SweepState, RunState, Taken, Kept, Asks, Offered, Cancelled,
         GivesUp, rowVars, stored, pageVars
<1>6. Stopping'
  BY DEF Inv, Base, CancelLost, Stopping, Typed, RunState, Cancelled, GivesUp, rowVars, stored,
         pageVars
<1> QED
  BY <1>1, <1>2, <1>3, <1>4, <1>5, <1>6 DEF Inv

LEMMA CloseLostBase ==
  ASSUME Base, CloseLost
  PROVE  Base'
<1>1. Typed'
  BY BoundsAssumption DEF Base, CloseLost, Touched, Typed, SweepState, StillLost, IsActive, Active,
         Statuses, SweepIdle, rowVars, stored, pageVars
<1>2. \A s \in Runs : Placed(s)'
  BY DEF Base, CloseLost, Placed, rowVars, stored, pageVars
<1>3. Posted'
  BY DEF Base, CloseLost, Touched, Typed, Posted, SweepState, StillLost, IsActive, Active, Statuses,
         SweepIdle, rowVars, stored, pageVars
<1>4. Alone'
  <2>1. \A r \in Recorded : ~Moving(r)
    BY DEF Base, CloseLost, Alone
  <2>2. Recorded' = Recorded /\ \A r \in Recorded : ~Moving(r)'
    BY <2>1 DEF CloseLost, Recorded, Moving, Busy
  <2>3. sweep'.pc = "idle"
    BY DEF CloseLost, SweepIdle
  <2> QED
    BY <2>2, <2>3 DEF Alone
<1> QED
  BY <1>1, <1>2, <1>3, <1>4 DEF Base

LEMMA CloseLostKeeps ==
  ASSUME Inv, Base', CloseLost
  PROVE  Inv'
<1>1. OneMoves'
  BY DEF Inv, Base, CloseLost, Typed, Posted, Placed, OneMoves, Moving, Busy, SweepState, StillLost,
         IsActive, Active, Statuses, SweepIdle, rowVars, stored, pageVars
<1>2. \A s \in Runs : Built(s)'
  BY BuiltFrame DEF Inv, Base, CloseLost, StopSeen, StillLost, IsActive, Active, Statuses, SweepIdle,
         rowVars, stored, pageVars
<1>3. Finished'
  BY WholeKept DEF Inv, Base, CloseLost, Typed, Finished, AllWhole, OneMoves, Posted, Moving, Busy,
         StillLost, IsActive, Active, Statuses, SweepIdle, rowVars, stored, pageVars
<1>4. Taken'
  BY DEF Inv, Base, CloseLost, Typed, SweepState, Taken, Takes, StillLost, IsActive, Active, Statuses,
         SweepIdle, rowVars, stored, pageVars
<1>5. Kept'
  BY DEF Inv, Base, CloseLost, Typed, SweepState, Taken, Kept, Asks, Offered, StillLost, IsActive,
         Active, Statuses, SweepIdle, rowVars, stored, pageVars
<1>6. Stopping'
  BY DEF Inv, Base, CloseLost, Stopping, StillLost, IsActive, Active, Statuses, SweepIdle, rowVars,
         stored, pageVars
<1> QED
  BY <1>1, <1>2, <1>3, <1>4, <1>5, <1>6 DEF Inv

LEMMA RestartLostBase ==
  ASSUME Base, RestartLost
  PROVE  Base'
<1>1. Typed'
  <2>1. PICK r \in Runs : NextRun(r) /\ run' = Started(r) /\ sweep' = [sweep EXCEPT !.pc = "claim", !.new = r]
    BY DEF RestartLost
  <2>2. run' \in [Runs -> RunState]
    BY <2>1, StartedRun DEF Base, Steps
  <2>3. sweep' \in SweepState /\ sweep'.recoveries < MaxRecoveries
    BY <2>1 DEF Base, Typed, RestartLost, SweepState
  <2> QED
    BY <2>2, <2>3 DEF Base, Typed, RestartLost, rowVars, stored, pageVars
<1>2. \A s \in Runs : Placed(s)'
  BY DEF Base, RestartLost, Placed, Typed, RunState, NextRun, Started, rowVars, stored, pageVars
<1>3. Posted'
  BY DEF Base, RestartLost, Typed, Posted, SweepState, RunState, NextRun, Started, rowVars,
         stored, pageVars
<1>4. Alone'
  <2>1. PICK r \in Runs : NextRun(r) /\ run' = Started(r) /\ sweep' = [sweep EXCEPT !.pc = "claim", !.new = r]
    BY DEF RestartLost
  <2>2. \A s \in Runs \ {r} : run'[s] = run[s]
    BY <2>1, StartedRun DEF Base, Steps
  <2>3. \A s \in Recorded : ~Moving(s)
    BY DEF Base, RestartLost, Alone
  <2>4. Recorded' = Recorded /\ \A s \in Recorded \ {r} : ~Moving(s)'
    BY <2>2, <2>3 DEF RestartLost, Recorded, Moving, Busy
  <2>5. sweep'.pc = "claim" /\ sweep'.new = r /\ sweep'.run = sweep.run /\ runId' = runId
    BY <2>1 DEF Base, Typed, RestartLost, SweepState, rowVars
  <2>6. runId = sweep.run
    BY DEF Base, RestartLost, Alone
  <2> QED
    BY <2>4, <2>5, <2>6 DEF Alone
<1> QED
  BY <1>1, <1>2, <1>3, <1>4 DEF Base

LEMMA RestartLostKeeps ==
  ASSUME Inv, Base', RestartLost
  PROVE  Inv'
<1>1. OneMoves'
  BY DEF Inv, Base, RestartLost, Typed, Posted, Placed, OneMoves, Moving, Busy, SweepState, RunState,
         NextRun, Started, rowVars, stored, pageVars
<1>2. \A s \in Runs : Built(s)'
  <2>1. PICK r \in Runs : NextRun(r) /\ run' = Started(r)
    BY DEF RestartLost
  <2>2. \A s \in Runs \ {r} : ~Moving(s)'
    BY <2>1, StartedRun DEF Inv, Base, RestartLost, OneMoves, Steps, Moving, Busy
  <2> QED
    BY <2>1, <2>2, StartedRun, StepsBuilt DEF Inv, Base
<1>3. Finished'
  BY WholeKept DEF Inv, Base, RestartLost, Typed, Finished, AllWhole, OneMoves, Posted, Moving, Busy,
         NextRun, Started, rowVars, stored, pageVars
<1>4. Taken'
  BY DEF Inv, Base, RestartLost, Typed, SweepState, RunState, Taken, Takes, NextRun, Started, rowVars,
         stored, pageVars
<1>5. Kept'
  BY DEF Inv, Base, RestartLost, Typed, SweepState, RunState, Taken, Kept, Asks, Offered, NextRun,
         Started, rowVars, stored, pageVars
<1>6. Stopping'
  BY DEF Inv, Base, RestartLost, Stopping, Typed, RunState, NextRun, Started, rowVars, stored,
         pageVars
<1> QED
  BY <1>1, <1>2, <1>3, <1>4, <1>5, <1>6 DEF Inv

LEMMA ClaimLostBase ==
  ASSUME Base, ClaimLost
  PROVE  Base'
<1>1. Typed'
  <2>1. sweep' \in SweepState /\ sweep'.pc \in {"idle", "surplus"}
    <3>1. SweepIdle \in SweepState /\ SweepIdle.pc = "idle"
      BY DEF SweepIdle, SweepState
    <3>2. /\ [sweep EXCEPT !.pc = "surplus"] \in SweepState
          /\ [sweep EXCEPT !.pc = "surplus"].pc = "surplus"
      BY DEF Base, Typed, SweepState
    <3> QED
      BY <3>1, <3>2 DEF ClaimLost
  <2>2. runId' \in {0} \cup Runs
    BY DEF Base, Typed, ClaimLost, Touched, SweepState
  <2>3. sweep.recoveries \in Nat /\ sweep.recoveries < MaxRecoveries
    BY DEF Base, Typed, ClaimLost, Touched, SweepState
  <2>4. recoveries' \in 0..MaxRecoveries
    BY <2>3, BoundsAssumption DEF Base, Typed, ClaimLost
  <2> QED
    BY <2>1, <2>2, <2>4 DEF Base, Typed, ClaimLost, Touched, rowVars, stored, pageVars
<1>2. \A s \in Runs : Placed(s)'
  BY DEF Base, ClaimLost, Placed, rowVars, stored, pageVars
<1>3. Posted'
  BY DEF Base, ClaimLost, Touched, Typed, Posted, SweepState, StillLost, IsActive, Active, SweepIdle,
         rowVars, stored, pageVars
<1>4. Alone'
  <2>1. runId = sweep.run /\ \A r, s \in Recorded : Moving(r) /\ Moving(s) => r = s
    BY DEF Base, ClaimLost, Alone
  <2>2. Recorded' = Recorded /\ \A r \in Recorded : Moving(r)' = Moving(r)
    BY DEF ClaimLost, Recorded, Moving, Busy
  <2>3. sweep'.pc \in {"idle", "surplus"}
    BY DEF Base, Typed, ClaimLost, Touched, SweepState, SweepIdle
  <2>4. ~(IsActive' /\ quiet')
    BY <2>1 DEF ClaimLost, StillLost, Touched, IsActive
  <2> QED
    BY <2>1, <2>2, <2>3, <2>4 DEF Alone
<1> QED
  BY <1>1, <1>2, <1>3, <1>4 DEF Base

LEMMA ClaimLostKeeps ==
  ASSUME Inv, Base', ClaimLost
  PROVE  Inv'
<1>1. OneMoves'
  BY DEF Inv, Base, ClaimLost, Typed, Posted, Placed, OneMoves, Moving, Busy, SweepState, StillLost,
         IsActive, Active, SweepIdle, rowVars, stored, pageVars
<1>2. \A s \in Runs : Built(s)'
  BY BuiltFrame DEF Inv, Base, ClaimLost, StopSeen, StillLost, IsActive, Active, SweepIdle, rowVars,
         stored, pageVars
<1>3. Finished'
  BY WholeKept DEF Inv, Base, ClaimLost, Typed, Finished, AllWhole, OneMoves, Posted, Moving, Busy,
         StillLost, IsActive, Active, SweepIdle, rowVars, stored, pageVars
<1>4. Taken'
  BY DEF Inv, Base, ClaimLost, Typed, SweepState, Taken, Takes, StillLost, IsActive, Active,
         SweepIdle, rowVars, stored, pageVars
<1>5. Kept'
  BY DEF Inv, Base, ClaimLost, Typed, SweepState, Taken, Kept, Asks, Offered, StillLost, IsActive,
         Active, SweepIdle, rowVars, stored, pageVars
<1>6. Stopping'
  BY DEF Inv, Base, ClaimLost, Stopping, StillLost, IsActive, Active, SweepIdle, rowVars, stored,
         pageVars
<1> QED
  BY <1>1, <1>2, <1>3, <1>4, <1>5, <1>6 DEF Inv

LEMMA StopSurplusBase ==
  ASSUME Base, StopSurplus
  PROVE  Base'
<1>1. Typed'
  <2>1. run' \in [Runs -> RunState]
    BY CancelledRuns DEF Base, StopSurplus
  <2>2. sweep' \in SweepState
    BY DEF Base, Typed, StopSurplus, SweepState, SweepIdle
  <2>3. sweep'.pc = "idle"
    BY DEF StopSurplus, SweepIdle
  <2> QED
    BY <2>1, <2>2, <2>3 DEF Base, Typed, StopSurplus, rowVars, stored, pageVars
<1>2. \A s \in Runs : Placed(s)'
  BY DEF Base, StopSurplus, Placed, Typed, RunState, Cancelled, SweepIdle, rowVars, stored,
         pageVars
<1>3. Posted'
  BY DEF Base, StopSurplus, Typed, Posted, SweepState, RunState, Cancelled, SweepIdle, rowVars,
         stored, pageVars
<1>4. Alone'
  <2>1. UNCHANGED <<rowVars, strays>> /\ sweep'.pc = "idle" /\ sweep.pc = "surplus"
    BY DEF StopSurplus, SweepIdle
  <2>2. \A r \in Runs : Moving(r)' => Moving(r)
    BY CancelledRuns DEF Base, StopSurplus
  <2> QED
    BY <2>1, <2>2 DEF Base, Alone, Recorded, IsActive, rowVars
<1> QED
  BY <1>1, <1>2, <1>3, <1>4 DEF Base

LEMMA StopSurplusKeeps ==
  ASSUME Inv, Base', StopSurplus
  PROVE  Inv'
<1>1. OneMoves'
  BY DEF Inv, Base, StopSurplus, Typed, Posted, Placed, OneMoves, Moving, Busy, SweepState, RunState,
         Cancelled, SweepIdle, rowVars, stored, pageVars
<1>2. \A s \in Runs : Built(s)'
  BY CancelledBuilt DEF Inv, Base, StopSurplus, rowVars, stored
<1>3. Finished'
  BY WholeKept DEF Inv, Base, StopSurplus, Typed, Finished, AllWhole, OneMoves, Posted, Moving, Busy,
         Cancelled, SweepIdle, rowVars, stored, pageVars
<1>4. Taken'
  BY DEF Inv, Base, StopSurplus, Typed, SweepState, RunState, Taken, Takes, Cancelled, SweepIdle,
         rowVars, stored, pageVars
<1>5. Kept'
  BY DEF Inv, Base, StopSurplus, Typed, SweepState, RunState, Taken, Kept, Asks, Offered, Cancelled,
         SweepIdle, rowVars, stored, pageVars
<1>6. Stopping'
  BY DEF Inv, Base, StopSurplus, Stopping, Typed, RunState, Cancelled, SweepIdle, rowVars, stored,
         pageVars
<1> QED
  BY <1>1, <1>2, <1>3, <1>4, <1>5, <1>6 DEF Inv

LEMMA SweepFailsBase ==
  ASSUME Base, SweepFails
  PROVE  Base'
<1>1. Typed'
  <2>1. faults' \in 0..MaxFaults
    BY BoundsAssumption DEF Base, Typed, SweepFails
  <2>2. SweepIdle \in SweepState /\ SweepIdle.pc = "idle"
    BY DEF SweepIdle, SweepState
  <2>3. strays' \subseteq Runs
    BY DEF Base, Typed, SweepFails
  <2> QED
    BY <2>1, <2>2, <2>3 DEF Base, Typed, SweepFails, rowVars, stored, pageVars
<1>2. \A s \in Runs : Placed(s)'
  BY DEF Base, SweepFails, Placed, rowVars, stored, pageVars
<1>3. Posted'
  BY DEF Base, SweepFails, Typed, Posted, SweepState, SweepIdle, rowVars, stored, pageVars
<1>4. Alone'
  <2>1. UNCHANGED <<rowVars, run>> /\ sweep'.pc = "idle"
    BY DEF SweepFails, SweepIdle
  <2>2. Recorded' \subseteq Recorded /\ (sweep.pc = "claim" => sweep.new \notin Recorded')
    BY DEF SweepFails, Recorded
  <2>3. \A r \in Runs : Moving(r)' = Moving(r)
    BY <2>1 DEF Moving, Busy
  <2>4. \A r \in Recorded' : r \in Runs
    BY DEF Recorded
  <2> QED
    BY <2>1, <2>2, <2>3, <2>4 DEF Base, Alone, IsActive, rowVars
<1> QED
  BY <1>1, <1>2, <1>3, <1>4 DEF Base

LEMMA SweepFailsKeeps ==
  ASSUME Inv, Base', SweepFails
  PROVE  Inv'
<1>1. OneMoves'
  BY DEF Inv, Base, SweepFails, Typed, Posted, Placed, OneMoves, Moving, Busy, SweepState, SweepIdle,
         rowVars, stored, pageVars
<1>2. \A s \in Runs : Built(s)'
  BY BuiltFrame DEF Inv, Base, SweepFails, StopSeen, SweepIdle, rowVars, stored, pageVars
<1>3. Finished'
  BY WholeKept DEF Inv, Base, SweepFails, Typed, Finished, AllWhole, OneMoves, Posted, Moving, Busy,
         SweepIdle, rowVars, stored, pageVars
<1>4. Taken'
  BY DEF Inv, Base, SweepFails, Typed, SweepState, Taken, Takes, SweepIdle, rowVars, stored, pageVars
<1>5. Kept'
  BY DEF Inv, Base, SweepFails, Typed, SweepState, Taken, Kept, Asks, Offered, SweepIdle, rowVars,
         stored, pageVars
<1>6. Stopping'
  BY DEF Inv, Base, SweepFails, Stopping, SweepIdle, rowVars, stored, pageVars
<1> QED
  BY <1>1, <1>2, <1>3, <1>4, <1>5, <1>6 DEF Inv

LEMMA PageViewBase ==
  ASSUME Base, NEW p \in Pages, PageView(p)
  PROVE  Base'
<1>1. Typed'
  <2>1. Offered \in SUBSET Variants
    BY DEF Offered
  <2>2. [NoPage EXCEPT !.pc = "next", !.todo = Offered] \in PageState
    BY <2>1 DEF NoPage, PageState
  <2>3. page' \in [Pages -> PageState]
    BY <2>2 DEF Base, Typed, PageView
  <2>4. key' \in {"none", "held", "forgotten"}
    BY DEF Base, Typed, PageView
  <2>5. \A q \in Pages : page'[q].pc \in {"take", "claim", "get", "drop"} => page'[q] = page[q]
    BY DEF Base, Typed, PageView, NoPage
  <2> QED
    BY <2>3, <2>4, <2>5 DEF Base, Typed, PageView, rowVars, stored
<1>2. \A s \in Runs : Placed(s)'
  BY DEF Base, PageView, Placed, rowVars, stored, pageVars
<1>3. Posted'
  BY DEF Base, PageView, Typed, Posted, PageState, RowState, NoPage, Offered, rowVars, stored,
         pageVars
<1>4. Alone'
  BY AloneKept DEF Base, PageView, Moving, Busy, IsActive, rowVars
<1> QED
  BY <1>1, <1>2, <1>3, <1>4 DEF Base

LEMMA PageViewKeeps ==
  ASSUME Inv, Base', NEW p \in Pages, PageView(p)
  PROVE  Inv'
<1>1. OneMoves'
  BY DEF Inv, Base, PageView, Typed, Posted, Placed, OneMoves, Moving, Busy, PageState, RowState,
         NoPage, Offered, rowVars, stored, pageVars
<1>2. \A s \in Runs : Built(s)'
  BY BuiltFrame DEF Inv, Base, PageView, StopSeen, NoPage, Offered, rowVars, stored, pageVars
<1>3. Finished'
  BY WholeKept DEF Inv, Base, PageView, Typed, Finished, AllWhole, OneMoves, Posted, Moving, Busy,
         NoPage, Offered, rowVars, stored, pageVars
<1>4. Taken'
  <2>1. CASE Offered = {} /\ page' = page
    BY <2>1 DEF Inv, Base, PageView, Taken, Takes, rowVars, stored
  <2>2. CASE page' = [page EXCEPT ![p] = [NoPage EXCEPT !.pc = "next", !.todo = Offered]]
    <3>1. page'[p].pc = "next" /\ \A q \in Pages \ {p} : page'[q] = page[q]
      BY <2>2 DEF Inv, Base, Typed, NoPage
    <3>2. \A q \in Pages : Takes(q)' => q # p /\ Takes(q) /\ page'[q] = page[q]
      BY <3>1 DEF Takes
    <3> QED
      BY <3>1, <3>2 DEF Inv, Base, PageView, Taken, Takes, rowVars, stored
  <2> QED
    BY <2>1, <2>2 DEF PageView
<1>5. Kept'
  <2>0. Offered' = Offered
    BY DEF PageView, stored, Offered
  <2>1. CASE Offered = {} /\ page' = page
    BY <2>0, <2>1 DEF Inv, Base, PageView, Kept, Asks, rowVars
  <2>2. CASE page' = [page EXCEPT ![p] = [NoPage EXCEPT !.pc = "next", !.todo = Offered]] /\ key' = key
    <3>1. page'[p].todo = Offered /\ \A q \in Pages \ {p} : page'[q] = page[q]
      BY <2>2 DEF Inv, Base, Typed, NoPage
    <3> QED
      BY <2>0, <2>2, <3>1 DEF Inv, Base, PageView, Kept, Asks, rowVars
  <2> QED
    BY <2>1, <2>2 DEF PageView
<1>6. Stopping'
  BY DEF Inv, Base, PageView, Stopping, NoPage, Offered, rowVars, stored, pageVars
<1> QED
  BY <1>1, <1>2, <1>3, <1>4, <1>5, <1>6 DEF Inv

LEMMA PageNextBase ==
  ASSUME Base, NEW p \in Pages, PageNext(p)
  PROVE  Base'
<1>1. Typed'
  BY BoundsAssumption DEF Base, PageNext, Typed, PageState, rowVars, stored, pageVars
<1>2. \A s \in Runs : Placed(s)'
  BY DEF Base, PageNext, Placed, rowVars, stored, pageVars
<1>3. Posted'
  BY DEF Base, PageNext, Typed, Posted, PageState, rowVars, stored, pageVars
<1>4. Alone'
  BY AloneKept DEF Base, PageNext, Moving, Busy, IsActive, rowVars
<1> QED
  BY <1>1, <1>2, <1>3, <1>4 DEF Base

LEMMA PageNextKeeps ==
  ASSUME Inv, Base', NEW p \in Pages, PageNext(p)
  PROVE  Inv'
<1>1. OneMoves'
  BY DEF Inv, Base, PageNext, Typed, Posted, Placed, OneMoves, Moving, Busy, PageState, rowVars,
         stored, pageVars
<1>2. \A s \in Runs : Built(s)'
  BY BuiltFrame DEF Inv, Base, PageNext, StopSeen, rowVars, stored, pageVars
<1>3. Finished'
  BY WholeKept DEF Inv, Base, PageNext, Typed, Finished, AllWhole, OneMoves, Posted, Moving, Busy,
         rowVars, stored, pageVars
<1>4. Taken'
  <2>1. \A q \in Pages : Takes(q)' => Takes(q) /\ page'[q] = page[q]
    BY DEF Inv, Base, Typed, PageState, PageNext, Takes
  <2>2. \A q \in Pages : page'[q].pc # "idle" => page[q].pc # "idle"
    BY DEF Inv, Base, Typed, PageState, PageNext
  <2>3. UNCHANGED <<status, artifact, object, handed>>
    BY DEF PageNext, rowVars, stored
  <2>4. /\ \A q \in Pages : page'[q].pc = "get" => object'[page'[q].of].vault = artifact'[page'[q].of].try
        /\ \A q \in Pages : page'[q].pc = "drop" => page'[q].got = artifact'[page'[q].of].try
    BY <2>1, <2>3 DEF Inv, Taken, Takes
  <2> QED
    BY <2>1, <2>2, <2>3, <2>4 DEF Inv, Taken
<1>5. Kept'
  BY DEF Inv, Base, PageNext, Typed, PageState, Taken, Kept, Asks, Offered, rowVars, stored, pageVars
<1>6. Stopping'
  BY DEF Inv, Base, PageNext, Stopping, rowVars, stored, pageVars
<1> QED
  BY <1>1, <1>2, <1>3, <1>4, <1>5, <1>6 DEF Inv

LEMMA TakeReadBase ==
  ASSUME Base, NEW p \in Pages, TakeRead(p)
  PROVE  Base'
<1>1. Typed'
  BY BoundsAssumption DEF Base, TakeRead, Typed, PageState, rowVars, stored, pageVars
<1>2. \A s \in Runs : Placed(s)'
  BY DEF Base, TakeRead, Placed, rowVars, stored, pageVars
<1>3. Posted'
  BY DEF Base, TakeRead, Typed, Posted, PageState, rowVars, stored, pageVars
<1>4. Alone'
  BY AloneKept DEF Base, TakeRead, Moving, Busy, IsActive, rowVars
<1> QED
  BY <1>1, <1>2, <1>3, <1>4 DEF Base

LEMMA TakeReadKeeps ==
  ASSUME Inv, Base', NEW p \in Pages, TakeRead(p)
  PROVE  Inv'
<1>1. OneMoves'
  BY DEF Inv, Base, TakeRead, Typed, Posted, Placed, OneMoves, Moving, Busy, PageState, rowVars,
         stored, pageVars
<1>2. \A s \in Runs : Built(s)'
  BY BuiltFrame DEF Inv, Base, TakeRead, StopSeen, rowVars, stored, pageVars
<1>3. Finished'
  BY WholeKept DEF Inv, Base, TakeRead, Typed, Finished, AllWhole, OneMoves, Posted, Moving, Busy,
         rowVars, stored, pageVars
<1>4. Taken'
  <2>1. \A q \in Pages : Takes(q)' => Takes(q) /\ page'[q] = page[q]
    BY DEF Inv, Base, Typed, PageState, TakeRead, Takes
  <2>2. \A q \in Pages : page'[q].pc # "idle" => page[q].pc # "idle"
    BY DEF Inv, Base, Typed, PageState, TakeRead
  <2> QED
    BY <2>1, <2>2 DEF Inv, TakeRead, Taken, Takes, rowVars, stored
<1>5. Kept'
  BY DEF Inv, Base, TakeRead, Typed, PageState, Taken, Kept, Asks, Offered, rowVars, stored, pageVars
<1>6. Stopping'
  BY DEF Inv, Base, TakeRead, Stopping, rowVars, stored, pageVars
<1> QED
  BY <1>1, <1>2, <1>3, <1>4, <1>5, <1>6 DEF Inv

LEMMA TakeGetBase ==
  ASSUME Base, NEW p \in Pages, TakeGet(p)
  PROVE  Base'
<1>1. Typed'
  <2>1. page[p] \in PageState /\ page[p].of \in Variants
    BY DEF Base, Typed, Taken, TakeGet
  <2>2. object[page[p].of].vault \in Nat
    BY <2>1 DEF Base, Typed, FileState
  <2>3. [page[p] EXCEPT !.pc = "drop", !.got = object[page[p].of].vault] \in PageState
    BY <2>1, <2>2 DEF PageState
  <2>4. page' \in [Pages -> PageState]
    BY <2>3 DEF Base, Typed, TakeGet
  <2> QED
    BY <2>4 DEF Base, Typed, TakeGet, rowVars, stored
<1>2. \A s \in Runs : Placed(s)'
  BY DEF Base, TakeGet, Placed, rowVars, stored, pageVars
<1>3. Posted'
  BY DEF Base, TakeGet, Typed, Posted, PageState, FileState, rowVars, stored, pageVars
<1>4. Alone'
  BY AloneKept DEF Base, TakeGet, Moving, Busy, IsActive, rowVars
<1> QED
  BY <1>1, <1>2, <1>3, <1>4 DEF Base

LEMMA TakeGetKeeps ==
  ASSUME Inv, Base', NEW p \in Pages, TakeGet(p)
  PROVE  Inv'
<1>1. OneMoves'
  BY DEF Inv, Base, TakeGet, Typed, Posted, Placed, OneMoves, Moving, Busy, PageState, FileState,
         rowVars, stored, pageVars
<1>2. \A s \in Runs : Built(s)'
  BY BuiltFrame DEF Inv, Base, TakeGet, StopSeen, rowVars, stored, pageVars
<1>3. Finished'
  BY WholeKept DEF Inv, Base, TakeGet, Typed, Finished, AllWhole, OneMoves, Posted, Moving, Busy,
         rowVars, stored, pageVars
<1>4. Taken'
  <2>1. \A q \in Pages : page'[q].pc # "idle" => page[q].pc # "idle"
    BY DEF Inv, Base, Typed, PageState, TakeGet
  <2>2. \A q \in Pages : Takes(q)' => Takes(q) /\ page'[q].of = page[q].of
    BY DEF Inv, Base, Typed, PageState, TakeGet, Takes
  <2>3. page[p].pc = "get" /\ page'[p].got = object[page[p].of].vault /\ page'[p].pc = "drop"
    BY DEF Inv, Base, Typed, PageState, TakeGet
  <2>4. \A q \in Pages \ {p} : page'[q] = page[q]
    BY DEF Inv, Base, Typed, TakeGet
  <2>5. UNCHANGED <<status, artifact, object, handed>>
    BY DEF TakeGet, rowVars, stored
  <2>6. /\ \A q \in Pages : page'[q].pc = "get" => object'[page'[q].of].vault = artifact'[page'[q].of].try
        /\ \A q \in Pages : page'[q].pc = "drop" => page'[q].got = artifact'[page'[q].of].try
    BY <2>2, <2>3, <2>4, <2>5 DEF Inv, Taken, Takes
  <2> QED
    BY <2>1, <2>2, <2>5, <2>6 DEF Inv, Taken
<1>5. Kept'
  BY DEF Inv, Base, TakeGet, Typed, PageState, FileState, Taken, Kept, Asks, Offered, rowVars, stored,
         pageVars
<1>6. Stopping'
  BY DEF Inv, Base, TakeGet, Stopping, rowVars, stored, pageVars
<1> QED
  BY <1>1, <1>2, <1>3, <1>4, <1>5, <1>6 DEF Inv

LEMMA TakeFailsBase ==
  ASSUME Base, NEW p \in Pages, TakeFails(p)
  PROVE  Base'
<1>1. Typed'
  <2>1. page[p] \in PageState
    BY DEF Base, Typed
  <2>2. [page[p] EXCEPT !.pc = "next", !.got = 0, !.failed = TRUE] \in PageState
    BY <2>1 DEF PageState
  <2>3. page' \in [Pages -> PageState]
    BY <2>2 DEF Base, Typed, TakeFails
  <2>4. faults' \in 0..MaxFaults
    BY BoundsAssumption DEF Base, Typed, TakeFails
  <2> QED
    BY <2>3, <2>4 DEF Base, Typed, TakeFails, rowVars, stored
<1>2. \A s \in Runs : Placed(s)'
  BY DEF Base, TakeFails, Placed, rowVars, stored, pageVars
<1>3. Posted'
  BY DEF Base, TakeFails, Typed, Posted, PageState, rowVars, stored, pageVars
<1>4. Alone'
  BY AloneKept DEF Base, TakeFails, Moving, Busy, IsActive, rowVars
<1> QED
  BY <1>1, <1>2, <1>3, <1>4 DEF Base

LEMMA TakeFailsKeeps ==
  ASSUME Inv, Base', NEW p \in Pages, TakeFails(p)
  PROVE  Inv'
<1>1. OneMoves'
  BY DEF Inv, Base, TakeFails, Typed, Posted, Placed, OneMoves, Moving, Busy, PageState, rowVars,
         stored, pageVars
<1>2. \A s \in Runs : Built(s)'
  BY BuiltFrame DEF Inv, Base, TakeFails, StopSeen, rowVars, stored, pageVars
<1>3. Finished'
  BY WholeKept DEF Inv, Base, TakeFails, Typed, Finished, AllWhole, OneMoves, Posted, Moving, Busy,
         rowVars, stored, pageVars
<1>4. Taken'
  <2>1. \A q \in Pages : Takes(q)' => Takes(q) /\ page'[q] = page[q]
    BY DEF Inv, Base, Typed, PageState, TakeFails, Takes
  <2>2. \A q \in Pages : page'[q].pc # "idle" => page[q].pc # "idle"
    BY DEF Inv, Base, Typed, PageState, TakeFails
  <2>3. UNCHANGED <<status, artifact, object, handed>>
    BY DEF TakeFails, rowVars, stored
  <2>4. /\ \A q \in Pages : page'[q].pc = "get" => object'[page'[q].of].vault = artifact'[page'[q].of].try
        /\ \A q \in Pages : page'[q].pc = "drop" => page'[q].got = artifact'[page'[q].of].try
    BY <2>1, <2>3 DEF Inv, Taken, Takes
  <2> QED
    BY <2>1, <2>2, <2>3, <2>4 DEF Inv, Taken
<1>5. Kept'
  BY DEF Inv, Base, TakeFails, Typed, PageState, Taken, Kept, Asks, Offered, rowVars, stored, pageVars
<1>6. Stopping'
  BY DEF Inv, Base, TakeFails, Stopping, rowVars, stored, pageVars
<1> QED
  BY <1>1, <1>2, <1>3, <1>4, <1>5, <1>6 DEF Inv

LEMMA PageDoneBase ==
  ASSUME Base, NEW p \in Pages, PageDone(p)
  PROVE  Base'
<1>1. Typed'
  BY BoundsAssumption DEF Base, PageDone, Typed, PageState, Forgets, NoPage, rowVars, stored,
         pageVars
<1>2. \A s \in Runs : Placed(s)'
  BY DEF Base, PageDone, Placed, rowVars, stored, pageVars
<1>3. Posted'
  BY DEF Base, PageDone, Typed, Posted, PageState, Forgets, NoPage, rowVars, stored, pageVars
<1>4. Alone'
  BY AloneKept DEF Base, PageDone, Moving, Busy, IsActive, rowVars
<1> QED
  BY <1>1, <1>2, <1>3, <1>4 DEF Base

LEMMA PageDoneKeeps ==
  ASSUME Inv, Base', NEW p \in Pages, PageDone(p)
  PROVE  Inv'
<1>1. OneMoves'
  BY DEF Inv, Base, PageDone, Typed, Posted, Placed, OneMoves, Moving, Busy, PageState, Forgets,
         NoPage, rowVars, stored, pageVars
<1>2. \A s \in Runs : Built(s)'
  BY BuiltFrame DEF Inv, Base, PageDone, StopSeen, Forgets, NoPage, rowVars, stored, pageVars
<1>3. Finished'
  BY WholeKept DEF Inv, Base, PageDone, Typed, Finished, AllWhole, OneMoves, Posted, Moving, Busy,
         Forgets, NoPage, rowVars, stored, pageVars
<1>4. Taken'
  BY DEF Inv, Base, PageDone, Typed, PageState, Taken, Takes, Forgets, NoPage, rowVars, stored,
         pageVars
<1>5. Kept'
  BY DEF Inv, Base, PageDone, Typed, PageState, Taken, Kept, Asks, Offered, Forgets, NoPage, rowVars,
         stored, pageVars
<1>6. Stopping'
  BY DEF Inv, Base, PageDone, Stopping, Forgets, NoPage, rowVars, stored, pageVars
<1> QED
  BY <1>1, <1>2, <1>3, <1>4, <1>5, <1>6 DEF Inv

LEMMA PageClosesBase ==
  ASSUME Base, NEW p \in Pages, PageCloses(p)
  PROVE  Base'
<1>1. Typed'
  BY BoundsAssumption DEF Base, PageCloses, Typed, PageState, NoPage, rowVars, stored, pageVars
<1>2. \A s \in Runs : Placed(s)'
  BY DEF Base, PageCloses, Placed, rowVars, stored, pageVars
<1>3. Posted'
  BY DEF Base, PageCloses, Typed, Posted, PageState, NoPage, rowVars, stored, pageVars
<1>4. Alone'
  BY AloneKept DEF Base, PageCloses, Moving, Busy, IsActive, rowVars
<1> QED
  BY <1>1, <1>2, <1>3, <1>4 DEF Base

LEMMA PageClosesKeeps ==
  ASSUME Inv, Base', NEW p \in Pages, PageCloses(p)
  PROVE  Inv'
<1>1. OneMoves'
  BY DEF Inv, Base, PageCloses, Typed, Posted, Placed, OneMoves, Moving, Busy, PageState, NoPage,
         rowVars, stored, pageVars
<1>2. \A s \in Runs : Built(s)'
  BY BuiltFrame DEF Inv, Base, PageCloses, StopSeen, NoPage, rowVars, stored, pageVars
<1>3. Finished'
  BY WholeKept DEF Inv, Base, PageCloses, Typed, Finished, AllWhole, OneMoves, Posted, Moving, Busy,
         NoPage, rowVars, stored, pageVars
<1>4. Taken'
  BY DEF Inv, Base, PageCloses, Typed, PageState, Taken, Takes, NoPage, rowVars, stored, pageVars
<1>5. Kept'
  BY DEF Inv, Base, PageCloses, Typed, PageState, Taken, Kept, Asks, Offered, NoPage, rowVars, stored,
         pageVars
<1>6. Stopping'
  BY DEF Inv, Base, PageCloses, Stopping, NoPage, rowVars, stored, pageVars
<1> QED
  BY <1>1, <1>2, <1>3, <1>4, <1>5, <1>6 DEF Inv

\* A page that clears the row of a vault leaves whole what was.
LEMMA ClaimRow ==
  ASSUME Inv, NEW p \in Pages, TakeClaim(p), NEW v \in Variants, v = page[p].of, MayTake(v)
  PROVE  /\ artifact' = [artifact EXCEPT ![v].vault = FALSE]
         /\ artifact' \in [Variants -> RowState]
         /\ \A w \in Variants : artifact'[w].try = artifact[w].try
         /\ \A w \in Variants : artifact'[w].vault <=> artifact[w].vault /\ w # v
         /\ \A w \in Variants : Whole(w) => Whole(w)'
         /\ status = "ready"
         /\ page' = [page EXCEPT ![p].pc = "get"]
<1>1. artifact' = [artifact EXCEPT ![v].vault = FALSE] /\ page' = [page EXCEPT ![p].pc = "get"]
  BY DEF TakeClaim
<1>2. artifact \in [Variants -> RowState]
  BY DEF Inv, Base, Typed
<1>3. [artifact[v] EXCEPT !.vault = FALSE] \in RowState
  BY <1>2 DEF RowState
<1>4. artifact' \in [Variants -> RowState]
  BY <1>1, <1>2, <1>3
<1>5. ASSUME NEW w \in Variants
      PROVE  artifact'[w].try = artifact[w].try /\ (artifact'[w].vault <=> artifact[w].vault /\ w # v)
  BY <1>1, <1>2 DEF RowState
<1>6. \A w \in Variants : Whole(w) => Whole(w)'
  BY <1>5 DEF TakeClaim, Whole
<1>7. status = "ready"
  BY DEF Inv, Base, Taken, TakeClaim
<1> QED
  BY <1>1, <1>4, <1>5, <1>6, <1>7

LEMMA TakeClaimBase ==
  ASSUME Base, NEW p \in Pages, TakeClaim(p)
  PROVE  Base'
<1>1. PICK v \in Variants : v = page[p].of
  BY DEF Base, Typed, TakeClaim
<1>2. artifact' \in [Variants -> RowState]
  <2>1. artifact \in [Variants -> RowState] /\ [artifact[v] EXCEPT !.vault = FALSE] \in RowState
    BY DEF Base, Typed, RowState
  <2>2. artifact' = artifact \/ artifact' = [artifact EXCEPT ![v] = [artifact[v] EXCEPT !.vault = FALSE]]
    BY <1>1 DEF TakeClaim
  <2> QED
    BY <2>1, <2>2
<1>3. PICK pc \in {"get", "next"} : page' = [page EXCEPT ![p] = [page[p] EXCEPT !.pc = pc]]
  BY DEF TakeClaim
<1>4. [page[p] EXCEPT !.pc = pc] \in PageState /\ [page[p] EXCEPT !.pc = pc].of = page[p].of
  BY DEF Base, Typed, PageState
<1>5. Typed'
  BY <1>1, <1>2, <1>3, <1>4 DEF Base, TakeClaim, Typed, rowVars
<1>6. (\A s \in Runs : Placed(s)') /\ Posted'
  BY DEF Base, TakeClaim, Placed, Posted, rowVars
<1>7. Alone'
  BY AloneKept DEF Base, TakeClaim, Moving, Busy, IsActive, rowVars
<1> QED
  BY <1>5, <1>6, <1>7 DEF Base

LEMMA TakeClaimKeeps ==
  ASSUME Inv, Base', NEW p \in Pages, TakeClaim(p)
  PROVE  Inv'
<1>1. PICK v \in Variants : v = page[p].of
  BY DEF Inv, Base, Typed, TakeClaim
<1>2. CASE ~MayTake(v)
  <2>1. page' = [page EXCEPT ![p].pc = "next"] /\ artifact' = artifact
    BY <1>1, <1>2 DEF TakeClaim
  <2>2. OneMoves' /\ Stopping'
    BY DEF Inv, TakeClaim, OneMoves, Stopping, Moving, Busy, rowVars
  <2>3. \A s \in Runs : Built(s)'
    BY <2>1, BuiltFrame DEF Inv, Base, TakeClaim, StopSeen, rowVars
  <2>4. Finished'
    BY <2>1, WholeKept DEF Inv, Base, TakeClaim, Finished, AllWhole, Moving, Busy, rowVars
  <2>5. Taken'
    BY <2>1 DEF Inv, Base, Typed, PageState, TakeClaim, Taken, Takes, rowVars
  <2>6. Kept'
    BY <2>1, <1>1, <1>2 DEF Inv, Base, Typed, PageState, TakeClaim, Taken, Kept, Asks, Offered, MayTake, rowVars
  <2> QED
    BY <2>2, <2>3, <2>4, <2>5, <2>6 DEF Inv
<1>3. CASE MayTake(v)
  <2>1. /\ artifact' \in [Variants -> RowState]
        /\ \A w \in Variants : artifact'[w].try = artifact[w].try
        /\ \A w \in Variants : artifact'[w].vault <=> artifact[w].vault /\ w # v
        /\ \A w \in Variants : Whole(w) => Whole(w)'
        /\ status = "ready"
        /\ page' = [page EXCEPT ![p].pc = "get"]
    BY <1>1, <1>3, ClaimRow
  <2>2. OneMoves' /\ Stopping'
    BY DEF Inv, TakeClaim, OneMoves, Stopping, Moving, Busy, rowVars
  <2>3. \A s \in Runs : Built(s)'
    <3>1. run' = run /\ status' = status /\ cancelRequested' = cancelRequested /\ object' = object
      BY DEF TakeClaim, rowVars
    <3> QED
      BY <2>1, <3>1, BuiltKept DEF Inv, Base, StopSeen
  <2>4. Finished'
    BY <2>1 DEF Inv, Base, TakeClaim, Finished, AllWhole, Moving, Busy, rowVars
  <2>5. Taken'
    <3>1. page'[p].pc = "get" /\ page'[p].of = v /\ page[p].pc = "claim"
      BY <1>1, <2>1 DEF Inv, Base, Typed, PageState, TakeClaim
    <3>2. \A q \in Pages \ {p} : page'[q] = page[q]
      BY <2>1 DEF Inv, Base, Typed
    <3>3. artifact[v].vault
      BY <1>3 DEF MayTake
    <3>4. handed[v].times = 0 /\ \A q \in Pages : Takes(q) => page[q].of # v
      BY <3>3 DEF Inv, Base, Typed, HandState, Taken
    <3>5. object[v].vault = artifact[v].try
      BY <2>1, <3>3 DEF Inv, Base, Finished, AllWhole, Whole
    <3>0. \A q \in Pages : Takes(q) => page[q].of \in Variants
      BY DEF Inv, Base, Typed, Takes
    <3>6. \A q \in Pages : page'[q].pc # "idle" => status' = "ready"
      BY <2>1, <3>1, <3>2 DEF Inv, Base, Taken, TakeClaim, rowVars
    <3>7. \A q1, q2 \in Pages : Takes(q1)' /\ Takes(q2)' /\ page'[q1].of = page'[q2].of => q1 = q2
      BY <3>1, <3>2, <3>4 DEF Inv, Base, Taken, Takes
    <3>8. \A q \in Pages : Takes(q)' => ~artifact'[page'[q].of].vault /\ handed'[page'[q].of].times = 0
      BY <2>1, <3>0, <3>1, <3>2, <3>4 DEF Inv, Taken, Takes, TakeClaim
    <3>9. /\ \A q \in Pages : page'[q].pc = "get" => object'[page'[q].of].vault = artifact'[page'[q].of].try
          /\ \A q \in Pages : page'[q].pc = "drop" => page'[q].got = artifact'[page'[q].of].try
      BY <2>1, <3>0, <3>1, <3>2, <3>5 DEF Inv, Taken, Takes, TakeClaim
    <3>10. \A w \in Variants : handed'[w].times > 0 =>
             /\ status' = "ready" /\ ~artifact'[w].vault
             /\ handed'[w].times = 1 /\ handed'[w].try = artifact'[w].try
      BY <2>1 DEF Inv, Base, Taken, TakeClaim, rowVars
    <3> QED
      BY <3>6, <3>7, <3>8, <3>9, <3>10 DEF Taken
  <2>6. Kept'
    <3>1. Offered' = Offered \ {v}
      BY <2>1 DEF Offered
    <3>2. page'[p].pc = "get" /\ page'[p].todo = page[p].todo /\ page'[p].failed = page[p].failed
      BY <2>1 DEF Inv, Base, Typed, PageState
    <3>3. \A q \in Pages \ {p} : page'[q] = page[q]
      BY <2>1 DEF Inv, Base, Typed
    <3>4. Asks(p) = page[p].todo \cup {v} /\ page[p].pc = "claim"
      BY <1>1 DEF Asks, TakeClaim
    <3>5. page'[p].failed \/ Offered' \subseteq Asks(p)'
      BY <3>1, <3>2, <3>4 DEF Inv, Base, Kept, Asks
    <3>6. \A q \in Pages \ {p} : page'[q].pc # "idle" /\ ~page'[q].failed => Offered' \subseteq Asks(q)'
      BY <3>1, <3>3 DEF Inv, Base, Kept, Asks
    <3> QED
      BY <3>1, <3>5, <3>6 DEF Inv, Base, Kept, TakeClaim, rowVars
  <2> QED
    BY <2>2, <2>3, <2>4, <2>5, <2>6 DEF Inv
<1> QED
  BY <1>2, <1>3

LEMMA TakeDropBase ==
  ASSUME Base, NEW p \in Pages, TakeDrop(p)
  PROVE  Base'
<1>1. PICK v \in Variants : v = page[p].of
  BY DEF Base, Typed, TakeDrop
<1>2. object' \in [Variants -> FileState]
  <2>1. [object[v] EXCEPT !.vault = 0] \in FileState
    BY DEF Base, Typed, FileState
  <2>2. object' = [object EXCEPT ![v] = [object[v] EXCEPT !.vault = 0]]
    BY <1>1 DEF TakeDrop
  <2> QED
    BY <2>1, <2>2 DEF Base, Typed
<1>3. handed' \in [Variants -> HandState]
  <2>1. PICK n \in Nat : n = handed[v].times
    BY DEF Base, Typed, HandState
  <2>2. page[p].got \in Nat
    BY DEF Base, Typed, PageState
  <2>3. [times |-> n + 1, try |-> page[p].got] \in HandState
    BY <2>2 DEF HandState
  <2>4. handed' = [handed EXCEPT ![v] = [times |-> n + 1, try |-> page[p].got]]
    BY <1>1, <2>1 DEF TakeDrop
  <2> QED
    BY <2>3, <2>4 DEF Base, Typed
<1>4. /\ page' = [page EXCEPT ![p] = [page[p] EXCEPT !.pc = "next", !.got = 0]]
      /\ [page[p] EXCEPT !.pc = "next", !.got = 0] \in PageState
      /\ [page[p] EXCEPT !.pc = "next", !.got = 0].pc = "next"
  BY DEF Base, Typed, PageState, TakeDrop
<1>5. Typed'
  BY <1>2, <1>3, <1>4 DEF Base, TakeDrop, Typed, rowVars
<1>6. (\A s \in Runs : Placed(s)') /\ Posted'
  BY DEF Base, TakeDrop, Placed, Posted, rowVars
<1>7. Alone'
  BY AloneKept DEF Base, TakeDrop, Moving, Busy, IsActive, rowVars
<1> QED
  BY <1>5, <1>6, <1>7 DEF Base

LEMMA TakeDropKeeps ==
  ASSUME Inv, Base', NEW p \in Pages, TakeDrop(p)
  PROVE  Inv'
<1>1. PICK v \in Variants : v = page[p].of
  BY DEF Inv, Base, Typed, TakeDrop
<1>2. /\ status = "ready" /\ ~artifact[v].vault /\ handed[v].times = 0
      /\ page[p].got = artifact[v].try /\ page[p].pc = "drop"
      /\ \A q \in Pages \ {p} : Takes(q) => page[q].of # v
  BY <1>1 DEF Inv, Base, Taken, Takes, TakeDrop
<1>3. /\ object' = [object EXCEPT ![v].vault = 0]
      /\ handed' = [handed EXCEPT ![v] = [times |-> handed[v].times + 1, try |-> page[p].got]]
      /\ page' = [page EXCEPT ![p].pc = "next", ![p].got = 0]
      /\ artifact' = artifact /\ run' = run
      /\ status' = status /\ cancelRequested' = cancelRequested
  BY <1>1 DEF TakeDrop, rowVars
<1>4. /\ object' \in [Variants -> FileState]
      /\ \A w \in Variants : object'[w].file = object[w].file /\ object'[w].report = object[w].report
      /\ \A w \in Variants \ {v} : object'[w] = object[w]
  <2>1. object \in [Variants -> FileState]
    BY DEF Inv, Base, Typed
  <2>2. [object[v] EXCEPT !.vault = 0] \in FileState
    BY <2>1 DEF FileState
  <2> QED
    BY <1>3, <2>1, <2>2 DEF FileState
<1>5. /\ handed' \in [Variants -> HandState]
      /\ handed'[v].times = 1 /\ handed'[v].try = artifact[v].try
      /\ \A w \in Variants \ {v} : handed'[w] = handed[w]
  <2>1. page[p].got \in Nat
    BY DEF Inv, Base, Typed, PageState
  <2>2. [times |-> handed[v].times + 1, try |-> page[p].got] = [times |-> 1, try |-> page[p].got]
    BY <1>2
  <2>3. [times |-> 1, try |-> page[p].got] \in HandState
    BY <2>1 DEF HandState
  <2> QED
    BY <1>2, <1>3, <2>2, <2>3 DEF Inv, Base, Typed
<1>6. /\ page' \in [Pages -> PageState]
      /\ page'[p].pc = "next" /\ page'[p].todo = page[p].todo /\ page'[p].failed = page[p].failed
      /\ \A q \in Pages \ {p} : page'[q] = page[q]
  <2>1. page \in [Pages -> PageState]
    BY DEF Inv, Base, Typed
  <2>2. [page[p] EXCEPT !.pc = "next", !.got = 0] \in PageState
    BY <2>1 DEF PageState
  <2> QED
    BY <1>3, <2>1, <2>2 DEF PageState
<1>7. \A w \in Variants : Whole(w) => Whole(w)'
  BY <1>2, <1>3, <1>4 DEF Whole
<1>8. OneMoves' /\ Stopping'
  BY DEF Inv, TakeDrop, OneMoves, Stopping, Moving, Busy, rowVars
<1>9. \A s \in Runs : Built(s)'
  <2>1. \A s \in Runs : Moving(s) => run[s].step \notin Building
    BY <1>2 DEF Inv, Base, Finished, Placed
  <2> QED
    BY <1>3, <1>7, <2>1, BuiltKept DEF Inv, Base, StopSeen
<1>10. Finished'
  BY <1>3, <1>7 DEF Inv, Base, Finished, AllWhole, Moving, Busy
<1>11. Taken'
  <2>1. \A q \in Pages : Takes(q)' => q # p /\ Takes(q) /\ page'[q] = page[q] /\ page[q].of # v
    BY <1>2, <1>6 DEF Takes
  <2>2. ASSUME NEW q \in Pages, Takes(q)'
        PROVE  /\ ~artifact'[page'[q].of].vault /\ handed'[page'[q].of].times = 0
               /\ page'[q].pc = "get" => object'[page'[q].of].vault = artifact'[page'[q].of].try
               /\ page'[q].pc = "drop" => page'[q].got = artifact'[page'[q].of].try
    <3>1. q # p /\ Takes(q) /\ page'[q] = page[q] /\ page[q].of # v
      BY <2>1, <2>2
    <3>2. page[q].of \in Variants \ {v}
      BY <3>1 DEF Inv, Base, Typed, Takes
    <3>3. object'[page[q].of] = object[page[q].of] /\ handed'[page[q].of] = handed[page[q].of]
      BY <3>2, <1>4, <1>5
    <3> QED
      BY <1>3, <3>1, <3>3 DEF Inv, Base, Taken
  <2>3. /\ \A q \in Pages : page'[q].pc = "get" => object'[page'[q].of].vault = artifact'[page'[q].of].try
        /\ \A q \in Pages : page'[q].pc = "drop" => page'[q].got = artifact'[page'[q].of].try
    BY <2>2 DEF Takes
  <2>4. \A w \in Variants : handed'[w].times > 0 =>
             /\ status' = "ready" /\ ~artifact'[w].vault
             /\ handed'[w].times = 1 /\ handed'[w].try = artifact'[w].try
    BY <1>2, <1>3, <1>5 DEF Inv, Base, Taken
  <2>5. \A q1, q2 \in Pages : Takes(q1)' /\ Takes(q2)' /\ page'[q1].of = page'[q2].of => q1 = q2
    BY <2>1 DEF Inv, Base, Taken
  <2> QED
    BY <1>2, <1>3, <1>6, <2>2, <2>3, <2>4, <2>5 DEF Taken
<1>12. Kept'
  <2>1. Offered' = Offered /\ key' = key
    BY <1>3 DEF Offered, TakeDrop
  <2>2. Asks(p)' = Asks(p)
    BY <1>2, <1>6 DEF Asks
  <2>3. \A q \in Pages \ {p} : Asks(q)' = Asks(q)
    BY <1>6 DEF Asks
  <2> QED
    BY <1>2, <1>3, <1>6, <2>1, <2>2, <2>3 DEF Inv, Base, Kept
<1> QED
  BY <1>8, <1>9, <1>10, <1>11, <1>12 DEF Inv

-----------------------------------------------------------------------------
(* The steps of a run. *)

\* What a step of run r may have written, whether or not it came to its end.
Effect(r) ==
  /\ quiet' \in {quiet, FALSE}
  /\ \/ UNCHANGED <<status, artifact, object, storedSince>>
     \/ run[r].step = "running" /\ Running /\ UNCHANGED <<artifact, object, storedSince>>
     \/ /\ run[r].step \in {"file", "report", "vault"} /\ object' = Put(r)
        /\ UNCHANGED <<status, artifact, storedSince>>
     \/ run[r].step = "row" /\ Upserted(r) /\ UNCHANGED <<status, object>>
     \/ /\ run[r].step \in {"ready", "cancelled", "failed"}
        /\ status' = Closed(run[r].step) /\ UNCHANGED <<artifact, object, storedSince>>

LEMMA PutStores ==
  ASSUME Typed, NEW r \in Runs, NEW v \in Variants, v = run[r].at, NEW o, o = run[r].step,
         o \in {"file", "report", "vault"}, object' = Put(r)
  PROVE  /\ object' \in [Variants -> FileState]
         /\ \A w \in Variants \ {v} : object'[w] = object[w]
         /\ o = "file" => object'[v].file = run[r].try
         /\ o = "report" => object'[v].file = object[v].file /\ object'[v].report = run[r].try
         /\ o = "vault" => /\ object'[v].file = object[v].file
                           /\ object'[v].report = object[v].report
                           /\ v \in Sealed => object'[v].vault = run[r].try
<1>1. run[r].try \in Nat /\ object[v] \in FileState /\ object \in [Variants -> FileState]
  BY DEF Typed, RunState
<1>2. CASE o = "file"
  <2>1. object' = [object EXCEPT ![v] = [object[v] EXCEPT !.file = run[r].try]]
    BY <1>2 DEF Put
  <2>2. [object[v] EXCEPT !.file = run[r].try] \in FileState
    BY <1>1 DEF FileState
  <2> QED
    BY <1>1, <1>2, <2>1, <2>2 DEF FileState
<1>3. CASE o = "report"
  <2>1. object' = [object EXCEPT ![v] = [object[v] EXCEPT !.report = run[r].try]]
    BY <1>3 DEF Put
  <2>2. [object[v] EXCEPT !.report = run[r].try] \in FileState
    BY <1>1 DEF FileState
  <2> QED
    BY <1>1, <1>3, <2>1, <2>2 DEF FileState
<1>4. CASE o = "vault" /\ v \in Sealed
  <2>1. object' = [object EXCEPT ![v] = [object[v] EXCEPT !.vault = run[r].try]]
    BY <1>4 DEF Put
  <2>2. [object[v] EXCEPT !.vault = run[r].try] \in FileState
    BY <1>1 DEF FileState
  <2> QED
    BY <1>1, <1>4, <2>1, <2>2 DEF FileState
<1>5. CASE o = "vault" /\ v \notin Sealed
  <2>1. object' = [object EXCEPT ![v] = [object[v] EXCEPT !.vault = object[v].vault]]
    BY <1>5 DEF Put
  <2>2. [object[v] EXCEPT !.vault = object[v].vault] = object[v]
    BY <1>1 DEF FileState
  <2>3. object' = object
    BY <1>1, <2>1, <2>2
  <2> QED
    BY <1>1, <1>5, <2>3
<1> QED
  BY <1>2, <1>3, <1>4, <1>5

LEMMA UpsertStores ==
  ASSUME Typed, NEW r \in Runs, NEW v \in Variants, v = run[r].at, Upserted(r)
  PROVE  /\ artifact' \in [Variants -> RowState]
         /\ \A w \in Variants \ {v} : artifact'[w] = artifact[w]
         /\ artifact'[v].try = run[r].try
         /\ artifact'[v].vault => v \in Sealed
         /\ storedSince' \in Nat
         /\ cancelRequested => storedSince' = storedSince + 1
         /\ ~cancelRequested => storedSince' = storedSince
<1>1. run[r].try \in Nat /\ artifact \in [Variants -> RowState]
  BY DEF Typed, RunState
<1>2. PICK b \in BOOLEAN : b <=> v \in Sealed
  OBVIOUS
<1>3. artifact' = [artifact EXCEPT ![v] = [try |-> run[r].try, vault |-> b]]
  <2>1. (v \in Sealed) = b
    BY <1>2
  <2>2. artifact' = [artifact EXCEPT ![v] = [try |-> run[r].try, vault |-> v \in Sealed]]
    BY DEF Upserted
  <2> QED
    BY <2>1, <2>2, Zenon
<1>4. [try |-> run[r].try, vault |-> b] \in RowState
  BY <1>1, <1>2 DEF RowState
<1>5. /\ artifact' \in [Variants -> RowState]
      /\ \A w \in Variants \ {v} : artifact'[w] = artifact[w]
      /\ artifact'[v] = [try |-> run[r].try, vault |-> b]
  BY <1>1, <1>3, <1>4
<1>6. artifact'[v].try = run[r].try /\ artifact'[v].vault = b
  BY <1>5
<1>7. storedSince \in Nat /\ storedSince' = IF cancelRequested THEN storedSince + 1 ELSE storedSince
  BY DEF Upserted, Typed
<1>8. /\ storedSince' \in Nat
      /\ cancelRequested => storedSince' = storedSince + 1
      /\ ~cancelRequested => storedSince' = storedSince
  BY <1>7
<1> QED
  BY <1>2, <1>5, <1>6, <1>8

LEMMA EffectTyped ==
  ASSUME Typed, NEW r \in Runs, Effect(r)
  PROVE  /\ status' \in Statuses /\ (IsActive' => IsActive) /\ quiet' \in BOOLEAN
         /\ artifact' \in [Variants -> RowState]
         /\ object' \in [Variants -> FileState]
         /\ storedSince' \in Nat
<1>1. PICK v \in Variants : v = run[r].at
  BY DEF Typed, RunState
<1>2. CASE run[r].step \in {"file", "report", "vault"} /\ object' = Put(r)
           /\ UNCHANGED <<status, artifact, storedSince>>
  BY <1>1, <1>2, PutStores DEF Typed, Effect, IsActive
<1>3. CASE run[r].step = "row" /\ Upserted(r) /\ UNCHANGED <<status, object>>
  BY <1>1, <1>3, UpsertStores DEF Typed, Effect, IsActive
<1>4. CASE /\ UNCHANGED <<artifact, object, storedSince>>
           /\ \/ status' = status
              \/ Running
              \/ run[r].step \in {"ready", "cancelled", "failed"} /\ status' = Closed(run[r].step)
  BY <1>4 DEF Typed, Effect, Running, Touched, Closed, Statuses, IsActive, Active
<1> QED
  BY <1>2, <1>3, <1>4 DEF Effect

\* Nothing is stored once the export is ready, and before that no page has come.
LEMMA EffectPages ==
  ASSUME Inv, NEW r \in Runs, Moving(r), Effect(r), UNCHANGED <<key, page, handed>>
  PROVE  Taken' /\ Kept'
<1>1. CASE status = "ready"
  <2>1. run[r].step \notin Building /\ run[r].step # "running"
    BY <1>1 DEF Inv, Base, Finished, Placed
  <2>2. UNCHANGED <<status, artifact, object>>
    BY <1>1, <2>1 DEF Effect, Closed, IsActive, Active, Building
  <2> QED
    BY <2>2 DEF Inv, Base, Taken, Takes, Kept, Asks, Offered
<1>2. CASE status # "ready"
  <2>1. /\ \A p \in Pages : page[p].pc = "idle"
        /\ \A v \in Variants : ~(handed[v].times > 0)
        /\ key # "forgotten"
    BY <1>2 DEF Inv, Base, Taken, Kept
  <2> QED
    BY <2>1 DEF Taken, Takes, Kept
<1> QED
  BY <1>1, <1>2

LEMMA EffectFinished ==
  ASSUME Inv, NEW r \in Runs, Moving(r), Effect(r),
         NEW pc, NEW at, NEW step, NEW try, Steps(r, pc, at, step, try), sweep' = sweep,
         run[r].pc \in {"finish", "fail"} => pc \in {"finish", "fail"} \/ (pc = "ended" /\ step = "idle")
  PROVE  Finished'
<1> SUFFICES ASSUME status' = "ready"
             PROVE  AllWhole' /\ \A s \in Runs : Moving(s)' => run'[s].pc \in {"finish", "fail"}
  BY DEF Finished
<1>1. \A s \in Runs \ {r} : ~Moving(s)'
  BY StepsAlone DEF Inv, Base
<1>2. CASE status = "ready"
  <2>1. run[r].pc \in {"finish", "fail"} /\ run[r].step \notin Building
    BY <1>2 DEF Inv, Base, Finished, Placed
  <2>2. UNCHANGED <<artifact, object>>
    BY <2>1 DEF Effect, Building
  <2>3. AllWhole'
    BY <1>2, <2>2, WholeKept DEF Inv, Base, Finished, AllWhole
  <2> QED
    BY <1>1, <2>1, <2>3 DEF Steps, Moving, Busy
<1>3. CASE status # "ready"
  <2>1. run[r].step = "ready" /\ UNCHANGED <<artifact, object>> /\ IsActive
    BY <1>3 DEF Effect, Running, Closed
  <2>2. AllWhole /\ run[r].pc = "finish"
    BY <2>1 DEF Inv, Base, Built, Placed, IsActive, Active
  <2>3. AllWhole'
    BY <2>1, <2>2, WholeKept DEF AllWhole
  <2> QED
    BY <1>1, <2>2, <2>3 DEF Steps, Moving, Busy
<1> QED
  BY <1>2, <1>3

LEMMA EffectStopping ==
  ASSUME Inv, NEW r \in Runs, Moving(r), Effect(r), cancelRequested' = cancelRequested,
         NEW pc, NEW at, NEW step, NEW try, Steps(r, pc, at, step, try), sweep' = sweep,
         step \in Building => storedSince' = 0
  PROVE  Stopping'
<1>1. \A s \in Runs \ {r} : ~Moving(s)'
  BY StepsAlone DEF Inv, Base
<1>2. \A s \in Runs \ {r} : run'[s].step \notin Building
  BY <1>1 DEF Moving, Busy, Building
<1>3. (~cancelRequested' => storedSince' = 0) /\ storedSince' <= 1
  <2>1. CASE storedSince' = storedSince
    BY <2>1 DEF Inv, Base, Stopping
  <2>2. CASE run[r].step = "row" /\ Upserted(r)
    <3>1. storedSince = 0
      BY <2>2 DEF Inv, Base, Stopping, Building
    <3> QED
      BY <2>2, <3>1 DEF Upserted
  <2> QED
    BY <2>1, <2>2 DEF Effect
<1> QED
  BY <1>2, <1>3 DEF Stopping, Steps

\* The run of a step that is taken up or executed moves.
LEMMA BusyMoves ==
  ASSUME Base, NEW r \in Runs
  PROVE  /\ \A pc \in {"start", "variant", "finish", "fail"} :
              MayBegin(r, pc) => Moving(r) /\ run[r].pc = pc /\ run[r].step = "idle"
         /\ Busy(r) => Moving(r) /\ run[r].pc \in {"start", "variant", "finish", "fail"}
<1>1. run[r] \in RunState /\ Placed(r)
  BY DEF Base, Typed
<1> QED
  BY <1>1 DEF MayBegin, Moving, Busy, Placed, RunState

\* A step of a run that moves keeps both layers, if what it leaves of that run is as its
\* place says.
LEMMA RunKeeps ==
  ASSUME Base, NEW r \in Runs, Moving(r), Effect(r),
         UNCHANGED <<runId, cancelRequested, recoveries, post, stop, sweep, key, page, handed, strays>>,
         attempts' \in [Variants -> Nat], faults' \in 0..MaxFaults,
         NEW pc, NEW at, NEW step, NEW try, Steps(r, pc, at, step, try),
         step = "running" => pc = "start",
         step \in Building => pc = "variant",
         step \in {"ready", "cancelled"} => pc = "finish",
         step = "failed" => pc = "fail",
         pc \in {"none", "ended"} => step = "idle",
         pc \in {"none", "start"} => at = 1,
         run[r].pc \in {"finish", "fail"} => pc \in {"finish", "fail"} \/ (pc = "ended" /\ step = "idle"),
         Inv => Built(r)' /\ (step \in Building => storedSince' = 0)
  PROVE  Base' /\ (Inv => Inv')
<1>1. Typed'
  BY EffectTyped DEF Base, Typed, Steps
<1>2. \A s \in Runs : Placed(s)'
  BY StepsPlaced DEF Base
<1>3. Posted'
  BY StepsPosted DEF Base
<1>4. Alone'
  <2>1. \A s \in Runs : Moving(s)' => Moving(s)
    BY DEF Steps, Moving, Busy
  <2>2. IsActive' => IsActive
    BY EffectTyped DEF Base
  <2>3. quiet' => quiet
    BY Zenon DEF Effect
  <2> QED
    BY <2>1, <2>2, <2>3, AloneKept DEF Base
<1>5. Base'
  BY <1>1, <1>2, <1>3, <1>4 DEF Base
<1>6. ASSUME Inv
      PROVE  Inv'
  <2>1. OneMoves' /\ \A s \in Runs \ {r} : ~Moving(s)'
    BY <1>6, StepsAlone DEF Inv, Base
  <2>2. \A s \in Runs : Built(s)'
    BY <1>6, <2>1, StepsBuilt
  <2>3. Finished'
    BY <1>6, EffectFinished
  <2>4. Taken' /\ Kept'
    BY <1>6, EffectPages
  <2>5. Stopping'
    BY <1>6, EffectStopping
  <2> QED
    BY <1>5, <2>1, <2>2, <2>3, <2>4, <2>5 DEF Inv
<1> QED
  BY <1>5, <1>6

\* A record that replaces a run's, with its fields.
LEMMA StepsTo ==
  ASSUME Typed, NEW r \in Runs, NEW x \in RunState, run' = [run EXCEPT ![r] = x],
         x.cancelled = run[r].cancelled
  PROVE  Steps(r, x.pc, x.at, x.step, x.try)
BY DEF Typed, Steps

LEMMA StartReadKeeps ==
  ASSUME Base, NEW r \in Runs, StartRead(r)
  PROVE  Base' /\ (Inv => Inv')
<1>1. Moving(r) /\ run[r].pc = "start" /\ run[r].at = 1 /\ run[r] \in RunState
  BY BusyMoves DEF Base, Typed, StartRead, Placed
<1>2. Effect(r) /\ attempts' = attempts
  BY DEF StartRead, Effect, rowVars, stored
<1>3. CASE StopSeen
  <2>1. Steps(r, "finish", 1, "idle", run[r].try)
    BY <1>1, <1>3 DEF Base, Typed, StartRead, MayBegin, RunState, Steps
  <2>2. StopSeen'
    BY <1>3 DEF StartRead, StopSeen, rowVars
  <2>3. Built(r)'
    BY <2>1, <2>2 DEF Steps, Built, Building
  <2> QED
    BY <1>1, <1>2, <2>1, <2>3, RunKeeps DEF Base, Typed, StartRead, rowVars, pageVars, Building
<1>4. CASE ~StopSeen
  <2>1. Steps(r, "start", 1, "running", run[r].try)
    BY <1>1, <1>4 DEF Base, Typed, StartRead, RunState, Steps
  <2>2. Built(r)'
    BY <2>1 DEF Steps, Built, Building
  <2> QED
    BY <1>1, <1>2, <2>1, <2>2, RunKeeps DEF Base, Typed, StartRead, rowVars, pageVars, Building
<1> QED
  BY <1>3, <1>4

LEMMA StartWriteKeeps ==
  ASSUME Base, NEW r \in Runs, StartWrite(r)
  PROVE  Base' /\ (Inv => Inv')
<1>1. Moving(r) /\ run[r].pc = "start" /\ run[r].at = 1 /\ run[r] \in RunState
  BY BusyMoves DEF Base, Typed, StartWrite, Busy, Placed
<1>2. Effect(r) /\ attempts' = attempts
  BY DEF StartWrite, Effect, Running, Touched, stored
<1>3. Steps(r, "variant", 1, "idle", run[r].try)
  BY <1>1 DEF Base, Typed, StartWrite, RunState, Steps
<1>4. Built(r)'
  BY <1>3 DEF Steps, Built, Building, Variants
<1> QED
  BY <1>1, <1>2, <1>3, <1>4, RunKeeps DEF Base, Typed, StartWrite, pageVars, Building

LEMMA VariantReadKeeps ==
  ASSUME Base, NEW r \in Runs, VariantRead(r)
  PROVE  Base' /\ (Inv => Inv')
<1>1. Moving(r) /\ run[r].pc = "variant" /\ run[r].step = "idle" /\ run[r] \in RunState
  BY BusyMoves DEF Base, Typed, VariantRead
<1>2. PICK v \in Variants : v = run[r].at
  BY <1>1 DEF RunState
<1>3. Effect(r) /\ UNCHANGED <<artifact, object, storedSince, cancelRequested, status>>
  BY DEF VariantRead, Effect, rowVars
<1>4. attempts \in [Variants -> Nat] /\ attempts' \in [Variants -> Nat]
  BY <1>2 DEF Base, Typed, VariantRead
<1>5. CASE StopSeen
  <2>1. Steps(r, "finish", v, "idle", run[r].try)
    BY <1>1, <1>2, <1>5 DEF Base, Typed, VariantRead, RunState, Steps
  <2>2. StopSeen'
    BY <1>5, <1>3 DEF StopSeen
  <2>3. Built(r)'
    BY <2>1, <2>2 DEF Steps, Built, Building
  <2> QED
    BY <1>1, <1>3, <1>4, <2>1, <2>3, RunKeeps DEF Base, Typed, VariantRead, rowVars, pageVars, Building
<1>6. CASE ~StopSeen
  <2>1. run' = [run EXCEPT ![r] = [run[r] EXCEPT !.step = "file", !.try = attempts[v] + 1]]
    BY <1>2, <1>6 DEF VariantRead
  <2>2. [run[r] EXCEPT !.step = "file", !.try = attempts[v] + 1] \in RunState
    <3>1. attempts[v] + 1 \in Nat
      BY <1>4
    <3> QED
      BY <1>1, <3>1 DEF RunState
  <2>3. Steps(r, "variant", v, "file", attempts[v] + 1)
    BY <1>1, <1>2, <2>1, <2>2 DEF Base, Typed, RunState, Steps
  <2>4. attempts[v] + 1 # 0
    BY <1>4
  <2>5. Inv => \A w \in Variants : w < v => Whole(w)'
    BY <1>1, <1>2, <1>3, WholeKept DEF Inv, Built
  <2>6. Inv => Built(r)'
    BY <2>3, <2>4, <2>5 DEF Steps, Built, Building
  <2>7. Inv => storedSince' = 0
    BY <1>3, <1>6 DEF Inv, Stopping, StopSeen
  <2> QED
    BY <1>1, <1>3, <1>4, <2>3, <2>6, <2>7, RunKeeps DEF Base, Typed, VariantRead, rowVars, pageVars, Building
<1> QED
  BY <1>5, <1>6

LEMMA VariantPutKeeps ==
  ASSUME Base, NEW r \in Runs, VariantPut(r)
  PROVE  Base' /\ (Inv => Inv')
<1>1. Moving(r) /\ run[r].pc = "variant" /\ run[r] \in RunState /\ run[r].step \in {"file", "report", "vault"}
  BY BusyMoves DEF Base, Typed, VariantPut, Busy, Placed, Building
<1>2. PICK v \in Variants : v = run[r].at
  BY <1>1 DEF RunState
<1>3. PICK o \in {"file", "report", "vault"} : o = run[r].step
  BY <1>1
<1>4. /\ Effect(r) /\ object' = Put(r) /\ attempts' = attempts
      /\ UNCHANGED <<artifact, storedSince, status, cancelRequested>>
  BY DEF VariantPut, Effect, rowVars
<1>5. NextWrite[o] \in {"report", "vault", "row"}
  BY DEF NextWrite
<1>6. Steps(r, "variant", v, NextWrite[o], run[r].try)
  <2>1. run' = [run EXCEPT ![r] = [run[r] EXCEPT !.step = NextWrite[o]]]
    BY <1>3 DEF VariantPut
  <2>2. [run[r] EXCEPT !.step = NextWrite[o]] \in RunState
    BY <1>1, <1>5 DEF RunState
  <2> QED
    BY <1>1, <1>2, <2>1, <2>2 DEF Base, Typed, RunState, Steps
<1>7. /\ \A w \in Variants \ {v} : object'[w] = object[w]
      /\ o = "file" => object'[v].file = run[r].try
      /\ o = "report" => object'[v].file = object[v].file /\ object'[v].report = run[r].try
      /\ o = "vault" => /\ object'[v].file = object[v].file
                        /\ object'[v].report = object[v].report
                        /\ v \in Sealed => object'[v].vault = run[r].try
  BY <1>2, <1>3, <1>4, PutStores DEF Base
<1>8. Inv => \A w \in Variants : w < v => Whole(w)'
  <2> SUFFICES ASSUME Inv, NEW w \in Variants, w < v
               PROVE  Whole(w)'
    OBVIOUS
  <2>1. Whole(w)
    BY <1>1, <1>2 DEF Inv, Built
  <2>2. w # v
    BY DEF Variants
  <2> QED
    BY <1>4, <1>7, <2>1, <2>2 DEF Whole
<1>9. Inv => Built(r)'
  <2> SUFFICES ASSUME Inv
               PROVE  Built(r)'
    OBVIOUS
  <2>1. /\ run[r].try # 0
        /\ o \in {"report", "vault"} => object[v].file = run[r].try
        /\ o = "vault" => object[v].report = run[r].try
    BY <1>1, <1>2, <1>3 DEF Inv, Built, Building
  <2>2. /\ NextWrite["file"] = "report" /\ NextWrite["report"] = "vault" /\ NextWrite["vault"] = "row"
    BY DEF NextWrite
  <2> QED
    BY <1>5, <1>6, <1>7, <1>8, <2>1, <2>2 DEF Steps, Built, Building
<1>10. Inv => storedSince' = 0
  BY <1>1, <1>4 DEF Inv, Stopping, Building
<1> QED
  BY <1>1, <1>4, <1>5, <1>6, <1>9, <1>10, RunKeeps DEF Base, Typed, VariantPut, rowVars, pageVars, Building

\* Once its row is written the variant is whole, and the ones before it still are.
LEMMA RowMakesWhole ==
  ASSUME Inv, NEW r \in Runs, Moving(r), run[r].step = "row", Upserted(r), object' = object,
         NEW v \in Variants, v = run[r].at
  PROVE  \A w \in Variants : w <= v => Whole(w)'
<1> SUFFICES ASSUME NEW w \in Variants, w <= v
             PROVE  Whole(w)'
  OBVIOUS
<1>1. /\ \A u \in Variants \ {v} : artifact'[u] = artifact[u]
      /\ artifact'[v].try = run[r].try
      /\ artifact'[v].vault => v \in Sealed
  BY UpsertStores DEF Inv, Base
<1>2. CASE w = v
  BY <1>1, <1>2 DEF Inv, Base, Built, Building, Whole
<1>3. CASE w # v
  <2>1. run[r].pc = "variant" /\ w < v
    BY <1>3 DEF Inv, Base, Placed, Building, Variants
  <2>2. Whole(w)
    BY <2>1 DEF Inv, Base, Built
  <2> QED
    BY <1>1, <1>3, <2>2 DEF Whole
<1> QED
  BY <1>2, <1>3

LEMMA VariantRowKeeps ==
  ASSUME Base, NEW r \in Runs, VariantRow(r)
  PROVE  Base' /\ (Inv => Inv')
<1>1. Moving(r) /\ run[r].pc = "variant" /\ run[r] \in RunState /\ run[r].step = "row"
  BY BusyMoves DEF Base, Typed, VariantRow, Busy, Placed, Building
<1>2. PICK v \in Variants : v = run[r].at
  BY <1>1 DEF RunState
<1>3. /\ Effect(r) /\ Upserted(r) /\ attempts' = attempts
      /\ UNCHANGED <<object, status, cancelRequested>>
  BY <1>1 DEF VariantRow, Effect, Touched, rowVars
<1>4. Inv => \A w \in Variants : w <= v => Whole(w)'
  BY <1>1, <1>2, <1>3, RowMakesWhole
<1>5. CASE v = Count
  <2>1. Steps(r, "finish", 1, "idle", 0)
    <3>1. run' = [run EXCEPT ![r] = [run[r] EXCEPT !.step = "idle", !.try = 0, !.pc = "finish", !.at = 1]]
      BY <1>1, <1>2, <1>5 DEF VariantRow
    <3>2. 1 \in Variants
      BY BoundsAssumption DEF Variants
    <3>3. [run[r] EXCEPT !.step = "idle", !.try = 0, !.pc = "finish", !.at = 1] \in RunState
      BY <1>1, <3>2 DEF RunState
    <3> QED
      BY <1>1, <3>1, <3>3 DEF Base, Typed, RunState, Steps
  <2>2. Inv => AllWhole'
    BY <1>4, <1>5, BoundsAssumption DEF AllWhole, Variants
  <2>3. Inv => Built(r)'
    BY <2>1, <2>2 DEF Steps, Built, Building
  <2> QED
    BY <1>1, <1>3, <2>1, <2>3, RunKeeps DEF Base, Typed, VariantRow, rowVars, pageVars, Building
<1>6. CASE v # Count
  <2>1. v + 1 \in Variants
    BY <1>6, BoundsAssumption DEF Variants
  <2>2. Steps(r, "variant", v + 1, "idle", 0)
    <3>1. run' = [run EXCEPT ![r] = [run[r] EXCEPT !.step = "idle", !.try = 0, !.pc = "variant", !.at = v + 1]]
      BY <1>1, <1>2, <1>6 DEF VariantRow
    <3>2. [run[r] EXCEPT !.step = "idle", !.try = 0, !.pc = "variant", !.at = v + 1] \in RunState
      BY <1>1, <2>1 DEF RunState
    <3> QED
      BY <1>1, <3>1, <3>2 DEF Base, Typed, RunState, Steps
  <2>3. Inv => \A w \in Variants : w < v + 1 => Whole(w)'
    BY <1>4 DEF Variants
  <2>4. Inv => Built(r)'
    BY <2>2, <2>3 DEF Steps, Built, Building
  <2> QED
    BY <1>1, <1>3, <2>2, <2>4, RunKeeps DEF Base, Typed, VariantRow, rowVars, pageVars, Building
<1> QED
  BY <1>5, <1>6

LEMMA VariantRefusedKeeps ==
  ASSUME Base, NEW r \in Runs, VariantRefused(r)
  PROVE  Base' /\ (Inv => Inv')
<1>1. Moving(r) /\ run[r].pc = "variant" /\ run[r] \in RunState
  BY BusyMoves DEF Base, Typed, VariantRefused, Busy, Placed, Building
<1>2. Effect(r) /\ attempts' = attempts
  BY DEF VariantRefused, Effect, rowVars, stored
<1>3. Steps(r, "fail", run[r].at, "idle", 0)
  BY <1>1 DEF Base, Typed, VariantRefused, AfterRefusal, RunState, Steps
<1>4. Built(r)'
  BY <1>3 DEF Steps, Built, Building
<1> QED
  BY <1>1, <1>2, <1>3, <1>4, RunKeeps DEF Base, Typed, VariantRefused, rowVars, pageVars, Building

LEMMA FinishReadKeeps ==
  ASSUME Base, NEW r \in Runs, FinishRead(r)
  PROVE  Base' /\ (Inv => Inv')
<1>1. Moving(r) /\ run[r].pc = "finish" /\ run[r].step = "idle" /\ run[r] \in RunState
  BY BusyMoves DEF Base, Typed, FinishRead
<1>2. Effect(r) /\ attempts' = attempts /\ UNCHANGED <<artifact, object, status, cancelRequested>>
  BY DEF FinishRead, Effect, rowVars, stored
<1>3. Inv => StopSeen \/ AllWhole
  BY <1>1 DEF Inv, Built
<1>4. AllWhole => AllWhole'
  BY <1>2, WholeKept DEF AllWhole
<1>5. PICK step \in {"ready", "cancelled"} : step = IF cancelRequested THEN "cancelled" ELSE "ready"
  OBVIOUS
<1>6. Steps(r, "finish", run[r].at, step, run[r].try)
  <2>1. run' = [run EXCEPT ![r] = [run[r] EXCEPT !.step = step]]
    BY <1>5 DEF FinishRead
  <2>2. [run[r] EXCEPT !.step = step] \in RunState
    BY <1>1 DEF RunState
  <2> QED
    BY <1>1, <2>1, <2>2 DEF Base, Typed, RunState, Steps
<1>7. Inv => Built(r)'
  BY <1>2, <1>3, <1>4, <1>5, <1>6 DEF Steps, Built, Building, StopSeen
<1> QED
  BY <1>1, <1>2, <1>5, <1>6, <1>7, RunKeeps DEF Base, Typed, FinishRead, rowVars, pageVars, Building

LEMMA FailBeginKeeps ==
  ASSUME Base, NEW r \in Runs, FailBegin(r)
  PROVE  Base' /\ (Inv => Inv')
<1>1. Moving(r) /\ run[r].pc = "fail" /\ run[r] \in RunState
  BY BusyMoves DEF Base, Typed, FailBegin
<1>2. Effect(r) /\ attempts' = attempts
  BY DEF FailBegin, Effect, rowVars, stored
<1>3. Steps(r, "fail", run[r].at, "failed", run[r].try)
  BY <1>1 DEF Base, Typed, FailBegin, RunState, Steps
<1>4. Built(r)'
  BY <1>3 DEF Steps, Built, Building
<1> QED
  BY <1>1, <1>2, <1>3, <1>4, RunKeeps DEF Base, Typed, FailBegin, rowVars, pageVars, Building

LEMMA CloseWriteKeeps ==
  ASSUME Base, NEW r \in Runs, CloseWrite(r)
  PROVE  Base' /\ (Inv => Inv')
<1>1. Moving(r) /\ run[r].pc \in {"finish", "fail"} /\ run[r] \in RunState
  BY BusyMoves DEF Base, Typed, CloseWrite, Busy, Placed
<1>2. Effect(r) /\ attempts' = attempts
  BY DEF CloseWrite, Effect, Touched, stored
<1>3. Steps(r, "ended", run[r].at, "idle", run[r].try)
  BY <1>1 DEF Base, Typed, CloseWrite, RunState, Steps
<1>4. Built(r)'
  BY <1>3 DEF Steps, Built, Moving, Busy
<1> QED
  BY <1>1, <1>2, <1>3, <1>4, RunKeeps DEF Base, Typed, CloseWrite, pageVars, Building

\* What an interrupted step leaves: its effect, or none, and the variants before it.
LEMMA InterruptedLeaves ==
  ASSUME Inv, NEW r \in Runs, Busy(r), Interrupted(r), cancelRequested' = cancelRequested,
         run[r].pc = "variant" => run'[r].at = run[r].at, run'[r].pc = run[r].pc,
         run'[r].step = "idle"
  PROVE  Built(r)'
<1>1. Moving(r) /\ run[r] \in RunState /\ Placed(r) /\ Built(r)
  BY BusyMoves DEF Inv, Base, Typed
<1>2. PICK v \in Variants : v = run[r].at
  BY <1>1 DEF RunState
<1>3. CASE run[r].pc = "variant"
  <2>1. ASSUME NEW w \in Variants, w < v
        PROVE  Whole(w)'
    <3>1. Whole(w) /\ w # v
      BY <1>1, <1>2, <1>3, <2>1 DEF Built, Variants
    <3>2. CASE run[r].step \in {"file", "report", "vault"} /\ object' = Put(r) /\ artifact' = artifact
      <4>1. object'[w] = object[w]
        BY <1>2, <3>1, <3>2, PutStores DEF Inv, Base
      <4> QED
        BY <3>1, <3>2, <4>1 DEF Whole
    <3>3. CASE run[r].step = "row" /\ Upserted(r) /\ object' = object
      <4>1. artifact'[w] = artifact[w]
        BY <1>2, <3>1, <3>3, UpsertStores DEF Inv, Base
      <4> QED
        BY <3>1, <3>3, <4>1 DEF Whole
    <3>4. CASE UNCHANGED stored
      BY <3>1, <3>4 DEF Whole, stored
    <3> QED
      BY <3>2, <3>3, <3>4 DEF Interrupted
  <2> QED
    BY <1>2, <1>3, <2>1 DEF Built, Building
<1>4. CASE run[r].pc = "finish"
  <2>1. run[r].step \in {"ready", "cancelled"}
    BY <1>1, <1>4 DEF Busy, Placed, RunState, Building
  <2>2. UNCHANGED <<artifact, object>> /\ status' \in {status, Closed(run[r].step)}
    BY <2>1 DEF Interrupted, stored
  <2>3. status = "cancelled" => status' = "cancelled"
    BY <2>2 DEF Closed, IsActive, Active
  <2>4. AllWhole => AllWhole'
    BY <2>2, WholeKept DEF AllWhole
  <2>5. StopSeen' \/ AllWhole'
    BY <1>1, <2>1, <2>3, <2>4 DEF Built, StopSeen
  <2> QED
    BY <1>4, <2>5 DEF Built, Building
<1>5. CASE run[r].pc \notin {"variant", "finish"}
  BY <1>5 DEF Built, Building
<1> QED
  BY <1>3, <1>4, <1>5

LEMMA StepThrowsKeeps ==
  ASSUME Base, NEW r \in Runs, StepThrows(r)
  PROVE  Base' /\ (Inv => Inv')
<1>1. Moving(r) /\ run[r].pc \in {"start", "variant", "finish", "fail"} /\ run[r] \in RunState
  BY BusyMoves DEF Base, Typed, StepThrows
<1>2. Effect(r) /\ attempts' = attempts
  BY DEF StepThrows, Interrupted, Effect, Running, Touched, stored, Upserted
<1>3. faults' \in 0..MaxFaults
  BY BoundsAssumption DEF Base, Typed, StepThrows
<1>4. PICK next \in {run[r].pc, IF run[r].pc = "fail" THEN "ended" ELSE "fail"} :
        run' = [run EXCEPT ![r] = [run[r] EXCEPT !.step = "idle", !.try = 0, !.pc = next]]
  BY DEF StepThrows
<1>5. Steps(r, next, run[r].at, "idle", 0)
  <2>1. [run[r] EXCEPT !.step = "idle", !.try = 0, !.pc = next] \in RunState
    BY <1>1, <1>4 DEF RunState
  <2> QED
    BY <1>1, <1>4, <2>1 DEF Base, Typed, RunState, Steps
<1>6. Inv => Built(r)'
  <2>1. CASE next = run[r].pc
    BY <1>5, <2>1, InterruptedLeaves DEF StepThrows, Steps
  <2>2. CASE next \in {"fail", "ended"}
    BY <1>5, <2>2 DEF Steps, Built, Building
  <2> QED
    BY <2>1, <2>2
<1>7. next = "start" => run[r].at = 1
  BY <1>1 DEF Base, Placed
<1> QED
  BY <1>1, <1>2, <1>3, <1>4, <1>5, <1>6, <1>7, RunKeeps DEF Base, Typed, StepThrows, pageVars, Building

LEMMA WorkerDiesKeeps ==
  ASSUME Base, NEW r \in Runs, WorkerDies(r)
  PROVE  Base' /\ (Inv => Inv')
<1>1. Moving(r) /\ run[r].pc \in {"start", "variant", "finish", "fail"} /\ run[r] \in RunState
  BY BusyMoves DEF Base, Typed, WorkerDies
<1>2. Effect(r) /\ attempts' = attempts
  BY DEF WorkerDies, Interrupted, Effect, Running, Touched, stored, Upserted
<1>3. faults' \in 0..MaxFaults
  BY BoundsAssumption DEF Base, Typed, WorkerDies
<1>4. Steps(r, run[r].pc, run[r].at, "lost", 0)
  BY <1>1 DEF Base, Typed, WorkerDies, RunState, Steps
<1>5. Built(r)'
  BY <1>4 DEF Steps, Built, Moving, Busy
<1>6. run[r].pc = "start" => run[r].at = 1
  BY <1>1 DEF Base, Placed
<1> QED
  BY <1>1, <1>2, <1>3, <1>4, <1>5, <1>6, RunKeeps DEF Base, Typed, WorkerDies, pageVars, Building

-----------------------------------------------------------------------------
(* The age of the row, and what the sweeps leave unrecorded. *)

\* The age of the row is nothing to the second layer.
LEMMA QuietKeeps ==
  ASSUME Inv, Base',
         UNCHANGED <<status, runId, cancelRequested, recoveries, stored, run, post, stop, sweep, pageVars>>
  PROVE  Inv'
<1>1. OneMoves' /\ Finished' /\ Stopping'
  BY DEF Inv, OneMoves, Finished, AllWhole, Whole, Stopping, Moving, Busy, stored
<1>2. \A s \in Runs : Built(s)'
  BY BuiltFrame DEF Inv, StopSeen, stored
<1>3. Taken' /\ Kept'
  BY DEF Inv, Taken, Takes, Kept, Asks, Offered, stored, pageVars
<1> QED
  BY <1>1, <1>2, <1>3 DEF Inv

LEMMA ProgressBase ==
  ASSUME Base, NEW r \in Runs, Progress(r)
  PROVE  Base'
<1>1. Typed'
  BY DEF Base, Progress, Touched, Typed, stored, pageVars
<1>2. (\A s \in Runs : Placed(s)') /\ Posted'
  BY DEF Base, Progress, Placed, Posted
<1>3. Alone'
  BY AloneKept DEF Base, Progress, Touched, Moving, Busy, IsActive
<1> QED
  BY <1>1, <1>2, <1>3 DEF Base

LEMMA AgeBase ==
  ASSUME Base, Age
  PROVE  Base'
<1>1. Typed'
  BY DEF Base, Age, Typed, stored, pageVars
<1>2. (\A s \in Runs : Placed(s)') /\ Posted'
  BY DEF Base, Age, Placed, Posted
<1>3. \A r \in Runs : ~Moving(r)'
  BY DEF Age, Moving, Busy
<1>4. Recorded' = Recorded /\ sweep' = sweep /\ runId' = runId
  BY DEF Age, Recorded
<1>5. Alone'
  BY <1>3, <1>4 DEF Base, Alone, Recorded
<1> QED
  BY <1>1, <1>2, <1>5 DEF Base

LEMMA StutterBase ==
  ASSUME Base, UNCHANGED vars
  PROVE  Base'
BY DEF Base, Typed, Placed, Posted, Alone, Recorded, Moving, Busy, IsActive, vars, rowVars, stored,
       pageVars

\* A stray is a run, and never ceases to be one.
LEMMA StraysStay == [Next]_vars => strays \subseteq strays'
<1> SUFFICES ASSUME [Next]_vars
             PROVE  strays \subseteq strays'
  OBVIOUS
<1>1. CASE Post \/ PostDies
  BY <1>1 DEF Post, PostCreate, PostStart, PostRecord, PostDies
<1>2. ASSUME NEW r \in Runs, Run(r) \/ StepThrows(r) \/ WorkerDies(r)
      PROVE  strays \subseteq strays'
  BY <1>2 DEF Run, StartRead, StartWrite, VariantRead, Progress, VariantPut, VariantRow, VariantRefused,
     FinishRead, FailBegin, CloseWrite, StepThrows, WorkerDies
<1>3. CASE StopRead \/ Stop \/ StopDies
  BY <1>3 DEF Stop, StopRead, StopFlag, StopCancel, StopClose, StopDies
<1>4. CASE Age \/ Sweep \/ SweepFails
  BY <1>4 DEF Age, Sweep, FindLost, CancelLost, CloseLost, RestartLost, ClaimLost, StopSurplus, SweepFails
<1>5. ASSUME NEW p \in Pages, Page(p) \/ TakeFails(p) \/ PageCloses(p)
      PROVE  strays \subseteq strays'
  BY <1>5 DEF Page, PageView, PageNext, TakeRead, TakeClaim, TakeGet, TakeDrop, TakeFails, PageDone,
     PageCloses
<1>6. CASE AtRest \/ UNCHANGED vars
  BY <1>6 DEF AtRest, vars
<1> QED
  BY <1>1, <1>2, <1>3, <1>4, <1>5, <1>6 DEF Next

LEMMA TrackedBefore == [Next]_vars /\ Tracked' => Tracked
BY StraysStay DEF Tracked

LEMMA InitFull == Init => Full
<1> SUFFICES ASSUME Init
             PROVE  Full
  OBVIOUS
<1>1. \A r \in Runs : run[r] = NoRun
  BY DEF Init
<1>2. \A r \in Runs : ~Moving(r)
  BY <1>1 DEF Moving, Busy, NoRun
<1>3. Typed
  <2>1. NoRun \in RunState
    BY BoundsAssumption DEF NoRun, RunState, Variants
  <2>2. NoPage \in PageState /\ SweepIdle \in SweepState /\ NoStop \in StopState
    BY DEF NoPage, PageState, SweepIdle, SweepState, NoStop, StopState
  <2>3. /\ [pc |-> "create", new |-> 0] \in PostState
        /\ [try |-> 0, vault |-> FALSE] \in RowState
        /\ [file |-> 0, report |-> 0, vault |-> 0] \in FileState
        /\ [times |-> 0, try |-> 0] \in HandState
    BY DEF PostState, RowState, FileState, HandState
  <2>4. sweep.pc = "idle" /\ 0 \in 0..MaxRecoveries /\ 0 \in 0..MaxFaults
    BY BoundsAssumption DEF Init, SweepIdle
  <2> QED
    BY <2>1, <2>2, <2>3, <2>4 DEF Init, Typed, Statuses, NoPage
<1>4. \A r \in Runs : Placed(r)
  BY <1>1 DEF Placed, NoRun, Building
<1>5. Posted /\ OneMoves /\ Alone
  BY <1>1, <1>2 DEF Init, Posted, OneMoves, Alone, Recorded, NoRun, SweepIdle
<1>6. (\A r \in Runs : Built(r)) /\ Finished
  BY <1>2 DEF Init, Built, Finished
<1>7. Taken /\ Kept
  BY DEF Init, Taken, Takes, Kept, NoPage
<1>8. Stopping
  BY <1>1 DEF Init, Stopping, NoRun, Building
<1> QED
  BY <1>3, <1>4, <1>5, <1>6, <1>7, <1>8 DEF Full, Base, Inv

LEMMA NextBase == Base /\ [Next]_vars => Base'
<1> SUFFICES ASSUME Base, [Next]_vars
             PROVE  Base'
  OBVIOUS
<1>1. CASE Post \/ PostDies
  BY <1>1, PostCreateBase, PostStartBase, PostRecordBase, PostDiesBase DEF Post
<1>2. ASSUME NEW r \in Runs, Run(r) \/ StepThrows(r) \/ WorkerDies(r)
      PROVE  Base'
  BY <1>2, StartReadKeeps, StartWriteKeeps, VariantReadKeeps, ProgressBase, VariantPutKeeps,
     VariantRowKeeps, VariantRefusedKeeps, FinishReadKeeps, FailBeginKeeps, CloseWriteKeeps,
     StepThrowsKeeps, WorkerDiesKeeps DEF Run
<1>3. CASE StopRead \/ Stop \/ StopDies
  BY <1>3, StopReadBase, StopFlagBase, StopCancelBase, StopCloseBase, StopDiesBase DEF Stop
<1>4. CASE Age \/ Sweep \/ SweepFails
  BY <1>4, AgeBase, FindLostBase, CancelLostBase, CloseLostBase, RestartLostBase, ClaimLostBase,
     StopSurplusBase, SweepFailsBase DEF Sweep
<1>5. ASSUME NEW p \in Pages, Page(p) \/ TakeFails(p) \/ PageCloses(p)
      PROVE  Base'
  BY <1>5, PageViewBase, PageNextBase, TakeReadBase, TakeClaimBase, TakeGetBase,
     TakeDropBase, TakeFailsBase, PageDoneBase, PageClosesBase DEF Page
<1>6. CASE AtRest \/ UNCHANGED vars
  BY <1>6, StutterBase DEF AtRest
<1> QED
  BY <1>1, <1>2, <1>3, <1>4, <1>5, <1>6 DEF Next

LEMMA NextInv == Inv /\ Tracked /\ Base' /\ [Next]_vars => Inv'
<1> SUFFICES ASSUME Inv, Tracked, Base', [Next]_vars
             PROVE  Inv'
  OBVIOUS
<1>0. Base
  BY DEF Inv
<1>1. CASE Post \/ PostDies
  BY <1>1, PostCreateKeeps, PostStartKeeps, PostRecordKeeps, PostDiesKeeps DEF Post
<1>2. ASSUME NEW r \in Runs, Run(r) \/ StepThrows(r) \/ WorkerDies(r)
      PROVE  Inv'
  <2>1. CASE Progress(r)
    BY <2>1, QuietKeeps DEF Progress
  <2>2. CASE ~Progress(r)
    BY <1>0, <1>2, <2>2, StartReadKeeps, StartWriteKeeps, VariantReadKeeps, VariantPutKeeps,
       VariantRowKeeps, VariantRefusedKeeps, FinishReadKeeps, FailBeginKeeps, CloseWriteKeeps,
       StepThrowsKeeps, WorkerDiesKeeps DEF Run
  <2> QED
    BY <2>1, <2>2
<1>3. CASE StopRead \/ Stop \/ StopDies
  BY <1>3, StopReadKeeps, StopFlagKeeps, StopCancelKeeps, StopCloseKeeps, StopDiesKeeps DEF Stop
<1>4. CASE Age
  BY <1>4, QuietKeeps DEF Age
<1>5. CASE Sweep \/ SweepFails
  BY <1>5, FindLostKeeps, CancelLostKeeps, CloseLostKeeps, RestartLostKeeps, ClaimLostKeeps,
     StopSurplusKeeps, SweepFailsKeeps DEF Sweep
<1>6. ASSUME NEW p \in Pages, Page(p) \/ TakeFails(p) \/ PageCloses(p)
      PROVE  Inv'
  BY <1>6, PageViewKeeps, PageNextKeeps, TakeReadKeeps, TakeClaimKeeps, TakeGetKeeps,
     TakeDropKeeps, TakeFailsKeeps, PageDoneKeeps, PageClosesKeeps DEF Page
<1>7. CASE AtRest \/ UNCHANGED vars
  <2>1. UNCHANGED <<status, runId, cancelRequested, recoveries, stored, run, post, stop, sweep, pageVars>>
    BY <1>7 DEF AtRest, vars, rowVars
  <2> QED
    BY <2>1, QuietKeeps
<1> QED
  BY <1>1, <1>2, <1>3, <1>4, <1>5, <1>6, <1>7 DEF Next

LEMMA NextFull == Full /\ [Next]_vars => Full'
BY NextBase, NextInv, TrackedBefore DEF Full

\* What the argument rests on holds in every state: the row, its runs, the key in the
\* browser and the pages fit together as Full says.
THEOREM Invariance == Spec => []Full
BY InitFull, NextFull, PTL DEF Spec

-----------------------------------------------------------------------------
\* Every variable has its type, whatever runs, pages and requests do.
THEOREM Typing == Spec => []TypeOK
<1>1. Full => TypeOK
  BY TypedIsTypeOK DEF Full, Base
<1> QED
  BY <1>1, Invariance, PTL

\* Whatever the sweep finds, and however often it is lost on the way, no two of the runs
\* it or the request recorded ever move at the same time: a row that has been quiet for
\* so long has no recorded run at work, and one the sweep has just started is recorded
\* before the row can be found again, or is left a stray, which this does not count.
THEOREM OneRunMoves == Spec => [](\A r, s \in Runs \ strays : Moving(r) /\ Moving(s) => r = s)
<1>1. Full => \A r, s \in Runs \ strays : Moving(r) /\ Moving(s) => r = s
  BY DEF Full, Base, Alone, Recorded
<1> QED
  BY <1>1, Invariance, PTL

\* No step changes the status of an export that is over, strays or not.
THEOREM OverStays == Spec => OverStaysOver
<1>1. ASSUME Full, [Next]_vars, status \notin Active \cup {"none"}
      PROVE  status' = status
  <2>1. CASE Post \/ PostDies
    BY <1>1, <2>1 DEF Full, Base, Posted, Post, PostCreate, PostStart, PostRecord, PostDies, rowVars
  <2>2. ASSUME NEW r \in Runs, Run(r) \/ StepThrows(r) \/ WorkerDies(r)
        PROVE  status' = status
    BY <1>1, <2>2 DEF Run, StartRead, StartWrite, VariantRead, Progress, VariantPut, VariantRow,
       VariantRefused, FinishRead, FailBegin, CloseWrite, StepThrows, WorkerDies, Interrupted,
       Running, Closed, IsActive, Active, rowVars
  <2>3. CASE StopRead \/ Stop \/ StopDies
    BY <1>1, <2>3 DEF Stop, StopRead, StopFlag, StopCancel, StopClose, StopDies, Closed, IsActive,
       rowVars
  <2>4. CASE Age \/ Sweep \/ SweepFails
    BY <1>1, <2>4 DEF Age, Sweep, FindLost, CancelLost, CloseLost, RestartLost, ClaimLost,
       StopSurplus, SweepFails, StillLost, IsActive, rowVars
  <2>5. ASSUME NEW p \in Pages, Page(p) \/ TakeFails(p) \/ PageCloses(p)
        PROVE  status' = status
    BY <2>5 DEF Page, PageView, PageNext, TakeRead, TakeClaim, TakeGet, TakeDrop, TakeFails,
       PageDone, PageCloses, rowVars
  <2>6. CASE AtRest \/ UNCHANGED vars
    BY <2>6 DEF AtRest, vars, rowVars
  <2> QED
    BY <1>1, <2>1, <2>2, <2>3, <2>4, <2>5, <2>6 DEF Next
<1>2. Full /\ [Next]_vars => [status \notin Active \cup {"none"} => status' = status]_vars
  BY <1>1
<1> QED
  BY <1>2, Invariance, PTL DEF Spec, OverStaysOver

\* While no run goes unrecorded, an export that is ready has every variant, each stored
\* whole by one attempt: no interrupted step, lost worker, stop or restart leaves it with
\* anything missing or with pieces of two attempts.
THEOREM ReadyWhole == Spec => []ReadyIsWhole
<1>1. Full => ReadyIsWhole
  BY DEF Full, Inv, Finished, AllWhole, ReadyIsWhole
<1> QED
  BY <1>1, Invariance, PTL

\* While no run goes unrecorded, a vault is handed over once at most, whichever pages ask
\* for it.
THEOREM HandedOnce == Spec => []HandedOverOnce
<1>1. Full => HandedOverOnce
  <2> SUFFICES ASSUME Full, Tracked, NEW v \in Variants
               PROVE  handed[v].times <= 1
    BY DEF HandedOverOnce
  <2>1. handed[v].times \in Nat
    BY DEF Full, Base, Typed, HandState
  <2> QED
    BY <2>1 DEF Full, Inv, Taken
<1> QED
  BY <1>1, Invariance, PTL

\* While no run goes unrecorded, the vault that a page was given opens the file that the
\* export shows.
THEOREM VaultFits == Spec => []VaultFitsFile
<1>1. Full => VaultFitsFile
  BY DEF Full, Inv, Taken, VaultFitsFile
<1> QED
  BY <1>1, Invariance, PTL

\* While no run goes unrecorded, the key is not forgotten while a vault is still on offer.
THEOREM KeyKept == Spec => []KeyIsKept
<1>1. Full => KeyIsKept
  BY DEF Full, Inv, Kept, KeyIsKept
<1> QED
  BY <1>1, Invariance, PTL

\* While no run goes unrecorded, at most the variant that was being built is stored after
\* a stop was asked for.
THEOREM StopSoon == Spec => []StopsSoon
<1>1. Full => StopsSoon
  BY DEF Full, Inv, Stopping, StopsSoon
<1> QED
  BY <1>1, Invariance, PTL
=============================================================================
