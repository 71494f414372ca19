------------------------- MODULE AdmissionWorkProofs -------------------------
(***************************************************************************)
(* The queue of Admission implements OneWorker, for any number of           *)
(* documents, requests, runs and faults, where only claims and the sweep    *)
(* decide who processes a document (ClaimsOnly).                            *)
(*                                                                         *)
(* A step of Admission is one of five for a document: its reservation, the  *)
(* hand-over to a run, the end of either, or nothing that OneWorker sees.   *)
(* OneRunInv says why the first two find nobody else there.                 *)
(***************************************************************************)
EXTENDS AdmissionProofs, AdmissionWork

absVars  == <<[d \in Docs |-> Starting(d)], [d \in Docs |-> LiveOn(d)], EverStarted>>
AbsStays == UNCHANGED absVars

\* The admissions that start something do so before and after.
SameStarts == \A a \in Admitters :
  /\ adm'[a].pc = "start" <=> adm[a].pc = "start"
  /\ adm[a].pc = "start" => adm'[a].doc = adm[a].doc

SameRuns == /\ runDoc' = runDoc
            /\ \A r \in Runs : runPc'[r] = "none" <=> runPc[r] = "none"

LEMMA Unseen ==
  ASSUME SameStarts, SameRuns, \A r \in Runs : Live(r)' <=> Live(r)
  PROVE  AbsStays
<1>1. \A d \in Docs : Starting(d)' = Starting(d)
  BY DEF SameStarts, Starting
<1>2. \A d \in Docs : LiveOn(d)' = LiveOn(d)
  BY DEF SameRuns, LiveOn
<1>3. EverStarted' = EverStarted
  BY DEF SameRuns, EverStarted
<1> QED
  BY <1>1, <1>2, <1>3 DEF AbsStays, absVars

\* One run at most stops being live: it lets its document go.
LEMMA RunLetsGo ==
  ASSUME OneRunInv, SameStarts, SameRuns, NEW r \in Runs,
         \A s \in Runs : s # r => (Live(s)' <=> Live(s)),
         Live(r)' => Live(r)
  PROVE  Work!Next \/ AbsStays
<1>1. CASE Live(r)' <=> Live(r)
  BY <1>1, Unseen
<1>2. CASE Live(r) /\ ~Live(r)'
  <2>1. PICK d \in Docs : d = runDoc[r]
    BY <1>2, LiveStarted DEF OneRunInv, TypeInv, Locals
  <2>2. LiveOn(d)' = {}
    BY <1>2, <2>1 DEF LiveOn, SameRuns, OneRunInv, OneRunPerDocument
  <2>3. \A e \in Docs : e # d => LiveOn(e)' = LiveOn(e)
    BY <1>2, <2>1 DEF LiveOn, SameRuns
  <2>4. [e \in Docs |-> LiveOn(e)]' = [[e \in Docs |-> LiveOn(e)] EXCEPT ![d] = {}]
    BY <2>1, <2>2, <2>3
  <2>5. \A e \in Docs : Starting(e)' = Starting(e)
    BY DEF SameStarts, Starting
  <2>6. EverStarted' = EverStarted
    BY DEF SameRuns, EverStarted
  <2>7. Work!LetGo(d)
    BY <2>4, <2>5, <2>6 DEF Work!LetGo
  <2> QED
    BY <2>1, <2>7 DEF Work!Next
<1> QED
  BY <1>1, <1>2

\* One admission at most stops being about to start a run: it withdraws.
LEMMA AdmissionWithdraws ==
  ASSUME OneRunInv, SameRuns, NEW a \in Admitters,
         \A r \in Runs : Live(r)' <=> Live(r),
         \A b \in Admitters : b # a => adm'[b] = adm[b],
         adm'[a].pc # "start"
  PROVE  Work!Next \/ AbsStays
<1>1. CASE adm[a].pc # "start"
  <2>1. SameStarts
    BY <1>1 DEF SameStarts
  <2> QED
    BY <2>1, Unseen
<1>2. CASE adm[a].pc = "start"
  <2>1. PICK d \in Docs : d = adm[a].doc
    BY <1>2 DEF OneRunInv, TypeInv, Locals
  <2>2. Starting(d)' = {}
    BY <1>2, <2>1 DEF Starting, OneRunInv, StartsAlone
  <2>3. \A e \in Docs : e # d => Starting(e)' = Starting(e)
    BY <1>2, <2>1 DEF Starting
  <2>4. [e \in Docs |-> Starting(e)]' = [[e \in Docs |-> Starting(e)] EXCEPT ![d] = {}]
    BY <2>1, <2>2, <2>3
  <2>5. \A e \in Docs : LiveOn(e)' = LiveOn(e)
    BY DEF SameRuns, LiveOn
  <2>6. EverStarted' = EverStarted
    BY DEF SameRuns, EverStarted
  <2>7. Work!Withdraw(d)
    BY <2>4, <2>5, <2>6 DEF Work!Withdraw
  <2> QED
    BY <2>1, <2>7 DEF Work!Next
<1> QED
  BY <1>1, <1>2

\* A process is lost in the middle of its admission: what it reserved is withdrawn,
\* what it has started and not recorded lets go.
LEMMA AdmissionLost ==
  ASSUME OneRunInv, SameRuns, NEW a \in Admitters,
         adm' = [adm EXCEPT ![a] = Idle],
         cancelled' = cancelled,
         abandoned' = abandoned \cup {a} \cup Unrecorded(a),
         \A r \in Runs : Writing(r)' <=> Writing(r),
         a \in Runs => ~Writing(a)
  PROVE  Work!Next \/ AbsStays
<1>0. TypeOK /\ Locals
  BY DEF OneRunInv, TypeInv
<1>1. adm'[a] = Idle /\ \A b \in Admitters : b # a => adm'[b] = adm[b]
  BY <1>0 DEF TypeOK
<1>2. \A r \in Runs : Live(r)' <=> Live(r) /\ r \notin Unrecorded(a)
  BY <1>0 DEF Live
<1>3. CASE adm[a].pc = "start"
  <2>1. Unrecorded(a) = {}
    BY <1>3 DEF Unrecorded
  <2> QED
    BY <1>1, <1>2, <2>1, AdmissionWithdraws, IdleType
<1>4. CASE adm[a].pc = "record"
  <2>1. adm[a].new \in Runs /\ Unrecorded(a) = {adm[a].new}
    BY <1>0, <1>4 DEF Locals, Unrecorded
  <2>2. SameStarts
    BY <1>1, <1>4, IdleType DEF SameStarts
  <2> QED
    BY <1>2, <2>1, <2>2, RunLetsGo
<1>5. CASE adm[a].pc \notin {"start", "record"}
  <2>1. Unrecorded(a) = {}
    BY <1>5 DEF Unrecorded
  <2>2. SameStarts
    BY <1>1, <1>5, IdleType DEF SameStarts
  <2> QED
    BY <1>2, <2>1, <2>2, Unseen
<1> QED
  BY <1>3, <1>4, <1>5

-----------------------------------------------------------------------------
(* The steps of each process. *)

Names(c, r) == c.runId = Started(r)

\* A run that is not yet started has been neither lost nor cancelled, and no row
\* and nothing the sweep has read names it.
LostRan ==
  \A r \in Runs : runPc[r] = "none" =>
    /\ r \notin abandoned /\ ~cancelled[r]
    /\ \A d \in Docs : runId[d] # Started(r)
    /\ \A c \in sweep.found \cup {sweep.cur} : ~Names(c, r)

LEMMA LostRanStep ==
  ASSUME LostRan,
         \A r \in Runs :
           /\ runPc'[r] = "none" => runPc[r] = "none"
           /\ r \in abandoned' => r \in abandoned \/ runPc'[r] # "none"
           /\ cancelled'[r] => cancelled[r] \/ Names(sweep.cur, r),
         \A r \in Runs, d \in Docs :
           runId'[d] = Started(r) => runId[d] = Started(r) \/ runPc'[r] # "none",
         \A c \in sweep'.found \cup {sweep'.cur} :
           \/ c \in sweep.found \cup {sweep.cur}
           \/ c.runId = NoRun
           \/ \E d \in Docs : c.runId = runId[d]
  PROVE  LostRan'
<1> SUFFICES ASSUME NEW r \in Runs, runPc'[r] = "none"
             PROVE  /\ r \notin abandoned' /\ ~cancelled'[r]
                    /\ \A d \in Docs : runId'[d] # Started(r)
                    /\ \A c \in sweep'.found \cup {sweep'.cur} : ~Names(c, r)
  BY DEF LostRan
<1>1. /\ runPc[r] = "none" /\ r \notin abandoned /\ ~cancelled[r]
      /\ \A d \in Docs : runId[d] # Started(r)
      /\ \A c \in sweep.found \cup {sweep.cur} : ~Names(c, r)
  BY DEF LostRan
<1>2. \A c \in sweep'.found \cup {sweep'.cur} : ~Names(c, r)
  BY <1>1, RunIdFacts DEF Names
<1> QED
  BY <1>1, <1>2

\* A claim is made of a row without a run: nobody is starting one on that document,
\* and no live run is behind the row.
LEMMA ClaimReserves ==
  ASSUME OneRunInv, NEW a \in Admitters, Claim(a)
  PROVE  Work!Next \/ AbsStays
<1>0. RunIsNamed /\ StartsAlone /\ TypeOK /\ Locals
  BY DEF OneRunInv, TypeInv
<1>1. PICK d \in Docs, m \in LocalStates :
        /\ adm' = [adm EXCEPT ![a] = m]
        /\ \/ /\ MayClaim(d) /\ runId' = [runId EXCEPT ![d] = Pending(a)]
              /\ m.pc = "start" /\ m.doc = d
           \/ runId' = runId /\ m.pc \notin InHand
  BY ClaimShape DEF OneRunInv
<1>2. /\ UNCHANGED <<runDoc, runPc, cancelled, abandoned>>
      /\ adm[a].pc = "claim" /\ adm'[a] = m
      /\ \A b \in Admitters : b # a => adm'[b] = adm[b]
  BY <1>0, <1>1 DEF Claim, runVars, hist, TypeOK
<1>3. SameRuns /\ \A r \in Runs : Live(r)' <=> Live(r)
  BY <1>2 DEF SameRuns, Live, Writing
<1>4. CASE m.pc \notin InHand
  <2>1. SameStarts
    BY <1>2, <1>4 DEF SameStarts, InHand
  <2> QED
    BY <1>3, <2>1, Unseen
<1>5. CASE MayClaim(d) /\ m.pc = "start" /\ m.doc = d
  <2>1. Exists(d) /\ runId[d] = NoRun
    BY <1>5 DEF MayClaim
  <2>2. Starting(d) = {}
    BY <1>0, <2>1, RunIdFacts DEF Starting, StartsAlone
  <2>3. LiveOn(d) = {}
    BY <1>0, <2>1, RunIdFacts DEF LiveOn, RunIsNamed
  <2>4. Starting(d)' = {a}
    BY <1>2, <1>5, <2>2 DEF Starting
  <2>5. \A e \in Docs : e # d => Starting(e)' = Starting(e)
    BY <1>2, <1>5 DEF Starting
  <2>6. [e \in Docs |-> Starting(e)]' = [[e \in Docs |-> Starting(e)] EXCEPT ![d] = {a}]
    BY <2>4, <2>5
  <2>7. \A e \in Docs : LiveOn(e)' = LiveOn(e)
    BY <1>3 DEF SameRuns, LiveOn
  <2>8. EverStarted' = EverStarted
    BY <1>3 DEF SameRuns, EverStarted
  <2>9. Work!Reserve(d, a)
    BY <2>2, <2>3, <2>6, <2>7, <2>8 DEF Work!Reserve
  <2> QED
    BY <2>9 DEF Work!Next
<1> QED
  BY <1>1, <1>4, <1>5

\* The run is a new one, and its admission was the only one to have the document.
LEMMA StartHandsOver ==
  ASSUME OneRunInv, LostRan, NEW a \in Admitters, NEW r \in Runs, StartRun(a, r)
  PROVE  Work!Next \/ AbsStays
<1>0. StartsAlone /\ TypeOK /\ Locals
  BY DEF OneRunInv, TypeInv
<1>1. PICK d \in Docs : d = adm[a].doc
  BY <1>0 DEF Locals, StartRun
<1>2. /\ UNCHANGED <<cancelled, abandoned>>
      /\ adm[a].pc = "start" /\ adm'[a].pc = "record" /\ runPc[r] = "none"
      /\ \A b \in Admitters : b # a => adm'[b] = adm[b]
      /\ runDoc'[r] = d /\ runPc'[r] = "queued"
      /\ \A s \in Runs : s # r => runDoc'[s] = runDoc[s] /\ runPc'[s] = runPc[s]
  BY <1>0, <1>1 DEF StartRun, NextRun, hist, TypeOK
<1>3. \A s \in Runs : s # r => (Live(s)' <=> Live(s))
  BY <1>2 DEF Live, Writing
<1>4. ~Live(r)
  BY <1>2, LiveStarted
<1>5. Starting(d) # {} /\ Starting(d)' = {}
  BY <1>0, <1>1, <1>2 DEF Starting, StartsAlone
<1>6. LiveOn(d) = {}
  BY <1>0, <1>1, <1>2 DEF LiveOn, StartsAlone
<1>7. LiveOn(d)' = {r}
  <2>1. r \notin abandoned' /\ ~cancelled'[r]
    BY <1>2 DEF LostRan
  <2>2. Live(r)'
    BY <1>2, <2>1 DEF Live, Writing, Stages, Working
  <2> QED
    BY <1>2, <1>3, <1>6, <2>2 DEF LiveOn
<1>8. \A e \in Docs : e # d => Starting(e)' = Starting(e) /\ LiveOn(e)' = LiveOn(e)
  BY <1>1, <1>2, <1>3, <1>4 DEF Starting, LiveOn
<1>9. r \notin EverStarted /\ EverStarted' = EverStarted \cup {r}
  BY <1>2 DEF EverStarted
<1> QED
  BY <1>5, <1>7, <1>8, <1>9 DEF Work!HandOver, Work!Next

LEMMA AdmitWork ==
  ASSUME OneRunInv, LostRan, TypeInv', NEW a \in Admitters, Admit(a)
  PROVE  Work!Next \/ AbsStays
<1>0. TypeOK /\ Locals /\ adm[a] \in LocalStates
  BY DEF OneRunInv, TypeInv, TypeOK
<1>1. ASSUME NEW l, adm' = [adm EXCEPT ![a] = l], l.pc # "start",
             UNCHANGED <<runDoc, runPc, cancelled, abandoned>>
      PROVE  Work!Next \/ AbsStays
  <2>1. adm'[a].pc # "start" /\ \A b \in Admitters : b # a => adm'[b] = adm[b]
    BY <1>0, <1>1 DEF TypeOK
  <2>2. SameRuns /\ \A r \in Runs : Live(r)' <=> Live(r)
    BY <1>1 DEF SameRuns, Live, Writing
  <2> QED
    BY <2>1, <2>2, AdmissionWithdraws
<1>2. CASE Looks(a)
  <2>1. PICK m \in LocalStates : /\ adm' = [adm EXCEPT ![a] = m]
                                 /\ m.pc \in Resting \cup {"cap", "find", "claim"}
    BY <1>2, LookType DEF OneRunInv
  <2>2. UNCHANGED <<runDoc, runPc, cancelled, abandoned>>
    BY <1>2 DEF Looks, TakeTurn, CountOwner, CountAll, FindWaiting, runVars, hist
  <2> QED
    BY <1>1, <2>1, <2>2 DEF Resting
<1>3. CASE StartFails(a)
  <2>1. [adm[a] EXCEPT !.pc = "unclaim"].pc # "start"
    BY <1>0 DEF LocalStates
  <2> QED
    BY <1>1, <1>3, <2>1 DEF StartFails, runVars
<1>4. CASE Unclaim(a)
  BY <1>1, <1>4, IdleType DEF Unclaim, runVars, hist
<1>5. CASE RecordRun(a)
  <2> DEFINE l == [adm[a] EXCEPT !.won = TRUE]
  <2>1. l \in LocalStates /\ l.rep \in Docs
    BY <1>0, <1>5 DEF LocalStates, RecordRun, Locals
  <2>2. DocDone(l).pc # "start"
    BY <2>1, DocDoneType DEF Resting
  <2> QED
    BY <1>1, <1>5, <2>2 DEF RecordRun, runVars, hist
<1> QED
  BY <1>2, <1>3, <1>4, <1>5, ClaimReserves, StartHandsOver DEF Admit, Looks

LEMMA AdmitRan ==
  ASSUME OneRunInv, LostRan, NEW a \in Admitters, Admit(a)
  PROVE  LostRan'
<1>0. TypeOK /\ Locals
  BY DEF OneRunInv, TypeInv
<1>1. UNCHANGED <<cancelled, sweep, abandoned>>
  BY DEF Admit, TakeTurn, CountOwner, CountAll, FindWaiting, Claim, StartRun, StartFails, Unclaim,
     RecordRun, runVars, hist
<1>2. \A r \in Runs : runPc'[r] = "none" => runPc[r] = "none"
  BY <1>0 DEF Admit, TakeTurn, CountOwner, CountAll, FindWaiting, Claim, StartRun, StartFails, Unclaim,
     RecordRun, runVars, TypeOK
<1>3. ASSUME NEW r \in Runs, NEW d \in Docs, runId'[d] = Started(r)
      PROVE  runId[d] = Started(r) \/ runPc'[r] # "none"
  <2>1. CASE Claim(a)
    <3>1. \/ runId' = runId
          \/ \E e \in Docs : runId' = [runId EXCEPT ![e] = Pending(a)]
      BY <2>1, ClaimShape DEF OneRunInv
    <3> QED
      BY <1>0, <1>3, <3>1, RunIdFacts DEF TypeOK
  <2>2. CASE Unclaim(a)
    BY <1>0, <1>3, <2>2, RunIdFacts DEF Unclaim, TypeOK
  <2>3. CASE RecordRun(a)
    <3>1. adm[a].new \in Runs /\ runPc'[adm[a].new] # "none"
      BY <1>0, <2>3 DEF RecordRun, Locals, runVars
    <3> QED
      BY <1>0, <1>3, <2>3, <3>1, RunIdFacts DEF RecordRun, TypeOK
  <2>4. CASE runId' = runId
    BY <1>3, <2>4
  <2> QED
    BY <2>1, <2>2, <2>3, <2>4 DEF Admit, TakeTurn, CountOwner, CountAll, FindWaiting, StartRun,
       StartFails, docVars
<1> QED
  BY <1>1, <1>2, <1>3, LostRanStep

\* The steps of a run, of a request and of the clock: they change no run id, and
\* lose an admission or end a run at most.
LEMMA RunWork ==
  ASSUME OneRunInv, LostRan, NEW r \in Runs, Run(r)
  PROVE  (Work!Next \/ AbsStays) /\ LostRan'
<1>0. TypeOK /\ Locals
  BY DEF OneRunInv, TypeInv
<1>1. UNCHANGED <<runId, runDoc, cancelled, sweep>>
  BY DEF Run, BeginStage, CompleteStage, FailStage, FinishFails, BeginEnd, CompleteEnd, RowIsGone,
     AdmitNext, WorkerDies, AdmitNextDies, Redeliver, docVars, procVars
<1>2. CASE AdmitNextDies(r)
  <2>1. /\ runPc[r] = "ended" /\ runPc'[r] = "admit" /\ r \in Admitters
        /\ \A s \in Runs : s # r => runPc'[s] = runPc[s]
    BY <1>0, <1>2 DEF AdmitNextDies, Locals, TypeOK, Admitters
  <2>2. \A s \in Runs : Writing(s)' <=> Writing(s)
    BY <2>1 DEF Writing, Stages, Working
  <2>3. SameRuns /\ ~Writing(r)
    BY <1>1, <2>1 DEF SameRuns, Writing, Stages, Working
  <2>4. Work!Next \/ AbsStays
    BY <1>1, <1>2, <2>1, <2>2, <2>3, AdmissionLost DEF AdmitNextDies
  <2>5. \A s \in Runs : s \in Unrecorded(r) => runPc[s] # "none"
    BY <1>0, <2>1 DEF Unrecorded, Locals
  <2>6. LostRan'
    BY <1>1, <1>2, <2>1, <2>5, LostRanStep DEF AdmitNextDies
  <2> QED
    BY <2>4, <2>6
<1>3. CASE AdmitNext(r)
  <2>1. /\ runPc[r] = "admit" /\ runPc'[r] = "ended" /\ abandoned' = abandoned
        /\ \A s \in Runs : s # r => runPc'[s] = runPc[s]
    BY <1>0, <1>3 DEF AdmitNext, TypeOK, hist
  <2>2. SameRuns /\ \A s \in Runs : Live(s)' <=> Live(s)
    BY <1>1, <2>1 DEF SameRuns, Live, Writing, Stages, Working
  <2>3. runDoc[r] \in Docs /\ r \in Admitters
    BY <1>0, <2>1 DEF Locals, Admitters
  <2>4. adm'[r].pc # "start" /\ \A b \in Admitters : b # r => adm'[b] = adm[b]
    BY <1>0, <1>3, <2>3, AdmitAfterType DEF AdmitNext, TypeOK, Resting
  <2>5. LostRan'
    BY <1>1, <2>1, LostRanStep
  <2> QED
    BY <2>2, <2>3, <2>4, <2>5, AdmissionWithdraws
<1>4. CASE ~AdmitNextDies(r) /\ ~AdmitNext(r)
  <2>1. /\ UNCHANGED <<adm, abandoned>>
        /\ \/ runPc' = runPc
           \/ Writing(r) /\ \E p : p # "none" /\ runPc' = [runPc EXCEPT ![r] = p]
    <3>1. CASE CompleteStage(r)
      <4>1. runPc[r] \in Stages /\ NextStage[runPc[r]] # "none"
        BY <3>1 DEF CompleteStage, NextStage, Stages, Working
      <4> QED
        BY <3>1, <4>1 DEF CompleteStage, Writing, procVars, hist
    <3>2. CASE FailStage(r) \/ FinishFails(r) \/ CompleteEnd(r) \/ RowIsGone(r)
      BY <3>2 DEF FailStage, FinishFails, CompleteEnd, RowIsGone, Writing, procVars, hist
    <3>3. CASE BeginStage(r) \/ BeginEnd(r) \/ WorkerDies(r) \/ Redeliver(r)
      BY <3>3 DEF BeginStage, BeginEnd, WorkerDies, Redeliver, procVars, hist
    <3> QED
      BY <1>4, <3>1, <3>2, <3>3 DEF Run
  <2>2. /\ \A s \in Runs : s # r => runPc'[s] = runPc[s]
        /\ runPc'[r] = runPc[r] \/ (Writing(r) /\ runPc'[r] # "none")
    <3>0. runPc \in [Runs -> Steps \cup {"none", "ended"}]
      BY <1>0 DEF TypeOK
    <3>1. CASE runPc' = runPc
      BY <3>1
    <3>2. ASSUME Writing(r), NEW p, p # "none", runPc' = [runPc EXCEPT ![r] = p]
          PROVE  /\ \A s \in Runs : s # r => runPc'[s] = runPc[s]
                 /\ runPc'[r] # "none"
      BY <3>0, <3>2
    <3> QED
      BY <2>1, <3>1, <3>2
  <2>3. /\ SameStarts /\ SameRuns
        /\ \A s \in Runs : s # r => (Live(s)' <=> Live(s))
        /\ Live(r)' => Live(r)
    BY <1>1, <2>1, <2>2 DEF SameStarts, SameRuns, Live, Writing, Stages, Working
  <2>4. LostRan'
    BY <1>1, <2>1, <2>2, LostRanStep
  <2> QED
    BY <2>3, <2>4, RunLetsGo
<1> QED
  BY <1>2, <1>3, <1>4

LEMMA RequestWork ==
  ASSUME ClaimsOnly, OneRunInv, LostRan, NEW q \in Requests, Request(q)
  PROVE  (Work!Next \/ AbsStays) /\ LostRan'
<1>0. TypeOK /\ Locals /\ NoOtherStarts /\ q \in Admitters /\ q \notin Runs
  BY ProcessesAssumption DEF OneRunInv, TypeInv, Admitters
<1>1. ~RetryWrite(q) /\ \A d \in Docs : ~RetryRead(q, d)
  BY <1>0 DEF ClaimsOnly, RetryWrite, RetryRead, NoOtherStarts
<1>2. UNCHANGED <<runId, runVars, sweep>>
  BY <1>1 DEF Request, ProcessRead, ProcessWrite, ExtendRead, ExtendWrite, RequestDies, docVars
<1>3. SameRuns /\ \A r \in Runs : Writing(r)' <=> Writing(r)
  BY <1>2 DEF SameRuns, runVars, Writing
<1>4. CASE RequestDies(q)
  <2>1. \A r \in Runs : r \in Unrecorded(q) => runPc[r] # "none"
    BY <1>0 DEF Unrecorded, Locals
  <2>2. LostRan'
    BY <1>0, <1>2, <1>4, <2>1, LostRanStep DEF RequestDies, runVars
  <2> QED
    BY <1>0, <1>2, <1>3, <1>4, <2>2, AdmissionLost DEF RequestDies, runVars
<1>5. CASE ~RequestDies(q)
  <2>1. abandoned' = abandoned
    BY <1>1, <1>5 DEF Request, ProcessRead, ProcessWrite, ExtendRead, ExtendWrite, hist
  <2>2. /\ \A b \in Admitters : b # q => adm'[b] = adm[b]
        /\ adm'[q].pc # "start" \/ adm' = adm
    <3>1. CASE ProcessWrite(q)
      <4>1. req[q].doc \in Docs
        BY <1>0, <3>1 DEF ProcessWrite, Locals
      <4>2. AdmitQueued(req[q].doc).pc # "start"
        BY <4>1, AdmitQueuedType DEF Resting
      <4> QED
        BY <1>0, <3>1, <4>2 DEF ProcessWrite, TypeOK
    <3>2. CASE ~ProcessWrite(q)
      BY <1>1, <1>5, <3>2 DEF Request, ProcessRead, ExtendRead, ExtendWrite
    <3> QED
      BY <3>1, <3>2
  <2>3. \A r \in Runs : Live(r)' <=> Live(r)
    BY <1>2, <1>3, <2>1 DEF Live, runVars
  <2>4. Work!Next \/ AbsStays
    <3>1. CASE adm' = adm
      BY <1>3, <2>3, <3>1, Unseen DEF SameStarts
    <3>2. CASE adm'[q].pc # "start"
      BY <1>0, <1>3, <2>2, <2>3, <3>2, AdmissionWithdraws
    <3> QED
      BY <2>2, <3>1, <3>2
  <2>5. LostRan'
    BY <1>2, <2>1, LostRanStep DEF runVars
  <2> QED
    BY <2>4, <2>5
<1> QED
  BY <1>4, <1>5

LEMMA ExpireWork ==
  ASSUME OneRunInv, LostRan, NEW d \in Docs, Expire(d)
  PROVE  (Work!Next \/ AbsStays) /\ LostRan'
<1>1. UNCHANGED <<runId, runVars, adm, sweep, abandoned>>
  BY DEF Expire, procVars, hist
<1>2. SameStarts /\ SameRuns /\ \A r \in Runs : Live(r)' <=> Live(r)
  BY <1>1 DEF SameStarts, SameRuns, Live, Writing, runVars
<1>3. LostRan'
  BY <1>1, LostRanStep DEF runVars
<1> QED
  BY <1>2, <1>3, Unseen

\* A candidate is cancelled: its run lets go; a claim that was lost starts nothing.
LEMMA CancelWork ==
  ASSUME OneRunInv, LostRan, CancelLost
  PROVE  (Work!Next \/ AbsStays) /\ LostRan'
<1>0. TypeOK /\ Locals
  BY DEF OneRunInv, TypeInv
<1>1. /\ UNCHANGED <<runId, runDoc, runPc, adm, abandoned>>
      /\ sweep'.found = sweep.found /\ sweep'.cur = sweep.cur
  BY <1>0 DEF CancelLost, docVars, hist, TypeOK
<1>2. SameStarts /\ SameRuns
  BY <1>1 DEF SameStarts, SameRuns
<1>3. CASE cancelled' = cancelled
  <2>1. \A r \in Runs : Live(r)' <=> Live(r)
    BY <1>1, <1>3 DEF Live, Writing
  <2>2. LostRan'
    BY <1>1, <1>3, LostRanStep
  <2> QED
    BY <1>2, <2>1, <2>2, Unseen
<1>4. CASE \E r \in Runs : sweep.cur.runId = Started(r) /\ cancelled' = [cancelled EXCEPT ![r] = TRUE]
  <2>1. PICK r \in Runs : sweep.cur.runId = Started(r) /\ cancelled' = [cancelled EXCEPT ![r] = TRUE]
    BY <1>4
  <2>2. cancelled'[r] /\ \A s \in Runs : s # r => cancelled'[s] = cancelled[s]
    BY <1>0, <2>1 DEF TypeOK
  <2>3. ~Live(r)' /\ \A s \in Runs : s # r => (Live(s)' <=> Live(s))
    BY <1>1, <2>2 DEF Live, Writing
  <2>4. Names(sweep.cur, r)
    BY <2>1 DEF Names
  <2>5. LostRan'
    BY <1>1, <2>2, <2>4, LostRanStep
  <2> QED
    BY <1>2, <2>3, <2>5, RunLetsGo
<1>5. \/ cancelled' = cancelled
      \/ \E r \in Runs : sweep.cur.runId = Started(r) /\ cancelled' = [cancelled EXCEPT ![r] = TRUE]
  <2>1. sweep.cur.runId \in RunIds
    BY <1>0 DEF TypeOK, Candidates
  <2>2. \/ sweep.cur.runId.kind # "run"
        \/ \E r \in Runs : sweep.cur.runId = Started(r) /\ sweep.cur.runId.of = r
    BY <2>1 DEF RunIds, NoRun, Pending, Started
  <2> QED
    BY <2>2 DEF CancelLost, CancelledBy
<1> QED
  BY <1>3, <1>4, <1>5

LEMMA SweepWork ==
  ASSUME OneRunInv, LostRan, Sweep
  PROVE  (Work!Next \/ AbsStays) /\ LostRan'
<1>0. TypeOK /\ Locals /\ Sweeper \in Admitters /\ Sweeper \notin Runs
  BY ProcessesAssumption DEF OneRunInv, TypeInv, Admitters
<1>1. CASE CancelLost
  BY <1>1, CancelWork
<1>2. CASE ~CancelLost
  <2>1. UNCHANGED runVars
    BY <1>2 DEF Sweep, SweepExpired, FindLost, TakeCandidate, SkipMoving, CancelFails, Requeue,
       AdmitStalled, EndSweep, SweeperDies
  <2>2. SameRuns /\ \A r \in Runs : Writing(r)' <=> Writing(r)
    BY <2>1 DEF SameRuns, runVars, Writing
  <2>3. \A r \in Runs, d \in Docs : runId'[d] = Started(r) => runId[d] = Started(r)
    <3>1. runId' = runId \/ \E d \in Docs : runId' = [runId EXCEPT ![d] = NoRun]
      <4>1. CASE Requeue
        BY <1>0, <4>1 DEF Requeue, Locals
      <4>2. CASE ~Requeue
        BY <1>2, <4>2 DEF Sweep, SweepExpired, FindLost, TakeCandidate, SkipMoving, CancelFails,
           AdmitStalled, EndSweep, SweeperDies, docVars
      <4> QED
        BY <4>1, <4>2
    <3> QED
      BY <1>0, <3>1, RunIdFacts DEF TypeOK
  <2>4. \A c \in sweep'.found \cup {sweep'.cur} :
          \/ c \in sweep.found \cup {sweep.cur}
          \/ c.runId = NoRun
          \/ \E d \in Docs : c.runId = runId[d]
    <3>1. CASE FindLost
      <4>1. \A c \in sweep'.found : \E d \in Docs : c.runId = runId[d]
        BY <1>0, <3>1 DEF FindLost, TypeOK
      <4>2. sweep'.cur = sweep.cur
        BY <1>0, <3>1 DEF FindLost, TypeOK
      <4> QED
        BY <4>1, <4>2
    <3>2. CASE TakeCandidate
      <4>1. PICK c \in sweep.found : sweep' = [sweep EXCEPT !.pc = "cancel", !.found = @ \ {c}, !.cur = c]
        BY <3>2 DEF TakeCandidate
      <4>2. sweep'.found = sweep.found \ {c} /\ sweep'.cur = c
        BY <1>0, <4>1 DEF TypeOK
      <4> QED
        BY <4>2
    <3>3. CASE ~FindLost /\ ~TakeCandidate
      <4>1. /\ sweep'.found \subseteq sweep.found
            /\ sweep'.cur = sweep.cur \/ sweep'.cur.runId = NoRun
        <5>0. sweep \in [pc : {"idle", "recover", "lost", "cancel", "requeue", "admit"},
                        found : SUBSET Candidates, cur : Candidates]
          BY <1>0 DEF TypeOK
        <5>1. CASE EndSweep \/ SweeperDies
          BY <5>1 DEF EndSweep, SweeperDies, SweepIdle, NoCandidate
        <5>2. CASE SkipMoving
          <6>1. PICK c \in sweep.found : sweep' = [sweep EXCEPT !.found = @ \ {c}]
            BY <5>2 DEF SkipMoving
          <6> QED
            BY <5>0, <6>1
        <5>3. CASE CancelFails \/ Requeue
          <6>1. sweep' = [sweep EXCEPT !.pc = "lost", !.cur = NoCandidate]
            BY <5>3 DEF CancelFails, Requeue
          <6> QED
            BY <5>0, <6>1 DEF NoCandidate
        <5>4. CASE SweepExpired \/ AdmitStalled
          <6>1. \E pc : sweep' = [sweep EXCEPT !.pc = pc]
            BY <5>4 DEF SweepExpired, AdmitStalled
          <6> QED
            BY <5>0, <6>1
        <5> QED
          BY <1>2, <3>3, <5>1, <5>2, <5>3, <5>4 DEF Sweep
      <4> QED
        BY <4>1
    <3> QED
      BY <3>1, <3>2, <3>3
  <2>5. \A r \in Runs : r \in abandoned' => r \in abandoned \/ runPc'[r] # "none"
    <3>1. CASE SweeperDies
      BY <1>0, <2>1, <3>1 DEF SweeperDies, Unrecorded, Locals, runVars
    <3>2. CASE ~SweeperDies
      BY <1>2, <3>2 DEF Sweep, SweepExpired, FindLost, TakeCandidate, SkipMoving, CancelFails, Requeue,
         AdmitStalled, EndSweep, hist
    <3> QED
      BY <3>1, <3>2
  <2>6. LostRan'
    BY <2>1, <2>3, <2>4, <2>5, LostRanStep DEF runVars
  <2>7. CASE SweeperDies
    BY <1>0, <2>1, <2>2, <2>6, <2>7, AdmissionLost DEF SweeperDies, runVars
  <2>8. CASE ~SweeperDies
    <3>1. abandoned' = abandoned
      BY <1>2, <2>8 DEF Sweep, SweepExpired, FindLost, TakeCandidate, SkipMoving, CancelFails, Requeue,
         AdmitStalled, EndSweep, hist
    <3>2. \A r \in Runs : Live(r)' <=> Live(r)
      BY <2>1, <2>2, <3>1 DEF Live, runVars
    <3>3. CASE AdmitStalled
      <4>1. adm'[Sweeper].pc # "start" /\ \A b \in Admitters : b # Sweeper => adm'[b] = adm[b]
        BY <1>0, <3>3, AdmitFairlyType DEF AdmitStalled, TypeOK, Resting
      <4> QED
        BY <1>0, <2>2, <2>6, <3>2, <4>1, AdmissionWithdraws
    <3>4. CASE ~AdmitStalled
      <4>1. SameStarts
        BY <1>2, <2>8, <3>4 DEF Sweep, SweepExpired, FindLost, TakeCandidate, SkipMoving, CancelFails,
           Requeue, EndSweep, SameStarts
      <4> QED
        BY <2>2, <2>6, <3>2, <4>1, Unseen
    <3> QED
      BY <3>3, <3>4
  <2> QED
    BY <2>7, <2>8
<1> QED
  BY <1>1, <1>2

LEMMA NextWork ==
  ASSUME ClaimsOnly, OneRunInv, LostRan, TypeInv', [Next]_vars
  PROVE  (Work!Next \/ AbsStays) /\ LostRan'
<1>1. CASE \E a \in Admitters : Admit(a)
  BY <1>1, AdmitWork, AdmitRan
<1>2. CASE \E r \in Runs : Run(r)
  BY <1>2, RunWork
<1>3. CASE \E q \in Requests : Request(q)
  BY <1>3, RequestWork
<1>4. CASE \E d \in Docs : Expire(d)
  BY <1>4, ExpireWork
<1>5. CASE Sweep
  BY <1>5, SweepWork
<1>6. ~Expand
  BY DEF OneRunInv, NoOtherStarts, ClaimsOnly, Expand, ChildRead, ChildStart, ChildRecord
<1>7. CASE UNCHANGED vars
  <2>1. UNCHANGED <<runId, runVars, adm, sweep, abandoned>>
    BY <1>7 DEF vars, docVars, procVars, hist
  <2>2. SameStarts /\ SameRuns /\ \A r \in Runs : Live(r)' <=> Live(r)
    BY <2>1 DEF SameStarts, SameRuns, Live, Writing, runVars
  <2>3. LostRan'
    BY <2>1, LostRanStep DEF runVars
  <2> QED
    BY <2>2, <2>3, Unseen
<1> QED
  BY <1>1, <1>2, <1>3, <1>4, <1>5, <1>6, <1>7 DEF Next, Step, AtRest

LEMMA InitWork ==
  ASSUME Init
  PROVE  Work!Init /\ LostRan
<1>1. \A d \in Docs : Starting(d) = {}
  BY DEF Init, Idle, Starting
<1>2. \A d \in Docs : LiveOn(d) = {}
  BY DEF Init, LiveOn, Live, Writing, Stages, Working
<1>3. EverStarted = {}
  BY DEF Init, EverStarted
<1>4. LostRan
  BY RunIdFacts DEF Init, LostRan, SweepIdle, NoCandidate, Names
<1> QED
  BY <1>1, <1>2, <1>3, <1>4 DEF Work!Init

\* Where only claims and the sweep decide who processes a document, the queue is
\* the abstract one: each document has one reservation or one worker at a time,
\* and a run never takes up again a document it was made to let go.
THEOREM Implements == ClaimsOnly => (Spec => OneWorkerAtATime)
<1> SUFFICES ASSUME ClaimsOnly PROVE Spec => OneWorkerAtATime
  OBVIOUS
<1>1. Init => OneRunInv /\ LostRan /\ Work!Init
  BY InitOneRun, InitWork
<1>2. OneRunInv /\ LostRan /\ [Next]_vars => /\ OneRunInv' /\ LostRan'
                                          /\ [Work!Next]_absVars
  <2> SUFFICES ASSUME OneRunInv, LostRan, [Next]_vars
               PROVE  OneRunInv' /\ LostRan' /\ [Work!Next]_absVars
    OBVIOUS
  <2>1. OneRunInv'
    BY NextOneRun
  <2>2. (Work!Next \/ AbsStays) /\ LostRan'
    BY <2>1, NextWork DEF OneRunInv
  <2> QED
    BY <2>1, <2>2 DEF AbsStays
<1> QED
  BY <1>1, <1>2, PTL DEF Spec, OneWorkerAtATime, Work!Spec, absVars

=============================================================================
