----------------------------- MODULE RenderPool -----------------------------
(* PDF pages drawn on worker threads, within the CPU slots of one process:   *)
(* render-pool.ts (RenderThread, RenderSession, RenderPool), cpu-slots.ts    *)
(* (Semaphore, withCpuSlot), and the callers that open a document, draw its  *)
(* pages some at a time and close it (page-renderer.ts, concurrency.ts).     *)
(*                                                                           *)
(* The process runs on one event loop. What a promise's settling sets off    *)
(* runs before the loop takes anything else up: those actions are "due", and *)
(* every action the loop takes up waits until nothing is due (Quiet). A read *)
(* of storage, and everything the thread itself does, takes time.            *)
EXTENDS Naturals, Sequences, FiniteSets

CONSTANTS
  Documents,  \* the documents opened for drawing, one session each
  Pages,      \* the number of pages drawn of each document
  Width,      \* pages of a document that are under way at once
  Exports,    \* documents drawn inside the CPU slot their export holds
  Cpus,       \* cpuConcurrency(): CPU slots, and threads
  None,       \* stands for null
  MaxLost,    \* bound: threads that crash or whose page takes too long
  MaxStops    \* bound: threads stopped for being idle

Draws   == {d \in Documents \X (1..10) : d[2] <= Pages[d[1]]}
DocOf(d) == d[1]
Users   == Draws \cup Documents            \* what may hold a CPU slot
Threads == 1..(Cpus + MaxLost + MaxStops)  \* in the order they are started

ASSUME DocumentsAssumption ==
  /\ IsFiniteSet(Documents)
  /\ Pages \in [Documents -> 1..10]
  /\ Exports \subseteq Documents
  /\ Documents \cap Draws = {}
  /\ None \notin Documents \cup Draws \cup Nat

ASSUME BoundsAssumption ==
  /\ Width \in Nat \ {0}
  /\ Cpus \in Nat \ {0}
  /\ MaxLost \in Nat
  /\ MaxStops \in Nat

VARIABLES
  caller,    \* where the work on each document is
  draw,      \* where each draw is, the opening it waits on, times it was reopened
  inUse,     \* Semaphore.inUse
  line,      \* Semaphore.queue
  holding,   \* who was given a slot and has not released it
  at,        \* RenderSession.thread
  opened,    \* RenderSession.opened: the last opening, by number
  openings,  \* every opening so far: its document, its thread and its state
  live,      \* RenderPool.threads: the threads that are not dead
  started,   \* threads started so far
  sessions,  \* RenderThread.sessions
  opening,   \* RenderThread.opening: the opening each document's answer settles
  queue,     \* RenderThread.queue
  current,   \* RenderThread.current
  idle,      \* threads whose idle timer runs
  lost,      \* threads that died with work on them
  stops      \* threads stopped for being idle

slotVars   == <<inUse, line, holding>>
threadVars == <<live, started, sessions, opening, queue, current, idle>>
poolVars   == <<at, opened, openings, threadVars>>
vars       == <<caller, draw, slotVars, poolVars, lost, stops>>

Closed(s) == caller[s].pc = "closed"
Ended(d)  == draw[d].pc \in {"drawn", "failed", "lost"}
Asked(d)  == draw[d].pc # "ahead"

-----------------------------------------------------------------------------
(* The CPU slots: first come first served, handed on by whoever releases.    *)

\* Whose slot a draw runs in: its export's, which holds one already, or its own.
HolderOf(d) == IF DocOf(d) \in Exports THEN DocOf(d) ELSE d

Acquire(u) ==
  IF inUse < Cpus /\ line = <<>>
  THEN inUse' = inUse + 1 /\ holding' = holding \cup {u} /\ UNCHANGED line
  ELSE line' = Append(line, u) /\ UNCHANGED <<inUse, holding>>

\* Release that also counts down when it hands its slot on.
ReleaseTwice(u) ==
  IF line # <<>>
  THEN /\ holding' = (holding \ {u}) \cup {Head(line)}
       /\ line' = Tail(line)
       /\ inUse' = inUse - 1
  ELSE holding' = holding \ {u} /\ inUse' = inUse - 1 /\ UNCHANGED line

Release(u) ==
  IF line # <<>>
  THEN /\ holding' = (holding \ {u}) \cup {Head(line)}
       /\ line' = Tail(line)
       /\ UNCHANGED inUse
  ELSE holding' = holding \ {u} /\ inUse' = inUse - 1 /\ UNCHANGED line

\* A page's slot goes back when its draw ends, an export's when the export does.
ReleaseOf(d) == IF DocOf(d) \in Exports THEN UNCHANGED slotVars ELSE Release(d)

-----------------------------------------------------------------------------
(* The pool: which thread a document is opened on.                           *)

Load(t) == Cardinality(sessions[t]) + Len(queue[t])
             + (IF current[t] = None THEN 0 ELSE 1)

\* The least loaded thread, the one started first when several are.
Least == CHOOSE t \in live : \A u \in live :
           Load(t) < Load(u) \/ (Load(t) = Load(u) /\ t <= u)

Pick == IF live = {} \/ (Load(Least) > 0 /\ Cardinality(live) < Cpus)
        THEN started + 1
        ELSE Least

\* The document is open, or being opened, on a thread that still runs.
IsOpen(s) == opened[s] # None /\ at[s] # None /\ at[s] \in live

\* Opens a document anew: picks its thread and begins to read its first bytes.
OpensAnew(s) ==
  /\ openings' = Append(openings,
                        [doc |-> s, thread |-> Pick, state |-> "reading"])
  /\ opened' = [opened EXCEPT ![s] = Len(openings) + 1]
  /\ at' = [at EXCEPT ![s] = Pick]
  /\ live' = live \cup {Pick}
  /\ started' = IF Pick > started THEN Pick ELSE started
  /\ UNCHANGED <<sessions, opening, queue, current, idle>>

\* RenderSession.open, for what then waits on that opening.
Opens(s) == IF IsOpen(s) THEN UNCHANGED poolVars ELSE OpensAnew(s)

Settled(o) == o # None /\ openings[o].state \in {"opened", "lost", "refused"}

-----------------------------------------------------------------------------
(* What is due: it runs before the event loop takes up anything else.        *)

Granted(s) == caller[s].pc = "slot" /\ s \in holding
Finished(s) ==
  /\ caller[s].pc = "drawing"
  /\ \/ \E d \in Draws : DocOf(d) = s /\ draw[d].pc \in {"failed", "lost"}
     \/ \A d \in Draws : DocOf(d) = s => Ended(d)
Sends(d)  == draw[d].pc = "again" \/ (draw[d].pc = "slot" /\ HolderOf(d) \in holding)
Hears(d)  == draw[d].pc = "opening" /\ Settled(draw[d].on)
Learns(s) == caller[s].pc = "opening" /\ Settled(caller[s].on)

\* An export reads from memory: its document is sent on before anything else.
Sendable(o) == openings[o].state = "reading" /\ openings[o].doc \in Exports

Quiet == /\ \A s \in Documents : ~Granted(s) /\ ~Finished(s) /\ ~Learns(s)
         /\ \A d \in Draws : ~Sends(d) /\ ~Hears(d)
         /\ \A o \in DOMAIN openings : ~Sendable(o)

-----------------------------------------------------------------------------
(* The caller: openPageRenderer, the pages some at a time, then close.       *)

\* An export takes its slot before anything else.
TakesSlot(s) ==
  /\ s \in Exports /\ caller[s].pc = "before"
  /\ caller' = [caller EXCEPT ![s].pc = "slot"]
  /\ Acquire(s)
  /\ UNCHANGED <<draw, poolVars, lost, stops>>

OpensDocument(s) ==
  /\ IF s \in Exports THEN Granted(s) ELSE caller[s].pc = "before"
  /\ OpensAnew(s)
  /\ caller' = [caller EXCEPT ![s] = [pc |-> "opening", on |-> Len(openings) + 1]]
  /\ UNCHANGED <<draw, slotVars, lost, stops>>

\* RenderSession.close: the thread forgets the document, if it knows of it yet.
CloseSession(s) ==
  LET t == at[s]
      knows == t # None /\ t \in live /\ s \in sessions[t]
  IN /\ at' = [at EXCEPT ![s] = None]
     /\ sessions' = IF knows THEN [sessions EXCEPT ![t] = @ \ {s}] ELSE sessions
     /\ idle' = IF knows /\ Load(t) = 1 THEN idle \cup {t} ELSE idle
     /\ UNCHANGED <<opened, openings, live, started, opening, queue, current>>

Closes(s) ==
  /\ CloseSession(s)
  /\ caller' = [caller EXCEPT ![s] = [pc |-> "closed", on |-> None]]
  /\ IF s \in Exports THEN Release(s) ELSE UNCHANGED slotVars
  /\ UNCHANGED <<draw, lost, stops>>

\* The document is open, or it could not be opened and that ends the work on it.
LearnsOpened(s) ==
  /\ Learns(s)
  /\ \/ /\ openings[caller[s].on].state = "opened"
        /\ caller' = [caller EXCEPT ![s] = [pc |-> "drawing", on |-> None]]
        /\ UNCHANGED <<draw, slotVars, poolVars, lost, stops>>
     \/ openings[caller[s].on].state # "opened" /\ Closes(s)

\* Every page is drawn, or one could not be: the document is closed, whatever
\* the other workers of mapWithConcurrency are still drawing of it.
ClosesDocument(s) == Finished(s) /\ Closes(s)

\* The next page. A worker whose page failed asks for no more; the others go
\* on, closed document or not.
AsksPage(d) ==
  LET others == {e \in Draws : DocOf(e) = DocOf(d) /\ e # d}
      taken  == {e \in others : Asked(e) /\ draw[e].pc # "drawn"}
  IN /\ ~Asked(d)
     /\ \/ caller[DocOf(d)].pc = "drawing"
        \/ Closed(DocOf(d)) /\ \E e \in others : Asked(e)
     /\ \A e \in others : e[2] < d[2] => Asked(e)
     /\ Cardinality(taken) < (IF DocOf(d) \in Exports THEN 1 ELSE Width)
     /\ draw' = [draw EXCEPT ![d].pc = "slot"]
     /\ IF DocOf(d) \in Exports THEN UNCHANGED slotVars ELSE Acquire(d)
     /\ UNCHANGED <<caller, poolVars, lost, stops>>

-----------------------------------------------------------------------------
(* A draw: RenderSession.redraw.                                             *)

\* The draw is answered, or rejected as a lost thread or as any other failure.
Ends(d, how) ==
  /\ draw' = [draw EXCEPT ![d].pc = how, ![d].on = None]
  /\ ReleaseOf(d)

\* Waits on the document's opening, which it begins when there is none.
SendsDraw(d) ==
  LET s == DocOf(d)
  IN /\ Sends(d)
     /\ \/ /\ Closed(s)
           /\ Ends(d, "failed")
           /\ UNCHANGED poolVars
        \/ /\ ~Closed(s)
           /\ Opens(s)
           /\ draw' = [draw EXCEPT ![d].pc = "opening", ![d].on = opened'[s]]
           /\ UNCHANGED slotVars
     /\ UNCHANGED <<caller, lost, stops>>

\* RenderThread.enqueue: drawn at once when the thread draws nothing.
Enqueue(t, d) ==
  /\ idle' = idle \ {t}
  /\ IF current[t] = None
     THEN current' = [current EXCEPT ![t] = d] /\ UNCHANGED queue
     ELSE queue' = [queue EXCEPT ![t] = Append(@, d)] /\ UNCHANGED current
  /\ UNCHANGED <<at, opened, openings, live, started, sessions, opening>>

HearsOpened(d) ==
  LET t == at[DocOf(d)]
  IN /\ Hears(d) /\ openings[draw[d].on].state = "opened"
     /\ IF t = None \/ t \notin live
        THEN /\ draw' = [draw EXCEPT ![d].pc = "again", ![d].on = None]
             /\ UNCHANGED poolVars
        ELSE /\ draw' = [draw EXCEPT ![d].pc = "sent", ![d].on = None]
             /\ Enqueue(t, d)
     /\ UNCHANGED <<caller, slotVars, lost, stops>>

\* Whether a draw whose document was opening on a thread that died is sent again.
MayReopen(d) == openings[draw[d].on].state = "lost" /\ draw[d].reopened < 1

\* The thread died while the document was opening on it: once more, on another.
HearsLost(d) ==
  LET s == DocOf(d)
  IN /\ Hears(d) /\ MayReopen(d)
     /\ \/ /\ Closed(s)
           /\ draw' = [draw EXCEPT ![d] = [pc |-> "failed", on |-> None, reopened |-> 1]]
           /\ at' = [at EXCEPT ![s] = None]
           /\ opened' = [opened EXCEPT ![s] = None]
           /\ UNCHANGED <<openings, threadVars>>
           /\ ReleaseOf(d)
        \/ /\ ~Closed(s)
           /\ OpensAnew(s)
           /\ draw' = [draw EXCEPT ![d] = [pc |-> "opening", reopened |-> 1,
                                           on |-> Len(openings) + 1]]
           /\ UNCHANGED slotVars
     /\ UNCHANGED <<caller, lost, stops>>

HearsRefused(d) ==
  /\ Hears(d) /\ openings[draw[d].on].state # "opened" /\ ~MayReopen(d)
  /\ Ends(d, IF openings[draw[d].on].state = "lost" THEN "lost" ELSE "failed")
  /\ UNCHANGED <<caller, poolVars, lost, stops>>

-----------------------------------------------------------------------------
(* Storage, and the threads.                                                 *)

\* The thread's documents with one more; and with that one left out.
KeepingNothing(t, s) == sessions
Keeping(t, s) == [sessions EXCEPT ![t] = @ \cup {s}]

\* The first bytes were read: the document is sent to the thread picked for it,
\* whatever has become of that thread, and of the document, since.
SendsDocument(o) ==
  LET s == openings[o].doc
      t == openings[o].thread
  IN /\ openings[o].state = "reading"
     /\ openings' = [openings EXCEPT ![o].state = "sent"]
     /\ sessions' = Keeping(t, s)
     /\ opening' = [opening EXCEPT ![t][s] = o]
     /\ idle' = idle \ {t}
     /\ UNCHANGED <<caller, draw, slotVars, at, opened, live, started, queue,
                    current, lost, stops>>

ReadFails(o) ==
  /\ openings[o].state = "reading" /\ ~Sendable(o)
  /\ openings' = [openings EXCEPT ![o].state = "refused"]
  /\ UNCHANGED <<caller, draw, slotVars, at, opened, threadVars, lost, stops>>

\* The timer of a thread is set when nothing is left on it.
MaybeIdle(t) == idle' = IF t \in live /\ Load(t)' = 0 THEN idle \cup {t} ELSE idle

\* The thread answers that it opened the document, or could not.
Answers(t, s, how) ==
  /\ t \in live /\ opening[t][s] # None
  /\ openings' = [openings EXCEPT ![opening[t][s]].state = how]
  /\ opening' = [opening EXCEPT ![t][s] = None]
  /\ UNCHANGED <<sessions, queue, current>>
  /\ MaybeIdle(t)
  /\ UNCHANGED <<caller, draw, slotVars, at, opened, live, started, lost, stops>>

\* A thread that waits to be asked again; RenderThread.next, once it draws nothing.
NextDrawNone(t) == current' = [current EXCEPT ![t] = None] /\ UNCHANGED queue
NextDraw(t) ==
  IF queue[t] = <<>>
  THEN current' = [current EXCEPT ![t] = None] /\ UNCHANGED queue
  ELSE /\ current' = [current EXCEPT ![t] = Head(queue[t])]
       /\ queue' = [queue EXCEPT ![t] = Tail(@)]

\* The thread answers a draw. It draws nothing of a document it does not have.
AnswersDraw(t, how) ==
  /\ t \in live /\ current[t] # None
  /\ how = "drawn" => DocOf(current[t]) \in sessions[t] /\ opening[t][DocOf(current[t])] = None
  /\ Ends(current[t], how)
  /\ NextDraw(t)
  /\ UNCHANGED sessions
  /\ MaybeIdle(t)
  /\ UNCHANGED <<caller, at, opened, openings, live, started, opening, lost, stops>>

Queued(t) == {queue[t][i] : i \in DOMAIN queue[t]}

\* What becomes of a draw when a thread dies: the page being drawn is lost, the
\* pages behind it are sent again; and a loss that takes them all.
FateAll(t, d) == IF d \in Queued(t) \cup {current[t]} THEN "lost" ELSE draw[d].pc
Fate(t, d) ==
  CASE d = current[t]   -> "lost"
    [] d \in Queued(t)  -> "again"
    [] OTHER            -> draw[d].pc

\* RenderThread.lost: the page being drawn fails; the documents open on the
\* thread are detached from it, and the pages behind are sent again.
Loses(t) ==
  /\ live' = live \ {t}
  /\ idle' = idle \ {t}
  /\ openings' = [o \in DOMAIN openings |->
                    IF \E s \in Documents : opening[t][s] = o
                    THEN [openings[o] EXCEPT !.state = "lost"] ELSE openings[o]]
  /\ opening' = [opening EXCEPT ![t] = [s \in Documents |-> None]]
  /\ at' = [s \in Documents |-> IF s \in sessions[t] THEN None ELSE at[s]]
  /\ opened' = [s \in Documents |-> IF s \in sessions[t] THEN None ELSE opened[s]]
  /\ sessions' = [sessions EXCEPT ![t] = {}]
  /\ queue' = [queue EXCEPT ![t] = <<>>]
  /\ current' = [current EXCEPT ![t] = None]
  /\ draw' = [d \in Draws |-> [draw[d] EXCEPT !.pc = Fate(t, d)]]
  /\ IF current[t] # None THEN ReleaseOf(current[t]) ELSE UNCHANGED slotVars
  /\ UNCHANGED <<caller, started, stops>>

\* The thread crashes or exits, or the page it draws takes too long and the
\* thread is terminated.
Crashes(t) == t \in live /\ lost < MaxLost /\ lost' = lost + 1 /\ Loses(t)

\* The idle timer fires: the thread is stopped.
StopsIdle(t) ==
  /\ t \in live \cap idle /\ stops < MaxStops
  /\ stops' = stops + 1
  /\ live' = live \ {t}
  /\ idle' = idle \ {t}
  /\ UNCHANGED <<caller, draw, slotVars, at, opened, openings, started, sessions,
                 opening, queue, current, lost>>

-----------------------------------------------------------------------------
Init ==
  /\ caller = [s \in Documents |-> [pc |-> "before", on |-> None]]
  /\ draw = [d \in Draws |-> [pc |-> "ahead", on |-> None, reopened |-> 0]]
  /\ inUse = 0 /\ line = <<>> /\ holding = {}
  /\ at = [s \in Documents |-> None]
  /\ opened = [s \in Documents |-> None]
  /\ openings = <<>>
  /\ live = {} /\ started = 0
  /\ sessions = [t \in Threads |-> {}]
  /\ opening = [t \in Threads |-> [s \in Documents |-> None]]
  /\ queue = [t \in Threads |-> <<>>]
  /\ current = [t \in Threads |-> None]
  /\ idle = {} /\ lost = 0 /\ stops = 0

\* The draws and callers whose turn has come: nothing else happens before them.
Due ==
  \/ \E s \in Documents : \/ s \in Exports /\ OpensDocument(s)
                          \/ LearnsOpened(s) \/ ClosesDocument(s)
  \/ \E d \in Draws : \/ SendsDraw(d) \/ HearsOpened(d)
                      \/ HearsLost(d) \/ HearsRefused(d)
  \/ \E o \in DOMAIN openings : Sendable(o) /\ SendsDocument(o)

\* What comes in its own time: new work, storage's answers and the threads'.
Comes ==
  \/ \E s \in Documents : TakesSlot(s) \/ (s \notin Exports /\ OpensDocument(s))
  \/ \E d \in Draws : AsksPage(d)
  \/ \E o \in DOMAIN openings : SendsDocument(o) \/ ReadFails(o)
  \/ \E t \in live : \/ \E s \in Documents, how \in {"opened", "refused"} :
                          Answers(t, s, how)
                    \/ \E how \in {"drawn", "failed"} : AnswersDraw(t, how)

Goes == Due \/ (Quiet /\ Comes)

Next == Goes \/ (Quiet /\ \E t \in live : Crashes(t) \/ StopsIdle(t))

Spec     == Init /\ [][Next]_vars
FairSpec == Spec /\ WF_vars(Goes)
-----------------------------------------------------------------------------
(* Correctness properties.                                                   *)

Callers == [pc : {"before", "slot", "opening", "drawing", "closed"},
            on : Nat \cup {None}]
DrawStates == [pc : {"ahead", "slot", "again", "opening", "sent",
                     "drawn", "failed", "lost"},
               on : Nat \cup {None}, reopened : 0..1]
Openings == [doc : Documents, thread : Threads,
             state : {"reading", "sent", "opened", "lost", "refused"}]

TypeOK ==
  /\ caller \in [Documents -> Callers] /\ draw \in [Draws -> DrawStates]
  /\ inUse \in 0..Cpus /\ line \in Seq(Users) /\ holding \in SUBSET Users
  /\ openings \in Seq(Openings)
  /\ at \in [Documents -> Threads \cup {None}]
  /\ opened \in [Documents -> DOMAIN openings \cup {None}]
  /\ started \in Threads \cup {0} /\ live \in SUBSET (1..started)
  /\ sessions \in [Threads -> SUBSET Documents]
  /\ opening \in [Threads -> [Documents -> DOMAIN openings \cup {None}]]
  /\ queue \in [Threads -> Seq(Draws)] /\ current \in [Threads -> Draws \cup {None}]
  /\ idle \in SUBSET live /\ lost \in 0..MaxLost /\ stops \in 0..MaxStops

\* Bounded twice: no more slots are in use, and no more threads run, than there
\* are CPUs, through every crash, idle stop and document opened anew. The slots
\* in use are those of work that goes on, and nobody waits while one is free:
\* whatever becomes of a draw, its slot comes back and is handed on.
WithinCpus ==
  /\ Cardinality(live) <= Cpus
  /\ inUse = Cardinality(holding) /\ inUse <= Cpus
  /\ line # <<>> => inUse = Cpus
  /\ \A u \in holding : IF u \in Documents THEN caller[u].pc # "closed" ELSE ~Ended(u)

\* A thread that dies costs the page it was drawing: no more pages fail for a
\* lost thread than threads were lost. Not counted are the pages whose document
\* was being opened anew on a thread that died in its turn: they were sent again
\* once, and however many of them wait, the next loss of that kind fails them all.
CostsOnePage ==
  Cardinality({d \in Draws : draw[d].pc = "lost" /\ draw[d].reopened = 0}) <= lost

\* Some page of the document waited on an opening that was lost, and was sent again.
Reopened(s) == \E d \in Draws : DocOf(d) = s /\ draw[d].reopened = 1

\* A thread is asked to draw only of a document it was sent, unless that
\* document was closed since; or was reopened, for then each page that waited
\* opens it anew, and one may be sent where another's opening took the document.
DrawnWhereOpen ==
  \A t \in live : current[t] # None =>
    LET s == DocOf(current[t])
    IN s \in sessions[t] \/ Closed(s) \/ Reopened(s)

\* An opening that nothing will settle: it was sent to a thread that had
\* stopped, or another opening of its document took its place on the thread.
Stranded(o) == /\ openings[o].state = "sent"
               /\ \/ openings[o].thread \notin live
                  \/ opening[openings[o].thread][openings[o].doc] # o

\* The work on a document is over: it is closed, and no page asked for is awaited.
Over(s) == Closed(s) /\ \A d \in Draws : DocOf(d) = s => Ended(d) \/ ~Asked(d)

\* Whatever thread is lost, the work on every document comes to an end.
EveryDocumentEnds == \A s \in Documents : caller[s].pc # "before" ~> Over(s)

\* The work on every document comes to an end, unless an opening was stranded.
EveryDocumentEndsOrStrands ==
  \A s \in Documents : caller[s].pc # "before" ~>
    Over(s) \/ \E o \in DOMAIN openings : Stranded(o)
=============================================================================
