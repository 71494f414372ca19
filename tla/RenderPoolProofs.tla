--------------------------- MODULE RenderPoolProofs ---------------------------
(***************************************************************************)
(* Theorems about RenderPool, for any documents, pages, exports, CPUs and   *)
(* bounds on the faults.                                                    *)
(*                                                                         *)
(* The argument.  A slot is held by whoever works and waited for by whoever  *)
(* does not yet (OwnersInv), so that an acquisition adds somebody new and a  *)
(* release takes somebody away (SlotsInv).  A draw that was sent stands at   *)
(* one place of one thread that runs (PlacesInv), so that it ends once.  A   *)
(* document none of whose pages was reopened is open, or being opened, on    *)
(* one thread that runs at most, the session's (OpenInv): it is opened anew  *)
(* only when that thread is gone.                                           *)
(***************************************************************************)
EXTENDS RenderPool, FiniteSetTheorems, SequenceTheorems, WellFoundedInduction, TLAPS

InLine(u) == \E i \in DOMAIN line : line[i] = u

\* Whoever holds a slot, and whoever holds one or waits for one.
Working(u) ==
  IF u \in Documents
  THEN u \in Exports /\ caller[u].pc \in {"opening", "drawing"}
  ELSE DocOf(u) \notin Exports /\ draw[u].pc \in {"again", "opening", "sent"}

Entitled(u) ==
  IF u \in Documents
  THEN u \in Exports /\ caller[u].pc \in {"slot", "opening", "drawing"}
  ELSE DocOf(u) \notin Exports /\ draw[u].pc \in {"slot", "again", "opening", "sent"}

SlotsInv ==
  /\ IsFiniteSet(holding) /\ inUse = Cardinality(holding)
  /\ line # <<>> => inUse = Cpus
  /\ \A i, j \in DOMAIN line : line[i] = line[j] => i = j
  /\ \A i \in DOMAIN line : line[i] \notin holding

OwnersInv ==
  \A u \in Users : /\ u \in holding \/ InLine(u) => Entitled(u)
                   /\ Working(u) => u \in holding

\* Every thread that was started runs, was lost or was stopped; and whatever is
\* left on a thread, it runs and its idle timer does not.
ThreadsInv ==
  /\ IsFiniteSet(live) /\ Cardinality(live) <= Cpus
  /\ started = Cardinality(live) + lost + stops
  /\ \A t \in Threads : t \notin live \ idle => current[t] = None /\ queue[t] = <<>>

\* A draw on a thread was sent, and stands there once and nowhere else.
PlacesInv ==
  /\ \A t \in Threads : \A d \in Draws :
       d = current[t] \/ d \in Queued(t) => draw[d].pc = "sent"
  /\ \A t, u \in Threads : current[t] # None =>
       /\ current[t] = current[u] => t = u
       /\ current[t] \notin Queued(u)
  /\ \A t, u \in Threads : t # u => Queued(t) \cap Queued(u) = {}
  /\ \A t \in Threads : \A i, j \in DOMAIN queue[t] : queue[t][i] = queue[t][j] => i = j

\* Who waits on an opening, and what refers to one, has one of its own document;
\* a thread has openings that were sent to it.
Waits ==
  /\ \A d \in Draws : draw[d].pc = "opening" =>
       draw[d].on \in DOMAIN openings /\ openings[draw[d].on].doc = DocOf(d)
  /\ \A s \in Documents : caller[s].pc = "opening" => caller[s].on \in DOMAIN openings

Refs ==
  /\ \A s \in Documents : opened[s] # None => openings[opened[s]].doc = s
  /\ \A s \in Documents : at[s] # None =>
       opened[s] # None /\ openings[opened[s]].thread = at[s]
  /\ \A t \in Threads, s \in Documents : opening[t][s] # None =>
       LET o == openings[opening[t][s]] IN o.doc = s /\ o.thread = t /\ o.state = "sent"
  /\ \A o \in DOMAIN openings : openings[o].thread <= started
  /\ \A t \in Threads : t > started => sessions[t] = {}

\* A document is on no thread before it is opened, and its pages are drawn after.
Begun ==
  /\ \A s \in Documents : caller[s].pc \in {"before", "slot"} => at[s] = None
  /\ \A d \in Draws : draw[d].pc # "ahead" => caller[DocOf(d)].pc \in {"drawing", "closed"}

\* Neither closed nor reopened.
Plain(s) == ~Closed(s) /\ ~Reopened(s)

Shut == \A s \in Documents : Closed(s) => at[s] = None

\* A session's thread, while it runs, has the document from when it was sent.
Sent ==
  \A s \in Documents :
    at[s] \in live /\ openings[opened[s]].state \in {"sent", "opened"} => s \in sessions[at[s]]

\* A plain document is on no thread that runs but its session's, nor will be sent
\* to another.
OnOne == \A t \in live, s \in Documents : s \in sessions[t] /\ Plain(s) => at[s] = t

ToOne ==
  \A o \in DOMAIN openings :
    openings[o].state = "reading" /\ openings[o].thread \in live /\ Plain(openings[o].doc)
      => at[openings[o].doc] = openings[o].thread

\* A draw of it waits on the last opening, or on one whose thread is gone.
OnLast ==
  \A d \in Draws : draw[d].pc = "opening" /\ Plain(DocOf(d)) =>
    \/ opened[DocOf(d)] = draw[d].on /\ at[DocOf(d)] \in live
    \/ /\ openings[draw[d].on].thread \notin live
       /\ openings[draw[d].on].state # "opened"

\* A draw of it is on a thread that has it.
Placed ==
  \A t \in live, d \in Draws : d = current[t] \/ d \in Queued(t) =>
    DocOf(d) \in sessions[t] \/ ~Plain(DocOf(d))

OpenInv == Shut /\ Sent /\ OnOne /\ ToOne /\ OnLast /\ Placed

SlotsTyped == inUse \in 0..Cpus /\ line \in Seq(Users) /\ holding \in SUBSET Users

PoolTyped ==
  /\ openings \in Seq(Openings)
  /\ at \in [Documents -> Threads \cup {None}]
  /\ opened \in [Documents -> DOMAIN openings \cup {None}]
  /\ started \in Threads \cup {0} /\ live \in SUBSET (1..started)
  /\ sessions \in [Threads -> SUBSET Documents]
  /\ opening \in [Threads -> [Documents -> DOMAIN openings \cup {None}]]
  /\ queue \in [Threads -> Seq(Draws)] /\ current \in [Threads -> Draws \cup {None}]
  /\ idle \in SUBSET live

\* The pool on its own.
PoolInv == PoolTyped /\ ThreadsInv /\ Refs

Bounded == lost \in 0..MaxLost /\ stops \in 0..MaxStops

Slots == SlotsTyped /\ SlotsInv /\ OwnersInv

Drawing == caller \in [Documents -> Callers] /\ draw \in [Draws -> DrawStates] /\ Bounded

Inv ==
  /\ Drawing
  /\ Slots
  /\ PoolInv
  /\ PlacesInv
  /\ Waits
  /\ Begun
  /\ OpenInv
  /\ CostsOnePage

-----------------------------------------------------------------------------
(* Sets and sequences. *)

\* A set of numbers that has a member has a smallest one.
LEMMA SmallestOf ==
  ASSUME NEW S \in SUBSET Nat, NEW k \in S
  PROVE  \E n \in S : \A m \in S : n <= m
<1> DEFINE I == {1..n : n \in {m \in S : m <= k}}
<1>1. IsFiniteSet(1..k)
  BY FS_Interval
<1>2. IsWellFoundedOn(StrictSubsetOrdering(1..k), SUBSET (1..k))
  BY <1>1, FS_StrictSubsetOrderingWellFounded, FS_FiniteSubsetsOfFinite
<1>3. I \in SUBSET (SUBSET (1..k)) /\ 1..k \in I
  OBVIOUS
<1>4. PICK T \in I : \A U \in I : <<U, T>> \notin StrictSubsetOrdering(1..k)
  BY <1>2, <1>3, WFMin
<1>5. PICK n \in S : n <= k /\ T = 1..n
  BY <1>4
<1>6. ASSUME NEW m \in S, m < n
      PROVE  FALSE
  <2>1. 1..m \in I /\ 1..m \subseteq T /\ n \in T /\ n \notin 1..m
    BY <1>5, <1>6
  <2> QED
    BY <2>1, <1>3, <1>4, <1>5 DEF StrictSubsetOrdering
<1>7. QED
  BY <1>5, <1>6

\* A sequence with one more entry.
LEMMA AppendIs ==
  ASSUME NEW S, NEW q \in Seq(S), NEW e \in S
  PROVE  /\ Append(q, e) \in Seq(S)
         /\ DOMAIN q = 1..Len(q) /\ Len(q) \in Nat
         /\ DOMAIN Append(q, e) = (DOMAIN q) \cup {Len(q) + 1}
         /\ Len(q) + 1 \notin DOMAIN q
         /\ \A i \in DOMAIN q : Append(q, e)[i] = q[i]
         /\ Append(q, e)[Len(q) + 1] = e
<1>1. Append(q, e) \in Seq(S) /\ Len(q) \in Nat /\ DOMAIN q = 1..Len(q)
  BY LenProperties
<1>2. DOMAIN Append(q, e) = 1..(Len(q) + 1)
  BY <1>1, LenProperties
<1> QED
  BY <1>1, <1>2

\* A sequence without its first entry.
LEMMA TailIs ==
  ASSUME NEW S, NEW q \in Seq(S), q # <<>>
  PROVE  /\ Head(q) \in S /\ Head(q) = q[1]
         /\ Tail(q) \in Seq(S)
         /\ 1 \in DOMAIN q
         /\ \A i \in DOMAIN Tail(q) : i + 1 \in DOMAIN q /\ Tail(q)[i] = q[i + 1] /\ i \in Nat /\ i > 0
         /\ \A i \in DOMAIN q : i # 1 => i - 1 \in DOMAIN Tail(q) /\ Tail(q)[i - 1] = q[i]
<1>1. /\ Len(q) \in Nat \ {0} /\ DOMAIN q = 1..Len(q)
      /\ Head(q) \in S /\ Tail(q) \in Seq(S)
      /\ Len(Tail(q)) = Len(q) - 1
      /\ \A i \in 1..Len(Tail(q)) : Tail(q)[i] = q[i + 1]
  BY EmptySeq, LenProperties, HeadTailProperties
<1>2. DOMAIN Tail(q) = 1..(Len(q) - 1)
  BY <1>1, LenProperties
<1>3. Head(q) = q[1]
  BY <1>1
<1> QED
  BY <1>1, <1>2, <1>3

\* The entries of a sequence, as in Queued.
Entries(q) == {q[i] : i \in DOMAIN q}

LEMMA EntriesAre ==
  ASSUME NEW S, NEW q \in Seq(S)
  PROVE  /\ Entries(q) \subseteq S
         /\ \A e \in S : Entries(Append(q, e)) = Entries(q) \cup {e}
         /\ q # <<>> => Entries(q) = {Head(q)} \cup Entries(Tail(q))
         /\ Entries(<<>>) = {}
<1>1. Entries(q) \subseteq S
  BY LenProperties DEF Entries
<1>2. ASSUME NEW e \in S
      PROVE  Entries(Append(q, e)) = Entries(q) \cup {e}
  BY AppendIs DEF Entries
<1>3. ASSUME q # <<>>
      PROVE  Entries(q) = {Head(q)} \cup Entries(Tail(q))
  <2>1. \A e : e \in Entries(q) <=> \E i \in DOMAIN q : q[i] = e
    BY DEF Entries
  <2>2. \A e : e \in Entries(Tail(q)) <=> \E i \in DOMAIN Tail(q) : Tail(q)[i] = e
    BY DEF Entries
  <2>3. PICK r, h : r = Tail(q) /\ h = Head(q)
    OBVIOUS
  <2>4. /\ h = q[1] /\ 1 \in DOMAIN q
        /\ \A i \in DOMAIN r : i + 1 \in DOMAIN q /\ r[i] = q[i + 1]
        /\ \A i \in DOMAIN q : i # 1 => i - 1 \in DOMAIN r /\ r[i - 1] = q[i]
    BY <1>3, <2>3, TailIs
  <2>5. \A e \in Entries(q) : e = h \/ e \in Entries(r)
    BY <2>1, <2>2, <2>3, <2>4
  <2>6. h \in Entries(q) /\ \A e \in Entries(r) : e \in Entries(q)
    BY <2>1, <2>2, <2>3, <2>4
  <2> QED
    BY <2>3, <2>5, <2>6
<1>4. Entries(<<>>) = {}
  BY DEF Entries
<1> QED
  BY <1>1, <1>2, <1>3, <1>4

-----------------------------------------------------------------------------
(* The constants. *)

LEMMA DrawsAre ==
  /\ IsFiniteSet(Draws)
  /\ \A d \in Draws : DocOf(d) \in Documents /\ d \notin Documents /\ d # None
  /\ None \notin Documents /\ None \notin Nat
<1>0. IsFiniteSet(1..10)
  <2>1. \A k \in Nat : IsFiniteSet(1..k)
    BY FS_Interval
  <2> QED
    BY <2>1
<1>1. IsFiniteSet(Documents \X (1..10))
  BY <1>0, DocumentsAssumption, FS_Product
<1>2. Draws \in SUBSET (Documents \X (1..10))
  BY DEF Draws
<1>3. IsFiniteSet(Draws)
  BY <1>1, <1>2, FS_Subset
<1>4. \A d \in Draws : DocOf(d) \in Documents
  BY DEF Draws, DocOf
<1> QED
  BY <1>3, <1>4, DocumentsAssumption

LEMMA ThreadsAre ==
  /\ Threads \subseteq Nat \ {0} /\ None \notin Threads
  /\ Cpus \in Nat \ {0} /\ MaxLost \in Nat /\ MaxStops \in Nat
  /\ \A n \in Nat \ {0} : n <= Cpus + MaxLost + MaxStops => n \in Threads
BY BoundsAssumption, DrawsAre DEF Threads

LEMMA UsersAre ==
  /\ \A d \in Draws : HolderOf(d) \in Users /\ (DocOf(d) \notin Exports => HolderOf(d) = d)
  /\ Draws \subseteq Users /\ Documents \subseteq Users
  /\ \A u \in Users : u \notin Documents => u \in Draws
  /\ Exports \subseteq Documents
BY DrawsAre, DocumentsAssumption DEF HolderOf, Users

\* Every opening is one.
LEMMA OpeningsAre ==
  ASSUME PoolTyped
  PROVE  /\ DOMAIN openings \subseteq Nat /\ None \notin DOMAIN openings
         /\ \A o \in DOMAIN openings :
              /\ openings[o] \in Openings
              /\ openings[o].doc \in Documents /\ openings[o].thread \in Threads
              /\ openings[o].state \in {"reading", "sent", "opened", "lost", "refused"}
<1>1. /\ openings \in Seq(Openings) /\ Len(openings) \in Nat
      /\ DOMAIN openings = 1..Len(openings)
  BY LenProperties DEF PoolTyped
<1>2. \A o \in DOMAIN openings : openings[o] \in Openings
  BY <1>1, ElementOfSeq
<1> QED
  BY <1>1, <1>2, DrawsAre DEF Openings

-----------------------------------------------------------------------------
(* The pool on its own: each of its operations keeps PoolInv. *)

LEMMA LiveAre ==
  ASSUME PoolTyped
  PROVE  /\ live \subseteq Threads /\ started \in Nat /\ started + 1 > started
         /\ \A t \in live : t <= started /\ t # None
         /\ \A n \in Nat : n > started => n \notin live
BY ThreadsAre DEF PoolTyped, Threads

\* The documents and the draws of a thread are so many; none when there are none.
LEMMA WorkIs ==
  ASSUME NEW ss \in SUBSET Documents, NEW q \in Seq(Draws)
  PROVE  /\ Cardinality(ss) \in Nat /\ (Cardinality(ss) = 0 => ss = {})
         /\ Len(q) \in Nat /\ (Len(q) = 0 => q = <<>>)
<1>1. IsFiniteSet(ss)
  BY DocumentsAssumption, FS_Subset
<1> QED
  BY <1>1, FS_CardinalityType, FS_EmptySet, LenProperties, EmptySeq

LEMMA LoadIs ==
  ASSUME PoolTyped, NEW t \in Threads
  PROVE  /\ Load(t) \in Nat
         /\ Load(t) = 0 => queue[t] = <<>> /\ current[t] = None
         /\ \A s \in sessions[t] : Load(t) = 1 => queue[t] = <<>> /\ current[t] = None
<1>1. sessions[t] \in SUBSET Documents /\ queue[t] \in Seq(Draws)
  BY DEF PoolTyped
<1>2. PICK n, m : n = Cardinality(sessions[t]) /\ m = Len(queue[t])
  OBVIOUS
<1>3. n \in Nat /\ m \in Nat /\ (n = 0 => sessions[t] = {}) /\ (m = 0 => queue[t] = <<>>)
  BY <1>1, <1>2, WorkIs
<1>4. Load(t) = n + m + (IF current[t] = None THEN 0 ELSE 1)
  BY <1>2 DEF Load
<1>5. Load(t) \in Nat /\ (Load(t) = 0 => m = 0 /\ current[t] = None)
        /\ (Load(t) = 1 /\ n # 0 => m = 0 /\ current[t] = None)
  BY <1>3, <1>4
<1> QED
  BY <1>3, <1>5

\* While a thread runs, there is a least loaded one, and it runs.
LEMMA LeastIs ==
  ASSUME PoolTyped, live # {}
  PROVE  Least \in live
<1>1. PICK u \in live : TRUE
  OBVIOUS
<1>0. PICK L : L = [t \in live |-> Load(t)]
  OBVIOUS
<1>2. \A t \in live : L[t] = Load(t) /\ L[t] \in Nat /\ t \in Nat
  BY <1>0, LiveAre, LoadIs, ThreadsAre
<1>3. PICK loads : loads = {L[t] : t \in live}
  OBVIOUS
<1>4. loads \in SUBSET Nat /\ L[u] \in loads
  BY <1>2, <1>3
<1>5. PICK n \in loads : \A m \in loads : n <= m
  BY <1>4, SmallestOf
<1>6. PICK v \in live : L[v] = n
  BY <1>3, <1>5
<1>7. PICK firsts : firsts = {t \in live : L[t] = n}
  OBVIOUS
<1>8. firsts \in SUBSET Nat /\ v \in firsts
  BY <1>2, <1>6, <1>7
<1>9. PICK f \in firsts : \A t \in firsts : f <= t
  BY <1>8, SmallestOf
<1>10. f \in live /\ L[f] = n
  BY <1>7
<1>11. ASSUME NEW t \in live
       PROVE  L[f] < L[t] \/ (L[f] = L[t] /\ f <= t)
  <2>1. L[f] <= L[t] /\ L[t] \in Nat /\ L[f] \in Nat
    BY <1>2, <1>3, <1>5, <1>10
  <2>2. L[f] = L[t] => t \in firsts
    BY <1>7, <1>10
  <2> QED
    BY <2>1, <2>2, <1>9
<1>12. \A t \in live : Load(f) < Load(t) \/ (Load(f) = Load(t) /\ f <= t)
  BY <1>2, <1>10, <1>11
<1> QED
  BY <1>10, <1>12 DEF Least

\* The thread picked runs, or is one more than were started while CPUs are free.
LEMMA PickIs ==
  ASSUME PoolTyped, ThreadsInv, Bounded
  PROVE  /\ Pick \in Threads
         /\ Pick \in live \/ (Pick = started + 1 /\ Cardinality(live) < Cpus)
<1>1. CASE live # {} /\ Pick = Least
  BY <1>1, LeastIs, LiveAre
<1>2. CASE Pick = started + 1 /\ (live = {} \/ Cardinality(live) < Cpus)
  <2>1. Cardinality(live) \in Nat /\ Cardinality({}) = 0
    BY FS_CardinalityType, FS_EmptySet DEF ThreadsInv
  <2>2. Cardinality(live) < Cpus
    BY <1>2, <2>1, ThreadsAre
  <2>3. started + 1 \in Nat \ {0} /\ started + 1 <= Cpus + MaxLost + MaxStops
    BY <2>1, <2>2, ThreadsAre DEF ThreadsInv, Bounded
  <2> QED
    BY <1>2, <2>2, <2>3, ThreadsAre
<1> QED
  BY <1>1, <1>2 DEF Pick

\* A document opened anew, on the thread picked.
LEMMA OpensAnewIs ==
  ASSUME PoolInv, Bounded, NEW s \in Documents, OpensAnew(s), UNCHANGED <<lost, stops>>
  PROVE  /\ PoolInv'
         /\ Pick \in live' /\ live' = live \cup {Pick} /\ Pick \in Threads
         /\ Pick \in live \/ Pick = started + 1
         /\ Len(openings) + 1 \notin DOMAIN openings /\ Len(openings) + 1 \in Nat
         /\ DOMAIN openings' = DOMAIN openings \cup {Len(openings) + 1}
         /\ \A o \in DOMAIN openings : openings'[o] = openings[o]
         /\ openings'[Len(openings) + 1] = [doc |-> s, thread |-> Pick, state |-> "reading"]
<1> USE DEF PoolInv
<1>1. Pick \in Threads /\ (Pick \in live \/ (Pick = started + 1 /\ Cardinality(live) < Cpus))
  BY PickIs
<1>2. PICK p, n, e : /\ p = Pick /\ n = Len(openings) + 1
                     /\ e = [doc |-> s, thread |-> p, state |-> "reading"]
  OBVIOUS
<1>3. e \in Openings
  BY <1>1, <1>2 DEF Openings
<1>4. openings' = Append(openings, e) /\ openings \in Seq(Openings)
  BY <1>2 DEF OpensAnew, PoolTyped
<1>5. /\ openings' \in Seq(Openings) /\ n \in Nat /\ n \notin DOMAIN openings
      /\ DOMAIN openings' = DOMAIN openings \cup {n}
      /\ \A o \in DOMAIN openings : openings'[o] = openings[o]
      /\ openings'[n] = e
  BY <1>2, <1>3, <1>4, AppendIs
<1>6. /\ opened' = [opened EXCEPT ![s] = n] /\ at' = [at EXCEPT ![s] = p]
      /\ live' = live \cup {p} /\ started' = (IF p > started THEN p ELSE started)
      /\ UNCHANGED <<sessions, opening, queue, current, idle>>
  BY <1>2 DEF OpensAnew
<1>7. /\ started \in Nat /\ live \subseteq Threads /\ \A t \in live : t <= started
      /\ p \in Nat \ {0} /\ p \in Threads
  BY <1>1, <1>2, LiveAre, ThreadsAre
<1>8. /\ p \in live => started' = started
      /\ p \notin live => p = started + 1 /\ started' = started + 1
      /\ started' \in Threads \cup {0} /\ started <= started' /\ p <= started'
      /\ live' \in SUBSET (1..started')
  <2>1. p \in live => started' = started
    BY <1>6, <1>7
  <2>2. p \notin live => p = started + 1 /\ started' = started + 1
    BY <1>1, <1>2, <1>6, <1>7
  <2>3. started' \in Threads \cup {0} /\ started' \in Nat /\ started <= started' /\ p <= started'
    BY <1>6, <1>7 DEF PoolTyped
  <2>4. live \in SUBSET (1..started)
    BY DEF PoolTyped
  <2> QED
    BY <1>6, <1>7, <2>1, <2>2, <2>3, <2>4
<1>9. PoolTyped'
  <2>1. /\ at \in [Documents -> Threads \cup {None}]
        /\ opened \in [Documents -> DOMAIN openings \cup {None}]
        /\ opening \in [Threads -> [Documents -> DOMAIN openings \cup {None}]]
        /\ idle \in SUBSET live
    BY DEF PoolTyped
  <2>2. at' \in [Documents -> Threads \cup {None}]
    BY <2>1, <1>6, <1>7
  <2>3. opened' \in [Documents -> DOMAIN openings' \cup {None}]
    BY <2>1, <1>5, <1>6
  <2>4. opening' \in [Threads -> [Documents -> DOMAIN openings' \cup {None}]]
    BY <2>1, <1>5, <1>6
  <2>5. idle' \in SUBSET live'
    BY <2>1, <1>6
  <2>6. UNCHANGED <<sessions, queue, current>>
    BY <1>6
  <2> QED
    BY <2>2, <2>3, <2>4, <2>5, <2>6, <1>5, <1>8 DEF PoolTyped
<1>10. ThreadsInv'
  <2>1. IsFiniteSet(live) /\ Cardinality(live) \in Nat /\ Cardinality(live) <= Cpus
    BY FS_CardinalityType DEF ThreadsInv
  <2>2. IsFiniteSet(live') /\ Cardinality(live') = (IF p \in live THEN Cardinality(live) ELSE Cardinality(live) + 1)
    BY <2>1, <1>6, FS_AddElement
  <2>3. Cardinality(live') <= Cpus
    BY <2>1, <2>2, <1>1, <1>2, ThreadsAre
  <2>4. started' = Cardinality(live') + lost' + stops'
    BY <2>1, <2>2, <1>8 DEF ThreadsInv, Bounded
  <2>5. \A t \in Threads : t \notin live' \ idle' => current'[t] = None /\ queue'[t] = <<>>
    BY <1>6 DEF ThreadsInv
  <2> QED
    BY <2>2, <2>3, <2>4, <2>5 DEF ThreadsInv
<1>11. Refs'
  <2>1. /\ \A u \in Documents : opened[u] \in DOMAIN openings \cup {None}
        /\ \A t \in Threads, u \in Documents : opening[t][u] \in DOMAIN openings \cup {None}
        /\ opened \in [Documents -> DOMAIN openings \cup {None}]
        /\ at \in [Documents -> Threads \cup {None}]
        /\ None \notin Nat /\ None \notin Threads
    BY DrawsAre, ThreadsAre DEF PoolTyped
  <2>2. \A u \in Documents : opened'[u] # None => openings'[opened'[u]].doc = u
    BY <2>1, <1>2, <1>5, <1>6 DEF Refs
  <2>3. \A u \in Documents : at'[u] # None =>
          opened'[u] # None /\ openings'[opened'[u]].thread = at'[u]
    BY <2>1, <1>2, <1>5, <1>6 DEF Refs
  <2>4. \A t \in Threads, u \in Documents : opening'[t][u] # None =>
          LET o == openings'[opening'[t][u]] IN o.doc = u /\ o.thread = t /\ o.state = "sent"
    BY <2>1, <1>5, <1>6 DEF Refs
  <2>5. \A o \in DOMAIN openings' : openings'[o].thread <= started'
    <3>1. \A o \in DOMAIN openings : openings[o].thread <= started /\ openings[o].thread \in Nat
      BY OpeningsAre, ThreadsAre DEF Refs
    <3> QED
      BY <3>1, <1>2, <1>5, <1>7, <1>8
  <2>6. \A t \in Threads : t > started' => sessions'[t] = {}
    <3>1. \A t \in Threads : t \in Nat /\ (t > started' => t > started)
      BY <1>7, <1>8, ThreadsAre
    <3> QED
      BY <3>1, <1>6 DEF Refs
  <2> QED
    BY <2>2, <2>3, <2>4, <2>5, <2>6 DEF Refs
<1> QED
  BY <1>1, <1>2, <1>5, <1>6, <1>9, <1>10, <1>11

\* A document that is closed is forgotten by the thread it is on.
LEMMA CloseSessionIs ==
  ASSUME PoolInv, Bounded, NEW s \in Documents, CloseSession(s), UNCHANGED <<lost, stops>>
  PROVE  /\ PoolInv'
         /\ at' = [at EXCEPT ![s] = None]
         /\ UNCHANGED <<opened, openings, live, opening, queue, current>>
         /\ \A t \in Threads, u \in Documents : u # s => (u \in sessions'[t] <=> u \in sessions[t])
         /\ \A t \in Threads : sessions'[t] \subseteq sessions[t]
<1> USE DEF PoolInv
<1>1. PICK t : t = at[s]
  OBVIOUS
<1>2. PICK knows : knows = (t # None /\ t \in live /\ s \in sessions[t])
  OBVIOUS
<1>3. /\ at' = [at EXCEPT ![s] = None]
      /\ sessions' = (IF knows THEN [sessions EXCEPT ![t] = @ \ {s}] ELSE sessions)
      /\ idle' = (IF knows /\ Load(t) = 1 THEN idle \cup {t} ELSE idle)
      /\ UNCHANGED <<opened, openings, live, started, opening, queue, current>>
  BY <1>1, <1>2 DEF CloseSession
<1>4. /\ knows => t \in Threads /\ t \in live /\ s \in sessions[t]
      /\ knows /\ Load(t) = 1 => queue[t] = <<>> /\ current[t] = None
  BY <1>2, LiveAre, LoadIs
<1>5. sessions \in [Threads -> SUBSET Documents] /\ at \in [Documents -> Threads \cup {None}]
  BY DEF PoolTyped
<1>6. /\ sessions' \in [Threads -> SUBSET Documents]
      /\ \A r \in Threads, u \in Documents : u # s => (u \in sessions'[r] <=> u \in sessions[r])
      /\ \A r \in Threads : sessions'[r] \subseteq sessions[r]
  BY <1>3, <1>4, <1>5
<1>7. PoolTyped'
  <2>1. at' \in [Documents -> Threads \cup {None}] /\ idle' \in SUBSET live'
    BY <1>3, <1>4, <1>5 DEF PoolTyped
  <2>2. /\ UNCHANGED <<opened, openings, live, started, opening, queue, current>>
    BY <1>3
  <2> QED
    BY <2>1, <2>2, <1>6 DEF PoolTyped
<1>8. ThreadsInv'
  BY <1>3, <1>4 DEF ThreadsInv
<1>9. Refs'
  BY <1>3, <1>5 DEF Refs
<1> QED
  BY <1>3, <1>6, <1>7, <1>8, <1>9

\* A draw that a thread is asked for stands at its end: what is drawn, or queues.
LEMMA EnqueueIs ==
  ASSUME PoolInv, Bounded, NEW t \in live, NEW d \in Draws, Enqueue(t, d),
         UNCHANGED <<lost, stops>>
  PROVE  /\ PoolInv'
         /\ UNCHANGED <<at, opened, openings, live, sessions, opening>>
         /\ \/ /\ current[t] = None /\ current' = [current EXCEPT ![t] = d]
               /\ UNCHANGED queue
            \/ /\ current[t] # None /\ queue' = [queue EXCEPT ![t] = Append(queue[t], d)]
               /\ UNCHANGED current
<1> USE DEF PoolInv
<1>1. t \in Threads /\ queue[t] \in Seq(Draws) /\ queue \in [Threads -> Seq(Draws)]
        /\ current \in [Threads -> Draws \cup {None}]
  BY LiveAre DEF PoolTyped
<1>2. Append(queue[t], d) \in Seq(Draws)
  BY <1>1, AppendIs
<1>3. /\ idle' = idle \ {t}
      /\ UNCHANGED <<at, opened, openings, live, started, sessions, opening>>
      /\ \/ /\ current[t] = None /\ current' = [current EXCEPT ![t] = d]
            /\ UNCHANGED queue
         \/ /\ current[t] # None /\ queue' = [queue EXCEPT ![t] = Append(queue[t], d)]
            /\ UNCHANGED current
  BY DEF Enqueue
<1>4. PoolTyped'
  <2>1. queue' \in [Threads -> Seq(Draws)] /\ current' \in [Threads -> Draws \cup {None}]
    BY <1>1, <1>2, <1>3
  <2>2. idle' \in SUBSET live'
    BY <1>3 DEF PoolTyped
  <2>3. UNCHANGED <<at, opened, openings, live, started, sessions, opening>>
    BY <1>3
  <2> QED
    BY <2>1, <2>2, <2>3 DEF PoolTyped
<1>5. ThreadsInv'
  <2>1. \A r \in Threads : r \notin live' \ idle' => current'[r] = None /\ queue'[r] = <<>>
    BY <1>1, <1>3 DEF ThreadsInv
  <2> QED
    BY <2>1, <1>3 DEF ThreadsInv
<1>6. Refs'
  BY <1>3 DEF Refs
<1> QED
  BY <1>3, <1>4, <1>5, <1>6

\* A session that is detached has no thread and no opening.
LEMMA DetachIs ==
  ASSUME PoolInv, NEW s \in Documents, UNCHANGED <<lost, stops, openings, threadVars>>,
         at' = [at EXCEPT ![s] = None], opened' = [opened EXCEPT ![s] = None]
  PROVE  PoolInv'
<1> USE DEF PoolInv
<1>1. UNCHANGED <<lost, stops, openings, live, started, sessions, opening, queue, current, idle>>
  BY DEF threadVars
<1>2. at' \in [Documents -> Threads \cup {None}] /\ opened' \in [Documents -> DOMAIN openings' \cup {None}]
  BY <1>1 DEF PoolTyped
<1>3. PoolTyped'
  BY <1>1, <1>2 DEF PoolTyped
<1>4. ThreadsInv'
  BY <1>1 DEF ThreadsInv
<1>5. Refs'
  <2>1. at \in [Documents -> Threads \cup {None}] /\ opened \in [Documents -> DOMAIN openings \cup {None}]
    BY DEF PoolTyped
  <2> QED
    BY <1>1, <2>1 DEF Refs
<1> QED
  BY <1>3, <1>4, <1>5

\* An opening that changes its state changes nothing else of the openings.
LEMMA StateIs ==
  ASSUME PoolTyped, NEW o \in DOMAIN openings,
         NEW how \in {"reading", "sent", "opened", "lost", "refused"},
         openings' = [openings EXCEPT ![o].state = how]
  PROVE  /\ openings' \in Seq(Openings) /\ DOMAIN openings' = DOMAIN openings
         /\ \A r \in DOMAIN openings :
              /\ openings'[r].doc = openings[r].doc /\ openings'[r].thread = openings[r].thread
              /\ openings'[r].state = (IF r = o THEN how ELSE openings[r].state)
<1>1. /\ openings \in Seq(Openings) /\ o \in 1..Len(openings)
      /\ DOMAIN openings = 1..Len(openings)
  BY LenProperties DEF PoolTyped
<1>2. PICK e : e = [openings[o] EXCEPT !.state = how]
  OBVIOUS
<1>3. openings[o] \in Openings
  BY OpeningsAre
<1>4. e \in Openings /\ e.doc = openings[o].doc /\ e.thread = openings[o].thread /\ e.state = how
  BY <1>2, <1>3 DEF Openings
<1>5. openings' = [openings EXCEPT ![o] = e]
  BY <1>2
<1>6. /\ openings' \in Seq(Openings) /\ Len(openings') = Len(openings)
      /\ \A r \in 1..Len(openings) : openings'[r] = (IF r = o THEN e ELSE openings[r])
  BY <1>1, <1>4, <1>5, ExceptSeq
<1>7. DOMAIN openings' = DOMAIN openings
  BY <1>1, <1>6, LenProperties
<1> QED
  BY <1>1, <1>4, <1>6, <1>7

\* An opening whose read failed.
LEMMA ReadFailsIs ==
  ASSUME PoolInv, NEW o \in DOMAIN openings, ReadFails(o)
  PROVE  PoolInv'
<1> USE DEF PoolInv
<1>1. /\ openings' = [openings EXCEPT ![o].state = "refused"]
      /\ openings[o].state = "reading"
      /\ UNCHANGED <<at, opened, live, started, sessions, opening, queue, current, idle, lost, stops>>
  BY DEF ReadFails, threadVars
<1>2. /\ openings' \in Seq(Openings) /\ DOMAIN openings' = DOMAIN openings
      /\ \A r \in DOMAIN openings :
           /\ openings'[r].doc = openings[r].doc /\ openings'[r].thread = openings[r].thread
           /\ openings'[r].state = (IF r = o THEN "refused" ELSE openings[r].state)
  BY <1>1, StateIs
<1>3. PoolTyped'
  BY <1>1, <1>2 DEF PoolTyped
<1>4. ThreadsInv'
  BY <1>1 DEF ThreadsInv
<1>5. Refs'
  <2>1. /\ \A u \in Documents : opened[u] \in DOMAIN openings \cup {None}
        /\ \A t \in Threads, u \in Documents : opening[t][u] \in DOMAIN openings \cup {None}
    BY DEF PoolTyped
  <2> QED
    BY <1>1, <1>2, <2>1 DEF Refs
<1> QED
  BY <1>3, <1>4, <1>5

\* A document sent to the thread that was picked for it.
LEMMA SendsDocumentIs ==
  ASSUME PoolInv, NEW o \in DOMAIN openings, SendsDocument(o),
         NEW s, NEW t, s = openings[o].doc, t = openings[o].thread
  PROVE  /\ PoolInv'
         /\ s \in Documents /\ t \in Threads /\ openings[o].state = "reading"
         /\ UNCHANGED <<caller, draw, slotVars, at, opened, live, queue, current, lost, stops>>
         /\ sessions' = [sessions EXCEPT ![t] = @ \cup {s}]
         /\ DOMAIN openings' = DOMAIN openings
         /\ \A r \in DOMAIN openings :
              /\ openings'[r].doc = openings[r].doc /\ openings'[r].thread = openings[r].thread
              /\ openings'[r].state = (IF r = o THEN "sent" ELSE openings[r].state)
<1> USE DEF PoolInv
<1>1. /\ openings' = [openings EXCEPT ![o].state = "sent"]
      /\ openings[o].state = "reading"
      /\ sessions' = [sessions EXCEPT ![t] = @ \cup {s}]
      /\ opening' = [opening EXCEPT ![t][s] = o]
      /\ idle' = idle \ {t}
      /\ UNCHANGED <<caller, draw, slotVars, at, opened, live, started, queue, current, lost, stops>>
  BY DEF SendsDocument, Keeping
<1>2. s \in Documents /\ t \in Threads
  BY OpeningsAre
<1>3. /\ openings' \in Seq(Openings) /\ DOMAIN openings' = DOMAIN openings
      /\ \A r \in DOMAIN openings :
           /\ openings'[r].doc = openings[r].doc /\ openings'[r].thread = openings[r].thread
           /\ openings'[r].state = (IF r = o THEN "sent" ELSE openings[r].state)
  BY <1>1, StateIs
<1>4. PoolTyped'
  <2>1. sessions' \in [Threads -> SUBSET Documents]
    BY <1>1, <1>2 DEF PoolTyped
  <2>2. opening' \in [Threads -> [Documents -> DOMAIN openings' \cup {None}]]
    BY <1>1, <1>2, <1>3 DEF PoolTyped
  <2>3. idle' \in SUBSET live'
    BY <1>1 DEF PoolTyped
  <2>4. UNCHANGED <<at, opened, live, started, queue, current>>
    BY <1>1
  <2> QED
    BY <2>1, <2>2, <2>3, <2>4, <1>3 DEF PoolTyped
<1>5. ThreadsInv'
  <2>1. \A r \in Threads : r \notin live' \ idle' => current'[r] = None /\ queue'[r] = <<>>
    BY <1>1 DEF ThreadsInv
  <2> QED
    BY <2>1, <1>1 DEF ThreadsInv
<1>6. Refs'
  <2>1. /\ \A u \in Documents : opened[u] \in DOMAIN openings \cup {None}
        /\ \A r \in Threads, u \in Documents : opening[r][u] \in DOMAIN openings \cup {None}
    BY DEF PoolTyped
  <2>2. \A r \in Threads, u \in Documents : opening'[r][u] # None =>
          LET e == openings'[opening'[r][u]] IN e.doc = u /\ e.thread = r /\ e.state = "sent"
    <3> SUFFICES ASSUME NEW r \in Threads, NEW u \in Documents, opening'[r][u] # None
                 PROVE  LET e == openings'[opening'[r][u]]
                        IN e.doc = u /\ e.thread = r /\ e.state = "sent"
      OBVIOUS
    <3>0. opening \in [Threads -> [Documents -> DOMAIN openings \cup {None}]]
      BY DEF PoolTyped
    <3>1. CASE r = t /\ u = s
      <4>1. opening'[r][u] = o
        BY <3>0, <3>1, <1>1, <1>2
      <4> QED
        BY <4>1, <3>1, <1>3
    <3>2. CASE ~(r = t /\ u = s)
      <4>1. opening'[r][u] = opening[r][u]
        BY <3>0, <3>2, <1>1, <1>2
      <4>2. opening[r][u] \in DOMAIN openings /\ openings[opening[r][u]].state = "sent"
              /\ openings[opening[r][u]].doc = u /\ openings[opening[r][u]].thread = r
        BY <4>1, <2>1 DEF Refs
      <4> QED
        BY <4>1, <4>2, <1>1, <1>3
    <3> QED
      BY <3>1, <3>2
  <2>3. /\ \A u \in Documents : opened'[u] # None => openings'[opened'[u]].doc = u
        /\ \A u \in Documents : at'[u] # None =>
             opened'[u] # None /\ openings'[opened'[u]].thread = at'[u]
        /\ \A r \in DOMAIN openings' : openings'[r].thread <= started'
    BY <1>1, <1>3, <2>1 DEF Refs
  <2>4. \A r \in Threads : r > started' => sessions'[r] = {}
    <3>1. t <= started /\ t \in Nat /\ started \in Nat /\ started' = started
      BY <1>1, <1>2, ThreadsAre, LiveAre DEF Refs
    <3>2. \A r \in Threads : r # t => sessions'[r] = sessions[r]
      BY <1>1 DEF PoolTyped
    <3> QED
      BY <3>1, <3>2 DEF Refs
  <2> QED
    BY <2>2, <2>3, <2>4 DEF Refs
<1> QED
  BY <1>1, <1>2, <1>3, <1>4, <1>5, <1>6

\* The idle timer of a thread is set only when nothing is left on it.
LEMMA MaybeIdleIs ==
  ASSUME NEW t \in live, live' = live, idle \in SUBSET live, MaybeIdle(t),
         sessions'[t] \in SUBSET Documents, queue'[t] \in Seq(Draws)
  PROVE  /\ idle' \in SUBSET live /\ idle' \subseteq idle \cup {t}
         /\ t \notin idle /\ t \in idle' => queue'[t] = <<>> /\ current'[t] = None
<1>1. PICK n, m : n = Cardinality(sessions'[t]) /\ m = Len(queue'[t])
  OBVIOUS
<1>2. n \in Nat /\ m \in Nat /\ (m = 0 => queue'[t] = <<>>)
  BY <1>1, WorkIs
<1>3. Load(t)' = n + m + (IF current'[t] = None THEN 0 ELSE 1)
  BY <1>1 DEF Load
<1>4. Load(t)' = 0 => queue'[t] = <<>> /\ current'[t] = None
  BY <1>2, <1>3
<1> QED
  BY <1>4 DEF MaybeIdle

\* A thread's answer settles the opening it answers.
LEMMA AnswersIs ==
  ASSUME PoolInv, NEW t \in live, NEW s \in Documents,
         NEW how \in {"opened", "refused"}, Answers(t, s, how),
         NEW o, o = opening[t][s]
  PROVE  /\ PoolInv'
         /\ o \in DOMAIN openings /\ openings[o].doc = s
         /\ openings[o].thread = t /\ openings[o].state = "sent"
         /\ UNCHANGED <<caller, draw, slotVars, at, opened, live, sessions, queue, current, lost, stops>>
         /\ DOMAIN openings' = DOMAIN openings
         /\ \A r \in DOMAIN openings :
              /\ openings'[r].doc = openings[r].doc /\ openings'[r].thread = openings[r].thread
              /\ openings'[r].state = (IF r = o THEN how ELSE openings[r].state)
<1> USE DEF PoolInv
<1>1. /\ o # None
      /\ openings' = [openings EXCEPT ![o].state = how]
      /\ opening' = [opening EXCEPT ![t][s] = None]
      /\ UNCHANGED <<caller, draw, slotVars, at, opened, live, started, sessions, queue, current, lost, stops>>
      /\ MaybeIdle(t)
  BY DEF Answers
<1>2. t \in Threads /\ opening \in [Threads -> [Documents -> DOMAIN openings \cup {None}]]
  BY LiveAre DEF PoolTyped
<1>3. /\ o \in DOMAIN openings /\ openings[o].doc = s
      /\ openings[o].thread = t /\ openings[o].state = "sent"
  BY <1>1, <1>2 DEF Refs
<1>4. /\ openings' \in Seq(Openings) /\ DOMAIN openings' = DOMAIN openings
      /\ \A r \in DOMAIN openings :
           /\ openings'[r].doc = openings[r].doc /\ openings'[r].thread = openings[r].thread
           /\ openings'[r].state = (IF r = o THEN how ELSE openings[r].state)
  <2>1. PICK k \in DOMAIN openings, h \in {"reading", "sent", "opened", "lost", "refused"} :
          k = o /\ h = how
    BY <1>3
  <2>2. PoolTyped /\ openings' = [openings EXCEPT ![k].state = h]
    BY <1>1, <2>1
  <2>3. /\ openings' \in Seq(Openings) /\ DOMAIN openings' = DOMAIN openings
        /\ \A r \in DOMAIN openings :
             /\ openings'[r].doc = openings[r].doc /\ openings'[r].thread = openings[r].thread
             /\ openings'[r].state = (IF r = k THEN h ELSE openings[r].state)
    BY <2>2, StateIs, ZenonT(40)
  <2> QED
    BY <2>1, <2>3
<1>5. sessions'[t] \in SUBSET Documents /\ queue'[t] \in Seq(Draws) /\ idle \in SUBSET live
  BY <1>1, <1>2 DEF PoolTyped
<1>6. /\ idle' \in SUBSET live /\ idle' \subseteq idle \cup {t}
      /\ t \notin idle /\ t \in idle' => queue'[t] = <<>> /\ current'[t] = None
  BY <1>1, <1>5, MaybeIdleIs
<1>7. PoolTyped'
  <2>1. opening' \in [Threads -> [Documents -> DOMAIN openings' \cup {None}]]
    BY <1>1, <1>2, <1>4
  <2>2. UNCHANGED <<at, opened, live, started, sessions, queue, current>>
    BY <1>1
  <2> QED
    BY <2>1, <2>2, <1>4, <1>6 DEF PoolTyped
<1>8. ThreadsInv'
  BY <1>1, <1>6 DEF ThreadsInv
<1>9. Refs'
  <2>1. \A u \in Documents : opened[u] \in DOMAIN openings \cup {None}
    BY DEF PoolTyped
  <2>2. \A r \in Threads, u \in Documents : opening'[r][u] # None =>
          LET e == openings'[opening'[r][u]] IN e.doc = u /\ e.thread = r /\ e.state = "sent"
    <3> SUFFICES ASSUME NEW r \in Threads, NEW u \in Documents, opening'[r][u] # None
                 PROVE  LET e == openings'[opening'[r][u]]
                        IN e.doc = u /\ e.thread = r /\ e.state = "sent"
      OBVIOUS
    <3>1. ~(r = t /\ u = s) /\ opening'[r][u] = opening[r][u]
      BY <1>1, <1>2
    <3>2. opening[r][u] \in DOMAIN openings /\ openings[opening[r][u]].state = "sent"
            /\ openings[opening[r][u]].doc = u /\ openings[opening[r][u]].thread = r
      BY <3>1, <1>2 DEF Refs
    <3>3. opening[r][u] # o
      BY <3>1, <3>2, <1>3
    <3> QED
      BY <3>1, <3>2, <3>3, <1>4
  <2>3. /\ \A u \in Documents : opened'[u] # None => openings'[opened'[u]].doc = u
        /\ \A u \in Documents : at'[u] # None =>
             opened'[u] # None /\ openings'[opened'[u]].thread = at'[u]
        /\ \A r \in DOMAIN openings' : openings'[r].thread <= started'
    BY <1>1, <1>4, <2>1 DEF Refs
  <2>4. \A r \in Threads : r > started' => sessions'[r] = {}
    BY <1>1 DEF Refs
  <2> QED
    BY <2>2, <2>3, <2>4 DEF Refs
<1> QED
  BY <1>1, <1>3, <1>4, <1>7, <1>8, <1>9

\* A thread that has answered a draw goes on to the next of its queue.
LEMMA NextDrawIs ==
  ASSUME PoolInv, NEW t \in live, NextDraw(t), MaybeIdle(t), current[t] # None,
         UNCHANGED <<at, opened, openings, live, started, sessions, opening, lost, stops>>
  PROVE  PoolInv'
<1> USE DEF PoolInv
<1>1. /\ t \in Threads /\ queue[t] \in Seq(Draws) /\ queue \in [Threads -> Seq(Draws)]
      /\ current \in [Threads -> Draws \cup {None}] /\ idle \in SUBSET live
      /\ sessions'[t] \in SUBSET Documents
  BY LiveAre DEF PoolTyped
<1>2. queue' \in [Threads -> Seq(Draws)] /\ current' \in [Threads -> Draws \cup {None}]
  <2>1. CASE queue[t] = <<>>
    BY <1>1, <2>1 DEF NextDraw
  <2>2. CASE queue[t] # <<>>
    <3>1. Head(queue[t]) \in Draws /\ Tail(queue[t]) \in Seq(Draws)
      BY <1>1, <2>2, TailIs
    <3> QED
      BY <1>1, <2>2, <3>1 DEF NextDraw
  <2> QED
    BY <2>1, <2>2
<1>3. \A r \in Threads : r # t => queue'[r] = queue[r] /\ current'[r] = current[r]
  BY <1>1 DEF NextDraw
<1>4. t \notin idle
  BY <1>1 DEF ThreadsInv
<1>5. /\ idle' \in SUBSET live /\ idle' \subseteq idle \cup {t}
      /\ t \in idle' => queue'[t] = <<>> /\ current'[t] = None
  BY <1>1, <1>2, <1>4, MaybeIdleIs
<1>6. PoolTyped'
  BY <1>2, <1>5 DEF PoolTyped
<1>7. ThreadsInv'
  <2>1. \A r \in Threads : r \notin live' \ idle' => current'[r] = None /\ queue'[r] = <<>>
    BY <1>3, <1>5 DEF ThreadsInv
  <2> QED
    BY <2>1 DEF ThreadsInv
<1>8. Refs'
  BY DEF Refs
<1> QED
  BY <1>6, <1>7, <1>8

\* A thread fewer runs, and one more was lost or stopped.
LEMMA OneFewer ==
  ASSUME PoolInv, Bounded, NEW t \in live, live' = live \ {t}, started' = started,
         \/ lost' = lost + 1 /\ stops' = stops
         \/ lost' = lost /\ stops' = stops + 1
  PROVE  /\ IsFiniteSet(live') /\ Cardinality(live') <= Cpus
         /\ started' = Cardinality(live') + lost' + stops'
<1>1. /\ IsFiniteSet(live) /\ Cardinality(live) \in Nat /\ Cardinality(live) <= Cpus
      /\ started = Cardinality(live) + lost + stops
  BY FS_CardinalityType DEF PoolInv, ThreadsInv
<1>2. IsFiniteSet(live') /\ Cardinality(live') = Cardinality(live) - 1
  BY <1>1, FS_RemoveElement
<1> QED
  BY <1>1, <1>2, ThreadsAre DEF Bounded

\* A thread that is lost has nothing left on it, and settles what was opening on it.
LEMMA LosesIs ==
  ASSUME PoolInv, Bounded, NEW t \in live, Loses(t), lost' = lost + 1
  PROVE  /\ PoolInv' /\ t \in Threads
         /\ live' = live \ {t} /\ UNCHANGED <<caller, stops>>
         /\ at' = [s \in Documents |-> IF s \in sessions[t] THEN None ELSE at[s]]
         /\ opened' = [s \in Documents |-> IF s \in sessions[t] THEN None ELSE opened[s]]
         /\ sessions' = [sessions EXCEPT ![t] = {}]
         /\ queue' = [queue EXCEPT ![t] = <<>>]
         /\ current' = [current EXCEPT ![t] = None]
         /\ DOMAIN openings' = DOMAIN openings
         /\ \A o \in DOMAIN openings :
              /\ openings'[o].doc = openings[o].doc /\ openings'[o].thread = openings[o].thread
              /\ \/ openings'[o].state = openings[o].state
                 \/ openings[o].state = "sent" /\ openings'[o].state = "lost"
<1> USE DEF PoolInv
<1>1. /\ live' = live \ {t} /\ UNCHANGED <<caller, started, stops>>
      /\ idle' = idle \ {t}
      /\ openings' = [o \in DOMAIN openings |->
                        IF \E s \in Documents : opening[t][s] = o
                        THEN [openings[o] EXCEPT !.state = "lost"] ELSE openings[o]]
      /\ opening' = [opening EXCEPT ![t] = [s \in Documents |-> None]]
      /\ at' = [s \in Documents |-> IF s \in sessions[t] THEN None ELSE at[s]]
      /\ opened' = [s \in Documents |-> IF s \in sessions[t] THEN None ELSE opened[s]]
      /\ sessions' = [sessions EXCEPT ![t] = {}]
      /\ queue' = [queue EXCEPT ![t] = <<>>]
      /\ current' = [current EXCEPT ![t] = None]
  BY DEF Loses
<1>2. /\ t \in Threads
      /\ opening \in [Threads -> [Documents -> DOMAIN openings \cup {None}]]
      /\ \A u \in Documents : opened[u] \in DOMAIN openings \cup {None}
      /\ None \notin DOMAIN openings
  BY LiveAre, OpeningsAre DEF PoolTyped
<1>3. \A o \in DOMAIN openings :
        /\ openings'[o] \in Openings
        /\ openings'[o].doc = openings[o].doc /\ openings'[o].thread = openings[o].thread
        /\ \/ openings'[o] = openings[o] /\ \A s \in Documents : opening[t][s] # o
           \/ openings[o].state = "sent" /\ openings'[o].state = "lost"
                /\ openings[o].thread = t
  <2> SUFFICES ASSUME NEW o \in DOMAIN openings
               PROVE  /\ openings'[o] \in Openings
                      /\ openings'[o].doc = openings[o].doc /\ openings'[o].thread = openings[o].thread
                      /\ \/ openings'[o] = openings[o] /\ \A s \in Documents : opening[t][s] # o
                         \/ openings[o].state = "sent" /\ openings'[o].state = "lost"
                              /\ openings[o].thread = t
    OBVIOUS
  <2>1. openings[o] \in Openings
    BY OpeningsAre
  <2>2. CASE \E s \in Documents : opening[t][s] = o
    <3>1. openings[o].state = "sent" /\ openings[o].thread = t
      BY <2>2, <1>2 DEF Refs
    <3>2. openings'[o] = [openings[o] EXCEPT !.state = "lost"]
      BY <2>2, <1>1
    <3> QED
      BY <2>1, <3>1, <3>2 DEF Openings
  <2>3. CASE ~\E s \in Documents : opening[t][s] = o
    <3>1. openings'[o] = openings[o]
      BY <2>3, <1>1
    <3> QED
      BY <2>1, <2>3, <3>1
  <2> QED
    BY <2>2, <2>3
<1>4. DOMAIN openings' = DOMAIN openings /\ openings' \in Seq(Openings)
  <2>1. openings \in Seq(Openings) /\ Len(openings) \in Nat /\ DOMAIN openings = 1..Len(openings)
    BY LenProperties DEF PoolTyped
  <2>2. openings' \in [1..Len(openings) -> Openings]
    BY <2>1, <1>1, <1>3
  <2>3. openings' \in Seq(Openings)
    BY <2>1, <2>2
  <2> QED
    BY <2>3, <1>1
<1>5. PoolTyped'
  <2>1. opening' \in [Threads -> [Documents -> DOMAIN openings' \cup {None}]]
    BY <1>1, <1>2, <1>4
  <2>2. at' \in [Documents -> Threads \cup {None}] /\ opened' \in [Documents -> DOMAIN openings' \cup {None}]
    BY <1>1, <1>2, <1>4 DEF PoolTyped
  <2>3. sessions' \in [Threads -> SUBSET Documents] /\ current' \in [Threads -> Draws \cup {None}]
    BY <1>1, <1>2 DEF PoolTyped
  <2>4. queue' \in [Threads -> Seq(Draws)]
    BY <1>1, <1>2, EmptySeq DEF PoolTyped
  <2>5. started' \in Threads \cup {0} /\ live' \in SUBSET (1..started') /\ idle' \in SUBSET live'
    BY <1>1 DEF PoolTyped
  <2> QED
    BY <2>1, <2>2, <2>3, <2>4, <2>5, <1>4 DEF PoolTyped
<1>6. ThreadsInv'
  <2>1. /\ IsFiniteSet(live') /\ Cardinality(live') <= Cpus
        /\ started' = Cardinality(live') + lost' + stops'
    BY <1>1, OneFewer
  <2>2. \A r \in Threads : r \notin live' \ idle' => current'[r] = None /\ queue'[r] = <<>>
    BY <1>1, <1>2 DEF ThreadsInv, PoolTyped
  <2> QED
    BY <2>1, <2>2 DEF ThreadsInv
<1>7. Refs'
  <2>1. \A r \in Threads, u \in Documents : opening'[r][u] # None =>
          LET e == openings'[opening'[r][u]] IN e.doc = u /\ e.thread = r /\ e.state = "sent"
    <3> SUFFICES ASSUME NEW r \in Threads, NEW u \in Documents, opening'[r][u] # None
                 PROVE  LET e == openings'[opening'[r][u]]
                        IN e.doc = u /\ e.thread = r /\ e.state = "sent"
      OBVIOUS
    <3>1. r # t /\ opening'[r][u] = opening[r][u]
      BY <1>1, <1>2
    <3>2. opening[r][u] \in DOMAIN openings /\ openings[opening[r][u]].state = "sent"
            /\ openings[opening[r][u]].doc = u /\ openings[opening[r][u]].thread = r
      BY <3>1, <1>2 DEF Refs
    <3>3. openings'[opening[r][u]] = openings[opening[r][u]]
      BY <3>1, <3>2, <1>3
    <3> QED
      BY <3>1, <3>2, <3>3
  <2>2. /\ \A u \in Documents : opened'[u] # None => openings'[opened'[u]].doc = u
        /\ \A u \in Documents : at'[u] # None =>
             opened'[u] # None /\ openings'[opened'[u]].thread = at'[u]
        /\ \A r \in DOMAIN openings' : openings'[r].thread <= started'
    BY <1>1, <1>2, <1>3, <1>4 DEF Refs
  <2>3. \A r \in Threads : r > started' => sessions'[r] = {}
    BY <1>1 DEF Refs, PoolTyped
  <2> QED
    BY <2>1, <2>2, <2>3 DEF Refs
<1>8. \A o \in DOMAIN openings :
        \/ openings'[o].state = openings[o].state
        \/ openings[o].state = "sent" /\ openings'[o].state = "lost"
  BY <1>3
<1> QED
  BY <1>1, <1>2, <1>3, <1>4, <1>5, <1>6, <1>7, <1>8

\* A thread that is stopped for being idle had nothing to draw.
LEMMA StopsIdleIs ==
  ASSUME PoolInv, Bounded, NEW t \in live, StopsIdle(t)
  PROVE  PoolInv'
<1> USE DEF PoolInv
<1>1. /\ t \in idle /\ stops' = stops + 1 /\ live' = live \ {t} /\ idle' = idle \ {t}
      /\ UNCHANGED <<at, opened, openings, started, sessions, opening, queue, current, lost>>
  BY DEF StopsIdle
<1>2. PoolTyped'
  <2>1. live' \in SUBSET (1..started') /\ idle' \in SUBSET live'
    BY <1>1 DEF PoolTyped
  <2>2. UNCHANGED <<at, opened, openings, started, sessions, opening, queue, current>>
    BY <1>1
  <2> QED
    BY <2>1, <2>2 DEF PoolTyped
<1>3. ThreadsInv'
  <2>1. /\ IsFiniteSet(live') /\ Cardinality(live') <= Cpus
        /\ started' = Cardinality(live') + lost' + stops'
    BY <1>1, OneFewer
  <2>2. \A r \in Threads : r \notin live' \ idle' => current'[r] = None /\ queue'[r] = <<>>
    BY <1>1 DEF ThreadsInv
  <2> QED
    BY <2>1, <2>2 DEF ThreadsInv
<1>4. Refs'
  BY <1>1 DEF Refs
<1> QED
  BY <1>2, <1>3, <1>4

-----------------------------------------------------------------------------
(* The CPU slots on their own. *)

\* Nobody takes a slot or gives one back: who waits or holds goes on to, and
\* whoever begins to work holds one.
LEMMA SlotsKept ==
  ASSUME Slots, UNCHANGED slotVars,
         \A u \in Users : /\ Entitled(u) => Entitled(u)'
                          /\ Working(u)' => Working(u) \/ u \in holding
  PROVE  Slots'
<1>1. UNCHANGED <<inUse, line, holding>>
  BY DEF slotVars
<1>2. \A u \in Users : InLine(u)' <=> InLine(u)
  BY <1>1 DEF InLine
<1>3. SlotsTyped' /\ SlotsInv'
  BY <1>1 DEF Slots, SlotsTyped, SlotsInv
<1>4. OwnersInv'
  BY <1>1, <1>2 DEF Slots, OwnersInv
<1> QED
  BY <1>3, <1>4 DEF Slots

\* Somebody new takes a slot, or waits for one.
LEMMA SlotTaken ==
  ASSUME Slots, NEW u \in Users, Acquire(u),
         ~Entitled(u), Entitled(u)', ~Working(u)',
         \A v \in Users : v # u => /\ Entitled(v) => Entitled(v)'
                                   /\ Working(v)' => Working(v)
  PROVE  Slots'
<1>1. /\ IsFiniteSet(holding) /\ inUse = Cardinality(holding) /\ holding \in SUBSET Users
      /\ line \in Seq(Users) /\ inUse \in 0..Cpus
      /\ line # <<>> => inUse = Cpus
      /\ \A i, j \in DOMAIN line : line[i] = line[j] => i = j
      /\ \A i \in DOMAIN line : line[i] \notin holding
  BY DEF Slots, SlotsTyped, SlotsInv
<1>2. u \notin holding /\ \A i \in DOMAIN line : line[i] # u
  BY DEF Slots, OwnersInv, InLine
<1>3. CASE /\ inUse < Cpus /\ line = <<>>
           /\ inUse' = inUse + 1 /\ holding' = holding \cup {u} /\ line' = line
  <2>1. IsFiniteSet(holding') /\ inUse' = Cardinality(holding')
    BY <1>1, <1>2, <1>3, FS_AddElement
  <2>2. SlotsTyped' /\ SlotsInv'
    BY <2>1, <1>1, <1>3, ThreadsAre DEF SlotsTyped, SlotsInv
  <2>3. \A v \in Users : v \in holding' \/ InLine(v)' => v = u \/ v \in holding \/ InLine(v)
    BY <1>3 DEF InLine
  <2>4. OwnersInv'
    BY <2>3, <1>3 DEF Slots, OwnersInv
  <2> QED
    BY <2>2, <2>4 DEF Slots
<1>4. CASE /\ ~(inUse < Cpus /\ line = <<>>)
           /\ line' = Append(line, u) /\ inUse' = inUse /\ holding' = holding
  <2>1. PICK n, q : n = Len(line) + 1 /\ q = line'
    OBVIOUS
  <2>2. /\ q \in Seq(Users) /\ DOMAIN q = (DOMAIN line) \cup {n} /\ n \notin DOMAIN line
        /\ \A i \in DOMAIN line : q[i] = line[i]
        /\ q[n] = u
    BY <1>1, <1>4, <2>1, AppendIs
  <2>3. inUse = Cpus
    BY <1>1, <1>4, ThreadsAre
  <2>4. \A i, j \in DOMAIN q : q[i] = q[j] => i = j
    BY <1>1, <1>2, <2>2
  <2>5. \A i \in DOMAIN q : q[i] \notin holding
    BY <1>1, <1>2, <2>2
  <2>6. SlotsTyped' /\ SlotsInv'
    BY <2>1, <2>2, <2>3, <2>4, <2>5, <1>1, <1>4 DEF SlotsTyped, SlotsInv
  <2>7. \A v \in Users : InLine(v)' => v = u \/ InLine(v)
    BY <2>1, <2>2 DEF InLine
  <2>8. OwnersInv'
    BY <2>7, <1>4 DEF Slots, OwnersInv
  <2> QED
    BY <2>6, <2>8 DEF Slots
<1> QED
  BY <1>3, <1>4 DEF Acquire

\* Whoever is over gives the slot back, or hands it on to the first who waits.
LEMMA SlotGiven ==
  ASSUME Slots, NEW u \in Users, Release(u), u \in holding, ~Working(u)',
         \A v \in Users : v # u => /\ Entitled(v) => Entitled(v)'
                                   /\ Working(v)' => Working(v)
  PROVE  Slots'
<1>1. /\ IsFiniteSet(holding) /\ inUse = Cardinality(holding) /\ holding \in SUBSET Users
      /\ line \in Seq(Users) /\ inUse \in 0..Cpus
      /\ line # <<>> => inUse = Cpus
      /\ \A i, j \in DOMAIN line : line[i] = line[j] => i = j
      /\ \A i \in DOMAIN line : line[i] \notin holding
  BY DEF Slots, SlotsTyped, SlotsInv
<1>2. PICK others : others = holding \ {u}
  OBVIOUS
<1>3. /\ IsFiniteSet(others) /\ Cardinality(others) = inUse - 1 /\ Cardinality(others) \in Nat
  BY <1>1, <1>2, FS_RemoveElement, FS_CardinalityType
<1>4. CASE /\ line # <<>>
           /\ holding' = others \cup {Head(line)} /\ line' = Tail(line) /\ inUse' = inUse
  <2>1. PICK q, h : q = Tail(line) /\ h = Head(line)
    OBVIOUS
  <2>2. /\ h \in Users /\ h = line[1] /\ 1 \in DOMAIN line /\ q \in Seq(Users)
        /\ \A i \in DOMAIN q : i + 1 \in DOMAIN line /\ q[i] = line[i + 1] /\ i \in Nat /\ i > 0
    BY <1>1, <1>4, <2>1, TailIs
  <2>3. h \notin holding /\ h # u /\ h \notin others
    BY <1>1, <1>2, <2>2
  <2>4. IsFiniteSet(holding') /\ Cardinality(holding') = inUse'
    <3>1. holding' = others \cup {h}
      BY <1>4, <2>1
    <3>2. IsFiniteSet(holding') /\ Cardinality(holding') = Cardinality(others) + 1
      BY <3>1, <1>3, <2>3, FS_AddElement
    <3> QED
      BY <3>2, <1>1, <1>3, <1>4
  <2>5. \A i, j \in DOMAIN q : q[i] = q[j] => i = j
    <3> SUFFICES ASSUME NEW i \in DOMAIN q, NEW j \in DOMAIN q, q[i] = q[j]
                 PROVE  i = j
      OBVIOUS
    <3>1. i + 1 = j + 1
      BY <1>1, <2>2
    <3> QED
      BY <3>1, <2>2
  <2>6. \A i \in DOMAIN q : q[i] \notin holding /\ q[i] # h
    <3> SUFFICES ASSUME NEW i \in DOMAIN q
                 PROVE  q[i] \notin holding /\ q[i] # h
      OBVIOUS
    <3>1. i + 1 \in DOMAIN line /\ q[i] = line[i + 1] /\ i + 1 # 1
      BY <2>2
    <3> QED
      BY <3>1, <1>1, <2>2
  <2>7. \A i \in DOMAIN q : q[i] \notin holding'
    BY <2>6, <1>2, <1>4, <2>1
  <2>8. SlotsTyped' /\ SlotsInv'
    BY <2>1, <2>2, <2>4, <2>5, <2>7, <1>1, <1>2, <1>4 DEF SlotsTyped, SlotsInv
  <2>9. \A v \in Users : InLine(v)' => InLine(v) /\ v # u
    BY <1>1, <1>4, <2>1, <2>2 DEF InLine
  <2>10. InLine(h)
    BY <2>2 DEF InLine
  <2>11. \A v \in Users : v \in holding' \/ InLine(v)' => v # u /\ (v \in holding \/ InLine(v))
    BY <2>1, <2>3, <2>9, <2>10, <1>2, <1>4
  <2>12. \A v \in Users : v # u /\ v \in holding => v \in holding'
    BY <1>2, <1>4
  <2>13. OwnersInv'
    BY <2>11, <2>12 DEF Slots, OwnersInv
  <2> QED
    BY <2>8, <2>13 DEF Slots
<1>5. CASE /\ line = <<>>
           /\ holding' = others /\ inUse' = inUse - 1 /\ line' = line
  <2>1. SlotsTyped' /\ SlotsInv'
    BY <1>1, <1>2, <1>3, <1>5, ThreadsAre DEF SlotsTyped, SlotsInv
  <2>2. \A v \in Users : ~InLine(v)'
    BY <1>5 DEF InLine
  <2>3. OwnersInv'
    BY <2>2, <1>2, <1>5 DEF Slots, OwnersInv
  <2> QED
    BY <2>1, <2>3 DEF Slots
<1> QED
  BY <1>2, <1>4, <1>5 DEF Release

-----------------------------------------------------------------------------
(* What several actions do to the draws, and keep. *)

LEMMA RecordsAre ==
  ASSUME Drawing
  PROVE  /\ \A s \in Documents :
              /\ caller[s] \in Callers /\ caller[s].on \in Nat \cup {None}
              /\ caller[s].pc \in {"before", "slot", "opening", "drawing", "closed"}
         /\ \A d \in Draws :
              /\ draw[d] \in DrawStates /\ draw[d].on \in Nat \cup {None}
              /\ draw[d].reopened \in 0..1
              /\ draw[d].pc \in {"ahead", "slot", "again", "opening", "sent",
                                 "drawn", "failed", "lost"}
BY DEF Drawing, Callers, DrawStates

\* One draw goes on, and the others stay where they are.
LEMMA OneDraw ==
  ASSUME Drawing, NEW d \in Draws,
         NEW pc \in {"ahead", "slot", "again", "opening", "sent", "drawn", "failed", "lost"},
         NEW on \in Nat \cup {None},
         draw' = [draw EXCEPT ![d].pc = pc, ![d].on = on]
  PROVE  /\ draw' \in [Draws -> DrawStates]
         /\ draw'[d].pc = pc /\ draw'[d].on = on /\ draw'[d].reopened = draw[d].reopened
         /\ \A e \in Draws : e # d => draw'[e] = draw[e]
<1>1. draw[d] \in DrawStates /\ draw \in [Draws -> DrawStates]
  BY RecordsAre DEF Drawing
<1>2. PICK r : r = [draw[d] EXCEPT !.pc = pc, !.on = on]
  OBVIOUS
<1>3. r \in DrawStates /\ r.pc = pc /\ r.on = on /\ r.reopened = draw[d].reopened
  BY <1>1, <1>2 DEF DrawStates
<1>4. draw' = [draw EXCEPT ![d] = r]
  BY <1>2
<1> QED
  BY <1>1, <1>3, <1>4

\* A draw that is reopened, or fails because it would be.
LEMMA OneReopened ==
  ASSUME Drawing, NEW d \in Draws, NEW pc \in {"opening", "failed"},
         NEW on \in Nat \cup {None},
         draw' = [draw EXCEPT ![d] = [pc |-> pc, on |-> on, reopened |-> 1]]
  PROVE  /\ draw' \in [Draws -> DrawStates]
         /\ draw'[d].pc = pc /\ draw'[d].on = on /\ draw'[d].reopened = 1
         /\ \A e \in Draws : e # d => draw'[e] = draw[e]
<1>1. draw \in [Draws -> DrawStates]
  BY DEF Drawing
<1>2. PICK r : r = [pc |-> pc, on |-> on, reopened |-> 1]
  OBVIOUS
<1>3. r \in DrawStates /\ r.pc = pc /\ r.on = on /\ r.reopened = 1
  BY <1>2 DEF DrawStates
<1>4. draw' = [draw EXCEPT ![d] = r]
  BY <1>2
<1> QED
  BY <1>1, <1>3, <1>4

\* The threads' draws stay where they are, and none that was sent is anything else.
LEMMA PlacesKept ==
  ASSUME PlacesInv, UNCHANGED <<queue, current>>,
         \A d \in Draws : draw[d].pc = "sent" => draw'[d].pc = "sent"
  PROVE  PlacesInv'
BY DEF PlacesInv, Queued

\* No page more is lost, of those that were not reopened.
LEMMA CostsKept ==
  ASSUME CostsOnePage, Bounded, UNCHANGED lost,
         \A d \in Draws : draw'[d].pc = "lost" /\ draw'[d].reopened = 0
                            => draw[d].pc = "lost" /\ draw[d].reopened = 0
  PROVE  CostsOnePage'
<1>1. PICK S : S = {d \in Draws : draw[d].pc = "lost" /\ draw[d].reopened = 0}
  OBVIOUS
<1>2. PICK T : T = {d \in Draws : draw'[d].pc = "lost" /\ draw'[d].reopened = 0}
  OBVIOUS
<1>3. S \in SUBSET Draws /\ T \in SUBSET S
  BY <1>1, <1>2
<1>4. IsFiniteSet(S)
  BY <1>3, DrawsAre, FS_Subset
<1>5. Cardinality(T) <= Cardinality(S) /\ Cardinality(T) \in Nat /\ Cardinality(S) \in Nat
  BY <1>3, <1>4, FS_Subset, FS_CardinalityType
<1>6. Cardinality(S) <= lost
  BY <1>1 DEF CostsOnePage
<1>7. Cardinality(T) <= lost'
  BY <1>5, <1>6 DEF Bounded
<1> QED
  BY <1>2, <1>7 DEF CostsOnePage

\* A document is plain no longer than before: it stays closed, and reopened.
LEMMA PlainBefore ==
  ASSUME \A s \in Documents : caller[s].pc = "closed" => caller'[s].pc = "closed",
         \A d \in Draws : draw[d].reopened = 1 => draw'[d].reopened = 1
  PROVE  \A s \in Documents : Plain(s)' => Plain(s)
BY DEF Plain, Closed, Reopened

\* The pool stays as it is, and whoever waits for an opening did so before, or
\* waits for its session's last one.
LEMMA OpenKept ==
  ASSUME OpenInv, PoolInv, Waits, UNCHANGED poolVars,
         \A s \in Documents : caller'[s].pc = "closed" => caller[s].pc = "closed",
         \A s \in Documents : Plain(s)' => Plain(s),
         \A d \in Draws : draw'[d].pc = "opening" =>
           \/ draw[d].pc = "opening" /\ draw'[d].on = draw[d].on
           \/ draw'[d].on = opened[DocOf(d)] /\ at[DocOf(d)] \in live
  PROVE  OpenInv'
<1>1. UNCHANGED <<at, opened, openings, live, started, sessions, opening, queue, current, idle>>
  BY DEF poolVars, threadVars
<1>2. Shut'
  BY <1>1 DEF OpenInv, Shut, Closed
<1>3. Sent'
  BY <1>1 DEF OpenInv, Sent
<1>4. OnOne'
  BY <1>1 DEF OpenInv, OnOne
<1>5. ToOne'
  BY <1>1, OpeningsAre DEF OpenInv, ToOne, PoolInv
<1>6. OnLast'
  BY <1>1, DrawsAre DEF OpenInv, OnLast
<1>7. Placed'
  BY <1>1, DrawsAre DEF OpenInv, Placed, Queued
<1> QED
  BY <1>2, <1>3, <1>4, <1>5, <1>6, <1>7 DEF OpenInv

\* A document is opened anew that was not open; or that is reopened.
LEMMA OpenedAnew ==
  ASSUME OpenInv, PoolInv, Waits, Bounded, NEW s \in Documents,
         OpensAnew(s), UNCHANGED <<lost, stops>>,
         caller[s].pc # "closed", Plain(s)' => ~IsOpen(s),
         \A u \in Documents : caller'[u].pc = "closed" => caller[u].pc = "closed",
         \A u \in Documents : Plain(u)' => Plain(u),
         \A d \in Draws : draw'[d].pc = "opening" =>
           \/ draw[d].pc = "opening" /\ draw'[d].on = draw[d].on
           \/ DocOf(d) = s /\ draw'[d].on = Len(openings) + 1
  PROVE  OpenInv'
<1>1. PICK p, n : p = Pick /\ n = Len(openings) + 1
  OBVIOUS
<1>2. /\ opened' = [opened EXCEPT ![s] = n] /\ at' = [at EXCEPT ![s] = p]
      /\ UNCHANGED <<sessions, opening, queue, current, idle>>
  BY <1>1 DEF OpensAnew
<1>3. /\ p \in live' /\ live' = live \cup {p} /\ p \in Threads
      /\ p \in live \/ p = started + 1
      /\ n \notin DOMAIN openings /\ n \in Nat
      /\ DOMAIN openings' = DOMAIN openings \cup {n}
      /\ \A o \in DOMAIN openings : openings'[o] = openings[o]
      /\ openings'[n].doc = s /\ openings'[n].thread = p /\ openings'[n].state = "reading"
  <2>1. openings'[n] = [doc |-> s, thread |-> p, state |-> "reading"]
    BY <1>1, OpensAnewIs
  <2>2. /\ p \in live' /\ live' = live \cup {p} /\ p \in Threads
        /\ p \in live \/ p = started + 1
        /\ n \notin DOMAIN openings /\ n \in Nat
        /\ DOMAIN openings' = DOMAIN openings \cup {n}
        /\ \A o \in DOMAIN openings : openings'[o] = openings[o]
    BY <1>1, OpensAnewIs
  <2> QED
    BY <2>1, <2>2
<1>4. /\ at \in [Documents -> Threads \cup {None}] /\ None \notin Threads /\ None \notin live
      /\ opened \in [Documents -> DOMAIN openings \cup {None}]
      /\ live \subseteq Threads /\ \A t \in live : t # started + 1
  BY LiveAre, ThreadsAre DEF PoolInv, PoolTyped
<1>5. /\ \A u \in Documents : at[u] # None =>
           opened[u] \in DOMAIN openings /\ openings[opened[u]].thread = at[u]
      /\ \A o \in DOMAIN openings : openings[o].thread # started + 1
           /\ openings[o].doc \in Documents
      /\ p \notin live => sessions[p] = {}
      /\ p \notin live => current[p] = None /\ queue[p] = <<>>
  <2>1. \A u \in Documents : at[u] # None =>
          opened[u] \in DOMAIN openings /\ openings[opened[u]].thread = at[u]
    BY <1>4 DEF PoolInv, Refs
  <2>2. \A o \in DOMAIN openings : openings[o].thread # started + 1 /\ openings[o].doc \in Documents
    <3>1. \A o \in DOMAIN openings : openings[o].thread \in Threads /\ openings[o].thread <= started
            /\ openings[o].doc \in Documents
      BY OpeningsAre DEF PoolInv, Refs
    <3> QED
      BY <3>1, LiveAre, ThreadsAre DEF PoolInv
  <2>3. p \notin live => sessions[p] = {}
    <3>1. p = started + 1 => p > started
      BY LiveAre DEF PoolInv
    <3> QED
      BY <3>1, <1>3 DEF PoolInv, Refs
  <2>4. p \notin live => current[p] = None /\ queue[p] = <<>>
    BY <1>3 DEF PoolInv, ThreadsInv
  <2> QED
    BY <2>1, <2>2, <2>3, <2>4
<1>6. Shut'
  BY <1>2, <1>4 DEF OpenInv, Shut, Closed
<1>7. Sent'
  <2> SUFFICES ASSUME NEW u \in Documents, at'[u] \in live',
                      openings'[opened'[u]].state \in {"sent", "opened"}
               PROVE  u \in sessions'[at'[u]]
    BY DEF Sent
  <2>1. u # s
    BY <1>2, <1>3, <1>4
  <2>2. at'[u] = at[u] /\ opened'[u] = opened[u]
    BY <2>1, <1>2, <1>4
  <2>3. at[u] \in Threads /\ opened[u] \in DOMAIN openings /\ openings[opened[u]].thread = at[u]
    BY <2>2, <1>3, <1>4, <1>5
  <2>4. at[u] \in live
    BY <2>2, <2>3, <1>3, <1>5
  <2> QED
    BY <2>2, <2>3, <2>4, <1>2, <1>3 DEF OpenInv, Sent
<1>8. Plain(s)' => /\ \A t \in live : s \notin sessions[t]
                   /\ \A o \in DOMAIN openings : openings[o].doc = s =>
                        openings[o].state # "reading" \/ openings[o].thread \notin live
  <2> SUFFICES ASSUME Plain(s)'
               PROVE  /\ \A t \in live : s \notin sessions[t]
                      /\ \A o \in DOMAIN openings : openings[o].doc = s =>
                           openings[o].state # "reading" \/ openings[o].thread \notin live
    OBVIOUS
  <2>1. at[s] \notin live
    BY <1>4, <1>5, DrawsAre, OpeningsAre DEF IsOpen, PoolInv
  <2> QED
    BY <2>1 DEF OpenInv, OnOne, ToOne
<1>9. OnOne'
  <2> SUFFICES ASSUME NEW t \in live', NEW u \in Documents, u \in sessions'[t], Plain(u)'
               PROVE  at'[u] = t
    BY DEF OnOne
  <2>1. t \in live
    BY <1>2, <1>3, <1>5
  <2>2. u # s
    BY <2>1, <1>2, <1>8
  <2> QED
    BY <2>1, <2>2, <1>2, <1>4 DEF OpenInv, OnOne
<1>10. ToOne'
  <2>0. \A o \in DOMAIN openings', u \in Documents :
          openings'[o].doc = u /\ openings'[o].state = "reading"
          /\ openings'[o].thread \in live' /\ Plain(u)' => at'[u] = openings'[o].thread
    <3> SUFFICES ASSUME NEW o \in DOMAIN openings', NEW u \in Documents,
                        openings'[o].doc = u, openings'[o].state = "reading",
                        openings'[o].thread \in live', Plain(u)'
                 PROVE  at'[u] = openings'[o].thread
      OBVIOUS
    <3>1. CASE o = n
      BY <3>1, <1>2, <1>3, <1>4
    <3>2. CASE o \in DOMAIN openings
      <4>1. openings'[o] = openings[o] /\ openings[o].thread \in live /\ openings[o].doc = u
        BY <3>2, <1>3, <1>5
      <4>2. u # s /\ Plain(u)
        BY <4>1, <3>2, <1>8
      <4> QED
        BY <4>1, <4>2, <3>2, <1>2, <1>4 DEF OpenInv, ToOne
    <3> QED
      BY <3>1, <3>2, <1>3
  <2>1. \A o \in DOMAIN openings' : openings'[o].doc \in Documents
    BY <1>3, <1>5
  <2> QED
    BY <2>0, <2>1 DEF ToOne, Plain, Closed, Reopened
<1>11. OnLast'
  <2> SUFFICES ASSUME NEW d \in Draws, draw'[d].pc = "opening", Plain(DocOf(d))'
               PROVE  \/ opened'[DocOf(d)] = draw'[d].on /\ at'[DocOf(d)] \in live'
                      \/ /\ openings'[draw'[d].on].thread \notin live'
                         /\ openings'[draw'[d].on].state # "opened"
    BY DEF OnLast
  <2>0. DocOf(d) \in Documents
    BY DrawsAre
  <2>1. CASE DocOf(d) = s /\ draw'[d].on = n
    BY <2>1, <1>2, <1>3, <1>4
  <2>2. CASE draw[d].pc = "opening" /\ draw'[d].on = draw[d].on
    <3>1. draw[d].on \in DOMAIN openings /\ openings[draw[d].on].doc = DocOf(d)
      BY <2>2 DEF Waits
    <3>2. CASE opened[DocOf(d)] = draw[d].on /\ at[DocOf(d)] \in live
      <4>1. DocOf(d) # s
        BY <3>2, <1>4, <1>5, DrawsAre, OpeningsAre DEF IsOpen, PoolInv
      <4> QED
        BY <4>1, <3>2, <2>0, <2>2, <1>2, <1>3, <1>4
    <3>3. CASE openings[draw[d].on].thread \notin live /\ openings[draw[d].on].state # "opened"
      BY <3>1, <3>3, <2>2, <1>3, <1>5
    <3> QED
      BY <3>2, <3>3, <2>0, <2>2 DEF OpenInv, OnLast
  <2> QED
    BY <2>1, <2>2, <1>1
<1>12. Placed'
  <2> SUFFICES ASSUME NEW t \in live', NEW d \in Draws, d = current'[t] \/ d \in Queued(t)'
               PROVE  DocOf(d) \in sessions'[t] \/ ~Plain(DocOf(d))'
    BY DEF Placed
  <2>0. DocOf(d) \in Documents /\ d # None
    BY DrawsAre
  <2>1. d = current[t] \/ d \in Queued(t)
    BY <1>2 DEF Queued
  <2>2. t \in live
    BY <2>0, <2>1, <1>3, <1>5 DEF Queued
  <2> QED
    BY <2>0, <2>1, <2>2, <1>2 DEF OpenInv, Placed
<1> QED
  BY <1>6, <1>7, <1>9, <1>10, <1>11, <1>12 DEF OpenInv

\* A draw that ends gives back the slot it runs in, if it is its own.
LEMMA SlotEnds ==
  ASSUME Slots, NEW d \in Draws, ReleaseOf(d), DocOf(d) \notin Exports => d \in holding,
         UNCHANGED caller, draw'[d].pc \in {"drawn", "failed", "lost"},
         \A e \in Draws : e # d => \/ draw'[e].pc = draw[e].pc
                                   \/ draw[e].pc = "sent" /\ draw'[e].pc = "again"
  PROVE  Slots'
<1>1. \A v \in Users : v # d => /\ Entitled(v) => Entitled(v)'
                                /\ Working(v)' => Working(v)
  BY UsersAre DEF Entitled, Working
<1>2. ~Working(d)' /\ d \in Users
  BY DrawsAre, UsersAre DEF Working
<1>3. CASE DocOf(d) \in Exports
  <2>1. UNCHANGED slotVars
    BY <1>3 DEF ReleaseOf
  <2>2. ~Entitled(d)
    BY <1>3, DrawsAre DEF Entitled
  <2> QED
    BY <1>1, <1>2, <2>1, <2>2, SlotsKept
<1>4. CASE DocOf(d) \notin Exports
  <2>1. Release(d) /\ d \in holding
    BY <1>4 DEF ReleaseOf
  <2> QED
    BY <1>1, <1>2, <2>1, SlotGiven
<1> QED
  BY <1>3, <1>4

\* Who works on a draw of its own slot holds it.
LEMMA Holds ==
  ASSUME Slots, NEW d \in Draws, DocOf(d) \notin Exports,
         \/ draw[d].pc \in {"again", "opening", "sent"}
         \/ Sends(d)
  PROVE  d \in holding
<1>1. d \in Users /\ d \notin Documents /\ HolderOf(d) = d
  BY DrawsAre, UsersAre
<1>2. draw[d].pc \in {"again", "opening", "sent"} => d \in holding
  BY <1>1 DEF Slots, OwnersInv, Working
<1> QED
  BY <1>1, <1>2 DEF Sends

\* What the threads have stays, when nobody begins to draw or to wait.
LEMMA PoolSame ==
  ASSUME PoolInv, UNCHANGED <<poolVars, lost, stops>>
  PROVE  PoolInv'
<1>1. UNCHANGED <<at, opened, openings, live, started, sessions, opening, queue, current, idle, lost, stops>>
  BY DEF poolVars, threadVars
<1>2. PoolTyped'
  BY <1>1 DEF PoolInv, PoolTyped
<1>3. ThreadsInv'
  BY <1>1 DEF PoolInv, ThreadsInv
<1>4. Refs'
  BY <1>1 DEF PoolInv, Refs
<1> QED
  BY <1>2, <1>3, <1>4 DEF PoolInv

\* A caller that goes on.
LEMMA OneCaller ==
  ASSUME Drawing, NEW s \in Documents,
         NEW pc \in {"before", "slot", "opening", "drawing", "closed"},
         NEW on \in Nat \cup {None},
         \/ caller' = [caller EXCEPT ![s].pc = pc] /\ on = caller[s].on
         \/ caller' = [caller EXCEPT ![s] = [pc |-> pc, on |-> on]]
  PROVE  /\ caller' \in [Documents -> Callers]
         /\ caller'[s].pc = pc /\ caller'[s].on = on
         /\ \A u \in Documents : u # s => caller'[u] = caller[u]
<1>1. caller[s] \in Callers /\ caller \in [Documents -> Callers]
  BY RecordsAre DEF Drawing
<1>2. PICK r : r = [pc |-> pc, on |-> on]
  OBVIOUS
<1>3. r \in Callers /\ r.pc = pc /\ r.on = on
  BY <1>2 DEF Callers
<1>4. CASE caller' = [caller EXCEPT ![s].pc = pc] /\ on = caller[s].on
  <2>1. caller'[s] = r
    BY <1>1, <1>2, <1>4 DEF Callers
  <2>2. caller' = [caller EXCEPT ![s] = r]
    BY <2>1, <1>1, <1>4
  <2> QED
    BY <2>2, <1>1, <1>3
<1>5. CASE caller' = [caller EXCEPT ![s] = r]
  BY <1>1, <1>3, <1>5
<1> QED
  BY <1>2, <1>4, <1>5

-----------------------------------------------------------------------------
(* Every action keeps the invariant. *)

LEMMA TakesSlotKeeps ==
  ASSUME Inv, NEW s \in Documents, TakesSlot(s)
  PROVE  Inv'
<1> USE DEF Inv
<1>1. /\ s \in Exports /\ caller[s].pc = "before" /\ Acquire(s)
      /\ caller' = [caller EXCEPT ![s].pc = "slot"]
      /\ UNCHANGED <<draw, poolVars, lost, stops>>
  BY DEF TakesSlot
<1>2. UNCHANGED <<at, opened, openings, live, started, sessions, opening, queue, current, idle>>
  BY <1>1 DEF poolVars, threadVars
<1>3. /\ caller' \in [Documents -> Callers] /\ caller'[s].pc = "slot"
      /\ \A u \in Documents : u # s => caller'[u] = caller[u]
  <2>1. PICK on \in Nat \cup {None} : on = caller[s].on
    BY RecordsAre
  <2> QED
    BY <2>1, <1>1, OneCaller
<1>4. Drawing'
  BY <1>1, <1>3 DEF Drawing, Bounded
<1>5. Slots'
  <2>1. s \in Users /\ ~Entitled(s) /\ Entitled(s)' /\ ~Working(s)'
    BY <1>1, <1>3, UsersAre DEF Entitled, Working
  <2>2. \A v \in Users : v # s => /\ Entitled(v) => Entitled(v)'
                                  /\ Working(v)' => Working(v)
    BY <1>1, <1>3 DEF Entitled, Working
  <2> QED
    BY <2>1, <2>2, <1>1, SlotTaken
<1>6. PoolInv'
  BY <1>1, PoolSame
<1>7. PlacesInv'
  BY <1>1, <1>2, PlacesKept
<1>8. Waits' /\ Begun'
  BY <1>1, <1>2, <1>3, DrawsAre DEF Waits, Begun
<1>9. OpenInv'
  <2>1. \A u \in Documents : Plain(u)' => Plain(u)
    BY <1>1, <1>3, PlainBefore
  <2> QED
    BY <2>1, <1>1, <1>3, OpenKept
<1>10. CostsOnePage'
  BY <1>1, CostsKept DEF Drawing
<1> QED
  BY <1>4, <1>5, <1>6, <1>7, <1>8, <1>9, <1>10

LEMMA OpensDocumentKeeps ==
  ASSUME Inv, NEW s \in Documents, OpensDocument(s)
  PROVE  Inv'
<1> USE DEF Inv
<1>1. /\ IF s \in Exports THEN caller[s].pc = "slot" /\ s \in holding ELSE caller[s].pc = "before"
      /\ OpensAnew(s) /\ UNCHANGED <<draw, slotVars, lost, stops>>
      /\ caller' = [caller EXCEPT ![s] = [pc |-> "opening", on |-> Len(openings) + 1]]
  BY DEF OpensDocument, Granted
<1>2. PICK n : n = Len(openings) + 1
  OBVIOUS
<1>3. /\ PoolInv' /\ n \in Nat /\ n \notin DOMAIN openings
      /\ DOMAIN openings' = DOMAIN openings \cup {n}
      /\ \A o \in DOMAIN openings : openings'[o] = openings[o]
  BY <1>1, <1>2, OpensAnewIs DEF Drawing
<1>4. /\ caller' \in [Documents -> Callers] /\ caller'[s].pc = "opening" /\ caller'[s].on = n
      /\ \A u \in Documents : u # s => caller'[u] = caller[u]
  <2>1. n \in Nat \cup {None} /\ caller' = [caller EXCEPT ![s] = [pc |-> "opening", on |-> n]]
    BY <1>1, <1>2, <1>3
  <2> QED
    BY <2>1, OneCaller
<1>5. Drawing'
  BY <1>1, <1>4 DEF Drawing, Bounded
<1>6. Slots'
  <2>1. \A u \in Users : /\ Entitled(u) => Entitled(u)'
                         /\ Working(u)' => Working(u) \/ u \in holding
    BY <1>1, <1>4 DEF Entitled, Working
  <2> QED
    BY <2>1, <1>1, SlotsKept
<1>7. PlacesInv'
  BY <1>1, PlacesKept DEF OpensAnew
<1>8. Waits' /\ Begun'
  <2>1. Waits'
    BY <1>1, <1>3, <1>4 DEF Waits
  <2>2. \A u \in Documents : u # s => at'[u] = at[u]
    BY <1>1 DEF OpensAnew, PoolInv, PoolTyped
  <2>3. \A u \in Documents : caller'[u].pc \in {"before", "slot"} => at'[u] = None
    BY <2>2, <1>4 DEF Begun
  <2>4. \A d \in Draws : draw'[d].pc # "ahead" => caller'[DocOf(d)].pc \in {"drawing", "closed"}
    BY <1>1, <1>4, DrawsAre DEF Begun
  <2> QED
    BY <2>1, <2>3, <2>4 DEF Begun
<1>9. OpenInv'
  <2>1. \A u \in Documents : Plain(u)' => Plain(u)
    BY <1>1, <1>4, PlainBefore
  <2>2. ~IsOpen(s)
    BY <1>1 DEF IsOpen, Begun
  <2>3. \A d \in Draws : draw'[d] = draw[d]
    BY <1>1
  <2> QED
    BY <2>1, <2>2, <2>3, <1>1, <1>4, OpenedAnew DEF Drawing
<1>10. CostsOnePage'
  BY <1>1, CostsKept DEF Drawing
<1> QED
  BY <1>3, <1>5, <1>6, <1>7, <1>8, <1>9, <1>10

\* A document is closed by its caller, which gives an export's slot back.
LEMMA ClosesKeeps ==
  ASSUME Inv, NEW s \in Documents, caller[s].pc \in {"opening", "drawing"}, Closes(s)
  PROVE  Inv'
<1> USE DEF Inv
<1>1. /\ CloseSession(s) /\ UNCHANGED <<draw, lost, stops>>
      /\ caller' = [caller EXCEPT ![s] = [pc |-> "closed", on |-> None]]
      /\ IF s \in Exports THEN Release(s) ELSE UNCHANGED slotVars
  BY DEF Closes
<1>2. /\ PoolInv' /\ at' = [at EXCEPT ![s] = None]
      /\ UNCHANGED <<opened, openings, live, opening, queue, current>>
      /\ \A t \in Threads, u \in Documents : u # s => (u \in sessions'[t] <=> u \in sessions[t])
      /\ \A t \in Threads : sessions'[t] \subseteq sessions[t]
  BY <1>1, CloseSessionIs DEF Drawing
<1>3. /\ caller' \in [Documents -> Callers] /\ caller'[s].pc = "closed" /\ caller'[s].on = None
      /\ \A u \in Documents : u # s => caller'[u] = caller[u]
  BY <1>1, OneCaller
<1>4. Drawing'
  BY <1>1, <1>3 DEF Drawing, Bounded
<1>5. Slots'
  <2>1. \A v \in Users : v # s => /\ Entitled(v) => Entitled(v)'
                                  /\ Working(v)' => Working(v)
    BY <1>1, <1>3 DEF Entitled, Working
  <2>2. s \in Users /\ ~Working(s)' /\ (s \notin Exports => ~Entitled(s))
          /\ (s \in Exports => s \in holding)
    BY <1>3, UsersAre DEF Entitled, Working, Slots, OwnersInv
  <2>3. CASE s \in Exports
    BY <2>1, <2>2, <2>3, <1>1, SlotGiven
  <2>4. CASE s \notin Exports
    BY <2>1, <2>2, <2>4, <1>1, SlotsKept
  <2> QED
    BY <2>3, <2>4
<1>6. PlacesInv'
  BY <1>1, <1>2, PlacesKept
<1>7. /\ at \in [Documents -> Threads \cup {None}] /\ at'[s] = None /\ None \notin live
      /\ live \subseteq Threads
      /\ \A u \in Documents : u # s => at'[u] = at[u]
  <2>1. at \in [Documents -> Threads \cup {None}]
    BY DEF PoolInv, PoolTyped
  <2>2. live \subseteq Threads /\ None \notin live
    BY LiveAre, ThreadsAre DEF PoolInv
  <2> QED
    BY <2>1, <2>2, <1>2
<1>8. Waits' /\ Begun'
  <2>1. Waits'
    BY <1>1, <1>2, <1>3 DEF Waits
  <2>2. Begun'
    BY <1>1, <1>3, <1>7, DrawsAre DEF Begun
  <2> QED
    BY <2>1, <2>2
<1>9. OpenInv'
  <2>1. (\A u \in Documents : Plain(u)' => Plain(u)) /\ ~Plain(s)'
    <3>1. \A u \in Documents : Plain(u)' => Plain(u)
      BY <1>1, <1>3, PlainBefore
    <3> QED
      BY <3>1, <1>3 DEF Plain, Closed
  <2>2. Shut'
    BY <1>3, <1>7 DEF OpenInv, Shut, Closed
  <2>3. Sent'
    BY <1>2, <1>7 DEF OpenInv, Sent
  <2>4. OnOne'
    BY <2>1, <1>2, <1>7 DEF OpenInv, OnOne
  <2>5. \A o \in DOMAIN openings : openings[o].doc \in Documents
    BY OpeningsAre DEF PoolInv
  <2>6. ToOne'
    BY <2>1, <2>5, <1>2, <1>7 DEF OpenInv, ToOne
  <2>7. OnLast'
    BY <2>1, <1>1, <1>2, <1>7, DrawsAre DEF OpenInv, OnLast
  <2>8. Placed'
    <3>1. \A t \in live, d \in Draws : d = current'[t] \/ d \in Queued(t)' =>
            DocOf(d) \in sessions[t] \/ ~Plain(DocOf(d))
      BY <1>2 DEF OpenInv, Placed, Queued
    <3> QED
      BY <3>1, <2>1, <1>2, <1>7, DrawsAre DEF Placed
  <2> QED
    BY <2>2, <2>3, <2>4, <2>6, <2>7, <2>8 DEF OpenInv
<1>10. CostsOnePage'
  BY <1>1, CostsKept DEF Drawing
<1> QED
  BY <1>2, <1>4, <1>5, <1>6, <1>8, <1>9, <1>10

LEMMA LearnsOpenedKeeps ==
  ASSUME Inv, NEW s \in Documents, LearnsOpened(s)
  PROVE  Inv'
<1> USE DEF Inv
<1>1. caller[s].pc = "opening"
  BY DEF LearnsOpened, Learns
<1>2. CASE Closes(s)
  BY <1>1, <1>2, ClosesKeeps
<1>3. CASE /\ caller' = [caller EXCEPT ![s] = [pc |-> "drawing", on |-> None]]
           /\ UNCHANGED <<draw, slotVars, poolVars, lost, stops>>
  <2>2. UNCHANGED <<at, opened, openings, live, started, sessions, opening, queue, current, idle>>
    BY <1>3 DEF poolVars, threadVars
  <2>3. /\ caller' \in [Documents -> Callers] /\ caller'[s].pc = "drawing"
        /\ \A u \in Documents : u # s => caller'[u] = caller[u]
    BY <1>3, OneCaller
  <2>4. Drawing'
    BY <1>3, <2>3 DEF Drawing, Bounded
  <2>5. Slots'
    <3>1. \A u \in Users : /\ Entitled(u) => Entitled(u)'
                           /\ Working(u)' => Working(u) \/ u \in holding
      BY <1>1, <1>3, <2>3 DEF Entitled, Working
    <3> QED
      BY <3>1, <1>3, SlotsKept
  <2>6. PoolInv'
    BY <1>3, PoolSame
  <2>7. PlacesInv'
    BY <1>3, <2>2, PlacesKept
  <2>8. Waits' /\ Begun'
    BY <1>1, <1>3, <2>2, <2>3, DrawsAre DEF Waits, Begun
  <2>9. OpenInv'
    <3>1. \A u \in Documents : Plain(u)' => Plain(u)
      BY <1>1, <1>3, <2>3, PlainBefore
    <3> QED
      BY <3>1, <1>3, <2>3, OpenKept
  <2>10. CostsOnePage'
    BY <1>3, CostsKept DEF Drawing
  <2> QED
    BY <2>4, <2>5, <2>6, <2>7, <2>8, <2>9, <2>10
<1> QED
  BY <1>2, <1>3 DEF LearnsOpened

LEMMA ClosesDocumentKeeps ==
  ASSUME Inv, NEW s \in Documents, ClosesDocument(s)
  PROVE  Inv'
<1>1. caller[s].pc = "drawing" /\ Closes(s)
  BY DEF ClosesDocument, Finished
<1> QED
  BY <1>1, ClosesKeeps

LEMMA AsksPageKeeps ==
  ASSUME Inv, NEW d \in Draws, AsksPage(d)
  PROVE  Inv'
<1> USE DEF Inv
<1>1. /\ draw[d].pc = "ahead" /\ caller[DocOf(d)].pc \in {"drawing", "closed"}
      /\ draw' = [draw EXCEPT ![d].pc = "slot"]
      /\ IF DocOf(d) \in Exports THEN UNCHANGED slotVars ELSE Acquire(d)
      /\ UNCHANGED <<caller, poolVars, lost, stops>>
  BY DEF AsksPage, Asked, Closed
<1>2. UNCHANGED <<at, opened, openings, live, started, sessions, opening, queue, current, idle>>
  BY <1>1 DEF poolVars, threadVars
<1>3. /\ draw' \in [Draws -> DrawStates] /\ draw'[d].pc = "slot"
      /\ draw'[d].reopened = draw[d].reopened
      /\ \A e \in Draws : e # d => draw'[e] = draw[e]
  <2>1. draw[d] \in DrawStates /\ draw \in [Draws -> DrawStates]
    BY RecordsAre DEF Drawing
  <2>2. PICK r : r = [draw[d] EXCEPT !.pc = "slot"]
    OBVIOUS
  <2>3. r \in DrawStates /\ r.pc = "slot" /\ r.reopened = draw[d].reopened
    BY <2>1, <2>2 DEF DrawStates
  <2>4. draw' = [draw EXCEPT ![d] = r]
    BY <1>1, <2>2
  <2> QED
    BY <2>1, <2>3, <2>4
<1>4. Drawing'
  BY <1>1, <1>3 DEF Drawing, Bounded
<1>5. Slots'
  <2>1. \A v \in Users : v # d => /\ Entitled(v) => Entitled(v)'
                                  /\ Working(v)' => Working(v)
    BY <1>1, <1>3, UsersAre DEF Entitled, Working
  <2>2. d \in Users /\ ~Entitled(d) /\ ~Working(d)' /\ (DocOf(d) \notin Exports => Entitled(d)')
    BY <1>1, <1>3, DrawsAre, UsersAre DEF Entitled, Working
  <2>3. CASE DocOf(d) \in Exports
    BY <2>1, <2>2, <2>3, <1>1, SlotsKept
  <2>4. CASE DocOf(d) \notin Exports
    BY <2>1, <2>2, <2>4, <1>1, SlotTaken
  <2> QED
    BY <2>3, <2>4
<1>6. PoolInv'
  BY <1>1, PoolSame
<1>7. PlacesInv'
  BY <1>1, <1>2, <1>3, PlacesKept
<1>8. Waits' /\ Begun'
  BY <1>1, <1>2, <1>3 DEF Waits, Begun
<1>9. OpenInv'
  <2>1. \A u \in Documents : Plain(u)' => Plain(u)
    BY <1>1, <1>3, PlainBefore
  <2>2. \A e \in Draws : draw'[e].pc = "opening" => draw[e].pc = "opening" /\ draw'[e].on = draw[e].on
    BY <1>3
  <2> QED
    BY <2>1, <2>2, <1>1, <1>3, OpenKept
<1>10. CostsOnePage'
  BY <1>1, <1>3, CostsKept DEF Drawing
<1> QED
  BY <1>4, <1>5, <1>6, <1>7, <1>8, <1>9, <1>10

\* A draw that ends without having been on a thread changes nothing of the pool.
LEMMA EndsKeeps ==
  ASSUME Inv, NEW d \in Draws, NEW how \in {"failed", "lost"}, Ends(d, how),
         draw[d].pc \in {"slot", "again", "opening"},
         DocOf(d) \notin Exports => d \in holding,
         how = "lost" => draw[d].reopened = 1,
         UNCHANGED <<caller, poolVars, lost, stops>>
  PROVE  Inv'
<1> USE DEF Inv
<1>1. draw' = [draw EXCEPT ![d].pc = how, ![d].on = None] /\ ReleaseOf(d)
  BY DEF Ends
<1>2. UNCHANGED <<at, opened, openings, live, started, sessions, opening, queue, current, idle>>
  BY DEF poolVars, threadVars
<1>3. /\ draw' \in [Draws -> DrawStates] /\ draw'[d].pc = how
      /\ draw'[d].reopened = draw[d].reopened
      /\ \A e \in Draws : e # d => draw'[e] = draw[e]
  <2>1. PICK pc \in {"ahead", "slot", "again", "opening", "sent", "drawn", "failed", "lost"} : pc = how
    OBVIOUS
  <2>2. PICK on \in Nat \cup {None} : on = None
    OBVIOUS
  <2>3. draw' = [draw EXCEPT ![d].pc = pc, ![d].on = on]
    BY <2>1, <2>2, <1>1
  <2>4. /\ draw' \in [Draws -> DrawStates] /\ draw'[d].pc = pc
        /\ draw'[d].reopened = draw[d].reopened
        /\ \A e \in Draws : e # d => draw'[e] = draw[e]
    BY <2>3, OneDraw, ZenonT(40)
  <2> QED
    BY <2>1, <2>4
<1>4. Drawing'
  BY <1>3 DEF Drawing, Bounded
<1>5. Slots'
  <2>1. draw'[d].pc \in {"drawn", "failed", "lost"} /\ \A e \in Draws : e # d => draw'[e].pc = draw[e].pc
    BY <1>3
  <2> QED
    BY <2>1, <1>1, SlotEnds
<1>6. PoolInv'
  BY PoolSame
<1>7. PlacesInv'
  BY <1>2, <1>3, PlacesKept
<1>8. Waits' /\ Begun'
  BY <1>2, <1>3 DEF Waits, Begun
<1>9. OpenInv'
  <2>1. \A u \in Documents : Plain(u)' => Plain(u)
    BY <1>3, PlainBefore
  <2>2. \A e \in Draws : draw'[e].pc = "opening" => draw[e].pc = "opening" /\ draw'[e].on = draw[e].on
    BY <1>3
  <2> QED
    BY <2>1, <2>2, OpenKept
<1>10. CostsOnePage'
  <2>1. \A e \in Draws : draw'[e].pc = "lost" /\ draw'[e].reopened = 0
                           => draw[e].pc = "lost" /\ draw[e].reopened = 0
    BY <1>3
  <2> QED
    BY <2>1, CostsKept DEF Drawing
<1> QED
  BY <1>4, <1>5, <1>6, <1>7, <1>8, <1>9, <1>10

LEMMA SendsDrawKeeps ==
  ASSUME Inv, NEW d \in Draws, SendsDraw(d)
  PROVE  Inv'
<1> USE DEF Inv
<1>1. PICK s \in Documents : s = DocOf(d)
  BY DrawsAre
<1>2. draw[d].pc \in {"slot", "again"} /\ UNCHANGED <<caller, lost, stops>>
  BY DEF SendsDraw, Sends
<1>3. s \notin Exports => d \in holding
  BY <1>1, Holds DEF SendsDraw
<1>4. CASE Ends(d, "failed") /\ UNCHANGED poolVars
  BY <1>1, <1>2, <1>3, <1>4, EndsKeeps
<1>5. CASE /\ ~Closed(s) /\ Opens(s) /\ UNCHANGED slotVars
           /\ draw' = [draw EXCEPT ![d].pc = "opening", ![d].on = opened'[s]]
  <2>1. /\ PoolInv' /\ UNCHANGED <<queue, current>>
        /\ opened'[s] \in DOMAIN openings' /\ openings'[opened'[s]].doc = s
        /\ \A o \in DOMAIN openings : o \in DOMAIN openings' /\ openings'[o].doc = openings[o].doc
        /\ \A u \in Documents : u # s => at'[u] = at[u]
        /\ \/ UNCHANGED poolVars /\ opened'[s] = opened[s] /\ at[s] \in live
           \/ OpensAnew(s) /\ ~IsOpen(s) /\ opened'[s] = Len(openings) + 1
    <3>1. CASE IsOpen(s) /\ UNCHANGED poolVars
      <4>1. UNCHANGED <<at, opened, openings, queue, current>>
        BY <3>1 DEF poolVars, threadVars
      <4>2. PoolInv'
        BY <3>1, <1>2, PoolSame
      <4>3. opened[s] # None /\ at[s] \in live
        BY <3>1 DEF IsOpen
      <4>4. opened[s] \in DOMAIN openings /\ openings[opened[s]].doc = s
        BY <4>3 DEF PoolInv, PoolTyped, Refs
      <4> QED
        BY <3>1, <4>1, <4>2, <4>3, <4>4
    <3>2. CASE ~IsOpen(s) /\ OpensAnew(s)
      <4>1. PICK n : n = Len(openings) + 1
        OBVIOUS
      <4>2. /\ PoolInv' /\ n \in DOMAIN openings'
            /\ DOMAIN openings' = DOMAIN openings \cup {n}
            /\ \A o \in DOMAIN openings : openings'[o] = openings[o]
        BY <3>2, <4>1, <1>2, OpensAnewIs DEF Drawing
      <4>3. openings'[n] = [doc |-> s, thread |-> Pick, state |-> "reading"]
        BY <3>2, <4>1, <1>2, OpensAnewIs DEF Drawing
      <4>4. /\ opened' = [opened EXCEPT ![s] = n] /\ at' = [at EXCEPT ![s] = Pick]
            /\ UNCHANGED <<queue, current>>
        BY <3>2, <4>1 DEF OpensAnew
      <4>5. opened'[s] = n /\ \A u \in Documents : u # s => at'[u] = at[u]
        BY <4>4 DEF PoolInv, PoolTyped
      <4>6. openings'[n].doc = s
        BY <4>3
      <4> QED
        BY <3>2, <4>1, <4>2, <4>4, <4>5, <4>6
    <3> QED
      BY <3>1, <3>2, <1>5 DEF Opens
  <2>2. PICK o \in Nat \cup {None} : o = opened'[s]
    BY <2>1, OpeningsAre DEF PoolInv, PoolTyped
  <2>3. /\ draw' \in [Draws -> DrawStates] /\ draw'[d].pc = "opening" /\ draw'[d].on = o
        /\ draw'[d].reopened = draw[d].reopened
        /\ \A e \in Draws : e # d => draw'[e] = draw[e]
    <3>1. PICK pc \in {"ahead", "slot", "again", "opening", "sent", "drawn", "failed", "lost"} : pc = "opening"
      OBVIOUS
    <3>2. draw' = [draw EXCEPT ![d].pc = pc, ![d].on = o]
      BY <3>1, <2>2, <1>5
    <3>3. /\ draw' \in [Draws -> DrawStates] /\ draw'[d].pc = pc /\ draw'[d].on = o
          /\ draw'[d].reopened = draw[d].reopened
          /\ \A e \in Draws : e # d => draw'[e] = draw[e]
      BY <3>2, OneDraw, ZenonT(40)
    <3> QED
      BY <3>1, <3>3
  <2>4. Drawing'
    BY <1>2, <2>3 DEF Drawing, Bounded
  <2>5. Slots'
    <3>1. \A u \in Users : /\ Entitled(u) => Entitled(u)'
                           /\ Working(u)' => Working(u) \/ u \in holding
      BY <1>1, <1>2, <1>3, <2>3, UsersAre DEF Entitled, Working
    <3> QED
      BY <3>1, <1>5, SlotsKept
  <2>6. PlacesInv'
    BY <1>2, <2>1, <2>3, PlacesKept
  <2>7. caller[s].pc \in {"drawing", "closed"}
    BY <1>1, <1>2 DEF Begun
  <2>8. Waits'
    BY <1>1, <1>2, <2>1, <2>2, <2>3 DEF Waits
  <2>9. Begun'
    <3>1. \A u \in Documents : caller'[u].pc \in {"before", "slot"} => at'[u] = None
      BY <1>2, <2>1, <2>7 DEF Begun
    <3>2. \A e \in Draws : draw'[e].pc # "ahead" => caller'[DocOf(e)].pc \in {"drawing", "closed"}
      BY <1>1, <1>2, <2>3, <2>7 DEF Begun
    <3> QED
      BY <3>1, <3>2 DEF Begun
  <2>10. OpenInv'
    <3>1. \A u \in Documents : Plain(u)' => Plain(u)
      BY <1>2, <2>3, PlainBefore
    <3>2. \A e \in Draws : draw'[e].pc = "opening" =>
            \/ draw[e].pc = "opening" /\ draw'[e].on = draw[e].on
            \/ DocOf(e) = s /\ draw'[e].on = o
      BY <1>1, <2>3
    <3>3. CASE UNCHANGED poolVars /\ opened'[s] = opened[s] /\ at[s] \in live
      <4>1. \A e \in Draws : draw'[e].pc = "opening" =>
              \/ draw[e].pc = "opening" /\ draw'[e].on = draw[e].on
              \/ draw'[e].on = opened[DocOf(e)] /\ at[DocOf(e)] \in live
        BY <3>2, <3>3, <2>2
      <4> QED
        BY <3>1, <3>3, <4>1, <1>2, OpenKept
    <3>4. CASE OpensAnew(s) /\ ~IsOpen(s) /\ opened'[s] = Len(openings) + 1
      <4>1. \A e \in Draws : draw'[e].pc = "opening" =>
              \/ draw[e].pc = "opening" /\ draw'[e].on = draw[e].on
              \/ DocOf(e) = s /\ draw'[e].on = Len(openings) + 1
        BY <3>2, <3>4, <2>2
      <4>2. caller[s].pc # "closed"
        BY <1>5 DEF Closed
      <4> QED
        BY <3>1, <3>4, <4>1, <4>2, <1>2, OpenedAnew DEF Drawing
    <3> QED
      BY <3>3, <3>4, <2>1
  <2>11. CostsOnePage'
    BY <1>2, <2>3, CostsKept DEF Drawing
  <2> QED
    BY <2>1, <2>4, <2>5, <2>6, <2>8, <2>9, <2>10, <2>11
<1> QED
  BY <1>1, <1>4, <1>5 DEF SendsDraw

LEMMA HearsRefusedKeeps ==
  ASSUME Inv, NEW d \in Draws, HearsRefused(d)
  PROVE  Inv'
<1>1. /\ draw[d].pc = "opening" /\ ~MayReopen(d) /\ UNCHANGED <<caller, poolVars, lost, stops>>
      /\ Ends(d, IF openings[draw[d].on].state = "lost" THEN "lost" ELSE "failed")
  BY DEF HearsRefused, Hears
<1>2. DocOf(d) \notin Exports => d \in holding
  BY <1>1, Holds DEF Inv
<1>3. draw[d].reopened \in 0..1
  BY RecordsAre DEF Inv
<1>4. CASE openings[draw[d].on].state = "lost" /\ Ends(d, "lost")
  BY <1>1, <1>2, <1>3, <1>4, EndsKeeps DEF MayReopen
<1>5. CASE Ends(d, "failed")
  BY <1>1, <1>2, <1>5, EndsKeeps
<1> QED
  BY <1>1, <1>4, <1>5

\* Where the documents are stays, and a thread draws of those it has, as before.
LEMMA OpenSame ==
  ASSUME OpenInv, PoolInv, UNCHANGED <<caller, at, opened, openings, live, sessions>>,
         \A s \in Documents : Plain(s)' => Plain(s),
         \A d \in Draws : draw'[d].pc = "opening" =>
           draw[d].pc = "opening" /\ draw'[d].on = draw[d].on,
         \A t \in live, d \in Draws : d = current'[t] \/ d \in Queued(t)' =>
           d = current[t] \/ d \in Queued(t) \/ DocOf(d) \in sessions[t] \/ ~Plain(DocOf(d))
  PROVE  OpenInv'
<1>1. Shut' /\ Sent' /\ OnOne'
  BY DEF OpenInv, Shut, Closed, Sent, OnOne
<1>2. ToOne'
  BY OpeningsAre DEF OpenInv, ToOne, PoolInv
<1>3. OnLast'
  BY DrawsAre DEF OpenInv, OnLast
<1>4. Placed'
  BY DrawsAre DEF OpenInv, Placed
<1> QED
  BY <1>1, <1>2, <1>3, <1>4 DEF OpenInv

\* A draw sent to a thread stands there, and nowhere else.
LEMMA PlacesSent ==
  ASSUME PlacesInv, PoolTyped, NEW t \in Threads, NEW d \in Draws,
         draw[d].pc # "sent", draw'[d].pc = "sent",
         \A e \in Draws : e # d => draw'[e] = draw[e],
         \/ /\ current[t] = None /\ current' = [current EXCEPT ![t] = d]
            /\ UNCHANGED queue
         \/ /\ current[t] # None /\ queue' = [queue EXCEPT ![t] = Append(queue[t], d)]
            /\ UNCHANGED current
  PROVE  PlacesInv'
<1>1. /\ current \in [Threads -> Draws \cup {None}] /\ queue \in [Threads -> Seq(Draws)]
      /\ d # None
  BY DrawsAre DEF PoolTyped
<1>2. \A r \in Threads : current[r] # d /\ d \notin Queued(r)
  BY DEF PlacesInv
<1>3. CASE /\ current[t] = None /\ current' = [current EXCEPT ![t] = d]
           /\ UNCHANGED queue
  <2>1. \A r \in Threads : current'[r] = IF r = t THEN d ELSE current[r]
    BY <1>1, <1>3
  <2>2. \A r \in Threads : Queued(r)' = Queued(r)
    BY <1>3 DEF Queued
  <2>3. \A r \in Threads : \A e \in Draws :
          e = current'[r] \/ e \in Queued(r)' => draw'[e].pc = "sent"
    BY <2>1, <2>2 DEF PlacesInv
  <2>4. \A r, u \in Threads : current'[r] # None =>
          /\ current'[r] = current'[u] => r = u
          /\ current'[r] \notin Queued(u)'
    BY <2>1, <2>2, <1>1, <1>2 DEF PlacesInv
  <2>5. \A r, u \in Threads : r # u => Queued(r)' \cap Queued(u)' = {}
    BY <2>2 DEF PlacesInv
  <2>6. \A r \in Threads : \A i, j \in DOMAIN queue'[r] : queue'[r][i] = queue'[r][j] => i = j
    BY <1>3 DEF PlacesInv
  <2> QED
    BY <2>3, <2>4, <2>5, <2>6 DEF PlacesInv
<1>4. CASE /\ current[t] # None /\ queue' = [queue EXCEPT ![t] = Append(queue[t], d)]
           /\ UNCHANGED current
  <2>1. PICK q, n : q = Append(queue[t], d) /\ n = Len(queue[t]) + 1
    OBVIOUS
  <2>2. /\ DOMAIN q = (DOMAIN queue[t]) \cup {n} /\ n \notin DOMAIN queue[t]
        /\ \A i \in DOMAIN queue[t] : q[i] = queue[t][i]
        /\ q[n] = d
    BY <1>1, <2>1, AppendIs
  <2>3. \A r \in Threads : queue'[r] = IF r = t THEN q ELSE queue[r]
    BY <1>1, <1>4, <2>1
  <2>4. \A r \in Threads : Queued(r)' = IF r = t THEN Queued(t) \cup {d} ELSE Queued(r)
    BY <2>2, <2>3 DEF Queued
  <2>5. \A r \in Threads : \A e \in Draws :
          e = current'[r] \/ e \in Queued(r)' => draw'[e].pc = "sent"
    BY <2>4, <1>4 DEF PlacesInv
  <2>6. \A r, u \in Threads : current'[r] # None =>
          /\ current'[r] = current'[u] => r = u
          /\ current'[r] \notin Queued(u)'
    BY <2>4, <1>2, <1>4 DEF PlacesInv
  <2>7. \A r, u \in Threads : r # u => Queued(r)' \cap Queued(u)' = {}
    BY <2>4, <1>2 DEF PlacesInv
  <2>8. \A r \in Threads : \A i, j \in DOMAIN queue'[r] : queue'[r][i] = queue'[r][j] => i = j
    <3>1. \A i \in DOMAIN queue[t] : queue[t][i] # d
      BY <1>2 DEF Queued
    <3> QED
      BY <3>1, <2>2, <2>3 DEF PlacesInv
  <2> QED
    BY <2>5, <2>6, <2>7, <2>8 DEF PlacesInv
<1> QED
  BY <1>3, <1>4

LEMMA HearsOpenedKeeps ==
  ASSUME Inv, NEW d \in Draws, HearsOpened(d)
  PROVE  Inv'
<1> USE DEF Inv
<1>1. PICK s \in Documents : s = DocOf(d)
  BY DrawsAre
<1>2. PICK t : t = at[s]
  OBVIOUS
<1>3. /\ draw[d].pc = "opening" /\ openings[draw[d].on].state = "opened"
      /\ UNCHANGED <<caller, slotVars, lost, stops>>
  BY DEF HearsOpened, Hears
<1>4. PICK pc \in {"ahead", "slot", "again", "opening", "sent", "drawn", "failed", "lost"} :
        /\ draw' = [draw EXCEPT ![d].pc = pc, ![d].on = None]
        /\ \/ pc = "again" /\ UNCHANGED poolVars
           \/ pc = "sent" /\ t \in live /\ Enqueue(t, d)
  BY <1>1, <1>2 DEF HearsOpened
<1>5. /\ draw' \in [Draws -> DrawStates] /\ draw'[d].pc = pc
      /\ draw'[d].reopened = draw[d].reopened
      /\ \A e \in Draws : e # d => draw'[e] = draw[e]
  <2>1. PICK on \in Nat \cup {None} : on = None
    OBVIOUS
  <2>2. draw' = [draw EXCEPT ![d].pc = pc, ![d].on = on]
    BY <2>1, <1>4
  <2> QED
    BY <2>2, OneDraw, ZenonT(40)
<1>6. Drawing'
  BY <1>3, <1>5 DEF Drawing, Bounded
<1>7. Slots'
  <2>1. \A u \in Users : /\ Entitled(u) => Entitled(u)'
                         /\ Working(u)' => Working(u) \/ u \in holding
    BY <1>3, <1>4, <1>5, UsersAre DEF Entitled, Working
  <2> QED
    BY <2>1, <1>3, SlotsKept
<1>8. CostsOnePage'
  BY <1>3, <1>4, <1>5, CostsKept DEF Drawing
<1>9. \A u \in Documents : Plain(u)' => Plain(u)
  BY <1>3, <1>5, PlainBefore
<1>10. \A e \in Draws : draw'[e].pc = "opening" => draw[e].pc = "opening" /\ draw'[e].on = draw[e].on
  BY <1>4, <1>5
<1>11. CASE pc = "again" /\ UNCHANGED poolVars
  <2>1. UNCHANGED <<at, opened, openings, live, started, sessions, opening, queue, current, idle>>
    BY <1>11 DEF poolVars, threadVars
  <2>2. PoolInv'
    BY <1>3, <1>11, PoolSame
  <2>3. PlacesInv'
    BY <2>1, <1>3, <1>5, PlacesKept
  <2>4. Waits' /\ Begun'
    BY <2>1, <1>3, <1>5, <1>10 DEF Waits, Begun
  <2>5. OpenInv'
    BY <1>3, <1>9, <1>10, <1>11, OpenKept
  <2> QED
    BY <2>2, <2>3, <2>4, <2>5, <1>6, <1>7, <1>8
<1>12. CASE pc = "sent" /\ t \in live /\ Enqueue(t, d)
  <2>1. /\ PoolInv' /\ UNCHANGED <<at, opened, openings, live, sessions, opening>>
        /\ \/ /\ current[t] = None /\ current' = [current EXCEPT ![t] = d]
              /\ UNCHANGED queue
           \/ /\ current[t] # None /\ queue' = [queue EXCEPT ![t] = Append(queue[t], d)]
              /\ UNCHANGED current
    BY <1>3, <1>12, EnqueueIs DEF Drawing
  <2>2. t \in Threads /\ PoolTyped /\ t # None
    BY <1>12, LiveAre DEF PoolInv
  <2>3. PlacesInv'
    BY <2>1, <2>2, <1>3, <1>5, <1>12, PlacesSent
  <2>4. Waits' /\ Begun'
    BY <2>1, <1>3, <1>5, <1>10 DEF Waits, Begun
  <2>5. s \in sessions[t] \/ ~Plain(s)
    <3>1. ASSUME Plain(s)
          PROVE  opened[s] = draw[d].on
      BY <3>1, <1>1, <1>3 DEF OpenInv, OnLast
    <3> QED
      BY <3>1, <1>2, <1>3, <1>12 DEF OpenInv, Sent
  <2>6. \A r \in live, e \in Draws : e = current'[r] \/ e \in Queued(r)' =>
          e = current[r] \/ e \in Queued(r) \/ (e = d /\ r = t)
    <3>1. queue[t] \in Seq(Draws) /\ \A r \in live : r \in Threads
      BY <2>2, LiveAre DEF PoolTyped
    <3>2. PICK q : q = Append(queue[t], d)
      OBVIOUS
    <3>3. \A i \in DOMAIN q : q[i] = d \/ (i \in DOMAIN queue[t] /\ q[i] = queue[t][i])
      BY <3>1, <3>2, AppendIs
    <3>4. CASE current' = [current EXCEPT ![t] = d] /\ UNCHANGED queue
      BY <3>1, <3>4, <2>2 DEF Queued, PoolTyped
    <3>5. CASE queue' = [queue EXCEPT ![t] = q] /\ UNCHANGED current
      <4>1. \A r \in live : queue'[r] = IF r = t THEN q ELSE queue[r]
        BY <3>1, <3>5, <2>2 DEF PoolTyped
      <4> QED
        BY <4>1, <3>3, <3>5 DEF Queued
    <3> QED
      BY <2>1, <3>2, <3>4, <3>5
  <2>7. OpenInv'
    BY <2>1, <2>5, <2>6, <1>1, <1>3, <1>9, <1>10, OpenSame
  <2> QED
    BY <2>1, <2>3, <2>4, <2>7, <1>6, <1>7, <1>8
<1> QED
  BY <1>4, <1>11, <1>12

LEMMA HearsLostKeeps ==
  ASSUME Inv, NEW d \in Draws, HearsLost(d)
  PROVE  Inv'
<1> USE DEF Inv
<1>1. PICK s \in Documents : s = DocOf(d)
  BY DrawsAre
<1>2. /\ draw[d].pc = "opening" /\ draw[d].reopened = 0
      /\ UNCHANGED <<caller, lost, stops>>
  BY RecordsAre DEF HearsLost, Hears, MayReopen
<1>3. s \notin Exports => d \in holding
  BY <1>1, <1>2, Holds
<1>4. CASE /\ Closed(s)
           /\ draw' = [draw EXCEPT ![d] = [pc |-> "failed", on |-> None, reopened |-> 1]]
           /\ at' = [at EXCEPT ![s] = None]
           /\ opened' = [opened EXCEPT ![s] = None]
           /\ UNCHANGED <<openings, threadVars>>
           /\ ReleaseOf(d)
  <2>1. /\ draw' \in [Draws -> DrawStates] /\ draw'[d].pc = "failed" /\ draw'[d].reopened = 1
        /\ \A e \in Draws : e # d => draw'[e] = draw[e]
    <3>1. PICK on \in Nat \cup {None} : on = None
      OBVIOUS
    <3>2. PICK pc \in {"opening", "failed"} : pc = "failed"
      OBVIOUS
    <3>3. draw' = [draw EXCEPT ![d] = [pc |-> pc, on |-> on, reopened |-> 1]]
      BY <3>1, <3>2, <1>4
    <3>4. /\ draw' \in [Draws -> DrawStates] /\ draw'[d].pc = pc /\ draw'[d].reopened = 1
          /\ \A e \in Draws : e # d => draw'[e] = draw[e]
      BY <3>3, OneReopened
    <3> QED
      BY <3>2, <3>4
  <2>2. UNCHANGED <<openings, live, started, sessions, opening, queue, current, idle>>
    BY <1>4 DEF threadVars
  <2>3. PoolInv'
    BY <1>2, <1>4, DetachIs
  <2>4. Drawing'
    BY <1>2, <2>1 DEF Drawing, Bounded
  <2>5. Slots'
    <3>1. draw'[d].pc \in {"drawn", "failed", "lost"} /\ \A e \in Draws : e # d => draw'[e].pc = draw[e].pc
      BY <2>1
    <3> QED
      BY <3>1, <1>1, <1>2, <1>3, <1>4, SlotEnds
  <2>6. PlacesInv'
    BY <2>1, <2>2, <1>2, PlacesKept
  <2>7. /\ at \in [Documents -> Threads \cup {None}] /\ opened \in [Documents -> DOMAIN openings \cup {None}]
        /\ None \notin live
        /\ at'[s] = None /\ \A u \in Documents : u # s => at'[u] = at[u] /\ opened'[u] = opened[u]
    BY <1>4, LiveAre, ThreadsAre DEF PoolInv, PoolTyped
  <2>8. Waits' /\ Begun'
    BY <2>1, <2>2, <2>7, <1>1, <1>2, DrawsAre DEF Waits, Begun
  <2>9. OpenInv'
    <3>1. (\A u \in Documents : Plain(u)' => Plain(u)) /\ ~Plain(s)'
      <4>1. \A u \in Documents : Plain(u)' => Plain(u)
        BY <1>2, <2>1, PlainBefore
      <4> QED
        BY <4>1, <1>2, <1>4 DEF Plain, Closed
    <3>2. Shut'
      BY <1>2, <2>7 DEF OpenInv, Shut, Closed
    <3>3. Sent'
      BY <2>2, <2>7 DEF OpenInv, Sent
    <3>4. OnOne'
      BY <3>1, <2>2, <2>7 DEF OpenInv, OnOne
    <3>5. \A o \in DOMAIN openings : openings[o].doc \in Documents
      BY OpeningsAre DEF PoolInv
    <3>6. ToOne'
      BY <3>1, <3>5, <2>2, <2>7 DEF OpenInv, ToOne
    <3>7. OnLast'
      BY <3>1, <2>1, <2>2, <2>7, <1>1, DrawsAre DEF OpenInv, OnLast
    <3>8. Placed'
      <4>1. \A t \in live, e \in Draws : e = current'[t] \/ e \in Queued(t)' =>
              DocOf(e) \in sessions[t] \/ ~Plain(DocOf(e))
        BY <2>2 DEF OpenInv, Placed, Queued
      <4> QED
        BY <4>1, <3>1, <2>2, DrawsAre DEF Placed
    <3> QED
      BY <3>2, <3>3, <3>4, <3>6, <3>7, <3>8 DEF OpenInv
  <2>10. CostsOnePage'
    BY <1>2, <2>1, CostsKept DEF Drawing
  <2> QED
    BY <2>3, <2>4, <2>5, <2>6, <2>8, <2>9, <2>10
<1>5. CASE /\ ~Closed(s) /\ OpensAnew(s) /\ UNCHANGED slotVars
           /\ draw' = [draw EXCEPT ![d] = [pc |-> "opening", reopened |-> 1,
                                           on |-> Len(openings) + 1]]
  <2>1. PICK n : n = Len(openings) + 1
    OBVIOUS
  <2>2. /\ PoolInv' /\ n \in Nat /\ n \in DOMAIN openings'
        /\ DOMAIN openings' = DOMAIN openings \cup {n}
        /\ \A o \in DOMAIN openings : openings'[o] = openings[o]
    BY <1>2, <1>5, <2>1, OpensAnewIs DEF Drawing
  <2>3. openings'[n].doc = s
    <3>1. openings'[n] = [doc |-> s, thread |-> Pick, state |-> "reading"]
      BY <1>2, <1>5, <2>1, OpensAnewIs DEF Drawing
    <3> QED
      BY <3>1
  <2>4. /\ at' = [at EXCEPT ![s] = Pick] /\ UNCHANGED <<queue, current>>
    BY <1>5 DEF OpensAnew
  <2>5. \A u \in Documents : u # s => at'[u] = at[u]
    BY <2>4 DEF PoolInv, PoolTyped
  <2>6. /\ draw' \in [Draws -> DrawStates] /\ draw'[d].pc = "opening" /\ draw'[d].on = n
        /\ draw'[d].reopened = 1
        /\ \A e \in Draws : e # d => draw'[e] = draw[e]
    <3>1. PICK on \in Nat \cup {None} : on = n
      BY <2>2
    <3>2. PICK pc \in {"opening", "failed"} : pc = "opening"
      OBVIOUS
    <3>3. draw' = [draw EXCEPT ![d] = [pc |-> pc, on |-> on, reopened |-> 1]]
      BY <3>1, <3>2, <2>1, <1>5
    <3>4. /\ draw' \in [Draws -> DrawStates] /\ draw'[d].pc = pc /\ draw'[d].on = on
          /\ draw'[d].reopened = 1
          /\ \A e \in Draws : e # d => draw'[e] = draw[e]
      BY <3>3, OneReopened
    <3> QED
      BY <3>1, <3>2, <3>4
  <2>7. Drawing'
    BY <1>2, <2>6 DEF Drawing, Bounded
  <2>8. Slots'
    <3>1. \A u \in Users : /\ Entitled(u) => Entitled(u)'
                           /\ Working(u)' => Working(u) \/ u \in holding
      BY <1>2, <2>6, UsersAre DEF Entitled, Working
    <3> QED
      BY <3>1, <1>5, SlotsKept
  <2>9. PlacesInv'
    BY <1>2, <2>4, <2>6, PlacesKept
  <2>10. caller[s].pc \in {"drawing", "closed"}
    BY <1>1, <1>2 DEF Begun
  <2>11. Waits'
    BY <1>1, <1>2, <2>2, <2>3, <2>6 DEF Waits
  <2>12. Begun'
    <3>1. \A u \in Documents : caller'[u].pc \in {"before", "slot"} => at'[u] = None
      BY <1>2, <2>5, <2>10 DEF Begun
    <3>2. \A e \in Draws : draw'[e].pc # "ahead" => caller'[DocOf(e)].pc \in {"drawing", "closed"}
      BY <1>1, <1>2, <2>6, <2>10 DEF Begun
    <3> QED
      BY <3>1, <3>2 DEF Begun
  <2>13. OpenInv'
    <3>1. \A u \in Documents : Plain(u)' => Plain(u)
      BY <1>2, <2>6, PlainBefore
    <3>2. ~Plain(s)'
      BY <1>1, <2>6 DEF Plain, Reopened
    <3>3. \A e \in Draws : draw'[e].pc = "opening" =>
            \/ draw[e].pc = "opening" /\ draw'[e].on = draw[e].on
            \/ DocOf(e) = s /\ draw'[e].on = Len(openings) + 1
      BY <1>1, <2>1, <2>6
    <3>4. caller[s].pc # "closed"
      BY <1>5 DEF Closed
    <3> QED
      BY <3>1, <3>2, <3>3, <3>4, <1>2, <1>5, OpenedAnew DEF Drawing
  <2>14. CostsOnePage'
    BY <1>2, <2>6, CostsKept DEF Drawing
  <2> QED
    BY <2>2, <2>7, <2>8, <2>9, <2>11, <2>12, <2>13, <2>14
<1> QED
  BY <1>1, <1>2, <1>4, <1>5 DEF HearsLost

-----------------------------------------------------------------------------
(* Storage and the threads. *)

LEMMA SendsDocumentKeeps ==
  ASSUME Inv, NEW o \in DOMAIN openings, SendsDocument(o)
  PROVE  Inv'
<1> USE DEF Inv
<1>1. PICK s, t : s = openings[o].doc /\ t = openings[o].thread
  OBVIOUS
<1>2. /\ PoolInv' /\ s \in Documents /\ t \in Threads /\ openings[o].state = "reading"
      /\ UNCHANGED <<caller, draw, slotVars, at, opened, live, queue, current, lost, stops>>
      /\ sessions' = [sessions EXCEPT ![t] = @ \cup {s}]
      /\ DOMAIN openings' = DOMAIN openings
      /\ \A r \in DOMAIN openings :
           /\ openings'[r].doc = openings[r].doc /\ openings'[r].thread = openings[r].thread
           /\ openings'[r].state = (IF r = o THEN "sent" ELSE openings[r].state)
  BY <1>1, SendsDocumentIs
<1>3. Drawing'
  BY <1>2 DEF Drawing, Bounded
<1>4. Slots'
  <2>1. \A u \in Users : /\ Entitled(u) => Entitled(u)'
                         /\ Working(u)' => Working(u) \/ u \in holding
    BY <1>2 DEF Entitled, Working
  <2> QED
    BY <2>1, <1>2, SlotsKept
<1>5. PlacesInv'
  BY <1>2, PlacesKept
<1>6. Waits' /\ Begun'
  BY <1>2 DEF Waits, Begun
<1>7. CostsOnePage'
  BY <1>2, CostsKept DEF Drawing
<1>8. OpenInv'
  <2>1. /\ \A r \in Threads : sessions'[r] = IF r = t THEN sessions[t] \cup {s} ELSE sessions[r]
        /\ live \subseteq Threads
        /\ \A r \in DOMAIN openings : openings[r].doc \in Documents
    BY <1>2, LiveAre, OpeningsAre DEF PoolInv, PoolTyped
  <2>2. \A u \in Documents : Plain(u)' = Plain(u)
    BY <1>2 DEF Plain, Closed, Reopened
  <2>3. Shut'
    BY <1>2 DEF OpenInv, Shut, Closed
  <2>4. Sent'
    <3>1. ASSUME NEW u \in Documents, at[u] \in live,
                 openings'[opened[u]].state \in {"sent", "opened"}
          PROVE  u \in sessions'[at[u]]
      <4>1. at[u] # None /\ at[u] \in Threads
        BY <3>1, <2>1, ThreadsAre
      <4>2. opened[u] \in DOMAIN openings /\ openings[opened[u]].thread = at[u]
              /\ openings[opened[u]].doc = u
        BY <4>1 DEF PoolInv, PoolTyped, Refs
      <4>3. CASE opened[u] = o
        BY <4>1, <4>2, <4>3, <1>1, <2>1
      <4>4. CASE opened[u] # o
        BY <4>1, <4>2, <4>4, <3>1, <1>2, <2>1 DEF OpenInv, Sent
      <4> QED
        BY <4>3, <4>4
    <3> QED
      BY <3>1, <1>2 DEF Sent
  <2>5. OnOne'
    <3>1. ASSUME NEW r \in live, NEW u \in Documents, u \in sessions'[r], Plain(u)
          PROVE  at[u] = r
      <4>1. CASE u \in sessions[r]
        BY <3>1, <4>1 DEF OpenInv, OnOne
      <4>2. CASE u = s /\ r = t
        BY <3>1, <4>2, <1>1, <1>2 DEF OpenInv, ToOne
      <4> QED
        BY <4>1, <4>2, <3>1, <2>1
    <3> QED
      BY <3>1, <2>2, <1>2 DEF OnOne
  <2>6. ToOne'
    <3>1. \A r \in DOMAIN openings : openings'[r].state = "reading" => openings[r].state = "reading"
      BY <1>2
    <3>2. \A r \in DOMAIN openings, u \in Documents :
            openings[r].doc = u /\ openings[r].state = "reading" /\ openings[r].thread \in live
              /\ Plain(u)' => at[u] = openings[r].thread
      BY <2>2 DEF OpenInv, ToOne
    <3>3. \A r \in DOMAIN openings', u \in Documents :
            openings'[r].doc = u /\ openings'[r].state = "reading" /\ openings'[r].thread \in live'
              /\ Plain(u)' => at'[u] = openings'[r].thread
      BY <3>1, <3>2, <1>2
    <3>4. \A r \in DOMAIN openings' : openings'[r].doc \in Documents
      BY <1>2, <2>1
    <3> QED
      BY <3>3, <3>4 DEF ToOne, Plain, Closed, Reopened
  <2>7. OnLast'
    <3>1. \A d \in Draws : DocOf(d) \in Documents
      BY DrawsAre
    <3>2. \A d \in Draws : draw[d].pc = "opening" => draw[d].on \in DOMAIN openings
      BY DEF Waits
    <3> QED
      BY <3>1, <3>2, <2>2, <1>2 DEF OpenInv, OnLast
  <2>8. Placed'
    <3>1. \A d \in Draws : DocOf(d) \in Documents
      BY DrawsAre
    <3> QED
      BY <3>1, <2>1, <2>2, <1>2 DEF OpenInv, Placed, Queued
  <2> QED
    BY <2>3, <2>4, <2>5, <2>6, <2>7, <2>8 DEF OpenInv
<1> QED
  BY <1>2, <1>3, <1>4, <1>5, <1>6, <1>7, <1>8

\* An opening is settled, by an answer that the thread lives to give or by none.
LEMMA SettledKeeps ==
  ASSUME Inv, PoolInv', NEW o \in DOMAIN openings,
         NEW how \in {"opened", "refused"},
         openings[o].state \in {"reading", "sent"},
         how = "opened" => openings[o].state = "sent" /\ openings[o].thread \in live,
         UNCHANGED <<caller, draw, slotVars, at, opened, live, sessions, queue, current, lost, stops>>,
         DOMAIN openings' = DOMAIN openings,
         \A r \in DOMAIN openings :
           /\ openings'[r].doc = openings[r].doc /\ openings'[r].thread = openings[r].thread
           /\ openings'[r].state = (IF r = o THEN how ELSE openings[r].state)
  PROVE  Inv'
<1> USE DEF Inv
<1>1. Drawing'
  BY DEF Drawing, Bounded
<1>2. Slots'
  <2>1. \A u \in Users : /\ Entitled(u) => Entitled(u)'
                         /\ Working(u)' => Working(u) \/ u \in holding
    BY DEF Entitled, Working
  <2> QED
    BY <2>1, SlotsKept
<1>3. PlacesInv'
  BY PlacesKept
<1>4. Waits' /\ Begun'
  BY DEF Waits, Begun
<1>5. CostsOnePage'
  BY CostsKept DEF Drawing
<1>6. OpenInv'
  <2>1. \A u \in Documents : Plain(u)' = Plain(u)
    BY DEF Plain, Closed, Reopened
  <2>2. Shut' /\ OnOne'
    BY <2>1 DEF OpenInv, Shut, Closed, OnOne
  <2>3. Sent'
    <3>1. ASSUME NEW u \in Documents, at[u] \in live,
                 openings'[opened[u]].state \in {"sent", "opened"}
          PROVE  u \in sessions[at[u]]
      <4>1. at[u] # None
        BY <3>1, LiveAre, ThreadsAre DEF PoolInv
      <4>2. opened[u] \in DOMAIN openings
        BY <4>1 DEF PoolInv, PoolTyped, Refs
      <4>3. openings[opened[u]].state \in {"sent", "opened"}
        BY <4>2, <3>1
      <4> QED
        BY <4>3, <3>1 DEF OpenInv, Sent
    <3> QED
      BY <3>1 DEF Sent
  <2>4. ToOne'
    <3>1. \A r \in DOMAIN openings : openings'[r].state = "reading" => openings[r].state = "reading"
      OBVIOUS
    <3>2. \A r \in DOMAIN openings : openings[r].doc \in Documents
      BY OpeningsAre DEF PoolInv
    <3>3. \A r \in DOMAIN openings, u \in Documents :
            openings[r].doc = u /\ openings[r].state = "reading" /\ openings[r].thread \in live
              /\ Plain(u)' => at[u] = openings[r].thread
      BY <2>1 DEF OpenInv, ToOne
    <3>4. \A r \in DOMAIN openings', u \in Documents :
            openings'[r].doc = u /\ openings'[r].state = "reading" /\ openings'[r].thread \in live'
              /\ Plain(u)' => at'[u] = openings'[r].thread
      BY <3>1, <3>3
    <3>5. \A r \in DOMAIN openings' : openings'[r].doc \in Documents
      BY <3>2
    <3> QED
      BY <3>4, <3>5 DEF ToOne, Plain, Closed, Reopened
  <2>5. OnLast'
    <3>1. \A d \in Draws : DocOf(d) \in Documents
      BY DrawsAre
    <3>2. \A d \in Draws : draw[d].pc = "opening" => draw[d].on \in DOMAIN openings
      BY DEF Waits
    <3>3. \A r \in DOMAIN openings :
            openings[r].thread \notin live /\ openings[r].state # "opened"
              => openings'[r].thread \notin live' /\ openings'[r].state # "opened"
      OBVIOUS
    <3> QED
      BY <3>1, <3>2, <3>3, <2>1 DEF OpenInv, OnLast
  <2>6. Placed'
    BY <2>1, DrawsAre DEF OpenInv, Placed, Queued
  <2> QED
    BY <2>2, <2>3, <2>4, <2>5, <2>6 DEF OpenInv
<1> QED
  BY <1>1, <1>2, <1>3, <1>4, <1>5, <1>6

LEMMA ReadFailsKeeps ==
  ASSUME Inv, NEW o \in DOMAIN openings, ReadFails(o)
  PROVE  Inv'
<1>1. PICK how \in {"opened", "refused"} : how = "refused"
  OBVIOUS
<1>2. /\ openings' = [openings EXCEPT ![o].state = "refused"]
      /\ openings[o].state = "reading"
      /\ UNCHANGED <<caller, draw, slotVars, at, opened, live, sessions, queue, current, lost, stops>>
  BY DEF ReadFails, threadVars
<1>3. PoolInv' /\ PoolTyped
  BY ReadFailsIs DEF Inv, PoolInv
<1>4. PICK h \in {"reading", "sent", "opened", "lost", "refused"} : h = how
  OBVIOUS
<1>5. openings' = [openings EXCEPT ![o].state = h]
  BY <1>1, <1>2, <1>4
<1>6. /\ DOMAIN openings' = DOMAIN openings
      /\ \A r \in DOMAIN openings :
           /\ openings'[r].doc = openings[r].doc /\ openings'[r].thread = openings[r].thread
           /\ openings'[r].state = (IF r = o THEN h ELSE openings[r].state)
  BY <1>3, <1>5, StateIs
<1>7. \A r \in DOMAIN openings :
        /\ openings'[r].doc = openings[r].doc /\ openings'[r].thread = openings[r].thread
        /\ openings'[r].state = (IF r = o THEN how ELSE openings[r].state)
  BY <1>4, <1>6
<1> QED
  BY <1>1, <1>2, <1>3, <1>6, <1>7, SettledKeeps

LEMMA AnswersKeeps ==
  ASSUME Inv, NEW t \in live, NEW s \in Documents,
         NEW how \in {"opened", "refused"}, Answers(t, s, how)
  PROVE  Inv'
<1>1. PICK o : o = opening[t][s]
  OBVIOUS
<1>2. /\ PoolInv'
      /\ o \in DOMAIN openings /\ openings[o].thread = t /\ openings[o].state = "sent"
      /\ UNCHANGED <<caller, draw, slotVars, at, opened, live, sessions, queue, current, lost, stops>>
      /\ DOMAIN openings' = DOMAIN openings
      /\ \A r \in DOMAIN openings :
           /\ openings'[r].doc = openings[r].doc /\ openings'[r].thread = openings[r].thread
           /\ openings'[r].state = (IF r = o THEN how ELSE openings[r].state)
  BY <1>1, AnswersIs DEF Inv
<1> QED
  BY <1>2, SettledKeeps

LEMMA AnswersDrawKeeps ==
  ASSUME Inv, NEW t \in live, NEW how \in {"drawn", "failed"}, AnswersDraw(t, how)
  PROVE  Inv'
<1> USE DEF Inv
<1>1. PICK d : d = current[t]
  OBVIOUS
<1>2. /\ d # None /\ Ends(d, how) /\ NextDraw(t) /\ MaybeIdle(t)
      /\ UNCHANGED <<caller, at, opened, openings, live, started, sessions, opening, lost, stops>>
  BY <1>1 DEF AnswersDraw
<1>3. /\ t \in Threads /\ queue \in [Threads -> Seq(Draws)] /\ queue[t] \in Seq(Draws)
      /\ current \in [Threads -> Draws \cup {None}] /\ live \subseteq Threads
  BY LiveAre DEF PoolInv, PoolTyped
<1>4. d \in Draws /\ draw[d].pc = "sent"
  BY <1>1, <1>2, <1>3 DEF PlacesInv
<1>5. /\ draw' \in [Draws -> DrawStates] /\ draw'[d].pc = how
      /\ draw'[d].reopened = draw[d].reopened
      /\ \A e \in Draws : e # d => draw'[e] = draw[e]
  <2>1. PICK pc \in {"ahead", "slot", "again", "opening", "sent", "drawn", "failed", "lost"} : pc = how
    OBVIOUS
  <2>2. PICK on \in Nat \cup {None} : on = None
    OBVIOUS
  <2>3. draw' = [draw EXCEPT ![d].pc = pc, ![d].on = on]
    BY <2>1, <2>2, <1>2 DEF Ends
  <2>4. /\ draw' \in [Draws -> DrawStates] /\ draw'[d].pc = pc
        /\ draw'[d].reopened = draw[d].reopened
        /\ \A e \in Draws : e # d => draw'[e] = draw[e]
    BY <2>3, <1>4, OneDraw, ZenonT(40)
  <2> QED
    BY <2>1, <2>4
<1>6. Drawing'
  BY <1>2, <1>5 DEF Drawing, Bounded
<1>7. Slots'
  <2>1. draw'[d].pc \in {"drawn", "failed", "lost"} /\ \A e \in Draws : e # d => draw'[e].pc = draw[e].pc
    BY <1>5
  <2>2. DocOf(d) \notin Exports => d \in holding
    BY <1>4, Holds
  <2> QED
    BY <2>1, <2>2, <1>2, <1>4, SlotEnds DEF Ends
<1>8. PoolInv'
  BY <1>1, <1>2, NextDrawIs
<1>9. /\ queue' \in [Threads -> Seq(Draws)]
      /\ \A r \in Threads : r # t => queue'[r] = queue[r] /\ current'[r] = current[r]
  BY <1>3, <1>8 DEF NextDraw, AnswersDraw, PoolInv, PoolTyped
<1>10. \/ queue[t] = <<>> /\ queue'[t] = queue[t] /\ current'[t] = None
       \/ queue[t] # <<>> /\ queue'[t] = Tail(queue[t]) /\ current'[t] = Head(queue[t])
  BY <1>2, <1>3 DEF NextDraw
<1>11. /\ Queued(t)' \subseteq Queued(t)
       /\ current'[t] # None => current'[t] \in Queued(t) /\ current'[t] \notin Queued(t)'
       /\ \A i, j \in DOMAIN queue'[t] : queue'[t][i] = queue'[t][j] => i = j
  <2>1. \A i, j \in DOMAIN queue[t] : queue[t][i] = queue[t][j] => i = j
    BY <1>3 DEF PlacesInv
  <2>2. CASE queue[t] = <<>> /\ queue'[t] = queue[t] /\ current'[t] = None
    BY <2>1, <2>2 DEF Queued
  <2>3. CASE queue[t] # <<>> /\ queue'[t] = Tail(queue[t]) /\ current'[t] = Head(queue[t])
    <3>1. PICK r, h : r = Tail(queue[t]) /\ h = Head(queue[t])
      OBVIOUS
    <3>2. /\ h = queue[t][1] /\ 1 \in DOMAIN queue[t]
          /\ \A i \in DOMAIN r : i + 1 \in DOMAIN queue[t] /\ r[i] = queue[t][i + 1] /\ i \in Nat /\ i > 0
      BY <2>3, <3>1, <1>3, TailIs
    <3>3. queue'[t] = r /\ current'[t] = h
      BY <2>3, <3>1
    <3>4. \A i \in DOMAIN r : r[i] # h
      BY <3>2, <2>1
    <3>5. \A i, j \in DOMAIN r : r[i] = r[j] => i = j
      BY <3>2, <2>1
    <3> QED
      BY <3>2, <3>3, <3>4, <3>5 DEF Queued
  <2> QED
    BY <2>2, <2>3, <1>10
<1>12. \A r \in Threads : /\ Queued(r)' \subseteq Queued(r)
                          /\ \/ current'[r] = current[r] /\ r # t
                             \/ current'[r] = None
                             \/ r = t /\ current'[r] \in Queued(r) /\ current'[r] \notin Queued(r)'
  BY <1>9, <1>11 DEF Queued
<1>13. PlacesInv'
  <2>1. \A r \in Threads : \A e \in Draws :
          e = current'[r] \/ e \in Queued(r)' => draw'[e].pc = "sent"
    <3>1. \A r \in Threads : d \notin Queued(r) /\ (r # t => current[r] # d)
      BY <1>1, <1>2, <1>3 DEF PlacesInv
    <3>2. \A r \in Threads : \A e \in Draws :
            e = current'[r] \/ e \in Queued(r)' => e # d /\ draw[e].pc = "sent"
      BY <3>1, <1>12, DrawsAre DEF PlacesInv
    <3> QED
      BY <3>2, <1>5
  <2>2. \A r, u \in Threads : current'[r] # None =>
          /\ current'[r] = current'[u] => r = u
          /\ current'[r] \notin Queued(u)'
    <3> SUFFICES ASSUME NEW r \in Threads, NEW u \in Threads, current'[r] # None
                 PROVE  /\ current'[r] = current'[u] => r = u
                        /\ current'[r] \notin Queued(u)'
      OBVIOUS
    <3>1. CASE r # t
      <4>1. current'[r] = current[r] /\ current[r] \notin Queued(u) /\ current[r] \notin Queued(t)
        BY <3>1, <1>3, <1>12 DEF PlacesInv
      <4>2. current'[r] = current'[u] => r = u
        BY <4>1, <1>12 DEF PlacesInv
      <4> QED
        BY <4>1, <4>2, <1>12
    <3>2. CASE r = t
      <4>1. current'[t] \in Queued(t) /\ current'[t] \notin Queued(t)'
        BY <3>2, <1>11
      <4>2. u # t => current[u] # current'[t] /\ current'[t] \notin Queued(u)
        BY <4>1, <1>3, <3>2 DEF PlacesInv
      <4> QED
        BY <4>1, <4>2, <3>2, <1>9, <1>12
    <3> QED
      BY <3>1, <3>2
  <2>3. \A r, u \in Threads : r # u => Queued(r)' \cap Queued(u)' = {}
    BY <1>12 DEF PlacesInv
  <2>4. \A r \in Threads : \A i, j \in DOMAIN queue'[r] : queue'[r][i] = queue'[r][j] => i = j
    BY <1>9, <1>11 DEF PlacesInv
  <2> QED
    BY <2>1, <2>2, <2>3, <2>4 DEF PlacesInv
<1>14. Waits' /\ Begun'
  BY <1>2, <1>4, <1>5 DEF Waits, Begun
<1>15. OpenInv'
  <2>1. \A u \in Documents : Plain(u)' => Plain(u)
    BY <1>2, <1>5, PlainBefore
  <2>2. \A e \in Draws : draw'[e].pc = "opening" => draw[e].pc = "opening" /\ draw'[e].on = draw[e].on
    BY <1>5
  <2>3. \A r \in live, e \in Draws : e = current'[r] \/ e \in Queued(r)' => e = current[r] \/ e \in Queued(r)
    BY <1>3, <1>12, DrawsAre
  <2> QED
    BY <2>1, <2>2, <2>3, <1>2, OpenSame
<1>16. CostsOnePage'
  BY <1>2, <1>5, CostsKept DEF Drawing
<1> QED
  BY <1>6, <1>7, <1>8, <1>13, <1>14, <1>15, <1>16

\* What the loss of a thread leaves of each draw: the one being drawn is lost, and
\* those behind it, which were sent, are to be sent again.
LEMMA FatesAre ==
  ASSUME Drawing, PoolInv, PlacesInv, NEW t \in live, Loses(t)
  PROVE  /\ draw' \in [Draws -> DrawStates]
         /\ \A d \in Draws :
              /\ draw'[d].on = draw[d].on /\ draw'[d].reopened = draw[d].reopened
              /\ d = current[t] => draw[d].pc = "sent" /\ draw'[d].pc = "lost"
              /\ d \in Queued(t) => draw[d].pc = "sent" /\ draw'[d].pc = "again"
              /\ d # current[t] /\ d \notin Queued(t) => draw'[d].pc = draw[d].pc
<1>1. t \in Threads /\ current \in [Threads -> Draws \cup {None}]
  BY LiveAre DEF PoolInv, PoolTyped
<1>2. draw' = [d \in Draws |-> [draw[d] EXCEPT !.pc = Fate(t, d)]]
  BY DEF Loses
<1>3. \A d \in Draws : d = current[t] => d \notin Queued(t)
  BY <1>1, DrawsAre DEF PlacesInv
<1>4. \A d \in Draws : /\ d = current[t] => draw[d].pc = "sent" /\ Fate(t, d) = "lost"
                       /\ d \in Queued(t) => draw[d].pc = "sent" /\ Fate(t, d) = "again"
                       /\ d # current[t] /\ d \notin Queued(t) => Fate(t, d) = draw[d].pc
  <2> SUFFICES ASSUME NEW d \in Draws
               PROVE  /\ d = current[t] => draw[d].pc = "sent" /\ Fate(t, d) = "lost"
                      /\ d \in Queued(t) => draw[d].pc = "sent" /\ Fate(t, d) = "again"
                      /\ d # current[t] /\ d \notin Queued(t) => Fate(t, d) = draw[d].pc
    OBVIOUS
  <2>1. d = current[t] \/ d \in Queued(t) => draw[d].pc = "sent"
    BY <1>1 DEF PlacesInv
  <2>2. CASE d = current[t]
    BY <2>1, <2>2, <1>3 DEF Fate
  <2>3. CASE d \in Queued(t) /\ d # current[t]
    BY <2>1, <2>3 DEF Fate
  <2>4. CASE d \notin Queued(t) /\ d # current[t]
    BY <2>4 DEF Fate
  <2> QED
    BY <2>2, <2>3, <2>4
<1>5. \A d \in Draws : draw[d] \in DrawStates
  BY RecordsAre
<1>6. \A d \in Draws :
        /\ draw'[d] \in DrawStates /\ draw'[d].pc = Fate(t, d)
        /\ draw'[d].on = draw[d].on /\ draw'[d].reopened = draw[d].reopened
  <2> SUFFICES ASSUME NEW d \in Draws
               PROVE  /\ draw'[d] \in DrawStates /\ draw'[d].pc = Fate(t, d)
                      /\ draw'[d].on = draw[d].on /\ draw'[d].reopened = draw[d].reopened
    OBVIOUS
  <2>1. PICK pc : pc = Fate(t, d)
    OBVIOUS
  <2>2. pc \in {"ahead", "slot", "again", "opening", "sent", "drawn", "failed", "lost"}
    BY <2>1, <1>4, RecordsAre
  <2>3. draw'[d] = [draw[d] EXCEPT !.pc = pc]
    BY <2>1, <1>2
  <2> QED
    BY <2>1, <2>2, <2>3, <1>5 DEF DrawStates
<1>7. draw' \in [Draws -> DrawStates]
  BY <1>2, <1>6
<1> QED
  BY <1>4, <1>6, <1>7

\* In a quiet state nobody waits for an opening that is settled.
LEMMA QuietWaits ==
  ASSUME PoolInv, Waits, Quiet
  PROVE  \A d \in Draws : draw[d].pc = "opening" =>
           /\ draw[d].on \in DOMAIN openings
           /\ openings[draw[d].on].state \in {"reading", "sent"}
<1>1. \A o \in DOMAIN openings :
        o # None /\ openings[o].state \in {"reading", "sent", "opened", "lost", "refused"}
  BY OpeningsAre DEF PoolInv
<1> QED
  BY <1>1 DEF Waits, Quiet, Hears, Settled

LEMMA CrashesKeeps ==
  ASSUME Inv, Quiet, NEW t \in live, Crashes(t)
  PROVE  Inv'
<1> USE DEF Inv
<1>1. lost < MaxLost /\ lost' = lost + 1 /\ Loses(t)
  BY DEF Crashes
<1>2. /\ PoolInv' /\ t \in Threads
      /\ live' = live \ {t} /\ UNCHANGED <<caller, stops>>
      /\ at' = [s \in Documents |-> IF s \in sessions[t] THEN None ELSE at[s]]
      /\ opened' = [s \in Documents |-> IF s \in sessions[t] THEN None ELSE opened[s]]
      /\ sessions' = [sessions EXCEPT ![t] = {}]
      /\ queue' = [queue EXCEPT ![t] = <<>>]
      /\ current' = [current EXCEPT ![t] = None]
      /\ DOMAIN openings' = DOMAIN openings
  BY <1>1, LosesIs DEF Drawing
<1>3. \A o \in DOMAIN openings :
        /\ openings'[o].doc = openings[o].doc /\ openings'[o].thread = openings[o].thread
        /\ \/ openings'[o].state = openings[o].state
           \/ openings[o].state = "sent" /\ openings'[o].state = "lost"
  BY <1>1, LosesIs DEF Drawing
<1>4. /\ draw' \in [Draws -> DrawStates]
      /\ \A d \in Draws :
           /\ draw'[d].on = draw[d].on /\ draw'[d].reopened = draw[d].reopened
           /\ d = current[t] => draw[d].pc = "sent" /\ draw'[d].pc = "lost"
           /\ d \in Queued(t) => draw[d].pc = "sent" /\ draw'[d].pc = "again"
           /\ d # current[t] /\ d \notin Queued(t) => draw'[d].pc = draw[d].pc
  BY <1>1, FatesAre
<1>5. /\ current \in [Threads -> Draws \cup {None}] /\ queue \in [Threads -> Seq(Draws)]
      /\ sessions \in [Threads -> SUBSET Documents]
      /\ live \subseteq Threads /\ None \notin Threads
  BY LiveAre, ThreadsAre DEF PoolInv, PoolTyped
<1>6. Drawing'
  BY <1>1, <1>2, <1>4, ThreadsAre DEF Drawing, Bounded
<1>7. \A d \in Draws : d # current[t] => \/ draw'[d].pc = draw[d].pc
                                         \/ draw[d].pc = "sent" /\ draw'[d].pc = "again"
  BY <1>4
<1>8. Slots'
  <2>1. CASE current[t] = None
    <3>1. UNCHANGED slotVars
      BY <2>1, <1>1 DEF Loses
    <3>2. \A d \in Draws : \/ draw'[d].pc = draw[d].pc
                           \/ draw[d].pc = "sent" /\ draw'[d].pc = "again"
      BY <2>1, <1>7, DrawsAre
    <3>3. \A u \in Users : /\ Entitled(u) => Entitled(u)'
                           /\ Working(u)' => Working(u) \/ u \in holding
      BY <3>2, <1>2, UsersAre DEF Entitled, Working
    <3> QED
      BY <3>1, <3>3, SlotsKept
  <2>2. CASE current[t] # None
    <3>1. PICK d \in Draws : d = current[t]
      BY <2>2, <1>2, <1>5
    <3>2. ReleaseOf(d) /\ draw[d].pc = "sent" /\ draw'[d].pc = "lost"
      BY <2>2, <3>1, <1>1, <1>4 DEF Loses
    <3>3. DocOf(d) \notin Exports => d \in holding
      BY <3>2, Holds
    <3> QED
      BY <3>1, <3>2, <3>3, <1>2, <1>7, SlotEnds
  <2> QED
    BY <2>1, <2>2
<1>9. \A r \in Threads :
        /\ r # t => /\ current'[r] = current[r] /\ queue'[r] = queue[r]
                    /\ Queued(r)' = Queued(r) /\ sessions'[r] = sessions[r]
        /\ r = t => current'[r] = None /\ queue'[r] = <<>> /\ Queued(r)' = {} /\ sessions'[r] = {}
  BY <1>2, <1>5 DEF Queued
<1>10. PlacesInv'
  <2>1. \A r \in Threads : \A d \in Draws :
          d = current'[r] \/ d \in Queued(r)' => draw'[d].pc = "sent"
    <3> SUFFICES ASSUME NEW r \in Threads, NEW d \in Draws, d = current'[r] \/ d \in Queued(r)'
                 PROVE  draw'[d].pc = "sent"
      OBVIOUS
    <3>1. r # t /\ (d = current[r] \/ d \in Queued(r)) /\ d # None
      BY <1>9, DrawsAre
    <3>2. draw[d].pc = "sent"
      BY <3>1 DEF PlacesInv
    <3>3. d # current[t] /\ d \notin Queued(t)
      BY <3>1, <1>2 DEF PlacesInv
    <3> QED
      BY <3>2, <3>3, <1>4
  <2>2. \A r, u \in Threads : current'[r] # None =>
          /\ current'[r] = current'[u] => r = u
          /\ current'[r] \notin Queued(u)'
    BY <1>9 DEF PlacesInv
  <2>3. \A r, u \in Threads : r # u => Queued(r)' \cap Queued(u)' = {}
    BY <1>9 DEF PlacesInv
  <2>4. \A r \in Threads : \A i, j \in DOMAIN queue'[r] : queue'[r][i] = queue'[r][j] => i = j
    <3>1. \A i, j \in DOMAIN <<>> : FALSE
      OBVIOUS
    <3> QED
      BY <3>1, <1>9 DEF PlacesInv
  <2> QED
    BY <2>1, <2>2, <2>3, <2>4 DEF PlacesInv
<1>11. \A d \in Draws : draw'[d].pc = "opening" => draw[d].pc = "opening" /\ draw'[d].on = draw[d].on
  BY <1>4
<1>12. Waits'
  BY <1>2, <1>3, <1>11 DEF Waits
<1>13. Begun'
  <2>1. \A s \in Documents : caller'[s].pc \in {"before", "slot"} => at'[s] = None
    BY <1>2 DEF Begun
  <2>2. \A d \in Draws : draw'[d].pc # "ahead" => draw[d].pc # "ahead"
    BY <1>4
  <2> QED
    BY <2>1, <2>2, <1>2 DEF Begun
<1>14. OpenInv'
  <2>1. \A s \in Documents : Plain(s)' => Plain(s)
    BY <1>2, <1>4, PlainBefore
  <2>2. \A s \in Documents : \/ at'[s] = None /\ s \in sessions[t]
                             \/ /\ at'[s] = at[s] /\ opened'[s] = opened[s]
                                /\ s \notin sessions[t]
    BY <1>2
  <2>3. Shut'
    BY <2>2, <1>2 DEF OpenInv, Shut, Closed
  <2>4. Sent'
    <3> SUFFICES ASSUME NEW s \in Documents, at'[s] \in live',
                        openings'[opened'[s]].state \in {"sent", "opened"}
                 PROVE  s \in sessions'[at'[s]]
      BY DEF Sent
    <3>1. at'[s] = at[s] /\ opened'[s] = opened[s] /\ at[s] \in live /\ at[s] # t /\ at[s] # None
      BY <2>2, <1>2, <1>5
    <3>2. opened[s] \in DOMAIN openings
      BY <3>1 DEF PoolInv, PoolTyped, Refs
    <3>3. openings[opened[s]].state \in {"sent", "opened"}
      BY <3>1, <3>2, <1>3
    <3> QED
      BY <3>1, <3>3, <1>5, <1>9 DEF OpenInv, Sent
  <2>5. OnOne'
    <3> SUFFICES ASSUME NEW r \in live', NEW s \in Documents, s \in sessions'[r], Plain(s)'
                 PROVE  at'[s] = r
      BY DEF OnOne
    <3>1. r \in live /\ r # t /\ s \in sessions[r] /\ Plain(s)
      BY <2>1, <1>2, <1>5, <1>9
    <3>2. at[s] = r /\ s \notin sessions[t]
      BY <3>1 DEF OpenInv, OnOne
    <3> QED
      BY <3>2, <2>2
  <2>6. ToOne'
    <3>1. ASSUME NEW o \in DOMAIN openings', NEW s \in Documents,
                 openings'[o].doc = s, openings'[o].state = "reading",
                 openings'[o].thread \in live', Plain(s)'
          PROVE  at'[s] = openings'[o].thread
      <4>1. /\ o \in DOMAIN openings /\ openings[o].doc = s /\ openings[o].state = "reading"
            /\ openings[o].thread \in live /\ openings[o].thread # t /\ Plain(s)
            /\ openings'[o].thread = openings[o].thread
        BY <3>1, <1>2, <1>3, <2>1
      <4>2. at[s] = openings[o].thread
        BY <4>1 DEF OpenInv, ToOne
      <4>3. s \notin sessions[t]
        BY <4>1, <4>2 DEF OpenInv, OnOne
      <4> QED
        BY <4>1, <4>2, <4>3, <2>2
    <3>2. \A o \in DOMAIN openings' : openings'[o].doc \in Documents
      BY <1>2, <1>3, OpeningsAre DEF PoolInv
    <3> QED
      BY <3>1, <3>2 DEF ToOne, Plain, Closed, Reopened
  <2>7. OnLast'
    <3> SUFFICES ASSUME NEW d \in Draws, draw'[d].pc = "opening", Plain(DocOf(d))'
                 PROVE  \/ opened'[DocOf(d)] = draw'[d].on /\ at'[DocOf(d)] \in live'
                        \/ /\ openings'[draw'[d].on].thread \notin live'
                           /\ openings'[draw'[d].on].state # "opened"
      BY DEF OnLast
    <3>1. PICK s \in Documents : s = DocOf(d)
      BY DrawsAre
    <3>2. PICK o \in DOMAIN openings : o = draw[d].on
      BY <1>11 DEF Waits
    <3>3. draw[d].pc = "opening" /\ draw'[d].on = o /\ Plain(s)
      BY <3>1, <3>2, <1>11, <2>1
    <3>4. openings[o].state \in {"reading", "sent"}
      BY <3>2, <3>3, QuietWaits
    <3>5. openings'[o].state # "opened" /\ openings'[o].thread = openings[o].thread
      BY <3>4, <1>3
    <3>6. CASE opened[s] = o /\ at[s] \in live
      <4>1. openings[o].thread = at[s]
        BY <3>6, <1>5 DEF PoolInv, Refs
      <4>2. CASE at[s] = t
        BY <4>1, <4>2, <3>3, <3>5, <1>2
      <4>3. CASE at[s] # t
        <5>1. s \notin sessions[t]
          BY <4>3, <3>3 DEF OpenInv, OnOne
        <5> QED
          BY <5>1, <4>3, <3>1, <3>3, <3>6, <2>2, <1>2
      <4> QED
        BY <4>2, <4>3
    <3>7. CASE openings[o].thread \notin live
      BY <3>7, <3>3, <3>5, <1>2
    <3> QED
      BY <3>1, <3>2, <3>3, <3>6, <3>7 DEF OpenInv, OnLast
  <2>8. Placed'
    <3>1. \A r \in live' : r \in live /\ r # t /\ r \in Threads
      BY <1>2, <1>5
    <3> QED
      BY <3>1, <2>1, <1>9, DrawsAre DEF OpenInv, Placed
  <2> QED
    BY <2>3, <2>4, <2>5, <2>6, <2>7, <2>8 DEF OpenInv
<1>15. CostsOnePage'
  <2>1. PICK c : c = current[t]
    OBVIOUS
  <2>2. PICK S : S = {d \in Draws : draw[d].pc = "lost" /\ draw[d].reopened = 0}
    OBVIOUS
  <2>3. PICK T : T = {d \in Draws : draw'[d].pc = "lost" /\ draw'[d].reopened = 0}
    OBVIOUS
  <2>4. IsFiniteSet(S)
    BY <2>2, DrawsAre, FS_Subset
  <2>5. T \subseteq S \cup {c}
    BY <2>1, <2>2, <2>3, <1>4
  <2>6. /\ IsFiniteSet(S \cup {c}) /\ Cardinality(S) \in Nat
        /\ Cardinality(S \cup {c}) \in {Cardinality(S), Cardinality(S) + 1}
    BY <2>4, FS_AddElement, FS_CardinalityType
  <2>7. Cardinality(T) \in Nat /\ Cardinality(T) <= Cardinality(S \cup {c})
    BY <2>5, <2>6, FS_Subset, FS_CardinalityType
  <2>8. Cardinality(S) <= lost
    BY <2>2 DEF CostsOnePage
  <2>9. Cardinality(T) <= lost'
    BY <2>6, <2>7, <2>8, <1>1, ThreadsAre DEF Drawing, Bounded
  <2> QED
    BY <2>3, <2>9 DEF CostsOnePage
<1> QED
  BY <1>2, <1>6, <1>8, <1>10, <1>12, <1>13, <1>14, <1>15

LEMMA StopsIdleKeeps ==
  ASSUME Inv, Quiet, NEW t \in live, StopsIdle(t)
  PROVE  Inv'
<1> USE DEF Inv
<1>1. /\ t \in idle /\ stops < MaxStops /\ stops' = stops + 1 /\ live' = live \ {t}
      /\ UNCHANGED <<caller, draw, slotVars, at, opened, openings, started, sessions,
                     opening, queue, current, lost>>
  BY DEF StopsIdle
<1>2. PoolInv'
  BY StopsIdleIs DEF Drawing
<1>3. Drawing'
  BY <1>1, ThreadsAre DEF Drawing, Bounded
<1>4. Slots'
  <2>1. \A u \in Users : /\ Entitled(u) => Entitled(u)'
                         /\ Working(u)' => Working(u) \/ u \in holding
    BY <1>1 DEF Entitled, Working
  <2> QED
    BY <2>1, <1>1, SlotsKept
<1>5. PlacesInv'
  BY <1>1, PlacesKept
<1>6. Waits' /\ Begun'
  BY <1>1 DEF Waits, Begun
<1>7. OpenInv'
  <2>1. \A s \in Documents : Plain(s)' = Plain(s)
    BY <1>1 DEF Plain, Closed, Reopened
  <2>2. Shut' /\ Sent'
    BY <1>1 DEF OpenInv, Shut, Sent, Closed
  <2>3. OnOne' /\ Placed'
    BY <2>1, <1>1, DrawsAre DEF OpenInv, OnOne, Placed, Queued
  <2>4. ToOne'
    BY <1>1, OpeningsAre DEF OpenInv, ToOne, PoolInv, Plain, Closed, Reopened
  <2>5. OnLast'
    <3> SUFFICES ASSUME NEW d \in Draws, draw[d].pc = "opening", Plain(DocOf(d))
                 PROVE  \/ opened[DocOf(d)] = draw[d].on /\ at[DocOf(d)] \in live'
                        \/ /\ openings[draw[d].on].thread \notin live'
                           /\ openings[draw[d].on].state # "opened"
      BY <2>1, <1>1, DrawsAre DEF OnLast
    <3>1. PICK s \in Documents : s = DocOf(d)
      BY DrawsAre
    <3>2. openings[draw[d].on].state \in {"reading", "sent"}
      BY QuietWaits
    <3>3. CASE opened[s] = draw[d].on /\ at[s] \in live
      <4>1. openings[draw[d].on].thread = at[s]
        BY <3>3, LiveAre DEF PoolInv, Refs
      <4> QED
        BY <4>1, <3>1, <3>2, <3>3, <1>1
    <3>4. CASE openings[draw[d].on].thread \notin live
      BY <3>2, <3>4, <1>1
    <3> QED
      BY <3>1, <3>3, <3>4 DEF OpenInv, OnLast
  <2> QED
    BY <2>2, <2>3, <2>4, <2>5 DEF OpenInv
<1>8. CostsOnePage'
  BY <1>1, CostsKept DEF Drawing
<1> QED
  BY <1>2, <1>3, <1>4, <1>5, <1>6, <1>7, <1>8

-----------------------------------------------------------------------------
(* The invariant, and what it gives. *)

LEMMA InitInv ==
  ASSUME Init
  PROVE  Inv
<1> USE DEF Init
<1>1. Drawing
  BY ThreadsAre DEF Drawing, Bounded, Callers, DrawStates
<1>2. Slots
  <2>1. IsFiniteSet({}) /\ Cardinality({}) = 0 /\ <<>> \in Seq(Users) /\ DOMAIN <<>> = {}
    BY FS_EmptySet, EmptySeq
  <2>2. SlotsTyped /\ SlotsInv
    BY <2>1, ThreadsAre DEF SlotsTyped, SlotsInv
  <2>3. OwnersInv
    BY <2>1, UsersAre, DrawsAre DEF OwnersInv, InLine, Working
  <2> QED
    BY <2>2, <2>3 DEF Slots
<1>3. PoolInv
  <2>1. /\ IsFiniteSet({}) /\ Cardinality({}) = 0 /\ DOMAIN <<>> = {}
        /\ <<>> \in Seq(Draws) /\ <<>> \in Seq(Openings)
    BY FS_EmptySet, EmptySeq
  <2>2. PoolTyped
    BY <2>1 DEF PoolTyped
  <2>3. ThreadsInv
    BY <2>1, ThreadsAre DEF ThreadsInv
  <2>4. Refs
    BY <2>1 DEF Refs
  <2> QED
    BY <2>2, <2>3, <2>4 DEF PoolInv
<1>4. PlacesInv
  <2>1. DOMAIN <<>> = {}
    OBVIOUS
  <2> QED
    BY <2>1, DrawsAre DEF PlacesInv, Queued
<1>5. Waits /\ Begun
  BY DrawsAre DEF Waits, Begun
<1>6. OpenInv
  <2>1. DOMAIN <<>> = {}
    OBVIOUS
  <2> QED
    BY <2>1, ThreadsAre DEF OpenInv, Shut, Sent, OnOne, ToOne, OnLast, Placed
<1>7. CostsOnePage
  <2>1. PICK S : S = {d \in Draws : draw[d].pc = "lost" /\ draw[d].reopened = 0}
    OBVIOUS
  <2>2. S = {}
    BY <2>1
  <2>3. Cardinality(S) = 0 /\ lost = 0
    BY <2>2, FS_EmptySet
  <2>4. Cardinality(S) <= lost
    BY <2>3
  <2> QED
    BY <2>1, <2>4 DEF CostsOnePage
<1> QED
  BY <1>1, <1>2, <1>3, <1>4, <1>5, <1>6, <1>7 DEF Inv

LEMMA StutterInv ==
  ASSUME Inv, UNCHANGED vars
  PROVE  Inv'
<1> USE DEF Inv
<1>1. UNCHANGED <<caller, draw, slotVars, poolVars, lost, stops>>
  BY DEF vars
<1>2. Drawing'
  BY <1>1 DEF Drawing, Bounded
<1>3. Slots'
  <2>1. \A u \in Users : /\ Entitled(u) => Entitled(u)'
                         /\ Working(u)' => Working(u) \/ u \in holding
    BY <1>1 DEF Entitled, Working
  <2> QED
    BY <2>1, <1>1, SlotsKept
<1>4. PoolInv'
  BY <1>1, PoolSame
<1>5. UNCHANGED <<at, opened, openings, live, started, sessions, opening, queue, current, idle>>
  BY <1>1 DEF poolVars, threadVars
<1>6. PlacesInv' /\ Waits' /\ Begun'
  BY <1>1, <1>5 DEF PlacesInv, Waits, Begun, Queued
<1>7. OpenInv'
  <2>1. \A s \in Documents : Plain(s)' => Plain(s)
    BY <1>1, PlainBefore
  <2> QED
    BY <2>1, <1>1, OpenKept
<1>8. CostsOnePage'
  BY <1>1, CostsKept DEF Drawing
<1> QED
  BY <1>2, <1>3, <1>4, <1>6, <1>7, <1>8

LEMMA NextInv ==
  ASSUME Inv, [Next]_vars
  PROVE  Inv'
<1>1. CASE Due
  <2>1. ASSUME NEW s \in Documents, OpensDocument(s) \/ LearnsOpened(s) \/ ClosesDocument(s)
        PROVE  Inv'
    BY <2>1, OpensDocumentKeeps, LearnsOpenedKeeps, ClosesDocumentKeeps
  <2>2. ASSUME NEW d \in Draws, SendsDraw(d) \/ HearsOpened(d) \/ HearsLost(d) \/ HearsRefused(d)
        PROVE  Inv'
    BY <2>2, SendsDrawKeeps, HearsOpenedKeeps, HearsLostKeeps, HearsRefusedKeeps
  <2>3. ASSUME NEW o \in DOMAIN openings, SendsDocument(o)
        PROVE  Inv'
    BY <2>3, SendsDocumentKeeps
  <2> QED
    BY <1>1, <2>1, <2>2, <2>3 DEF Due
<1>2. CASE Comes
  <2>1. ASSUME NEW s \in Documents, TakesSlot(s) \/ OpensDocument(s)
        PROVE  Inv'
    BY <2>1, TakesSlotKeeps, OpensDocumentKeeps
  <2>2. ASSUME NEW d \in Draws, AsksPage(d)
        PROVE  Inv'
    BY <2>2, AsksPageKeeps
  <2>3. ASSUME NEW o \in DOMAIN openings, SendsDocument(o) \/ ReadFails(o)
        PROVE  Inv'
    BY <2>3, SendsDocumentKeeps, ReadFailsKeeps
  <2>4. ASSUME NEW t \in live, NEW s \in Documents, NEW how \in {"opened", "refused"},
               Answers(t, s, how)
        PROVE  Inv'
    BY <2>4, AnswersKeeps
  <2>5. ASSUME NEW t \in live, NEW how \in {"drawn", "failed"}, AnswersDraw(t, how)
        PROVE  Inv'
    BY <2>5, AnswersDrawKeeps
  <2> QED
    BY <1>2, <2>1, <2>2, <2>3, <2>4, <2>5 DEF Comes
<1>3. CASE Quiet /\ \E t \in live : Crashes(t) \/ StopsIdle(t)
  BY <1>3, CrashesKeeps, StopsIdleKeeps
<1>4. CASE UNCHANGED vars
  BY <1>4, StutterInv
<1> QED
  BY <1>1, <1>2, <1>3, <1>4 DEF Next, Goes

\* In every state that can be reached, every part of the invariant holds: slots,
\* threads, the places of the draws, and the one thread of a plain document.
THEOREM Invariance == Spec => []Inv
<1>1. Init => Inv
  BY InitInv
<1>2. Inv /\ [Next]_vars => Inv'
  BY NextInv
<1> QED
  BY <1>1, <1>2, PTL DEF Spec

\* Everything keeps its type: an opening is of a document and a thread there are,
\* a thread that is idle runs, and no more threads are started than were lost or
\* stopped and there are CPUs.
THEOREM Typing == Spec => []TypeOK
<1>1. Inv => TypeOK
  BY DEF Inv, Drawing, Bounded, Slots, SlotsTyped, PoolInv, PoolTyped, TypeOK
<1> QED
  BY <1>1, Invariance, PTL

\* Through every loss, idle stop and reopening, Semaphore and RenderPool keep the
\* slots in use and the threads that run within the CPUs, count the slots they
\* gave, leave nobody waiting while one is free, and take back every slot whose
\* draw or export is over.
THEOREM SlotsAndThreadsBounded == Spec => []WithinCpus
<1>1. Inv => WithinCpus
  <2> SUFFICES ASSUME Inv
               PROVE  WithinCpus
    OBVIOUS
  <2>1. /\ inUse \in 0..Cpus /\ inUse = Cardinality(holding) /\ Cardinality(live) <= Cpus
        /\ line # <<>> => inUse = Cpus
    BY DEF Inv, Slots, SlotsTyped, SlotsInv, PoolInv, ThreadsInv
  <2>2. \A u \in holding : IF u \in Documents THEN caller[u].pc # "closed" ELSE ~Ended(u)
    BY DEF Inv, Slots, SlotsTyped, OwnersInv, Entitled, Ended
  <2> QED
    BY <2>1, <2>2, ThreadsAre DEF WithinCpus
<1> QED
  BY <1>1, Invariance, PTL

\* RenderThread.lost fails the page the thread was drawing and no other, unless
\* that other had been sent again once: no more such pages fail than threads die.
THEOREM LossCostsAPage == Spec => []CostsOnePage
<1>1. Inv => CostsOnePage
  BY DEF Inv
<1> QED
  BY <1>1, Invariance, PTL

\* A thread is asked only for pages of a document it was sent and has not been
\* told to forget, unless that document is closed, or reopened, by then.
THEOREM DrawsWhatItHas == Spec => []DrawnWhereOpen
<1>1. Inv => DrawnWhereOpen
  <2>1. ASSUME Inv, NEW t \in live, current[t] # None
        PROVE  LET s == DocOf(current[t])
               IN s \in sessions[t] \/ Closed(s) \/ Reopened(s)
    <3>1. current[t] \in Draws
      BY <2>1, LiveAre DEF Inv, PoolInv, PoolTyped
    <3> QED
      BY <3>1, <2>1 DEF Inv, OpenInv, Placed, Plain
  <2> QED
    BY <2>1 DEF DrawnWhereOpen
<1> QED
  BY <1>1, Invariance, PTL

\* A document none of whose pages was reopened is kept by one thread that runs at
\* most, until it is closed: RenderSession is pinned to the thread it was opened on.
THEOREM PinnedToOneThread ==
  Spec => [](\A s \in Documents : ~Closed(s) /\ ~Reopened(s) =>
               \A t, u \in live : s \in sessions[t] /\ s \in sessions[u] => t = u)
<1>1. Inv => \A s \in Documents : ~Closed(s) /\ ~Reopened(s) =>
               \A t, u \in live : s \in sessions[t] /\ s \in sessions[u] => t = u
  BY DEF Inv, OpenInv, OnOne, Plain
<1> QED
  BY <1>1, Invariance, PTL

====
