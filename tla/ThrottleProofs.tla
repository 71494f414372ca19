---------------------------- MODULE ThrottleProofs ----------------------------
(***************************************************************************)
(* Theorems about Throttle, for any processes, calls, attempts, limit and   *)
(* faults.                                                                  *)
(*                                                                         *)
(* The argument.  A process's gate counts its calls that go ahead           *)
(* (SlotsAreHeld) because every call that waits stands once in its queue    *)
(* (Queued), so that letting n of them in adds n calls to those that go     *)
(* ahead.  A lease is written over by nobody, and a release or an expiry    *)
(* takes none away from a request that still holds it, because a release    *)
(* that is under way is of an attempt that is over (Released).              *)
(***************************************************************************)
EXTENDS Throttle, FiniteSetTheorems, SequenceTheorems, TLAPS

Slotted == {"lease", "acquire", "sent"}

\* The calls of p that have a slot, and the queue of p's calls that wait for one.
HoldersIn(pcs, p) == {c \in Calls : ProcOf[c] = p /\ pcs[c] \in Slotted}

First(q, n) == {q[i] : i \in 1..n}

QueueIn(pcs, q, p) ==
  /\ q \in Seq(Calls)
  /\ \A i \in 1..Len(q) : ProcOf[q[i]] = p /\ pcs[q[i]] = "waiting"
  /\ \A i, j \in 1..Len(q) : q[i] = q[j] => i = j
  /\ \A c \in Calls : ProcOf[c] = p /\ pcs[c] = "waiting" => \E i \in 1..Len(q) : q[i] = c

Queued == \A p \in Procs : QueueIn(pc, waiting[p], p)

Counted == \A p \in Procs : active[p] = Cardinality(HoldersIn(pc, p))

\* A call that asks for a lease came by the deployment's bucket, and has chosen a slot
\* when it is about to write; one that pauses has an attempt left.
Placed ==
  \A c \in Calls : /\ pc[c] \in {"lease", "acquire"} => via[c] = "lease"
                   /\ pc[c] = "acquire" => pick[c] \in Slots
                   /\ pc[c] = "pause" => attempt[c] < MaxAttempts[c]

\* Whoever holds a lease has a row.
Leased == \A c \in Calls : Holds(c) => \E s \in Slots : lease[s] = Id(c)

\* A release is sent for an attempt that is over.
Released ==
  \A id \in letting :
    \/ id[2] < attempt[id[1]]
    \/ id[2] = attempt[id[1]] /\ pc[id[1]] \in {"pause"} \cup Over

\* Until something fails, every call goes by the deployment's limits.
Faultless ==
  faults = 0 =>
    /\ \A p \in Procs : ~down[p]
    /\ \A c \in Calls : /\ pc[c] \notin {"local", "fallback"}
                        /\ pc[c] \in Slotted \cup {"waiting"} => via[c] = "lease"

Inv ==
  /\ TypeOK
  /\ Queued
  /\ Counted
  /\ NobodyWaitsForNothing
  /\ Placed
  /\ Leased
  /\ Released
  /\ Faultless

-----------------------------------------------------------------------------
(* Queues and the calls that have a slot. *)

LEMMA DisjointUnion ==
  ASSUME NEW S, NEW T, IsFiniteSet(S), IsFiniteSet(T), S \cap T = {}
  PROVE  Cardinality(S \cup T) = Cardinality(S) + Cardinality(T)
<1>1. Cardinality(S \cup T) = Cardinality(S) + Cardinality(T) - Cardinality(S \cap T)
  BY FS_Union
<1>2. Cardinality(S) \in Nat /\ Cardinality(T) \in Nat /\ Cardinality(S \cap T) = 0
  BY FS_CardinalityType, FS_EmptySet
<1> QED
  BY <1>1, <1>2

LEMMA HoldersFinite ==
  ASSUME NEW pcs, NEW p
  PROVE  IsFiniteSet(HoldersIn(pcs, p)) /\ Cardinality(HoldersIn(pcs, p)) \in Nat
<1>1. HoldersIn(pcs, p) \in SUBSET Calls
  BY DEF HoldersIn
<1> QED
  BY <1>1, ThrottleAssumption, FS_Subset, FS_CardinalityType

\* Calls that neither get a slot nor lose one, and neither queue nor leave the queue,
\* change neither.
LEMMA SamePlaces ==
  ASSUME NEW pcs, NEW new, NEW p,
         \A c \in Calls : ProcOf[c] = p =>
           /\ pcs[c] \in Slotted <=> new[c] \in Slotted
           /\ pcs[c] = "waiting" <=> new[c] = "waiting"
  PROVE  /\ HoldersIn(new, p) = HoldersIn(pcs, p)
         /\ \A q : QueueIn(pcs, q, p) => QueueIn(new, q, p)
<1>1. HoldersIn(new, p) = HoldersIn(pcs, p)
  BY DEF HoldersIn
<1>2. ASSUME NEW q, QueueIn(pcs, q, p)
      PROVE  QueueIn(new, q, p)
  <2>1. \A i \in 1..Len(q) : q[i] \in Calls
    BY <1>2, ElementOfSeq DEF QueueIn
  <2> QED
    BY <1>2, <2>1 DEF QueueIn
<1> QED
  BY <1>1, <1>2

\* The first n of a queue are n calls.
LEMMA FirstOfQueue ==
  ASSUME NEW pcs, NEW p, NEW q, QueueIn(pcs, q, p), NEW n \in 0..Len(q)
  PROVE  /\ IsFiniteSet(First(q, n)) /\ Cardinality(First(q, n)) = n
         /\ First(q, n) \subseteq Calls
         /\ \A c \in First(q, n) : ProcOf[c] = p /\ pcs[c] = "waiting"
<1>1. Len(q) \in Nat /\ \A i \in 1..Len(q) : q[i] \in Calls
  BY ElementOfSeq, LenProperties DEF QueueIn
<1>2. n \in Nat /\ 1..n \subseteq 1..Len(q)
  BY <1>1
<1>3. [i \in 1..n |-> q[i]] \in Bijection(1..n, First(q, n))
  BY <1>2 DEF First, QueueIn, Bijection, Injection, Surjection, IsInjective
<1>4. ExistsBijection(1..n, First(q, n))
  BY <1>3 DEF ExistsBijection
<1>5. IsFiniteSet(First(q, n)) /\ Cardinality(First(q, n)) = n
  BY <1>2, <1>4, FS_CountingElements, FS_NatBijection
<1> QED
  BY <1>1, <1>2, <1>5 DEF QueueIn, First

\* Letting the first n in leaves the rest queueing, and n more with a slot.
LEMMA LetIn ==
  ASSUME NEW pcs, NEW p, NEW q, QueueIn(pcs, q, p), NEW n \in 0..Len(q),
         NEW new, \A c \in First(q, n) : new[c] \in {"lease", "sent"},
         \A c \in Calls \ First(q, n) : new[c] = pcs[c]
  PROVE  /\ QueueIn(new, SubSeq(q, n + 1, Len(q)), p)
         /\ Len(SubSeq(q, n + 1, Len(q))) = Len(q) - n
         /\ Cardinality(HoldersIn(new, p)) = Cardinality(HoldersIn(pcs, p)) + n
<1>0. PICK woken : woken = First(q, n)
  OBVIOUS
<1>9. \A c : c \in woken <=> \E i \in 1..n : q[i] = c
  BY <1>0 DEF First
<1>8. (\A c \in woken : new[c] \in {"lease", "sent"}) /\ (\A c \in Calls \ woken : new[c] = pcs[c])
  BY <1>0
<1> DEFINE rest == SubSeq(q, n + 1, Len(q))
<1>1. Len(q) \in Nat /\ n \in Nat /\ \A i \in 1..Len(q) : q[i] \in Calls
  BY ElementOfSeq, LenProperties DEF QueueIn
<1>2. /\ IsFiniteSet(woken) /\ Cardinality(woken) = n /\ woken \subseteq Calls
      /\ \A c \in woken : ProcOf[c] = p /\ pcs[c] = "waiting"
  BY <1>0, FirstOfQueue
<1>3. /\ rest \in Seq(Calls) /\ Len(rest) = Len(q) - n
      /\ \A i \in 1..Len(rest) : rest[i] = q[n + i]
  <2>1. \A i \in (n + 1)..Len(q) : q[i] \in Calls
    BY <1>1
  <2>2. /\ rest \in Seq(Calls)
        /\ Len(rest) = IF n + 1 <= Len(q) THEN Len(q) - (n + 1) + 1 ELSE 0
        /\ \A i \in 1..(Len(q) - (n + 1) + 1) : rest[i] = q[(n + 1) + i - 1]
    BY <1>1, <2>1, SubSeqProperties
  <2>3. Len(rest) = Len(q) - n
    BY <1>1, <2>2
  <2> HIDE DEF rest
  <2> QED
    BY <1>1, <2>2, <2>3
<1> HIDE DEF rest
<1>4. \A i \in 1..Len(rest) : n + i \in 1..Len(q) /\ rest[i] \notin woken /\ rest[i] \in Calls
  <2> SUFFICES ASSUME NEW i \in 1..Len(rest)
               PROVE  n + i \in 1..Len(q) /\ rest[i] \notin woken /\ rest[i] \in Calls
    OBVIOUS
  <2>1. n + i \in 1..Len(q) /\ rest[i] = q[n + i]
    BY <1>1, <1>3
  <2>2. \A j \in 1..n : j \in 1..Len(q) /\ j # n + i
    BY <1>1, <2>1
  <2>3. \A j \in 1..n : q[j] # rest[i]
    BY <2>1, <2>2 DEF QueueIn
  <2> QED
    BY <1>1, <1>9, <2>1, <2>3
<1>5. QueueIn(new, rest, p)
  <2>1. \A i \in 1..Len(rest) : ProcOf[rest[i]] = p /\ new[rest[i]] = "waiting"
    <3> SUFFICES ASSUME NEW i \in 1..Len(rest)
                 PROVE  ProcOf[rest[i]] = p /\ new[rest[i]] = "waiting"
      OBVIOUS
    <3>1. rest[i] = q[n + i] /\ n + i \in 1..Len(q) /\ rest[i] \in Calls \ woken
      BY <1>3, <1>4
    <3>2. ProcOf[q[n + i]] = p /\ pcs[q[n + i]] = "waiting"
      BY <3>1 DEF QueueIn
    <3> QED
      BY <1>8, <3>1, <3>2
  <2>2. \A i, j \in 1..Len(rest) : rest[i] = rest[j] => i = j
    <3> SUFFICES ASSUME NEW i \in 1..Len(rest), NEW j \in 1..Len(rest), rest[i] = rest[j]
                 PROVE  i = j
      OBVIOUS
    <3>1. n + i = n + j
      BY <1>3, <1>4 DEF QueueIn
    <3> QED
      BY <1>1, <1>3, <3>1
  <2>3. ASSUME NEW c \in Calls, ProcOf[c] = p, new[c] = "waiting"
        PROVE  \E i \in 1..Len(rest) : rest[i] = c
    <3>1. c \notin woken /\ pcs[c] = "waiting"
      BY <1>8, <2>3
    <3>2. PICK j \in 1..Len(q) : q[j] = c
      BY <2>3, <3>1 DEF QueueIn
    <3>3. j \notin 1..n
      BY <1>9, <3>1, <3>2
    <3>4. j - n \in 1..Len(rest) /\ n + (j - n) = j
      BY <1>1, <1>3, <3>3
    <3>5. rest[j - n] = c
      BY <1>3, <3>2, <3>4
    <3> QED
      BY <3>4, <3>5
  <2> QED
    BY <1>3, <2>1, <2>2, <2>3 DEF QueueIn
<1>6. HoldersIn(new, p) = HoldersIn(pcs, p) \cup woken /\ HoldersIn(pcs, p) \cap woken = {}
  BY <1>2, <1>8 DEF HoldersIn, Slotted
<1>7. Cardinality(HoldersIn(new, p)) = Cardinality(HoldersIn(pcs, p)) + n
  <2>1. /\ IsFiniteSet(HoldersIn(pcs, p)) /\ Cardinality(HoldersIn(pcs, p)) \in Nat
    BY HoldersFinite
  <2>2. Cardinality(HoldersIn(pcs, p) \cup woken) = Cardinality(HoldersIn(pcs, p)) + Cardinality(woken)
    BY <1>2, <1>6, <2>1, DisjointUnion
  <2> QED
    BY <1>1, <1>2, <1>6, <2>1, <2>2
<1> QED
  BY <1>3, <1>5, <1>7 DEF rest

\* A call that queues stands at the end.
LEMMA Queues ==
  ASSUME NEW pcs, NEW p, NEW q, QueueIn(pcs, q, p), NEW c \in Calls, ProcOf[c] = p,
         pcs[c] # "waiting", NEW new, new[c] = "waiting",
         \A d \in Calls \ {c} : new[d] = pcs[d]
  PROVE  QueueIn(new, Append(q, c), p)
<1> DEFINE longer == Append(q, c)
<1>1. Len(q) \in Nat /\ \A i \in 1..Len(q) : q[i] \in Calls
  BY ElementOfSeq, LenProperties DEF QueueIn
<1>2. /\ longer \in Seq(Calls) /\ Len(longer) = Len(q) + 1
      /\ \A i \in 1..Len(q) : longer[i] = q[i]
      /\ longer[Len(q) + 1] = c
  BY AppendProperties DEF QueueIn
<1> HIDE DEF longer
<1>3. \A i \in 1..Len(q) : q[i] # c /\ new[q[i]] = "waiting" /\ ProcOf[q[i]] = p
  BY <1>1 DEF QueueIn
<1>4. \A i \in 1..Len(longer) : i \in 1..Len(q) \/ i = Len(q) + 1
  BY <1>1, <1>2
<1>5. \A i \in 1..Len(longer) : ProcOf[longer[i]] = p /\ new[longer[i]] = "waiting"
  BY <1>2, <1>3, <1>4
<1>6. \A i, j \in 1..Len(longer) : longer[i] = longer[j] => i = j
  BY <1>2, <1>3, <1>4 DEF QueueIn
<1>7. ASSUME NEW d \in Calls, ProcOf[d] = p, new[d] = "waiting"
      PROVE  \E i \in 1..Len(longer) : longer[i] = d
  <2>1. CASE d = c
    <3>1. Len(q) + 1 \in 1..Len(longer)
      BY <1>1, <1>2
    <3> QED
      BY <1>2, <2>1, <3>1
  <2>2. CASE d # c
    <3>1. PICK i \in 1..Len(q) : q[i] = d
      BY <1>7, <2>2 DEF QueueIn
    <3>2. i \in 1..Len(longer)
      BY <1>1, <1>2
    <3> QED
      BY <1>2, <3>1, <3>2
  <2> QED
    BY <2>1, <2>2
<1>8. QueueIn(new, longer, p)
  BY <1>2, <1>5, <1>6, <1>7 DEF QueueIn
<1> QED
  BY <1>8 DEF longer

LEMMA LimitType ==
  ASSUME TypeOK, NEW p \in Procs
  PROVE  Limit(p) \in 1..Concurrency /\ Concurrency \in Nat
BY ThrottleAssumption DEF TypeOK, Limit, LimitAt

\* What a drain does: it lets in who is first while there is room, and nobody is left
\* waiting but for a full gate.
LEMMA Drained ==
  ASSUME TypeOK, Queued, Counted, NEW p \in Procs, NEW a \in 0..Concurrency,
         NEW lim \in 1..Concurrency, NEW pcs,
         QueueIn(pcs, waiting[p], p), a = Cardinality(HoldersIn(pcs, p)),
         \A c \in Calls : ProcOf[c] # p => pcs[c] = pc[c],
         Drain(p, a, lim, pcs)
  PROVE  /\ Queued' /\ Counted'
         /\ active' \in [Procs -> 0..Concurrency]
         /\ waiting' \in [Procs -> Seq(Calls)]
         /\ \A q \in Procs \ {p} : active'[q] = active[q] /\ waiting'[q] = waiting[q]
         /\ waiting'[p] # <<>> => active'[p] >= lim
         /\ pc' = [c \in Calls |-> pc'[c]] /\ via' = [c \in Calls |-> via'[c]]
         /\ \A c \in Calls :
              \/ pc'[c] = pcs[c] /\ via'[c] = via[c]
              \/ /\ pcs[c] = "waiting" /\ ProcOf[c] = p
                 /\ pc'[c] = Ahead(c, p) /\ via'[c] = IF Asks(c, p) THEN via[c] ELSE "slot"
<1>1. PICK q : q = waiting[p]
  OBVIOUS
<1>2. q \in Seq(Calls) /\ Len(q) \in Nat /\ QueueIn(pcs, q, p)
  BY <1>1, LenProperties DEF TypeOK
<1>3. PICK n \in 0..Len(q) : n = Woken(a, q, lim)
  BY <1>2 DEF Woken
<1>4. /\ a + n \in 0..Concurrency
      /\ n < Len(q) => a + n >= lim
  BY <1>2, <1>3, ThrottleAssumption DEF Woken
<1>20. QueueIn(pcs, q, p)
  BY <1>2
<1>5. PICK woken : woken = First(q, n)
  OBVIOUS
<1>6. /\ active' = [active EXCEPT ![p] = a + n]
      /\ waiting' = [waiting EXCEPT ![p] = SubSeq(q, n + 1, Len(q))]
      /\ pc' = [c \in Calls |-> IF c \in woken THEN Ahead(c, p) ELSE pcs[c]]
      /\ via' = [c \in Calls |-> IF c \in woken /\ ~Asks(c, p) THEN "slot" ELSE via[c]]
  BY <1>1, <1>3, <1>5, Zenon DEF Drain, First
<1>8. woken \subseteq Calls /\ \A c \in woken : ProcOf[c] = p /\ pcs[c] = "waiting"
  BY <1>20, <1>5, FirstOfQueue
<1>9. /\ \A c \in woken : pc'[c] = Ahead(c, p) /\ pc'[c] \in {"lease", "sent"}
      /\ \A c \in Calls \ woken : pc'[c] = pcs[c]
  BY <1>6, <1>8 DEF Ahead
<1>10. /\ QueueIn(pc', SubSeq(q, n + 1, Len(q)), p)
       /\ Len(SubSeq(q, n + 1, Len(q))) = Len(q) - n
       /\ Cardinality(HoldersIn(pc', p)) = Cardinality(HoldersIn(pcs, p)) + n
  <2>1. /\ \A c \in First(q, n) : pc'[c] \in {"lease", "sent"}
        /\ \A c \in Calls \ First(q, n) : pc'[c] = pcs[c]
    BY <1>5, <1>9
  <2> QED
    BY <1>20, <2>1, LetIn
<1>11. active'[p] = a + n /\ waiting'[p] = SubSeq(q, n + 1, Len(q))
  BY <1>6 DEF TypeOK
<1>12. \A r \in Procs \ {p} : active'[r] = active[r] /\ waiting'[r] = waiting[r]
  BY <1>6 DEF TypeOK
<1>13. ASSUME NEW r \in Procs \ {p}
       PROVE  QueueIn(pc', waiting'[r], r) /\ active'[r] = Cardinality(HoldersIn(pc', r))
  <2>1. \A c \in Calls : ProcOf[c] = r => pc'[c] = pc[c]
    BY <1>8, <1>9
  <2>2. HoldersIn(pc', r) = HoldersIn(pc, r) /\ \A s : QueueIn(pc, s, r) => QueueIn(pc', s, r)
    BY <2>1, SamePlaces
  <2> QED
    BY <1>12, <2>2 DEF Queued, Counted
<1>14. Queued' /\ Counted'
  BY <1>10, <1>11, <1>13 DEF Queued, Counted
<1>15. active' \in [Procs -> 0..Concurrency]
  BY <1>4, <1>6 DEF TypeOK
<1>16. waiting' \in [Procs -> Seq(Calls)]
  <2>1. SubSeq(q, n + 1, Len(q)) \in Seq(Calls)
    BY <1>10 DEF QueueIn
  <2> QED
    BY <1>6, <2>1 DEF TypeOK
<1>17. waiting'[p] # <<>> => active'[p] >= lim
  <2>1. ASSUME waiting'[p] # <<>>
        PROVE  Len(q) - n # 0
    <3>1. SubSeq(q, n + 1, Len(q)) \in Seq(Calls)
      BY <1>10 DEF QueueIn
    <3> QED
      BY <1>10, <1>11, <2>1, <3>1, EmptySeq
  <2> QED
    BY <1>2, <1>4, <1>11, <2>1
<1>18. \A c \in Calls :
         \/ pc'[c] = pcs[c] /\ via'[c] = via[c]
         \/ /\ pcs[c] = "waiting" /\ ProcOf[c] = p
            /\ pc'[c] = Ahead(c, p) /\ via'[c] = IF Asks(c, p) THEN via[c] ELSE "slot"
  BY <1>6, <1>8, <1>9
<1>19. pc' = [c \in Calls |-> pc'[c]] /\ via' = [c \in Calls |-> via'[c]]
  BY <1>6
<1> QED
  BY <1>12, <1>14, <1>15, <1>16, <1>17, <1>18, <1>19

-----------------------------------------------------------------------------
(* The store, and the leases. *)

LEMMA GateFrame ==
  ASSUME Queued, Counted, NobodyWaitsForNothing, UNCHANGED <<pc, active, waiting, ceiling>>
  PROVE  Queued' /\ Counted' /\ NobodyWaitsForNothing'
BY DEF Queued, QueueIn, Counted, HoldersIn, NobodyWaitsForNothing, Limit

\* A call that neither gets its slot nor gives it up, nor joins or leaves a queue.
LEMMA GateKept ==
  ASSUME TypeOK, Queued, Counted, NobodyWaitsForNothing, NEW c \in Calls, NEW x,
         pc' = [pc EXCEPT ![c] = x], pc[c] \in Slotted <=> x \in Slotted,
         pc[c] # "waiting", x # "waiting", UNCHANGED <<active, waiting, ceiling>>
  PROVE  Queued' /\ Counted' /\ NobodyWaitsForNothing'
<1>1. \A d \in Calls : /\ pc[d] \in Slotted <=> pc'[d] \in Slotted
                       /\ pc[d] = "waiting" <=> pc'[d] = "waiting"
  BY DEF TypeOK
<1>2. \A p \in Procs : /\ HoldersIn(pc', p) = HoldersIn(pc, p)
                       /\ \A q : QueueIn(pc, q, p) => QueueIn(pc', q, p)
  BY <1>1, SamePlaces
<1> QED
  BY <1>2 DEF Queued, Counted, NobodyWaitsForNothing, Limit

LEMMA FaultType ==
  ASSUME TypeOK, Fault
  PROVE  faults' \in 0..MaxFaults /\ faults' # 0
BY ThrottleAssumption DEF TypeOK, Fault

LEMMA StoreRetriedKeeps ==
  ASSUME Inv, NEW p \in Procs, StoreRetried(p)
  PROVE  Inv'
<1>1. TypeOK'
  BY DEF Inv, TypeOK, StoreRetried, call, gate
<1>2. Queued' /\ Counted' /\ NobodyWaitsForNothing'
  BY GateFrame DEF Inv, StoreRetried, call, gate
<1>3. Placed' /\ Leased' /\ Released'
  BY DEF Inv, Placed, Leased, Released, Holds, Id, StoreRetried, call
<1>4. Faultless'
  BY DEF Inv, TypeOK, Faultless, StoreRetried, call
<1> QED
  BY <1>1, <1>2, <1>3, <1>4 DEF Inv

LEMMA ToldInVainKeeps ==
  ASSUME Inv, NEW p \in Procs, ToldInVain(p)
  PROVE  Inv'
<1>1. faults' \in 0..MaxFaults /\ faults' # 0
  BY FaultType DEF Inv, ToldInVain, StoreFailed
<1>2. TypeOK'
  BY <1>1 DEF Inv, TypeOK, ToldInVain, StoreFailed, call, gate
<1>3. Queued' /\ Counted' /\ NobodyWaitsForNothing'
  BY GateFrame DEF Inv, ToldInVain, call, gate
<1>4. Placed' /\ Leased' /\ Released'
  BY DEF Inv, Placed, Leased, Released, Holds, Id, ToldInVain, call
<1>5. Faultless'
  BY <1>1 DEF Faultless
<1> QED
  BY <1>2, <1>3, <1>4, <1>5 DEF Inv

LEMMA LettingType ==
  ASSUME TypeOK, NEW id \in letting
  PROVE  id[1] \in Calls /\ id[2] \in Nat
BY ThrottleAssumption DEF TypeOK, Ids

\* A release that is under way is of a lease that nobody holds.
LEMMA ReleasedNotHeld ==
  ASSUME Inv, NEW id \in letting
  PROVE  \A c \in Calls : Holds(c) => Id(c) # id
<1> SUFFICES ASSUME NEW c \in Calls, Holds(c), Id(c) = id
             PROVE  FALSE
  OBVIOUS
<1>1. id[1] = c /\ id[2] = attempt[c] /\ attempt[c] \in Nat
  BY DEF Inv, TypeOK, Id
<1>2. pc[c] = "sent"
  BY DEF Holds
<1> QED
  BY <1>1, <1>2 DEF Inv, Released, Over

LEMMA ReleaseLeaseKeeps ==
  ASSUME Inv, NEW id \in Ids, ReleaseLease(id)
  PROVE  Inv'
<1>1. lease' \in [Slots -> Ids \cup {Nothing}]
  BY DEF Inv, TypeOK, ReleaseLease, Without
<1>2. TypeOK'
  BY <1>1 DEF Inv, TypeOK, ReleaseLease, call, gate
<1>3. Queued' /\ Counted' /\ NobodyWaitsForNothing'
  BY GateFrame DEF Inv, ReleaseLease, call, gate
<1>4. Placed' /\ Released' /\ Faultless'
  BY DEF Inv, Placed, Released, Faultless, ReleaseLease, call
<1>5. Leased'
  <2> SUFFICES ASSUME NEW c \in Calls, Holds(c)'
               PROVE  \E s \in Slots : lease'[s] = Id(c)'
    BY DEF Leased
  <2>1. Holds(c) /\ Id(c)' = Id(c)
    BY DEF Holds, Id, ReleaseLease, call
  <2>2. Id(c) # id
    BY <2>1, ReleasedNotHeld DEF ReleaseLease
  <2>3. PICK s \in Slots : lease[s] = Id(c)
    BY <2>1 DEF Inv, Leased
  <2>4. lease'[s] = Id(c)
    BY <2>2, <2>3 DEF ReleaseLease, Without
  <2> QED
    BY <2>1, <2>4
<1> QED
  BY <1>2, <1>3, <1>4, <1>5 DEF Inv

LEMMA ReleaseFailsKeeps ==
  ASSUME Inv, NEW id \in Ids, ReleaseFails(id)
  PROVE  Inv'
<1>1. faults' \in 0..MaxFaults /\ faults' # 0
  BY FaultType DEF Inv, ReleaseFails, StoreFailed
<1>2. TypeOK'
  BY <1>1 DEF Inv, TypeOK, ReleaseFails, StoreFailed, call, gate
<1>3. Queued' /\ Counted' /\ NobodyWaitsForNothing'
  BY GateFrame DEF Inv, ReleaseFails, call, gate
<1>4. Placed' /\ Leased' /\ Released'
  BY DEF Inv, Placed, Leased, Released, Holds, Id, ReleaseFails, call
<1>5. Faultless'
  BY <1>1 DEF Faultless
<1> QED
  BY <1>2, <1>3, <1>4, <1>5 DEF Inv

\* Of a slot that a call holds, the lease says so.
LEMMA HeldByOne ==
  ASSUME Inv, NEW c \in Calls, Holds(c), NEW s \in Slots, lease[s] = Id(c)
  PROVE  Held(lease[s]) /\ lease[s][1] = c
BY DEF Held, Id

LEMMA ExpireKeeps ==
  ASSUME Inv, NEW s \in Slots, Expire(s)
  PROVE  Inv'
<1>1. TypeOK'
  BY DEF Inv, TypeOK, Expire, call, gate
<1>2. Queued' /\ Counted' /\ NobodyWaitsForNothing'
  BY GateFrame DEF Inv, Expire, call, gate
<1>3. Placed' /\ Released' /\ Faultless'
  BY DEF Inv, Placed, Released, Faultless, Expire, call
<1>4. Leased'
  <2> SUFFICES ASSUME NEW c \in Calls, Holds(c)'
               PROVE  \E t \in Slots : lease'[t] = Id(c)'
    BY DEF Leased
  <2>1. Holds(c) /\ Id(c)' = Id(c)
    BY DEF Holds, Id, Expire, call
  <2>2. PICK t \in Slots : lease[t] = Id(c)
    BY <2>1 DEF Inv, Leased
  <2>3. t # s
    BY <2>1, <2>2, HeldByOne DEF Expire
  <2>4. lease'[t] = Id(c)
    BY <2>2, <2>3 DEF Inv, TypeOK, Expire
  <2> QED
    BY <2>1, <2>4
<1> QED
  BY <1>1, <1>2, <1>3, <1>4 DEF Inv

LEMMA LapseKeeps ==
  ASSUME Inv, NEW s \in Slots, Lapse(s)
  PROVE  Inv'
<1>1. faults' \in 0..MaxFaults /\ faults' # 0
  BY FaultType DEF Inv, Lapse
<1>2. PICK d : d = lease[s][1]
  OBVIOUS
<1>3. via' = [via EXCEPT ![d] = "lapsed"] /\ pc[d] = "sent"
  BY <1>2 DEF Lapse, Held, Holds
<1>4. TypeOK'
  BY <1>1, <1>3 DEF Inv, TypeOK, Lapse, gate
<1>5. Queued' /\ Counted' /\ NobodyWaitsForNothing'
  BY GateFrame DEF Inv, Lapse, gate
<1>6. Placed'
  BY <1>3 DEF Inv, TypeOK, Placed, Lapse
<1>7. Released'
  BY DEF Inv, Released, Lapse
<1>8. Leased'
  <2> SUFFICES ASSUME NEW c \in Calls, Holds(c)'
               PROVE  \E t \in Slots : lease'[t] = Id(c)'
    BY DEF Leased
  <2>1. c # d /\ Holds(c) /\ Id(c)' = Id(c)
    BY <1>3 DEF Inv, TypeOK, Holds, Id, Lapse
  <2>2. PICK t \in Slots : lease[t] = Id(c)
    BY <2>1 DEF Inv, Leased
  <2>3. t # s
    BY <1>2, <2>1, <2>2, HeldByOne
  <2>4. lease'[t] = Id(c)
    BY <2>2, <2>3 DEF Inv, TypeOK, Lapse
  <2> QED
    BY <2>1, <2>4
<1>9. Faultless'
  BY <1>1 DEF Faultless
<1> QED
  BY <1>4, <1>5, <1>6, <1>7, <1>8, <1>9 DEF Inv

-----------------------------------------------------------------------------
(* A call on its way. *)

\* A call that steps, and holds no lease afterwards, leaves the others their leases.
LEMMA OthersLeased ==
  ASSUME Inv, NEW c \in Calls, ~Holds(c)',
         \A d \in Calls \ {c} : pc'[d] = pc[d] /\ via'[d] = via[d] /\ attempt'[d] = attempt[d],
         \A s \in Slots : lease[s] # Nothing => lease'[s] = lease[s]
  PROVE  Leased'
<1> SUFFICES ASSUME NEW d \in Calls, Holds(d)'
             PROVE  \E t \in Slots : lease'[t] = Id(d)'
  BY DEF Leased
<1>1. d # c /\ Holds(d) /\ Id(d)' = Id(d)
  BY DEF Holds, Id
<1>2. PICK t \in Slots : lease[t] = Id(d)
  BY <1>1 DEF Inv, Leased
<1>3. Id(d) # Nothing
  BY NothingAssumption DEF Inv, TypeOK, Id, Ids
<1> QED
  BY <1>1, <1>2, <1>3

\* A call that steps from a place where it is not over leaves the releases as they were.
LEMMA OthersReleased ==
  ASSUME Inv, NEW c \in Calls, pc[c] \notin {"pause"} \cup Over,
         \A d \in Calls \ {c} : pc'[d] = pc[d], UNCHANGED <<attempt, letting>>
  PROVE  Released'
<1>1. \A id \in letting : id[1] \in Calls
  BY LettingType DEF Inv
<1> QED
  BY <1>1 DEF Inv, Released

LEMMA EnterKeeps ==
  ASSUME Inv, NEW c \in Calls, Enter(c)
  PROVE  Inv'
<1>1. PICK p \in Procs : p = ProcOf[c]
  BY ThrottleAssumption
<1>2. PICK x \in {"local", "shared"} : x = IF down[p] THEN "local" ELSE "shared"
  OBVIOUS
<1>3. pc' = [pc EXCEPT ![c] = x] /\ pc[c] = "new" /\ chain' = [chain EXCEPT ![p] = Append(@, c)]
  BY <1>1, <1>2 DEF Enter
<1>4. /\ pc'[c] = x /\ \A d \in Calls \ {c} : pc'[d] = pc[d]
      /\ UNCHANGED <<attempt, via, pick, active, waiting, ceiling, down, lease, letting, faults>>
  BY <1>3 DEF Inv, TypeOK, Enter
<1>5. chain' \in [Procs -> Seq(Calls)]
  BY <1>3 DEF Inv, TypeOK
<1>6. TypeOK'
  BY <1>3, <1>4, <1>5 DEF Inv, TypeOK
<1>7. Queued' /\ Counted' /\ NobodyWaitsForNothing'
  BY <1>3, <1>4, GateKept DEF Inv, Slotted
<1>8. Placed'
  BY <1>4 DEF Inv, Placed
<1>9. Leased'
  BY <1>4, OthersLeased DEF Holds
<1>10. Released'
  BY <1>3, <1>4, OthersReleased DEF Over
<1>11. Faultless'
  BY <1>2, <1>4 DEF Inv, Faultless, Slotted
<1> QED
  BY <1>6, <1>7, <1>8, <1>9, <1>10, <1>11 DEF Inv

LEMMA TakeFailsKeeps ==
  ASSUME Inv, NEW c \in Calls, TakeFails(c)
  PROVE  Inv'
<1>1. PICK p \in Procs : p = ProcOf[c]
  BY ThrottleAssumption
<1>2. /\ pc' = [pc EXCEPT ![c] = "fallback"] /\ pc[c] = "shared" /\ chain[p] # <<>>
      /\ chain' = [chain EXCEPT ![p] = AfterRejection(@, c)]
      /\ down' = [down EXCEPT ![p] = TRUE]
  BY <1>1 DEF TakeFails, Leads, StoreFailed
<1>3. /\ pc'[c] = "fallback" /\ \A d \in Calls \ {c} : pc'[d] = pc[d]
      /\ UNCHANGED <<attempt, via, pick, active, waiting, ceiling, lease, letting>>
  BY <1>2 DEF Inv, TypeOK, TakeFails
<1>4. faults' \in 0..MaxFaults /\ faults' # 0
  BY FaultType DEF Inv, TakeFails, StoreFailed
<1>5. chain' \in [Procs -> Seq(Calls)]
  <2>1. chain[p] \in Seq(Calls)
    BY DEF Inv, TypeOK
  <2>2. Append(Tail(chain[p]), c) \in Seq(Calls)
    BY <1>2, <2>1, HeadTailProperties, AppendProperties
  <2> QED
    BY <1>2, <2>2 DEF Inv, TypeOK, AfterRejection
<1>6. TypeOK'
  BY <1>2, <1>3, <1>4, <1>5 DEF Inv, TypeOK
<1>7. Queued' /\ Counted' /\ NobodyWaitsForNothing'
  BY <1>2, <1>3, GateKept DEF Inv, Slotted
<1>8. Placed'
  BY <1>3 DEF Inv, Placed
<1>9. Leased'
  BY <1>3, OthersLeased DEF Holds
<1>10. Released'
  BY <1>2, <1>3, OthersReleased DEF Over
<1>11. Faultless'
  BY <1>4 DEF Faultless
<1> QED
  BY <1>6, <1>7, <1>8, <1>9, <1>10, <1>11 DEF Inv

LEMMA AcquireSeesKeeps ==
  ASSUME Inv, NEW c \in Calls, AcquireSees(c)
  PROVE  Inv'
<1>1. PICK s \in Slots : pick' = [pick EXCEPT ![c] = s]
  BY DEF AcquireSees
<1>2. /\ pc' = [pc EXCEPT ![c] = "acquire"] /\ pc[c] = "lease" /\ pc'[c] = "acquire" /\ pick'[c] = s
      /\ \A d \in Calls \ {c} : pc'[d] = pc[d] /\ pick'[d] = pick[d]
      /\ UNCHANGED <<attempt, via, active, waiting, chain, ceiling, down, lease, letting, faults>>
  BY <1>1 DEF Inv, TypeOK, AcquireSees, gate
<1>3. TypeOK'
  BY <1>1, <1>2 DEF Inv, TypeOK
<1>4. Queued' /\ Counted' /\ NobodyWaitsForNothing'
  BY <1>2, GateKept DEF Inv, Slotted
<1>5. Placed'
  BY <1>2 DEF Inv, Placed
<1>6. Leased'
  BY <1>2, OthersLeased DEF Holds
<1>7. Released'
  BY <1>2, OthersReleased DEF Over
<1>8. Faultless'
  BY <1>2 DEF Inv, Faultless, Slotted
<1> QED
  BY <1>3, <1>4, <1>5, <1>6, <1>7, <1>8 DEF Inv

LEMMA IdType ==
  ASSUME TypeOK, NEW c \in Calls
  PROVE  Id(c) \in Ids
<1>1. attempt[c] \in 1..MaxAttempts[c]
  BY DEF TypeOK
<1>2. Id(c) \in {c} \X (1..MaxAttempts[c])
  BY <1>1 DEF Id
<1> QED
  BY <1>2 DEF Ids

LEMMA AcquireWritesKeeps ==
  ASSUME Inv, NEW c \in Calls, AcquireWrites(c)
  PROVE  Inv'
<1>1. PICK s \in Slots : s = pick[c]
  BY DEF Inv, Placed, AcquireWrites
<1>2. PICK x \in {"sent", "lease"} :
        /\ pc' = [pc EXCEPT ![c] = x]
        /\ x = "sent" => MayClaim(s) /\ lease' = [lease EXCEPT ![s] = Id(c)]
        /\ x = "lease" => lease' = lease
  BY <1>1 DEF AcquireWrites
<1>3. /\ pc[c] = "acquire" /\ pc'[c] = x /\ via[c] = "lease"
      /\ \A d \in Calls \ {c} : pc'[d] = pc[d] /\ pick'[d] = pick[d]
      /\ pick' = [pick EXCEPT ![c] = Nothing]
      /\ UNCHANGED <<attempt, via, active, waiting, chain, ceiling, down, letting, faults>>
  BY <1>2 DEF Inv, TypeOK, Placed, AcquireWrites, gate
<1>4. lease' \in [Slots -> Ids \cup {Nothing}]
  BY <1>2, IdType DEF Inv, TypeOK
<1>5. TypeOK'
  BY <1>2, <1>3, <1>4 DEF Inv, TypeOK
<1>6. Queued' /\ Counted' /\ NobodyWaitsForNothing'
  BY <1>2, <1>3, GateKept DEF Inv, Slotted
<1>7. Placed'
  BY <1>3 DEF Inv, Placed
<1>8. Leased'
  <2>1. CASE x = "lease"
    BY <1>2, <1>3, <2>1, OthersLeased DEF Holds
  <2>2. CASE x = "sent"
    <3>1. lease[s] = Nothing /\ lease'[s] = Id(c) /\ \A t \in Slots \ {s} : lease'[t] = lease[t]
      BY <1>2, <2>2 DEF Inv, TypeOK, MayClaim
    <3> SUFFICES ASSUME NEW d \in Calls, Holds(d)'
                 PROVE  \E t \in Slots : lease'[t] = Id(d)'
      BY DEF Leased
    <3>2. Id(d)' = Id(d)
      BY <1>3 DEF Id
    <3>3. CASE d = c
      BY <3>1, <3>2, <3>3
    <3>4. CASE d # c
      <4>1. Holds(d)
        BY <1>3, <3>4 DEF Holds
      <4>2. PICK t \in Slots : lease[t] = Id(d)
        BY <4>1 DEF Inv, Leased
      <4>3. t # s
        BY <3>1, <4>2, IdType, NothingAssumption DEF Inv
      <4> QED
        BY <3>1, <3>2, <4>2, <4>3
    <3> QED
      BY <3>3, <3>4
  <2> QED
    BY <2>1, <2>2
<1>9. Released'
  BY <1>3, OthersReleased DEF Over
<1>10. Faultless'
  BY <1>3 DEF Inv, Faultless, Slotted
<1> QED
  BY <1>5, <1>6, <1>7, <1>8, <1>9, <1>10 DEF Inv

LEMMA AcquireFailsKeeps ==
  ASSUME Inv, NEW c \in Calls, AcquireFails(c)
  PROVE  Inv'
<1>1. faults' \in 0..MaxFaults /\ faults' # 0
  BY FaultType DEF Inv, AcquireFails, StoreFailed
<1>2. /\ pc[c] \in {"lease", "acquire"} /\ pc'[c] = "sent" /\ via'[c] = "slot"
      /\ pc' = [pc EXCEPT ![c] = "sent"] /\ via' = [via EXCEPT ![c] = "slot"]
      /\ pick' = [pick EXCEPT ![c] = Nothing]
      /\ \A d \in Calls \ {c} : pc'[d] = pc[d] /\ pick'[d] = pick[d] /\ via'[d] = via[d]
      /\ UNCHANGED <<attempt, active, waiting, chain, ceiling, letting>>
  BY DEF Inv, TypeOK, AcquireFails, gate
<1>3. /\ lease' \in [Slots -> Ids \cup {Nothing}]
      /\ \A s \in Slots : lease[s] # Nothing => lease'[s] = lease[s]
  <2>1. CASE lease' = lease
    BY <2>1 DEF Inv, TypeOK
  <2>2. CASE pc[c] = "acquire" /\ MayClaim(pick[c]) /\ lease' = [lease EXCEPT ![pick[c]] = Id(c)]
    BY <2>2, IdType DEF Inv, TypeOK, Placed, MayClaim
  <2> QED
    BY <2>1, <2>2 DEF AcquireFails
<1>4. down' \in [Procs -> BOOLEAN]
  BY ThrottleAssumption DEF Inv, TypeOK, AcquireFails, StoreFailed
<1>5. TypeOK'
  BY <1>1, <1>2, <1>3, <1>4 DEF Inv, TypeOK
<1>6. Queued' /\ Counted' /\ NobodyWaitsForNothing'
  BY <1>2, GateKept DEF Inv, Slotted
<1>7. Placed'
  BY <1>2 DEF Inv, Placed
<1>8. Leased'
  BY <1>2, <1>3, OthersLeased DEF Holds
<1>9. Released'
  BY <1>2, OthersReleased DEF Over
<1>10. Faultless'
  BY <1>1 DEF Faultless
<1> QED
  BY <1>5, <1>6, <1>7, <1>8, <1>9, <1>10 DEF Inv

LEMMA RetryKeeps ==
  ASSUME Inv, NEW c \in Calls, Retry(c)
  PROVE  Inv'
<1>1. /\ pc[c] = "pause" /\ pc'[c] = "new" /\ attempt'[c] = attempt[c] + 1
      /\ pc' = [pc EXCEPT ![c] = "new"] /\ attempt' = [attempt EXCEPT ![c] = attempt[c] + 1]
      /\ \A d \in Calls \ {c} : pc'[d] = pc[d] /\ attempt'[d] = attempt[d]
      /\ UNCHANGED <<via, pick, active, waiting, chain, ceiling, down, lease, letting, faults>>
  BY DEF Inv, TypeOK, Retry, gate
<1>2. attempt[c] \in Nat /\ MaxAttempts[c] \in Nat /\ attempt[c] < MaxAttempts[c]
  BY <1>1, ThrottleAssumption DEF Inv, TypeOK, Placed
<1>3. TypeOK'
  <2>1. attempt' \in [Calls -> Nat] /\ \A d \in Calls : attempt'[d] \in 1..MaxAttempts[d]
    BY <1>1, <1>2 DEF Inv, TypeOK
  <2> QED
    BY <1>1, <2>1 DEF Inv, TypeOK
<1>4. Queued' /\ Counted' /\ NobodyWaitsForNothing'
  BY <1>1, GateKept DEF Inv, Slotted
<1>5. Placed'
  BY <1>1 DEF Inv, Placed
<1>6. Leased'
  BY <1>1, OthersLeased DEF Holds
<1>7. Released'
  <2> SUFFICES ASSUME NEW id \in letting
               PROVE  \/ id[2] < attempt'[id[1]]
                      \/ id[2] = attempt'[id[1]] /\ pc'[id[1]] \in {"pause"} \cup Over
    BY <1>1 DEF Released
  <2>1. \/ id[2] < attempt[id[1]]
        \/ id[2] = attempt[id[1]] /\ pc[id[1]] \in {"pause"} \cup Over
    BY DEF Inv, Released
  <2>2. id[1] \in Calls /\ id[2] \in Nat
    BY LettingType DEF Inv
  <2>3. CASE id[1] = c
    BY <1>1, <1>2, <2>1, <2>2, <2>3
  <2>4. CASE id[1] # c
    BY <1>1, <2>1, <2>2, <2>4
  <2> QED
    BY <2>3, <2>4
<1>8. Faultless'
  BY <1>1 DEF Inv, Faultless, Slotted
<1> QED
  BY <1>3, <1>4, <1>5, <1>6, <1>7, <1>8 DEF Inv

-----------------------------------------------------------------------------
(* Slots: taken, given back, and the ceiling. *)

LEMMA TokenTakenKeeps ==
  ASSUME Inv, NEW c \in Calls, TokenTaken(c)
  PROVE  Inv'
<1>1. PICK p \in Procs : p = ProcOf[c]
  BY ThrottleAssumption
<1>2. PICK source \in {"slot", "lease"} : source = IF pc[c] = "local" THEN "slot" ELSE "lease"
  OBVIOUS
<1>3. PICK free \in BOOLEAN : free <=> active[p] < Limit(p)
  OBVIOUS
<1>4. PICK x \in {"waiting", "lease", "sent"} :
        x = IF ~free THEN "waiting" ELSE IF source = "lease" /\ ~down[p] THEN "lease" ELSE "sent"
  OBVIOUS
<1>5. PICK y \in {"slot", "lease"} : y = IF free /\ ~(source = "lease" /\ ~down[p]) THEN "slot" ELSE source
  OBVIOUS
<1>6. /\ pc[c] \in {"shared", "fallback", "local"} /\ chain[p] # <<>>
      /\ chain' = [chain EXCEPT ![p] = Tail(@)]
      /\ pc' = [pc EXCEPT ![c] = x] /\ via' = [via EXCEPT ![c] = y]
      /\ GetsSlot(c, p)
      /\ UNCHANGED <<attempt, pick, ceiling, down, lease, letting, faults>>
  BY <1>1, <1>2, <1>3, <1>4, <1>5 DEF TokenTaken, Leads, AcquireSlot
<1>7. /\ pc'[c] = x /\ via'[c] = y
      /\ \A d \in Calls \ {c} : pc'[d] = pc[d] /\ via'[d] = via[d]
  BY <1>6 DEF Inv, TypeOK
<1>8. chain' \in [Procs -> Seq(Calls)]
  <2>1. Tail(chain[p]) \in Seq(Calls)
    BY <1>6, HeadTailProperties DEF Inv, TypeOK
  <2> QED
    BY <1>6, <2>1 DEF Inv, TypeOK
<1>9. \A q \in Procs \ {p} : /\ HoldersIn(pc', q) = HoldersIn(pc, q)
                             /\ \A w : QueueIn(pc, w, q) => QueueIn(pc', w, q)
  <2> SUFFICES ASSUME NEW q \in Procs \ {p}
               PROVE  /\ HoldersIn(pc', q) = HoldersIn(pc, q)
                      /\ \A w : QueueIn(pc, w, q) => QueueIn(pc', w, q)
    OBVIOUS
  <2>1. \A d \in Calls : ProcOf[d] = q => pc'[d] = pc[d]
    BY <1>1, <1>7
  <2> QED
    BY <2>1, SamePlaces
<1>10. Limit(p) \in 1..Concurrency /\ Concurrency \in Nat /\ Limit(p)' = Limit(p)
  BY <1>6, LimitType DEF Inv, Limit
<1>11. /\ active' \in [Procs -> 0..Concurrency] /\ waiting' \in [Procs -> Seq(Calls)]
       /\ \A q \in Procs \ {p} : active'[q] = active[q] /\ waiting'[q] = waiting[q]
       /\ QueueIn(pc', waiting'[p], p)
       /\ active'[p] = Cardinality(HoldersIn(pc', p))
       /\ waiting'[p] # <<>> => active'[p] >= Limit(p)
  <2>1. /\ active \in [Procs -> 0..Concurrency] /\ waiting \in [Procs -> Seq(Calls)]
        /\ QueueIn(pc, waiting[p], p) /\ active[p] = Cardinality(HoldersIn(pc, p))
        /\ waiting[p] # <<>> => active[p] >= Limit(p)
    BY DEF Inv, TypeOK, Queued, Counted, NobodyWaitsForNothing
  <2>2. CASE free
    <3>1. active' = [active EXCEPT ![p] = @ + 1] /\ waiting' = waiting
      BY <1>3, <1>6, <1>10, <2>1, <2>2 DEF GetsSlot
    <3>2. active'[p] = active[p] + 1 /\ active[p] < Limit(p) /\ waiting[p] = <<>>
      BY <1>3, <1>10, <2>1, <2>2, <3>1
    <3>3. active' \in [Procs -> 0..Concurrency] /\ \A q \in Procs \ {p} : active'[q] = active[q]
      BY <1>10, <2>1, <3>1, <3>2
    <3>4. HoldersIn(pc', p) = HoldersIn(pc, p) \cup {c} /\ c \notin HoldersIn(pc, p)
      BY <1>1, <1>4, <1>6, <1>7, <2>2 DEF HoldersIn, Slotted
    <3>5. Cardinality(HoldersIn(pc', p)) = Cardinality(HoldersIn(pc, p)) + 1
      BY <3>4, HoldersFinite, FS_AddElement
    <3>6. QueueIn(pc', <<>>, p)
      <4>1. \A d \in Calls : ProcOf[d] = p => pc[d] # "waiting"
        BY <2>1, <3>2, EmptySeq DEF QueueIn
      <4>2. \A d \in Calls : ProcOf[d] = p => pc'[d] # "waiting"
        BY <1>4, <1>7, <2>2, <4>1
      <4> QED
        BY <4>2, EmptySeq DEF QueueIn
    <3> QED
      BY <2>1, <3>1, <3>2, <3>3, <3>5, <3>6
  <2>3. CASE ~free
    <3>1. waiting' = [waiting EXCEPT ![p] = Append(@, c)] /\ active' = active /\ active[p] >= Limit(p)
      BY <1>3, <1>6, <1>10, <2>1, <2>3 DEF GetsSlot
    <3>2. x = "waiting"
      BY <1>4, <2>3
    <3>3. QueueIn(pc', Append(waiting[p], c), p)
      <4>1. QueueIn(pc, waiting[p], p)
        BY <2>1
      <4>2. ProcOf[c] = p /\ pc[c] # "waiting" /\ pc'[c] = "waiting"
        BY <1>1, <1>6, <1>7, <3>2
      <4>3. \A d \in Calls \ {c} : pc'[d] = pc[d]
        BY <1>7
      <4> QED
        BY <4>1, <4>2, <4>3, Queues
    <3>4. HoldersIn(pc', p) = HoldersIn(pc, p)
      BY <1>6, <1>7, <3>2 DEF HoldersIn, Slotted
    <3>5. waiting'[p] = Append(waiting[p], c) /\ \A q \in Procs \ {p} : waiting'[q] = waiting[q]
      BY <2>1, <3>1
    <3>6. waiting' \in [Procs -> Seq(Calls)]
      BY <2>1, <3>1, AppendProperties
    <3> QED
      BY <2>1, <3>1, <3>3, <3>4, <3>5, <3>6
  <2> QED
    BY <2>2, <2>3
<1>12. TypeOK'
  <2>1. pc' \in [Calls -> {"new", "shared", "local", "fallback", "waiting", "lease",
                           "acquire", "sent", "pause"} \cup Over]
    BY <1>6 DEF Inv, TypeOK
  <2>2. via' \in [Calls -> {"slot", "lease", "lapsed"}]
    BY <1>6 DEF Inv, TypeOK
  <2> QED
    BY <1>6, <1>8, <1>11, <2>1, <2>2 DEF Inv, TypeOK
<1>13. Queued' /\ Counted'
  BY <1>9, <1>11 DEF Inv, Queued, Counted
<1>14. NobodyWaitsForNothing'
  BY <1>6, <1>11 DEF Inv, NobodyWaitsForNothing, Limit
<1>15. Placed'
  BY <1>4, <1>5, <1>6, <1>7 DEF Inv, Placed
<1>16. Leased'
  <2>1. ~Holds(c)'
    BY <1>4, <1>5, <1>7 DEF Holds
  <2> QED
    BY <1>6, <1>7, <2>1, OthersLeased
<1>17. Released'
  BY <1>6, <1>7, OthersReleased DEF Over
<1>18. Faultless'
  <2>1. faults = 0 => source = "lease" /\ ~down[p]
    BY <1>2, <1>6 DEF Inv, Faultless
  <2>2. faults = 0 => y = "lease"
    BY <1>5, <2>1
  <2> QED
    BY <1>4, <1>6, <1>7, <2>2 DEF Inv, Faultless, Slotted
<1> QED
  BY <1>12, <1>13, <1>14, <1>15, <1>16, <1>17, <1>18 DEF Inv

\* A drain lets calls in that hold no lease yet, and holds nobody up.
LEMMA DrainedCalls ==
  ASSUME Inv, NEW p \in Procs, NEW pcs,
         \A c \in Calls :
            \/ pc'[c] = pcs[c] /\ via'[c] = via[c]
            \/ /\ pcs[c] = "waiting" /\ ProcOf[c] = p
               /\ pc'[c] = Ahead(c, p) /\ via'[c] = IF Asks(c, p) THEN via[c] ELSE "slot",
         \A c \in Calls :
            \/ pcs[c] = pc[c]
            \/ /\ pc[c] = "sent" /\ pcs[c] \in {"done", "failed", "pause"}
               /\ pcs[c] = "pause" => attempt[c] < MaxAttempts[c],
         UNCHANGED <<attempt, pick, lease, down, faults>>
  PROVE  /\ Placed' /\ Leased' /\ Faultless'
         /\ \A c \in Calls : /\ pc'[c] \in {"new", "shared", "local", "fallback", "waiting", "lease",
                                            "acquire", "sent", "pause"} \cup Over
                             /\ via'[c] \in {"slot", "lease", "lapsed"}
         /\ \A c \in Calls : pc[c] \in {"pause"} \cup Over => pc'[c] = pc[c]
<1>1. ASSUME NEW c \in Calls
      PROVE  \/ pc'[c] = pc[c] /\ via'[c] = via[c]
             \/ /\ pc[c] = "waiting"
                /\ \/ pc'[c] = "lease" /\ via'[c] = "lease" /\ via[c] = "lease"
                   \/ pc'[c] = "sent" /\ via'[c] = "slot" /\ ~Asks(c, p)
             \/ /\ pc[c] = "sent" /\ pc'[c] \in {"done", "failed", "pause"} /\ via'[c] = via[c]
                /\ pc'[c] = "pause" => attempt[c] < MaxAttempts[c]
  BY DEF Ahead, Asks
<1>2. Placed'
  BY <1>1 DEF Inv, Placed
<1>3. Leased'
  <2> SUFFICES ASSUME NEW c \in Calls, Holds(c)'
               PROVE  \E t \in Slots : lease'[t] = Id(c)'
    BY DEF Leased
  <2>1. Holds(c) /\ Id(c)' = Id(c)
    BY <1>1 DEF Holds, Id
  <2> QED
    BY <2>1 DEF Inv, Leased
<1>4. Faultless'
  BY <1>1 DEF Inv, Faultless, Slotted, Asks
<1>5. \A c \in Calls : /\ pc'[c] \in {"new", "shared", "local", "fallback", "waiting", "lease",
                                      "acquire", "sent", "pause"} \cup Over
                       /\ via'[c] \in {"slot", "lease", "lapsed"}
  BY <1>1 DEF Inv, TypeOK, Over
<1>6. \A c \in Calls : pc[c] \in {"pause"} \cup Over => pc'[c] = pc[c]
  BY <1>1 DEF Over
<1> QED
  BY <1>2, <1>3, <1>4, <1>5, <1>6

LEMMA SetConcurrencyCeilingKeeps ==
  ASSUME Inv, NEW p \in Procs, NEW new \in {Nothing, 1}, SetConcurrencyCeiling(p, new)
  PROVE  Inv'
<1>1. PICK lim : lim = LimitAt(new)
  OBVIOUS
<1>2. lim \in 1..Concurrency
  BY <1>1, ThrottleAssumption DEF LimitAt
<1>3. PICK a \in 0..Concurrency : a = active[p]
  BY DEF Inv, TypeOK
<1>4. PICK pcs : pcs = pc
  OBVIOUS
<1>5. /\ Drain(p, a, lim, pcs) /\ ceiling' = [ceiling EXCEPT ![p] = new]
      /\ UNCHANGED <<attempt, pick, chain, down, lease, letting, faults>>
  BY <1>1, <1>3, <1>4 DEF SetConcurrencyCeiling
<1>6. QueueIn(pcs, waiting[p], p) /\ a = Cardinality(HoldersIn(pcs, p))
  BY <1>3, <1>4 DEF Inv, Queued, Counted
<1>7. /\ Queued' /\ Counted'
      /\ active' \in [Procs -> 0..Concurrency]
      /\ waiting' \in [Procs -> Seq(Calls)]
      /\ \A q \in Procs \ {p} : active'[q] = active[q] /\ waiting'[q] = waiting[q]
      /\ waiting'[p] # <<>> => active'[p] >= lim
      /\ pc' = [c \in Calls |-> pc'[c]] /\ via' = [c \in Calls |-> via'[c]]
      /\ \A c \in Calls :
           \/ pc'[c] = pcs[c] /\ via'[c] = via[c]
           \/ /\ pcs[c] = "waiting" /\ ProcOf[c] = p
              /\ pc'[c] = Ahead(c, p) /\ via'[c] = IF Asks(c, p) THEN via[c] ELSE "slot"
  BY <1>2, <1>4, <1>5, <1>6, Drained DEF Inv
<1>8. /\ Placed' /\ Leased' /\ Faultless'
      /\ \A c \in Calls : /\ pc'[c] \in {"new", "shared", "local", "fallback", "waiting", "lease",
                                         "acquire", "sent", "pause"} \cup Over
                          /\ via'[c] \in {"slot", "lease", "lapsed"}
      /\ \A c \in Calls : pc[c] \in {"pause"} \cup Over => pc'[c] = pc[c]
  BY <1>4, <1>5, <1>7, DrainedCalls
<1>9. TypeOK'
  <2>1. ceiling' \in [Procs -> {Nothing, 1}]
    BY <1>5 DEF Inv, TypeOK
  <2> QED
    BY <1>5, <1>7, <1>8, <2>1 DEF Inv, TypeOK
<1>10. NobodyWaitsForNothing'
  <2>1. Limit(p)' = lim /\ \A q \in Procs \ {p} : Limit(q)' = Limit(q)
    BY <1>1, <1>5 DEF Inv, TypeOK, Limit
  <2> QED
    BY <1>7, <2>1 DEF Inv, NobodyWaitsForNothing
<1>11. Released'
  <2>1. \A id \in letting : id[1] \in Calls
    BY LettingType DEF Inv
  <2> QED
    BY <1>5, <1>8, <2>1 DEF Inv, Released
<1> QED
  BY <1>7, <1>8, <1>9, <1>10, <1>11 DEF Inv

LEMMA AnswerKeeps ==
  ASSUME Inv, NEW c \in Calls, NEW answer \in {"ok", "refused", "fatal"}, Answer(c, answer)
  PROVE  Inv'
<1>1. PICK p \in Procs : p = ProcOf[c]
  BY ThrottleAssumption
<1>2. PICK lim \in 1..Concurrency : lim = Limit(p)
  BY LimitType DEF Inv
<1>3. PICK next \in {"done", "failed", "pause"} : next = After(c, answer)
  BY DEF After
<1>4. next = "pause" => attempt[c] < MaxAttempts[c]
  BY <1>3 DEF After
<1>5. PICK pcs : pcs = [pc EXCEPT ![c] = next]
  OBVIOUS
<1>6. pcs[c] = next /\ pc[c] = "sent" /\ \A d \in Calls \ {c} : pcs[d] = pc[d]
  BY <1>5 DEF Inv, TypeOK, Answer
<1>7. HoldersIn(pcs, p) = HoldersIn(pc, p) \ {c} /\ c \in HoldersIn(pc, p)
  BY <1>1, <1>6 DEF HoldersIn, Slotted
<1>8. /\ active[p] = Cardinality(HoldersIn(pc, p)) /\ active[p] \in 0..Concurrency
      /\ active[p] # 0 /\ Cardinality(HoldersIn(pcs, p)) = active[p] - 1
  <2>1. active[p] = Cardinality(HoldersIn(pc, p)) /\ active[p] \in 0..Concurrency
    BY DEF Inv, TypeOK, Counted
  <2>2. Cardinality(HoldersIn(pcs, p)) = Cardinality(HoldersIn(pc, p)) - 1
    BY <1>7, HoldersFinite, FS_RemoveElement
  <2>3. Cardinality(HoldersIn(pc, p)) # 0
    BY <1>7, HoldersFinite, FS_EmptySet
  <2> QED
    BY <2>1, <2>2, <2>3
<1>9. PICK a \in 0..Concurrency : a = active[p] - 1
  BY <1>8, ThrottleAssumption
<1>10. /\ Drain(p, a, lim, pcs)
       /\ UNCHANGED <<attempt, pick, chain, ceiling, down, lease, faults>>
  BY <1>1, <1>2, <1>3, <1>5, <1>8, <1>9 DEF Answer, ReleaseSlot
<1>11. QueueIn(pcs, waiting[p], p) /\ a = Cardinality(HoldersIn(pcs, p))
  <2>1. \A d \in Calls : pcs[d] = "waiting" <=> pc[d] = "waiting"
    BY <1>6
  <2>2. QueueIn(pc, waiting[p], p)
    BY DEF Inv, Queued
  <2>3. \A i \in 1..Len(waiting[p]) : waiting[p][i] \in Calls
    BY <2>2, ElementOfSeq DEF QueueIn
  <2>4. QueueIn(pcs, waiting[p], p)
    BY <2>1, <2>2, <2>3 DEF QueueIn
  <2> QED
    BY <1>8, <1>9, <2>4
<1>12. \A d \in Calls : ProcOf[d] # p => pcs[d] = pc[d]
  BY <1>1, <1>6
<1>13. /\ Queued' /\ Counted'
       /\ active' \in [Procs -> 0..Concurrency]
       /\ waiting' \in [Procs -> Seq(Calls)]
       /\ \A q \in Procs \ {p} : active'[q] = active[q] /\ waiting'[q] = waiting[q]
       /\ waiting'[p] # <<>> => active'[p] >= lim
       /\ pc' = [d \in Calls |-> pc'[d]] /\ via' = [d \in Calls |-> via'[d]]
       /\ \A d \in Calls :
            \/ pc'[d] = pcs[d] /\ via'[d] = via[d]
            \/ /\ pcs[d] = "waiting" /\ ProcOf[d] = p
               /\ pc'[d] = Ahead(d, p) /\ via'[d] = IF Asks(d, p) THEN via[d] ELSE "slot"
  BY <1>10, <1>11, <1>12, Drained DEF Inv
<1>14. \A d \in Calls :
         \/ pcs[d] = pc[d]
         \/ /\ pc[d] = "sent" /\ pcs[d] \in {"done", "failed", "pause"}
            /\ pcs[d] = "pause" => attempt[d] < MaxAttempts[d]
  BY <1>4, <1>6
<1>15. /\ Placed' /\ Leased' /\ Faultless'
       /\ \A d \in Calls : /\ pc'[d] \in {"new", "shared", "local", "fallback", "waiting", "lease",
                                          "acquire", "sent", "pause"} \cup Over
                           /\ via'[d] \in {"slot", "lease", "lapsed"}
       /\ \A d \in Calls : pc[d] \in {"pause"} \cup Over => pc'[d] = pc[d]
  BY <1>10, <1>13, <1>14, DrainedCalls
<1>16. letting' \subseteq Ids /\ letting' \subseteq letting \cup {Id(c)}
  BY IdType DEF Inv, TypeOK, Answer
<1>17. TypeOK'
  BY <1>10, <1>13, <1>15, <1>16 DEF Inv, TypeOK
<1>18. NobodyWaitsForNothing'
  <2>1. \A q \in Procs : Limit(q)' = Limit(q)
    BY <1>10 DEF Limit
  <2> QED
    BY <1>2, <1>13, <2>1 DEF Inv, NobodyWaitsForNothing
<1>19. Released'
  <2> SUFFICES ASSUME NEW id \in letting'
               PROVE  \/ id[2] < attempt[id[1]]
                      \/ id[2] = attempt[id[1]] /\ pc'[id[1]] \in {"pause"} \cup Over
    BY <1>10 DEF Released
  <2>1. CASE id \in letting
    <3>1. id[1] \in Calls
      BY <2>1, LettingType DEF Inv
    <3> QED
      BY <1>15, <2>1, <3>1 DEF Inv, Released
  <2>2. CASE id = Id(c)
    <3>1. pc'[c] = next
      BY <1>6, <1>13
    <3> QED
      BY <2>2, <3>1 DEF Id, Over
  <2> QED
    BY <1>16, <2>1, <2>2
<1> QED
  BY <1>13, <1>15, <1>17, <1>18, <1>19 DEF Inv

\* A process that dies leaves no call of its own waiting or going ahead.
LEMMA DiesKeeps ==
  ASSUME Inv, NEW p \in Procs, Dies(p)
  PROVE  Inv'
<1>1. faults' \in 0..MaxFaults /\ faults' # 0
  BY FaultType DEF Inv, Dies
<1>2. /\ pc' = [c \in Calls |-> IF ProcOf[c] = p /\ pc[c] \notin Over THEN "gone" ELSE pc[c]]
      /\ pick' = [c \in Calls |-> IF ProcOf[c] = p THEN Nothing ELSE pick[c]]
      /\ active' = [active EXCEPT ![p] = 0]
      /\ waiting' = [waiting EXCEPT ![p] = <<>>] /\ chain' = [chain EXCEPT ![p] = <<>>]
      /\ ceiling' = [ceiling EXCEPT ![p] = Nothing] /\ down' = [down EXCEPT ![p] = FALSE]
      /\ letting' \subseteq letting /\ UNCHANGED <<attempt, via, lease>>
  BY DEF Dies
<1>3. \A c \in Calls : ProcOf[c] = p => pc'[c] \in Over
  BY <1>2 DEF Over
<1>4. \A c \in Calls : pc'[c] = pc[c] \/ pc'[c] = "gone"
  BY <1>2
<1>5. \A c \in Calls : ProcOf[c] # p => pc'[c] = pc[c] /\ pick'[c] = pick[c]
  BY <1>2
<1>6. TypeOK'
  <2>1. pc' \in [Calls -> {"new", "shared", "local", "fallback", "waiting", "lease",
                           "acquire", "sent", "pause"} \cup Over]
    BY <1>2, <1>4 DEF Inv, TypeOK, Over
  <2>2. pick' \in [Calls -> Slots \cup {Nothing}]
    BY <1>2 DEF Inv, TypeOK
  <2>3. active' \in [Procs -> 0..Concurrency]
    BY <1>2, ThrottleAssumption DEF Inv, TypeOK
  <2>4. waiting' \in [Procs -> Seq(Calls)] /\ chain' \in [Procs -> Seq(Calls)]
    BY <1>2, EmptySeq DEF Inv, TypeOK
  <2>5. ceiling' \in [Procs -> {Nothing, 1}] /\ down' \in [Procs -> BOOLEAN]
    BY <1>2 DEF Inv, TypeOK
  <2> QED
    BY <1>1, <1>2, <2>1, <2>2, <2>3, <2>4, <2>5 DEF Inv, TypeOK
<1>7. HoldersIn(pc', p) = {} /\ QueueIn(pc', <<>>, p)
  BY <1>3, EmptySeq DEF HoldersIn, QueueIn, Slotted, Over
<1>8. ASSUME NEW q \in Procs \ {p}
      PROVE  HoldersIn(pc', q) = HoldersIn(pc, q) /\ \A w : QueueIn(pc, w, q) => QueueIn(pc', w, q)
  <2>1. \A c \in Calls : ProcOf[c] = q => pc'[c] = pc[c]
    BY <1>5
  <2> QED
    BY <2>1, SamePlaces
<1>9. /\ active'[p] = 0 /\ waiting'[p] = <<>>
      /\ \A q \in Procs \ {p} : /\ active'[q] = active[q] /\ waiting'[q] = waiting[q]
                                /\ Limit(q)' = Limit(q)
  BY <1>2 DEF Inv, TypeOK, Limit
<1>10. Queued' /\ Counted'
  BY <1>7, <1>8, <1>9, FS_EmptySet DEF Inv, Queued, Counted
<1>11. NobodyWaitsForNothing'
  BY <1>9 DEF Inv, NobodyWaitsForNothing
<1>12. Placed'
  BY <1>2, <1>3, <1>5 DEF Inv, Placed, Over
<1>13. Leased'
  BY <1>2, <1>4 DEF Inv, Leased, Holds, Id
<1>14. Released'
  <2>1. \A c \in Calls : pc[c] \in Over => pc'[c] = pc[c]
    BY <1>2
  <2>2. \A id \in letting : id[1] \in Calls
    BY LettingType DEF Inv
  <2> QED
    BY <1>2, <1>4, <2>1, <2>2 DEF Inv, Released, Over
<1>15. Faultless'
  BY <1>1 DEF Faultless
<1> QED
  BY <1>6, <1>10, <1>11, <1>12, <1>13, <1>14, <1>15 DEF Inv

-----------------------------------------------------------------------------
(* The invariant. *)

LEMMA StutterKeeps ==
  ASSUME Inv, UNCHANGED vars
  PROVE  Inv'
<1>1. UNCHANGED <<pc, attempt, via, pick, active, waiting, chain, ceiling, down, lease, letting, faults>>
  BY DEF vars
<1>2. TypeOK'
  BY <1>1 DEF Inv, TypeOK
<1>3. Queued' /\ Counted' /\ NobodyWaitsForNothing'
  BY <1>1, GateFrame DEF Inv
<1>4. Placed' /\ Leased' /\ Released' /\ Faultless'
  BY <1>1 DEF Inv, Placed, Leased, Released, Faultless, Holds, Id
<1> QED
  BY <1>2, <1>3, <1>4 DEF Inv

LEMMA InitInv ==
  ASSUME Init
  PROVE  Inv
<1>1. \A p \in Procs : HoldersIn(pc, p) = {} /\ QueueIn(pc, <<>>, p)
  BY EmptySeq DEF Init, HoldersIn, QueueIn, Slotted
<1>2. Queued /\ Counted
  BY <1>1, FS_EmptySet DEF Init, Queued, Counted
<1>3. TypeOK
  <2>1. \A c \in Calls : MaxAttempts[c] \in Nat \ {0}
    BY ThrottleAssumption
  <2> QED
    BY <2>1, ThrottleAssumption, EmptySeq DEF Init, TypeOK
<1>4. NobodyWaitsForNothing /\ Placed /\ Leased /\ Released /\ Faultless
  BY DEF Init, NobodyWaitsForNothing, Placed, Leased, Holds, Released, Faultless, Slotted
<1> QED
  BY <1>2, <1>3, <1>4 DEF Inv

LEMMA NextInv ==
  ASSUME Inv, [Next]_vars
  PROVE  Inv'
<1>1. CASE \E c \in Calls : Admit(c)
  BY <1>1, EnterKeeps, TokenTakenKeeps, TakeFailsKeeps, AcquireSeesKeeps, AcquireWritesKeeps,
     AcquireFailsKeeps DEF Admit
<1>2. CASE \E c \in Calls : Retry(c)
  BY <1>2, RetryKeeps
<1>3. CASE \E c \in Calls : \E answer \in {"ok", "refused", "fatal"} : Answer(c, answer)
  BY <1>3, AnswerKeeps
<1>4. CASE \E p \in Procs : StoreRetried(p) \/ ToldInVain(p) \/ Dies(p)
  BY <1>4, StoreRetriedKeeps, ToldInVainKeeps, DiesKeeps
<1>5. CASE \E p \in Procs : \E new \in {Nothing, 1} : SetConcurrencyCeiling(p, new)
  BY <1>5, SetConcurrencyCeilingKeeps
<1>6. CASE \E id \in Ids : ReleaseLease(id) \/ ReleaseFails(id)
  BY <1>6, ReleaseLeaseKeeps, ReleaseFailsKeeps
<1>7. CASE \E s \in Slots : Expire(s) \/ Lapse(s)
  BY <1>7, ExpireKeeps, LapseKeeps
<1>8. CASE UNCHANGED vars
  BY <1>8, StutterKeeps
<1> QED
  BY <1>1, <1>2, <1>3, <1>4, <1>5, <1>6, <1>7, <1>8 DEF Next

\* What the argument rests on holds in every state: the gates count the calls that go
\* ahead, the queues hold those that wait, and releases are of attempts that are over.
THEOREM Invariance == Spec => []Inv
BY InitInv, NextInv, PTL DEF Spec

-----------------------------------------------------------------------------
(* What follows from it. *)

\* The gate, the chain, the lease table and every call are always of their types: no
\* call makes more than its attempts, no gate counts above the limit.
THEOREM Typing == Spec => []TypeOK
<1>1. Inv => TypeOK
  BY DEF Inv
<1> QED
  BY <1>1, Invariance, PTL

\* Every slot a gate counts (gate.active) is some call's, and every call that goes ahead
\* has one: none leaks or is counted twice over retries, crashes and wake-ups.
THEOREM SlotsHeld == Spec => []SlotsAreHeld
<1>1. Inv => SlotsAreHeld
  BY DEF Inv, Counted, HoldersIn, Slotted, SlotsAreHeld
<1> QED
  BY <1>1, Invariance, PTL

\* Nobody waits while the gate has a slot to give: releaseSlot and the lifting of a
\* ceiling wake everyone there is room for.
THEOREM NobodyWaits == Spec => []NobodyWaitsForNothing
<1>1. Inv => NobodyWaitsForNothing
  BY DEF Inv
<1> QED
  BY <1>1, Invariance, PTL

\* A request under a lease has its row of "ServiceLease" to itself until it lapses, and
\* until something has failed there are no other requests.
THEOREM LimitKept == Spec => []ClusterKeepsLimit
<1>1. Inv => ClusterKeepsLimit
  BY DEF Inv, Leased, Faultless, Slotted, Holds, ClusterKeepsLimit
<1> QED
  BY <1>1, Invariance, PTL

\* Whatever fails, the deployment's processes together have at most Concurrency requests
\* under a lease in flight, and Concurrency requests at all until something has failed.
WithinLimit ==
  /\ Cardinality({c \in Calls : Holds(c)}) <= Concurrency
  /\ faults = 0 => Cardinality({c \in Calls : pc[c] = "sent"}) <= Concurrency

LEMMA RowsBound ==
  ASSUME TypeOK, Leased
  PROVE  Cardinality({c \in Calls : Holds(c)}) <= Concurrency
<1> DEFINE Holders == {c \in Calls : Holds(c)}
           row == [c \in Holders |-> CHOOSE s \in Slots : lease[s] = Id(c)]
<1>1. \A c \in Holders : row[c] \in Slots /\ lease[row[c]] = Id(c)
  BY DEF Leased
<1>2. row \in Injection(Holders, Slots)
  <2>1. row \in [Holders -> Slots]
    BY <1>1
  <2>2. ASSUME NEW c \in Holders, NEW d \in Holders, row[c] = row[d]
        PROVE  c = d
    <3>1. Id(c) = Id(d)
      BY <1>1, <2>2
    <3> QED
      BY <3>1 DEF Id
  <2> HIDE DEF row, Holders
  <2> QED
    BY <2>1, <2>2 DEF Injection, IsInjective
<1>3. IsFiniteSet(Slots) /\ Cardinality(Slots) = Concurrency
  BY ThrottleAssumption, FS_Interval DEF Slots
<1>4. IsFiniteSet(Holders)
  BY ThrottleAssumption, FS_Subset
<1> HIDE DEF row
<1>5. Cardinality(Holders) <= Cardinality(Slots)
  BY <1>2, <1>3, <1>4, FS_Injection DEF ExistsInjection
<1> QED
  BY <1>3, <1>5

\* The limit in numbers, over all processes: the rows of "ServiceLease" bound it.
THEOREM LimitInNumbers == Spec => []WithinLimit
<1>1. Inv => WithinLimit
  <2> SUFFICES ASSUME Inv
               PROVE  WithinLimit
    OBVIOUS
  <2>1. Cardinality({c \in Calls : Holds(c)}) <= Concurrency
    BY RowsBound DEF Inv
  <2>2. ASSUME faults = 0
        PROVE  {c \in Calls : pc[c] = "sent"} = {c \in Calls : Holds(c)}
    BY <2>2 DEF Inv, Faultless, Holds, Slotted
  <2> QED
    BY <2>1, <2>2 DEF WithinLimit
<1> QED
  BY <1>1, Invariance, PTL

\* A call is put to wait, and kept waiting, only by a gate that is full.
WaitsForSlot == \A c \in Calls : pc[c] = "waiting" => active[ProcOf[c]] >= Limit(ProcOf[c])

\* No wake-up is lost: no call is still waiting once its process's gate has room.
THEOREM WaitersWoken == Spec => []WaitsForSlot
<1>1. Inv => WaitsForSlot
  <2> SUFFICES ASSUME Inv, NEW c \in Calls, pc[c] = "waiting"
               PROVE  active[ProcOf[c]] >= Limit(ProcOf[c])
    BY DEF WaitsForSlot
  <2>1. PICK p \in Procs : p = ProcOf[c]
    BY ThrottleAssumption
  <2>2. QueueIn(pc, waiting[p], p)
    BY DEF Inv, Queued
  <2>3. PICK i \in 1..Len(waiting[p]) : waiting[p][i] = c
    BY <2>1, <2>2 DEF QueueIn
  <2>4. waiting[p] # <<>>
    BY <2>3, EmptySeq
  <2> QED
    BY <2>1, <2>4 DEF Inv, NobodyWaitsForNothing
<1> QED
  BY <1>1, Invariance, PTL

=============================================================================
