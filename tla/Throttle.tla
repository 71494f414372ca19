------------------------------- MODULE Throttle -------------------------------
(* Calls to a metered service (runThrottled): each process's gate, with its   *)
(* pace and its queue of slots, and the leases that hold a deployment to one  *)
(* limit (ANONIFY_SERVICE_LIMIT_SCOPE=cluster, Postgres store).               *)
(*                                                                            *)
(* How long a token takes is the bucket's business (TokenBucket): here a      *)
(* caller at the head of its process's chain is let through at some moment.   *)
EXTENDS Integers, FiniteSets, Sequences

CONSTANTS
  Procs,        \* server processes
  Calls,        \* calls of runThrottled
  ProcOf,       \* the process of each call
  Concurrency,  \* serviceLimits().concurrency
  MaxAttempts,  \* attempts a call may make (ThrottleOptions.maxAttempts)
  MaxFaults,    \* bound: store calls that fail, heartbeats that are late, crashes
  Nothing       \* no ceiling, no lease, no slot picked

ASSUME ThrottleAssumption ==
  /\ ProcOf \in [Calls -> Procs]
  /\ Concurrency \in Nat \ {0}
  /\ MaxAttempts \in [Calls -> Nat \ {0}]
  /\ MaxFaults \in Nat
  /\ IsFiniteSet(Calls)

VARIABLES
  pc,       \* where each call is
  attempt,  \* the attempt each call is at
  via,      \* what the call's release gives back: its slot alone, or a lease too
  pick,     \* the slot the call's acquire has chosen
  active,   \* gate.active
  waiting,  \* gate.waiting
  chain,    \* gate.chain: the calls waiting for a token
  ceiling,  \* gate.ceiling
  down,     \* the store failed this process lately (storeDownUntil)
  lease,    \* "ServiceLease": the live lease of each slot
  letting,  \* leases whose release has been sent
  faults

gate == <<active, waiting, chain, ceiling>>
call == <<pc, attempt, via, pick>>
vars == <<pc, attempt, via, pick, active, waiting, chain, ceiling, down, lease, letting, faults>>

Slots == 0..(Concurrency - 1)
Ids   == UNION {{c} \X (1..MaxAttempts[c]) : c \in Calls}
Over  == {"done", "failed", "gone"}

ASSUME NothingAssumption == Nothing \notin Ids

Id(c)    == <<c, attempt[c]>>
Holds(c) == pc[c] = "sent" /\ via[c] = "lease"
Held(id) == Holds(id[1]) /\ attempt[id[1]] = id[2]

LimitAt(ceil)  == IF ceil = Nothing \/ ceil > Concurrency THEN Concurrency ELSE ceil
Limit(p)       == LimitAt(ceiling[p])

-----------------------------------------------------------------------------
(* The process's gate. *)

\* How many of those who wait get a slot when a of them are taken, of lim.
Woken(a, wait, lim) ==
  IF a >= lim THEN 0 ELSE IF Len(wait) < lim - a THEN Len(wait) ELSE lim - a

\* With its slot, a call of p asks for a lease, unless it has come by its
\* process's own bucket or the store has failed meanwhile: then it goes alone.
Asks(c, p)  == via[c] = "lease" /\ ~down[p]
Ahead(c, p) == IF Asks(c, p) THEN "lease" ELSE "sent"

\* Variant: those who wait are not looked at.
DrainNobody(p, a, lim, pcs) ==
  /\ active' = [active EXCEPT ![p] = a]
  /\ pc' = pcs
  /\ UNCHANGED <<waiting, via>>

\* active of p becomes a, and those who wait are let in as far as lim goes.
Drain(p, a, lim, pcs) ==
  LET n == Woken(a, waiting[p], lim)
      woken == {waiting[p][i] : i \in 1..n}
  IN /\ active' = [active EXCEPT ![p] = a + n]
     /\ waiting' = [waiting EXCEPT ![p] = SubSeq(@, n + 1, Len(@))]
     /\ pc' = [c \in Calls |-> IF c \in woken THEN Ahead(c, p) ELSE pcs[c]]
     /\ via' = [c \in Calls |-> IF c \in woken /\ ~Asks(c, p) THEN "slot" ELSE via[c]]

\* Variant: who has to wait is counted at once, and again on being let in.
GetsSlotTwice(c, p) ==
  LET free == active[p] < Limit(p) IN
  /\ active' = [active EXCEPT ![p] = @ + 1]
  /\ waiting' = IF free THEN waiting ELSE [waiting EXCEPT ![p] = Append(@, c)]

\* acquireSlot: a free slot is taken, or the call queues for one.
GetsSlot(c, p) ==
  \/ /\ active[p] < Limit(p)
     /\ active' = [active EXCEPT ![p] = @ + 1]
     /\ UNCHANGED waiting
  \/ /\ active[p] >= Limit(p)
     /\ waiting' = [waiting EXCEPT ![p] = Append(@, c)]
     /\ UNCHANGED active

\* A call that has its token, of the store's bucket or its process's own.
AcquireSlot(c, p, source) ==
  LET free == active[p] < Limit(p)
      asks == source = "lease" /\ ~down[p]
  IN /\ GetsSlot(c, p)
     /\ pc' = [pc EXCEPT ![c] = IF ~free THEN "waiting" ELSE IF asks THEN "lease" ELSE "sent"]
     /\ via' = [via EXCEPT ![c] = IF free /\ ~asks THEN "slot" ELSE source]

ReleaseSlot(p, pcs) ==
  Drain(p, IF active[p] = 0 THEN 0 ELSE active[p] - 1, Limit(p), pcs)

\* The spend cap drops the gate to one call at a time, or lifts that, when
\* another pass is about to call.
SetConcurrencyCeiling(p, new) ==
  /\ ceiling[p] # new
  /\ \E c \in Calls : ProcOf[c] = p /\ pc[c] \notin Over
  /\ ceiling' = [ceiling EXCEPT ![p] = new]
  /\ Drain(p, active[p], LimitAt(new), pc)
  /\ UNCHANGED <<attempt, pick, chain, down, lease, letting, faults>>

Fault == faults < MaxFaults /\ faults' = faults + 1

StoreFailed(p) == Fault /\ down' = [down EXCEPT ![p] = TRUE]

\* STORE_RETRY_AFTER_MS have passed.
StoreRetried(p) ==
  /\ down[p]
  /\ down' = [down EXCEPT ![p] = FALSE]
  /\ UNCHANGED <<call, gate, lease, letting, faults>>

-----------------------------------------------------------------------------
(* admit: a token, a slot, a lease. *)

\* A process the store has failed lately asks its own bucket, and takes no lease.
Enter(c) ==
  LET p == ProcOf[c] IN
  /\ pc[c] = "new"
  /\ chain' = [chain EXCEPT ![p] = Append(@, c)]
  /\ pc' = [pc EXCEPT ![c] = IF down[p] THEN "local" ELSE "shared"]
  /\ UNCHANGED <<attempt, via, pick, active, waiting, ceiling, down, lease, letting, faults>>

Leads(c) == LET p == ProcOf[c] IN chain[p] # <<>> /\ Head(chain[p]) = c

TokenTaken(c) ==
  LET p == ProcOf[c] IN
  /\ pc[c] \in {"shared", "fallback", "local"} /\ Leads(c)
  /\ chain' = [chain EXCEPT ![p] = Tail(@)]
  /\ AcquireSlot(c, p, IF pc[c] = "local" THEN "slot" ELSE "lease")
  /\ UNCHANGED <<attempt, pick, ceiling, down, lease, letting, faults>>

\* Variant: a rejected reservation stays in the chain.
AfterRejectionStuck(queue, c) == Append(queue, c)

AfterRejection(queue, c) == Append(Tail(queue), c)

\* The store fails while the call asks it for a token: the call asks its
\* process's own bucket instead, behind those who came in the meantime, and still
\* asks for a lease should the store be back by then.
TakeFails(c) ==
  LET p == ProcOf[c] IN
  /\ pc[c] = "shared" /\ Leads(c)
  /\ StoreFailed(p)
  /\ chain' = [chain EXCEPT ![p] = AfterRejection(@, c)]
  /\ pc' = [pc EXCEPT ![c] = "fallback"]
  /\ UNCHANGED <<attempt, via, pick, active, waiting, ceiling, lease, letting>>

Live == {s \in Slots : lease[s] # Nothing}

MayPick(s, lim) == s < lim /\ s \notin Live /\ Cardinality(Live) < lim

\* acquireLease, on the rows its statement sees: a free slot under the limit.
AcquireSees(c) ==
  /\ pc[c] = "lease"
  /\ \E s \in Slots :
       /\ MayPick(s, Limit(ProcOf[c]))
       /\ pick' = [pick EXCEPT ![c] = s]
  /\ pc' = [pc EXCEPT ![c] = "acquire"]
  /\ UNCHANGED <<attempt, via, gate, down, lease, letting, faults>>

\* Variant: the row is overwritten whoever has it.
MayClaimAny(s) == TRUE

MayClaim(s) == lease[s] = Nothing

\* acquireLease, on the row it has locked: another may have been faster, and then
\* the call asks again.
AcquireWrites(c) ==
  /\ pc[c] = "acquire"
  /\ LET s == pick[c] IN
     \/ /\ MayClaim(s)
        /\ lease' = [lease EXCEPT ![s] = Id(c)]
        /\ pc' = [pc EXCEPT ![c] = "sent"]
     \/ /\ ~MayClaim(s)
        /\ pc' = [pc EXCEPT ![c] = "lease"]
        /\ UNCHANGED lease
  /\ pick' = [pick EXCEPT ![c] = Nothing]
  /\ UNCHANGED <<attempt, via, gate, down, letting, faults>>

\* The store fails under the acquire, or its answer is lost with a lease granted.
AcquireFails(c) ==
  /\ pc[c] \in {"lease", "acquire"}
  /\ StoreFailed(ProcOf[c])
  /\ \/ UNCHANGED lease
     \/ /\ pc[c] = "acquire" /\ MayClaim(pick[c])
        /\ lease' = [lease EXCEPT ![pick[c]] = Id(c)]
  /\ via' = [via EXCEPT ![c] = "slot"]
  /\ pick' = [pick EXCEPT ![c] = Nothing]
  /\ pc' = [pc EXCEPT ![c] = "sent"]
  /\ UNCHANGED <<attempt, gate, letting>>

Admit(c) ==
  \/ Enter(c) \/ TokenTaken(c) \/ TakeFails(c) \/ AcquireSees(c)
  \/ AcquireWrites(c) \/ AcquireFails(c)

-----------------------------------------------------------------------------
(* The request, its release and its retry. *)

\* Whether another attempt follows an answer.
After(c, answer) ==
  IF answer = "ok" THEN "done"
  ELSE IF answer = "refused" /\ attempt[c] < MaxAttempts[c] THEN "pause" ELSE "failed"

\* The slot is free before the pause; the lease's release is sent, not awaited.
Answer(c, answer) ==
  /\ pc[c] = "sent"
  /\ ReleaseSlot(ProcOf[c], [pc EXCEPT ![c] = After(c, answer)])
  /\ letting' = IF via[c] = "lease" THEN letting \cup {Id(c)} ELSE letting
  /\ UNCHANGED <<attempt, pick, chain, ceiling, down, lease, faults>>

\* The wait a provider asked for, or the backoff, is over.
Retry(c) ==
  /\ pc[c] = "pause"
  /\ attempt' = [attempt EXCEPT ![c] = @ + 1]
  /\ pc' = [pc EXCEPT ![c] = "new"]
  /\ UNCHANGED <<via, pick, gate, down, lease, letting, faults>>

Without(id) == [s \in Slots |-> IF lease[s] = id THEN Nothing ELSE lease[s]]

ReleaseLease(id) ==
  /\ id \in letting
  /\ letting' = letting \ {id}
  /\ lease' = Without(id)
  /\ UNCHANGED <<call, gate, down, faults>>

\* The release is lost: the lease keeps its slot until it expires.
ReleaseFails(id) ==
  /\ id \in letting
  /\ letting' = letting \ {id}
  /\ StoreFailed(ProcOf[id[1]])
  /\ UNCHANGED <<call, gate, lease>>

\* A renewal, or telling the shared bucket of a Retry-After, fails.
ToldInVain(p) ==
  /\ \E c \in Calls : ProcOf[c] = p /\ (Holds(c) \/ pc[c] = "pause")
  /\ StoreFailed(p)
  /\ UNCHANGED <<call, gate, lease, letting>>

\* LEASE_TTL_MS pass without a renewal, nobody renewing the lease any more.
Expire(s) ==
  /\ lease[s] # Nothing
  /\ ~Held(lease[s])
  /\ lease' = [lease EXCEPT ![s] = Nothing]
  /\ UNCHANGED <<call, gate, down, letting, faults>>

\* The heartbeat comes too late, and its request goes on without a lease.
Lapse(s) ==
  /\ lease[s] # Nothing
  /\ Held(lease[s])
  /\ Fault
  /\ lease' = [lease EXCEPT ![s] = Nothing]
  /\ via' = [via EXCEPT ![lease[s][1]] = "lapsed"]
  /\ UNCHANGED <<pc, attempt, pick, gate, down, letting>>

\* A process dies: its calls, gate and releases with it, its leases not.
Dies(p) ==
  LET mine == {c \in Calls : ProcOf[c] = p} IN
  /\ \E c \in mine : pc[c] \notin Over
  /\ Fault
  /\ pc' = [c \in Calls |-> IF c \in mine /\ pc[c] \notin Over THEN "gone" ELSE pc[c]]
  /\ pick' = [c \in Calls |-> IF c \in mine THEN Nothing ELSE pick[c]]
  /\ active' = [active EXCEPT ![p] = 0]
  /\ waiting' = [waiting EXCEPT ![p] = <<>>]
  /\ chain' = [chain EXCEPT ![p] = <<>>]
  /\ ceiling' = [ceiling EXCEPT ![p] = Nothing]
  /\ down' = [down EXCEPT ![p] = FALSE]
  /\ letting' = {id \in letting : id[1] \notin mine}
  /\ UNCHANGED <<attempt, via, lease>>

-----------------------------------------------------------------------------
Init ==
  /\ pc = [c \in Calls |-> "new"]
  /\ attempt = [c \in Calls |-> 1]
  /\ via = [c \in Calls |-> "slot"]
  /\ pick = [c \in Calls |-> Nothing]
  /\ active = [p \in Procs |-> 0]
  /\ waiting = [p \in Procs |-> <<>>]
  /\ chain = [p \in Procs |-> <<>>]
  /\ ceiling = [p \in Procs |-> Nothing]
  /\ down = [p \in Procs |-> FALSE]
  /\ lease = [s \in Slots |-> Nothing]
  /\ letting = {}
  /\ faults = 0

Next ==
  \/ \E c \in Calls :
       \/ Admit(c) \/ Retry(c)
       \/ \E answer \in {"ok", "refused", "fatal"} : Answer(c, answer)
  \/ \E p \in Procs :
       \/ StoreRetried(p) \/ ToldInVain(p) \/ Dies(p)
       \/ \E new \in {Nothing, 1} : SetConcurrencyCeiling(p, new)
  \/ \E id \in Ids : ReleaseLease(id) \/ ReleaseFails(id)
  \/ \E s \in Slots : Expire(s) \/ Lapse(s)

Spec == Init /\ [][Next]_vars

\* A token comes in time, a request is answered, a poll comes round again, and a
\* lease that nobody renews expires.
Goes(c) ==
  \/ Enter(c) \/ TokenTaken(c) \/ AcquireSees(c) \/ AcquireWrites(c) \/ Retry(c)
  \/ \E answer \in {"ok", "refused", "fatal"} : Answer(c, answer)

Fairness ==
  /\ \A c \in Calls : WF_vars(Goes(c))
  /\ \A s \in Slots : WF_vars(Expire(s))

FairSpec == Spec /\ Fairness

-----------------------------------------------------------------------------
TypeOK ==
  /\ pc \in [Calls -> {"new", "shared", "local", "fallback", "waiting", "lease",
                       "acquire", "sent", "pause"} \cup Over]
  /\ attempt \in [Calls -> Nat] /\ \A c \in Calls : attempt[c] \in 1..MaxAttempts[c]
  /\ via \in [Calls -> {"slot", "lease", "lapsed"}]
  /\ pick \in [Calls -> Slots \cup {Nothing}]
  /\ active \in [Procs -> 0..Concurrency]
  /\ waiting \in [Procs -> Seq(Calls)] /\ chain \in [Procs -> Seq(Calls)]
  /\ ceiling \in [Procs -> {Nothing, 1}]
  /\ down \in [Procs -> BOOLEAN]
  /\ lease \in [Slots -> Ids \cup {Nothing}]
  /\ letting \subseteq Ids
  /\ faults \in 0..MaxFaults

\* Every slot a gate counts is some call's, and every call that goes ahead has
\* one: none is lost or counted twice, however calls fail, wait and retry.
SlotsAreHeld ==
  \A p \in Procs :
    active[p] = Cardinality({c \in Calls :
      ProcOf[c] = p /\ pc[c] \in {"lease", "acquire", "sent"}})

\* Nobody waits while the gate has a slot to give: no wake-up is lost, not even
\* when the ceiling is lifted.
NobodyWaitsForNothing ==
  \A p \in Procs : waiting[p] # <<>> => active[p] >= Limit(p)

\* A request that went out under a lease has it to itself until it lapses, so the
\* deployment has no more of them in flight than the limit; and as long as nothing
\* has failed there are no others.
ClusterKeepsLimit ==
  /\ \A c \in Calls : Holds(c) => \E s \in Slots : lease[s] = Id(c)
  /\ faults = 0 => \A c \in Calls : pc[c] = "sent" => Holds(c)

\* Every call is answered in the end, whatever the store, the other calls and the
\* other processes do.
EveryCallEnds == <>(\A c \in Calls : pc[c] \in Over)

=============================================================================
