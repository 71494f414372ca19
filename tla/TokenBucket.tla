----------------------------- MODULE TokenBucket -----------------------------
(* One key's token bucket as the replicas share it: the row of "RateLimit",   *)
(* spent from by spendToken, pushed back by deferToken and dropped by         *)
(* pruneRateLimits. The bucket of the inbound limits and of the outbound pace *)
(* of a service with the cluster scope.                                       *)
(*                                                                            *)
(* A replica reads its own clock, and its statement reaches the row some time *)
(* later: clocks differ by up to MaxSkew, and statements overtake each other. *)
(* The unit of time is the one in which one token comes back.                 *)
EXTENDS Integers, FiniteSets

CONSTANTS
  Replicas,     \* processes that share the bucket
  Skew,         \* how far each replica's clock is ahead of the slowest one
  Burst,        \* BucketConfig.burst
  Waits,        \* Retry-After values a provider answers with
  MaxWait,      \* the longest of them
  PruneAge,     \* pruneRateLimits: the age of a row that is dropped
  MaxDelay,     \* how long a statement is on its way to the row
  MaxSkew,      \* the largest difference between two clocks
  MaxTime,      \* bound: the last moment
  MaxDefers,    \* bound: refusals with a Retry-After
  NoRow,        \* the row is absent
  NoTime        \* no statement is on its way

ASSUME BucketAssumption ==
  /\ Burst \in Nat \ {0}
  /\ MaxWait \in Nat /\ Waits \subseteq 0..MaxWait
  /\ PruneAge \in Nat /\ MaxDelay \in Nat /\ MaxSkew \in Nat /\ MaxDefers \in Nat
  /\ MaxTime \in Nat
  /\ Skew \in [Replicas -> 0..MaxSkew]
  /\ NoTime \notin Int
  /\ NoRow \notin [tokens : Int, updatedAt : Int]

VARIABLES
  now,      \* the slowest clock
  row,      \* the bucket's row: tokens and updatedAt
  asked,    \* the moment each replica's statement carries
  spent,    \* requests let through by each moment of the row's clock
  until,    \* the moment the Retry-Afters told so far hold the bucket to
  defers    \* Retry-Afters told so far

vars == <<now, row, asked, spent, until, defers>>

AtMost(a, b)  == IF a < b THEN a ELSE b
AtLeast(a, b) == IF a < b THEN b ELSE a

\* Only a Retry-After takes the balance below zero.
Moments  == 0..(MaxTime + MaxSkew)
Balances == AtMost(0, 1 - MaxWait)..Burst
Rows     == [tokens : Balances, updatedAt : Moments]

Clock(r) == now + Skew[r]

\* The refilled balance; an absent row is a full bucket.
Available(t) ==
  IF row = NoRow THEN Burst
  ELSE AtMost(Burst, row.tokens + AtLeast(0, t - row.updatedAt))

\* Variant: the row takes the moment of the last statement, as a local bucket does.
StampOfLast(t) == t

Stamp(t) == IF row = NoRow THEN t ELSE AtLeast(row.updatedAt, t)

-----------------------------------------------------------------------------
Init ==
  /\ now = 0
  /\ row = NoRow
  /\ asked = [r \in Replicas |-> NoTime]
  /\ spent = [t \in Moments |-> 0]
  /\ until = 0
  /\ defers = 0

\* A replica reads its clock and sends its statement.
Ask(r) ==
  /\ asked[r] = NoTime
  /\ asked' = [asked EXCEPT ![r] = Clock(r)]
  /\ UNCHANGED <<now, row, spent, until, defers>>

Answered(r) == asked' = [asked EXCEPT ![r] = NoTime]

\* Variant: whatever the balance, the request goes through and owes a token.
MayOwe(t) == TRUE

MaySpend(t) == Available(t) >= 1

\* spendToken lets the request through.
Spend(r) ==
  /\ asked[r] # NoTime
  /\ LET t == asked[r] IN
     /\ MaySpend(t)
     /\ row' = [tokens |-> Available(t) - 1, updatedAt |-> Stamp(t)]
     /\ spent' = [x \in Moments |-> IF x >= Stamp(t) THEN spent[x] + 1 ELSE spent[x]]
  /\ Answered(r)
  /\ UNCHANGED <<now, until, defers>>

\* spendToken refuses, and writes nothing.
Refuse(r) ==
  /\ asked[r] # NoTime
  /\ ~MaySpend(asked[r])
  /\ Answered(r)
  /\ UNCHANGED <<now, row, spent, until, defers>>

\* Variant: the last Retry-After counts, whatever the balance was.
DeferredAnew(t, w) == 1 - w

Deferred(t, w) == AtMost(Available(t), 1 - w)

\* deferToken: a provider has refused a request of r's with a Retry-After.
Defer(r, w) ==
  /\ asked[r] # NoTime
  /\ defers < MaxDefers
  /\ row' = [tokens |-> Deferred(asked[r], w), updatedAt |-> Stamp(asked[r])]
  /\ until' = AtLeast(until, asked[r] + w)
  /\ defers' = defers + 1
  /\ Answered(r)
  /\ UNCHANGED <<now, spent>>

\* pruneRateLimits, in the sweep of one replica.
Prune(r) ==
  /\ row # NoRow
  /\ row.updatedAt < Clock(r) - PruneAge
  /\ row' = NoRow
  /\ UNCHANGED <<now, asked, spent, until, defers>>

\* No statement is on its way for longer than MaxDelay.
Tick ==
  /\ now < MaxTime
  /\ \A r \in Replicas : asked[r] # NoTime => Clock(r) < asked[r] + MaxDelay
  /\ now' = now + 1
  /\ UNCHANGED <<row, asked, spent, until, defers>>

Next ==
  \/ Tick
  \/ \E r \in Replicas :
       \/ Ask(r) \/ Spend(r) \/ Refuse(r) \/ Prune(r)
       \/ \E w \in Waits : Defer(r, w)

Spec == Init /\ [][Next]_vars

-----------------------------------------------------------------------------
TypeOK ==
  /\ now \in 0..MaxTime
  /\ row \in Rows \cup {NoRow}
  /\ asked \in [Replicas -> Moments \cup {NoTime}]
  /\ spent \in [Moments -> Nat]
  /\ until \in Nat
  /\ defers \in 0..MaxDefers

SpentBefore(t) == IF t = 0 THEN 0 ELSE spent[t - 1]

\* Whatever the clocks and the order of the statements, no stretch of time lets
\* through more than a burst and one request for every token that came back in it.
Paced ==
  \A a, b \in Moments : a <= b => spent[b] - SpentBefore(a) <= Burst + (b - a)

\* A Retry-After told by one replica holds back every replica: whoever asks and
\* whatever others are told meanwhile, nothing goes through before the moment it
\* names, but for the difference between the clocks.
HeldBack ==
  [][\A r \in Replicas : Spend(r) => now + MaxSkew >= until]_vars

\* A row is only dropped when its bucket has filled up again: an absent row and
\* a full bucket mean the same.
DroppedWhenFull ==
  [][row # NoRow /\ row' = NoRow => \A r \in Replicas : Available(Clock(r)) = Burst]_vars

=============================================================================
