--------------------------- MODULE TokenBucketProofs ---------------------------
(* The bucket's promises, for every number of replicas, burst, clock          *)
(* difference and delay: what a row that is dropped lacked at most, for every *)
(* age of pruning, and the pace and the Retry-Afters as long as pruning waits *)
(* for the bucket to fill up.                                                 *)
EXTENDS TokenBucket, TLAPS

Lowest == AtMost(0, 1 - MaxWait)

\* A row is old enough to be dropped only when it has filled up, on the clock of
\* any statement that is still to reach it.
PruneSafe == Burst - Lowest + MaxSkew + MaxDelay <= PruneAge + 1

\* What is in a bucket whose row is dropped, however low it was and whatever the age of
\* pruning: what came back since, or all.  The row's absence counts as a full bucket, so
\* the burst less this is what pruning may give away.
LeftWhenDropped == AtMost(Burst, Lowest + PruneAge + 1 - MaxSkew)

-----------------------------------------------------------------------------
\* Every statement carries a recent moment, and no row is stamped ahead of the
\* fastest clock.
Recent ==
  /\ \A r \in Replicas : asked[r] # NoTime =>
       now <= asked[r] + MaxDelay /\ asked[r] <= now + MaxSkew
  /\ row # NoRow => row.updatedAt <= now + MaxSkew

\* A stretch that ends at the row's stamp has let through what it may, less what
\* the row still holds.
RowPaced ==
  row # NoRow => \A a \in Moments : a <= row.updatedAt =>
    row.tokens + spent[row.updatedAt] - SpentBefore(a) <= Burst + (row.updatedAt - a)

\* Nothing has been let through since the stamp; nor, where the row has been
\* dropped, lately.
Quiet ==
  /\ row # NoRow => \A x \in Moments : x >= row.updatedAt => spent[x] = spent[row.updatedAt]
  /\ row = NoRow => \A x, y \in Moments :
       x + MaxDelay >= now /\ y + MaxDelay >= now => spent[x] = spent[y]

\* An absent row counts as a full bucket to whoever can still ask.
AbsentPaced ==
  row = NoRow => \A a, t \in Moments : t + MaxDelay >= now /\ a <= t =>
    spent[t] - SpentBefore(a) <= t - a

\* While a Retry-After has not passed, the balance lacks that long to a token.
Held ==
  /\ row # NoRow /\ until > row.updatedAt => row.tokens + (until - row.updatedAt) <= 1
  /\ row = NoRow => \A t \in Moments : t + MaxDelay >= now => until <= t

BucketInv == TypeOK /\ Recent /\ RowPaced /\ Quiet /\ AbsentPaced /\ Held /\ Paced

-----------------------------------------------------------------------------
\* Arithmetic: the constants' ranges, as the steps below use them.
LEMMA Numbers ==
  /\ Burst \in Nat /\ Burst >= 1
  /\ Lowest \in Int /\ Lowest <= 0 /\ Lowest <= 1 - MaxWait
  /\ MaxWait \in Nat /\ MaxSkew \in Nat /\ MaxDelay \in Nat /\ PruneAge \in Nat
BY BucketAssumption DEF Lowest, AtMost

LEMMA Constants ==
  /\ Balances = Lowest..Burst
  /\ \A x \in Balances : x \in Int /\ Lowest <= x /\ x <= Burst
  /\ Moments = 0..(MaxTime + MaxSkew) /\ Moments \subseteq Nat
  /\ MaxTime \in Nat /\ MaxDefers \in Nat
  /\ NoTime \notin Moments /\ NoRow \notin Rows
<1>1. Balances = Lowest..Burst /\ \A x \in Balances : x \in Int /\ Lowest <= x /\ x <= Burst
  BY Numbers DEF Balances, Lowest
<1>2. Moments = 0..(MaxTime + MaxSkew) /\ Moments \subseteq Nat /\ MaxTime \in Nat
  BY BucketAssumption DEF Moments
<1>3. Rows \subseteq [tokens : Int, updatedAt : Int]
  BY <1>1, <1>2 DEF Rows
<1> QED
  BY <1>1, <1>2, <1>3, BucketAssumption

LEMMA Before ==
  ASSUME NEW t \in Moments, t # 0
  PROVE  t - 1 \in Moments
<1>1. MaxTime + MaxSkew \in Nat /\ t \in 0..(MaxTime + MaxSkew)
  BY Numbers, Constants
<1> QED
  BY <1>1, Constants

\* The types of the state, as numbers.
LEMMA Numbered ==
  ASSUME TypeOK
  PROVE  /\ now \in Nat /\ until \in Nat
         /\ \A t \in Moments : t \in Nat /\ spent[t] \in Nat /\ SpentBefore(t) \in Nat
         /\ \A r \in Replicas : asked[r] # NoTime => asked[r] \in Moments
         /\ row # NoRow => /\ row.tokens \in Balances /\ row.tokens \in Int
                           /\ Lowest <= row.tokens /\ row.tokens <= Burst
                           /\ row.updatedAt \in Moments /\ row.updatedAt \in Nat
<1>1. now \in Nat /\ until \in Nat
  BY Constants DEF TypeOK
<1>2. ASSUME NEW t \in Moments PROVE t \in Nat /\ spent[t] \in Nat /\ SpentBefore(t) \in Nat
  <2>1. t \in Nat /\ spent[t] \in Nat
    BY Constants DEF TypeOK
  <2>2. t # 0 => t - 1 \in Moments
    BY Before
  <2> QED
    BY <2>1, <2>2 DEF TypeOK, SpentBefore
<1>3. \A r \in Replicas : asked[r] # NoTime => asked[r] \in Moments
  BY DEF TypeOK
<1>4. ASSUME row # NoRow
      PROVE  /\ row.tokens \in Balances /\ row.tokens \in Int
             /\ Lowest <= row.tokens /\ row.tokens <= Burst
             /\ row.updatedAt \in Moments /\ row.updatedAt \in Nat
  <2>1. row.tokens \in Balances /\ row.updatedAt \in Moments
    BY <1>4 DEF TypeOK, Rows
  <2> QED
    BY <2>1, Constants
<1> QED
  BY <1>1, <1>2, <1>3, <1>4

LEMMA Typed ==
  ASSUME BucketInv
  PROVE  /\ now \in Nat /\ until \in Nat
         /\ \A t \in Moments : t \in Nat /\ spent[t] \in Nat /\ SpentBefore(t) \in Nat
         /\ \A r \in Replicas : asked[r] # NoTime => asked[r] \in Moments
         /\ row # NoRow => /\ row.tokens \in Balances /\ row.tokens \in Int
                           /\ Lowest <= row.tokens /\ row.tokens <= Burst
                           /\ row.updatedAt \in Moments /\ row.updatedAt \in Nat
BY Numbered DEF BucketInv

-----------------------------------------------------------------------------
(* What needs no assumption on the age of pruning. *)

LEMMA Found ==
  ASSUME TypeOK, NEW t \in Moments
  PROVE  /\ Stamp(t) \in Moments /\ Stamp(t) \in Int
         /\ Available(t) \in Balances /\ Available(t) \in Int
         /\ Lowest <= Available(t) /\ Available(t) <= Burst
<1>1. t \in Nat
  BY Numbered
<1>2. CASE row = NoRow
  <2>1. Stamp(t) = t /\ Available(t) = Burst
    BY <1>2 DEF Stamp, Available
  <2>2. Burst \in Lowest..Burst
    BY Numbers
  <2> QED
    BY <1>1, <2>1, <2>2, Constants
<1>3. CASE row # NoRow
  <2>1. /\ row.tokens \in Int /\ Lowest <= row.tokens
        /\ row.updatedAt \in Moments /\ row.updatedAt \in Nat
    BY <1>3, Numbered
  <2>2. Stamp(t) = IF row.updatedAt < t THEN t ELSE row.updatedAt
    BY <1>3 DEF Stamp, AtLeast
  <2>3. PICK back \in Nat : back = AtLeast(0, t - row.updatedAt)
    BY <1>1, <2>1 DEF AtLeast
  <2>4. Available(t) = AtMost(Burst, row.tokens + back)
    BY <1>3, <2>3 DEF Available
  <2>5. Available(t) \in Lowest..Burst
    BY <2>1, <2>3, <2>4, Numbers DEF AtMost
  <2> QED
    BY <1>1, <2>1, <2>2, <2>5, Numbers, Constants
<1> QED
  BY <1>2, <1>3

LEMMA TypeStep ==
  ASSUME TypeOK, [Next]_vars
  PROVE  TypeOK'
<1>1. CASE Tick
  BY <1>1, Constants DEF Tick, TypeOK
<1>2. ASSUME NEW r \in Replicas, Ask(r)
      PROVE  TypeOK'
  <2>1. now \in Nat /\ now <= MaxTime /\ Skew[r] \in Nat /\ Skew[r] <= MaxSkew
    BY Numbers, Constants, BucketAssumption DEF TypeOK
  <2>2. Clock(r) \in Moments
    BY <2>1, Numbers, Constants DEF Clock
  <2> QED
    BY <1>2, <2>2 DEF Ask, TypeOK
<1>3. ASSUME NEW r \in Replicas, Spend(r)
      PROVE  TypeOK'
  <2>1. asked[r] \in Moments /\ Available(asked[r]) >= 1
    BY <1>3 DEF Spend, MaySpend, TypeOK
  <2>2. Available(asked[r]) - 1 \in Balances /\ Stamp(asked[r]) \in Moments
    <3>1. Available(asked[r]) - 1 \in Lowest..Burst
      BY <2>1, Found, Numbers
    <3> QED
      BY <2>1, <3>1, Found, Constants
  <2>3. row' \in Rows
    BY <1>3, <2>2 DEF Spend, Rows
  <2>4. spent' \in [Moments -> Nat]
    BY <1>3 DEF Spend, TypeOK
  <2>5. asked' \in [Replicas -> Moments \cup {NoTime}]
    BY <1>3 DEF Spend, Answered, TypeOK
  <2> QED
    BY <1>3, <2>3, <2>4, <2>5 DEF Spend, TypeOK
<1>4. ASSUME NEW r \in Replicas, Refuse(r)
      PROVE  TypeOK'
  BY <1>4 DEF Refuse, Answered, TypeOK
<1>5. ASSUME NEW r \in Replicas, NEW w \in Waits, Defer(r, w)
      PROVE  TypeOK'
  <2>1. asked[r] \in Moments /\ asked[r] \in Nat /\ until \in Nat
    BY <1>5, Numbered DEF Defer, TypeOK
  <2>2. w \in Nat /\ w <= MaxWait
    BY BucketAssumption
  <2>3. Deferred(asked[r], w) \in Balances /\ Stamp(asked[r]) \in Moments
    <3>1. Deferred(asked[r], w) \in Lowest..Burst
      BY <2>1, <2>2, Found, Numbers DEF Deferred, AtMost
    <3> QED
      BY <2>1, <3>1, Found, Constants
  <2>4. row' \in Rows
    BY <1>5, <2>3 DEF Defer, Rows
  <2>5. until' \in Nat /\ defers' \in 0..MaxDefers
    BY <1>5, <2>1, <2>2, Constants DEF Defer, AtLeast, TypeOK
  <2>6. asked' \in [Replicas -> Moments \cup {NoTime}]
    BY <1>5 DEF Defer, Answered, TypeOK
  <2> QED
    BY <1>5, <2>4, <2>5, <2>6 DEF Defer, TypeOK
<1>6. ASSUME NEW r \in Replicas, Prune(r)
      PROVE  TypeOK'
  BY <1>6 DEF Prune, TypeOK
<1>7. CASE UNCHANGED vars
  BY <1>7 DEF vars, TypeOK
<1> QED
  BY <1>1, <1>2, <1>3, <1>4, <1>5, <1>6, <1>7 DEF Next

\* Only pruning takes a row away, and only one that has not been written for its age.
LEMMA DropStep ==
  ASSUME TypeOK, [Next]_vars, row # NoRow, row' = NoRow
  PROVE  \A q \in Replicas : Available(Clock(q)) >= LeftWhenDropped
<1>1. row' \notin [tokens : Int, updatedAt : Int]
  BY BucketAssumption
<1>2. ASSUME NEW r \in Replicas, Spend(r)
      PROVE  FALSE
  <2>1. asked[r] \in Moments
    BY <1>2 DEF Spend, TypeOK
  <2>2. Available(asked[r]) - 1 \in Int /\ Stamp(asked[r]) \in Int
    BY <2>1, Found
  <2> QED
    BY <1>1, <1>2, <2>2 DEF Spend
<1>3. ASSUME NEW r \in Replicas, NEW w \in Waits, Defer(r, w)
      PROVE  FALSE
  <2>1. asked[r] \in Moments /\ w \in Int
    BY <1>3, BucketAssumption DEF Defer, TypeOK
  <2>2. Deferred(asked[r], w) \in Int /\ Stamp(asked[r]) \in Int
    BY <2>1, Found DEF Deferred, AtMost
  <2> QED
    BY <1>1, <1>3, <2>2 DEF Defer
<1>4. PICK r \in Replicas : Prune(r)
  BY <1>2, <1>3 DEF Next, Tick, Ask, Refuse, vars
<1>5. /\ row.updatedAt \in Nat /\ row.tokens \in Int /\ Lowest <= row.tokens
      /\ now \in Nat /\ row.updatedAt < Clock(r) - PruneAge
  BY <1>4, Numbered DEF Prune
<1>6. ASSUME NEW q \in Replicas
      PROVE  Available(Clock(q)) >= LeftWhenDropped
  <2>1. /\ Skew[q] \in Nat /\ Skew[r] \in Nat /\ Skew[r] <= MaxSkew
    BY Numbers, BucketAssumption
  <2>2. PICK c \in Nat : c = Clock(q) /\ c + MaxSkew >= row.updatedAt + PruneAge + 1
    BY <1>5, <2>1, Numbers DEF Clock
  <2>3. PICK back \in Nat : back = AtLeast(0, c - row.updatedAt) /\ back >= PruneAge + 1 - MaxSkew
    BY <1>5, <2>2, Numbers DEF AtLeast
  <2>4. Available(c) = AtMost(Burst, row.tokens + back)
    BY <2>3 DEF Available
  <2>5. AtMost(Burst, row.tokens + back) >= AtMost(Burst, Lowest + PruneAge + 1 - MaxSkew)
    BY <1>5, <2>3, Numbers DEF AtMost
  <2> QED
    BY <2>2, <2>4, <2>5 DEF LeftWhenDropped
<1> QED
  BY <1>6

-----------------------------------------------------------------------------
(* What the bucket promises while pruning waits for it to fill up. *)

\* What a statement finds on the row it reaches: how much the bucket holds, and
\* the stamp the row would take.
LEMMA Reading ==
  ASSUME BucketInv, NEW r \in Replicas, asked[r] # NoTime
  PROVE  /\ asked[r] \in Moments
         /\ Stamp(asked[r]) \in Moments
         /\ asked[r] <= Stamp(asked[r])
         /\ Stamp(asked[r]) <= now + MaxSkew
         /\ now <= Stamp(asked[r]) + MaxDelay
         /\ Available(asked[r]) \in Balances
         /\ row # NoRow => /\ row.updatedAt <= Stamp(asked[r])
                           /\ Available(asked[r]) <= row.tokens + (Stamp(asked[r]) - row.updatedAt)
         /\ row = NoRow => Stamp(asked[r]) = asked[r] /\ Available(asked[r]) = Burst
<1>1. /\ asked[r] \in Moments /\ asked[r] \in Nat /\ now \in Nat
      /\ now <= asked[r] + MaxDelay /\ asked[r] <= now + MaxSkew
  BY Typed DEF BucketInv, Recent
<1>2. CASE row = NoRow
  <2>1. Stamp(asked[r]) = asked[r] /\ Available(asked[r]) = Burst
    BY <1>2 DEF Stamp, Available
  <2>2. Burst \in Balances
    BY Numbers, Constants
  <2> QED
    BY <1>1, <1>2, <2>1, <2>2
<1>3. CASE row # NoRow
  <2>1. /\ row.tokens \in Int /\ Lowest <= row.tokens
        /\ row.updatedAt \in Moments /\ row.updatedAt \in Nat
        /\ row.updatedAt <= now + MaxSkew
    BY <1>3, Typed DEF BucketInv, Recent
  <2> DEFINE t == asked[r]
             s == Stamp(asked[r])
             v == Available(asked[r])
  <2>2. s = IF row.updatedAt < t THEN t ELSE row.updatedAt
    BY <1>3 DEF Stamp, AtLeast
  <2>3. v = AtMost(Burst, row.tokens + AtLeast(0, t - row.updatedAt))
    BY <1>3 DEF Available
  <2>4. s \in Nat /\ row.updatedAt \in Nat /\ row.tokens \in Int /\ t \in Nat
    BY <1>1, <2>1, <2>2
  <2>5. AtLeast(0, t - row.updatedAt) = s - row.updatedAt
    BY <2>2, <2>4 DEF AtLeast
  <2>6. s \in Moments /\ t <= s /\ row.updatedAt <= s /\ s <= now + MaxSkew
    BY <1>1, <2>1, <2>2, <2>4
  <2>7. v \in Lowest..Burst /\ v <= row.tokens + (s - row.updatedAt)
    BY <2>1, <2>3, <2>4, <2>5, <2>6, Numbers DEF AtMost
  <2>8. now <= s + MaxDelay
    BY <1>1, <2>4, <2>6, Numbers
  <2> QED
    BY <1>1, <1>3, <2>6, <2>7, <2>8, Constants
<1> QED
  BY <1>2, <1>3

\* What every stretch has let through before a statement is answered, up to the
\* stamp the row would take.
LEMMA UpToStamp ==
  ASSUME BucketInv, NEW r \in Replicas, asked[r] # NoTime, NEW a \in Moments, a <= Stamp(asked[r])
  PROVE  Available(asked[r]) + spent[Stamp(asked[r])] - SpentBefore(a) <= Burst + (Stamp(asked[r]) - a)
<1> DEFINE s == Stamp(asked[r])
           v == Available(asked[r])
<1>1. /\ s \in Moments /\ v \in Int /\ v <= Burst /\ now <= s + MaxDelay
      /\ row # NoRow => row.updatedAt <= s /\ v <= row.tokens + (s - row.updatedAt)
      /\ row = NoRow => v = Burst
  BY Reading, Constants
<1>2. a \in Nat /\ s \in Nat /\ spent[s] \in Nat /\ SpentBefore(a) \in Nat
  BY <1>1, Typed
<1> HIDE DEF s, v
<1>3. CASE row = NoRow
  <2>1. spent[s] - SpentBefore(a) <= s - a
    BY <1>1, <1>3 DEF BucketInv, AbsentPaced, s
  <2> QED
    BY <1>1, <1>2, <1>3, <2>1, Constants DEF s, v
<1>4. CASE row # NoRow
  <2> DEFINE u == row.updatedAt
  <2>1. u \in Moments /\ u \in Nat /\ row.tokens \in Int /\ spent[u] \in Nat
    BY <1>4, Typed
  <2>2. spent[s] = spent[u]
    BY <1>1, <1>4 DEF BucketInv, Quiet
  <2>3. CASE a <= u
    <3>1. row.tokens + spent[u] - SpentBefore(a) <= Burst + (u - a)
      BY <1>4, <2>3 DEF BucketInv, RowPaced
    <3> QED
      BY <1>1, <1>2, <1>4, <2>1, <2>2, <3>1, Numbers DEF s, v
  <2>4. CASE a > u
    <3>1. a # 0 /\ a - 1 \in Moments /\ a - 1 >= u
      BY <1>2, <2>1, <2>4, Before
    <3>2. SpentBefore(a) = spent[u]
      BY <1>4, <3>1 DEF SpentBefore, BucketInv, Quiet
    <3> QED
      BY <1>1, <1>2, <2>1, <2>2, <3>2, Numbers DEF s, v
  <2> QED
    BY <1>2, <2>1, <2>3, <2>4
<1> QED
  BY <1>3, <1>4

\* Until the Retry-After has passed, the balance a statement finds falls short of
\* a token by what is left of it.
LEMMA ShortWhileHeld ==
  ASSUME BucketInv, NEW r \in Replicas, asked[r] # NoTime, until > Stamp(asked[r])
  PROVE  row # NoRow /\ Available(asked[r]) + (until - Stamp(asked[r])) <= 1
<1>1. /\ asked[r] \in Moments /\ Stamp(asked[r]) \in Nat /\ Available(asked[r]) \in Int
      /\ now <= asked[r] + MaxDelay /\ until \in Nat /\ now \in Nat
  <2>1. Available(asked[r]) \in Int /\ Stamp(asked[r]) \in Moments
    BY Reading, Constants
  <2> QED
    BY <2>1, Typed, Constants DEF BucketInv, Recent
<1>2. row # NoRow
  BY <1>1, Reading, Constants DEF BucketInv, Held
<1>3. /\ row.updatedAt \in Nat /\ row.tokens \in Int
      /\ row.updatedAt <= Stamp(asked[r])
      /\ Available(asked[r]) <= row.tokens + (Stamp(asked[r]) - row.updatedAt)
  BY <1>2, Reading, Typed
<1>4. row.tokens + (until - row.updatedAt) <= 1
  BY <1>1, <1>2, <1>3 DEF BucketInv, Held
<1> QED
  BY <1>1, <1>2, <1>3, <1>4

-----------------------------------------------------------------------------
\* A row written at the stamp of a statement, with no more than was found there,
\* keeps the bucket's accounts, whether or not a request goes through with it.
LEMMA Written ==
  ASSUME BucketInv, NEW r \in Replicas, asked[r] # NoTime, NEW v \in Balances,
         row' = [tokens |-> v, updatedAt |-> Stamp(asked[r])],
         asked' = [asked EXCEPT ![r] = NoTime], now' = now,
         \/ spent' = spent /\ v <= Available(asked[r])
         \/ /\ spent' = [x \in Moments |-> IF x >= Stamp(asked[r]) THEN spent[x] + 1 ELSE spent[x]]
            /\ v = Available(asked[r]) - 1 /\ v >= 0
  PROVE  /\ row' \in Rows /\ row' # NoRow /\ spent' \in [Moments -> Nat]
         /\ Recent' /\ RowPaced' /\ Quiet' /\ AbsentPaced' /\ Paced'
<1> DEFINE s == Stamp(asked[r])
<1>1. s \in Moments /\ s \in Nat /\ s <= now + MaxSkew
  BY Reading, Typed
<1>2. row' \in Rows /\ row' # NoRow /\ row'.tokens = v /\ row'.updatedAt = s
  <2>1. row' \in Rows /\ row'.tokens = v /\ row'.updatedAt = s
    BY <1>1 DEF Rows
  <2> QED
    BY <2>1, Constants
<1>3. spent' \in [Moments -> Nat]
  BY Typed DEF BucketInv, TypeOK
<1>4. \A x, y \in Moments : x >= s /\ y >= s => spent[x] = spent[y]
  <2>1. CASE row = NoRow
    <3>1. now <= s + MaxDelay
      BY Reading
    <3>2. \A x \in Moments : x >= s => x + MaxDelay >= now
      BY <1>1, <3>1, Typed, Numbers
    <3> QED
      BY <2>1, <3>2 DEF BucketInv, Quiet
  <2>2. CASE row # NoRow
    <3>1. row.updatedAt \in Nat /\ row.updatedAt <= s
      BY <2>2, Reading, Typed
    <3>2. \A x \in Moments : x >= s => spent[x] = spent[row.updatedAt]
      BY <1>1, <2>2, <3>1, Typed DEF BucketInv, Quiet
    <3> QED
      BY <3>2
  <2> QED
    BY <2>1, <2>2
<1>5. Quiet'
  <2>1. \A x \in Moments : x >= s => spent'[x] = spent'[s]
    BY <1>1, <1>4, Typed
  <2> QED
    BY <1>2, <2>1 DEF Quiet
<1>6. ASSUME NEW a \in Moments, a <= s
      PROVE  v + spent'[s] - SpentBefore(a)' <= Burst + (s - a)
  <2>1. Available(asked[r]) + spent[s] - SpentBefore(a) <= Burst + (s - a)
    BY <1>6, UpToStamp
  <2>2. SpentBefore(a)' = SpentBefore(a)
    <3>1. a # 0 => a - 1 \in Moments /\ ~(a - 1 >= s)
      BY <1>1, <1>6, Before, Typed
    <3> QED
      BY <3>1 DEF SpentBefore
  <2>3. /\ v \in Int /\ Available(asked[r]) \in Int /\ spent[s] \in Nat
        /\ SpentBefore(a) \in Nat /\ a \in Nat
    BY <1>1, Reading, Typed, Constants
  <2>4. \/ spent'[s] = spent[s] /\ v <= Available(asked[r])
        \/ spent'[s] = spent[s] + 1 /\ v = Available(asked[r]) - 1
    BY <1>1
  <2> QED
    BY <1>1, <2>1, <2>2, <2>3, <2>4, Numbers
<1>7. RowPaced'
  BY <1>2, <1>6 DEF RowPaced
<1>8. AbsentPaced'
  BY <1>2 DEF AbsentPaced
<1>9. Recent'
  BY <1>1, <1>2 DEF BucketInv, Recent, TypeOK
<1>10. Paced'
  <2> SUFFICES ASSUME NEW a \in Moments, NEW b \in Moments, a <= b
               PROVE  (spent[b] - SpentBefore(a))' <= Burst + (b - a)
    BY DEF Paced
  <2>1. /\ a \in Nat /\ b \in Nat /\ spent[b] \in Nat /\ SpentBefore(a) \in Nat
        /\ spent[b] - SpentBefore(a) <= Burst + (b - a)
    BY Typed DEF BucketInv, Paced
  <2>2. CASE spent' = spent
    BY <2>1, <2>2 DEF SpentBefore
  <2>3. CASE spent' = [x \in Moments |-> IF x >= s THEN spent[x] + 1 ELSE spent[x]]
             /\ v >= 0
    <3>1. CASE b < s
      <4>1. spent'[b] = spent[b]
        BY <1>1, <2>1, <2>3, <3>1
      <4>2. a # 0 => a - 1 \in Moments /\ ~(a - 1 >= s)
        BY <1>1, <2>1, <3>1, Before
      <4>3. SpentBefore(a)' = SpentBefore(a)
        BY <2>3, <4>2 DEF SpentBefore
      <4> QED
        BY <2>1, <4>1, <4>3
    <3>2. CASE b >= s /\ a <= s
      <4>1. spent'[b] = spent'[s]
        BY <1>1, <1>4, <2>3, <3>2
      <4>2. v + spent'[s] - SpentBefore(a)' <= Burst + (s - a)
        BY <1>6, <3>2
      <4>3. SpentBefore(a)' \in Nat /\ spent'[s] \in Nat
        <5>1. a # 0 => a - 1 \in Moments
          BY Before
        <5> QED
          BY <1>1, <1>3, <5>1 DEF SpentBefore
      <4>4. v \in Int /\ v >= 0
        BY <2>3, Constants
      <4> QED
        BY <1>1, <2>1, <3>2, <4>1, <4>2, <4>3, <4>4, Numbers
    <3>3. CASE b >= s /\ a > s
      <4>1. spent'[b] = spent[b] + 1
        BY <2>3, <3>3
      <4>2. a # 0 /\ a - 1 \in Moments /\ a - 1 >= s
        BY <1>1, <2>1, <3>3, Before
      <4>3. SpentBefore(a)' = SpentBefore(a) + 1
        BY <2>3, <4>2 DEF SpentBefore
      <4> QED
        BY <2>1, <4>1, <4>3
    <3> QED
      BY <1>1, <2>1, <3>1, <3>2, <3>3
  <2> QED
    BY <2>2, <2>3
<1> QED
  BY <1>2, <1>3, <1>5, <1>7, <1>8, <1>9, <1>10

-----------------------------------------------------------------------------
LEMMA SpendStep ==
  ASSUME BucketInv, NEW r \in Replicas, Spend(r)
  PROVE  BucketInv' /\ now + MaxSkew >= until
<1> DEFINE s == Stamp(asked[r])
           v == Available(asked[r]) - 1
<1>1. /\ asked[r] # NoTime /\ Available(asked[r]) >= 1
      /\ row' = [tokens |-> v, updatedAt |-> s]
      /\ spent' = [x \in Moments |-> IF x >= s THEN spent[x] + 1 ELSE spent[x]]
      /\ asked' = [asked EXCEPT ![r] = NoTime]
      /\ now' = now /\ until' = until /\ defers' = defers
  BY DEF Spend, MaySpend, Answered
<1>2. /\ v \in Balances /\ v >= 0
      /\ s \in Nat /\ now \in Nat /\ until \in Nat /\ s <= now + MaxSkew
      /\ Available(asked[r]) \in Int
  <2>1. /\ Available(asked[r]) \in Int /\ Available(asked[r]) <= Burst
        /\ s \in Moments /\ s <= now + MaxSkew
    BY <1>1, Reading, Constants
  <2>2. v \in Lowest..Burst /\ v >= 0
    BY <1>1, <2>1, Numbers
  <2> QED
    BY <2>1, <2>2, Typed, Constants
<1>3. /\ row' \in Rows /\ row' # NoRow /\ spent' \in [Moments -> Nat]
      /\ Recent' /\ RowPaced' /\ Quiet' /\ AbsentPaced' /\ Paced'
  BY <1>1, <1>2, Written
<1>4. until <= s
  <2>1. CASE until > s
    BY <1>1, <1>2, <2>1, ShortWhileHeld
  <2> QED
    BY <1>2, <2>1
<1>5. Held'
  BY <1>1, <1>2, <1>3, <1>4 DEF Held
<1>6. TypeOK'
  BY <1>1, <1>3 DEF BucketInv, TypeOK
<1> QED
  BY <1>2, <1>3, <1>4, <1>5, <1>6, Numbers DEF BucketInv

LEMMA DeferStep ==
  ASSUME BucketInv, NEW r \in Replicas, NEW w \in Waits, Defer(r, w)
  PROVE  BucketInv'
<1> DEFINE s == Stamp(asked[r])
           v == Deferred(asked[r], w)
<1>1. /\ asked[r] # NoTime /\ defers < MaxDefers
      /\ row' = [tokens |-> v, updatedAt |-> s]
      /\ until' = AtLeast(until, asked[r] + w) /\ defers' = defers + 1
      /\ asked' = [asked EXCEPT ![r] = NoTime]
      /\ now' = now /\ spent' = spent
  BY DEF Defer, Answered
<1>2. w \in Nat /\ w <= MaxWait
  BY BucketAssumption
<1>3. /\ asked[r] \in Nat /\ s \in Nat /\ asked[r] <= s /\ until \in Nat
      /\ Available(asked[r]) \in Int /\ Lowest <= Available(asked[r])
      /\ Available(asked[r]) <= Burst
  BY <1>1, Reading, Typed, Constants
<1>4. /\ v \in Balances /\ v \in Int /\ v <= Available(asked[r]) /\ v <= 1 - w
  <2>1. v \in Lowest..Burst /\ v <= Available(asked[r]) /\ v <= 1 - w
    BY <1>2, <1>3, Numbers DEF Deferred, AtMost
  <2> QED
    BY <2>1, Constants
<1>5. /\ row' \in Rows /\ row' # NoRow /\ spent' \in [Moments -> Nat]
      /\ Recent' /\ RowPaced' /\ Quiet' /\ AbsentPaced' /\ Paced'
  <2> HIDE DEF v
  <2>1. row' = [tokens |-> v, updatedAt |-> Stamp(asked[r])]
    BY <1>1
  <2> QED
    BY <1>1, <1>4, <2>1, Written
<1>6. row'.tokens = v /\ row'.updatedAt = s
  BY <1>1
<1>7. Held'
  <2> SUFFICES ASSUME until' > s PROVE v + (until' - s) <= 1
    BY <1>5, <1>6 DEF Held
  <2>1. CASE until < asked[r] + w
    <3>1. until' = asked[r] + w
      BY <1>1, <2>1 DEF AtLeast
    <3> HIDE DEF s, v
    <3> QED
      BY <1>2, <1>3, <1>4, <3>1
  <2>2. CASE ~(until < asked[r] + w)
    <3>1. until' = until
      BY <1>1, <2>2 DEF AtLeast
    <3>2. Available(asked[r]) + (until - s) <= 1
      BY <1>1, <3>1, ShortWhileHeld
    <3> HIDE DEF s, v
    <3> QED
      BY <1>3, <1>4, <3>1, <3>2
  <2> QED
    BY <2>1, <2>2
<1>8. TypeOK'
  <2>1. until' \in Nat /\ defers' \in 0..MaxDefers
    BY <1>1, <1>2, <1>3, Constants DEF AtLeast, BucketInv, TypeOK
  <2> QED
    BY <1>1, <1>5, <2>1 DEF BucketInv, TypeOK
<1> QED
  BY <1>5, <1>7, <1>8 DEF BucketInv

\* A row that is dropped has let through nothing, and holds nobody back, that an absent one
\* would not have.
LEMMA PruneStep ==
  ASSUME PruneSafe, BucketInv, NEW r \in Replicas, Prune(r)
  PROVE  BucketInv'
<1> DEFINE u == row.updatedAt
<1>1. /\ row # NoRow /\ row' = NoRow /\ u < Clock(r) - PruneAge
      /\ now' = now /\ asked' = asked /\ spent' = spent /\ until' = until /\ defers' = defers
  BY DEF Prune
<1>2. /\ u \in Moments /\ u \in Nat /\ now \in Nat /\ until \in Nat
      /\ row.tokens \in Int /\ Lowest <= row.tokens
  BY <1>1, Typed
<1>3. \A q \in Replicas : Skew[q] \in Nat /\ Skew[q] <= MaxSkew
  BY Numbers, BucketAssumption
<1>4. u + Burst - Lowest + MaxDelay <= now
  BY <1>1, <1>2, <1>3, Numbers DEF Clock, PruneSafe
<1>5. ASSUME NEW t \in Moments, t + MaxDelay >= now
      PROVE  t \in Nat /\ u + Burst - Lowest <= t /\ spent[t] = spent[u]
  <2>1. t \in Nat /\ u + Burst - Lowest <= t
    BY <1>2, <1>4, <1>5, Typed, Numbers
  <2>2. u <= t
    BY <1>2, <2>1, Numbers
  <2> QED
    BY <1>1, <2>1, <2>2 DEF BucketInv, Quiet
<1>6. AbsentPaced'
  <2> SUFFICES ASSUME NEW a \in Moments, NEW t \in Moments, t + MaxDelay >= now, a <= t
               PROVE  spent[t] - SpentBefore(a) <= t - a
    BY <1>1 DEF AbsentPaced, SpentBefore
  <2>1. /\ a \in Nat /\ spent[u] \in Nat /\ SpentBefore(a) \in Nat
    BY <1>2, Typed
  <2>2. CASE a <= u
    <3>1. row.tokens + spent[u] - SpentBefore(a) <= Burst + (u - a)
      BY <1>1, <2>2 DEF BucketInv, RowPaced
    <3> QED
      BY <1>2, <1>5, <2>1, <3>1, Numbers
  <2>3. CASE a > u
    <3>1. a # 0 /\ a - 1 \in Moments /\ a - 1 >= u
      BY <1>2, <2>1, <2>3, Before
    <3>2. SpentBefore(a) = spent[u]
      BY <1>1, <3>1 DEF SpentBefore, BucketInv, Quiet
    <3> QED
      BY <1>5, <2>1, <3>2
  <2> QED
    BY <1>2, <2>1, <2>2, <2>3
<1>7. Quiet'
  BY <1>1, <1>5 DEF Quiet
<1>8. Held'
  <2> SUFFICES ASSUME NEW t \in Moments, t + MaxDelay >= now PROVE until <= t
    BY <1>1 DEF Held
  <2>1. until <= u \/ row.tokens + (until - u) <= 1
    BY <1>1, <1>2 DEF BucketInv, Held
  <2> QED
    BY <1>2, <1>5, <2>1, Numbers
<1>9. TypeOK' /\ Recent' /\ RowPaced' /\ Paced'
  BY <1>1 DEF BucketInv, TypeOK, Recent, RowPaced, Paced, SpentBefore
<1> QED
  BY <1>6, <1>7, <1>8, <1>9 DEF BucketInv

LEMMA OtherSteps ==
  ASSUME BucketInv,
         \/ Tick \/ UNCHANGED vars
         \/ \E r \in Replicas : Ask(r) \/ Refuse(r)
  PROVE  BucketInv'
<1>1. CASE Tick
  <2>1. now \in Nat /\ now < MaxTime /\ now' = now + 1 /\ UNCHANGED <<row, asked, spent, until, defers>>
    BY <1>1, Typed DEF Tick
  <2>2. Recent'
    <3>1. ASSUME NEW r \in Replicas, asked[r] # NoTime
          PROVE  now + 1 <= asked[r] + MaxDelay /\ asked[r] <= now + 1 + MaxSkew
      <4>1. /\ asked[r] \in Nat /\ asked[r] <= now + MaxSkew
            /\ now + Skew[r] < asked[r] + MaxDelay /\ Skew[r] \in Nat
        BY <1>1, <3>1, Typed, Numbers, BucketAssumption DEF Tick, Clock, BucketInv, Recent
      <4> QED
        BY <2>1, <4>1, Numbers
    <3>2. row # NoRow => row.updatedAt <= now + 1 + MaxSkew
      BY <2>1, Typed, Numbers DEF BucketInv, Recent
    <3> QED
      BY <2>1, <3>1, <3>2 DEF Recent
  <2>3. \A t \in Moments : t + MaxDelay >= now + 1 => t + MaxDelay >= now
    BY <2>1, Typed, Numbers
  <2>4. Quiet' /\ AbsentPaced' /\ Held'
    BY <2>1, <2>3 DEF BucketInv, Quiet, AbsentPaced, Held, SpentBefore
  <2>5. TypeOK'
    BY <2>1, Constants DEF BucketInv, TypeOK
  <2> QED
    BY <2>1, <2>2, <2>4, <2>5 DEF BucketInv, RowPaced, Paced, SpentBefore
<1>2. CASE UNCHANGED vars
  BY <1>2 DEF vars, BucketInv, TypeOK, Recent, RowPaced, Quiet, AbsentPaced, Held, Paced, SpentBefore
<1>3. ASSUME NEW r \in Replicas, Ask(r) \/ Refuse(r)
      PROVE  BucketInv'
  <2>1. UNCHANGED <<now, row, spent, until, defers>>
    BY <1>3 DEF Ask, Refuse
  <2>2. \/ asked' = [asked EXCEPT ![r] = NoTime]
        \/ asked' = [asked EXCEPT ![r] = Clock(r)]
    BY <1>3 DEF Ask, Refuse, Answered
  <2>3. Clock(r) \in Moments /\ now <= Clock(r) + MaxDelay /\ Clock(r) <= now + MaxSkew
    <3>1. now \in Nat /\ now <= MaxTime /\ Skew[r] \in Nat /\ Skew[r] <= MaxSkew
      BY Typed, Numbers, Constants, BucketAssumption DEF BucketInv, TypeOK
    <3> QED
      BY <3>1, Numbers, Constants DEF Clock
  <2>4. TypeOK'
    BY <2>1, <2>2, <2>3 DEF BucketInv, TypeOK
  <2>5. Recent'
    BY <2>1, <2>2, <2>3 DEF BucketInv, TypeOK, Recent
  <2> QED
    BY <2>1, <2>4, <2>5 DEF BucketInv, RowPaced, Quiet, AbsentPaced, Held, Paced, SpentBefore
<1> QED
  BY <1>1, <1>2, <1>3

LEMMA InitInv == Init => BucketInv
<1> SUFFICES ASSUME Init PROVE BucketInv
  OBVIOUS
<1>1. TypeOK
  BY Constants DEF Init, TypeOK
<1>2. Recent /\ RowPaced /\ Quiet
  BY DEF Init, Recent, RowPaced, Quiet
<1>3. ASSUME NEW a \in Moments, NEW b \in Moments, a <= b
      PROVE  /\ spent[b] - SpentBefore(a) <= Burst + (b - a)
             /\ spent[b] - SpentBefore(a) <= b - a
  <2>1. a # 0 => a - 1 \in Moments
    BY Before
  <2>2. spent[b] = 0 /\ SpentBefore(a) = 0
    BY <2>1 DEF Init, SpentBefore
  <2> QED
    BY <1>3, <2>2, Numbers, Constants
<1>4. AbsentPaced /\ Paced
  BY <1>3 DEF AbsentPaced, Paced
<1>5. Held
  BY Constants DEF Init, Held
<1> QED
  BY <1>1, <1>2, <1>4, <1>5 DEF BucketInv

\* One step keeps the accounts, and lets nothing through that is held back.
LEMMA BucketStep ==
  ASSUME PruneSafe, BucketInv, [Next]_vars
  PROVE  BucketInv' /\ \A r \in Replicas : Spend(r) => now + MaxSkew >= until
<1>1. \A r \in Replicas : Spend(r) => BucketInv' /\ now + MaxSkew >= until
  BY SpendStep
<1>2. \A r \in Replicas : \A w \in Waits : Defer(r, w) => BucketInv'
  BY DeferStep
<1>3. \A r \in Replicas : Prune(r) => BucketInv'
  BY PruneStep
<1> QED
  BY <1>1, <1>2, <1>3, OtherSteps DEF Next

-----------------------------------------------------------------------------
\* The state is always of its type, whatever the age of pruning: in particular the
\* balance is never below what the longest Retry-After leaves.
THEOREM Typing == Spec => []TypeOK
<1>1. Init => TypeOK
  BY InitInv DEF BucketInv
<1> QED
  BY <1>1, TypeStep, PTL DEF Spec

\* Whatever the age of pruning, the longest Retry-After and the clocks: a bucket whose row
\* pruneRateLimits drops has in it, for every replica, what has come back to it since it
\* was at its lowest.  Pruning gives away no more than the rest of a burst, and nothing
\* where its age is long enough.
THEOREM DropsAtMost ==
  Spec => [][row # NoRow /\ row' = NoRow => \A r \in Replicas : Available(Clock(r)) >= LeftWhenDropped]_vars
<1>1. Init => TypeOK
  BY InitInv DEF BucketInv
<1>2. TypeOK /\ [Next]_vars =>
        [row # NoRow /\ row' = NoRow => \A r \in Replicas : Available(Clock(r)) >= LeftWhenDropped]_vars
  BY DropStep
<1> QED
  BY <1>1, <1>2, TypeStep, PTL DEF Spec

\* No stretch of time lets through more than spendToken's burst and rate allow,
\* however many replicas share the row and however far apart their clocks are.
THEOREM NeverFaster == PruneSafe => (Spec => []Paced)
<1> SUFFICES ASSUME PruneSafe PROVE Spec => []Paced
  OBVIOUS
<1>1. BucketInv /\ [Next]_vars => BucketInv'
  BY BucketStep
<1>2. BucketInv => Paced
  BY DEF BucketInv
<1> QED
  BY InitInv, <1>1, <1>2, PTL DEF Spec

\* A Retry-After told through deferToken holds every replica back.
THEOREM HoldsBack == PruneSafe => (Spec => HeldBack)
<1> SUFFICES ASSUME PruneSafe PROVE Spec => HeldBack
  OBVIOUS
<1>1. BucketInv /\ [Next]_vars => BucketInv'
  BY BucketStep
<1>2. BucketInv /\ [Next]_vars => [\A r \in Replicas : Spend(r) => now + MaxSkew >= until]_vars
  BY BucketStep
<1> QED
  BY InitInv, <1>1, <1>2, PTL DEF Spec, HeldBack

=============================================================================
