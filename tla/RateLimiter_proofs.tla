-------------------------- MODULE RateLimiter_proofs --------------------------
(***************************************************************************)
(* Proofs about RateLimiter, for any rate, burst, table size and clients,  *)
(* whatever is evicted and in whatever order requests take the mutex: the  *)
(* buckets stay within their capacity, Retry-After is enough, and no       *)
(* window of time sees more requests than the burst, the rate and the      *)
(* seconds by which requests were overtaken allow.                         *)
(***************************************************************************)
EXTENDS RateLimiter, TLAPS

\* More seconds never refill less.
LEMMA RefillGrows ==
  ASSUME NEW m \in Int, NEW n \in Int, m <= n
  PROVE  m * Refill <= n * Refill
<1>1. Refill \in Int /\ Refill >= 0
  BY LimiterAssumption
<1>2. \A r \in Int : r >= 0 => m * r <= n * r
  OBVIOUS
<1> QED
  BY <1>1, <1>2

\* The wait covers the deficit.
LEMMA WaitCovers ==
  ASSUME NEW tokens \in Int
  PROVE  /\ retry_after(tokens) \in Int /\ retry_after(tokens) >= 1
         /\ retry_after(tokens) * Refill >= Unit - tokens
<1> DEFINE d == Unit - tokens
           q == (d + Refill - 1) \div Refill
<1>1. Refill \in Nat /\ Refill > 0 /\ Unit \in Int /\ d \in Int
  BY LimiterAssumption
<1>2. q \in Int /\ q * Refill >= d
  <2>1. \A n \in Int, r \in Nat \ {0} :
           n \div r \in Int /\ (n \div r) * r > n - r
    OBVIOUS
  <2>2. q \in Int /\ q * Refill > (d + Refill - 1) - Refill
    BY <1>1, <2>1
  <2>3. q * Refill \in Int
    BY <1>1, <2>2
  <2> HIDE DEF q, d
  <2> QED
    BY <1>1, <2>2, <2>3
<1>3. retry_after(tokens) = Larger(q, 1)
  BY <1>1 DEF retry_after
<1> HIDE DEF q
<1>4. Larger(q, 1) \in Int /\ Larger(q, 1) >= 1 /\ Larger(q, 1) >= q
  BY <1>2 DEF Larger
<1>5. Larger(q, 1) * Refill >= q * Refill
  BY <1>2, <1>4, RefillGrows
<1>6. Larger(q, 1) * Refill \in Int /\ q * Refill \in Int
  BY <1>1, <1>2, <1>4
<1> QED
  BY <1>1, <1>2, <1>3, <1>4, <1>5, <1>6

\* A full bucket pays for a request.
LEMMA CapacityPays == Capacity \in Nat /\ Capacity >= Unit
<1>1. \A b, u \in Nat \ {0} : b * u \in Nat /\ b * u >= u
  OBVIOUS
<1> QED
  BY <1>1, LimiterAssumption DEF Capacity

\* A bucket gains what its age refills, up to its capacity.
LEMMA Refilled ==
  ASSUME NEW b \in Bucket, NEW at \in Time
  PROVE  /\ elapsed(b, at) \in Nat /\ elapsed(b, at) >= at - b.last_seen
         /\ b.tokens + elapsed(b, at) * Refill \in Nat
         /\ refilled(b, at) \in 0..Capacity
         /\ refilled(b, at) < Unit => b.tokens + elapsed(b, at) * Refill < Unit
<1>1. b.tokens \in 0..Capacity /\ b.last_seen \in Nat /\ at \in Nat
  BY LimiterAssumption DEF Bucket, Time
<1>2. elapsed(b, at) \in Nat /\ elapsed(b, at) >= at - b.last_seen
  BY <1>1 DEF elapsed, Larger
<1>3. elapsed(b, at) * Refill \in Nat
  <2>1. \A m, n \in Nat : m * n \in Nat
    OBVIOUS
  <2> QED
    BY <1>2, <2>1, LimiterAssumption
<1> DEFINE gained == elapsed(b, at) * Refill
<1>4. refilled(b, at) = Smaller(b.tokens + gained, Capacity)
  BY DEF refilled
<1> HIDE DEF gained
<1>5. gained \in Nat
  BY <1>3 DEF gained
<1>6. /\ Smaller(b.tokens + gained, Capacity) \in 0..Capacity
      /\ Smaller(b.tokens + gained, Capacity) < Unit => b.tokens + gained < Unit
  BY <1>1, <1>5, CapacityPays, LimiterAssumption DEF Smaller
<1> QED
  BY <1>1, <1>2, <1>3, <1>4, <1>5, <1>6 DEF gained
-----------------------------------------------------------------------------
(* The inductive invariant. *)

\* A request that waits has a client and read the clock.
WaitInv ==
    \A r \in Request : waiting[r] = NotWaiting \/ waiting[r] \in [key : Key, at : Time]

\* What a refused client was promised is still in its bucket, unless the bucket
\* was forgotten: by the promised second it holds a token again.
PromiseInv ==
    \A k \in DOMAIN buckets :
       promised[k] > 0 =>
          /\ buckets[k].last_seen < promised[k]
          /\ buckets[k].tokens + (promised[k] - buckets[k].last_seen) * Refill >= Unit

IInv == TypeOK /\ WaitInv /\ PromiseInv

\* An eviction keeps the buckets it does not forget.
LEMMA RoomKeeps ==
  ASSUME NEW at
  PROVE  /\ DOMAIN room(at) \subseteq DOMAIN buckets
         /\ \A j \in DOMAIN room(at) : room(at)[j] = buckets[j]
  BY DEF room, evict_refilled, Keep

\* What a decision on k that leaves the table as it was, but for k's bucket and
\* for buckets forgotten, owes to the invariant.
LEMMA DecisionStep ==
  ASSUME IInv, NEW k \in Key, NEW until \in Nat,
         DOMAIN buckets' \subseteq DOMAIN buckets \cup {k},
         \A j \in DOMAIN buckets' : j # k => j \in DOMAIN buckets /\ buckets'[j] = buckets[j],
         promised' = [promised EXCEPT ![k] = until],
         k \in DOMAIN buckets' => buckets'[k] \in Bucket,
         (k \in DOMAIN buckets' /\ until > 0) =>
            /\ buckets'[k].last_seen < until
            /\ buckets'[k].tokens + (until - buckets'[k].last_seen) * Refill >= Unit
  PROVE  /\ DOMAIN buckets' \subseteq Key
         /\ \A j \in DOMAIN buckets' : buckets'[j] \in Bucket
         /\ promised' \in [Key -> Nat]
         /\ PromiseInv'
<1>1. /\ DOMAIN buckets \subseteq Key /\ promised \in [Key -> Nat]
      /\ \A j \in DOMAIN buckets : buckets[j] \in Bucket
  BY DEF IInv, TypeOK
<1>2. promised' \in [Key -> Nat] /\ \A j \in Key : promised'[j] = IF j = k THEN until ELSE promised[j]
  BY <1>1
<1>3. DOMAIN buckets' \subseteq Key /\ \A j \in DOMAIN buckets' : buckets'[j] \in Bucket
  BY <1>1
<1>4. ASSUME NEW j \in DOMAIN buckets', promised'[j] > 0
      PROVE  /\ buckets'[j].last_seen < promised'[j]
             /\ buckets'[j].tokens + (promised'[j] - buckets'[j].last_seen) * Refill >= Unit
  <2>1. CASE j = k
    <3>1. promised'[j] = until
      BY <1>2, <2>1
    <3> QED
      BY <1>4, <2>1, <3>1
  <2>2. CASE j # k
    <3>1. j \in DOMAIN buckets /\ buckets'[j] = buckets[j] /\ promised'[j] = promised[j]
      BY <1>1, <1>2, <2>2
    <3> QED
      BY <1>4, <3>1 DEF IInv, PromiseInv
  <2> QED
    BY <2>1, <2>2
<1>5. PromiseInv'
  BY <1>4 DEF PromiseInv
<1> QED
  BY <1>2, <1>3, <1>5

\* One more request allowed against a bucket.
LEMMA CountStep ==
  ASSUME TypeOK, NEW k \in Key, NEW at \in Time, Count(k, at)
  PROVE  admitted' \in [Key -> [Time -> Nat]]
  BY DEF TypeOK, Count
-----------------------------------------------------------------------------
(* One lemma per way a request is decided. *)

\* A tracked client pays, or is promised the second its bucket holds a token.
LEMMA TrackedStep ==
  ASSUME IInv, NEW k \in Key, NEW at \in Time, CheckTracked(k, at)
  PROVE  /\ DOMAIN buckets' \subseteq Key
         /\ \A j \in DOMAIN buckets' : buckets'[j] \in Bucket
         /\ promised' \in [Key -> Nat] /\ admitted' \in [Key -> [Time -> Nat]]
         /\ PromiseInv'
<1> DEFINE tokens == refilled(buckets[k], at)
<1>1. TypeOK /\ k \in DOMAIN buckets /\ buckets[k] \in Bucket /\ at \in Nat
  BY LimiterAssumption DEF IInv, TypeOK, CheckTracked, Time
<1>2. tokens \in 0..Capacity
  BY <1>1, Refilled
<1>3. Unit \in Nat /\ Unit > 0 /\ Capacity \in Nat
  BY CapacityPays, LimiterAssumption
<1>4. CASE tokens >= Unit
  <2> DEFINE b == [tokens |-> tokens - Unit, last_seen |-> at]
  <2>1. /\ buckets' = Put(buckets, k, b)
        /\ Count(k, at) /\ promised' = [promised EXCEPT ![k] = 0]
    BY <1>4 DEF CheckTracked, Decide
  <2>2. b \in Bucket
    BY <1>1, <1>2, <1>3, <1>4 DEF Bucket
  <2> HIDE DEF b
  <2>3. /\ DOMAIN buckets' = DOMAIN buckets \cup {k}
        /\ buckets'[k] = b
        /\ \A j \in DOMAIN buckets : j # k => buckets'[j] = buckets[j]
    <3>1. buckets' = Put(buckets, k, b)
      BY <2>1
    <3> QED
      BY ONLY <3>1 DEF Put
  <2>4. admitted' \in [Key -> [Time -> Nat]]
    BY <1>1, <2>1, CountStep
  <2>5. PICK until \in Nat : until = 0
    OBVIOUS
  <2>6. promised' = [promised EXCEPT ![k] = until] /\ ~(until > 0)
    BY <2>1, <2>5
  <2> QED
    BY <2>2, <2>3, <2>4, <2>6, DecisionStep
<1>5. CASE ~(tokens >= Unit)
  <2> DEFINE b == [tokens |-> tokens, last_seen |-> at]
             until == at + retry_after(tokens)
  <2>1. /\ buckets' = Put(buckets, k, b)
        /\ promised' = [promised EXCEPT ![k] = until]
        /\ admitted' = admitted
    BY <1>5 DEF CheckTracked, Decide
  <2>2. b \in Bucket /\ b.last_seen = at /\ b.tokens = tokens
    BY <1>1, <1>2 DEF Bucket
  <2>3. until \in Nat /\ at < until /\ until - at = retry_after(tokens)
    BY <1>1, <1>2, <1>3, WaitCovers
  <2>4. tokens + (until - at) * Refill >= Unit
    <3>1. retry_after(tokens) * Refill \in Int
      BY <1>2, <1>3, WaitCovers, LimiterAssumption
    <3>2. retry_after(tokens) * Refill >= Unit - tokens
      BY <1>2, <1>3, WaitCovers
    <3> QED
      BY <1>2, <1>3, <2>3, <3>1, <3>2
  <2> HIDE DEF b, until
  <2>5. /\ DOMAIN buckets' = DOMAIN buckets \cup {k}
        /\ buckets'[k] = b
        /\ \A j \in DOMAIN buckets : j # k => buckets'[j] = buckets[j]
    <3>1. buckets' = Put(buckets, k, b)
      BY <2>1
    <3> QED
      BY ONLY <3>1 DEF Put
  <2>6. /\ buckets'[k].last_seen < until
        /\ buckets'[k].tokens + (until - buckets'[k].last_seen) * Refill >= Unit
    BY <2>2, <2>3, <2>4, <2>5
  <2>7. admitted' \in [Key -> [Time -> Nat]]
    BY <1>1, <2>1 DEF TypeOK
  <2> QED
    BY <2>1, <2>2, <2>3, <2>5, <2>6, <2>7, DecisionStep
<1> QED
  BY <1>4, <1>5

\* A new client starts from a full bucket and was promised nothing.
LEMMA NewStep ==
  ASSUME IInv, NEW k \in Key, NEW at \in Time, CheckNew(k, at)
  PROVE  /\ DOMAIN buckets' \subseteq Key
         /\ \A j \in DOMAIN buckets' : buckets'[j] \in Bucket
         /\ promised' \in [Key -> Nat] /\ admitted' \in [Key -> [Time -> Nat]]
         /\ PromiseInv'
<1> DEFINE b == [tokens |-> Capacity - Unit, last_seen |-> at]
<1>1. /\ buckets' = Put(room(at), k, b)
      /\ Count(k, at) /\ promised' = [promised EXCEPT ![k] = 0]
  BY DEF CheckNew, Decide
<1>2. b \in Bucket
  BY CapacityPays, LimiterAssumption DEF Bucket
<1> HIDE DEF b
<1>3. /\ DOMAIN buckets' = DOMAIN room(at) \cup {k}
      /\ buckets'[k] = b
      /\ \A j \in DOMAIN room(at) : j # k => buckets'[j] = room(at)[j]
  <2>1. buckets' = Put(room(at), k, b)
    BY <1>1
  <2> QED
    BY ONLY <2>1 DEF Put
<1>4. admitted' \in [Key -> [Time -> Nat]]
  BY <1>1, CountStep DEF IInv
<1>5. /\ DOMAIN buckets' \subseteq DOMAIN buckets \cup {k}
      /\ \A j \in DOMAIN buckets' : j # k => j \in DOMAIN buckets /\ buckets'[j] = buckets[j]
  BY <1>3, RoomKeeps
<1>6. PICK until \in Nat : until = 0
  OBVIOUS
<1>7. promised' = [promised EXCEPT ![k] = until] /\ ~(until > 0)
  BY <1>1, <1>6
<1> QED
  BY <1>2, <1>3, <1>4, <1>5, <1>7, DecisionStep

\* An untracked client is promised nothing.
LEMMA UntrackedStep ==
  ASSUME IInv, NEW k \in Key, NEW at \in Time, CheckUntracked(k, at)
  PROVE  /\ DOMAIN buckets' \subseteq Key
         /\ \A j \in DOMAIN buckets' : buckets'[j] \in Bucket
         /\ promised' \in [Key -> Nat] /\ admitted' \in [Key -> [Time -> Nat]]
         /\ PromiseInv'
<1>1. /\ buckets' = room(at) /\ k \notin DOMAIN buckets
      /\ admitted' = admitted /\ promised' = [promised EXCEPT ![k] = 0]
  BY DEF CheckUntracked, Decide
<1> QED
  BY <1>1, RoomKeeps, DecisionStep DEF IInv, TypeOK

\* The request a decision is made for.
LEMMA CheckedRequest ==
  ASSUME IInv, NEW r \in Request, check_at(r)
  PROVE  /\ waiting[r].key \in Key /\ waiting[r].at \in Time
         /\ \/ CheckTracked(waiting[r].key, waiting[r].at)
            \/ CheckNew(waiting[r].key, waiting[r].at)
            \/ CheckUntracked(waiting[r].key, waiting[r].at)
         /\ waiting' = [waiting EXCEPT ![r] = NotWaiting] /\ now' = now
  BY DEF IInv, WaitInv, check_at

\* A request that begins or ends to wait keeps the others waiting.
LEMMA TypedWaiting ==
  ASSUME TypeOK, WaitInv, NEW r \in Request, NEW w,
         w = NotWaiting \/ w \in [key : Key, at : Time],
         waiting' = [waiting EXCEPT ![r] = w]
  PROVE  /\ \A q \in Request : waiting'[q].key \in Key \cup {"none"} /\ waiting'[q].at \in Time
         /\ WaitInv'
<1>1. NotWaiting.key = "none" /\ NotWaiting.at \in Time
  BY LimiterAssumption DEF NotWaiting, Time
<1>2. \A q \in Request : waiting'[q] = waiting[q] \/ waiting'[q] = w
  OBVIOUS
<1>3. \A q \in Request : waiting'[q] = NotWaiting \/ waiting'[q] \in [key : Key, at : Time]
  BY <1>2 DEF WaitInv
<1> QED
  BY <1>1, <1>3 DEF WaitInv, NotWaiting

\* The latest clock reading decided, and how far others came behind it.
LEMMA HistoryStep ==
  ASSUME TypeOK, NEW k \in Key, NEW at \in Time,
         CheckTracked(k, at) \/ CheckNew(k, at) \/ CheckUntracked(k, at)
  PROVE  /\ latest' \in Time /\ latest <= latest' /\ at <= latest' /\ latest' - at \in Nat
         /\ rewound' \in [Key -> Nat]
         /\ \A j \in Key \ {k} : rewound'[j] = rewound[j]
         /\ CheckTracked(k, at) \/ CheckNew(k, at) => rewound'[k] = rewound[k] + (latest' - at)
<1>1. latest' = Larger(latest, at)
  BY DEF CheckTracked, CheckNew, CheckUntracked, Decide
<1>2. latest \in Nat /\ at \in Nat /\ latest \in Time
  BY LimiterAssumption DEF TypeOK, Time
<1>3. latest' \in Time /\ latest <= latest' /\ at <= latest' /\ latest' - at \in Nat
  BY <1>1, <1>2 DEF Larger
<1>4. CASE CheckTracked(k, at) \/ CheckNew(k, at)
  <2>1. rewound' = [rewound EXCEPT ![k] = @ + (latest' - at)]
    BY <1>1, <1>4 DEF CheckTracked, CheckNew, Stamp
  <2>2. \A n, d \in Nat : n + d \in Nat
    OBVIOUS
  <2>3. rewound \in [Key -> Nat]
    BY DEF TypeOK
  <2> QED
    BY <1>3, <2>1, <2>2, <2>3
<1>5. CASE CheckUntracked(k, at)
  <2>1. UNCHANGED rewound /\ k \notin DOMAIN buckets
    BY <1>5 DEF CheckUntracked
  <2>2. ~CheckTracked(k, at)
    BY <2>1 DEF CheckTracked
  <2>3. CASE CheckNew(k, at)
    BY <1>4, <2>3
  <2> QED
    BY <1>3, <2>1, <2>2, <2>3 DEF TypeOK
<1> QED
  BY <1>4, <1>5

\* Every step preserves the invariant.
LEMMA InvariantStep == IInv /\ [Next]_vars => IInv'
<1> SUFFICES ASSUME IInv, [Next]_vars PROVE IInv'
  OBVIOUS
<1>1. ASSUME NEW r \in Request, Arrive(r) PROVE IInv'
  <2>1. PICK k \in Key : waiting' = [waiting EXCEPT ![r] = [key |-> k, at |-> now]]
    BY <1>1 DEF Arrive
  <2>2. [key |-> k, at |-> now] \in [key : Key, at : Time]
    BY DEF IInv, TypeOK
  <2>3. /\ \A q \in Request : waiting'[q].key \in Key \cup {"none"} /\ waiting'[q].at \in Time
        /\ WaitInv'
    BY <2>1, <2>2, TypedWaiting DEF IInv
  <2> QED
    BY <1>1, <2>3 DEF Arrive, history, IInv, TypeOK, PromiseInv
<1>2. ASSUME NEW r \in Request, check_at(r) PROVE IInv'
  <2>1. /\ \A q \in Request : waiting'[q].key \in Key \cup {"none"} /\ waiting'[q].at \in Time
        /\ WaitInv'
    BY <1>2, CheckedRequest, TypedWaiting DEF IInv
  <2>2. /\ DOMAIN buckets' \subseteq Key
        /\ \A j \in DOMAIN buckets' : buckets'[j] \in Bucket
        /\ promised' \in [Key -> Nat] /\ admitted' \in [Key -> [Time -> Nat]]
        /\ PromiseInv'
    BY <1>2, CheckedRequest, TrackedStep, NewStep, UntrackedStep
  <2>3. now' \in Time
    BY <1>2, CheckedRequest DEF IInv, TypeOK
  <2>4. latest' \in Time /\ rewound' \in [Key -> Nat]
    BY <1>2, CheckedRequest, HistoryStep DEF IInv
  <2> QED
    BY <2>1, <2>2, <2>3, <2>4 DEF IInv, TypeOK
<1>3. CASE Tick
  <2>1. now' \in Time
    BY <1>3, LimiterAssumption DEF Tick, IInv, TypeOK, Time
  <2> QED
    BY <1>3, <2>1 DEF Tick, history, IInv, TypeOK, WaitInv, PromiseInv
<1>4. CASE UNCHANGED vars
  BY <1>4 DEF vars, history, IInv, TypeOK, WaitInv, PromiseInv
<1> QED
  BY <1>1, <1>2, <1>3, <1>4 DEF Next

\* The buckets hold between nothing and their capacity, and a promise made to
\* a refused client is always in its bucket.
THEOREM Inductive == Spec => []IInv
<1>1. Init => IInv
  <2> SUFFICES ASSUME Init PROVE IInv
    OBVIOUS
  <2>1. 0 \in Time
    BY LimiterAssumption DEF Time
  <2> QED
    BY <2>1 DEF Init, IInv, TypeOK, WaitInv, PromiseInv, NotWaiting
<1> QED
  BY <1>1, InvariantStep, PTL DEF Spec
-----------------------------------------------------------------------------
\* A client that was refused and comes back when Retry-After told it to is not
\* refused again, unless it spent the tokens in the meantime, whatever the rate
\* and however clock readings and decisions are reordered.
THEOREM RetryAfterSuffices == Spec => RetryAfterIsEnough
<1> DEFINE Enough == (last' # last /\ ~last'.allowed /\ promised[last'.key] > 0) =>
                        last'.at < promised[last'.key]
<1>1. IInv /\ [Next]_vars => [Enough]_vars
  <2> SUFFICES ASSUME IInv, Next, last' # last, ~last'.allowed, promised[last'.key] > 0
               PROVE  last'.at < promised[last'.key]
    OBVIOUS
  <2>1. PICK r \in Request : check_at(r)
    BY DEF Next, Arrive, Tick
  <2> DEFINE k == waiting[r].key
             at == waiting[r].at
             b == buckets[k]
  <2>2. /\ k \in Key /\ at \in Time
        /\ CheckTracked(k, at) \/ CheckNew(k, at) \/ CheckUntracked(k, at)
    BY <2>1, CheckedRequest
  <2> HIDE DEF k, at
  <2>3. /\ CheckTracked(k, at) /\ refilled(b, at) < Unit
        /\ last'.key = k /\ last'.at = at
    <3>1. CASE CheckTracked(k, at)
      <4>1. b \in Bucket
        BY <3>1 DEF CheckTracked, IInv, TypeOK
      <4>2. refilled(b, at) \in Int /\ Unit \in Int
        BY <2>2, <4>1, Refilled, LimiterAssumption, CapacityPays
      <4> QED
        BY <3>1, <4>2 DEF CheckTracked, Decide
    <3>2. CASE CheckNew(k, at) \/ CheckUntracked(k, at)
      BY <3>2 DEF CheckNew, CheckUntracked, Decide
    <3> QED
      BY <2>2, <3>1, <3>2
  <2>4. /\ k \in DOMAIN buckets /\ b \in Bucket
        /\ promised[k] \in Nat /\ promised[k] > 0
        /\ b.last_seen < promised[k]
        /\ b.tokens + (promised[k] - b.last_seen) * Refill >= Unit
    BY <2>2, <2>3 DEF CheckTracked, IInv, TypeOK, PromiseInv
  <2> HIDE DEF b
  <2>5. SUFFICES ASSUME at >= promised[k] PROVE FALSE
    BY <2>2, <2>3, <2>4, LimiterAssumption DEF Time
  <2> DEFINE owed == promised[k] - b.last_seen
             aged == elapsed(b, at)
  <2>6. /\ at \in Nat /\ b.last_seen \in Nat /\ b.tokens \in Nat
        /\ owed \in Int /\ aged \in Nat /\ owed <= aged
    BY <2>2, <2>4, <2>5, Refilled, CapacityPays, LimiterAssumption DEF Bucket, Time
  <2>7. b.tokens + aged * Refill < Unit
    BY <2>2, <2>3, <2>4, Refilled
  <2> HIDE DEF owed, aged
  <2>8. owed * Refill <= aged * Refill
    BY <2>6, RefillGrows
  <2>9. owed * Refill \in Int /\ aged * Refill \in Int /\ Unit \in Int
    BY <2>6, LimiterAssumption
  <2>10. b.tokens + owed * Refill >= Unit
    BY <2>4 DEF owed
  <2> QED
    BY <2>6, <2>7, <2>8, <2>9, <2>10
<1>2. Spec => [][Enough]_vars
  BY <1>1, Inductive, PTL DEF Spec
<1> QED
  BY <1>2 DEF RetryAfterIsEnough
-----------------------------------------------------------------------------
(* The window bound.  A client without a bucket is worth a full one: the table *)
(* only ever forgets buckets that are full again.                             *)

\* Requests allowed in seconds a to b, when row[t] were allowed up to t.
Between(row, a, b) == row[b] - (IF a = 0 THEN 0 ELSE row[a - 1])

\* The bound on every window, when `again` seconds were refilled twice.
Bounded(row, again) ==
    \A a, b \in Time :
       a <= b => Unit * Between(row, a, b) <= Capacity + (b - a + again) * Refill

\* As of second s nothing was allowed later, and what was allowed since any
\* earlier second, with the units still there, is at most what a full bucket,
\* the refill since then and `again` seconds of refill pay for.
Level(row, s, units, again) ==
    /\ \A t \in Time : /\ row[t] <= row[MaxTime]
                       /\ t >= s => row[t] = row[MaxTime]
    /\ \A a \in Time : a <= s =>
          Unit * Between(row, a, MaxTime) + units <= Capacity + (s - a + again) * Refill

\* The units a client could spend at second s.
Worth(table, k, s) == IF k \in DOMAIN table THEN refilled(table[k], s) ELSE Capacity

\* A client whose requests stay within the bound, now and when it spends on.
Sound(row, table, k, s, again) ==
    /\ Bounded(row, again)
    /\ k \in DOMAIN table => table[k].last_seen <= s
    /\ Level(row, s, Worth(table, k, s), again)

WindowInv ==
    IInv /\ \A k \in Key : Sound(admitted[k], buckets, k, latest, rewound[k])

\* Seconds are numbers from 0 to MaxTime.
LEMMA Seconds ==
  /\ MaxTime \in Time /\ 0 \in Time
  /\ \A t \in Time : /\ t \in Int /\ t >= 0 /\ t <= MaxTime
                     /\ t # 0 => t - 1 \in Time
  /\ Unit \in Int /\ Unit >= 0 /\ Capacity \in Int /\ Capacity >= Unit
  BY CapacityPays, LimiterAssumption DEF Time

\* Products with the size of a token.
LEMMA TokensAreLinear ==
  /\ \A m \in Int : Unit * m \in Int /\ Unit * (m + 1) = Unit * m + Unit
  /\ \A m, n \in Int : m <= n => Unit * m <= Unit * n
<1>1. Unit \in Int /\ Unit >= 0
  BY Seconds
<1>2. \A u, m \in Int : u * m \in Int /\ u * (m + 1) = u * m + u
  OBVIOUS
<1>3. \A u, m, n \in Int : u >= 0 /\ m <= n => u * m <= u * n
  OBVIOUS
<1> QED
  BY <1>1, <1>2, <1>3

\* Counts and their products with constants are integers.
LEMMA BetweenTyped ==
  ASSUME NEW row \in [Time -> Nat], NEW a \in Time, NEW b \in Time
  PROVE  Between(row, a, b) \in Int /\ Unit * Between(row, a, b) \in Int
<1>1. Between(row, a, b) \in Int
  BY Seconds DEF Between
<1> QED
  BY <1>1, TokensAreLinear

\* The refill of a number of seconds, as a linear quantity.
LEMMA RefillIsLinear ==
  /\ \A m \in Int : m * Refill \in Int /\ (m >= 0 => m * Refill >= 0)
  /\ \A m, n \in Int : (m + n) * Refill = m * Refill + n * Refill
<1>1. Refill \in Int /\ Refill >= 0
  BY LimiterAssumption
<1>2. \A m, r \in Int : m * r \in Int /\ (m >= 0 /\ r >= 0 => m * r >= 0)
  OBVIOUS
<1>3. \A m, n, r \in Int : (m + n) * r = m * r + n * r
  OBVIOUS
<1> QED
  BY <1>1, <1>2, <1>3

\* The level goes up with time by no more than the refill, and never above the
\* capacity.
LEMMA LevelRefills ==
  ASSUME NEW row \in [Time -> Nat], NEW s \in Time, NEW at \in Time, s <= at,
         NEW units \in Int, NEW more \in Int, NEW again \in Nat,
         Level(row, s, units, again),
         more <= units + (at - s) * Refill, more <= Capacity
  PROVE  Level(row, at, more, again)
<1>1. s \in Int /\ at \in Int /\ Capacity \in Int /\ again \in Int /\ again >= 0
      /\ MaxTime \in Time /\ \A t \in Time : t \in Int /\ t >= 0
  BY Seconds
<1>2. \A t \in Time : /\ row[t] <= row[MaxTime]
                     /\ t >= at => row[t] = row[MaxTime]
  BY <1>1 DEF Level
<1>3. ASSUME NEW a \in Time, a <= at
      PROVE  Unit * Between(row, a, MaxTime) + more <= Capacity + (at - a + again) * Refill
  <2> DEFINE spent == Unit * Between(row, a, MaxTime)
  <2>1. spent \in Int /\ a \in Int
    BY <1>1, BetweenTyped
  <2>2. CASE a <= s
    <3>1. spent + units <= Capacity + (s - a + again) * Refill
      BY <2>2 DEF Level
    <3>2. /\ (at - a + again) * Refill = (at - s) * Refill + (s - a + again) * Refill
          /\ (at - s) * Refill \in Int /\ (s - a + again) * Refill \in Int
      <4>1. /\ at - s \in Int /\ s - a + again \in Int
            /\ (at - s) + (s - a + again) = at - a + again
        BY <1>1, <2>1
      <4> QED
        BY <4>1, RefillIsLinear
    <3> HIDE DEF spent
    <3> QED
      BY <1>1, <2>1, <3>1, <3>2 DEF spent
  <2>3. CASE ~(a <= s)
    <3>1. Between(row, a, MaxTime) = 0
      <4>1. a - 1 \in Time /\ a - 1 >= s /\ a # 0
        BY <1>1, <2>1, <2>3, Seconds
      <4>2. row[a - 1] = row[MaxTime] /\ row[MaxTime] \in Int
        BY <1>1, <4>1 DEF Level
      <4> QED
        BY <4>1, <4>2 DEF Between
    <3>2. spent = 0
      BY <3>1, Seconds
    <3>3. (at - a + again) * Refill \in Int /\ (at - a + again) * Refill >= 0
      <4>1. at - a + again \in Int /\ at - a + again >= 0
        BY <1>1, <1>3, <2>1
      <4> QED
        BY <4>1, RefillIsLinear
    <3> HIDE DEF spent
    <3> QED
      BY <1>1, <3>2, <3>3 DEF spent
  <2> QED
    BY <2>2, <2>3
<1> QED
  BY <1>2, <1>3 DEF Level

\* One request allowed at `at` counts in every window around `at`.
LEMMA CountBetween ==
  ASSUME NEW row \in [Time -> Nat], NEW next \in [Time -> Nat], NEW at \in Time,
         \A t \in Time : next[t] = IF t < at THEN row[t] ELSE row[t] + 1
  PROVE  \A a, b \in Time : a <= b =>
            Between(next, a, b) = IF a <= at /\ at <= b THEN Between(row, a, b) + 1
                                  ELSE Between(row, a, b)
<1>1. \A t \in Time : t \in Int /\ t >= 0 /\ (t # 0 => t - 1 \in Time) /\ row[t] \in Int
  BY Seconds
<1>2. ASSUME NEW a \in Time, NEW b \in Time, a <= at, at <= b
      PROVE  Between(next, a, b) = Between(row, a, b) + 1
  BY <1>1, <1>2 DEF Between
<1>3. ASSUME NEW a \in Time, NEW b \in Time, ~(a <= at /\ at <= b), a <= b
      PROVE  Between(next, a, b) = Between(row, a, b)
  BY <1>1, <1>3 DEF Between
<1> QED
  BY <1>2, <1>3

\* A bound that grants more seconds grants more refill.
LEMMA MoreGranted ==
  ASSUME NEW row \in [Time -> Nat], NEW again \in Nat, NEW extra \in Nat,
         Bounded(row, again)
  PROVE  Bounded(row, again + extra)
<1> SUFFICES ASSUME NEW a \in Time, NEW b \in Time, a <= b
             PROVE  Unit * Between(row, a, b) <= Capacity + (b - a + (again + extra)) * Refill
  BY DEF Bounded
<1>1. Unit * Between(row, a, b) <= Capacity + (b - a + again) * Refill
  BY DEF Bounded
<1>2. /\ (b - a + (again + extra)) * Refill = (b - a + again) * Refill + extra * Refill
      /\ (b - a + again) * Refill \in Int /\ extra * Refill \in Int /\ extra * Refill >= 0
  <2>1. /\ b - a + again \in Int /\ extra \in Int /\ extra >= 0
        /\ b - a + (again + extra) = (b - a + again) + extra
    BY Seconds
  <2> QED
    BY <2>1, RefillIsLinear
<1> QED
  BY <1>1, <1>2, BetweenTyped, Seconds

\* A decision that is stamped `at`, seconds before the latest one, leaves what
\* it found and what those seconds refill again.
LEMMA LevelStamped ==
  ASSUME NEW row \in [Time -> Nat], NEW at \in Time, NEW s \in Time, at <= s,
         NEW units \in Int, NEW again \in Nat, Level(row, s, units, again),
         NEW more \in Int, more <= units + (s - at) * Refill
  PROVE  Level(row, s, more, again + (s - at))
<1>1. s \in Int /\ at \in Int /\ again \in Int /\ Capacity \in Int
      /\ MaxTime \in Time /\ \A t \in Time : t \in Int
  BY Seconds
<1>2. ASSUME NEW a \in Time, a <= s
      PROVE  Unit * Between(row, a, MaxTime) + more
                <= Capacity + (s - a + (again + (s - at))) * Refill
  <2> DEFINE spent == Unit * Between(row, a, MaxTime)
  <2>1. spent \in Int /\ a \in Int
    BY <1>1, BetweenTyped
  <2>2. spent + units <= Capacity + (s - a + again) * Refill
    BY <1>2 DEF Level
  <2>3. /\ (s - a + (again + (s - at))) * Refill = (s - a + again) * Refill + (s - at) * Refill
        /\ (s - at) * Refill \in Int /\ (s - a + again) * Refill \in Int
    <3>1. /\ s - at \in Int /\ s - a + again \in Int
          /\ s - a + (again + (s - at)) = (s - a + again) + (s - at)
      BY <1>1, <2>1
    <3> QED
      BY <3>1, RefillIsLinear
  <2> HIDE DEF spent
  <2> QED
    BY <1>1, <2>1, <2>2, <2>3 DEF spent
<1> QED
  BY <1>2 DEF Level

\* An allowed request takes its token, and stays within every window's bound.
LEMMA LevelPays ==
  ASSUME NEW row \in [Time -> Nat], NEW next \in [Time -> Nat],
         NEW at \in Time, NEW s \in Time, at <= s,
         \A t \in Time : next[t] = IF t < at THEN row[t] ELSE row[t] + 1,
         NEW units \in Int, NEW again \in Nat,
         Bounded(row, again), Level(row, s, units, again), units >= Unit,
         NEW more \in Int, more <= units - Unit + (s - at) * Refill
  PROVE  /\ Level(next, s, more, again + (s - at))
         /\ Bounded(next, again + (s - at))
<1>1. /\ at \in Int /\ s \in Int /\ again \in Int /\ Capacity \in Int
      /\ Unit \in Int /\ Unit >= 0
      /\ MaxTime \in Time /\ \A t \in Time : t \in Int /\ t >= 0 /\ t <= MaxTime
  <2>1. at \in Int /\ s \in Int
    BY Seconds
  <2> QED
    BY <2>1, Seconds
<1>2. \A t \in Time : /\ next[t] <= next[MaxTime]
                     /\ t >= s => next[t] = next[MaxTime]
  <2>1. \A t \in Time : /\ row[t] <= row[MaxTime]
                       /\ t >= s => row[t] = row[MaxTime]
                       /\ row[t] \in Int
    BY DEF Level
  <2>2. ~(MaxTime < at) /\ row[MaxTime] \in Int
    BY <1>1, <2>1
  <2> QED
    BY <1>1, <2>1, <2>2
\* s - at seconds of refill more are granted.
<1>3. ASSUME NEW a \in Time, a <= s
      PROVE  /\ Unit * Between(row, a, MaxTime) \in Int /\ Between(row, a, MaxTime) \in Int
             /\ Unit * Between(row, a, MaxTime) + units <= Capacity + (s - a + again) * Refill
             /\ (s - a + (again + (s - at))) * Refill
                   = (s - a + again) * Refill + (s - at) * Refill
             /\ (s - at) * Refill \in Int /\ (s - at) * Refill >= 0
             /\ (s - a + again) * Refill \in Int
  <2>1. Unit * Between(row, a, MaxTime) \in Int /\ Between(row, a, MaxTime) \in Int /\ a \in Int
    BY <1>1, BetweenTyped
  <2>2. Unit * Between(row, a, MaxTime) + units <= Capacity + (s - a + again) * Refill
    BY <1>3 DEF Level
  <2>3. /\ s - at \in Int /\ s - at >= 0 /\ s - a + again \in Int
        /\ s - a + (again + (s - at)) = (s - a + again) + (s - at)
    BY <1>1, <2>1
  <2> QED
    BY <2>1, <2>2, <2>3, RefillIsLinear
<1>4. ASSUME NEW a \in Time, a <= s
      PROVE  Unit * Between(next, a, MaxTime) + more
                <= Capacity + (s - a + (again + (s - at))) * Refill
  <2> DEFINE spent == Unit * Between(row, a, MaxTime)
             refill == (s - a + again) * Refill
             extra == (s - at) * Refill
  <2>1. \/ Unit * Between(next, a, MaxTime) = spent
        \/ Unit * Between(next, a, MaxTime) = spent + Unit
    <3>1. \/ Between(next, a, MaxTime) = Between(row, a, MaxTime)
          \/ Between(next, a, MaxTime) = Between(row, a, MaxTime) + 1
      <4>1. a <= MaxTime /\ a \in Time /\ MaxTime \in Time
        BY <1>1
      <4>2. Between(next, a, MaxTime)
               = IF a <= at /\ at <= MaxTime THEN Between(row, a, MaxTime) + 1
                 ELSE Between(row, a, MaxTime)
        BY <4>1, CountBetween
      <4> QED
        BY <4>2
    <3> QED
      BY <1>3, <1>4, <3>1, TokensAreLinear
  <2>2. /\ spent \in Int /\ refill \in Int /\ extra \in Int
        /\ spent + units <= Capacity + refill
        /\ (s - a + (again + (s - at))) * Refill = refill + extra
    BY <1>3, <1>4
  <2>3. more <= units - Unit + extra
    OBVIOUS
  <2> HIDE DEF spent, refill, extra
  <2> QED
    BY <1>1, <2>1, <2>2, <2>3
<1>5. ASSUME NEW a \in Time, NEW b \in Time, a <= at, at <= b
      PROVE  Unit * (Between(row, a, b) + 1) <= Capacity + (b - a + (again + (s - at))) * Refill
  <2>1. a <= s
    BY <1>1, <1>5
  <2> DEFINE within == Between(row, a, b)
             spent == Unit * Between(row, a, MaxTime)
             refill == (s - a + again) * Refill
             bound == (b - a + (again + (s - at))) * Refill
  <2>2. within \in Int /\ Unit * within \in Int /\ Unit * (within + 1) = Unit * within + Unit
    BY BetweenTyped, TokensAreLinear
  <2>3. Unit * within <= spent
    <3>1. row[b] <= row[MaxTime] /\ row[b] \in Int /\ row[MaxTime] \in Int
      BY <1>1 DEF Level
    <3>2. a # 0 => row[a - 1] \in Int
      BY Seconds
    <3>3. within <= Between(row, a, MaxTime)
      BY <3>1, <3>2 DEF Between
    <3> QED
      BY <1>3, <2>1, <2>2, <3>3, TokensAreLinear
  <2>4. spent \in Int /\ refill \in Int /\ spent + units <= Capacity + refill
    BY <1>3, <2>1
  <2>5. refill <= bound /\ bound \in Int
    <3>1. /\ s - a + again \in Int /\ b - a + (again + (s - at)) \in Int
          /\ s - a + again <= b - a + (again + (s - at))
      BY <1>1, <1>5
    <3> QED
      BY <3>1, RefillGrows, RefillIsLinear
  <2> HIDE DEF within, spent, refill, bound
  <2>6. Unit * (within + 1) <= Capacity + bound
    BY <1>1, <2>2, <2>3, <2>4, <2>5
  <2> QED
    BY <2>6 DEF within, bound
<1>6. Bounded(row, again + (s - at))
  <2>1. s - at \in Nat
    BY <1>1
  <2> QED
    BY <2>1, MoreGranted
<1>7. Bounded(next, again + (s - at))
  BY <1>5, <1>6, CountBetween DEF Bounded
<1>8. Level(next, s, more, again + (s - at))
  <2>1. SUFFICES ASSUME NEW a \in Time, a <= s
                 PROVE  Unit * Between(next, a, MaxTime) + more
                           <= Capacity + (s - a + (again + (s - at))) * Refill
    BY <1>1, <1>2 DEF Level
  <2> QED
    BY <1>4, <2>1
<1> QED
  BY <1>7, <1>8

\* What a client could spend at an earlier reading is no more than at a later
\* one, and grows by no more than the refill.
LEMMA WorthGrows ==
  ASSUME NEW b \in Bucket, NEW s \in Time, NEW at \in Time, at <= s
  PROVE  /\ refilled(b, at) \in Int /\ refilled(b, at) <= Capacity
         /\ refilled(b, at) <= refilled(b, s)
         /\ b.last_seen <= at => refilled(b, s) <= refilled(b, at) + (s - at) * Refill
<1>1. /\ b.tokens \in Int /\ b.last_seen \in Int /\ s \in Int /\ at \in Int
      /\ Capacity \in Int
  BY CapacityPays, LimiterAssumption DEF Bucket, Time
<1>2. /\ elapsed(b, at) \in Int /\ elapsed(b, s) \in Int
      /\ elapsed(b, at) <= elapsed(b, s)
      /\ b.last_seen <= at => elapsed(b, s) = elapsed(b, at) + (s - at)
  BY <1>1 DEF elapsed, Larger
<1> DEFINE early == elapsed(b, at) * Refill
           later == elapsed(b, s) * Refill
           between == (s - at) * Refill
<1>3. /\ early \in Int /\ later \in Int /\ between \in Int /\ between >= 0
      /\ early <= later
      /\ b.last_seen <= at => later = early + between
  <2>1. s - at \in Int /\ s - at >= 0
    BY <1>1
  <2> QED
    BY <1>2, <2>1, RefillIsLinear, RefillGrows
<1>4. /\ refilled(b, at) = Smaller(b.tokens + early, Capacity)
      /\ refilled(b, s) = Smaller(b.tokens + later, Capacity)
  BY DEF refilled
<1> HIDE DEF early, later, between
<1>5. /\ Smaller(b.tokens + early, Capacity) \in Int
      /\ Smaller(b.tokens + early, Capacity) <= Capacity
      /\ Smaller(b.tokens + early, Capacity) <= Smaller(b.tokens + later, Capacity)
      /\ b.last_seen <= at => Smaller(b.tokens + later, Capacity)
                                 <= Smaller(b.tokens + early, Capacity) + between
  BY <1>1, <1>3 DEF Smaller
<1> QED
  BY <1>4, <1>5 DEF between

\* A client the table has no bucket for is worth a full one, and so is one
\* whose bucket an eviction forgets.
LEMMA RoomWorth ==
  ASSUME TypeOK, NEW at \in Time, NEW s \in Time, at <= s, NEW k \in Key,
         k \notin DOMAIN room(at)
  PROVE  Worth(buckets, k, s) = Capacity
<1>1. CASE k \notin DOMAIN buckets
  BY <1>1 DEF Worth
<1>2. CASE k \in DOMAIN buckets
  <2> DEFINE b == buckets[k]
  <2>1. b \in Bucket
    BY <1>2 DEF TypeOK
  <2>2. ~(b.tokens + elapsed(b, at) * Refill < Capacity)
    BY <1>2 DEF room, evict_refilled, Keep
  <2>3. Worth(buckets, k, s) = refilled(b, s)
    BY <1>2 DEF Worth
  <2> HIDE DEF b
  <2>4. refilled(b, at) = Capacity
    <3>1. b.tokens + elapsed(b, at) * Refill \in Int /\ Capacity \in Int
      BY <2>1, Refilled, CapacityPays
    <3> QED
      BY <2>2, <3>1 DEF refilled, Smaller
  <2>5. /\ refilled(b, at) <= refilled(b, s)
        /\ refilled(b, s) \in Int /\ refilled(b, s) <= Capacity
    <3>1. s <= s
      BY Seconds
    <3> QED
      BY <2>1, <3>1, WorthGrows
  <2> QED
    BY <2>3, <2>4, <2>5, CapacityPays
<1> QED
  BY <1>1, <1>2

\* Every client's level as of the decision's moment, whichever way it goes.
LEMMA LevelsNow ==
  ASSUME WindowInv, NEW s \in Time, latest <= s, NEW j \in Key
  PROVE  /\ Worth(buckets, j, s) \in Int /\ Worth(buckets, j, s) <= Capacity
         /\ Level(admitted[j], s, Worth(buckets, j, s), rewound[j])
<1>1. /\ TypeOK /\ latest \in Time /\ latest \in Int /\ s \in Int /\ rewound[j] \in Nat
      /\ admitted[j] \in [Time -> Nat]
      /\ Capacity \in Int /\ Level(admitted[j], latest, Worth(buckets, j, latest), rewound[j])
  BY Seconds DEF WindowInv, IInv, TypeOK, Sound
<1>2. CASE j \in DOMAIN buckets
  <2> DEFINE b == buckets[j]
  <2>1. b \in Bucket /\ b.last_seen <= latest
    BY <1>1, <1>2 DEF TypeOK, WindowInv, Sound
  <2>2. Worth(buckets, j, s) = refilled(b, s) /\ Worth(buckets, j, latest) = refilled(b, latest)
    BY <1>2 DEF Worth
  <2> HIDE DEF b
  <2>3. /\ refilled(b, latest) \in Int
        /\ refilled(b, s) <= refilled(b, latest) + (s - latest) * Refill
    BY <1>1, <2>1, WorthGrows
  <2>4. refilled(b, s) \in Int /\ refilled(b, s) <= Capacity
    <3>1. s <= s
      BY <1>1
    <3> QED
      BY <2>1, <3>1, WorthGrows
  <2> QED
    BY <1>1, <2>2, <2>3, <2>4, LevelRefills
<1>3. CASE j \notin DOMAIN buckets
  <2>1. Worth(buckets, j, s) = Capacity /\ Worth(buckets, j, latest) = Capacity
    BY <1>3 DEF Worth
  <2>2. Capacity <= Capacity + (s - latest) * Refill
    <3>1. (s - latest) * Refill \in Int /\ (s - latest) * Refill >= 0
      <4>1. s - latest \in Int /\ s - latest >= 0
        BY <1>1
      <4> QED
        BY <4>1, RefillIsLinear
    <3> QED
      BY <1>1, <3>1
  <2> QED
    BY <1>1, <2>1, <2>2, LevelRefills
<1> QED
  BY <1>2, <1>3

\* A bucket stamped `at` is worth its tokens and the refill until s, at most.
LEMMA StampedWorth ==
  ASSUME NEW table, NEW k \in DOMAIN table, NEW tokens \in Int,
         NEW at \in Time, NEW s \in Time, at <= s,
         table[k] = [tokens |-> tokens, last_seen |-> at]
  PROVE  /\ Worth(table, k, s) \in Int
         /\ Worth(table, k, s) <= tokens + (s - at) * Refill
<1> DEFINE b == table[k]
<1>1. Worth(table, k, s) = refilled(b, s) /\ b.tokens = tokens /\ b.last_seen = at
  BY DEF Worth
<1> HIDE DEF b
<1>2. elapsed(b, s) = s - at /\ Capacity \in Int
  BY <1>1, Seconds DEF elapsed, Larger
<1>3. (s - at) * Refill \in Int
  <2>1. s - at \in Int
    BY Seconds
  <2> QED
    BY <2>1, RefillIsLinear
<1> QED
  BY <1>1, <1>2, <1>3 DEF refilled, Smaller

\* The client decided on: its bucket, stamped `at`, is worth at the latest
\* reading what is left and what the seconds between refill again.
LEMMA DecidedSound ==
  ASSUME WindowInv, NEW k \in Key, NEW at \in Time,
         CheckTracked(k, at) \/ CheckNew(k, at) \/ CheckUntracked(k, at)
  PROVE  Sound(admitted'[k], buckets', k, latest', rewound'[k])
<1> DEFINE s == latest'
           units == Worth(buckets, k, s)
           again == rewound[k]
<1>1. /\ TypeOK /\ s \in Time /\ at <= s /\ latest <= s /\ again \in Nat /\ s - at \in Nat
      /\ Unit \in Int /\ Capacity \in Int /\ Capacity >= Unit
      /\ admitted[k] \in [Time -> Nat] /\ Bounded(admitted[k], again)
  BY HistoryStep, Seconds DEF WindowInv, IInv, TypeOK, Sound
<1>2. units \in Int /\ units <= Capacity /\ Level(admitted[k], s, units, again)
  BY <1>1, LevelsNow
<1>3. ASSUME Count(k, at)
      PROVE  /\ admitted'[k] \in [Time -> Nat]
             /\ \A t \in Time : admitted'[k][t] = IF t < at THEN admitted[k][t]
                                                  ELSE admitted[k][t] + 1
  BY <1>1, <1>3 DEF Count, TypeOK
<1>4. ASSUME NEW tokens \in Int, k \in DOMAIN buckets',
             buckets'[k] = [tokens |-> tokens, last_seen |-> at]
      PROVE  /\ buckets'[k].last_seen <= s
             /\ Worth(buckets', k, s) \in Int
             /\ Worth(buckets', k, s) <= tokens + (s - at) * Refill
  BY <1>1, <1>4, StampedWorth
<1>5. CASE CheckTracked(k, at)
  <2> DEFINE tokens == refilled(buckets[k], at)
             more == Worth(buckets', k, s)
  <2>1. /\ k \in DOMAIN buckets /\ buckets[k] \in Bucket
        /\ rewound'[k] = again + (s - at)
    BY <1>1, <1>5, HistoryStep DEF CheckTracked, TypeOK
  <2>2. tokens \in Int /\ tokens <= units
    BY <1>1, <2>1, WorthGrows DEF Worth
  <2>3. (s - at) * Refill \in Int
    BY <1>1, RefillIsLinear
  <2>4. CASE tokens >= Unit
    <3>1. /\ k \in DOMAIN buckets' /\ Count(k, at)
          /\ buckets'[k] = [tokens |-> tokens - Unit, last_seen |-> at]
      BY <1>5, <2>4 DEF CheckTracked, Put
    <3>2. tokens - Unit \in Int
      BY <1>1, <2>2
    <3>3. /\ buckets'[k].last_seen <= s
          /\ more \in Int /\ more <= (tokens - Unit) + (s - at) * Refill
      BY <1>4, <3>1, <3>2
    <3> HIDE DEF s, units, again, tokens, more
    <3>4. /\ units >= Unit /\ more <= units - Unit + (s - at) * Refill
      BY <1>1, <1>2, <2>2, <2>3, <2>4, <3>3
    <3>5. /\ Level(admitted'[k], s, more, again + (s - at))
          /\ Bounded(admitted'[k], again + (s - at))
      BY <1>1, <1>2, <1>3, <3>1, <3>3, <3>4, LevelPays
    <3> QED
      BY <2>1, <3>3, <3>5 DEF Sound, s, again, more
  <2>5. CASE ~(tokens >= Unit)
    <3>1. /\ k \in DOMAIN buckets' /\ UNCHANGED admitted
          /\ buckets'[k] = [tokens |-> tokens, last_seen |-> at]
      BY <1>5, <2>5 DEF CheckTracked, Put
    <3>2. /\ buckets'[k].last_seen <= s
          /\ more \in Int /\ more <= tokens + (s - at) * Refill
      BY <1>4, <2>2, <3>1
    <3> HIDE DEF s, units, again, tokens, more
    <3>3. more <= units + (s - at) * Refill
      BY <1>2, <2>2, <2>3, <3>2
    <3>4. Level(admitted[k], s, more, again + (s - at))
      BY <1>1, <1>2, <3>2, <3>3, LevelStamped
    <3>5. Bounded(admitted[k], again + (s - at))
      BY <1>1, MoreGranted
    <3> QED
      BY <2>1, <3>1, <3>2, <3>4, <3>5 DEF Sound, s, again, more
  <2> QED
    BY <2>4, <2>5
<1>6. CASE CheckNew(k, at)
  <2> DEFINE more == Worth(buckets', k, s)
  <2>1. /\ k \notin DOMAIN room(at) /\ Count(k, at) /\ k \in DOMAIN buckets'
        /\ buckets'[k] = [tokens |-> Capacity - Unit, last_seen |-> at]
    BY <1>6, RoomKeeps DEF CheckNew, Put
  <2>2. rewound'[k] = again + (s - at)
    BY <1>1, <1>6, HistoryStep
  <2>3. units = Capacity
    BY <1>1, <2>1, RoomWorth
  <2>4. Capacity - Unit \in Int
    BY <1>1
  <2>5. /\ buckets'[k].last_seen <= s
        /\ more \in Int /\ more <= (Capacity - Unit) + (s - at) * Refill
    BY <1>4, <2>1, <2>4
  <2> HIDE DEF s, units, again, more
  <2>6. /\ Level(admitted'[k], s, more, again + (s - at))
        /\ Bounded(admitted'[k], again + (s - at))
    BY <1>1, <1>2, <1>3, <2>1, <2>3, <2>5, LevelPays
  <2> QED
    BY <2>2, <2>5, <2>6 DEF Sound, s, again, more
<1>7. CASE CheckUntracked(k, at)
  <2>1. /\ k \notin DOMAIN room(at) /\ k \notin DOMAIN buckets' /\ UNCHANGED <<admitted, rewound>>
    BY <1>7, RoomKeeps DEF CheckUntracked
  <2>2. units = Capacity /\ Worth(buckets', k, s) = Capacity
    BY <1>1, <2>1, RoomWorth DEF Worth
  <2> QED
    BY <1>1, <1>2, <2>1, <2>2 DEF Sound
<1> QED
  BY <1>5, <1>6, <1>7

\* The clients a decision is not about: they keep their bucket, or it is full.
LEMMA OthersSound ==
  ASSUME WindowInv, NEW k \in Key, NEW at \in Time, NEW j \in Key, j # k,
         CheckTracked(k, at) \/ CheckNew(k, at) \/ CheckUntracked(k, at)
  PROVE  Sound(admitted'[j], buckets', j, latest', rewound'[j])
<1> DEFINE s == latest'
<1>1. /\ TypeOK /\ s \in Time /\ at <= s /\ latest <= s
      /\ admitted'[j] = admitted[j] /\ rewound'[j] = rewound[j]
      /\ Bounded(admitted[j], rewound[j])
      /\ j \in DOMAIN buckets => buckets[j].last_seen <= latest
  BY HistoryStep DEF WindowInv, IInv, TypeOK, Sound, CheckTracked, CheckNew, CheckUntracked, Count
<1>2. Level(admitted[j], s, Worth(buckets, j, s), rewound[j])
  BY <1>1, LevelsNow
<1>3. CASE j \in DOMAIN buckets'
  <2>1. j \in DOMAIN buckets /\ buckets'[j] = buckets[j]
    <3>1. CASE CheckTracked(k, at)
      BY <1>3, <3>1 DEF CheckTracked, Put
    <3>2. CASE CheckNew(k, at)
      BY <1>3, <3>2, RoomKeeps DEF CheckNew, Put
    <3>3. CASE CheckUntracked(k, at)
      BY <1>3, <3>3, RoomKeeps DEF CheckUntracked
    <3> QED
      BY <3>1, <3>2, <3>3
  <2>2. Worth(buckets', j, s) = Worth(buckets, j, s)
    BY <1>3, <2>1 DEF Worth
  <2>3. buckets'[j].last_seen <= s
    <3>1. buckets[j].last_seen \in Int /\ latest \in Int /\ s \in Int
      BY <1>1, <2>1, Seconds DEF TypeOK, Bucket
    <3> QED
      BY <1>1, <2>1, <3>1
  <2> QED
    BY <1>1, <1>2, <2>2, <2>3 DEF Sound
<1>4. CASE j \notin DOMAIN buckets'
  <2>1. j \notin DOMAIN buckets \/ j \notin DOMAIN room(at)
    BY <1>4 DEF CheckTracked, CheckNew, CheckUntracked, Put
  <2>2. Worth(buckets, j, s) = Capacity /\ Worth(buckets', j, s) = Capacity
    BY <1>1, <1>4, <2>1, RoomWorth DEF Worth
  <2> QED
    BY <1>1, <1>2, <1>4, <2>2 DEF Sound
<1> QED
  BY <1>3, <1>4

\* Every step preserves the invariant.
LEMMA WindowStep == WindowInv /\ [Next]_vars => WindowInv'
<1> SUFFICES ASSUME WindowInv, [Next]_vars PROVE WindowInv'
  OBVIOUS
<1>1. IInv'
  BY InvariantStep DEF WindowInv
<1>2. ASSUME NEW j \in Key PROVE Sound(admitted'[j], buckets', j, latest', rewound'[j])
  <2>1. CASE UNCHANGED <<buckets, admitted, history>>
    BY <2>1 DEF WindowInv, history
  <2>2. ASSUME NEW r \in Request, check_at(r)
        PROVE  Sound(admitted'[j], buckets', j, latest', rewound'[j])
    <3>1. /\ waiting[r].key \in Key /\ waiting[r].at \in Time
          /\ \/ CheckTracked(waiting[r].key, waiting[r].at)
             \/ CheckNew(waiting[r].key, waiting[r].at)
             \/ CheckUntracked(waiting[r].key, waiting[r].at)
      BY <2>2, CheckedRequest DEF WindowInv
    <3> QED
      BY <3>1, DecidedSound, OthersSound
  <2> QED
    BY <2>1, <2>2 DEF Next, Arrive, Tick, vars
<1> QED
  BY <1>1, <1>2 DEF WindowInv

\* In any window of time, through evictions and re-insertions and in whatever
\* order requests take the mutex, a tracked client is allowed no more requests
\* than a full bucket, the window's refill, and the refill of the seconds by
\* which its requests came behind later clock readings.
THEOREM WindowHolds == Spec => []WindowIsBounded
<1>1. Init => WindowInv
  <2> SUFFICES ASSUME Init PROVE WindowInv
    OBVIOUS
  <2>1. IInv
    BY Seconds DEF Init, IInv, TypeOK, WaitInv, PromiseInv, NotWaiting
  <2>2. ASSUME NEW k \in Key PROVE Sound(admitted[k], buckets, k, latest, rewound[k])
    <3> DEFINE row == admitted[k]
    <3>1. /\ row \in [Time -> Nat] /\ \A t \in Time : row[t] = 0
          /\ latest = 0 /\ rewound[k] = 0 /\ Worth(buckets, k, latest) = Capacity
          /\ k \notin DOMAIN buckets
      BY DEF Init, Worth
    <3> HIDE DEF row
    <3>2. \A a, b \in Time : Between(row, a, b) = 0 /\ Unit * Between(row, a, b) = 0
      BY <3>1, Seconds DEF Between
    <3>3. Bounded(row, 0)
      <4> SUFFICES ASSUME NEW a \in Time, NEW b \in Time, a <= b
                   PROVE  Unit * Between(row, a, b) <= Capacity + (b - a + 0) * Refill
        BY DEF Bounded
      <4>1. b - a + 0 \in Int /\ b - a + 0 >= 0 /\ Capacity \in Int /\ Capacity >= 0
        <5>1. /\ a \in Int /\ b \in Int
              /\ Capacity \in Int /\ Capacity >= Unit /\ Unit \in Int /\ Unit >= 0
          BY Seconds
        <5> QED
          BY <5>1
      <4>2. (b - a + 0) * Refill \in Int /\ (b - a + 0) * Refill >= 0
        BY <4>1, RefillIsLinear
      <4> QED
        BY <3>2, <4>1, <4>2
    <3>4. Level(row, 0, Capacity, 0)
      <4>1. ASSUME NEW a \in Time, a <= 0
            PROVE  Unit * Between(row, a, MaxTime) + Capacity
                      <= Capacity + (0 - a + 0) * Refill
        <5>1. a = 0 /\ 0 - a + 0 \in Int /\ 0 - a + 0 >= 0 /\ Capacity \in Int
          <6>1. a \in Int /\ a >= 0 /\ Capacity \in Int
            BY Seconds
          <6> QED
            BY <4>1, <6>1
        <5>2. (0 - a + 0) * Refill \in Int /\ (0 - a + 0) * Refill >= 0
          BY <5>1, RefillIsLinear
        <5>3. Unit * Between(row, a, MaxTime) = 0
          BY <3>2, Seconds
        <5> QED
          BY <5>1, <5>2, <5>3
      <4> QED
        BY <3>1, <4>1, Seconds DEF Level
    <3> QED
      BY <3>1, <3>3, <3>4 DEF Sound, row
  <2> QED
    BY <2>1, <2>2 DEF WindowInv
<1>2. WindowInv => WindowIsBounded
  BY DEF WindowInv, Sound, Bounded, Between, WindowIsBounded, AdmittedIn
<1> QED
  BY <1>1, <1>2, WindowStep, PTL DEF Spec
=============================================================================
