---------------------------- MODULE RateLimiter ----------------------------
(***************************************************************************)
(* The relayer's per-IP token-bucket limiter: a capped table of buckets    *)
(* behind one mutex.  A request reads the clock first and takes the mutex  *)
(* afterwards, so two requests may reach the table in the other order than *)
(* their timestamps say.                                                   *)
(*                                                                         *)
(* Fractional tokens are counted in units: a token is Unit units and one   *)
(* second refills Refill of them (per_minute / 60 = Refill / Unit).        *)
(***************************************************************************)
EXTENDS Integers, FiniteSets

CONSTANTS
    Key,         \* client addresses
    Request,     \* requests that can be in flight at once
    Burst,       \* RateLimitRule::burst
    Unit,        \* units in a token
    Refill,      \* units refilled per second
    MaxTracked,  \* the cap on the table
    MaxTime      \* bound: seconds considered

ASSUME LimiterAssumption ==
    /\ Burst \in Nat \ {0}
    /\ Unit \in Nat \ {0}
    /\ Refill \in Nat \ {0}
    /\ MaxTracked \in Nat \ {0}
    /\ MaxTime \in Nat

VARIABLES
    now,       \* the clock
    waiting,   \* waiting[r]: the key and the clock reading of request r
    buckets,   \* the table: the tracked keys and their buckets
    admitted,  \* admitted[k][t]: requests allowed against k's bucket up to t
    last,      \* the last decision
    promised,  \* promised[k]: when the last Retry-After given to k runs out
    latest,    \* history: the latest clock reading decided so far
    rewound    \* history, rewound[k]: seconds by which decisions on k's bucket
               \* came behind it

history == <<latest, rewound>>
vars == <<now, waiting, buckets, admitted, last, promised, history>>

Time == 0..MaxTime
Capacity == Burst * Unit
Bucket == [tokens : 0..Capacity, last_seen : Time]
NotWaiting == [key |-> "none", at |-> 0]

Init ==
    /\ now = 0
    /\ waiting = [r \in Request |-> NotWaiting]
    /\ buckets = [k \in {} |-> {}]
    /\ admitted = [k \in Key |-> [t \in Time |-> 0]]
    /\ last = [key |-> "none", at |-> 0, allowed |-> TRUE]
    /\ promised = [k \in Key |-> 0]
    /\ latest = 0
    /\ rewound = [k \in Key |-> 0]
-----------------------------------------------------------------------------
Smaller(m, n) == IF m < n THEN m ELSE n
Larger(m, n) == IF m > n THEN m ELSE n

\* saturating_duration_since: a bucket stamped later has not aged at all.
elapsed(b, at) == Larger(at - b.last_seen, 0)

refilled(b, at) == Smaller(b.tokens + elapsed(b, at) * Refill, Capacity)

Keep(ks) == [k \in ks |-> buckets[k]]

\* Mutant: a full table forgets every bucket.
evict_all(at) == Keep({})

\* Forget the buckets that are full again.
evict_refilled(at) ==
    Keep({k \in DOMAIN buckets :
             buckets[k].tokens + elapsed(buckets[k], at) * Refill < Capacity})

\* The table as a new key finds it.
room(at) == IF Cardinality(DOMAIN buckets) >= MaxTracked
            THEN evict_refilled(at) ELSE buckets

Put(table, k, b) == [j \in DOMAIN table \cup {k} |-> IF j = k THEN b ELSE table[j]]

Decide(k, at, allowed, until) ==
    /\ last' = [key |-> k, at |-> at, allowed |-> allowed]
    /\ promised' = [promised EXCEPT ![k] = until]
    /\ latest' = Larger(latest, at)

\* k's bucket is stamped `at`: it will be refilled for what is rewound again.
Stamp(k, at) == rewound' = [rewound EXCEPT ![k] = @ + (Larger(latest, at) - at)]

Count(k, at) ==
    admitted' = [admitted EXCEPT
                    ![k] = [t \in Time |-> IF t < at THEN @[t] ELSE @[t] + 1]]

\* Mutant: the wait is rounded down.
retry_after_floor(tokens) == (Unit - tokens) \div Refill

\* Whole seconds until the deficit is refilled, at least one.
retry_after(tokens) == Larger((Unit - tokens + Refill - 1) \div Refill, 1)

\* A tracked key pays one token of its bucket, or is told when to come back.
CheckTracked(k, at) ==
    /\ k \in DOMAIN buckets
    /\ Stamp(k, at)
    /\ LET tokens == refilled(buckets[k], at) IN
       IF tokens >= Unit
       THEN /\ buckets' = Put(buckets, k, [tokens |-> tokens - Unit, last_seen |-> at])
            /\ Count(k, at)
            /\ Decide(k, at, TRUE, 0)
       ELSE /\ buckets' = Put(buckets, k, [tokens |-> tokens, last_seen |-> at])
            /\ Decide(k, at, FALSE, at + retry_after(tokens))
            /\ UNCHANGED admitted

\* A new key gets a full bucket, less this request.
CheckNew(k, at) ==
    /\ k \notin DOMAIN buckets
    /\ Cardinality(DOMAIN room(at)) < MaxTracked
    /\ buckets' = Put(room(at), k, [tokens |-> Capacity - Unit, last_seen |-> at])
    /\ Stamp(k, at)
    /\ Count(k, at)
    /\ Decide(k, at, TRUE, 0)

\* A full table allows the request and does not track it.
CheckUntracked(k, at) ==
    /\ k \notin DOMAIN buckets
    /\ Cardinality(DOMAIN room(at)) >= MaxTracked
    /\ buckets' = room(at)
    /\ Decide(k, at, TRUE, 0)
    /\ UNCHANGED <<admitted, rewound>>

\* check: the request reads the clock ...
Arrive(r) ==
    /\ waiting[r] = NotWaiting
    /\ \E k \in Key : waiting' = [waiting EXCEPT ![r] = [key |-> k, at |-> now]]
    /\ UNCHANGED <<now, buckets, admitted, last, promised, history>>

\* ... and decides under the mutex, in whatever order requests get it.
check_at(r) ==
    /\ waiting[r] # NotWaiting
    /\ \/ CheckTracked(waiting[r].key, waiting[r].at)
       \/ CheckNew(waiting[r].key, waiting[r].at)
       \/ CheckUntracked(waiting[r].key, waiting[r].at)
    /\ waiting' = [waiting EXCEPT ![r] = NotWaiting]
    /\ UNCHANGED now

Tick ==
    /\ now < MaxTime                               \* bound MaxTime
    /\ now' = now + 1
    /\ UNCHANGED <<waiting, buckets, admitted, last, promised, history>>

Next ==
    \/ \E r \in Request : Arrive(r) \/ check_at(r)
    \/ Tick

Spec == Init /\ [][Next]_vars

TypeOK ==
    /\ now \in Time
    /\ \A r \in Request : waiting[r].key \in Key \cup {"none"} /\ waiting[r].at \in Time
    /\ DOMAIN buckets \subseteq Key
    /\ \A k \in DOMAIN buckets : buckets[k] \in Bucket
    /\ admitted \in [Key -> [Time -> Nat]]
    /\ promised \in [Key -> Nat]
    /\ latest \in Time
    /\ rewound \in [Key -> Nat]
-----------------------------------------------------------------------------
(* Properties. *)

AdmittedIn(k, a, b) ==
    admitted[k][b] - (IF a = 0 THEN 0 ELSE admitted[k][a - 1])

\* The guarantee of a token bucket, through evictions and re-insertions: in
\* any window of d seconds a tracked key is allowed at most burst requests
\* plus what d seconds refill, and no more than once again what the seconds
\* refill by which its requests came behind later clock readings to the mutex.
WindowIsBounded ==
    \A k \in Key, a, b \in Time :
       a <= b => Unit * AdmittedIn(k, a, b) <= Capacity + (b - a + rewound[k]) * Refill

\* Retry-After is enough: a client that was refused and comes back when it was
\* told to is not refused again, unless it spent the tokens in the meantime.
RetryAfterIsEnough ==
    [][(last' # last /\ ~last'.allowed /\ promised[last'.key] > 0) =>
          last'.at < promised[last'.key]]_vars
=============================================================================
