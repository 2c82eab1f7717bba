-------------------------- MODULE RequestGate_proofs --------------------------
(***************************************************************************)
(* Proofs about RequestGate, for any number of requests, routes, clients   *)
(* and deployments: the budget of concurrent requests neither leaks nor    *)
(* grows, whatever drops a request, and a request is charged to its client *)
(* behind any number of proxies, whatever that client wrote.               *)
(***************************************************************************)
EXTENDS RequestGate, FiniteSetTheorems, WellFoundedInduction, TLAPS

\* The requests that hold a permit.
Holding == {r \in Request : InFlight(r)}

\* The budget is a number, never zero.
BudgetInv == Permits \in Nat /\ Permits > 0

\* The counted permits, and the only steps of a request the layers know.
IInv ==
    /\ BudgetInv
    /\ available \in Nat
    /\ DOMAIN req = Request
    /\ PermitsAreConserved

\* Counting the requests that hold a permit.
LEMMA HoldingIsFinite ==
  /\ IsFiniteSet(Holding) /\ Cardinality(Holding) \in Nat
  /\ IsFiniteSet(Holding') /\ Cardinality(Holding') \in Nat
<1>1. Holding \subseteq Request /\ Holding' \subseteq Request
  BY DEF Holding
<1> QED
  BY <1>1, GateAssumption, FS_Subset, FS_CardinalityType

\* A request that comes to hold a permit takes one of the free ones.
LEMMA Taken ==
  ASSUME NEW r \in Request, IInv, available > 0, ~InFlight(r), InFlight(r)',
         \A q \in Request : q # r => (InFlight(q)' <=> InFlight(q)),
         available' = available - 1, UNCHANGED deployment, DOMAIN req' = Request
  PROVE  IInv'
<1>1. Holding' = Holding \cup {r} /\ r \notin Holding
  BY DEF Holding
<1>2. Cardinality(Holding') = Cardinality(Holding) + 1
  BY <1>1, HoldingIsFinite, FS_AddElement
<1> QED
  BY <1>2, HoldingIsFinite DEF IInv, BudgetInv, PermitsAreConserved, Holding, Permits

\* A request that stops holding a permit gives exactly that one back.
LEMMA Returned ==
  ASSUME NEW r \in Request, IInv, InFlight(r), ~InFlight(r)',
         \A q \in Request : q # r => (InFlight(q)' <=> InFlight(q)),
         available' = available + 1, UNCHANGED deployment, DOMAIN req' = Request
  PROVE  IInv'
<1>1. Holding' = Holding \ {r} /\ r \in Holding
  BY DEF Holding
<1>2. Cardinality(Holding') = Cardinality(Holding) - 1
  BY <1>1, HoldingIsFinite, FS_RemoveElement
<1> QED
  BY <1>2, HoldingIsFinite DEF IInv, BudgetInv, PermitsAreConserved, Holding, Permits

\* Any other step moves no permit.
LEMMA Unmoved ==
  ASSUME IInv, \A q \in Request : InFlight(q)' <=> InFlight(q),
         UNCHANGED <<available, deployment>>, DOMAIN req' = Request
  PROVE  IInv'
<1>1. Holding' = Holding
  BY DEF Holding
<1> QED
  BY <1>1 DEF IInv, BudgetInv, PermitsAreConserved, Holding, Permits

\* A request's new step decides whether it holds a permit; the others' stay.
LEMMA OneMoves ==
  ASSUME IInv, NEW r \in Request, NEW new, req' = [req EXCEPT ![r] = new]
  PROVE  /\ DOMAIN req' = Request
         /\ InFlight(r)' <=> new.step \in {"admitted", "handling", "funds"}
         /\ \A q \in Request : q # r => (InFlight(q)' <=> InFlight(q))
  BY DEF IInv, InFlight

\* Answering a request that holds a permit.
LEMMA RespondStep ==
  ASSUME IInv, NEW r \in Request, InFlight(r), NEW status, Respond(r, status)
  PROVE  IInv'
<1>1. PICK new : new.step = "answered" /\ req' = [req EXCEPT ![r] = new]
  BY DEF Respond, Answer, IInv
<1>2. /\ ~InFlight(r)' /\ DOMAIN req' = Request
      /\ \A q \in Request : q # r => (InFlight(q)' <=> InFlight(q))
  BY <1>1, OneMoves
<1> QED
  BY <1>2, Returned DEF Respond

\* Every step, of any request, keeps the budget.
LEMMA BudgetStep == IInv /\ [Next]_vars => IInv'
<1> SUFFICES ASSUME IInv, [Next]_vars PROVE IInv'
  OBVIOUS
<1>1. ASSUME NEW r \in Request, Arrive(r) PROVE IInv'
  <2>1. PICK new : new.step = "arrived" /\ req' = [req EXCEPT ![r] = new]
    BY <1>1 DEF Arrive
  <2>2. ~InFlight(r) /\ UNCHANGED <<available, deployment>>
    BY <1>1 DEF Arrive, InFlight
  <2> QED
    BY <2>1, <2>2, OneMoves, Unmoved
<1>2. ASSUME NEW r \in Request, concurrency_limit(r) PROVE IInv'
  <2>1. ~InFlight(r) /\ UNCHANGED deployment
    BY <1>2 DEF concurrency_limit, InFlight
  <2>2. CASE try_acquire
    <3>1. /\ available > 0 /\ available' = available - 1
          /\ req' = [req EXCEPT ![r] = [@ EXCEPT !.step = "admitted"]]
      BY <1>2, <2>2 DEF concurrency_limit, try_acquire
    <3>2. InFlight(r)' /\ DOMAIN req' = Request
      BY <1>2, <3>1 DEF concurrency_limit, InFlight, IInv
    <3>3. \A q \in Request : q # r => (InFlight(q)' <=> InFlight(q))
      BY <3>1, OneMoves
    <3> QED
      BY <2>1, <3>1, <3>2, <3>3, Taken
  <2>3. CASE ~try_acquire
    <3>1. PICK new : new.step = "answered" /\ req' = [req EXCEPT ![r] = new]
      BY <1>2, <2>3 DEF concurrency_limit, Answer
    <3>2. available' = available
      BY <1>2, <2>3 DEF concurrency_limit
    <3> QED
      BY <2>1, <3>1, <3>2, OneMoves, Unmoved
  <2> QED
    BY <2>2, <2>3
<1>3. ASSUME NEW r \in Request, rate_limit(r) PROVE IInv'
  <2>1. InFlight(r) /\ UNCHANGED deployment
    BY <1>3 DEF rate_limit, InFlight
  <2>2. CASE Pass(r) /\ UNCHANGED available
    <3>1. PICK new : new.step = "handling" /\ req' = [req EXCEPT ![r] = new]
      BY <2>2 DEF Pass
    <3> QED
      BY <2>1, <2>2, <3>1, OneMoves, Unmoved
  <2>3. CASE req' = Answer(r, 429) /\ available' = available + 1
    <3>1. PICK new : new.step = "answered" /\ req' = [req EXCEPT ![r] = new]
      BY <2>3 DEF Answer
    <3> QED
      BY <2>1, <2>3, <3>1, OneMoves, Returned
  <2> QED
    BY <1>3, <2>2, <2>3 DEF rate_limit
<1>4. ASSUME NEW r \in Request, Timeout(r) PROVE IInv'
  BY <1>4, RespondStep DEF Timeout, Dropped
<1>5. ASSUME NEW r \in Request, health(r) PROVE IInv'
  BY <1>5, RespondStep DEF health, InFlight
<1>6. ASSUME NEW r \in Request, readiness(r) PROVE IInv'
  <2>1. InFlight(r)
    BY <1>6 DEF readiness, InFlight
  <2>2. CASE /\ req' = [req EXCEPT ![r].step = "funds"]
             /\ UNCHANGED <<deployment, available, allowance, balance>>
    <3>1. req' = [req EXCEPT ![r] = [@ EXCEPT !.step = "funds"]]
      BY <2>2
    <3>2. InFlight(r)' /\ DOMAIN req' = Request
      BY <1>6, <3>1 DEF readiness, InFlight, IInv
    <3>3. \A q \in Request : q # r => (InFlight(q)' <=> InFlight(q))
      BY <3>1, OneMoves
    <3> QED
      BY <2>1, <2>2, <3>2, <3>3, Unmoved
  <2> QED
    BY <1>6, <2>1, <2>2, RespondStep DEF readiness
<1>7. ASSUME NEW r \in Request, Handle(r) PROVE IInv'
  BY <1>7, RespondStep DEF Handle, InFlight
<1>8. CASE UNCHANGED <<deployment, available, req>>
  BY <1>8, Unmoved DEF IInv, InFlight
<1> QED
  BY <1>1, <1>2, <1>3, <1>4, <1>5, <1>6, <1>7, <1>8 DEF Next, vars, Refill, Funds
-----------------------------------------------------------------------------
\* The semaphore's free permits and the requests inside the guard add up to the
\* budget of the deployment: no drop by the deadline or the client, no limit
\* and no answer leaks a permit or returns two.
THEOREM PermitsAreNeverLost == Spec => []PermitsAreConserved
<1>1. Init => IInv
  <2> SUFFICES ASSUME Init PROVE IInv
    OBVIOUS
  <2>1. BudgetInv
    <3>1. PICK d \in Deployment : Starts(d) /\ deployment.http = config(d).http
      BY DEF Init
    <3>2. deployment.http.size.MAX_CONCURRENT_REQUESTS \in Nat
      BY <3>1, GateAssumption
    <3> QED
      BY <3>2 DEF BudgetInv, Permits, Larger
  <2>2. Holding = {}
    BY DEF Init, Holding, InFlight, Idle
  <2>3. Cardinality(Holding) = 0
    BY <2>2, FS_EmptySet
  <2> QED
    BY <2>1, <2>3 DEF Init, IInv, PermitsAreConserved, Holding, BudgetInv
<1>2. IInv => PermitsAreConserved
  BY DEF IInv
<1> QED
  BY <1>1, <1>2, BudgetStep, PTL DEF Spec
-----------------------------------------------------------------------------
(* The client's address, behind any number of proxies.                        *)

\* Induction, over a set: one that holds 0 and each of its successors holds all
\* numbers.
LEMMA NatSet ==
  ASSUME NEW S, 0 \in S, \A n \in Nat : n \in S => n + 1 \in S
  PROVE  \A n \in Nat : n \in S
<1> DEFINE R == OpToRel(<, Nat)
           T == Nat \ S
<1>1. SUFFICES ASSUME T # {} PROVE FALSE
  OBVIOUS
<1>2. PICK x \in T : \A y \in T : ~(<<y, x>> \in R)
  <2>1. T \subseteq Nat
    OBVIOUS
  <2> HIDE DEF T, R
  <2>2. IsWellFoundedOn(R, Nat)
    BY NatLessThanWellFounded DEF R
  <2> QED
    BY <1>1, <2>1, <2>2, WFMin
<1>3. x # 0 /\ x \in Nat
  OBVIOUS
<1>4. x - 1 \in T
  BY <1>3
<1>5. <<x - 1, x>> \in R
  BY <1>3 DEF OpToRel
<1> QED
  BY <1>2, <1>4, <1>5

\* f holds the addresses among the first n of the entries, up to m.
AddressesTo(f, entries, m) ==
    f = [n \in 0..m |-> IF n = 0 THEN <<>>
                        ELSE IF entries[n] \in Address
                        THEN Append(f[n - 1], entries[n]) ELSE f[n - 1]]

\* Every header's entries can be gone through.
LEMMA AddressesExist ==
  ASSUME NEW entries, NEW len \in Nat
  PROVE  \E f : AddressesTo(f, entries, len)
<1> DEFINE S == {m \in Nat : \E f : AddressesTo(f, entries, m)}
<1>1. 0 \in S
  <2>1. AddressesTo([n \in 0..0 |-> <<>>], entries, 0)
    BY DEF AddressesTo
  <2> QED
    BY <2>1
<1>2. ASSUME NEW m \in Nat, m \in S PROVE m + 1 \in S
  <2>1. PICK f : AddressesTo(f, entries, m)
    BY <1>2
  <2> DEFINE last == IF entries[m + 1] \in Address
                     THEN Append(f[m], entries[m + 1]) ELSE f[m]
             g == [n \in 0..(m + 1) |-> IF n = m + 1 THEN last ELSE f[n]]
  <2>2. /\ g[m + 1] = last
        /\ \A n \in 0..m : g[n] = f[n]
    OBVIOUS
  <2>3. g = [n \in 0..(m + 1) |-> g[n]]
    OBVIOUS
  <2> HIDE DEF g
  <2>4. ASSUME NEW n \in 0..(m + 1)
        PROVE  g[n] = IF n = 0 THEN <<>>
                      ELSE IF entries[n] \in Address
                      THEN Append(g[n - 1], entries[n]) ELSE g[n - 1]
    <3>1. CASE n = m + 1
      <4>1. n - 1 = m /\ m \in 0..m /\ n # 0
        BY <3>1
      <4>2. g[n - 1] = f[m]
        BY <2>2, <4>1
      <4> QED
        BY <2>2, <3>1, <4>1, <4>2
    <3>2. CASE n \in 0..m
      <4>1. f[n] = IF n = 0 THEN <<>>
                   ELSE IF entries[n] \in Address
                   THEN Append(f[n - 1], entries[n]) ELSE f[n - 1]
        BY <2>1, <3>2 DEF AddressesTo
      <4>2. g[n] = f[n] /\ (n # 0 => n - 1 \in 0..m)
        BY <2>2, <3>2
      <4>3. n # 0 => g[n - 1] = f[n - 1]
        BY <2>2, <4>2
      <4> QED
        BY <4>1, <4>2, <4>3
    <3> QED
      BY <3>1, <3>2
  <2>5. AddressesTo(g, entries, m + 1)
    BY <2>3, <2>4 DEF AddressesTo
  <2> QED
    BY <2>5
<1>3. \A m \in Nat : m \in S
  <2> HIDE DEF S
  <2> QED
    BY <1>1, <1>2, NatSet
<1> QED
  BY <1>3

\* Parsed is where that ends.
LEMMA ParsedEnds ==
  ASSUME NEW entries, NEW len \in Nat, Len(entries) = len
  PROVE  \E f : AddressesTo(f, entries, len) /\ Parsed(entries) = f[len]
<1> DEFINE Def(f) ==
      f = [n \in 0..Len(entries) |->
             IF n = 0 THEN <<>>
             ELSE IF parse_forwarded_ip(entries[n])
             THEN Append(f[n - 1], entries[n]) ELSE f[n - 1]]
           F == CHOOSE f : Def(f)
<1>1. Parsed(entries) = F[Len(entries)]
  BY DEF Parsed
<1>2. PICK f : AddressesTo(f, entries, len)
  BY AddressesExist
<1>3. Def(f)
  BY <1>2 DEF AddressesTo, parse_forwarded_ip
<1>4. Def(F)
  <2> HIDE DEF Def
  <2> QED
    BY <1>3
<1>5. AddressesTo(F, entries, len)
  <2> HIDE DEF F
  <2> QED
    BY <1>4 DEF AddressesTo, parse_forwarded_ip
<1> QED
  BY <1>1, <1>5

\* Entries that all parse stay at the end of what parses, whatever is written
\* before them.
LEMMA ParsedKeepsTheEnd ==
  ASSUME NEW entries, NEW len \in Nat, Len(entries) = len,
         NEW m \in 0..len,
         \A n \in (m + 1)..len : entries[n] \in Address
  PROVE  \E written \in Nat :
            /\ Parsed(entries) \in Seq(Address)
            /\ Len(Parsed(entries)) = written + (len - m)
            /\ \A j \in 1..(len - m) : Parsed(entries)[written + j] = entries[m + j]
<1>1. PICK f : AddressesTo(f, entries, len) /\ Parsed(entries) = f[len]
  BY ParsedEnds
<1>2. /\ f[0] = <<>>
      /\ \A n \in 1..len : f[n] = IF entries[n] \in Address
                                  THEN Append(f[n - 1], entries[n]) ELSE f[n - 1]
  <2>1. \A n \in 0..len : f[n] = IF n = 0 THEN <<>>
                                 ELSE IF entries[n] \in Address
                                 THEN Append(f[n - 1], entries[n]) ELSE f[n - 1]
    BY <1>1 DEF AddressesTo
  <2> QED
    BY <2>1
<1> DEFINE S == {n \in Nat : n <= len => f[n] \in Seq(Address)}
<1>3. 0 \in S
  <2>1. <<>> \in Seq(Address)
    OBVIOUS
  <2>2. f[0] \in Seq(Address)
    BY <1>2, <2>1, Zenon
  <2> QED
    BY <2>2
<1>4. ASSUME NEW n \in Nat, n \in S PROVE n + 1 \in S
  <2>1. ASSUME n + 1 <= len PROVE f[n + 1] \in Seq(Address)
    <3>1. n + 1 \in 1..len /\ (n + 1) - 1 = n /\ n <= len
      BY <2>1
    <3>2. f[n + 1] = IF entries[n + 1] \in Address
                     THEN Append(f[n], entries[n + 1]) ELSE f[n]
      BY <1>2, <3>1
    <3>3. f[n] \in Seq(Address)
      BY <1>4, <3>1
    <3>4. CASE entries[n + 1] \in Address
      <4>1. Append(f[n], entries[n + 1]) \in Seq(Address)
        BY <3>3, <3>4
      <4> QED
        BY <3>2, <3>4, <4>1, Zenon
    <3>5. CASE entries[n + 1] \notin Address
      BY <3>2, <3>3, <3>5, Zenon
    <3> QED
      BY <3>4, <3>5
  <2> QED
    BY <2>1
<1>5. \A n \in Nat : n \in S
  <2> HIDE DEF S
  <2> QED
    BY <1>3, <1>4, NatSet
<1>6. \A n \in 0..len : f[n] \in Seq(Address)
  BY <1>5
<1> DEFINE w == Len(f[m])
<1>7. w \in Nat
  BY <1>6
<1> DEFINE Kept(k) == /\ Len(f[m + k]) = w + k
                      /\ \A j \in 1..k : f[m + k][w + j] = entries[m + j]
           U == {k \in Nat : k <= len - m => Kept(k)}
<1>8. 0 \in U
  OBVIOUS
<1>9. ASSUME NEW k \in Nat, k \in U PROVE k + 1 \in U
  <2> SUFFICES ASSUME k + 1 <= len - m PROVE Kept(k + 1)
    <3> HIDE DEF Kept
    <3> QED
      OBVIOUS
  <2>1. /\ m + k \in 0..len /\ m + (k + 1) \in (m + 1)..len /\ m + (k + 1) \in 1..len
        /\ (m + (k + 1)) - 1 = m + k /\ m \in Nat
    OBVIOUS
  <2>2. Kept(k)
    BY <1>9
  <2> DEFINE e == entries[m + (k + 1)]
             s == f[m + k]
  <2>3. e \in Address /\ s \in Seq(Address)
    BY <1>6, <2>1
  <2>4. f[m + (k + 1)] = Append(s, e)
    BY <1>2, <2>1, <2>3
  <2>5. Len(s) = w + k /\ \A j \in 1..k : s[w + j] = entries[m + j]
    BY <2>2
  <2> HIDE DEF s, e, w
  <2>6. /\ Len(Append(s, e)) = Len(s) + 1
        /\ Append(s, e)[Len(s) + 1] = e
        /\ \A i \in 1..Len(s) : Append(s, e)[i] = s[i]
    BY <2>3
  <2>7. Len(Append(s, e)) = w + (k + 1)
    BY <1>7, <2>5, <2>6
  <2>8. ASSUME NEW j \in 1..(k + 1) PROVE Append(s, e)[w + j] = entries[m + j]
    <3>1. CASE j = k + 1
      <4>1. w + j = Len(s) + 1
        BY <1>7, <2>5, <3>1
      <4>2. Append(s, e)[w + j] = e
        BY <2>6, <4>1
      <4> QED
        BY <3>1, <4>2 DEF e
    <3>2. CASE j \in 1..k
      <4>1. w + j \in 1..Len(s)
        BY <1>7, <2>5, <3>2
      <4>2. Append(s, e)[w + j] = s[w + j]
        BY <2>6, <4>1
      <4> QED
        BY <2>5, <3>2, <4>2
    <3>3. j = k + 1 \/ j \in 1..k
      OBVIOUS
    <3> QED
      BY <3>1, <3>2, <3>3, Zenon
  <2> QED
    BY <2>4, <2>7, <2>8 DEF s
<1>10. \A k \in Nat : k \in U
  <2> HIDE DEF U
  <2> QED
    BY <1>8, <1>9, NatSet
<1>11. len - m \in Nat /\ m + (len - m) = len
  OBVIOUS
<1>12. Kept(len - m)
  <2> HIDE DEF Kept
  <2> QED
    BY <1>10, <1>11
<1>13. f[len] \in Seq(Address)
  BY <1>6
<1>14. /\ Len(f[len]) = w + (len - m)
       /\ \A j \in 1..(len - m) : f[len][w + j] = entries[m + j]
  BY <1>11, <1>12
<1> HIDE DEF w
<1> QED
  BY <1>1, <1>7, <1>13, <1>14, Zenon

\* What the relayer was deployed as: whether it trusts proxies, and how many.
DeployedWell ==
    /\ deployment.proxies \in Seq(Proxy)
    /\ \A l \in {"VOTE", "REGISTER", "READ", "ADMIN"} : Burst(l) \in Nat
    /\ deployment.http.trust_proxy_headers =>
          /\ deployment.http.trusted_proxy_hops \in Nat \ {0}
          /\ Len(deployment.proxies) = deployment.http.trusted_proxy_hops
          /\ deployment.appends \/ Len(deployment.proxies) = 1
    /\ ~deployment.http.trust_proxy_headers => deployment.proxies = <<>>

\* No relayer comes up that trusts a proxy and counts none.
LEMMA TrustCounts ==
  ASSUME NEW d \in Deployment, Starts(d), config(d).http.trust_proxy_headers
  PROVE  config(d).http.trusted_proxy_hops # 0
<1> DEFINE http == HttpConfig(d.env)
<1>1. from_env(d.env) # Refused /\ config(d) = from_env(d.env)
  BY DEF Starts, config, main
<1>2. http # Refused /\ config(d).http = http
  BY <1>1 DEF from_env
<1>3. http.trust_proxy_headers
  BY <1>2
<1>4. PICK wrong, origins, trust, hops, rules, sizes :
         http = IF wrong \/ (trust /\ hops = 0) THEN Refused
                ELSE [cors_allowed_origins |-> origins, trust_proxy_headers |-> trust,
                      trusted_proxy_hops |-> hops, rate_limit |-> rules, size |-> sizes]
  BY Zenon DEF HttpConfig
<1> QED
  BY <1>2, <1>3, <1>4

\* The address a request is charged to is its client's: with proxies in front,
\* the one the first of them saw, whatever the client wrote before it.
LEMMA TheClientIsSeen ==
  ASSUME DeployedWell, NEW client \in Client,
         NEW forged \in Seq(Address \cup {Junk})
  PROVE  client_ip(Arriving(client, forged)) = client
<1> DEFINE p == deployment.proxies
           h == Arriving(client, forged)
           trust == deployment.http.trust_proxy_headers
<1>1. CASE ~trust
  <2>1. p = <<>>
    BY <1>1 DEF DeployedWell
  <2> QED
    BY <1>1, <2>1 DEF client_ip, Arriving
<1>2. CASE trust
  <2> DEFINE n == Len(p)
  <2>1. /\ n \in Nat /\ n >= 1 /\ p \in Seq(Address) /\ p # <<>>
        /\ Larger(deployment.http.trusted_proxy_hops, 1) = n
        /\ deployment.appends \/ n = 1
    BY <1>2 DEF DeployedWell, Larger, Address
  <2>2. client_ip(h) = Chain(h)[Larger(Len(Chain(h)) - (n + 1), 0) + 1]
    BY <1>2, <2>1 DEF client_ip
  <2>3. client \in Address
    BY DEF Address
  <2>4. CASE deployment.appends
    <3> DEFINE m == Len(forged)
               front == SubSeq(p, 1, n - 1)
               xff == forged \o <<client>> \o front
    <3>1. h.xff = xff /\ h.peer = p[n]
      BY <2>1, <2>4 DEF Arriving
    <3>2. m \in Nat /\ front \in Seq(Address) /\ Len(front) = n - 1
      BY <2>1
    <3>3. /\ Len(xff) = m + n
          /\ xff[m + 1] = client
          /\ \A i \in (m + 1)..(m + n) : xff[i] \in Address
      <4> HIDE DEF front, n
      <4>1. Len(xff) = m + n /\ xff[m + 1] = client
        BY <2>1, <2>3, <3>2
      <4>2. ASSUME NEW i \in (m + 2)..(m + n) PROVE xff[i] = front[i - (m + 1)]
        BY <2>1, <2>3, <3>2, <4>2
      <4>3. \A i \in (m + 2)..(m + n) : front[i - (m + 1)] \in Address
        BY <2>1, <3>2
      <4>4. \A i \in (m + 1)..(m + n) : i = m + 1 \/ i \in (m + 2)..(m + n)
        BY <2>1, <3>2
      <4> QED
        BY <2>3, <4>1, <4>2, <4>3, <4>4
    <3> HIDE DEF xff, front, m, n, h
    <3>4. PICK written \in Nat :
             /\ Parsed(xff) \in Seq(Address)
             /\ Len(Parsed(xff)) = written + n
             /\ \A j \in 1..n : Parsed(xff)[written + j] = xff[m + j]
      <4> DEFINE len == m + n
      <4>1. len \in Nat /\ m \in 0..len /\ len - m = n
        BY <2>1, <3>2
      <4>2. Len(xff) = len /\ \A i \in (m + 1)..len : xff[i] \in Address
        BY <3>3
      <4> HIDE DEF len
      <4>3. \E written \in Nat :
               /\ Parsed(xff) \in Seq(Address)
               /\ Len(Parsed(xff)) = written + (len - m)
               /\ \A j \in 1..(len - m) : Parsed(xff)[written + j] = xff[m + j]
        BY <4>1, <4>2, ParsedKeepsTheEnd
      <4> QED
        BY <4>1, <4>3
    <3>5. Parsed(xff) # <<>> /\ Parsed(xff)[written + 1] = client
      <4>1. 1 \in 1..n
        BY <2>1
      <4>2. Parsed(xff)[written + 1] = client
        BY <3>3, <3>4, <4>1
      <4>3. Len(Parsed(xff)) # 0
        BY <2>1, <3>4
      <4> QED
        BY <4>2, <4>3
    <3>6. Chain(h) = Append(Parsed(xff), h.peer)
      BY <3>1, <3>5 DEF Chain
    <3>7. /\ Len(Chain(h)) = written + n + 1
          /\ Chain(h)[written + 1] = client
      <4>1. written + 1 \in 1..Len(Parsed(xff))
        BY <2>1, <3>4
      <4> QED
        BY <3>4, <3>5, <3>6, <4>1
    <3>8. Larger(Len(Chain(h)) - (n + 1), 0) + 1 = written + 1
      BY <2>1, <3>4, <3>7 DEF Larger
    <3> QED
      BY <2>2, <3>7, <3>8 DEF h
  <2>5. CASE ~deployment.appends
    <3>1. n = 1 /\ h.xff = <<>> /\ h.real = client /\ h.peer = p[1]
      BY <2>1, <2>5 DEF Arriving
    <3>2. Parsed(<<>>) = <<>>
      <4>1. PICK f : AddressesTo(f, <<>>, 0) /\ Parsed(<<>>) = f[0]
        <5>1. Len(<<>>) = 0 /\ 0 \in Nat
          OBVIOUS
        <5> QED
          BY <5>1, ParsedEnds
      <4> QED
        BY <4>1 DEF AddressesTo
    <3>3. Chain(h) = Append(<<client>>, p[1])
      BY <2>3, <3>1, <3>2 DEF Chain, parse_forwarded_ip
    <3>4. Len(Chain(h)) = 2 /\ Chain(h)[1] = client
      BY <3>3
    <3>5. Larger(Len(Chain(h)) - (n + 1), 0) + 1 = 1
      BY <3>1, <3>4 DEF Larger
    <3> QED
      BY <2>2, <3>4, <3>5
  <2> QED
    BY <2>4, <2>5
<1> QED
  BY <1>1, <1>2

\* A request on its way to the limiter carries what its client sent.
OnItsWay(r) ==
    req[r].step \in {"arrived", "admitted"} =>
       /\ req[r].route \in Route
       /\ req[r].client \in Client
       /\ \E forged \in Forgery : req[r].headers = Arriving(req[r].client, forged)

GateInv ==
    /\ DeployedWell
    /\ allowance \in [Limiter -> [Address -> Nat]]
    /\ DOMAIN req = Request
    /\ \A r \in Request : OnItsWay(r)

\* Every route's limiter has a rule.
LEMMA Limiters ==
  /\ Limiter \subseteq {"VOTE", "REGISTER", "READ", "ADMIN"}
  /\ \A route \in Route : route # "health" => router[route] \in Limiter
<1>1. \A route \in Route :
         route \in {"health", "ready", "vote", "register", "admin", "read"}
  BY GateAssumption
<1> QED
  BY <1>1 DEF Limiter, router

\* What the limiter charges is the client.
LEMMA ChargeStep ==
  ASSUME GateInv, NEW r \in Request, req[r].step = "admitted"
  PROVE  resolve_client_ip(r) = req[r].client /\ req[r].client \in Address
<1>1. PICK forged \in Forgery : req[r].headers = Arriving(req[r].client, forged)
  BY DEF GateInv, OnItsWay
<1>2. req[r].client \in Client /\ forged \in Seq(Address \cup {Junk})
  BY GateAssumption DEF GateInv, OnItsWay
<1> QED
  BY <1>1, <1>2, TheClientIsSeen DEF GateInv, resolve_client_ip, Address

\* A step of one request.  The others and the deployment stay.
LEMMA MoveKeeps ==
  ASSUME GateInv, NEW r \in Request, NEW new, req' = [req EXCEPT ![r] = new],
         UNCHANGED <<deployment>>,
         allowance' \in [Limiter -> [Address -> Nat]],
         new.step \in {"arrived", "admitted"} =>
            /\ new.route \in Route
            /\ new.client \in Client
            /\ \E forged \in Forgery : new.headers = Arriving(new.client, forged)
  PROVE  GateInv'
<1>1. DeployedWell'
  BY DEF GateInv, DeployedWell, Burst
<1>2. \A c, f : Arriving(c, f)' = Arriving(c, f)
  BY DEF Arriving
<1>3. DOMAIN req' = Request /\ req'[r] = new /\ \A q \in Request : q # r => req'[q] = req[q]
  BY DEF GateInv
<1>4. ASSUME NEW q \in Request PROVE OnItsWay(q)'
  <2>1. CASE q = r
    <3>1. req'[q] = new
      BY <1>3, <2>1
    <3> QED
      BY <1>2, <3>1 DEF OnItsWay, Arriving
  <2>2. CASE q # r
    <3>1. req'[q] = req[q]
      BY <1>3, <2>2
    <3>2. OnItsWay(q)
      BY DEF GateInv
    <3> QED
      BY <1>2, <3>1, <3>2 DEF OnItsWay, Arriving
  <2> QED
    BY <2>1, <2>2
<1> QED
  BY <1>1, <1>3, <1>4 DEF GateInv

\* An answered request, or one that is being handled, is on no way.
LEMMA MoveOn ==
  ASSUME GateInv, NEW r \in Request, NEW new, req' = [req EXCEPT ![r] = new],
         UNCHANGED <<deployment, allowance>>,
         new.step \in {"handling", "funds", "answered"}
  PROVE  GateInv'
<1>1. allowance' \in [Limiter -> [Address -> Nat]]
  BY DEF GateInv
<1> QED
  BY <1>1, MoveKeeps

\* The limiter takes one from the client's own allowance, or finds none.
LEMMA LimitStep ==
  ASSUME GateInv, NEW r \in Request, rate_limit(r)
  PROVE  /\ GateInv'
         /\ \A l \in Limiter, a \in Address :
               allowance'[l][a] < allowance[l][a] => req[r].client = a
         /\ \A l \in Limiter, a \in Address :
               (req'[r].step = "answered" /\ l = router[req[r].route]
                  /\ a = req[r].client) => allowance[l][a] = 0
<1> DEFINE ip == resolve_client_ip(r)
           lim == router[req[r].route]
<1>1. ip = req[r].client /\ ip \in Address /\ req[r].route \in Route
  BY ChargeStep DEF rate_limit, GateInv, OnItsWay
<1>2. \A l \in Limiter, a \in Address : allowance[l][a] \in Nat
  BY DEF GateInv
<1>3. CASE Pass(r) /\ UNCHANGED allowance
  <2>1. PICK new : new.step = "handling" /\ req' = [req EXCEPT ![r] = new]
    BY <1>3 DEF Pass
  <2>2. req'[r].step = "handling"
    BY <2>1 DEF GateInv
  <2>3. GateInv'
    BY <1>3, <2>1, MoveOn DEF rate_limit
  <2> QED
    BY <1>2, <1>3, <2>2, <2>3
<1>4. CASE /\ req[r].route # "health" /\ allowance[lim][ip] > 0 /\ Pass(r)
           /\ allowance' = [allowance EXCEPT ![lim][ip] = @ - 1]
  <2>1. PICK new : new.step = "handling" /\ req' = [req EXCEPT ![r] = new]
    BY <1>4 DEF Pass
  <2>2. req'[r].step = "handling"
    BY <2>1 DEF GateInv
  <2>3. lim \in Limiter
    BY <1>1, <1>4, Limiters
  <2> HIDE DEF lim, ip
  <2>4. allowance[lim][ip] - 1 \in Nat
    BY <1>1, <1>2, <1>4, <2>3
  <2>5. allowance' \in [Limiter -> [Address -> Nat]]
    BY <1>4, <2>4 DEF GateInv
  <2>6. \A l \in Limiter, a \in Address :
           ~(l = lim /\ a = ip) => allowance'[l][a] = allowance[l][a]
    BY <1>4 DEF GateInv
  <2>7. \A l \in Limiter, a \in Address : allowance'[l][a] < allowance[l][a] => a = ip
    BY <1>2, <2>6
  <2>8. GateInv'
    BY <2>1, <2>5, MoveKeeps DEF rate_limit
  <2> QED
    BY <1>1, <2>2, <2>7, <2>8
<1>5. CASE /\ req[r].route # "health" /\ ~(allowance[lim][ip] > 0)
           /\ req' = Answer(r, 429) /\ UNCHANGED allowance
  <2>1. PICK new : new.step = "answered" /\ req' = [req EXCEPT ![r] = new]
    BY <1>5 DEF Answer
  <2>2. GateInv'
    BY <1>5, <2>1, MoveOn DEF rate_limit
  <2>3. lim \in Limiter
    BY <1>1, <1>5, Limiters
  <2>4. allowance[lim][ip] = 0
    BY <1>1, <1>2, <1>5, <2>3
  <2> HIDE DEF ip
  <2> QED
    BY <1>1, <1>2, <1>5, <2>2, <2>4
<1> QED
  BY <1>3, <1>4, <1>5 DEF rate_limit

\* What a step of another kind does to a request at the limiter: it may only
\* time it out.
Charged ==
    \A r \in Request :
       req[r].step = "admitted" =>
          \A l \in Limiter, a \in Address :
             /\ (req'[r].step = "handling" /\ allowance'[l][a] < allowance[l][a])
                   => req[r].client = a
             /\ (req'[r].step = "answered" /\ req'[r].status = 429
                   /\ l = router[req[r].route] /\ a = req[r].client)
                   => allowance[l][a] = 0

\* A step that leaves every request at the limiter there, or times it out,
\* charges nobody.
LEMMA NoCharge ==
  ASSUME \A r \in Request : req[r].step = "admitted" =>
            \/ req'[r].step = "admitted"
            \/ req'[r].step = "answered" /\ req'[r].status # 429
  PROVE  Charged
  BY DEF Charged

\* Any answer but the limiter's.
LEMMA AnswerStep ==
  ASSUME GateInv, NEW r \in Request, NEW status \in Nat, status # 429,
         Respond(r, status)
  PROVE  GateInv' /\ Charged
<1>1. PICK new : /\ new.step = "answered" /\ new.status = status
                 /\ req' = [req EXCEPT ![r] = new]
  BY DEF Respond, Answer
<1>2. GateInv'
  BY <1>1, MoveOn DEF Respond
<1>3. req'[r] = new /\ \A q \in Request : q # r => req'[q] = req[q]
  BY <1>1 DEF GateInv
<1> QED
  BY <1>1, <1>2, <1>3, NoCharge

\* Every step.
LEMMA GateStep ==
  ASSUME GateInv, [Next]_vars
  PROVE  GateInv' /\ Charged
<1>0. \A r \in Request : \A new : req' = [req EXCEPT ![r] = new] =>
         req'[r] = new /\ \A q \in Request : q # r => req'[q] = req[q]
  BY DEF GateInv
<1>1. ASSUME NEW r \in Request, Arrive(r) PROVE GateInv' /\ Charged
  <2>1. PICK route \in Route, client \in Client, forged \in Forgery :
           req' = [req EXCEPT ![r] =
              [step |-> "arrived", route |-> route, client |-> client,
               headers |-> Arriving(client, forged)]]
    BY <1>1 DEF Arrive
  <2> DEFINE new == [step |-> "arrived", route |-> route, client |-> client,
                     headers |-> Arriving(client, forged)]
  <2>2. /\ new.step = "arrived" /\ new.route = route /\ new.client = client
        /\ new.headers = Arriving(client, forged)
    OBVIOUS
  <2>3. req' = [req EXCEPT ![r] = new]
    BY <2>1
  <2> HIDE DEF new
  <2>4. GateInv'
    <3>1. allowance' \in [Limiter -> [Address -> Nat]] /\ UNCHANGED deployment
      BY <1>1 DEF GateInv, Arrive
    <3> QED
      BY <2>2, <2>3, <3>1, MoveKeeps
  <2>5. req[r].step # "admitted"
    BY <1>1 DEF Arrive
  <2> QED
    BY <1>0, <2>3, <2>4, <2>5, NoCharge
<1>2. ASSUME NEW r \in Request, concurrency_limit(r) PROVE GateInv' /\ Charged
  <2>1. req[r].step = "arrived" /\ UNCHANGED <<deployment, allowance>>
    BY <1>2 DEF concurrency_limit
  <2>2. CASE req' = [req EXCEPT ![r].step = "admitted"]
    <3>1. PICK new : /\ new.step = "admitted" /\ new.route = req[r].route
                     /\ new.client = req[r].client /\ new.headers = req[r].headers
                     /\ req' = [req EXCEPT ![r] = new]
      <4> DEFINE new == [req[r] EXCEPT !.step = "admitted"]
      <4>1. req' = [req EXCEPT ![r] = new]
        BY <2>2
      <4>2. /\ new.route = req[r].route /\ new.client = req[r].client
            /\ new.headers = req[r].headers
        OBVIOUS
      <4>3. new.step = "admitted"
        BY <2>1 DEF GateInv
      <4> QED
        BY <4>1, <4>2, <4>3
    <3>2. /\ req[r].route \in Route /\ req[r].client \in Client
          /\ \E forged \in Forgery : req[r].headers = Arriving(req[r].client, forged)
          /\ allowance' \in [Limiter -> [Address -> Nat]]
      BY <2>1 DEF GateInv, OnItsWay
    <3>3. GateInv'
      BY <2>1, <3>1, <3>2, MoveKeeps
    <3> QED
      BY <1>0, <2>1, <3>1, <3>3, NoCharge
  <2>3. CASE req' = Answer(r, 503)
    <3>1. PICK new : new.step = "answered" /\ req' = [req EXCEPT ![r] = new]
      BY <2>3 DEF Answer
    <3>2. GateInv'
      BY <2>1, <3>1, MoveOn
    <3> QED
      BY <1>0, <2>1, <3>1, <3>2, NoCharge
  <2> QED
    BY <1>2, <2>2, <2>3 DEF concurrency_limit
<1>3. ASSUME NEW r \in Request, rate_limit(r) PROVE GateInv' /\ Charged
  <2>1. \A q \in Request : q # r => req'[q] = req[q]
    <3>1. \E new : req' = [req EXCEPT ![r] = new]
      BY <1>3 DEF rate_limit, Pass, Answer
    <3> QED
      BY <1>0, <3>1
  <2>2. ASSUME NEW q \in Request, q # r, req[q].step = "admitted"
        PROVE  req'[q].step = "admitted"
    BY <2>1, <2>2
  <2> QED
    BY <1>3, <2>2, LimitStep DEF Charged
<1>4. ASSUME NEW r \in Request, Timeout(r) PROVE GateInv' /\ Charged
  BY <1>4, AnswerStep DEF Timeout, Dropped
<1>5. ASSUME NEW r \in Request, health(r) PROVE GateInv' /\ Charged
  BY <1>5, AnswerStep DEF health
<1>6. ASSUME NEW r \in Request, readiness(r) PROVE GateInv' /\ Charged
  <2>1. CASE /\ req[r].step = "handling" /\ req' = [req EXCEPT ![r].step = "funds"]
             /\ UNCHANGED <<deployment, available, allowance, balance>>
    <3> DEFINE new == [req[r] EXCEPT !.step = "funds"]
    <3>1. req' = [req EXCEPT ![r] = new]
      BY <2>1
    <3> HIDE DEF new
    <3>2. new.step = "funds"
      BY <2>1 DEF new
    <3>3. GateInv'
      BY <2>1, <3>1, <3>2, MoveOn
    <3> QED
      BY <1>0, <2>1, <3>1, <3>3, NoCharge
  <2>2. \A level : status_code(level) \in Nat /\ status_code(level) # 429
    BY DEF status_code
  <2> QED
    BY <1>6, <2>1, <2>2, AnswerStep DEF readiness
<1>7. ASSUME NEW r \in Request, Handle(r) PROVE GateInv' /\ Charged
  BY <1>7, AnswerStep DEF Handle
<1>8. ASSUME UNCHANGED <<deployment, req>>, allowance' \in [Limiter -> [Address -> Nat]]
      PROVE  GateInv' /\ Charged
  <2>1. GateInv'
    <3>1. DeployedWell'
      BY <1>8 DEF GateInv, DeployedWell, Burst
    <3>2. \A c, f : Arriving(c, f)' = Arriving(c, f)
      BY <1>8 DEF Arriving
    <3>3. ASSUME NEW r \in Request PROVE OnItsWay(r)'
      <4>1. OnItsWay(r)
        BY DEF GateInv
      <4> QED
        BY <1>8, <3>2, <4>1 DEF OnItsWay, Arriving
    <3> QED
      BY <1>8, <3>1, <3>3 DEF GateInv
  <2> QED
    BY <1>8, <2>1, NoCharge
<1>9. ASSUME NEW l \in Limiter, NEW a \in Address, Refill(l, a)
      PROVE  allowance' \in [Limiter -> [Address -> Nat]]
  <2>1. allowance[l][a] + 1 \in Nat
    BY DEF GateInv
  <2> QED
    BY <1>9, <2>1 DEF GateInv, Refill
<1>10. UNCHANGED allowance => allowance' \in [Limiter -> [Address -> Nat]]
  BY DEF GateInv
<1> QED
  BY <1>1, <1>2, <1>3, <1>4, <1>5, <1>6, <1>7, <1>8, <1>9, <1>10
  DEF Next, vars, Refill, Funds

(* A request is charged to the client that sent it, and turned away only when  *)
(* that client's own allowance is used up (client_ip, rate_limit): for any     *)
(* number of proxies that the configuration counts, and whatever entries the   *)
(* client writes into X-Forwarded-For.                                         *)
THEOREM ClientsPayForThemselves == Spec => ChargedToItsClient
<1>1. Init => GateInv
  <2> SUFFICES ASSUME Init PROVE GateInv
    OBVIOUS
  <2>1. PICK d \in Deployment :
           /\ Starts(d)
           /\ deployment = [http |-> config(d).http, health |-> config(d).health,
                            proxies |-> d.proxies, appends |-> d.appends]
    BY DEF Init
  <2>2. /\ deployment.http = config(d).http /\ deployment.proxies = d.proxies
        /\ deployment.appends = d.appends
    BY <2>1
  <2>3. DeployedWell
    <3>1. /\ d.proxies \in Seq(Proxy)
          /\ \A l \in {"VOTE", "REGISTER", "READ", "ADMIN"} :
                config(d).http.rate_limit[l].burst \in Nat
      BY <2>1, GateAssumption
    <3>2. CASE config(d).http.trust_proxy_headers
      <4>1. /\ Len(d.proxies) = config(d).http.trusted_proxy_hops
            /\ d.appends \/ Len(d.proxies) = 1
        BY <2>1, <3>2, GateAssumption
      <4>2. config(d).http.trusted_proxy_hops # 0
        BY <2>1, <3>2, TrustCounts
      <4> QED
        BY <2>2, <3>1, <3>2, <4>1, <4>2 DEF DeployedWell, Burst
    <3>3. CASE ~config(d).http.trust_proxy_headers
      <4>1. d.proxies = <<>>
        BY <2>1, <3>3, GateAssumption
      <4> QED
        BY <2>2, <3>1, <3>3, <4>1 DEF DeployedWell, Burst
    <3> QED
      BY <3>2, <3>3
  <2>4. allowance \in [Limiter -> [Address -> Nat]]
    BY <2>3, Limiters DEF Init, DeployedWell
  <2> QED
    BY <2>3, <2>4 DEF Init, GateInv, OnItsWay, Idle
<1>2. GateInv /\ [Next]_vars => GateInv' /\ [Charged]_vars
  BY GateStep
<1> QED
  BY <1>1, <1>2, PTL DEF Spec, ChargedToItsClient, Charged
=============================================================================
