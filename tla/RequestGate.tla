---------------------------- MODULE RequestGate ----------------------------
(***************************************************************************)
(* The layers every HTTP request passes, outermost first: the deadline,    *)
(* the in-flight budget, client-address resolution, the per-address limit, *)
(* the handler.  The budget is a semaphore taken without waiting; a        *)
(* request dropped by the deadline or by its client returns its permit on  *)
(* the way.  The limiter stands here as an allowance per address           *)
(* (RateLimiter is its detail).                                            *)
(***************************************************************************)
EXTENDS Startup, FiniteSets

CONSTANTS
    Request,        \* requests that can be under way at once
    Client,         \* addresses of clients
    Forgery,        \* X-Forwarded-For entries a client may send itself
    Route,          \* routes in use
    Deployment,     \* environments, each with the proxies in front of it
    MaxBalance      \* bound: balance of the relayer's wallet

\* Addresses are whatever parse_forwarded_ip accepts; this is what it does not.
Junk == "unknown"

Proxy == UNION {{d.proxies[i] : i \in DOMAIN d.proxies} : d \in Deployment}
Address == Client \cup Proxy

\* The configuration a deployment's relayer comes up with, if it does.
config(d) == main(d.env).config
Starts(d) == main(d.env) # Refused

\* A trusting configuration counts the proxies that stand in front of it, and
\* they forward (`appends`: X-Forwarded-For, else X-Real-IP).  What parsed as a
\* number is one.
ASSUME GateAssumption ==
    /\ IsFiniteSet(Request)
    /\ Route \subseteq {"health", "ready", "vote", "register", "admin", "read"}
    /\ \A f \in Forgery : f \in Seq(Address \cup {Junk})
    /\ \A d \in Deployment :
          Starts(d) =>
             /\ d.proxies \in Seq(Proxy)
             /\ config(d).http.size.MAX_CONCURRENT_REQUESTS \in Nat
             /\ \A l \in {"VOTE", "REGISTER", "READ", "ADMIN"} :
                   config(d).http.rate_limit[l].burst \in Nat
             /\ IF config(d).http.trust_proxy_headers
                THEN /\ Len(d.proxies) = config(d).http.trusted_proxy_hops
                     /\ d.appends \/ Len(d.proxies) = 1
                ELSE d.proxies = <<>>

VARIABLES
    deployment,  \* what was read at start-up, and the proxies in front
    available,   \* free permits of the ConcurrencyGuard
    allowance,   \* allowance[l][a]: requests limiter l still allows address a
    balance,     \* the relayer's wallet
    req          \* req[r]: where request r is

vars == <<deployment, available, allowance, balance, req>>

Larger(m, n) == IF m > n THEN m ELSE n
Permits == Larger(deployment.http.size.MAX_CONCURRENT_REQUESTS, 1)
Idle == [step |-> "idle"]

\* The limiter of a route: /health has none, /ready shares the readers'.
router == [vote |-> "VOTE", register |-> "REGISTER", admin |-> "ADMIN",
           read |-> "READ", ready |-> "READ"]
Limiter == {router[route] : route \in Route \ {"health"}}
Burst(l) == deployment.http.rate_limit[l].burst

Init ==
    /\ \E d \in Deployment :
          /\ Starts(d)
          /\ deployment = [http |-> config(d).http, health |-> config(d).health,
                           proxies |-> d.proxies, appends |-> d.appends]
    /\ available = Permits
    /\ allowance = [l \in Limiter |-> [a \in Address |-> Burst(l)]]
    /\ balance = MaxBalance
    /\ req = [r \in Request |-> Idle]
-----------------------------------------------------------------------------
(* The client's address. *)

\* What reaches the relayer: every proxy appends the address it was reached
\* from, the last one is the peer of the connection.
Arriving(client, forged) ==
    LET p == deployment.proxies IN
    IF p = <<>> THEN [peer |-> client, xff |-> forged, real |-> Junk]
    ELSE IF deployment.appends
    THEN [peer |-> p[Len(p)], real |-> Junk,
          xff |-> forged \o <<client>> \o SubSeq(p, 1, Len(p) - 1)]
    ELSE [peer |-> p[1], xff |-> <<>>, real |-> client]

parse_forwarded_ip(entry) == entry \in Address

\* The entries that parse, in their order.
Parsed(entries) ==
    LET upTo[n \in 0..Len(entries)] ==
            IF n = 0 THEN <<>>
            ELSE IF parse_forwarded_ip(entries[n])
            THEN Append(upTo[n - 1], entries[n]) ELSE upTo[n - 1]
    IN  upTo[Len(entries)]

\* They, or X-Real-IP alone, and then the peer.
Chain(headers) ==
    LET xff == Parsed(headers.xff) IN
    Append(IF xff = <<>> /\ parse_forwarded_ip(headers.real)
           THEN <<headers.real>> ELSE xff, headers.peer)

\* Mutant: the peer is not counted as the first hop.
client_ip_one_short(headers) ==
    LET chain == Chain(headers)
        hops == Larger(deployment.http.trusted_proxy_hops, 1) IN
    IF ~deployment.http.trust_proxy_headers THEN headers.peer
    ELSE chain[Larger(Len(chain) - hops - 2, 0) + 1]

client_ip(headers) ==
    LET chain == Chain(headers)
        hops == Larger(deployment.http.trusted_proxy_hops, 1) IN
    IF ~deployment.http.trust_proxy_headers THEN headers.peer
    ELSE chain[Larger(Len(chain) - (hops + 1), 0) + 1]
-----------------------------------------------------------------------------
(* The layers.  A permit is held from "admitted" on. *)

InFlight(r) == req[r].step \in {"admitted", "handling", "funds"}
Answer(r, status) == [req EXCEPT ![r] = [step |-> "answered", status |-> status,
                                         route |-> @.route]]

\* The response leaves through concurrency_limit, which drops the permit.
Respond(r, status) ==
    /\ req' = Answer(r, status)
    /\ available' = available + 1
    /\ UNCHANGED <<deployment, allowance, balance>>

Arrive(r) ==
    /\ req[r].step \in {"idle", "answered"}
    /\ \E route \in Route, client \in Client, forged \in Forgery :
          req' = [req EXCEPT ![r] =
              [step |-> "arrived", route |-> route, client |-> client,
               headers |-> Arriving(client, forged)]]
    /\ UNCHANGED <<deployment, available, allowance, balance>>

try_acquire == available > 0

\* Take a permit or shed, never queue.
concurrency_limit(r) ==
    /\ req[r].step = "arrived"
    /\ IF try_acquire
       THEN /\ available' = available - 1
            /\ req' = [req EXCEPT ![r].step = "admitted"]
       ELSE req' = Answer(r, 503) /\ UNCHANGED available
    /\ UNCHANGED <<deployment, allowance, balance>>

\* The address the request carries from here on.
resolve_client_ip(r) == client_ip(req[r].headers)

Pass(r) == req' = [req EXCEPT ![r] = [step |-> "handling", route |-> @.route]]

rate_limit(r) ==
    /\ req[r].step = "admitted"
    /\ IF req[r].route = "health"
       THEN Pass(r) /\ UNCHANGED <<available, allowance>>
       ELSE LET l == router[req[r].route]
                ip == resolve_client_ip(r) IN
            IF allowance[l][ip] > 0
            THEN /\ allowance' = [allowance EXCEPT ![l][ip] = @ - 1]
                 /\ Pass(r)
                 /\ UNCHANGED available
            ELSE /\ req' = Answer(r, 429)
                 /\ available' = available + 1
                 /\ UNCHANGED allowance
    /\ UNCHANGED <<deployment, balance>>

\* Time refills a limiter.
Refill(l, a) ==
    /\ allowance[l][a] < Burst(l)
    /\ allowance' = [allowance EXCEPT ![l][a] = @ + 1]
    /\ UNCHANGED <<deployment, available, balance, req>>

\* Mutant: the permit is not a guard that returns on drop.
LeakOnDrop(r) ==
    /\ req' = Answer(r, 504)
    /\ UNCHANGED <<deployment, available, allowance, balance>>

\* A future that is dropped inside concurrency_limit drops its permit.
Dropped(r) == Respond(r, 504)

\* The deadline of the TimeoutLayer; also a client that closes its connection,
\* who hears no answer.
Timeout(r) == InFlight(r) /\ Dropped(r)
-----------------------------------------------------------------------------
(* The handlers. *)

health(r) ==
    /\ req[r].step = "handling"
    /\ req[r].route = "health"
    /\ Respond(r, 200)

classify_balance(wei) ==
    IF wei < deployment.health.min_balance_wei THEN "unhealthy"
    ELSE IF wei < deployment.health.low_balance_wei THEN "degraded" ELSE "ok"

status_code(level) == IF level = "unhealthy" THEN 503 ELSE 200

\* GET /ready: the block number first, then the balance; each call may fail.
readiness(r) ==
    /\ req[r].step \in {"handling", "funds"}
    /\ req[r].route = "ready"
    /\ \/ /\ req[r].step = "handling"
          /\ req' = [req EXCEPT ![r].step = "funds"]
          /\ UNCHANGED <<deployment, available, allowance, balance>>
       \/ /\ req[r].step = "funds"
          /\ Respond(r, status_code(classify_balance(balance)))
       \/ Respond(r, status_code("unhealthy"))

\* Any other handler, whatever it answers.
Handle(r) ==
    /\ req[r].step = "handling"
    /\ req[r].route \notin {"health", "ready"}
    /\ \E status \in {200, 502} : Respond(r, status)

\* Votes are paid for, the operator tops the wallet up.
Funds(wei) ==
    /\ wei # balance
    /\ balance' = wei
    /\ UNCHANGED <<deployment, available, allowance, req>>

Next ==
    \/ \E r \in Request :
          \/ Arrive(r) \/ concurrency_limit(r) \/ rate_limit(r)
          \/ Timeout(r)
          \/ health(r) \/ readiness(r) \/ Handle(r)
    \/ \E l \in Limiter, a \in Address : Refill(l, a)
    \/ \E wei \in 0..MaxBalance : Funds(wei)                 \* bound MaxBalance

\* A deadline always fires, and a runtime that accepted a request polls it;
\* no handler, client or operator is relied on.
Fairness ==
    \A r \in Request : WF_vars(Timeout(r)) /\ WF_vars(concurrency_limit(r))

Spec == Init /\ [][Next]_vars /\ Fairness
-----------------------------------------------------------------------------
TypeOK ==
    /\ available \in 0..Permits
    /\ allowance \in [Limiter -> [Address -> Nat]]
    /\ balance \in 0..MaxBalance
    /\ \A r \in Request :
          req[r].step \in {"idle", "arrived", "admitted", "handling", "funds", "answered"}

\* The semaphore's free permits and the requests inside the guard always add
\* up to the budget: no drop, limit or answer leaks a permit or returns two.
PermitsAreConserved ==
    available + Cardinality({r \in Request : InFlight(r)}) = Permits

\* A request is charged to the client that sent it, whatever X-Forwarded-For
\* entries that client wrote, under every deployment whose trusted_proxy_hops
\* counts the proxies in front of it (client_ip): nobody spends the allowance
\* of another address, and nobody is limited while they have their own left.
ChargedToItsClient ==
    [][\A r \in Request :
         req[r].step = "admitted" =>
            \A l \in Limiter, a \in Address :
               /\ (req'[r].step = "handling" /\ allowance'[l][a] < allowance[l][a])
                     => req[r].client = a
               /\ (req'[r].step = "answered" /\ req'[r].status = 429
                     /\ l = router[req[r].route] /\ a = req[r].client)
                     => allowance[l][a] = 0]_vars

\* Shedding is temporary: a relayer at its ceiling has a free permit again,
\* however many backends hang and clients hang up.
OverloadPasses == (available = 0) ~> (available > 0)

\* What router's comment says of /health: "an orchestrator must never be told
\* the process is dead because it is busy".
HealthIsNeverShed ==
    \A r \in Request :
       (req[r].step = "answered" /\ req[r].route = "health") => req[r].status # 503
=============================================================================
