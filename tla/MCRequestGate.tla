---------------------------- MODULE MCRequestGate ----------------------------
(***************************************************************************)
(* Instances of RequestGate for TLC: no proxy, one that appends or sets    *)
(* X-Real-IP, two in a row; and environments no relayer comes up with.     *)
(***************************************************************************)
EXTENDS RequestGate, TLC

\* One permit and one request before a refill, thresholds within MaxBalance.
Small == [RELAYER_PRIVATE_KEY |-> "key", ADMIN_PRIVATE_KEY |-> "key",
          ADMIN_API_KEY |-> "text", RPC_URL |-> "url",
          VOTING_MANAGER_ADDRESS |-> "address",
          REGISTRATION_ELIGIBILITY |-> "open",
          RATE_LIMIT_VOTE_BURST |-> 1, RATE_LIMIT_READ_BURST |-> 1,
          MAX_CONCURRENT_REQUESTS |-> 1,
          RELAYER_MIN_BALANCE_WEI |-> 1, RELAYER_LOW_BALANCE_WEI |-> 2]

Behind(proxies, appends, change) ==
    [env |-> change @@ Small, proxies |-> proxies, appends |-> appends]

Trust(hops) == [TRUST_PROXY_HEADERS |-> "true", TRUSTED_PROXY_HOPS |-> hops]

MCDeployment ==
    {Behind(<<>>, TRUE, [TRUSTED_PROXY_HOPS |-> Blank]),
     Behind(<<"p1">>, TRUE, Trust(1)), Behind(<<"p1">>, FALSE, Trust(1)),
     Behind(<<"p1", "p2">>, TRUE, Trust(2)),
     Behind(<<"p1">>, TRUE, Trust(0)),
     Behind(<<>>, TRUE, [RATE_LIMIT_VOTE_BURST |-> 0]),
     Behind(<<>>, TRUE, [CORS_ALLOWED_ORIGINS |-> <<"https://vote", "*">>]),
     Behind(<<>>, TRUE, [REGISTRATION_ELIGIBILITY |-> "invite"])}

MCForgery == {<<>>, <<"c2", Junk>>}
=============================================================================
