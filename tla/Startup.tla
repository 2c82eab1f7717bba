------------------------------- MODULE Startup -------------------------------
(***************************************************************************)
(* What the relayer does before its first request: the environment is read *)
(* once, checked as a whole and turned into the configuration RequestGate  *)
(* and Admissions run under.  Anything that does not parse or does not fit *)
(* together is Refused, and the process ends.                              *)
(*                                                                         *)
(* An environment maps the names that are set to their values: Blank, or   *)
(* Malformed for text that does not parse, or what the text stands for.    *)
(* Lists are sequences of their comma-separated entries.                   *)
(***************************************************************************)
EXTENDS Integers, Sequences

LOCAL INSTANCE Functions

CONSTANTS Blank, Malformed, Refused, Unlimited

IsSet(env, key) == key \in DOMAIN env

\* env_usize, env_u32, env_u64 and env_u256: a blank value is an unset one.
env_parsed(env, key, default) ==
    IF IsSet(env, key) /\ env[key] # Blank THEN env[key] ELSE default

env_bool(env, key, default) ==
    LET raw == env_parsed(env, key, Blank) IN
    IF raw = Blank THEN default
    ELSE IF raw \in {"1", "true", "yes", "on"} THEN TRUE
    ELSE IF raw \in {"0", "false", "no", "off"} THEN FALSE
    ELSE Malformed

parse_csv_list(env, key) ==
    IF IsSet(env, key) THEN SelectSeq(env[key], LAMBDA entry : entry # Blank)
    ELSE <<>>

\* A number that parsed and is not zero.
Positive(n) == n # Malformed /\ n > 0
-----------------------------------------------------------------------------
rate_rule(env, name, per_minute, burst) ==
    LET rule == [per_minute |->
                    env_parsed(env, "RATE_LIMIT_" \o name \o "_PER_MINUTE", per_minute),
                 burst |-> env_parsed(env, "RATE_LIMIT_" \o name \o "_BURST", burst)] IN
    IF Positive(rule.per_minute) /\ Positive(rule.burst) THEN rule ELSE Refused

\* The numbers that may be anything, zero included.
Sizes == [RATE_LIMIT_MAX_TRACKED_IPS |-> 100000,
          MAX_VOTE_BODY_BYTES |-> 4096, MAX_REGISTER_BODY_BYTES |-> 1024,
          MAX_ADMIN_BODY_BYTES |-> 1048576, MAX_BODY_BYTES |-> 16384,
          REQUEST_TIMEOUT_SECS |-> 20, MAX_CONCURRENT_REQUESTS |-> 64]

\* An origin is Malformed when it does not begin with http:// or https://.
HttpConfig(env) ==
    LET origins == Range(parse_csv_list(env, "CORS_ALLOWED_ORIGINS"))
        trust == env_bool(env, "TRUST_PROXY_HEADERS", FALSE)
        hops == env_parsed(env, "TRUSTED_PROXY_HOPS", 1)
        rules == [VOTE |-> rate_rule(env, "VOTE", 5, 5),
                  REGISTER |-> rate_rule(env, "REGISTER", 3, 3),
                  READ |-> rate_rule(env, "READ", 120, 60),
                  ADMIN |-> rate_rule(env, "ADMIN", 60, 30)]
        sizes == [key \in DOMAIN Sizes |-> env_parsed(env, key, Sizes[key])]
    IN
    IF \/ {"*", Malformed} \cap origins # {}
       \/ trust = Malformed \/ hops = Malformed
       \/ trust /\ hops = 0
       \/ Refused \in Range(rules)
       \/ Malformed \in Range(sizes)
    THEN Refused
    ELSE [cors_allowed_origins |-> origins, trust_proxy_headers |-> trust,
          trusted_proxy_hops |-> hops, rate_limit |-> rules, size |-> sizes]

GasConfig(env) ==
    LET gwei == env_parsed(env, "MAX_FEE_PER_GAS_GWEI", 150) IN
    IF Positive(gwei) THEN [max_fee_per_gas_gwei |-> gwei] ELSE Refused

\* In units of 0.01 ETH.
HealthConfig(env) ==
    LET min == env_parsed(env, "RELAYER_MIN_BALANCE_WEI", 1)
        low == env_parsed(env, "RELAYER_LOW_BALANCE_WEI", 5) IN
    IF Malformed \in {min, low} THEN Refused
    ELSE IF low < min THEN Refused
    ELSE [min_balance_wei |-> min, low_balance_wei |-> low]

\* The spellings of a policy; an empty one is none of them.
EligibilityPolicyKind(raw) ==
    CASE raw = "open" -> "open"
      [] raw \in {"invite-code", "invite_code", "invite"} -> "invite-code"
      [] raw \in {"allowlist", "allow-list"} -> "allowlist"
      [] OTHER -> Malformed

\* A code without a limit is Unlimited; of two entries for a code the later
\* one counts.
parse_invite_codes(env) ==
    LET entries == parse_csv_list(env, "REGISTRATION_INVITE_CODES")
        last(code) == CHOOSE i \in DOMAIN entries :
                         /\ entries[i].code = code
                         /\ \A j \in DOMAIN entries :
                               j > i => entries[j].code # code
    IN
    IF \E i \in DOMAIN entries :
          entries[i].max_uses \in {Malformed, 0} \/ entries[i].code = Blank
    THEN Refused
    ELSE [code \in {entries[i].code : i \in DOMAIN entries} |->
             entries[last(code)].max_uses]

RegistrationConfig(env) ==
    LET policy == EligibilityPolicyKind(
                     IF IsSet(env, "REGISTRATION_ELIGIBILITY")
                     THEN env["REGISTRATION_ELIGIBILITY"] ELSE "invite-code")
        codes == parse_invite_codes(env)
        file == env_parsed(env, "REGISTRATION_ALLOWLIST_FILE", Blank)
        max_per_source == env_parsed(env, "REGISTRATION_MAX_PER_SOURCE", 5)
        max_pending == env_parsed(env, "REGISTRATION_MAX_PENDING", 10000)
        approval == env_bool(env, "REGISTRATION_REQUIRE_APPROVAL", TRUE)
    IN
    IF \/ policy = Malformed \/ codes = Refused \/ approval = Malformed
       \/ policy = "invite-code" /\ DOMAIN codes = {}
       \/ policy = "allowlist" /\ file = Blank
       \/ ~Positive(max_per_source) \/ ~Positive(max_pending)
    THEN Refused
    ELSE [policy |-> policy, invite_codes |-> codes, allowlist_file |-> file,
          require_approval |-> approval, max_per_source |-> max_per_source,
          max_pending |-> max_pending]

Required == {"RELAYER_PRIVATE_KEY", "ADMIN_PRIVATE_KEY", "ADMIN_API_KEY",
             "RPC_URL", "VOTING_MANAGER_ADDRESS"}
Listen == {"RELAYER_LISTEN_ADDR", "RELAYER_LISTEN_PORT"}

\* Keys, address, listener and (in main) the URL have to parse; the API key
\* only has to be something.
from_env(env) ==
    LET parts == [http |-> HttpConfig(env), gas |-> GasConfig(env),
                  health |-> HealthConfig(env),
                  registration |-> RegistrationConfig(env)] IN
    IF \/ ~(Required \subseteq DOMAIN env)
       \/ \E key \in Required \cup (Listen \cap DOMAIN env) :
             env[key] \in {Blank, Malformed}
       \/ \E part \in DOMAIN parts : parts[part] = Refused
    THEN Refused
    ELSE parts
-----------------------------------------------------------------------------
\* The lines of the file, without blank ones and comments.
parse_allowlist(lines) ==
    IF Malformed \in Range(lines) THEN Refused ELSE Range(lines) \ {Blank}

\* An allowlist file is its lines, or Malformed when it cannot be read.
from_file(file) == IF file = Malformed THEN Refused ELSE parse_allowlist(file)

\* The policy of a configuration that was accepted: what it lets in.
build_policy(config) ==
    LET allowed == IF config.policy = "allowlist"
                   THEN from_file(config.allowlist_file) ELSE {} IN
    IF allowed = Refused THEN Refused
    ELSE [name |-> config.policy, codes |-> config.invite_codes,
          allowed |-> allowed]

\* The store is loaded between the two; see Admissions.
main(env) ==
    LET config == from_env(env) IN
    IF config = Refused THEN Refused
    ELSE LET policy == build_policy(config.registration) IN
         IF policy = Refused THEN Refused ELSE [config |-> config, policy |-> policy]
==============================================================================
