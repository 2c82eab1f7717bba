----------------------------- MODULE Admissions -----------------------------
(***************************************************************************)
(* How a commitment reaches the registration store: POST /api/register     *)
(* with the eligibility policy the relayer was started with.  The policy   *)
(* is asked before the store's mutex is taken, and what it counted is      *)
(* neither given back nor written down.  A restart reads the environment   *)
(* again, which may have changed.                                          *)
(*                                                                         *)
(* The administrator's side, and the behaviours of the whole, are in       *)
(* RegistrationPanel.                                                      *)
(***************************************************************************)
EXTENDS RegistrationStore, Startup

CONSTANTS
    Environment,  \* environments the relayer may be started in
    NoCode        \* a request without the X-Invite-Code header

Accepted == {env \in Environment : main(env) # Refused}

\* The store's caps are the same in every life, and a limit that parsed is a
\* number.
ASSUME AdmissionsAssumption ==
    /\ Accepted # {}
    /\ \A env \in Accepted :
          LET registration == main(env).config.registration IN
          /\ NoCode \notin DOMAIN registration.invite_codes
          /\ \A k \in DOMAIN registration.invite_codes :
                registration.invite_codes[k] \in Nat \cup {Unlimited}
          /\ registration.require_approval = RequireApproval
          /\ registration.max_per_source = MaxPerSource
          /\ registration.max_pending = MaxPending

VARIABLES
    policy,    \* the policy built at start-up
    used,      \* InviteCodePolicy::used
    entering,  \* granted registrations on their way to the mutex
    enrolled   \* enrolled[k]: entries this process took under code k

policyVars == <<policy, used, entering, enrolled>>

NoUses(p) == [k \in DOMAIN p.codes |-> 0]

PolicyInit ==
    /\ policy \in {main(env).policy : env \in Accepted}
    /\ used = NoUses(policy)
    /\ entering = {}
    /\ enrolled = NoUses(policy)
-----------------------------------------------------------------------------
UsesLeft(k) == policy.codes[k] = Unlimited \/ used[k] < policy.codes[k]

\* Mutant: the last use is granted once more.
UsesLeftAndOne(c, k) ==
    \/ policy.name = "open"
    \/ /\ policy.name = "invite-code" /\ k \in DOMAIN policy.codes
       /\ policy.codes[k] = Unlimited \/ used[k] <= policy.codes[k]
    \/ policy.name = "allowlist" /\ c \in policy.allowed

\* EligibilityPolicy::check of the three policies.
check(c, k) ==
    \/ policy.name = "open"
    \/ policy.name = "invite-code" /\ k \in DOMAIN policy.codes /\ UsesLeft(k)
    \/ policy.name = "allowlist" /\ c \in policy.allowed

\* The code a grant is noted under.
Note(k) == IF policy.name = "invite-code" THEN k ELSE NoCode

\* What the header of a request may say, other codes being like none at all.
\* The page never sets it.
invite_code == DOMAIN policy.codes \cup {NoCode}

\* The handler up to the store's mutex: a granted use is spent here.
register_handler(c, k) ==
    /\ up
    /\ check(c, k)
    /\ [commitment |-> c, code |-> Note(k)] \notin entering
    /\ entering' = entering \cup {[commitment |-> c, code |-> Note(k)]}
    /\ used' = IF policy.name = "invite-code"
               THEN [used EXCEPT ![k] = @ + 1] ELSE used
    /\ UNCHANGED <<vars, policy, enrolled>>

\* The store takes the commitment ...
Enroll(q) ==
    /\ register(q.commitment)
    /\ entering' = entering \ {q}
    /\ enrolled' = IF q.code = NoCode THEN enrolled
                   ELSE [enrolled EXCEPT ![q.code] = @ + 1]
    /\ UNCHANGED <<policy, used>>

\* ... or refuses it (a duplicate, a full batch, a source at its cap), or the
\* request is dropped while it waits.  The use stays spent.
NotEnrolled(q) ==
    /\ up
    /\ entering' = entering \ {q}
    /\ UNCHANGED <<vars, policy, used, enrolled>>

\* The process ends, with the requests in it ...
Stop ==
    /\ Crash
    /\ entering' = {}
    /\ UNCHANGED <<policy, used, enrolled>>

\* ... and the policy is built anew, with fresh counters, once the environment
\* is accepted and the store is loaded.
Start ==
    /\ load
    /\ \E env \in Accepted : policy' = main(env).policy
    /\ used' = NoUses(policy')
    /\ enrolled' = NoUses(policy')
    /\ UNCHANGED entering
-----------------------------------------------------------------------------
\* In one life of the process a code never enrolls more commitments than it
\* has uses, over duplicates, full batches, failed writes and dropped
\* requests: a leaked code's damage is bounded by its uses and the restarts.
CodeBudgetHolds ==
    \A k \in DOMAIN enrolled :
       policy.codes[k] = Unlimited \/ enrolled[k] <= policy.codes[k]

\* What the comment on INVITE_CODE_HEADER says of the page ("the browser sets
\* it trivially"), and the code does not keep: a voter registering there is
\* not refused while an invite code has uses left.
PageRegistersInvited ==
    \A c \in Commitment :
       (policy.name = "invite-code" /\ \E k \in DOMAIN policy.codes : UsesLeft(k))
          => check(c, NoCode)
=============================================================================
