---------------------------- MODULE MCAdmissions ----------------------------
(***************************************************************************)
(* Instances of RegistrationPanel for TLC: two commitments of one source,  *)
(* a code with one use, an allowlist with one of the two, and environments *)
(* no relayer comes up with.                                               *)
(***************************************************************************)
EXTENDS RegistrationPanel, TLC

CONSTANTS c1, c2, k1, here

MCSourceOf == c1 :> here @@ c2 :> here

Common == [RELAYER_PRIVATE_KEY |-> "key", ADMIN_PRIVATE_KEY |-> "key",
           ADMIN_API_KEY |-> "text", RPC_URL |-> "url",
           VOTING_MANAGER_ADDRESS |-> "address",
           REGISTRATION_MAX_PER_SOURCE |-> 1, REGISTRATION_MAX_PENDING |-> 2]

OneUse == [code |-> k1, max_uses |-> 1]

MCEnvironment ==
    {[REGISTRATION_INVITE_CODES |-> <<OneUse, Blank>>] @@ Common,
     [REGISTRATION_ELIGIBILITY |-> "allow-list",
      REGISTRATION_ALLOWLIST_FILE |-> <<Blank, c1>>] @@ Common,
     Common,
     [REGISTRATION_ELIGIBILITY |-> "allowlist",
      REGISTRATION_ALLOWLIST_FILE |-> Malformed] @@ Common,
     [REGISTRATION_INVITE_CODES |-> <<OneUse>>,
      REGISTRATION_REQUIRE_APPROVAL |-> "maybe"] @@ Common}

\* The store's history variables: no guard reads them, nor a property here.
WithoutHistory == <<up, mem, holder, late, data, tmp, target, tab, faults,
                    crashes, policyVars, panelVars>>

InodeSymmetry == Permutations(Inode)
=============================================================================
