------------------------------- MODULE Relay -------------------------------
(***************************************************************************)
(* The relayer's transaction endpoints: POST /api/vote and the admin poll  *)
(* endpoints.  A request is validated, simulated against the latest block, *)
(* priced, signed and handed to a node, and answered without waiting for   *)
(* inclusion.  Every await is a step: the chain moves, the RPC fails and   *)
(* the timeout layer drops the request in between.  Each of the two keys   *)
(* signs with nonces its provider counts by itself, and a node includes    *)
(* them in order.  The contract is VotingManager; anybody may also send it *)
(* transactions directly.                                                  *)
(***************************************************************************)
EXTENDS VotingManager

CONSTANTS
    Request,       \* requests the relayer receives
    Body,          \* Body[r]: the calls r may ask for
    AdminAddress,  \* address of admin_private_key
    Fee,           \* fees a node may quote
    max_fee_per_gas_wei   \* the configured ceiling

VoteCall == [op : {"castVote"}, id : 0..MaxPolls, proof : Proof,
             nullifierHash : NullifierHash, voteOption : Option]
CreateCall == [op : {"createPoll"}, merkleRoot : MerkleRoot,
               numOptions : Option, deadline : Time]
RetireCall == [op : {"closePoll", "cancelPoll", "voidPoll"}, id : PollId]
Call == VoteCall \cup CreateCall \cup RetireCall

ASSUME RelayAssumption ==
    /\ Body \in [Request -> SUBSET Call]
    /\ AdminAddress \in Account
    /\ Fee \subseteq Nat
    /\ max_fee_per_gas_wei \in Nat

VARIABLES
    req,       \* req[r]: the locals of the handler serving r
    cache,     \* cache[w]: the last nonce drawn for w, 0 before the first
    drawn,     \* history: which request drew which nonce
    wire,      \* signed transactions on their way to a node
    pool,      \* transactions a node holds
    evicted,   \* transactions a node held and has dropped
    receipts,  \* mined transactions
    count      \* count[w]: transactions of w the chain has included

nonceVars == <<cache, drawn>>
nodeVars == <<wire, pool, evicted, receipts, count>>
relayVars == <<req, nonceVars, nodeVars>>
allVars == <<vars, relayVars>>
-----------------------------------------------------------------------------
(* What a call would do in the latest block: the error of the first check   *)
(* that fails, in the contract's order, or "none".                          *)

castVoteError(c) ==
    IF c.id \notin PollId \/ ~polls[c.id].exists THEN "PollDoesNotExist"
    ELSE IF polls[c.id].status # "Open" THEN "PollNotActive"
    ELSE IF now > polls[c.id].deadline THEN "PollEnded"
    ELSE IF c.voteOption >= polls[c.id].numOptions THEN "InvalidVoteOption"
    ELSE IF c.nullifierHash \in nullifierUsed[c.id] THEN "AlreadyVoted"
    ELSE IF ~verifyProof(c.proof, pubSignals(c.id, c.nullifierHash, c.voteOption))
         THEN "InvalidProof"
    ELSE "none"

createPollError(c) ==
    IF AdminAddress # owner THEN "Unauthorized"
    ELSE IF c.numOptions < 2 THEN "InvalidNumOptions"
    ELSE IF c.deadline <= now THEN "InvalidDeadline"
    ELSE IF nextPollId \notin PollId THEN "bound MaxPolls"
    ELSE "none"

retireError(c) ==
    IF AdminAddress # owner THEN "Unauthorized"
    ELSE IF ~polls[c.id].exists THEN "PollDoesNotExist"
    ELSE IF polls[c.id].status # "Open" THEN "PollNotOpen"
    ELSE IF c.op = "closePoll" /\ now <= polls[c.id].deadline THEN "PollStillOpen"
    ELSE IF c.op = "cancelPoll" /\ polls[c.id].totalVotes # 0 THEN "PollHasVotes"
    ELSE "none"

RevertOf(c) ==
    IF c.op = "castVote" THEN castVoteError(c)
    ELSE IF c.op = "createPoll" THEN createPollError(c)
    ELSE retireError(c)

\* The transaction's effect when nothing fails.
Execute(c) ==
    \/ /\ c.op = "castVote"
       /\ castVote(c.id, c.proof, c.nullifierHash, c.voteOption)
    \/ /\ c.op = "createPoll"
       /\ createPoll(AdminAddress, c.merkleRoot, c.numOptions, c.deadline)
    \/ c.op = "closePoll" /\ closePoll(AdminAddress, c.id)
    \/ c.op = "cancelPoll" /\ cancelPoll(AdminAddress, c.id)
    \/ c.op = "voidPoll" /\ voidPoll(AdminAddress, c.id)
-----------------------------------------------------------------------------
(* The handlers, from the body to the answer. *)

Idle == [step |-> "idle"]
Working == {"received", "simulated", "priced", "signing", "sending"}
InFlight(r) == req[r].step \in Working

\* The answers that end r; a 409 names the revert the simulation met.
Answer(status) == [step |-> "answered", status |-> status]
Answered(r, status) == req' = [req EXCEPT ![r] = Answer(status)]
Refused(r, error) ==
    req' = [req EXCEPT ![r] = [step |-> "answered", status |-> 409,
                               call |-> @.call, error |-> error]]

\* A body that passed its checks starts a submission.
Begin(r, c) == req' = [req EXCEPT ![r] = [step |-> "received", call |-> c,
                                          sim |-> "none", nonce |-> 0]]

is_in_field(word) == word.wrap = 0

\* Decoding the body: NullifierHash::try_from.
ensure_in_field(c) == is_in_field(c.nullifierHash)

\* VoteRequest::validate, of a body that could be decoded.  (Proofs of another
\* length than the 256 bytes of a Groth16 proof are left out.)
validate(c) == c.id # 0 /\ ensure_in_field(c)

cast_vote(r) ==
    /\ req[r] = Idle
    /\ \E c \in {b \in Body[r] : b.op = "castVote"} :
          IF validate(c) THEN Begin(r, c) ELSE Answered(r, 400)
    /\ UNCHANGED <<vars, nonceVars, nodeVars>>

validate_create_poll_request(c) == c.numOptions >= 2 /\ c.deadline # 0

\* What the Authorization header may carry.
Key == {"none", "empty", "wrong", "right"}

constant_time_eq(key, expected) == key = expected

require_admin_auth(key) ==
    key \notin {"none", "empty"} /\ constant_time_eq(key, "right")

\* The bearer key is compared before the fields of the body are checked.
create_poll(r) ==
    /\ req[r] = Idle
    /\ \E c \in {b \in Body[r] : b.op = "createPoll"}, key \in Key :
          IF ~require_admin_auth(key) THEN Answered(r, 401)
          ELSE IF validate_create_poll_request(c) THEN Begin(r, c)
          ELSE Answered(r, 400)
    /\ UNCHANGED <<vars, nonceVars, nodeVars>>

\* The poll id in the path, as a decimal or a hexadecimal number.
parse_poll_id(path) == path \notin {"blank", "not a number"}

\* close_poll, cancel_poll and void_poll; a blank reason is a 400.
retire_poll(r) ==
    /\ req[r] = Idle
    /\ \E c \in {b \in Body[r] : b.op \notin {"castVote", "createPoll"}},
          key \in Key, reason \in BOOLEAN, path \in {"1", "0x1", "blank", "not a number"} :
          IF ~require_admin_auth(key) THEN Answered(r, 401)
          ELSE IF parse_poll_id(path) /\ (reason \/ c.op = "closePoll")
          THEN Begin(r, c)
          ELSE Answered(r, 400)
    /\ UNCHANGED <<vars, nonceVars, nodeVars>>

\* Mutant: a row of the decoding table forgotten.
KnownWithoutProof == {"AlreadyVoted", "PollNotActive", "PollEnded",
    "PollDoesNotExist", "InvalidVoteOption"}

\* The reverts the two decoding tables know.
describe_known_revert == {"AlreadyVoted", "PollNotActive", "PollEnded",
    "PollDoesNotExist", "InvalidVoteOption", "InvalidProof"}
describe_admin_revert == {"PollStillOpen", "PollHasVotes", "PollNotOpen",
    "PollVoided", "PollDoesNotExist", "Unauthorized", "InvalidDeadline",
    "InvalidNumOptions", "NotPendingOwner", "NoPendingOwner"}

\* Mutant: a failed RPC call read as a revert.
SimulateStrictly(r, known) ==
    /\ req[r].step = "received"
    /\ LET error == RevertOf(req[r].call) IN
       \/ Refused(r, "PollNotActive")
       \/ IF error \in known THEN Refused(r, error)
          ELSE req' = [req EXCEPT ![r].step = "simulated", ![r].sim = "answered"]
    /\ UNCHANGED <<vars, nonceVars, nodeVars>>

\* eth_call against the latest block: a known revert is a 409, anything else,
\* an RPC failure included, goes on.
Simulate(r, known) ==
    /\ req[r].step = "received"
    /\ \/ LET error == RevertOf(req[r].call) IN
          IF error \in known THEN Refused(r, error)
          ELSE req' = [req EXCEPT ![r].step = "simulated", ![r].sim = "answered"]
       \/ req' = [req EXCEPT ![r].step = "simulated", ![r].sim = "failed"]
    /\ UNCHANGED <<vars, nonceVars, nodeVars>>

submit_vote(r) ==
    /\ req[r].step = "received"
    /\ req[r].call.op = "castVote"
    /\ Simulate(r, describe_known_revert)

\* submit_close_poll, submit_cancel_poll, submit_void_poll.
submit_retirement(r) ==
    /\ req[r].step = "received"
    /\ req[r].call.op \notin {"castVote", "createPoll"}
    /\ Simulate(r, describe_admin_revert)

enforce_gas_ceiling(fee) == fee <= max_fee_per_gas_wei

\* An estimate above the ceiling refuses, a failed estimate does not.
Estimate(r) ==
    /\ \/ \E fee \in Fee :
             IF enforce_gas_ceiling(fee)
             THEN req' = [req EXCEPT ![r].step = "priced"]
             ELSE Answered(r, 503)
       \/ req' = [req EXCEPT ![r].step = "priced"]
    /\ UNCHANGED <<vars, nonceVars, nodeVars>>

\* The keys that sign: votes with the relayer's, poll calls with the admin's.
Wallet == {"relayer", "admin"}
WalletOf(c) == IF c.op = "castVote" THEN "relayer" ELSE "admin"

\* The first nonce of a wallet is asked of the chain, the next ones follow it
\* without asking (nonces are counted from 1).
NextNonce(w) == IF cache[w] = 0 THEN count[w] + 1 ELSE cache[w] + 1

\* A nonce is drawn for r; nothing ever gives it back.
Draw(r) ==
    LET w == WalletOf(req[r].call) IN
    /\ cache' = [cache EXCEPT ![w] = NextNonce(w)]
    /\ drawn' = drawn \cup {[wallet |-> w, nonce |-> NextNonce(w), request |-> r]}

\* Mutant: the ceiling is compared with the filled transaction.
PriceAfterFilling(r) ==
    /\ req[r].step = "simulated"
    /\ Draw(r)
    /\ \E fee \in Fee :
          IF enforce_gas_ceiling(fee)
          THEN req' = [req EXCEPT ![r].step = "signing",
                                  ![r].nonce = NextNonce(WalletOf(req[r].call))]
          ELSE Answered(r, 503)
    /\ UNCHANGED <<vars, nodeVars>>

check_gas_ceiling(r) ==
    /\ req[r].step = "simulated"
    /\ Estimate(r)

\* createPoll is not simulated.
submit_create_poll(r) ==
    /\ req[r].step = "received"
    /\ req[r].call.op = "createPoll"
    /\ Estimate(r)

\* The fillers start with the nonce, or one of them fails before (a 502).
FillNonce(r) ==
    /\ req[r].step = "priced"
    /\ \/ /\ Draw(r)
          /\ req' = [req EXCEPT ![r].step = "signing",
                                ![r].nonce = NextNonce(WalletOf(req[r].call))]
       \/ Answered(r, 502) /\ UNCHANGED nonceVars
    /\ UNCHANGED <<vars, nodeVars>>

Tx(r) == [request |-> r, call |-> req[r].call, sim |-> req[r].sim,
          nonce |-> req[r].nonce]

\* Mutant: the price is looked at after the transaction has left.
SendUnpriced(r) ==
    /\ req[r].step = "simulated"
    /\ req' = [req EXCEPT ![r].step = "simulated"]
    /\ wire' = wire \cup {Tx(r)}
    /\ UNCHANGED <<vars, nonceVars, pool, evicted, receipts, count>>

\* The transaction is signed and written to the node, unless another filler
\* fails (a 502): the gas estimate, for one, of a call that reverts.
Send(r) ==
    /\ req[r].step = "signing"
    /\ \/ /\ req' = [req EXCEPT ![r].step = "sending"]
          /\ wire' = wire \cup {Tx(r)}
       \/ Answered(r, 502) /\ UNCHANGED wire
    /\ UNCHANGED <<vars, nonceVars, pool, evicted, receipts, count>>

\* A node has taken r's transaction, whatever became of it.
HeldByNode(r) ==
    \E tx \in pool \cup evicted \cup {x.tx : x \in receipts} : tx.request = r

\* The node's acknowledgement arrives: 200, not waiting for inclusion.
AnswerBroadcast(r) ==
    /\ req[r].step = "sending"
    /\ HeldByNode(r)
    /\ Answered(r, 200)
    /\ UNCHANGED <<vars, nonceVars, nodeVars>>

\* The connection breaks while send() waits, or the node refuses.
SendFails(r) ==
    /\ req[r].step = "sending"
    /\ Answered(r, 502)
    /\ UNCHANGED <<vars, nonceVars, nodeVars>>

\* The timeout layer drops the handler wherever it is.
Timeout(r) ==
    /\ InFlight(r)
    /\ Answered(r, 504)
    /\ UNCHANGED <<vars, nonceVars, nodeVars>>
-----------------------------------------------------------------------------
(* The node and the chain. *)

NodeAccepts(tx) ==
    /\ tx \in wire
    /\ wire' = wire \ {tx}
    /\ pool' = pool \cup {tx}
    /\ UNCHANGED <<vars, req, nonceVars, evicted, receipts, count>>

\* Lost on the way, or refused by the node.
WireLoses(tx) ==
    /\ tx \in wire
    /\ wire' = wire \ {tx}
    /\ UNCHANGED <<vars, req, nonceVars, pool, evicted, receipts, count>>

\* The pool drops a transaction: too cheap, too old, or its nonce is used.
Evict(tx) ==
    /\ tx \in pool
    /\ pool' = pool \ {tx}
    /\ evicted' = evicted \cup {tx}
    /\ UNCHANGED <<vars, req, nonceVars, wire, receipts, count>>

\* A block includes the transaction whose nonce is next for its key; a revert
\* changes nothing but is paid for.
Mine(tx) ==
    /\ tx \in pool
    /\ tx.nonce = count[WalletOf(tx.call)] + 1
    /\ count' = [count EXCEPT ![WalletOf(tx.call)] = @ + 1]
    /\ pool' = pool \ {tx}
    /\ receipts' = receipts \cup {[tx |-> tx, error |-> RevertOf(tx.call)]}
    /\ IF RevertOf(tx.call) = "none" THEN Execute(tx.call) ELSE UNCHANGED vars
    /\ UNCHANGED <<req, nonceVars, wire, evicted>>

\* Transactions that do not come through this relayer, and time.  The admin's
\* key may sign elsewhere too, which uses up a nonce.  Handovers are left to
\* VotingManager's own run: here the owner stays who it was.
Elsewhere ==
    /\ \/ \E sender \in Account :
             /\ OwnerStep(sender)
             /\ count' = [count EXCEPT !["admin"] =
                             IF sender = AdminAddress THEN @ + 1 ELSE @]
       \/ (VoteStep \/ Tick) /\ UNCHANGED count
    /\ UNCHANGED <<admin, req, nonceVars, wire, pool, evicted, receipts>>

Handler(r) ==
    \/ cast_vote(r)
    \/ create_poll(r)
    \/ retire_poll(r)
    \/ submit_vote(r)
    \/ submit_retirement(r)
    \/ submit_create_poll(r)
    \/ check_gas_ceiling(r)
    \/ FillNonce(r)
    \/ Send(r)
    \/ AnswerBroadcast(r)
    \/ SendFails(r)
    \/ Timeout(r)

RelayInit ==
    /\ Init
    /\ req = [r \in Request |-> Idle]
    /\ cache = [w \in Wallet |-> 0]
    /\ drawn = {}
    /\ wire = {}
    /\ pool = {}
    /\ evicted = {}
    /\ receipts = {}
    /\ count = [w \in Wallet |-> 0]

RelayNext ==
    \/ \E r \in Request : Handler(r)
    \/ \E tx \in wire : NodeAccepts(tx) \/ WireLoses(tx)
    \/ \E tx \in pool : Evict(tx) \/ Mine(tx)
    \/ Elsewhere

\* Safety only: nothing obliges a node to include what it holds, and behind an
\* unused nonce it cannot.
RelaySpec == RelayInit /\ [][RelayNext]_allVars
-----------------------------------------------------------------------------
SentTxs == wire \cup pool \cup evicted \cup {x.tx : x \in receipts}
TxsOf(r) == {tx \in SentTxs : tx.request = r}

\* Reasons that no later block can take back.
FinalReverts == {"AlreadyVoted", "PollNotActive", "PollEnded",
    "InvalidVoteOption", "InvalidProof", "PollNotOpen", "PollHasVotes"}

\* A request refused for a reason of FinalReverts would never have succeeded:
\* no later transaction with the same call does (submit_vote's pre-simulation
\* refuses no vote that could have been counted).
RefusalIsFinal ==
    [][\A x \in receipts' \ receipts, r \in Request :
         (req[r].step = "answered" /\ req[r].status = 409
            /\ req[r].error \in FinalReverts
            /\ req[r].call = x.tx.call) => x.error # "none"]_allVars

\* A request refused with 400, 401, 409 or 503 has left no transaction behind,
\* now or later, so the relayer pays nothing for it.
RefusedMeansNotSent ==
    \A r \in Request :
       (req[r].step = "answered" /\ req[r].status \in {400, 401, 409, 503})
          => TxsOf(r) = {}

\* Whatever was simulated and still reverts lost a race: to another ballot of
\* its voter, to the end of its poll or to a change of owner.  A wrong proof,
\* option or poll id is never paid for after an answered simulation.
RevertIsARace ==
    \A x \in receipts :
       x.tx.sim = "answered" =>
          x.error \in {"none", "AlreadyVoted", "PollNotActive", "PollEnded",
                       "PollNotOpen", "PollHasVotes", "Unauthorized"}

\* A transaction a node holds and no block can include, because an earlier
\* nonce of its key is missing, waits for a request that is still under way,
\* for a transaction that was sent, or for a request whose client was told of
\* an error (502 or 504): no refusal, and no 200, leaves a hole behind it.
OnlyErrorsLeaveGaps ==
    \A tx \in pool : \A n \in (count[WalletOf(tx.call)] + 1)..(tx.nonce - 1) :
       \E d \in drawn :
          /\ d.wallet = WalletOf(tx.call) /\ d.nonce = n
          /\ \/ InFlight(d.request)
             \/ TxsOf(d.request) # {}
             \/ req[d.request].status \in {502, 504}

\* What the page tells of an answer; the known reverts have sentences of their
\* own, and the other refusals show the relayer's.
friendly_relayer_error(answer) ==
    IF answer.status = 409 THEN answer.error
    ELSE IF answer.status \in 502..504 THEN "Nothing was submitted"
    ELSE IF answer.status = 401 THEN "The admin API key was missing or wrong"
    ELSE "the relayer's message"

\* Who reads "Nothing was submitted; try again in a minute." has nothing at a
\* node.
NothingWasSubmitted ==
    \A r \in Request :
       (req[r].step = "answered"
          /\ friendly_relayer_error(req[r]) = "Nothing was submitted")
             => ~HeldByNode(r)
=============================================================================
