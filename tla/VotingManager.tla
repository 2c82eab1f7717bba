--------------------------- MODULE VotingManager ---------------------------
(***************************************************************************)
(* The VotingManager contract: a registry of polls, one administrator      *)
(* (owner) with a two-step handover, and a permissionless castVote.        *)
(*                                                                         *)
(* One action is one successful transaction.  A transaction whose guard    *)
(* fails reverts, which restores the state: it is a stuttering step.  The  *)
(* calls of one transaction are atomic on-chain, so interleaving happens   *)
(* between transactions only.  Whoever sends castVote may use any proof    *)
(* that exists, with any poll, nullifier and option beside it.             *)
(***************************************************************************)
EXTENDS VoteCircuit, FiniteSets

CONSTANTS
    Account,     \* addresses that can send transactions
    NoAddress,   \* address(0)
    NoRoot,      \* the zero value of merkleRoot in a poll never created
    MaxTime      \* bound: the last block timestamp and deadline considered

ASSUME ManagerAssumption ==
    /\ NoAddress \notin Account
    /\ NoRoot \notin MerkleRoot
    /\ MaxTime \in Nat

VARIABLES
    owner,          \* the poll administrator
    pendingOwner,   \* the proposed next owner, NoAddress if none
    started,        \* the last OwnershipTransferStarted event
    nextPollId,
    polls,
    nullifierUsed,  \* nullifierUsed[id]: the nullifiers spent in poll id
    voteCast,       \* the VoteCast events, the contract's public log
    now             \* block.timestamp

admin == <<owner, pendingOwner, started>>
ballots == <<nullifierUsed, voteCast>>
vars == <<owner, pendingOwner, started, nextPollId, polls, nullifierUsed,
          voteCast, now>>

Time == 0..MaxTime
PollStatus == {"Nonexistent", "Open", "Closed", "Cancelled", "Void"}
VoteCast == [pollId : PollId, nullifierHash : NullifierHash,
             voteOption : Option]

Poll == [merkleRoot : MerkleRoot \cup {NoRoot}, deadline : Time,
         numOptions : Option, totalVotes : Nat, status : PollStatus,
         exists : BOOLEAN, optionTally : [Option -> Nat]]

\* Storage no transaction has written yet.
NoPoll == [merkleRoot |-> NoRoot, deadline |-> 0, numOptions |-> 0,
           totalVotes |-> 0, status |-> "Nonexistent", exists |-> FALSE,
           optionTally |-> [o \in Option |-> 0]]

\* The constructor, sent by any account.
Init ==
    /\ owner \in Account
    /\ pendingOwner = NoAddress
    /\ started = [currentOwner |-> NoAddress, pendingOwner |-> NoAddress]
    /\ nextPollId = 1
    /\ polls = [id \in PollId |-> NoPoll]
    /\ nullifierUsed = [id \in PollId |-> {}]
    /\ voteCast = {}
    /\ now = 0
-----------------------------------------------------------------------------
(* Poll administration. *)

createPoll(sender, merkleRoot, numOptions, deadline) ==
    /\ sender = owner
    /\ numOptions >= 2
    /\ deadline > now
    /\ nextPollId \in PollId                       \* bound MaxPolls
    /\ polls' = [polls EXCEPT ![nextPollId] =
                    [@ EXCEPT !.merkleRoot = merkleRoot,
                              !.deadline = deadline,
                              !.numOptions = numOptions,
                              !.status = "Open",
                              !.exists = TRUE]]
    /\ nextPollId' = nextPollId + 1
    /\ UNCHANGED <<admin, ballots, now>>

\* Mutant: the lifecycle check forgotten.
RetireAgain(sender, id, status) ==
    /\ sender = owner
    /\ polls[id].exists
    /\ polls' = [polls EXCEPT ![id].status = status]
    /\ UNCHANGED <<admin, nextPollId, ballots, now>>

\* The part closePoll, cancelPoll and voidPoll share: onlyOwner, pollExists,
\* the lifecycle check, and the one assignment.
Retire(sender, id, status) ==
    /\ sender = owner
    /\ polls[id].exists
    /\ polls[id].status = "Open"
    /\ polls' = [polls EXCEPT ![id].status = status]
    /\ UNCHANGED <<admin, nextPollId, ballots, now>>

\* Mutant: closePoll before it waited for the deadline.
closePollAnytime(sender, id) == Retire(sender, id, "Closed")

closePoll(sender, id) ==
    /\ now > polls[id].deadline
    /\ Retire(sender, id, "Closed")

cancelPoll(sender, id) ==
    /\ polls[id].totalVotes = 0
    /\ Retire(sender, id, "Cancelled")

voidPoll(sender, id) == Retire(sender, id, "Void")
-----------------------------------------------------------------------------
(* The two-step handover. *)

transferOwnership(sender, newOwner) ==
    /\ sender = owner
    /\ newOwner # NoAddress
    /\ pendingOwner' = newOwner
    /\ started' = [currentOwner |-> owner, pendingOwner |-> newOwner]
    /\ UNCHANGED <<owner, nextPollId, polls, ballots, now>>

cancelOwnershipTransfer(sender) ==
    /\ sender = owner
    /\ pendingOwner # NoAddress
    /\ pendingOwner' = NoAddress
    /\ UNCHANGED <<owner, started, nextPollId, polls, ballots, now>>

\* Mutant: the accepted proposal is not cleared.
acceptOwnershipAgain(sender) ==
    /\ sender = pendingOwner
    /\ owner' = sender
    /\ UNCHANGED <<pendingOwner, started, nextPollId, polls, ballots, now>>

acceptOwnership(sender) ==
    /\ sender = pendingOwner
    /\ owner' = sender
    /\ pendingOwner' = NoAddress
    /\ UNCHANGED <<started, nextPollId, polls, ballots, now>>
-----------------------------------------------------------------------------
(* Voting. *)

\* The public signals castVote hands to the verifier: the poll id and the
\* root come from the chain, the nullifier and the option from calldata.
pubSignals(id, nullifierHash, voteOption) ==
    [voteId |-> id, merkleRoot |-> polls[id].merkleRoot,
     nullifierHash |-> nullifierHash, voteOption |-> voteOption]

\* Mutant: the nullifier is recorded but not looked up.
castVoteReplayed(id, proof, nullifierHash, voteOption) ==
    /\ polls[id].exists
    /\ polls[id].status = "Open"
    /\ now <= polls[id].deadline
    /\ voteOption < polls[id].numOptions
    /\ verifyProof(proof, pubSignals(id, nullifierHash, voteOption))
    /\ nullifierUsed' = [nullifierUsed EXCEPT ![id] = @ \cup {nullifierHash}]
    /\ polls' = [polls EXCEPT ![id].optionTally[voteOption] = @ + 1,
                              ![id].totalVotes = @ + 1]
    /\ voteCast' = voteCast \cup {[pollId |-> id,
                                   nullifierHash |-> nullifierHash,
                                   voteOption |-> voteOption]}
    /\ UNCHANGED <<admin, nextPollId, now>>

castVote(id, proof, nullifierHash, voteOption) ==
    /\ polls[id].exists
    /\ polls[id].status = "Open"
    /\ now <= polls[id].deadline
    /\ voteOption < polls[id].numOptions
    /\ nullifierHash \notin nullifierUsed[id]
    /\ verifyProof(proof, pubSignals(id, nullifierHash, voteOption))
    /\ nullifierUsed' = [nullifierUsed EXCEPT ![id] = @ \cup {nullifierHash}]
    /\ polls' = [polls EXCEPT ![id].optionTally[voteOption] = @ + 1,
                              ![id].totalVotes = @ + 1]
    /\ voteCast' = voteCast \cup {[pollId |-> id,
                                   nullifierHash |-> nullifierHash,
                                   voteOption |-> voteOption]}
    /\ UNCHANGED <<admin, nextPollId, now>>

\* A block with a later timestamp.
Tick ==
    /\ now < MaxTime                               \* bound MaxTime
    /\ now' = now + 1
    /\ UNCHANGED <<admin, nextPollId, polls, ballots>>
-----------------------------------------------------------------------------
OwnerStep(sender) ==
    \/ \E root \in MerkleRoot, n \in Option, d \in Time :
          createPoll(sender, root, n, d)
    \/ \E id \in PollId :
          \/ closePoll(sender, id)
          \/ cancelPoll(sender, id)
          \/ voidPoll(sender, id)
    \/ \E newOwner \in Account \cup {NoAddress} :
          transferOwnership(sender, newOwner)
    \/ cancelOwnershipTransfer(sender)
    \/ acceptOwnership(sender)

VoteStep ==
    \E id \in PollId, proof \in Proof, nullifierHash \in NullifierHash,
       voteOption \in Option :
          castVote(id, proof, nullifierHash, voteOption)

Next ==
    \/ \E sender \in Account : OwnerStep(sender)
    \/ VoteStep
    \/ Tick

Spec == Init /\ [][Next]_vars
-----------------------------------------------------------------------------
TypeOK ==
    /\ owner \in Account
    /\ pendingOwner \in Account \cup {NoAddress}
    /\ started \in [currentOwner : Account \cup {NoAddress},
                    pendingOwner : Account \cup {NoAddress}]
    /\ nextPollId \in 1..(MaxPolls + 1)
    /\ polls \in [PollId -> Poll]
    /\ nullifierUsed \in [PollId -> SUBSET NullifierHash]
    /\ voteCast \in SUBSET VoteCast
    /\ now \in Time
-----------------------------------------------------------------------------
(* Properties. *)

Ballots(id) == {e \in voteCast : e.pollId = id}
BallotsFor(id, o) == {e \in Ballots(id) : e.voteOption = o}

\* The tally is exactly the public log: every option's count is the number of
\* VoteCast events for it, and totalVotes is the number of events of the poll.
\* A ballot counted twice, credited to one counter only, or lost breaks it
\* (castVote's unchecked block).
TallyIsTheBallots ==
    \A id \in PollId :
       /\ polls[id].totalVotes = Cardinality(Ballots(id))
       /\ \A o \in Option :
             polls[id].optionTally[o] = Cardinality(BallotsFor(id, o))

\* One secret has at most one counted ballot per poll, whatever encoding of
\* its nullifier a sender chooses: the double-voting guard of castVote and
\* the canonical-field check of the verifier together.
OneBallotPerSecret ==
    \A e, f \in voteCast :
       (e.pollId = f.pollId /\
        e.nullifierHash.elem.secret = f.nullifierHash.elem.secret) => e = f

\* Every counted ballot belongs to a member of the whitelist its own poll was
\* created with, was proved for that poll, and names one of its options: no
\* proof for another poll or another whitelist is ever counted.
OnlyMembersCounted ==
    \A e \in voteCast :
       /\ polls[e.pollId].exists
       /\ e.nullifierHash.elem.voteId = e.pollId
       /\ e.nullifierHash.elem.secret
             \in Members[polls[e.pollId].merkleRoot.elem]
       /\ e.voteOption < polls[e.pollId].numOptions

\* A result is never frozen early and a cancelled poll never had a voter:
\* Closed implies the deadline has passed, Cancelled implies an empty tally,
\* now and after every later step.
NoEarlyResult ==
    \A id \in PollId :
       /\ polls[id].status = "Closed" => now > polls[id].deadline
       /\ polls[id].status = "Cancelled" => Ballots(id) = {}

\* The electorate, the deadline and the options of a poll never change, and
\* once its lifecycle has ended nothing about it does: no transaction reopens
\* a poll or adds to a finished tally.
PollsAreFinal ==
    [][\A id \in PollId :
         /\ polls[id].exists =>
               /\ polls'[id].merkleRoot = polls[id].merkleRoot
               /\ polls'[id].deadline = polls[id].deadline
               /\ polls'[id].numOptions = polls[id].numOptions
         /\ polls[id].status \notin {"Nonexistent", "Open"} =>
               polls'[id] = polls[id]]_vars

\* A proposal that can be accepted is the latest one made, and was made by
\* the account that owns the contract now: a withdrawn, replaced or previous
\* owner's proposal never moves control.
ProposalIsTheOwners ==
    pendingOwner # NoAddress =>
        started = [currentOwner |-> owner, pendingOwner |-> pendingOwner]
-----------------------------------------------------------------------------
(* The inductive invariant behind the properties. *)

\* Storage beyond the counter is untouched.
FreshPolls == \A id \in PollId : id >= nextPollId => polls[id] = NoPoll

\* The double-voting mapping holds exactly the nullifiers of the log.
NullifiersAreTheLog ==
    \A id \in PollId : nullifierUsed[id] = {e.nullifierHash : e \in Ballots(id)}

\* A counted nullifier is a canonical field element.
NullifiersAreCanonical == \A e \in voteCast : checkField(e.nullifierHash)

IInv ==
    /\ IsFiniteSet(voteCast)
    /\ FreshPolls
    /\ NullifiersAreTheLog
    /\ NullifiersAreCanonical
    /\ TallyIsTheBallots
    /\ OneBallotPerSecret
    /\ OnlyMembersCounted
    /\ NoEarlyResult
=============================================================================
