------------------------ MODULE VotingManager_proofs ------------------------
(***************************************************************************)
(* The safety invariants of VotingManager, proved for every set of voters, *)
(* whitelists and accounts and every bound.                                *)
(***************************************************************************)
EXTENDS VotingManagerBallotBox, FiniteSetTheorems, TLAPS

(* Every transaction, and every block, leaves well-typed storage. *)
LEMMA TypeCorrectStep ==
  ASSUME TypeOK, [Next]_vars
  PROVE  TypeOK'
<1> USE CircuitAssumption, ManagerAssumption
<1> USE DEF TypeOK
<1>1. ASSUME NEW sender \in Account, NEW root \in MerkleRoot,
             NEW n \in Option, NEW d \in Time,
             createPoll(sender, root, n, d)
      PROVE TypeOK'
  <2>1. polls' \in [PollId -> Poll]
    <3> DEFINE opened == [polls[nextPollId] EXCEPT
                            !.merkleRoot = root, !.deadline = d, !.numOptions = n,
                            !.status = "Open", !.exists = TRUE]
    <3>1. nextPollId \in PollId /\ polls[nextPollId] \in Poll
      BY <1>1 DEF createPoll
    <3>2. opened \in Poll
      BY <3>1 DEF Poll, PollStatus
    <3>3. polls' = [polls EXCEPT ![nextPollId] = opened]
      BY <1>1 DEF createPoll
    <3> HIDE DEF opened
    <3> QED
      BY <3>1, <3>2, <3>3
  <2>2. nextPollId' \in 1..(MaxPolls + 1)
    BY <1>1 DEF createPoll, PollId
  <2> QED
    BY <1>1, <2>1, <2>2 DEF createPoll, admin, ballots
<1>2. ASSUME NEW sender \in Account, NEW id \in PollId,
             NEW status \in {"Closed", "Cancelled", "Void"},
             Retire(sender, id, status)
      PROVE TypeOK'
  <2>1. polls' \in [PollId -> Poll]
    BY <1>2 DEF Retire, Poll, PollStatus
  <2> QED
    BY <1>2, <2>1 DEF Retire, admin, ballots
<1>3. ASSUME NEW sender \in Account,
             NEW newOwner \in Account \cup {NoAddress},
             transferOwnership(sender, newOwner)
      PROVE TypeOK'
  BY <1>3 DEF transferOwnership, ballots
<1>4. ASSUME NEW sender \in Account, cancelOwnershipTransfer(sender)
      PROVE TypeOK'
  BY <1>4 DEF cancelOwnershipTransfer, ballots
<1>5. ASSUME NEW sender \in Account, acceptOwnership(sender)
      PROVE TypeOK'
  BY <1>5 DEF acceptOwnership, ballots
<1>6. ASSUME NEW id \in PollId, NEW proof \in Proof,
             NEW nullifierHash \in NullifierHash, NEW voteOption \in Option,
             castVote(id, proof, nullifierHash, voteOption)
      PROVE TypeOK'
  <2>1. polls' \in [PollId -> Poll]
    BY <1>6 DEF castVote, Poll
  <2>2. nullifierUsed' \in [PollId -> SUBSET NullifierHash]
    BY <1>6 DEF castVote
  <2>3. voteCast' \in SUBSET VoteCast
    BY <1>6 DEF castVote, VoteCast
  <2> QED
    BY <1>6, <2>1, <2>2, <2>3 DEF castVote, admin
<1>7. CASE Tick
  BY <1>7 DEF Tick, admin, ballots, Time
<1>8. CASE UNCHANGED vars
  BY <1>8 DEF vars
<1> QED
  BY <1>1, <1>2, <1>3, <1>4, <1>5, <1>6, <1>7, <1>8
  DEF Next, OwnerStep, VoteStep, closePoll, cancelPoll, voidPoll

(* Type correctness of the contract's storage. *)
THEOREM TypeCorrect == Spec => []TypeOK
<1>1. Init => TypeOK
  BY CircuitAssumption, ManagerAssumption
  DEF Init, TypeOK, NoPoll, Poll, PollStatus, Time, Option, PollId
<1> QED
  BY <1>1, TypeCorrectStep, PTL DEF Spec
-----------------------------------------------------------------------------
(* A step that leaves the log, the tallies and the spent nullifiers alone and *)
(* only extends a poll's parameters or lifecycle keeps the accounting.        *)
LEMMA AccountingKept ==
  ASSUME IInv, UNCHANGED ballots,
         \A id \in PollId : /\ polls'[id].totalVotes = polls[id].totalVotes
                            /\ polls'[id].optionTally = polls[id].optionTally,
         \A id \in PollId : polls[id].exists =>
                               /\ polls'[id].exists
                               /\ polls'[id].merkleRoot = polls[id].merkleRoot
                               /\ polls'[id].numOptions = polls[id].numOptions,
         voteCast \in SUBSET VoteCast
  PROVE  /\ IsFiniteSet(voteCast)'
         /\ NullifiersAreTheLog' /\ NullifiersAreCanonical'
         /\ TallyIsTheBallots' /\ OneBallotPerSecret' /\ OnlyMembersCounted'
<1> USE DEF IInv, ballots
<1>1. IsFiniteSet(voteCast)' /\ NullifiersAreCanonical' /\ OneBallotPerSecret'
  BY DEF NullifiersAreCanonical, OneBallotPerSecret
<1>2. \A id \in PollId : Ballots(id)' = Ballots(id)
  BY DEF Ballots
<1>3. \A id \in PollId, o \in Option : BallotsFor(id, o)' = BallotsFor(id, o)
  BY <1>2 DEF BallotsFor
<1>4. NullifiersAreTheLog'
  BY <1>2 DEF NullifiersAreTheLog
<1>5. TallyIsTheBallots'
  BY <1>2, <1>3 DEF TallyIsTheBallots
<1>6. OnlyMembersCounted'
  BY DEF OnlyMembersCounted, VoteCast
<1> QED
  BY <1>1, <1>4, <1>5, <1>6

(* The ballot castVote appends is new: no event of that poll carries its      *)
(* nullifier, in any encoding, so no event of that poll is the same voter's.  *)
LEMMA BallotIsNew ==
  ASSUME TypeOK, IInv, NEW id \in PollId, NEW proof \in Proof,
         NEW nullifierHash \in NullifierHash, NEW voteOption \in Option,
         castVote(id, proof, nullifierHash, voteOption)
  PROVE  /\ nullifierHash.elem = [secret |-> proof.secret, voteId |-> id]
         /\ checkField(nullifierHash)
         /\ proof.secret \in Members[polls[id].merkleRoot.elem]
         /\ \A e \in Ballots(id) :
               e.nullifierHash.elem.secret # nullifierHash.elem.secret
<1>1. /\ nullifierHash.elem = [secret |-> proof.secret, voteId |-> id]
      /\ checkField(nullifierHash)
      /\ proof.secret \in Members[polls[id].merkleRoot.elem]
  BY DEF castVote, verifyProof, pubSignals, Poseidon2, MerkleTreeInclusionCheck
<1>2. ASSUME NEW e \in Ballots(id),
             e.nullifierHash.elem.secret = nullifierHash.elem.secret
      PROVE FALSE
  <2>1. e \in voteCast /\ e.pollId = id /\ e \in VoteCast
    BY DEF Ballots, TypeOK
  <2>2. checkField(e.nullifierHash) /\ e.nullifierHash.elem.voteId = id
    BY <2>1 DEF IInv, NullifiersAreCanonical, OnlyMembersCounted
  <2>3. e.nullifierHash = nullifierHash
    BY <1>1, <1>2, <2>1, <2>2
    DEF VoteCast, NullifierHash, Word, checkField
  <2>4. nullifierHash \in nullifierUsed[id]
    BY <2>3 DEF IInv, NullifiersAreTheLog
  <2> QED
    BY <2>4 DEF castVote
<1> QED
  BY <1>1, <1>2

(* Counting a new ballot keeps the tally equal to the log: the two counters   *)
(* of the ballot's poll and option grow by one, and no other count moves.     *)
LEMMA CastVoteCounts ==
  ASSUME TypeOK, IInv, NEW id \in PollId, NEW proof \in Proof,
         NEW nullifierHash \in NullifierHash, NEW voteOption \in Option,
         castVote(id, proof, nullifierHash, voteOption)
  PROVE  TallyIsTheBallots'
<1>0. /\ nullifierHash.elem = [secret |-> proof.secret, voteId |-> id]
      /\ checkField(nullifierHash)
      /\ proof.secret \in Members[polls[id].merkleRoot.elem]
      /\ \A e \in Ballots(id) :
            e.nullifierHash.elem.secret # nullifierHash.elem.secret
  BY BallotIsNew
<1> DEFINE b == [pollId |-> id, nullifierHash |-> nullifierHash,
                 voteOption |-> voteOption]
<1>1. voteCast' = voteCast \cup {b} /\ b \notin voteCast
  <2>1. \A e \in Ballots(id) :
           e.nullifierHash.elem.secret # nullifierHash.elem.secret
    BY <1>0
  <2>2. b.nullifierHash = nullifierHash
    OBVIOUS
  <2>3. b \notin Ballots(id)
    BY <2>1, <2>2
  <2> QED
    BY <2>3 DEF castVote, Ballots
<1>2. ASSUME NEW i \in PollId
      PROVE /\ IsFiniteSet(Ballots(i))
            /\ Ballots(i)' = IF i = id THEN Ballots(i) \cup {b} ELSE Ballots(i)
            /\ b \notin Ballots(i)
  <2>1. IsFiniteSet(Ballots(i))
    BY FS_Subset DEF IInv, Ballots
  <2> QED
    BY <1>1, <2>1 DEF Ballots
<1>3. ASSUME NEW i \in PollId, NEW o \in Option
      PROVE /\ IsFiniteSet(BallotsFor(i, o))
            /\ BallotsFor(i, o)' = IF i = id /\ o = voteOption
                                   THEN BallotsFor(i, o) \cup {b}
                                   ELSE BallotsFor(i, o)
            /\ b \notin BallotsFor(i, o)
  <2>1. IsFiniteSet(BallotsFor(i, o))
    BY <1>2, FS_Subset DEF BallotsFor
  <2> QED
    BY <1>2, <2>1 DEF BallotsFor
<1>4. ASSUME NEW i \in PollId
      PROVE polls'[i].totalVotes = Cardinality(Ballots(i)')
  <2>1. polls[i].totalVotes = Cardinality(Ballots(i))
    BY DEF IInv, TallyIsTheBallots
  <2>2. CASE i = id
    <3>1. polls'[i].totalVotes = polls[i].totalVotes + 1
      BY <2>2 DEF castVote, TypeOK, Poll
    <3>2. Cardinality(Ballots(i) \cup {b}) = Cardinality(Ballots(i)) + 1
      BY <1>2, FS_AddElement
    <3> QED
      BY <1>2, <2>1, <2>2, <3>1, <3>2
  <2>3. CASE i # id
    BY <1>2, <2>1, <2>3 DEF castVote, TypeOK
  <2> QED
    BY <2>2, <2>3
<1>5. ASSUME NEW i \in PollId, NEW o \in Option
      PROVE polls'[i].optionTally[o] = Cardinality(BallotsFor(i, o)')
  <2>1. polls[i].optionTally[o] = Cardinality(BallotsFor(i, o))
    BY DEF IInv, TallyIsTheBallots
  <2>2. CASE i = id /\ o = voteOption
    <3>1. polls'[i].optionTally[o] = polls[i].optionTally[o] + 1
      BY <2>2 DEF castVote, TypeOK, Poll
    <3>2. Cardinality(BallotsFor(i, o) \cup {b})
             = Cardinality(BallotsFor(i, o)) + 1
      BY <1>3, FS_AddElement
    <3> QED
      BY <1>3, <2>1, <2>2, <3>1, <3>2
  <2>3. CASE ~(i = id /\ o = voteOption)
    <3>1. polls'[i].optionTally[o] = polls[i].optionTally[o]
      BY <2>3 DEF castVote, TypeOK, Poll
    <3> QED
      BY <1>3, <2>1, <2>3, <3>1
  <2> QED
    BY <2>2, <2>3
<1> QED
  BY <1>4, <1>5 DEF TallyIsTheBallots
-----------------------------------------------------------------------------
(* castVote keeps every conjunct of the inductive invariant. *)
LEMMA CastVoteKeepsIInv ==
  ASSUME TypeOK, IInv, NEW id \in PollId, NEW proof \in Proof,
         NEW nullifierHash \in NullifierHash, NEW voteOption \in Option,
         castVote(id, proof, nullifierHash, voteOption)
  PROVE  IInv'
<1> DEFINE b == [pollId |-> id, nullifierHash |-> nullifierHash,
                 voteOption |-> voteOption]
<1>1. /\ nullifierHash.elem = [secret |-> proof.secret, voteId |-> id]
      /\ checkField(nullifierHash)
      /\ proof.secret \in Members[polls[id].merkleRoot.elem]
      /\ \A e \in Ballots(id) :
            e.nullifierHash.elem.secret # nullifierHash.elem.secret
  BY BallotIsNew
<1>2. /\ b.pollId = id /\ b.nullifierHash = nullifierHash
      /\ b.voteOption = voteOption
  OBVIOUS
<1>3. voteCast' = voteCast \cup {b}
  BY DEF castVote
<1>4. \A i \in PollId : /\ polls'[i].merkleRoot = polls[i].merkleRoot
                        /\ polls'[i].deadline = polls[i].deadline
                        /\ polls'[i].numOptions = polls[i].numOptions
                        /\ polls'[i].exists = polls[i].exists
                        /\ polls'[i].status = polls[i].status
  BY DEF castVote, TypeOK, Poll
<1>5. IsFiniteSet(voteCast)'
  BY <1>3, FS_AddElement DEF IInv
<1>6. FreshPolls'
  <2>1. id < nextPollId
    BY DEF castVote, IInv, FreshPolls, TypeOK, PollId, NoPoll
  <2>2. nextPollId' = nextPollId /\ nextPollId \in Int /\ id \in Int
    BY DEF castVote, TypeOK, PollId
  <2>3. \A i \in PollId : i >= nextPollId => i # id
    BY <2>1, <2>2 DEF PollId
  <2>4. \A i \in PollId : i # id => polls'[i] = polls[i]
    BY DEF castVote, TypeOK
  <2> QED
    BY <2>2, <2>3, <2>4 DEF IInv, FreshPolls
<1>7. NullifiersAreTheLog'
  <2> SUFFICES ASSUME NEW i \in PollId
               PROVE nullifierUsed'[i] = {e.nullifierHash : e \in Ballots(i)'}
    BY DEF NullifiersAreTheLog
  <2>1. nullifierUsed[i] = {e.nullifierHash : e \in Ballots(i)}
    BY DEF IInv, NullifiersAreTheLog
  <2>2. CASE i = id
    <3>1. Ballots(i)' = Ballots(i) \cup {b}
      BY <1>2, <1>3, <2>2 DEF Ballots
    <3>2. nullifierUsed'[i] = nullifierUsed[i] \cup {nullifierHash}
      BY <2>2 DEF castVote, TypeOK
    <3> HIDE DEF b
    <3> QED
      BY <1>2, <2>1, <3>1, <3>2
  <2>3. CASE i # id
    <3>1. Ballots(i)' = Ballots(i)
      BY <1>2, <1>3, <2>3 DEF Ballots
    <3>2. nullifierUsed'[i] = nullifierUsed[i]
      BY <2>3 DEF castVote, TypeOK
    <3> QED
      BY <2>1, <3>1, <3>2
  <2> QED
    BY <2>2, <2>3
<1>8. NullifiersAreCanonical'
  BY <1>1, <1>3 DEF IInv, NullifiersAreCanonical
<1>9. TallyIsTheBallots'
  BY CastVoteCounts
<1>10. OneBallotPerSecret'
  <2> HIDE DEF b
  <2>1. \A e \in voteCast : e.pollId = b.pollId =>
           e.nullifierHash.elem.secret # b.nullifierHash.elem.secret
    BY <1>1, <1>2 DEF Ballots
  <2> QED
    BY <1>3, <2>1 DEF IInv, OneBallotPerSecret
<1>11. OnlyMembersCounted'
  <2> SUFFICES ASSUME NEW e \in voteCast'
               PROVE /\ polls'[e.pollId].exists
                     /\ e.nullifierHash.elem.voteId = e.pollId
                     /\ e.nullifierHash.elem.secret
                           \in Members[polls'[e.pollId].merkleRoot.elem]
                     /\ e.voteOption < polls'[e.pollId].numOptions
    BY DEF OnlyMembersCounted
  <2>1. CASE e \in voteCast
    <3>1. e.pollId \in PollId
      BY <2>1 DEF TypeOK, VoteCast
    <3> QED
      BY <1>4, <2>1, <3>1 DEF IInv, OnlyMembersCounted
  <2>2. CASE e = b
    <3>1. polls[id].exists /\ voteOption < polls[id].numOptions
      BY DEF castVote
    <3> QED
      BY <1>1, <1>2, <1>4, <2>2, <3>1
  <2> QED
    BY <1>3, <2>1, <2>2
<1>12. NoEarlyResult'
  <2> SUFFICES ASSUME NEW i \in PollId
               PROVE /\ polls'[i].status = "Closed" => now' > polls'[i].deadline
                     /\ polls'[i].status = "Cancelled" => Ballots(i)' = {}
    BY DEF NoEarlyResult
  <2>1. now' = now /\ polls[id].status = "Open"
    BY DEF castVote
  <2>2. i # id => Ballots(i)' = Ballots(i)
    BY <1>2, <1>3 DEF Ballots
  <2> QED
    BY <1>4, <2>1, <2>2 DEF IInv, NoEarlyResult
<1> QED
  BY <1>5, <1>6, <1>7, <1>8, <1>9, <1>10, <1>11, <1>12 DEF IInv

(* Closing, cancelling and voiding keep the inductive invariant: a close     *)
(* needs the deadline behind it, a cancellation an empty log.                *)
LEMMA RetireKeepsIInv ==
  ASSUME TypeOK, IInv, NEW sender \in Account, NEW id \in PollId,
         \/ closePoll(sender, id)
         \/ cancelPoll(sender, id)
         \/ voidPoll(sender, id)
  PROVE  IInv'
<1>1. PICK status \in {"Closed", "Cancelled", "Void"} :
         /\ Retire(sender, id, status)
         /\ status = "Closed" => now > polls[id].deadline
         /\ status = "Cancelled" => polls[id].totalVotes = 0
  BY DEF closePoll, cancelPoll, voidPoll
<1>2. /\ UNCHANGED <<nextPollId, nullifierUsed, voteCast, now>>
      /\ polls[id].exists /\ polls[id].status = "Open"
  BY <1>1 DEF Retire, ballots
<1>3. \A i \in PollId : /\ polls'[i].merkleRoot = polls[i].merkleRoot
                        /\ polls'[i].deadline = polls[i].deadline
                        /\ polls'[i].numOptions = polls[i].numOptions
                        /\ polls'[i].exists = polls[i].exists
                        /\ polls'[i].totalVotes = polls[i].totalVotes
                        /\ polls'[i].optionTally = polls[i].optionTally
                        /\ i # id => polls'[i] = polls[i]
  BY <1>1 DEF Retire, TypeOK, Poll
<1>4. /\ IsFiniteSet(voteCast)'
      /\ NullifiersAreTheLog' /\ NullifiersAreCanonical'
      /\ TallyIsTheBallots' /\ OneBallotPerSecret' /\ OnlyMembersCounted'
  BY <1>2, <1>3, AccountingKept DEF ballots, TypeOK
<1>5. FreshPolls'
  <2>1. id < nextPollId
    BY <1>2 DEF IInv, FreshPolls, TypeOK, PollId, NoPoll
  <2>2. \A i \in PollId : i >= nextPollId => i # id
    BY <2>1 DEF PollId, TypeOK
  <2> QED
    BY <1>2, <1>3, <2>2 DEF IInv, FreshPolls
<1>6. NoEarlyResult'
  <2> SUFFICES ASSUME NEW i \in PollId
               PROVE /\ polls'[i].status = "Closed" => now' > polls'[i].deadline
                     /\ polls'[i].status = "Cancelled" => Ballots(i)' = {}
    BY DEF NoEarlyResult
  <2>1. Ballots(i)' = Ballots(i)
    BY <1>2 DEF Ballots
  <2>2. CASE i # id
    BY <1>2, <1>3, <2>1, <2>2 DEF IInv, NoEarlyResult
  <2>3. CASE i = id
    <3>1. polls'[id].status = status
      BY <1>1 DEF Retire, TypeOK, Poll
    <3>2. ASSUME status = "Cancelled" PROVE Ballots(id) = {}
      <4>1. IsFiniteSet(Ballots(id))
        BY FS_Subset DEF IInv, Ballots
      <4>2. Cardinality(Ballots(id)) = 0
        BY <1>1, <3>2 DEF IInv, TallyIsTheBallots
      <4> QED
        BY <4>1, <4>2, FS_EmptySet
    <3> QED
      BY <1>1, <1>2, <1>3, <2>1, <2>3, <3>1, <3>2
  <2> QED
    BY <2>2, <2>3
<1> QED
  BY <1>4, <1>5, <1>6 DEF IInv

(* Creating a poll writes storage no ballot refers to. *)
LEMMA CreatePollKeepsIInv ==
  ASSUME TypeOK, IInv, NEW sender \in Account, NEW root \in MerkleRoot,
         NEW n \in Option, NEW d \in Time, createPoll(sender, root, n, d)
  PROVE  IInv'
<1>1. /\ UNCHANGED <<nullifierUsed, voteCast, now>>
      /\ nextPollId \in PollId /\ nextPollId' = nextPollId + 1
      /\ polls[nextPollId] = NoPoll
  BY DEF createPoll, ballots, IInv, FreshPolls, PollId
<1>2. \A i \in PollId :
         /\ i # nextPollId => polls'[i] = polls[i]
         /\ polls'[i].totalVotes = polls[i].totalVotes
         /\ polls'[i].optionTally = polls[i].optionTally
  BY DEF createPoll, TypeOK, Poll
<1>3. polls'[nextPollId].status = "Open" /\ ~polls[nextPollId].exists
  BY <1>1 DEF createPoll, TypeOK, Poll, NoPoll
<1>4. /\ IsFiniteSet(voteCast)'
      /\ NullifiersAreTheLog' /\ NullifiersAreCanonical'
      /\ TallyIsTheBallots' /\ OneBallotPerSecret' /\ OnlyMembersCounted'
  BY <1>1, <1>2, <1>3, AccountingKept DEF ballots, TypeOK
<1>5. FreshPolls'
  BY <1>1, <1>2 DEF IInv, FreshPolls, TypeOK, PollId
<1>6. NoEarlyResult'
  <2>1. \A i \in PollId : Ballots(i)' = Ballots(i)
    BY <1>1 DEF Ballots
  <2> QED
    BY <1>1, <1>2, <1>3, <2>1 DEF IInv, NoEarlyResult
<1> QED
  BY <1>4, <1>5, <1>6 DEF IInv

(* Every reachable state satisfies the inductive invariant. *)
THEOREM Inductive == Spec => []IInv
<1>1. Init => IInv
  <2> SUFFICES ASSUME Init PROVE IInv
    OBVIOUS
  <2>1. \A i \in PollId : /\ Ballots(i) = {}
                          /\ \A o \in Option : BallotsFor(i, o) = {}
    BY DEF Init, Ballots, BallotsFor
  <2>2. TallyIsTheBallots
    BY <2>1, FS_EmptySet DEF Init, TallyIsTheBallots, NoPoll
  <2>3. NullifiersAreTheLog
    BY <2>1 DEF Init, NullifiersAreTheLog
  <2>4. FreshPolls /\ NoEarlyResult
    BY DEF Init, FreshPolls, NoEarlyResult, NoPoll
  <2>5. IsFiniteSet(voteCast)
    BY FS_EmptySet DEF Init
  <2>6. NullifiersAreCanonical /\ OneBallotPerSecret /\ OnlyMembersCounted
    BY DEF Init, NullifiersAreCanonical, OneBallotPerSecret, OnlyMembersCounted
  <2> QED
    BY <2>2, <2>3, <2>4, <2>5, <2>6 DEF IInv
<1>2. TypeOK /\ IInv /\ [Next]_vars => IInv'
  <2> SUFFICES ASSUME TypeOK, IInv, [Next]_vars PROVE IInv'
    OBVIOUS
  <2>1. ASSUME UNCHANGED <<nextPollId, polls, nullifierUsed, voteCast>>,
               now' >= now
        PROVE IInv'
    <3>1. /\ IsFiniteSet(voteCast)'
          /\ NullifiersAreTheLog' /\ NullifiersAreCanonical'
          /\ TallyIsTheBallots' /\ OneBallotPerSecret' /\ OnlyMembersCounted'
      BY <2>1, AccountingKept DEF ballots, TypeOK
    <3>2. FreshPolls'
      BY <2>1 DEF IInv, FreshPolls
    <3>3. NoEarlyResult'
      <4>1. \A i \in PollId : Ballots(i)' = Ballots(i)
        BY <2>1 DEF Ballots
      <4>2. now \in Int /\ now' >= now
        BY <2>1 DEF TypeOK, Time
      <4>3. \A i \in PollId : polls[i].deadline \in Int
        BY DEF TypeOK, Poll, Time
      <4>4. now' \in Int
        BY TypeCorrectStep DEF TypeOK, Time
      <4> QED
        BY <2>1, <4>1, <4>2, <4>3, <4>4 DEF IInv, NoEarlyResult
    <3> QED
      BY <3>1, <3>2, <3>3 DEF IInv
  <2>2. ASSUME NEW sender \in Account, OwnerStep(sender)
        PROVE IInv'
    <3>1. CASE \E root \in MerkleRoot, n \in Option, d \in Time :
                  createPoll(sender, root, n, d)
      BY <3>1, CreatePollKeepsIInv
    <3>2. CASE \E id \in PollId : \/ closePoll(sender, id)
                                  \/ cancelPoll(sender, id)
                                  \/ voidPoll(sender, id)
      BY <3>2, RetireKeepsIInv
    <3>3. CASE \/ \E newOwner \in Account \cup {NoAddress} :
                     transferOwnership(sender, newOwner)
               \/ cancelOwnershipTransfer(sender)
               \/ acceptOwnership(sender)
      BY <2>1, <3>3 DEF transferOwnership, cancelOwnershipTransfer,
                        acceptOwnership, ballots, TypeOK, Time
    <3> QED
      BY <2>2, <3>1, <3>2, <3>3 DEF OwnerStep
  <2>3. CASE VoteStep
    BY <2>3, CastVoteKeepsIInv DEF VoteStep
  <2>4. CASE Tick
    BY <2>1, <2>4 DEF Tick, ballots, TypeOK, Time
  <2>5. CASE UNCHANGED vars
    BY <2>1, <2>5 DEF vars, TypeOK, Time
  <2> QED
    BY <2>2, <2>3, <2>4, <2>5 DEF Next
<1> QED
  BY <1>1, <1>2, TypeCorrect, PTL DEF Spec

(* Public log, counters and spent nullifiers agree in every reachable state. *)
THEOREM TallyIsCorrect == Spec => []TallyIsTheBallots
  BY Inductive, PTL DEF IInv

(* Nobody votes twice, whatever encoding of the nullifier is submitted. *)
THEOREM NoDoubleVote == Spec => []OneBallotPerSecret
  BY Inductive, PTL DEF IInv

(* Only whitelist members' ballots for that very poll are ever counted. *)
THEOREM Eligibility == Spec => []OnlyMembersCounted
  BY Inductive, PTL DEF IInv

(* No tally is frozen before the deadline and no cancelled poll had votes. *)
THEOREM NoEarlyFreeze == Spec => []NoEarlyResult
  BY Inductive, PTL DEF IInv
-----------------------------------------------------------------------------
(* No transaction changes a created poll's electorate, deadline or options,   *)
(* nor anything of a poll whose lifecycle has ended.                          *)
THEOREM Finality == Spec => PollsAreFinal
<1> DEFINE Final == \A id \in PollId :
         /\ polls[id].exists =>
               /\ polls'[id].merkleRoot = polls[id].merkleRoot
               /\ polls'[id].deadline = polls[id].deadline
               /\ polls'[id].numOptions = polls[id].numOptions
         /\ polls[id].status \notin {"Nonexistent", "Open"} =>
               polls'[id] = polls[id]
<1>1. TypeOK /\ IInv /\ [Next]_vars => [Final]_vars
  <2> SUFFICES ASSUME TypeOK, IInv, Next PROVE Final
    OBVIOUS
  <2>1. ASSUME NEW sender \in Account, NEW root \in MerkleRoot,
               NEW n \in Option, NEW d \in Time,
               createPoll(sender, root, n, d)
        PROVE Final
    <3>1. nextPollId \in PollId /\ polls[nextPollId] = NoPoll
      BY <2>1 DEF createPoll, IInv, FreshPolls, PollId
    <3>2. \A i \in PollId : i # nextPollId => polls'[i] = polls[i]
      BY <2>1 DEF createPoll, TypeOK
    <3> QED
      BY <3>1, <3>2 DEF NoPoll
  <2>2. ASSUME NEW sender \in Account, NEW id \in PollId,
               NEW status \in PollStatus, Retire(sender, id, status)
        PROVE Final
    BY <2>2 DEF Retire, TypeOK, Poll
  <2>3. ASSUME NEW id \in PollId, NEW proof \in Proof,
               NEW nullifierHash \in NullifierHash, NEW voteOption \in Option,
               castVote(id, proof, nullifierHash, voteOption)
        PROVE Final
    BY <2>3 DEF castVote, TypeOK, Poll
  <2>4. ASSUME UNCHANGED polls PROVE Final
    BY <2>4
  <2> QED
    BY <2>1, <2>2, <2>3, <2>4
    DEF Next, OwnerStep, VoteStep, Tick, closePoll, cancelPoll, voidPoll,
        transferOwnership, cancelOwnershipTransfer, acceptOwnership, PollStatus
<1> QED
  BY <1>1, TypeCorrect, Inductive, PTL DEF Spec, PollsAreFinal

(* The only proposal that can be accepted is the current owner's latest one. *)
THEOREM Handover == Spec => []ProposalIsTheOwners
<1>1. Init => ProposalIsTheOwners
  BY DEF Init, ProposalIsTheOwners
<1>2. ProposalIsTheOwners /\ [Next]_vars => ProposalIsTheOwners'
  <2> SUFFICES ASSUME ProposalIsTheOwners, [Next]_vars
               PROVE ProposalIsTheOwners'
    OBVIOUS
  <2>1. ASSUME UNCHANGED admin PROVE ProposalIsTheOwners'
    BY <2>1 DEF ProposalIsTheOwners, admin
  <2>2. ASSUME NEW sender \in Account, OwnerStep(sender)
        PROVE ProposalIsTheOwners'
    <3>1. CASE \E newOwner \in Account \cup {NoAddress} :
                  transferOwnership(sender, newOwner)
      BY <3>1 DEF transferOwnership, ProposalIsTheOwners
    <3>2. CASE cancelOwnershipTransfer(sender)
      BY <3>2 DEF cancelOwnershipTransfer, ProposalIsTheOwners
    <3>3. CASE acceptOwnership(sender)
      BY <3>3 DEF acceptOwnership, ProposalIsTheOwners
    <3> QED
      BY <2>1, <2>2, <3>1, <3>2, <3>3
      DEF OwnerStep, createPoll, closePoll, cancelPoll, voidPoll, Retire
  <2> QED
    BY <2>1, <2>2 DEF Next, VoteStep, castVote, Tick, vars, admin
<1> QED
  BY <1>1, <1>2, PTL DEF Spec
-----------------------------------------------------------------------------
(* Refinement: each transaction is one step of the ballot box, or none.       *)

(* If the log is unchanged the boxes are. *)
LEMMA BoxKept ==
  ASSUME UNCHANGED voteCast
  PROVE  boxBar' = boxBar
BY DEF boxBar, Ballots

(* createPoll announces a poll whose electorate is the whitelist. *)
LEMMA CreateAnnounces ==
  ASSUME TypeOK, IInv, NEW sender \in Account, NEW root \in MerkleRoot,
         NEW n \in Option, NEW d \in Time, createPoll(sender, root, n, d)
  PROVE  BB!Next
<1> DEFINE choices == {o \in Option : o < n}
<1>1. /\ nextPollId \in PollId /\ polls[nextPollId] = NoPoll
      /\ UNCHANGED <<voteCast, now>> /\ d > now
  BY DEF createPoll, IInv, FreshPolls, PollId, ballots
<1>2. /\ polls'[nextPollId].merkleRoot = root
      /\ polls'[nextPollId].deadline = d
      /\ polls'[nextPollId].numOptions = n
      /\ polls'[nextPollId].status = "Open"
      /\ polls'[nextPollId].exists
      /\ \A i \in PollId : i # nextPollId => polls'[i] = polls[i]
  BY <1>1 DEF createPoll, TypeOK, NoPoll
<1>3. phaseBar[nextPollId] = "none"
  BY <1>1 DEF phaseBar, PhaseOf, NoPoll
<1>4. phaseBar' = [phaseBar EXCEPT ![nextPollId] = "voting"]
  <2>1. PhaseOf("Open") = "voting"
    BY DEF PhaseOf
  <2> QED
    BY <1>2, <2>1 DEF phaseBar
<1>5. electorateBar' = [electorateBar EXCEPT ![nextPollId] = Members[root.elem]]
  BY <1>2 DEF electorateBar
<1>6. offeredBar' = [offeredBar EXCEPT ![nextPollId] = choices]
  BY <1>2 DEF offeredBar
<1>7. expiredBar' = expiredBar
  <2>1. ~polls[nextPollId].exists /\ nextPollId \in PollId
    BY <1>1 DEF NoPoll
  <2>2. ~expiredBar[nextPollId]
    BY <2>1 DEF expiredBar
  <2>3. now \in Int /\ d \in Int
    BY DEF TypeOK, Time
  <2>4. ~(now' > polls'[nextPollId].deadline)
    BY <1>1, <1>2, <2>3
  <2> QED
    BY <1>1, <1>2, <2>1, <2>2, <2>4 DEF expiredBar
<1>8. boxBar' = boxBar
  BY <1>1, BoxKept
<1>9. Members[root.elem] \in SUBSET Secret /\ choices \in SUBSET Option
  BY CircuitAssumption DEF MerkleRoot, Word
<1>10. BB!Announce(nextPollId, Members[root.elem], choices)
  BY <1>3, <1>4, <1>5, <1>6, <1>7, <1>8 DEF BB!Announce
<1> QED
  BY <1>1, <1>9, <1>10 DEF BB!Next

(* closePoll, cancelPoll and voidPoll end the poll with their own outcome. *)
LEMMA RetireEnds ==
  ASSUME TypeOK, IInv, NEW sender \in Account, NEW id \in PollId,
         \/ closePoll(sender, id)
         \/ cancelPoll(sender, id)
         \/ voidPoll(sender, id)
  PROVE  BB!Next
<1>1. PICK status \in {"Closed", "Cancelled", "Void"} :
         /\ Retire(sender, id, status)
         /\ status = "Closed" => now > polls[id].deadline
         /\ status = "Cancelled" => polls[id].totalVotes = 0
  BY DEF closePoll, cancelPoll, voidPoll
<1> DEFINE outcome == PhaseOf(status)
<1>2. /\ polls[id].exists /\ polls[id].status = "Open"
      /\ UNCHANGED <<voteCast, now>>
  BY <1>1 DEF Retire, ballots
<1>3. /\ polls'[id].status = status
      /\ \A i \in PollId : /\ polls'[i].exists = polls[i].exists
                           /\ polls'[i].merkleRoot = polls[i].merkleRoot
                           /\ polls'[i].numOptions = polls[i].numOptions
                           /\ polls'[i].deadline = polls[i].deadline
                           /\ i # id => polls'[i] = polls[i]
  BY <1>1 DEF Retire, TypeOK, Poll
<1>4. /\ outcome \in {"final", "withdrawn", "discarded"}
      /\ outcome = "final" => status = "Closed"
      /\ outcome = "withdrawn" => status = "Cancelled"
  BY DEF PhaseOf
<1>5. phaseBar[id] = "voting"
  BY <1>2 DEF phaseBar, PhaseOf
<1>6. phaseBar' = [phaseBar EXCEPT ![id] = outcome]
  BY <1>3 DEF phaseBar
<1>7. UNCHANGED <<electorateBar, offeredBar, expiredBar>>
  BY <1>2, <1>3 DEF electorateBar, offeredBar, expiredBar
<1>8. outcome = "final" => expiredBar[id]
  BY <1>1, <1>2, <1>4 DEF expiredBar
<1>9. outcome = "withdrawn" => boxBar[id] = {}
  <2> SUFFICES ASSUME status = "Cancelled" PROVE boxBar[id] = {}
    BY <1>4
  <2>1. IsFiniteSet(Ballots(id))
    BY FS_Subset DEF IInv, Ballots
  <2>2. Cardinality(Ballots(id)) = 0
    BY <1>1 DEF IInv, TallyIsTheBallots
  <2> QED
    BY <2>1, <2>2, FS_EmptySet DEF boxBar
<1> HIDE DEF outcome
<1>10. BB!End(id, outcome)
  BY <1>2, <1>5, <1>6, <1>7, <1>8, <1>9, BoxKept DEF BB!End
<1> QED
  BY <1>4, <1>10 DEF BB!Next

(* castVote puts the choice of one member who had none into the box. *)
LEMMA CastVoteVotes ==
  ASSUME TypeOK, IInv, NEW id \in PollId, NEW proof \in Proof,
         NEW nullifierHash \in NullifierHash, NEW voteOption \in Option,
         castVote(id, proof, nullifierHash, voteOption)
  PROVE  BB!Next
<1> DEFINE v == proof.secret
           b == [pollId |-> id, nullifierHash |-> nullifierHash,
                 voteOption |-> voteOption]
<1>1. /\ nullifierHash.elem.secret = v
      /\ v \in Members[polls[id].merkleRoot.elem]
      /\ \A e \in Ballots(id) : e.nullifierHash.elem.secret # v
  <2>1. /\ nullifierHash.elem = [secret |-> proof.secret, voteId |-> id]
        /\ checkField(nullifierHash)
        /\ proof.secret \in Members[polls[id].merkleRoot.elem]
        /\ \A e \in Ballots(id) :
              e.nullifierHash.elem.secret # nullifierHash.elem.secret
    BY BallotIsNew
  <2> QED
    BY <2>1
<1>2. /\ b.pollId = id /\ b.nullifierHash = nullifierHash
      /\ b.voteOption = voteOption
  OBVIOUS
<1>3. voteCast' = voteCast \cup {b} /\ now' = now
  BY DEF castVote
<1>4. /\ polls[id].exists /\ polls[id].status = "Open"
      /\ ~(now > polls[id].deadline) /\ voteOption < polls[id].numOptions
  BY DEF castVote, TypeOK, Time, Poll
<1>5. \A i \in PollId : /\ polls'[i].merkleRoot = polls[i].merkleRoot
                        /\ polls'[i].deadline = polls[i].deadline
                        /\ polls'[i].numOptions = polls[i].numOptions
                        /\ polls'[i].exists = polls[i].exists
                        /\ polls'[i].status = polls[i].status
  BY DEF castVote, TypeOK, Poll
<1>6. UNCHANGED <<phaseBar, electorateBar, offeredBar, expiredBar>>
  BY <1>3, <1>5 DEF phaseBar, electorateBar, offeredBar, expiredBar
<1>7. phaseBar[id] = "voting" /\ ~expiredBar[id]
  BY <1>4 DEF phaseBar, PhaseOf, expiredBar
<1>8. v \in electorateBar[id] /\ voteOption \in offeredBar[id]
  BY <1>1, <1>4 DEF electorateBar, offeredBar
<1>9. \A d \in Option : <<v, d>> \notin boxBar[id]
  BY <1>1 DEF boxBar
<1>10. boxBar' = [boxBar EXCEPT ![id] = @ \cup {<<v, voteOption>>}]
  <2> HIDE DEF b
  <2>1. Ballots(id)' = Ballots(id) \cup {b}
    BY <1>2, <1>3 DEF Ballots
  <2>2. \A i \in PollId : i # id => Ballots(i)' = Ballots(i)
    BY <1>2, <1>3 DEF Ballots
  <2>3. <<b.nullifierHash.elem.secret, b.voteOption>> = <<v, voteOption>>
    BY <1>1, <1>2
  <2>4. boxBar'[id] = boxBar[id] \cup {<<v, voteOption>>}
    BY <2>1, <2>3 DEF boxBar
  <2>5. \A i \in PollId : i # id => boxBar'[i] = boxBar[i]
    BY <2>2 DEF boxBar
  <2> QED
    BY <2>4, <2>5 DEF boxBar
<1>11. v \in Secret
  BY DEF Proof
<1> HIDE DEF v, b
<1>12. BB!Vote(id, v, voteOption)
  BY <1>6, <1>7, <1>8, <1>9, <1>10 DEF BB!Vote
<1> QED
  BY <1>11, <1>12 DEF BB!Next

(* A later block ends the voting period of the polls whose deadline it passes. *)
LEMMA TickExpires ==
  ASSUME TypeOK, Tick
  PROVE  BB!Next
<1> DEFINE ps == {id \in PollId : polls[id].exists /\ now' > polls[id].deadline}
<1>1. UNCHANGED <<polls, voteCast>> /\ now' = now + 1
  BY DEF Tick, ballots
<1>2. UNCHANGED <<phaseBar, electorateBar, offeredBar, boxBar>>
  BY <1>1, BoxKept DEF phaseBar, electorateBar, offeredBar
<1>3. expiredBar' = [id \in PollId |-> expiredBar[id] \/ id \in ps]
  <2>1. \A id \in PollId : now > polls[id].deadline => now' > polls[id].deadline
    BY <1>1 DEF TypeOK, Poll, Time
  <2>2. \A id \in PollId : (expiredBar[id] \/ id \in ps) <=>
           (polls[id].exists /\ now' > polls[id].deadline)
    BY <2>1 DEF expiredBar
  <2>3. \A id \in PollId : (expiredBar[id] \/ id \in ps) =
           (polls'[id].exists /\ now' > polls'[id].deadline)
    BY <1>1, <2>2
  <2> QED
    BY <2>3 DEF expiredBar
<1> HIDE DEF ps
<1>4. BB!Expire(ps)
  BY <1>2, <1>3 DEF BB!Expire
<1>5. ps \in SUBSET PollId
  BY DEF ps
<1> QED
  BY <1>4, <1>5 DEF BB!Next

(* The contract implements the ballot box, for every instance. *)
THEOREM Refinement == Spec => ImplementsBallotBox
<1>1. Init => BB!Init
  <2> SUFFICES ASSUME Init PROVE BB!Init
    OBVIOUS
  <2>1. \A id \in PollId : /\ ~polls[id].exists
                           /\ polls[id].status = "Nonexistent"
                           /\ polls[id].numOptions = 0
                           /\ Ballots(id) = {}
    BY DEF Init, NoPoll, Ballots
  <2>2. phaseBar = [id \in PollId |-> "none"]
    <3>1. PhaseOf("Nonexistent") = "none"
      BY DEF PhaseOf
    <3> QED
      BY <2>1, <3>1 DEF phaseBar
  <2>3. electorateBar = [id \in PollId |-> {}]
    BY <2>1 DEF electorateBar
  <2>4. offeredBar = [id \in PollId |-> {}]
    BY <2>1 DEF offeredBar, Option
  <2>5. expiredBar = [id \in PollId |-> FALSE]
    BY <2>1 DEF expiredBar
  <2>6. boxBar = [id \in PollId |-> {}]
    BY <2>1 DEF boxBar
  <2> QED
    BY <2>2, <2>3, <2>4, <2>5, <2>6 DEF BB!Init
<1>2. TypeOK /\ IInv /\ [Next]_vars => [BB!Next]_(BB!vars)
  <2> SUFFICES ASSUME TypeOK, IInv, [Next]_vars
               PROVE BB!Next \/ UNCHANGED BB!vars
    OBVIOUS
  <2>1. ASSUME UNCHANGED <<polls, voteCast, now>> PROVE UNCHANGED BB!vars
    BY <2>1, BoxKept
    DEF BB!vars, phaseBar, electorateBar, offeredBar, expiredBar
  <2>2. ASSUME NEW sender \in Account, OwnerStep(sender)
        PROVE BB!Next \/ UNCHANGED BB!vars
    <3>1. CASE \E root \in MerkleRoot, n \in Option, d \in Time :
                  createPoll(sender, root, n, d)
      BY <3>1, CreateAnnounces
    <3>2. CASE \E id \in PollId : \/ closePoll(sender, id)
                                  \/ cancelPoll(sender, id)
                                  \/ voidPoll(sender, id)
      BY <3>2, RetireEnds
    <3>3. CASE \/ \E newOwner \in Account \cup {NoAddress} :
                     transferOwnership(sender, newOwner)
               \/ cancelOwnershipTransfer(sender)
               \/ acceptOwnership(sender)
      BY <2>1, <3>3 DEF transferOwnership, cancelOwnershipTransfer,
                        acceptOwnership, ballots
    <3> QED
      BY <2>2, <3>1, <3>2, <3>3 DEF OwnerStep
  <2>3. CASE VoteStep
    BY <2>3, CastVoteVotes DEF VoteStep
  <2>4. CASE Tick
    BY <2>4, TickExpires
  <2>5. CASE UNCHANGED vars
    BY <2>1, <2>5 DEF vars
  <2> QED
    BY <2>2, <2>3, <2>4, <2>5 DEF Next
<1> QED
  BY <1>1, <1>2, TypeCorrect, Inductive, PTL DEF Spec, ImplementsBallotBox, BB!Spec
=============================================================================
