----------------------- MODULE VotingManagerBallotBox -----------------------
(***************************************************************************)
(* The contract implements BallotBox: the voter behind a counted ballot is *)
(* the secret its nullifier hashes, the electorate is the whitelist under  *)
(* the poll's root, the box is the poll's VoteCast log.                    *)
(***************************************************************************)
EXTENDS VotingManager

PhaseOf(status) ==
    CASE status = "Nonexistent" -> "none"
      [] status = "Open"        -> "voting"
      [] status = "Closed"      -> "final"
      [] status = "Cancelled"   -> "withdrawn"
      [] status = "Void"        -> "discarded"

phaseBar == [id \in PollId |-> PhaseOf(polls[id].status)]
electorateBar ==
    [id \in PollId |-> IF polls[id].exists
                       THEN Members[polls[id].merkleRoot.elem] ELSE {}]
offeredBar ==
    [id \in PollId |-> {o \in Option : o < polls[id].numOptions}]
expiredBar ==
    [id \in PollId |-> polls[id].exists /\ now > polls[id].deadline]
boxBar ==
    [id \in PollId |-> {<<e.nullifierHash.elem.secret, e.voteOption>> :
                           e \in Ballots(id)}]

BB == INSTANCE BallotBox WITH
        Voter <- Secret, PollName <- PollId, Choice <- Option,
        phase <- phaseBar, electorate <- electorateBar,
        offered <- offeredBar, expired <- expiredBar, box <- boxBar

\* Every behaviour of the contract is a behaviour of the ballot box: no
\* transaction counts, moves, drops or reveals a choice the box would not.
ImplementsBallotBox == BB!Spec
=============================================================================
