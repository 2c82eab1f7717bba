------------------------------ MODULE MCRelay ------------------------------
(***************************************************************************)
(* Instances of Relay for TLC: one poll, the ballots of one voter for two  *)
(* options, one of them also with the wrong proof, and the poll's life.    *)
(***************************************************************************)
EXTENDS Relay, TLC

CONSTANTS s1, t1, r1, r2

MCMembers == t1 :> {s1}

Vote(proved, option, wrap) ==
    [op |-> "castVote", id |-> 1, voteOption |-> option,
     proof |-> [secret |-> s1, tree |-> t1, voteId |-> 1, voteOption |-> proved],
     nullifierHash |-> [elem |-> Poseidon2(s1, 1), wrap |-> wrap]]

Retirement(o) == [op |-> o, id |-> 1]

Creation(deadline) ==
    [op |-> "createPoll", merkleRoot |-> [elem |-> t1, wrap |-> 0],
     numOptions |-> 2, deadline |-> deadline]

\* Two copies of one ballot, and a ballot against each admin call.
MCBody ==
    r1 :> {Vote(0, 0, 0), Creation(1), Retirement("closePoll")} @@
    r2 :> {Vote(0, 0, 0), [Vote(0, 0, 0) EXCEPT !.id = 0], Vote(0, 1, 0),
           Vote(1, 1, 0), Creation(0),
           Retirement("cancelPoll"), Retirement("voidPoll")}
=============================================================================
