----------------------------- MODULE BallotBox -----------------------------
(***************************************************************************)
(* What a poll promises its voters, without a contract, proofs or hashes:  *)
(* a fixed electorate, a fixed set of options, a voting period, at most    *)
(* one choice per member, and a box that is never touched again once the   *)
(* poll has ended.  VotingManager implements this specification (see       *)
(* VotingManagerBallotBox).                                                *)
(***************************************************************************)
EXTENDS Integers

CONSTANTS Voter, PollName, Choice

VARIABLES
    phase,       \* phase[p]: where poll p is in its life
    electorate,  \* electorate[p]: who may vote in p
    offered,     \* offered[p]: the choices of p
    expired,     \* expired[p]: the voting period of p is over
    box          \* box[p]: the choices counted so far, with their voter

vars == <<phase, electorate, offered, expired, box>>

Init ==
    /\ phase = [p \in PollName |-> "none"]
    /\ electorate = [p \in PollName |-> {}]
    /\ offered = [p \in PollName |-> {}]
    /\ expired = [p \in PollName |-> FALSE]
    /\ box = [p \in PollName |-> {}]

Announce(p, voters, choices) ==
    /\ phase[p] = "none"
    /\ phase' = [phase EXCEPT ![p] = "voting"]
    /\ electorate' = [electorate EXCEPT ![p] = voters]
    /\ offered' = [offered EXCEPT ![p] = choices]
    /\ UNCHANGED <<expired, box>>

Vote(p, v, c) ==
    /\ phase[p] = "voting"
    /\ ~expired[p]
    /\ v \in electorate[p]
    /\ c \in offered[p]
    /\ \A d \in Choice : <<v, d>> \notin box[p]
    /\ box' = [box EXCEPT ![p] = @ \cup {<<v, c>>}]
    /\ UNCHANGED <<phase, electorate, offered, expired>>

\* The result stands only after the period; a poll nobody voted in can be
\* withdrawn; any running poll can be discarded with its box.
End(p, outcome) ==
    /\ phase[p] = "voting"
    /\ outcome = "final" => expired[p]
    /\ outcome = "withdrawn" => box[p] = {}
    /\ phase' = [phase EXCEPT ![p] = outcome]
    /\ UNCHANGED <<electorate, offered, expired, box>>

Expire(ps) ==
    /\ expired' = [p \in PollName |-> expired[p] \/ p \in ps]
    /\ UNCHANGED <<phase, electorate, offered, box>>

Next ==
    \/ \E p \in PollName :
          \/ \E voters \in SUBSET Voter, choices \in SUBSET Choice :
                Announce(p, voters, choices)
          \/ \E v \in Voter, c \in Choice : Vote(p, v, c)
          \/ \E outcome \in {"final", "withdrawn", "discarded"} :
                End(p, outcome)
    \/ \E ps \in SUBSET PollName : Expire(ps)

Spec == Init /\ [][Next]_vars
=============================================================================
