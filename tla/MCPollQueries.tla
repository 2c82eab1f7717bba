---------------------------- MODULE MCPollQueries ---------------------------
(***************************************************************************)
(* Instances of PollQueries for TLC: two options, two voters.              *)
(***************************************************************************)
EXTENDS PollQueries, TLC

CONSTANTS s1, s2, tBoth

MCMembers == tBoth :> {s1, s2}
VoterSymmetry == Permutations({s1, s2})

\* With one account a handover changes nothing a query or a property reads.
WithoutHandover == <<nextPollId, polls, nullifierUsed, voteCast, now, query>>
=============================================================================
