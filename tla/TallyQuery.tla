----------------------------- MODULE TallyQuery -----------------------------
(***************************************************************************)
(* GET /api/polls/:id/tally: the relayer answers from several view calls   *)
(* (getPoll, then getOptionTally for one option after another), each a     *)
(* read of the latest block, while votes and owner transactions of         *)
(* VotingManager are mined in between.                                     *)
(***************************************************************************)
EXTENDS VotingManager, Sequences

VARIABLE query   \* the one request followed, as fetch_tally's locals

queryVars == <<vars, query>>

NoQuery == [step |-> "idle"]
QueryRefused == [step |-> "refused"]

QueryInit == Init /\ query = NoQuery

\* No vote can be counted any more: the lifecycle or the deadline ended.
VotingIsOver(id) == polls[id].status # "Open" \/ now > polls[id].deadline

\* getPoll: the metadata and total_votes, or an error: an unknown poll, or a
\* node that does not answer.
\* `over` remembers whether votes could still come in; the response omits it.
fetch_poll_core(id) ==
    /\ query = NoQuery
    /\ \/ /\ polls[id].exists
          /\ query' = [step |-> "reading", pollId |-> id,
                       numOptions |-> polls[id].numOptions,
                       totalVotes |-> polls[id].totalVotes,
                       optionTallies |-> <<>>,
                       over |-> VotingIsOver(id)]
       \/ query' = QueryRefused
    /\ UNCHANGED vars

\* getOptionTally reverts for a voided poll.
getOptionTally(id) == polls[id].status # "Void"

\* Mutant: options counted from one.
nextTallyFromOne == polls[query.pollId].optionTally[Len(query.optionTallies) + 1]

\* The counter of the option the loop is at.
nextTally == polls[query.pollId].optionTally[Len(query.optionTallies)]

\* One round of the loop over the options; the last one completes the answer,
\* a failing one ends it.
fetch_tally ==
    /\ query.step = "reading"
    /\ LET read == Append(query.optionTallies, nextTally) IN
       \/ /\ getOptionTally(query.pollId)
          /\ query' = [query EXCEPT
                         !.optionTallies = read,
                         !.step = IF Len(read) = query.numOptions
                                  THEN "done" ELSE "reading"]
       \/ query' = QueryRefused
    /\ UNCHANGED vars

QueryNext ==
    \/ Next /\ UNCHANGED query
    \/ \E id \in PollId : fetch_poll_core(id)
    \/ fetch_tally

QuerySpec == QueryInit /\ [][QueryNext]_queryVars
-----------------------------------------------------------------------------
Total(tallies) ==
    LET upTo[n \in 0..Len(tallies)] ==
            IF n = 0 THEN 0 ELSE upTo[n - 1] + tallies[n]
    IN  upTo[Len(tallies)]

\* The answer to a tally request made once voting was over is the on-chain
\* result: every counter is exact and they add up to the total, whatever the
\* owner does to the poll meanwhile.
EndedTallyIsExact ==
    (query.step = "done" /\ query.over) =>
        /\ \A i \in 1..query.numOptions :
              query.optionTallies[i] = polls[query.pollId].optionTally[i - 1]
        /\ Total(query.optionTallies) = query.totalVotes

\* Whatever is mined between the reads, an answer's counters account for every
\* ballot of its total and invent none: total_votes, read first, never exceeds
\* their sum, and their sum never exceeds the ballots on the chain.
TornTallyIsBracketed ==
    query.step = "done" =>
        /\ query.totalVotes <= Total(query.optionTallies)
        /\ Total(query.optionTallies) <= polls[query.pollId].totalVotes
=============================================================================
