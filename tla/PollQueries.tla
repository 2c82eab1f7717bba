---------------------------- MODULE PollQueries ----------------------------
(***************************************************************************)
(* GET /api/polls and GET /api/polls/:id, added to the tally request of    *)
(* TallyQuery: the relayer asks the node for the next poll id, the         *)
(* PollCreated logs (the only place a poll's question is kept), the block  *)
(* time and one poll after another, while the chain goes on.               *)
(***************************************************************************)
EXTENDS TallyQuery

CONSTANT NoClock   \* the block time of a node that did not answer

ASSUME NoClockAssumption == NoClock \notin Time

Created == {id \in PollId : polls[id].exists}

\* What the two requests ask for, in order.
\* Mutant: the logs are read before the number of polls.
ScanFirst == <<"scan", "next", "clock", "polls">>
fetch_all_polls == <<"next", "scan", "clock", "polls">>
fetch_poll == <<"clock", "polls", "scan">>

\* A request for the polls first..last.  `over` remembers which polls had
\* stopped taking votes when it arrived; no answer says so.
Asking(plan, first, last) ==
    [step |-> plan[1], rest |-> Tail(plan), at |-> first, last |-> last,
     clock |-> NoClock, questions |-> {}, scanned |-> FALSE, list |-> {},
     over |-> {id \in Created : VotingIsOver(id)}]

\* The next step of the plan.  The answer keeps no cursor, and of the block
\* time only whether there was one.
Proceed(q) ==
    IF q.rest # <<>>
    THEN [q EXCEPT !.step = Head(q.rest), !.rest = Tail(q.rest)]
    ELSE [step |-> "listed", list |-> q.list, timed |-> q.clock # NoClock,
          over |-> q.over, scanned |-> q.scanned, questions |-> q.questions]

list_polls ==
    /\ query = NoQuery
    /\ query' = Asking(fetch_all_polls, 1, 0)
    /\ UNCHANGED vars

get_poll(id) ==
    /\ query = NoQuery
    /\ query' = Asking(fetch_poll, id, id)
    /\ UNCHANGED vars

\* nextPollId: the list runs to the poll before it; an error refuses it.
AskNextPollId ==
    /\ query.step = "next"
    /\ query' \in {Proceed([query EXCEPT !.last = nextPollId - 1]), QueryRefused}
    /\ UNCHANGED vars

\* The questions of all polls created so far, or none when the scan fails.
fetch_metadata_uris ==
    /\ query.step = "scan"
    /\ query' \in {Proceed([query EXCEPT !.questions = Created,
                                       !.scanned = TRUE]),
                   Proceed(query)}
    /\ UNCHANGED vars

\* The latest block's timestamp, unless the node does not answer.
chain_now ==
    /\ query.step = "clock"
    /\ \E clock \in {now, NoClock} :
          query' = Proceed([query EXCEPT !.clock = clock])
    /\ UNCHANGED vars

\* Mutant: a poll at its deadline is shown as ended.
acceptingBefore(id) ==
    /\ polls[id].status = "Open"
    /\ query.clock = NoClock \/ query.clock < polls[id].deadline

\* The accepting_votes the relayer adds to getPoll's `active`.
accepting_votes(id) ==
    /\ polls[id].status = "Open"
    /\ query.clock = NoClock \/ query.clock <= polls[id].deadline

PollData(id) == [id |-> id, accepting |-> accepting_votes(id)]

\* Nothing is left to ask for.
Exhausted(q) == IF q.at > q.last THEN Proceed(q) ELSE q

\* getPoll for the next id.  Alone, an unknown poll or an error refuses the
\* request; in the list it is left out.
ReadPoll ==
    /\ query.step = "polls"
    /\ query.at <= query.last
    /\ LET read == [query EXCEPT !.at = @ + 1] IN
       \/ /\ polls[query.at].exists
          /\ query' = Exhausted([read EXCEPT !.list = @ \cup {PollData(query.at)}])
       \/ query' = IF query.rest = <<>> THEN Exhausted(read) ELSE QueryRefused
    /\ UNCHANGED vars

\* A list without polls.
ReadNothing ==
    /\ query.step = "polls"
    /\ query.at > query.last
    /\ query' = Proceed(query)
    /\ UNCHANGED vars

PollQueriesNext ==
    \/ QueryNext
    \/ list_polls \/ \E id \in PollId : get_poll(id)
    \/ AskNextPollId \/ fetch_metadata_uris \/ chain_now
    \/ ReadPoll \/ ReadNothing

PollQueriesSpec == QueryInit /\ [][PollQueriesNext]_queryVars
-----------------------------------------------------------------------------
Listed == IF query.step = "listed" THEN query.list ELSE {}

\* A poll shown as ended ("Voting on this poll has ended. The tally above is
\* the result.") never takes another vote, and one shown as accepting had not
\* ended when the request arrived, so no voter spends a proof on it, although
\* its block time and its status were read at different blocks.  (Without a
\* block time the relayer falls back to `active` alone.)
AcceptingIsHonest ==
    \A p \in Listed :
       /\ ~p.accepting => VotingIsOver(p.id)
       /\ p.accepting /\ query.timed => p.id \notin query.over

\* Unless the log scan failed, every poll of an answer has its question, also
\* one that is created while the request runs.
ListedHasItsQuestion ==
    query.step = "listed" /\ query.scanned =>
       \A p \in Listed : p.id \in query.questions
=============================================================================
