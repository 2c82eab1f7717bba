--------------------------- MODULE Relayer_proofs ---------------------------
(***************************************************************************)
(* Proofs about the relayer's side of the chain.  PollQueries: an answer   *)
(* put together from reads of different blocks is honest about which polls *)
(* take votes, carries the question of every poll it lists, and a tally is *)
(* exact once voting is over and bracketed before.  Relay: what a refused, *)
(* a broadcast or a reverted submission means, for any number of requests  *)
(* and any chain.                                                          *)
(***************************************************************************)
EXTENDS PollQueries, Relay, VotingManager_proofs, WellFoundedInduction

-----------------------------------------------------------------------------
(* The chain between two reads. *)

\* A poll exists once its id was handed out, and only those do.
IdsAreHandedOut ==
    \A id \in PollId : /\ polls[id].exists <=> id < nextPollId
                       /\ ~polls[id].exists => polls[id].status = "Nonexistent"

\* Time only passes, polls are only added, votes are only added, and no poll
\* reopens or changes its terms.
ChainGoesOn ==
    /\ now <= now'
    /\ nextPollId <= nextPollId'
    /\ \A id \in PollId :
          polls[id].exists =>
             /\ polls'[id].exists
             /\ polls'[id].deadline = polls[id].deadline
             /\ polls'[id].merkleRoot = polls[id].merkleRoot
             /\ polls'[id].numOptions = polls[id].numOptions
             /\ polls[id].totalVotes <= polls'[id].totalVotes
             /\ nullifierUsed[id] \subseteq nullifierUsed'[id]
             /\ polls[id].status # "Open" => polls'[id].status # "Open"

ChainInv == TypeOK /\ IdsAreHandedOut

\* The chain as it is deployed.
LEMMA ChainStarts == Init => ChainInv
<1> SUFFICES ASSUME Init PROVE ChainInv
  OBVIOUS
<1>1. TypeOK
  BY CircuitAssumption, ManagerAssumption
  DEF Init, TypeOK, NoPoll, Poll, PollStatus, Time, Option
<1>2. IdsAreHandedOut
  BY DEF Init, IdsAreHandedOut, NoPoll, PollId
<1> QED
  BY <1>1, <1>2 DEF ChainInv

\* Whatever is mined, the chain only goes on.
LEMMA ChainStep ==
  ASSUME ChainInv, [Next]_vars
  PROVE  ChainInv' /\ ChainGoesOn
<1> USE DEF ChainInv
<1>1. TypeOK'
  BY TypeCorrectStep
<1>2. ASSUME NEW sender \in Account, NEW root \in MerkleRoot,
             NEW n \in Option, NEW d \in Time,
             createPoll(sender, root, n, d)
      PROVE  IdsAreHandedOut' /\ ChainGoesOn
  <2>1. /\ nextPollId \in PollId /\ nextPollId' = nextPollId + 1 /\ now' = now
        /\ nullifierUsed' = nullifierUsed
        /\ \A id \in PollId : id # nextPollId => polls'[id] = polls[id]
        /\ polls'[nextPollId].exists
    BY <1>2 DEF createPoll, ballots, TypeOK, Poll
  <2>2. ~polls[nextPollId].exists
    BY <2>1 DEF IdsAreHandedOut, PollId
  <2>3. IdsAreHandedOut'
    BY <2>1, <2>2 DEF IdsAreHandedOut, PollId
  <2>4. now \in Int /\ nextPollId \in Int /\ \A id \in PollId : polls[id].totalVotes \in Int
    BY <2>1 DEF TypeOK, Time, PollId, Poll
  <2>5. \A id \in PollId : polls[id].exists => polls'[id] = polls[id]
    BY <2>1, <2>2
  <2>6. now <= now' /\ nextPollId <= nextPollId'
    BY <2>1, <2>4
  <2>7. \A id \in PollId : polls[id].exists => polls[id].totalVotes <= polls'[id].totalVotes
    BY <2>4, <2>5
  <2> QED
    BY <2>1, <2>3, <2>5, <2>6, <2>7 DEF ChainGoesOn
<1>3. ASSUME NEW sender \in Account, NEW id \in PollId,
             NEW status \in {"Closed", "Cancelled", "Void"}, Retire(sender, id, status)
      PROVE  IdsAreHandedOut' /\ ChainGoesOn
  <2>1. /\ nextPollId' = nextPollId /\ now' = now /\ nullifierUsed' = nullifierUsed
        /\ polls[id].exists
        /\ \A i \in PollId : /\ i # id => polls'[i] = polls[i]
                             /\ polls'[i].exists = polls[i].exists
                             /\ polls'[i].deadline = polls[i].deadline
                             /\ polls'[i].merkleRoot = polls[i].merkleRoot
                             /\ polls'[i].numOptions = polls[i].numOptions
                             /\ polls'[i].totalVotes = polls[i].totalVotes
                             /\ polls'[i].status = IF i = id THEN status ELSE polls[i].status
    BY <1>3 DEF Retire, ballots, TypeOK, Poll
  <2>2. now \in Int /\ nextPollId \in Int /\ \A i \in PollId : polls[i].totalVotes \in Int
    BY DEF TypeOK, Time, Poll
  <2> QED
    BY <2>1, <2>2 DEF IdsAreHandedOut, ChainGoesOn
<1>4. ASSUME NEW id \in PollId, NEW proof \in Proof,
             NEW nullifierHash \in NullifierHash, NEW voteOption \in Option,
             castVote(id, proof, nullifierHash, voteOption)
      PROVE  IdsAreHandedOut' /\ ChainGoesOn
  <2>1. /\ nextPollId' = nextPollId /\ now' = now
        /\ \A i \in PollId : /\ polls'[i].exists = polls[i].exists
                             /\ polls'[i].deadline = polls[i].deadline
                             /\ polls'[i].merkleRoot = polls[i].merkleRoot
                             /\ polls'[i].numOptions = polls[i].numOptions
                             /\ polls'[i].totalVotes \in {polls[i].totalVotes, polls[i].totalVotes + 1}
                             /\ polls'[i].status = polls[i].status
    BY <1>4 DEF castVote, TypeOK, Poll
  <2>2. now \in Int /\ nextPollId \in Int /\ \A i \in PollId : polls[i].totalVotes \in Int
    BY DEF TypeOK, Time, Poll
  <2>3. \A i \in PollId : nullifierUsed[i] \subseteq nullifierUsed'[i]
    BY <1>4 DEF castVote, TypeOK
  <2> QED
    BY <2>1, <2>2, <2>3 DEF IdsAreHandedOut, ChainGoesOn
<1>5. ASSUME UNCHANGED <<nextPollId, polls, nullifierUsed>>, now' \in {now, now + 1}
      PROVE  IdsAreHandedOut' /\ ChainGoesOn
  <2>1. now \in Int /\ nextPollId \in Int /\ \A i \in PollId : polls[i].totalVotes \in Int
    BY DEF TypeOK, Time, Poll
  <2> QED
    BY <1>5, <2>1 DEF IdsAreHandedOut, ChainGoesOn
<1> QED
  BY <1>1, <1>2, <1>3, <1>4, <1>5
  DEF Next, OwnerStep, VoteStep, Tick, closePoll, cancelPoll, voidPoll, vars,
      ballots, transferOwnership, cancelOwnershipTransfer, acceptOwnership
-----------------------------------------------------------------------------
(* The request under way. *)

Asked == [step : {"next", "scan", "clock", "polls"},
          rest : Seq({"next", "scan", "clock", "polls"}),
          at : Nat, last : Int, clock : Time \cup {NoClock},
          questions : SUBSET PollId, scanned : BOOLEAN,
          list : SUBSET [id : PollId, accepting : BOOLEAN],
          over : SUBSET PollId]

ListAnswer == [step : {"listed"}, list : SUBSET [id : PollId, accepting : BOOLEAN],
             timed : BOOLEAN, over : SUBSET PollId, scanned : BOOLEAN,
             questions : SUBSET PollId]

\* Where a request stands in the plan of the list, and of a single poll.
ListStage(q) ==
    \/ q.step = "next" /\ q.rest = <<"scan", "clock", "polls">>
    \/ q.step = "scan" /\ q.rest = <<"clock", "polls">>
    \/ q.step = "clock" /\ q.rest = <<"polls">>
    \/ q.step = "polls" /\ q.rest = <<>>

PollStage(q) ==
    \/ q.step = "clock" /\ q.rest = <<"polls", "scan">>
    \/ q.step = "polls" /\ q.rest = <<"scan">>
    \/ q.step = "scan" /\ q.rest = <<>>

\* What the list of polls says, given the block time it was made with.
ListIsHonest(q, timed) ==
    \A p \in q.list :
       /\ polls[p.id].exists
       /\ ~p.accepting => VotingIsOver(p.id)
       /\ p.accepting /\ timed => p.id \notin q.over

\* The polls that were over when the request arrived are over at its block
\* time, whenever it asks for it.
OverIsOver(q) ==
    \A id \in q.over :
       /\ polls[id].exists
       /\ \/ polls[id].status # "Open"
          \/ /\ now > polls[id].deadline
             /\ q.clock # NoClock => q.clock > polls[id].deadline

\* The list asks for polls the contract had counted before the logs were
\* scanned; a single poll's logs are scanned after it was read.
QuestionsCover(q) ==
    /\ ListStage(q) =>
          /\ q.last < nextPollId
          /\ q.step = "next" => ~q.scanned
          /\ q.scanned => {id \in PollId : id <= q.last} \subseteq q.questions
    /\ \A p \in q.list : p.id <= q.last
    /\ PollStage(q) => ~q.scanned /\ q.last \in PollId

AskedInv(q) ==
    /\ q \in Asked
    /\ ListStage(q) \/ PollStage(q)
    /\ q.at >= 1
    /\ q.clock # NoClock => q.clock <= now
    /\ q.step \in {"next", "clock"} => q.list = {}
    /\ ListStage(q) /\ q.step = "scan" => q.list = {}
    /\ ListIsHonest(q, q.clock # NoClock)
    /\ OverIsOver(q)
    /\ QuestionsCover(q)

AnsweredInv(q) ==
    /\ q \in ListAnswer
    /\ ListIsHonest(q, q.timed)
    /\ q.scanned => \A p \in q.list : p.id \in q.questions

PollsAsked == {"next", "scan", "clock", "polls"}

QueryInv ==
    /\ query.step \in PollsAsked => AskedInv(query)
    /\ query.step = "listed" => AnsweredInv(query)
    /\ query.step = "reading" => "step" \in DOMAIN query   \* a tally's request

\* Voting that is over stays over.
LEMMA OverStays ==
  ASSUME ChainInv, ChainInv', ChainGoesOn, NEW id \in PollId, polls[id].exists,
         VotingIsOver(id)
  PROVE  VotingIsOver(id)'
<1>1. now \in Int /\ now' \in Int /\ polls[id].deadline \in Int
  BY DEF ChainInv, TypeOK, Poll, Time
<1> QED
  BY <1>1 DEF ChainGoesOn, VotingIsOver

\* The invariant of a request survives whatever the chain does meanwhile.
LEMMA AskedSurvives ==
  ASSUME ChainInv, ChainInv', ChainGoesOn, NEW q, AskedInv(q)
  PROVE  AskedInv(q)'
<1>1. /\ now \in Int /\ now' \in Int /\ now <= now'
      /\ nextPollId \in Int /\ nextPollId' \in Int /\ nextPollId <= nextPollId'
      /\ \A id \in PollId : polls[id].deadline \in Int
  BY DEF ChainInv, TypeOK, Poll, Time, ChainGoesOn
<1>2. /\ q \in Asked
      /\ q.last \in Int /\ q.clock \in Time \cup {NoClock}
      /\ q.over \subseteq PollId /\ \A p \in q.list : p.id \in PollId
  BY DEF AskedInv, Asked
<1>3. ListIsHonest(q, q.clock # NoClock)'
  <2> SUFFICES ASSUME NEW p \in q.list
               PROVE  /\ polls'[p.id].exists
                      /\ ~p.accepting => VotingIsOver(p.id)'
                      /\ p.accepting /\ q.clock # NoClock => p.id \notin q.over
    BY DEF ListIsHonest
  <2>1. /\ p.id \in PollId /\ polls[p.id].exists
        /\ ~p.accepting => VotingIsOver(p.id)
        /\ p.accepting /\ q.clock # NoClock => p.id \notin q.over
    BY <1>2 DEF AskedInv, ListIsHonest
  <2> QED
    BY <2>1, OverStays DEF ChainGoesOn
<1>4. OverIsOver(q)'
  <2> SUFFICES ASSUME NEW id \in q.over
               PROVE  /\ polls'[id].exists
                      /\ \/ polls'[id].status # "Open"
                         \/ /\ now' > polls'[id].deadline
                            /\ q.clock # NoClock => q.clock > polls'[id].deadline
    BY DEF OverIsOver
  <2>1. id \in PollId /\ polls[id].exists
    BY <1>2 DEF AskedInv, OverIsOver
  <2>2. \/ polls[id].status # "Open"
        \/ /\ now > polls[id].deadline
           /\ q.clock # NoClock => q.clock > polls[id].deadline
    BY DEF AskedInv, OverIsOver
  <2> QED
    BY <1>1, <2>1, <2>2 DEF ChainGoesOn
<1>5. QuestionsCover(q)'
  BY <1>1, <1>2 DEF AskedInv, QuestionsCover, ListStage, PollStage
<1>6. q.clock # NoClock => q.clock <= now'
  <2>1. q.clock # NoClock => q.clock \in Int /\ q.clock <= now
    BY <1>2 DEF AskedInv, Time
  <2> QED
    BY <1>1, <2>1
<1> QED
  BY <1>3, <1>4, <1>5, <1>6 DEF AskedInv, ListStage, PollStage, Asked

\* So does that of an answer.
LEMMA AnsweredSurvives ==
  ASSUME ChainInv, ChainInv', ChainGoesOn, NEW q, AnsweredInv(q)
  PROVE  AnsweredInv(q)'
<1>1. ListIsHonest(q, q.timed)'
  <2> SUFFICES ASSUME NEW p \in q.list
               PROVE  /\ polls'[p.id].exists
                      /\ ~p.accepting => VotingIsOver(p.id)'
                      /\ p.accepting /\ q.timed => p.id \notin q.over
    BY DEF ListIsHonest
  <2>1. /\ p.id \in PollId /\ polls[p.id].exists
        /\ ~p.accepting => VotingIsOver(p.id)
        /\ p.accepting /\ q.timed => p.id \notin q.over
    BY DEF AnsweredInv, ListAnswer, ListIsHonest
  <2> QED
    BY <2>1, OverStays DEF ChainGoesOn
<1> QED
  BY <1>1 DEF AnsweredInv, ListAnswer
-----------------------------------------------------------------------------
(* The plan: one step of it after another. *)

\* The plans, taken apart.
LEMMA Plans ==
  /\ Head(<<"scan", "clock", "polls">>) = "scan"
  /\ Tail(<<"scan", "clock", "polls">>) = <<"clock", "polls">>
  /\ Head(<<"clock", "polls">>) = "clock" /\ Tail(<<"clock", "polls">>) = <<"polls">>
  /\ Head(<<"polls">>) = "polls" /\ Tail(<<"polls">>) = <<>>
  /\ Head(<<"polls", "scan">>) = "polls" /\ Tail(<<"polls", "scan">>) = <<"scan">>
  /\ Head(<<"scan">>) = "scan" /\ Tail(<<"scan">>) = <<>>
  OBVIOUS

\* A request is in one plan or the other, and at its end when nothing is left.
LEMMA Stages ==
  ASSUME NEW q
  PROVE  /\ ~(ListStage(q) /\ PollStage(q))
         /\ ListStage(q) /\ q.rest = <<>> => q.step = "polls"
         /\ ListStage(q) /\ q.step = "polls" => q.rest = <<>>
         /\ PollStage(q) /\ q.rest = <<>> => q.step = "scan"
         /\ PollStage(q) /\ q.step = "scan" => q.rest = <<>>
  BY DEF ListStage, PollStage

\* With steps left, proceeding moves to the next one and keeps everything else.
LEMMA NextOfPlan ==
  ASSUME NEW q \in Asked, ListStage(q) \/ PollStage(q), q.rest # <<>>
  PROVE  LET r == Proceed(q) IN
         /\ r \in Asked
         /\ r.at = q.at /\ r.last = q.last /\ r.clock = q.clock
         /\ r.questions = q.questions /\ r.scanned = q.scanned
         /\ r.list = q.list /\ r.over = q.over
         /\ ListStage(q) => /\ ListStage(r)
                            /\ r.step # "next"
                            /\ r.step \in {"scan", "clock"} <=> q.step # "clock"
         /\ PollStage(q) => /\ PollStage(r)
                            /\ r.step # "clock"
<1> DEFINE r == Proceed(q)
<1>1. r = [q EXCEPT !.step = Head(q.rest), !.rest = Tail(q.rest)]
  BY DEF Proceed
<1>2. Head(q.rest) \in PollsAsked /\ Tail(q.rest) \in Seq(PollsAsked)
  BY DEF Asked, PollsAsked
<1>3. /\ r \in Asked
      /\ r.step = Head(q.rest) /\ r.rest = Tail(q.rest)
      /\ r.at = q.at /\ r.last = q.last /\ r.clock = q.clock
      /\ r.questions = q.questions /\ r.scanned = q.scanned
      /\ r.list = q.list /\ r.over = q.over
  BY <1>1, <1>2 DEF Asked, PollsAsked
<1> HIDE DEF r
<1>4. ListStage(q) => /\ ListStage(r)
                      /\ r.step # "next"
                      /\ r.step \in {"scan", "clock"} <=> q.step # "clock"
  BY <1>3, Plans DEF ListStage
<1>5. PollStage(q) => PollStage(r) /\ r.step # "clock"
  BY <1>3, Plans DEF PollStage
<1> QED
  BY <1>3, <1>4, <1>5 DEF r

\* What a request must have settled to take the next step of its plan.
LEMMA AskedProceeds ==
  ASSUME NEW q \in Asked, ListStage(q) \/ PollStage(q), q.rest # <<>>, q.at >= 1,
         q.clock # NoClock => q.clock <= now,
         ListIsHonest(q, q.clock # NoClock), OverIsOver(q),
         ListStage(q) => /\ q.last < nextPollId
                         /\ q.list = {}
                         /\ q.scanned => {id \in PollId : id <= q.last} \subseteq q.questions,
         PollStage(q) => ~q.scanned /\ q.last \in PollId,
         \A p \in q.list : p.id <= q.last
  PROVE  AskedInv(Proceed(q)) /\ Proceed(q).step \in PollsAsked
<1> DEFINE r == Proceed(q)
<1>1. /\ r \in Asked
      /\ r.at = q.at /\ r.last = q.last /\ r.clock = q.clock
      /\ r.questions = q.questions /\ r.scanned = q.scanned
      /\ r.list = q.list /\ r.over = q.over
      /\ ListStage(q) => ListStage(r) /\ r.step # "next"
      /\ PollStage(q) => PollStage(r) /\ r.step # "clock"
  BY NextOfPlan
<1>2. ~(ListStage(r) /\ PollStage(r))
  BY Stages
<1> HIDE DEF r
<1>3. ListIsHonest(r, r.clock # NoClock) /\ OverIsOver(r)
  BY <1>1 DEF ListIsHonest, OverIsOver
<1>4. QuestionsCover(r)
  BY <1>1, <1>2 DEF QuestionsCover
<1>5. /\ r.step \in {"next", "clock"} => r.list = {}
      /\ ListStage(r) /\ r.step = "scan" => r.list = {}
  BY <1>1, <1>2 DEF PollStage
<1>6. AskedInv(r) /\ r.step \in PollsAsked
  BY <1>1, <1>3, <1>4, <1>5 DEF AskedInv, Asked, PollsAsked
<1> QED
  BY <1>6 DEF r

\* The answer is the list, and whether there was a block time.
LEMMA AskedAnswers ==
  ASSUME NEW q \in Asked, q.rest = <<>>,
         ListIsHonest(q, q.clock # NoClock),
         q.scanned => \A p \in q.list : p.id \in q.questions
  PROVE  AnsweredInv(Proceed(q)) /\ Proceed(q).step = "listed"
<1> DEFINE r == Proceed(q)
<1>1. r = [step |-> "listed", list |-> q.list, timed |-> q.clock # NoClock,
           over |-> q.over, scanned |-> q.scanned, questions |-> q.questions]
  BY DEF Proceed
<1>2. /\ r.step = "listed" /\ r.list = q.list /\ r.over = q.over
      /\ r.scanned = q.scanned /\ r.questions = q.questions
      /\ r.timed = (q.clock # NoClock)
  BY <1>1
<1>3. r \in ListAnswer
  <2>1. (q.clock # NoClock) \in BOOLEAN
    OBVIOUS
  <2> QED
    BY <1>1, <2>1 DEF Asked, ListAnswer
<1> HIDE DEF r
<1>4. ListIsHonest(r, r.timed)
  BY <1>2 DEF ListIsHonest
<1>5. AnsweredInv(r)
  BY <1>2, <1>3, <1>4 DEF AnsweredInv
<1> QED
  BY <1>2, <1>5 DEF r
-----------------------------------------------------------------------------
(* One lemma per step of a request. *)

\* A request that arrives asks nothing yet and remembers which polls are over.
LEMMA ArrivalStep ==
  ASSUME ChainInv, NEW plan, NEW first \in Nat, first >= 1, NEW last \in Int,
         \/ plan = fetch_all_polls /\ last = 0
         \/ plan = fetch_poll /\ last \in PollId
  PROVE  AskedInv(Asking(plan, first, last)) /\ Asking(plan, first, last).step \in PollsAsked
<1> DEFINE q == Asking(plan, first, last)
<1>1. /\ ListStage(q) \/ PollStage(q)
      /\ q.step \in PollsAsked /\ q.rest \in Seq(PollsAsked)
      /\ ListStage(q) => last = 0
      /\ PollStage(q) => last \in PollId
  <2>1. CASE plan = fetch_all_polls /\ last = 0
    <3>1. q.step = "next" /\ q.rest = <<"scan", "clock", "polls">>
      BY <2>1 DEF Asking, fetch_all_polls
    <3>2. ListStage(q) /\ ~PollStage(q)
      BY <3>1, Stages DEF ListStage
    <3>3. q.rest \in Seq(PollsAsked) /\ q.step \in PollsAsked
      BY <3>1 DEF PollsAsked
    <3> QED
      BY <2>1, <3>2, <3>3
  <2>2. CASE plan = fetch_poll /\ last \in PollId
    <3>1. q.step = "clock" /\ q.rest = <<"polls", "scan">>
      BY <2>2 DEF Asking, fetch_poll
    <3> QED
      BY <2>2, <3>1, Stages DEF PollStage, PollsAsked
  <2> QED
    BY <2>1, <2>2
<1>2. /\ q.at = first /\ q.last = last /\ q.clock = NoClock /\ q.questions = {}
      /\ q.scanned = FALSE /\ q.list = {}
      /\ q.over = {id \in Created : VotingIsOver(id)}
  BY DEF Asking
<1>3. q \in Asked
  BY <1>1, <1>2 DEF Asking, Asked, PollsAsked, Created
<1> HIDE DEF q
<1>4. OverIsOver(q)
  BY <1>2 DEF OverIsOver, Created, VotingIsOver
<1>5. ListIsHonest(q, q.clock # NoClock)
  BY <1>2 DEF ListIsHonest
<1>6. QuestionsCover(q)
  <2>1. 0 < nextPollId
    BY DEF ChainInv, TypeOK
  <2> QED
    BY <1>1, <1>2, <2>1 DEF QuestionsCover
<1>7. AskedInv(q)
  BY <1>1, <1>2, <1>3, <1>4, <1>5, <1>6 DEF AskedInv
<1> QED
  BY <1>1, <1>7 DEF q

\* The polls there are when the count is read are created already; an error ends
\* the request.
LEMMA NextPollIdStep ==
  ASSUME ChainInv, QueryInv, AskNextPollId, query' # QueryRefused
  PROVE  AskedInv(query') /\ query'.step \in PollsAsked
<1> DEFINE q == [query EXCEPT !.last = nextPollId - 1]
<1>1. AskedInv(query) /\ query.step = "next" /\ query' = Proceed(q)
  BY DEF AskNextPollId, QueryInv, PollsAsked
<1>2. /\ query \in Asked /\ ListStage(query) /\ query.rest # <<>>
      /\ ~query.scanned /\ query.list = {}
  BY <1>1 DEF AskedInv, ListStage, PollStage, QuestionsCover
<1>3. nextPollId - 1 \in Int /\ nextPollId - 1 < nextPollId
  BY DEF ChainInv, TypeOK
<1>4. /\ q \in Asked /\ q.last = nextPollId - 1
      /\ q.step = query.step /\ q.rest = query.rest /\ q.at = query.at
      /\ q.clock = query.clock /\ q.scanned = query.scanned
      /\ q.list = query.list /\ q.over = query.over
  BY <1>2, <1>3 DEF Asked
<1> HIDE DEF q
<1>5. ListStage(q) /\ ~PollStage(q)
  BY <1>2, <1>4, Stages DEF ListStage
<1>6. ListIsHonest(q, q.clock # NoClock) /\ OverIsOver(q)
  BY <1>1, <1>4 DEF AskedInv, ListIsHonest, OverIsOver
<1>7. AskedInv(Proceed(q)) /\ Proceed(q).step \in PollsAsked
  BY <1>1, <1>2, <1>3, <1>4, <1>5, <1>6, AskedProceeds DEF AskedInv
<1> QED
  BY <1>1, <1>7

\* The scan, with its questions or without: all polls listed so far were
\* created before it.
LEMMA ScanStep ==
  ASSUME ChainInv, QueryInv, fetch_metadata_uris
  PROVE  \/ AskedInv(query') /\ query'.step \in PollsAsked
         \/ AnsweredInv(query') /\ query'.step = "listed"
<1>1. AskedInv(query) /\ query.step = "scan" /\ query \in Asked
  BY DEF fetch_metadata_uris, QueryInv, PollsAsked, AskedInv
<1>2. ASSUME NEW q \in Asked, query' = Proceed(q),
             q.step = query.step, q.rest = query.rest, q.at = query.at,
             q.last = query.last, q.clock = query.clock,
             q.list = query.list, q.over = query.over,
             \/ q.scanned = query.scanned /\ q.questions = query.questions
             \/ q.scanned = TRUE /\ q.questions = Created
      PROVE  \/ AskedInv(query') /\ query'.step \in PollsAsked
             \/ AnsweredInv(query') /\ query'.step = "listed"
  <2>1. ListIsHonest(q, q.clock # NoClock) /\ OverIsOver(q)
    BY <1>1, <1>2 DEF AskedInv, ListIsHonest, OverIsOver
  <2>2. ListStage(query) <=> ListStage(q)
    BY <1>2 DEF ListStage
  <2>3. PollStage(query) <=> PollStage(q)
    BY <1>2 DEF PollStage
  <2>4. CASE ListStage(query)
    <3>1. /\ q.last < nextPollId /\ q.list = {} /\ q.rest # <<>>
          /\ query.scanned => {id \in PollId : id <= query.last} \subseteq query.questions
      BY <1>1, <1>2, <2>4, Stages DEF AskedInv, QuestionsCover
    <3>2. {id \in PollId : id <= q.last} \subseteq Created
      <4>1. nextPollId \in Int /\ q.last \in Int /\ \A id \in PollId : id \in Int
        BY <1>2 DEF ChainInv, TypeOK, Asked, PollId
      <4> QED
        BY <3>1, <4>1 DEF ChainInv, IdsAreHandedOut, Created
    <3>3. q.scanned => {id \in PollId : id <= q.last} \subseteq q.questions
      BY <1>2, <3>1, <3>2
    <3> QED
      BY <1>1, <1>2, <2>1, <2>2, <2>4, <3>1, <3>3, Stages, AskedProceeds DEF AskedInv
  <2>5. CASE PollStage(query)
    <3>1. q.rest = <<>> /\ ~query.scanned
      BY <1>1, <1>2, <2>5, Stages DEF AskedInv, QuestionsCover
    <3>2. \A p \in q.list : p.id \in Created
      <4>1. \A p \in query.list : p.id \in PollId /\ polls[p.id].exists
        BY <1>1 DEF AskedInv, ListIsHonest, Asked
      <4> QED
        BY <1>2, <4>1 DEF Created
    <3> QED
      BY <1>2, <2>1, <3>1, <3>2, AskedAnswers
  <2> QED
    BY <1>1, <2>4, <2>5 DEF AskedInv
<1>3. CASE query' = Proceed([query EXCEPT !.questions = Created, !.scanned = TRUE])
  <2> DEFINE q == [query EXCEPT !.questions = Created, !.scanned = TRUE]
  <2>1. /\ q \in Asked
        /\ q.step = query.step /\ q.rest = query.rest /\ q.at = query.at
        /\ q.last = query.last /\ q.clock = query.clock
        /\ q.list = query.list /\ q.over = query.over
        /\ q.scanned = TRUE /\ q.questions = Created
    BY <1>1 DEF Asked, Created
  <2>2. query' = Proceed(q)
    BY <1>3
  <2> HIDE DEF q
  <2> QED
    BY <1>2, <2>1, <2>2
<1>4. CASE query' = Proceed(query)
  BY <1>1, <1>2, <1>4
<1> QED
  BY <1>3, <1>4 DEF fetch_metadata_uris

\* The block time is asked for before the first poll is read.
LEMMA ClockStep ==
  ASSUME ChainInv, QueryInv, chain_now
  PROVE  AskedInv(query') /\ query'.step \in PollsAsked
<1>1. AskedInv(query) /\ query.step = "clock" /\ query \in Asked
  BY DEF chain_now, QueryInv, PollsAsked, AskedInv
<1>2. PICK clock \in {now, NoClock} : query' = Proceed([query EXCEPT !.clock = clock])
  BY DEF chain_now
<1> DEFINE q == [query EXCEPT !.clock = clock]
<1>3. now \in Time /\ now \in Int /\ NoClock # now
  BY NoClockAssumption DEF ChainInv, TypeOK, Time
<1>4. /\ q \in Asked /\ q.clock = clock
      /\ q.step = query.step /\ q.rest = query.rest /\ q.at = query.at
      /\ q.last = query.last /\ q.questions = query.questions
      /\ q.scanned = query.scanned /\ q.list = query.list /\ q.over = query.over
  BY <1>1, <1>2, <1>3 DEF Asked
<1>5. query' = Proceed(q)
  BY <1>2
<1> HIDE DEF q
<1>6. (ListStage(query) <=> ListStage(q)) /\ (PollStage(query) <=> PollStage(q))
  BY <1>4 DEF ListStage, PollStage
<1>7. query.list = {} /\ query.rest # <<>>
  BY <1>1 DEF AskedInv, ListStage, PollStage
<1>8. ListIsHonest(q, q.clock # NoClock)
  BY <1>4, <1>7 DEF ListIsHonest
<1>9. OverIsOver(q)
  <2> SUFFICES ASSUME NEW id \in query.over
               PROVE  /\ polls[id].exists
                      /\ \/ polls[id].status # "Open"
                         \/ /\ now > polls[id].deadline
                            /\ clock # NoClock => clock > polls[id].deadline
    BY <1>4 DEF OverIsOver
  <2>1. /\ polls[id].exists
        /\ polls[id].status # "Open" \/ now > polls[id].deadline
    BY <1>1 DEF AskedInv, OverIsOver
  <2> QED
    BY <1>2, <2>1
<1>10. q.clock # NoClock => q.clock <= now
  BY <1>2, <1>3, <1>4
<1>11. AskedInv(Proceed(q)) /\ Proceed(q).step \in PollsAsked
  BY <1>1, <1>4, <1>6, <1>7, <1>8, <1>9, <1>10, AskedProceeds DEF AskedInv, QuestionsCover
<1> QED
  BY <1>5, <1>11

\* A request with nothing left to read takes the next step of its plan; else it
\* reads on.
LEMMA ExhaustedStep ==
  ASSUME ChainInv, NEW q \in Asked, AskedInv(q), q.step = "polls",
         NEW r, r = Exhausted(q) \/ (r = Proceed(q) /\ q.at > q.last)
  PROVE  \/ AskedInv(r) /\ r.step \in PollsAsked
         \/ AnsweredInv(r) /\ r.step = "listed"
<1>1. CASE r = q
  BY <1>1 DEF PollsAsked
<1>2. CASE r = Proceed(q)
  <2>1. CASE ListStage(q)
    <3>1. q.rest = <<>>
      BY <2>1, Stages
    <3>2. q.scanned => \A p \in q.list : p.id \in q.questions
      BY <2>1 DEF AskedInv, QuestionsCover, Asked
    <3> QED
      BY <1>2, <3>1, <3>2, AskedAnswers DEF AskedInv
  <2>2. CASE PollStage(q)
    <3>1. q.rest # <<>> /\ ~ListStage(q)
      BY <2>2, Stages
    <3> QED
      BY <1>2, <2>2, <3>1, AskedProceeds DEF AskedInv, QuestionsCover
  <2> QED
    BY <2>1, <2>2 DEF AskedInv
<1> QED
  BY <1>1, <1>2 DEF Exhausted

\* One poll read: what it is shown as holds against the block time read before
\* and the chain as it is now.
LEMMA ReadStep ==
  ASSUME ChainInv, QueryInv, ReadPoll
  PROVE  \/ AskedInv(query') /\ query'.step \in PollsAsked
         \/ AnsweredInv(query') /\ query'.step = "listed"
         \/ query'.step = "refused"
<1>1. /\ AskedInv(query) /\ query.step = "polls" /\ query \in Asked
      /\ query.at <= query.last
  BY DEF ReadPoll, QueryInv, PollsAsked, AskedInv
<1> DEFINE read == [query EXCEPT !.at = @ + 1]
<1>2. /\ read \in Asked /\ read.at = query.at + 1
      /\ read.step = query.step /\ read.rest = query.rest
      /\ read.last = query.last /\ read.questions = query.questions
      /\ read.clock = query.clock
      /\ read.scanned = query.scanned /\ read.list = query.list /\ read.over = query.over
  BY <1>1 DEF Asked
<1>3. \/ /\ polls[query.at].exists
         /\ query' = Exhausted([read EXCEPT !.list = @ \cup {PollData(query.at)}])
      \/ query' = Exhausted(read)
      \/ query' = QueryRefused
  BY DEF ReadPoll
<1> HIDE DEF read
<1>4. /\ query.at \in Int /\ query.at >= 1 /\ query.at \in PollId
      /\ \A id \in PollId : id \in Int
  <2>1. /\ query.at \in Int /\ query.last \in Int /\ query.at >= 1
        /\ nextPollId \in 1..MaxPolls + 1 /\ MaxPolls \in Nat
    BY <1>1, CircuitAssumption DEF Asked, AskedInv, ChainInv, TypeOK
  <2>2. query.last <= MaxPolls
    <3>1. CASE ListStage(query)
      BY <1>1, <2>1, <3>1 DEF AskedInv, QuestionsCover
    <3>2. CASE PollStage(query)
      BY <1>1, <2>1, <3>2 DEF AskedInv, QuestionsCover, PollId
    <3> QED
      BY <1>1, <3>1, <3>2 DEF AskedInv
  <2> QED
    BY <1>1, <2>1, <2>2 DEF PollId
<1>5. ASSUME NEW q \in Asked,
             q.step = query.step, q.rest = query.rest, q.at = query.at + 1,
             q.last = query.last, q.clock = query.clock,
             q.questions = query.questions, q.scanned = query.scanned,
             q.over = query.over,
             \/ q.list = query.list
             \/ q.list = query.list \cup {PollData(query.at)} /\ polls[query.at].exists
      PROVE  AskedInv(q)
  <2>1. (ListStage(query) <=> ListStage(q)) /\ (PollStage(query) <=> PollStage(q))
    BY <1>5 DEF ListStage, PollStage
  <2>2. ListIsHonest(q, q.clock # NoClock)
    <3> SUFFICES ASSUME NEW p \in q.list
                 PROVE  /\ polls[p.id].exists
                        /\ ~p.accepting => VotingIsOver(p.id)
                        /\ p.accepting /\ query.clock # NoClock => p.id \notin query.over
      BY <1>5 DEF ListIsHonest
    <3>1. CASE p \in query.list
      BY <1>1, <3>1 DEF AskedInv, ListIsHonest
    <3>2. CASE p = PollData(query.at) /\ polls[query.at].exists
      <4> DEFINE id == query.at
      <4>1. /\ p.id = id /\ p.accepting = accepting_votes(id) /\ polls[id].exists
        BY <3>2 DEF PollData
      <4>2. /\ id \in PollId /\ polls[id].deadline \in Int /\ now \in Int
            /\ query.clock # NoClock => query.clock \in Int /\ query.clock <= now
        BY <1>1, <1>4 DEF ChainInv, TypeOK, Poll, Time, AskedInv, Asked
      <4> HIDE DEF id
      <4>3. ~accepting_votes(id) => VotingIsOver(id)
        BY <4>2 DEF accepting_votes, VotingIsOver
      <4>4. accepting_votes(id) /\ query.clock # NoClock => id \notin query.over
        BY <1>1, <4>2 DEF accepting_votes, AskedInv, OverIsOver
      <4> QED
        BY <4>1, <4>3, <4>4
    <3> QED
      BY <1>5, <3>1, <3>2
  <2>3. OverIsOver(q)
    BY <1>1, <1>5 DEF AskedInv, OverIsOver
  <2>4. \A p \in q.list : p.id <= q.last
    <3>1. \A p \in query.list : p.id <= query.last
      BY <1>1 DEF AskedInv, QuestionsCover
    <3>2. PollData(query.at).id <= query.last
      BY <1>1 DEF PollData
    <3> QED
      BY <1>5, <3>1, <3>2
  <2>5. QuestionsCover(q)
    BY <1>1, <1>5, <2>1, <2>4 DEF AskedInv, QuestionsCover
  <2>6. q.at >= 1
    BY <1>4, <1>5
  <2> QED
    BY <1>1, <1>5, <2>1, <2>2, <2>3, <2>5, <2>6 DEF AskedInv
<1>6. CASE query' = Exhausted(read)
  <2>1. AskedInv(read)
    BY <1>2, <1>5
  <2> QED
    BY <1>1, <1>2, <1>6, <2>1, ExhaustedStep
<1>7. CASE /\ polls[query.at].exists
           /\ query' = Exhausted([read EXCEPT !.list = @ \cup {PollData(query.at)}])
  <2> DEFINE q == [read EXCEPT !.list = @ \cup {PollData(query.at)}]
  <2>1. PollData(query.at) \in [id : PollId, accepting : BOOLEAN]
    BY <1>4 DEF PollData, accepting_votes
  <2>2. /\ q \in Asked /\ q.list = query.list \cup {PollData(query.at)}
        /\ q.step = query.step /\ q.rest = query.rest /\ q.at = query.at + 1
        /\ q.last = query.last /\ q.clock = query.clock
        /\ q.questions = query.questions /\ q.scanned = query.scanned
        /\ q.over = query.over
    BY <1>2, <2>1 DEF Asked
  <2>3. query' = Exhausted(q)
    BY <1>7
  <2> HIDE DEF q
  <2>4. AskedInv(q)
    BY <1>5, <1>7, <2>2
  <2> QED
    BY <1>1, <2>2, <2>3, <2>4, ExhaustedStep
<1>8. CASE query' = QueryRefused
  BY <1>8 DEF QueryRefused
<1> QED
  BY <1>3, <1>6, <1>7, <1>8

\* A list without polls is answered like one that is through.
LEMMA EmptyStep ==
  ASSUME ChainInv, QueryInv, ReadNothing
  PROVE  \/ AskedInv(query') /\ query'.step \in PollsAsked
         \/ AnsweredInv(query') /\ query'.step = "listed"
  BY ExhaustedStep DEF ReadNothing, QueryInv, PollsAsked, AskedInv
-----------------------------------------------------------------------------
(* The theorems. *)

\* A step of the request leaves the chain alone.
LEMMA RequestStep ==
  ASSUME UNCHANGED vars,
         \/ AskedInv(query') /\ query'.step \in PollsAsked
         \/ AnsweredInv(query') /\ query'.step = "listed"
         \/ query'.step = "reading" /\ "step" \in DOMAIN query'
         \/ query'.step \in {"done", "refused"}
  PROVE  QueryInv'
<1>1. PICK q : q = query'
  OBVIOUS
<1>2. AskedInv(q)' <=> AskedInv(q)
  BY DEF vars, AskedInv, ListIsHonest, OverIsOver, QuestionsCover, VotingIsOver,
         ListStage, PollStage, Asked
<1>3. AnsweredInv(q)' <=> AnsweredInv(q)
  BY DEF vars, AnsweredInv, ListIsHonest, VotingIsOver, ListAnswer
<1>4. PollsAsked \cap {"listed", "reading", "done", "refused"} = {}
  BY DEF PollsAsked
<1>5. /\ q.step \in PollsAsked => AskedInv(q)
      /\ q.step = "listed" => AnsweredInv(q)
  BY <1>1, <1>4
<1>6. /\ q.step \in PollsAsked => AskedInv(q)'
      /\ q.step = "listed" => AnsweredInv(q)'
  BY <1>2, <1>3, <1>5
<1>7. query'.step = "reading" => "step" \in DOMAIN query'
  BY <1>4
<1> QED
  BY <1>1, <1>6, <1>7 DEF QueryInv

\* The chain and the request, together.
LEMMA QueryInductive ==
  ASSUME ChainInv, QueryInv, [PollQueriesNext]_queryVars
  PROVE  ChainInv' /\ QueryInv'
<1>1. CASE [Next]_vars /\ query' = query
  <2>1. ChainInv' /\ ChainGoesOn
    BY <1>1, ChainStep
  <2>2. PICK q : q = query
    OBVIOUS
  <2>3. q.step \in PollsAsked => AskedInv(q)'
    BY <2>1, <2>2, AskedSurvives DEF QueryInv
  <2>4. q.step = "listed" => AnsweredInv(q)'
    BY <2>1, <2>2, AnsweredSurvives DEF QueryInv
  <2>5. q = query'
    BY <1>1, <2>2
  <2>6. query'.step = "reading" => "step" \in DOMAIN query'
    BY <1>1 DEF QueryInv
  <2> QED
    BY <2>1, <2>3, <2>4, <2>5, <2>6 DEF QueryInv
<1>2. ASSUME UNCHANGED vars PROVE ChainInv'
  BY <1>2 DEF vars, ChainInv, TypeOK, IdsAreHandedOut
<1>3. CASE list_polls
  <2>1. UNCHANGED vars /\ query' = Asking(fetch_all_polls, 1, 0)
    BY <1>3 DEF list_polls
  <2>2. AskedInv(Asking(fetch_all_polls, 1, 0)) /\ Asking(fetch_all_polls, 1, 0).step \in PollsAsked
    BY ArrivalStep
  <2> QED
    BY <1>2, <2>1, <2>2, RequestStep
<1>4. ASSUME NEW id \in PollId, get_poll(id) PROVE ChainInv' /\ QueryInv'
  <2>1. UNCHANGED vars /\ query' = Asking(fetch_poll, id, id)
    BY <1>4 DEF get_poll
  <2>2. id \in Nat /\ id \in Int /\ id >= 1
    BY DEF PollId
  <2>3. AskedInv(Asking(fetch_poll, id, id)) /\ Asking(fetch_poll, id, id).step \in PollsAsked
    BY <2>2, ArrivalStep
  <2> QED
    BY <1>2, <2>1, <2>3, RequestStep
<1>5. CASE AskNextPollId
  <2>1. CASE query' = QueryRefused
    BY <1>2, <1>5, <2>1, RequestStep DEF AskNextPollId, QueryRefused
  <2>2. CASE query' # QueryRefused
    BY <1>2, <1>5, <2>2, NextPollIdStep, RequestStep DEF AskNextPollId
  <2> QED
    BY <2>1, <2>2
<1>6. CASE fetch_metadata_uris
  BY <1>2, <1>6, ScanStep, RequestStep DEF fetch_metadata_uris
<1>7. CASE chain_now
  BY <1>2, <1>7, ClockStep, RequestStep DEF chain_now
<1>8. CASE ReadPoll
  BY <1>2, <1>8, ReadStep, RequestStep DEF ReadPoll
<1>9. CASE ReadNothing
  BY <1>2, <1>9, EmptyStep, RequestStep DEF ReadNothing
<1>10. ASSUME NEW id \in PollId, fetch_poll_core(id) PROVE ChainInv' /\ QueryInv'
  <2>1. UNCHANGED vars
    BY <1>10 DEF fetch_poll_core
  <2>2. \/ query'.step = "reading" /\ "step" \in DOMAIN query'
        \/ query'.step = "refused"
    BY <1>10 DEF fetch_poll_core, QueryRefused
  <2> QED
    BY <1>2, <2>1, <2>2, RequestStep
<1>11. CASE fetch_tally
  <2>1. UNCHANGED vars
    BY <1>11 DEF fetch_tally
  <2>2. \/ query'.step = "reading" /\ "step" \in DOMAIN query'
        \/ query'.step \in {"done", "refused"}
    <3>1. CASE query' = QueryRefused
      BY <3>1 DEF QueryRefused
    <3>2. CASE query' # QueryRefused
      <4> DEFINE read == Append(query.optionTallies, nextTally)
                 next == IF Len(read) = query.numOptions THEN "done" ELSE "reading"
      <4>1. query' = [query EXCEPT !.optionTallies = read, !.step = next]
        BY <1>11, <3>2 DEF fetch_tally
      <4>2. next \in {"done", "reading"}
        OBVIOUS
      <4>3. "step" \in DOMAIN query
        BY <1>11 DEF fetch_tally, QueryInv
      <4> HIDE DEF read, next
      <4> QED
        BY <4>1, <4>2, <4>3
    <3> QED
      BY <3>1, <3>2
  <2> QED
    BY <1>2, <2>1, <2>2, RequestStep
<1> QED
  BY <1>1, <1>3, <1>4, <1>5, <1>6, <1>7, <1>8, <1>9, <1>10, <1>11
  DEF PollQueriesNext, QueryNext, queryVars

\* A request's reads stay consistent with the chain they were taken of.
LEMMA QueryInvariant == PollQueriesSpec => [](ChainInv /\ QueryInv)
<1>1. QueryInit => ChainInv /\ QueryInv
  <2> SUFFICES ASSUME QueryInit PROVE ChainInv /\ QueryInv
    OBVIOUS
  <2>1. QueryInv
    BY DEF QueryInit, NoQuery, QueryInv, PollsAsked
  <2> QED
    BY <2>1, ChainStarts DEF QueryInit
<1> QED
  BY <1>1, QueryInductive, PTL DEF PollQueriesSpec

\* A poll listed as ended never takes another vote, and one listed as accepting
\* had not ended when the request arrived, whatever was mined between the block
\* time and the polls the answer was put together from.
THEOREM AcceptingStaysHonest == PollQueriesSpec => []AcceptingIsHonest
<1>1. ChainInv /\ QueryInv => AcceptingIsHonest
  BY DEF QueryInv, AnsweredInv, ListIsHonest, AcceptingIsHonest, Listed
<1> QED
  BY <1>1, QueryInvariant, PTL

\* No poll is listed without its question because it was created between the
\* count of the polls and the scan of the logs, or after the scan.
THEOREM QuestionsAreThere == PollQueriesSpec => []ListedHasItsQuestion
<1>1. ChainInv /\ QueryInv => ListedHasItsQuestion
  BY DEF QueryInv, AnsweredInv, ListedHasItsQuestion, Listed
<1> QED
  BY <1>1, QueryInvariant, PTL
-----------------------------------------------------------------------------
(* Submissions: the handlers of Relay and the transactions they send.         *)

Verdict == {"none", "answered", "failed"}
Handling == [step : Working, call : Call, sim : Verdict, nonce : Nat]
Conflict == [step : {"answered"}, status : {409}, call : Call,
             error : describe_known_revert \cup describe_admin_revert]
Replied == [step : {"answered"}, status : {200, 400, 401, 502, 503, 504}]
Transaction == [request : Request, call : Call, sim : Verdict, nonce : Nat]

RelayTypeOK ==
    /\ req \in [Request -> {Idle} \cup Handling \cup Conflict \cup Replied]
    /\ wire \subseteq Transaction
    /\ pool \subseteq Transaction
    /\ evicted \subseteq Transaction
    /\ \A x \in receipts : x.tx \in Transaction
    /\ cache \in [Wallet -> Nat]
    /\ count \in [Wallet -> Nat]

\* A transaction's request is being sent or was answered as one that may have
\* been: broadcast, connection lost, or out of time.
SentBySender ==
    \A tx \in SentTxs :
       \/ req[tx.request].step = "sending"
       \/ /\ req[tx.request].step = "answered"
          /\ req[tx.request].status \in {200, 502, 504}

\* What an answered simulation has established for good: the poll exists, and
\* the vote's proof and option are right, or the deadline has passed.
Passed(c) ==
    /\ c.op # "createPoll"
    /\ c.id \in PollId /\ polls[c.id].exists
    /\ c.op = "castVote" =>
          /\ c.voteOption < polls[c.id].numOptions
          /\ verifyProof(c.proof, pubSignals(c.id, c.nullifierHash, c.voteOption))
    /\ c.op = "closePoll" => now > polls[c.id].deadline

SimulationHolds ==
    /\ \A r \in Request :
          req[r].step \in Working /\ req[r].sim = "answered" => Passed(req[r].call)
    /\ \A tx \in SentTxs : tx.sim = "answered" => Passed(tx.call)

\* A call that no later block accepts.
Doomed(c) ==
    /\ c.op # "createPoll"
    /\ c.id \in PollId /\ polls[c.id].exists
    /\ \/ polls[c.id].status # "Open"
       \/ /\ c.op = "castVote"
          /\ \/ now > polls[c.id].deadline
             \/ c.voteOption >= polls[c.id].numOptions
             \/ c.nullifierHash \in nullifierUsed[c.id]
             \/ ~verifyProof(c.proof, pubSignals(c.id, c.nullifierHash, c.voteOption))
       \/ c.op = "cancelPoll" /\ polls[c.id].totalVotes # 0

RefusedAreDoomed ==
    \A r \in Request :
       (req[r].step = "answered" /\ req[r].status = 409
          /\ req[r].error \in FinalReverts) => Doomed(req[r].call)

RelayInv ==
    /\ ChainInv
    /\ RelayTypeOK
    /\ SentBySender
    /\ SimulationHolds
    /\ RevertIsARace
    /\ RefusedAreDoomed

\* The fields of a call, by its operation.
LEMMA CallKinds ==
  ASSUME NEW c \in Call
  PROVE  /\ c.op \in {"castVote", "createPoll", "closePoll", "cancelPoll", "voidPoll"}
         /\ c.op = "castVote" => c \in VoteCall
         /\ c.op = "createPoll" => c \in CreateCall
         /\ c.op \notin {"castVote", "createPoll"} => c \in RetireCall
BY DEF Call, VoteCall, CreateCall, RetireCall

\* What a handler's locals are, by the step it is at.
LEMMA StateKinds ==
  ASSUME NEW s \in {Idle} \cup Handling \cup Conflict \cup Replied
  PROVE  /\ s.step \in Working \cup {"idle", "answered"}
         /\ s.step \in Working => s \in Handling
         /\ s.step = "answered" => s \in Conflict \cup Replied
         /\ s.step = "answered" /\ s.status = 409 => s \in Conflict
BY DEF Idle, Handling, Conflict, Replied, Working

\* The errors of the simulated calls are all in the decoding tables, and when
\* one of them is met the reason is there.
LEMMA RevertKinds ==
  ASSUME TypeOK, NEW c \in Call
  PROVE  /\ c.op = "castVote" =>
               RevertOf(c) \in describe_known_revert \cup {"none"}
         /\ c.op \notin {"castVote", "createPoll"} =>
               RevertOf(c) \in describe_admin_revert \cup {"none"}
         /\ c.op # "createPoll" /\ RevertOf(c) = "none" => Passed(c)
         /\ Passed(c) => RevertOf(c) \in {"none", "AlreadyVoted", "PollNotActive",
                "PollEnded", "PollNotOpen", "PollHasVotes", "Unauthorized"}
         /\ c.op # "createPoll" /\ RevertOf(c) \in FinalReverts => Doomed(c)
         /\ Doomed(c) => RevertOf(c) # "none"
<1>0. now \in Int /\ \A id \in PollId : polls[id].deadline \in Int /\ polls[id].numOptions \in Int
  BY DEF TypeOK, Time, Poll, Option
<1>1. CASE c.op = "castVote"
  <2>1. c.voteOption \in Int /\ RevertOf(c) = castVoteError(c)
    BY <1>1, CallKinds DEF RevertOf, VoteCall, Option
  <2>2. RevertOf(c) \in describe_known_revert \cup {"none"}
    BY <2>1 DEF castVoteError, describe_known_revert
  <2>3. RevertOf(c) = "none" => Passed(c)
    BY <1>0, <1>1, <2>1 DEF castVoteError, Passed
  <2>4. Passed(c) => RevertOf(c) \in {"none", "AlreadyVoted", "PollNotActive", "PollEnded"}
    BY <1>0, <1>1, <2>1 DEF castVoteError, Passed
  <2>5. RevertOf(c) \in FinalReverts => Doomed(c)
    BY <1>0, <1>1, <2>1 DEF castVoteError, Doomed, FinalReverts
  <2>6. Doomed(c) => RevertOf(c) # "none"
    BY <1>0, <1>1, <2>1 DEF castVoteError, Doomed
  <2> QED
    BY <1>1, <2>2, <2>3, <2>4, <2>5, <2>6
<1>2. CASE c.op = "createPoll"
  BY <1>2 DEF RevertOf, createPollError, Passed, Doomed
<1>3. CASE c.op \notin {"castVote", "createPoll"}
  <2>1. /\ RevertOf(c) = retireError(c)
        /\ c.op \in {"closePoll", "cancelPoll", "voidPoll"} /\ c.id \in PollId
    BY <1>3, CallKinds DEF RevertOf, RetireCall
  <2>2. RevertOf(c) \in describe_admin_revert \cup {"none"}
    BY <2>1 DEF retireError, describe_admin_revert
  <2>3. RevertOf(c) = "none" => Passed(c)
    BY <1>0, <2>1 DEF retireError, Passed
  <2>4. Passed(c) => RevertOf(c) \in {"none", "PollNotOpen", "PollHasVotes", "Unauthorized"}
    BY <1>0, <2>1 DEF retireError, Passed
  <2>5. RevertOf(c) \in FinalReverts => Doomed(c)
    BY <1>0, <2>1 DEF retireError, Doomed, FinalReverts
  <2>6. Doomed(c) => RevertOf(c) # "none"
    BY <1>0, <2>1 DEF retireError, Doomed
  <2> QED
    BY <1>3, <2>2, <2>3, <2>4, <2>5, <2>6
<1> QED
  BY <1>1, <1>2, <1>3

\* What one step of the handler of r does: it turns its locals into `new`.
HandlerTurn(r, new) ==
    /\ new \in {Idle} \cup Handling \cup Conflict \cup Replied
    /\ req' = [req EXCEPT ![r] = new]
    /\ UNCHANGED <<vars, pool, evicted, receipts, count>>
    /\ cache' \in [Wallet -> Nat]
    /\ req[r].step # "answered"
    /\ \/ /\ wire' = wire
          /\ req[r].step = "sending" =>
                new.step = "answered" /\ new.status \in {200, 502, 504}
       \/ /\ wire' = wire \cup {Tx(r)}
          /\ new.step = "sending" /\ req[r] \in Handling
    /\ (new.step = "answered" /\ new.status = 409 /\ new.error \in FinalReverts)
          => Doomed(new.call)
    /\ (new.step \in Working /\ new.sim = "answered") => Passed(new.call)

\* The turns that end a request with a status of its own.
LEMMA AnswerTurn ==
  ASSUME NEW r \in Request, NEW status \in {200, 400, 401, 502, 503, 504},
         Answered(r, status), UNCHANGED <<vars, nodeVars>>, cache' \in [Wallet -> Nat],
         req[r].step # "answered",
         req[r].step = "sending" => status \in {200, 502, 504}
  PROVE  \E new : HandlerTurn(r, new)
<1> DEFINE new == Answer(status)
<1>1. /\ new \in Replied /\ new.step = "answered" /\ new.status = status
      /\ "answered" \notin Working /\ status # 409
  BY DEF Answer, Replied, Working
<1>2. req' = [req EXCEPT ![r] = new]
  BY DEF Answered
<1> HIDE DEF new
<1>3. HandlerTurn(r, new)
  BY <1>1, <1>2 DEF HandlerTurn, nodeVars
<1> QED
  BY <1>3

\* The turns that go on with a submission.
LEMMA WorkTurn ==
  ASSUME NEW r \in Request, NEW new \in Handling, req' = [req EXCEPT ![r] = new],
         UNCHANGED <<vars, nodeVars>>, cache' \in [Wallet -> Nat],
         req[r].step \notin {"answered", "sending"},
         new.sim = "answered" => Passed(new.call)
  PROVE  HandlerTurn(r, new)
<1>1. new.step \in Working /\ new.step # "answered"
  BY DEF Handling, Working
<1> QED
  BY <1>1 DEF HandlerTurn, nodeVars

\* A body of the right kind starts a submission.
LEMMA BeginTurn ==
  ASSUME NEW r \in Request, NEW c \in Call, Begin(r, c), req[r] = Idle,
         UNCHANGED <<vars, nodeVars>>, cache' \in [Wallet -> Nat]
  PROVE  \E new : HandlerTurn(r, new)
<1> DEFINE new == [step |-> "received", call |-> c, sim |-> "none", nonce |-> 0]
<1>1. new \in Handling /\ new.sim # "answered" /\ req' = [req EXCEPT ![r] = new]
  BY DEF Handling, Working, Verdict, Begin
<1>2. req[r].step = "idle"
  BY DEF Idle
<1> HIDE DEF new
<1> QED
  BY <1>1, <1>2, WorkTurn

\* The simulated submissions: a refusal has its reason on the chain, and an
\* answered simulation has established that the call may succeed.
LEMMA SimulateTurn ==
  ASSUME RelayInv, NEW r \in Request, submit_vote(r) \/ submit_retirement(r)
  PROVE  \E new : HandlerTurn(r, new)
<1> DEFINE c == req[r].call
<1>1. /\ req[r] \in Handling /\ req[r].step = "received" /\ c \in Call
      /\ c.op # "createPoll" /\ req \in [Request -> {Idle} \cup Handling \cup Conflict \cup Replied]
      /\ UNCHANGED <<vars, nonceVars, nodeVars>>
  <2>1. req[r].step = "received" /\ req[r].call.op # "createPoll"
        /\ UNCHANGED <<vars, nonceVars, nodeVars>>
    BY DEF submit_vote, submit_retirement, Simulate
  <2>2. req[r] \in Handling
    BY <2>1, StateKinds DEF RelayInv, RelayTypeOK, Working
  <2> QED
    BY <2>1, <2>2 DEF Handling, RelayInv, RelayTypeOK
<1> cache' \in [Wallet -> Nat] /\ UNCHANGED <<vars, nodeVars>>
  BY <1>1 DEF RelayInv, RelayTypeOK, nonceVars
<1>2. PICK known \in {describe_known_revert, describe_admin_revert} :
         /\ Simulate(r, known)
         /\ RevertOf(c) \in known \cup {"none"}
  BY <1>1, RevertKinds DEF submit_vote, submit_retirement, RelayInv, ChainInv
<1>3. "none" \notin known
  BY <1>2 DEF describe_known_revert, describe_admin_revert
<1>4. CASE RevertOf(c) \in known /\ Refused(r, RevertOf(c))
  <2> DEFINE new == [step |-> "answered", status |-> 409, call |-> c, error |-> RevertOf(c)]
  <2>1. req' = [req EXCEPT ![r] = new]
    BY <1>1, <1>4 DEF Refused
  <2>2. new \in Conflict
    BY <1>1, <1>2, <1>4 DEF Conflict
  <2>3. new.error \in FinalReverts => Doomed(new.call)
    BY <1>1, RevertKinds DEF RelayInv, ChainInv
  <2>4. new.step = "answered" /\ "answered" \notin Working
    BY DEF Working
  <2> HIDE DEF new
  <2> QED
    BY <1>1, <2>1, <2>2, <2>3, <2>4 DEF HandlerTurn, nodeVars
<1>5. CASE /\ RevertOf(c) \notin known
           /\ req' = [req EXCEPT ![r].step = "simulated", ![r].sim = "answered"]
  <2> DEFINE new == [req[r] EXCEPT !.step = "simulated", !.sim = "answered"]
  <2>1. req' = [req EXCEPT ![r] = new]
    BY <1>1, <1>5
  <2>2. new \in Handling /\ new.call = c
    BY <1>1 DEF Handling, Working, Verdict
  <2>3. Passed(c)
    BY <1>1, <1>2, <1>5, RevertKinds DEF RelayInv, ChainInv
  <2> HIDE DEF new
  <2> QED
    BY <1>1, <2>1, <2>2, <2>3, WorkTurn
<1>6. CASE req' = [req EXCEPT ![r].step = "simulated", ![r].sim = "failed"]
  <2> DEFINE new == [req[r] EXCEPT !.step = "simulated", !.sim = "failed"]
  <2>1. req' = [req EXCEPT ![r] = new]
    BY <1>1, <1>6
  <2>2. new \in Handling /\ new.sim = "failed"
    BY <1>1 DEF Handling, Working, Verdict
  <2> HIDE DEF new
  <2> QED
    BY <1>1, <2>1, <2>2, WorkTurn
<1> QED
  BY <1>2, <1>4, <1>5, <1>6 DEF Simulate

\* The price is looked at without a transaction leaving.
LEMMA EstimateTurn ==
  ASSUME RelayInv, NEW r \in Request, check_gas_ceiling(r) \/ submit_create_poll(r)
  PROVE  \E new : HandlerTurn(r, new)
<1>1. /\ req[r].step \in {"received", "simulated"} /\ Estimate(r)
      /\ UNCHANGED <<vars, nonceVars, nodeVars>>
  BY DEF check_gas_ceiling, submit_create_poll, Estimate
<1>2. /\ req[r] \in Handling
      /\ req \in [Request -> {Idle} \cup Handling \cup Conflict \cup Replied]
      /\ req[r].sim = "answered" => Passed(req[r].call)
  BY <1>1, StateKinds DEF RelayInv, RelayTypeOK, SimulationHolds, Working
<1> cache' \in [Wallet -> Nat] /\ UNCHANGED <<vars, nodeVars>>
  BY <1>1 DEF RelayInv, RelayTypeOK, nonceVars
<1>3. CASE req' = [req EXCEPT ![r].step = "priced"]
  <2> DEFINE new == [req[r] EXCEPT !.step = "priced"]
  <2>1. req' = [req EXCEPT ![r] = new]
    BY <1>2, <1>3
  <2>2. new \in Handling /\ new.sim = req[r].sim /\ new.call = req[r].call
    BY <1>2 DEF Handling, Working
  <2> HIDE DEF new
  <2> QED
    BY <1>1, <1>2, <2>1, <2>2, WorkTurn
<1>4. CASE Answered(r, 503)
  BY <1>1, <1>4, AnswerTurn
<1> QED
  BY <1>1, <1>3, <1>4 DEF Estimate

\* A nonce is drawn: only the wallet's counter and the handler move on.
LEMMA FillTurn ==
  ASSUME RelayInv, NEW r \in Request, FillNonce(r)
  PROVE  \E new : HandlerTurn(r, new)
<1>1. req[r].step = "priced" /\ UNCHANGED <<vars, nodeVars>>
  BY DEF FillNonce
<1>2. /\ req[r] \in Handling /\ req[r].call \in Call
      /\ req \in [Request -> {Idle} \cup Handling \cup Conflict \cup Replied]
      /\ req[r].sim = "answered" => Passed(req[r].call)
      /\ cache \in [Wallet -> Nat] /\ count \in [Wallet -> Nat]
  BY <1>1, StateKinds DEF RelayInv, RelayTypeOK, SimulationHolds, Working, Handling
<1> DEFINE w == WalletOf(req[r].call)
<1>3. w \in Wallet /\ NextNonce(w) \in Nat
  BY <1>2 DEF WalletOf, Wallet, NextNonce
<1>4. CASE Draw(r) /\ req' = [req EXCEPT ![r].step = "signing", ![r].nonce = NextNonce(w)]
  <2> DEFINE new == [req[r] EXCEPT !.step = "signing", !.nonce = NextNonce(w)]
  <2>1. req' = [req EXCEPT ![r] = new]
    BY <1>2, <1>4
  <2>2. new \in Handling /\ new.sim = req[r].sim /\ new.call = req[r].call
    BY <1>2, <1>3 DEF Handling, Working
  <2>3. cache' \in [Wallet -> Nat]
    BY <1>2, <1>3, <1>4 DEF Draw
  <2> HIDE DEF new
  <2> QED
    BY <1>1, <1>2, <2>1, <2>2, <2>3, WorkTurn
<1>5. CASE Answered(r, 502) /\ UNCHANGED nonceVars
  BY <1>1, <1>2, <1>5, AnswerTurn DEF nonceVars
<1> QED
  BY <1>4, <1>5 DEF FillNonce

\* The signed transaction leaves, or the fillers fail.
LEMMA SendTurn ==
  ASSUME RelayInv, NEW r \in Request, Send(r)
  PROVE  \E new : HandlerTurn(r, new)
<1>1. /\ req[r].step = "signing" /\ UNCHANGED <<vars, pool, evicted, receipts, count>>
      /\ cache' \in [Wallet -> Nat]
  BY DEF Send, nonceVars, RelayInv, RelayTypeOK
<1>2. /\ req[r] \in Handling
      /\ req \in [Request -> {Idle} \cup Handling \cup Conflict \cup Replied]
      /\ req[r].sim = "answered" => Passed(req[r].call)
  BY <1>1, StateKinds DEF RelayInv, RelayTypeOK, SimulationHolds, Working
<1>3. CASE req' = [req EXCEPT ![r].step = "sending"] /\ wire' = wire \cup {Tx(r)}
  <2> DEFINE new == [req[r] EXCEPT !.step = "sending"]
  <2>1. req' = [req EXCEPT ![r] = new]
    BY <1>2, <1>3
  <2>2. /\ new \in Handling /\ new.sim = req[r].sim /\ new.call = req[r].call
        /\ new.step = "sending"
    BY <1>2 DEF Handling, Working
  <2> HIDE DEF new
  <2> QED
    BY <1>1, <1>2, <1>3, <2>1, <2>2 DEF HandlerTurn
<1>4. CASE Answered(r, 502) /\ UNCHANGED wire
  BY <1>1, <1>4, AnswerTurn DEF nodeVars
<1> QED
  BY <1>3, <1>4 DEF Send

LEMMA HandlerStep ==
  ASSUME RelayInv, NEW r \in Request, Handler(r)
  PROVE  \E new : HandlerTurn(r, new)
<1>1. \A c \in Body[r] : c \in Call
  BY RelayAssumption
<1>2. Idle.step = "idle"
  BY DEF Idle
<1>0. UNCHANGED nonceVars => cache' \in [Wallet -> Nat]
  BY DEF RelayInv, RelayTypeOK, nonceVars
<1>3. CASE cast_vote(r)
  BY <1>0, <1>1, <1>2, <1>3, BeginTurn, AnswerTurn DEF cast_vote
<1>4. CASE create_poll(r)
  BY <1>0, <1>1, <1>2, <1>4, BeginTurn, AnswerTurn DEF create_poll
<1>5. CASE retire_poll(r)
  <2>1. /\ req[r] = Idle /\ UNCHANGED <<vars, nonceVars, nodeVars>>
        /\ \E c \in Body[r] : Begin(r, c) \/ Answered(r, 401) \/ Answered(r, 400)
    BY <1>5 DEF retire_poll
  <2> QED
    BY <1>0, <1>1, <1>2, <2>1, BeginTurn, AnswerTurn
<1>6. CASE AnswerBroadcast(r)
  BY <1>0, <1>6, AnswerTurn DEF AnswerBroadcast
<1>7. CASE SendFails(r)
  BY <1>0, <1>7, AnswerTurn DEF SendFails
<1>8. CASE Timeout(r)
  <2>1. req[r].step # "answered"
    BY <1>8 DEF Timeout, InFlight, Working
  <2> QED
    BY <1>0, <1>8, <2>1, AnswerTurn DEF Timeout
<1> QED
  BY <1>3, <1>4, <1>5, <1>6, <1>7, <1>8, SimulateTurn, EstimateTurn, FillTurn, SendTurn
  DEF Handler
-----------------------------------------------------------------------------
(* The chain under the submissions. *)

\* What a simulation has established, and what a refusal was for, holds on.
LEMMA CallsStay ==
  ASSUME ChainInv, ChainInv', ChainGoesOn
  PROVE  \A c \in Call : /\ Passed(c) => Passed(c)'
                         /\ Doomed(c) => Doomed(c)'
<1> TAKE c \in Call
<1>1. /\ now \in Int /\ now' \in Int /\ now <= now'
      /\ \A id \in PollId : /\ polls[id].deadline \in Int
                            /\ polls[id].numOptions \in Int
                            /\ polls[id].totalVotes \in Nat
                            /\ polls'[id].totalVotes \in Nat
  BY DEF ChainInv, TypeOK, Poll, Time, Option, ChainGoesOn
<1>2. ASSUME c.id \in PollId, polls[c.id].exists
      PROVE  /\ polls'[c.id].exists
             /\ polls'[c.id].deadline = polls[c.id].deadline
             /\ polls'[c.id].numOptions = polls[c.id].numOptions
             /\ polls[c.id].totalVotes <= polls'[c.id].totalVotes
             /\ nullifierUsed[c.id] \subseteq nullifierUsed'[c.id]
             /\ polls[c.id].status # "Open" => polls'[c.id].status # "Open"
             /\ pubSignals(c.id, c.nullifierHash, c.voteOption)'
                   = pubSignals(c.id, c.nullifierHash, c.voteOption)
  BY <1>2 DEF ChainGoesOn, pubSignals
<1>3. Passed(c) => Passed(c)'
  BY <1>1, <1>2 DEF Passed
<1>4. Doomed(c) => Doomed(c)'
  <2> SUFFICES ASSUME Doomed(c) PROVE Doomed(c)'
    OBVIOUS
  <2>1. c.id \in PollId /\ polls[c.id].exists
    BY DEF Doomed
  <2>2. polls[c.id].totalVotes # 0 => polls'[c.id].totalVotes # 0
    BY <1>1, <1>2, <2>1
  <2> QED
    BY <1>1, <1>2, <2>1, <2>2 DEF Doomed
<1> QED
  BY <1>3, <1>4

\* Facts about submissions survive whatever is mined, as long as no request
\* moves and no transaction leaves.
LEMMA ChainKeeps ==
  ASSUME RelayInv, ChainInv', ChainGoesOn, UNCHANGED req,
         SentTxs' \subseteq SentTxs
  PROVE  SentBySender' /\ SimulationHolds' /\ RefusedAreDoomed'
<1>1. SentBySender'
  BY DEF RelayInv, SentBySender
<1>2. \A r \in Request : req[r].step \in Working => req[r].call \in Call
  BY StateKinds DEF RelayInv, RelayTypeOK, Handling
<1>3. \A r \in Request :
         req[r].step = "answered" /\ req[r].status = 409 => req[r].call \in Call
  BY StateKinds DEF RelayInv, RelayTypeOK, Conflict
<1>4. \A tx \in SentTxs : tx.call \in Call
  BY DEF RelayInv, RelayTypeOK, SentTxs, Transaction
<1>5. \A c \in Call : (Passed(c) => Passed(c)') /\ (Doomed(c) => Doomed(c)')
  BY CallsStay DEF RelayInv
<1>6. SimulationHolds'
  <2>1. ASSUME NEW r \in Request, req'[r].step \in Working, req'[r].sim = "answered"
        PROVE  Passed(req[r].call)'
    <3>1. PICK c \in Call : c = req[r].call
      BY <1>2, <2>1
    <3>2. Passed(c)
      BY <2>1, <3>1 DEF RelayInv, SimulationHolds
    <3>3. Passed(c)'
      BY <1>5, <3>2
    <3> QED
      BY <3>1, <3>3 DEF Passed
  <2>2. ASSUME NEW tx \in SentTxs', tx.sim = "answered" PROVE Passed(tx.call)'
    BY <1>4, <1>5, <2>2 DEF RelayInv, SimulationHolds
  <2> QED
    BY <2>1, <2>2 DEF SimulationHolds
<1>7. RefusedAreDoomed'
  <2> SUFFICES ASSUME NEW r \in Request, req'[r].step = "answered",
                      req'[r].status = 409, req'[r].error \in FinalReverts
               PROVE  Doomed(req[r].call)'
    BY DEF RefusedAreDoomed
  <2>1. PICK c \in Call : c = req[r].call
    BY <1>3
  <2>2. Doomed(c)
    BY <2>1 DEF RelayInv, RefusedAreDoomed
  <2>3. Doomed(c)'
    BY <1>5, <2>2
  <2> QED
    BY <2>1, <2>3 DEF Doomed
<1> QED
  BY <1>1, <1>6, <1>7

\* A handler's step: at most its own transaction leaves, with what its
\* simulation established.
LEMMA TurnKeeps ==
  ASSUME RelayInv, NEW r \in Request, Handler(r)
  PROVE  RelayInv'
<1>1. PICK new : HandlerTurn(r, new)
  BY HandlerStep
<1>2. /\ req \in [Request -> {Idle} \cup Handling \cup Conflict \cup Replied]
      /\ new \in {Idle} \cup Handling \cup Conflict \cup Replied
      /\ req' = [req EXCEPT ![r] = new]
      /\ req'[r] = new /\ \A q \in Request \ {r} : req'[q] = req[q]
      /\ UNCHANGED <<vars, pool, evicted, receipts, count>>
      /\ cache' \in [Wallet -> Nat]
      /\ req[r].step # "answered"
  BY <1>1 DEF HandlerTurn, RelayInv, RelayTypeOK
<1>3. /\ Tx(r).request = r /\ Tx(r).call = req[r].call /\ Tx(r).sim = req[r].sim
      /\ req[r] \in Handling => Tx(r) \in Transaction
  BY DEF Tx, Handling, Transaction
<1>4. \/ wire' = wire /\ SentTxs' = SentTxs
      \/ wire' = wire \cup {Tx(r)} /\ SentTxs' = SentTxs \cup {Tx(r)}
  BY <1>1, <1>2 DEF HandlerTurn, SentTxs
<1>5. ChainInv'
  BY <1>2 DEF RelayInv, ChainInv, TypeOK, IdsAreHandedOut, vars
<1>6. RelayTypeOK'
  <2>1. req' \in [Request -> {Idle} \cup Handling \cup Conflict \cup Replied]
    BY <1>2
  <2>2. wire' \subseteq Transaction
    BY <1>1, <1>3 DEF HandlerTurn, RelayInv, RelayTypeOK
  <2> QED
    BY <1>2, <2>1, <2>2 DEF RelayInv, RelayTypeOK
<1>7. SentBySender'
  <2> SUFFICES ASSUME NEW tx \in SentTxs'
               PROVE  \/ req'[tx.request].step = "sending"
                      \/ /\ req'[tx.request].step = "answered"
                         /\ req'[tx.request].status \in {200, 502, 504}
    BY DEF SentBySender
  <2>1. CASE tx = Tx(r) /\ wire' = wire \cup {Tx(r)} /\ tx \notin SentTxs
    <3>1. wire' # wire
      BY <2>1 DEF SentTxs
    <3> QED
      BY <1>1, <1>2, <1>3, <2>1, <3>1 DEF HandlerTurn
  <2>2. CASE tx \in SentTxs
    <3>1. tx.request \in Request
      BY <2>2 DEF RelayInv, RelayTypeOK, SentTxs, Transaction
    <3>2. \/ req[tx.request].step = "sending"
          \/ /\ req[tx.request].step = "answered"
             /\ req[tx.request].status \in {200, 502, 504}
      BY <2>2 DEF RelayInv, SentBySender
    <3>3. CASE tx.request = r
      BY <1>1, <1>2, <3>2, <3>3 DEF HandlerTurn
    <3> QED
      BY <1>2, <3>1, <3>2, <3>3
  <2> QED
    BY <1>4, <2>1, <2>2
<1>8. SimulationHolds'
  <2>1. \A c : Passed(c)' <=> Passed(c)
    BY <1>2 DEF vars, Passed, pubSignals
  <2>2. ASSUME NEW q \in Request, req'[q].step \in Working, req'[q].sim = "answered"
        PROVE  Passed(req[q].call)'
    <3>1. PICK c : c = req'[q].call
      OBVIOUS
    <3>2. Passed(c)
      BY <1>1, <1>2, <2>2, <3>1 DEF HandlerTurn, RelayInv, SimulationHolds
    <3>3. Passed(c)'
      BY <2>1, <3>2
    <3> QED
      BY <3>1, <3>3 DEF Passed
  <2>3. ASSUME NEW tx \in SentTxs', tx.sim = "answered" PROVE Passed(tx.call)'
    <3>1. tx \in SentTxs \/ (tx = Tx(r) /\ (req[r] \in Handling \/ tx \in SentTxs))
      BY <1>1, <1>4 DEF HandlerTurn, SentTxs
    <3>2. Passed(tx.call)
      BY <1>3, <2>3, <3>1 DEF RelayInv, SimulationHolds, Handling
    <3> QED
      BY <2>1, <3>2
  <2> QED
    BY <2>2, <2>3 DEF SimulationHolds
<1>9. RevertIsARace'
  BY <1>2 DEF RelayInv, RevertIsARace
<1>10. RefusedAreDoomed'
  <2>1. \A c : Doomed(c)' <=> Doomed(c)
    BY <1>2 DEF vars, Doomed, pubSignals
  <2> SUFFICES ASSUME NEW q \in Request, req'[q].step = "answered",
                      req'[q].status = 409, req'[q].error \in FinalReverts
               PROVE  Doomed(req[q].call)'
    BY DEF RefusedAreDoomed
  <2>2. PICK c : c = req'[q].call
    OBVIOUS
  <2>3. Doomed(c)
    BY <1>1, <1>2, <2>2 DEF HandlerTurn, RelayInv, RefusedAreDoomed
  <2>4. Doomed(c)'
    BY <2>1, <2>3
  <2> QED
    BY <2>2, <2>4 DEF Doomed
<1> QED
  BY <1>5, <1>6, <1>7, <1>8, <1>9, <1>10 DEF RelayInv

\* The node takes a transaction or drops it, or the wire loses it.
LEMMA NodeKeeps ==
  ASSUME RelayInv, NEW tx, NodeAccepts(tx) \/ WireLoses(tx) \/ Evict(tx)
  PROVE  RelayInv'
<1>1. /\ UNCHANGED <<vars, req, nonceVars, receipts, count>>
      /\ SentTxs' \subseteq SentTxs
      /\ wire' \subseteq wire /\ pool' \subseteq pool \cup wire
      /\ evicted' \subseteq evicted \cup pool
  BY DEF NodeAccepts, WireLoses, Evict, SentTxs
<1>2. [Next]_vars
  BY <1>1
<1>3. ChainInv' /\ ChainGoesOn
  BY <1>2, ChainStep DEF RelayInv
<1>4. RelayTypeOK' /\ RevertIsARace'
  BY <1>1 DEF RelayInv, RelayTypeOK, RevertIsARace, nonceVars
<1> QED
  BY <1>1, <1>3, <1>4, ChainKeeps DEF RelayInv

\* A transaction whose call would not revert is one of the contract's own.
LEMMA ExecuteIsAStep ==
  ASSUME NEW c \in Call, RevertOf(c) = "none", Execute(c)
  PROVE  Next
<1>0. AdminAddress \in Account
  BY RelayAssumption
<1>1. CASE c.op = "castVote"
  <2>1. /\ c \in VoteCall /\ c.id \in PollId
        /\ castVote(c.id, c.proof, c.nullifierHash, c.voteOption)
    BY <1>1, CallKinds DEF RevertOf, castVoteError, Execute
  <2>2. c.proof \in Proof /\ c.nullifierHash \in NullifierHash /\ c.voteOption \in Option
    BY <2>1 DEF VoteCall
  <2> QED
    BY <2>1, <2>2 DEF Next, VoteStep
<1>2. CASE c.op = "createPoll"
  <2>1. c \in CreateCall /\ createPoll(AdminAddress, c.merkleRoot, c.numOptions, c.deadline)
    BY <1>2, CallKinds DEF Execute
  <2>2. c.merkleRoot \in MerkleRoot /\ c.numOptions \in Option /\ c.deadline \in Time
    BY <2>1 DEF CreateCall
  <2> QED
    BY <1>0, <2>1, <2>2 DEF Next, OwnerStep
<1>3. CASE c.op \notin {"castVote", "createPoll"}
  <2>1. /\ c.id \in PollId
        /\ \/ closePoll(AdminAddress, c.id)
           \/ cancelPoll(AdminAddress, c.id)
           \/ voidPoll(AdminAddress, c.id)
    BY <1>3, CallKinds DEF Execute, RetireCall
  <2> QED
    BY <1>0, <2>1 DEF Next, OwnerStep
<1> QED
  BY <1>1, <1>2, <1>3

\* A mined transaction whose simulation was answered reverts only for what may
\* have changed since.
LEMMA MineKeeps ==
  ASSUME RelayInv, NEW tx \in pool, Mine(tx)
  PROVE  RelayInv'
<1> DEFINE receipt == [tx |-> tx, error |-> RevertOf(tx.call)]
<1>1. tx \in Transaction /\ tx.call \in Call /\ tx \in SentTxs
  BY DEF RelayInv, RelayTypeOK, Transaction, SentTxs
<1>2. /\ UNCHANGED <<req, nonceVars, wire, evicted>> /\ pool' \subseteq pool
      /\ count' = [count EXCEPT ![WalletOf(tx.call)] = @ + 1]
      /\ receipts' = receipts \cup {receipt}
      /\ receipt.tx = tx /\ receipt.error = RevertOf(tx.call)
  BY DEF Mine
<1>3. [Next]_vars
  BY <1>1, ExecuteIsAStep DEF Mine
<1> HIDE DEF receipt
<1>4. ChainInv' /\ ChainGoesOn
  BY <1>3, ChainStep DEF RelayInv
<1>5. SentTxs' \subseteq SentTxs
  BY <1>1, <1>2 DEF SentTxs
<1>6. RelayTypeOK'
  <2>1. WalletOf(tx.call) \in Wallet
    BY DEF WalletOf, Wallet
  <2>2. count' \in [Wallet -> Nat]
    BY <1>2, <2>1 DEF RelayInv, RelayTypeOK
  <2> QED
    BY <1>1, <1>2, <2>2 DEF RelayInv, RelayTypeOK, nonceVars
<1>7. RevertIsARace'
  <2>1. tx.sim = "answered" =>
           RevertOf(tx.call) \in {"none", "AlreadyVoted", "PollNotActive", "PollEnded",
                                  "PollNotOpen", "PollHasVotes", "Unauthorized"}
    BY <1>1, RevertKinds DEF RelayInv, ChainInv, SimulationHolds
  <2> QED
    BY <1>2, <2>1 DEF RelayInv, RevertIsARace
<1> QED
  BY <1>2, <1>4, <1>5, <1>6, <1>7, ChainKeeps DEF RelayInv

\* What is done without the relayer is the contract's own doing.
LEMMA ElsewhereIsAStep ==
  ASSUME RelayInv, Elsewhere
  PROVE  /\ Next /\ UNCHANGED <<req, nonceVars, wire, pool, evicted, receipts>>
         /\ count' = count \/ count' = [count EXCEPT !["admin"] = @ + 1]
<1>1. [count EXCEPT !["admin"] = @] = count
  BY DEF RelayInv, RelayTypeOK
<1> QED
  BY <1>1 DEF Elsewhere, Next

LEMMA RelayStep ==
  ASSUME RelayInv, [RelayNext]_allVars
  PROVE  RelayInv'
<1>1. CASE \E r \in Request : Handler(r)
  BY <1>1, TurnKeeps
<1>2. CASE \E tx \in wire : NodeAccepts(tx) \/ WireLoses(tx)
  BY <1>2, NodeKeeps
<1>3. CASE \E tx \in pool : Evict(tx) \/ Mine(tx)
  BY <1>3, NodeKeeps, MineKeeps
<1>4. CASE Elsewhere \/ UNCHANGED allVars
  <2>1. /\ [Next]_vars /\ UNCHANGED <<req, nonceVars, wire, pool, evicted, receipts>>
        /\ count' = count \/ count' = [count EXCEPT !["admin"] = @ + 1]
    BY <1>4, ElsewhereIsAStep DEF allVars, relayVars, nodeVars
  <2>2. ChainInv' /\ ChainGoesOn
    BY <2>1, ChainStep DEF RelayInv
  <2>3. RelayTypeOK' /\ RevertIsARace' /\ SentTxs' \subseteq SentTxs
    BY <2>1 DEF RelayInv, RelayTypeOK, RevertIsARace, SentTxs, Wallet, nonceVars
  <2> QED
    BY <2>1, <2>2, <2>3, ChainKeeps DEF RelayInv
<1> QED
  BY <1>1, <1>2, <1>3, <1>4 DEF RelayNext

(* The inductive invariant of the submissions, on every chain. *)
THEOREM RelayInductive == RelaySpec => []RelayInv
<1>1. RelayInit => RelayInv
  <2> SUFFICES ASSUME RelayInit PROVE RelayInv
    OBVIOUS
  <2>1. Init /\ req = [r \in Request |-> Idle] /\ SentTxs = {}
    BY DEF RelayInit, SentTxs
  <2>2. ChainInv
    BY <2>1, ChainStarts
  <2>3. RelayTypeOK
    BY <2>1 DEF RelayInit, RelayTypeOK
  <2>4. \A r \in Request : req[r].step = "idle"
    BY <2>1 DEF Idle
  <2> QED
    BY <2>1, <2>2, <2>3, <2>4
    DEF RelayInit, RelayInv, SentBySender, SimulationHolds, RevertIsARace,
        RefusedAreDoomed, Working
<1> QED
  BY <1>1, RelayStep, PTL DEF RelaySpec

(* A transaction that was simulated and reverts anyway lost a race, for any    *)
(* number of requests, voters and polls (submit_vote, submit_close_poll,      *)
(* submit_cancel_poll, submit_void_poll).                                     *)
THEOREM RevertsAreRaces == RelaySpec => []RevertIsARace
  BY RelayInductive, PTL DEF RelayInv

(* A request refused with 400, 401, 409 or 503 has sent nothing and never     *)
(* will: Provider errors and timeouts are the only refusals that may have.    *)
THEOREM RefusalsSendNothing == RelaySpec => []RefusedMeansNotSent
<1>1. RelayInv => RefusedMeansNotSent
  <2> SUFFICES ASSUME RelayInv, NEW r \in Request, req[r].step = "answered",
                      req[r].status \in {400, 401, 409, 503}
               PROVE  TxsOf(r) = {}
    BY DEF RefusedMeansNotSent
  <2> QED
    BY DEF RelayInv, SentBySender, SentTxs, TxsOf
<1> QED
  BY <1>1, RelayInductive, PTL

(* What the pre-simulation refused for good no later block would have         *)
(* accepted: no vote that could still have been counted is turned away.       *)
THEOREM RefusalsAreFinal == RelaySpec => RefusalIsFinal
<1> DEFINE Refuted == \A x \in receipts' \ receipts, r \in Request :
         (req[r].step = "answered" /\ req[r].status = 409
            /\ req[r].error \in FinalReverts
            /\ req[r].call = x.tx.call) => x.error # "none"
<1>1. RelayInv /\ [RelayNext]_allVars => [Refuted]_allVars
  <2> SUFFICES ASSUME RelayInv, [RelayNext]_allVars,
                      NEW x \in receipts' \ receipts, NEW r \in Request,
                      req[r].step = "answered", req[r].status = 409,
                      req[r].error \in FinalReverts,
                      req[r].call = x.tx.call
               PROVE  x.error # "none"
    OBVIOUS
  <2>1. PICK tx \in pool : Mine(tx)
    <3>1. receipts' # receipts
      OBVIOUS
    <3>2. ASSUME NEW q \in Request, Handler(q) PROVE FALSE
      BY <3>1, <3>2, HandlerStep DEF HandlerTurn
    <3> QED
      BY <3>1, <3>2 DEF RelayNext, NodeAccepts, WireLoses, Evict, Elsewhere, relayVars, nodeVars, allVars
  <2>2. x.tx = tx /\ x.error = RevertOf(tx.call)
    BY <2>1 DEF Mine
  <2>3. tx.call \in Call
    BY <2>1 DEF RelayInv, RelayTypeOK, Transaction
  <2>4. Doomed(tx.call)
    BY <2>2 DEF RelayInv, RefusedAreDoomed
  <2> QED
    BY <2>2, <2>3, <2>4, RevertKinds DEF RelayInv, ChainInv
<1> QED
  BY <1>1, RelayInductive, PTL DEF RelaySpec, RefusalIsFinal
-----------------------------------------------------------------------------
(* Nonces: what stands between a transaction a node holds and its block.      *)

\* The nonces drawn, each with the key that signs it.
Nonces == {<<d.wallet, d.nonce>> : d \in drawn}

\* Where a request that has drawn a nonce stands: still at it, or answered
\* with an error, or its transaction reached a node.
Accounted(r) ==
    \/ req[r].step \in {"signing", "sending"}
    \/ /\ req[r].step = "answered"
       /\ req[r].status \in {502, 504} \/ HeldByNode(r)

NonceInv ==
    /\ drawn \subseteq [wallet : Wallet, nonce : Nat, request : Request]
    /\ \A d \in drawn : Accounted(d.request)
    /\ \A w \in Wallet : cache[w] # 0 => <<w, cache[w]>> \in Nonces
    /\ \A d \in drawn, n \in Nat :
          count[d.wallet] < n /\ n <= d.nonce => <<d.wallet, n>> \in Nonces
    /\ \A r \in Request :
          req[r].step \in {"signing", "sending"} =>
             <<WalletOf(req[r].call), req[r].nonce>> \in Nonces
    /\ \A tx \in SentTxs : <<WalletOf(tx.call), tx.nonce>> \in Nonces

\* Nothing is drawn: whatever the chain has included, the nonces are as they
\* were.
LEMMA NoncesStay ==
  ASSUME RelayInv, NonceInv, UNCHANGED nonceVars,
         count' \in [Wallet -> Nat], \A w \in Wallet : count[w] <= count'[w],
         \A d \in drawn : Accounted(d.request)',
         \A r \in Request : req'[r].step \in {"signing", "sending"} =>
            <<WalletOf(req'[r].call), req'[r].nonce>> \in Nonces,
         \A tx \in SentTxs' : <<WalletOf(tx.call), tx.nonce>> \in Nonces
  PROVE  NonceInv'
<1>1. drawn' = drawn /\ cache' = cache /\ Nonces' = Nonces
  BY DEF Nonces, nonceVars
<1>2. count \in [Wallet -> Nat]
  BY DEF RelayInv, RelayTypeOK
<1>3. ASSUME NEW d \in drawn, NEW n \in Nat, count'[d.wallet] < n, n <= d.nonce
      PROVE  <<d.wallet, n>> \in Nonces
  <2>1. d.wallet \in Wallet
    BY DEF NonceInv
  <2>2. count[d.wallet] \in Nat /\ count'[d.wallet] \in Nat /\ count[d.wallet] <= count'[d.wallet]
    BY <1>2, <2>1
  <2>3. count[d.wallet] < n
    BY <1>3, <2>2
  <2> QED
    BY <1>3, <2>3 DEF NonceInv
<1>4. \A d \in drawn', n \in Nat : count'[d.wallet] < n /\ n <= d.nonce => <<d.wallet, n>> \in Nonces'
  BY <1>1, <1>3
<1>5. \A r \in Request : req'[r].step \in {"signing", "sending"} =>
         <<WalletOf(req'[r].call), req'[r].nonce>> \in Nonces'
  BY <1>1
<1>6. \A tx \in SentTxs' : <<WalletOf(tx.call), tx.nonce>> \in Nonces'
  BY <1>1
<1>7. \A w \in Wallet : cache'[w] # 0 => <<w, cache'[w]>> \in Nonces'
  BY <1>1 DEF NonceInv
<1>8. drawn' \subseteq [wallet : Wallet, nonce : Nat, request : Request]
  BY <1>1 DEF NonceInv
<1>9. \A d \in drawn' : Accounted(d.request)'
  BY <1>1
<1> QED
  BY <1>4, <1>5, <1>6, <1>7, <1>8, <1>9 DEF NonceInv, Nonces, WalletOf

\* A turn that draws and sends nothing: a request that has drawn ends with an
\* error, or because a node has its transaction.
LEMMA QuietNonces ==
  ASSUME RelayInv, NonceInv, NEW r \in Request,
         UNCHANGED <<nonceVars, nodeVars>>, req[r].step # "answered",
         \A q \in Request \ {r} : req'[q] = req[q],
         req'[r].step \notin {"signing", "sending"},
         req[r].step \in {"signing", "sending"} =>
            /\ req'[r].step = "answered"
            /\ req'[r].status \in {502, 504} \/ HeldByNode(r)
  PROVE  NonceInv'
<1>1. /\ SentTxs' = SentTxs /\ count' = count
      /\ \A q : HeldByNode(q)' <=> HeldByNode(q)
  BY DEF nodeVars, SentTxs, HeldByNode
<1>2. count \in [Wallet -> Nat] /\ \A w \in Wallet : count[w] <= count[w]
  BY DEF RelayInv, RelayTypeOK
<1>3. ASSUME NEW d \in drawn PROVE Accounted(d.request)'
  <2>1. d.request \in Request /\ Accounted(d.request)
    BY DEF NonceInv
  <2>2. CASE d.request = r
    BY <1>1, <2>1, <2>2 DEF Accounted
  <2>3. CASE d.request # r
    BY <1>1, <2>1, <2>3 DEF Accounted
  <2> QED
    BY <2>2, <2>3
<1>4. \A q \in Request : req'[q].step \in {"signing", "sending"} =>
         <<WalletOf(req'[q].call), req'[q].nonce>> \in Nonces
  BY DEF NonceInv
<1>5. \A tx \in SentTxs' : <<WalletOf(tx.call), tx.nonce>> \in Nonces
  BY <1>1 DEF NonceInv
<1> QED
  BY <1>1, <1>2, <1>3, <1>4, <1>5, NoncesStay

\* A nonce is drawn: it follows the last one, or the chain's.
LEMMA DrawNonces ==
  ASSUME RelayInv, NonceInv, NEW r \in Request, req[r].step = "priced",
         Draw(r), UNCHANGED nodeVars,
         req' = [req EXCEPT ![r].step = "signing",
                            ![r].nonce = NextNonce(WalletOf(req[r].call))]
  PROVE  NonceInv'
<1> DEFINE w == WalletOf(req[r].call)
           m == NextNonce(w)
           new == [wallet |-> w, nonce |-> m, request |-> r]
<1>1. /\ w \in Wallet /\ cache \in [Wallet -> Nat] /\ count \in [Wallet -> Nat]
      /\ m \in Nat /\ m = IF cache[w] = 0 THEN count[w] + 1 ELSE cache[w] + 1
      /\ cache[w] \in Nat /\ count[w] \in Nat
  BY DEF RelayInv, RelayTypeOK, WalletOf, Wallet, NextNonce
<1>2. /\ drawn' = drawn \cup {new} /\ cache' = [cache EXCEPT ![w] = m]
      /\ new.wallet = w /\ new.nonce = m /\ new.request = r
      /\ new \in [wallet : Wallet, nonce : Nat, request : Request]
  BY <1>1 DEF Draw
<1>3. /\ req[r] \in Handling
      /\ req \in [Request -> {Idle} \cup Handling \cup Conflict \cup Replied]
  BY StateKinds DEF RelayInv, RelayTypeOK, Working
<1>4. /\ req'[r].step = "signing" /\ req'[r].nonce = m /\ WalletOf(req'[r].call) = w
      /\ \A q \in Request \ {r} : req'[q] = req[q]
  BY <1>3 DEF Handling
<1> HIDE DEF new, m, w
<1>5. /\ SentTxs' = SentTxs /\ count' = count
      /\ \A q : HeldByNode(q)' <=> HeldByNode(q)
  BY DEF nodeVars, SentTxs, HeldByNode
<1>6. /\ Nonces \subseteq Nonces'
      /\ <<w, m>> \in Nonces'
  BY <1>2 DEF Nonces
<1>7. drawn' \subseteq [wallet : Wallet, nonce : Nat, request : Request]
  BY <1>2 DEF NonceInv
<1>8. \A d \in drawn' : Accounted(d.request)'
  <2>1. Accounted(r)'
    BY <1>4 DEF Accounted
  <2>2. ASSUME NEW d \in drawn, d.request # r PROVE Accounted(d.request)'
    <3>1. d.request \in Request \ {r} /\ Accounted(d.request)
      BY <2>2 DEF NonceInv
    <3> QED
      BY <1>4, <1>5, <3>1 DEF Accounted
  <2> QED
    BY <1>2, <2>1, <2>2
<1>9. \A v \in Wallet : cache'[v] # 0 => <<v, cache'[v]>> \in Nonces'
  BY <1>1, <1>2, <1>6 DEF NonceInv
<1>10. ASSUME NEW d \in drawn', NEW n \in Nat, count'[d.wallet] < n, n <= d.nonce
       PROVE  <<d.wallet, n>> \in Nonces'
  <2>1. CASE d \in drawn
    BY <1>5, <1>6, <1>10, <2>1 DEF NonceInv
  <2>2. CASE d = new /\ n = m
    BY <1>2, <1>6, <2>2
  <2>3. CASE d = new /\ n # m
    <3>1. cache[w] # 0 /\ n <= cache[w] /\ count[w] < n
      BY <1>1, <1>2, <1>5, <1>10, <2>3
    <3>2. PICK e \in drawn : e.wallet = w /\ e.nonce = cache[w]
      BY <1>1, <3>1 DEF NonceInv, Nonces
    <3>3. <<w, n>> \in Nonces
      BY <3>1, <3>2 DEF NonceInv
    <3> QED
      BY <1>2, <1>6, <2>3, <3>3
  <2> QED
    BY <1>2, <2>1, <2>2, <2>3
<1>11. \A q \in Request : req'[q].step \in {"signing", "sending"} =>
          <<WalletOf(req'[q].call), req'[q].nonce>> \in Nonces'
  <2>1. ASSUME NEW q \in Request \ {r}, req'[q].step \in {"signing", "sending"}
        PROVE  <<WalletOf(req'[q].call), req'[q].nonce>> \in Nonces'
    <3>1. <<WalletOf(req[q].call), req[q].nonce>> \in Nonces
      BY <1>4, <2>1 DEF NonceInv
    <3> QED
      BY <1>4, <1>6, <3>1
  <2> QED
    BY <1>4, <1>6, <2>1
<1>12. \A tx \in SentTxs' : <<WalletOf(tx.call), tx.nonce>> \in Nonces'
  BY <1>5, <1>6 DEF NonceInv
<1> QED
  BY <1>7, <1>8, <1>9, <1>10, <1>11, <1>12 DEF NonceInv, WalletOf, Nonces

\* The transaction that leaves carries the nonce its request has drawn.
LEMMA SendNonces ==
  ASSUME RelayInv, NonceInv, NEW r \in Request, req[r].step = "signing",
         req' = [req EXCEPT ![r].step = "sending"], wire' = wire \cup {Tx(r)},
         UNCHANGED <<nonceVars, pool, evicted, receipts, count>>
  PROVE  NonceInv'
<1>1. /\ req[r] \in Handling
      /\ req \in [Request -> {Idle} \cup Handling \cup Conflict \cup Replied]
      /\ count \in [Wallet -> Nat] /\ \A w \in Wallet : count[w] <= count[w]
  BY StateKinds DEF RelayInv, RelayTypeOK, Working
<1>2. /\ req'[r].step = "sending" /\ req'[r].call = req[r].call
      /\ req'[r].nonce = req[r].nonce
      /\ \A q \in Request \ {r} : req'[q] = req[q]
  BY <1>1 DEF Handling
<1>3. SentTxs' = SentTxs \cup {Tx(r)} /\ \A q : HeldByNode(q)' <=> HeldByNode(q)
  BY DEF SentTxs, HeldByNode
<1>4. Tx(r).call = req[r].call /\ Tx(r).nonce = req[r].nonce
  BY DEF Tx
<1>5. ASSUME NEW d \in drawn PROVE Accounted(d.request)'
  <2>1. d.request \in Request /\ Accounted(d.request)
    BY DEF NonceInv
  <2> QED
    BY <1>2, <1>3, <2>1 DEF Accounted
<1>6. <<WalletOf(req[r].call), req[r].nonce>> \in Nonces
  BY DEF NonceInv
<1>7. \A q \in Request : req'[q].step \in {"signing", "sending"} =>
         <<WalletOf(req'[q].call), req'[q].nonce>> \in Nonces
  BY <1>2, <1>6 DEF NonceInv
<1>8. \A tx \in SentTxs' : <<WalletOf(tx.call), tx.nonce>> \in Nonces
  BY <1>3, <1>4, <1>6 DEF NonceInv
<1>9. count' = count
  OBVIOUS
<1> QED
  BY <1>1, <1>5, <1>7, <1>8, <1>9, NoncesStay

\* What a handler does to the nonces.
LEMMA HandlerNonces ==
  ASSUME RelayInv, NonceInv, NEW r \in Request, Handler(r)
  PROVE  NonceInv'
<1>1. PICK new : HandlerTurn(r, new)
  BY HandlerStep
<1>2. /\ req[r].step # "answered" /\ req'[r] = new
      /\ \A q \in Request \ {r} : req'[q] = req[q]
      /\ new \in {Idle} \cup Handling \cup Conflict \cup Replied
      /\ req \in [Request -> {Idle} \cup Handling \cup Conflict \cup Replied]
  BY <1>1 DEF HandlerTurn, RelayInv, RelayTypeOK
<1>3. ASSUME NEW status \in {200, 400, 401, 502, 503, 504}, Answered(r, status)
      PROVE  req'[r].step = "answered" /\ req'[r].status = status
  BY <1>2, <1>3 DEF Answered, Answer
<1>4. ASSUME NEW c, Begin(r, c) PROVE req'[r].step = "received"
  BY <1>2, <1>4 DEF Begin
<1>5. Idle.step = "idle"
  BY DEF Idle
<1>6. CASE cast_vote(r) \/ create_poll(r) \/ retire_poll(r)
  <2>1. /\ UNCHANGED <<nonceVars, nodeVars>> /\ req[r].step = "idle"
        /\ req'[r].step \in {"received", "answered"}
    <3>1. CASE cast_vote(r)
      BY <1>3, <1>4, <1>5, <3>1 DEF cast_vote
    <3>2. CASE create_poll(r)
      <4>1. /\ UNCHANGED <<vars, nonceVars, nodeVars>> /\ req[r] = Idle
            /\ \E c \in Body[r] : Begin(r, c) \/ Answered(r, 401) \/ Answered(r, 400)
        BY <3>2 DEF create_poll
      <4> QED
        BY <1>3, <1>4, <1>5, <4>1
    <3>3. CASE retire_poll(r)
      <4>1. /\ UNCHANGED <<vars, nonceVars, nodeVars>> /\ req[r] = Idle
            /\ \E c \in Body[r] : Begin(r, c) \/ Answered(r, 401) \/ Answered(r, 400)
        BY <3>3 DEF retire_poll
      <4> QED
        BY <1>3, <1>4, <1>5, <4>1
    <3> QED
      BY <1>6, <3>1, <3>2, <3>3
  <2> QED
    BY <1>2, <2>1, QuietNonces
<1>7. CASE submit_vote(r) \/ submit_retirement(r)
  <2>1. PICK known : Simulate(r, known)
    BY <1>7 DEF submit_vote, submit_retirement
  <2>2. req[r].step = "received" /\ UNCHANGED <<nonceVars, nodeVars>>
    BY <2>1 DEF Simulate
  <2>3. req[r] \in Handling
    BY <1>2, <2>2, StateKinds DEF Working
  <2>4. req'[r].step \in {"answered", "simulated"}
    BY <1>2, <2>1, <2>3 DEF Simulate, Refused, Handling
  <2> QED
    BY <1>2, <2>2, <2>4, QuietNonces
<1>8. CASE check_gas_ceiling(r) \/ submit_create_poll(r)
  <2>1. /\ req[r].step \in {"received", "simulated"} /\ Estimate(r)
        /\ UNCHANGED <<nonceVars, nodeVars>>
    BY <1>8 DEF check_gas_ceiling, submit_create_poll, Estimate
  <2>2. req[r] \in Handling
    BY <1>2, <2>1, StateKinds DEF Working
  <2>3. req'[r].step \in {"answered", "priced"}
    BY <1>2, <1>3, <2>1, <2>2 DEF Estimate, Handling
  <2> QED
    BY <1>2, <2>1, <2>3, QuietNonces
<1>9. CASE FillNonce(r)
  <2>1. ASSUME Answered(r, 502), UNCHANGED nonceVars PROVE NonceInv'
    <3>1. UNCHANGED <<nonceVars, nodeVars>> /\ req[r].step = "priced"
      BY <1>9, <2>1 DEF FillNonce
    <3> QED
      BY <1>2, <1>3, <2>1, <3>1, QuietNonces
  <2> QED
    BY <1>9, <2>1, DrawNonces DEF FillNonce
<1>10. CASE Send(r)
  <2>1. ASSUME Answered(r, 502), UNCHANGED wire PROVE NonceInv'
    <3>1. UNCHANGED <<nonceVars, nodeVars>>
      BY <1>10, <2>1 DEF Send, nodeVars
    <3> QED
      BY <1>2, <1>3, <2>1, <3>1, QuietNonces
  <2> QED
    BY <1>10, <2>1, SendNonces DEF Send
<1>11. CASE AnswerBroadcast(r) \/ SendFails(r) \/ Timeout(r)
  <2>1. /\ UNCHANGED <<nonceVars, nodeVars>> /\ req'[r].step = "answered"
        /\ req'[r].status \in {502, 504} \/ HeldByNode(r)
    BY <1>3, <1>11 DEF AnswerBroadcast, SendFails, Timeout
  <2> QED
    BY <1>2, <2>1, QuietNonces
<1> QED
  BY <1>6, <1>7, <1>8, <1>9, <1>10, <1>11 DEF Handler

\* The node and the chain move transactions about; what a node has held, it
\* has held for good.
LEMMA NodeNonces ==
  ASSUME RelayInv, NonceInv, UNCHANGED <<req, nonceVars>>,
         SentTxs' \subseteq SentTxs, \A q : HeldByNode(q) => HeldByNode(q)',
         count' \in [Wallet -> Nat], \A w \in Wallet : count[w] <= count'[w]
  PROVE  NonceInv'
<1>1. \A d \in drawn : Accounted(d.request)'
  BY DEF NonceInv, Accounted
<1>2. \A q \in Request : req'[q].step \in {"signing", "sending"} =>
         <<WalletOf(req'[q].call), req'[q].nonce>> \in Nonces
  BY DEF NonceInv
<1>3. \A tx \in SentTxs' : <<WalletOf(tx.call), tx.nonce>> \in Nonces
  BY DEF NonceInv
<1> QED
  BY <1>1, <1>2, <1>3, NoncesStay

LEMMA NonceStep ==
  ASSUME RelayInv, NonceInv, [RelayNext]_allVars
  PROVE  NonceInv'
<1>1. count \in [Wallet -> Nat] /\ "admin" \in Wallet
  BY DEF RelayInv, RelayTypeOK, Wallet
<1>2. \A v \in Wallet :
         /\ [count EXCEPT ![v] = @ + 1] \in [Wallet -> Nat]
         /\ \A w \in Wallet : count[w] <= [count EXCEPT ![v] = @ + 1][w]
  BY <1>1
<1>3. \A w \in Wallet : count[w] <= count[w]
  BY <1>1
<1>4. ASSUME NEW tx, NodeAccepts(tx) \/ WireLoses(tx) \/ Evict(tx) PROVE NonceInv'
  <2>1. /\ UNCHANGED <<req, nonceVars, receipts>> /\ count' = count
        /\ SentTxs' \subseteq SentTxs
        /\ pool \cup evicted \subseteq pool' \cup evicted'
    BY <1>4 DEF NodeAccepts, WireLoses, Evict, SentTxs
  <2>2. \A q : HeldByNode(q) => HeldByNode(q)'
    BY <2>1 DEF HeldByNode
  <2> QED
    BY <1>1, <1>3, <2>1, <2>2, NodeNonces
<1>5. ASSUME NEW tx \in pool, Mine(tx) PROVE NonceInv'
  <2> DEFINE receipt == [tx |-> tx, error |-> RevertOf(tx.call)]
  <2>1. /\ UNCHANGED <<req, nonceVars, wire, evicted>> /\ pool' = pool \ {tx}
        /\ receipts' = receipts \cup {receipt} /\ receipt.tx = tx
        /\ count' = [count EXCEPT ![WalletOf(tx.call)] = @ + 1]
    BY <1>5 DEF Mine
  <2>2. WalletOf(tx.call) \in Wallet
    BY DEF WalletOf, Wallet
  <2> HIDE DEF receipt
  <2>3. SentTxs' \subseteq SentTxs
    BY <2>1 DEF SentTxs
  <2>4. \A q : HeldByNode(q) => HeldByNode(q)'
    BY <2>1 DEF HeldByNode
  <2> QED
    BY <1>2, <2>1, <2>2, <2>3, <2>4, NodeNonces
<1>6. CASE Elsewhere \/ UNCHANGED allVars
  <2>1. /\ UNCHANGED <<req, nonceVars, wire, pool, evicted, receipts>>
        /\ count' = count \/ count' = [count EXCEPT !["admin"] = @ + 1]
    BY <1>6, ElsewhereIsAStep DEF allVars, relayVars, nodeVars
  <2>2. SentTxs' \subseteq SentTxs /\ \A q : HeldByNode(q) => HeldByNode(q)'
    BY <2>1 DEF SentTxs, HeldByNode
  <2> QED
    BY <1>1, <1>2, <1>3, <2>1, <2>2, NodeNonces
<1> QED
  BY <1>4, <1>5, <1>6, HandlerNonces DEF RelayNext

(* A transaction a node holds behind a missing nonce waits for a request       *)
(* under way, a transaction that was sent, or one whose client was told of an  *)
(* error: the refusals of cast_vote, create_poll, submit_* and                 *)
(* check_gas_ceiling all come before the provider draws a nonce.               *)
THEOREM GapsHaveErrors == RelaySpec => []OnlyErrorsLeaveGaps
<1>1. RelayInit => NonceInv
  <2> SUFFICES ASSUME RelayInit PROVE NonceInv
    OBVIOUS
  <2>1. drawn = {} /\ SentTxs = {} /\ cache = [w \in Wallet |-> 0]
    BY DEF RelayInit, SentTxs
  <2>2. \A r \in Request : req[r].step \notin {"signing", "sending"}
    BY DEF RelayInit, Idle
  <2> QED
    BY <2>1, <2>2 DEF NonceInv
<1>2. RelayInv /\ NonceInv => OnlyErrorsLeaveGaps
  <2> SUFFICES ASSUME RelayInv, NonceInv, NEW tx \in pool,
                      NEW n \in (count[WalletOf(tx.call)] + 1)..(tx.nonce - 1)
               PROVE  \E d \in drawn :
                         /\ d.wallet = WalletOf(tx.call) /\ d.nonce = n
                         /\ \/ InFlight(d.request)
                            \/ TxsOf(d.request) # {}
                            \/ req[d.request].status \in {502, 504}
    BY DEF OnlyErrorsLeaveGaps
  <2> DEFINE w == WalletOf(tx.call)
  <2>1. tx \in SentTxs /\ tx.nonce \in Nat /\ w \in Wallet /\ count[w] \in Nat
    BY DEF RelayInv, RelayTypeOK, Transaction, SentTxs, WalletOf, Wallet
  <2> HIDE DEF w
  <2>2. PICK e \in drawn : e.wallet = w /\ e.nonce = tx.nonce
    BY <2>1 DEF NonceInv, Nonces, w
  <2>3. n \in Nat /\ count[w] < n /\ n <= tx.nonce
    BY <2>1 DEF w
  <2>4. PICK d \in drawn : d.wallet = w /\ d.nonce = n
    BY <2>2, <2>3 DEF NonceInv, Nonces
  <2>5. Accounted(d.request)
    BY DEF NonceInv
  <2>6. HeldByNode(d.request) => TxsOf(d.request) # {}
    BY DEF HeldByNode, TxsOf, SentTxs
  <2> QED
    BY <2>4, <2>5, <2>6 DEF Accounted, InFlight, Working, w
<1> QED
  BY <1>1, <1>2, NonceStep, RelayInductive, PTL DEF RelaySpec
-----------------------------------------------------------------------------
(* Sums of tallies.  Induction is over sets: one that holds 0 and each of its *)
(* successors holds all numbers.                                              *)

LEMMA NatSet ==
  ASSUME NEW S, 0 \in S, \A n \in Nat : n \in S => n + 1 \in S
  PROVE  \A n \in Nat : n \in S
<1> DEFINE R == OpToRel(<, Nat)
           T == Nat \ S
<1>1. SUFFICES ASSUME T # {} PROVE FALSE
  OBVIOUS
<1>2. PICK x \in T : \A y \in T : ~(<<y, x>> \in R)
  <2>1. T \subseteq Nat
    OBVIOUS
  <2> HIDE DEF T, R
  <2>2. IsWellFoundedOn(R, Nat)
    BY NatLessThanWellFounded DEF R
  <2> QED
    BY <1>1, <2>1, <2>2, WFMin
<1>3. x # 0 /\ x \in Nat
  OBVIOUS
<1>4. x - 1 \in T
  BY <1>3
<1>5. <<x - 1, x>> \in R
  BY <1>3 DEF OpToRel
<1> QED
  BY <1>2, <1>4, <1>5

\* f holds the sums of the first m elements of s, up to m.
SumsTo(f, s, m) ==
    /\ f \in [0..m -> Nat]
    /\ f[0] = 0
    /\ \A n \in 1..m : f[n] = f[n - 1] + s[n]

Sums(f, s) == SumsTo(f, s, Len(s))

\* Every sequence has its partial sums.
LEMMA SumsExist ==
  ASSUME NEW s \in Seq(Nat)
  PROVE  \E f : Sums(f, s)
<1> DEFINE S == {m \in Nat : m <= Len(s) => \E f : SumsTo(f, s, m)}
<1>0. Len(s) \in Nat /\ \A n \in 1..Len(s) : s[n] \in Nat
  OBVIOUS
<1>1. 0 \in S
  <2>1. SumsTo([n \in 0..0 |-> 0], s, 0)
    BY DEF SumsTo
  <2> QED
    BY <2>1
<1>2. ASSUME NEW m \in Nat, m \in S PROVE m + 1 \in S
  <2> SUFFICES ASSUME m + 1 <= Len(s) PROVE \E f : SumsTo(f, s, m + 1)
    OBVIOUS
  <2>1. m <= Len(s)
    BY <1>0
  <2>2. PICK f : SumsTo(f, s, m)
    BY <1>2, <2>1
  <2>3. s[m + 1] \in Nat /\ f[m] \in Nat
    BY <1>0, <2>1, <2>2 DEF SumsTo
  <2> DEFINE g == [n \in 0..(m + 1) |-> IF n = m + 1 THEN f[m] + s[m + 1] ELSE f[n]]
  <2>4. g \in [0..(m + 1) -> Nat] /\ g[0] = 0
    BY <2>2, <2>3 DEF SumsTo
  <2>5. \A n \in 1..(m + 1) : g[n] = g[n - 1] + s[n]
    BY <2>2, <2>3 DEF SumsTo
  <2> HIDE DEF g
  <2> QED
    BY <2>4, <2>5 DEF SumsTo
<1>3. \A m \in Nat : m \in S
  <2> HIDE DEF S
  <2> QED
    BY <1>1, <1>2, NatSet
<1>4. \E f : SumsTo(f, s, Len(s))
  BY <1>0, <1>3
<1> QED
  BY <1>4 DEF Sums

\* Total is the last partial sum.
LEMMA TotalIsTheSum ==
  ASSUME NEW s \in Seq(Nat)
  PROVE  \E f : Sums(f, s) /\ Total(s) = f[Len(s)]
<1> DEFINE Def(f) == f = [n \in 0..Len(s) |-> IF n = 0 THEN 0 ELSE f[n - 1] + s[n]]
           F == CHOOSE f : Def(f)
<1>1. Total(s) = F[Len(s)]
  BY DEF Total
<1>2. PICK f : Sums(f, s)
  BY SumsExist
<1>3. Def(f)
  <2>1. Len(s) \in Nat
    OBVIOUS
  <2>2. \A n \in 0..Len(s) : f[n] = IF n = 0 THEN 0 ELSE f[n - 1] + s[n]
    BY <1>2, <2>1 DEF Sums, SumsTo
  <2> QED
    BY <1>2, <2>2 DEF Sums, SumsTo
<1>4. Def(F)
  <2> HIDE DEF Def
  <2> QED
    BY <1>3
<1>5. Sums(F, s)
  <2> HIDE DEF F
  <2>1. Len(s) \in Nat /\ DOMAIN F = 0..Len(s)
    BY <1>4
  <2>2. F[0] = 0 /\ \A n \in 1..Len(s) : F[n] = F[n - 1] + s[n]
    BY <1>4, <2>1
  <2> DEFINE S == {n \in Nat : n <= Len(s) => F[n] \in Nat}
  <2>3. 0 \in S
    BY <2>2
  <2>4. ASSUME NEW n \in Nat, n \in S PROVE n + 1 \in S
    BY <2>1, <2>2, <2>4
  <2> HIDE DEF S
  <2>5. \A n \in Nat : n \in S
    BY <2>3, <2>4, NatSet
  <2>6. \A n \in 0..Len(s) : F[n] \in Nat
    BY <2>1, <2>5 DEF S
  <2>7. F = [n \in 0..Len(s) |-> F[n]]
    BY <1>4
  <2>8. F \in [0..Len(s) -> Nat]
    BY <2>6, <2>7
  <2> QED
    BY <2>2, <2>8 DEF Sums, SumsTo
<1> QED
  BY <1>1, <1>5

\* Each partial sum adds one element to the last.
LEMMA SumsStep ==
  ASSUME NEW s \in Seq(Nat), NEW f, Sums(f, s), NEW n \in Nat, n + 1 <= Len(s)
  PROVE  f[n + 1] = f[n] + s[n + 1] /\ f[n] \in Nat
<1>1. /\ Len(s) \in Nat /\ n + 1 \in 1..Len(s) /\ n \in 0..Len(s) /\ (n + 1) - 1 = n
  OBVIOUS
<1> QED
  BY <1>1 DEF Sums, SumsTo

\* A sum of larger numbers is larger.
LEMMA TotalGrows ==
  ASSUME NEW s \in Seq(Nat), NEW t \in Seq(Nat), Len(s) = Len(t),
         \A n \in 1..Len(s) : s[n] <= t[n]
  PROVE  Total(s) \in Nat /\ Total(t) \in Nat /\ Total(s) <= Total(t)
<1>1. PICK f : Sums(f, s) /\ Total(s) = f[Len(s)]
  BY TotalIsTheSum
<1>2. PICK g : Sums(g, t) /\ Total(t) = g[Len(t)]
  BY TotalIsTheSum
<1> DEFINE S == {n \in Nat : n <= Len(s) => f[n] <= g[n]}
<1>3. Len(s) \in Nat /\ \A n \in 1..Len(s) : s[n] \in Nat /\ t[n] \in Nat
  OBVIOUS
<1>4. 0 \in S
  BY <1>1, <1>2 DEF Sums, SumsTo
<1>5. ASSUME NEW n \in Nat, n \in S PROVE n + 1 \in S
  <2> SUFFICES ASSUME n + 1 <= Len(s) PROVE f[n + 1] <= g[n + 1]
    OBVIOUS
  <2>1. f[n] <= g[n] /\ s[n + 1] <= t[n + 1] /\ s[n + 1] \in Nat /\ t[n + 1] \in Nat
    BY <1>3, <1>5
  <2>2. /\ f[n + 1] = f[n] + s[n + 1] /\ g[n + 1] = g[n] + t[n + 1]
        /\ f[n] \in Nat /\ g[n] \in Nat
    BY <1>1, <1>2, <1>3, SumsStep
  <2> QED
    BY <2>1, <2>2
<1>6. \A n \in Nat : n \in S
  <2> HIDE DEF S
  <2> QED
    BY <1>4, <1>5, NatSet
<1>7. f[Len(s)] <= g[Len(s)]
  BY <1>3, <1>6
<1> QED
  BY <1>1, <1>2, <1>3, <1>7 DEF Sums, SumsTo

\* A sum with one element one larger is one larger.
LEMMA TotalCounts ==
  ASSUME NEW s \in Seq(Nat), NEW t \in Seq(Nat), Len(s) = Len(t),
         NEW j \in 1..Len(s), t[j] = s[j] + 1,
         \A n \in 1..Len(s) : n # j => t[n] = s[n]
  PROVE  Total(t) = Total(s) + 1
<1>1. PICK f : Sums(f, s) /\ Total(s) = f[Len(s)]
  BY TotalIsTheSum
<1>2. PICK g : Sums(g, t) /\ Total(t) = g[Len(t)]
  BY TotalIsTheSum
<1> DEFINE S == {n \in Nat : n <= Len(s) => g[n] = IF n < j THEN f[n] ELSE f[n] + 1}
<1>3. Len(s) \in Nat /\ \A n \in 1..Len(s) : s[n] \in Nat /\ t[n] \in Nat
  OBVIOUS
<1>4. 0 \in S
  BY <1>1, <1>2 DEF Sums, SumsTo
<1>5. ASSUME NEW n \in Nat, n \in S PROVE n + 1 \in S
  <2> SUFFICES ASSUME n + 1 <= Len(s)
               PROVE  g[n + 1] = IF n + 1 < j THEN f[n + 1] ELSE f[n + 1] + 1
    OBVIOUS
  <2>1. /\ f[n + 1] = f[n] + s[n + 1] /\ g[n + 1] = g[n] + t[n + 1]
        /\ f[n] \in Nat /\ s[n + 1] \in Nat
    BY <1>1, <1>2, <1>3, SumsStep
  <2>2. g[n] = IF n < j THEN f[n] ELSE f[n] + 1
    BY <1>3, <1>5
  <2>3. t[n + 1] = IF n + 1 = j THEN s[n + 1] + 1 ELSE s[n + 1]
    BY <1>3
  <2>4. j \in Nat
    BY <1>3
  <2>5. CASE n + 1 < j
    BY <2>1, <2>2, <2>3, <2>4, <2>5
  <2>6. CASE n + 1 = j
    <3>1. t[n + 1] = s[n + 1] + 1 /\ n < j
      BY <2>3, <2>4, <2>6
    <3>2. g[n] = f[n] /\ ~(n + 1 < j)
      BY <2>2, <2>6, <3>1
    <3>3. g[n + 1] = f[n] + (s[n + 1] + 1)
      BY <2>1, <3>1, <3>2
    <3>4. \A a, b \in Nat : (a + b) + 1 = a + (b + 1)
      OBVIOUS
    <3>5. f[n + 1] + 1 = f[n] + (s[n + 1] + 1)
      BY <2>1, <3>4, Zenon
    <3> QED
      BY <3>2, <3>3, <3>5, Zenon
  <2>7. CASE n + 1 > j
    BY <2>1, <2>2, <2>3, <2>4, <2>7
  <2> QED
    BY <2>4, <2>5, <2>6, <2>7
<1>6. \A n \in Nat : n \in S
  <2> HIDE DEF S
  <2> QED
    BY <1>4, <1>5, NatSet
<1>7. g[Len(s)] = f[Len(s)] + 1
  BY <1>3, <1>6
<1> QED
  BY <1>1, <1>2, <1>7

\* Nothing adds up to nothing.
LEMMA TotalOfNothing ==
  ASSUME NEW s \in Seq(Nat), \A n \in 1..Len(s) : s[n] = 0
  PROVE  Total(s) = 0
<1>1. PICK f : Sums(f, s) /\ Total(s) = f[Len(s)]
  BY TotalIsTheSum
<1> DEFINE S == {n \in Nat : n <= Len(s) => f[n] = 0}
<1>2. 0 \in S
  BY <1>1 DEF Sums, SumsTo
<1>3. ASSUME NEW n \in Nat, n \in S PROVE n + 1 \in S
  BY <1>1, <1>3 DEF Sums, SumsTo
<1>4. \A n \in Nat : n \in S
  <2> HIDE DEF S
  <2> QED
    BY <1>2, <1>3, NatSet
<1>5. Len(s) \in Nat
  OBVIOUS
<1> QED
  BY <1>1, <1>4, <1>5
-----------------------------------------------------------------------------
(* The tally of a poll, read one option at a time.                            *)

\* What getOptionTally would answer of a poll, option by option.
Tallies(poll) == [n \in 1..poll.numOptions |-> poll.optionTally[n - 1]]

\* The counters of a poll add up to its total.
TotalsAddUp ==
    \A id \in PollId :
       IF polls[id].exists
       THEN polls[id].numOptions >= 2 /\ polls[id].totalVotes = Total(Tallies(polls[id]))
       ELSE polls[id].totalVotes = 0 /\ \A o \in Option : polls[id].optionTally[o] = 0

\* What a poll's counters were when the request read its total: `base` adds up
\* to that total, no counter has gone down since, and a poll that was over has
\* not changed.
StartedFrom(q, base) ==
    /\ base \in Seq(Nat) /\ Len(base) = q.numOptions
    /\ Total(base) = q.totalVotes
    /\ \A n \in 1..q.numOptions :
          /\ base[n] <= polls[q.pollId].optionTally[n - 1]
          /\ q.over => base[n] = polls[q.pollId].optionTally[n - 1]
    /\ \A n \in 1..Len(q.optionTallies) :
          /\ base[n] <= q.optionTallies[n]
          /\ q.optionTallies[n] <= polls[q.pollId].optionTally[n - 1]

TallyRequest == [step : {"reading", "done"}, pollId : PollId, numOptions : Option,
                 totalVotes : Nat, optionTallies : Seq(Nat), over : BOOLEAN]

ReadingInv(q) ==
    /\ q \in TallyRequest
    /\ polls[q.pollId].exists /\ polls[q.pollId].numOptions = q.numOptions
    /\ q.over => VotingIsOver(q.pollId)
    /\ q.step = "reading" => Len(q.optionTallies) < q.numOptions
    /\ q.step = "done" => Len(q.optionTallies) = q.numOptions
    /\ \E base : StartedFrom(q, base)

TallyInv == TotalsAddUp /\ (query.step \in {"reading", "done"} => ReadingInv(query))

LEMMA TalliesTyped ==
  ASSUME NEW poll \in Poll
  PROVE  /\ Tallies(poll) \in Seq(Nat) /\ Len(Tallies(poll)) = poll.numOptions
         /\ poll.numOptions \in Nat
         /\ \A n \in 1..poll.numOptions :
               n - 1 \in Option /\ Tallies(poll)[n] = poll.optionTally[n - 1]
<1>1. poll.numOptions \in Nat /\ \A n \in 1..poll.numOptions : n - 1 \in Option
  BY CircuitAssumption DEF Poll, Option
<1>2. \A n \in 1..poll.numOptions : poll.optionTally[n - 1] \in Nat
  BY <1>1 DEF Poll
<1> QED
  BY <1>1, <1>2 DEF Tallies

\* Votes are counted twice over, in a counter and in the total; a counter goes
\* up only, and not once voting is over.
LEMMA TotalsStep ==
  ASSUME ChainInv, TotalsAddUp, [Next]_vars
  PROVE  /\ TotalsAddUp'
         /\ \A id \in PollId : polls[id].exists =>
               /\ \A o \in Option : polls[id].optionTally[o] <= polls'[id].optionTally[o]
               /\ VotingIsOver(id) => polls'[id].optionTally = polls[id].optionTally
<1> DEFINE Up == \A id \in PollId : polls[id].exists =>
               /\ \A o \in Option : polls[id].optionTally[o] <= polls'[id].optionTally[o]
               /\ VotingIsOver(id) => polls'[id].optionTally = polls[id].optionTally
<1>0. /\ polls \in [PollId -> Poll] /\ polls' \in [PollId -> Poll]
      /\ \A id \in PollId : \A o \in Option : polls[id].optionTally[o] \in Nat
      /\ now \in Int /\ \A id \in PollId : polls[id].deadline \in Int
  BY ChainStep DEF ChainInv, TypeOK, Poll, Time
<1>1. ASSUME NEW sender \in Account, NEW root \in MerkleRoot,
             NEW n \in Option, NEW d \in Time, createPoll(sender, root, n, d)
      PROVE  TotalsAddUp' /\ Up
  <2> DEFINE p == polls'[nextPollId]
  <2>1. /\ nextPollId \in PollId /\ ~polls[nextPollId].exists
        /\ \A id \in PollId : id # nextPollId => polls'[id] = polls[id]
        /\ p.numOptions = n /\ n >= 2 /\ p.exists
        /\ p.totalVotes = polls[nextPollId].totalVotes
        /\ p.optionTally = polls[nextPollId].optionTally
    BY <1>1 DEF createPoll, ChainInv, TypeOK, Poll, IdsAreHandedOut
  <2>2. p \in Poll /\ p.totalVotes = 0 /\ \A o \in Option : p.optionTally[o] = 0
    BY <1>0, <2>1 DEF TotalsAddUp
  <2> HIDE DEF p
  <2>3. Total(Tallies(p)) = 0
    BY <2>2, TalliesTyped, TotalOfNothing
  <2>4. TotalsAddUp'
    BY <2>1, <2>2, <2>3 DEF TotalsAddUp, p
  <2>5. Up
    BY <1>0, <2>1
  <2> QED
    BY <2>4, <2>5
<1>2. ASSUME NEW sender \in Account, NEW id \in PollId,
             NEW status \in {"Closed", "Cancelled", "Void"}, Retire(sender, id, status)
      PROVE  TotalsAddUp' /\ Up
  <2>1. \A i \in PollId : /\ polls'[i].exists = polls[i].exists
                          /\ polls'[i].numOptions = polls[i].numOptions
                          /\ polls'[i].totalVotes = polls[i].totalVotes
                          /\ polls'[i].optionTally = polls[i].optionTally
    BY <1>0, <1>2 DEF Retire, Poll
  <2>2. \A i \in PollId : Tallies(polls'[i]) = Tallies(polls[i])
    BY <2>1 DEF Tallies
  <2> QED
    BY <1>0, <2>1, <2>2 DEF TotalsAddUp
<1>3. ASSUME NEW id \in PollId, NEW proof \in Proof,
             NEW nullifierHash \in NullifierHash, NEW voteOption \in Option,
             castVote(id, proof, nullifierHash, voteOption)
      PROVE  TotalsAddUp' /\ Up
  <2> DEFINE p == polls[id]
             q == polls'[id]
  <2>1. /\ \A i \in PollId : i # id => polls'[i] = polls[i]
        /\ p.exists /\ q.exists /\ q.numOptions = p.numOptions
        /\ q.totalVotes = p.totalVotes + 1
        /\ q.optionTally = [p.optionTally EXCEPT ![voteOption] = @ + 1]
        /\ voteOption < p.numOptions
        /\ ~VotingIsOver(id)
    BY <1>0, <1>3 DEF castVote, Poll, VotingIsOver
  <2>2. p \in Poll /\ q \in Poll
    BY <1>0
  <2>3. p.numOptions >= 2 /\ p.totalVotes = Total(Tallies(p))
    BY <2>1 DEF TotalsAddUp
  <2>4. /\ q.optionTally[voteOption] = p.optionTally[voteOption] + 1
        /\ \A o \in Option : o # voteOption => q.optionTally[o] = p.optionTally[o]
    BY <2>1, <2>2 DEF Poll
  <2> HIDE DEF p, q
  <2>5. /\ Tallies(p) \in Seq(Nat) /\ Tallies(q) \in Seq(Nat)
        /\ Len(Tallies(p)) = p.numOptions /\ Len(Tallies(q)) = p.numOptions
        /\ p.numOptions \in Nat
        /\ \A n \in 1..p.numOptions :
              /\ n - 1 \in Option
              /\ Tallies(p)[n] = p.optionTally[n - 1]
              /\ Tallies(q)[n] = q.optionTally[n - 1]
    BY <2>1, <2>2, TalliesTyped
  <2>6. PICK j \in 1..p.numOptions : j - 1 = voteOption
    <3>1. voteOption \in Nat
      BY CircuitAssumption DEF Option
    <3>2. voteOption + 1 \in 1..p.numOptions /\ (voteOption + 1) - 1 = voteOption
      BY <2>1, <2>5, <3>1
    <3> QED
      BY <3>2
  <2>7. /\ Tallies(q)[j] = Tallies(p)[j] + 1
        /\ \A n \in 1..p.numOptions : n # j => Tallies(q)[n] = Tallies(p)[n]
    <3>1. \A n \in 1..p.numOptions : n # j => n - 1 # voteOption
      BY <2>5, <2>6
    <3> QED
      BY <2>4, <2>5, <2>6, <3>1
  <2>8. Total(Tallies(q)) = Total(Tallies(p)) + 1
    BY <2>5, <2>6, <2>7, TotalCounts
  <2>9. TotalsAddUp'
    BY <2>1, <2>3, <2>8 DEF TotalsAddUp, p, q
  <2>10. Up
    <3>1. \A o \in Option : polls[id].optionTally[o] <= polls'[id].optionTally[o]
      BY <1>0, <2>4 DEF p, q
    <3>2. ASSUME NEW i \in PollId, i # id
          PROVE  /\ \A o \in Option : polls[i].optionTally[o] <= polls'[i].optionTally[o]
                 /\ polls'[i].optionTally = polls[i].optionTally
      <4>1. polls'[i] = polls[i]
        BY <2>1, <3>2
      <4>2. \A o \in Option : polls[i].optionTally[o] \in Nat
        BY <1>0
      <4> QED
        BY <4>1, <4>2
    <3> QED
      BY <2>1, <3>1, <3>2
  <2> QED
    BY <2>9, <2>10
<1>4. ASSUME UNCHANGED polls PROVE TotalsAddUp' /\ Up
  BY <1>0, <1>4 DEF TotalsAddUp
<1> HIDE DEF Up
<1>5. TotalsAddUp' /\ Up
  BY <1>1, <1>2, <1>3, <1>4
  DEF Next, OwnerStep, VoteStep, Tick, closePoll, cancelPoll, voidPoll, vars,
      transferOwnership, cancelOwnershipTransfer, acceptOwnership
<1> QED
  BY <1>5 DEF Up

\* The counters read so far stay between those the request started from and
\* those of the chain, whatever is mined.
LEMMA ReadingSurvives ==
  ASSUME ChainInv, TotalsAddUp, [Next]_vars, NEW q, ReadingInv(q)
  PROVE  ReadingInv(q)'
<1> DEFINE id == q.pollId
           old == polls[q.pollId].optionTally
           new == polls'[q.pollId].optionTally
<1>1. /\ ChainInv' /\ ChainGoesOn
      /\ q \in TallyRequest /\ id \in PollId /\ polls[id].exists
      /\ polls[id].numOptions = q.numOptions
      /\ polls[id] \in Poll /\ polls'[id] \in Poll
  BY ChainStep DEF ReadingInv, TallyRequest, ChainInv, TypeOK
<1>2. /\ polls'[id].exists /\ polls'[id].numOptions = q.numOptions
      /\ q.over => VotingIsOver(id) /\ VotingIsOver(id)'
  BY <1>1, OverStays DEF ReadingInv, ChainGoesOn
<1>3. /\ \A o \in Option : old[o] <= new[o]
      /\ q.over => new = old
  BY <1>1, <1>2, TotalsStep
<1>4. /\ q.numOptions \in Nat /\ Len(q.optionTallies) <= q.numOptions
      /\ Len(q.optionTallies) \in Nat
      /\ \A n \in 1..q.numOptions :
            n - 1 \in Option /\ old[n - 1] \in Nat /\ new[n - 1] \in Nat
      /\ q.optionTallies \in Seq(Nat)
  <2>1. /\ q.numOptions \in Nat
        /\ \A n \in 1..q.numOptions : n - 1 \in Option
    <3> HIDE DEF id
    <3> QED
      BY <1>1, TalliesTyped
  <2>2. old \in [Option -> Nat] /\ new \in [Option -> Nat]
    <3> HIDE DEF id
    <3>1. polls[id].optionTally \in [Option -> Nat]
      BY <1>1 DEF Poll
    <3>2. polls'[id].optionTally \in [Option -> Nat]
      BY <1>1 DEF Poll
    <3> QED
      BY <3>1, <3>2 DEF id
  <2>3. q.optionTallies \in Seq(Nat) /\ q.step \in {"reading", "done"}
    BY <1>1 DEF TallyRequest
  <2>4. Len(q.optionTallies) \in Nat
    BY <2>3
  <2>5. Len(q.optionTallies) <= q.numOptions
    BY <2>1, <2>3, <2>4 DEF ReadingInv
  <2> HIDE DEF old, new
  <2> QED
    BY <2>1, <2>2, <2>3, <2>4, <2>5
<1>5. PICK base : StartedFrom(q, base)
  BY DEF ReadingInv
<1>6. /\ base \in Seq(Nat) /\ Len(base) = q.numOptions /\ Total(base) = q.totalVotes
      /\ \A n \in 1..q.numOptions : base[n] \in Nat
      /\ \A n \in 1..q.numOptions : base[n] <= old[n - 1]
      /\ \A n \in 1..q.numOptions : q.over => base[n] = old[n - 1]
      /\ \A n \in 1..Len(q.optionTallies) : base[n] <= q.optionTallies[n]
      /\ \A n \in 1..Len(q.optionTallies) : q.optionTallies[n] <= old[n - 1]
      /\ \A n \in 1..Len(q.optionTallies) : q.optionTallies[n] \in Nat
  BY <1>4, <1>5 DEF StartedFrom
<1> HIDE DEF old, new
<1>7. /\ \A n \in 1..q.numOptions : base[n] <= new[n - 1]
      /\ \A n \in 1..q.numOptions : q.over => base[n] = new[n - 1]
      /\ \A n \in 1..Len(q.optionTallies) : q.optionTallies[n] <= new[n - 1]
  <2>1. ASSUME NEW n \in 1..q.numOptions PROVE base[n] <= new[n - 1]
    <3>1. old[n - 1] <= new[n - 1] /\ old[n - 1] \in Nat /\ new[n - 1] \in Nat
      BY <1>3, <1>4
    <3>2. base[n] <= old[n - 1] /\ base[n] \in Nat
      BY <1>6
    <3> QED
      BY <3>1, <3>2
  <2>2. \A n \in 1..Len(q.optionTallies) : n \in 1..q.numOptions
    BY <1>4
  <2>3. ASSUME NEW n \in 1..Len(q.optionTallies) PROVE q.optionTallies[n] <= new[n - 1]
    <3>1. old[n - 1] <= new[n - 1] /\ old[n - 1] \in Nat /\ new[n - 1] \in Nat
      BY <1>3, <1>4, <2>2
    <3>2. q.optionTallies[n] <= old[n - 1] /\ q.optionTallies[n] \in Nat
      BY <1>6
    <3> QED
      BY <3>1, <3>2
  <2> QED
    BY <1>3, <1>6, <2>1, <2>3
<1>8. StartedFrom(q, base)'
  BY <1>6, <1>7 DEF StartedFrom, new
<1> QED
  BY <1>1, <1>2, <1>8 DEF ReadingInv

\* A request that leaves the chain alone keeps what is known of any tally.
LEMMA ReadingStays ==
  ASSUME UNCHANGED vars, NEW q, ReadingInv(q)
  PROVE  ReadingInv(q)'
  BY DEF vars, ReadingInv, StartedFrom, VotingIsOver, TallyRequest

\* The total is read together with the counters it adds up.
LEMMA TallyStarts ==
  ASSUME ChainInv, TotalsAddUp, NEW id \in PollId, fetch_poll_core(id)
  PROVE  query' = QueryRefused \/ ReadingInv(query')
<1> DEFINE poll == polls[id]
           q == [step |-> "reading", pollId |-> id, numOptions |-> poll.numOptions,
                 totalVotes |-> poll.totalVotes, optionTallies |-> <<>>,
                 over |-> VotingIsOver(id)]
<1>1. query' = QueryRefused \/ (poll.exists /\ query' = q)
  BY DEF fetch_poll_core
<1>2. SUFFICES ASSUME poll.exists PROVE ReadingInv(q)
  BY <1>1
<1>3. poll \in Poll
  BY DEF ChainInv, TypeOK
<1>4. poll.numOptions >= 2 /\ poll.totalVotes = Total(Tallies(poll))
  BY <1>2 DEF TotalsAddUp
<1>5. VotingIsOver(id) \in BOOLEAN
  BY DEF VotingIsOver
<1>6. /\ q \in TallyRequest
      /\ q.pollId = id /\ q.numOptions = poll.numOptions
      /\ q.totalVotes = poll.totalVotes /\ q.optionTallies = <<>>
      /\ q.over = VotingIsOver(id) /\ q.step = "reading"
  BY <1>3, <1>5 DEF TallyRequest, Poll
<1> HIDE DEF q
<1>7. /\ Tallies(poll) \in Seq(Nat) /\ Len(Tallies(poll)) = poll.numOptions
      /\ poll.numOptions \in Nat
      /\ \A n \in 1..poll.numOptions :
            n - 1 \in Option /\ Tallies(poll)[n] = poll.optionTally[n - 1]
  BY <1>3, TalliesTyped
<1>8. \A n \in 1..poll.numOptions : poll.optionTally[n - 1] \in Nat
  BY <1>3, <1>7 DEF Poll
<1>9. StartedFrom(q, Tallies(poll))
  BY <1>4, <1>6, <1>7, <1>8 DEF StartedFrom
<1> QED
  BY <1>2, <1>4, <1>6, <1>7, <1>9 DEF ReadingInv

\* A round of the loop reads a counter that has not gone down since.
LEMMA TallyReads ==
  ASSUME ChainInv, ReadingInv(query), fetch_tally
  PROVE  query' = QueryRefused \/ ReadingInv(query')
<1> DEFINE poll == polls[query.pollId]
           k == Len(query.optionTallies)
           read == Append(query.optionTallies, poll.optionTally[k])
           q == [query EXCEPT !.optionTallies = read,
                              !.step = IF Len(read) = query.numOptions
                                       THEN "done" ELSE "reading"]
<1>1. query.step = "reading" /\ (query' = QueryRefused \/ query' = q)
  BY DEF fetch_tally, nextTally
<1>2. SUFFICES ReadingInv(q)
  BY <1>1
<1>3. /\ query \in TallyRequest /\ poll \in Poll /\ query.pollId \in PollId
      /\ poll.exists /\ poll.numOptions = query.numOptions
      /\ query.over => VotingIsOver(query.pollId)
      /\ k \in Nat /\ k < query.numOptions
      /\ query.optionTallies \in Seq(Nat)
  BY <1>1 DEF ReadingInv, TallyRequest, ChainInv, TypeOK
<1>4. /\ query.numOptions \in Nat
      /\ \A n \in 1..query.numOptions : n - 1 \in Option /\ poll.optionTally[n - 1] \in Nat
  BY <1>3, TalliesTyped DEF Poll
<1>5. k + 1 \in 1..query.numOptions /\ (k + 1) - 1 = k
  BY <1>3, <1>4
<1>6. k \in Option /\ poll.optionTally[k] \in Nat
  BY <1>4, <1>5
<1>7. /\ read \in Seq(Nat) /\ Len(read) = k + 1 /\ read[k + 1] = poll.optionTally[k]
      /\ \A n \in 1..k : read[n] = query.optionTallies[n]
  BY <1>3, <1>6
<1> HIDE DEF read
<1>8. /\ q \in TallyRequest
      /\ q.pollId = query.pollId /\ q.numOptions = query.numOptions
      /\ q.totalVotes = query.totalVotes /\ q.over = query.over
      /\ q.optionTallies = read
      /\ q.step = IF Len(read) = query.numOptions THEN "done" ELSE "reading"
  BY <1>3, <1>7 DEF TallyRequest
<1> HIDE DEF q, k
<1>9. PICK base : StartedFrom(query, base)
  BY DEF ReadingInv
<1>10. \A n \in 1..(k + 1) : base[n] <= read[n] /\ read[n] <= poll.optionTally[n - 1]
  <2> SUFFICES ASSUME NEW n \in 1..(k + 1)
               PROVE  base[n] <= read[n] /\ read[n] <= poll.optionTally[n - 1]
    OBVIOUS
  <2>1. CASE n = k + 1
    BY <1>3, <1>5, <1>6, <1>7, <1>9, <2>1 DEF StartedFrom
  <2>2. CASE n # k + 1
    <3>1. n \in 1..k
      BY <1>3, <2>2
    <3> QED
      BY <1>7, <1>9, <3>1 DEF StartedFrom, k
  <2> QED
    BY <2>1, <2>2
<1>11. StartedFrom(q, base)
  BY <1>7, <1>8, <1>9, <1>10 DEF StartedFrom
<1> QED
  BY <1>3, <1>4, <1>7, <1>8, <1>11 DEF ReadingInv

\* The chain and a tally request, together.
LEMMA TallyStep ==
  ASSUME ChainInv, QueryInv, TallyInv, [PollQueriesNext]_queryVars
  PROVE  TallyInv'
<1>1. CASE [Next]_vars /\ query' = query
  <2>1. TotalsAddUp'
    BY <1>1, TotalsStep DEF TallyInv
  <2>2. ASSUME query.step \in {"reading", "done"} PROVE ReadingInv(query)'
    <3>1. PICK q : q = query
      OBVIOUS
    <3>2. ReadingInv(q)'
      BY <1>1, <2>2, <3>1, ReadingSurvives DEF TallyInv
    <3> QED
      BY <1>1, <3>1, <3>2
  <2> QED
    BY <1>1, <2>1, <2>2 DEF TallyInv
<1>2. ASSUME UNCHANGED vars PROVE TotalsAddUp'
  BY <1>2 DEF vars, TallyInv, TotalsAddUp
<1>3. ASSUME UNCHANGED vars, ReadingInv(query') PROVE TallyInv'
  <2>1. PICK q : q = query'
    OBVIOUS
  <2>2. ReadingInv(q)'
    BY <1>3, <2>1, ReadingStays
  <2> QED
    BY <1>2, <1>3, <2>1, <2>2 DEF TallyInv
<1>4. ASSUME UNCHANGED vars, query'.step \in PollsAsked \cup {"listed", "refused"}
      PROVE  TallyInv'
  BY <1>2, <1>4 DEF TallyInv, PollsAsked
<1>5. QueryRefused.step = "refused"
  BY DEF QueryRefused
<1>6. ASSUME NEW id \in PollId, fetch_poll_core(id) PROVE TallyInv'
  BY <1>3, <1>4, <1>5, <1>6, TallyStarts DEF fetch_poll_core, TallyInv
<1>7. CASE fetch_tally
  BY <1>3, <1>4, <1>5, <1>7, TallyReads DEF fetch_tally, TallyInv
<1>8. CASE list_polls
  BY <1>4, <1>8, ArrivalStep DEF list_polls
<1>9. ASSUME NEW id \in PollId, get_poll(id) PROVE TallyInv'
  <2>1. id \in Nat /\ id \in Int /\ id >= 1
    BY DEF PollId
  <2> QED
    BY <1>4, <1>9, <2>1, ArrivalStep DEF get_poll
<1>10. CASE AskNextPollId
  BY <1>4, <1>5, <1>10, NextPollIdStep DEF AskNextPollId
<1>11. CASE fetch_metadata_uris
  BY <1>4, <1>11, ScanStep DEF fetch_metadata_uris
<1>12. CASE chain_now
  BY <1>4, <1>12, ClockStep DEF chain_now
<1>13. CASE ReadPoll
  BY <1>4, <1>5, <1>13, ReadStep DEF ReadPoll
<1>14. CASE ReadNothing
  BY <1>4, <1>14, EmptyStep DEF ReadNothing
<1> QED
  BY <1>1, <1>6, <1>7, <1>8, <1>9, <1>10, <1>11, <1>12, <1>13, <1>14
  DEF PollQueriesNext, QueryNext, queryVars

\* Every tally request keeps its invariant, for any number of options.
LEMMA TallyInvariant == PollQueriesSpec => [](ChainInv /\ TallyInv)
<1>1. QueryInit => ChainInv /\ QueryInv /\ TallyInv
  <2> SUFFICES ASSUME QueryInit PROVE ChainInv /\ QueryInv /\ TallyInv
    OBVIOUS
  <2>1. Init /\ query.step = "idle"
    BY DEF QueryInit, NoQuery
  <2>2. ChainInv
    BY <2>1, ChainStarts
  <2>3. QueryInv
    BY <2>1 DEF QueryInv, PollsAsked
  <2>4. TotalsAddUp
    BY <2>1 DEF Init, NoPoll, TotalsAddUp
  <2> QED
    BY <2>1, <2>2, <2>3, <2>4 DEF TallyInv
<1>2. ChainInv /\ QueryInv /\ TallyInv /\ [PollQueriesNext]_queryVars
         => (ChainInv /\ QueryInv /\ TallyInv)'
  BY QueryInductive, TallyStep
<1> QED
  BY <1>1, <1>2, PTL DEF PollQueriesSpec

(* The answer to a tally request that began once voting was over is the        *)
(* on-chain result, although fetch_tally reads one option at a time while      *)
(* the owner may close or cancel the poll.                                     *)
THEOREM EndedTallies == PollQueriesSpec => []EndedTallyIsExact
<1>1. ChainInv /\ TallyInv => EndedTallyIsExact
  <2> SUFFICES ASSUME ChainInv, TallyInv, query.step = "done", query.over
               PROVE  /\ \A i \in 1..query.numOptions :
                            query.optionTallies[i] = polls[query.pollId].optionTally[i - 1]
                      /\ Total(query.optionTallies) = query.totalVotes
    BY DEF EndedTallyIsExact
  <2>1. ReadingInv(query)
    BY DEF TallyInv
  <2>2. PICK base : StartedFrom(query, base)
    BY <2>1 DEF ReadingInv
  <2>3. /\ query.optionTallies \in Seq(Nat) /\ Len(query.optionTallies) = query.numOptions
        /\ base \in Seq(Nat) /\ Len(base) = query.numOptions
        /\ Total(base) = query.totalVotes
    BY <2>1, <2>2 DEF ReadingInv, TallyRequest, StartedFrom
  <2>4. \A i \in 1..query.numOptions :
           /\ base[i] = polls[query.pollId].optionTally[i - 1]
           /\ base[i] <= query.optionTallies[i]
           /\ query.optionTallies[i] <= polls[query.pollId].optionTally[i - 1]
    BY <2>2, <2>3 DEF StartedFrom
  <2>5. \A i \in 1..query.numOptions : base[i] \in Nat /\ query.optionTallies[i] \in Nat
    BY <2>3
  <2>6. \A i \in 1..query.numOptions : query.optionTallies[i] = base[i]
    BY <2>4, <2>5
  <2>7. query.optionTallies = base
    <3>1. \A s, t \in Seq(Nat) : Len(s) = Len(t) /\ (\A i \in 1..Len(s) : s[i] = t[i]) => s = t
      OBVIOUS
    <3> QED
      BY <2>3, <2>6, <3>1, Zenon
  <2> QED
    BY <2>3, <2>4, <2>6, <2>7
<1> QED
  BY <1>1, TallyInvariant, PTL

(* A tally read while votes come in lies between the chain when its total was  *)
(* read and the chain now: fetch_tally loses no ballot and counts none twice.  *)
THEOREM TornTallies == PollQueriesSpec => []TornTallyIsBracketed
<1>1. ChainInv /\ TallyInv => TornTallyIsBracketed
  <2> SUFFICES ASSUME ChainInv, TallyInv, query.step = "done"
               PROVE  /\ query.totalVotes <= Total(query.optionTallies)
                      /\ Total(query.optionTallies) <= polls[query.pollId].totalVotes
    BY DEF TornTallyIsBracketed
  <2> DEFINE poll == polls[query.pollId]
  <2>1. ReadingInv(query)
    BY DEF TallyInv
  <2>2. PICK base : StartedFrom(query, base)
    BY <2>1 DEF ReadingInv
  <2>3. /\ query.optionTallies \in Seq(Nat) /\ Len(query.optionTallies) = query.numOptions
        /\ base \in Seq(Nat) /\ Len(base) = query.numOptions
        /\ Total(base) = query.totalVotes
        /\ query.pollId \in PollId /\ poll.exists /\ poll.numOptions = query.numOptions
        /\ poll \in Poll
    BY <2>1, <2>2 DEF ReadingInv, TallyRequest, StartedFrom, ChainInv, TypeOK
  <2>4. \A i \in 1..query.numOptions :
           /\ base[i] <= query.optionTallies[i]
           /\ query.optionTallies[i] <= poll.optionTally[i - 1]
    BY <2>2, <2>3 DEF StartedFrom
  <2>5. Total(base) <= Total(query.optionTallies)
    BY <2>3, <2>4, TotalGrows
  <2>6. /\ Tallies(poll) \in Seq(Nat) /\ Len(Tallies(poll)) = query.numOptions
        /\ \A i \in 1..query.numOptions : Tallies(poll)[i] = poll.optionTally[i - 1]
    BY <2>3, TalliesTyped
  <2>7. Total(query.optionTallies) <= Total(Tallies(poll))
    BY <2>3, <2>4, <2>6, TotalGrows
  <2>8. poll.totalVotes = Total(Tallies(poll))
    BY <2>3 DEF TallyInv, TotalsAddUp
  <2> QED
    BY <2>3, <2>5, <2>7, <2>8
<1> QED
  BY <1>1, TallyInvariant, PTL
=============================================================================
