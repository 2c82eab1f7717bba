------------------------ MODULE FrontendSession_proofs ------------------------
(***************************************************************************)
(* Proofs about FrontendSession, for any number of accounts, polls,        *)
(* pipelines, clicks and connections: whatever the wallet does while tasks *)
(* wait, requests leave under the account of the click, the key and the    *)
(* panel follow the account, and no spinner is without its task.           *)
(***************************************************************************)
EXTENDS FrontendSession, SequenceTheorems, TLAPS

Step == {"none", "accounts", "chain"}

\* The types of what the wallet and the gate read and write.
WalletType ==
    /\ selected \in Account \cup {NoOne}
    /\ address \in Account \cup {NoOne}
    /\ connection \in [step : Step, acct : Account \cup {NoOne}]
    /\ listeners \in Nat
    /\ checks \in Seq(Account)
    /\ late \in 0..Len(checks)

\* Where each kind of pipeline may wait.
VoteStep == {"secret", "witness", "prove", "submit"}
RegisterStep == {"commit", "post"}
Pipeline ==
    [kind : {"vote"}, step : VoteStep, acct : Account, poll : Poll]
    \cup [kind : {"register"}, step : RegisterStep, acct : Account, poll : {NoOne}]
    \cup [kind : {"create", "close"}, step : {"sign"}, acct : Account, poll : {NoOne}]

\* A live pipeline carries what was clicked.
TaskInv ==
    /\ task \in [Task -> Pipeline \cup {NoTask}]
    /\ \A i \in Task : task[i].kind # "none" =>
          Send(task[i].kind, task[i].acct, task[i].poll) \in clicked

\* Phases are texts, and a busy one has its task.
PhaseInv ==
    /\ DOMAIN phase = Signal
    /\ \A s \in Signal : phase[s] \in Busy => \E i \in Task : task[i].kind = s
    /\ connecting => connection # NotConnecting

\* The key follows the account.  While a connection waits, the address is
\* changed by its listeners only, so the account that request_accounts brings
\* back is the one the key was typed under, unless it is typed after that.
KeyInv ==
    /\ listeners = 0 => address = NoOne
    /\ connection.step = "accounts" /\ address # NoOne => address = selected
    /\ KeyStaysWithItsAccount
    /\ connection.step = "chain" /\ key # NoOne /\ ~typedEarly =>
          key = connection.acct

\* The last check in flight is of the account that is shown, if it is not late;
\* if all are, a gate that no late answer opened is open for the owner only.
GateInv ==
    address # NoOne =>
       IF Len(checks) > late THEN checks[Len(checks)] = address
                             ELSE isAdmin /\ ~openedLate => address = Owner

\* The strengthening of the checked properties.
IInv == WalletType /\ TaskInv /\ PhaseInv /\ SentAsClicked /\ KeyInv

-----------------------------------------------------------------------------
(* The wallet's own steps. *)

\* n further checks of one account: all in flight, the last one of it.
LEMMA Checked ==
  ASSUME NEW a \in Account, NEW n \in Nat, checks \in Seq(Account),
         check_admin(a, n)
  PROVE  /\ checks' \in Seq(Account)
         /\ Len(checks') = Len(checks) + n
         /\ n > 0 => checks'[Len(checks')] = a
         /\ UNCHANGED <<isAdmin, late, openedLate>>
<1> DEFINE new == [i \in 1..n |-> a]
<1>1. checks' = checks \o new /\ UNCHANGED <<isAdmin, late, openedLate>>
  BY SessionAssumption DEF check_admin
<1>2. new \in Seq(Account) /\ Len(new) = n
  OBVIOUS
<1>3. checks \o new \in Seq(Account) /\ Len(checks \o new) = Len(checks) + n
  BY <1>2
<1>4. ASSUME n > 0 PROVE (checks \o new)[Len(checks) + n] = a
  BY <1>2, <1>4
<1> HIDE DEF new
<1> QED
  BY <1>1, <1>3, <1>4

\* One check is answered: the last one stays the last, unless it is the one.
LEMMA Answered ==
  ASSUME NEW i \in 1..Len(checks), checks \in Seq(Account),
         checks' = SubSeq(checks, 1, i - 1) \o SubSeq(checks, i + 1, Len(checks))
  PROVE  /\ checks' \in Seq(Account)
         /\ Len(checks') = Len(checks) - 1
         /\ i < Len(checks) => checks'[Len(checks')] = checks[Len(checks)]
<1> DEFINE n == Len(checks)
           before == SubSeq(checks, 1, i - 1)
           after == SubSeq(checks, i + 1, n)
<1>1. n \in Nat /\ i \in Nat /\ i >= 1 /\ i <= n
  OBVIOUS
<1>2. before \in Seq(Account) /\ Len(before) = i - 1
  <2>1. \A k \in 1..i - 1 : checks[k] \in Account
    BY <1>1
  <2> QED
    BY <1>1, <2>1, SubSeqProperties
<1>3. /\ after \in Seq(Account) /\ Len(after) = n - i
      /\ \A k \in 1..n - i : after[k] = checks[i + k]
  <2>1. \A k \in i + 1..n : checks[k] \in Account
    BY <1>1
  <2> QED
    BY <1>1, <2>1, SubSeqProperties
<1> HIDE DEF before, after
<1>4. /\ before \o after \in Seq(Account)
      /\ Len(before \o after) = n - 1
      /\ i < n => (before \o after)[n - 1] = after[n - i]
  <2>1. /\ before \o after \in Seq(Account)
        /\ Len(before \o after) = Len(before) + Len(after)
        /\ \A k \in 1..Len(before) + Len(after) : (before \o after)[k] =
              IF k <= Len(before) THEN before[k] ELSE after[k - Len(before)]
    BY <1>2, <1>3, ConcatProperties
  <2> HIDE DEF n
  <2>2. (i - 1) + (n - i) = n - 1 /\ (n - 1) - (i - 1) = n - i
    BY <1>1
  <2>3. Len(before \o after) = n - 1
    BY <1>2, <1>3, <2>1, <2>2
  <2>4. ASSUME i < n PROVE (before \o after)[n - 1] = after[n - i]
    <3>1. n - 1 \in 1..n - 1 /\ ~(n - 1 <= i - 1)
      BY <1>1, <2>4
    <3> QED
      BY <1>2, <1>3, <2>1, <2>2, <3>1
  <2> QED
    BY <2>1, <2>3, <2>4
<1>5. ASSUME i < n PROVE (before \o after)[n - 1] = checks[n]
  <2> HIDE DEF n
  <2>1. n - i \in 1..n - i /\ i + (n - i) = n
    BY <1>1, <1>5
  <2> QED
    BY <1>3, <1>4, <1>5, <2>1
<1>6. checks' = before \o after
  BY DEF before, after
<1> QED
  BY <1>4, <1>5, <1>6

\* A switch reaches the page through the listeners, or nobody hears it.
LEMMA Switched ==
  ASSUME WalletType, KeyInv, NEW a \in Account \cup {NoOne}, Switch(a)
  PROVE  WalletType' /\ KeyInv' /\ (GateInv => GateInv')
<1>1. CASE listeners = 0
  BY <1>1 DEF Switch, adminVars, gateVars, keyVars, WalletType, KeyInv,
              KeyStaysWithItsAccount, GateInv
<1>2. CASE listeners # 0
  <2>1. accountsChanged(a)
    BY <1>2 DEF Switch
  <2>2. listeners \in Nat /\ listeners > 0 /\ checks \in Seq(Account)
    BY <1>2 DEF WalletType
  <2>3. KeyInv'
    BY <1>2, <2>1 DEF Switch, accountsChanged, KeyCleared, KeyInv,
                      KeyStaysWithItsAccount
  <2>4. CASE a = NoOne
    BY <2>1, <2>2, <2>3, <2>4 DEF Switch, accountsChanged, check_admin, GateCloses,
                                  WalletType, GateInv
  <2>5. CASE a # NoOne
    <3>1. /\ checks' \in Seq(Account)
          /\ Len(checks') = Len(checks) + listeners
          /\ checks'[Len(checks')] = a
          /\ UNCHANGED late
      BY <2>1, <2>2, <2>5, Checked DEF accountsChanged
    <3>2. late' \in 0..Len(checks') /\ Len(checks') > late'
      BY <2>2, <3>1 DEF WalletType
    <3> QED
      BY <2>1, <2>3, <3>1, <3>2 DEF Switch, accountsChanged, WalletType, GateInv
  <2> QED
    BY <2>4, <2>5
<1> QED
  BY <1>1, <1>2

\* The account that request_accounts returned is shown and checked.
LEMMA Connected ==
  ASSUME WalletType, KeyInv, connect_wallet
  PROVE  WalletType' /\ KeyInv' /\ (GateInv => GateInv')
<1>1. listeners' \in Nat /\ listeners' # 0 /\ connection' = NotConnecting
  BY DEF connect_wallet, WalletType
<1>2. CASE connection.acct = NoOne
  BY <1>1, <1>2 DEF connect_wallet, gateVars, keyVars, WalletType, KeyInv,
                    KeyStaysWithItsAccount, GateInv, NotConnecting, Connection, Step
<1>3. CASE connection.acct # NoOne
  <2>1. connection.acct \in Account /\ address' = connection.acct
    BY <1>3 DEF connect_wallet, WalletType
  <2>2. /\ checks' \in Seq(Account)
        /\ Len(checks') = Len(checks) + 1
        /\ checks'[Len(checks')] = address'
        /\ UNCHANGED late
    BY <1>3, <2>1, Checked DEF connect_wallet, WalletType
  <2>3. late' \in 0..Len(checks') /\ Len(checks') > late'
    BY <2>2 DEF WalletType
  <2>4. KeyInv'
    BY <1>1, <2>1 DEF connect_wallet, keyVars, KeyInv, KeyStaysWithItsAccount,
                      NotConnecting, Connection
  <2> QED
    BY <1>1, <2>1, <2>2, <2>3, <2>4 DEF connect_wallet, WalletType, GateInv,
                                  NotConnecting, Connection, Step
<1> QED
  BY <1>2, <1>3

\* An answer opens or closes the gate for the account it was asked for.
LEMMA OwnerAnswered ==
  ASSUME WalletType, KeyInv, OwnerAnswers
  PROVE  WalletType' /\ KeyInv' /\ (GateInv => GateInv')
<1>1. PICK i \in 1..Len(checks) :
        /\ isAdmin' \in is_owner(checks[i])
        /\ checks' = SubSeq(checks, 1, i - 1) \o SubSeq(checks, i + 1, Len(checks))
        /\ late' = IF i <= late THEN late - 1 ELSE i - 1
        /\ openedLate' = (isAdmin' /\ i <= late)
        /\ UNCHANGED <<walletVars, keyVars>>
  BY DEF OwnerAnswers
<1>2. checks \in Seq(Account) /\ Len(checks) \in Nat /\ late \in 0..Len(checks)
  BY DEF WalletType
<1>3. /\ checks' \in Seq(Account)
      /\ Len(checks') = Len(checks) - 1
      /\ i < Len(checks) => checks'[Len(checks')] = checks[Len(checks)]
  BY <1>1, <1>2, Answered
\* The count of late checks, with the checks' number as a plain number.
<1> DEFINE n == Len(checks)
<1>4. /\ late' \in 0..Len(checks')
      /\ i <= late => ((Len(checks') > late') <=> (n > late))
      /\ i <= late /\ n > late => i < n
      /\ i > late => n > late /\ ((Len(checks') > late') <=> i < n)
  <2>1. i \in 1..n /\ n \in Nat /\ late \in 0..n /\ Len(checks') = n - 1
    BY <1>2, <1>3
  <2>2. late' = IF i <= late THEN late - 1 ELSE i - 1
    BY <1>1
  <2> HIDE DEF n
  <2> QED
    BY <2>1, <2>2
<1>5. address' = address
  BY <1>1 DEF walletVars
<1>6. ASSUME GateInv PROVE GateInv'
  \* A late answer: the order of the others, and which of them count, is kept.
  <2>1. CASE i <= late
    <3>1. (Len(checks') > late') <=> (Len(checks) > late)
      BY <1>4, <2>1
    <3>2. Len(checks) > late => i < Len(checks)
      BY <1>4, <2>1
    <3>3. isAdmin' => openedLate'
      BY <1>1, <2>1
    <3> QED
      BY <1>3, <1>5, <1>6, <3>1, <3>2, <3>3 DEF GateInv
  \* A timely one, with a later check still to come.
  <2>2. CASE i > late /\ i < Len(checks)
    <3>1. Len(checks) > late /\ Len(checks') > late'
      BY <1>4, <2>2
    <3> QED
      BY <1>3, <1>5, <1>6, <2>2, <3>1 DEF GateInv
  \* The last one.
  <2>3. CASE i > late /\ i = Len(checks)
    <3>1. Len(checks) > late /\ ~(Len(checks') > late')
      BY <1>4, <2>3
    <3>2. address # NoOne => checks[i] = address
      BY <1>6, <2>3, <3>1 DEF GateInv
    <3>3. isAdmin' => checks[i] = Owner
      BY <1>1 DEF is_owner
    <3> QED
      BY <1>5, <3>1, <3>2, <3>3 DEF GateInv
  <2> QED
    BY <1>2, <2>1, <2>2, <2>3
<1> QED
  BY <1>1, <1>3, <1>4, <1>6 DEF WalletType, KeyInv, KeyStaysWithItsAccount,
                                walletVars, keyVars

\* Every other step leaves the account and the gate alone.
LEMMA WalletStep ==
  ASSUME WalletType, KeyInv, [Next]_vars
  PROVE  WalletType' /\ KeyInv' /\ (GateInv => GateInv')
<1> USE DEF WalletType, KeyInv, KeyStaysWithItsAccount, GateInv, gateVars, keyVars
<1> DEFINE Goal == WalletType' /\ KeyInv' /\ (GateInv => GateInv')
<1>1. ASSUME UNCHANGED <<selected, address, connection, listeners, gateVars, keyVars>>
      PROVE  Goal
  BY <1>1
<1>2. CASE wallet_connecting
  BY <1>2 DEF wallet_connecting, adminVars, Connection, Step
<1>3. CASE ConnectionRejected
  BY <1>3 DEF ConnectionRejected, adminVars, NotConnecting, Connection, Step
<1>4. CASE request_accounts
  BY <1>4 DEF request_accounts, adminVars, Connection, Step
<1>5. CASE Disconnect
  BY <1>5 DEF Disconnect, GateCloses, KeyCleared
<1>6. CASE set_admin_api_key
  BY <1>6 DEF set_admin_api_key, Panel, walletVars
<1>7. CASE clear_admin_api_key
  BY <1>7 DEF clear_admin_api_key, KeyCleared, walletVars
<1>8. CASE \/ TallyAnswers \/ \E p \in Poll : PollCard(p)
           \/ PollsArrive \/ PollsFail
           \/ BackToList \/ Header \/ RefreshButton
           \/ OptionMissing
  BY <1>1, <1>8 DEF TallyAnswers, PollCard, PollsArrive, PollsFail, BackToList,
                    Header, RefreshButton, OptionMissing, walletVars, adminVars
<1>9. CASE \E i \in Task :
             \/ cast_vote(i) \/ SecretResolved(i) \/ SecretRefused(i)
             \/ VoteProceeds(i)
  BY <1>1, <1>9 DEF cast_vote, SecretResolved, SecretRefused, VoteProceeds,
                    build_witness, generate_proof, submit_vote, vote_failed,
                    walletVars, adminVars
<1>10. CASE \E i \in Task :
              \/ register_to_vote(i) \/ register(i)
              \/ register_done(i) \/ register_failed(i)
              \/ submit_create_poll(i) \/ submit_close_poll(i)
              \/ send_transaction(i) \/ TransactionRejected(i)
  BY <1>1, <1>10 DEF register_to_vote, register, register_done, register_failed,
                     submit_create_poll, submit_close_poll, send_transaction,
                     TransactionRejected, walletVars, adminVars
<1>11. CASE UNCHANGED vars
  BY <1>1, <1>11 DEF vars
<1> HIDE DEF WalletType, KeyInv, KeyStaysWithItsAccount, GateInv, gateVars, keyVars
<1> QED
  BY <1>2, <1>3, <1>4, <1>5, <1>6, <1>7, <1>8, <1>9, <1>10, <1>11,
     Switched, Connected, OwnerAnswered DEF Next
-----------------------------------------------------------------------------
(* The pipelines. *)

\* A task that goes on keeps its kind, account and poll.
LEMMA Awaited ==
  ASSUME TaskInv, NEW i \in Task, NEW step, Await(i, step), UNCHANGED clicked,
         [task[i] EXCEPT !.step = step] \in Pipeline
  PROVE  /\ TaskInv'
         /\ \A j \in Task : task'[j].kind = task[j].kind
<1>1. task' = [task EXCEPT ![i] = [task[i] EXCEPT !.step = step]]
  BY DEF Await, TaskInv
<1>2. task' \in [Task -> Pipeline \cup {NoTask}]
  BY <1>1 DEF TaskInv
<1>3. /\ task'[i].kind = task[i].kind
      /\ task'[i].acct = task[i].acct
      /\ task'[i].poll = task[i].poll
  BY <1>1 DEF TaskInv, Pipeline, NoTask
<1>4. \A j \in Task : j # i => task'[j] = task[j]
  BY <1>1 DEF TaskInv
<1> QED
  BY <1>2, <1>3, <1>4 DEF TaskInv

\* A task that is over asks for nothing any more.
LEMMA Ended ==
  ASSUME TaskInv, NEW i \in Task, Over(i), UNCHANGED clicked
  PROVE  /\ TaskInv'
         /\ \A j \in Task : j # i => task'[j] = task[j]
  BY DEF TaskInv, Over, NoTask

\* A new task is clicked as it is made.
LEMMA Started ==
  ASSUME TaskInv, NEW i \in Task, NEW new \in Pipeline, task[i] = NoTask,
         task' = [task EXCEPT ![i] = new],
         clicked' = clicked \cup {Send(new.kind, new.acct, new.poll)}
  PROVE  /\ TaskInv'
         /\ task'[i].kind = new.kind
         /\ \A j \in Task : j # i => task'[j] = task[j]
  BY DEF TaskInv

\* The phase of a kind may be busy only while a task of that kind is left.
LEMMA PhaseSet ==
  ASSUME PhaseInv, NEW s \in Signal, NEW p, SetPhase(s, p),
         UNCHANGED <<connecting, connection>>,
         p \in Busy => \E i \in Task : task'[i].kind = s,
         \A i \in Task : task[i].kind \in Signal \ {s} => task'[i].kind = task[i].kind
  PROVE  PhaseInv'
<1>1. DOMAIN phase' = Signal /\ phase'[s] = p
      /\ \A q \in Signal \ {s} : phase'[q] = phase[q]
  BY DEF PhaseInv, SetPhase
<1> QED
  BY <1>1 DEF PhaseInv

\* What the pipelines keep.
PipelineInv == TaskInv /\ PhaseInv /\ SentAsClicked

\* A task of the vote pipeline takes its next step, fails or is done.
LEMMA VoteStepKept ==
  ASSUME WalletType, PipelineInv, NEW i \in Task,
         cast_vote(i) \/ SecretResolved(i) \/ SecretRefused(i) \/ VoteProceeds(i)
  PROVE  PipelineInv'
<1> USE DEF PipelineInv
<1>1. CASE cast_vote(i)
  <2>1. CASE address = NoOne
    <3>1. SetPhase("vote", "Failed") /\ UNCHANGED <<task, clicked, sent>>
      BY <1>1, <2>1 DEF cast_vote
    <3>2. PhaseInv'
      BY <1>1, <3>1, PhaseSet DEF cast_vote, walletVars, Busy, Signal
    <3> QED
      BY <3>1, <3>2 DEF TaskInv, SentAsClicked
  <2>2. CASE address # NoOne
    <3> DEFINE new == [kind |-> "vote", step |-> "secret", acct |-> address, poll |-> view]
    <3>1. new \in Pipeline
      BY <1>1, <2>2 DEF cast_vote, VoteForm, WalletType, Pipeline, VoteStep
    <3>2. /\ TaskInv' /\ task'[i].kind = "vote"
          /\ \A j \in Task : j # i => task'[j] = task[j]
      BY <1>1, <2>2, <3>1, Started DEF cast_vote
    <3>3. task[i].kind = "none"
      BY <1>1, <2>2 DEF cast_vote, NoTask
    <3>4. PhaseInv'
      BY <1>1, <2>2, <3>2, <3>3, PhaseSet DEF cast_vote, walletVars, Signal
    <3> QED
      BY <1>1, <2>2, <3>2, <3>4 DEF cast_vote, SentAsClicked
  <2> QED
    BY <2>1, <2>2
<1>2. CASE SecretResolved(i)
  <2>1. [task[i] EXCEPT !.step = "witness"] \in Pipeline
    BY <1>2 DEF SecretResolved, TaskInv, Pipeline, VoteStep, NoTask
  <2>2. TaskInv' /\ \A j \in Task : task'[j].kind = task[j].kind
    BY <1>2, <2>1, Awaited DEF SecretResolved
  <2> QED
    BY <1>2, <2>2 DEF SecretResolved, PhaseInv, SentAsClicked, walletVars
<1>3. ASSUME task[i].step \in VoteStep
      PROVE  task[i].kind = "vote" /\ task[i] \in Pipeline
  BY <1>3 DEF TaskInv, Pipeline, NoTask, VoteStep, RegisterStep
<1>4. CASE build_witness(i)
  <2>1. [task[i] EXCEPT !.step = "prove"] \in Pipeline
    BY <1>3, <1>4 DEF build_witness, Pipeline, VoteStep
  <2>2. TaskInv' /\ \A j \in Task : task'[j].kind = task[j].kind
    BY <1>4, <2>1, Awaited DEF build_witness
  <2>3. PhaseInv'
    BY <1>3, <1>4, <2>2, PhaseSet DEF build_witness, walletVars, Signal, VoteStep
  <2> QED
    BY <1>4, <2>2, <2>3 DEF build_witness, SentAsClicked
<1>5. CASE generate_proof(i)
  <2>1. [task[i] EXCEPT !.step = "submit"] \in Pipeline
    BY <1>3, <1>5 DEF generate_proof, Pipeline, VoteStep
  <2>2. TaskInv' /\ \A j \in Task : task'[j].kind = task[j].kind
    BY <1>5, <2>1, Awaited DEF generate_proof
  <2>3. PhaseInv'
    BY <1>3, <1>5, <2>2, PhaseSet DEF generate_proof, walletVars, Signal, VoteStep
  <2>4. Send("vote", task[i].acct, task[i].poll) \in clicked
    BY <1>3, <1>5 DEF generate_proof, TaskInv, VoteStep
  <2> QED
    BY <1>5, <2>2, <2>3, <2>4 DEF generate_proof, SentAsClicked
<1>6. CASE submit_vote(i)
  <2>1. TaskInv' /\ \A j \in Task : j # i => task'[j] = task[j]
    BY <1>6, Ended DEF submit_vote
  <2>2. PhaseInv'
    BY <1>3, <1>6, <2>1, PhaseSet DEF submit_vote, walletVars, Signal, VoteStep, Busy
  <2> QED
    BY <1>6, <2>1, <2>2 DEF submit_vote, SentAsClicked
<1>7. CASE task[i].step \in VoteStep /\ vote_failed(i)
  <2>1. TaskInv' /\ \A j \in Task : j # i => task'[j] = task[j]
    BY <1>7, Ended DEF vote_failed
  <2>2. PhaseInv'
    BY <1>3, <1>7, <2>1, PhaseSet DEF vote_failed, walletVars, Signal, Busy
  <2> QED
    BY <1>7, <2>1, <2>2 DEF vote_failed, SentAsClicked
<1> QED
  BY <1>1, <1>2, <1>4, <1>5, <1>6, <1>7 DEF SecretRefused, VoteProceeds, VoteStep

\* The registration pipeline, likewise.
LEMMA RegisterStepKept ==
  ASSUME WalletType, PipelineInv, NEW i \in Task,
         \/ register_to_vote(i) \/ register(i)
         \/ register_done(i) \/ register_failed(i)
  PROVE  PipelineInv'
<1> USE DEF PipelineInv
<1>1. CASE register_to_vote(i)
  <2> DEFINE new == [kind |-> "register", step |-> "commit", acct |-> address,
                     poll |-> NoOne]
  <2>1. new \in Pipeline
    BY <1>1 DEF register_to_vote, RegisterPage, WalletType, Pipeline, RegisterStep
  <2>2. /\ TaskInv' /\ task'[i].kind = "register"
        /\ \A j \in Task : j # i => task'[j] = task[j]
    BY <1>1, <2>1, Started DEF register_to_vote
  <2>3. task[i].kind = "none"
    BY <1>1 DEF register_to_vote, NoTask
  <2>4. PhaseInv'
    BY <1>1, <2>2, <2>3, PhaseSet DEF register_to_vote, walletVars, Signal
  <2> QED
    BY <1>1, <2>2, <2>4 DEF register_to_vote, SentAsClicked
<1>2. ASSUME task[i].step \in RegisterStep
      PROVE  task[i].kind = "register" /\ task[i] \in Pipeline /\ task[i].poll = NoOne
  BY <1>2 DEF TaskInv, Pipeline, NoTask, VoteStep, RegisterStep
<1>3. CASE register(i)
  <2>1. [task[i] EXCEPT !.step = "post"] \in Pipeline
    BY <1>2, <1>3 DEF register, Pipeline, RegisterStep
  <2>2. TaskInv' /\ \A j \in Task : task'[j].kind = task[j].kind
    BY <1>3, <2>1, Awaited DEF register
  <2>3. Send("register", task[i].acct, NoOne) \in clicked
    BY <1>2, <1>3 DEF register, TaskInv, RegisterStep
  <2> QED
    BY <1>3, <2>2, <2>3 DEF register, PhaseInv, SentAsClicked, walletVars
<1>4. CASE register_done(i)
  <2>1. TaskInv' /\ \A j \in Task : j # i => task'[j] = task[j]
    BY <1>4, Ended DEF register_done
  <2>2. PhaseInv'
    BY <1>2, <1>4, <2>1, PhaseSet DEF register_done, walletVars, Signal, Busy, RegisterStep
  <2> QED
    BY <1>4, <2>1, <2>2 DEF register_done, SentAsClicked
<1>5. CASE register_failed(i)
  <2>1. TaskInv' /\ \A j \in Task : j # i => task'[j] = task[j]
    BY <1>5, Ended DEF register_failed
  <2>2. PhaseInv'
    BY <1>5, <2>1, PhaseSet DEF register_failed, walletVars, Signal, Busy
  <2> QED
    BY <1>5, <2>1, <2>2 DEF register_failed, SentAsClicked
<1> QED
  BY <1>1, <1>3, <1>4, <1>5

\* A transaction gets its task and its phase together, or fails at once.
LEMMA AdminStarted ==
  ASSUME WalletType, PipelineInv, NEW i \in Task, NEW kind \in {"create", "close"},
         Panel, resolve_admin_tx_context(i, kind) \/ admin_tx_failed(kind),
         UNCHANGED <<walletVars, sent>>
  PROVE  PipelineInv'
<1> USE DEF PipelineInv
<1>1. CASE resolve_admin_tx_context(i, kind)
  <2> DEFINE new == [kind |-> kind, step |-> "sign", acct |-> address, poll |-> NoOne]
  <2>1. new \in Pipeline
    BY <1>1 DEF Panel, WalletType, Pipeline
  <2>2. /\ TaskInv' /\ task'[i].kind = kind
        /\ \A j \in Task : j # i => task'[j] = task[j]
    BY <1>1, <2>1, Started DEF resolve_admin_tx_context
  <2>3. task[i].kind = "none"
    BY <1>1 DEF resolve_admin_tx_context, NoTask
  <2>4. PhaseInv'
    BY <1>1, <2>2, <2>3, PhaseSet DEF resolve_admin_tx_context, walletVars, Signal
  <2> QED
    BY <1>1, <2>2, <2>4 DEF resolve_admin_tx_context, SentAsClicked
<1>2. CASE admin_tx_failed(kind)
  <2>1. PhaseInv'
    BY <1>2, PhaseSet DEF admin_tx_failed, walletVars, Signal, Busy
  <2> QED
    BY <1>2, <2>1 DEF admin_tx_failed, TaskInv, SentAsClicked
<1> QED
  BY <1>1, <1>2

\* The administrator's transactions, likewise.
LEMMA AdminStepKept ==
  ASSUME WalletType, PipelineInv, NEW i \in Task,
         \/ submit_create_poll(i) \/ submit_close_poll(i)
         \/ send_transaction(i) \/ TransactionRejected(i)
  PROVE  PipelineInv'
<1> USE DEF PipelineInv
<1>1. CASE submit_create_poll(i)
  BY <1>1, AdminStarted DEF submit_create_poll, CreatePollForm
<1>2. CASE submit_close_poll(i)
  BY <1>2, AdminStarted DEF submit_close_poll, ManagePolls
<1>3. ASSUME task[i].step = "sign"
      PROVE  task[i].kind \in {"create", "close"} /\ task[i].poll = NoOne
  BY <1>3 DEF TaskInv, Pipeline, NoTask, VoteStep, RegisterStep
<1>4. CASE send_transaction(i)
  <2>1. TaskInv' /\ \A j \in Task : j # i => task'[j] = task[j]
    BY <1>4, Ended DEF send_transaction
  <2>2. PhaseInv'
    BY <1>3, <1>4, <2>1, PhaseSet DEF send_transaction, walletVars, Signal, Busy
  <2>3. Send(task[i].kind, task[i].acct, NoOne) \in clicked
    BY <1>3, <1>4 DEF send_transaction, TaskInv
  <2> QED
    BY <1>4, <2>1, <2>2, <2>3 DEF send_transaction, SentAsClicked
<1>5. CASE TransactionRejected(i)
  <2>1. TaskInv' /\ \A j \in Task : j # i => task'[j] = task[j]
    BY <1>5, Ended DEF TransactionRejected
  <2>2. PhaseInv'
    BY <1>3, <1>5, <2>1, PhaseSet DEF TransactionRejected, walletVars, Signal, Busy
  <2> QED
    BY <1>5, <2>1, <2>2 DEF TransactionRejected, SentAsClicked
<1> QED
  BY <1>1, <1>2, <1>4, <1>5

\* No other step touches a pipeline.
LEMMA PipelineStep ==
  ASSUME WalletType, PipelineInv, [Next]_vars
  PROVE  PipelineInv'
<1> USE DEF PipelineInv
<1>1. ASSUME UNCHANGED <<connecting, connection, taskVars>>
      PROVE  PipelineInv'
  BY <1>1 DEF taskVars, TaskInv, PhaseInv, SentAsClicked
<1>2. CASE OwnerAnswers \/ \E a \in Account \cup {NoOne} : Switch(a)
  BY <1>1, <1>2 DEF OwnerAnswers, Switch, walletVars
<1>3. CASE wallet_connecting \/ ConnectionRejected \/ request_accounts \/ connect_wallet
  <2>1. connecting' => connection' # NotConnecting
    <3>1. wallet_connecting \/ request_accounts => connection'.step # "none"
      BY DEF wallet_connecting, request_accounts, Connection
    <3>2. ConnectionRejected \/ connect_wallet => ~connecting'
      BY DEF ConnectionRejected, connect_wallet
    <3>3. NotConnecting.step = "none"
      BY DEF NotConnecting, Connection
    <3> QED
      BY <1>3, <3>1, <3>2, <3>3
  <2> QED
    BY <1>3, <2>1 DEF wallet_connecting, ConnectionRejected, request_accounts,
                connect_wallet, taskVars, TaskInv, PhaseInv, SentAsClicked
<1>4. CASE OptionMissing
  <2>1. PhaseInv'
    BY <1>4, PhaseSet DEF OptionMissing, walletVars, Signal, Busy
  <2> QED
    BY <1>4, <2>1 DEF OptionMissing, TaskInv, SentAsClicked
<1>5. CASE \/ Disconnect
           \/ TallyAnswers \/ \E p \in Poll : PollCard(p)
           \/ PollsArrive \/ PollsFail
           \/ BackToList \/ Header \/ RefreshButton
           \/ set_admin_api_key \/ clear_admin_api_key
  BY <1>1, <1>5 DEF Disconnect, TallyAnswers, PollCard, PollsArrive, PollsFail,
                    BackToList, Header, RefreshButton, set_admin_api_key,
                    clear_admin_api_key, walletVars
<1>6. CASE UNCHANGED vars
  BY <1>1, <1>6 DEF vars, taskVars
<1> HIDE DEF PipelineInv
<1> QED
  BY <1>2, <1>3, <1>4, <1>5, <1>6, VoteStepKept, RegisterStepKept, AdminStepKept
  DEF Next
-----------------------------------------------------------------------------
\* Every page load starts well.
LEMMA InitWell == Init => IInv /\ GateInv
  BY SessionAssumption
  DEF Init, IInv, WalletType, Step, TaskInv, NoTask, PhaseInv, Signal, Busy,
      SentAsClicked, KeyInv, KeyStaysWithItsAccount, GateInv, NotConnecting,
      Connection

\* The strengthened invariant holds in every state of every page load.
THEOREM Inductive == Spec => []IInv
<1>1. IInv /\ [Next]_vars => IInv'
  BY WalletStep, PipelineStep DEF IInv, PipelineInv
<1> QED
  BY <1>1, InitWell, PTL DEF Spec

\* Whatever leaves the page was clicked under the account, and for the poll,
\* it is sent with: cast_vote, register_to_vote and the admin's transactions
\* read them once and keep them over every prompt and request.
THEOREM NothingIsSentForAnother == Spec => []SentAsClicked
  BY Inductive, PTL DEF IInv

\* The admin key is the connected account's own: accountsChanged and Disconnect
\* clear it, and connect_wallet cannot show another account over it, unless the
\* key was typed while it waited for the chain id.
THEOREM KeyFollowsTheAccount == Spec => []KeyStaysWithItsAccount
<1>1. IInv => KeyStaysWithItsAccount
  BY DEF IInv, KeyInv
<1> QED
  BY <1>1, Inductive, PTL

\* No spinner without its task: every way a pipeline ends resets its phase,
\* and every way a connection ends resets `connecting`.
THEOREM NoStuckSpinner == Spec => []BusyHasItsTask
<1>1. IInv => BusyHasItsTask
  BY DEF IInv, PhaseInv, BusyHasItsTask, LiveTasks
<1> QED
  BY <1>1, Inductive, PTL

\* The panel behind is_admin is the owner's once every check that could be
\* timely is answered, whatever the order of switches, reconnections and answers,
\* unless the one answer that opened it came late (check_admin sets is_admin from
\* whatever answers last).
THEOREM PanelFollowsTheAccount == Spec => []PanelIsTheOwners
<1>1. IInv /\ GateInv /\ [Next]_vars => GateInv'
  BY WalletStep DEF IInv
<1>2. IInv /\ GateInv => PanelIsTheOwners
  BY DEF IInv, WalletType, GateInv, PanelIsTheOwners, Panel
<1> QED
  BY <1>1, <1>2, InitWell, Inductive, PTL DEF Spec
=============================================================================
