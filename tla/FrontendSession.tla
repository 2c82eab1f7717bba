-------------------------- MODULE FrontendSession --------------------------
(***************************************************************************)
(* One page load of the browser application: the shared signals and the    *)
(* tasks that write to them when a wallet, the prover or the relayer       *)
(* answers.  A task keeps what it read when it was started, while the user *)
(* goes on clicking and the wallet switches accounts.                      *)
(*                                                                         *)
(* The browser runs one callback at a time, so what a task does between    *)
(* two awaits is one step.  The voter's secret itself is the subject of    *)
(* VoterSecret; here a vote is signed with the secret of an account.  The  *)
(* chain id is left out, with its listener, and poll lists asked for while *)
(* one is on its way count as one.                                         *)
(***************************************************************************)
EXTENDS Naturals, FiniteSets, Sequences

CONSTANTS
    Account,     \* accounts of the wallet
    Owner,       \* VotingManager.owner()
    Poll,        \* polls on the list, all accepting votes
    NoOne,       \* no account, no poll
    Task,        \* bound: pipelines in flight at once
    MaxClicks,   \* bound: things the user does, in the page and the wallet
    MaxConnects  \* bound: connections, each attaching another listener

ASSUME SessionAssumption ==
    /\ Owner \in Account
    /\ NoOne \notin Account \cup Poll
    /\ IsFiniteSet(Task)
    /\ MaxClicks \in Nat
    /\ MaxConnects \in Nat

VARIABLES
    selected,     \* the account the wallet extension has selected
    address,      \* WalletState::address
    connecting,   \* WalletState::connecting
    connection,   \* the connect_wallet task: where it waits, and its account
    listeners,    \* accountsChanged listeners attached so far
    isAdmin,      \* is_admin
    checks,       \* the accounts of the check_admin tasks, oldest first
    late,         \* history: how many of those, the oldest, a later answer
                  \* or a disconnection has overtaken
    openedLate,   \* history: did such a late answer open the gate?
    key,          \* the account the admin_api_key was typed under
    typedEarly,   \* history: was it typed before a connection was complete?
    view,         \* "list", "register", "admin", or the poll in detail
    tally,        \* the poll current_tally is of
    tallies,      \* polls whose tally is on its way
    refreshing,   \* a poll list is on its way
    polls,        \* has a poll list been loaded?
    pollsError,   \* polls_error
    phase,        \* phases of vote, register, admin_create and admin_close
    task,         \* the pipelines in flight
    disabled,     \* the vote and create buttons, as last rendered
    clicked,      \* votes and transactions asked for
    sent,         \* votes and transactions that left the page
    clicks, connects

walletVars == <<selected, address, connecting, connection, listeners>>
gateVars == <<isAdmin, checks, late, openedLate>>
keyVars == <<key, typedEarly>>
adminVars == <<gateVars, keyVars>>
listVars == <<refreshing, polls, pollsError>>
pageVars == <<view, tally, tallies, listVars, disabled>>
taskVars == <<phase, task, clicked, sent>>
boundVars == <<clicks, connects>>
vars == <<selected, address, connecting, connection, listeners, isAdmin,
          checks, late, openedLate, key, typedEarly, view, tally, tallies,
          refreshing, polls, pollsError, disabled, phase, task, clicked, sent,
          clicks, connects>>

Signal == {"vote", "register", "create", "close"}
Busy == {"Witness", "Proving", "Submitting"}

Connection(step, acct) == [step |-> step, acct |-> acct]
NotConnecting == Connection("none", NoOne)
NoTask == [kind |-> "none", step |-> "none", acct |-> NoOne, poll |-> NoOne]

Init ==
    /\ selected \in Account
    /\ address = NoOne
    /\ connecting = FALSE
    /\ connection = NotConnecting
    /\ listeners = 0
    /\ isAdmin = FALSE
    /\ checks = <<>>
    /\ late = 0
    /\ openedLate = FALSE
    /\ key = NoOne
    /\ typedEarly = FALSE
    /\ view = "list"
    /\ tally = NoOne
    /\ tallies = {}
    /\ refreshing = TRUE                        \* fetch_polls_on_mount
    /\ polls = FALSE
    /\ pollsError = FALSE
    /\ disabled = [vote |-> FALSE, create |-> FALSE]
    /\ phase = [s \in Signal |-> "Idle"]
    /\ task = [i \in Task |-> NoTask]
    /\ clicked = {}
    /\ sent = {}
    /\ clicks = 0
    /\ connects = 0

\* The user does something (bound MaxClicks).
Click == clicks < MaxClicks /\ clicks' = clicks + 1 /\ UNCHANGED connects

\* A button reads `is_busy()` once, when the component around it is rendered.
Rendered(button) == [disabled EXCEPT ![button] = phase[button] \in Busy]

\* The admin page renders its content on every change of wallet or is_admin.
AdminPageRenders ==
    disabled' = IF view = "admin" THEN Rendered("create") ELSE disabled
-----------------------------------------------------------------------------
(* The wallet and the owner check. *)

\* The gate is closed without asking: whatever is in flight is late.
GateCloses ==
    /\ isAdmin' = FALSE
    /\ late' = Len(checks)
    /\ openedLate' = FALSE
    /\ UNCHANGED checks

\* check_admin, called n > 0 times for account a.  Without an account the gate
\* closes at once.
check_admin(a, n) ==
    IF a = NoOne
    THEN GateCloses
    ELSE /\ checks' = checks \o [i \in 1..n |-> a]
         /\ UNCHANGED <<isAdmin, late, openedLate>>

\* is_owner: the answer of eth_call; an error counts as "no".
is_owner(a) == {a = Owner, FALSE}

\* Any task started by check_admin gets its answer, in whatever order, and
\* decides the gate; those asked before it are late from then on.
OwnerAnswers ==
    \E i \in 1..Len(checks) :
       /\ isAdmin' \in is_owner(checks[i])
       /\ checks' = SubSeq(checks, 1, i - 1) \o SubSeq(checks, i + 1, Len(checks))
       /\ late' = IF i <= late THEN late - 1 ELSE i - 1
       /\ openedLate' = (isAdmin' /\ i <= late)
       /\ AdminPageRenders
       /\ UNCHANGED <<walletVars, keyVars, view, tally, tallies, listVars,
                      taskVars, boundVars>>

\* The "Connect Wallet" button.
wallet_connecting ==
    /\ address = NoOne
    /\ ~connecting
    /\ connects < MaxConnects                            \* bound MaxConnects
    /\ connects' = connects + 1
    /\ connecting' = TRUE
    /\ connection' = Connection("accounts", NoOne)
    /\ AdminPageRenders
    /\ UNCHANGED <<selected, address, listeners, adminVars, view, tally,
                   tallies, listVars, taskVars, clicks>>

\* The prompt is declined, or there is no wallet: wallet_error.
ConnectionRejected ==
    /\ connection.step = "accounts"
    /\ connection' = NotConnecting
    /\ connecting' = FALSE
    /\ AdminPageRenders
    /\ UNCHANGED <<selected, address, listeners, adminVars, view, tally,
                   tallies, listVars, taskVars, boundVars>>

\* request_accounts answers with what is selected at that moment.
request_accounts ==
    /\ connection.step = "accounts"
    /\ connection' = Connection("chain", selected)
    /\ UNCHANGED <<selected, address, connecting, listeners, adminVars,
                   pageVars, taskVars, boundVars>>

\* The rest of connect_wallet: attach the listeners, then show the account
\* that was returned before chain_id was asked, and check it.
connect_wallet ==
    /\ connection.step = "chain"
    /\ listeners' = listeners + 1
    /\ connection' = NotConnecting
    /\ connecting' = FALSE
    /\ IF connection.acct = NoOne
       THEN UNCHANGED <<address, gateVars>>
       ELSE /\ address' = connection.acct
            /\ check_admin(connection.acct, 1)
    /\ AdminPageRenders
    /\ UNCHANGED <<selected, keyVars, view, tally, tallies, listVars,
                   taskVars, boundVars>>

\* Mutant: the credentials survive the switch.
accountsChangedKeepingKey(a) ==
    /\ address' = a
    /\ check_admin(a, listeners)
    /\ AdminPageRenders
    /\ UNCHANGED keyVars

\* clear_admin_api_key: the key is gone, and how it was typed with it.
KeyCleared == key' = NoOne /\ typedEarly' = FALSE

\* Mutant: the new account is not checked.
accountsChangedUnchecked(a) ==
    /\ address' = a
    /\ KeyCleared
    /\ AdminPageRenders
    /\ UNCHANGED gateVars

\* The accountsChanged listener, once for every connection made so far.
accountsChanged(a) ==
    /\ address' = a
    /\ KeyCleared
    /\ check_admin(a, listeners)
    /\ AdminPageRenders

\* The user selects another account, or none, in the wallet.
Switch(a) ==
    /\ Click
    /\ a # selected
    /\ selected' = a
    /\ IF listeners = 0
       THEN UNCHANGED <<address, adminVars, disabled>>
       ELSE accountsChanged(a)
    /\ UNCHANGED <<connecting, connection, listeners, view, tally, tallies,
                   listVars, taskVars>>

\* The "Disconnect" button.
Disconnect ==
    /\ Click
    /\ address # NoOne
    /\ address' = NoOne
    /\ GateCloses
    /\ KeyCleared
    /\ AdminPageRenders
    /\ UNCHANGED <<selected, connecting, connection, listeners, view, tally,
                   tallies, listVars, taskVars>>
-----------------------------------------------------------------------------
(* Navigation, and what a page fetches. *)

\* fetch_tally: blank the tally, ask for the poll's.
fetch_tally(p) == tally' = NoOne /\ tallies' = tallies \cup {p}

\* ... and show it when it comes, whatever is in view by then.
TallyAnswers ==
    \E p \in tallies :
       /\ tallies' = tallies \ {p}
       /\ tally' \in {p, tally}
       /\ UNCHANGED <<walletVars, adminVars, view, listVars, disabled,
                      taskVars, boundVars>>

\* refresh_polls: ask for the list anew, forgetting the last error.
refresh_polls ==
    /\ refreshing' = TRUE
    /\ pollsError' = FALSE
    /\ UNCHANGED polls

\* The list page and the admin page ask for it if there is none.
fetch_polls_on_mount == IF polls THEN UNCHANGED listVars ELSE refresh_polls

\* The list arrives, and the detail view renders its form again ...
PollsArrive ==
    /\ refreshing
    /\ refreshing' = FALSE
    /\ polls' = TRUE
    /\ disabled' = IF view \in Poll THEN Rendered("vote") ELSE disabled
    /\ UNCHANGED <<walletVars, adminVars, view, tally, tallies, pollsError,
                   taskVars, boundVars>>

\* ... or does not: the list page shows the error instead of the list.
PollsFail ==
    /\ refreshing
    /\ refreshing' = FALSE
    /\ pollsError' = TRUE
    /\ UNCHANGED <<walletVars, adminVars, view, tally, tallies, polls, disabled,
                   taskVars, boundVars>>

\* The page with the cards.
PollList == view = "list" /\ polls /\ ~pollsError

PollCard(p) ==
    /\ Click
    /\ PollList
    /\ view' = p
    /\ fetch_tally(p)
    /\ disabled' = Rendered("vote")
    /\ UNCHANGED <<walletVars, adminVars, listVars, taskVars>>

\* "Back to polls", and the header's title.
BackToList ==
    /\ Click
    /\ view # "list"
    /\ view' = "list"
    /\ fetch_polls_on_mount
    /\ UNCHANGED <<walletVars, adminVars, tally, tallies, disabled, taskVars>>

\* The navigation always shows the registration page, and the admin page
\* while is_admin is set.
Header ==
    /\ Click
    /\ \/ view' = "register" /\ UNCHANGED <<listVars, disabled>>
       \/ /\ isAdmin
          /\ view' = "admin"
          /\ fetch_polls_on_mount
          /\ disabled' = Rendered("create")
    /\ view' # view
    /\ UNCHANGED <<walletVars, adminVars, tally, tallies, taskVars>>

RefreshButton ==
    /\ Click
    /\ view = "list"
    /\ refresh_polls
    /\ UNCHANGED <<walletVars, adminVars, view, tally, tallies, disabled,
                   taskVars>>
-----------------------------------------------------------------------------
(* The vote pipeline. *)

SetPhase(signal, p) == phase' = [phase EXCEPT ![signal] = p]

Send(kind, acct, p) == [kind |-> kind, acct |-> acct, poll |-> p]

\* Task i waits at its next step, or is over.
Await(i, step) == task' = [task EXCEPT ![i].step = step]
Over(i) == task' = [task EXCEPT ![i] = NoTask]

\* The poll's form is there, and its button enabled.
VoteForm == view \in Poll /\ polls /\ ~disabled.vote

\* on_vote without an option: the signal fails, whoever is using it.
OptionMissing ==
    /\ Click
    /\ VoteForm
    /\ SetPhase("vote", "Failed")
    /\ UNCHANGED <<walletVars, adminVars, pageVars, task, clicked, sent>>

\* cast_vote up to the wallet prompt: the account is read here, once.
cast_vote(i) ==
    /\ Click
    /\ VoteForm
    /\ IF address = NoOne
       THEN SetPhase("vote", "Failed") /\ UNCHANGED <<task, clicked>>
       ELSE /\ task[i] = NoTask
            /\ task' = [task EXCEPT ![i] = [kind |-> "vote", step |-> "secret",
                                            acct |-> address, poll |-> view]]
            /\ clicked' = clicked \cup {Send("vote", address, view)}
            /\ SetPhase("vote", "Witness")
    /\ UNCHANGED <<walletVars, adminVars, pageVars, sent>>

\* Mutant: the account is read again when the wallet has answered.
SecretOfTheMoment(i) ==
    /\ task[i].kind = "vote" /\ task[i].step = "secret"
    /\ address # NoOne
    /\ task' = [task EXCEPT ![i].step = "witness", ![i].acct = address]
    /\ UNCHANGED <<walletVars, adminVars, pageVars, phase, clicked, sent,
                   boundVars>>

\* secret::resolve answers, from the cache or after a signature.
SecretResolved(i) ==
    /\ task[i].kind = "vote" /\ task[i].step = "secret"
    /\ Await(i, "witness")
    /\ UNCHANGED <<walletVars, adminVars, pageVars, phase, clicked, sent,
                   boundVars>>

\* The poll's list has come and the voter is on it.
build_witness(i) ==
    /\ task[i].step = "witness"
    /\ Await(i, "prove")
    /\ SetPhase("vote", "Proving")
    /\ UNCHANGED <<walletVars, adminVars, pageVars, clicked, sent, boundVars>>

\* The proof is there, and the request for it leaves.
generate_proof(i) ==
    /\ task[i].step = "prove"
    /\ Await(i, "submit")
    /\ SetPhase("vote", "Submitting")
    /\ sent' = sent \cup {Send("vote", task[i].acct, task[i].poll)}
    /\ UNCHANGED <<walletVars, adminVars, pageVars, clicked, boundVars>>

\* The relayer accepted: show the hash and fetch the tally of that poll.
submit_vote(i) ==
    /\ task[i].step = "submit"
    /\ Over(i)
    /\ SetPhase("vote", "Done")
    /\ fetch_tally(task[i].poll)
    /\ UNCHANGED <<walletVars, adminVars, view, listVars, disabled, clicked,
                   sent, boundVars>>

\* Mutant: a failing task ends without a word.
vote_failed_silently(i) ==
    /\ Over(i)
    /\ UNCHANGED <<walletVars, adminVars, pageVars, phase, clicked, sent,
                   boundVars>>

\* Any step may fail: a declined signature, a voter who is not on the list,
\* the prover, the relayer.
vote_failed(i) ==
    /\ Over(i)
    /\ SetPhase("vote", "Failed")
    /\ UNCHANGED <<walletVars, adminVars, pageVars, clicked, sent, boundVars>>

SecretRefused(i) == task[i].step = "secret" /\ vote_failed(i)

\* What a task waits for that is not a person: the relayer and the prover.
VoteProceeds(i) ==
    \/ build_witness(i) \/ generate_proof(i) \/ submit_vote(i)
    \/ task[i].step \in {"witness", "prove", "submit"} /\ vote_failed(i)
-----------------------------------------------------------------------------
(* Registration. *)

\* The button is there and enabled: it reads is_busy() whenever it changes.
RegisterPage ==
    view = "register" /\ address # NoOne /\ phase["register"] \notin Busy

\* register_to_vote up to the wallet prompt.
register_to_vote(i) ==
    /\ Click
    /\ RegisterPage
    /\ task[i] = NoTask
    /\ task' = [task EXCEPT ![i] = [kind |-> "register", step |-> "commit",
                                    acct |-> address, poll |-> NoOne]]
    /\ clicked' = clicked \cup {Send("register", address, NoOne)}
    /\ SetPhase("register", "Submitting")
    /\ UNCHANGED <<walletVars, adminVars, pageVars, sent>>

\* The secret is there: its commitment is computed and posted.
register(i) ==
    /\ task[i].step = "commit"
    /\ Await(i, "post")
    /\ sent' = sent \cup {Send("register", task[i].acct, NoOne)}
    /\ UNCHANGED <<walletVars, adminVars, pageVars, phase, clicked, boundVars>>

register_done(i) ==
    /\ task[i].step = "post"
    /\ Over(i)
    /\ SetPhase("register", "Done")
    /\ UNCHANGED <<walletVars, adminVars, pageVars, clicked, sent, boundVars>>

\* No secret, no Poseidon yet, a refusal, or no relayer.
register_failed(i) ==
    /\ task[i].kind = "register"
    /\ Over(i)
    /\ SetPhase("register", "Failed")
    /\ UNCHANGED <<walletVars, adminVars, pageVars, clicked, sent, boundVars>>
-----------------------------------------------------------------------------
(* The admin's own transactions. *)

\* The content behind the gate of the admin page.
Panel == view = "admin" /\ address # NoOne /\ isAdmin

\* A key is typed (set_admin_api_key).
set_admin_api_key ==
    /\ Click
    /\ Panel
    /\ key' = address
    /\ typedEarly' = (connection.step = "chain")
    /\ UNCHANGED <<walletVars, gateVars, pageVars, taskVars>>

\* The "Clear key" button.
clear_admin_api_key ==
    /\ Click
    /\ Panel
    /\ key # NoOne
    /\ KeyCleared
    /\ UNCHANGED <<walletVars, gateVars, pageVars, taskVars>>

\* resolve_admin_tx_context: account and contract are settled before a task
\* is started for them.
resolve_admin_tx_context(i, kind) ==
    /\ task[i] = NoTask
    /\ task' = [task EXCEPT ![i] = [kind |-> kind, step |-> "sign",
                                    acct |-> address, poll |-> NoOne]]
    /\ clicked' = clicked \cup {Send(kind, address, NoOne)}
    /\ SetPhase(kind, "Submitting")

\* Mutant: the phase is left at "Submitting" when the input is refused.
admin_tx_forgotten(kind) ==
    SetPhase(kind, "Submitting") /\ UNCHANGED <<task, clicked>>

\* No contract configured, no wallet, or a field that does not parse.
admin_tx_failed(kind) ==
    SetPhase(kind, "Failed") /\ UNCHANGED <<task, clicked>>

CreatePollForm == Panel /\ ~disabled.create

\* The fields of the form: whether root and deadline parse, and the options.
Fields == [root: BOOLEAN, numOptions: 1..2, deadline: BOOLEAN]

validate_create_poll_input(f) == f.root /\ f.numOptions >= 2 /\ f.deadline

submit_create_poll(i) ==
    /\ Click
    /\ CreatePollForm
    /\ \E f \in Fields :
          \/ validate_create_poll_input(f) /\ resolve_admin_tx_context(i, "create")
          \/ admin_tx_failed("create")
    /\ UNCHANGED <<walletVars, adminVars, pageVars, sent>>

\* The close buttons read is_busy() whenever it changes.
ManagePolls == Panel /\ polls /\ phase["close"] \notin Busy

submit_close_poll(i) ==
    /\ Click
    /\ ManagePolls
    /\ resolve_admin_tx_context(i, "close") \/ admin_tx_failed("close")
    /\ UNCHANGED <<walletVars, adminVars, pageVars, sent>>

\* send_transaction: the admin signs, and the poll list is asked for anew ...
send_transaction(i) ==
    /\ task[i].step = "sign"
    /\ sent' = sent \cup {Send(task[i].kind, task[i].acct, NoOne)}
    /\ SetPhase(task[i].kind, "Done")
    /\ Over(i)
    /\ refresh_polls
    /\ UNCHANGED <<walletVars, adminVars, view, tally, tallies, disabled,
                   clicked, boundVars>>

\* ... or declines.
TransactionRejected(i) ==
    /\ task[i].step = "sign"
    /\ SetPhase(task[i].kind, "Failed")
    /\ Over(i)
    /\ UNCHANGED <<walletVars, adminVars, pageVars, clicked, sent, boundVars>>
-----------------------------------------------------------------------------
Next ==
    \/ OwnerAnswers
    \/ wallet_connecting \/ ConnectionRejected \/ request_accounts
    \/ connect_wallet
    \/ \E a \in Account \cup {NoOne} : Switch(a)
    \/ Disconnect
    \/ TallyAnswers \/ \E p \in Poll : PollCard(p)
    \/ PollsArrive \/ PollsFail
    \/ BackToList \/ Header \/ RefreshButton
    \/ OptionMissing
    \/ \E i \in Task :
          \/ cast_vote(i) \/ SecretResolved(i) \/ SecretRefused(i)
          \/ VoteProceeds(i)
          \/ register_to_vote(i) \/ register(i)
          \/ register_done(i) \/ register_failed(i)
          \/ submit_create_poll(i) \/ submit_close_poll(i)
          \/ send_transaction(i) \/ TransactionRejected(i)
    \/ set_admin_api_key \/ clear_admin_api_key

\* The prover and the network answer in the end; people may never.
Fairness == \A i \in Task : WF_vars(VoteProceeds(i))

Spec == Init /\ [][Next]_vars /\ Fairness
-----------------------------------------------------------------------------
(* Properties. *)

LiveTasks(kind) == {i \in Task : task[i].kind = kind}

\* A spinner always has a task behind it: "so a missing wallet/contract never
\* leaves the UI stuck in Submitting", also when two pipelines share one
\* signal and every step of either may fail.
BusyHasItsTask ==
    /\ \A s \in Signal : phase[s] \in Busy => LiveTasks(s) # {}
    /\ connecting => connection # NotConnecting

\* What leaves the page was asked for under that account and for that poll,
\* however often the wallet and the view have changed since the click.
SentAsClicked == sent \subseteq clicked

\* The admin key in memory was typed under the account that is connected now:
\* "a new account is a new person", over reconnections and their listeners.
\* The exception is a key typed under an account that an older listener showed
\* while connect_wallet waited for the chain id: it stays when another is shown.
KeyStaysWithItsAccount == key # NoOne /\ ~typedEarly => key = address

\* Once every check that could still be timely is answered, the admin panel is
\* the owner's, unless a late answer opened it: one that came after a later
\* question's answer, or a disconnection, had decided the gate.  Nothing else
\* opens it to another account, in whatever order switches, reconnections and
\* the answers of eth_call come.
PanelIsTheOwners == Panel /\ late = Len(checks) /\ ~openedLate => address = Owner

\* A vote that reached the prover ends in an answer for the voter.
VoteEnds ==
    phase["vote"] \in {"Proving", "Submitting"} ~>
       phase["vote"] \in {"Done", "Failed"}

(* What the comments and labels say and the code does not keep. *)

\* current_tally is the "currently-viewed poll's tally".
TallyIsOfTheView == view \in Poll => tally \in {NoOne, view}

\* The admin page is "Gated on the connected wallet matching the on-chain
\* `VotingManager.owner`".
PanelIsShownToTheOwner == Panel /\ checks = <<>> => address = Owner

\* The button labelled "Retry" can be clicked.
RetryIsOffered == view \in Poll /\ phase["vote"] = "Failed" => ~disabled.vote
=============================================================================
