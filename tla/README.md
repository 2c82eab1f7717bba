# Viche in TLA+

Viche is an anonymous voting system: voters register a commitment to a secret,
an administrator turns the approved commitments into a Merkle whitelist, a poll
is created on chain with that root, and each voter proves membership in zero
knowledge. This directory models the parts of it that have state, checks them
with TLC on small instances, and proves the properties of eight of them with
TLAPS for every size.

## 1. Inventory

Paths are relative to the repository; the Rust crates are under `crates/`.

| component | state | operations | interacts with |
|---|---|---|---|
| `VotingManager` contract (`contracts/src/VotingManager.sol`) | owner, pendingOwner, polls, nullifierUsed, events | createPoll, closePoll, cancelPoll, voidPoll, three handover calls, castVote, views | verifier (call), everybody (transactions) |
| vote circuit and verifier (`circuits/`, `Groth16Verifier.sol`) | none | the statement of a proof; field checks of the public signals | contract |
| Merkle trees, field (`viche-core`: `merkle.rs`, `field.rs`) | the stored nodes of one tree | insert, root, proof; field and id checks | page, relayer, circuit |
| start-up (`config.rs`, `main.rs`, `lib.rs`) | the configuration, read once | parse, check, build policy, limiters, router | every part of the relayer |
| registration store (`registration.rs`) | pending, last_snapshot, snapshots behind an async mutex; one JSON file | load, register, approve, approve_all, reject, snapshot, publish, for_root | handlers, file system |
| eligibility (`eligibility.rs`) | invite-code counters (memory only) | check | register handler |
| handlers (`handlers.rs`) | shared AppState | HTTP endpoints, bearer auth, validation | all relayer parts |
| rate limiter (`ratelimit.rs`) | table of buckets behind a mutex | check, evict_refilled | middleware |
| middleware (`middleware.rs`) | semaphore permits | client_ip, rate_limit, concurrency_limit, timeout layer around them | handlers |
| relaying (`relay.rs`) | none of its own | simulate, gas ceiling, broadcast (not waiting for inclusion) | chain |
| queries (`queries.rs`) | none of its own | poll list, poll, tally: several view calls each | chain |
| voter secret (`viche-frontend`: `secret.rs`, `storage.rs`) | a value and a provenance tag per account in localStorage | resolve, migrate, import, forget | wallet prompt, page |
| page session (`actions.rs`, `state.rs`) | signals: wallet, phases, polls, tally, admin panel and key | connect, account switch, load, register, cast vote, admin transactions | relayer, wallet, contract |
| whitelist build (`actions.rs`, admin panel) | pending list, build phase, create-poll form | refresh, review, snapshot, publish | store, through the relayer |
| clients (`api.rs`, `contract.rs`), prover (`proofgen.rs`, `vote_input.rs`) | none | one request, call or proof each | page |
| components (`components/`) | which buttons are on screen | clicks | page session |
| scripts | none | deployment, compilation, test vectors, run by hand | |

Hard behaviour: transactions of several senders interleave and a word has
several encodings of one field element (contract); memory is ahead of the file
across every await, requests are dropped by a timeout or a hang-up while their
file operation goes on, the process crashes anywhere (store); a code's use is
spent before the store may refuse (eligibility); a read takes several calls
(queries); a request is answered before anybody knows what became of its
transaction (relaying); a clock reading precedes a lock (limiter); a permit is
held by a future that may be dropped (middleware); tasks hold an account, a
poll or a list they read before a prompt or a request (page).
`PROJECT.json` lists each hazard at its line with the properties that cover it,
or why none does.

What makes each component correct: **contract** the tally is the log, one
ballot per secret, members only, final results, an orderly handover; **tree**
the incremental root is the full tree's, the listed can prove it, nobody else
can; **store** the file is always loadable, nothing acknowledged is lost,
nothing unreviewed becomes an electorate, a list is found under its own root;
**eligibility** a code enrolls no more voters than it has uses; **queries** an
answer is a result the chain had; **relaying** a refusal sends nothing, is
final, and leaves no hole in the key's nonces; **limiter** no window exceeds its
bucket, honest Retry-After; **middleware** no permit is lost, the right client
is charged; **secret** no account gets another one's identity, the provenance
label tells the truth, irrecoverable values are never lost unasked;
**session** what leaves the page was asked for under that account, the key and
the panel follow the account, no spinner without a task.

## 2. Modules

| module | models | state and actions |
|---|---|---|
| `VoteCircuit` | the statement of `vote.circom`, `verifyProof`'s checks | operators. A `bytes32` is a pair (field element, how often *r* was added), so aliases of a nullifier exist. |
| `VotingManager` | the contract | one variable per storage slot, `voteCast` for the event log, `now` for `block.timestamp`; one action per transaction. A revert restores the state, so it is a stutter. |
| `BallotBox`, `VotingManagerBallotBox` | what a poll promises, abstractly, and the refinement mapping | phase, electorate, choices, expiry, box; `ImplementsBallotBox` |
| `TallyQuery` | `fetch_poll_core`, `fetch_tally` over a live contract | `query`: the locals of one request; every view call is a step, all of VotingManager's steps may come between |
| `PollQueries` | extends it with `fetch_all_polls`, `fetch_poll` and the handlers | the plan of a request (next id, logs, block time, polls) in the code's order; every call may fail |
| `Relay` | `POST /api/vote`, the admin poll endpoints, `relay.rs` | `req`: a handler at its next await; `count`, `cache`: a key's nonce on the chain and in its provider; `wire`, `pool`, `receipts`: a transaction's way to a block, in nonce order; `drawn`: history of the nonces requests took; composed with VotingManager |
| `Startup` | `config.rs`, `main.rs`, `build_app`'s choices | operators: from an environment to a configuration, or Refused |
| `RegistrationStore` | the store and its file | `mem` is `Inner`; `holder` is the request that owns the mutex, at its next file operation; `tmp`, `target` name inodes and `data` holds their contents; `late` are operations of dropped requests; `acked`, `tab`, `granted`, ... are what voters and admins were told |
| `Admissions` | `eligibility.rs` and the register handler over the store | `used`: the counters; `entering`: granted requests before the mutex; a restart reads the environment again |
| `RegistrationPanel` | the admin's tab over both | `panel`, `review`, `build`, `form` per tab; requests and answers may be lost |
| `RateLimiter` | `check`, `check_at`, `evict_refilled` | `waiting`: requests between the clock reading and the mutex, which they take in any order; `buckets`: the table; histories: `admitted`, `promised`, and `rewound`, the seconds by which a client's requests came behind later ones |
| `RequestGate` | timeout layer, `concurrency_limit`, `client_ip`, `rate_limit`, health and readiness | `available` permits, `allowance` per limiter and address (RateLimiter's promise), a deployment with its proxies |
| `VoterSecret` | the secret's life in one browser | `storage` per account, `shown` and `busy` (signals), `tasks` waiting for the wallet |
| `FrontendSession` | wallet connection, owner check, poll list, tally, the vote and registration pipelines, admin transactions and key, and which buttons are rendered | the signals of `AppState`; `task` per pipeline at its next await; `checks`: owner checks in flight, answered in any order; `listeners` attached by each connection; histories: `clicked`, `sent`, `late`, `openedLate`, `typedEarly` |
| `MerkleTree` | `merkle.rs` and `merkle_tree.circom` | the loops of `insert`, `proof` and of the circuit, one turn per step; a `Claim` may replace any sibling |
| `VotingManager_proofs`, `Relayer_proofs` (queries and submissions), `Registration_proofs` (store, policies and panel), `MerkleTree_proofs`, `VoterSecret_proofs`, `FrontendSession_proofs`, `RateLimiter_proofs`, `RequestGate_proofs` | theorems and proofs | see section 5 |
| `MC*` | instances for TLC | values of the constants, initial inputs, symmetry, views |

`PollQueries` and `Relay` run over `VotingManager`; `RegistrationPanel` over
`Admissions` over `RegistrationStore` and `Startup`; `RequestGate` over
`Startup`. `FrontendSession` sees relayer, prover and chain as requests that
end well, badly or never.

Abstractions. Poseidon is a free constructor and Groth16 is sound, except in
`MerkleTree`, where the hash is any binary operator. In the store a commitment
list is a set and a root is named by the list it was computed from. Tokens are
counted in units of 1/`Unit`, so that a fractional rate (`per_minute`/60 =
`Refill`/`Unit`) is exact; the code uses `f64`, whose rounding is not modelled.
Environment values are `Blank`, `Malformed` or what the text stands for.
Reasons, URIs and wording are left out, except where the wording is the claim
(`friendly_relayer_error`).

Operators whose comment begins with "Mutant" are not part of the models: they
are the plausible mistakes each property is tested against, and `PROJECT.json`
pairs them. Properties under a heading "what ... the code does not keep" are
statements of comments and labels; section 3 says which configuration refutes
each.

## 3. Runs

`tlc -config X.cfg M` in this directory; every constant and bound is in the cfg.

Passing runs:

| run | module / cfg | shows |
|---|---|---|
| contract | MCVotingManager / VotingManager | `TallyIsTheBallots`, `OneBallotPerSecret`, `OnlyMembersCounted`, `NoEarlyResult`, `ProposalIsTheOwners`, `PollsAreFinal` and the refinement `ImplementsBallotBox` |
| poll_queries | MCPollQueries / PollQueries | a tally asked for after voting ended is exact (`EndedTallyIsExact`), any tally is bracketed (`TornTallyIsBracketed`); `accepting_votes` is not wrong about a poll that had stopped (`AcceptingIsHonest`); every listed poll has its question if the logs were read (`ListedHasItsQuestion`) |
| store_faults | MCRegistrationStore / StoreFaults | `FileIsWhole`, `NoUnexplainedLoss` (what was acknowledged is on disk, unless it was rejected or its batch was replaced before it was published), `OnlyApprovedEnter`, under a failed or dropped request and two crashes |
| admissions | MCAdmissions / Admissions | `CodeBudgetHolds`, `SourceCapHolds`, `ReviewedBeforeApproved` (only what was on screen when Approve was clicked), `FormRootHasItsList` (a root offered to the form has its voters on disk, and every served list is its root's), under a fault, lost answers and a restart into another environment |
| rate_limiter | MCRateLimiter / RateLimiter | `WindowIsBounded` through evictions and in any order of arrival at the mutex, `RetryAfterIsEnough` |
| gate | MCRequestGate / RequestGate | `PermitsAreConserved`, `ChargedToItsClient` under forged headers and four proxy deployments, and the liveness `OverloadPasses` |
| secret | MCVoterSecret / VoterSecret | `SecretsStayWithTheirAccount`, `UnsavedIsWarned` with a failing storage call; `OriginIsHonest`, `RandomIsKept` while storage works |
| relay | MCRelay / Relay | `RefusedMeansNotSent`, `RevertIsARace`, `RefusalIsFinal`, and `OnlyErrorsLeaveGaps`: what a node holds behind a missing nonce waits for a request under way, for a sent transaction or for one whose client was told of an error |
| merkle | MCMerkleTree / MerkleTree | `RootIsTheLists`, `ListedCanProve`, `OnlyListedProve` |
| session | MCFrontendSession / FrontendSession | `BusyHasItsTask`, `SentAsClicked`, `KeyStaysWithItsAccount`, `PanelIsTheOwners` (only a late answer opens the panel to another account), and the liveness `VoteEnds` |

Violation runs, each a statement of the repository's own text that the code
does not keep (`PROJECT.json`, "findings", quotes them):

| run | property | what happens |
|---|---|---|
| store_acked | `AckedIsOnDisk` | two snapshots without a publish: the first batch is in no file |
| relay_timeout | `NothingWasSubmitted` | the deadline or a broken connection ends the request after the node took its transaction; the voter reads "Nothing was submitted" |

### Divergences without a run of their own

Each is an operator of a module that fails in the configuration given here
(add it to the named cfg, with the change in parentheses).

| operator, cfg | what happens |
|---|---|
| `DuplicateIsOnDisk`, StoreFaults | a failed write, then "already registered" for something no file holds |
| `FileIsWhole`, StoreFaults (`LateOps = TRUE`) | a dropped request's `create` or `rename` meets the next request's temporary file: an empty one is renamed over the store |
| `NoUnexplainedLoss`, StoreFaults (`LateOps = TRUE`) | a late `create` truncates what the next request has written and renames |
| `OnlyApprovedEnter`, StoreFaults (`LateOps = TRUE`) | a late write puts an older store into the file, and a restart brings back what was taken back |
| `FormRootHasItsList`, Admissions (`Tab = {t1, t2}`, `RequireApproval = FALSE` with an open environment, no faults and crashes) | two tabs snapshot and publish alternately and one list is stored under two roots; the claim of an error for a list "already published under a different root" (`handlers.rs:995-997`) has no code |
| `PageRegistersInvited`, Admissions | with the default policy (invite codes) the page cannot register anybody: `ApiClient::register` never sends the header that "the browser sets ... trivially" (`middleware.rs:56-59`) |
| `WindowIsBounded`, RateLimiter (without `+ rewound[k]`) | a request that was overtaken sets `last_seen` back (`ratelimit.rs:114`) and the same second is refilled twice; with `rewound`, the seconds by which that happened to the client, the bound holds |
| `HealthIsNeverShed`, RequestGate | `/health` passes the same in-flight budget as everything else (`handlers.rs:227-228`) |
| `ShownIsTheAccounts`, VoterSecret | the wallet answers after an account switch; a backup exported then is labelled with the wrong account |
| `ResolveNeverOverwrites`, VoterSecret | an import while `resolve` waits, or a failed *read* taken for a missing secret: what is there is overwritten, a random one included |
| `OriginIsHonest`, VoterSecret (without `failures = 0`) | `store` stops at its first failing write: an imported value keeps the label `wallet-derived-v1` |
| `TallyIsOfTheView`, FrontendSession | the tally of a poll the voter left arrives after the one they opened |
| `RetryIsOffered`, FrontendSession | the "Retry" label appears on a button that is still disabled |
| `PanelIsShownToTheOwner`, FrontendSession | the owner check of the old account answers last (`actions.rs:109`) and decides for the new one: the panel that is "Gated on the connected wallet matching the on-chain `VotingManager.owner`" (`components/admin.rs:3`) is shown to another account |

Met while modelling, and not stated as an operator:

* contract: the comment of `getPoll` (`VotingManager.sol:405-407`) says
  `active` means "will this poll accept a vote right now"; it is
  `status == Open`, true after the deadline until somebody closes the poll. The
  relayer's `accepting_votes` corrects it.
* queries: `TallyResponse` (`wire.rs:290`) calls `total_votes` the total across
  all options; a ballot mined between the reads is in a counter and not in it.
* relaying: a request that ends in a 502 or 504 may have drawn a nonce and sent
  nothing, and transactions of that key which were answered 200 then wait behind
  the hole until something fills it (TLC shows one that waits for ever); the gas
  ceiling is checked on an estimate that the provider's
  fillers make again before signing; `createPoll` is not simulated, so a retry
  after a 504 may create a twin poll.
* store and panel: `approve_all` approves whatever is pending when it is
  served (the page never calls it); a build retried after a failed publish
  snapshots again and its first batch is `store_acked`'s; the panel's count is
  set to zero after a snapshot although unapproved entries remain
  (`actions.rs:729-735`).
* middleware: `client_ip` skips entries of `X-Forwarded-For` that do not parse
  before it counts hops (`middleware.rs:71`), so the count is of the entries
  that parse.
* session: a key typed while `chain_id` is awaited, under an account that an
  older listener showed, stays when `connect_wallet` shows another
  (`actions.rs:36-70`); an account switch between `request_accounts` and
  `chain_id` replaces the address without clearing the key or the secret; an
  owner check answered after Disconnect sets `is_admin`; a listener that fires after Disconnect
  connects the page again; the vote phase is not reset when another poll is
  opened; `refresh_polls` right after a broadcast reads the list before the
  transaction is mined; a change of owner on chain is not noticed before the
  next connection; a switch clears the secret and keeps the error and notice of
  the old account.
* tree: `new` turns an error of the hasher into a ZERO subtree
  (`merkle.rs:122-127`) where `insert` reports it.

### Bounds, and why they are enough

* contract: two polls (cross-poll replay), two voters and two whitelists with
  one voter outside the second (wrong-whitelist proofs), options 0..2 (with
  `numOptions` = 2 option 2 is out of range), one wrap (an alias of every
  nullifier and a non-canonical root), times 0..2 (before, at and after a
  deadline), two accounts (an owner's own and another account's proposal, so
  that one replaces the other). All of these are lifted by the proofs.
* poll_queries: one account and one whitelist (who may act and who may vote is
  `contract`'s question), two polls and two voters so that both change between
  the calls of one request. The view leaves out the handover's variables, which
  with one account nothing else reads.
* store_faults: two commitments of different sources and one admin tab; one
  fault and two crashes let a failed write be followed by a restart and by a
  second one. Three inodes: the target, the temporary file and one left over.
* admissions: two commitments of one source with a cap of one and a code with
  one use: whatever is enrolled twice breaks a limit. One fault and one crash.
  The view leaves out the store's history variables, which no guard and no
  property of this run reads.
* rate_limiter: two clients and one slot make the table full with a key left
  over; two requests in flight, so that one overtakes the other; 2/3 token a
  second and a burst of two make the rounding of Retry-After and partial refills
  happen within five seconds.
* gate: two requests and one permit (one in flight, one shed), bursts of one,
  chains of no, one and two proxies.
* secret: two accounts, two waiting tasks, backups of a random secret and of
  the other account's derived one; one storage failure.
* relay: two requests: two copies of one ballot, or a ballot and a
  call that ends its poll; one voter, the ballot also with another option, the
  wrong proof and a poll id out of range; a fee below and above the ceiling.
* merkle: every list of up to eight leaves of two commitments in three levels:
  full, odd, empty and repeated. Lifted by the proofs.
* session: two accounts, two polls, two pipelines, two connections (hence two
  listeners) and five clicks: switch, switch back and a third action while two
  tasks wait.

### Assumptions of the passing runs that the code does not guarantee

* `LateOps = FALSE`: the file operation of a dropped request is over before the
  next request takes the mutex.
* One admin tab (`FormRootHasItsList`); a request the page has given up and the
  relayer has not begun is gone.
* A crash is a process crash: what was renamed stays renamed. Power loss, where
  the unsynced directory may forget the rename, is not modelled.
* The environment may change at a restart, the store's caps stay the same. A
  deployment that trusts proxy headers states the number of its proxies.
* `Relay`'s administrator is the only account of its chain, and so stays the
  contract's owner; the polls on the page's list all accept votes.

Small branches the models leave out, which no property depends on: the
exemption of OPTIONS requests from the limits (`middleware.rs:177-179`); the
`chainChanged` listener (`actions.rs:58-65`); several poll-list requests in
flight are one; two requests with the same commitment and invite code that wait
for the store at the same time are one (`entering` is a set). `Relay` knows no
restart of the relayer (which would read the nonces again), no replacement of a
transaction by another with its nonce, and no price but the ceiling: a node may
refuse or evict whatever it likes. The keys are used elsewhere too, one nonce at
a time.

`CHECK_DEADLOCK FALSE` appears where the model really stops: time, clicks or
requests have reached their bound. The store and secret models are checked for
deadlock.

## 4. Fairness

Two specifications state fairness, always on the runtime's own steps and never
on what people, nodes or the network do.

* `RequestGate`: weak fairness of `Timeout(r)` (the timer of the timeout layer,
  which drops the handler's future) and of `concurrency_limit(r)` (a runtime
  that accepted a request polls it). Handlers, backends and clients may hang
  for ever; `OverloadPasses` holds all the same.
* `FrontendSession`: weak fairness of `VoteProceeds(i)`, the steps of a vote
  after its secret is known: witness, prover and request each answer or fail.
  A wallet prompt may stay open for ever, so `VoteEnds` begins at the prover.

Nothing in the code schedules a vote, a closePoll or a publish, so the contract
and the store have no liveness. Neither has the relay: a node may drop a
transaction, and one that was answered 200 may wait for ever behind the nonce of
a failed request, so nothing guarantees that it is mined. What the code does
guarantee about such a hole is `OnlyErrorsLeaveGaps`.

## 5. Proofs

`tlapm VotingManager_proofs.tla`. From `CircuitAssumption` and
`ManagerAssumption` only (types of the constants, `Members` a function from
trees to sets of secrets, `NoRoot` not a root), for every value of the
constants:

* `TypeCorrect`: `[]TypeOK`, one step per action.
* `Inductive`: `[]IInv`. The checked invariants are not inductive alone.
  `NullifiersAreTheLog` ties the mapping castVote tests to the log the
  properties are about; `NullifiersAreCanonical` says every logged word passed
  `checkField`, without which two words of one field element would both be
  new; `FreshPolls` says storage at and above `nextPollId` is untouched, so
  createPoll starts from an empty tally; `IsFiniteSet(voteCast)` makes
  cardinalities count. `CastVoteCounts` (adding one event adds one to each
  cardinality) and `BallotIsNew` (no logged ballot of the poll has this secret)
  carry the castVote case; `AccountingKept` all actions that leave ballots
  alone.
* `TallyIsCorrect`, `NoDoubleVote`, `Eligibility`, `NoEarlyFreeze` follow from
  it. `Finality` is an action property proved from `TypeOK` and `IInv`
  (createPoll writes only a fresh slot). `Handover` is its own induction.
* `Refinement`: `Spec => BB!Spec`, one lemma for each abstract step:
  createPoll announces, Retire ends, castVote votes, Tick expires.

`tlapm MerkleTree_proofs.tla`. From `MerkleAssumption` (depth, widths that
halve, no more leaves than the widest level):

* `Inductive`: `[]IInv`. A stored node is the hash of its two children, where a
  child that is not stored counts as the empty subtree of its height
  (`Linked`), except on the path the running `recompute` has not reached yet
  (`Stale`); nothing is stored at or above the next index; the path that
  `proof` has taken so far is the one from the leaf to the root.
* `Completeness`: the circuit's walk along an honest path ends in the root, for
  every depth, every list and every binary `Hash`.
* `RootOfTheList`: the root is that of the full tree over the list.
  `Reference`, the definition of that tree level by level, is a recursive
  function; `LevelsExist` and `ReferenceLevels` say that it satisfies its
  equation, and an induction over the levels then meets `Linked` at each.
* `Soundness`: if `Hash` is injective on pairs, no path, honest or made up,
  leads a leaf other than ZERO that is not listed to the root. Injectivity is
  an assumption of this theorem alone.

`tlapm Registration_proofs.tla`. Two facts the code does not guarantee
are hypotheses of the theorems that need them: `InTime` (`LateOps = FALSE`) and
`OneTab` (at most one admin tab). Any number of commitments, sources, codes,
requests, faults, crashes and inodes. First the store alone:

* `TypeCorrect` needs neither. `FileStaysWhole` (InTime): the target is a whole
  store and never the inode being written. `FileInv`: one file operation is
  under way at a time, and what it has written before the rename is the whole of
  memory; so a rename makes the file equal to memory, and every other step
  leaves the file alone.
* `Inductive` (both): `HolderInv` says what the request that owns the mutex did
  to memory, so that its answer is true of the file it has renamed. `ListsInv`:
  every list is stored under its own root, and what a tab holds is
  `last_snapshot`, in memory and on disk. `LossInv`: every acknowledged
  commitment is in memory and on disk, or rejected, or replaced. `NothingIsLost`
  follows.
* `ApprovedOnly`: an approved entry in memory was granted since it was last
  drained or rejected. Until the first restart memory is never read back, so
  that needs no hypothesis (`OnlyApprovedBeforeRestart`), whatever late file
  operations do; for the file, and so over restarts, it needs InTime.
* `ElectorateIsCapped` needs neither: every store in memory or in any inode,
  whole or being written, has at most the cap of each source among its pending
  entries and in each of its lists (`Capped`).

Then the policies and the admin's tabs over it:

* `PanelImplementsStore`: each step of `RegistrationPanel` is a step or a
  stutter of the store, so all of the above holds behind them.
* `CodesStayInBudget` (`CodeInv`): of each code, the enrolments and the granted
  requests that have not reached the store are together at most the uses
  counted, and those at most the uses configured. Any number of requests may
  wait at once; a use whose request is lost stays spent. It rests on the
  start-up's checks (`AdmissionsAssumption` types the configured codes).
* `NothingUnseenIsApproved` (`ClickedInv`): what is on screen when Approve is clicked is all a
  waiting approval carries, and nothing else turns an entry approved, in memory
  or in an inode that a late operation may still rename.
* `FormRootsHaveLists` (both): a list once on disk stays in memory under its
  root, and the list a tab is publishing is there while the request owns the
  mutex (`ServedInv`); so a root enters the form after its list is on disk, and
  no later write takes it away (`FormInv`).

`tlapm VoterSecret_proofs.tla`, without further assumptions: a task waits for
one account, and a migration's voter asked for it (`TaskInv`); while storage
works, a resolution that waits found no secret, so a random one in its slot was
put there at the voter's request (`WaitInv`); the three state properties
themselves complete the invariant. `NoIdentityIsInherited`, `LabelsAreHonest`,
`WarnedWhenUnsaved` and the action property `RandomSecretsAreKept` follow, for
any number of accounts, tasks and storage failures.

`tlapm FrontendSession_proofs.tla`: every live pipeline is of one of three
shapes, and its account and poll are in `clicked` (`TaskInv`); a busy phase has
a task of its kind (`PhaseInv`); while a connection waits for the wallet the
address changes through its listeners only, so that the account that comes back
is the key's (`KeyInv`); the last check in flight that is not late is of the
shown account, and once there is none a gate that no late answer opened is open
for the owner only (`GateInv`). `NothingIsSentForAnother`,
`KeyFollowsTheAccount`, `NoStuckSpinner` and `PanelFollowsTheAccount` follow: all
safety properties of the session run.

`tlapm Relayer_proofs.tla` extends the contract's proofs with what happens to
the chain between two calls of the relayer (`ChainGoesOn`: time passes, polls
are added, terms stay, counters and nullifiers grow, nothing reopens).

* Lists: a request in progress lists polls that are there, what it took for
  over is over, its block time is past, and once it has scanned the logs every
  poll up to the last one it will list has its question (`QueryInv`).
  `AcceptingStaysHonest` and `QuestionsAreThere` follow.
* Tallies: a poll's counters add up to its total (`TotalsAddUp`), and for a
  request in progress there are counters it started from, which add up to the
  total it read and which no counter of the answer or the chain is below; if
  voting was over they are the chain's (`ReadingInv`). `EndedTallies` and
  `TornTallies` follow with three lemmas on sums: `TotalOfNothing`,
  `TotalCounts` (one more vote) and `TotalGrows` (monotone).
* Submissions: a transaction on the wire, in a pool or mined belongs to a
  request that is sending or was answered in a way that allows for it
  (`SentBySender`); what an answered simulation excluded stays excluded
  (`SimulationHolds`); what a final refusal named stays true of every later
  block (`RefusedAreDoomed`). `RelayInductive` is all of it, for any number of
  requests and any chain; `RevertsAreRaces`, `RefusalsSendNothing` and the action
  property `RefusalsAreFinal` follow.
* Nonces: a provider's nonces from the key's count on are drawn or used
  elsewhere, and who drew one is under way, has its transaction on the way or
  was answered with an error (`NonceInv`); `GapsHaveErrors` follows.

`tlapm RateLimiter_proofs.tla`: tokens lie between nothing and the burst, and a
bucket with an open promise was last seen before the promised second and will
by then hold a token (`PromiseInv`), whatever is evicted and read late.
`RetryAfterSuffices` follows. `WindowHolds`: what was admitted to a client since
any past second, plus what its bucket would hold at the latest reading, is at
most the burst, the refill since then and the refill of the `rewound` seconds
(`Level`); a missing bucket counts as a full one, so an eviction of full buckets
changes nothing. A decision stamped behind the latest reading grants the seconds
between once more (`LevelStamped`, `LevelPays`), which is what `rewound` counts.
`admitted` is cumulative, so that a window is a difference of two readings and
no sum has to be reasoned about.

`tlapm RequestGate_proofs.tla`: `PermitsAreNeverLost`, by counting: each step
moves at most one request into or out of the guard, and one permit with it.
`ClientsPayForThemselves`: an induction over the header shows that entries which
parse stay at the end of what `client_ip` collects, whatever is written before
them (`ParsedKeepsTheEnd`); the last of them are the proxies', so that counting
`trusted_proxy_hops` from the right ends at the client (`TheClientIsSeen`), for
any number of proxies. That no relayer starts which trusts a proxy and counts
none (`TrustCounts`) is proved of `HttpConfig`; that the number is the right one
is `GateAssumption`'s.

Every safety property of a passing run is a theorem. Where a definition is
recursive (a sum, a tree, a filtered header) it is a recursive function, and the
induction is over a set of numbers: `NatSet`, from the well-foundedness of
`<`, says that a set which holds 0 and each successor of its members holds every
number. The existence of each such function is proved that way too.

Only model-checked: `OverloadPasses` and `VoteEnds`. They are
liveness, and fairness and ENABLED are out of the prover's reach. The
violation runs and the divergences of section 3 are counterexamples, found by
TLC.

## 6. Plan

Done in this order: contract and proofs, store, queries, limiter, secret, then
start-up, admissions, panel, gate, relay, tree and proofs, session, then the
proofs of store, secret, session, queries, limiter and gate, then those of the
compositions (panel over store, relay and queries over the contract) and of the
recursive definitions. Next:

1. `RateLimiter` as the abstract limiter of `RequestGate`, by refinement.
2. A volatile directory for the store (power loss after the answer).
3. `VoterSecret` inside `FrontendSession`, so that the account of a resolved
   secret and the account of a sent vote are one state.

## 7. Not modelled, and why

CORS, security headers, JSON, URL building, ABI and proof encoding are
functions of one value that keep no state and decide nothing the properties
speak of. Rendering and wording likewise; which buttons exist, and when, is
modelled. The pairing check and Poseidon are cryptography, taken as ideal. The
rounding of `f64` tokens is replaced by exact arithmetic. How a source address
is salted and hashed is left to one abstract source per commitment. Deployment,
compilation and test-vector scripts are run by hand and keep no state of the
protocol.
