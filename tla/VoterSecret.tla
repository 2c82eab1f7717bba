---------------------------- MODULE VoterSecret ----------------------------
(***************************************************************************)
(* The voter's secret in the browser: one localStorage slot per account (a *)
(* value and its provenance tag, two separate writes), the copy the page   *)
(* shows, the backup the voter keeps, and the tasks that wait for a wallet *)
(* signature while the wallet switches accounts, the voter imports a       *)
(* backup or the page is reloaded.                                         *)
(*                                                                         *)
(* JavaScript runs one task at a time: an action is everything between two *)
(* awaits.  A task keeps the address it read before its await.             *)
(***************************************************************************)
EXTENDS Integers

CONSTANTS
    Account,      \* the wallet's accounts
    NoAccount,    \* no account connected
    Task,         \* tasks that can wait for a signature at once
    Backup,       \* backups the voter may bring from elsewhere
    MaxFailures   \* bound: localStorage calls that fail

\* Field elements, by where they come from: the signature of an account, or
\* the random generator of an older build.
derive_from_signature(a) == [made |-> "derived", by |-> a]
Random(a) == [made |-> "random", by |-> a]
Value == {derive_from_signature(a) : a \in Account} \cup {Random(a) : a \in Account}
NoValue == [made |-> "none", by |-> NoAccount]
Corrupt == [made |-> "corrupt", by |-> NoAccount]   \* text that does not parse

ASSUME SecretAssumption ==
    /\ NoAccount \notin Account
    /\ Backup \subseteq Value \cup {Corrupt}
    /\ MaxFailures \in Nat

Origin == {"wallet-derived-v1", "legacy-random", "imported"}
NoTag == "absent"

\* One slot per address: secret_storage_key and origin_storage_key.
Slot == [value : Value \cup {NoValue, Corrupt}, tag : Origin \cup {NoTag}]
EmptySlot == [value |-> NoValue, tag |-> NoTag]

\* What the page shows; `account` is whose secret it was resolved as.
Nothing == [value |-> NoValue, origin |-> NoTag, warning |-> FALSE, account |-> NoAccount]
Idle == [kind |-> "idle", account |-> NoAccount, read_error |-> FALSE]

VARIABLES
    address,    \* signals.wallet.address
    listening,  \* the accountsChanged listener is attached
    storage,    \* localStorage, by account
    shown,      \* signals.secret: value, origin, storage_warning
    busy,       \* signals.secret: busy
    tasks,      \* the tasks waiting for a signature
    held,       \* the backup the voter holds
    imported,   \* <<account, secret>>: what the voter asked to import
    asked,      \* accounts whose voter asked to import, migrate or forget
    failures

vars == <<address, listening, storage, shown, busy, tasks, held, imported, asked, failures>>
requests == <<imported, asked>>

\* A browser with a secret of an older build, of this one, a broken one, or none.
Init ==
    /\ address = NoAccount
    /\ listening = FALSE
    /\ storage \in [Account -> Slot]
    /\ \A a \in Account :
          storage[a] \in {EmptySlot,
                          [value |-> Corrupt, tag |-> NoTag],
                          [value |-> Random(a), tag |-> NoTag],
                          [value |-> derive_from_signature(a), tag |-> "wallet-derived-v1"]}
    /\ shown = Nothing
    /\ busy = FALSE
    /\ tasks = [t \in Task |-> Idle]
    /\ held \in Backup
    /\ imported = {}
    /\ asked = {}
    /\ failures = 0
-----------------------------------------------------------------------------
(* localStorage.  A call on a slot has a set of outcomes: the slot after   *)
(* it, what it answered, and whether the browser failed a call in it.      *)

Outcome(slot, answer, failed) == [slot |-> slot, answer |-> answer, failed |-> failed]

\* WebStorage::resolve, and the call behind it, may throw.
MayFail == failures < MaxFailures                    \* bound MaxFailures
IfItMayFail(outcomes) == IF MayFail THEN outcomes ELSE {}

get(slot) ==
    {Outcome(slot, "Ok", FALSE)} \cup IfItMayFail({Outcome(slot, "Err", TRUE)})

\* Writes, then reads back; when only the read-back fails the bytes are there.
set(slot, key, text) ==
    LET written == [slot EXCEPT ![key] = text] IN
    {Outcome(written, "Ok", FALSE)}
        \cup IfItMayFail({Outcome(slot, "Err", TRUE), Outcome(written, "Err", TRUE)})

remove(slot, key, absent) ==
    {Outcome([slot EXCEPT ![key] = absent], "Ok", FALSE)}
        \cup IfItMayFail({Outcome(slot, "Err", TRUE)})

\* Two calls in a row, the first failure ending them.
Then(first, Second(_)) ==
    UNION {IF o.answer = "Ok" THEN Second(o.slot) ELSE {o} : o \in first}

\* The call's outcome o happens to account a's slot.
Effect(a, o) ==
    /\ storage' = [storage EXCEPT ![a] = o.slot]
    /\ failures' = failures + (IF o.failed THEN 1 ELSE 0)

store(slot, value, origin) ==
    Then(set(slot, "value", value), LAMBDA s : set(s, "tag", origin))

import(slot, value) == store(slot, value, "imported")

forget(slot) ==
    Then(remove(slot, "value", NoValue), LAMBDA s : remove(s, "tag", NoTag))

\* A value that does not parse is reported as absent.
parse_stored_value(slot) == slot.value \in Value

\* Mutant: an untagged secret is taken for a derived one.
untaggedIsDerived(slot) ==
    IF slot.tag = NoTag THEN "wallet-derived-v1" ELSE slot.tag

\* from_tag: an untagged secret predates the tags, so it is a random one.
originOf(slot) == IF slot.tag \in Origin THEN slot.tag ELSE "legacy-random"

\* Write the missing tag, best effort.
backfill(slot) ==
    IF slot.tag # NoTag THEN {Outcome(slot, "Ok", FALSE)}
    ELSE {[o EXCEPT !.answer = "Ok"] : o \in set(slot, "tag", originOf(slot))}

\* Mutant: a secret without a tag is not found.
cachedTagged(slot) ==
    {IF parse_stored_value(slot) /\ slot.tag # NoTag
     THEN o ELSE [o EXCEPT !.answer = IF @ = "Ok" THEN "None" ELSE @] : o \in get(slot)}

\* Look a secret up.
cached(slot) ==
    IF parse_stored_value(slot)
    THEN Then(get(slot), backfill)
    ELSE {[o EXCEPT !.answer = IF @ = "Ok" THEN "None" ELSE @] : o \in get(slot)}
-----------------------------------------------------------------------------
(* The page.                                                               *)

is_recoverable_from_wallet(origin) == origin = "wallet-derived-v1"

\* What the notice above the panel says of the secret.
ProvenanceNotice ==
    IF shown = Nothing THEN "locked"
    ELSE IF is_recoverable_from_wallet(shown.origin) THEN "restorable" ELSE "back up now"

\* The buttons of the panel that can be pressed.
SecretBackupPanel ==
    IF address = NoAccount THEN {}
    ELSE (IF busy THEN {}
          ELSE {"import", "forget"}
               \cup (IF shown = Nothing THEN {"unlock"}
                     ELSE IF is_recoverable_from_wallet(shown.origin) THEN {} ELSE {"migrate"}))
         \cup (IF shown = Nothing THEN {} ELSE {"export"})

\* Mutant: the storage warning stays behind.
secretResolvedUnwarned(a, value, origin, warning) ==
    /\ shown' = [value |-> value, origin |-> origin, warning |-> FALSE, account |-> a]
    /\ busy' = FALSE

\* A resolved secret, for the account the task was started for.
secret_resolved(a, value, origin, warning) ==
    /\ shown' = [value |-> value, origin |-> origin, warning |-> warning, account |-> a]
    /\ busy' = FALSE

\* What was shown before stays.
secret_failed == busy' = FALSE /\ UNCHANGED shown

secret_cleared == shown' = Nothing /\ busy' = FALSE

Start(t, kind, read_error) ==
    tasks' = [tasks EXCEPT ![t] = [kind |-> kind, account |-> address,
                                   read_error |-> read_error]]

\* resolve, up to its await: a cached secret answers at once; a missing one,
\* or a read that fails, asks the wallet.
resolve(t, kind, waits) ==
    /\ tasks[t] = Idle
    /\ address # NoAccount
    /\ \E o \in cached(storage[address]) :
          /\ Effect(address, o)
          /\ IF o.answer = "Ok"
             THEN /\ secret_resolved(address, o.slot.value, originOf(o.slot), FALSE)
                  /\ UNCHANGED tasks
             ELSE /\ Start(t, kind, o.answer = "Err")
                  /\ busy' = waits
                  /\ UNCHANGED shown
    /\ UNCHANGED <<address, listening, held, requests>>

load_secret(t) == "unlock" \in SecretBackupPanel /\ resolve(t, "load", TRUE)

\* register_to_vote and cast_vote resolve the secret too and do not touch
\* the secret panel's busy flag.
use_secret(t) == resolve(t, "use", busy)

migrate_secret(t) ==
    /\ "migrate" \in SecretBackupPanel
    /\ tasks[t] = Idle
    /\ Start(t, "migrate", FALSE)
    /\ busy' = TRUE
    /\ asked' = asked \cup {address}
    /\ UNCHANGED <<address, listening, storage, shown, held, imported, failures>>

\* Mutant: the address is read again after the await.
ownerNow(t) == IF address = NoAccount THEN tasks[t].account ELSE address

\* The account a task captured before its await.
ownerOf(t) == tasks[t].account

\* The wallet signs, and the task ends with what it does with the secret.
Signed(t) ==
    /\ tasks[t] # Idle
    /\ tasks' = [tasks EXCEPT ![t] = Idle]
    /\ \E o \in store(storage[ownerOf(t)], derive_from_signature(tasks[t].account),
                      "wallet-derived-v1") :
          /\ Effect(ownerOf(t), o)
          /\ IF tasks[t].kind = "migrate" /\ o.answer = "Err"
             THEN secret_failed
             ELSE secret_resolved(tasks[t].account,
                                  derive_from_signature(tasks[t].account),
                                  "wallet-derived-v1", o.answer = "Err" \/ tasks[t].read_error)
    /\ UNCHANGED <<address, listening, held, requests>>

\* The voter refuses to sign, or the wallet fails.
Declined(t) ==
    /\ tasks[t] # Idle
    /\ tasks' = [tasks EXCEPT ![t] = Idle]
    /\ IF tasks[t].kind = "use" THEN UNCHANGED <<busy, shown>> ELSE secret_failed
    /\ UNCHANGED <<address, listening, storage, held, requests, failures>>

\* The backup on the page, rebuilt from what is shown now.
backup_blob == shown.value

\* The voter reveals the backup and keeps it in place of the last one.
ExportBox ==
    /\ "export" \in SecretBackupPanel
    /\ held' = backup_blob
    /\ UNCHANGED <<address, listening, storage, shown, busy, tasks, requests, failures>>

\* A text that is no field element, or zero, is refused.
parse_backup(text) == text \in Value

\* import_secret is synchronous, and takes any account's backup.
import_secret ==
    /\ "import" \in SecretBackupPanel
    /\ IF parse_backup(held)
       THEN /\ \E o \in import(storage[address], held) :
                  /\ Effect(address, o)
                  /\ IF o.answer = "Ok"
                     THEN secret_resolved(address, held, "imported", FALSE)
                     ELSE secret_failed
            /\ imported' = imported \cup {<<address, held>>}
            /\ asked' = asked \cup {address}
       ELSE /\ secret_failed
            /\ UNCHANGED <<storage, failures, requests>>
    /\ UNCHANGED <<address, listening, tasks, held>>

forget_secret ==
    /\ "forget" \in SecretBackupPanel
    /\ \E o \in forget(storage[address]) :
          /\ Effect(address, o)
          /\ IF o.answer = "Ok" THEN secret_cleared ELSE secret_failed
    /\ asked' = asked \cup {address}
    /\ UNCHANGED <<address, listening, tasks, held, imported>>

\* connect_wallet, offered while no account is connected, from its last await:
\* attach the listeners and record the account the wallet named.
connect_wallet(a) ==
    /\ address = NoAccount
    /\ address' = a
    /\ listening' = TRUE
    /\ UNCHANGED <<storage, shown, busy, tasks, held, requests, failures>>

\* The accountsChanged listener: another account, or none.
accounts_changed(a) ==
    /\ listening
    /\ address' = a
    /\ secret_cleared
    /\ UNCHANGED <<listening, storage, tasks, held, requests, failures>>

\* The Disconnect button: the page forgets the account, the wallet does not.
Disconnect ==
    /\ address # NoAccount
    /\ address' = NoAccount
    /\ secret_cleared
    /\ UNCHANGED <<listening, storage, tasks, held, requests, failures>>

\* Reloading the page keeps localStorage only.
Reload ==
    /\ address' = NoAccount
    /\ listening' = FALSE
    /\ secret_cleared
    /\ tasks' = [t \in Task |-> Idle]
    /\ UNCHANGED <<storage, held, requests, failures>>

Next ==
    \/ \E t \in Task : load_secret(t) \/ use_secret(t) \/ migrate_secret(t)
    \/ \E t \in Task : Signed(t) \/ Declined(t)
    \/ ExportBox \/ import_secret \/ forget_secret
    \/ \E a \in Account : connect_wallet(a)
    \/ \E a \in Account \cup {NoAccount} : accounts_changed(a)
    \/ Disconnect
    \/ Reload

Spec == Init /\ [][Next]_vars

TypeOK ==
    /\ address \in Account \cup {NoAccount}
    /\ listening \in BOOLEAN
    /\ storage \in [Account -> Slot]
    /\ \/ shown = Nothing
       \/ shown \in [value : Value, origin : Origin, warning : BOOLEAN, account : Account]
    /\ busy \in BOOLEAN
    /\ tasks \in [Task -> [kind : {"idle", "load", "use", "migrate"},
                           account : Account \cup {NoAccount}, read_error : BOOLEAN]]
    /\ held \in Value \cup {Corrupt}
    /\ imported \subseteq Account \X Value
    /\ asked \subseteq Account
    /\ failures \in 0..MaxFailures
-----------------------------------------------------------------------------
(* Properties. *)

\* Whatever accounts the wallet switches to while tasks wait, an account's
\* slot only ever holds its own secret or one its voter imported there: no
\* account inherits another one's identity from the cache.
SecretsStayWithTheirAccount ==
    \A a \in Account :
       storage[a].value \in {NoValue, Corrupt, derive_from_signature(a), Random(a)}
                            \cup {v \in Value : <<a, v>> \in imported}

\* A secret labelled recoverable from the wallet is: unless a storage call
\* failed, its value is the one the account's signature derives, in the cache
\* and in the notice on the page, after any overlap of imports, migrations and
\* resolutions.
OriginIsHonest ==
    failures = 0 =>
       /\ \A a \in Account :
             (is_recoverable_from_wallet(storage[a].tag) /\ parse_stored_value(storage[a]))
                => storage[a].value = derive_from_signature(a)
       /\ ProvenanceNotice = "restorable" =>
             shown.value = derive_from_signature(shown.account)

\* A random secret exists only in this browser: unless a storage call fails,
\* nothing but a request of its account's voter (import, migrate, forget) ever
\* replaces it.
RandomIsKept ==
    [][\A a \in Account :
          (failures' = 0 /\ storage[a].value = Random(a) /\
           storage'[a].value # Random(a)) => a \in asked']_vars

\* A secret that would not survive a reload carries the storage warning for as
\* long as it is shown ("never Some without the UI showing it"): without one,
\* and unless its voter asked to change it, the slot holds what the page shows.
UnsavedIsWarned ==
    (shown # Nothing /\ ~shown.warning /\ shown.account \notin asked)
        => storage[shown.account].value = shown.value
-----------------------------------------------------------------------------
(* Statements of the documentation the code does not keep. *)

\* The accountsChanged listener drops the secret "rather than let the new
\* account inherit the old one's secret": what is shown was resolved for the
\* connected account.  A task of the old account that ends afterwards shows
\* its secret under the new one, and the backup exported then is labelled with
\* the wrong account.
ShownIsTheAccounts == shown # Nothing => shown.account = address

\* resolve: "Never overwrites an existing secret".  It looked before it asked
\* the wallet; a secret imported meanwhile is overwritten.
ResolveNeverOverwrites ==
    [][\A t \in Task :
          (tasks[t].kind \in {"load", "use"} /\ tasks'[t] = Idle /\
           storage' # storage) =>
             ~parse_stored_value(storage[tasks[t].account])]_vars
=============================================================================
