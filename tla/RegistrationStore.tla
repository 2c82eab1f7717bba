------------------------- MODULE RegistrationStore -------------------------
(***************************************************************************)
(* The relayer's voter-registration store: the in-memory registry behind   *)
(* one async mutex, the JSON file it is persisted to through a temporary   *)
(* sibling and a rename, and the voters and admin tabs that call it.       *)
(*                                                                         *)
(* A mutating call takes the mutex, changes memory at once and holds the   *)
(* mutex through the three awaited file operations of write_atomic.  At    *)
(* each of them the operation may fail, the request may be dropped (the    *)
(* timeout layer, or a client that hangs up), or the process may crash.    *)
(* Memory is never rolled back.  A dropped request's file operation is     *)
(* already on the blocking pool and may still run later.                   *)
(*                                                                         *)
(* Lists are sets of commitments and a Merkle root is named by the list it *)
(* was computed from, so a list stored under its own root is               *)
(* snapshots[L] = L.  {} stands for "nothing": publish refuses an empty    *)
(* list, so {} in snapshots means the root is unknown.                     *)
(***************************************************************************)
EXTENDS Integers, FiniteSets

CONSTANTS
    Commitment,       \* identity commitments voters submit
    SourceOf,         \* SourceOf[c]: the network source submitting c
    Tab,              \* admin browser tabs
    RequireApproval,  \* REGISTRATION_REQUIRE_APPROVAL
    MaxPerSource,     \* REGISTRATION_MAX_PER_SOURCE
    MaxPending,       \* REGISTRATION_MAX_PENDING
    Inode,            \* files that can exist at once
    NoInode,          \* a path that names no file
    LateOps,          \* may a dropped request's file operation run late,
                      \* after another request has taken the mutex?
    MaxFaults,        \* bound: failed or dropped requests
    MaxCrashes        \* bound: process crashes

ASSUME StoreAssumption ==
    /\ RequireApproval \in BOOLEAN
    /\ LateOps \in BOOLEAN
    /\ MaxPerSource \in Nat
    /\ MaxPending \in Nat
    /\ NoInode \notin Inode
    /\ MaxFaults \in Nat
    /\ MaxCrashes \in Nat

List == SUBSET Commitment
Root == List
Entry == [commitment : Commitment, approved : BOOLEAN]
Store == [pending : SUBSET Entry, lastSnapshot : List,
          snapshots : [Root -> List]]

EmptyStore == [pending |-> {}, lastSnapshot |-> {},
               snapshots |-> [r \in Root |-> {}]]

VARIABLES
    up,            \* the relayer process runs
    mem,           \* Inner: what the mutex guards
    holder,        \* the request holding the mutex, at its next file operation
    late,          \* file operations of dropped requests, still to run
    data,          \* what each file holds
    tmp,           \* the file at <path>.tmp.<pid>
    target,        \* the file at <path>
    acked,         \* commitments whose voter was told "registered"
    tab,           \* tab[t]: the list the tab's last snapshot call returned
    rejectAsked,   \* commitments an admin asked to reject
    granted,       \* commitments approved and not yet drained or rejected
    superseded,    \* commitments of an unpublished last_snapshot a later
                   \* one replaced
    faults, crashes

process == <<up, mem, holder, late>>
files == <<data, tmp, target>>
clients == <<acked, tab, rejectAsked, granted, superseded>>
bounds == <<faults, crashes>>
vars == <<up, mem, holder, late, data, tmp, target, acked, tab,
          rejectAsked, granted, superseded, faults, crashes>>

\* A file is empty, holds one serialised store, or mixes two writers' bytes.
Empty == [kind |-> "empty", store |-> EmptyStore]
Mixed == [kind |-> "mixed", store |-> EmptyStore]
Whole(store) == [kind |-> "whole", store |-> store]

NoHolder == [kind |-> "none"]

CommitmentsOf(entries) == {e.commitment : e \in entries}

\* Mutant: the approval flag is not looked at.
EveryEntry(entries) == entries

Approved(entries) == {e \in entries : e.approved}

Init ==
    /\ up = TRUE
    /\ mem = EmptyStore
    /\ holder = NoHolder
    /\ late = {}
    /\ data = [i \in Inode |-> Empty]
    /\ tmp = NoInode
    /\ target = NoInode
    /\ acked = {}
    /\ tab = [t \in Tab |-> {}]
    /\ rejectAsked = {}
    /\ granted = {}
    /\ superseded = {}
    /\ faults = 0
    /\ crashes = 0
-----------------------------------------------------------------------------
(* The calls, up to the first file operation of persist. *)

\* The mutex is free.
Free == up /\ holder = NoHolder /\ (LateOps \/ late = {})

\* Change memory and start persist; `kind` and `arg` say whom to answer.
Persist(kind, arg, newMem) ==
    /\ mem' = newMem
    /\ holder' = [kind |-> kind, arg |-> arg, step |-> "create",
                  ino |-> NoInode]
    /\ UNCHANGED <<up, late, files, bounds>>

\* Mutant: the per-source count forgets the entries already approved.
FromSourceUnapproved(s) ==
    {e \in mem.pending : SourceOf[e.commitment] = s /\ ~e.approved}

FromSource(s) == {e \in mem.pending : SourceOf[e.commitment] = s}

\* A commitment already pending is refused as a duplicate, from memory alone.
register(c) ==
    /\ Free
    /\ c \notin CommitmentsOf(mem.pending)
    /\ Cardinality(mem.pending) < MaxPending
    /\ Cardinality(FromSource(SourceOf[c])) < MaxPerSource
    /\ Persist("register", c,
               [mem EXCEPT !.pending = @ \cup
                   {[commitment |-> c, approved |-> ~RequireApproval]}])
    /\ UNCHANGED clients

\* approve and approve_all persist only when an entry changes.
approve(cs) ==
    /\ Free
    /\ \E e \in mem.pending : e.commitment \in cs /\ ~e.approved
    /\ Persist("approve", cs,
               [mem EXCEPT !.pending =
                   {[e EXCEPT !.approved = @ \/ e.commitment \in cs] :
                       e \in mem.pending}])
    /\ granted' = granted \cup (cs \cap CommitmentsOf(mem.pending))
    /\ UNCHANGED <<acked, tab, rejectAsked, superseded>>

approve_all == approve(CommitmentsOf(mem.pending))

reject(cs) ==
    /\ Free
    /\ cs \cap CommitmentsOf(mem.pending) # {}
    /\ Persist("reject", cs,
               [mem EXCEPT !.pending = {e \in @ : e.commitment \notin cs}])
    /\ rejectAsked' = rejectAsked \cup cs
    /\ UNCHANGED <<acked, tab, granted, superseded>>

\* Commitments in the lists voters are served.
Published(store) == UNION {store.snapshots[r] : r \in Root}

\* Drain the approved entries into last_snapshot, replacing what was there.
\* Refused only when something is pending and nothing of it is approved.
snapshot(t) ==
    LET taken == CommitmentsOf(Approved(mem.pending)) IN
    /\ Free
    /\ taken # {} \/ mem.pending = {}
    /\ Persist("snapshot", t,
               [mem EXCEPT !.pending = @ \ Approved(@),
                           !.lastSnapshot = taken])
    /\ tab' = [tab EXCEPT ![t] = {}]
    /\ superseded' = superseded \cup
                        (mem.lastSnapshot \ (taken \cup Published(mem)))
    /\ UNCHANGED <<acked, rejectAsked, granted>>

\* The tab computed the root of the list it was given and publishes it.
publish(t) ==
    /\ Free
    /\ tab[t] # {}
    /\ mem.lastSnapshot # {}
    /\ Persist("publish", t,
               [mem EXCEPT !.snapshots[tab[t]] = mem.lastSnapshot])
    /\ UNCHANGED clients
-----------------------------------------------------------------------------
(* write_atomic: create the temporary file, write and sync it, rename it.   *)
(* Each is one job of the blocking pool, and each names its file by path or *)
(* by the handle it opened.                                                 *)

\* Files a left-over write still has open: their inodes are not reused.
Open == {op.ino : op \in late}

\* What becomes of the contents when the name of file i is taken away.
Unlinked(i) == [f \in Inode |-> IF f = i THEN Empty ELSE data[f]]

\* Mutant: the file is rewritten in place.
CreateInPlace(i) ==
    /\ IF target = NoInode THEN i \notin Open ELSE i = target
    /\ tmp' = i
    /\ data' = [data EXCEPT ![i] = Empty]
    /\ UNCHANGED target

\* File::create truncates the file at the temporary path or makes one.
CreateAt(i) ==
    /\ \/ i = tmp
       \/ tmp = NoInode /\ i \in Inode \ ({target} \cup Open)
    /\ tmp' = i
    /\ data' = [data EXCEPT ![i] = Empty]
    /\ UNCHANGED target

\* Writing from offset 0 into a file another writer has written since leaves
\* either the new bytes or, when they are fewer, a mixture.
WriteTo(i, store) ==
    /\ \E file \in IF data[i] = Empty THEN {Whole(store)}
                   ELSE {Whole(store), Mixed} :
          data' = [data EXCEPT ![i] = file]
    /\ UNCHANGED <<tmp, target>>

\* rename moves whatever file is at the temporary path over the target.
RenameTmp ==
    /\ tmp # NoInode
    /\ target' = tmp
    /\ tmp' = NoInode
    /\ data' = Unlinked(target)

Advance(step, i) ==
    /\ holder' = [holder EXCEPT !.step = step, !.ino = i]
    /\ UNCHANGED <<up, mem, late, clients, bounds>>

FsCreate ==
    /\ holder # NoHolder
    /\ holder.step = "create"
    /\ \E i \in Inode : CreateAt(i) /\ Advance("write", i)

FsWrite ==
    /\ holder # NoHolder
    /\ holder.step = "write"
    /\ WriteTo(holder.ino, mem)
    /\ Advance("rename", holder.ino)

\* What the caller learns from a 200.  A drained or rejected commitment that
\* is registered again is a new registration, to be approved anew.
Answer ==
    CASE holder.kind = "register" ->
            /\ acked' = acked \cup {holder.arg}
            /\ rejectAsked' = rejectAsked \ {holder.arg}
            /\ superseded' = superseded \ {holder.arg}
            /\ UNCHANGED <<tab, granted>>
      [] holder.kind = "snapshot" ->
            /\ tab' = [tab EXCEPT ![holder.arg] = mem.lastSnapshot]
            /\ granted' = granted \ mem.lastSnapshot
            /\ UNCHANGED <<acked, rejectAsked, superseded>>
      [] holder.kind = "reject" ->
            /\ granted' = granted \ holder.arg
            /\ UNCHANGED <<acked, tab, rejectAsked, superseded>>
      [] OTHER -> UNCHANGED clients

FsRename ==
    /\ holder # NoHolder
    /\ holder.step = "rename"
    /\ RenameTmp
    /\ Answer
    /\ holder' = NoHolder
    /\ UNCHANGED <<up, mem, late, bounds>>

\* Mutant: a failed write is logged and the request answered all the same.
FsFailForgotten ==
    /\ holder # NoHolder
    /\ faults < MaxFaults /\ faults' = faults + 1
    /\ Answer
    /\ holder' = NoHolder
    /\ UNCHANGED <<up, mem, late, files, crashes>>

\* A file operation fails: the caller gets an error, memory keeps the change,
\* and after a failed rename the temporary file is removed.
FsFail ==
    /\ holder # NoHolder
    /\ \/ faults < MaxFaults /\ faults' = faults + 1     \* bound MaxFaults
       \/ holder.step = "rename" /\ tmp = NoInode /\ UNCHANGED faults
    /\ IF holder.step = "rename"
       THEN tmp' = NoInode /\ data' = Unlinked(tmp)
       ELSE UNCHANGED <<tmp, data>>
    /\ holder' = NoHolder
    /\ UNCHANGED <<up, mem, late, target, clients, crashes>>

\* The request future is dropped, releasing the mutex.  Its current file
\* operation was not started yet, or is left to the blocking pool.
Drop ==
    /\ holder # NoHolder
    /\ faults < MaxFaults                                \* bound MaxFaults
    /\ faults' = faults + 1
    /\ \/ UNCHANGED late
       \/ late' = late \cup {[step |-> holder.step, ino |-> holder.ino,
                              store |-> mem]}
    /\ holder' = NoHolder
    /\ UNCHANGED <<up, mem, files, clients, crashes>>

\* A left-over file operation runs, or fails; nobody waits for its result.
LateStep ==
    /\ \E op \in late :
          /\ late' = late \ {op}
          /\ \/ op.step = "create" /\ \E i \in Inode : CreateAt(i)
             \/ op.step = "write" /\ WriteTo(op.ino, op.store)
             \/ op.step = "rename" /\ RenameTmp
             \/ UNCHANGED files
    /\ UNCHANGED <<up, mem, holder, clients, bounds>>
-----------------------------------------------------------------------------
(* Crash and load. *)

\* The next process has another pid, hence another temporary path, or the
\* same one (a container, where the pid repeats).
Crash ==
    /\ up
    /\ crashes < MaxCrashes                              \* bound MaxCrashes
    /\ crashes' = crashes + 1
    /\ up' = FALSE
    /\ mem' = EmptyStore
    /\ holder' = NoHolder
    /\ late' = {}
    /\ \/ UNCHANGED <<tmp, data>>
       \/ tmp' = NoInode /\ data' = Unlinked(tmp)
    /\ UNCHANGED <<target, clients, faults>>

\* load: no file is a new store; a file that does not parse is fatal.
load ==
    /\ ~up
    /\ \/ target = NoInode /\ UNCHANGED mem
       \/ /\ target # NoInode
          /\ data[target].kind = "whole"
          /\ mem' = data[target].store
    /\ up' = TRUE
    /\ UNCHANGED <<holder, late, files, clients, bounds>>
-----------------------------------------------------------------------------
Next ==
    \/ \E c \in Commitment : register(c)
    \/ \E cs \in List : approve(cs) \/ reject(cs)
    \/ approve_all
    \/ \E t \in Tab : snapshot(t) \/ publish(t)
    \/ FsCreate \/ FsWrite \/ FsRename \/ FsFail
    \/ Drop \/ LateStep
    \/ Crash \/ load

Spec == Init /\ [][Next]_vars

Steps == {"create", "write", "rename"}
OpenFile == Inode \cup {NoInode}

\* A request that holds the mutex, by what its answer needs to know.
Holder(kinds, args) == [kind : kinds, arg : args, step : Steps, ino : OpenFile]
Holders == Holder({"register"}, Commitment) \cup Holder({"approve", "reject"}, List)
              \cup Holder({"snapshot", "publish"}, Tab)

TypeOK ==
    /\ up \in BOOLEAN
    /\ mem \in Store
    /\ holder \in Holders \cup {NoHolder}
    /\ late \subseteq [step : Steps, ino : OpenFile, store : Store]
    /\ data \in [Inode -> [kind : {"empty", "mixed", "whole"}, store : Store]]
    /\ tmp \in OpenFile
    /\ target \in OpenFile
    /\ acked \in List
    /\ tab \in [Tab -> List]
    /\ rejectAsked \in List
    /\ granted \in List
    /\ superseded \in List
    /\ faults \in 0..MaxFaults
    /\ crashes \in 0..MaxCrashes
-----------------------------------------------------------------------------
(* Properties. *)

\* What a restart would find: the store in the target file.
Disk == IF target = NoInode THEN EmptyStore ELSE data[target].store
Lists(store) == {store.lastSnapshot} \cup {store.snapshots[r] : r \in Root}
Holds(store) == CommitmentsOf(store.pending) \cup UNION Lists(store)

\* "A crash mid-write leaves either the old file or the new one": at every
\* moment the file a restart would load is one complete store.
FileIsWhole == target # NoInode => data[target].kind = "whole"

\* An acknowledged registration is on disk for good, unless an admin rejected
\* it or its snapshot was replaced before it was published: no failed write,
\* dropped request, crash or restart loses it.
NoUnexplainedLoss ==
    acked \subseteq Holds(Disk) \cup rejectAsked \cup superseded

\* With approval required, a list that can become an electorate holds only
\* commitments an admin approved since they were last drained or rejected: a
\* retry, a failed write, a restart or a second registration never carries an
\* unreviewed commitment into last_snapshot or snapshots.
OnlyApprovedEnter ==
    [][RequireApproval =>
          \A list \in Lists(mem') \ (Lists(mem) \cup Lists(Disk)) :
             list \subseteq granted]_vars

\* No electorate holds more than MaxPerSource commitments of one source: the
\* cap on the pending batch carries over to every list drained from it.
SourceCapHolds ==
    \A list \in Lists(mem) \cup Lists(Disk), c \in Commitment :
       Cardinality({d \in list : SourceOf[d] = SourceOf[c]}) <= MaxPerSource
-----------------------------------------------------------------------------
(* Statements of the documentation the code does not keep. *)

\* Module header: "a registration the voter was told succeeded, but which is
\* not on disk, is worse than an error they can retry".  A second snapshot
\* before publish empties last_snapshot and the registrations are nowhere.
AckedIsOnDisk == acked \subseteq Holds(Disk) \cup rejectAsked

\* Same sentence, the retry: any commitment in memory is answered "already
\* registered" once the mutex is free.  After a failed write the file does
\* not hold it, and the retry never writes it.
DuplicateIsOnDisk == Free => CommitmentsOf(mem.pending) \subseteq Holds(Disk)
=============================================================================
