------------------------- MODULE Registration_proofs -------------------------
(***************************************************************************)
(* Proofs about the registration store, for any commitments, files, faults *)
(* and crashes: the file a restart loads is one complete store, nothing    *)
(* acknowledged is lost without an admin's doing, only what an admin       *)
(* approved becomes an electorate, and no electorate exceeds the source    *)
(* cap.  Then about the eligibility policies and the admin page in front   *)
(* of it, which use the store as its specification says: no invite code    *)
(* enrolls more than its uses, nothing unseen is ever approved, and a root *)
(* in the form has its voters on disk.                                     *)
(*                                                                         *)
(* Where InTime is assumed, they rest on what the code does not enforce:   *)
(* that a dropped request's file operation is over before the next request *)
(* begins; OneTab, that one admin tab builds whitelists.                   *)
(***************************************************************************)
EXTENDS RegistrationPanel, FiniteSetTheorems, TLAPS

InTime == ~LateOps
OneTab == \A t, u \in Tab : t = u

(* A request that changes memory and starts to persist it.                    *)
Call ==
    \/ \E c \in Commitment : register(c)
    \/ \E cs \in List : approve(cs) \/ reject(cs)
    \/ \E t \in Tab : snapshot(t) \/ publish(t)

\* The commitments of a store are commitments, whatever list holds them.
LEMMA CommitmentsOfStore ==
  ASSUME NEW store \in Store
  PROVE  /\ CommitmentsOf(store.pending) \in List
         /\ CommitmentsOf(Approved(store.pending)) \in List
  BY DEF Store, Entry, List, CommitmentsOf, Approved

(* approve_all approves a list like any other.                                *)
LEMMA NextIsCall ==
  ASSUME TypeOK, Next
  PROVE  \/ Call
         \/ FsCreate \/ FsWrite \/ FsRename \/ FsFail
         \/ Drop \/ LateStep
         \/ Crash \/ load
  BY CommitmentsOfStore DEF Next, Call, approve_all, TypeOK

\* The store of a first start.
LEMMA EmptyStoreType == EmptyStore \in Store
  BY DEF EmptyStore, Store, Root, List, Entry
-----------------------------------------------------------------------------
(* Types. *)

\* What a call that succeeds makes of the store is a store.
LEMMA PersistType ==
  ASSUME TypeOK, NEW kind, NEW arg, NEW newMem \in Store,
         Persist(kind, arg, newMem),
         [kind |-> kind, arg |-> arg, step |-> "create", ino |-> NoInode] \in Holders
  PROVE  /\ up' \in BOOLEAN /\ mem' \in Store /\ holder' \in Holders
         /\ UNCHANGED <<up, late, files, bounds>>
  BY DEF Persist, TypeOK, bounds

\* A call keeps the types of the memory and of its file operation.
LEMMA CallType ==
  ASSUME TypeOK, Call
  PROVE  TypeOK'
<1> USE DEF TypeOK, Holders, Holder, Steps, OpenFile
<1>1. ASSUME NEW c \in Commitment, register(c)
      PROVE  TypeOK'
  <2>0. [commitment |-> c, approved |-> ~RequireApproval] \in Entry
    BY StoreAssumption DEF Entry
  <2>1. [mem EXCEPT !.pending = @ \cup
            {[commitment |-> c, approved |-> ~RequireApproval]}] \in Store
    BY <2>0 DEF Store
  <2> QED
    BY <1>1, <2>1 DEF register, Persist, files, bounds, clients
<1>2. ASSUME NEW cs \in List, approve(cs)
      PROVE  TypeOK'
  <2>0. mem.pending \subseteq Entry
    BY DEF Store
  <2>1. \A e \in Entry : [e EXCEPT !.approved = @ \/ e.commitment \in cs] \in Entry
    BY DEF Entry
  <2>2. [mem EXCEPT !.pending = {[e EXCEPT !.approved = @ \/ e.commitment \in cs] :
                                    e \in mem.pending}] \in Store
    BY <2>0, <2>1 DEF Store
  <2>3. granted' \in List
    BY <1>2 DEF approve, List
  <2> QED
    BY <1>2, <2>2, <2>3 DEF approve, Persist, files, bounds
<1>3. ASSUME NEW cs \in List, reject(cs)
      PROVE  TypeOK'
  <2>1. [mem EXCEPT !.pending = {e \in @ : e.commitment \notin cs}] \in Store
    BY DEF Store
  <2>2. rejectAsked' \in List
    BY <1>3 DEF reject, List
  <2> QED
    BY <1>3, <2>1, <2>2 DEF reject, Persist, files, bounds
<1>4. ASSUME NEW t \in Tab, snapshot(t)
      PROVE  TypeOK'
  <2>1. [mem EXCEPT !.pending = @ \ Approved(@),
                    !.lastSnapshot = CommitmentsOf(Approved(mem.pending))] \in Store
    BY CommitmentsOfStore DEF Store
  <2>2. superseded' \in List /\ tab' \in [Tab -> List]
    BY <1>4 DEF snapshot, List, Store
  <2> QED
    BY <1>4, <2>1, <2>2 DEF snapshot, Persist, files, bounds
<1>5. ASSUME NEW t \in Tab, publish(t)
      PROVE  TypeOK'
  <2>1. [mem EXCEPT !.snapshots[tab[t]] = mem.lastSnapshot] \in Store
    BY DEF Store, Root
  <2> QED
    BY <1>5, <2>1 DEF publish, Persist, files, bounds, clients
<1> QED
  BY <1>1, <1>2, <1>3, <1>4, <1>5 DEF Call

\* Every file operation keeps the types of the files.
LEMMA FilesType ==
  ASSUME TypeOK
  PROVE  /\ \A i \in OpenFile : Unlinked(i) \in [Inode -> [kind : {"empty", "mixed", "whole"}, store : Store]]
         /\ \A i \in Inode : CreateAt(i) =>
               /\ data' \in [Inode -> [kind : {"empty", "mixed", "whole"}, store : Store]]
               /\ tmp' \in OpenFile /\ target' \in OpenFile
         /\ \A i \in OpenFile, store \in Store : WriteTo(i, store) =>
               /\ data' \in [Inode -> [kind : {"empty", "mixed", "whole"}, store : Store]]
               /\ tmp' \in OpenFile /\ target' \in OpenFile
         /\ RenameTmp =>
               /\ data' \in [Inode -> [kind : {"empty", "mixed", "whole"}, store : Store]]
               /\ tmp' \in OpenFile /\ target' \in OpenFile
<1> DEFINE File == [kind : {"empty", "mixed", "whole"}, store : Store]
<1>1. Empty \in File /\ \A store \in Store : Whole(store) \in File /\ Mixed \in File
  BY EmptyStoreType DEF Empty, Whole, Mixed
<1> HIDE DEF File
<1>2. data \in [Inode -> File] /\ tmp \in OpenFile /\ target \in OpenFile
  BY DEF TypeOK, File
<1>3. \A i \in OpenFile : Unlinked(i) \in [Inode -> File]
  BY <1>1, <1>2 DEF Unlinked
<1>4. ASSUME NEW i \in Inode, CreateAt(i)
      PROVE  data' \in [Inode -> File] /\ tmp' \in OpenFile /\ target' \in OpenFile
  BY <1>1, <1>2, <1>4 DEF CreateAt, OpenFile
<1>5. ASSUME NEW i \in OpenFile, NEW store \in Store, WriteTo(i, store)
      PROVE  data' \in [Inode -> File] /\ tmp' \in OpenFile /\ target' \in OpenFile
  BY <1>1, <1>2, <1>5 DEF WriteTo
<1>6. ASSUME RenameTmp
      PROVE  data' \in [Inode -> File] /\ tmp' \in OpenFile /\ target' \in OpenFile
  BY <1>2, <1>3, <1>6 DEF RenameTmp, OpenFile
<1> QED
  BY <1>3, <1>4, <1>5, <1>6 DEF File

\* The next file operation keeps the type of the request that owns the mutex.
LEMMA AdvanceType ==
  ASSUME TypeOK, holder # NoHolder, NEW step \in Steps, NEW i \in OpenFile,
         Advance(step, i)
  PROVE  holder' \in Holders
<1>1. holder \in Holders /\ holder' = [holder EXCEPT !.step = step, !.ino = i]
  BY DEF TypeOK, Advance
<1>2. ASSUME NEW kinds, NEW args, holder \in Holder(kinds, args)
      PROVE  holder' \in Holder(kinds, args)
  BY <1>1, <1>2 DEF Holder
<1> QED
  BY <1>1, <1>2 DEF Holders

\* A request that owns the mutex has a file or none.
LEMMA HolderFile ==
  ASSUME TypeOK, holder # NoHolder
  PROVE  holder.ino \in OpenFile
  BY DEF TypeOK, Holders, Holder

\* The answer a call ends with keeps the types of what its client knows.
LEMMA AnswerType ==
  ASSUME TypeOK, holder \in Holders, Answer
  PROVE  /\ acked' \in List /\ tab' \in [Tab -> List]
         /\ rejectAsked' \in List /\ granted' \in List /\ superseded' \in List
  BY DEF TypeOK, Answer, Holders, Holder, clients, List, Store

\* The type invariant is inductive.
LEMMA TypeStep == TypeOK /\ [Next]_vars => TypeOK'
<1> SUFFICES ASSUME TypeOK, [Next]_vars PROVE TypeOK'
  OBVIOUS
<1>1. CASE UNCHANGED vars
  BY <1>1 DEF vars, TypeOK
<1>2. CASE Call
  BY <1>2, CallType
<1>3. CASE FsCreate
  <2>1. PICK i \in Inode : CreateAt(i) /\ Advance("write", i)
    BY <1>3 DEF FsCreate
  <2>2. holder' \in Holders
    BY <1>3, <2>1, AdvanceType DEF FsCreate, Steps, OpenFile
  <2> QED
    BY <2>1, <2>2, FilesType DEF TypeOK, Advance, clients, bounds
<1>4. CASE FsWrite
  <2>1. holder.ino \in OpenFile /\ mem \in Store
    BY <1>4, HolderFile DEF FsWrite, TypeOK
  <2>2. holder' \in Holders
    BY <1>4, <2>1, AdvanceType DEF FsWrite, Steps
  <2> QED
    BY <1>4, <2>1, <2>2, FilesType DEF FsWrite, TypeOK, Advance, clients, bounds
<1>5. CASE FsRename
  BY <1>5, FilesType, AnswerType DEF FsRename, TypeOK, bounds
<1>6. CASE FsFail
  <2>1. faults' \in 0..MaxFaults
    BY <1>6, StoreAssumption DEF FsFail, TypeOK
  <2> QED
    BY <1>6, <2>1, FilesType DEF FsFail, TypeOK, OpenFile, clients
<1>7. CASE Drop
  <2>1. faults' \in 0..MaxFaults
    BY <1>7, StoreAssumption DEF Drop, TypeOK
  <2>2. late' \subseteq [step : Steps, ino : OpenFile, store : Store]
    BY <1>7 DEF Drop, TypeOK, Holders, Holder
  <2> QED
    BY <1>7, <2>1, <2>2 DEF Drop, TypeOK, files, clients
<1>8. CASE LateStep
  BY <1>8, FilesType DEF LateStep, TypeOK, files, clients, bounds
<1>9. CASE Crash
  <2>1. crashes' \in 0..MaxCrashes
    BY <1>9, StoreAssumption DEF Crash, TypeOK
  <2> QED
    BY <1>9, <2>1, FilesType, EmptyStoreType DEF Crash, TypeOK, OpenFile, clients
<1>10. CASE load
  BY <1>10 DEF load, TypeOK, OpenFile, files, clients, bounds
<1> QED
  BY <1>1, <1>2, <1>3, <1>4, <1>5, <1>6, <1>7, <1>8, <1>9, <1>10, NextIsCall

(* The store, its files and what its callers were told keep their types,      *)
(* whatever fails, is dropped or crashes.                                     *)
THEOREM TypeCorrect == Spec => []TypeOK
<1>1. Init => TypeOK
  BY StoreAssumption, EmptyStoreType
  DEF Init, TypeOK, OpenFile, Empty, List
<1> QED
  BY <1>1, TypeStep, PTL DEF Spec
-----------------------------------------------------------------------------
(* The file. *)

\* A file operation that is still to run finds its file as the one before it
\* left it, and memory as it was.
Ready(step, i) ==
    /\ step # "create" => i = tmp /\ tmp # NoInode
    /\ step = "write" => data[tmp] = Empty
    /\ step = "rename" => data[tmp] = Whole(mem)

\* At most one file operation is under way: the holder's, or one of a dropped
\* request while nobody holds the mutex.
FileInv ==
    /\ FileIsWhole
    /\ tmp # NoInode => tmp # target
    /\ ~up => holder = NoHolder /\ late = {} /\ mem = EmptyStore
    /\ holder # NoHolder => late = {} /\ Ready(holder.step, holder.ino)
    /\ \A op \in late : Ready(op.step, op.ino) /\ op.store = mem
    /\ \A op1, op2 \in late : op1 = op2

\* What a step may do to memory and to what a restart would find: nothing; a
\* call changes memory alone; a rename makes the file equal to memory; a crash
\* forgets memory and load reads it back.
Untouched == UNCHANGED <<up, mem>> /\ Disk' = Disk
Renamed == up /\ UNCHANGED <<up, mem>> /\ Disk' = mem

\* A file just created is not a written one.
LEMMA EmptyIsNotWhole == Empty.kind # "whole" /\ \A store : Whole(store).kind = "whole"
  BY DEF Empty, Whole

\* Creating the temporary file leaves the store file alone.
LEMMA CreateStep ==
  ASSUME TypeOK, FileInv, NEW i \in Inode, CreateAt(i)
  PROVE  /\ FileIsWhole' /\ (tmp # NoInode => tmp # target)'
         /\ tmp' = i /\ i # NoInode /\ data'[i] = Empty
         /\ Disk' = Disk
  BY StoreAssumption DEF TypeOK, FileInv, FileIsWhole, CreateAt, Disk, OpenFile

\* So does writing it.
LEMMA WriteStep ==
  ASSUME TypeOK, FileInv, tmp # NoInode, data[tmp] = Empty,
         NEW store, WriteTo(tmp, store)
  PROVE  /\ FileIsWhole' /\ UNCHANGED <<tmp, target>>
         /\ data'[tmp] = Whole(store)
         /\ Disk' = Disk
  BY StoreAssumption DEF TypeOK, FileInv, FileIsWhole, WriteTo, Disk, OpenFile

\* The rename puts a whole file in place of a whole file.
LEMMA RenameStep ==
  ASSUME TypeOK, FileInv, tmp # NoInode, data[tmp] = Whole(mem), RenameTmp
  PROVE  /\ FileIsWhole' /\ tmp' = NoInode
         /\ Disk' = mem
<1>1. tmp \in Inode /\ target' = tmp /\ data'[tmp] = data[tmp]
  BY StoreAssumption DEF TypeOK, FileInv, RenameTmp, Unlinked, OpenFile
<1> QED
  BY <1>1, StoreAssumption DEF FileIsWhole, Disk, Whole, RenameTmp

\* Removing a temporary file leaves the store file alone.
LEMMA UnlinkStep ==
  ASSUME TypeOK, FileInv, tmp' = NoInode, data' = Unlinked(tmp), UNCHANGED target
  PROVE  FileIsWhole' /\ Disk' = Disk
  BY StoreAssumption DEF TypeOK, FileInv, FileIsWhole, Unlinked, Disk, OpenFile

\* No call touches the files before its first file operation.
LEMMA CallKeepsFile ==
  ASSUME InTime, TypeOK, FileInv, Call
  PROVE  /\ FileInv' /\ Free
         /\ UNCHANGED <<up, files>> /\ Disk' = Disk
<1>1. Free /\ late = {}
  BY DEF Call, register, approve, reject, snapshot, publish, Free, InTime
<1>2. PICK kind, arg : Persist(kind, arg, mem')
  BY DEF Call, register, approve, reject, snapshot, publish, Persist
<1>3. holder'.step = "create" /\ UNCHANGED <<up, late, data, tmp, target>>
  BY <1>2 DEF Persist, files
<1> QED
  BY <1>1, <1>3 DEF FileInv, FileIsWhole, Free, Ready, Disk, files

\* The invariant of the files is inductive while no operation outlives its call.
LEMMA FilesStep ==
  ASSUME InTime, TypeOK, FileInv, [Next]_vars
  PROVE  /\ FileInv'
         /\ \/ Untouched \/ Renamed
            \/ Call /\ Free /\ Disk' = Disk /\ up'
            \/ ~up' /\ Disk' = Disk
            \/ ~up /\ Disk' = Disk /\ mem' = Disk
<1>1. CASE UNCHANGED vars
  BY <1>1 DEF vars, FileInv, FileIsWhole, Ready, Untouched, Disk
<1>2. CASE Call
  BY <1>2, CallKeepsFile DEF Free
<1>3. CASE FsCreate
  <2>1. PICK i \in Inode : CreateAt(i) /\ Advance("write", i)
    BY <1>3 DEF FsCreate
  <2>2. holder # NoHolder /\ late = {} /\ up
    BY <1>3 DEF FsCreate, FileInv
  <2>3. holder'.step = "write" /\ holder'.ino = i /\ UNCHANGED <<up, mem, late>>
    BY <2>1, <1>3 DEF Advance, FsCreate, TypeOK, Holders, Holder
  <2> QED
    BY <2>1, <2>2, <2>3, CreateStep DEF FileInv, Ready, Untouched
<1>4. CASE FsWrite
  <2>1. /\ holder # NoHolder /\ late = {} /\ up /\ Ready("write", holder.ino)
        /\ WriteTo(holder.ino, mem) /\ Advance("rename", holder.ino)
    BY <1>4 DEF FsWrite, FileInv
  <2>2. /\ holder'.step = "rename" /\ holder'.ino = holder.ino
        /\ UNCHANGED <<up, mem, late>>
    BY <1>4, <2>1 DEF Advance, FsWrite, TypeOK, Holders, Holder
  <2> QED
    BY <2>1, <2>2, WriteStep DEF FileInv, Ready, Untouched
<1>5. CASE FsRename
  <2>1. /\ holder # NoHolder /\ late = {} /\ up /\ Ready("rename", holder.ino)
        /\ RenameTmp /\ holder' = NoHolder /\ UNCHANGED <<up, mem, late>>
    BY <1>5 DEF FsRename, FileInv
  <2> QED
    BY <2>1, RenameStep DEF FileInv, Ready, Renamed
<1>6. CASE FsFail
  <2>1. /\ holder # NoHolder /\ late = {} /\ up
        /\ holder' = NoHolder /\ UNCHANGED <<up, mem, late, target>>
    BY <1>6 DEF FsFail, FileInv
  <2>2. CASE UNCHANGED <<tmp, data>>
    BY <2>1, <2>2 DEF FileInv, FileIsWhole, Untouched, Disk
  <2>3. CASE tmp' = NoInode /\ data' = Unlinked(tmp)
    BY <2>1, <2>3, UnlinkStep DEF FileInv, Untouched
  <2> QED
    BY <1>6, <2>2, <2>3 DEF FsFail
<1>7. CASE Drop
  <2>1. /\ holder # NoHolder /\ late = {} /\ up /\ Ready(holder.step, holder.ino)
        /\ late' \subseteq {[step |-> holder.step, ino |-> holder.ino, store |-> mem]}
        /\ holder' = NoHolder /\ UNCHANGED <<up, mem, data, tmp, target>>
    BY <1>7 DEF Drop, FileInv, files
  <2> QED
    BY <2>1 DEF FileInv, FileIsWhole, Ready, Untouched, Disk
<1>8. CASE LateStep
  <2>1. PICK op \in late :
          /\ late' = late \ {op}
          /\ \/ op.step = "create" /\ \E i \in Inode : CreateAt(i)
             \/ op.step = "write" /\ WriteTo(op.ino, op.store)
             \/ op.step = "rename" /\ RenameTmp
             \/ UNCHANGED files
    BY <1>8 DEF LateStep
  <2>2. /\ late' = {} /\ holder = NoHolder /\ up /\ UNCHANGED <<up, mem, holder>>
        /\ Ready(op.step, op.ino) /\ op.store = mem
    BY <1>8, <2>1 DEF LateStep, FileInv
  <2>3. CASE \E i \in Inode : CreateAt(i)
    BY <2>2, <2>3, CreateStep DEF FileInv, Untouched
  <2>4. CASE op.step = "write" /\ WriteTo(op.ino, op.store)
    BY <2>2, <2>4, WriteStep DEF FileInv, Ready, Untouched
  <2>5. CASE op.step = "rename" /\ RenameTmp
    BY <2>2, <2>5, RenameStep DEF FileInv, Ready, Renamed
  <2>6. CASE UNCHANGED files
    BY <2>2, <2>6 DEF FileInv, FileIsWhole, files, Untouched, Disk
  <2> QED
    BY <2>1, <2>3, <2>4, <2>5, <2>6
<1>9. CASE Crash
  <2>1. /\ up' = FALSE /\ holder' = NoHolder /\ late' = {} /\ mem' = EmptyStore
        /\ UNCHANGED target
    BY <1>9 DEF Crash
  <2>2. CASE UNCHANGED <<tmp, data>>
    BY <2>1, <2>2 DEF FileInv, FileIsWhole, Disk
  <2>3. CASE tmp' = NoInode /\ data' = Unlinked(tmp)
    BY <2>1, <2>3, UnlinkStep DEF FileInv
  <2> QED
    BY <1>9, <2>2, <2>3 DEF Crash
<1>10. CASE load
  <2>1. ~up /\ up' /\ UNCHANGED <<holder, late, data, tmp, target>> /\ mem' = Disk
    BY <1>10 DEF load, FileInv, Disk, files
  <2> QED
    BY <2>1 DEF FileInv, FileIsWhole, Disk
<1> QED
  BY <1>1, <1>2, <1>3, <1>4, <1>5, <1>6, <1>7, <1>8, <1>9, <1>10, NextIsCall

\* The files, in every behaviour.
LEMMA FileInductive == ASSUME InTime PROVE Spec => [](TypeOK /\ FileInv)
<1>1. Init => FileInv
  BY DEF Init, FileInv, FileIsWhole
<1>2. TypeOK /\ FileInv /\ [Next]_vars => FileInv'
  BY FilesStep
<1> QED
  BY <1>1, <1>2, TypeCorrect, PTL DEF Spec

(* Whatever fails or crashes between create, write and rename, the file a     *)
(* restart loads is one complete store.                                       *)
THEOREM FileStaysWhole == ASSUME InTime PROVE Spec => []FileIsWhole
<1>1. FileInv => FileIsWhole
  BY DEF FileInv
<1> QED
  BY <1>1, FileInductive, PTL
-----------------------------------------------------------------------------
(* Lists and roots. *)

\* Every list that is served is the one its root was computed from.
Faithful(store) == \A r \in Root : store.snapshots[r] \in {{}, r}

\* A tab that holds a list holds the latest one, in memory and on disk: what it
\* publishes is what it computed the root of.
ListsInv ==
    /\ Faithful(mem) /\ Faithful(Disk)
    /\ \A t \in Tab : tab[t] # {} =>
          /\ Disk.lastSnapshot = tab[t]
          /\ up => mem.lastSnapshot = tab[t]

\* What a restart would read is a store.
LEMMA DiskType == ASSUME TypeOK PROVE Disk \in Store
  BY EmptyStoreType DEF TypeOK, Disk, OpenFile

\* What the callers are told changes with a call and with the answer alone.
LEMMA ClientsStep ==
  ASSUME InTime, TypeOK, FileInv, [Next]_vars
  PROVE  \/ Call
         \/ FsRename /\ Renamed
         \/ ~FsRename /\ UNCHANGED clients
<1>1. CASE FsRename
  <2>1. /\ holder # NoHolder /\ late = {} /\ up /\ Ready("rename", holder.ino)
        /\ RenameTmp /\ UNCHANGED <<up, mem>>
    BY <1>1 DEF FsRename, FileInv
  <2> QED
    BY <1>1, <2>1, RenameStep DEF Ready, Renamed
<1>2. CASE ~FsRename
  BY <1>2, NextIsCall
  DEF vars, clients, FsCreate, FsWrite, Advance, FsFail, Drop, LateStep, Crash, load
<1> QED
  BY <1>1, <1>2

\* A published snapshot carries the list it was taken of.
LEMMA PublishesItsList ==
  ASSUME TypeOK, ListsInv, NEW t \in Tab, publish(t)
  PROVE  /\ mem'.snapshots = [mem.snapshots EXCEPT ![tab[t]] = tab[t]]
         /\ mem'.pending = mem.pending /\ mem'.lastSnapshot = mem.lastSnapshot
         /\ tab[t] \in Root /\ mem.snapshots[tab[t]] \in {{}, tab[t]}
<1>1. tab[t] \in Root /\ mem.lastSnapshot = tab[t]
  BY DEF TypeOK, ListsInv, publish, Free, Root
<1>2. mem' = [mem EXCEPT !.snapshots[tab[t]] = mem.lastSnapshot]
  BY DEF publish, Persist
<1> QED
  BY <1>1, <1>2 DEF TypeOK, ListsInv, Faithful, Store

\* Roots stay with their lists, in memory and on disk.
LEMMA ListsStep ==
  ASSUME InTime, OneTab, TypeOK, FileInv, ListsInv, [Next]_vars
  PROVE  ListsInv'
<1>1. CASE Call
  <2>0. Disk' = Disk /\ up /\ up'
    BY <1>1, CallKeepsFile DEF Free
  <2>1. ASSUME NEW c \in Commitment, register(c)
        PROVE  ListsInv'
    BY <2>0, <2>1 DEF register, Persist, clients, ListsInv, Faithful, TypeOK, Store
  <2>2. ASSUME NEW cs \in List, approve(cs) \/ reject(cs)
        PROVE  ListsInv'
    BY <2>0, <2>2 DEF approve, reject, Persist, ListsInv, Faithful, TypeOK, Store
  <2>3. ASSUME NEW t \in Tab, snapshot(t)
        PROVE  ListsInv'
    <3>1. mem'.snapshots = mem.snapshots
      BY <2>3 DEF snapshot, Persist, TypeOK, Store
    <3>2. \A u \in Tab : tab'[u] = {}
      BY <2>3 DEF snapshot, TypeOK, OneTab
    <3> QED
      BY <2>0, <3>1, <3>2 DEF ListsInv, Faithful
  <2>4. ASSUME NEW t \in Tab, publish(t)
        PROVE  ListsInv'
    <3>1. Faithful(mem)'
      <4>1. mem.snapshots \in [Root -> List] /\ Faithful(mem)
        BY DEF TypeOK, Store, ListsInv
      <4> QED
        BY <2>4, <4>1, PublishesItsList DEF Faithful
    <3>2. UNCHANGED tab
      BY <2>4 DEF publish, clients
    <3> QED
      BY <2>0, <2>4, <3>1, <3>2, PublishesItsList DEF ListsInv, Faithful
  <2> QED
    BY <1>1, <2>1, <2>2, <2>3, <2>4 DEF Call
<1>2. CASE FsRename /\ Renamed
  <2>1. \A t \in Tab : tab'[t] # {} => tab'[t] = mem.lastSnapshot
    BY <1>2 DEF FsRename, Answer, Renamed, ListsInv, TypeOK, clients
  <2> QED
    BY <1>2, <2>1 DEF Renamed, ListsInv, Faithful
<1>3. CASE ~FsRename /\ UNCHANGED clients /\ ~Call
  <2>1. UNCHANGED tab
    BY <1>3 DEF clients
  <2>2. CASE Untouched \/ Renamed
    BY <2>1, <2>2 DEF Untouched, Renamed, ListsInv, Faithful
  <2>3. CASE ~up' /\ Disk' = Disk
    <3>1. mem' = EmptyStore
      BY <2>3, FilesStep DEF FileInv
    <3> QED
      BY <2>1, <2>3, <3>1 DEF ListsInv, Faithful, EmptyStore
  <2>4. CASE ~up /\ Disk' = Disk /\ mem' = Disk
    BY <2>1, <2>4 DEF ListsInv, Faithful
  <2> QED
    BY <1>3, <2>2, <2>3, <2>4, FilesStep
<1> QED
  BY <1>1, <1>2, <1>3, ClientsStep
-----------------------------------------------------------------------------
(* Nothing acknowledged is lost. *)

Kept(store) == acked \subseteq Holds(store) \cup rejectAsked \cup superseded

\* NoUnexplainedLoss of the file, and of memory, which a rename makes the file.
LossInv == Kept(Disk) /\ (up => Kept(mem))

\* Whose commitment a store holds, spelled out.
LEMMA HoldsMeans ==
  ASSUME NEW store, NEW c
  PROVE  c \in Holds(store) <=>
            \/ c \in CommitmentsOf(store.pending)
            \/ c \in store.lastSnapshot
            \/ c \in Published(store)
  BY DEF Holds, Lists, Published

\* A call drops no commitment but a rejected or a superseded one.
LEMMA CallLosesNothing ==
  ASSUME InTime, TypeOK, FileInv, ListsInv, Call
  PROVE  /\ acked' = acked
         /\ rejectAsked \subseteq rejectAsked' /\ superseded \subseteq superseded'
         /\ \A c \in Holds(mem) : c \in Holds(mem') \cup rejectAsked' \cup superseded'
<1>1. ASSUME NEW c \in Commitment, register(c)
      PROVE  UNCHANGED clients /\ Holds(mem) \subseteq Holds(mem')
  <2>1. /\ mem'.pending = mem.pending \cup
              {[commitment |-> c, approved |-> ~RequireApproval]}
        /\ mem'.lastSnapshot = mem.lastSnapshot /\ mem'.snapshots = mem.snapshots
    BY <1>1 DEF register, Persist, TypeOK, Store
  <2>2. CommitmentsOf(mem.pending) \subseteq CommitmentsOf(mem'.pending)
    BY <2>1 DEF CommitmentsOf
  <2> QED
    BY <1>1, <2>1, <2>2, HoldsMeans DEF register, Published
<1>2. ASSUME NEW cs \in List, approve(cs)
      PROVE  /\ UNCHANGED <<acked, rejectAsked, superseded>>
             /\ Holds(mem) \subseteq Holds(mem')
  <2>1. /\ mem'.pending = {[e EXCEPT !.approved = @ \/ e.commitment \in cs] :
                              e \in mem.pending}
        /\ mem'.lastSnapshot = mem.lastSnapshot /\ mem'.snapshots = mem.snapshots
    BY <1>2 DEF approve, Persist, TypeOK, Store
  <2>2. CommitmentsOf(mem.pending) \subseteq CommitmentsOf(mem'.pending)
    <3>1. mem.pending \subseteq Entry
      BY DEF TypeOK, Store
    <3>2. ASSUME NEW e \in mem.pending
          PROVE  \E f \in mem'.pending : f.commitment = e.commitment
      <4>1. [e EXCEPT !.approved = @ \/ e.commitment \in cs].commitment = e.commitment
        BY <3>1 DEF Entry
      <4> QED
        BY <2>1, <4>1
    <3> QED
      BY <3>2 DEF CommitmentsOf
  <2> QED
    BY <1>2, <2>1, <2>2, HoldsMeans DEF approve, Published
<1>3. ASSUME NEW cs \in List, reject(cs)
      PROVE  /\ UNCHANGED <<acked, superseded>> /\ rejectAsked' = rejectAsked \cup cs
             /\ Holds(mem) \subseteq Holds(mem') \cup cs
  <2>1. /\ mem'.pending = {e \in mem.pending : e.commitment \notin cs}
        /\ mem'.lastSnapshot = mem.lastSnapshot /\ mem'.snapshots = mem.snapshots
    BY <1>3 DEF reject, Persist, TypeOK, Store
  <2>2. CommitmentsOf(mem.pending) \subseteq CommitmentsOf(mem'.pending) \cup cs
    BY <2>1 DEF CommitmentsOf
  <2> QED
    BY <1>3, <2>1, <2>2, HoldsMeans DEF reject, Published
<1>4. ASSUME NEW t \in Tab, snapshot(t)
      PROVE  /\ UNCHANGED <<acked, rejectAsked>>
             /\ superseded \subseteq superseded'
             /\ Holds(mem) \subseteq Holds(mem') \cup superseded'
  <2> DEFINE taken == CommitmentsOf(Approved(mem.pending))
  <2>1. /\ mem'.pending = mem.pending \ Approved(mem.pending)
        /\ mem'.lastSnapshot = taken /\ mem'.snapshots = mem.snapshots
    BY <1>4 DEF snapshot, Persist, TypeOK, Store
  <2>2. CommitmentsOf(mem.pending) \subseteq CommitmentsOf(mem'.pending) \cup taken
    BY <2>1 DEF CommitmentsOf
  <2>3. Published(mem') = Published(mem)
    BY <2>1 DEF Published
  <2>4. superseded' = superseded \cup (mem.lastSnapshot \ (taken \cup Published(mem)))
    BY <1>4 DEF snapshot
  <2> QED
    BY <1>4, <2>1, <2>2, <2>3, <2>4, HoldsMeans DEF snapshot
<1>5. ASSUME NEW t \in Tab, publish(t)
      PROVE  UNCHANGED clients /\ Holds(mem) \subseteq Holds(mem')
  <2>1. mem.snapshots \in [Root -> List]
    BY DEF TypeOK, Store
  <2>2. \A r \in Root : mem.snapshots[r] \subseteq mem'.snapshots[r]
    BY <1>5, <2>1, PublishesItsList
  <2>3. Published(mem) \subseteq Published(mem')
    BY <2>2 DEF Published
  <2> QED
    BY <1>5, <2>3, PublishesItsList, HoldsMeans DEF publish
<1> QED
  BY <1>1, <1>2, <1>3, <1>4, <1>5 DEF Call, clients

\* What the request holding the mutex has done to memory.
HolderInv ==
    holder # NoHolder =>
       /\ holder.kind = "register" => holder.arg \in CommitmentsOf(mem.pending)
       /\ holder.kind = "reject" => holder.arg \cap CommitmentsOf(mem.pending) = {}
       /\ holder.kind = "snapshot" => Approved(mem.pending) = {}

\* Only the call that holds the lock has a file operation open.
LEMMA HolderStep ==
  ASSUME TypeOK, ~up => holder = NoHolder, HolderInv, [Next]_vars
  PROVE  HolderInv'
<1>1. ASSUME NEW c \in Commitment, register(c)
      PROVE  HolderInv'
  <2>1. holder'.kind = "register" /\ holder'.arg = c
    BY <1>1 DEF register, Persist
  <2>2. [commitment |-> c, approved |-> ~RequireApproval] \in mem'.pending
    BY <1>1 DEF register, Persist, TypeOK, Store
  <2>3. c \in CommitmentsOf(mem'.pending)
    BY <2>2 DEF CommitmentsOf
  <2> QED
    BY <2>1, <2>3 DEF HolderInv
<1>2. ASSUME NEW cs \in List, approve(cs)
      PROVE  HolderInv'
  BY <1>2 DEF approve, Persist, HolderInv
<1>3. ASSUME NEW cs \in List, reject(cs)
      PROVE  HolderInv'
  <2>1. mem'.pending = {e \in mem.pending : e.commitment \notin cs}
    BY <1>3 DEF reject, Persist, TypeOK, Store
  <2>2. holder'.kind = "reject" /\ holder'.arg = cs
    BY <1>3 DEF reject, Persist
  <2> QED
    BY <2>1, <2>2 DEF HolderInv, CommitmentsOf
<1>4. ASSUME NEW t \in Tab, snapshot(t)
      PROVE  HolderInv'
  <2>1. mem'.pending = mem.pending \ Approved(mem.pending)
    BY <1>4 DEF snapshot, Persist, TypeOK, Store
  <2>2. holder'.kind = "snapshot"
    BY <1>4 DEF snapshot, Persist
  <2> QED
    BY <2>1, <2>2 DEF HolderInv, Approved
<1>5. ASSUME NEW t \in Tab, publish(t)
      PROVE  HolderInv'
  BY <1>5 DEF publish, Persist, HolderInv
<1>6. ASSUME NEW step, NEW i, holder # NoHolder, Advance(step, i)
      PROVE  HolderInv'
  BY <1>6 DEF Advance, HolderInv, TypeOK, Holders, Holder
<1>7. CASE UNCHANGED <<holder, mem>>
  BY <1>7 DEF HolderInv
<1>8. CASE holder' = NoHolder
  BY <1>8 DEF HolderInv
<1>9. CASE FsCreate \/ FsWrite
  BY <1>6, <1>9 DEF FsCreate, FsWrite
<1>10. CASE load
  BY <1>10 DEF load, HolderInv
<1> QED
  BY <1>1, <1>2, <1>3, <1>4, <1>5, <1>7, <1>8, <1>9, <1>10, NextIsCall
  DEF Call, vars, FsRename, FsFail, Drop, LateStep, Crash

\* What was acknowledged stays accounted for.
LEMMA LossStep ==
  ASSUME InTime, TypeOK, FileInv, HolderInv, ListsInv, LossInv, [Next]_vars
  PROVE  LossInv'
<1>1. CASE Call
  <2>1. Disk' = Disk /\ up /\ up'
    BY <1>1, CallKeepsFile DEF Free
  <2> QED
    BY <1>1, <2>1, CallLosesNothing DEF LossInv, Kept
<1>2. CASE FsRename /\ Renamed
  <2>1. Kept(mem) /\ mem' = mem /\ Disk' = mem
    BY <1>2 DEF Renamed, LossInv
  <2>2. CASE holder.kind = "register"
    <3>1. holder.arg \in Holds(mem)
      BY <1>2, <2>2, HoldsMeans DEF FsRename, HolderInv
    <3>2. /\ acked' = acked \cup {holder.arg}
          /\ rejectAsked' = rejectAsked \ {holder.arg}
          /\ superseded' = superseded \ {holder.arg}
      BY <1>2, <2>2 DEF FsRename, Answer
    <3> QED
      BY <2>1, <3>1, <3>2 DEF LossInv, Kept
  <2>3. CASE holder.kind # "register"
    <3>1. UNCHANGED <<acked, rejectAsked, superseded>>
      BY <1>2, <2>3 DEF FsRename, Answer, clients
    <3> QED
      BY <2>1, <3>1 DEF LossInv, Kept
  <2> QED
    BY <2>2, <2>3
<1>3. CASE ~FsRename /\ UNCHANGED clients /\ ~Call
  <2>1. UNCHANGED <<acked, rejectAsked, superseded>>
    BY <1>3 DEF clients
  <2> QED
    BY <1>3, <2>1, FilesStep DEF Untouched, Renamed, LossInv, Kept
<1> QED
  BY <1>1, <1>2, <1>3, ClientsStep

(* The store's inductive invariant: the file, what the mutex holder did, the  *)
(* lists under their roots, and what the voters were told, in memory and on   *)
(* disk.                                                                      *)
THEOREM Inductive ==
  ASSUME InTime, OneTab
  PROVE  Spec => [](TypeOK /\ FileInv /\ HolderInv /\ ListsInv /\ LossInv)
<1>1. Init => HolderInv /\ ListsInv /\ LossInv
  BY DEF Init, HolderInv, ListsInv, Faithful, LossInv, Kept, Disk, EmptyStore
<1>2. TypeOK /\ FileInv /\ HolderInv /\ ListsInv /\ LossInv /\ [Next]_vars
         => HolderInv' /\ ListsInv' /\ LossInv'
  BY HolderStep, ListsStep, LossStep DEF FileInv
<1> QED
  BY <1>1, <1>2, FileInductive, PTL DEF Spec

(* An acknowledged registration is on disk, unless an admin rejected it or    *)
(* its batch was replaced before it was published, however many commitments,  *)
(* batches, failed writes, dropped requests and crashes there are.            *)
THEOREM NothingIsLost == ASSUME InTime, OneTab PROVE Spec => []NoUnexplainedLoss
<1>1. LossInv => NoUnexplainedLoss
  BY DEF LossInv, Kept, NoUnexplainedLoss
<1> QED
  BY <1>1, Inductive, PTL
-----------------------------------------------------------------------------
(* Only what was approved becomes an electorate. *)

\* An approved entry was approved since it was last drained or rejected.
Reviewed(store) ==
    \A e \in store.pending : RequireApproval /\ e.approved => e.commitment \in granted

ApprovalInv == Reviewed(mem) /\ Reviewed(Disk)

\* A call keeps memory reviewed, and takes no grant away.
LEMMA CallReviews ==
  ASSUME TypeOK, Reviewed(mem), Call
  PROVE  Reviewed(mem)' /\ granted \subseteq granted'
<1>0. mem.pending \subseteq Entry
  BY DEF TypeOK, Store
<1>1. ASSUME NEW c \in Commitment, register(c)
      PROVE  Reviewed(mem)' /\ granted' = granted
  <2>1. /\ mem'.pending = mem.pending \cup
              {[commitment |-> c, approved |-> ~RequireApproval]}
        /\ granted' = granted
    BY <1>1 DEF register, Persist, TypeOK, Store, clients
  <2>2. ASSUME NEW e \in mem'.pending, RequireApproval, e.approved
        PROVE  e \in mem.pending
    <3>1. (~RequireApproval) = FALSE
      BY <2>2
    <3>2. e # [commitment |-> c, approved |-> FALSE]
      BY <2>2
    <3> QED
      BY <2>1, <3>1, <3>2
  <2> QED
    BY <2>1, <2>2 DEF Reviewed
<1>2. ASSUME NEW cs \in List, approve(cs)
      PROVE  Reviewed(mem)' /\ granted \subseteq granted'
  <2>1. /\ mem'.pending = {[e EXCEPT !.approved = @ \/ e.commitment \in cs] :
                              e \in mem.pending}
        /\ granted' = granted \cup (cs \cap CommitmentsOf(mem.pending))
    BY <1>2 DEF approve, Persist, TypeOK, Store
  <2>2. ASSUME NEW e \in mem.pending, RequireApproval,
               e.approved \/ e.commitment \in cs
        PROVE  e.commitment \in granted'
    BY <2>1, <2>2 DEF Reviewed, CommitmentsOf
  <2>3. \A e \in Entry :
           /\ [e EXCEPT !.approved = @ \/ e.commitment \in cs].commitment = e.commitment
           /\ [e EXCEPT !.approved = @ \/ e.commitment \in cs].approved
                 <=> e.approved \/ e.commitment \in cs
    BY DEF Entry
  <2>4. ASSUME NEW new \in mem'.pending, RequireApproval, new.approved
        PROVE  new.commitment \in granted'
    <3>1. PICK e \in mem.pending :
             new = [e EXCEPT !.approved = @ \/ e.commitment \in cs]
      BY <2>1, <2>4
    <3>2. /\ new.commitment = e.commitment
          /\ e.approved \/ e.commitment \in cs
      BY <1>0, <2>3, <2>4, <3>1
    <3> QED
      BY <2>2, <2>4, <3>2
  <2>5. Reviewed(mem)'
    BY <2>4 DEF Reviewed
  <2> QED
    BY <2>1, <2>5
<1>3. ASSUME \/ \E cs \in List : reject(cs)
             \/ \E t \in Tab : snapshot(t) \/ publish(t)
      PROVE  Reviewed(mem)' /\ granted' = granted
  <2>1. ASSUME NEW cs \in List, reject(cs)
        PROVE  mem'.pending \subseteq mem.pending /\ granted' = granted
    BY <2>1 DEF reject, Persist, TypeOK, Store
  <2>2. ASSUME NEW t \in Tab, snapshot(t) \/ publish(t)
        PROVE  mem'.pending \subseteq mem.pending /\ granted' = granted
    BY <2>2 DEF snapshot, publish, Persist, TypeOK, Store, clients
  <2> QED
    BY <1>3, <2>1, <2>2 DEF Reviewed
<1> QED
  BY <1>1, <1>2, <1>3 DEF Call

\* The answer to a reject or a snapshot takes no grant a pending entry rests on.
LEMMA AnswerReviews ==
  ASSUME HolderInv, Reviewed(mem), FsRename
  PROVE  \A e \in mem.pending :
            RequireApproval /\ e.approved => e.commitment \in granted'
<1>1. holder # NoHolder /\ Answer
  BY DEF FsRename
<1>2. ASSUME NEW e \in mem.pending, RequireApproval, e.approved
      PROVE  e.commitment \in granted'
  <2>1. e.commitment \in granted /\ e \in Approved(mem.pending)
        /\ e.commitment \in CommitmentsOf(mem.pending)
    BY <1>2 DEF Reviewed, Approved, CommitmentsOf
  <2> QED
    BY <1>1, <2>1 DEF Answer, HolderInv, clients
<1> QED
  BY <1>2

\* What is in memory, and what a restart would find, stays reviewed.
LEMMA ApprovalStep ==
  ASSUME InTime, TypeOK, FileInv, HolderInv, ApprovalInv, [Next]_vars
  PROVE  ApprovalInv'
<1>1. CASE Call
  <2>1. Disk' = Disk
    BY <1>1, CallKeepsFile
  <2>2. Reviewed(mem)' /\ granted \subseteq granted'
    BY <1>1, CallReviews DEF ApprovalInv
  <2> QED
    BY <2>1, <2>2 DEF ApprovalInv, Reviewed
<1>2. CASE FsRename /\ Renamed
  <2>1. mem' = mem /\ Disk' = mem
    BY <1>2 DEF Renamed
  <2> QED
    BY <1>2, <2>1, AnswerReviews DEF ApprovalInv, Reviewed
<1>3. CASE ~FsRename /\ UNCHANGED clients /\ ~Call
  <2>1. UNCHANGED granted
    BY <1>3 DEF clients
  <2>2. ~up' => mem' = EmptyStore
    BY FilesStep DEF FileInv
  <2> QED
    BY <1>3, <2>1, <2>2, FilesStep
    DEF Untouched, Renamed, ApprovalInv, Reviewed, EmptyStore
<1> QED
  BY <1>1, <1>2, <1>3, ClientsStep

\* What a call adds to the lists was approved before it.
LEMMA CallEntersApproved ==
  ASSUME TypeOK, Reviewed(mem), Call, RequireApproval,
         NEW list \in Lists(mem') \ Lists(mem)
  PROVE  list \subseteq granted
<1>1. mem \in Store
  BY DEF TypeOK
<1>2. ASSUME NEW c \in Commitment, register(c)
      PROVE  Lists(mem') = Lists(mem)
  BY <1>1, <1>2 DEF register, Persist, Lists, Store
<1>3. ASSUME NEW cs \in List, approve(cs) \/ reject(cs)
      PROVE  Lists(mem') = Lists(mem)
  BY <1>1, <1>3 DEF approve, reject, Persist, Lists, Store
<1>4. ASSUME NEW t \in Tab, snapshot(t)
      PROVE  list \subseteq granted
  <2>1. /\ mem'.lastSnapshot = CommitmentsOf(Approved(mem.pending))
        /\ mem'.snapshots = mem.snapshots
    BY <1>1, <1>4 DEF snapshot, Persist, Store
  <2>2. list = CommitmentsOf(Approved(mem.pending))
    BY <2>1 DEF Lists
  <2> QED
    BY <2>2 DEF Reviewed, CommitmentsOf, Approved
<1>5. ASSUME NEW t \in Tab, publish(t)
      PROVE  Lists(mem') \subseteq Lists(mem)
  <2>1. /\ mem'.lastSnapshot = mem.lastSnapshot
        /\ mem'.snapshots = [mem.snapshots EXCEPT ![tab[t]] = mem.lastSnapshot]
    BY <1>1, <1>5 DEF publish, Persist, Store
  <2> QED
    BY <1>1, <2>1 DEF Lists, Store
<1> QED
  BY <1>2, <1>3, <1>4, <1>5 DEF Call

\* With file operations in time the lists come from calls, or from the file.
LEMMA EntersApproved ==
  ASSUME InTime, TypeOK, FileInv, ApprovalInv, [Next]_vars, RequireApproval,
         NEW list \in Lists(mem') \ (Lists(mem) \cup Lists(Disk))
  PROVE  list \subseteq granted
<1>1. CASE Call
  BY <1>1, CallEntersApproved DEF ApprovalInv
<1>2. CASE ~up'
  <2>1. mem' = EmptyStore
    BY <1>2, FilesStep DEF FileInv
  <2> QED
    BY <2>1 DEF Lists, EmptyStore
<1>3. CASE mem' = mem \/ mem' = Disk
  BY <1>3
<1> QED
  BY <1>1, <1>2, <1>3, FilesStep DEF Untouched, Renamed

\* OnlyApprovedEnter of the process that is up first, which has read nothing
\* back from the file.
OnlyApprovedBeforeRestart ==
    [][RequireApproval /\ crashes = 0 =>
          \A list \in Lists(mem') \ Lists(mem) : list \subseteq granted]_vars

\* Before the first restart memory is reviewed, whatever becomes of the file.
FirstLife == up /\ HolderInv /\ Reviewed(mem)

\* Late file operations do not reach memory.
LEMMA FirstLifeStep ==
  ASSUME TypeOK, FirstLife, [Next]_vars
  PROVE  \/ crashes' # crashes /\ mem' = EmptyStore
         \/ FirstLife' /\ (Call \/ UNCHANGED mem)
<1>1. HolderInv'
  BY HolderStep DEF FirstLife
<1>2. CASE Call
  <2>1. up'
    BY <1>2 DEF Call, register, approve, reject, snapshot, publish, Persist, FirstLife
  <2> QED
    BY <1>1, <1>2, <2>1, CallReviews DEF FirstLife
<1>3. CASE FsRename
  BY <1>1, <1>3, AnswerReviews DEF FirstLife, Reviewed, FsRename
<1>4. CASE FsCreate \/ FsWrite \/ FsFail \/ Drop \/ LateStep \/ UNCHANGED vars
  BY <1>1, <1>4 DEF FsCreate, FsWrite, Advance, FsFail, Drop, LateStep, vars,
                    clients, FirstLife, Reviewed
<1>5. CASE Crash
  BY <1>5 DEF Crash, TypeOK
<1>6. CASE load
  BY <1>6 DEF load, FirstLife
<1> QED
  BY <1>2, <1>3, <1>4, <1>5, <1>6, NextIsCall

(* With approval required, a list that can become an electorate holds only    *)
(* commitments an admin approved since they were last drained or rejected,    *)
(* for any number of admin tabs, failed writes and dropped requests (register *)
(* to publish of the store): until the first restart in any case, and over    *)
(* restarts if no dropped request's file operation ran after a later request  *)
(* began, for such a one can put an older file back for load to read.         *)
THEOREM ApprovedOnly ==
  /\ Spec => OnlyApprovedBeforeRestart
  /\ InTime => (Spec => OnlyApprovedEnter)
<1>1. Init => HolderInv /\ ApprovalInv /\ FirstLife
  BY DEF Init, HolderInv, ApprovalInv, Reviewed, Disk, EmptyStore, FirstLife
<1>2. Spec => OnlyApprovedBeforeRestart
  <2>1. TypeOK /\ (crashes = 0 => FirstLife) /\ [Next]_vars
           => (crashes = 0 => FirstLife)'
    <3> SUFFICES ASSUME TypeOK, crashes = 0 => FirstLife, [Next]_vars, crashes' = 0
                 PROVE  FirstLife'
      OBVIOUS
    <3>1. crashes = 0
      <4>1. crashes' = crashes \/ Crash
        BY NextIsCall DEF Call, register, approve, reject, snapshot, publish,
                          Persist, FsCreate, FsWrite, FsRename, Advance, FsFail,
                          Drop, LateStep, load, bounds, vars
      <4> QED
        BY <4>1 DEF Crash, TypeOK
    <3> QED
      BY <3>1, FirstLifeStep
  <2>2. TypeOK /\ (crashes = 0 => FirstLife) /\ [Next]_vars =>
           [RequireApproval /\ crashes = 0 =>
               \A list \in Lists(mem') \ Lists(mem) : list \subseteq granted]_vars
    <3> SUFFICES ASSUME TypeOK, FirstLife, [Next]_vars, RequireApproval,
                        NEW list \in Lists(mem') \ Lists(mem)
                 PROVE  list \subseteq granted
      OBVIOUS
    <3>1. CASE Call
      BY <3>1, CallEntersApproved DEF FirstLife
    <3>2. CASE mem' = EmptyStore
      BY <3>2 DEF Lists, EmptyStore
    <3> QED
      BY <3>1, <3>2, FirstLifeStep
  <2> QED
    BY <1>1, <2>1, <2>2, TypeCorrect, PTL DEF Spec, OnlyApprovedBeforeRestart
<1>3. InTime => (Spec => OnlyApprovedEnter)
  <2> SUFFICES ASSUME InTime PROVE Spec => OnlyApprovedEnter
    OBVIOUS
  <2>1. TypeOK /\ FileInv /\ HolderInv /\ ApprovalInv /\ [Next]_vars
           => HolderInv' /\ ApprovalInv'
    BY HolderStep, ApprovalStep DEF FileInv
  <2>2. TypeOK /\ FileInv /\ ApprovalInv /\ [Next]_vars =>
           [RequireApproval =>
               \A list \in Lists(mem') \ (Lists(mem) \cup Lists(Disk)) :
                  list \subseteq granted]_vars
    BY EntersApproved
  <2> QED
    BY <1>1, <2>1, <2>2, FileInductive, PTL DEF Spec, OnlyApprovedEnter
<1> QED
  BY <1>2, <1>3
-----------------------------------------------------------------------------
(* What holds of every store, wherever a copy of it is. *)

\* Every store the system holds, in memory, in a file or on its way to one, is
\* one of these.
StoresIn(Good) ==
    /\ mem \in Good
    /\ \A i \in Inode : data[i].store \in Good
    /\ \A op \in late : op.store \in Good

\* Files and left-over operations hold stores that memory once was, so a fact
\* of the empty store that every call keeps holds of all of them.
LEMMA StoresStep ==
  ASSUME TypeOK, NEW Good, EmptyStore \in Good, StoresIn(Good), [Next]_vars,
         Call => mem' \in Good
  PROVE  /\ mem' \in Good
         /\ \A i \in Inode : data'[i].store \in Good
         /\ \A op \in late' : op.store \in Good
<1>1. \A i : (\A f \in Inode : Unlinked(i)[f].store \in Good)
  BY DEF StoresIn, Unlinked, Empty
<1>2. \A i \in Inode : CreateAt(i) => \A f \in Inode : data'[f].store \in Good
  BY DEF StoresIn, TypeOK, CreateAt, Empty
<1>3. \A i : \A store \in Good :
         WriteTo(i, store) => \A f \in Inode : data'[f].store \in Good
  BY DEF StoresIn, TypeOK, WriteTo, Whole, Mixed
<1>4. RenameTmp => \A f \in Inode : data'[f].store \in Good
  BY <1>1 DEF RenameTmp
<1>5. CASE UNCHANGED vars
  BY <1>5 DEF vars, StoresIn
<1>6. CASE Call
  BY <1>6 DEF Call, register, approve, reject, snapshot, publish, Persist, files,
              StoresIn
<1>7. CASE FsCreate \/ FsWrite
  BY <1>2, <1>3, <1>7 DEF FsCreate, FsWrite, Advance, StoresIn
<1>8. CASE FsRename
  BY <1>4, <1>8 DEF FsRename, StoresIn
<1>9. CASE FsFail
  BY <1>1, <1>9 DEF FsFail, StoresIn
<1>10. CASE Drop
  <2>1. late' \subseteq late \cup {[step |-> holder.step, ino |-> holder.ino, store |-> mem]}
    BY <1>10 DEF Drop
  <2> QED
    BY <1>10, <2>1 DEF Drop, files, StoresIn
<1>11. CASE LateStep
  <2>1. PICK op \in late :
          /\ late' = late \ {op}
          /\ \/ op.step = "create" /\ \E i \in Inode : CreateAt(i)
             \/ op.step = "write" /\ WriteTo(op.ino, op.store)
             \/ op.step = "rename" /\ RenameTmp
             \/ UNCHANGED files
    BY <1>11 DEF LateStep
  <2>2. op.store \in Good /\ UNCHANGED mem
    BY <1>11 DEF LateStep, StoresIn
  <2>3. \A f \in Inode : data'[f].store \in Good
    BY <1>2, <1>3, <1>4, <2>1, <2>2 DEF files, StoresIn
  <2> QED
    BY <2>1, <2>2, <2>3 DEF StoresIn
<1>12. CASE Crash
  BY <1>1, <1>12 DEF Crash, StoresIn
<1>13. CASE load
  BY <1>13 DEF load, files, TypeOK, OpenFile, StoresIn
<1> QED
  BY <1>5, <1>6, <1>7, <1>8, <1>9, <1>10, <1>11, <1>12, <1>13, NextIsCall

\* The store a restart would find is one of them.
LEMMA DiskIn ==
  ASSUME TypeOK, NEW Good, EmptyStore \in Good, StoresIn(Good)
  PROVE  Disk \in Good
  BY DEF TypeOK, OpenFile, StoresIn, Disk
-----------------------------------------------------------------------------
(* The cap of a source. *)

EntriesFrom(entries, s) == {e \in entries : SourceOf[e.commitment] = s}
From(list, s) == {d \in list : SourceOf[d] = s}

\* Pending and drained, a source has its entries and no more.
Capped ==
    {store \in Store :
       /\ IsFiniteSet(store.pending)
       /\ \A s : Cardinality(EntriesFrom(store.pending, s)) <= MaxPerSource
       /\ \A list \in Lists(store) :
             /\ IsFiniteSet(list)
             /\ \A s : Cardinality(From(list, s)) <= MaxPerSource}

\* Nothing is pending at a first start.
LEMMA EmptyIsCapped == EmptyStore \in Capped
<1>1. /\ EmptyStore.pending = {}
      /\ \A list \in Lists(EmptyStore) : list = {}
  BY DEF EmptyStore, Lists
<1>2. \A s : EntriesFrom({}, s) = {} /\ From({}, s) = {}
  BY DEF EntriesFrom, From
<1>3. IsFiniteSet({}) /\ Cardinality({}) <= MaxPerSource
  BY FS_EmptySet, StoreAssumption
<1> QED
  BY <1>1, <1>2, <1>3, EmptyStoreType DEF Capped

\* The commitments drained from entries are no more than the entries.
LEMMA DrainedFrom ==
  ASSUME NEW entries, IsFiniteSet(entries), NEW s
  PROVE  /\ IsFiniteSet(CommitmentsOf(entries))
         /\ IsFiniteSet(From(CommitmentsOf(entries), s))
         /\ Cardinality(From(CommitmentsOf(entries), s))
               <= Cardinality(EntriesFrom(entries, s))
<1> DEFINE named(S) == [e \in S |-> e.commitment]
<1>1. named(entries) \in Surjection(entries, CommitmentsOf(entries))
  BY DEF Surjection, CommitmentsOf
<1>2. IsFiniteSet(EntriesFrom(entries, s))
  BY FS_Subset DEF EntriesFrom
<1>3. named(EntriesFrom(entries, s))
         \in Surjection(EntriesFrom(entries, s), From(CommitmentsOf(entries), s))
  BY DEF Surjection, CommitmentsOf, EntriesFrom, From
<1> HIDE DEF named
<1> QED
  BY <1>1, <1>2, <1>3, FS_Surjection

\* Fewer entries are within the cap too.
LEMMA FewerFrom ==
  ASSUME NEW entries, IsFiniteSet(entries), NEW fewer \in SUBSET entries, NEW s
  PROVE  /\ IsFiniteSet(fewer)
         /\ Cardinality(EntriesFrom(fewer, s)) <= Cardinality(EntriesFrom(entries, s))
<1>1. IsFiniteSet(EntriesFrom(entries, s))
  BY FS_Subset DEF EntriesFrom
<1>2. EntriesFrom(fewer, s) \in SUBSET EntriesFrom(entries, s)
  BY DEF EntriesFrom
<1> QED
  BY <1>1, <1>2, FS_Subset

\* A call keeps memory within the cap.
LEMMA CallIsCapped ==
  ASSUME TypeOK, mem \in Capped, Call
  PROVE  mem' \in Capped
<1> USE DEF TypeOK
<1>0. mem' \in Store /\ mem.pending \subseteq Entry
  BY CallType DEF Store
<1>a. /\ IsFiniteSet(mem.pending)
      /\ \A s : Cardinality(EntriesFrom(mem.pending, s)) <= MaxPerSource
      /\ \A list \in Lists(mem) :
            /\ IsFiniteSet(list)
            /\ \A s : Cardinality(From(list, s)) <= MaxPerSource
  BY DEF Capped
<1>1. ASSUME NEW c \in Commitment, register(c)
      PROVE  mem' \in Capped
  <2> DEFINE new == [commitment |-> c, approved |-> ~RequireApproval]
  <2>1. /\ mem'.pending = mem.pending \cup {new}
        /\ Lists(mem') = Lists(mem)
    BY <1>1 DEF register, Persist, Store, Lists
  <2>2. IsFiniteSet(mem'.pending)
    BY <1>a, <2>1, FS_AddElement
  <2>3. ASSUME NEW s
        PROVE  Cardinality(EntriesFrom(mem'.pending, s)) <= MaxPerSource
    <3>1. IsFiniteSet(EntriesFrom(mem.pending, s))
      BY <1>a, FS_Subset DEF EntriesFrom
    <3>2. CASE SourceOf[c] = s
      <4>1. Cardinality(EntriesFrom(mem.pending, s)) < MaxPerSource
        BY <1>1, <3>2 DEF register, FromSource, EntriesFrom
      <4>2. EntriesFrom(mem'.pending, s) = EntriesFrom(mem.pending, s) \cup {new}
        BY <2>1, <3>2 DEF EntriesFrom
      <4>3. Cardinality(EntriesFrom(mem'.pending, s))
               \in {Cardinality(EntriesFrom(mem.pending, s)),
                    Cardinality(EntriesFrom(mem.pending, s)) + 1}
        BY <3>1, <4>2, FS_AddElement
      <4> QED
        BY <3>1, <4>1, <4>3, FS_CardinalityType, StoreAssumption
    <3>3. CASE SourceOf[c] # s
      <4>1. EntriesFrom(mem'.pending, s) = EntriesFrom(mem.pending, s)
        BY <2>1, <3>3 DEF EntriesFrom
      <4> QED
        BY <1>a, <4>1
    <3> QED
      BY <3>2, <3>3
  <2> QED
    BY <1>0, <1>a, <2>1, <2>2, <2>3 DEF Capped
<1>2. ASSUME NEW cs \in List, approve(cs)
      PROVE  mem' \in Capped
  <2> DEFINE marked(e) == [e EXCEPT !.approved = @ \/ e.commitment \in cs]
             marking(S) == [e \in S |-> marked(e)]
  <2>1. /\ mem'.pending = {marked(e) : e \in mem.pending}
        /\ Lists(mem') = Lists(mem)
    BY <1>2 DEF approve, Persist, Store, Lists
  <2>2. \A e \in mem.pending : marked(e).commitment = e.commitment
    BY <1>0 DEF Entry
  <2>3. marking(mem.pending) \in Surjection(mem.pending, mem'.pending)
    BY <2>1 DEF Surjection
  <2>4. ASSUME NEW s
        PROVE  Cardinality(EntriesFrom(mem'.pending, s)) <= MaxPerSource
    <3>1. IsFiniteSet(EntriesFrom(mem.pending, s))
      BY <1>a, FS_Subset DEF EntriesFrom
    <3>2. EntriesFrom(mem'.pending, s)
             = {marked(e) : e \in EntriesFrom(mem.pending, s)}
      <4>1. EntriesFrom(mem'.pending, s) =
               {f \in {marked(e) : e \in mem.pending} : SourceOf[f.commitment] = s}
        BY <2>1 DEF EntriesFrom
      <4>2. \A e \in mem.pending :
               e \in EntriesFrom(mem.pending, s) <=> SourceOf[marked(e).commitment] = s
        BY <2>2 DEF EntriesFrom
      <4> HIDE DEF marked
      <4> QED
        BY <4>1, <4>2 DEF EntriesFrom
    <3>3. marking(EntriesFrom(mem.pending, s))
             \in Surjection(EntriesFrom(mem.pending, s), EntriesFrom(mem'.pending, s))
      BY <3>2 DEF Surjection
    <3> HIDE DEF marking
    <3>4. /\ IsFiniteSet(EntriesFrom(mem'.pending, s))
          /\ Cardinality(EntriesFrom(mem'.pending, s))
                <= Cardinality(EntriesFrom(mem.pending, s))
      BY <3>1, <3>3, FS_Surjection
    <3> QED
      BY <1>a, <3>1, <3>4, FS_CardinalityType, StoreAssumption
  <2> HIDE DEF marking
  <2>5. IsFiniteSet(mem'.pending)
    BY <1>a, <2>3, FS_Surjection
  <2> QED
    BY <1>0, <1>a, <2>1, <2>4, <2>5 DEF Capped
<1>3. ASSUME mem'.pending \in SUBSET mem.pending,
             \A list \in Lists(mem') :
                list \in Lists(mem) \cup {CommitmentsOf(Approved(mem.pending))}
      PROVE  mem' \in Capped
  <2>1. Approved(mem.pending) \in SUBSET mem.pending
    BY DEF Approved
  <2>2. \A fewer \in SUBSET mem.pending :
           /\ IsFiniteSet(fewer)
           /\ \A s : Cardinality(EntriesFrom(fewer, s)) <= MaxPerSource
    <3> TAKE fewer \in SUBSET mem.pending
    <3>1. ASSUME NEW s
          PROVE  Cardinality(EntriesFrom(fewer, s)) <= MaxPerSource
      <4>1. IsFiniteSet(EntriesFrom(mem.pending, s)) /\ IsFiniteSet(EntriesFrom(fewer, s))
        BY <1>a, FewerFrom, FS_Subset DEF EntriesFrom
      <4>2. Cardinality(EntriesFrom(fewer, s)) <= Cardinality(EntriesFrom(mem.pending, s))
        BY <1>a, FewerFrom
      <4> QED
        BY <1>a, <4>1, <4>2, FS_CardinalityType, StoreAssumption
    <3> QED
      BY <1>a, <3>1, FewerFrom
  <2>3. LET taken == CommitmentsOf(Approved(mem.pending)) IN
        IsFiniteSet(taken) /\ \A s : Cardinality(From(taken, s)) <= MaxPerSource
    <3> DEFINE entries == Approved(mem.pending)
    <3>1. IsFiniteSet(CommitmentsOf(entries))
      BY <2>1, <2>2, DrainedFrom
    <3>2. ASSUME NEW s
          PROVE  Cardinality(From(CommitmentsOf(entries), s)) <= MaxPerSource
      <4>1. /\ IsFiniteSet(From(CommitmentsOf(entries), s))
            /\ Cardinality(From(CommitmentsOf(entries), s))
                  <= Cardinality(EntriesFrom(entries, s))
        BY <2>1, <2>2, DrainedFrom
      <4>2. IsFiniteSet(EntriesFrom(entries, s))
        BY <2>1, <2>2, FS_Subset DEF EntriesFrom
      <4>3. Cardinality(EntriesFrom(entries, s)) <= MaxPerSource
        BY <2>1, <2>2
      <4>4. /\ Cardinality(From(CommitmentsOf(entries), s)) \in Nat
            /\ Cardinality(EntriesFrom(entries, s)) \in Nat
        BY <4>1, <4>2, FS_CardinalityType
      <4> QED
        BY <4>1, <4>3, <4>4, StoreAssumption
    <3> QED
      BY <3>1, <3>2
  <2> QED
    BY <1>0, <1>3, <1>a, <2>2, <2>3 DEF Capped
<1>4. ASSUME NEW cs \in List, reject(cs)
      PROVE  mem' \in Capped
  <2>1. mem'.pending \in SUBSET mem.pending /\ Lists(mem') = Lists(mem)
    BY <1>4 DEF reject, Persist, Store, Lists
  <2> QED
    BY <1>3, <2>1
<1>5. ASSUME NEW t \in Tab, snapshot(t)
      PROVE  mem' \in Capped
  <2>1. /\ mem'.pending \in SUBSET mem.pending
        /\ mem'.lastSnapshot = CommitmentsOf(Approved(mem.pending))
        /\ mem'.snapshots = mem.snapshots
    BY <1>5 DEF snapshot, Persist, Store
  <2> QED
    BY <1>3, <2>1 DEF Lists
<1>6. ASSUME NEW t \in Tab, publish(t)
      PROVE  mem' \in Capped
  <2>1. /\ mem'.pending = mem.pending /\ mem'.lastSnapshot = mem.lastSnapshot
        /\ mem'.snapshots = [mem.snapshots EXCEPT ![tab[t]] = mem.lastSnapshot]
    BY <1>6 DEF publish, Persist, Store
  <2> QED
    BY <1>3, <2>1 DEF Lists, Store
<1> QED
  BY <1>1, <1>2, <1>4, <1>5, <1>6 DEF Call

\* The cap, in every store of the system.
LEMMA CappedInductive == Spec => [](TypeOK /\ StoresIn(Capped))
<1>1. Init => StoresIn(Capped)
  BY EmptyIsCapped DEF Init, StoresIn, Empty
<1>2. TypeOK /\ StoresIn(Capped) /\ [Next]_vars => StoresIn(Capped)'
  <2> SUFFICES ASSUME TypeOK, StoresIn(Capped), [Next]_vars
               PROVE  StoresIn(Capped)'
    OBVIOUS
  <2>1. Call => mem' \in Capped
    BY CallIsCapped DEF StoresIn
  <2> QED
    BY <2>1, EmptyIsCapped, StoresStep DEF StoresIn
<1> QED
  BY <1>1, <1>2, TypeCorrect, PTL DEF Spec

(* No electorate, in memory or on disk, holds more than MaxPerSource          *)
(* commitments of one source, whatever is approved again, dropped, restarted  *)
(* or run late.                                                               *)
THEOREM ElectorateIsCapped == Spec => []SourceCapHolds
<1>1. TypeOK /\ StoresIn(Capped) => SourceCapHolds
  <2> SUFFICES ASSUME TypeOK, StoresIn(Capped)
               PROVE  SourceCapHolds
    OBVIOUS
  <2>1. mem \in Capped /\ Disk \in Capped
    BY EmptyIsCapped, DiskIn DEF StoresIn
  <2> QED
    BY <2>1 DEF SourceCapHolds, Capped, From
<1> QED
  BY <1>1, CappedInductive, PTL
-----------------------------------------------------------------------------
(* The panel and the policies in front of the store. *)

Policies == {main(env).policy : env \in Accepted}

PanelTypes ==
    /\ policy \in Policies
    /\ used \in [DOMAIN policy.codes -> Nat]
    /\ enrolled \in [DOMAIN policy.codes -> Nat]
    /\ entering \subseteq [commitment : Commitment,
                           code : DOMAIN policy.codes \cup {NoCode}]
    /\ ~up => entering = {}
    /\ panel \in [Tab -> List \cup {Unloaded}]
    /\ replies \in [Tab -> SUBSET List]
    /\ review \in [Tab -> [kind : {"none", "approve", "reject"}, cs : List]]
    /\ build \in [Tab -> {"idle", "done", "failed"} \cup Building]
    /\ form \in [Tab -> List]
    /\ serving \in Tab \cup {NoTab}
    /\ clicked \in List

\* No header is no code, and a code's limit is a number or Unlimited.
LEMMA PolicyCodes ==
  ASSUME NEW p \in Policies
  PROVE  /\ NoCode \notin DOMAIN p.codes
         /\ \A k \in DOMAIN p.codes : p.codes[k] \in Nat \cup {Unlimited}
<1>1. PICK env \in Accepted : p = main(env).policy
  BY DEF Policies
<1>2. p.codes = main(env).config.registration.invite_codes
  BY <1>1 DEF Accepted, main, build_policy
<1> QED
  BY <1>2, AdmissionsAssumption

\* Every step of the panel's system is a step of the store or leaves it alone.
LEMMA PanelStepIsStep ==
  ASSUME PanelTypes, [PanelNext]_allVars
  PROVE  [Next]_vars
<1>1. CASE UNCHANGED allVars
  BY <1>1 DEF allVars
<1>2. ASSUME NEW c \in Commitment, NEW k \in invite_code, register_handler(c, k)
      PROVE  UNCHANGED vars
  BY <1>2 DEF register_handler
<1>3. ASSUME NEW q \in entering, Enroll(q) \/ NotEnrolled(q)
      PROVE  [Next]_vars
  BY <1>3 DEF Enroll, NotEnrolled, Next, PanelTypes
<1>4. ASSUME NEW t \in Tab, ApproveNamed(t) \/ RejectNamed(t)
      PROVE  Next
  <2>1. review[t].cs \in List
    BY DEF PanelTypes
  <2> QED
    BY <1>4, <2>1 DEF ApproveNamed, RejectNamed, Next
<1>5. ASSUME NEW t \in Tab,
             \/ pending_registrations(t) \/ refresh_pending_registrations(t)
             \/ \E kind \in {"approve", "reject"} : submit_review(t, kind)
             \/ ReviewOfNothing(t) \/ review_failed(t)
             \/ build_whitelist_from_registrations(t)
             \/ whitelist_build_failed(t) \/ AdminPage(t)
      PROVE  UNCHANGED vars
  BY <1>5 DEF pending_registrations, refresh_pending_registrations, submit_review,
              ReviewOfNothing, review_failed, build_whitelist_from_registrations,
              whitelist_build_failed, AdminPage
<1>6. ASSUME NEW t \in Tab, snapshot_registrations(t) \/ publish_registration(t)
      PROVE  Next
  BY <1>6 DEF snapshot_registrations, publish_registration, Next
<1>7. CASE FileStep \/ Saved \/ NotSaved
  BY <1>7 DEF FileStep, Saved, NotSaved, Next
<1>8. CASE Restart
  BY <1>8 DEF Restart, Stop, Start, Next
<1> QED
  BY <1>1, <1>2, <1>3, <1>4, <1>5, <1>6, <1>7, <1>8
  DEF PanelNext, approve_registrations, reject_registrations

\* What the policies count and grant, step by step.
LEMMA PolicyStep ==
  ASSUME [PanelNext]_allVars
  PROVE  \/ UNCHANGED <<up, policyVars>>
         \/ \E c \in Commitment, k \in invite_code : register_handler(c, k)
         \/ \E q \in entering : Enroll(q) \/ NotEnrolled(q)
         \/ Stop \/ Start
<1>1. CASE UNCHANGED allVars
  BY <1>1 DEF allVars, vars
<1>2. ASSUME NEW t \in Tab,
             \/ pending_registrations(t) \/ refresh_pending_registrations(t)
             \/ \E kind \in {"approve", "reject"} : submit_review(t, kind)
             \/ ReviewOfNothing(t) \/ review_failed(t)
             \/ build_whitelist_from_registrations(t)
             \/ whitelist_build_failed(t) \/ AdminPage(t)
      PROVE  UNCHANGED <<up, policyVars>>
  BY <1>2 DEF pending_registrations, refresh_pending_registrations, submit_review,
              ReviewOfNothing, review_failed, build_whitelist_from_registrations,
              whitelist_build_failed, AdminPage, vars
<1>3. ASSUME NEW t \in Tab,
             \/ ApproveNamed(t) \/ RejectNamed(t)
             \/ snapshot_registrations(t) \/ publish_registration(t)
      PROVE  UNCHANGED <<up, policyVars>>
  BY <1>3 DEF ApproveNamed, RejectNamed, snapshot_registrations,
              publish_registration, approve, reject, snapshot, publish, Persist
<1>4. CASE FileStep \/ Saved \/ NotSaved
  BY <1>4 DEF FileStep, Saved, NotSaved, FsCreate, FsWrite, Advance, LateStep,
              FsRename, FsFail, Drop
<1> QED
  BY <1>1, <1>2, <1>3, <1>4
  DEF PanelNext, approve_registrations, reject_registrations, Restart

\* The policies keep their types.
LEMMA PolicyType ==
  ASSUME PanelTypes, [PanelNext]_allVars
  PROVE  /\ policy' \in Policies
         /\ used' \in [DOMAIN policy'.codes -> Nat]
         /\ enrolled' \in [DOMAIN policy'.codes -> Nat]
         /\ entering' \subseteq [commitment : Commitment,
                                 code : DOMAIN policy'.codes \cup {NoCode}]
         /\ ~up' => entering' = {}
<1>1. CASE UNCHANGED <<up, policyVars>>
  BY <1>1 DEF policyVars, PanelTypes
<1>2. ASSUME NEW c \in Commitment, NEW k \in invite_code, register_handler(c, k)
      PROVE  /\ policy' = policy
             /\ used' \in [DOMAIN policy.codes -> Nat]
             /\ enrolled' = enrolled
             /\ entering' \subseteq [commitment : Commitment,
                                     code : DOMAIN policy.codes \cup {NoCode}]
             /\ up' = up /\ up
  BY <1>2 DEF register_handler, Note, check, invite_code, PanelTypes, vars
<1>3. ASSUME NEW q \in entering, Enroll(q) \/ NotEnrolled(q)
      PROVE  /\ policy' = policy /\ used' = used
             /\ enrolled' \in [DOMAIN policy.codes -> Nat]
             /\ entering' \subseteq entering
             /\ up' = up
  BY <1>3 DEF Enroll, NotEnrolled, register, Persist, PanelTypes, vars
<1>4. CASE Stop
  BY <1>4 DEF Stop, PanelTypes
<1>5. CASE Start
  <2>1. policy' \in Policies /\ used' = NoUses(policy') /\ enrolled' = NoUses(policy')
        /\ entering' = {} /\ up'
    BY <1>5 DEF Start, load, Policies, PanelTypes
  <2> QED
    BY <2>1 DEF NoUses
<1> QED
  BY <1>1, <1>2, <1>3, <1>4, <1>5, PolicyStep DEF PanelTypes

\* And so does the page.
LEMMA PageType ==
  ASSUME TypeOK, PanelTypes, [PanelNext]_allVars
  PROVE  /\ panel' \in [Tab -> List \cup {Unloaded}]
         /\ replies' \in [Tab -> SUBSET List]
         /\ review' \in [Tab -> [kind : {"none", "approve", "reject"}, cs : List]]
         /\ build' \in [Tab -> {"idle", "done", "failed"} \cup Building]
         /\ form' \in [Tab -> List]
         /\ serving' \in Tab \cup {NoTab}
         /\ clicked' \in List
<1> DEFINE Reviews == [kind : {"none", "approve", "reject"}, cs : List]
           Builds == {"idle", "done", "failed"} \cup Building
           Types == /\ panel' \in [Tab -> List \cup {Unloaded}]
                    /\ replies' \in [Tab -> SUBSET List]
                    /\ review' \in [Tab -> Reviews]
                    /\ build' \in [Tab -> Builds]
                    /\ form' \in [Tab -> List]
                    /\ serving' \in Tab \cup {NoTab}
                    /\ clicked' \in List
<1>0. /\ panel \in [Tab -> List \cup {Unloaded}]
      /\ replies \in [Tab -> SUBSET List]
      /\ review \in [Tab -> Reviews]
      /\ build \in [Tab -> Builds]
      /\ form \in [Tab -> List]
      /\ serving \in Tab \cup {NoTab}
      /\ clicked \in List
  BY DEF PanelTypes
<1>a. NoReview \in Reviews
  BY DEF NoReview, List
<1>b. \A kind \in {"idle", "done", "failed", "snapshot", "publish"} : kind \in Builds
  BY DEF Building
<1>c. {} \in List /\ tab \in [Tab -> List] /\ CommitmentsOf(mem.pending) \in List
  BY CommitmentsOfStore DEF List, TypeOK
<1> SUFFICES Types
  OBVIOUS
<1> HIDE DEF Reviews, Builds
<1>1. CASE UNCHANGED panelVars
  BY <1>0, <1>1 DEF panelVars
<1>2. ASSUME NEW t \in Tab,
             pending_registrations(t) \/ refresh_pending_registrations(t)
      PROVE  Types
  <2>1. CASE pending_registrations(t)
    BY <1>0, <1>c, <2>1 DEF pending_registrations
  <2>2. CASE refresh_pending_registrations(t)
    BY <1>0, <2>2 DEF refresh_pending_registrations
  <2> QED
    BY <1>2, <2>1, <2>2
<1>3. ASSUME NEW t \in Tab, NEW kind \in {"approve", "reject"}, submit_review(t, kind)
      PROVE  Types
  <2>1. panel[t] \in List
    BY <1>0, <1>3 DEF submit_review, ReviewPanel
  <2>2. [kind |-> kind, cs |-> panel[t]] \in Reviews
    BY <2>1 DEF Reviews
  <2>3. clicked' \in List
    BY <1>0, <1>3, <2>1 DEF submit_review, List
  <2> QED
    BY <1>0, <1>3, <2>2, <2>3 DEF submit_review
<1>4. ASSUME NEW t \in Tab,
             ApproveNamed(t) \/ RejectNamed(t) \/ snapshot_registrations(t)
                \/ publish_registration(t)
      PROVE  Types
  BY <1>0, <1>4 DEF ApproveNamed, RejectNamed, snapshot_registrations,
                    publish_registration, tabVars
<1>5. ASSUME NEW t \in Tab, ReviewOfNothing(t) \/ review_failed(t)
      PROVE  Types
  BY <1>0, <1>5, <1>a DEF ReviewOfNothing, review_done, review_failed, GiveUp
<1>6. ASSUME NEW t \in Tab,
             build_whitelist_from_registrations(t) \/ whitelist_build_failed(t)
      PROVE  Types
  BY <1>0, <1>6, <1>b
  DEF build_whitelist_from_registrations, whitelist_build_failed, GiveUp
<1>7. ASSUME NEW t \in Tab, AdminPage(t)
      PROVE  Types
  BY <1>0, <1>7, <1>c DEF AdminPage
<1>8. CASE FileStep
  BY <1>1, <1>8 DEF FileStep
<1>9. CASE Saved
  <2>1. CASE serving = NoTab
    BY <1>0, <1>9, <2>1 DEF Saved
  <2>2. CASE serving # NoTab /\ Snapshotted(serving)
    BY <1>0, <1>9, <1>b, <1>c, <2>2 DEF Saved, Snapshotted
  <2>3. CASE serving # NoTab /\ whitelist_build_done(serving)
    BY <1>0, <1>9, <1>b, <1>c, <2>3 DEF Saved, whitelist_build_done
  <2>4. CASE serving # NoTab /\ review_done(serving)
    BY <1>0, <1>9, <1>a, <2>4 DEF Saved, review_done
  <2> QED
    BY <1>9, <2>1, <2>2, <2>3, <2>4 DEF Saved
<1>10. CASE NotSaved
  BY <1>0, <1>10, <1>a, <1>b DEF NotSaved
<1>11. CASE Restart
  BY <1>0, <1>1, <1>11, <1>a, <1>b DEF Restart
<1>12. CASE UNCHANGED allVars
  BY <1>1, <1>12 DEF allVars
<1> QED
  BY <1>1, <1>2, <1>3, <1>4, <1>5, <1>6, <1>7, <1>8, <1>9, <1>10, <1>11, <1>12
  DEF PanelNext, approve_registrations, reject_registrations

\* The whole starts where the store, the policies and the page do.
LEMMA PanelStart == PanelInit => Init /\ TypeOK /\ PanelTypes
<1> SUFFICES ASSUME PanelInit PROVE Init /\ TypeOK /\ PanelTypes
  OBVIOUS
<1>1. Init /\ TypeOK
  BY StoreAssumption, EmptyStoreType
  DEF PanelInit, Init, TypeOK, OpenFile, Empty, List
<1>2. policy \in Policies /\ used = NoUses(policy) /\ enrolled = NoUses(policy)
      /\ entering = {}
  BY DEF PanelInit, PolicyInit, Policies
<1> QED
  BY <1>1, <1>2 DEF PanelInit, PanelTypes, NoUses, NoReview, List

\* Store, policies and page keep their types together.
LEMMA PanelTypeCorrect == PanelSpec => [](TypeOK /\ PanelTypes)
<1>1. TypeOK /\ PanelTypes /\ [PanelNext]_allVars => TypeOK' /\ PanelTypes'
  <2> SUFFICES ASSUME TypeOK, PanelTypes, [PanelNext]_allVars
               PROVE  TypeOK' /\ PanelTypes'
    OBVIOUS
  <2> QED
    BY PanelStepIsStep, TypeStep, PolicyType, PageType DEF PanelTypes
<1> QED
  BY <1>1, PanelStart, PTL DEF PanelSpec

(* The policies and the page use the store as its specification says, so what *)
(* is proved of the store holds behind them.                                  *)
THEOREM PanelImplementsStore == PanelSpec => Spec
<1>1. TypeOK /\ PanelTypes /\ [PanelNext]_allVars => [Next]_vars
  BY PanelStepIsStep
<1> QED
  BY <1>1, PanelStart, PanelTypeCorrect, PTL DEF PanelSpec, Spec
-----------------------------------------------------------------------------
(* Invite codes. *)

\* Uses of code k granted and on their way to the mutex.
Under(k) == {q \in entering : q.code = k}

\* Every use spent is enrolled, on its way, or lost; none is spent twice.
CodeInv ==
    /\ IsFiniteSet(entering)
    /\ \A k \in DOMAIN policy.codes :
          /\ enrolled[k] + Cardinality(Under(k)) <= used[k]
          /\ policy.codes[k] = Unlimited \/ used[k] <= policy.codes[k]

\* What is on its way is finite and counted.
LEMMA UnderFinite ==
  ASSUME NEW S, IsFiniteSet(S), NEW k
  PROVE  LET under == {q \in S : q.code = k} IN
         IsFiniteSet(under) /\ Cardinality(under) \in Nat
<1>1. {q \in S : q.code = k} \in SUBSET S
  OBVIOUS
<1> QED
  BY <1>1, FS_Subset, FS_CardinalityType

\* A use is granted while one is left, and becomes at most one entry.
LEMMA CodeStep ==
  ASSUME PanelTypes, CodeInv, [PanelNext]_allVars
  PROVE  CodeInv'
<1>0. /\ policy \in Policies
      /\ used \in [DOMAIN policy.codes -> Nat] /\ enrolled \in [DOMAIN policy.codes -> Nat]
  BY DEF PanelTypes
<1>1. CASE UNCHANGED <<up, policyVars>>
  BY <1>1 DEF policyVars, CodeInv, Under
<1>2. ASSUME NEW c \in Commitment, NEW k \in invite_code, register_handler(c, k)
      PROVE  CodeInv'
  <2> DEFINE new == [commitment |-> c, code |-> Note(k)]
  <2>1. /\ policy' = policy /\ enrolled' = enrolled /\ new \notin entering
        /\ entering' = entering \cup {new}
    BY <1>2 DEF register_handler
  <2>2. IsFiniteSet(entering')
    BY <2>1, FS_AddElement DEF CodeInv
  <2>3. ASSUME NEW l \in DOMAIN policy.codes, l # new.code
        PROVE  Under(l)' = Under(l)
    BY <2>1, <2>3 DEF Under
  <2>4. CASE policy.name = "invite-code"
    <3>1. /\ k \in DOMAIN policy.codes /\ UsesLeft(k) /\ new.code = k
          /\ used' = [used EXCEPT ![k] = @ + 1]
      BY <1>2, <2>4 DEF register_handler, check, Note
    <3>2. Under(k)' = Under(k) \cup {new} /\ new \notin Under(k)
      BY <2>1, <3>1 DEF Under
    <3>a. IsFiniteSet(Under(k)) /\ Cardinality(Under(k)) \in Nat
      BY UnderFinite DEF CodeInv, Under
    <3>3. Cardinality(Under(k)') = Cardinality(Under(k)) + 1
          /\ Cardinality(Under(k)) \in Nat
      BY <3>2, <3>a, FS_AddElement
    <3>4. policy.codes[k] = Unlimited \/ used[k] + 1 <= policy.codes[k]
      BY <1>0, <3>1, PolicyCodes DEF UsesLeft
    <3>5. enrolled[k] + (Cardinality(Under(k)) + 1) <= used[k] + 1
      BY <1>0, <3>1, <3>3 DEF CodeInv
    <3>6. ASSUME NEW l \in DOMAIN policy.codes
          PROVE  /\ enrolled'[l] + Cardinality(Under(l)') <= used'[l]
                 /\ policy.codes[l] = Unlimited \/ used'[l] <= policy.codes[l]
      <4>1. CASE l = k
        BY <1>0, <2>1, <3>1, <3>3, <3>4, <3>5, <4>1
      <4>2. CASE l # k
        BY <1>0, <2>1, <2>3, <3>1, <4>2 DEF CodeInv
      <4> QED
        BY <4>1, <4>2
    <3> QED
      BY <2>1, <2>2, <3>6 DEF CodeInv, Under
  <2>5. CASE policy.name # "invite-code"
    <3>1. new.code = NoCode /\ used' = used /\ NoCode \notin DOMAIN policy.codes
      BY <1>0, <1>2, <2>5, PolicyCodes DEF register_handler, Note
    <3>2. \A l \in DOMAIN policy.codes : Under(l)' = Under(l)
      BY <2>3, <3>1
    <3> QED
      BY <2>1, <2>2, <3>1, <3>2 DEF CodeInv
  <2> QED
    BY <2>4, <2>5
<1>3. ASSUME NEW q \in entering, Enroll(q) \/ NotEnrolled(q)
      PROVE  CodeInv'
  <2>1. /\ entering' = entering \ {q} /\ policy' = policy /\ used' = used
        /\ \/ enrolled' = enrolled
           \/ q.code # NoCode /\ enrolled' = [enrolled EXCEPT ![q.code] = @ + 1]
    BY <1>3 DEF Enroll, NotEnrolled
  <2>2. IsFiniteSet(entering')
    BY <2>1, FS_RemoveElement DEF CodeInv
  <2>3. ASSUME NEW l \in DOMAIN policy.codes
        PROVE  enrolled'[l] + Cardinality(Under(l)') <= used[l]
    <3>1. IsFiniteSet(Under(l)) /\ Cardinality(Under(l)) \in Nat
      BY UnderFinite DEF CodeInv, Under
    <3>2. CASE q.code = l
      <4>1. Under(l)' = Under(l) \ {q} /\ q \in Under(l)
        BY <2>1, <3>2 DEF Under
      <4>2. Cardinality(Under(l)') = Cardinality(Under(l)) - 1
        BY <3>1, <4>1, FS_RemoveElement
      <4>3. enrolled'[l] \in {enrolled[l], enrolled[l] + 1} /\ enrolled[l] \in Nat
        BY <1>0, <2>1, <3>2
      <4> QED
        BY <1>0, <3>1, <4>2, <4>3 DEF CodeInv
    <3>3. CASE q.code # l
      <4>1. Under(l)' = Under(l) /\ enrolled'[l] = enrolled[l]
        BY <1>0, <2>1, <3>3 DEF Under
      <4> QED
        BY <4>1 DEF CodeInv
    <3> QED
      BY <3>2, <3>3
  <2> QED
    BY <2>1, <2>2, <2>3 DEF CodeInv, Under
<1>4. CASE Stop
  <2>1. entering' = {} /\ policy' = policy /\ used' = used /\ enrolled' = enrolled
    BY <1>4 DEF Stop
  <2>2. \A l : Under(l)' = {} /\ Cardinality(Under(l)) \in Nat
    BY <2>1, UnderFinite DEF Under, CodeInv
  <2>3. \A l \in DOMAIN policy.codes : enrolled[l] + 0 <= used[l]
    BY <1>0, <2>2 DEF CodeInv
  <2> QED
    BY <2>1, <2>2, <2>3, FS_EmptySet DEF CodeInv
<1>5. CASE Start
  <2>1. /\ policy' \in Policies /\ used' = NoUses(policy') /\ enrolled' = NoUses(policy')
        /\ entering' = {}
    BY <1>5 DEF Start, load, Policies, PanelTypes
  <2>2. \A l : Under(l)' = {}
    BY <2>1 DEF Under
  <2>3. \A l \in DOMAIN policy'.codes :
           /\ used'[l] = 0 /\ enrolled'[l] = 0
           /\ policy'.codes[l] \in Nat \cup {Unlimited}
    BY <2>1, PolicyCodes DEF NoUses
  <2> QED
    BY <2>1, <2>2, <2>3, FS_EmptySet DEF CodeInv
<1> QED
  BY <1>1, <1>2, <1>3, <1>4, <1>5, PolicyStep

(* In one life of the process a code enrolls no more commitments than it has  *)
(* uses, over any number of requests waiting for the mutex, duplicates, full  *)
(* batches and dropped requests.                                              *)
THEOREM CodesStayInBudget == PanelSpec => []CodeBudgetHolds
<1>1. PanelInit => CodeInv
  <2> SUFFICES ASSUME PanelInit PROVE CodeInv
    OBVIOUS
  <2>1. /\ policy \in Policies /\ used = NoUses(policy) /\ enrolled = NoUses(policy)
        /\ entering = {}
    BY DEF PanelInit, PolicyInit, Policies
  <2>2. \A l : Under(l) = {}
    BY <2>1 DEF Under
  <2>3. \A l \in DOMAIN policy.codes :
           /\ used[l] = 0 /\ enrolled[l] = 0
           /\ policy.codes[l] \in Nat \cup {Unlimited}
    BY <2>1, PolicyCodes DEF NoUses
  <2> QED
    BY <2>1, <2>2, <2>3, FS_EmptySet DEF CodeInv
<1>2. TypeOK /\ PanelTypes /\ CodeInv /\ [PanelNext]_allVars => CodeInv'
  BY CodeStep
<1>3. PanelTypes /\ CodeInv => CodeBudgetHolds
  <2> SUFFICES ASSUME PanelTypes, CodeInv, NEW k \in DOMAIN enrolled,
                      policy.codes[k] # Unlimited
               PROVE  enrolled[k] <= policy.codes[k]
    BY DEF CodeBudgetHolds
  <2>1. k \in DOMAIN policy.codes /\ enrolled[k] \in Nat /\ used[k] \in Nat
        /\ policy.codes[k] \in Nat
    BY PolicyCodes DEF PanelTypes
  <2>2. Cardinality(Under(k)) \in Nat
    BY UnderFinite DEF CodeInv, Under
  <2> QED
    BY <2>1, <2>2 DEF CodeInv
<1> QED
  BY <1>1, <1>2, <1>3, PanelTypeCorrect, PTL DEF PanelSpec
-----------------------------------------------------------------------------
(* What an administrator had on screen. *)

\* Stores that approve and elect nobody but these.
Only(seen) ==
    {store \in Store :
       RequireApproval =>
          /\ \A e \in store.pending : e.approved => e.commitment \in seen
          /\ \A list \in Lists(store) : list \subseteq seen}

\* A review on its way approves nothing that was not on screen.
ClickedInv ==
    /\ StoresIn(Only(clicked))
    /\ \A t \in Tab : review[t].kind = "approve" => review[t].cs \subseteq clicked

\* A call that approves none but these.
SeenCall(seen) ==
    \/ \E c \in Commitment : register(c)
    \/ \E cs \in List : (cs \subseteq seen /\ approve(cs)) \/ reject(cs)
    \/ \E t \in Tab : snapshot(t) \/ publish(t)

\* It elects none but these either.
LEMMA CallApprovesOnly ==
  ASSUME TypeOK, NEW seen, mem \in Only(seen), SeenCall(seen)
  PROVE  mem' \in Only(seen)
<1>0. /\ mem \in Store /\ mem' \in Store /\ mem.pending \subseteq Entry
      /\ RequireApproval =>
            /\ \A e \in mem.pending : e.approved => e.commitment \in seen
            /\ \A list \in Lists(mem) : list \subseteq seen
  BY CallType DEF TypeOK, Store, Only, SeenCall, Call
<1> SUFFICES ASSUME RequireApproval
             PROVE  /\ \A e \in mem'.pending : e.approved => e.commitment \in seen
                    /\ \A list \in Lists(mem') : list \subseteq seen
  BY <1>0 DEF Only
<1>1. ASSUME NEW c \in Commitment, register(c)
      PROVE  /\ \A e \in mem'.pending : e.approved => e \in mem.pending
             /\ Lists(mem') = Lists(mem)
  <2> DEFINE new == [commitment |-> c, approved |-> ~RequireApproval]
  <2>1. ~new.approved
    OBVIOUS
  <2> HIDE DEF new
  <2>2. mem'.pending = mem.pending \cup {new} /\ Lists(mem') = Lists(mem)
    BY <1>0, <1>1 DEF register, Persist, Store, Lists, new
  <2> QED
    BY <2>1, <2>2
<1>2. ASSUME NEW cs \in List, cs \subseteq seen, approve(cs)
      PROVE  /\ \A e \in mem'.pending : e.approved => e.commitment \in seen
             /\ Lists(mem') = Lists(mem)
  <2> DEFINE marked(e) == [e EXCEPT !.approved = @ \/ e.commitment \in cs]
  <2>1. /\ mem'.pending = {marked(e) : e \in mem.pending}
        /\ Lists(mem') = Lists(mem)
    BY <1>0, <1>2 DEF approve, Persist, Store, Lists
  <2>2. \A e \in Entry :
           /\ marked(e).commitment = e.commitment
           /\ marked(e).approved => e.approved \/ e.commitment \in cs
    BY DEF Entry
  <2>3. \A e \in mem.pending : e.approved \/ e.commitment \in cs => e.commitment \in seen
    BY <1>0, <1>2
  <2> HIDE DEF marked
  <2>4. \A e \in mem.pending : marked(e).approved => marked(e).commitment \in seen
    BY <1>0, <2>2, <2>3
  <2> QED
    BY <2>1, <2>4
<1>3. ASSUME NEW cs \in List, reject(cs)
      PROVE  mem'.pending \subseteq mem.pending /\ Lists(mem') = Lists(mem)
  BY <1>0, <1>3 DEF reject, Persist, Store, Lists
<1>4. ASSUME NEW t \in Tab, snapshot(t)
      PROVE  /\ mem'.pending \subseteq mem.pending
             /\ \A list \in Lists(mem') :
                   list \in Lists(mem) \cup {CommitmentsOf(Approved(mem.pending))}
  BY <1>0, <1>4 DEF snapshot, Persist, Store, Lists
<1>5. ASSUME NEW t \in Tab, publish(t)
      PROVE  mem'.pending \subseteq mem.pending /\ Lists(mem') \subseteq Lists(mem)
  <2>1. /\ mem'.pending = mem.pending /\ mem'.lastSnapshot = mem.lastSnapshot
        /\ mem'.snapshots = [mem.snapshots EXCEPT ![tab[t]] = mem.lastSnapshot]
    BY <1>0, <1>5 DEF publish, Persist, Store
  <2> QED
    BY <1>0, <2>1 DEF Lists, Store
<1>6. CommitmentsOf(Approved(mem.pending)) \subseteq seen
  BY <1>0 DEF CommitmentsOf, Approved
<1> QED
  BY <1>0, <1>1, <1>2, <1>3, <1>4, <1>5, <1>6 DEF SeenCall

\* Reviews, the panel they were clicked on and the stores, step by step: each
\* step of the store is a call made by a handler, and the clicked stay so.
LEMMA ClickedStep ==
  ASSUME TypeOK, PanelTypes, ClickedInv, [PanelNext]_allVars
  PROVE  ClickedInv'
<1>1. clicked \subseteq clicked' /\ \A s \in Only(clicked) : s \in Only(clicked')
  <2>1. clicked \subseteq clicked'
    <3>1. ASSUME NEW t \in Tab, NEW kind \in {"approve", "reject"},
                 submit_review(t, kind)
          PROVE  clicked \subseteq clicked'
      BY <3>1 DEF submit_review
    <3>2. CASE UNCHANGED clicked
      BY <3>2
    <3> QED
      BY <3>1, <3>2
      DEF PanelNext, allVars, panelVars, approve_registrations, reject_registrations,
          pending_registrations, refresh_pending_registrations, ApproveNamed,
          RejectNamed, ReviewOfNothing, review_failed,
          build_whitelist_from_registrations, snapshot_registrations,
          publish_registration, whitelist_build_failed, AdminPage,
          FileStep, Saved, NotSaved, Restart
  <2> QED
    BY <2>1 DEF Only
<1>2. \A t \in Tab : review'[t].kind = "approve" => review'[t].cs \subseteq clicked'
  <2>1. CASE UNCHANGED review
    BY <1>1, <2>1 DEF ClickedInv
  <2>2. ASSUME NEW t \in Tab, NEW kind \in {"approve", "reject"}, submit_review(t, kind)
        PROVE  \A u \in Tab : review'[u].kind = "approve" => review'[u].cs \subseteq clicked'
    BY <1>1, <2>2 DEF submit_review, PanelTypes, ClickedInv
  <2>3. CASE \A t \in Tab : review'[t] \in {review[t], NoReview}
    BY <1>1, <2>3 DEF NoReview, ClickedInv
  <2>4. ASSUME NEW t \in Tab,
               \/ pending_registrations(t) \/ refresh_pending_registrations(t)
               \/ ApproveNamed(t) \/ RejectNamed(t)
               \/ build_whitelist_from_registrations(t)
               \/ snapshot_registrations(t) \/ publish_registration(t)
               \/ whitelist_build_failed(t) \/ AdminPage(t)
        PROVE  UNCHANGED review
    BY <2>4 DEF pending_registrations, refresh_pending_registrations, ApproveNamed,
                RejectNamed, build_whitelist_from_registrations, tabVars,
                snapshot_registrations, publish_registration,
                whitelist_build_failed, AdminPage
  <2>5. ASSUME NEW t \in Tab, ReviewOfNothing(t) \/ review_failed(t)
        PROVE  \A u \in Tab : review'[u] \in {review[u], NoReview}
    BY <2>5 DEF ReviewOfNothing, review_failed, review_done, PanelTypes
  <2>6. CASE FileStep \/ Saved \/ NotSaved \/ Restart
    <3>1. \A u \in Tab : review'[u] \in {review[u], NoReview}
      BY <2>6 DEF FileStep, panelVars, Saved, Snapshotted, whitelist_build_done,
                  review_done, NotSaved, Restart, PanelTypes
    <3> QED
      BY <2>3, <3>1
  <2> QED
    BY <2>1, <2>2, <2>3, <2>4, <2>5, <2>6
    DEF PanelNext, allVars, panelVars, approve_registrations, reject_registrations
<1>3. Call => mem' \in Only(clicked)
  <2> SUFFICES ASSUME Call PROVE mem' \in Only(clicked)
    OBVIOUS
  <2>1. CASE UNCHANGED mem
    BY <2>1 DEF ClickedInv, StoresIn
  <2>2. CASE SeenCall(clicked)
    BY <2>2, CallApprovesOnly DEF ClickedInv, StoresIn
  <2>3. ASSUME NEW q \in entering, Enroll(q) \/ NotEnrolled(q)
        PROVE  SeenCall(clicked) \/ UNCHANGED mem
    BY <2>3 DEF Enroll, NotEnrolled, vars, SeenCall, PanelTypes
  <2>4. ASSUME NEW t \in Tab, ApproveNamed(t) \/ RejectNamed(t)
        PROVE  SeenCall(clicked)
    <3>1. /\ review[t].cs \in List
          /\ review[t].kind = "approve" => review[t].cs \subseteq clicked
      BY DEF PanelTypes, ClickedInv
    <3> QED
      BY <2>4, <3>1 DEF ApproveNamed, RejectNamed, SeenCall
  <2>5. ASSUME NEW t \in Tab, snapshot_registrations(t) \/ publish_registration(t)
        PROVE  SeenCall(clicked)
    BY <2>5 DEF snapshot_registrations, publish_registration, SeenCall
  <2>6. ASSUME NEW t \in Tab,
               \/ pending_registrations(t) \/ refresh_pending_registrations(t)
               \/ \E kind \in {"approve", "reject"} : submit_review(t, kind)
               \/ ReviewOfNothing(t) \/ review_failed(t)
               \/ build_whitelist_from_registrations(t)
               \/ whitelist_build_failed(t) \/ AdminPage(t)
        PROVE  UNCHANGED mem
    BY <2>6 DEF pending_registrations, refresh_pending_registrations, submit_review,
                ReviewOfNothing, review_failed, build_whitelist_from_registrations,
                whitelist_build_failed, AdminPage, vars
  <2>7. CASE FileStep \/ Saved \/ NotSaved
    <3>1. UNCHANGED mem
      BY <2>7 DEF FileStep, Saved, NotSaved, FsCreate, FsWrite, Advance, LateStep,
                  FsRename, FsFail, Drop
    <3> QED
      BY <2>1, <3>1
  <2>8. ~Restart
    <3>1. Free /\ holder'.kind # "none"
      BY DEF Call, register, approve, reject, snapshot, publish, Persist
    <3> QED
      BY <3>1 DEF Restart, Stop, Start, Crash, load, Free, NoHolder
  <2>9. CASE UNCHANGED allVars \/
             \E c \in Commitment, k \in invite_code : register_handler(c, k)
    <3>1. UNCHANGED mem
      BY <2>9 DEF allVars, vars, register_handler
    <3> QED
      BY <2>1, <3>1
  <2> QED
    BY <2>1, <2>2, <2>3, <2>4, <2>5, <2>6, <2>7, <2>8, <2>9
    DEF PanelNext, approve_registrations, reject_registrations
<1>4. EmptyStore \in Only(clicked)
  BY EmptyStoreType DEF Only, EmptyStore, Lists
<1>5. /\ mem' \in Only(clicked)
      /\ \A i \in Inode : data'[i].store \in Only(clicked)
      /\ \A op \in late' : op.store \in Only(clicked)
  <2>1. PICK Good : Good = Only(clicked)
    OBVIOUS
  <2>2. EmptyStore \in Good /\ StoresIn(Good) /\ [Next]_vars /\ (Call => mem' \in Good)
    BY <1>3, <1>4, <2>1, PanelStepIsStep DEF ClickedInv
  <2>3. /\ mem' \in Good
        /\ \A i \in Inode : data'[i].store \in Good
        /\ \A op \in late' : op.store \in Good
    BY <2>2, StoresStep
  <2> QED
    BY <2>1, <2>3
<1> QED
  BY <1>1, <1>2, <1>5 DEF ClickedInv, StoresIn

(* Only what an administrator had on screen when clicking "Approve" is ever   *)
(* approved or in an electorate, over any number of tabs, stale lists, late   *)
(* file operations and crashes.                                               *)
THEOREM NothingUnseenIsApproved == PanelSpec => []ReviewedBeforeApproved
<1>1. PanelInit => ClickedInv
  <2> SUFFICES ASSUME PanelInit PROVE ClickedInv
    OBVIOUS
  <2>1. EmptyStore \in Only(clicked)
    BY EmptyStoreType DEF Only, EmptyStore, Lists
  <2>2. StoresIn(Only(clicked))
    BY <2>1 DEF PanelInit, Init, StoresIn, Empty
  <2> QED
    BY <2>2 DEF PanelInit, ClickedInv, NoReview
<1>2. TypeOK /\ PanelTypes /\ ClickedInv /\ [PanelNext]_allVars => ClickedInv'
  BY ClickedStep
<1>3. TypeOK /\ ClickedInv => ReviewedBeforeApproved
  <2> SUFFICES ASSUME TypeOK, ClickedInv PROVE ReviewedBeforeApproved
    OBVIOUS
  <2>1. EmptyStore \in Only(clicked)
    BY EmptyStoreType DEF Only, EmptyStore, Lists
  <2>2. mem \in Only(clicked) /\ Disk \in Only(clicked)
    BY <2>1, DiskIn DEF ClickedInv, StoresIn
  <2> QED
    BY <2>2 DEF Only, ReviewedBeforeApproved, Electable
<1> QED
  BY <1>1, <1>2, <1>3, PanelTypeCorrect, PTL DEF PanelSpec
-----------------------------------------------------------------------------
(* The root in the form. *)

\* A list once on disk stays in memory, and what is being published is there
\* under its root.
ServedInv ==
    /\ up => \A r \in Root :
                Disk.snapshots[r] # {} => mem.snapshots[r] = Disk.snapshots[r]
    /\ holder # NoHolder /\ holder.kind = "publish" =>
          mem.snapshots[tab[holder.arg]] = tab[holder.arg]

\* Calls publish over nothing but the same list.
LEMMA ServedStep ==
  ASSUME InTime, TypeOK, FileInv, ListsInv, ServedInv, [Next]_vars
  PROVE  ServedInv'
<1>1. up' => \A r \in Root :
                Disk'.snapshots[r] # {} => mem'.snapshots[r] = Disk'.snapshots[r]
  <2>1. CASE Call
    <3>0. Disk' = Disk /\ up
      BY <2>1, CallKeepsFile DEF Free
    <3>1. ASSUME NEW t \in Tab, publish(t)
          PROVE  \A r \in Root : mem.snapshots[r] # {} => mem'.snapshots[r] = mem.snapshots[r]
      <4>1. mem.snapshots \in [Root -> List]
        BY DEF TypeOK, Store
      <4> QED
        BY <3>1, <4>1, PublishesItsList
    <3>2. ASSUME ~(\E t \in Tab : publish(t))
          PROVE  mem'.snapshots = mem.snapshots
      BY <2>1, <3>2 DEF Call, register, approve, reject, snapshot, Persist, TypeOK, Store
    <3> QED
      BY <3>0, <3>1, <3>2 DEF ServedInv
  <2>2. CASE Untouched \/ Renamed
    BY <2>2 DEF Untouched, Renamed, ServedInv
  <2>3. CASE ~up'
    BY <2>3
  <2>4. CASE ~up /\ Disk' = Disk /\ mem' = Disk
    BY <2>4
  <2> QED
    BY <2>1, <2>2, <2>3, <2>4, FilesStep
<1>2. holder' # NoHolder /\ holder'.kind = "publish" =>
         mem'.snapshots[tab'[holder'.arg]] = tab'[holder'.arg]
  <2>1. ASSUME NEW t \in Tab, publish(t)
        PROVE  /\ holder'.arg = t /\ tab' = tab
               /\ mem'.snapshots[tab[t]] = tab[t]
    <3>1. mem.snapshots \in [Root -> List]
      BY DEF TypeOK, Store
    <3>2. mem'.snapshots[tab[t]] = tab[t]
      BY <2>1, <3>1, PublishesItsList
    <3>3. holder'.arg = t /\ tab' = tab
      BY <2>1 DEF publish, Persist, clients
    <3> QED
      BY <3>2, <3>3
  <2>2. ASSUME Call, ~(\E t \in Tab : publish(t))
        PROVE  holder'.kind # "publish"
    BY <2>2 DEF Call, register, approve, reject, snapshot, Persist
  <2>3. ASSUME NEW step, NEW i, holder # NoHolder, Advance(step, i)
        PROVE  /\ holder'.kind = holder.kind /\ holder'.arg = holder.arg
               /\ mem' = mem /\ tab' = tab
    BY <2>3 DEF Advance, clients, TypeOK, Holders, Holder
  <2>4. CASE UNCHANGED <<holder, mem, tab>>
    BY <2>4 DEF ServedInv
  <2>5. CASE holder' = NoHolder
    BY <2>5
  <2>6. CASE load
    BY <2>6 DEF load, FileInv
  <2> QED
    BY <2>1, <2>2, <2>3, <2>4, <2>5, <2>6, NextIsCall
    DEF ServedInv, vars, clients, FsCreate, FsWrite, FsRename, FsFail, Drop,
        LateStep, Crash
<1> QED
  BY <1>1, <1>2 DEF ServedInv

\* A root in the form has its list on disk.
FormInv == \A t \in Tab : form[t] # {} => Disk.snapshots[form[t]] = form[t]

\* The form is filled by the 200 of the publication, and lists stay on disk.
LEMMA FormStep ==
  ASSUME InTime, OneTab, TypeOK, FileInv, ListsInv, ServedInv, PanelTypes, FormInv,
         [PanelNext]_allVars
  PROVE  FormInv'
<1>0. form \in [Tab -> Root] /\ [Next]_vars
  BY PanelStepIsStep DEF PanelTypes, Root
<1>1. ASSUME NEW t \in Tab, form[t] # {}
      PROVE  Disk'.snapshots[form[t]] = form[t]
  <2>1. Disk.snapshots[form[t]] = form[t] /\ form[t] \in Root
    BY <1>0, <1>1 DEF FormInv
  <2>2. CASE Disk' = Disk
    BY <2>1, <2>2
  <2>3. CASE Renamed
    BY <1>1, <2>1, <2>3 DEF Renamed, ServedInv
  <2> QED
    BY <1>0, <2>2, <2>3, FilesStep DEF Untouched
<1>2. CASE UNCHANGED form
  BY <1>1, <1>2 DEF FormInv
<1>3. CASE Saved
  <2>1. /\ holder # NoHolder /\ FsRename /\ holder.kind \in {"register", "approve",
              "reject", "snapshot", "publish"}
        /\ serving \in Tab \cup {NoTab}
    BY <1>3 DEF Saved, FsRename, TypeOK, Holders, Holder, PanelTypes
  <2>2. CASE serving # NoTab /\ holder.kind = "publish"
    <3>1. /\ serving \in Tab /\ holder.arg \in Tab /\ serving = holder.arg
          /\ mem.snapshots[tab[serving]] = tab[serving]
          /\ form' = [form EXCEPT ![serving] = tab[serving]]
      BY <1>3, <2>1, <2>2
      DEF Saved, whitelist_build_done, ServedInv, TypeOK, Holders, Holder, OneTab
    <3>2. Renamed
      <4>1. Ready("rename", holder.ino) /\ up /\ RenameTmp /\ UNCHANGED <<up, mem>>
        BY <2>1 DEF FsRename, FileInv
      <4> QED
        BY <4>1, RenameStep DEF Ready, Renamed
    <3> QED
      BY <1>0, <1>1, <3>1, <3>2 DEF Renamed, FormInv
  <2>3. CASE ~(serving # NoTab /\ holder.kind = "publish")
    <3>1. UNCHANGED form
      BY <1>3, <2>3 DEF Saved, Snapshotted, review_done
    <3> QED
      BY <1>2, <3>1
  <2> QED
    BY <2>2, <2>3
<1>4. ASSUME NEW t \in Tab, AdminPage(t)
      PROVE  FormInv'
  BY <1>0, <1>1, <1>4 DEF AdminPage, FormInv
<1>5. ASSUME NEW t \in Tab,
             \/ pending_registrations(t) \/ refresh_pending_registrations(t)
             \/ \E kind \in {"approve", "reject"} : submit_review(t, kind)
             \/ ApproveNamed(t) \/ RejectNamed(t) \/ ReviewOfNothing(t)
             \/ review_failed(t) \/ build_whitelist_from_registrations(t)
             \/ snapshot_registrations(t) \/ publish_registration(t)
             \/ whitelist_build_failed(t)
      PROVE  UNCHANGED form
  BY <1>5 DEF pending_registrations, refresh_pending_registrations, submit_review,
              ApproveNamed, RejectNamed, ReviewOfNothing, review_done, review_failed,
              build_whitelist_from_registrations, snapshot_registrations,
              publish_registration, whitelist_build_failed, tabVars
<1>6. CASE FileStep \/ NotSaved \/ Restart
  <2>1. UNCHANGED form
    BY <1>6 DEF FileStep, NotSaved, Restart, panelVars
  <2> QED
    BY <1>2, <2>1
<1> QED
  BY <1>2, <1>3, <1>4, <1>5, <1>6
  DEF PanelNext, allVars, panelVars, approve_registrations, reject_registrations

(* A root in the create-poll form has its voters on disk, and every list that *)
(* is served is the one its root is of, over lost answers, failed writes,     *)
(* builds begun again and crashes.                                            *)
THEOREM FormRootsHaveLists ==
  ASSUME InTime, OneTab PROVE PanelSpec => []FormRootHasItsList
<1>1. PanelInit => ServedInv /\ FormInv
  BY DEF PanelInit, Init, ServedInv, FormInv, Disk
<1>2. TypeOK /\ FileInv /\ ListsInv /\ ServedInv /\ PanelTypes /\ FormInv
         /\ [PanelNext]_allVars => ServedInv' /\ FormInv'
  BY ServedStep, FormStep, PanelStepIsStep
<1>3. ListsInv /\ FormInv => FormRootHasItsList
  BY DEF ListsInv, Faithful, FormInv, FormRootHasItsList, poll_registrations
<1> QED
  BY <1>1, <1>2, <1>3, PanelImplementsStore, PanelTypeCorrect, Inductive, PTL
  DEF PanelSpec
=============================================================================
