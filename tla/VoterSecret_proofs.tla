-------------------------- MODULE VoterSecret_proofs --------------------------
(***************************************************************************)
(* Proofs about VoterSecret, for any accounts, waiting tasks, backups and  *)
(* storage failures: no account's slot holds another one's secret, and the *)
(* page warns of a secret no storage holds; while storage works, the label *)
(* "restorable" tells the truth and a random secret is replaced only at    *)
(* its voter's request.                                                    *)
(***************************************************************************)
EXTENDS VoterSecret, TLAPS

\* Derived secrets, random ones, no value and a corrupt one are told apart.
LEMMA Constructors ==
  /\ \A a \in Account : derive_from_signature(a) \in Value /\ Random(a) \in Value
  /\ \A a, b : derive_from_signature(a) # Random(b)
  /\ NoValue \notin Value /\ Corrupt \notin Value /\ NoValue # Corrupt
  BY DEF Value, derive_from_signature, Random, NoValue, Corrupt
-----------------------------------------------------------------------------
(* The storage calls: their outcomes, and what each does to a slot. *)

\* A write changes one half of a slot.
LEMMA SlotWrite ==
  ASSUME NEW slot \in Slot
  PROVE  /\ \A v : [slot EXCEPT !["value"] = v] = [value |-> v, tag |-> slot.tag]
         /\ \A t : [slot EXCEPT !["tag"] = t] = [value |-> slot.value, tag |-> t]
  BY DEF Slot

\* set, as a choice of outcomes.
LEMMA SetOutcomes ==
  ASSUME NEW slot, NEW key, NEW text, NEW o \in set(slot, key, text)
  PROVE  LET written == [slot EXCEPT ![key] = text] IN
         \/ o = Outcome(written, "Ok", FALSE)
         \/ MayFail /\ o = Outcome(slot, "Err", TRUE)
         \/ MayFail /\ o = Outcome(written, "Err", TRUE)
  BY DEF set, IfItMayFail

\* remove, as a choice of outcomes.
LEMMA RemoveOutcomes ==
  ASSUME NEW slot, NEW key, NEW absent, NEW o \in remove(slot, key, absent)
  PROVE  \/ o = Outcome([slot EXCEPT ![key] = absent], "Ok", FALSE)
         \/ MayFail /\ o = Outcome(slot, "Err", TRUE)
  BY DEF remove, IfItMayFail

\* get, as a choice of outcomes.
LEMMA GetOutcomes ==
  ASSUME NEW slot, NEW o \in get(slot)
  PROVE  \/ o = Outcome(slot, "Ok", FALSE)
         \/ MayFail /\ o = Outcome(slot, "Err", TRUE)
  BY DEF get, IfItMayFail

\* store writes the value, then the tag: what each failure leaves.
LEMMA StoreOutcomes ==
  ASSUME NEW slot \in Slot, NEW value \in Value, NEW origin \in Origin,
         NEW o \in store(slot, value, origin)
  PROVE  \/ o = Outcome([value |-> value, tag |-> origin], "Ok", FALSE)
         \/ /\ MayFail
            /\ \E s \in {slot, [value |-> value, tag |-> slot.tag],
                         [value |-> value, tag |-> origin]} :
                  o = Outcome(s, "Err", TRUE)
<1> DEFINE valued == [value |-> value, tag |-> slot.tag]
<1>1. PICK first \in set(slot, "value", value) :
         o \in IF first.answer = "Ok" THEN set(first.slot, "tag", origin) ELSE {first}
  BY DEF store, Then
<1>2. valued \in Slot /\ [slot EXCEPT !["value"] = value] = valued
  BY SlotWrite DEF Slot
<1>3. [valued EXCEPT !["tag"] = origin] = [value |-> value, tag |-> origin]
  BY <1>2, SlotWrite
<1> HIDE DEF valued
<1>4. CASE first = Outcome(valued, "Ok", FALSE)
  <2>1. first.answer = "Ok" /\ first.slot = valued
    BY <1>4 DEF Outcome
  <2>2. o \in set(valued, "tag", origin)
    BY <1>1, <2>1
  <2> QED
    BY <2>2, <1>3, SetOutcomes DEF valued, Outcome
<1>5. CASE MayFail /\ first \in {Outcome(slot, "Err", TRUE), Outcome(valued, "Err", TRUE)}
  <2>1. first.answer = "Err"
    BY <1>5 DEF Outcome
  <2>2. o = first
    BY <1>1, <2>1
  <2> QED
    BY <1>5, <2>2 DEF valued
<1> QED
  BY <1>2, <1>4, <1>5, SetOutcomes

\* forget removes the value, then the tag: what each failure leaves.
LEMMA ForgetOutcomes ==
  ASSUME NEW slot \in Slot, NEW o \in forget(slot)
  PROVE  \/ o = Outcome(EmptySlot, "Ok", FALSE)
         \/ /\ MayFail
            /\ \E s \in {slot, [value |-> NoValue, tag |-> slot.tag]} :
                  o = Outcome(s, "Err", TRUE)
<1> DEFINE removed == [value |-> NoValue, tag |-> slot.tag]
<1>1. PICK first \in remove(slot, "value", NoValue) :
         o \in IF first.answer = "Ok" THEN remove(first.slot, "tag", NoTag) ELSE {first}
  BY DEF forget, Then
<1>2. removed \in Slot /\ [slot EXCEPT !["value"] = NoValue] = removed
  BY SlotWrite DEF Slot
<1>3. [removed EXCEPT !["tag"] = NoTag] = EmptySlot
  BY <1>2, SlotWrite DEF EmptySlot
<1> HIDE DEF removed
<1>4. CASE first = Outcome(removed, "Ok", FALSE)
  <2>1. first.answer = "Ok" /\ first.slot = removed
    BY <1>4 DEF Outcome
  <2>2. o \in remove(removed, "tag", NoTag)
    BY <1>1, <2>1
  <2> QED
    BY <2>2, <1>3, RemoveOutcomes DEF removed, Outcome
<1>5. CASE MayFail /\ first = Outcome(slot, "Err", TRUE)
  <2>1. first.answer = "Err"
    BY <1>5 DEF Outcome
  <2>2. o = first
    BY <1>1, <2>1
  <2> QED
    BY <1>5, <2>2 DEF removed
<1> QED
  BY <1>2, <1>4, <1>5, RemoveOutcomes

\* The slot after a call on it, and the failures counted.
Changes(a, o) ==
    /\ storage' = [storage EXCEPT ![a] = o.slot]
    /\ o.slot \in Slot
    /\ failures' \in Nat /\ failures <= failures' /\ failures' <= MaxFailures

Worked(o, slot, answer) == o.slot = slot /\ o.answer = answer /\ ~o.failed
Broke(o, slot, answer) == MayFail /\ o.slot = slot /\ o.answer = answer /\ o.failed

\* The fields of an outcome.
LEMMA OutcomeOf ==
  ASSUME NEW slot, NEW answer, NEW o
  PROVE  /\ o = Outcome(slot, answer, FALSE) => Worked(o, slot, answer)
         /\ o = Outcome(slot, answer, TRUE) /\ MayFail => Broke(o, slot, answer)
  BY DEF Outcome, Worked, Broke

\* A call that worked fails nothing; one that broke is counted.
LEMMA EffectOf ==
  ASSUME failures \in 0..MaxFailures, NEW a, NEW slot \in Slot, NEW answer, NEW o,
         Effect(a, o), Worked(o, slot, answer) \/ Broke(o, slot, answer)
  PROVE  /\ Changes(a, o)
         /\ o.slot = slot /\ o.answer = answer
         /\ Broke(o, slot, answer) => failures' # 0
<1>1. CASE Worked(o, slot, answer)
  <2>1. failures' = failures
    BY <1>1 DEF Worked, Effect
  <2> QED
    BY <1>1, <2>1, SecretAssumption DEF Worked, Broke, Effect, Changes
<1>2. CASE Broke(o, slot, answer)
  <2>1. failures' = failures + 1
    BY <1>2 DEF Broke, Effect
  <2> QED
    BY <1>2, <2>1, SecretAssumption DEF Broke, MayFail, Effect, Changes
<1> QED
  BY <1>1, <1>2

\* What store does to the browser.
LEMMA StoreEffect ==
  ASSUME TypeOK, NEW a \in Account, NEW value \in Value, NEW origin \in Origin,
         NEW o \in store(storage[a], value, origin), Effect(a, o)
  PROVE  /\ Changes(a, o)
         /\ o.slot.value \in {storage[a].value, value}
         /\ o.answer = "Ok" => o.slot = [value |-> value, tag |-> origin]
         /\ o.answer # "Ok" => o.answer = "Err" /\ failures' # 0
<1>1. storage[a] \in Slot /\ failures \in 0..MaxFailures
  BY DEF TypeOK
<1>2. CASE o = Outcome([value |-> value, tag |-> origin], "Ok", FALSE)
  <2> DEFINE stored == [value |-> value, tag |-> origin]
  <2>1. stored \in Slot /\ stored.value = value
    BY DEF Slot
  <2>2. Worked(o, stored, "Ok")
    BY <1>2 DEF Outcome, Worked
  <2> HIDE DEF stored
  <2>3. Changes(a, o) /\ o.slot = stored /\ o.answer = "Ok"
    BY <1>1, <2>1, <2>2, EffectOf
  <2> QED
    BY <2>3 DEF stored
<1>3. ASSUME NEW s \in {storage[a], [value |-> value, tag |-> storage[a].tag],
                        [value |-> value, tag |-> origin]},
             Broke(o, s, "Err")
      PROVE  /\ Changes(a, o)
             /\ o.slot.value \in {storage[a].value, value}
             /\ o.answer = "Err" /\ failures' # 0
  <2>1. s \in Slot /\ s.value \in {storage[a].value, value}
    BY <1>1 DEF Slot
  <2> QED
    BY <1>1, <1>3, <2>1, EffectOf
<1> QED
  BY <1>1, <1>2, <1>3, StoreOutcomes DEF Outcome, Broke

\* What forget does to the browser.
LEMMA ForgetEffect ==
  ASSUME TypeOK, NEW a \in Account, NEW o \in forget(storage[a]), Effect(a, o)
  PROVE  /\ Changes(a, o)
         /\ o.slot.value \in {storage[a].value, NoValue}
         /\ o.slot # storage[a] => o.slot.value = NoValue
<1>1. storage[a] \in Slot /\ failures \in 0..MaxFailures
  BY DEF TypeOK
<1>2. CASE o = Outcome(EmptySlot, "Ok", FALSE)
  <2>1. EmptySlot \in Slot /\ EmptySlot.value = NoValue
    BY DEF Slot, EmptySlot
  <2>2. Worked(o, EmptySlot, "Ok")
    BY <1>2 DEF Outcome, Worked
  <2>3. Changes(a, o) /\ o.slot = EmptySlot
    BY <1>1, <2>1, <2>2, EffectOf
  <2> QED
    BY <2>1, <2>3
<1>3. ASSUME NEW s \in {storage[a], [value |-> NoValue, tag |-> storage[a].tag]},
             Broke(o, s, "Err")
      PROVE  /\ Changes(a, o)
             /\ o.slot.value \in {storage[a].value, NoValue}
             /\ o.slot # storage[a] => o.slot.value = NoValue
  <2>1. s \in Slot /\ s.value \in {storage[a].value, NoValue}
    BY <1>1 DEF Slot
  <2>2. s # storage[a] => s.value = NoValue
    OBVIOUS
  <2> QED
    BY <1>1, <1>3, <2>1, <2>2, EffectOf
<1> QED
  BY <1>1, <1>2, <1>3, ForgetOutcomes DEF Outcome, Broke

\* Looking a secret up changes at most a missing tag.
LEMMA CachedEffect ==
  ASSUME TypeOK, NEW a \in Account, NEW o \in cached(storage[a]), Effect(a, o)
  PROVE  /\ Changes(a, o)
         /\ o.slot.value \in {storage[a].value}
         /\ \/ o.slot = storage[a]
            \/ storage[a].tag = NoTag /\ o.slot.tag = "legacy-random"
         /\ o.answer = "Ok" => storage[a].value \in Value
         /\ o.answer = "None" => storage[a].value \notin Value
         /\ o.answer \in {"Ok", "None", "Err"}
         /\ o.answer = "Err" => failures' # 0
<1> DEFINE slot == storage[a]
           tagged == [value |-> slot.value, tag |-> "legacy-random"]
<1>1. slot \in Slot /\ failures \in 0..MaxFailures
  BY DEF TypeOK
<1>2. slot.tag = NoTag => originOf(slot) = "legacy-random"
  BY DEF originOf, NoTag, Origin
<1>3. /\ slot.tag = NoTag => [slot EXCEPT !["tag"] = "legacy-random"] = tagged
      /\ tagged \in Slot
  BY <1>1, SlotWrite DEF Slot, Origin
<1> HIDE DEF slot, tagged
<1>4. ASSUME NEW s, s = slot \/ (slot.tag = NoTag /\ s = tagged),
             NEW answer \in {"Ok", "None", "Err"},
             answer = "Ok" => slot.value \in Value,
             answer = "None" => slot.value \notin Value,
             \/ Worked(o, s, answer) /\ answer # "Err"
             \/ Broke(o, s, answer)
      PROVE  /\ Changes(a, o)
             /\ o.slot.value \in {slot.value}
             /\ \/ o.slot = slot
                \/ slot.tag = NoTag /\ o.slot.tag = "legacy-random"
             /\ o.answer = answer
             /\ o.answer = "Err" => failures' # 0
  <2>1. s \in Slot /\ s.value = slot.value
    BY <1>1, <1>3, <1>4 DEF tagged
  <2>2. s = slot \/ (slot.tag = NoTag /\ s.tag = "legacy-random")
    BY <1>4 DEF tagged
  <2>3. /\ Changes(a, o) /\ o.slot = s /\ o.answer = answer
        /\ Broke(o, s, answer) => failures' # 0
    BY <1>1, <1>4, <2>1, EffectOf
  <2> QED
    BY <1>4, <2>1, <2>2, <2>3
<1>5. CASE slot.value \notin Value
  <2>1. PICK g \in get(slot) : o = [g EXCEPT !.answer = IF @ = "Ok" THEN "None" ELSE @]
    BY <1>5 DEF cached, parse_stored_value, slot
  <2>2. CASE g = Outcome(slot, "Ok", FALSE)
    <3>1. Worked(o, slot, "None")
      BY <2>1, <2>2 DEF Outcome, Worked
    <3> QED
      BY <1>4, <1>5, <3>1 DEF slot
  <2>3. CASE MayFail /\ g = Outcome(slot, "Err", TRUE)
    <3>1. Broke(o, slot, "Err")
      BY <2>1, <2>3 DEF Outcome, Broke
    <3> QED
      BY <1>4, <1>5, <2>3, <3>1 DEF slot
  <2> QED
    BY <2>2, <2>3, GetOutcomes
<1>6. CASE slot.value \in Value
  <2>1. PICK g \in get(slot) : o \in IF g.answer = "Ok" THEN backfill(g.slot) ELSE {g}
    BY <1>6 DEF cached, Then, parse_stored_value, slot
  <2>2. CASE g = Outcome(slot, "Ok", FALSE)
    <3>1. o \in backfill(slot)
      BY <2>1, <2>2 DEF Outcome
    <3>2. CASE slot.tag # NoTag
      <4>1. Worked(o, slot, "Ok")
        BY <3>1, <3>2 DEF backfill, Outcome, Worked
      <4> QED
        BY <1>4, <1>6, <4>1 DEF slot
    <3>3. CASE slot.tag = NoTag
      <4>1. PICK w \in set(slot, "tag", "legacy-random") : o = [w EXCEPT !.answer = "Ok"]
        BY <1>2, <3>1, <3>3 DEF backfill
      <4>2. \/ w = Outcome(tagged, "Ok", FALSE)
            \/ MayFail /\ w = Outcome(slot, "Err", TRUE)
            \/ MayFail /\ w = Outcome(tagged, "Err", TRUE)
        BY <1>3, <3>3, SetOutcomes DEF Outcome
      <4>3. \/ Worked(o, tagged, "Ok")
            \/ Broke(o, slot, "Ok")
            \/ Broke(o, tagged, "Ok")
        BY <4>1, <4>2 DEF Outcome, Worked, Broke
      <4> QED
        BY <1>4, <1>6, <3>3, <4>3 DEF slot
    <3> QED
      BY <3>2, <3>3
  <2>3. CASE MayFail /\ g = Outcome(slot, "Err", TRUE)
    <3>1. Broke(o, slot, "Err")
      BY <2>1, <2>3 DEF Outcome, Broke
    <3> QED
      BY <1>4, <1>6, <2>3, <3>1 DEF slot
  <2> QED
    BY <2>2, <2>3, GetOutcomes
<1> QED
  BY <1>5, <1>6
-----------------------------------------------------------------------------
(* The inductive invariant. *)

\* A task waits for an account; a migration's voter asked for it.
TaskInv ==
    \A t \in Task : tasks[t] # Idle =>
       /\ tasks[t].kind \in {"load", "use", "migrate"}
       /\ tasks[t].account \in Account
       /\ tasks[t].kind = "migrate" => tasks[t].account \in asked

\* A resolution that waits found no secret, and only its voter put a random one
\* there since: answering it replaces none unasked.
WaitInv ==
    failures = 0 =>
       \A t \in Task :
          LET a == tasks[t].account IN
          (tasks[t] # Idle /\ a \notin asked) => storage[a].value # Random(a)

IInv ==
    /\ TypeOK /\ TaskInv /\ WaitInv
    /\ SecretsStayWithTheirAccount /\ OriginIsHonest /\ UnsavedIsWarned

\* The fields of what the page shows.
LEMMA Shown ==
  ASSUME NEW a \in Account, NEW value \in Value, NEW origin \in Origin,
         NEW warning, warning \in BOOLEAN,
         secret_resolved(a, value, origin, warning)
  PROVE  /\ shown' # Nothing
         /\ shown' \in [value : Value, origin : Origin, warning : BOOLEAN, account : Account]
         /\ shown'.account = a /\ shown'.value = value /\ shown'.origin = origin
         /\ shown'.warning = warning
  BY SecretAssumption, Constructors DEF secret_resolved, Nothing

\* A secret shown with the label "restorable" is derived from its account.
LEMMA HonestMeans ==
  OriginIsHonest <=>
     (failures = 0 =>
        /\ \A a \in Account :
              (storage[a].tag = "wallet-derived-v1" /\ storage[a].value \in Value)
                 => storage[a].value = derive_from_signature(a)
        /\ (shown # Nothing /\ shown.origin = "wallet-derived-v1") =>
              shown.value = derive_from_signature(shown.account))
  BY DEF OriginIsHonest, is_recoverable_from_wallet, parse_stored_value, ProvenanceNotice

\* A step that only ends tasks keeps the tasks' types.
LEMMA TasksEnd ==
  ASSUME TypeOK, NEW end,
         end = [t \in Task |-> Idle] \/ \E t \in Task : end = [tasks EXCEPT ![t] = Idle]
  PROVE  /\ end \in [Task -> [kind : {"idle", "load", "use", "migrate"},
                              account : Account \cup {NoAccount}, read_error : BOOLEAN]]
         /\ \A t \in Task : end[t] = tasks[t] \/ end[t] = Idle
<1> DEFINE Waiting == [kind : {"idle", "load", "use", "migrate"},
                       account : Account \cup {NoAccount}, read_error : BOOLEAN]
<1>1. Idle \in Waiting
  BY DEF Idle
<1>2. tasks \in [Task -> Waiting]
  BY DEF TypeOK
<1> HIDE DEF Waiting
<1>3. /\ end \in [Task -> Waiting]
      /\ \A t \in Task : end[t] = tasks[t] \/ end[t] = Idle
  BY <1>1, <1>2
<1> QED
  BY <1>3 DEF Waiting

\* Steps that leave the storage alone, and show nothing new.
LEMMA QuietStep ==
  ASSUME IInv, UNCHANGED <<storage, failures, imported, asked>>,
         address' \in Account \cup {NoAccount}, listening' \in BOOLEAN,
         busy' \in BOOLEAN, held' \in Value \cup {Corrupt},
         shown' = shown \/ shown' = Nothing,
         \/ tasks' = tasks
         \/ tasks' = [t \in Task |-> Idle] \/ \E t \in Task : tasks' = [tasks EXCEPT ![t] = Idle]
  PROVE  IInv'
<1>1. /\ tasks' \in [Task -> [kind : {"idle", "load", "use", "migrate"},
                              account : Account \cup {NoAccount}, read_error : BOOLEAN]]
      /\ \A t \in Task : tasks'[t] = tasks[t] \/ tasks'[t] = Idle
  BY TasksEnd DEF IInv, TypeOK
<1>2. \/ shown' = Nothing
      \/ shown' \in [value : Value, origin : Origin, warning : BOOLEAN, account : Account]
  BY DEF IInv, TypeOK
<1>3. TypeOK'
  BY <1>1, <1>2 DEF IInv, TypeOK
<1>4. TaskInv' /\ WaitInv'
  BY <1>1 DEF IInv, TaskInv, WaitInv
<1>5. SecretsStayWithTheirAccount'
  BY DEF IInv, SecretsStayWithTheirAccount
<1>6. OriginIsHonest' /\ UnsavedIsWarned'
  BY DEF IInv, OriginIsHonest, UnsavedIsWarned,
     is_recoverable_from_wallet, parse_stored_value, ProvenanceNotice
<1> QED
  BY <1>3, <1>4, <1>5, <1>6 DEF IInv

\* What a step that changes one slot owes to the invariant.
LEMMA SlotStep ==
  ASSUME IInv, NEW a \in Account, NEW o, Changes(a, o),
         imported \subseteq imported', asked \subseteq asked',
         o.slot.value \in {storage[a].value, NoValue, derive_from_signature(a)}
                          \cup {v \in Value : <<a, v>> \in imported'},
         \/ o.slot.value \in {storage[a].value, NoValue, derive_from_signature(a)}
         \/ a \in asked',
         failures' = 0 /\ o.slot.tag = "wallet-derived-v1" /\ o.slot.value \in Value
            => o.slot.value = derive_from_signature(a)
  PROVE  /\ storage' \in [Account -> Slot]
         /\ \A b \in Account : storage'[b] = IF b = a THEN o.slot ELSE storage[b]
         /\ failures' \in 0..MaxFailures
         /\ SecretsStayWithTheirAccount'
         /\ failures' = 0 =>
               \A b \in Account :
                  (storage'[b].tag = "wallet-derived-v1" /\ storage'[b].value \in Value)
                     => storage'[b].value = derive_from_signature(b)
         /\ \A b \in Account :
               (storage'[b].value = Random(b) /\ b \notin asked')
                  => storage[b].value = Random(b)
<1>1. storage \in [Account -> Slot] /\ failures \in 0..MaxFailures
  BY DEF IInv, TypeOK
<1>2. /\ storage' \in [Account -> Slot]
      /\ \A b \in Account : storage'[b] = IF b = a THEN o.slot ELSE storage[b]
  BY <1>1 DEF Changes
<1>3. failures' \in 0..MaxFailures /\ (failures' = 0 => failures = 0)
  BY <1>1, SecretAssumption DEF Changes
<1>4. SecretsStayWithTheirAccount'
  <2> SUFFICES ASSUME NEW b \in Account
               PROVE  storage'[b].value \in {NoValue, Corrupt, derive_from_signature(b), Random(b)}
                                            \cup {v \in Value : <<b, v>> \in imported'}
    BY DEF SecretsStayWithTheirAccount
  <2>1. storage[b].value \in {NoValue, Corrupt, derive_from_signature(b), Random(b)}
                             \cup {v \in Value : <<b, v>> \in imported'}
    BY DEF IInv, SecretsStayWithTheirAccount
  <2> QED
    BY <1>2, <2>1
<1>5. failures' = 0 =>
         \A b \in Account :
            (storage'[b].tag = "wallet-derived-v1" /\ storage'[b].value \in Value)
               => storage'[b].value = derive_from_signature(b)
  BY <1>2, <1>3, HonestMeans DEF IInv
<1>6. \A b \in Account :
         (storage'[b].value = Random(b) /\ b \notin asked') => storage[b].value = Random(b)
  BY <1>2, Constructors
<1> QED
  BY <1>2, <1>3, <1>4, <1>5, <1>6

\* A new secret on the page: the three statements about what is shown.
LEMMA ShownStep ==
  ASSUME NEW a \in Account, NEW value \in Value, NEW origin \in Origin,
         NEW warning, warning \in BOOLEAN,
         secret_resolved(a, value, origin, warning),
         (failures' = 0 /\ origin = "wallet-derived-v1") => value = derive_from_signature(a),
         failures' = 0 =>
            \A b \in Account :
               (storage'[b].tag = "wallet-derived-v1" /\ storage'[b].value \in Value)
                  => storage'[b].value = derive_from_signature(b),
         ~warning /\ a \notin asked' => storage'[a].value = value
  PROVE  /\ shown' \in [value : Value, origin : Origin, warning : BOOLEAN, account : Account]
         /\ busy' \in BOOLEAN
         /\ OriginIsHonest' /\ UnsavedIsWarned'
<1>1. /\ shown' # Nothing
      /\ shown' \in [value : Value, origin : Origin, warning : BOOLEAN, account : Account]
      /\ shown'.account = a /\ shown'.value = value /\ shown'.origin = origin
      /\ shown'.warning = warning
  BY Shown
<1>2. busy' = FALSE
  BY DEF secret_resolved
<1>3. OriginIsHonest'
  BY <1>1 DEF OriginIsHonest, is_recoverable_from_wallet, parse_stored_value, ProvenanceNotice
<1>4. UnsavedIsWarned'
  BY <1>1 DEF UnsavedIsWarned
<1> QED
  BY <1>1, <1>2, <1>3, <1>4

\* The page keeps what it showed: the slot it was read from is unchanged, or
\* its voter asked.
LEMMA StillShown ==
  ASSUME IInv, shown' = shown, asked \subseteq asked',
         failures' = 0 => failures = 0,
         failures' = 0 =>
            \A b \in Account :
               (storage'[b].tag = "wallet-derived-v1" /\ storage'[b].value \in Value)
                  => storage'[b].value = derive_from_signature(b),
         \A b \in Account : storage'[b].value = storage[b].value \/ b \in asked'
  PROVE  /\ shown' = Nothing \/
            shown' \in [value : Value, origin : Origin, warning : BOOLEAN, account : Account]
         /\ OriginIsHonest' /\ UnsavedIsWarned'
<1>1. shown = Nothing \/
      shown \in [value : Value, origin : Origin, warning : BOOLEAN, account : Account]
  BY DEF IInv, TypeOK
<1>2. OriginIsHonest'
  BY DEF IInv, OriginIsHonest, is_recoverable_from_wallet, parse_stored_value,
         ProvenanceNotice
<1>3. UnsavedIsWarned'
  BY <1>1 DEF IInv, UnsavedIsWarned
<1> QED
  BY <1>1, <1>2, <1>3
-----------------------------------------------------------------------------
(* One lemma per action that uses the storage. *)

\* Starting a task: the account connected, and a migration's voter asked.
LEMMA StartStep ==
  ASSUME IInv, NEW t \in Task, NEW kind \in {"load", "use", "migrate"},
         NEW read_error \in BOOLEAN,
         address \in Account, Start(t, kind, read_error),
         asked \subseteq asked', kind = "migrate" => address \in asked'
  PROVE  /\ tasks' \in [Task -> [kind : {"idle", "load", "use", "migrate"},
                                 account : Account \cup {NoAccount}, read_error : BOOLEAN]]
         /\ TaskInv'
         /\ tasks'[t].account = address
         /\ \A u \in Task : u # t => tasks'[u] = tasks[u]
<1> DEFINE started == [kind |-> kind, account |-> address, read_error |-> read_error]
           Waiting == [kind : {"idle", "load", "use", "migrate"},
                       account : Account \cup {NoAccount}, read_error : BOOLEAN]
<1>1. started \in Waiting /\ started.account = address /\ started.kind = kind
  OBVIOUS
<1>2. tasks \in [Task -> Waiting] /\ tasks' = [tasks EXCEPT ![t] = started]
  BY DEF IInv, TypeOK, Start
<1> HIDE DEF started, Waiting
<1>3. /\ tasks' \in [Task -> Waiting] /\ tasks'[t] = started
      /\ \A u \in Task : u # t => tasks'[u] = tasks[u]
  BY <1>1, <1>2
<1>4. TaskInv'
  <2> SUFFICES ASSUME NEW u \in Task, tasks'[u] # Idle
               PROVE  /\ tasks'[u].kind \in {"load", "use", "migrate"}
                      /\ tasks'[u].account \in Account
                      /\ tasks'[u].kind = "migrate" => tasks'[u].account \in asked'
    BY DEF TaskInv, Idle
  <2>1. CASE u = t
    BY <1>1, <1>3, <2>1
  <2>2. CASE u # t
    BY <1>3, <2>2 DEF IInv, TaskInv
  <2> QED
    BY <2>1, <2>2
<1> QED
  BY <1>1, <1>3, <1>4 DEF Waiting

\* load_secret and use_secret, up to their await.
LEMMA ResolveStep ==
  ASSUME IInv, NEW t \in Task, NEW kind \in {"load", "use"}, NEW waits,
         waits \in BOOLEAN, resolve(t, kind, waits)
  PROVE  IInv'
<1>1. PICK o \in cached(storage[address]) :
         /\ Effect(address, o)
         /\ IF o.answer = "Ok"
            THEN /\ secret_resolved(address, o.slot.value, originOf(o.slot), FALSE)
                 /\ UNCHANGED tasks
            ELSE /\ Start(t, kind, o.answer = "Err")
                 /\ busy' = waits
                 /\ UNCHANGED shown
  BY DEF resolve
<1>2. /\ address \in Account /\ TypeOK
      /\ UNCHANGED <<address, listening, held, imported, asked>>
  BY DEF resolve, requests, IInv, TypeOK
<1>3. /\ Changes(address, o)
      /\ o.slot.value \in {storage[address].value}
      /\ \/ o.slot = storage[address]
         \/ storage[address].tag = NoTag /\ o.slot.tag = "legacy-random"
      /\ o.answer = "Ok" => storage[address].value \in Value
      /\ o.answer = "None" => storage[address].value \notin Value
      /\ o.answer \in {"Ok", "None", "Err"}
      /\ o.answer = "Err" => failures' # 0
  BY <1>1, <1>2, CachedEffect
<1>4. failures' = 0 => failures = 0
  BY <1>2, <1>3, SecretAssumption DEF Changes, TypeOK
<1>5. failures' = 0 /\ o.slot.tag = "wallet-derived-v1" /\ o.slot.value \in Value
         => o.slot.value = derive_from_signature(address)
  BY <1>2, <1>3, <1>4, HonestMeans DEF IInv
<1>6. /\ storage' \in [Account -> Slot]
      /\ \A b \in Account : storage'[b] = IF b = address THEN o.slot ELSE storage[b]
      /\ failures' \in 0..MaxFailures
      /\ SecretsStayWithTheirAccount'
      /\ failures' = 0 =>
            \A b \in Account :
               (storage'[b].tag = "wallet-derived-v1" /\ storage'[b].value \in Value)
                  => storage'[b].value = derive_from_signature(b)
  BY <1>2, <1>3, <1>5, SlotStep
<1>7. \A b \in Account : storage'[b].value = storage[b].value
  BY <1>2, <1>3, <1>6
<1>8. CASE o.answer = "Ok"
  <2>1. originOf(o.slot) \in Origin
    BY DEF originOf, Origin
  <2>2. originOf(o.slot) = "wallet-derived-v1" => o.slot.tag = "wallet-derived-v1"
    BY DEF originOf, Origin
  <2>3. o.slot.value \in Value /\ storage'[address].value = o.slot.value
    BY <1>2, <1>3, <1>6, <1>8
  <2>4. secret_resolved(address, o.slot.value, originOf(o.slot), FALSE) /\ UNCHANGED tasks
    BY <1>1, <1>8
  <2>5. /\ shown' \in [value : Value, origin : Origin, warning : BOOLEAN, account : Account]
        /\ busy' \in BOOLEAN
        /\ OriginIsHonest' /\ UnsavedIsWarned'
    BY <1>2, <1>5, <1>6, <2>1, <2>2, <2>3, <2>4, ShownStep
  <2>6. TypeOK'
    BY <1>2, <1>6, <2>4, <2>5 DEF TypeOK
  <2>7. TaskInv' /\ WaitInv'
    BY <1>2, <1>4, <1>7, <2>4 DEF IInv, TaskInv, WaitInv
  <2> QED
    BY <1>6, <2>5, <2>6, <2>7 DEF IInv
<1>9. CASE o.answer # "Ok"
  <2>1. Start(t, kind, o.answer = "Err") /\ busy' = waits /\ shown' = shown
    BY <1>1, <1>9
  <2>2. PICK read_error \in BOOLEAN : Start(t, kind, read_error)
    <3>1. (o.answer = "Err") \in BOOLEAN
      OBVIOUS
    <3> QED
      BY <2>1, <3>1
  <2>3. /\ tasks' \in [Task -> [kind : {"idle", "load", "use", "migrate"},
                                account : Account \cup {NoAccount}, read_error : BOOLEAN]]
        /\ TaskInv'
        /\ tasks'[t].account = address
        /\ \A u \in Task : u # t => tasks'[u] = tasks[u]
    BY <1>2, <2>2, StartStep
  <2>4. /\ shown' = Nothing \/
           shown' \in [value : Value, origin : Origin, warning : BOOLEAN, account : Account]
        /\ OriginIsHonest' /\ UnsavedIsWarned'
    BY <1>2, <1>4, <1>6, <1>7, <2>1, StillShown
  <2>5. TypeOK'
    BY <1>2, <1>6, <2>1, <2>3, <2>4 DEF TypeOK
  <2>6. WaitInv'
    <3> SUFFICES ASSUME failures' = 0, NEW u \in Task, tasks'[u] # Idle,
                        tasks'[u].account \notin asked'
                 PROVE  storage'[tasks'[u].account].value # Random(tasks'[u].account)
      BY DEF WaitInv, Idle
    <3>1. CASE u = t
      BY <1>2, <1>3, <1>7, <1>9, <2>3, <3>1, Constructors
    <3>2. CASE u # t
      BY <1>2, <1>4, <1>7, <2>3, <3>2 DEF IInv, TaskInv, WaitInv
    <3> QED
      BY <3>1, <3>2
  <2> QED
    BY <1>6, <2>3, <2>4, <2>5, <2>6 DEF IInv
<1> QED
  BY <1>8, <1>9

\* migrate_secret, up to its await.
LEMMA MigrateStep ==
  ASSUME IInv, NEW t \in Task, migrate_secret(t)
  PROVE  IInv'
<1>1. /\ address \in Account /\ Start(t, "migrate", FALSE) /\ busy' = TRUE
      /\ asked' = asked \cup {address}
      /\ UNCHANGED <<address, listening, storage, shown, held, imported, failures>>
  BY DEF migrate_secret, SecretBackupPanel, IInv, TypeOK
<1>2. /\ tasks' \in [Task -> [kind : {"idle", "load", "use", "migrate"},
                              account : Account \cup {NoAccount}, read_error : BOOLEAN]]
      /\ TaskInv'
      /\ tasks'[t].account = address
      /\ \A u \in Task : u # t => tasks'[u] = tasks[u]
  BY <1>1, StartStep
<1>3. TypeOK'
  BY <1>1, <1>2 DEF IInv, TypeOK
<1>4. WaitInv'
  BY <1>1, <1>2 DEF IInv, WaitInv
<1>5. SecretsStayWithTheirAccount'
  BY <1>1 DEF IInv, SecretsStayWithTheirAccount
<1>6. OriginIsHonest' /\ UnsavedIsWarned'
  BY <1>1 DEF IInv, OriginIsHonest, UnsavedIsWarned, is_recoverable_from_wallet,
     parse_stored_value, ProvenanceNotice
<1> QED
  BY <1>2, <1>3, <1>4, <1>5, <1>6 DEF IInv

\* What a task does once the wallet has signed.
LEMMA SignedStep ==
  ASSUME IInv, NEW t \in Task, Signed(t)
  PROVE  IInv'
<1> DEFINE a == tasks[t].account
           value == derive_from_signature(a)
<1>1. PICK o \in store(storage[a], value, "wallet-derived-v1") :
         /\ Effect(a, o)
         /\ IF tasks[t].kind = "migrate" /\ o.answer = "Err"
            THEN secret_failed
            ELSE secret_resolved(a, value, "wallet-derived-v1",
                                 o.answer = "Err" \/ tasks[t].read_error)
  BY DEF Signed, ownerOf
<1>2. /\ a \in Account /\ TypeOK
      /\ tasks[t].kind = "migrate" => a \in asked
      /\ tasks' = [tasks EXCEPT ![t] = Idle]
      /\ UNCHANGED <<address, listening, held, imported, asked>>
  BY DEF Signed, requests, IInv, TaskInv
<1>3. value \in Value
  BY <1>2, Constructors
<1> HIDE DEF a, value
<1>4. /\ Changes(a, o)
      /\ o.slot.value \in {storage[a].value, value}
      /\ o.answer = "Ok" => o.slot = [value |-> value, tag |-> "wallet-derived-v1"]
      /\ o.answer # "Ok" => o.answer = "Err" /\ failures' # 0
  <2>1. "wallet-derived-v1" \in Origin
    BY DEF Origin
  <2> QED
    BY <1>1, <1>2, <1>3, <2>1, StoreEffect
<1>5. failures' = 0 => failures = 0
  BY <1>2, <1>4, SecretAssumption DEF Changes, TypeOK
<1>6. failures' = 0 => o.slot.value = value
  BY <1>4
<1>7. /\ storage' \in [Account -> Slot]
      /\ \A b \in Account : storage'[b] = IF b = a THEN o.slot ELSE storage[b]
      /\ failures' \in 0..MaxFailures
      /\ SecretsStayWithTheirAccount'
      /\ failures' = 0 =>
            \A b \in Account :
               (storage'[b].tag = "wallet-derived-v1" /\ storage'[b].value \in Value)
                  => storage'[b].value = derive_from_signature(b)
      /\ \A b \in Account :
            (storage'[b].value = Random(b) /\ b \notin asked')
               => storage[b].value = Random(b)
  BY <1>2, <1>4, <1>6, SlotStep DEF value
<1>8. /\ tasks' \in [Task -> [kind : {"idle", "load", "use", "migrate"},
                              account : Account \cup {NoAccount}, read_error : BOOLEAN]]
      /\ \A u \in Task : tasks'[u] = tasks[u] \/ tasks'[u] = Idle
  BY <1>2, TasksEnd
<1>9. TaskInv' /\ WaitInv'
  <2>1. TaskInv'
    BY <1>2, <1>8 DEF IInv, TaskInv
  <2>2. WaitInv'
    <3> SUFFICES ASSUME failures' = 0, NEW u \in Task, tasks'[u] # Idle,
                        tasks'[u].account \notin asked'
                 PROVE  storage'[tasks'[u].account].value # Random(tasks'[u].account)
      BY DEF WaitInv, Idle
    <3>1. tasks'[u] = tasks[u]
      BY <1>8
    <3> QED
      BY <1>2, <1>5, <1>7, <3>1 DEF IInv, TaskInv, WaitInv
  <2> QED
    BY <2>1, <2>2
<1>10. CASE tasks[t].kind = "migrate" /\ o.answer = "Err"
  <2>1. shown' = shown /\ busy' = FALSE
    BY <1>1, <1>10 DEF secret_failed
  <2>2. \A b \in Account : storage'[b].value = storage[b].value \/ b \in asked'
    BY <1>2, <1>7, <1>10
  <2>3. /\ shown' = Nothing \/
           shown' \in [value : Value, origin : Origin, warning : BOOLEAN, account : Account]
        /\ OriginIsHonest' /\ UnsavedIsWarned'
    BY <1>2, <1>5, <1>7, <2>1, <2>2, StillShown
  <2>4. TypeOK'
    BY <1>2, <1>7, <1>8, <2>1, <2>3 DEF TypeOK
  <2> QED
    BY <1>7, <1>9, <2>3, <2>4 DEF IInv
<1>11. CASE ~(tasks[t].kind = "migrate" /\ o.answer = "Err")
  <2>1. PICK warning \in BOOLEAN :
           /\ secret_resolved(a, value, "wallet-derived-v1", warning)
           /\ ~warning => o.answer # "Err"
    <3>1. secret_resolved(a, value, "wallet-derived-v1",
                          o.answer = "Err" \/ tasks[t].read_error)
      BY <1>1, <1>11
    <3> DEFINE w == o.answer = "Err" \/ tasks[t].read_error
    <3>2. w \in BOOLEAN /\ (~w => o.answer # "Err")
      OBVIOUS
    <3> QED
      BY <3>1, <3>2
  <2>2. ~warning => storage'[a].value = value
    BY <1>2, <1>4, <1>7, <2>1
  <2>3. /\ shown' \in [value : Value, origin : Origin, warning : BOOLEAN, account : Account]
        /\ busy' \in BOOLEAN
        /\ OriginIsHonest' /\ UnsavedIsWarned'
    <3>1. "wallet-derived-v1" \in Origin
      BY DEF Origin
    <3>2. value = derive_from_signature(a)
      BY DEF value
    <3> QED
      BY <1>2, <1>3, <1>7, <2>1, <2>2, <3>1, <3>2, ShownStep
  <2>4. TypeOK'
    BY <1>2, <1>7, <1>8, <2>3 DEF TypeOK
  <2> QED
    BY <1>7, <1>9, <2>3, <2>4 DEF IInv
<1> QED
  BY <1>10, <1>11

\* import_secret.
LEMMA ImportStep ==
  ASSUME IInv, import_secret
  PROVE  IInv'
<1>1. /\ address \in Account /\ TypeOK
      /\ UNCHANGED <<address, listening, tasks, held>>
  BY DEF import_secret, SecretBackupPanel, IInv, TypeOK
<1>2. CASE held \notin Value
  <2>1. UNCHANGED <<storage, failures, imported, asked, shown>> /\ busy' = FALSE
    BY <1>2 DEF import_secret, parse_backup, secret_failed, requests
  <2> QED
    BY <1>1, <2>1, QuietStep DEF TypeOK
<1>3. CASE held \in Value
  <2>1. PICK o \in store(storage[address], held, "imported") :
           /\ Effect(address, o)
           /\ IF o.answer = "Ok"
              THEN secret_resolved(address, held, "imported", FALSE)
              ELSE secret_failed
    BY <1>3 DEF import_secret, parse_backup, import
  <2>2. imported' = imported \cup {<<address, held>>} /\ asked' = asked \cup {address}
    BY <1>3 DEF import_secret, parse_backup
  <2>3. "imported" \in Origin /\ "imported" # "wallet-derived-v1"
    BY DEF Origin
  <2>4. /\ Changes(address, o)
        /\ o.slot.value \in {storage[address].value, held}
        /\ o.answer = "Ok" => o.slot = [value |-> held, tag |-> "imported"]
        /\ o.answer # "Ok" => o.answer = "Err" /\ failures' # 0
    BY <1>1, <1>3, <2>1, <2>3, StoreEffect
  <2>5. failures' = 0 => failures = 0
    BY <1>1, <2>4, SecretAssumption DEF Changes, TypeOK
  <2>6. failures' = 0 => o.slot.tag = "imported"
    BY <2>4
  <2>7. /\ storage' \in [Account -> Slot]
        /\ \A b \in Account : storage'[b] = IF b = address THEN o.slot ELSE storage[b]
        /\ failures' \in 0..MaxFailures
        /\ SecretsStayWithTheirAccount'
        /\ failures' = 0 =>
              \A b \in Account :
                 (storage'[b].tag = "wallet-derived-v1" /\ storage'[b].value \in Value)
                    => storage'[b].value = derive_from_signature(b)
        /\ \A b \in Account :
              (storage'[b].value = Random(b) /\ b \notin asked')
                 => storage[b].value = Random(b)
    BY <1>1, <1>3, <2>2, <2>3, <2>4, <2>6, SlotStep
  <2>8. TaskInv' /\ WaitInv'
    BY <1>1, <2>2, <2>5, <2>7 DEF IInv, TaskInv, WaitInv
  <2>9. /\ \/ shown' = Nothing
           \/ shown' \in [value : Value, origin : Origin, warning : BOOLEAN, account : Account]
        /\ busy' \in BOOLEAN
        /\ OriginIsHonest' /\ UnsavedIsWarned'
    <3>1. CASE o.answer = "Ok"
      BY <1>1, <1>3, <2>1, <2>2, <2>3, <2>7, <3>1, ShownStep
    <3>2. CASE o.answer # "Ok"
      <4>1. shown' = shown /\ busy' = FALSE
        BY <2>1, <3>2 DEF secret_failed
      <4>2. \A b \in Account : storage'[b].value = storage[b].value \/ b \in asked'
        BY <2>2, <2>7
      <4> QED
        BY <2>2, <2>5, <2>7, <4>1, <4>2, StillShown
    <3> QED
      BY <3>1, <3>2
  <2>10. TypeOK'
    BY <1>1, <1>3, <2>2, <2>7, <2>9 DEF TypeOK
  <2> QED
    BY <2>7, <2>8, <2>9, <2>10 DEF IInv
<1> QED
  BY <1>2, <1>3

\* forget_secret.
LEMMA ForgetStep ==
  ASSUME IInv, forget_secret
  PROVE  IInv'
<1>1. /\ address \in Account /\ TypeOK
      /\ asked' = asked \cup {address}
      /\ UNCHANGED <<address, listening, tasks, held, imported>>
  BY DEF forget_secret, SecretBackupPanel, IInv, TypeOK
<1>2. PICK o \in forget(storage[address]) :
         /\ Effect(address, o)
         /\ IF o.answer = "Ok" THEN secret_cleared ELSE secret_failed
  BY DEF forget_secret
<1>3. /\ Changes(address, o)
      /\ o.slot.value \in {storage[address].value, NoValue}
      /\ o.slot # storage[address] => o.slot.value = NoValue
  BY <1>1, <1>2, ForgetEffect
<1>4. failures' = 0 => failures = 0
  BY <1>1, <1>3, SecretAssumption DEF Changes, TypeOK
<1>5. failures' = 0 /\ o.slot.tag = "wallet-derived-v1" /\ o.slot.value \in Value
         => o.slot.value = derive_from_signature(address)
  BY <1>1, <1>3, <1>4, HonestMeans, Constructors DEF IInv
<1>6. /\ storage' \in [Account -> Slot]
      /\ \A b \in Account : storage'[b] = IF b = address THEN o.slot ELSE storage[b]
      /\ failures' \in 0..MaxFailures
      /\ SecretsStayWithTheirAccount'
      /\ failures' = 0 =>
            \A b \in Account :
               (storage'[b].tag = "wallet-derived-v1" /\ storage'[b].value \in Value)
                  => storage'[b].value = derive_from_signature(b)
      /\ \A b \in Account :
            (storage'[b].value = Random(b) /\ b \notin asked')
               => storage[b].value = Random(b)
  BY <1>1, <1>3, <1>5, SlotStep
<1>7. TaskInv' /\ WaitInv'
  BY <1>1, <1>4, <1>6 DEF IInv, TaskInv, WaitInv
<1>8. /\ \/ shown' = Nothing
         \/ shown' \in [value : Value, origin : Origin, warning : BOOLEAN, account : Account]
      /\ busy' = FALSE
      /\ OriginIsHonest' /\ UnsavedIsWarned'
  <2>1. CASE o.answer = "Ok"
    <3>1. shown' = Nothing /\ busy' = FALSE
      BY <1>2, <2>1 DEF secret_cleared
    <3>2. OriginIsHonest'
      BY <1>6, <3>1 DEF OriginIsHonest, is_recoverable_from_wallet, parse_stored_value,
         ProvenanceNotice
    <3>3. UnsavedIsWarned'
      BY <3>1 DEF UnsavedIsWarned, Nothing
    <3> QED
      BY <3>1, <3>2, <3>3
  <2>2. CASE o.answer # "Ok"
    <3>1. shown' = shown /\ busy' = FALSE
      BY <1>2, <2>2 DEF secret_failed
    <3>2. \A b \in Account : storage'[b].value = storage[b].value \/ b \in asked'
      BY <1>1, <1>6
    <3> QED
      BY <1>1, <1>4, <1>6, <3>1, <3>2, StillShown
  <2> QED
    BY <2>1, <2>2
<1>9. TypeOK'
  BY <1>1, <1>6, <1>8 DEF TypeOK
<1> QED
  BY <1>6, <1>7, <1>8, <1>9 DEF IInv
-----------------------------------------------------------------------------
(* The theorems. *)

\* The invariant holds of every browser the page is opened in.
LEMMA Initially == Init => IInv
<1> SUFFICES ASSUME Init PROVE IInv
  OBVIOUS
<1>1. TypeOK
  <2>1. tasks \in [Task -> [kind : {"idle", "load", "use", "migrate"},
                            account : Account \cup {NoAccount}, read_error : BOOLEAN]]
    BY DEF Init, Idle
  <2>2. failures \in 0..MaxFailures /\ held \in Value \cup {Corrupt}
    BY SecretAssumption DEF Init
  <2>3. /\ address \in Account \cup {NoAccount} /\ listening \in BOOLEAN
        /\ storage \in [Account -> Slot] /\ shown = Nothing /\ busy \in BOOLEAN
        /\ imported \subseteq Account \X Value /\ asked \subseteq Account
    BY DEF Init
  <2> QED
    BY <2>1, <2>2, <2>3 DEF TypeOK
<1>2. TaskInv /\ WaitInv
  BY DEF Init, TaskInv, WaitInv, Idle
<1>3. SecretsStayWithTheirAccount
  <2> SUFFICES ASSUME NEW a \in Account
               PROVE  storage[a].value \in {NoValue, Corrupt, derive_from_signature(a), Random(a)}
    BY DEF SecretsStayWithTheirAccount
  <2> QED
    BY DEF Init, EmptySlot
<1>4. OriginIsHonest
  <2> SUFFICES ASSUME NEW a \in Account, storage[a].tag = "wallet-derived-v1",
                      storage[a].value \in Value
               PROVE  storage[a].value = derive_from_signature(a)
    BY HonestMeans DEF Init
  <2> QED
    BY Constructors DEF Init, EmptySlot, NoTag
<1>5. UnsavedIsWarned
  BY DEF Init, UnsavedIsWarned
<1> QED
  BY <1>1, <1>2, <1>3, <1>4, <1>5 DEF IInv

\* Every action preserves it.
LEMMA Inductive == IInv /\ [Next]_vars => IInv'
<1> SUFFICES ASSUME IInv, [Next]_vars PROVE IInv'
  OBVIOUS
<1>1. ASSUME NEW t \in Task, load_secret(t) PROVE IInv'
  BY <1>1, ResolveStep DEF load_secret
<1>2. ASSUME NEW t \in Task, use_secret(t) PROVE IInv'
  <2>1. busy \in BOOLEAN
    BY DEF IInv, TypeOK
  <2> QED
    BY <1>2, <2>1, ResolveStep DEF use_secret
<1>3. ASSUME NEW t \in Task, migrate_secret(t) PROVE IInv'
  BY <1>3, MigrateStep
<1>4. ASSUME NEW t \in Task, Signed(t) PROVE IInv'
  BY <1>4, SignedStep
<1>5. ASSUME NEW t \in Task, Declined(t) PROVE IInv'
  BY <1>5, QuietStep DEF Declined, secret_failed, requests, IInv, TypeOK
<1>6. CASE ExportBox
  <2>1. shown # Nothing /\ shown.value \in Value
    BY <1>6 DEF ExportBox, SecretBackupPanel, IInv, TypeOK
  <2> QED
    BY <1>6, <2>1, QuietStep DEF ExportBox, backup_blob, requests, IInv, TypeOK
<1>7. CASE import_secret
  BY <1>7, ImportStep
<1>8. CASE forget_secret
  BY <1>8, ForgetStep
<1>9. ASSUME NEW a \in Account, connect_wallet(a) PROVE IInv'
  BY <1>9, QuietStep DEF connect_wallet, requests, IInv, TypeOK
<1>10. ASSUME NEW a \in Account \cup {NoAccount}, accounts_changed(a) PROVE IInv'
  BY <1>10, QuietStep DEF accounts_changed, secret_cleared, requests, IInv, TypeOK
<1>11. CASE Disconnect
  BY <1>11, QuietStep DEF Disconnect, secret_cleared, requests, IInv, TypeOK
<1>12. CASE Reload
  BY <1>12, QuietStep DEF Reload, secret_cleared, requests, IInv, TypeOK
<1>13. CASE UNCHANGED vars
  BY <1>13, QuietStep DEF vars, IInv, TypeOK
<1> QED
  BY <1>1, <1>2, <1>3, <1>4, <1>5, <1>6, <1>7, <1>8, <1>9, <1>10, <1>11, <1>12, <1>13
     DEF Next

\* So it holds in every behaviour.
LEMMA Invariant == Spec => []IInv
  BY Initially, Inductive, PTL DEF Spec

\* The variables keep their types.
THEOREM TypeCorrect == Spec => []TypeOK
<1>1. IInv => TypeOK
  BY DEF IInv
<1> QED
  BY <1>1, Invariant, PTL

\* Whatever accounts the wallet names while tasks wait for its signature, the
\* cache never gives one account another's secret.
THEOREM NoIdentityIsInherited == Spec => []SecretsStayWithTheirAccount
<1>1. IInv => SecretsStayWithTheirAccount
  BY DEF IInv
<1> QED
  BY <1>1, Invariant, PTL

\* While localStorage works, what the page and the cache call recoverable from
\* the wallet is the secret the account's signature derives.
THEOREM LabelsAreHonest == Spec => []OriginIsHonest
<1>1. IInv => OriginIsHonest
  BY DEF IInv
<1> QED
  BY <1>1, Invariant, PTL

\* A secret shown without a storage warning is in its account's slot, however
\* many storage calls fail, unless its voter asked to change it.
THEOREM WarnedWhenUnsaved == Spec => []UnsavedIsWarned
<1>1. IInv => UnsavedIsWarned
  BY DEF IInv
<1> QED
  BY <1>1, Invariant, PTL

\* While localStorage works, no late answer of the wallet replaces a random
\* secret, which exists nowhere else: only its voter's own request does.
THEOREM RandomSecretsAreKept == Spec => RandomIsKept
<1> DEFINE Kept ==
       \A a \in Account :
          (failures' = 0 /\ storage[a].value = Random(a) /\
           storage'[a].value # Random(a)) => a \in asked'
<1>1. IInv /\ [Next]_vars => [Kept]_vars
  <2> SUFFICES ASSUME IInv, Next, NEW b \in Account, failures' = 0,
                      storage[b].value = Random(b), storage'[b].value # Random(b)
               PROVE  b \in asked'
    OBVIOUS
  <2>1. /\ TypeOK /\ storage \in [Account -> Slot]
        /\ storage' # storage
    BY DEF IInv, TypeOK
  <2>2. ASSUME NEW t \in Task, NEW kind, NEW waits, resolve(t, kind, waits)
        PROVE  FALSE
    <3>1. PICK o \in cached(storage[address]) : Effect(address, o)
      BY <2>2 DEF resolve
    <3>2. address \in Account
      BY <2>1, <2>2 DEF resolve, TypeOK
    <3>3. Changes(address, o) /\ o.slot.value = storage[address].value
      BY <2>1, <3>1, <3>2, CachedEffect
    <3> QED
      BY <2>1, <3>2, <3>3 DEF Changes
  <2>3. ASSUME NEW t \in Task, Signed(t) PROVE b \in asked'
    <3>1. PICK o : Effect(tasks[t].account, o)
      BY <2>3 DEF Signed, ownerOf
    <3>2. tasks[t] # Idle /\ tasks[t].account \in Account /\ asked' = asked
      BY <2>3 DEF Signed, requests, IInv, TaskInv
    <3>3. tasks[t].account = b
      BY <2>1, <3>1, <3>2 DEF Effect
    <3>4. failures = 0
      <4>1. failures \in Nat
        BY <2>1, SecretAssumption DEF TypeOK
      <4> QED
        BY <3>1, <4>1 DEF Effect
    <3> QED
      BY <3>2, <3>3, <3>4 DEF IInv, WaitInv
  <2>4. CASE import_secret
    <3>1. address \in Account
      BY <2>1, <2>4 DEF import_secret, SecretBackupPanel, TypeOK
    <3>2. PICK o : Effect(address, o) /\ asked' = asked \cup {address}
      BY <2>1, <2>4 DEF import_secret
    <3> QED
      BY <2>1, <3>1, <3>2 DEF Effect
  <2>5. CASE forget_secret
    <3>1. PICK o : Effect(address, o) /\ asked' = asked \cup {address}
      BY <2>5 DEF forget_secret
    <3> QED
      BY <2>1, <3>1 DEF Effect
  <2> QED
    BY <2>1, <2>2, <2>3, <2>4, <2>5 DEF Next, load_secret, use_secret, migrate_secret,
       Declined, ExportBox, connect_wallet, accounts_changed, Disconnect, Reload
<1>2. Spec => [][Kept]_vars
  BY <1>1, Invariant, PTL DEF Spec
<1> QED
  BY <1>2 DEF RandomIsKept
=============================================================================
