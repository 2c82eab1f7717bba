------------------------- MODULE MerkleTree_proofs -------------------------
(***************************************************************************)
(* Proofs about MerkleTree, for every depth, every list that fits and      *)
(* every hash: the root is the list's, a listed voter's path leads the     *)
(* circuit to it, and with a hash that has no collisions nobody else's     *)
(* does.                                                                   *)
(***************************************************************************)
EXTENDS MerkleTree, WellFoundedInduction, TLAPS

Loops == {"new", "recompute", "proof", "walk", "pretend"}

TypeOK ==
    /\ next_index \in 0..MaxLeaves
    /\ pc \in Loops \cup {"ready", "proved", "claimed"}
    /\ level \in 0..DEPTH
    /\ pc \in Loops => level # DEPTH
    /\ pc \notin Loops => level = DEPTH
    /\ index \in Nat
    /\ DOMAIN zeros = 0..(IF pc = "new" THEN level ELSE DEPTH)
    /\ pc = "new" => DOMAIN level_nodes = {}

\* Every empty subtree is made of two empty subtrees.
ZerosInv ==
    /\ zeros[0] = ZERO
    /\ \A k \in 0..(IF pc = "new" THEN level ELSE DEPTH) - 1 :
          zeros[k + 1] = Hash(zeros[k], zeros[k])

\* Leaves are stored below next_index only.
LeavesInv == \A i \in Nat : <<0, i>> \in DOMAIN level_nodes => i < next_index

\* Node i of level k + 1 is the hash of its children.
Linked(k, i) == get(k + 1, i) = Hash(get(k, 2 * i), get(k, 2 * i + 1))

\* The one parent whose child recompute has just changed.
Stale(k, i) == pc = "recompute" /\ k = level /\ i = index \div 2

TreeInv ==
    /\ pc # "new" =>
          \A k \in 0..DEPTH - 1, i \in Nat : Linked(k, i) \/ Stale(k, i)
    /\ pc = "recompute" => node = get(level, index)

\* How far the path has been taken.
PathLength == IF pc = "proof" THEN level ELSE DEPTH

\* Level k of the path: where it is, and what it says of the sibling there.
OnPath(k) ==
    /\ trail[k + 1] = trail[k] \div 2
    /\ path_elements[k] = get(k, Sibling(trail[k]))
    /\ path_indices[k] = ~Even(trail[k])

PathInv ==
    pc \in {"proof", "walk", "proved"} =>
        /\ DOMAIN trail = 0..PathLength
        /\ DOMAIN path_elements = 0..PathLength - 1
        /\ DOMAIN path_indices = 0..PathLength - 1
        /\ \A k \in 0..PathLength : trail[k] \in Nat /\ trail[k] < Width[k]
        /\ \A k \in 0..PathLength - 1 : OnPath(k)
        /\ get(0, trail[0]) = leaf
        /\ pc = "proof" => index = trail[level] /\ computedHash = leaf

\* The walk is at the node of the tree the path is at.
WalkInv ==
    pc \in {"walk", "proved"} => computedHash = get(level, trail[level])

\* A walk from an unlisted leaf is at no node of the tree.
AstrayInv ==
    /\ pc \in {"pretend", "claimed"}
    /\ leaf # ZERO
    /\ ~Listed(leaf)
    => \A i \in Nat : computedHash # get(level, i)

IInv == TypeOK /\ ZerosInv /\ LeavesInv /\ TreeInv /\ PathInv /\ WalkInv
-----------------------------------------------------------------------------
(* Arithmetic of a binary tree. *)

\* A node is one of the two children of its parent, its sibling the other.
LEMMA Halves ==
    ASSUME NEW i \in Nat
    PROVE  /\ i \div 2 \in Nat
           /\ Sibling(i) \in Nat
           /\ Even(i) => i = 2 * (i \div 2) /\ Sibling(i) = 2 * (i \div 2) + 1
           /\ ~Even(i) => i = 2 * (i \div 2) + 1 /\ Sibling(i) = 2 * (i \div 2)
  BY DEF Sibling, Even

\* What level_nodes answers after a node has been stored.
LEMMA GetAfterPut ==
    ASSUME NEW a, NEW b, NEW v,
           level_nodes' = Put(level_nodes, <<a, b>>, v),
           zeros' = zeros
    PROVE  \A k, i : get(k, i)' = IF k = a /\ i = b THEN v ELSE get(k, i)
  BY DEF Put, get

\* With both halves of a node at hand, Parent is the hash of the two children.
LEMMA ParentIsTheHash ==
    ASSUME NEW k, NEW i \in Nat
    PROVE  Parent(i, get(k, i), get(k, Sibling(i)))
             = Hash(get(k, 2 * (i \div 2)), get(k, 2 * (i \div 2) + 1))
  BY Halves DEF Parent
-----------------------------------------------------------------------------
(* What a step of each kind leaves alone. *)

\* The steps of a path or a walk change nothing of the tree.
PathStep ==
    \/ \E c \in Commitment : build_witness(c) \/ pretend(c)
    \/ proof \/ MerkleTreeInclusionCheck \/ MadeUpStep

\* Steps of the proof path leave the tree they read alone.
LEMMA PathStepKeepsTree ==
    ASSUME PathStep
    PROVE  /\ UNCHANGED tree
           /\ pc \notin {"new", "recompute"}
           /\ pc' \notin {"new", "recompute"}
           /\ \A k, i : get(k, i)' = get(k, i)
  BY DEF PathStep, build_witness, pretend, proof, MerkleTreeInclusionCheck,
         MadeUpStep, Advance, Resting, tree, get

\* Every step is a building step or a step of the path, or a stutter.
LEMMA NextSplits ==
    Next <=> new \/ (\E c \in Commitment : insert(c)) \/ recompute \/ PathStep
  BY DEF Next, PathStep
-----------------------------------------------------------------------------
(* The inductive invariant, part by part. *)

\* The type invariant is inductive.
LEMMA TypeStep ==
    ASSUME TypeOK, [Next]_vars
    PROVE  TypeOK'
<1> USE MerkleAssumption DEF TypeOK, Loops
<1>1. CASE new
  BY <1>1 DEF new, Advance, Put
<1>2. ASSUME NEW c \in Commitment, insert(c)
      PROVE  TypeOK'
  BY <1>2 DEF insert
<1>3. CASE recompute
  <2>1. level' \in 0..DEPTH /\ (pc' = "ready" => level' = DEPTH)
        /\ (pc' = "recompute" => level' # DEPTH) /\ pc' \in {"ready", "recompute"}
    BY <1>3 DEF recompute, Advance
  <2>2. index' \in Nat /\ next_index' = next_index
    BY <1>3, Halves DEF recompute
  <2>3. DOMAIN zeros' = 0..DEPTH
    BY <1>3 DEF recompute, Advance
  <2> QED
    BY <2>1, <2>2, <2>3
<1>4. ASSUME NEW c \in Commitment, build_witness(c)
      PROVE  TypeOK'
  BY <1>4 DEF build_witness, Resting, tree
<1>5. ASSUME NEW c \in Commitment, pretend(c)
      PROVE  TypeOK'
  BY <1>5 DEF pretend, Resting, tree
<1>6. CASE proof
  <2>1. index' \in Nat /\ UNCHANGED tree
    BY <1>6, Halves DEF proof
  <2>2. /\ level' \in 0..DEPTH
        /\ level' # DEPTH
        /\ pc' \in {"proof", "walk"}
    <3>1. CASE level + 1 = DEPTH
      BY <1>6, <3>1 DEF proof
    <3>2. CASE level + 1 # DEPTH
      BY <1>6, <3>2 DEF proof
    <3> QED
      BY <3>1, <3>2
  <2> QED
    BY <1>6, <2>1, <2>2 DEF proof, tree
<1>7. CASE MerkleTreeInclusionCheck
  BY <1>7 DEF MerkleTreeInclusionCheck, Advance, tree
<1>8. CASE MadeUpStep
  BY <1>8 DEF MadeUpStep, Advance, tree
<1>9. CASE UNCHANGED vars
  BY <1>9 DEF vars, tree
<1> QED
  BY <1>1, <1>2, <1>3, <1>4, <1>5, <1>6, <1>7, <1>8, <1>9 DEF Next

\* The zero subtrees built so far stay right.
LEMMA ZerosStep ==
    ASSUME TypeOK, ZerosInv, [Next]_vars
    PROVE  ZerosInv'
<1> USE MerkleAssumption DEF TypeOK, ZerosInv, Loops
<1>1. CASE new
  <2>1. \A k \in 0..level + 1 :
           zeros'[k] = IF k = level + 1 THEN Hash(zeros[level], zeros[level])
                                        ELSE zeros[k]
    BY <1>1 DEF new, Advance, Put
  <2>2. level' = level + 1 /\ (pc' # "new" => level' = DEPTH)
    BY <1>1 DEF new, Advance
  <2>3. \A k \in 0..level : zeros'[k + 1] = Hash(zeros'[k], zeros'[k])
    BY <1>1, <2>1 DEF new, Advance
  <2>4. zeros'[0] = ZERO
    BY <1>1, <2>1 DEF new, Advance
  <2>5. (IF pc' = "new" THEN level' ELSE DEPTH) - 1 = level
    BY <2>2
  <2> QED
    BY <2>3, <2>4, <2>5
<1>2. ASSUME NEW c \in Commitment, insert(c)
      PROVE  ZerosInv'
  BY <1>2 DEF insert
<1>3. CASE recompute
  BY <1>3 DEF recompute, Advance
<1>4. CASE PathStep
  BY <1>4, PathStepKeepsTree DEF tree
<1>5. CASE UNCHANGED vars
  BY <1>5 DEF vars, tree
<1> QED
  BY <1>1, <1>2, <1>3, <1>4, <1>5, NextSplits

\* No leaf is written past the last one inserted.
LEMMA LeavesStep ==
    ASSUME TypeOK, LeavesInv, [Next]_vars
    PROVE  LeavesInv'
<1> USE MerkleAssumption DEF TypeOK, LeavesInv, Loops
<1>1. CASE new
  BY <1>1 DEF new, Advance
<1>2. ASSUME NEW c \in Commitment, insert(c)
      PROVE  LeavesInv'
  BY <1>2 DEF insert, Put
<1>3. CASE recompute
  BY <1>3 DEF recompute, Advance, Put
<1>4. CASE PathStep
  BY <1>4, PathStepKeepsTree DEF tree
<1>5. CASE UNCHANGED vars
  BY <1>5 DEF vars, tree
<1> QED
  BY <1>1, <1>2, <1>3, <1>4, <1>5, NextSplits

\* recompute mends the stale parent and makes its own parent the stale one.
LEMMA RecomputeStep ==
    ASSUME TypeOK, TreeInv, recompute
    PROVE  TreeInv'
<1> DEFINE p == index \div 2
<1> USE MerkleAssumption DEF TypeOK, Loops
<1>1. /\ level < DEPTH
      /\ level \in Nat
      /\ p \in Nat
      /\ level' = level + 1
      /\ index' = p
      /\ pc' = IF level + 1 = DEPTH THEN "ready" ELSE "recompute"
      /\ zeros' = zeros
  BY Halves DEF recompute, Advance
<1>2. node' = Hash(get(level, 2 * p), get(level, 2 * p + 1))
  BY ParentIsTheHash DEF recompute, Advance, TreeInv
<1>3. \A k, i : get(k, i)' = IF k = level + 1 /\ i = p THEN node' ELSE get(k, i)
  <2>1. level_nodes' = Put(level_nodes, <<level + 1, p>>, node')
    BY DEF recompute
  <2> HIDE DEF p
  <2> QED
    BY <1>1, <2>1, GetAfterPut
<1>4. \A k \in 0..DEPTH - 1, i \in Nat : (k = level /\ i = p) \/ Linked(k, i)
  BY DEF recompute, Advance, TreeInv, Stale
<1>5. ASSUME NEW k \in 0..DEPTH - 1, NEW i \in Nat
      PROVE  (Linked(k, i) \/ Stale(k, i))'
  <2>1. CASE k = level /\ i = p
    <3>1. get(k + 1, i)' = node'
      BY <1>3, <2>1
    <3>2. get(k, 2 * i)' = get(k, 2 * i) /\ get(k, 2 * i + 1)' = get(k, 2 * i + 1)
      BY <1>3, <2>1
    <3> QED
      BY <1>2, <2>1, <3>1, <3>2 DEF Linked
  <2>2. CASE k = level + 1 /\ i = p \div 2
    BY <1>1, <2>2 DEF Stale
  <2>3. CASE k = level + 1 /\ i # p \div 2
    <3>1. 2 * i # p /\ 2 * i + 1 # p
      BY <1>1, <2>3
    <3>2. get(k + 1, i)' = get(k + 1, i)
      BY <1>1, <1>3, <2>3
    <3>3. get(k, 2 * i)' = get(k, 2 * i)
      BY <1>3, <3>1
    <3>4. get(k, 2 * i + 1)' = get(k, 2 * i + 1)
      BY <1>3, <3>1
    <3> QED
      BY <1>1, <1>4, <2>3, <3>2, <3>3, <3>4 DEF Linked
  <2>4. CASE ~(k = level /\ i = p) /\ k # level + 1
    <3>1. get(k + 1, i)' = get(k + 1, i)
      BY <1>1, <1>3, <2>4
    <3>2. get(k, 2 * i)' = get(k, 2 * i)
      BY <1>3, <2>4
    <3>3. get(k, 2 * i + 1)' = get(k, 2 * i + 1)
      BY <1>3, <2>4
    <3> QED
      BY <1>4, <2>4, <3>1, <3>2, <3>3 DEF Linked
  <2> QED
    BY <2>1, <2>2, <2>3, <2>4
<1>6. (node = get(level, index))'
  BY <1>1, <1>3
<1> QED
  BY <1>5, <1>6 DEF TreeInv

\* insert makes the new leaf's parent the stale one.
LEMMA InsertStep ==
    ASSUME TypeOK, TreeInv, NEW c \in Commitment, insert(c)
    PROVE  TreeInv'
<1> DEFINE p == next_index \div 2
<1> USE MerkleAssumption DEF TypeOK, Loops
<1>1. /\ next_index \in Nat
      /\ level' = 0
      /\ index' = next_index
      /\ pc' = "recompute"
      /\ zeros' = zeros
      /\ node' = c
  BY DEF insert
<1>2. \A k, i : get(k, i)' = IF k = 0 /\ i = next_index THEN c ELSE get(k, i)
  BY <1>1, GetAfterPut DEF insert
<1>3. \A k \in 0..DEPTH - 1, i \in Nat : Linked(k, i)
  BY DEF insert, TreeInv, Stale
<1>4. ASSUME NEW k \in 0..DEPTH - 1, NEW i \in Nat
      PROVE  (Linked(k, i) \/ Stale(k, i))'
  <2>1. CASE k = 0 /\ i = p
    BY <1>1, <2>1 DEF Stale
  <2>2. CASE ~(k = 0 /\ i = p)
    <3>1. k = 0 => 2 * i # next_index /\ 2 * i + 1 # next_index
      BY <1>1, <2>2
    <3>2. k + 1 # 0
      OBVIOUS
    <3>3. get(k + 1, i)' = get(k + 1, i)
      BY <1>2, <3>2
    <3>4. get(k, 2 * i)' = get(k, 2 * i)
      BY <1>2, <3>1
    <3>5. get(k, 2 * i + 1)' = get(k, 2 * i + 1)
      BY <1>2, <3>1
    <3> QED
      BY <1>3, <3>3, <3>4, <3>5 DEF Linked
  <2> QED
    BY <2>1, <2>2
<1> QED
  BY <1>1, <1>2, <1>4 DEF TreeInv

\* Every level built so far stays the hashes of the one below.
LEMMA TreeStep ==
    ASSUME TypeOK, ZerosInv, TreeInv, [Next]_vars
    PROVE  TreeInv'
<1> USE MerkleAssumption DEF TypeOK, Loops
<1>1. CASE new
  <2>1. pc' # "recompute"
    BY <1>1 DEF new, Advance
  <2>2. \A k, i : get(k, i)' = zeros'[k]
    BY <1>1 DEF new, Advance, get
  <2>3. pc' # "new" => \A k \in 0..DEPTH - 1 : zeros'[k + 1] = Hash(zeros'[k], zeros'[k])
    BY ZerosStep DEF ZerosInv
  <2> QED
    BY <2>1, <2>2, <2>3 DEF TreeInv, Linked
<1>2. ASSUME NEW c \in Commitment, insert(c)
      PROVE  TreeInv'
  BY <1>2, InsertStep
<1>3. CASE recompute
  BY <1>3, RecomputeStep
<1>4. CASE PathStep
  BY <1>4, PathStepKeepsTree DEF TreeInv, Linked, Stale
<1>5. CASE UNCHANGED vars
  <2>1. \A k, i : get(k, i)' = get(k, i)
    BY <1>5 DEF vars, tree, get
  <2> QED
    BY <1>5, <2>1 DEF vars, TreeInv, Linked, Stale
<1> QED
  BY <1>1, <1>2, <1>3, <1>4, <1>5, NextSplits

\* One turn of proof takes the path one level up.
LEMMA ProofStep ==
    ASSUME TypeOK, PathInv, proof
    PROVE  PathInv'
<1> DEFINE n == level + 1
<1> USE MerkleAssumption DEF TypeOK, Loops
<1>1. /\ level \in 0..DEPTH - 1
      /\ index = trail[level]
      /\ DOMAIN trail = 0..level
      /\ DOMAIN path_elements = 0..level - 1
      /\ DOMAIN path_indices = 0..level - 1
      /\ \A k \in 0..level : trail[k] \in Nat /\ trail[k] < Width[k]
      /\ \A k \in 0..level - 1 : OnPath(k)
      /\ get(0, trail[0]) = leaf
      /\ computedHash = leaf
  BY DEF proof, PathInv, PathLength
<1>2. /\ \A k, i : get(k, i)' = get(k, i)
      /\ leaf' = leaf
      /\ computedHash' = computedHash
  BY PathStepKeepsTree DEF proof, PathStep
<1>3. PathLength' = n
  BY <1>1 DEF proof, PathLength
<1>4. trail' = Put(trail, n, index \div 2)
  BY DEF proof
<1>5. /\ DOMAIN trail' = 0..n
      /\ \A k \in 0..level : trail'[k] = trail[k]
      /\ trail'[n] = index \div 2
  BY <1>1, <1>4 DEF Put
<1>6. /\ DOMAIN path_elements' = 0..n - 1
      /\ \A k \in 0..level - 1 : path_elements'[k] = path_elements[k]
      /\ path_elements'[level] = get(level, Sibling(index))
  BY <1>1 DEF proof, Put
<1>7. /\ DOMAIN path_indices' = 0..n - 1
      /\ \A k \in 0..level - 1 : path_indices'[k] = path_indices[k]
      /\ path_indices'[level] = ~Even(index)
  BY <1>1 DEF proof, Put
<1>8. ASSUME NEW k \in 0..n
      PROVE  trail'[k] \in Nat /\ trail'[k] < Width[k]
  <2>1. CASE k \in 0..level
    BY <1>1, <1>5, <2>1
  <2>2. CASE k = n
    <3>1. Width[level] = 2 * Width[n] /\ Width[n] \in Nat
      BY <1>1
    <3>2. index < 2 * Width[n]
      BY <1>1, <3>1
    <3> QED
      BY <1>5, <2>2, <3>1, <3>2
  <2> QED
    BY <1>1, <2>1, <2>2
<1>9. ASSUME NEW k \in 0..n - 1
      PROVE  OnPath(k)'
  <2>1. CASE k \in 0..level - 1
    <3>1. k \in 0..level /\ k + 1 \in 0..level
      BY <1>1, <2>1
    <3>2. trail'[k] = trail[k] /\ trail'[k + 1] = trail[k + 1]
      BY <1>5, <3>1
    <3> QED
      BY <1>1, <1>2, <1>6, <1>7, <2>1, <3>2 DEF OnPath
  <2>2. CASE k = level
    <3>1. trail'[k] = index /\ trail'[k + 1] = index \div 2
      BY <1>1, <1>5, <2>2
    <3>2. path_elements'[k] = get(k, Sibling(trail'[k]))
      BY <1>6, <2>2, <3>1
    <3>3. path_indices'[k] = ~Even(trail'[k])
      BY <1>7, <2>2, <3>1
    <3> QED
      BY <1>2, <3>1, <3>2, <3>3 DEF OnPath
  <2> QED
    BY <1>1, <2>1, <2>2
<1>10. (get(0, trail[0]) = leaf)'
  <2>1. trail'[0] = trail[0]
    BY <1>1, <1>5
  <2> QED
    BY <1>1, <1>2, <2>1
<1>11. pc' = "proof" => index' = trail'[level'] /\ computedHash' = leaf'
  BY <1>1, <1>2, <1>5 DEF proof
<1> QED
  BY <1>3, <1>5, <1>6, <1>7, <1>8, <1>9, <1>10, <1>11 DEF PathInv

\* A path begins at a place of the list, which is inside the tree.
LEMMA BuildWitnessStep ==
    ASSUME TypeOK, NEW c \in Commitment, build_witness(c)
    PROVE  PathInv'
<1> USE MerkleAssumption DEF TypeOK
<1>1. PICK i \in 0..next_index - 1 :
         get(0, i) = c /\ index' = i /\ trail' = [k \in {0} |-> i]
  BY DEF build_witness
<1>2. pc' = "proof" /\ level' = 0 /\ leaf' = c /\ computedHash' = c
  BY DEF build_witness
<1>3. PathLength' = 0
  BY <1>2 DEF PathLength
<1>4. DOMAIN trail' = 0..0 /\ trail'[0] = i
  BY <1>1
<1>5. DOMAIN path_elements' = 0..0 - 1 /\ DOMAIN path_indices' = 0..0 - 1
  BY DEF build_witness, Nothing
<1>6. i \in Nat /\ i < Width[0]
  BY <1>1
<1>7. get(0, i)' = get(0, i)
  BY PathStepKeepsTree DEF PathStep
<1>8. \A k \in 0..0 : trail'[k] \in Nat /\ trail'[k] < Width[k]
  BY <1>4, <1>6
<1> QED
  BY <1>1, <1>2, <1>3, <1>4, <1>5, <1>7, <1>8 DEF PathInv

\* The path read so far stays the siblings on the leaf's way to the root.
LEMMA PathInvStep ==
    ASSUME TypeOK, PathInv, [Next]_vars
    PROVE  PathInv'
<1> USE MerkleAssumption DEF TypeOK
<1>1. CASE new
  BY <1>1 DEF new, Advance, PathInv
<1>2. ASSUME NEW c \in Commitment, insert(c)
      PROVE  PathInv'
  BY <1>2 DEF insert, PathInv
<1>3. CASE recompute
  BY <1>3 DEF recompute, Advance, PathInv
<1>4. ASSUME NEW c \in Commitment, build_witness(c)
      PROVE  PathInv'
  BY <1>4, BuildWitnessStep
<1>5. ASSUME NEW c \in Commitment, pretend(c)
      PROVE  PathInv'
  BY <1>5 DEF pretend, PathInv
<1>6. CASE proof
  BY <1>6, ProofStep
<1>7. CASE MerkleTreeInclusionCheck
  <2>1. /\ UNCHANGED <<path, leaf>>
        /\ pc = "walk"
        /\ pc' \in {"walk", "proved"}
        /\ \A k, i : get(k, i)' = get(k, i)
    BY <1>7, PathStepKeepsTree DEF MerkleTreeInclusionCheck, Advance, PathStep
  <2> QED
    BY <2>1 DEF PathInv, PathLength, OnPath, path
<1>8. CASE MadeUpStep
  BY <1>8 DEF MadeUpStep, Advance, PathInv
<1>9. CASE UNCHANGED vars
  <2>1. \A k, i : get(k, i)' = get(k, i)
    BY <1>9 DEF vars, tree, get
  <2> QED
    BY <1>9, <2>1 DEF vars, path, PathInv, PathLength, OnPath
<1> QED
  BY <1>1, <1>2, <1>3, <1>4, <1>5, <1>6, <1>7, <1>8, <1>9 DEF Next

\* The circuit puts own node and sibling in the order recompute did.
LEMMA CircuitStep ==
    ASSUME TypeOK, TreeInv, PathInv, WalkInv, MerkleTreeInclusionCheck
    PROVE  WalkInv'
<1> DEFINE i == trail[level]
           p == i \div 2
<1> USE MerkleAssumption DEF TypeOK, Loops
<1>1. /\ pc = "walk"
      /\ level \in 0..DEPTH - 1
      /\ level' = level + 1
      /\ path' = path
  BY DEF MerkleTreeInclusionCheck, Advance
<1>2. i \in Nat /\ OnPath(level)
  BY <1>1 DEF PathInv, PathLength
<1>3. computedHash' = Parent(i, get(level, i), get(level, Sibling(i)))
  BY <1>1, <1>2 DEF MerkleTreeInclusionCheck, WalkInv, OnPath, Switched, Parent
<1>4. computedHash' = Hash(get(level, 2 * p), get(level, 2 * p + 1))
  BY <1>2, <1>3, ParentIsTheHash
<1>5. p \in Nat
  BY <1>2, Halves
<1>6. get(level + 1, p) = Hash(get(level, 2 * p), get(level, 2 * p + 1))
  BY <1>1, <1>5 DEF TreeInv, Stale, Linked
<1>7. \A k, j : get(k, j)' = get(k, j)
  BY PathStepKeepsTree DEF PathStep
<1>8. trail'[level'] = p
  BY <1>1, <1>2 DEF OnPath, path
<1> QED
  BY <1>1, <1>4, <1>6, <1>7, <1>8 DEF WalkInv

\* The walk up the path stays on the leaf's ancestors.
LEMMA WalkStep ==
    ASSUME TypeOK, TreeInv, PathInv, WalkInv, [Next]_vars
    PROVE  WalkInv'
<1>1. CASE new
  BY <1>1 DEF new, Advance, WalkInv
<1>2. ASSUME NEW c \in Commitment, insert(c)
      PROVE  WalkInv'
  BY <1>2 DEF insert, WalkInv
<1>3. CASE recompute
  BY <1>3 DEF recompute, Advance, WalkInv
<1>4. ASSUME NEW c \in Commitment, build_witness(c) \/ pretend(c)
      PROVE  WalkInv'
  BY <1>4 DEF build_witness, pretend, WalkInv
<1>5. CASE proof
  <2>1. pc' = "walk" => level' = 0
    BY <1>5 DEF proof
  <2>2. pc' \in {"walk", "proof"} /\ computedHash' = computedHash /\ leaf' = leaf
    BY <1>5 DEF proof
  <2>3. computedHash = leaf
    BY <1>5 DEF proof, PathInv
  <2>4. pc' = "walk" => (get(0, trail[0]) = leaf)'
    BY <1>5, ProofStep DEF PathInv
  <2> QED
    BY <2>1, <2>2, <2>3, <2>4 DEF WalkInv
<1>6. CASE MerkleTreeInclusionCheck
  BY <1>6, CircuitStep
<1>7. CASE MadeUpStep
  BY <1>7 DEF MadeUpStep, Advance, WalkInv
<1>8. CASE UNCHANGED vars
  BY <1>8 DEF vars, tree, path, WalkInv, get
<1> QED
  BY <1>1, <1>2, <1>3, <1>4, <1>5, <1>6, <1>7, <1>8 DEF Next
-----------------------------------------------------------------------------
(* Theorems. *)

\* At every moment each node of the tree is the hash of its children, but for
\* the one that recompute is at; a path is where its leaf was stored, and the
\* circuit's walk is at the node the path is at.
THEOREM Inductive == Spec => []IInv
<1> USE MerkleAssumption
<1>1. Init => IInv
  BY DEF Init, IInv, TypeOK, Loops, ZerosInv, LeavesInv, TreeInv, PathInv,
         WalkInv, Nothing
<1>2. IInv /\ [Next]_vars => IInv'
  BY TypeStep, ZerosStep, LeavesStep, TreeStep, PathInvStep, WalkStep DEF IInv
<1> QED
  BY <1>1, <1>2, PTL DEF Spec

\* Whoever is on a list that fits the tree is led to its root by the path that
\* `proof` gives them, for every depth, list and hash.
THEOREM Completeness == Spec => []ListedCanProve
<1>1. IInv => ListedCanProve
  <2> SUFFICES ASSUME IInv, pc = "proved"
               PROVE  computedHash = root
    BY DEF ListedCanProve
  <2>1. level = DEPTH /\ computedHash = get(DEPTH, trail[DEPTH])
    BY DEF IInv, TypeOK, Loops, WalkInv
  <2>2. trail[DEPTH] \in Nat /\ trail[DEPTH] < 1
    BY MerkleAssumption DEF IInv, PathInv, PathLength
  <2>3. trail[DEPTH] = 0
    BY <2>2
  <2> QED
    BY <2>1, <2>3 DEF root
<1> QED
  BY <1>1, Inductive, PTL

\* A walk that is at no node of its level stays off the tree.
LEMMA AstrayStep ==
    ASSUME IInv, AstrayInv, [Next]_vars,
           \A a, b, c, d : Hash(a, b) = Hash(c, d) => a = c /\ b = d
    PROVE  AstrayInv'
<1> USE MerkleAssumption DEF IInv, TypeOK, Loops
<1>1. ASSUME NEW c \in Commitment, pretend(c), (leaf # ZERO)', ~(Listed(leaf)')
      PROVE  \A i \in Nat : computedHash' # get(level, i)'
  <2>1. /\ level' = 0
        /\ computedHash' = leaf'
        /\ next_index' = next_index
        /\ zeros' = zeros
        /\ \A k, i : get(k, i)' = get(k, i)
    BY <1>1, PathStepKeepsTree DEF pretend, PathStep, tree
  <2>2. \A i \in 0..next_index - 1 : get(0, i) # leaf'
    BY <1>1, <2>1 DEF Listed
  <2>3. \A i \in Nat : i >= next_index => get(0, i) = zeros[0]
    BY DEF get, LeavesInv
  <2>4. zeros[0] = ZERO
    BY DEF ZerosInv
  <2>5. \A i \in Nat : get(0, i) # leaf'
    BY <1>1, <2>2, <2>3, <2>4
  <2> QED
    BY <2>1, <2>5
<1>2. ASSUME MadeUpStep, leaf # ZERO, ~Listed(leaf)
      PROVE  \A i \in Nat : computedHash' # get(level, i)'
  <2>1. /\ pc = "pretend"
        /\ level \in 0..DEPTH - 1
        /\ level' = level + 1
        /\ \A k, i : get(k, i)' = get(k, i)
    BY <1>2, PathStepKeepsTree DEF MadeUpStep, Advance, PathStep
  <2>2. PICK sibling \in Claim, s \in BOOLEAN :
           computedHash' = Switched(computedHash, sibling, s)
    BY <1>2 DEF MadeUpStep
  <2>3. SUFFICES ASSUME NEW i \in Nat, computedHash' = get(level + 1, i)
                 PROVE  FALSE
    BY <2>1
  <2>4. get(level + 1, i) = Hash(get(level, 2 * i), get(level, 2 * i + 1))
    BY <2>1 DEF TreeInv, Stale, Linked
  <2>5. computedHash = get(level, 2 * i) \/ computedHash = get(level, 2 * i + 1)
    BY <2>2, <2>3, <2>4 DEF Switched
  <2>6. 2 * i \in Nat /\ 2 * i + 1 \in Nat
    OBVIOUS
  <2> QED
    BY <1>2, <2>1, <2>5, <2>6 DEF AstrayInv
<1>3. CASE UNCHANGED vars
  BY <1>3 DEF vars, tree, AstrayInv, Listed, get
<1>4. CASE new \/ recompute \/ proof \/ MerkleTreeInclusionCheck
  BY <1>4 DEF new, recompute, proof, MerkleTreeInclusionCheck, Advance, AstrayInv
<1>5. ASSUME NEW c \in Commitment, insert(c) \/ build_witness(c)
      PROVE  AstrayInv'
  BY <1>5 DEF insert, build_witness, AstrayInv
<1>6. ASSUME MadeUpStep
      PROVE  AstrayInv'
  <2>1. leaf' = leaf /\ (Listed(leaf)' <=> Listed(leaf))
    BY <1>6, PathStepKeepsTree DEF MadeUpStep, PathStep, Listed, tree
  <2> QED
    BY <1>2, <1>6, <2>1 DEF AstrayInv
<1>7. ASSUME NEW c \in Commitment, pretend(c)
      PROVE  AstrayInv'
  BY <1>1, <1>7 DEF AstrayInv
<1> QED
  BY <1>3, <1>4, <1>5, <1>6, <1>7 DEF Next

\* If the hash has no collisions, nobody else's walk ends at the root, whatever
\* siblings and sides are claimed: only a listed commitment, or the empty leaf.
THEOREM Soundness ==
    ASSUME \A a, b, c, d : Hash(a, b) = Hash(c, d) => a = c /\ b = d
    PROVE  Spec => []OnlyListedProve
<1>1. Init => AstrayInv
  BY DEF Init, AstrayInv
<1>2. IInv /\ AstrayInv /\ [Next]_vars => AstrayInv'
  BY AstrayStep
<1>3. IInv /\ AstrayInv => OnlyListedProve
  <2> SUFFICES ASSUME IInv, AstrayInv, pc = "claimed", computedHash = root,
                      ~Listed(leaf), leaf # ZERO
               PROVE  FALSE
    BY DEF OnlyListedProve
  <2>1. level = DEPTH
    BY DEF IInv, TypeOK, Loops
  <2> QED
    BY <2>1 DEF AstrayInv, root
<1> QED
  BY <1>1, <1>2, <1>3, Inductive, PTL DEF Spec
-----------------------------------------------------------------------------
(* The root is that of the list.                                              *)

\* Induction, over a set: one that holds 0 and each of its successors holds all
\* numbers.
LEMMA NatSet ==
    ASSUME NEW S, 0 \in S, \A n \in Nat : n \in S => n + 1 \in S
    PROVE  \A n \in Nat : n \in S
<1> DEFINE R == OpToRel(<, Nat)
           T == Nat \ S
<1>1. SUFFICES ASSUME T # {} PROVE FALSE
  OBVIOUS
<1>2. PICK x \in T : \A y \in T : ~(<<y, x>> \in R)
  <2>1. T \subseteq Nat
    OBVIOUS
  <2> HIDE DEF T, R
  <2>2. IsWellFoundedOn(R, Nat)
    BY NatLessThanWellFounded DEF R
  <2> QED
    BY <1>1, <2>1, <2>2, WFMin
<1>3. x # 0 /\ x \in Nat
  OBVIOUS
<1>4. x - 1 \in T
  BY <1>3
<1>5. <<x - 1, x>> \in R
  BY <1>3 DEF OpToRel
<1> QED
  BY <1>2, <1>4, <1>5

\* Level k of the tree over the list, given the level below.
LevelOver(k, below) ==
    [i \in 0..Width[k] - 1 |->
        IF k = 0 THEN IF i < next_index THEN get(0, i) ELSE ZERO
        ELSE Hash(below[2 * i], below[2 * i + 1])]

\* f is the tree over the list, up to level m.
LevelsTo(f, m) == f = [k \in 0..m |-> LevelOver(k, f[k - 1])]

\* There is a tree over every list.
LEMMA LevelsExist == \E f : LevelsTo(f, DEPTH)
<1> USE MerkleAssumption
<1> DEFINE S == {m \in Nat : \E f : LevelsTo(f, m)}
<1>1. 0 \in S
  <2> DEFINE f == [k \in 0..0 |-> LevelOver(0, ZERO)]
  <2>1. LevelOver(0, ZERO) = LevelOver(0, f[0 - 1])
    BY DEF LevelOver
  <2>2. LevelsTo(f, 0)
    <3>1. \A k \in 0..0 : k = 0
      OBVIOUS
    <3> HIDE DEF f
    <3>2. f = [k \in 0..0 |-> LevelOver(0, ZERO)] /\ f[0] = LevelOver(0, ZERO)
      BY DEF f
    <3> QED
      BY <2>1, <3>1, <3>2 DEF LevelsTo
  <2> QED
    BY <2>2
<1>2. ASSUME NEW m \in Nat, m \in S PROVE m + 1 \in S
  <2>1. PICK f : LevelsTo(f, m)
    BY <1>2
  <2> DEFINE g == [k \in 0..(m + 1) |-> IF k = m + 1 THEN LevelOver(m + 1, f[m]) ELSE f[k]]
  <2>2. /\ g[m + 1] = LevelOver(m + 1, f[m])
        /\ \A k \in 0..m : g[k] = f[k]
    OBVIOUS
  <2>3. g = [k \in 0..(m + 1) |-> g[k]]
    OBVIOUS
  <2> HIDE DEF g
  <2>4. ASSUME NEW k \in 0..(m + 1) PROVE g[k] = LevelOver(k, g[k - 1])
    <3>1. CASE k = m + 1
      <4>1. k - 1 = m /\ m \in 0..m
        BY <3>1
      <4>2. g[k - 1] = f[m]
        BY <2>2, <4>1
      <4> QED
        BY <2>2, <3>1, <4>2
    <3>2. CASE k \in 1..m
      <4>1. g[k] = f[k] /\ g[k - 1] = f[k - 1]
        BY <2>2, <3>2
      <4>2. f[k] = LevelOver(k, f[k - 1])
        BY <2>1, <3>2 DEF LevelsTo
      <4> QED
        BY <4>1, <4>2
    <3>3. CASE k = 0
      <4>1. k \in 0..m
        BY <3>3
      <4>2. f[k] = LevelOver(k, f[k - 1])
        BY <2>1, <4>1 DEF LevelsTo
      <4> QED
        BY <2>2, <3>3, <4>1, <4>2 DEF LevelOver
    <3> QED
      BY <3>1, <3>2, <3>3
  <2>5. LevelsTo(g, m + 1)
    BY <2>3, <2>4 DEF LevelsTo
  <2> QED
    BY <2>5
<1>3. \A m \in Nat : m \in S
  <2> HIDE DEF S
  <2> QED
    BY <1>1, <1>2, NatSet
<1> QED
  BY <1>3

\* Reference is that tree.
LEMMA ReferenceLevels == LevelsTo(Reference, DEPTH)
<1> DEFINE Def(f) ==
      f = [k \in 0..DEPTH |->
             [i \in 0..Width[k] - 1 |->
                IF k = 0 THEN IF i < next_index THEN get(0, i) ELSE ZERO
                ELSE Hash(f[k - 1][2 * i], f[k - 1][2 * i + 1])]]
           F == CHOOSE f : Def(f)
<1>1. Reference = F
  BY DEF Reference
<1>2. PICK f : LevelsTo(f, DEPTH)
  BY LevelsExist
<1>3. Def(f)
  BY <1>2 DEF LevelsTo, LevelOver
<1>4. Def(F)
  <2> HIDE DEF Def
  <2> QED
    BY <1>3
<1>5. LevelsTo(F, DEPTH)
  <2> HIDE DEF F
  <2> QED
    BY <1>4 DEF LevelsTo, LevelOver
<1> QED
  BY <1>1, <1>5

(* Whenever the building of the tree rests, its root is that of the full tree  *)
(* over the list (SparseMerkleTree::insert and root), for every depth, every   *)
(* list that fits, with repetitions or not, and every hash.                    *)
THEOREM RootOfTheList == Spec => []RootIsTheLists
<1>1. IInv => RootIsTheLists
  <2> SUFFICES ASSUME IInv, Resting PROVE root = Reference[DEPTH][0]
    BY DEF RootIsTheLists
  <2> USE MerkleAssumption
  <2> DEFINE Right(k) == \A i \in 0..Width[k] - 1 : get(k, i) = Reference[k][i]
             S == {k \in Nat : k <= DEPTH => Right(k)}
  <2>1. \A k \in 0..DEPTH : Reference[k] = LevelOver(k, Reference[k - 1])
    BY ReferenceLevels DEF LevelsTo
  <2>2. Right(0)
    <3>1. ASSUME NEW i \in 0..Width[0] - 1 PROVE get(0, i) = Reference[0][i]
      <4>1. i \in Nat /\ next_index \in Nat
        BY <3>1 DEF IInv, TypeOK
      <4>2. Reference[0][i] = IF i < next_index THEN get(0, i) ELSE ZERO
        <5>1. Reference[0] = LevelOver(0, Reference[0 - 1])
          BY <2>1
        <5> QED
          BY <3>1, <5>1 DEF LevelOver
      <4>3. i >= next_index => get(0, i) = ZERO
        BY <4>1 DEF IInv, LeavesInv, ZerosInv, get
      <4> QED
        BY <4>1, <4>2, <4>3
    <3> QED
      BY <3>1
  <2>3. ASSUME NEW k \in Nat, k + 1 <= DEPTH, Right(k) PROVE Right(k + 1)
    <3> SUFFICES ASSUME NEW i \in 0..Width[k + 1] - 1
                 PROVE  get(k + 1, i) = Reference[k + 1][i]
      OBVIOUS
    <3>1. k \in 0..DEPTH - 1 /\ k <= DEPTH /\ k + 1 \in 0..DEPTH /\ k + 1 # 0
      BY <2>3
    <3>2. /\ Width[k] = 2 * Width[k + 1] /\ Width[k + 1] \in Nat
          /\ i \in Nat /\ 2 * i \in 0..Width[k] - 1 /\ 2 * i + 1 \in 0..Width[k] - 1
      BY <3>1
    <3>3. get(k + 1, i) = Hash(get(k, 2 * i), get(k, 2 * i + 1))
      BY <3>1, <3>2 DEF IInv, TreeInv, Resting, Stale, Linked
    <3>4. get(k, 2 * i) = Reference[k][2 * i] /\ get(k, 2 * i + 1) = Reference[k][2 * i + 1]
      BY <2>3, <3>1, <3>2
    <3>5. Reference[k + 1][i] = Hash(Reference[k][2 * i], Reference[k][2 * i + 1])
      <4>1. (k + 1) - 1 = k
        OBVIOUS
      <4>2. Reference[k + 1] = LevelOver(k + 1, Reference[k])
        BY <2>1, <3>1, <4>1
      <4> QED
        BY <3>1, <4>2 DEF LevelOver
    <3> QED
      BY <3>3, <3>4, <3>5
  <2>4. \A k \in Nat : k \in S
    <3> HIDE DEF Right
    <3>1. 0 \in S
      BY <2>2
    <3>2. ASSUME NEW k \in Nat, k \in S PROVE k + 1 \in S
      BY <2>3, <3>2
    <3> HIDE DEF S
    <3> QED
      BY <3>1, <3>2, NatSet
  <2>5. 0 \in 0..Width[DEPTH] - 1
    OBVIOUS
  <2> QED
    BY <2>4, <2>5 DEF root
<1> QED
  BY <1>1, Inductive, PTL
=============================================================================
