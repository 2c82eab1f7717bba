----------------------------- MODULE MerkleTree -----------------------------
(***************************************************************************)
(* The sparse Merkle tree of viche-core, built leaf by leaf from the       *)
(* published list, the authentication path a voter takes from it, and the  *)
(* circuit's walk from a leaf to a root, honest or made up.                *)
(*                                                                         *)
(* Each turn of a loop of the code is a step here: what a loop has         *)
(* established so far is then an invariant, for every depth and every      *)
(* number of leaves.  Poseidon is any binary operator.                     *)
(***************************************************************************)
EXTENDS Integers

CONSTANTS
    Commitment,   \* leaves
    ZERO,         \* the empty leaf
    Hash(_, _),   \* Poseidon of a pair
    DEPTH,        \* levels of the tree
    Width,        \* Width[l]: nodes of level l in a full tree
    MaxLeaves,    \* leaves a list may have (REGISTRATION_MAX_PENDING)
    Claim         \* values a prover may claim for a sibling

ASSUME MerkleAssumption ==
    /\ DEPTH \in Nat \ {0}
    /\ Width \in [0..DEPTH -> Nat]
    /\ Width[DEPTH] = 1
    /\ \A k \in 0..DEPTH - 1 : Width[k] = 2 * Width[k + 1]
    /\ MaxLeaves \in Nat
    /\ MaxLeaves <= Width[0]     \* not checked by the code

VARIABLES
    level_nodes,    \* <<level, index>> :> node, where one was stored
    zeros,          \* zeros[k]: root of an empty subtree of height k
    next_index,
    pc,             \* the loop that runs, or what the last one ended in
    level, index,   \* its counters
    node,           \* recompute's rolling node
    leaf,           \* the leaf a walk starts from
    path_elements, path_indices,
    trail,          \* history: what index was at each level of the path
    computedHash    \* the circuit's rolling hash

tree == <<level_nodes, zeros, next_index>>
path == <<path_elements, path_indices, trail>>
vars == <<tree, pc, level, index, node, leaf, path, computedHash>>

\* HashMap::insert, Vec::push, and an assigned circuit signal.
Put(f, k, v) == [x \in DOMAIN f \cup {k} |-> IF x = k THEN v ELSE f[x]]

Nothing == [k \in {} |-> ZERO]

\* A vector of the first zero, and no nodes.
Init ==
    /\ level_nodes = Nothing
    /\ zeros = [k \in {0} |-> ZERO]
    /\ next_index = 0
    /\ pc = "new" /\ level = 0 /\ index = 0
    /\ node = ZERO
    /\ leaf = ZERO
    /\ path_elements = Nothing /\ path_indices = Nothing /\ trail = Nothing
    /\ computedHash = ZERO

\* Mutant: every empty subtree is worth an empty leaf.
get_zero_leaf(k, i) ==
    IF <<k, i>> \in DOMAIN level_nodes THEN level_nodes[<<k, i>>] ELSE ZERO

get(k, i) ==
    IF <<k, i>> \in DOMAIN level_nodes THEN level_nodes[<<k, i>>] ELSE zeros[k]

root == get(DEPTH, 0)

Even(i) == i % 2 = 0
Sibling(i) == IF Even(i) THEN i + 1 ELSE i - 1

\* The next value of a loop counter and what runs when the loop is over.
Advance(loop, after) ==
    /\ pc = loop
    /\ level' = level + 1
    /\ pc' = IF level + 1 = DEPTH THEN after ELSE loop

\* The chain of zero hashes of SparseMerkleTree::new.
new ==
    /\ Advance("new", "ready")
    /\ zeros' = Put(zeros, level + 1, Hash(zeros[level], zeros[level]))
    /\ UNCHANGED <<level_nodes, next_index, index, node, leaf, path, computedHash>>

\* insert stores the leaf ...
insert(c) ==
    /\ pc = "ready"
    /\ next_index < MaxLeaves                        \* bound MaxLeaves
    /\ level_nodes' = Put(level_nodes, <<0, next_index>>, c)
    /\ next_index' = next_index + 1
    /\ pc' = "recompute"
    /\ level' = 0
    /\ index' = next_index
    /\ node' = c
    /\ UNCHANGED <<zeros, leaf, path, computedHash>>

\* Mutant: the path's own node is always hashed from the left.
OwnNodeFirst(i, own, sibling) == Hash(own, sibling)

Parent(i, own, sibling) ==
    IF Even(i) THEN Hash(own, sibling) ELSE Hash(sibling, own)

\* ... and recomputes its ancestors up to the root.
recompute ==
    /\ Advance("recompute", "ready")
    /\ node' = Parent(index, node, get(level, Sibling(index)))
    /\ index' = index \div 2
    /\ level_nodes' = Put(level_nodes, <<level + 1, index \div 2>>, node')
    /\ UNCHANGED <<zeros, next_index, leaf, path, computedHash>>
-----------------------------------------------------------------------------
(* A voter's path. *)

\* The list is complete: trees are built from a list and not added to.
Resting == pc \in {"ready", "proved", "claimed"}

\* The voter's place is the first one that holds their commitment.
build_witness(c) ==
    /\ Resting
    /\ \E i \in 0..next_index - 1 :
          /\ get(0, i) = c
          /\ \A j \in 0..i - 1 : get(0, j) # c
          /\ index' = i
          /\ trail' = [k \in {0} |-> i]
    /\ pc' = "proof"
    /\ level' = 0
    /\ leaf' = c
    /\ path_elements' = Nothing /\ path_indices' = Nothing
    /\ computedHash' = c
    /\ UNCHANGED <<tree, node>>

\* proof: one level up.  The circuit's walk begins where the leaf is.
proof ==
    /\ pc = "proof"
    /\ path_elements' = Put(path_elements, level, get(level, Sibling(index)))
    /\ path_indices' = Put(path_indices, level, ~Even(index))
    /\ index' = index \div 2
    /\ trail' = Put(trail, level + 1, index')
    /\ IF level + 1 = DEPTH THEN pc' = "walk" /\ level' = 0
                            ELSE level' = level + 1 /\ UNCHANGED pc
    /\ UNCHANGED <<tree, node, leaf, computedHash>>
-----------------------------------------------------------------------------
(* MerkleTreeInclusionCheck. *)

\* Mutant: the second output of the switcher is not switched.
SwitchedHalf(own, sibling, s) ==
    IF s THEN Hash(sibling, sibling) ELSE Hash(own, sibling)

\* Hash of the two outputs of BinarySwitcher.
Switched(own, sibling, s) ==
    IF s THEN Hash(sibling, own) ELSE Hash(own, sibling)

MerkleTreeInclusionCheck ==
    /\ Advance("walk", "proved")
    /\ computedHash' =
          Switched(computedHash, path_elements[level], path_indices[level])
    /\ UNCHANGED <<tree, index, node, leaf, path>>

\* A prover who makes everything up: any leaf, at each level any sibling and
\* either side.
pretend(c) ==
    /\ Resting
    /\ pc' = "pretend"
    /\ level' = 0
    /\ leaf' = c
    /\ computedHash' = c
    /\ index' = 0
    /\ path_elements' = Nothing /\ path_indices' = Nothing /\ trail' = Nothing
    /\ UNCHANGED <<tree, node>>

MadeUpStep ==
    /\ Advance("pretend", "claimed")
    /\ \E sibling \in Claim, s \in BOOLEAN :
          computedHash' = Switched(computedHash, sibling, s)
    /\ UNCHANGED <<tree, index, node, leaf, path>>

Next ==
    \/ new
    \/ \E c \in Commitment : insert(c) \/ build_witness(c) \/ pretend(c)
    \/ recompute \/ proof
    \/ MerkleTreeInclusionCheck \/ MadeUpStep

Spec == Init /\ [][Next]_vars
-----------------------------------------------------------------------------
(* Properties. *)

\* The levels the definition of a Merkle tree gives, from the leaves alone.
Reference[k \in 0..DEPTH] ==
    [i \in 0..Width[k] - 1 |->
        IF k = 0 THEN IF i < next_index THEN get(0, i) ELSE ZERO
        ELSE Hash(Reference[k - 1][2 * i], Reference[k - 1][2 * i + 1])]

\* The tree the admin's page and the voter's page build one leaf at a time has
\* the root of the full tree over the list: repeated leaves, lists that are
\* no power of two, and the full tree included.
RootIsTheLists == Resting => root = Reference[DEPTH][0]

Listed(c) == \E i \in 0..next_index - 1 : get(0, i) = c

\* What the circuit computes from the path of `proof` is the root, wherever in
\* the list the voter is: the two sides agree on which sibling is on the left.
ListedCanProve == pc = "proved" => computedHash = root

\* No other commitment reaches the root, whatever path is made up for it.  The
\* empty leaf does, where the tree is not full.
OnlyListedProve ==
    pc = "claimed" /\ computedHash = root => Listed(leaf) \/ leaf = ZERO
=============================================================================
