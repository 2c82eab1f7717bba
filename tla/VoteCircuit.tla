---------------------------- MODULE VoteCircuit ----------------------------
(***************************************************************************)
(* What an on-chain proof means: the statement the circuit vote.circom     *)
(* constrains and the checks the generated Groth16Verifier makes on the    *)
(* public signals.                                                         *)
(*                                                                         *)
(* Poseidon is a free constructor (two hashes are equal only when their    *)
(* inputs are) and Groth16 is sound (only a satisfiable statement has a    *)
(* proof): these two cryptographic assumptions are the ones the project    *)
(* takes.  What is NOT assumed away is the difference between a bytes32    *)
(* and a field element: a 256-bit word is elem + wrap * r, so one field    *)
(* element has several encodings.                                          *)
(***************************************************************************)
EXTENDS Integers

CONSTANTS
    Secret,      \* identity secrets; a voter is one secret
    Tree,        \* whitelist Merkle trees, named by their root
    Members,     \* Members[t]: the secrets whose commitment is a leaf of t
    MaxPolls,    \* bound: polls ever created
    MaxOptions,  \* bound: the largest numOptions and voteOption considered
    MaxWrap      \* bound: how often r is added to a field element (5 in 2^256)

ASSUME CircuitAssumption ==
    /\ Members \in [Tree -> SUBSET Secret]
    /\ MaxPolls \in Nat
    /\ MaxOptions \in Nat
    /\ MaxWrap \in Nat

PollId == 1..MaxPolls
Option == 0..MaxOptions

\* A bytes32 that reads as a field element of S after reduction modulo r.
Word(S) == [elem : S, wrap : 0..MaxWrap]

\* Mutant: a verifier generated without the range check.
anyWord(w) == TRUE

\* Groth16Verifier's checkField: the word is below r.
checkField(w) == w.wrap = 0

\* Poseidon(secret, voteId), the nullifier constraint of the circuit.
Poseidon2(secret, voteId) == [secret |-> secret, voteId |-> voteId]

NullifierHash == Word([secret : Secret, voteId : PollId])
MerkleRoot == Word(Tree)

\* A proof, by the witness and the public inputs it was generated for.
Proof == [secret : Secret, tree : Tree, voteId : PollId, voteOption : Option]

\* Mutant: the computed root is not constrained to equal the public one.
rootUnconstrained(pf) == TRUE

\* Constraint 2 of the circuit: Poseidon(secret) is a leaf under the root.
MerkleTreeInclusionCheck(pf) == pf.secret \in Members[pf.tree]

(***************************************************************************)
(* verifyProof(pA, pB, pC, [voteId, merkleRoot, nullifierHash,             *)
(* voteOption]): every signal is a canonical field element and the proof   *)
(* was generated for exactly these public inputs.  Poll ids and options    *)
(* are far below r, so only the two bytes32 signals can fail checkField.   *)
(***************************************************************************)
verifyProof(pf, sig) ==
    /\ checkField(sig.merkleRoot)
    /\ checkField(sig.nullifierHash)
    /\ MerkleTreeInclusionCheck(pf)
    /\ sig.voteId = pf.voteId
    /\ sig.merkleRoot.elem = pf.tree
    /\ sig.nullifierHash.elem = Poseidon2(pf.secret, pf.voteId)
    /\ sig.voteOption = pf.voteOption
=============================================================================
