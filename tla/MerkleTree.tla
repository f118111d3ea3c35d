----------------------------- MODULE MerkleTree -----------------------------
(***************************************************************************)
(* The RFC 6962 Merkle tree of services/pzdr-enclave/src/transparency.rs   *)
(* and the two verifiers of sdk/typescript/transparency.ts (the Python     *)
(* auditor, tools/pzdr_verify.py, has the same two).                       *)
(*                                                                         *)
(* SHA-256 is a free constructor: two hashes are equal exactly when they   *)
(* were computed from equal inputs, and the leaf prefix 0x00, the node     *)
(* prefix 0x01 and the hash of the empty string keep the three shapes      *)
(* apart.  Slices of the leaf vector are index ranges: lo, n stands for    *)
(* leaves[lo .. lo + n].  Indices are 0-based, as in the code; leaf i is   *)
(* leaves[i + 1].                                                          *)
(***************************************************************************)
EXTENDS Naturals, Sequences, SequencesExt

leaf_hash(entry) == <<"leaf", entry>>

node_hash(l, r) == <<"node", l, r>>

EmptyHash == <<"empty">>

(* The entry a leaf hash commits to: defined because leaf_hash is injective. *)
EntryOf(leaf) == leaf[2]

(* The largest power of two strictly below n, for n >= 2. *)
split(n) ==
    LET grow[k \in Nat \ {0}] == IF k < n THEN grow[2 * k] ELSE k
    IN  grow[1] \div 2

(* Merkle tree hash of the n leaves from position lo. *)
mth_range(leaves, lo, n) ==
    LET hash[len \in Nat] == [i \in Nat |->
            CASE len = 0 -> EmptyHash
              [] len = 1 -> leaves[i + 1]
              [] OTHER   -> LET k == split(len)
                            IN  node_hash(hash[k][i], hash[len - k][i + k])]
    IN  hash[n][lo]

mth(leaves) == mth_range(leaves, 0, Len(leaves))

(* Audit path of leaf m, deepest sibling first.  The leaf is number m - i of *)
(* the range of len leaves from i.                                           *)
inclusion(leaves, m) ==
    LET path[len \in Nat \ {0}] == [i \in Nat |->
            IF len = 1 THEN <<>>
            ELSE LET k == split(len)
                 IN  IF m < i + k
                     THEN Append(path[k][i], mth_range(leaves, i + k, len - k))
                     ELSE Append(path[len - k][i + k], mth_range(leaves, i, k))]
    IN  path[Len(leaves)][0]

(* Nodes that show the first m leaves to be a prefix of leaves.  The old    *)
(* tree has m - i leaves in the range of len leaves from i, never more than  *)
(* len; the argument whole is TRUE as long as the range starts at leaf 0.    *)
subproof(m, leaves) ==
    LET path[len \in Nat \ {0}] == [i \in 0..(m - 1) |->
            IF m >= i + len
            THEN IF i = 0 THEN <<>> ELSE <<mth_range(leaves, i, len)>>
            ELSE LET k == split(len)
                 IN  IF m <= i + k
                     THEN Append(path[k][i], mth_range(leaves, i + k, len - k))
                     ELSE Append(path[len - k][i + k], mth_range(leaves, i, k))]
    IN  path[Len(leaves)][0]

(* Mutant: newest first. *)
log_append_front(leaves, entry) == <<leaf_hash(entry)>> \o leaves

(* The methods of TransparencyLog.  Some(x) is <<x>>, None is <<>>. *)
log_append(leaves, entry) == Append(leaves, leaf_hash(entry))

root_at(leaves, size) == mth(SubSeq(leaves, 1, size))

inclusion_path(leaves, idx) ==
    IF idx < Len(leaves) THEN <<inclusion(leaves, idx)>> ELSE <<>>

consistency_path(leaves, m) ==
    CASE m > Len(leaves)          -> <<>>
      [] m \in {0, Len(leaves)}   -> << <<>> >>
      [] OTHER                    -> <<subproof(m, leaves)>>

-----------------------------------------------------------------------------
(* The verifiers' index arithmetic: both indices are halved once per path   *)
(* element, and past the levels at which the left index has no sibling.     *)

halve(fs) == [fn |-> fs.fn \div 2, sn |-> fs.sn \div 2]

Indices == [fn : Nat, sn : Nat]

(* while (fn % 2 = 0 and fn # 0) halve *)
skip_even(fs) ==
    LET skip[p \in Indices] ==
            IF p.fn % 2 = 0 /\ p.fn # 0 THEN skip[halve(p)] ELSE p
    IN  skip[fs]

(* Mutant: the verifier starts at the leaf level. *)
skip_odd_dropped(fs) == fs

(* while (fn % 2 = 1) halve *)
skip_odd(fs) ==
    LET skip[p \in Indices] == IF p.fn % 2 = 1 THEN skip[halve(p)] ELSE p
    IN  skip[fs]

(* Mutant: forgets that the last node of a level has no right sibling. *)
joins_left_if_odd(fs) == fs.fn % 2 = 1

joins_left(fs) == fs.fn % 2 = 1 \/ fs.fn = fs.sn

(* One sibling in the loop of verifyInclusion. *)
absorb_sibling(st, sib) ==
    IF joins_left(st.at)
    THEN [at |-> halve(skip_even(st.at)), h |-> node_hash(sib, st.h)]
    ELSE [at |-> halve(st.at),            h |-> node_hash(st.h, sib)]

(* The loop: the hash rebuilt from the leaf, and where the indices end. *)
climb(leaf, index, size, path) ==
    FoldLeft(absorb_sibling, [at |-> [fn |-> index, sn |-> size - 1], h |-> leaf], path)

(* Mutant: accepts a path that is too short for its index. *)
verifyInclusion_any_length(leaf, index, size, path, root) ==
    index < size /\ climb(leaf, index, size, path).h = root

verifyInclusion(leaf, index, size, path, root) ==
    LET end == climb(leaf, index, size, path)
    IN  index < size /\ end.h = root /\ end.at.sn = 0

(* n & (n - 1) = 0: n is the largest power of two below n + 1. *)
is_power_of_two(n) == split(n + 1) = n

(* What verifyConsistency reads: the first node is the old root itself when *)
(* the old tree is a complete subtree of the new one.                       *)
seeded(firstSize, firstRoot, proof) ==
    IF is_power_of_two(firstSize) THEN <<firstRoot>> \o proof ELSE proof

(* One node in its loop: the old root (fr) and the new root (sr) are rebuilt *)
(* together; dead when nodes are left over.                                 *)
absorb_node(st, c) ==
    IF st.dead \/ st.at.sn = 0 THEN [st EXCEPT !.dead = TRUE]
    ELSE IF joins_left(st.at)
         THEN [st EXCEPT !.at = halve(skip_even(st.at)),
                         !.fr = node_hash(c, st.fr), !.sr = node_hash(c, st.sr)]
         ELSE [st EXCEPT !.at = halve(st.at), !.sr = node_hash(st.sr, c)]

reconcile(firstSize, secondSize, pr) ==
    LET start == skip_odd([fn |-> firstSize - 1, sn |-> secondSize - 1])
    IN  FoldLeft(absorb_node, [at |-> start, fr |-> pr[1], sr |-> pr[1], dead |-> FALSE], Tail(pr))

(* Mutant: the rebuilt old root is not compared. *)
reconciles_new_only(firstSize, firstRoot, secondSize, secondRoot, pr) ==
    LET end == reconcile(firstSize, secondSize, pr)
    IN  ~end.dead /\ end.sr = secondRoot /\ end.at.sn = 0

reconciles(firstSize, firstRoot, secondSize, secondRoot, pr) ==
    LET end == reconcile(firstSize, secondSize, pr)
    IN  ~end.dead /\ end.fr = firstRoot /\ end.sr = secondRoot /\ end.at.sn = 0

verifyConsistency(firstSize, firstRoot, secondSize, secondRoot, proof) ==
    LET pr == seeded(firstSize, firstRoot, proof)
    IN  CASE firstSize > secondSize -> FALSE
          [] firstSize = secondSize -> firstRoot = secondRoot /\ proof = <<>>
          [] firstSize = 0 /\ firstSize < secondSize -> TRUE
          [] OTHER -> pr # <<>> /\ reconciles(firstSize, firstRoot, secondSize, secondRoot, pr)
=============================================================================
