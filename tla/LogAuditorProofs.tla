-------------------------- MODULE LogAuditorProofs --------------------------
(***************************************************************************)
(* Theorems about LogAuditor, for logs of any length: what the auditor     *)
(* may expect of an honest server, and what a dishonest one cannot make it *)
(* believe.                                                                *)
(***************************************************************************)
EXTENDS LogAuditor, MerkleProofs

(* The leaves of every boot. *)
AllLeaves == {leaf_hash(ProofOf(b, n)) : b \in Nat, n \in Nat}

(* The view the auditor holds is of a boot that was, and of the current     *)
(* boot only if its log is a prefix of the current one.                     *)
HonestInv ==
    honest =>
        /\ boot \in Nat /\ pinned.boot \in Nat /\ pinned.boot <= boot
        /\ log \in Seq(AllLeaves) /\ pinned.leaves \in Seq(AllLeaves)
        /\ pinned.boot = boot =>
              /\ Len(pinned.leaves) <= Len(log)
              /\ \A x \in 1..Len(pinned.leaves) : pinned.leaves[x] = log[x]

(* The auditor starts with the view of the first boot, *)
LEMMA HonestInit == Init => HonestInv
  BY DEF Init, HonestInv, Now, View

(* and keeps a view of this kind through appends, reboots and audits. *)
LEMMA HonestStep == HonestInv /\ [Next]_vars => HonestInv'
  <1> SUFFICES ASSUME HonestInv, [Next]_vars PROVE HonestInv'
    OBVIOUS
  <1>0. CASE UNCHANGED <<honest, boot, log, pinned>>
    BY <1>0 DEF HonestInv
  <1>1. CASE AppendProof
    <2> DEFINE x == leaf_hash(ProofOf(boot, Len(log) + 1))
    <2>1. /\ honest /\ log' = Append(log, x) /\ UNCHANGED <<honest, boot, pinned>>
      BY <1>1 DEF AppendProof, log_append
    <2>2. boot \in Nat /\ log \in Seq(AllLeaves) /\ pinned.leaves \in Seq(AllLeaves)
      BY <2>1 DEF HonestInv
    <2>3. x \in AllLeaves
      BY <2>2 DEF AllLeaves
    <2> HIDE DEF x
    <2>4. /\ log' \in Seq(AllLeaves) /\ Len(log') = Len(log) + 1
          /\ \A y \in 1..Len(log) : log'[y] = log[y]
      BY <2>1, <2>2, <2>3
    <2>5. QED
      BY <2>1, <2>2, <2>4 DEF HonestInv
  <1>2. CASE Reboot
    BY <1>2 DEF Reboot, HonestInv
  <1>3. CASE Follow
    BY <1>3 DEF Follow, HonestInv, Now, View
  <1>4. CASE \/ FetchAttestation \/ FetchRoot \/ FetchConsistency
             \/ \E i \in 0..(BundleSize - 1) : FetchProof(i)
    BY <1>4, <1>0 DEF FetchAttestation, FetchRoot, FetchConsistency, FetchProof, Collect
  <1>5. CASE AuditHostile \/ \E other \in Logs : Equivocate(other)
    BY <1>5 DEF AuditHostile, Equivocate, HonestInv
  <1>6. QED
    BY <1>0, <1>1, <1>2, <1>3, <1>4, <1>5 DEF Next, vars

(* An auditor that asks the honest server for the step from a head of the   *)
(* current boot is always convinced, whatever the two sizes.                *)
THEOREM HonestServerConvinces == Spec => []ConsistencyComplete
  <1>1. HonestInv => ConsistencyComplete
    <2> SUFFICES ASSUME HonestInv, honest, pinned.boot = boot PROVE Convinced
      BY DEF ConsistencyComplete
    <2> DEFINE old == pinned.leaves
               m == Len(old)
               path == consistency_path(log, m)[1]
    <2>1. /\ log \in Seq(AllLeaves) /\ old \in Seq(AllLeaves)
          /\ Len(old) <= Len(log) /\ \A x \in 1..Len(old) : old[x] = log[x]
      BY DEF HonestInv
    <2>2. m \in Nat /\ m <= Len(log)
      BY <2>1
    <2>3. mth(old) = mth_range(log, 0, m)
      BY <2>1, MthPrefix
    <2>4. /\ consistency_path(log, m) # <<>>
          /\ verifyConsistency(m, mth_range(log, 0, m), Len(log), mth(log), path)
      BY <2>1, <2>2, ConsistencyVerifies
    <2>5. verifyConsistency(m, mth(old), Len(log), mth(log), path)
      BY <2>3, <2>4
    <2>6. Answers(pinned)
      BY <2>4 DEF Answers
    <2>7. StepFrom(pinned).path = path
      BY DEF StepFrom
    <2>8. Accepts(pinned, Now, path) <=> verifyConsistency(m, mth(old), Len(log), mth(log), path)
      BY DEF Accepts, sign_checkpoint, Now, View
    <2>9. QED
      BY <2>5, <2>6, <2>7, <2>8 DEF Convinced
  <1>2. QED
    BY <1>1, HonestInit, HonestStep, PTL DEF Spec

-----------------------------------------------------------------------------
(* Every log is made of leaves, and the honest one holds the proofs of its   *)
(* boot in the order in which they were built.                               *)

ProofsOf(b, leaves) == \A x \in 1..Len(leaves) : leaves[x] = leaf_hash(ProofOf(b, x))

LogInv ==
    /\ log \in Seq(AllLeaves) /\ pinned.leaves \in Seq(AllLeaves)
    /\ boot \in Nat
    /\ honest => ProofsOf(boot, log)

(* At the start the log holds nothing, *)
LEMMA LogInit == Init => LogInv
  BY DEF Init, LogInv, Now, View, ProofsOf

(* The logs a dishonest server may claim are sequences of leaves of some    *)
(* boots,                                                                   *)
LEMMA LiesAreLogs == \A other \in Logs : other \in Seq(AllLeaves)
  <1>1. Leaves \subseteq AllLeaves
    BY DEF Leaves, AllLeaves
  <1>2. \A m \in Nat : \A f \in [1..m -> Leaves] : f \in Seq(AllLeaves)
    BY <1>1
  <1>3. QED
    BY <1>2, SizeAssumption DEF Logs, BoundedSeq, SeqOf

(* so whatever the server does, its log is one. *)
LEMMA LogStep == LogInv /\ [Next]_vars => LogInv'
  <1> SUFFICES ASSUME LogInv, [Next]_vars PROVE LogInv'
    OBVIOUS
  <1>0. CASE UNCHANGED <<honest, boot, log, pinned>>
    BY <1>0 DEF LogInv, ProofsOf
  <1>1. CASE AppendProof
    <2> DEFINE x == leaf_hash(ProofOf(boot, Len(log) + 1))
    <2>1. /\ honest /\ log' = Append(log, x) /\ UNCHANGED <<honest, boot, pinned>>
      BY <1>1 DEF AppendProof, log_append
    <2>2. boot \in Nat /\ log \in Seq(AllLeaves) /\ ProofsOf(boot, log)
      BY <2>1 DEF LogInv
    <2>3. x \in AllLeaves
      BY <2>2 DEF AllLeaves
    <2>4. x = leaf_hash(ProofOf(boot', Len(log) + 1))
      BY <2>1
    <2> HIDE DEF x
    <2>5. /\ log' \in Seq(AllLeaves) /\ Len(log') = Len(log) + 1
          /\ log'[Len(log) + 1] = x
          /\ \A y \in 1..Len(log) : log'[y] = log[y]
      BY <2>1, <2>2, <2>3
    <2>6. ASSUME NEW y \in 1..Len(log') PROVE log'[y] = leaf_hash(ProofOf(boot', y))
      <3>1. CASE y \in 1..Len(log)
        BY <2>1, <2>2, <2>5, <3>1 DEF ProofsOf
      <3>2. CASE y = Len(log) + 1
        BY <2>4, <2>5, <3>2
      <3>3. Len(log) \in Nat
        BY <2>2
      <3>4. QED
        BY <2>5, <2>6, <3>1, <3>2, <3>3
    <2>7. QED
      BY <2>1, <2>2, <2>5, <2>6 DEF LogInv, ProofsOf
  <1>2. CASE Reboot
    BY <1>2 DEF Reboot, LogInv, ProofsOf
  <1>3. CASE Follow
    BY <1>3 DEF Follow, LogInv, Now, View, ProofsOf
  <1>4. CASE \/ FetchAttestation \/ FetchRoot \/ FetchConsistency
             \/ \E i \in 0..(BundleSize - 1) : FetchProof(i)
    BY <1>4, <1>0 DEF FetchAttestation, FetchRoot, FetchConsistency, FetchProof, Collect
  <1>5. CASE AuditHostile
    BY <1>5 DEF AuditHostile, LogInv, Now, View
  <1>6. CASE \E other \in Logs : Equivocate(other)
    BY <1>6, LiesAreLogs DEF Equivocate, LogInv
  <1>7. QED
    BY <1>0, <1>1, <1>2, <1>3, <1>4, <1>5, <1>6 DEF Next, vars

(* What the auditor accepts as a step from its view to the current head     *)
(* extends the view.                                                        *)
LEMMA AcceptsIs ==
    ASSUME LogInv, NEW U, NEW path \in Seq(U), Accepts(pinned, Now, path)
    PROVE  IsPrefix(pinned.leaves, log)
  <1> DEFINE old == pinned.leaves
  <1>1. verifyConsistency(Len(old), mth(old), Len(log), mth(log), path)
    BY DEF Accepts, sign_checkpoint, Now, View
  <1>2. log \in Seq(AllLeaves) /\ old \in Seq(AllLeaves)
    BY DEF LogInv
  <1>3. QED
    BY <1>1, <1>2, ConsistencyIsSound

(* The auditor's log is never rewritten: whatever heads and paths the server *)
(* offers, and across restarts of an honest enclave, each head that          *)
(* verifyConsistency lets the auditor accept extends the one it held.        *)
THEOREM HistoryIsNeverRewritten == Spec => AcceptedViewsExtend
  <1>1. LogInv /\ [Next]_vars => [IsPrefix(pinned.leaves, pinned'.leaves)]_pinned
    <2> SUFFICES ASSUME LogInv, [Next]_vars, pinned' # pinned
                 PROVE  IsPrefix(pinned.leaves, pinned'.leaves)
      OBVIOUS
    <2>1. CASE Follow
      <3>1. pinned' = Now /\ Convinced
        BY <2>1 DEF Follow
      <3> DEFINE m == Len(pinned.leaves)
                 path == consistency_path(log, m)[1]
      <3>2. log \in Seq(AllLeaves) /\ m \in Nat
        BY DEF LogInv
      <3>3. consistency_path(log, m) # <<>> /\ Accepts(pinned, Now, path)
        BY <3>1 DEF Convinced, Answers, StepFrom
      <3>4. path \in Seq(TreeNodes(log))
        BY <3>2, <3>3, ConsistencyIsSeq
      <3> HIDE DEF path
      <3>5. IsPrefix(pinned.leaves, log)
        BY <3>3, <3>4, AcceptsIs
      <3>6. QED
        BY <3>1, <3>5 DEF Now, View
    <2>2. CASE AuditHostile
      <3>1. PICK path \in Paths(log) : Accepts(pinned, Now, path)
        BY <2>2 DEF AuditHostile
      <3>2. path \in Seq(Nodes(log))
        <4>1. \A m \in Nat : \A f \in [1..m -> Nodes(log)] : f \in Seq(Nodes(log))
          OBVIOUS
        <4>2. QED
          BY <4>1, SizeAssumption DEF Paths, BoundedSeq, SeqOf
      <3>3. IsPrefix(pinned.leaves, log)
        BY <3>1, <3>2, AcceptsIs
      <3>4. QED
        BY <2>2, <3>3 DEF AuditHostile, Now, View
    <2>3. CASE UNCHANGED pinned
      BY <2>3
    <2>4. QED
      BY <2>1, <2>2, <2>3 DEF Next, vars, AppendProof, Reboot, FetchAttestation, FetchRoot,
                              FetchConsistency, FetchProof, Collect, Equivocate
  <1>2. QED
    BY <1>1, LogInit, LogStep, PTL DEF Spec, AcceptedViewsExtend

(* No leaf hash is a node hash. *)
LEMMA LeavesAreBare == \A leaves \in Seq(AllLeaves) : Bare(leaves, Len(leaves))
  <1>1. \A x \in AllLeaves : \A l, r : x # node_hash(l, r)
    BY DEF AllLeaves, leaf_hash, node_hash
  <1>2. QED
    BY <1>1 DEF Bare

(* No path makes verifyInclusion accept a leaf that is not at that index of  *)
(* the log behind the head.                                                  *)
THEOREM NoFalseInclusion == Spec => []InclusionSound
  <1>1. LogInv => InclusionSound
    <2> SUFFICES ASSUME LogInv, NEW leaf \in Leaves, NEW i \in 0..(Len(log) - 1),
                        NEW path \in Paths(log),
                        verifyInclusion(leaf, i, Len(log), path, mth(log))
                 PROVE  log[i + 1] = leaf
      BY DEF InclusionSound
    <2>1. log \in Seq(AllLeaves) /\ i \in Nat
      BY DEF LogInv
    <2>2. path \in Seq(Nodes(log))
      <3>1. \A m \in Nat : \A f \in [1..m -> Nodes(log)] : f \in Seq(Nodes(log))
        OBVIOUS
      <3>2. QED
        BY <3>1, SizeAssumption DEF Paths, BoundedSeq, SeqOf
    <2>3. QED
      BY <2>1, <2>2, LeavesAreBare, InclusionIsSound
  <1>2. QED
    BY <1>1, LogInit, LogStep, PTL DEF Spec

(* Two proofs with the same leaf hash are of the same boot and place. *)
LEMMA ProofsDiffer ==
    \A b, c, x, y : leaf_hash(ProofOf(b, x)) = leaf_hash(ProofOf(c, y)) => b = c /\ x = y
  BY DEF leaf_hash, ProofOf, sign_proof, build_statement

(* On an honest log the path of an entry verifies for that entry's index,    *)
(* and for no other.                                                         *)
THEOREM ReceiptsNameTheirPlace == Spec => []InclusionComplete
  <1>1. LogInv => InclusionComplete
    <2> SUFFICES ASSUME LogInv, honest, NEW i \in 0..(Len(log) - 1), NEW j \in 0..(Len(log) - 1)
                 PROVE  verifyInclusion(log[i + 1], j, Len(log), inclusion_path(log, i)[1], mth(log))
                          <=> i = j
      BY DEF InclusionComplete
    <2> DEFINE path == inclusion(log, i)
    <2>1. log \in Seq(AllLeaves) /\ i \in Nat /\ j \in Nat /\ i < Len(log) /\ j < Len(log)
          /\ Len(log) \in Nat
      BY DEF LogInv
    <2>2. inclusion_path(log, i)[1] = path
      BY <2>1 DEF inclusion_path
    <2>3. path \in Seq(TreeNodes(log))
      BY <2>1, InclusionIsSeq
    <2>4. verifyInclusion(log[i + 1], i, Len(log), path, mth(log))
      BY <2>1, InclusionVerifies
    <2> HIDE DEF path
    <2>5. ASSUME verifyInclusion(log[i + 1], j, Len(log), path, mth(log)) PROVE i = j
      <3>1. log[i + 1] = log[j + 1]
        BY <2>1, <2>3, <2>5, LeavesAreBare, InclusionIsSound
      <3>2. log[i + 1] = leaf_hash(ProofOf(boot, i + 1)) /\ log[j + 1] = leaf_hash(ProofOf(boot, j + 1))
        BY <2>1 DEF LogInv, ProofsOf
      <3>3. i + 1 = j + 1
        BY <3>1, <3>2, ProofsDiffer
      <3>4. QED
        BY <2>1, <3>3
    <2>6. QED
      BY <2>2, <2>4, <2>5
  <1>2. QED
    BY <1>1, LogInit, LogStep, PTL DEF Spec

-----------------------------------------------------------------------------
(* The parts of a bundle are answers of the honest server, each as the log   *)
(* was when it was asked for.                                                *)

HonestView(v) ==
    v = View(v.boot, v.leaves) /\ v.leaves \in Seq(AllLeaves) /\ ProofsOf(v.boot, v.leaves)

Item(v, i) ==
    [index |-> i, proof |-> EntryOf(v.leaves[i + 1]), leaf_hash |-> v.leaves[i + 1],
     audit_path |-> inclusion_path(v.leaves, i)[1], of |-> v]

StepOf(v, w) ==
    [from |-> v, to |-> w, path |-> consistency_path(w.leaves, Len(v.leaves))[1]]

CheckpointOK(part) == part = <<>> \/ \E v : HonestView(v) /\ part = <<v>>

InclusionOK(part) ==
    part = <<>> \/ \E v : \E i \in Nat : HonestView(v) /\ i < Len(v.leaves) /\ part = <<Item(v, i)>>

StepOK(part) ==
    \/ part = <<>>
    \/ \E v, w : /\ HonestView(v) /\ HonestView(w)
                 /\ consistency_path(w.leaves, Len(v.leaves)) # <<>>
                 /\ part = <<StepOf(v, w)>>

Parts4(a, c, i, t) == [attestation |-> a, checkpoint |-> c, inclusion |-> i, step |-> t]

BundleOK(b) ==
    /\ b = Parts4(b.attestation, b.checkpoint, b.inclusion, b.step)
    /\ CheckpointOK(b.checkpoint) /\ InclusionOK(b.inclusion) /\ StepOK(b.step)

BundleInv ==
    /\ honest => HonestView(pinned) /\ HonestView(Now)
    /\ BundleOK(bundle)

(* An empty bundle holds nothing false, *)
LEMMA BundleInit == Init => BundleInv
  <1> SUFFICES ASSUME Init PROVE BundleInv
    OBVIOUS
  <1>1. HonestView(Now)
    BY DEF Init, HonestView, Now, View, ProofsOf
  <1>2. BundleOK(bundle)
    BY DEF Init, BundleOK, EmptyBundle, CheckpointOK, InclusionOK, StepOK, Parts4
  <1>3. QED
    BY <1>1, <1>2 DEF Init, BundleInv

(* and each part fetched comes from a view the server had. *)
LEMMA BundleStep == LogInv /\ LogInv' /\ BundleInv /\ [Next]_vars => BundleInv'
  <1> SUFFICES ASSUME LogInv, LogInv', BundleInv, [Next]_vars PROVE BundleInv'
    OBVIOUS
  <1>1. honest' => HonestView(Now)'
    BY DEF LogInv, HonestView, Now, View
  <1>2. honest' => HonestView(pinned)'
    <2>1. honest' = honest
      BY DEF Next, vars, AppendProof, Reboot, Follow, FetchAttestation, FetchRoot,
             FetchConsistency, FetchProof, Collect, Equivocate, AuditHostile
    <2>2. honest => pinned' \in {pinned, Now}
      BY DEF Next, vars, AppendProof, Reboot, Follow, FetchAttestation, FetchRoot,
             FetchConsistency, FetchProof, Collect, Equivocate, AuditHostile
    <2>3. honest => HonestView(pinned) /\ HonestView(Now)
      BY DEF BundleInv
    <2>4. ASSUME honest PROVE HonestView(pinned')
      BY <2>2, <2>3, <2>4
    <2>5. QED
      BY <2>1, <2>4
  <1>3. BundleOK(bundle)
    BY DEF BundleInv
  <1> DEFINE b == bundle
  <1>4. b = Parts4(b.attestation, b.checkpoint, b.inclusion, b.step)
    BY <1>3 DEF BundleOK
  <1>5. CheckpointOK(b.checkpoint) /\ InclusionOK(b.inclusion) /\ StepOK(b.step)
    BY <1>3 DEF BundleOK
  <1>6. BundleOK(bundle')
    <2>1. CASE UNCHANGED bundle
      BY <1>3, <2>1
    <2>2. CASE FetchAttestation
      <3>1. b' = Parts4(boot, b.checkpoint, b.inclusion, b.step)
        BY <1>4, <2>2 DEF FetchAttestation, Collect, Parts4
      <3>2. QED
        BY <1>5, <3>1 DEF BundleOK, Parts4
    <2>3. CASE FetchRoot
      <3>1. b' = Parts4(b.attestation, <<Now>>, b.inclusion, b.step)
        BY <1>4, <2>3 DEF FetchRoot, Collect, Parts4
      <3>2. HonestView(Now)
        BY <2>3 DEF FetchRoot, Collect, BundleInv
      <3>3. CheckpointOK(<<Now>>)
        BY <3>2 DEF CheckpointOK
      <3>4. QED
        BY <1>5, <3>1, <3>3 DEF BundleOK, Parts4
    <2>4. CASE FetchConsistency
      <3>1. b' = Parts4(b.attestation, b.checkpoint, b.inclusion, <<StepFrom(pinned)>>)
        BY <1>4, <2>4 DEF FetchConsistency, Collect, Parts4
      <3>2. HonestView(pinned) /\ HonestView(Now) /\ Answers(pinned)
        BY <2>4 DEF FetchConsistency, Collect, BundleInv
      <3>3. StepFrom(pinned) = StepOf(pinned, Now) /\ Now.leaves = log
        BY DEF StepFrom, StepOf, Now, View
      <3>4. StepOK(<<StepFrom(pinned)>>)
        BY <3>2, <3>3 DEF StepOK, Answers
      <3>5. QED
        BY <1>5, <3>1, <3>4 DEF BundleOK, Parts4
    <2>5. ASSUME NEW i \in 0..(BundleSize - 1), FetchProof(i) PROVE BundleOK(bundle')
      <3> DEFINE item == [index |-> i, proof |-> EntryOf(log[i + 1]), leaf_hash |-> log[i + 1],
                          audit_path |-> inclusion_path(log, i)[1], of |-> Now]
      <3>1. b' = Parts4(b.attestation, b.checkpoint, <<item>>, b.step)
        BY <1>4, <2>5 DEF FetchProof, Collect, Parts4
      <3>2. HonestView(Now) /\ i < Len(log) /\ i \in Nat
        BY <2>5, SizeAssumption DEF FetchProof, Collect, BundleInv
      <3>3. item = Item(Now, i) /\ Now.leaves = log
        BY DEF Item, Now, View
      <3> HIDE DEF item
      <3>4. InclusionOK(<<item>>)
        BY <3>2, <3>3 DEF InclusionOK
      <3>5. QED
        BY <1>5, <3>1, <3>4 DEF BundleOK, Parts4
    <2>6. QED
      BY <2>1, <2>2, <2>3, <2>4, <2>5
         DEF Next, vars, AppendProof, Reboot, Follow, AuditHostile, Equivocate
  <1>7. QED
    BY <1>1, <1>2, <1>6 DEF BundleInv

(* The checks of a proof that the honest enclave signed. *)
LEMMA StatementsPass ==
    ASSUME NEW b, NEW n \in Nat
    PROVE  LET proof == ProofOf(b, n)
           IN  /\ proof.signer = b
               /\ check_statement_invariants(proof.statement)
               /\ check_policy(proof)
               /\ proof.statement.channel_public_key = b
               /\ proof.statement.proof_verifier_key = b
  <1> DEFINE proof == ProofOf(b, n)
             stmt == build_statement(b, n)
  <1>1. proof.signer = b /\ proof.statement = stmt
    BY DEF ProofOf, sign_proof
  <1>2. stmt.channel_public_key = b /\ stmt.proof_verifier_key = b
    BY DEF build_statement
  <1>3. CASE n % 2 = 1
    <2>1. /\ stmt.success = TRUE /\ stmt.allow = TRUE /\ stmt.input_buffer_wiped = TRUE
          /\ stmt.response_buffer_wiped = FALSE /\ stmt.response_buffer_returned = TRUE
          /\ stmt.retention_policy = <<"returned-only">> /\ stmt.result_hash = <<n>>
      BY <1>3 DEF build_statement
    <2> HIDE DEF stmt
    <2>2. check_statement_invariants(stmt) /\ (stmt.success <=> stmt.allow)
      BY <2>1 DEF check_statement_invariants
    <2>3. QED
      BY <1>1, <1>2, <2>2 DEF check_policy
  <1>4. CASE n % 2 # 1
    <2>1. /\ stmt.success = FALSE /\ stmt.allow = FALSE
          /\ stmt.result_hash = <<>> /\ stmt.error_code = <<"policy_denied">>
      BY <1>4 DEF build_statement
    <2> HIDE DEF stmt
    <2>2. check_statement_invariants(stmt) /\ (stmt.success <=> stmt.allow)
      BY <2>1 DEF check_statement_invariants
    <2>3. QED
      BY <1>1, <1>2, <2>2 DEF check_policy
  <1>5. QED
    BY <1>3, <1>4

(* What verify-bundle asks of one inclusion, the checkpoint being that of c. *)
ItemPasses(item, key, attestation, checkpoint) ==
    /\ check_proof_signature(item.proof, key)
    /\ check_statement_invariants(item.proof.statement)
    /\ check_policy(item.proof)
    /\ check_attestation_binding(attestation, item.proof, key)
    /\ item.leaf_hash = leaf_hash(item.proof)
    /\ verifyInclusion(leaf_hash(item.proof), item.index, checkpoint.size,
                       item.audit_path, checkpoint.root)

Attested(key) == [channel_public_key |-> key, proof_verifier_key |-> key]

(* An inclusion of an honest server passes exactly against the checkpoint of *)
(* the view it was taken from.                                              *)
LEMMA ItemExact ==
    ASSUME NEW c, HonestView(c), NEW v, HonestView(v), NEW i \in Nat, i < Len(v.leaves)
    PROVE  ItemPasses(Item(v, i), c.boot, Attested(c.boot), sign_checkpoint(c)) <=> v = c
  <1> DEFINE item == Item(v, i)
             key == c.boot
             own == ProofOf(v.boot, i + 1)
             path == inclusion(v.leaves, i)
             checkpoint == sign_checkpoint(c)
  <1>1. /\ v = View(v.boot, v.leaves) /\ v.leaves \in Seq(AllLeaves) /\ ProofsOf(v.boot, v.leaves)
        /\ c = View(c.boot, c.leaves) /\ c.leaves \in Seq(AllLeaves) /\ ProofsOf(c.boot, c.leaves)
    BY DEF HonestView
  <1>2. i + 1 \in 1..Len(v.leaves) /\ i + 1 \in Nat /\ Len(v.leaves) \in Nat /\ Len(c.leaves) \in Nat
    BY <1>1
  <1>3. v.leaves[i + 1] = leaf_hash(own)
    BY <1>1, <1>2 DEF ProofsOf
  <1>4. /\ item.proof = own /\ item.leaf_hash = leaf_hash(own) /\ item.index = i
        /\ item.audit_path = path
    <2>1. EntryOf(leaf_hash(own)) = own
      BY DEF EntryOf, leaf_hash
    <2>2. inclusion_path(v.leaves, i)[1] = path
      BY <1>2 DEF inclusion_path
    <2>3. QED
      BY <1>3, <2>1, <2>2 DEF Item
  <1>5. /\ own.signer = v.boot /\ check_statement_invariants(own.statement) /\ check_policy(own)
        /\ own.statement.channel_public_key = v.boot /\ own.statement.proof_verifier_key = v.boot
    BY <1>2, StatementsPass
  <1>6. checkpoint.size = Len(c.leaves) /\ checkpoint.root = mth(c.leaves)
    BY DEF sign_checkpoint
  <1> HIDE DEF item, own, path, checkpoint
  <1>7. ASSUME v = c PROVE ItemPasses(item, key, Attested(key), checkpoint)
    <2>1. verifyInclusion(leaf_hash(own), i, checkpoint.size, path, checkpoint.root)
      BY <1>1, <1>3, <1>6, <1>7, InclusionVerifies DEF path
    <2>2. check_proof_signature(own, key)
      BY <1>5, <1>7 DEF check_proof_signature, SignedBy
    <2>3. check_attestation_binding(Attested(key), own, key)
      BY <1>5, <1>7 DEF check_attestation_binding, Attested
    <2>4. QED
      BY <1>4, <1>5, <2>1, <2>2, <2>3 DEF ItemPasses
  <1>8. ASSUME ItemPasses(item, key, Attested(key), checkpoint) PROVE v = c
    <2>1. v.boot = c.boot
      BY <1>4, <1>5, <1>8 DEF ItemPasses, check_proof_signature, SignedBy
    <2>2. verifyInclusion(leaf_hash(own), i, Len(c.leaves), path, mth(c.leaves))
      BY <1>4, <1>6, <1>8 DEF ItemPasses
    <2>3. Aligned(v.leaves, Len(v.leaves), c.leaves, Len(c.leaves))
      <3> SUFFICES ASSUME NEW x \in 1..Len(v.leaves), NEW y \in 1..Len(c.leaves),
                          v.leaves[x] = c.leaves[y]
                   PROVE  x = y
        BY DEF Aligned
      <3>1. leaf_hash(ProofOf(v.boot, x)) = leaf_hash(ProofOf(c.boot, y))
        BY <1>1 DEF ProofsOf
      <3>2. QED
        BY <3>1, ProofsDiffer
    <2>4. Len(v.leaves) = Len(c.leaves)
      <3> DEFINE old == v.leaves
                 new == c.leaves
      <3>1. old \in Seq(AllLeaves) /\ new \in Seq(AllLeaves)
        BY <1>1
      <3>2. Bare(old, Len(old)) /\ Bare(new, Len(new))
        BY <3>1, LeavesAreBare
      <3>3. i < Len(old) /\ Aligned(old, Len(old), new, Len(new))
        BY <2>3
      <3>4. verifyInclusion(leaf_hash(own), i, Len(new), inclusion(old, i), mth(new))
        BY <2>2 DEF path
      <3> HIDE DEF old, new
      <3>5. Len(old) = Len(new)
        BY <3>1, <3>2, <3>3, <3>4, InclusionNamesSize
      <3>6. QED
        BY <3>5 DEF old, new
    <2>5. \A x \in 1..Len(v.leaves) : v.leaves[x] = c.leaves[x]
      BY <1>1, <2>1, <2>4 DEF ProofsOf
    <2>6. v.leaves = c.leaves
      BY <1>1, <2>4, <2>5
    <2>7. QED
      BY <1>1, <2>1, <2>6
  <1>9. QED
    BY <1>7, <1>8 DEF item, checkpoint

StepPasses(from, to, path) ==
    verifyConsistency(from.size, from.root, to.size, to.root, path)

(* A consistency step of an honest server passes exactly when one log extends *)
(* the other.                                                               *)
LEMMA StepExact ==
    ASSUME NEW v, HonestView(v), NEW w, HonestView(w),
           consistency_path(w.leaves, Len(v.leaves)) # <<>>
    PROVE  StepPasses(sign_checkpoint(v), sign_checkpoint(w), StepOf(v, w).path)
             <=> IsPrefix(v.leaves, w.leaves)
  <1> DEFINE old == v.leaves
             new == w.leaves
             m == Len(old)
             path == consistency_path(new, m)[1]
  <1>1. old \in Seq(AllLeaves) /\ new \in Seq(AllLeaves) /\ m \in Nat /\ Len(new) \in Nat
    BY DEF HonestView
  <1>2. StepPasses(sign_checkpoint(v), sign_checkpoint(w), StepOf(v, w).path)
          <=> verifyConsistency(m, mth(old), Len(new), mth(new), path)
    BY DEF StepPasses, sign_checkpoint, StepOf
  <1>3. path \in Seq(TreeNodes(new))
    BY <1>1, ConsistencyIsSeq
  <1> HIDE DEF path, old, new
  <1>4. ASSUME verifyConsistency(m, mth(old), Len(new), mth(new), path) PROVE IsPrefix(old, new)
    BY <1>1, <1>3, <1>4, ConsistencyIsSound
  <1>5. ASSUME IsPrefix(old, new) PROVE verifyConsistency(m, mth(old), Len(new), mth(new), path)
    <2>1. m <= Len(new) /\ SubSeq(old, 1, m) = SubSeq(new, 1, m)
      BY <1>5 DEF IsPrefix
    <2>2. \A x \in 1..m : SubSeq(old, 1, m)[x] = old[x] /\ SubSeq(new, 1, m)[x] = new[x]
      BY <1>1, <2>1
    <2>3. \A x \in 1..m : old[x] = new[x]
      BY <2>1, <2>2
    <2>4. mth(old) = mth_range(new, 0, m)
      BY <1>1, <2>1, <2>3, MthPrefix
    <2>5. verifyConsistency(m, mth_range(new, 0, m), Len(new), mth(new), path)
      BY <1>1, <2>1, ConsistencyVerifies DEF path
    <2>6. QED
      BY <2>4, <2>5
  <1>6. QED
    BY <1>2, <1>4, <1>5 DEF old, new

(* The elements of the sequences that stand for options. *)
LEMMA ToSetIs == ToSet(<<>>) = {} /\ \A x : ToSet(<<x>>) = {x}
  BY DEF ToSet

(* verify-bundle accepts exactly the bundles whose parts belong together: an *)
(* attestation and a checkpoint of one boot, an inclusion fetched from the   *)
(* very log behind that checkpoint, and a step that only appends, whatever   *)
(* the log grew or the enclave restarted between the requests.               *)
THEOREM BundlesAreExact == Spec => []BundleExact
  <1>1. BundleInv => BundleExact
    <2> SUFFICES ASSUME BundleInv, Complete
                 PROVE  cmd_verify_bundle(Bundle) <=>
                          /\ bundle.attestation = bundle.checkpoint[1].boot
                          /\ \A item \in ToSet(bundle.inclusion) : item.of = bundle.checkpoint[1]
                          /\ \A t \in ToSet(bundle.step) : IsPrefix(t.from.leaves, t.to.leaves)
      BY DEF BundleExact
    <2> DEFINE key == bundle.attestation
               items == ToSet(bundle.inclusion)
               steps == ToSet(bundle.step)
    <2>1. PICK c : HonestView(c) /\ bundle.checkpoint = <<c>>
      BY DEF BundleInv, BundleOK, CheckpointOK, Complete
    <2> DEFINE checkpoint == sign_checkpoint(c)
               tree == {[from |-> sign_checkpoint(t.from), to |-> sign_checkpoint(t.to),
                         path |-> t.path] : t \in steps}
    <2>2. bundle.checkpoint[1] = c
      BY <2>1
    <2>3. /\ Bundle.key = key /\ Bundle.attestation = Attested(key)
          /\ Bundle.checkpoint = checkpoint /\ Bundle.inclusions = items
          /\ Bundle.consistency = tree
      BY <2>2 DEF Bundle, Attested
    <2>4. checkpoint.signer = c.boot
      BY DEF sign_checkpoint
    <2> HIDE DEF items, steps, key, checkpoint
    <2>5. cmd_verify_bundle(Bundle) <=>
             /\ checkpoint.signer = key
             /\ \A item \in items : ItemPasses(item, key, Attested(key), checkpoint)
             /\ \A t \in tree : StepPasses(t.from, t.to, t.path)
      <3> DEFINE b == Bundle
      <3> HIDE DEF b, tree
      <3>1. /\ b.key = key /\ b.attestation = Attested(key) /\ b.checkpoint = checkpoint
            /\ b.inclusions = items /\ b.consistency = tree
        BY <2>3 DEF b
      <3>2. QED
        BY <3>1 DEF cmd_verify_bundle, cmd_verify_inclusion, cmd_verify_consistency,
                    check_checkpoint_signature, SignedBy, ItemPasses, StepPasses, b
    <2>6. ASSUME key = c.boot, NEW item \in items
          PROVE  ItemPasses(item, key, Attested(key), checkpoint) <=> item.of = c
      <3>0. bundle.inclusion # <<>>
        BY <2>6, ToSetIs DEF items
      <3>a. PICK v : \E i \in Nat :
                HonestView(v) /\ i < Len(v.leaves) /\ bundle.inclusion = <<Item(v, i)>>
        BY <3>0 DEF BundleInv, BundleOK, InclusionOK
      <3>1. PICK i \in Nat : HonestView(v) /\ i < Len(v.leaves) /\ bundle.inclusion = <<Item(v, i)>>
        BY <3>a
      <3>2. item = Item(v, i)
        BY <2>6, <3>1, ToSetIs DEF items
      <3>3. item.of = v
        BY <3>2 DEF Item
      <3>4. ItemPasses(Item(v, i), c.boot, Attested(c.boot), sign_checkpoint(c)) <=> v = c
        BY <2>1, <3>1, ItemExact
      <3>5. QED
        BY <2>6, <3>2, <3>3, <3>4 DEF checkpoint
    <2>7. ASSUME NEW t \in steps
          PROVE  StepPasses(sign_checkpoint(t.from), sign_checkpoint(t.to), t.path)
                   <=> IsPrefix(t.from.leaves, t.to.leaves)
      <3>1. PICK v, w : /\ HonestView(v) /\ HonestView(w)
                        /\ consistency_path(w.leaves, Len(v.leaves)) # <<>>
                        /\ bundle.step = <<StepOf(v, w)>>
        BY <2>7, ToSetIs DEF BundleInv, BundleOK, StepOK, steps
      <3>2. t = StepOf(v, w)
        BY <2>7, <3>1, ToSetIs DEF steps
      <3>3. t.from = v /\ t.to = w
        BY <3>2 DEF StepOf
      <3>4. QED
        BY <3>1, <3>2, <3>3, StepExact
    <2>8. (\A t \in tree : StepPasses(t.from, t.to, t.path))
             <=> \A t \in steps : StepPasses(sign_checkpoint(t.from), sign_checkpoint(t.to), t.path)
      <3> DEFINE Signed(t) == [from |-> sign_checkpoint(t.from), to |-> sign_checkpoint(t.to),
                               path |-> t.path]
      <3>1. ASSUME NEW t
            PROVE  /\ Signed(t).from = sign_checkpoint(t.from)
                   /\ Signed(t).to = sign_checkpoint(t.to) /\ Signed(t).path = t.path
        OBVIOUS
      <3>2. tree = {Signed(t) : t \in steps}
        OBVIOUS
      <3> HIDE DEF tree, Signed
      <3>3. QED
        BY <3>1, <3>2
    <2> HIDE DEF tree
    <2>9. (\A t \in tree : StepPasses(t.from, t.to, t.path))
             <=> \A t \in steps : IsPrefix(t.from.leaves, t.to.leaves)
      BY <2>7, <2>8
    <2>10. QED
      BY <2>2, <2>4, <2>5, <2>6, <2>9 DEF key, items, steps
  <1>2. LogInv /\ BundleInv /\ [Next]_vars => LogInv' /\ BundleInv'
    BY LogStep, BundleStep
  <1>3. QED
    BY <1>1, <1>2, LogInit, BundleInit, PTL DEF Spec
=============================================================================
