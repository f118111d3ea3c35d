----------------------------- MODULE LogAuditor -----------------------------
(***************************************************************************)
(* What the transparency log is for: an auditor who only ever sees tree    *)
(* heads, signed proofs and Merkle paths, against the host that serves the *)
(* log.  The auditor follows the log from head to head (SDK                *)
(* verifyConsistency), and puts together audit bundles for                 *)
(* tools/pzdr_verify.py verify-bundle, one request at a time, while the    *)
(* log grows and the enclave may restart between two requests.             *)
(*                                                                         *)
(* A view is a log at some moment, [boot, leaves].  The auditor keeps only *)
(* its checkpoint (size, root and signature): every check below reads      *)
(* nothing else of a view.                                                 *)
(***************************************************************************)
EXTENDS ProofVerifier, FiniteSets

CONSTANTS
    MaxBoots,    \* bound on the boots of an honest enclave
    MaxSize,     \* bound on the log an auditor follows
    BundleSize,  \* bound on the log once a bundle is being collected
    LieSize,     \* bound on the logs a dishonest server presents
    MaxPath      \* bound on the length of a path a dishonest server offers

ASSUME SizeAssumption ==
    /\ MaxBoots \in Nat \ {0} /\ MaxPath \in Nat
    /\ MaxSize \in Nat /\ BundleSize \in Nat /\ LieSize \in Nat

VARIABLES
    honest,  \* the server is the enclave itself
    boot,    \* which boot it is in; names its keys
    log,     \* the leaves it holds now
    pinned,  \* the view whose head the auditor accepted last
    bundle   \* what has been collected: the boot of the attestation (0: none),
             \* the checkpoint, an inclusion and a step, each with its views

vars == <<honest, boot, log, pinned, bundle>>

View(b, leaves) == [boot |-> b, leaves |-> leaves]

Now == View(boot, log)

EmptyBundle == [attestation |-> 0, checkpoint |-> <<>>, inclusion |-> <<>>, step |-> <<>>]

Init ==
    /\ honest \in BOOLEAN
    /\ boot = 1
    /\ log = <<>>
    /\ pinned = Now
    /\ bundle = EmptyBundle

-----------------------------------------------------------------------------
(* The n-th proof of a boot: a success when n is odd, else a denial.        *)
build_statement(b, n) ==
    LET success == n % 2 = 1
    IN  [counter |-> n, channel_public_key |-> b, proof_verifier_key |-> b,
         success |-> success, allow |-> success,
         error_code |-> IF success THEN <<>> ELSE <<"policy_denied">>,
         input_buffer_wiped |-> TRUE, response_buffer_wiped |-> FALSE,
         response_buffer_returned |-> success,
         result_hash |-> IF success THEN <<n>> ELSE <<>>,
         retention_policy |-> IF success THEN <<"returned-only">> ELSE <<>>]

sign_proof(b, statement) == [statement |-> statement, signer |-> b]

ProofOf(b, n) == sign_proof(b, build_statement(b, n))

sign_checkpoint(view) ==
    [size |-> Len(view.leaves), root |-> mth(view.leaves), signer |-> view.boot]

Collecting == boot > 1 \/ bundle # EmptyBundle

(* The honest server logs a session. *)
AppendProof ==
    /\ honest
    /\ Len(log) < IF Collecting THEN BundleSize ELSE MaxSize
    /\ log' = log_append(log, ProofOf(boot, Len(log) + 1))
    /\ UNCHANGED <<honest, boot, pinned, bundle>>

(* New keys, empty log. *)
Reboot ==
    /\ honest
    /\ boot < MaxBoots /\ Len(log) <= BundleSize
    /\ boot' = boot + 1
    /\ log' = <<>>
    /\ UNCHANGED <<honest, pinned, bundle>>

(* GET /v1/ledger/consistency/{size of the head held}: a step from that     *)
(* head to the current one.  None: the log is shorter, the answer is 400.   *)
StepFrom(view) ==
    [from |-> view, to |-> Now, path |-> consistency_path(log, Len(view.leaves))[1]]

Answers(view) == consistency_path(log, Len(view.leaves)) # <<>>

(* What the auditor checks of a step, its own head being the one it pinned. *)
(* An empty path where one is needed is a rejection here, as in the SDK;    *)
(* the command line ends with an IndexError, which accepts nothing either.  *)
Accepts(from, to, path) ==
    LET a == sign_checkpoint(from)  b == sign_checkpoint(to)
    IN  verifyConsistency(a.size, a.root, b.size, b.root, path)

(* The auditor asks for the step to the current head and moves if it is     *)
(* answered and convinced.                                                  *)
Convinced == Answers(pinned) /\ Accepts(pinned, Now, StepFrom(pinned).path)

Follow ==
    /\ honest
    /\ pinned' = IF Convinced THEN Now ELSE pinned
    /\ UNCHANGED <<honest, boot, log, bundle>>

-----------------------------------------------------------------------------
(* Collecting a bundle, one request per part. *)

Collect(field, part) ==
    /\ honest
    /\ Len(log) <= BundleSize
    /\ bundle[field] = EmptyBundle[field]
    /\ bundle' = [bundle EXCEPT ![field] = part]
    /\ UNCHANGED <<honest, boot, log, pinned>>

FetchAttestation == Collect("attestation", boot)

FetchRoot == Collect("checkpoint", <<Now>>)

(* The signed proof came with the answer to a session; its path in the log  *)
(* as it is now is fetched.                                                 *)
FetchProof(i) ==
    /\ i < Len(log)
    /\ Collect("inclusion", << [index |-> i, proof |-> EntryOf(log[i + 1]),
                                leaf_hash |-> log[i + 1],
                                audit_path |-> inclusion_path(log, i)[1], of |-> Now] >>)

FetchConsistency == Answers(pinned) /\ Collect("step", <<StepFrom(pinned)>>)

(* The bundle as pzdr_gen_vectors.py lays it out. *)
Bundle ==
    [key |-> bundle.attestation,
     attestation |-> [channel_public_key |-> bundle.attestation,
                      proof_verifier_key |-> bundle.attestation],
     checkpoint |-> sign_checkpoint(bundle.checkpoint[1]),
     inclusions |-> ToSet(bundle.inclusion),
     consistency |-> {[from |-> sign_checkpoint(t.from), to |-> sign_checkpoint(t.to),
                       path |-> t.path] : t \in ToSet(bundle.step)}]

Complete == bundle.attestation # 0 /\ bundle.checkpoint # <<>>

-----------------------------------------------------------------------------
(* A dishonest server. *)

Leaves == {leaf_hash(ProofOf(1, n)) : n \in {1, 2}}

Logs == BoundedSeq(Leaves, LieSize)

(* Every hash that occurs inside the tree over a log.  A verifier that      *)
(* accepts has rebuilt the root from its path, so a path with any other     *)
(* hash in it is rejected and need not be tried.                            *)
Nodes(leaves) ==
    {mth_range(leaves, r[1], r[2]) :
        r \in {x \in (0..Len(leaves)) \X (1..Len(leaves)) : x[1] + x[2] <= Len(leaves)}}

Paths(leaves) == BoundedSeq(Nodes(leaves), MaxPath)

(* It presents another log. *)
Equivocate(other) ==
    /\ ~honest
    /\ other # log
    /\ log' = other
    /\ UNCHANGED <<honest, boot, pinned, bundle>>

(* ... and any path it likes with its head. *)
AuditHostile ==
    /\ ~honest
    /\ pinned # Now
    /\ \E path \in Paths(log) : Accepts(pinned, Now, path)
    /\ pinned' = Now
    /\ UNCHANGED <<honest, boot, log, bundle>>

Next ==
    \/ AppendProof \/ Reboot \/ Follow
    \/ FetchAttestation \/ FetchRoot \/ FetchConsistency
    \/ \E i \in 0..(BundleSize - 1) : FetchProof(i)
    \/ AuditHostile \/ \E other \in Logs : Equivocate(other)

Spec == Init /\ [][Next]_vars

-----------------------------------------------------------------------------
(* An auditor who asks an honest server for the step from a head of its     *)
(* current boot to the current one is always convinced: consistency_path    *)
(* and verifyConsistency agree on every pair of sizes, unbalanced trees     *)
(* included.                                                                *)
ConsistencyComplete ==
    honest /\ pinned.boot = boot => Convinced

(* inclusion_path of every index verifies under the current head, and the   *)
(* path of one index never verifies for another: a receipt names its place  *)
(* in the log.                                                              *)
InclusionComplete ==
    honest => \A i, j \in 0..(Len(log) - 1) :
        verifyInclusion(log[i + 1], j, Len(log), inclusion_path(log, i)[1], mth(log))
            <=> i = j

(* Whatever heads and paths a server offers, the log an auditor follows is  *)
(* never rewritten: each head it accepts extends the one it held.  Of an    *)
(* honest enclave it says that a restart is noticed: no head of a new boot  *)
(* is accepted after a non-empty one of an old boot.                        *)
AcceptedViewsExtend == [][IsPrefix(pinned.leaves, pinned'.leaves)]_pinned

(* No path makes verifyInclusion accept a leaf that is not at that index of *)
(* the log behind the head.                                                 *)
InclusionSound ==
    ~honest => \A leaf \in Leaves, i \in 0..(Len(log) - 1), path \in Paths(log) :
        verifyInclusion(leaf, i, Len(log), path, mth(log)) => log[i + 1] = leaf

(* verify-bundle accepts exactly the bundles whose parts fit together,      *)
(* although the log grew or the enclave restarted between two requests:     *)
(* attestation and checkpoint of one boot, the inclusion fetched from the   *)
(* log behind that checkpoint, and a step that only appends.                *)
BundleExact ==
    Complete =>
        LET checkpoint == bundle.checkpoint[1]
        IN  cmd_verify_bundle(Bundle) <=>
                /\ bundle.attestation = checkpoint.boot
                /\ \A item \in ToSet(bundle.inclusion) : item.of = checkpoint
                /\ \A t \in ToSet(bundle.step) : IsPrefix(t.from.leaves, t.to.leaves)

(* "Given two signed checkpoints, anyone confirms the newer tree is a pure  *)
(* extension of the older one ... all six are checked by verify-bundle":    *)
(* in an accepted bundle, a step leads between heads of the attested boot.  *)
(* cmd_verify_consistency checks no signature and does not tie a step to    *)
(* the bundle's checkpoint.                                                 *)
StepsAreAttested ==
    Complete /\ cmd_verify_bundle(Bundle) =>
        \A t \in ToSet(bundle.step) :
            t.from.leaves # <<>> => t.to.boot = bundle.attestation
=============================================================================
