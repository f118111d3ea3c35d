--------------------------- MODULE ProofVerifier ---------------------------
(***************************************************************************)
(* What a relying party checks about a proof and its receipt: the auditor's*)
(* checks of tools/pzdr_verify.py and PZDRClient.verifyReceipt of          *)
(* sdk/typescript/client.ts.                                               *)
(*                                                                         *)
(* An enclave boot draws one channel key and one proof key; both are       *)
(* named by the number of the boot.  A signature is the name of the key    *)
(* that made it over the value it travels with: it verifies exactly under  *)
(* that key.  An optional field is <<>> or <<value>>.                      *)
(***************************************************************************)
EXTENDS MerkleTree

(* Ed25519 verification of a proof or a checkpoint under a proof key. *)
SignedBy(signed, key) == signed.signer = key

check_proof_signature(proof, key) == SignedBy(proof, key)

check_checkpoint_signature(checkpoint, key) == SignedBy(checkpoint, key)

(* check_statement_invariants(stmt) = [] *)
check_statement_invariants(stmt) ==
    IF stmt.success
    THEN /\ stmt.input_buffer_wiped
         /\ IF stmt.retention_policy = <<"returned-only">>
            THEN ~stmt.response_buffer_wiped /\ stmt.response_buffer_returned
            ELSE stmt.response_buffer_wiped
         /\ stmt.result_hash # <<>>
         /\ stmt.allow
    ELSE /\ stmt.result_hash = <<>>
         /\ stmt.error_code # <<>>

(* check_policy(proof, policy) = [], the hash of the pinned policy aside:   *)
(* every proof carries the hash of the one policy document of the image.    *)
check_policy(proof) == proof.statement.success <=> proof.statement.allow

(* check_attestation_binding(att, proof, expected_pcr0, key) = []: the      *)
(* channel key and the proof key named in the statement are the attested    *)
(* ones.  The measurement is a build-time constant of the image.            *)
check_attestation_binding(attestation, proof, key) ==
    /\ proof.statement.channel_public_key = attestation.channel_public_key
    /\ attestation.proof_verifier_key = key
    /\ proof.statement.proof_verifier_key = key

verifyReceipt(proof, receipt, key) ==
    /\ check_proof_signature(proof, key)
    /\ check_checkpoint_signature(receipt.checkpoint, key)
    /\ receipt.leaf_hash = leaf_hash(proof)
    /\ verifyInclusion(leaf_hash(proof), receipt.index, receipt.checkpoint.size,
                       receipt.audit_path, receipt.checkpoint.root)
-----------------------------------------------------------------------------
(* An audit bundle, format pzdr-audit-bundle/v1: the key, the attestation,  *)
(* one signed checkpoint, inclusions (signed proofs with their paths) and   *)
(* consistency (steps between two heads, with their paths).                 *)

(* cmd_verify_inclusion: everything is measured against the one checkpoint. *)
cmd_verify_inclusion(bundle) ==
    /\ check_checkpoint_signature(bundle.checkpoint, bundle.key)
    /\ \A item \in bundle.inclusions :
          /\ item.leaf_hash = leaf_hash(item.proof)
          /\ verifyInclusion(leaf_hash(item.proof), item.index, bundle.checkpoint.size,
                             item.audit_path, bundle.checkpoint.root)
          /\ check_proof_signature(item.proof, bundle.key)

(* Mutant: steps are taken as given. *)
cmd_verify_consistency_skipped(bundle) == TRUE

(* cmd_verify_consistency: each step for itself; neither head needs to be    *)
(* signed, or to be the bundle's checkpoint.                                *)
cmd_verify_consistency(bundle) ==
    \A t \in bundle.consistency :
        verifyConsistency(t.from.size, t.from.root, t.to.size, t.to.root, t.path)

cmd_verify_bundle(bundle) ==
    /\ \A item \in bundle.inclusions :
          /\ check_proof_signature(item.proof, bundle.key)
          /\ check_statement_invariants(item.proof.statement)
          /\ check_policy(item.proof)
          /\ check_attestation_binding(bundle.attestation, item.proof, bundle.key)
    /\ cmd_verify_inclusion(bundle)
    /\ cmd_verify_consistency(bundle)
=============================================================================
