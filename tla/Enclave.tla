------------------------------- MODULE Enclave -------------------------------
(***************************************************************************)
(* The enclave program, services/pzdr-enclave/src/main.rs: connections     *)
(* handled by concurrent tasks over one EnclaveState (a channel key, a     *)
(* proof key, an atomic counter and a mutex-protected transparency log),   *)
(* all of it in memory and all of it lost with the process.                *)
(*                                                                         *)
(* A task's steps are its own between two accesses to the shared state, so *)
(* the model keeps apart what other tasks can see between: taking a        *)
(* counter value (fetch_add, no lock), appending under the ledger lock,    *)
(* and writing the response.  A critical section contains no await and is  *)
(* one step.                                                               *)
(***************************************************************************)
EXTENDS Policy, ProofVerifier

CONSTANTS
    Slots,      \* connection tasks that can be alive at once
    Bodies,     \* inference request bodies clients may send
    MaxEpoch,   \* bound on the number of boots
    MaxProofs   \* bound on the proofs signed in one boot

ASSUME BoundsAssumption == MaxEpoch \in Nat \ {0} /\ MaxProofs \in Nat

VARIABLES
    up,         \* the process is running
    epoch,      \* which boot this is; names both keys drawn by EnclaveState::new
    counter,    \* EnclaveState.counter
    ledger,     \* ledger[epoch] is EnclaveState.ledger; ledger[e] for an earlier
                \* boot e is what that boot had logged when it died (history only)
    issued,     \* every checkpoint sign_checkpoint ever signed (history only)
    pc,         \* where each task is in handle_conn
    env,        \* the request a task is handling
    buf,        \* its plaintext buffer: "none", "live" or "wiped"
    verdict,    \* the arguments it passes to the signing code
    proof,      \* the proof it signed
    reply       \* the response it will write

shared == <<up, epoch, counter, ledger, issued>>
locals == <<pc, env, buf, verdict, proof, reply>>
vars   == <<shared, locals>>

Epochs == 1..MaxEpoch

-----------------------------------------------------------------------------
(* Requests *)

(* None is <<>>, Some(x) is <<x>>. *)
Optional(S) == {q \in Seq(S) : Len(q) <= 1}

Bytes == Seq(Symbols)

sha256(x) == <<"sha256", x>>

(* H(plaintext || salt || context) *)
commit(plaintext, salt, context) == sha256(plaintext \o salt \o context)

(* parses      serde_json::from_slice succeeds                              *)
(* fields_ok   the three hex fields decode, with lengths 32 and 24          *)
(* sealed_to   the boot whose channel key the ciphertext was sealed to; 0:  *)
(*             none, the ciphertext does not authenticate                   *)
(* salt        None when commitment_salt_hex does not decode                *)
IsBody(b) ==
    /\ b.parses \in BOOLEAN /\ b.fields_ok \in BOOLEAN
    /\ b.sealed_to \in Nat
    /\ b.plaintext \in Bytes
    /\ b.salt \in Optional(Bytes)
    /\ b.context \in Bytes
    /\ b.processor_id \in Optional(STRING)

ASSUME BodiesAssumption == \A b \in Bodies : IsBody(b)

Env(route, arg, body) == [route |-> route, arg |-> arg, body |-> body]

NoEnv == Env("none", <<>>, <<>>)

(* The decoded envelopes dispatch distinguishes; an index or size that does *)
(* not parse as usize is None.                                              *)
Envelopes ==
    {Env(route, <<>>, <<>>) : route \in {"attestation", "root", "other"}}
    \cup {Env(route, arg, <<>>) : route \in {"proof", "consistency"},
                                  arg \in {<<>>} \cup {<<n>> : n \in 0..MaxProofs}}
    \cup {Env("inference", <<>>, <<b>>) : b \in Bodies}

Verdict(error, commitment, proc, wiped, result) ==
    [error |-> error, commitment |-> commitment, processor |-> proc, wiped |-> wiped,
     result |-> result]

NoVerdict == Verdict(<<>>, <<>>, "", FALSE, <<>>)

Reply(status, kind, content) == [status |-> status, kind |-> kind, content |-> content]

NoReply == Reply(0, "none", <<>>)

body(s) == env[s].body[1]

-----------------------------------------------------------------------------
(* EnclaveState::new: fresh keys, counter 0, empty log. *)
Init ==
    /\ up = TRUE
    /\ epoch = 1
    /\ counter = 0
    /\ ledger = [e \in Epochs |-> <<>>]
    /\ issued = {}
    /\ pc = [s \in Slots |-> "idle"]
    /\ env = [s \in Slots |-> NoEnv]
    /\ buf = [s \in Slots |-> "none"]
    /\ verdict = [s \in Slots |-> NoVerdict]
    /\ proof = [s \in Slots |-> <<>>]
    /\ reply = [s \in Slots |-> NoReply]

Goto(s, from, to) == pc[s] = from /\ pc' = [pc EXCEPT ![s] = to]

Answer(s, r) ==
    /\ pc' = [pc EXCEPT ![s] = "reply"]
    /\ reply' = [reply EXCEPT ![s] = r]

(* The task is over: everything it held is dropped. *)
EndTask(s) ==
    /\ pc' = [pc EXCEPT ![s] = "idle"]
    /\ env' = [env EXCEPT ![s] = NoEnv]
    /\ buf' = [buf EXCEPT ![s] = "none"]
    /\ verdict' = [verdict EXCEPT ![s] = NoVerdict]
    /\ proof' = [proof EXCEPT ![s] = <<>>]
    /\ reply' = [reply EXCEPT ![s] = NoReply]

(* main: accept and spawn. *)
Accept(s) ==
    /\ up
    /\ Goto(s, "idle", "read")
    /\ UNCHANGED <<shared, env, buf, verdict, proof, reply>>

(* Proofs this boot has signed or will sign for requests it already read. *)
Committed ==
    counter + Cardinality({t \in Slots : /\ env[t].route = "inference"
                                         /\ pc[t] \notin {"append", "reply"}})

(* handle_conn: a whole frame arrives and is an envelope. *)
ReadFrame(s, e) ==
    /\ up
    /\ Goto(s, "read", "dispatch")
    /\ e.route = "inference" => /\ Committed < MaxProofs
                                /\ e.body[1].sealed_to <= epoch
    /\ env' = [env EXCEPT ![s] = e]
    /\ UNCHANGED <<shared, buf, verdict, proof, reply>>

(* handle_conn: read_framed or the envelope parser fails; the connection is *)
(* closed without a response.                                               *)
DropFrame(s) ==
    /\ up
    /\ pc[s] = "read"
    /\ EndTask(s)
    /\ UNCHANGED shared

-----------------------------------------------------------------------------
(* dispatch: the routes that do not run inference. *)

Dispatch(s, route) == up /\ pc[s] = "dispatch" /\ env[s].route = route

Attestation == [channel_public_key |-> epoch, proof_verifier_key |-> epoch]

(* The document names both keys of this boot; the NSM may also refuse. *)
PublishAttestation(s) ==
    /\ Dispatch(s, "attestation")
    /\ \/ Answer(s, Reply(200, "attestation", <<Attestation>>))
       \/ Answer(s, Reply(500, "error", <<>>))
    /\ UNCHANGED <<shared, env, buf, verdict, proof>>

sign_checkpoint(size, root) == [size |-> size, root |-> root, signer |-> epoch]

(* The head of a log of this boot. *)
SignedHead(leaves) == sign_checkpoint(Len(leaves), mth(leaves))

LedgerRoot(s) ==
    /\ Dispatch(s, "root")
    /\ LET head == SignedHead(ledger[epoch])
       IN  /\ Answer(s, Reply(200, "root", <<head>>))
           /\ issued' = issued \cup {head}
    /\ UNCHANGED <<up, epoch, counter, ledger, env, buf, verdict, proof>>

(* Mutant: numbers receipts from 1. *)
Receipt_one_based(leaves, idx) ==
    [index |-> idx + 1, leaf_hash |-> leaves[idx + 1],
     audit_path |-> inclusion_path(leaves, idx)[1], checkpoint |-> SignedHead(leaves)]

Receipt(leaves, idx) ==
    [index |-> idx, leaf_hash |-> leaves[idx + 1],
     audit_path |-> inclusion_path(leaves, idx)[1], checkpoint |-> SignedHead(leaves)]

LedgerProof(s) ==
    /\ Dispatch(s, "proof")
    /\ LET leaves == ledger[epoch]
           arg    == env[s].arg
       IN  \/ /\ arg = <<>>
              /\ Answer(s, Reply(400, "error", <<>>))
              /\ UNCHANGED issued
           \/ /\ arg # <<>> /\ arg[1] >= Len(leaves)
              /\ Answer(s, Reply(404, "error", <<>>))
              /\ UNCHANGED issued
           \/ /\ arg # <<>> /\ arg[1] < Len(leaves)
              /\ Answer(s, Reply(200, "inclusion", <<Receipt(leaves, arg[1])>>))
              /\ issued' = issued \cup {SignedHead(leaves)}
    /\ UNCHANGED <<up, epoch, counter, ledger, env, buf, verdict, proof>>

LedgerConsistency(s) ==
    /\ Dispatch(s, "consistency")
    /\ LET leaves == ledger[epoch]
           arg    == env[s].arg
           path   == IF arg = <<>> THEN <<>> ELSE consistency_path(leaves, arg[1])
       IN  \/ /\ path = <<>>
              /\ Answer(s, Reply(400, "error", <<>>))
              /\ UNCHANGED issued
           \/ /\ path # <<>>
              /\ LET from == sign_checkpoint(arg[1], root_at(leaves, arg[1]))
                     to   == SignedHead(leaves)
                 IN  /\ Answer(s, Reply(200, "consistency", <<from, to, path[1]>>))
                     /\ issued' = issued \cup {from, to}
    /\ UNCHANGED <<up, epoch, counter, ledger, env, buf, verdict, proof>>

NotFound(s) ==
    /\ Dispatch(s, "other")
    /\ Answer(s, Reply(404, "error", <<>>))
    /\ UNCHANGED <<shared, env, buf, verdict, proof>>
-----------------------------------------------------------------------------
(* process_and_delete *)

processor(s) == IF body(s).processor_id = <<>> THEN "gateway" ELSE body(s).processor_id[1]

(* Mutant: the error code does not reach the failure proof. *)
fail_without_code(s, code, commitment, proc, wiped) ==
    /\ pc' = [pc EXCEPT ![s] = "sign_failure"]
    /\ verdict' = [verdict EXCEPT ![s] = Verdict(<<>>, commitment, proc, wiped, <<>>)]

(* Mutant: every failure is reported under one code, which none of the      *)
(* published ones is.                                                       *)
fail_generic(s, code, commitment, proc, wiped) ==
    /\ pc' = [pc EXCEPT ![s] = "sign_failure"]
    /\ verdict' = [verdict EXCEPT ![s] =
                      Verdict(<<"internal_error">>, commitment, proc, wiped, <<>>)]

(* self.fail(code, commitment, processor, wiped): hand over to the code that *)
(* signs the failure proof.                                                  *)
fail(s, code, commitment, proc, wiped) ==
    /\ pc' = [pc EXCEPT ![s] = "sign_failure"]
    /\ verdict' = [verdict EXCEPT ![s] = Verdict(<<code>>, commitment, proc, wiped, <<>>)]

failRequest(s, code, wiped) == fail(s, code, body(s).commitment, processor(s), wiped)

(* Mutant: the early return keeps the buffer alive. *)
Wipe_forgotten(s) == UNCHANGED buf

(* drop of the Zeroizing plaintext *)
Wipe(s) == buf' = [buf EXCEPT ![s] = "wiped"]

ParseRequest(s) ==
    /\ Dispatch(s, "inference")
    /\ \/ /\ ~body(s).parses
          /\ fail(s, "malformed_request", <<>>, "gateway", FALSE)
       \/ /\ body(s).parses
          /\ Goto(s, "dispatch", "decrypt")
          /\ UNCHANGED verdict
    /\ UNCHANGED <<shared, env, buf, proof, reply>>

(* Mutant: the channel key outlives the process, the proof key does not. *)
Decrypts_any_boot(b) == b.fields_ok /\ b.sealed_to # 0

(* Hex fields, key agreement with this boot's channel key, AEAD. *)
Decrypts(b) == b.fields_ok /\ b.sealed_to = epoch

(* Mutant: closes the connection of a client it cannot decrypt. *)
OpenChannel_closes(s) ==
    /\ up /\ pc[s] = "decrypt"
    /\ \/ /\ ~Decrypts(body(s))
          /\ EndTask(s)
       \/ /\ Decrypts(body(s))
          /\ buf' = [buf EXCEPT ![s] = "live"]
          /\ Goto(s, "decrypt", "commitment")
          /\ UNCHANGED <<env, verdict, proof, reply>>
    /\ UNCHANGED shared

OpenChannel(s) ==
    /\ up /\ pc[s] = "decrypt"
    /\ \/ /\ ~Decrypts(body(s))
          /\ failRequest(s, "channel_decrypt_failed", FALSE)
          /\ UNCHANGED buf
       \/ /\ Decrypts(body(s))
          /\ buf' = [buf EXCEPT ![s] = "live"]
          /\ Goto(s, "decrypt", "commitment")
          /\ UNCHANGED verdict
    /\ UNCHANGED <<shared, env, proof, reply>>

(* Mutant: a commitment that is there is good enough. *)
Opens_any(b) == b.commitment # <<>>

Opens(b) == b.commitment = commit(b.plaintext, b.salt[1], b.context)

CheckCommitment(s) ==
    /\ up /\ pc[s] = "commitment"
    /\ \/ /\ body(s).salt = <<>>
          /\ Wipe(s)
          /\ failRequest(s, "invalid_commitment_salt", TRUE)
       \/ /\ body(s).salt # <<>> /\ ~Opens(body(s))
          /\ Wipe(s)
          /\ failRequest(s, "commitment_mismatch", TRUE)
       \/ /\ body(s).salt # <<>> /\ Opens(body(s))
          /\ Goto(s, "commitment", "policy")
          /\ UNCHANGED <<buf, verdict>>
    /\ UNCHANGED <<shared, env, proof, reply>>

EvaluatePolicy(s) ==
    /\ up /\ pc[s] = "policy"
    /\ LET reason == evaluate(body(s).plaintext, processor(s))
       IN  \/ /\ reason # "allowed"
              /\ Wipe(s)
              /\ failRequest(s, reason, TRUE)
           \/ /\ reason = "allowed"
              /\ Goto(s, "policy", "upstream")
              /\ UNCHANGED <<buf, verdict>>
    /\ UNCHANGED <<shared, env, proof, reply>>

(* The model's answer is a function of the plaintext.  The call may fail.   *)
call_upstream(plaintext) == <<"model_response", plaintext>>

CallUpstream(s) ==
    /\ up /\ pc[s] = "upstream"
    /\ Wipe(s)
    /\ \/ failRequest(s, "upstream_failed", TRUE)
       \/ /\ Goto(s, "upstream", "sign_success")
          /\ verdict' = [verdict EXCEPT ![s] =
                Verdict(<<>>, body(s).commitment, processor(s), TRUE,
                        <<call_upstream(body(s).plaintext)>>)]
    /\ UNCHANGED <<shared, env, proof, reply>>

-----------------------------------------------------------------------------
(* Signing: take the next counter value, build the statement, sign it.      *)

Signed(statement) == [statement |-> statement, signer |-> epoch]

SuccessStatement(s) ==
    [counter |-> counter + 1,
     commitment |-> verdict[s].commitment, processor |-> verdict[s].processor,
     channel_public_key |-> epoch, proof_verifier_key |-> epoch,
     success |-> TRUE, error_code |-> <<>>, allow |-> TRUE,
     input_buffer_wiped |-> TRUE, response_buffer_wiped |-> FALSE,
     response_buffer_returned |-> TRUE,
     result_hash |-> <<sha256(verdict[s].result[1])>>,
     retention_policy |-> <<"returned-only">>]

FailureStatement(s) ==
    [counter |-> counter + 1,
     commitment |-> verdict[s].commitment, processor |-> verdict[s].processor,
     channel_public_key |-> epoch, proof_verifier_key |-> epoch,
     success |-> FALSE, error_code |-> verdict[s].error, allow |-> FALSE,
     input_buffer_wiped |-> verdict[s].wiped, response_buffer_wiped |-> FALSE,
     response_buffer_returned |-> FALSE,
     result_hash |-> <<>>,
     retention_policy |-> <<>>]

SignSuccess(s) ==
    /\ up
    /\ Goto(s, "sign_success", "append")
    /\ counter' = counter + 1
    /\ proof' = [proof EXCEPT ![s] = <<Signed(SuccessStatement(s))>>]
    /\ UNCHANGED <<up, epoch, ledger, issued, env, buf, verdict, reply>>

(* Mutant: load instead of fetch_add. *)
SignFailure_load(s) ==
    /\ up
    /\ Goto(s, "sign_failure", "append")
    /\ proof' = [proof EXCEPT ![s] = <<Signed(FailureStatement(s))>>]
    /\ UNCHANGED <<shared, env, buf, verdict, reply>>

SignFailure(s) ==
    /\ up
    /\ Goto(s, "sign_failure", "append")
    /\ counter' = counter + 1
    /\ proof' = [proof EXCEPT ![s] = <<Signed(FailureStatement(s))>>]
    /\ UNCHANGED <<up, epoch, ledger, issued, env, buf, verdict, reply>>

(* append_proof, under the ledger lock: append, path, signed head; then the *)
(* response of process_and_delete or fail.                                  *)
AppendProof(s) ==
    /\ up /\ pc[s] = "append"
    /\ LET leaves == log_append(ledger[epoch], proof[s][1])
       IN  /\ ledger' = [ledger EXCEPT ![epoch] = leaves]
           /\ issued' = issued \cup {SignedHead(leaves)}
           /\ Answer(s, Reply(200, "inference",
                              <<proof[s][1], Receipt(leaves, Len(leaves) - 1)>>))
    /\ UNCHANGED <<up, epoch, counter, env, buf, verdict, proof>>

(* write_framed, whether or not the peer is still there to read it. *)
Respond(s) ==
    /\ up /\ pc[s] = "reply"
    /\ EndTask(s)
    /\ UNCHANGED shared

-----------------------------------------------------------------------------
(* The process dies: an accept error ends main, or the host terminates the  *)
(* enclave.  Every task, both keys, the counter and the log go with it.     *)
Crash ==
    /\ up
    /\ epoch < MaxEpoch
    /\ up' = FALSE
    /\ pc' = [s \in Slots |-> "idle"]
    /\ env' = [s \in Slots |-> NoEnv]
    /\ buf' = [s \in Slots |-> "none"]
    /\ verdict' = [s \in Slots |-> NoVerdict]
    /\ proof' = [s \in Slots |-> <<>>]
    /\ reply' = [s \in Slots |-> NoReply]
    /\ UNCHANGED <<epoch, counter, ledger, issued>>

(* Mutant: the keys outlive the process, the log does not. *)
Restart_same_keys ==
    /\ ~up
    /\ up' = TRUE
    /\ counter' = 0
    /\ ledger' = [ledger EXCEPT ![epoch] = <<>>]
    /\ UNCHANGED <<epoch, issued, locals>>

(* A new boot. *)
Restart ==
    /\ ~up
    /\ up' = TRUE
    /\ epoch' = epoch + 1
    /\ counter' = 0
    /\ ledger' = [ledger EXCEPT ![epoch + 1] = <<>>]
    /\ UNCHANGED <<issued, locals>>

(* What a task does by itself once it has its request. *)
Handle(s) ==
    \/ PublishAttestation(s) \/ LedgerRoot(s) \/ LedgerProof(s)
    \/ LedgerConsistency(s) \/ NotFound(s)
    \/ ParseRequest(s) \/ OpenChannel(s) \/ CheckCommitment(s)
    \/ EvaluatePolicy(s) \/ CallUpstream(s)
    \/ SignSuccess(s) \/ SignFailure(s) \/ AppendProof(s)

Next ==
    \/ \E s \in Slots : \/ Accept(s) \/ DropFrame(s) \/ Handle(s) \/ Respond(s)
                        \/ \E e \in Envelopes : ReadFrame(s, e)
    \/ Crash \/ Restart

Spec == Init /\ [][Next]_vars

(* tokio polls a runnable task again and hands the ledger lock out in order *)
(* of request, so a task that can step does.  Nothing obliges a client to   *)
(* connect or to complete a frame, or the host to keep the enclave alive.   *)
Fairness == \A s \in Slots : WF_vars(Handle(s)) /\ WF_vars(Respond(s))

FairSpec == Spec /\ Fairness
-----------------------------------------------------------------------------
(* Properties *)

ErrorCodes == Reasons \cup
    {"malformed_request", "channel_decrypt_failed", "invalid_commitment_salt",
     "commitment_mismatch", "upstream_failed"}

Commitments == {<<>>} \cup {b.commitment : b \in Bodies}

Responses == {call_upstream(b.plaintext) : b \in Bodies}

Processors == {"", "gateway"} \cup UNION {ToSet(b.processor_id) : b \in Bodies}

Verdicts == [error : Optional(ErrorCodes), commitment : Commitments,
             processor : Processors, wiped : BOOLEAN, result : Optional(Responses)]

Statements ==
    [counter : Nat, commitment : Commitments, processor : Processors,
     channel_public_key : Epochs, proof_verifier_key : Epochs,
     success : BOOLEAN, error_code : Optional(ErrorCodes), allow : BOOLEAN,
     input_buffer_wiped : BOOLEAN, response_buffer_wiped : BOOLEAN,
     response_buffer_returned : BOOLEAN,
     result_hash : Optional({sha256(r) : r \in Responses}),
     retention_policy : Optional({"returned-only"})]

Proofs == [statement : Statements, signer : Epochs]

Leaves == {"leaf"} \X Proofs

PcValues == {"idle", "read", "dispatch", "decrypt", "commitment", "policy", "upstream",
             "sign_success", "sign_failure", "append", "reply"}

(* Every variable has its type. *)
TypeOK ==
    /\ up \in BOOLEAN
    /\ epoch \in Epochs
    /\ counter \in Nat
    /\ ledger \in [Epochs -> Seq(Leaves)]
    /\ pc \in [Slots -> PcValues]
    /\ env \in [Slots -> Envelopes \cup {NoEnv}]
    /\ buf \in [Slots -> {"none", "live", "wiped"}]
    /\ verdict \in [Slots -> Verdicts]
    /\ proof \in [Slots -> Seq(Proofs)]

(* The proofs a boot has logged, oldest first. *)
Logged(e) == [i \in 1..Len(ledger[e]) |-> EntryOf(ledger[e][i])]

(* Tasks that have taken a counter value and not appended yet. *)
Signing == {s \in Slots : pc[s] = "append"}

CounterOf(p) == p.statement.counter

(* The counter is taken outside the ledger lock, so the log may be out of   *)
(* counter order; but no value is ever used twice and, while the process    *)
(* lives, none is missing: 1..counter are exactly the values in the log and *)
(* in the hands of tasks about to append.                                   *)
CountersUnique ==
    /\ \A i, j \in 1..Len(ledger[epoch]) :
          CounterOf(Logged(epoch)[i]) = CounterOf(Logged(epoch)[j]) => i = j
    /\ \A s, t \in Signing : CounterOf(proof[s][1]) = CounterOf(proof[t][1]) => s = t
    /\ \A s \in Signing, i \in 1..Len(ledger[epoch]) :
          CounterOf(proof[s][1]) # CounterOf(Logged(epoch)[i])

CountersComplete ==
    up => \A n \in 1..counter :
              \/ \E i \in 1..Len(ledger[epoch]) : CounterOf(Logged(epoch)[i]) = n
              \/ \E s \in Signing : CounterOf(proof[s][1]) = n

CountersExact == CountersUnique /\ CountersComplete

(* No equivocation: every checkpoint ever signed, by whatever handler and   *)
(* in whatever boot, is the head of a prefix of the one log of the boot     *)
(* whose key signed it, however many proofs were appended since.            *)
HeadsAuthentic ==
    \A c \in issued :
        /\ c.signer \in Epochs
        /\ c.size \in 0..Len(ledger[c.signer])
        /\ c.root = root_at(ledger[c.signer], c.size)

(* What a task is about to send verifies with the verifiers of the SDK      *)
(* under the key of this boot, although other tasks appended meanwhile:     *)
(* receipts, inclusion proofs and consistency proofs.                       *)
RepliesVerify ==
    \A s \in Slots : LET r == reply[s].content IN
        CASE reply[s].kind = "inference"   -> verifyReceipt(r[1], r[2], epoch)
          [] reply[s].kind = "inclusion"   ->
               /\ check_checkpoint_signature(r[1].checkpoint, epoch)
               /\ verifyInclusion(r[1].leaf_hash, r[1].index, r[1].checkpoint.size,
                                  r[1].audit_path, r[1].checkpoint.root)
          [] reply[s].kind = "consistency" ->
               verifyConsistency(r[1].size, r[1].root, r[2].size, r[2].root, r[3])
          [] OTHER -> TRUE

(* The auditor's verdict on a proof, against the attestation of boot e. *)
PassesAudit(p, e) ==
    /\ check_proof_signature(p, e)
    /\ check_statement_invariants(p.statement)
    /\ check_policy(p)
    /\ check_attestation_binding([channel_public_key |-> e, proof_verifier_key |-> e], p, e)

(* Every proof in the log of any boot passes the auditor's checks against   *)
(* the attestation of that boot: signature, statement invariants, policy    *)
(* decision and key binding.                                                *)
LogPassesAudit ==
    \A e \in Epochs : \A i \in 1..Len(ledger[e]) : PassesAudit(Logged(e)[i], e)

(* The zeroization report is true of the buffer when it is signed, on every *)
(* early return: no task that holds a signed proof still holds plaintext,   *)
(* and it reports a wipe exactly when it had decrypted something.           *)
ZeroizationTruthful ==
    \A s \in Slots : pc[s] \in {"append", "reply"} /\ proof[s] # <<>> =>
        /\ buf[s] # "live"
        /\ proof[s][1].statement.input_buffer_wiped <=> buf[s] = "wiped"

(* A success proof is earned: the request parsed, was sealed to the key     *)
(* that now signs, opens its commitment and, when it is ASCII text, is      *)
(* allowed by the published reference policy; and the statement names that  *)
(* commitment.                                                              *)
SuccessEarned ==
    \A s \in Slots : pc[s] \in {"append", "reply"} /\ proof[s] # <<>> /\
                     proof[s][1].statement.success =>
        LET b == body(s) IN
        /\ b.parses /\ b.fields_ok
        /\ b.sealed_to = proof[s][1].signer
        /\ b.salt # <<>>
        /\ proof[s][1].statement.commitment = commit(b.plaintext, b.salt[1], b.context)
        /\ ToSet(b.plaintext) \subseteq Ascii =>
              evaluate_policy(b.plaintext, proof[s][1].statement.processor) = "allowed"

(* "Every session emits a signed proof (success OR failure)": an inference  *)
(* request that was read is answered with a logged, signed proof, unless    *)
(* the process dies first.                                                  *)
EverySessionProved ==
    \A s \in Slots :
        (pc[s] = "dispatch" /\ env[s].route = "inference")
            ~> (~up \/ (pc[s] = "reply" /\ reply[s].kind = "inference"))

Audit == INSTANCE AuditLog
           WITH log <- ledger, heads <- issued, Root <- root_at, Entry <- EntryOf

(* The enclave implements the audit log: through crashes, restarts and any  *)
(* interleaving of tasks, its ledgers and signed heads move only as         *)
(* AuditLog allows.                                                         *)
ImplementsAuditLog == Audit!Spec

(* How far a task is, and what it then holds: from decryption to append it  *)
(* handles an inference request, it has a verdict when it signs, and a      *)
(* proof exactly from signing on.                                           *)
TaskOK ==
    \A s \in Slots :
        /\ pc[s] \in {"decrypt", "commitment", "policy", "upstream",
                      "sign_success", "sign_failure", "append"}
              => env[s].route = "inference"
        /\ pc[s] = "sign_success" => verdict[s].result # <<>>
        /\ pc[s] = "sign_failure" => verdict[s].error # <<>>
        /\ pc[s] = "append" => proof[s] # <<>> /\ proof[s][1].signer = epoch
        /\ pc[s] \notin {"append", "reply"} => proof[s] = <<>>

(* Where the plaintext is: from decryption to the last check, nowhere else. *)
BufferOK ==
    \A s \in Slots :
        /\ pc[s] \in {"idle", "read", "dispatch", "decrypt"} => buf[s] = "none"
        /\ pc[s] \in {"commitment", "policy", "upstream"} => buf[s] = "live"
        /\ pc[s] = "sign_success" => buf[s] = "wiped"
        /\ pc[s] = "sign_failure" => buf[s] = IF verdict[s].wiped THEN "wiped" ELSE "none"

(* A process that is down may boot again; boots to come have no log yet; no *)
(* task survives its process.                                               *)
BootOK ==
    /\ ~up => epoch < MaxEpoch
    /\ \A e \in Epochs : e > epoch => ledger[e] = <<>>
    /\ ~up => \A s \in Slots : pc[s] = "idle"

(* No proof carries a counter value that has not been taken. *)
CountersTaken ==
    /\ \A i \in 1..Len(ledger[epoch]) : CounterOf(Logged(epoch)[i]) \in 1..counter
    /\ \A s \in Signing : CounterOf(proof[s][1]) \in 1..counter

(* The inductive invariant behind the theorems of EnclaveProofs. *)
IndInv ==
    /\ TypeOK /\ TaskOK /\ BufferOK /\ BootOK
    /\ CountersTaken /\ CountersUnique /\ CountersComplete
    /\ HeadsAuthentic /\ LogPassesAudit /\ ZeroizationTruthful
=============================================================================
