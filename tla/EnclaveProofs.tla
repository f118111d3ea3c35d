---------------------------- MODULE EnclaveProofs ----------------------------
(***************************************************************************)
(* Theorems about Enclave, for every set of tasks and request bodies, any  *)
(* number of boots and proofs and any policy.                              *)
(*                                                                         *)
(* LocalInv, about each task and the boots, is inductive by itself         *)
(* (LocalStep, one step per action). StepShape then reduces the actions to *)
(* the five things a step can do to the shared state, and each invariant   *)
(* on the shared state is shown to survive those five.                     *)
(*                                                                         *)
(* The policy engine is compared with the reference for every text: the    *)
(* scan of the engine is followed through the text one symbol at a time,   *)
(* and a shape the reference finds is a run of digits the scan has         *)
(* counted.                                                                *)
(*                                                                         *)
(* ChecksInv remembers which checks a task has passed by where it is in    *)
(* the handler; what a signed success says about its request follows from  *)
(* it.                                                                     *)
(***************************************************************************)
EXTENDS Enclave, PolicyComparison, MerkleProofs, SequenceTheorems, TLAPS

(* None is an option of anything.                                           *)
LEMMA OptionalNone ==
    ASSUME NEW S
    PROVE  <<>> \in Optional(S)
  BY DEF Optional

(* Some(x) is an option that holds x.                                       *)
LEMMA OptionalSome ==
    ASSUME NEW S, NEW x \in S
    PROVE  <<x>> \in Optional(S) /\ <<x>> # <<>> /\ <<x>>[1] = x
  BY DEF Optional

(* An option that is not None holds a value.                                *)
LEMMA OptionalGet ==
    ASSUME NEW S, NEW q \in Optional(S), q # <<>>
    PROVE  q[1] \in S /\ Len(q) = 1
  <1>1. q \in Seq(S) /\ Len(q) <= 1
    BY DEF Optional
  <1>2. Len(q) \in Nat \ {0}
    BY <1>1, EmptySeq
  <1> DEFINE n == Len(q)
  <1> HIDE DEF n
  <1>3. n = 1
    <2>1. n \in Nat \ {0} /\ n <= 1
      BY <1>1, <1>2 DEF n
    <2>2. QED
      BY <2>1
  <1>4. q[1] \in S
    BY <1>1, <1>3, ElementOfSeq DEF n
  <1>5. QED
    BY <1>3, <1>4 DEF n

(* Appending leaves every prefix of a sequence as it was.                   *)
LEMMA SubSeqOfAppend ==
    ASSUME NEW S, NEW q \in Seq(S), NEW x \in S, NEW n \in 0..Len(q)
    PROVE  SubSeq(Append(q, x), 1, n) = SubSeq(q, 1, n)
  OBVIOUS

(* The verdict of a task that has none is well typed.                       *)
LEMMA NoVerdictType == NoVerdict \in Verdicts
  <1>1. <<>> \in Optional(ErrorCodes) /\ <<>> \in Optional(Responses)
    BY OptionalNone
  <1>2. QED
    BY <1>1 DEF NoVerdict, Verdict, Verdicts, Commitments, Processors

(* An inference envelope carries a request body.                            *)
LEMMA BodyOfInference ==
    ASSUME NEW e \in Envelopes \cup {NoEnv}, e.route = "inference"
    PROVE  e.body[1] \in Bodies
  BY DEF Envelopes, NoEnv, Env

(* processor_id, or its default "gateway", is a processor name.             *)
LEMMA ProcessorOfBody ==
    ASSUME NEW b \in Bodies
    PROVE  (IF b.processor_id = <<>> THEN "gateway" ELSE b.processor_id[1]) \in Processors
  <1>1. b.processor_id \in Optional(STRING)
    BY BodiesAssumption DEF IsBody
  <1>2. CASE b.processor_id = <<>>
    BY <1>2 DEF Processors
  <1>3. CASE b.processor_id # <<>>
    <2>1. b.processor_id \in Seq(STRING) /\ Len(b.processor_id) = 1
      BY <1>1, <1>3, OptionalGet DEF Optional
    <2>2. b.processor_id[1] \in ToSet(b.processor_id)
      BY <2>1 DEF ToSet
    <2>3. QED
      BY <2>2, <1>3 DEF Processors
  <1>4. QED
    BY <1>2, <1>3

(* The state built by EnclaveState::new satisfies the local invariants.     *)
LEMMA InitType == Init => TypeOK /\ TaskOK /\ BufferOK /\ BootOK
  <1> SUFFICES ASSUME Init PROVE TypeOK /\ TaskOK /\ BufferOK /\ BootOK
    OBVIOUS
  <1> USE DEF Init
  <1>1. epoch \in Epochs
    BY BoundsAssumption DEF Epochs
  <1>2. TypeOK
    BY <1>1, NoVerdictType DEF TypeOK, PcValues
  <1>3. TaskOK
    BY DEF TaskOK
  <1>4. BufferOK
    BY DEF BufferOK
  <1>5. BootOK
    BY DEF BootOK
  <1>6. QED
    BY <1>2, <1>3, <1>4, <1>5

(* A verdict built from well-typed fields is a verdict.                     *)
LEMMA VerdictType ==
    ASSUME NEW error \in Optional(ErrorCodes), NEW commitment \in Commitments,
           NEW proc \in Processors, NEW wiped \in BOOLEAN, NEW result \in Optional(Responses)
    PROVE  Verdict(error, commitment, proc, wiped, result) \in Verdicts
  BY DEF Verdict, Verdicts

(* evaluate allows or gives one of its four reasons.                        *)
LEMMA EvaluateRange ==
    ASSUME NEW plaintext, NEW proc
    PROVE  evaluate(plaintext, proc) \in Reasons \cup {"allowed"}
  BY DEF evaluate, Reasons

(* The fields of the request that process_and_delete hands to fail.         *)
LEMMA RequestFieldsType ==
    ASSUME TypeOK, NEW s \in Slots, env[s].route = "inference"
    PROVE  /\ body(s) \in Bodies
           /\ body(s).commitment \in Commitments
           /\ processor(s) \in Processors
  <1>1. body(s) \in Bodies
    BY BodyOfInference DEF body, TypeOK
  <1>2. QED
    BY <1>1, ProcessorOfBody DEF Commitments, processor

(* What a call of fail leaves in the task: an error code, and the wiped flag*)
(* it was given.                                                            *)
LEMMA FailType ==
    ASSUME TypeOK, NEW s \in Slots, NEW code \in ErrorCodes, NEW commitment \in Commitments,
           NEW proc \in Processors, NEW wiped \in BOOLEAN,
           fail(s, code, commitment, proc, wiped)
    PROVE  /\ verdict' \in [Slots -> Verdicts]
           /\ pc' = [pc EXCEPT ![s] = "sign_failure"]
           /\ \A t \in Slots \ {s} : verdict'[t] = verdict[t]
           /\ verdict'[s].error # <<>>
           /\ verdict'[s].wiped = wiped
  <1>1. <<code>> \in Optional(ErrorCodes) /\ <<code>> # <<>>
    BY OptionalSome
  <1>2. <<>> \in Optional(Responses)
    BY OptionalNone
  <1> DEFINE v == Verdict(<<code>>, commitment, proc, wiped, <<>>)
  <1>3. v \in Verdicts
    BY <1>1, <1>2, VerdictType
  <1>4. v.error # <<>> /\ v.wiped = wiped
    BY <1>1 DEF Verdict
  <1>5. verdict' = [verdict EXCEPT ![s] = v] /\ pc' = [pc EXCEPT ![s] = "sign_failure"]
    BY DEF fail
  <1>6. verdict \in [Slots -> Verdicts]
    BY DEF TypeOK
  <1> HIDE DEF v
  <1>7. QED
    BY <1>3, <1>4, <1>5, <1>6

(* The proofs the two signing steps build. *)
LEMMA SuccessProofType ==
    ASSUME TypeOK, NEW s \in Slots, verdict[s].result # <<>>
    PROVE  Signed(SuccessStatement(s)) \in Proofs
  <1>1. verdict[s] \in Verdicts
    BY DEF TypeOK
  <1>2. verdict[s].result \in Optional(Responses)
    BY <1>1 DEF Verdicts
  <1>3. verdict[s].result[1] \in Responses
    BY <1>2, OptionalGet
  <1>4. <<sha256(verdict[s].result[1])>> \in Optional({sha256(r) : r \in Responses})
    BY <1>3, OptionalSome
  <1>5. <<>> \in Optional(ErrorCodes) /\ <<"returned-only">> \in Optional({"returned-only"})
    BY OptionalNone, OptionalSome
  <1>6. verdict[s].commitment \in Commitments /\ verdict[s].processor \in Processors
    BY <1>1 DEF Verdicts
  <1>7. counter + 1 \in Nat /\ epoch \in Epochs
    BY DEF TypeOK
  <1>8. SuccessStatement(s) \in Statements
    BY <1>4, <1>5, <1>6, <1>7 DEF SuccessStatement, Statements
  <1>9. QED
    BY <1>7, <1>8 DEF Signed, Proofs

(* The failure proof is a proof, whatever the verdict.                      *)
LEMMA FailureProofType ==
    ASSUME TypeOK, NEW s \in Slots
    PROVE  Signed(FailureStatement(s)) \in Proofs
  <1>1. verdict[s] \in Verdicts
    BY DEF TypeOK
  <1>2. <<>> \in Optional({sha256(r) : r \in Responses}) /\ <<>> \in Optional({"returned-only"})
    BY OptionalNone
  <1>3. /\ verdict[s].commitment \in Commitments /\ verdict[s].processor \in Processors
        /\ verdict[s].error \in Optional(ErrorCodes) /\ verdict[s].wiped \in BOOLEAN
    BY <1>1 DEF Verdicts
  <1>4. counter + 1 \in Nat /\ epoch \in Epochs
    BY DEF TypeOK
  <1>5. FailureStatement(s) \in Statements
    BY <1>2, <1>3, <1>4 DEF FailureStatement, Statements
  <1>6. QED
    BY <1>4, <1>5 DEF Signed, Proofs

(* What a task about to append holds. *)
LEMMA LoggableProof ==
    ASSUME TypeOK, TaskOK, NEW s \in Slots, pc[s] = "append"
    PROVE  /\ proof[s][1] \in Proofs
           /\ leaf_hash(proof[s][1]) \in Leaves
           /\ EntryOf(leaf_hash(proof[s][1])) = proof[s][1]
  <1>1. proof[s] \in Seq(Proofs) /\ proof[s] # <<>>
    BY DEF TypeOK, TaskOK
  <1>2. Len(proof[s]) \in Nat \ {0}
    BY <1>1, EmptySeq
  <1>3. proof[s][1] \in Proofs
    BY <1>1, <1>2, ElementOfSeq
  <1>4. QED
    BY <1>3 DEF leaf_hash, Leaves, EntryOf

(* The types, the tasks' bookkeeping and the boots. *)
LocalInv == TypeOK /\ TaskOK /\ BufferOK /\ BootOK

(* A check of process_and_delete that fails. *)
LEMMA FailStep ==
    ASSUME LocalInv, NEW s \in Slots, up, env[s].route = "inference",
           pc[s] \notin {"append", "reply"},
           NEW code \in ErrorCodes, NEW commitment \in Commitments,
           NEW proc \in Processors, NEW wiped \in BOOLEAN,
           fail(s, code, commitment, proc, wiped),
           buf' = [buf EXCEPT ![s] = IF wiped THEN "wiped" ELSE "none"],
           UNCHANGED <<shared, env, proof>>
    PROVE  LocalInv'
  <1>1. /\ verdict' \in [Slots -> Verdicts]
        /\ pc' = [pc EXCEPT ![s] = "sign_failure"]
        /\ \A t \in Slots \ {s} : verdict'[t] = verdict[t]
        /\ verdict'[s].error # <<>>
        /\ verdict'[s].wiped = wiped
    BY FailType DEF LocalInv
  <1>2. TypeOK'
    BY <1>1 DEF LocalInv, TypeOK, PcValues, shared
  <1>3. TaskOK'
    BY <1>1 DEF LocalInv, TypeOK, TaskOK, shared
  <1>4. BufferOK'
    BY <1>1 DEF LocalInv, TypeOK, BufferOK
  <1>5. BootOK'
    BY <1>1 DEF LocalInv, TypeOK, BootOK, shared
  <1>6. QED
    BY <1>2, <1>3, <1>4, <1>5 DEF LocalInv

(* The same, for a request that parsed. *)
LEMMA FailRequestStep ==
    ASSUME LocalInv, NEW s \in Slots, up,
           pc[s] \in {"decrypt", "commitment", "policy", "upstream"},
           NEW code \in ErrorCodes, NEW wiped \in BOOLEAN,
           failRequest(s, code, wiped),
           buf' = [buf EXCEPT ![s] = IF wiped THEN "wiped" ELSE "none"],
           UNCHANGED <<shared, env, proof>>
    PROVE  LocalInv'
  <1>1. env[s].route = "inference"
    BY DEF LocalInv, TaskOK
  <1>2. body(s).commitment \in Commitments /\ processor(s) \in Processors
    BY <1>1, RequestFieldsType DEF LocalInv
  <1>3. fail(s, code, body(s).commitment, processor(s), wiped)
    BY DEF failRequest
  <1>4. QED
    BY <1>1, <1>2, <1>3, FailStep

(* A check that passes. *)
LEMMA PassStep ==
    ASSUME LocalInv, NEW s \in Slots, up,
           NEW to \in {"decrypt", "commitment", "policy", "upstream"},
           env[s].route = "inference", pc[s] \notin {"append", "reply"},
           pc' = [pc EXCEPT ![s] = to],
           buf' = [buf EXCEPT ![s] = IF to = "decrypt" THEN "none" ELSE "live"],
           UNCHANGED <<shared, env, verdict, proof>>
    PROVE  LocalInv'
  <1>1. TypeOK'
    BY DEF LocalInv, TypeOK, PcValues, shared
  <1>2. TaskOK' /\ BufferOK' /\ BootOK'
    BY DEF LocalInv, TypeOK, TaskOK, BufferOK, BootOK, shared
  <1>3. QED
    BY <1>1, <1>2 DEF LocalInv

(* Every step of every task, a crash and a restart keep the local           *)
(* invariants.                                                              *)
LEMMA LocalStep == LocalInv /\ [Next]_vars => LocalInv'
  <1> SUFFICES ASSUME LocalInv, [Next]_vars PROVE LocalInv'
    OBVIOUS
  <1> USE DEF LocalInv
  <1>t. TypeOK /\ TaskOK /\ BufferOK /\ BootOK
    OBVIOUS
  <1>0. CASE UNCHANGED vars
    BY <1>0 DEF vars, shared, locals, TypeOK, TaskOK, BufferOK, BootOK
  <1>1. ASSUME NEW s \in Slots, Accept(s) PROVE LocalInv'
    BY <1>1 DEF Accept, Goto, shared, TypeOK, TaskOK, BufferOK, BootOK, PcValues
  <1>2. ASSUME NEW s \in Slots, DropFrame(s) \/ Respond(s) PROVE LocalInv'
    <2>1. EndTask(s) /\ UNCHANGED shared
      BY <1>2 DEF DropFrame, Respond
    <2>2. TypeOK'
      <3>1. <<>> \in Seq(Proofs)
        BY EmptySeq
      <3>2. QED
        BY <2>1, <3>1, NoVerdictType DEF EndTask, shared, TypeOK, PcValues
    <2>3. TaskOK' /\ BufferOK'
      BY <2>1 DEF EndTask, shared, TypeOK, TaskOK, BufferOK
    <2>4. BootOK'
      BY <2>1 DEF EndTask, shared, TypeOK, BootOK
    <2>5. QED
      BY <2>2, <2>3, <2>4
  <1>3. ASSUME NEW s \in Slots, NEW e \in Envelopes, ReadFrame(s, e) PROVE LocalInv'
    BY <1>3 DEF ReadFrame, Goto, shared, TypeOK, TaskOK, BufferOK, BootOK, PcValues
  <1>4. ASSUME NEW s \in Slots,
               \/ PublishAttestation(s) \/ LedgerRoot(s) \/ LedgerProof(s)
               \/ LedgerConsistency(s) \/ NotFound(s)
        PROVE  LocalInv'
    <2>1. /\ UNCHANGED <<up, epoch, counter, ledger, env, buf, verdict, proof>>
          /\ pc[s] = "dispatch"
          /\ pc' = [pc EXCEPT ![s] = "reply"]
      BY <1>4 DEF PublishAttestation, LedgerRoot, LedgerProof, LedgerConsistency, NotFound,
                  Answer, Dispatch, shared
    <2>2. QED
      BY <2>1 DEF TypeOK, TaskOK, BufferOK, BootOK, PcValues
  <1>5. ASSUME NEW s \in Slots, ParseRequest(s) PROVE LocalInv'
    <2>1. /\ up /\ pc[s] = "dispatch" /\ env[s].route = "inference"
          /\ UNCHANGED <<shared, env, buf, proof>>
      BY <1>5 DEF ParseRequest, Dispatch
    <2>2. buf[s] = "none" /\ buf' = [buf EXCEPT ![s] = "none"]
      BY <2>1 DEF BufferOK, TypeOK
    <2>3. CASE fail(s, "malformed_request", <<>>, "gateway", FALSE)
      <3>1. "malformed_request" \in ErrorCodes /\ <<>> \in Commitments /\ "gateway" \in Processors
        BY DEF ErrorCodes, Commitments, Processors
      <3>2. QED
        BY <2>1, <2>2, <2>3, <3>1, FailStep
    <2>4. CASE Goto(s, "dispatch", "decrypt") /\ UNCHANGED verdict
      BY <2>1, <2>2, <2>4, PassStep DEF Goto
    <2>5. QED
      BY <1>5, <2>3, <2>4 DEF ParseRequest
  <1>6. ASSUME NEW s \in Slots, OpenChannel(s) PROVE LocalInv'
    <2>1. /\ up /\ pc[s] = "decrypt" /\ env[s].route = "inference"
          /\ UNCHANGED <<shared, env, proof>>
      BY <1>6 DEF OpenChannel, TaskOK
    <2>2. CASE failRequest(s, "channel_decrypt_failed", FALSE) /\ UNCHANGED buf
      <3>1. buf[s] = "none" /\ buf' = [buf EXCEPT ![s] = "none"]
        BY <2>1, <2>2 DEF BufferOK, TypeOK
      <3>2. "channel_decrypt_failed" \in ErrorCodes
        BY DEF ErrorCodes
      <3>3. QED
        BY <2>1, <2>2, <3>1, <3>2, FailRequestStep
    <2>3. CASE /\ Goto(s, "decrypt", "commitment") /\ UNCHANGED verdict
               /\ buf' = [buf EXCEPT ![s] = "live"]
      BY <2>1, <2>3, PassStep DEF Goto
    <2>4. QED
      BY <1>6, <2>2, <2>3 DEF OpenChannel
  <1>7. ASSUME NEW s \in Slots, CheckCommitment(s) \/ EvaluatePolicy(s) PROVE LocalInv'
    <2>1. /\ up /\ pc[s] \in {"commitment", "policy"} /\ env[s].route = "inference"
          /\ UNCHANGED <<shared, env, proof>>
      BY <1>7 DEF CheckCommitment, EvaluatePolicy, TaskOK
    <2>2. ASSUME NEW code \in ErrorCodes, failRequest(s, code, TRUE), Wipe(s)
          PROVE  LocalInv'
      BY <2>1, <2>2, FailRequestStep DEF Wipe
    <2>3. ASSUME NEW to \in {"policy", "upstream"}, Goto(s, pc[s], to), UNCHANGED <<buf, verdict>>
          PROVE  LocalInv'
      <3>1. buf' = [buf EXCEPT ![s] = "live"]
        BY <2>1, <2>3 DEF BufferOK, TypeOK
      <3>2. QED
        BY <2>1, <2>3, <3>1, PassStep DEF Goto
    <2>4. CASE CheckCommitment(s)
      <3>1. {"invalid_commitment_salt", "commitment_mismatch"} \subseteq ErrorCodes
        BY DEF ErrorCodes
      <3>2. QED
        BY <2>2, <2>3, <2>4, <3>1 DEF CheckCommitment, Goto
    <2>5. CASE EvaluatePolicy(s)
      <3> DEFINE reason == evaluate(body(s).plaintext, processor(s))
      <3>1. reason \in Reasons \cup {"allowed"}
        BY EvaluateRange
      <3>2. reason # "allowed" => reason \in ErrorCodes
        BY <3>1 DEF ErrorCodes
      <3>3. \/ reason # "allowed" /\ Wipe(s) /\ failRequest(s, reason, TRUE)
            \/ Goto(s, "policy", "upstream") /\ UNCHANGED <<buf, verdict>>
        BY <2>5 DEF EvaluatePolicy
      <3> HIDE DEF reason
      <3>4. QED
        BY <2>2, <2>3, <3>2, <3>3 DEF Goto
    <2>6. QED
      BY <1>7, <2>4, <2>5
  <1>8. ASSUME NEW s \in Slots, CallUpstream(s) PROVE LocalInv'
    <2>1. /\ up /\ pc[s] = "upstream" /\ env[s].route = "inference" /\ Wipe(s)
          /\ UNCHANGED <<shared, env, proof>>
      BY <1>8 DEF CallUpstream, TaskOK
    <2>2. CASE failRequest(s, "upstream_failed", TRUE)
      <3>1. "upstream_failed" \in ErrorCodes
        BY DEF ErrorCodes
      <3>2. QED
        BY <2>1, <2>2, <3>1, FailRequestStep DEF Wipe
    <2>3. CASE ~failRequest(s, "upstream_failed", TRUE)
      <3> DEFINE r == call_upstream(body(s).plaintext)
                 v == Verdict(<<>>, body(s).commitment, processor(s), TRUE, <<r>>)
      <3>1. /\ body(s) \in Bodies /\ body(s).commitment \in Commitments
            /\ processor(s) \in Processors
        BY <2>1, RequestFieldsType
      <3>2. r \in Responses
        BY <3>1 DEF Responses
      <3> HIDE DEF r
      <3>3. <<r>> \in Optional(Responses) /\ <<r>> # <<>> /\ <<>> \in Optional(ErrorCodes)
        BY <3>2, OptionalSome, OptionalNone
      <3>4. v \in Verdicts
        BY <3>1, <3>3, VerdictType
      <3>5. v.result # <<>>
        BY <3>3 DEF Verdict
      <3>6. /\ verdict' = [verdict EXCEPT ![s] = v]
            /\ pc' = [pc EXCEPT ![s] = "sign_success"]
        BY <1>8, <2>3 DEF CallUpstream, Goto, r
      <3> HIDE DEF v
      <3>7. TypeOK'
        BY <2>1, <3>4, <3>6 DEF TypeOK, Wipe, PcValues, shared
      <3>8. TaskOK'
        BY <2>1, <3>4, <3>5, <3>6 DEF TypeOK, TaskOK, shared
      <3>9. BufferOK' /\ BootOK'
        BY <2>1, <3>6 DEF TypeOK, BufferOK, BootOK, Wipe, shared
      <3>10. QED
        BY <3>7, <3>8, <3>9
    <2>4. QED
      BY <2>2, <2>3
  <1>9. ASSUME NEW s \in Slots, SignSuccess(s) \/ SignFailure(s) PROVE LocalInv'
    <2>1. PICK p \in Proofs : p.signer = epoch /\ proof' = [proof EXCEPT ![s] = <<p>>]
      <3>1. CASE SignSuccess(s)
        <4>1. Signed(SuccessStatement(s)) \in Proofs
          BY <3>1, SuccessProofType DEF SignSuccess, Goto, TaskOK
        <4>2. QED
          BY <3>1, <4>1 DEF SignSuccess, Signed
      <3>2. CASE SignFailure(s)
        BY <3>2, FailureProofType DEF SignFailure, Signed
      <3>3. QED
        BY <1>9, <3>1, <3>2
    <2>2. /\ up /\ pc[s] \in {"sign_success", "sign_failure"} /\ env[s].route = "inference"
          /\ pc' = [pc EXCEPT ![s] = "append"] /\ counter' = counter + 1
          /\ UNCHANGED <<up, epoch, ledger, env, buf, verdict>>
      BY <1>9 DEF SignSuccess, SignFailure, Goto, TaskOK
    <2>3. <<p>> \in Seq(Proofs) /\ <<p>> # <<>> /\ <<p>>[1] = p
      BY OptionalSome DEF Optional
    <2>4. TypeOK'
      BY <2>1, <2>2, <2>3 DEF TypeOK, PcValues
    <2>5. TaskOK'
      BY <2>1, <2>2, <2>3 DEF TypeOK, TaskOK
    <2>6. BufferOK' /\ BootOK'
      BY <2>2 DEF TypeOK, BufferOK, BootOK
    <2>7. QED
      BY <2>4, <2>5, <2>6
  <1>10. ASSUME NEW s \in Slots, AppendProof(s) PROVE LocalInv'
    <2>1. /\ up /\ pc[s] = "append" /\ pc' = [pc EXCEPT ![s] = "reply"]
          /\ ledger' = [ledger EXCEPT ![epoch] = Append(ledger[epoch], leaf_hash(proof[s][1]))]
          /\ UNCHANGED <<up, epoch, counter, env, buf, verdict, proof>>
      BY <1>10 DEF AppendProof, Answer, log_append
    <2>2. leaf_hash(proof[s][1]) \in Leaves
      BY <2>1, LoggableProof
    <2>3. Append(ledger[epoch], leaf_hash(proof[s][1])) \in Seq(Leaves)
      BY <2>2, AppendProperties DEF TypeOK
    <2>4. TypeOK'
      BY <2>1, <2>3 DEF TypeOK, PcValues
    <2>5. TaskOK' /\ BufferOK' /\ BootOK'
      BY <2>1 DEF TypeOK, TaskOK, BufferOK, BootOK, Epochs
    <2>6. QED
      BY <2>4, <2>5
  <1>11. ASSUME Crash PROVE LocalInv'
    <2>1. TypeOK'
      <3>1. <<>> \in Seq(Proofs)
        BY EmptySeq
      <3>2. QED
        BY <1>11, <3>1, NoVerdictType DEF Crash, TypeOK, PcValues
    <2>2. TaskOK' /\ BufferOK' /\ BootOK'
      BY <1>11 DEF Crash, TypeOK, TaskOK, BufferOK, BootOK
    <2>3. QED
      BY <2>1, <2>2
  <1>12. ASSUME Restart PROVE LocalInv'
    <2>1. epoch + 1 \in Epochs
      BY <1>12, BoundsAssumption DEF Restart, BootOK, TypeOK, Epochs
    <2>2. TypeOK'
      BY <1>12, <2>1, EmptySeq DEF Restart, TypeOK, locals
    <2>3. TaskOK' /\ BufferOK'
      BY <1>12 DEF Restart, TaskOK, BufferOK, BootOK, locals
    <2>4. BootOK'
      BY <1>12, <2>1 DEF Restart, TypeOK, BootOK, locals, Epochs
    <2>5. QED
      BY <2>2, <2>3, <2>4
  <1>q. QED
    BY <1>0, <1>1, <1>2, <1>3, <1>4, <1>5, <1>6, <1>7, <1>8, <1>9, <1>10, <1>11, <1>12
    DEF Next, Handle

(* Every variable keeps its type, through every step of every task, crash   *)
(* and restart.                                                             *)
THEOREM TypeCorrect == Spec => []TypeOK
  <1>1. Init => LocalInv
    BY InitType DEF LocalInv
  <1>2. LocalInv => TypeOK
    BY DEF LocalInv
  <1>3. QED
    BY <1>1, <1>2, LocalStep, PTL DEF Spec

-----------------------------------------------------------------------------
(* What a step can do to the shared state: five shapes. *)

(* A head of leaves signed by this boot.                                    *)
AuthenticHead(h, leaves) ==
    /\ h.signer = epoch
    /\ h.size \in 0..Len(leaves)
    /\ h.root = root_at(leaves, h.size)

(* Nothing is signed or logged; heads of the current log may be signed. *)
Quiet ==
    /\ UNCHANGED <<up, epoch, counter, ledger>>
    /\ Signing' = Signing
    /\ \A s \in Signing : proof'[s] = proof[s]
    /\ issued \subseteq issued'
    /\ \A h \in issued' \ issued : AuthenticHead(h, ledger[epoch])

(* A task takes the next counter value. *)
Signs(s) ==
    /\ up
    /\ UNCHANGED <<up, epoch, ledger, issued>>
    /\ counter' = counter + 1
    /\ s \notin Signing /\ Signing' = Signing \cup {s}
    /\ CounterOf(proof'[s][1]) = counter + 1
    /\ PassesAudit(proof'[s][1], epoch)
    /\ \A t \in Signing : proof'[t] = proof[t]

(* A task logs the proof it signed. *)
Appends(s) ==
    /\ up
    /\ UNCHANGED <<up, epoch, counter>>
    /\ s \in Signing /\ Signing' = Signing \ {s}
    /\ \A t \in Signing : proof'[t] = proof[t]
    /\ ledger' = [ledger EXCEPT ![epoch] = Append(ledger[epoch], leaf_hash(proof[s][1]))]
    /\ issued \subseteq issued'
    /\ \A h \in issued' \ issued : AuthenticHead(h, ledger'[epoch])

(* The process dies: tasks are gone, what was logged stays logged.          *)
Stops ==
    /\ up' = FALSE
    /\ Signing' = {}
    /\ UNCHANGED <<epoch, counter, ledger, issued>>

(* The next boot: counter 0, no task, a log of its own that is empty.       *)
Boots ==
    /\ ~up
    /\ epoch' = epoch + 1 /\ epoch + 1 \in Epochs
    /\ counter' = 0
    /\ Signing' = {}
    /\ ledger' = ledger /\ ledger[epoch + 1] = <<>>
    /\ UNCHANGED issued

(* Both kinds of statement satisfy the auditor by construction, a failure   *)
(* statement provided its error code is there.                              *)
LEMMA SuccessPassesAudit ==
    ASSUME NEW s \in Slots
    PROVE  PassesAudit(Signed(SuccessStatement(s)), epoch)
  <1> DEFINE st == SuccessStatement(s)
             p  == Signed(st)
  <1>1. <<sha256(verdict[s].result[1])>> # <<>>
    BY OptionalSome
  <1>2. /\ st.success = TRUE /\ st.allow = TRUE /\ st.input_buffer_wiped = TRUE
        /\ st.result_hash # <<>> /\ st.retention_policy = <<"returned-only">>
        /\ st.response_buffer_wiped = FALSE /\ st.response_buffer_returned = TRUE
        /\ st.channel_public_key = epoch /\ st.proof_verifier_key = epoch
    BY <1>1 DEF SuccessStatement
  <1>3. p.statement = st /\ p.signer = epoch
    BY DEF Signed
  <1> HIDE DEF st, p
  <1>4. PassesAudit(p, epoch)
    BY <1>2, <1>3 DEF PassesAudit, check_proof_signature, SignedBy,
                      check_statement_invariants, check_policy, check_attestation_binding
  <1>5. QED
    BY <1>4 DEF p, st

(* The failure proof of a task that has an error code.                      *)
LEMMA FailurePassesAudit ==
    ASSUME NEW s \in Slots, verdict[s].error # <<>>
    PROVE  PassesAudit(Signed(FailureStatement(s)), epoch)
  <1> DEFINE st == FailureStatement(s)
             p  == Signed(st)
  <1>1. /\ st.success = FALSE /\ st.allow = FALSE
        /\ st.result_hash = <<>> /\ st.error_code # <<>>
        /\ st.channel_public_key = epoch /\ st.proof_verifier_key = epoch
    BY DEF FailureStatement
  <1>2. p.statement = st /\ p.signer = epoch
    BY DEF Signed
  <1> HIDE DEF st, p
  <1>3. PassesAudit(p, epoch)
    BY <1>1, <1>2 DEF PassesAudit, check_proof_signature, SignedBy,
                      check_statement_invariants, check_policy, check_attestation_binding
  <1>4. QED
    BY <1>3 DEF p, st

(* An index or size that parsed is a natural number.                        *)
LEMMA IndexOfEnvelope ==
    ASSUME NEW e \in Envelopes \cup {NoEnv}, e.arg # <<>>
    PROVE  e.arg[1] \in Nat
  <1>1. \E n \in 0..MaxProofs : e.arg = <<n>>
    BY DEF Envelopes, Env, NoEnv
  <1>2. QED
    BY <1>1, BoundsAssumption

(* The head of a whole log is authentic.                                    *)
LEMMA HeadIsAuthentic ==
    ASSUME NEW S, NEW leaves \in Seq(S)
    PROVE  AuthenticHead(SignedHead(leaves), leaves)
  <1>1. SubSeq(leaves, 1, Len(leaves)) = leaves
    BY SubSeqFull
  <1>2. Len(leaves) \in 0..Len(leaves)
    BY LenProperties
  <1>3. QED
    BY <1>1, <1>2 DEF AuthenticHead, SignedHead, sign_checkpoint, root_at

(* So is the head of the prefix that ledger_consistency signs: the path is  *)
(* None for a size beyond the log.                                          *)
LEMMA PrefixIsAuthentic ==
    ASSUME NEW S, NEW leaves \in Seq(S), NEW m \in Nat, consistency_path(leaves, m) # <<>>
    PROVE  AuthenticHead(sign_checkpoint(m, root_at(leaves, m)), leaves)
  <1>1. Len(leaves) \in Nat
    BY LenProperties
  <1>2. m <= Len(leaves)
    BY <1>1 DEF consistency_path
  <1>3. QED
    BY <1>1, <1>2 DEF AuthenticHead, sign_checkpoint

(* Every step has one of the five shapes.  The invariants on the shared     *)
(* state are proved from the shapes, not action by action.                  *)
LEMMA StepShape ==
    ASSUME LocalInv, [Next]_vars
    PROVE  \/ Quiet \/ Stops \/ Boots
           \/ \E s \in Slots : Signs(s) \/ Appends(s)
  <1> USE DEF LocalInv
  <1>0. CASE UNCHANGED vars
    BY <1>0 DEF vars, shared, locals, Quiet, Signing
  <1>1. ASSUME NEW s \in Slots,
               UNCHANGED <<shared, proof>>,
               pc[s] # "append",
               \A t \in Slots \ {s} : pc'[t] = pc[t],
               pc'[s] # "append"
        PROVE  Quiet
    BY <1>1 DEF Quiet, Signing, shared
  <1>2. ASSUME NEW s \in Slots, Accept(s) \/ NotFound(s) \/ PublishAttestation(s)
        PROVE  Quiet
    BY <1>2, <1>1 DEF Accept, NotFound, PublishAttestation, Goto, Answer, Dispatch, TypeOK
  <1>3. ASSUME NEW s \in Slots, NEW e \in Envelopes, ReadFrame(s, e) PROVE Quiet
    BY <1>3, <1>1 DEF ReadFrame, Goto, TypeOK
  <1>4. ASSUME NEW s \in Slots,
               \/ ParseRequest(s) \/ OpenChannel(s) \/ CheckCommitment(s)
               \/ EvaluatePolicy(s) \/ CallUpstream(s)
        PROVE  Quiet
    <2>1. /\ UNCHANGED <<shared, proof>>
          /\ pc[s] \in {"dispatch", "decrypt", "commitment", "policy", "upstream"}
          /\ \E to \in PcValues \ {"append"} : pc' = [pc EXCEPT ![s] = to]
      BY <1>4 DEF ParseRequest, OpenChannel, CheckCommitment, EvaluatePolicy, CallUpstream,
                  fail, failRequest, Goto, Dispatch, PcValues
    <2>2. QED
      BY <2>1, <1>1 DEF TypeOK
  <1>5. ASSUME NEW s \in Slots, DropFrame(s) \/ Respond(s) PROVE Quiet
    <2>1. EndTask(s) /\ UNCHANGED shared /\ pc[s] \in {"read", "reply"}
      BY <1>5 DEF DropFrame, Respond
    <2>2. Signing' = Signing /\ s \notin Signing
      BY <2>1 DEF EndTask, Signing, TypeOK
    <2>3. \A t \in Signing : proof'[t] = proof[t]
      BY <2>1, <2>2 DEF EndTask, Signing, TypeOK
    <2>4. QED
      BY <2>1, <2>2, <2>3 DEF Quiet, shared
  <1>6. ASSUME NEW s \in Slots, LedgerRoot(s) \/ LedgerProof(s) \/ LedgerConsistency(s)
        PROVE  Quiet
    <2>1. /\ UNCHANGED <<up, epoch, counter, ledger, proof>>
          /\ pc[s] = "dispatch" /\ pc' = [pc EXCEPT ![s] = "reply"]
      BY <1>6 DEF LedgerRoot, LedgerProof, LedgerConsistency, Dispatch, Answer
    <2>2. Signing' = Signing
      BY <2>1 DEF Signing, TypeOK
    <2>3. ledger[epoch] \in Seq(Leaves)
      BY DEF TypeOK
    <2>4. issued \subseteq issued' /\ \A h \in issued' \ issued : AuthenticHead(h, ledger[epoch])
      <3>1. AuthenticHead(SignedHead(ledger[epoch]), ledger[epoch])
        BY <2>3, HeadIsAuthentic
      <3>2. CASE LedgerRoot(s) \/ LedgerProof(s)
        BY <3>1, <3>2 DEF LedgerRoot, LedgerProof
      <3>3. CASE LedgerConsistency(s)
        <4> DEFINE arg  == env[s].arg
                   path == IF arg = <<>> THEN <<>> ELSE consistency_path(ledger[epoch], arg[1])
        <4>1. CASE path = <<>>
          BY <3>3, <4>1 DEF LedgerConsistency
        <4>2. CASE path # <<>>
          <5>1. arg[1] \in Nat /\ consistency_path(ledger[epoch], arg[1]) # <<>>
            <6>1. arg # <<>> /\ consistency_path(ledger[epoch], arg[1]) # <<>>
              BY <4>2
            <6>2. env[s] \in Envelopes \cup {NoEnv}
              BY DEF TypeOK
            <6>3. QED
              BY <6>1, <6>2, IndexOfEnvelope
          <5>2. AuthenticHead(sign_checkpoint(arg[1], root_at(ledger[epoch], arg[1])),
                              ledger[epoch])
            BY <2>3, <5>1, PrefixIsAuthentic
          <5>3. issued' = issued \cup {sign_checkpoint(arg[1], root_at(ledger[epoch], arg[1])),
                                       SignedHead(ledger[epoch])}
            BY <3>3, <4>2 DEF LedgerConsistency
          <5>4. QED
            BY <3>1, <5>2, <5>3
        <4>3. QED
          BY <4>1, <4>2
      <3>4. QED
        BY <1>6, <3>2, <3>3
    <2>5. QED
      BY <2>1, <2>2, <2>4 DEF Quiet
  <1>7. ASSUME NEW s \in Slots, SignSuccess(s) \/ SignFailure(s) PROVE Signs(s)
    <2>1. /\ up /\ pc[s] \in {"sign_success", "sign_failure"}
          /\ pc' = [pc EXCEPT ![s] = "append"] /\ counter' = counter + 1
          /\ UNCHANGED <<up, epoch, ledger, issued>>
      BY <1>7 DEF SignSuccess, SignFailure, Goto
    <2>2. PICK p : /\ proof' = [proof EXCEPT ![s] = <<p>>] /\ CounterOf(p) = counter + 1
                   /\ PassesAudit(p, epoch)
      <3>1. CASE SignSuccess(s)
        <4>1. CounterOf(Signed(SuccessStatement(s))) = counter + 1
          BY DEF SuccessStatement, Signed, CounterOf
        <4>2. PassesAudit(Signed(SuccessStatement(s)), epoch)
          BY SuccessPassesAudit
        <4>3. QED
          BY <3>1, <4>1, <4>2 DEF SignSuccess
      <3>2. CASE SignFailure(s)
        <4>1. CounterOf(Signed(FailureStatement(s))) = counter + 1
          BY DEF FailureStatement, Signed, CounterOf
        <4>2. PassesAudit(Signed(FailureStatement(s)), epoch)
          BY <3>2, FailurePassesAudit DEF SignFailure, Goto, TaskOK
        <4>3. QED
          BY <3>2, <4>1, <4>2 DEF SignFailure
      <3>3. QED
        BY <1>7, <3>1, <3>2
    <2>3. Signing' = Signing \cup {s} /\ s \notin Signing
      BY <2>1 DEF Signing, TypeOK
    <2>4. QED
      BY <2>1, <2>2, <2>3 DEF Signs, TypeOK, Signing
  <1>8. ASSUME NEW s \in Slots, AppendProof(s) PROVE Appends(s)
    <2> DEFINE leaves == log_append(ledger[epoch], proof[s][1])
    <2>1. /\ up /\ pc[s] = "append" /\ pc' = [pc EXCEPT ![s] = "reply"]
          /\ ledger' = [ledger EXCEPT ![epoch] = leaves]
          /\ issued' = issued \cup {SignedHead(leaves)}
          /\ UNCHANGED <<up, epoch, counter, proof>>
      BY <1>8 DEF AppendProof, Answer
    <2>2. leaves \in Seq(Leaves)
      <3>1. leaf_hash(proof[s][1]) \in Leaves
        BY <2>1, LoggableProof
      <3>2. QED
        BY <3>1, AppendProperties DEF TypeOK, log_append
    <2>3. AuthenticHead(SignedHead(leaves), leaves)
      BY <2>2, HeadIsAuthentic
    <2>4. ledger'[epoch] = leaves
      BY <2>1 DEF TypeOK
    <2>5. s \in Signing /\ Signing' = Signing \ {s}
      BY <2>1 DEF Signing, TypeOK
    <2>6. QED
      BY <2>1, <2>3, <2>4, <2>5 DEF Appends, log_append
  <1>9. ASSUME Crash PROVE Stops
    BY <1>9 DEF Crash, Stops, Signing
  <1>10. ASSUME Restart PROVE Boots
    <2>1. epoch + 1 \in Epochs
      BY <1>10, BoundsAssumption DEF Restart, BootOK, TypeOK, Epochs
    <2>2. ledger[epoch + 1] = <<>>
      BY <2>1 DEF BootOK, TypeOK, Epochs
    <2>3. ledger' = ledger
      BY <1>10, <2>1, <2>2 DEF Restart, TypeOK
    <2>4. QED
      BY <1>10, <2>1, <2>2, <2>3 DEF Restart, Boots, BootOK, Signing, locals
  <1>q. QED
    BY <1>0, <1>2, <1>3, <1>4, <1>5, <1>6, <1>7, <1>8, <1>9, <1>10 DEF Next, Handle

-----------------------------------------------------------------------------
(* Counters *)

(* CountersExact is not inductive: that a value just taken is new needs that*)
(* no proof carries a value above the counter.                              *)
CounterInv == CountersTaken /\ CountersUnique /\ CountersComplete

(* A boot that has signed nothing. *)
LEMMA InitCounters == Init => CounterInv
  <1> SUFFICES ASSUME Init PROVE CounterInv
    OBVIOUS
  <1>1. Len(ledger[epoch]) = 0 /\ Signing = {} /\ counter = 0
    BY BoundsAssumption DEF Init, Epochs, Signing
  <1>2. QED
    BY <1>1 DEF CounterInv, CountersTaken, CountersUnique, CountersComplete

(* The log after an append: the old entries, and the appended proof last. *)
LEMMA LoggedAfterAppend ==
    ASSUME LocalInv, NEW s \in Slots, Appends(s)
    PROVE  /\ Len(ledger[epoch]) \in Nat
           /\ Len(ledger'[epoch]) = Len(ledger[epoch]) + 1
           /\ \A i \in 1..Len(ledger[epoch]) :
                 /\ ledger'[epoch][i] = ledger[epoch][i]
                 /\ Logged(epoch)'[i] = Logged(epoch)[i]
           /\ ledger'[epoch][Len(ledger[epoch]) + 1] = leaf_hash(proof[s][1])
           /\ Logged(epoch)'[Len(ledger[epoch]) + 1] = proof[s][1]
  <1> DEFINE L == ledger[epoch]
             x == leaf_hash(proof[s][1])
  <1>1. L \in Seq(Leaves) /\ epoch \in Epochs
    BY DEF LocalInv, TypeOK
  <1>2. x \in Leaves /\ EntryOf(x) = proof[s][1]
    BY LoggableProof DEF LocalInv, Appends, Signing
  <1>3. ledger'[epoch] = Append(L, x) /\ epoch' = epoch
    BY DEF Appends, LocalInv, TypeOK
  <1>4. Len(L) \in Nat
    BY <1>1, LenProperties
  <1> HIDE DEF L, x
  <1>5. /\ Len(Append(L, x)) = Len(L) + 1
        /\ \A i \in 1..Len(L) : Append(L, x)[i] = L[i]
        /\ Append(L, x)[Len(L) + 1] = x
    BY <1>1, <1>2, AppendProperties
  <1>6. /\ Len(ledger'[epoch]) = Len(L) + 1
        /\ \A i \in 1..Len(L) : ledger'[epoch][i] = L[i]
        /\ ledger'[epoch][Len(L) + 1] = x
    BY <1>3, <1>5
  <1>7. \A i \in 1..(Len(L) + 1) : Logged(epoch)'[i] = EntryOf(ledger'[epoch][i])
    BY <1>3, <1>6 DEF Logged
  <1>8. \A i \in 1..Len(L) : Logged(epoch)[i] = EntryOf(L[i])
    BY DEF Logged, L
  <1>9. /\ \A i \in 1..Len(L) : Logged(epoch)'[i] = Logged(epoch)[i]
        /\ Logged(epoch)'[Len(L) + 1] = proof[s][1]
    BY <1>2, <1>4, <1>6, <1>7, <1>8
  <1>10. QED
    BY <1>4, <1>6, <1>9 DEF L, x

(* No step reuses a counter value or loses one.                             *)
LEMMA CounterStep == LocalInv /\ CounterInv /\ [Next]_vars => CounterInv'
  <1> SUFFICES ASSUME LocalInv, CounterInv, [Next]_vars PROVE CounterInv'
    OBVIOUS
  <1>c. counter \in Nat
    BY DEF LocalInv, TypeOK
  <1>1. CASE Quiet
    <2>1. UNCHANGED <<up, epoch, counter, ledger>> /\ Signing' = Signing
      BY <1>1 DEF Quiet
    <2>2. \A s \in Signing : proof'[s] = proof[s]
      BY <1>1 DEF Quiet
    <2>3. Logged(epoch)' = Logged(epoch)
      BY <2>1 DEF Logged
    <2>4. QED
      BY <2>1, <2>2, <2>3 DEF CounterInv, CountersTaken, CountersUnique, CountersComplete
  <1>2. CASE Stops
    <2>1. UNCHANGED <<epoch, counter, ledger>> /\ Signing' = {} /\ ~up'
      BY <1>2 DEF Stops
    <2>2. Logged(epoch)' = Logged(epoch)
      BY <2>1 DEF Logged
    <2>3. QED
      BY <2>1, <2>2 DEF CounterInv, CountersTaken, CountersUnique, CountersComplete
  <1>3. CASE Boots
    <2>1. ledger'[epoch'] = <<>> /\ Signing' = {} /\ counter' = 0
      BY <1>3 DEF Boots
    <2>2. Len(ledger'[epoch']) = 0
      BY <2>1
    <2>3. QED
      BY <2>1, <2>2 DEF CounterInv, CountersTaken, CountersUnique, CountersComplete
  <1>4. ASSUME NEW s \in Slots, Signs(s) PROVE CounterInv'
    <2>1. /\ up /\ UNCHANGED <<up, epoch, ledger>> /\ counter' = counter + 1
          /\ s \notin Signing /\ Signing' = Signing \cup {s}
          /\ CounterOf(proof'[s][1]) = counter + 1
      BY <1>4 DEF Signs
    <2>2. \A t \in Signing : proof'[t] = proof[t]
      BY <1>4 DEF Signs
    <2>3. Logged(epoch)' = Logged(epoch)
      BY <2>1 DEF Logged
    <2>4. CountersTaken'
      BY <1>c, <2>1, <2>2, <2>3 DEF CounterInv, CountersTaken
    <2>5. CountersUnique'
      BY <1>c, <2>1, <2>2, <2>3 DEF CounterInv, CountersTaken, CountersUnique
    <2>6. CountersComplete'
      BY <1>c, <2>1, <2>2, <2>3 DEF CounterInv, CountersComplete
    <2>7. QED
      BY <2>4, <2>5, <2>6 DEF CounterInv
  <1>5. ASSUME NEW s \in Slots, Appends(s) PROVE CounterInv'
    <2> DEFINE n == Len(ledger[epoch])
    <2>1. /\ n \in Nat /\ Len(ledger'[epoch]) = n + 1
          /\ \A i \in 1..n : Logged(epoch)'[i] = Logged(epoch)[i]
          /\ Logged(epoch)'[n + 1] = proof[s][1]
      BY <1>5, LoggedAfterAppend
    <2>2. /\ up /\ UNCHANGED <<up, epoch, counter>>
          /\ s \in Signing /\ Signing' = Signing \ {s}
      BY <1>5 DEF Appends
    <2>3. \A t \in Signing : proof'[t] = proof[t]
      BY <1>5 DEF Appends
    <2>4. /\ \A i \in 1..n : CounterOf(Logged(epoch)[i]) \in 1..counter
          /\ \A t \in Signing : CounterOf(proof[t][1]) \in 1..counter
      BY DEF CounterInv, CountersTaken
    <2>5. /\ \A i, j \in 1..n :
                CounterOf(Logged(epoch)[i]) = CounterOf(Logged(epoch)[j]) => i = j
          /\ \A t, u \in Signing : CounterOf(proof[t][1]) = CounterOf(proof[u][1]) => t = u
          /\ \A t \in Signing, i \in 1..n :
                CounterOf(proof[t][1]) # CounterOf(Logged(epoch)[i])
      BY DEF CounterInv, CountersUnique
    <2>6. \A m \in 1..counter : \/ \E i \in 1..n : CounterOf(Logged(epoch)[i]) = m
                                \/ \E t \in Signing : CounterOf(proof[t][1]) = m
      BY <2>2 DEF CounterInv, CountersComplete
    <2>7. epoch' = epoch /\ Len(ledger[epoch])' = n + 1
      BY <2>1, <2>2
    <2> HIDE DEF n
    <2>8. \A i \in 1..(n + 1) : i \in 1..n \/ i = n + 1
      BY <2>1
    <2>9. CountersTaken'
      BY <2>1, <2>2, <2>3, <2>4, <2>7, <2>8 DEF CountersTaken
    <2>10. CountersUnique'
      BY <2>1, <2>2, <2>3, <2>5, <2>7, <2>8 DEF CountersUnique
    <2>11. CountersComplete'
      <3>1. SUFFICES ASSUME NEW m \in 1..counter
                     PROVE  \/ \E i \in 1..(n + 1) : CounterOf(Logged(epoch)'[i]) = m
                            \/ \E t \in Signing \ {s} : CounterOf(proof'[t][1]) = m
        BY <2>2, <2>7 DEF CountersComplete
      <3>2. CASE \E i \in 1..n : CounterOf(Logged(epoch)[i]) = m
        BY <2>1, <3>2
      <3>3. CASE CounterOf(proof[s][1]) = m
        BY <2>1, <3>3
      <3>4. CASE \E t \in Signing \ {s} : CounterOf(proof[t][1]) = m
        BY <2>3, <3>4
      <3>5. QED
        BY <2>6, <3>2, <3>3, <3>4
    <2>12. QED
      BY <2>9, <2>10, <2>11 DEF CounterInv
  <1>6. QED
    BY <1>1, <1>2, <1>3, <1>4, <1>5, StepShape

(* However tasks interleave between taking a counter value and appending,   *)
(* no value is used twice in a boot and none is lost while the process is   *)
(* alive: an auditor who sees a gap knows of a proof that is not logged.    *)
THEOREM CountersAreExact == Spec => []CountersExact
  <1>1. Init => LocalInv /\ CounterInv
    BY InitType, InitCounters DEF LocalInv
  <1>2. CounterInv => CountersExact
    BY DEF CounterInv, CountersExact
  <1>3. QED
    BY <1>1, <1>2, LocalStep, CounterStep, PTL DEF Spec

-----------------------------------------------------------------------------
(* Signed tree heads *)

(* A log that grows keeps the root of each of its prefixes.                 *)
LEMMA PrefixKeepsRoot ==
    ASSUME NEW S, NEW q \in Seq(S), NEW x \in S, NEW n \in 0..Len(q)
    PROVE  /\ n \in 0..Len(Append(q, x))
           /\ root_at(Append(q, x), n) = root_at(q, n)
  <1>1. SubSeq(Append(q, x), 1, n) = SubSeq(q, 1, n)
    BY SubSeqOfAppend
  <1>2. Len(Append(q, x)) = Len(q) + 1 /\ Len(q) \in Nat
    BY AppendProperties, LenProperties
  <1>3. n \in 0..(Len(q) + 1)
    BY <1>2
  <1>4. QED
    BY <1>1, <1>2, <1>3 DEF root_at

(* No step signs a head of anything but its log, or changes what is under   *)
(* a head already signed.                                                   *)
LEMMA HeadsStep == LocalInv /\ HeadsAuthentic /\ [Next]_vars => HeadsAuthentic'
  <1> SUFFICES ASSUME LocalInv, HeadsAuthentic, [Next]_vars PROVE HeadsAuthentic'
    OBVIOUS
  <1>t. epoch \in Epochs /\ ledger \in [Epochs -> Seq(Leaves)]
    BY DEF LocalInv, TypeOK
  <1>1. CASE Quiet
    BY <1>1, <1>t DEF Quiet, AuthenticHead, HeadsAuthentic
  <1>2. CASE Stops \/ Boots \/ \E s \in Slots : Signs(s)
    <2>1. UNCHANGED <<ledger, issued>>
      BY <1>2 DEF Stops, Boots, Signs
    <2>2. QED
      BY <2>1 DEF HeadsAuthentic
  <1>3. ASSUME NEW s \in Slots, Appends(s) PROVE HeadsAuthentic'
    <2> DEFINE L == ledger[epoch]
               x == leaf_hash(proof[s][1])
    <2>1. x \in Leaves
      BY <1>3, LoggableProof DEF LocalInv, Appends, Signing
    <2>2. ledger' = [ledger EXCEPT ![epoch] = Append(L, x)]
      BY <1>3 DEF Appends
    <2>3. SUFFICES ASSUME NEW c \in issued'
                   PROVE  /\ c.signer \in Epochs
                          /\ c.size \in 0..Len(ledger'[c.signer])
                          /\ c.root = root_at(ledger'[c.signer], c.size)
      BY DEF HeadsAuthentic
    <2>4. CASE c \in issued
      <3>1. /\ c.signer \in Epochs /\ c.size \in 0..Len(ledger[c.signer])
            /\ c.root = root_at(ledger[c.signer], c.size)
        BY <2>4 DEF HeadsAuthentic
      <3>2. CASE c.signer # epoch
        BY <1>t, <2>2, <3>1, <3>2
      <3>3. CASE c.signer = epoch
        <4>1. L \in Seq(Leaves) /\ c.size \in 0..Len(L) /\ c.root = root_at(L, c.size)
          BY <1>t, <3>1, <3>3
        <4>2. ledger'[c.signer] = Append(L, x)
          BY <1>t, <2>2, <3>3
        <4> HIDE DEF L, x
        <4>3. c.size \in 0..Len(Append(L, x)) /\ root_at(Append(L, x), c.size) = root_at(L, c.size)
          BY <2>1, <4>1, PrefixKeepsRoot
        <4>4. QED
          BY <3>1, <4>1, <4>2, <4>3
      <3>4. QED
        BY <3>2, <3>3
    <2>5. CASE c \notin issued
      BY <1>3, <1>t, <2>5 DEF Appends, AuthenticHead
    <2>6. QED
      BY <2>4, <2>5
  <1>4. QED
    BY <1>1, <1>2, <1>3, StepShape

(* No equivocation, for any number of tasks, boots and proofs: every        *)
(* checkpoint signed by any handler is, for ever, the head of a prefix of   *)
(* the log of the boot that signed it.                                      *)
THEOREM HeadsAreAuthentic == Spec => []HeadsAuthentic
  <1>1. Init => LocalInv /\ HeadsAuthentic
    BY InitType DEF LocalInv, Init, HeadsAuthentic
  <1>2. QED
    BY <1>1, LocalStep, HeadsStep, PTL DEF Spec

-----------------------------------------------------------------------------
(* The audit log *)

(* The initial states of the enclave are initial states of the audit log.   *)
LEMMA AuditInit == Init => Audit!Init
  BY DEF Init, Audit!Init, Epochs

(* Every step of the enclave is a step of the audit log or a stutter.       *)
LEMMA AuditStep == LocalInv /\ CounterInv /\ [Next]_vars => [Audit!Next]_Audit!vars
  <1> SUFFICES ASSUME LocalInv, CounterInv, [Next]_vars PROVE [Audit!Next]_Audit!vars
    OBVIOUS
  <1>t. epoch \in Epochs /\ ledger \in [Epochs -> Seq(Leaves)]
    BY DEF LocalInv, TypeOK
  <1>1. CASE Quiet
    <2>1. Audit!Sign
      BY <1>1 DEF Quiet, AuthenticHead, Audit!Sign, Audit!Authentic
    <2>2. QED
      BY <1>1, <2>1 DEF Quiet, Audit!Next, Audit!Show
  <1>2. CASE Stops \/ \E s \in Slots : Signs(s)
    BY <1>2 DEF Stops, Signs, Audit!vars
  <1>3. CASE Boots
    BY <1>3 DEF Boots, Audit!Next, Audit!NewEpoch
  <1>4. ASSUME NEW s \in Slots, Appends(s) PROVE Audit!Publish
    <2> DEFINE old == ledger[epoch]
               new == ledger'[epoch]
               p   == proof[s][1]
               x   == leaf_hash(p)
    <2>1. /\ Len(old) \in Nat /\ Len(new) = Len(old) + 1 /\ new[Len(old) + 1] = x
          /\ \A i \in 1..Len(old) : Logged(epoch)[i] = EntryOf(old[i])
      BY <1>4, LoggedAfterAppend DEF Logged
    <2>2. p \in Proofs /\ EntryOf(x) = p /\ p.signer = epoch
      BY <1>4, LoggableProof DEF LocalInv, TaskOK, Appends, Signing
    <2>3. \A i \in 1..Len(old) : CounterOf(p) # CounterOf(EntryOf(old[i]))
      BY <1>4, <2>1 DEF Appends, CounterInv, CountersUnique
    <2>4. ledger' = [ledger EXCEPT ![epoch] = Append(old, x)] /\ new = Append(old, x)
      BY <1>4, <1>t DEF Appends
    <2>5. Audit!Sign
      BY <1>4 DEF Appends, AuthenticHead, Audit!Sign, Audit!Authentic
    <2>6. epoch' = epoch
      BY <1>4 DEF Appends
    <2>7. new[Len(new)] = x
      BY <2>1
    <2> HIDE DEF x, p
    <2>8. EntryOf(new[Len(new)]).signer = epoch
      BY <2>2, <2>7
    <2>9. \A i \in 1..Len(old) : Audit!Number(old[i]) # Audit!Number(new[Len(new)])
      BY <2>2, <2>3, <2>7 DEF Audit!Number, CounterOf
    <2>10. QED
      BY <2>1, <2>4, <2>5, <2>6, <2>7, <2>8, <2>9 DEF Audit!Publish
  <1>5. QED
    BY <1>1, <1>2, <1>3, <1>4, StepShape DEF Audit!Next

(* The enclave implements the audit log it promises. *)
THEOREM EnclaveImplementsAuditLog == Spec => ImplementsAuditLog
  <1>1. Init => LocalInv /\ CounterInv
    BY InitType, InitCounters DEF LocalInv
  <1>2. QED
    BY <1>1, AuditInit, LocalStep, CounterStep, AuditStep, PTL
    DEF Spec, ImplementsAuditLog, Audit!Spec

-----------------------------------------------------------------------------
(* What auditors find in the log *)

(* What is logged passes, and so does what is about to be.                  *)
AuditInv == LogPassesAudit /\ \A s \in Signing : PassesAudit(proof[s][1], epoch)

(* No step logs a proof that the auditor would refuse.                      *)
LEMMA AuditInvStep == LocalInv /\ AuditInv /\ [Next]_vars => AuditInv'
  <1> SUFFICES ASSUME LocalInv, AuditInv, [Next]_vars PROVE AuditInv'
    OBVIOUS
  <1>t. epoch \in Epochs /\ ledger \in [Epochs -> Seq(Leaves)]
    BY DEF LocalInv, TypeOK
  <1>1. CASE Quiet
    BY <1>1 DEF Quiet, AuditInv, LogPassesAudit, Logged
  <1>2. CASE Stops \/ Boots
    BY <1>2 DEF Stops, Boots, AuditInv, LogPassesAudit, Logged
  <1>3. ASSUME NEW s \in Slots, Signs(s) PROVE AuditInv'
    BY <1>3 DEF Signs, AuditInv, LogPassesAudit, Logged
  <1>4. ASSUME NEW s \in Slots, Appends(s) PROVE AuditInv'
    <2>1. /\ epoch' = epoch /\ s \in Signing /\ Signing' = Signing \ {s}
          /\ \A t \in Signing : proof'[t] = proof[t]
          /\ \A e \in Epochs \ {epoch} : ledger'[e] = ledger[e]
      BY <1>4, <1>t DEF Appends
    <2>2. \A t \in Signing' : PassesAudit(proof'[t][1], epoch')
      BY <2>1 DEF AuditInv
    <2>3. SUFFICES ASSUME NEW e \in Epochs, NEW i \in 1..Len(ledger'[e])
                   PROVE  PassesAudit(Logged(e)'[i], e)
      BY <2>2 DEF AuditInv, LogPassesAudit
    <2>4. CASE e # epoch
      <3>1. Logged(e)' = Logged(e) /\ i \in 1..Len(ledger[e])
        BY <2>1, <2>4 DEF Logged
      <3>2. QED
        BY <3>1 DEF AuditInv, LogPassesAudit
    <2>5. CASE e = epoch
      <3>1. /\ Len(ledger[epoch]) \in Nat /\ Len(ledger'[epoch]) = Len(ledger[epoch]) + 1
            /\ \A j \in 1..Len(ledger[epoch]) : Logged(epoch)'[j] = Logged(epoch)[j]
            /\ Logged(epoch)'[Len(ledger[epoch]) + 1] = proof[s][1]
        BY <1>4, LoggedAfterAppend
      <3>2. i \in 1..Len(ledger[epoch]) \/ i = Len(ledger[epoch]) + 1
        BY <2>5, <3>1
      <3>3. Logged(e)'[i] = Logged(epoch)'[i]
        BY <2>1, <2>5 DEF Logged
      <3>4. QED
        BY <1>t, <2>1, <2>5, <3>1, <3>2, <3>3 DEF AuditInv, LogPassesAudit
    <2>6. QED
      BY <2>4, <2>5
  <1>5. QED
    BY <1>1, <1>2, <1>3, <1>4, StepShape

(* Every proof any boot ever logs satisfies every check of the auditor,     *)
(* under the keys that boot attested.                                       *)
THEOREM LogAlwaysPassesAudit == Spec => []LogPassesAudit
  <1>1. Init => LocalInv /\ AuditInv
    <2>1. ASSUME Init PROVE AuditInv
      <3>1. Signing = {} /\ \A e \in Epochs : Len(ledger[e]) = 0
        BY <2>1 DEF Init, Signing
      <3>2. QED
        BY <3>1 DEF AuditInv, LogPassesAudit
    <2>2. QED
      BY <2>1, InitType DEF LocalInv
  <1>2. AuditInv => LogPassesAudit
    BY DEF AuditInv
  <1>3. QED
    BY <1>1, <1>2, LocalStep, AuditInvStep, PTL DEF Spec
-----------------------------------------------------------------------------
(* The zeroization report *)

(* ZeroizationTruthful, of one task. *)
Truthful(s) ==
    pc[s] \in {"append", "reply"} /\ proof[s] # <<>> =>
        /\ buf[s] # "live"
        /\ proof[s][1].statement.input_buffer_wiped <=> buf[s] = "wiped"

(* What a step does to the task that takes it: it leaves it without a       *)
(* proof to send, lets it sign, or moves a signed proof on untouched.       *)
LEMMA ReportOfActor ==
    ASSUME LocalInv, NEW s \in Slots, Truthful(s),
           \/ Accept(s) \/ DropFrame(s) \/ Handle(s) \/ Respond(s)
           \/ \E e \in Envelopes : ReadFrame(s, e)
    PROVE  Truthful(s)'
  <1> USE DEF LocalInv
  <1>1. CASE Accept(s) \/ \E e \in Envelopes : ReadFrame(s, e)
    BY <1>1 DEF Accept, ReadFrame, Goto, TypeOK, Truthful
  <1>2. CASE DropFrame(s) \/ Respond(s)
    BY <1>2 DEF DropFrame, Respond, EndTask, TypeOK, Truthful
  <1>3. CASE \/ ParseRequest(s) \/ OpenChannel(s) \/ CheckCommitment(s)
             \/ EvaluatePolicy(s) \/ CallUpstream(s)
    <2>1. \E to \in PcValues \ {"append", "reply"} : pc' = [pc EXCEPT ![s] = to]
      BY <1>3 DEF ParseRequest, OpenChannel, CheckCommitment, EvaluatePolicy, CallUpstream,
                  fail, failRequest, Goto, PcValues
    <2>2. QED
      BY <2>1 DEF TypeOK, Truthful
  <1>4. CASE \/ PublishAttestation(s) \/ LedgerRoot(s) \/ LedgerProof(s)
             \/ LedgerConsistency(s) \/ NotFound(s)
    <2>1. pc[s] = "dispatch" /\ proof' = proof
      BY <1>4 DEF PublishAttestation, LedgerRoot, LedgerProof, LedgerConsistency, NotFound,
                  Dispatch
    <2>2. QED
      BY <2>1 DEF TaskOK, Truthful
  <1>5. CASE SignSuccess(s)
    <2> DEFINE p == Signed(SuccessStatement(s))
    <2>1. p.statement.input_buffer_wiped = TRUE
      BY DEF Signed, SuccessStatement
    <2>2. buf[s] = "wiped" /\ buf' = buf /\ proof' = [proof EXCEPT ![s] = <<p>>]
      BY <1>5 DEF SignSuccess, Goto, BufferOK
    <2> HIDE DEF p
    <2>3. QED
      BY <2>1, <2>2 DEF TypeOK, Truthful
  <1>6. CASE SignFailure(s)
    <2> DEFINE p == Signed(FailureStatement(s))
    <2>1. p.statement.input_buffer_wiped = verdict[s].wiped
      BY DEF Signed, FailureStatement
    <2>2. /\ buf[s] = IF verdict[s].wiped THEN "wiped" ELSE "none"
          /\ buf' = buf /\ proof' = [proof EXCEPT ![s] = <<p>>]
      BY <1>6 DEF SignFailure, Goto, BufferOK
    <2> HIDE DEF p
    <2>3. verdict[s].wiped \in BOOLEAN
      BY DEF TypeOK, Verdicts
    <2>4. proof'[s][1] = p
      BY <2>2 DEF TypeOK
    <2>5. QED
      BY <2>1, <2>2, <2>3, <2>4 DEF Truthful
  <1>7. CASE AppendProof(s)
    BY <1>7 DEF AppendProof, Truthful
  <1>8. QED
    BY <1>1, <1>2, <1>3, <1>4, <1>5, <1>6, <1>7 DEF Handle

(* A step leaves every other task alone. *)
LEMMA BystanderUntouched ==
    ASSUME LocalInv, NEW s \in Slots, NEW t \in Slots, s # t,
           \/ Accept(s) \/ DropFrame(s) \/ Handle(s) \/ Respond(s)
           \/ \E e \in Envelopes : ReadFrame(s, e)
    PROVE  /\ pc'[t] = pc[t] /\ proof'[t] = proof[t] /\ buf'[t] = buf[t]
           /\ env'[t] = env[t] /\ verdict'[t] = verdict[t] /\ epoch' = epoch
  <1> USE DEF LocalInv, TypeOK, shared
  <1>1. CASE Accept(s) \/ \E e \in Envelopes : ReadFrame(s, e)
    BY <1>1 DEF Accept, ReadFrame, Goto
  <1>2. CASE DropFrame(s) \/ Respond(s)
    BY <1>2 DEF DropFrame, Respond, EndTask
  <1>3. CASE \/ ParseRequest(s) \/ OpenChannel(s) \/ CheckCommitment(s)
             \/ EvaluatePolicy(s) \/ CallUpstream(s)
    BY <1>3 DEF ParseRequest, OpenChannel, CheckCommitment, EvaluatePolicy, CallUpstream,
                fail, failRequest, Goto, Wipe
  <1>4. CASE \/ PublishAttestation(s) \/ LedgerRoot(s) \/ LedgerProof(s)
             \/ LedgerConsistency(s) \/ NotFound(s) \/ AppendProof(s)
    BY <1>4 DEF PublishAttestation, LedgerRoot, LedgerProof, LedgerConsistency, NotFound,
                AppendProof, Answer
  <1>5. CASE SignSuccess(s) \/ SignFailure(s)
    BY <1>5 DEF SignSuccess, SignFailure, Goto
  <1>6. QED
    BY <1>1, <1>2, <1>3, <1>4, <1>5 DEF Handle

(* A step keeps every report truthful. *)
LEMMA ReportStep ==
    LocalInv /\ ZeroizationTruthful /\ [Next]_vars => ZeroizationTruthful'
  <1> SUFFICES ASSUME LocalInv, ZeroizationTruthful, [Next]_vars, NEW t \in Slots
               PROVE  Truthful(t)'
    BY DEF ZeroizationTruthful, Truthful
  <1>t. Truthful(t)
    BY DEF ZeroizationTruthful, Truthful
  <1>1. CASE UNCHANGED vars \/ Restart
    BY <1>1, <1>t DEF vars, Restart, locals, Truthful
  <1>2. CASE Crash
    BY <1>2 DEF Crash, Truthful
  <1>3. ASSUME NEW s \in Slots,
               \/ Accept(s) \/ DropFrame(s) \/ Handle(s) \/ Respond(s)
               \/ \E e \in Envelopes : ReadFrame(s, e)
        PROVE  Truthful(t)'
    <2>1. CASE s = t
      BY <1>3, <1>t, <2>1, ReportOfActor
    <2>2. CASE s # t
      <3>1. pc'[t] = pc[t] /\ proof'[t] = proof[t] /\ buf'[t] = buf[t]
        BY <1>3, <2>2, BystanderUntouched
      <3>2. QED
        BY <1>t, <3>1 DEF Truthful
    <2>3. QED
      BY <2>1, <2>2
  <1>4. QED
    BY <1>1, <1>2, <1>3 DEF Next

(* Whatever way a request leaves process_and_delete, the zeroization report *)
(* the enclave signs is true of the buffer that task holds.                 *)
THEOREM ReportsAreTruthful == Spec => []ZeroizationTruthful
  <1>1. Init => LocalInv /\ ZeroizationTruthful
    BY InitType DEF LocalInv, Init, ZeroizationTruthful
  <1>2. QED
    BY <1>1, LocalStep, ReportStep, PTL DEF Spec

-----------------------------------------------------------------------------
(* Replies verify. *)

(* What RepliesVerify asks of one reply, under the key of this boot. *)
ReplyOK(rep) ==
    LET r == rep.content IN
    CASE rep.kind = "inference"   -> verifyReceipt(r[1], r[2], epoch)
      [] rep.kind = "inclusion"   ->
           /\ check_checkpoint_signature(r[1].checkpoint, epoch)
           /\ verifyInclusion(r[1].leaf_hash, r[1].index, r[1].checkpoint.size,
                              r[1].audit_path, r[1].checkpoint.root)
      [] rep.kind = "consistency" ->
           verifyConsistency(r[1].size, r[1].root, r[2].size, r[2].root, r[3])
      [] OTHER -> TRUE

(* A task that has not answered yet has no reply: no reply of one boot is   *)
(* left over for the next, whose key is another.                            *)
ReplyInv ==
    /\ DOMAIN reply = Slots
    /\ reply = [s \in Slots |-> reply[s]]
    /\ \A s \in Slots : pc[s] # "reply" => reply[s] = NoReply
    /\ \A s \in Slots : ReplyOK(reply[s])

(* The kinds of reply that carry nothing to verify.                         *)
LEMMA PlainReply ==
    ASSUME NEW rep, rep.kind \in {"none", "error", "attestation", "root"}
    PROVE  ReplyOK(rep)
  BY DEF ReplyOK

(* The receipt of a leaf verifies against the head it carries.              *)
LEMMA ReceiptVerifies ==
    ASSUME NEW T, NEW leaves \in Seq(T), NEW idx \in Nat, idx < Len(leaves)
    PROVE  LET r == Receipt(leaves, idx)
           IN  /\ check_checkpoint_signature(r.checkpoint, epoch)
               /\ r.leaf_hash = leaves[idx + 1]
               /\ verifyInclusion(r.leaf_hash, r.index, r.checkpoint.size,
                                  r.audit_path, r.checkpoint.root)
  <1> DEFINE r == Receipt(leaves, idx)
  <1>1. verifyInclusion(leaves[idx + 1], idx, Len(leaves), inclusion(leaves, idx), mth(leaves))
    BY InclusionVerifies
  <1>2. r.audit_path = inclusion(leaves, idx)
    BY DEF Receipt, inclusion_path
  <1>3. /\ r.leaf_hash = leaves[idx + 1] /\ r.index = idx
        /\ r.checkpoint.size = Len(leaves) /\ r.checkpoint.root = mth(leaves)
        /\ r.checkpoint.signer = epoch
    BY DEF Receipt, SignedHead, sign_checkpoint
  <1> HIDE DEF r
  <1>4. QED
    BY <1>1, <1>2, <1>3 DEF r, check_checkpoint_signature, SignedBy

(* The root of a prefix is the hash of its range of the whole log.          *)
LEMMA RootAtIsRange ==
    ASSUME NEW T, NEW leaves \in Seq(T), NEW m \in Nat, m <= Len(leaves)
    PROVE  root_at(leaves, m) = mth_range(leaves, 0, m)
  <1> DEFINE old == SubSeq(leaves, 1, m)
  <1>1. old \in Seq(T) /\ Len(old) = m /\ \A x \in 1..m : old[x] = leaves[x]
    OBVIOUS
  <1> HIDE DEF old
  <1>2. mth(old) = mth_range(leaves, 0, Len(old))
    BY <1>1, MthPrefix
  <1>3. QED
    BY <1>1, <1>2 DEF root_at, old

(* The two heads ledger_consistency signs are reconciled by the path it     *)
(* returns with them.                                                       *)
LEMMA ConsistencyReplyVerifies ==
    ASSUME NEW T, NEW leaves \in Seq(T), NEW m \in Nat, consistency_path(leaves, m) # <<>>
    PROVE  verifyConsistency(m, root_at(leaves, m), Len(leaves), mth(leaves),
                             consistency_path(leaves, m)[1])
  <1>1. m <= Len(leaves)
    BY DEF consistency_path
  <1>2. QED
    BY <1>1, RootAtIsRange, ConsistencyVerifies

(* A task that answers leaves every other task's reply alone.               *)
LEMMA AnswerKeeps ==
    ASSUME LocalInv, ReplyInv, NEW s \in Slots, NEW r,
           Answer(s, r), ReplyOK(r), UNCHANGED epoch
    PROVE  ReplyInv'
  <1>1. pc' = [pc EXCEPT ![s] = "reply"] /\ reply' = [reply EXCEPT ![s] = r]
    BY DEF Answer
  <1>2. pc \in [Slots -> PcValues]
    BY DEF LocalInv, TypeOK
  <1>3. /\ DOMAIN reply' = Slots /\ reply' = [t \in Slots |-> reply'[t]]
        /\ reply'[s] = r /\ \A t \in Slots \ {s} : reply'[t] = reply[t]
    BY <1>1 DEF ReplyInv
  <1>4. \A t \in Slots : pc'[t] # "reply" => t # s /\ pc[t] # "reply"
    BY <1>1, <1>2
  <1>5. \A t \in Slots : pc'[t] # "reply" => reply'[t] = NoReply
    BY <1>3, <1>4 DEF ReplyInv
  <1>6. \A t \in Slots : ReplyOK(reply'[t])
    BY <1>3 DEF ReplyInv
  <1>7. QED
    BY <1>3, <1>5, <1>6 DEF ReplyInv, ReplyOK

(* A step that ends or empties tasks and changes no reply of another keeps  *)
(* them all, under a key that only changes when no task has a reply.        *)
LEMMA NoReplyKeeps ==
    ASSUME ReplyInv, DOMAIN reply' = Slots, reply' = [t \in Slots |-> reply'[t]],
           \A t \in Slots : \/ reply'[t] = NoReply
                            \/ reply'[t] = reply[t] /\ pc'[t] = "reply" /\ UNCHANGED epoch
    PROVE  ReplyInv'
  <1>1. \A t \in Slots : pc'[t] # "reply" => reply'[t] = NoReply
    OBVIOUS
  <1>2. ASSUME NEW t \in Slots PROVE ReplyOK(reply[t])'
    <2>1. CASE reply'[t] = NoReply
      BY <2>1 DEF ReplyOK, NoReply, Reply
    <2>2. CASE reply'[t] = reply[t] /\ UNCHANGED epoch
      <3>1. ReplyOK(reply[t])
        BY DEF ReplyInv
      <3>2. QED
        BY <2>2, <3>1 DEF ReplyOK
    <2>3. QED
      BY <2>1, <2>2
  <1>3. QED
    BY <1>1, <1>2 DEF ReplyInv

(* Every answer of every handler verifies when it is given, and stays       *)
(* verifiable while other tasks append.                                     *)
LEMMA ReplyStep == LocalInv /\ ReplyInv /\ [Next]_vars => ReplyInv'
  <1> SUFFICES ASSUME LocalInv, ReplyInv, [Next]_vars PROVE ReplyInv'
    OBVIOUS
  <1>t. /\ pc \in [Slots -> PcValues] /\ epoch \in Epochs /\ ledger[epoch] \in Seq(Leaves)
        /\ env \in [Slots -> Envelopes \cup {NoEnv}]
    BY DEF LocalInv, TypeOK
  <1>r. /\ DOMAIN reply = Slots /\ reply = [s \in Slots |-> reply[s]]
        /\ \A s \in Slots : pc[s] # "reply" => reply[s] = NoReply
    BY DEF ReplyInv
  <1>0. CASE UNCHANGED vars
    BY <1>0 DEF vars, shared, locals, ReplyInv, ReplyOK
  <1>1. ASSUME NEW s \in Slots, NEW from, pc[s] = from, from # "reply",
               NEW to, pc' = [pc EXCEPT ![s] = to], UNCHANGED <<epoch, reply>>
        PROVE  ReplyInv'
    BY <1>1, <1>t, <1>r, NoReplyKeeps
  <1>2. ASSUME NEW s \in Slots, DropFrame(s) \/ Respond(s) PROVE ReplyInv'
    <2>1. /\ reply' = [reply EXCEPT ![s] = NoReply] /\ pc' = [pc EXCEPT ![s] = "idle"]
          /\ UNCHANGED epoch
      BY <1>2 DEF DropFrame, Respond, EndTask, shared
    <2>2. QED
      BY <2>1, <1>t, <1>r, NoReplyKeeps
  <1>3. ASSUME NEW s \in Slots,
               \/ Accept(s) \/ ParseRequest(s) \/ OpenChannel(s) \/ CheckCommitment(s)
               \/ EvaluatePolicy(s) \/ CallUpstream(s) \/ SignSuccess(s) \/ SignFailure(s)
               \/ \E e \in Envelopes : ReadFrame(s, e)
        PROVE  ReplyInv'
    <2>1. pc[s] # "reply" /\ UNCHANGED <<epoch, reply>>
      BY <1>3 DEF Accept, ParseRequest, OpenChannel, CheckCommitment, EvaluatePolicy,
                  CallUpstream, SignSuccess, SignFailure, ReadFrame, Goto, Dispatch, shared
    <2>2. \E to : pc' = [pc EXCEPT ![s] = to]
      BY <1>3, Zenon DEF Accept, ParseRequest, OpenChannel, CheckCommitment, EvaluatePolicy,
                  CallUpstream, SignSuccess, SignFailure, ReadFrame, Goto, fail, failRequest
    <2>3. QED
      BY <1>1, <2>1, <2>2
  <1>4. ASSUME NEW s \in Slots, PublishAttestation(s) \/ LedgerRoot(s) \/ NotFound(s)
        PROVE  ReplyInv'
    <2>1. \E r : Answer(s, r) /\ r.kind \in {"error", "attestation", "root"}
      <3>1. Reply(500, "error", <<>>).kind = "error" /\ Reply(404, "error", <<>>).kind = "error"
        BY DEF Reply
      <3>2. \A x : Reply(200, "attestation", x).kind = "attestation" /\ Reply(200, "root", x).kind = "root"
        BY DEF Reply
      <3>3. QED
        BY <1>4, <3>1, <3>2 DEF PublishAttestation, LedgerRoot, NotFound
    <2>2. UNCHANGED epoch
      BY <1>4 DEF PublishAttestation, LedgerRoot, NotFound, shared
    <2>3. QED
      BY <2>1, <2>2, PlainReply, AnswerKeeps
  <1>5. ASSUME NEW s \in Slots, LedgerProof(s) PROVE ReplyInv'
    <2> DEFINE leaves == ledger[epoch]
               arg    == env[s].arg
    <2>1. UNCHANGED epoch
      BY <1>5 DEF LedgerProof
    <2>2. CASE \E st : Answer(s, Reply(st, "error", <<>>))
      BY <2>1, <2>2, PlainReply, AnswerKeeps DEF Reply
    <2>3. CASE arg # <<>> /\ arg[1] < Len(leaves)
               /\ Answer(s, Reply(200, "inclusion", <<Receipt(leaves, arg[1])>>))
      <3>1. arg[1] \in Nat
        BY <1>t, <2>3, IndexOfEnvelope
      <3> DEFINE c == Receipt(leaves, arg[1])
                 rep == Reply(200, "inclusion", <<c>>)
      <3>2. /\ check_checkpoint_signature(c.checkpoint, epoch)
            /\ verifyInclusion(c.leaf_hash, c.index, c.checkpoint.size,
                               c.audit_path, c.checkpoint.root)
        BY <1>t, <2>3, <3>1, ReceiptVerifies
      <3>3. Answer(s, rep)
        BY <2>3
      <3> HIDE DEF c
      <3>4. rep.kind = "inclusion" /\ rep.content[1] = c
        BY DEF Reply
      <3> HIDE DEF rep
      <3>5. ReplyOK(rep)
        BY <3>2, <3>4 DEF ReplyOK
      <3>6. QED
        BY <2>1, <3>3, <3>5, AnswerKeeps
    <2>4. QED
      BY <1>5, <2>2, <2>3, Zenon DEF LedgerProof
  <1>6. ASSUME NEW s \in Slots, LedgerConsistency(s) PROVE ReplyInv'
    <2> DEFINE leaves == ledger[epoch]
               arg    == env[s].arg
               path   == IF arg = <<>> THEN <<>> ELSE consistency_path(leaves, arg[1])
               from   == sign_checkpoint(arg[1], root_at(leaves, arg[1]))
               rep    == Reply(200, "consistency", <<from, SignedHead(leaves), path[1]>>)
    <2>1. UNCHANGED epoch
      BY <1>6 DEF LedgerConsistency
    <2>2. CASE Answer(s, Reply(400, "error", <<>>))
      BY <2>1, <2>2, PlainReply, AnswerKeeps DEF Reply
    <2>3. CASE path # <<>> /\ Answer(s, rep)
      <3>1. arg # <<>> /\ path = consistency_path(leaves, arg[1]) /\ path # <<>>
        BY <2>3
      <3>2. arg[1] \in Nat
        BY <1>t, <3>1, IndexOfEnvelope
      <3>3. verifyConsistency(arg[1], root_at(leaves, arg[1]), Len(leaves), mth(leaves), path[1])
        BY <1>t, <3>1, <3>2, ConsistencyReplyVerifies
      <3>4. from.size = arg[1] /\ from.root = root_at(leaves, arg[1])
        BY DEF sign_checkpoint
      <3>5. SignedHead(leaves).size = Len(leaves) /\ SignedHead(leaves).root = mth(leaves)
        BY DEF SignedHead, sign_checkpoint
      <3> HIDE DEF path, from, arg, leaves
      <3>6. /\ rep.kind = "consistency" /\ rep.content[1] = from
            /\ rep.content[2] = SignedHead(leaves) /\ rep.content[3] = path[1]
        BY DEF Reply
      <3> HIDE DEF rep
      <3>7. ReplyOK(rep)
        BY <3>3, <3>4, <3>5, <3>6 DEF ReplyOK
      <3>8. QED
        BY <2>1, <2>3, <3>7, AnswerKeeps
    <2>4. QED
      BY <1>6, <2>2, <2>3, Zenon DEF LedgerConsistency
  <1>7. ASSUME NEW s \in Slots, AppendProof(s) PROVE ReplyInv'
    <2> DEFINE p      == proof[s][1]
               leaves == Append(ledger[epoch], leaf_hash(p))
               idx    == Len(leaves) - 1
               c      == Receipt(leaves, idx)
               rep    == Reply(200, "inference", <<p, c>>)
    <2>1. pc[s] = "append" /\ UNCHANGED epoch /\ Answer(s, rep)
      BY <1>7 DEF AppendProof, log_append
    <2>2. leaf_hash(p) \in Leaves /\ p.signer = epoch
      BY <2>1, LoggableProof DEF LocalInv, TaskOK
    <2> HIDE DEF p
    <2>3. /\ leaves \in Seq(Leaves) /\ idx \in Nat /\ idx < Len(leaves)
          /\ leaves[idx + 1] = leaf_hash(p)
      BY <1>t, <2>2, AppendProperties
    <2> HIDE DEF leaves, idx
    <2>4. /\ check_checkpoint_signature(c.checkpoint, epoch)
          /\ c.leaf_hash = leaf_hash(p)
          /\ verifyInclusion(c.leaf_hash, c.index, c.checkpoint.size,
                             c.audit_path, c.checkpoint.root)
      BY <2>3, ReceiptVerifies
    <2> HIDE DEF c
    <2>5. verifyReceipt(p, c, epoch)
      BY <2>2, <2>4 DEF verifyReceipt, check_proof_signature, SignedBy
    <2>6. rep.kind = "inference" /\ rep.content[1] = p /\ rep.content[2] = c
      BY DEF Reply
    <2> HIDE DEF rep
    <2>7. ReplyOK(rep)
      BY <2>5, <2>6 DEF ReplyOK
    <2>8. QED
      BY <2>1, <2>7, AnswerKeeps
  <1>8. CASE Crash
    <2>1. reply' = [s \in Slots |-> NoReply]
      BY <1>8 DEF Crash
    <2>2. QED
      BY <2>1, NoReplyKeeps
  <1>9. CASE Restart
    <2>1. \A s \in Slots : pc[s] # "reply"
      BY <1>9 DEF Restart, LocalInv, BootOK
    <2>2. reply' = reply
      BY <1>9 DEF Restart, locals
    <2>3. QED
      BY <1>r, <2>1, <2>2, NoReplyKeeps
  <1>10. QED
    BY <1>0, <1>2, <1>3, <1>4, <1>5, <1>6, <1>7, <1>8, <1>9 DEF Next, Handle

(* Every receipt, inclusion proof and consistency proof a task is about to  *)
(* send verifies with the SDK's verifiers under the key of the boot that    *)
(* sends it, for logs of any length and any interleaving of appends.        *)
THEOREM RepliesAlwaysVerify == Spec => []RepliesVerify
  <1>1. Init => LocalInv /\ ReplyInv
    <2>1. Init => LocalInv
      BY InitType DEF LocalInv
    <2>2. ReplyOK(NoReply)
      BY PlainReply DEF NoReply, Reply
    <2>3. Init => ReplyInv
      BY <2>2 DEF Init, ReplyInv
    <2>4. QED
      BY <2>1, <2>3
  <1>2. ReplyInv => RepliesVerify
    BY DEF ReplyInv, ReplyOK, RepliesVerify
  <1>3. QED
    BY <1>1, <1>2, LocalStep, ReplyStep, PTL DEF Spec
-----------------------------------------------------------------------------
(* The policy engine and its reference *)

Encoding == INSTANCE FoldTheorems WITH op <- encode
Decoding == INSTANCE FoldTheorems WITH op <- keep
Scanning == INSTANCE FoldTheorems WITH op <- scan

(* The three loops of the policy are folds, so FoldTheorems applies to them: *)
(* the encoding of a text,                                                  *)
LEMMA BytesIsFold == \A t : bytes(t) = Encoding!Fold(<<>>, t)
  BY DEF bytes, Encoding!Fold, FoldLeft, MapThenFoldSet, Max, Encoding!FoldLeft,
         Encoding!MapThenFoldSet, Encoding!Max

(* its decoding, *)
LEMMA DecodeIsFold == \A t : decode_ignore(t) = Decoding!Fold(<<>>, t)
  BY DEF decode_ignore, Decoding!Fold, FoldLeft, MapThenFoldSet, Max, Decoding!FoldLeft,
         Decoding!MapThenFoldSet, Decoding!Max

(* and the scan for runs of digits. *)
LEMMA ScanIsFold == \A b : digit_runs(b) = Scanning!Fold([run |-> 0, hit |-> FALSE], b)
  BY DEF digit_runs, Scanning!Fold, FoldLeft, MapThenFoldSet, Max, Scanning!FoldLeft,
         Scanning!MapThenFoldSet, Scanning!Max

(* A loop that pushes every element it meets copies its input. *)
LEMMA CopyTrace ==
    ASSUME NEW T, NEW t \in Seq(T), NEW tr, tr[0] = <<>>,
           \A k \in Nat : k < Len(t) => tr[k + 1] = Append(tr[k], t[k + 1])
    PROVE  tr[Len(t)] = t
  <1> DEFINE S == {k \in Nat : k <= Len(t) => tr[k] = SubSeq(t, 1, k)}
  <1>1. 0 \in S
    <2>1. SubSeq(t, 1, 0) = <<>>
      OBVIOUS
    <2>2. QED
      BY <2>1
  <1>2. ASSUME NEW k \in Nat, k \in S PROVE k + 1 \in S
    <2>1. SUFFICES ASSUME k + 1 <= Len(t) PROVE tr[k + 1] = SubSeq(t, 1, k + 1)
      OBVIOUS
    <2>2. tr[k] = SubSeq(t, 1, k) /\ tr[k + 1] = Append(tr[k], t[k + 1])
      BY <1>2, <2>1
    <2>3. Append(SubSeq(t, 1, k), t[k + 1]) = SubSeq(t, 1, k + 1)
      BY <2>1
    <2>4. QED
      BY <2>2, <2>3
  <1> HIDE DEF S
  <1>3. \A k \in Nat : k \in S
    BY <1>1, <1>2, Encoding!Rec!Induction
  <1>4. Len(t) \in Nat /\ Len(t) <= Len(t) /\ SubSeq(t, 1, Len(t)) = t
    BY SubSeqFull
  <1>5. QED
    BY <1>3, <1>4 DEF S

(* ASCII text is its own bytes and its own decoding. *)
LEMMA AsciiIsItself ==
    ASSUME NEW t \in Seq(Ascii)
    PROVE  bytes(t) = t /\ decode_ignore(t) = t
  <1>0. \A k \in Nat : k < Len(t) => t[k + 1] \in Ascii /\ t[k + 1] # "udigit" /\ t[k + 1] # "stray"
    BY DEF Ascii
  <1>1. bytes(t) = t
    <2>1. PICK tr : Encoding!Trace(<<>>, t, tr) /\ tr[Len(t)] = Encoding!Fold(<<>>, t)
      BY Encoding!FoldTrace
    <2>2. tr[0] = <<>> /\ \A k \in Nat : tr[k + 1] = encode(tr[k], t[k + 1])
      BY <2>1 DEF Encoding!Trace
    <2>3. \A k \in Nat : k < Len(t) => tr[k + 1] = Append(tr[k], t[k + 1])
      BY <1>0, <2>2 DEF encode
    <2>4. tr[Len(t)] = t
      BY <2>2, <2>3, CopyTrace
    <2>5. QED
      BY <2>1, <2>4, BytesIsFold
  <1>2. decode_ignore(t) = t
    <2>1. PICK tr : Decoding!Trace(<<>>, t, tr) /\ tr[Len(t)] = Decoding!Fold(<<>>, t)
      BY Decoding!FoldTrace
    <2>2. tr[0] = <<>> /\ \A k \in Nat : tr[k + 1] = keep(tr[k], t[k + 1])
      BY <2>1 DEF Decoding!Trace
    <2>3. \A k \in Nat : k < Len(t) => tr[k + 1] = Append(tr[k], t[k + 1])
      BY <1>0, <2>2 DEF keep
    <2>4. tr[Len(t)] = t
      BY <2>2, <2>3, CopyTrace
    <2>5. QED
      BY <2>1, <2>4, DecodeIsFold
  <1>3. QED
    BY <1>1, <1>2

(* What \b\d{3}-\d{2}-\d{4}\b finds in ASCII text, the window test finds.   *)
LEMMA SsnIsFound ==
    ASSUME NEW t \in Seq(Ascii), Matches(t, SsnShape)
    PROVE  looks_like_ssn(t)
  <1>1. SsnShape \in Seq({"digit", "dash"}) /\ Len(SsnShape) \in Nat
    BY PolicyAssumption
  <1> DEFINE w == Len(SsnShape)
  <1>2. PICK i \in 0..(Len(t) - w) :
            \A j \in 1..w : IF SsnShape[j] = "digit" THEN IsDigit(t[i + j])
                            ELSE t[i + j] = SsnShape[j]
    BY DEF Matches
  <1>3. ASSUME NEW j \in 1..w PROVE t[i + j] = SsnShape[j]
    <2>1. t[i + j] \in Ascii
      BY <1>1, <1>2
    <2>2. QED
      BY <1>2, <2>1 DEF IsDigit, Ascii, Symbols
  <1>4. [j \in 1..w |-> t[i + j]] = SsnShape
    BY <1>1, <1>3
  <1>5. QED
    BY <1>2, <1>4 DEF looks_like_ssn, AnyWindow

(* What \b\d{16}\b finds in ASCII text, the scan over digit runs finds: the *)
(* run that the match is begins at a count of zero, is counted to its full  *)
(* length, and is looked at when it ends; a hit is never taken back.        *)
LEMMA PanIsFound ==
    ASSUME NEW t \in Seq(Ascii), Matches(t, [j \in 1..PanLength |-> "digit"])
    PROVE  looks_like_pan(t)
  <1> DEFINE n     == PanLength
             shape == [j \in 1..n |-> "digit"]
             st0   == [run |-> 0, hit |-> FALSE]
  <1>1. n \in Nat \ {0} /\ Len(t) \in Nat
    BY PolicyAssumption
  <1>2. Len(shape) = n
    BY <1>1
  <1>3. PICK i \in 0..(Len(t) - n) :
            /\ \A j \in 1..n : IsDigit(t[i + j])
            /\ i = 0 \/ ~IsWord(t[i])
            /\ i + n = Len(t) \/ ~IsWord(t[i + n + 1])
    BY <1>2 DEF Matches
  <1>4. i \in Nat /\ i + n <= Len(t)
    BY <1>1, <1>3
  <1>5. /\ \A j \in 1..n : t[i + j] = "digit"
        /\ i # 0 => t[i] # "digit"
        /\ i + n # Len(t) => t[i + n + 1] # "digit"
    <2>1. ASSUME NEW j \in 1..n PROVE t[i + j] = "digit"
      <3>1. t[i + j] \in Ascii
        BY <1>1, <1>4
      <3>2. QED
        BY <1>3, <3>1 DEF IsDigit, Ascii, Symbols
    <2>2. QED
      BY <1>3, <2>1 DEF IsWord
  <1>6. PICK tr : Scanning!Trace(st0, t, tr) /\ tr[Len(t)] = Scanning!Fold(st0, t)
    BY Scanning!FoldTrace
  <1>7. tr[0] = st0 /\ \A k \in Nat : tr[k + 1] = scan(tr[k], t[k + 1])
    BY <1>6 DEF Scanning!Trace
  <1>8. digit_runs(t) = tr[Len(t)]
    BY <1>6, ScanIsFold
  <1> HIDE DEF n, shape, st0
  <1>9. \A k \in Nat : tr[k] = [run |-> tr[k].run, hit |-> tr[k].hit]
    <2> DEFINE S == {k \in Nat : tr[k] = [run |-> tr[k].run, hit |-> tr[k].hit]}
    <2>1. 0 \in S
      BY <1>7 DEF st0
    <2>2. ASSUME NEW k \in Nat, k \in S PROVE k + 1 \in S
      <3>1. tr[k + 1] = scan(tr[k], t[k + 1])
        BY <1>7
      <3>2. QED
        BY <2>2, <3>1 DEF scan
    <2> HIDE DEF S
    <2>3. \A k \in Nat : k \in S
      BY <2>1, <2>2, Encoding!Rec!Induction
    <2>4. QED
      BY <2>3 DEF S
  <1>10. \A k \in Nat : /\ t[k + 1] = "digit" => tr[k + 1].run = tr[k].run + 1 /\ tr[k + 1].hit = tr[k].hit
                        /\ t[k + 1] # "digit" => /\ tr[k + 1].run = 0
                                                 /\ tr[k + 1].hit = (tr[k].hit \/ tr[k].run = n)
    <2> SUFFICES ASSUME NEW k \in Nat
                 PROVE  /\ t[k + 1] = "digit" => tr[k + 1].run = tr[k].run + 1 /\ tr[k + 1].hit = tr[k].hit
                        /\ t[k + 1] # "digit" => /\ tr[k + 1].run = 0
                                                 /\ tr[k + 1].hit = (tr[k].hit \/ tr[k].run = n)
      OBVIOUS
    <2>1. tr[k + 1] = scan(tr[k], t[k + 1]) /\ tr[k] = [run |-> tr[k].run, hit |-> tr[k].hit]
      BY <1>7, <1>9
    <2>2. QED
      BY <2>1 DEF scan, n
  <1>11. tr[i].run = 0
    <2>1. CASE i = 0
      BY <2>1, <1>7 DEF st0
    <2>2. CASE i # 0
      <3>1. i - 1 \in Nat /\ (i - 1) + 1 = i
        BY <1>4, <2>2
      <3>2. QED
        BY <1>5, <1>10, <2>2, <3>1
    <2>3. QED
      BY <2>1, <2>2
  <1>12. tr[i + n].run = n
    <2> DEFINE S == {j \in Nat : j <= n => tr[i + j].run = j}
    <2>1. 0 \in S
      BY <1>4, <1>11
    <2>2. ASSUME NEW j \in Nat, j \in S PROVE j + 1 \in S
      <3>1. SUFFICES ASSUME j + 1 <= n PROVE tr[i + (j + 1)].run = j + 1
        OBVIOUS
      <3>2. j + 1 \in 1..n /\ i + j \in Nat /\ i + (j + 1) = (i + j) + 1
        BY <1>1, <1>4, <3>1
      <3>3. tr[i + j].run = j
        BY <1>1, <2>2, <3>1
      <3> DEFINE k == j + 1
                 h == i + j
      <3>4. k \in 1..n /\ h \in Nat /\ i + k = h + 1 /\ tr[h].run = j
        BY <3>2, <3>3
      <3> HIDE DEF k, h
      <3>5. t[i + k] = "digit"
        BY <1>5, <3>4
      <3>6. tr[i + k].run = j + 1
        BY <1>10, <3>4, <3>5
      <3>7. QED
        BY <3>6 DEF k
    <2> HIDE DEF S
    <2>3. \A j \in Nat : j \in S
      BY <2>1, <2>2, Encoding!Rec!Induction
    <2>4. QED
      BY <1>1, <2>3 DEF S
  <1>13. CASE i + n = Len(t)
    BY <1>8, <1>12, <1>13 DEF looks_like_pan, n
  <1>14. CASE i + n # Len(t)
    <2>1. i + n \in Nat /\ (i + n) + 1 \in Nat /\ (i + n) + 1 <= Len(t) /\ i + n + 1 = (i + n) + 1
      BY <1>1, <1>4, <1>14
    <2>2. tr[(i + n) + 1].hit
      BY <1>5, <1>10, <1>12, <1>14, <2>1
    <2> DEFINE m == (i + n) + 1
               S == {j \in Nat : tr[m + j].hit}
    <2> HIDE DEF m
    <2>3. 0 \in S
      BY <2>1, <2>2 DEF m
    <2>4. ASSUME NEW j \in Nat, j \in S PROVE j + 1 \in S
      <3>1. m + j \in Nat /\ m + (j + 1) = (m + j) + 1
        BY <2>1 DEF m
      <3> DEFINE k == m + j
      <3>2. k \in Nat /\ tr[k].hit
        BY <2>4, <3>1
      <3> HIDE DEF k
      <3>3. tr[k + 1].hit
        BY <1>10, <3>2
      <3>4. QED
        BY <3>1, <3>3 DEF k
    <2> HIDE DEF S
    <2>5. \A j \in Nat : j \in S
      BY <2>3, <2>4, Encoding!Rec!Induction
    <2>6. Len(t) - m \in Nat /\ m + (Len(t) - m) = Len(t)
      BY <1>1, <2>1 DEF m
    <2>7. tr[Len(t)].hit
      BY <2>5, <2>6 DEF S
    <2>8. QED
      BY <1>8, <2>7 DEF looks_like_pan
  <1>15. QED
    BY <1>13, <1>14

(* On ASCII text the engine denies whatever its published reference denies, *)
(* and for the same reason; where it denies more, it is for PII.            *)
THEOREM EngineFollowsReference ==
    ASSUME NEW t \in Seq(Ascii), NEW proc
    PROVE  /\ evaluate_policy(t, proc) # "allowed" => evaluate(t, proc) = evaluate_policy(t, proc)
           /\ evaluate(t, proc) # evaluate_policy(t, proc) => evaluate(t, proc) = "pii_detected"
  <1>1. bytes(t) = t /\ decode_ignore(t) = t
    BY AsciiIsItself
  <1>2. Marker # <<>>
    BY PolicyAssumption
  <1>3. Matches(t, SsnShape) => looks_like_ssn(t)
    BY SsnIsFound
  <1>4. Matches(t, [i \in 1..PanLength |-> "digit"]) => looks_like_pan(t)
    BY PanIsFound
  <1>5. QED
    BY <1>1, <1>2, <1>3, <1>4 DEF evaluate, evaluate_policy, too_large

(* What has been typed is a plaintext. *)
TextOK == typed \in Seq(Alphabet)

(* It stays one, symbol by symbol. *)
LEMMA TypedIsText == ComparisonSpec => []TextOK
  <1>1. TextOK /\ [ComparisonNext]_request => TextOK'
    <2> SUFFICES ASSUME TextOK, [ComparisonNext]_request
                 PROVE  TextOK'
      OBVIOUS
    <2>1. CASE NewRequest
      BY <2>1 DEF NewRequest, TextOK
    <2>2. ASSUME NEW c \in Alphabet, Type(c) PROVE TextOK'
      BY <2>2 DEF Type, TextOK
    <2>3. CASE UNCHANGED request
      BY <2>3 DEF request, TextOK
    <2>4. QED
      BY <2>1, <2>2, <2>3 DEF ComparisonNext
  <1>2. ComparisonInit => TextOK
    BY DEF ComparisonInit, TextOK
  <1>3. QED
    BY <1>1, <1>2, PTL DEF ComparisonSpec

(* A plaintext of ASCII symbols only. *)
LEMMA AsciiText ==
    ASSUME TextOK, ToSet(typed) \subseteq Ascii
    PROVE  typed \in Seq(Ascii)
  BY DEF ToSet, TextOK

(* On ASCII plaintexts of any length, for any processor, the engine         *)
(* (policy.rs) denies what evaluate_policy denies, for the same reason.     *)
THEOREM DenialsAgree == ComparisonSpec => []AsciiDenialsAgree
  <1>1. TextOK => AsciiDenialsAgree
    BY AsciiText, EngineFollowsReference DEF AsciiDenialsAgree, engine, reference
  <1>2. QED
    BY <1>1, TypedIsText, PTL

(* Where the engine denies an ASCII plaintext the reference allows, or      *)
(* gives another reason, it is for PII.                                     *)
THEOREM ExtraDenialsAreForPii == ComparisonSpec => []ExtraDenialsArePii
  <1>1. TextOK => ExtraDenialsArePii
    BY AsciiText, EngineFollowsReference DEF ExtraDenialsArePii, engine, reference
  <1>2. QED
    BY <1>1, TypedIsText, PTL

-----------------------------------------------------------------------------
(* A success proof is earned. *)

(* What a request has passed when a success is signed for it by proof p:    *)
(* everything the engine decides, before what it promises about the         *)
(* reference.                                                               *)
Earned(b, p) ==
    /\ b.parses /\ b.fields_ok
    /\ b.sealed_to = p.signer
    /\ b.salt # <<>> /\ Opens(b)
    /\ p.statement.commitment = b.commitment
    /\ evaluate(b.plaintext, p.statement.processor) = "allowed"

(* The checks of process_and_delete that a task has behind it, stage by     *)
(* stage; no later stage is reached past a check that failed.               *)
PastChecks(s) ==
    /\ pc[s] \in {"decrypt", "commitment", "policy", "upstream", "sign_success"}
          => body(s).parses
    /\ pc[s] \in {"commitment", "policy", "upstream", "sign_success"} => Decrypts(body(s))
    /\ pc[s] \in {"policy", "upstream", "sign_success"} => body(s).salt # <<>> /\ Opens(body(s))
    /\ pc[s] \in {"upstream", "sign_success"}
          => evaluate(body(s).plaintext, processor(s)) = "allowed"
    /\ pc[s] = "sign_success"
          => verdict[s].commitment = body(s).commitment /\ verdict[s].processor = processor(s)
    /\ pc[s] \in {"append", "reply"} /\ proof[s] # <<>>
          => /\ env[s].route = "inference"
             /\ proof[s][1].statement.success => Earned(body(s), proof[s][1])

(* A task that keeps its place and what it holds keeps what it has passed.  *)
LEMMA PastChecksKept ==
    ASSUME NEW s \in Slots, PastChecks(s), pc'[s] = pc[s], env'[s] = env[s],
           verdict'[s] = verdict[s], proof'[s] = proof[s], epoch' = epoch
    PROVE  PastChecks(s)'
  BY DEF PastChecks, Earned, body, processor, Decrypts

(* A step of process_and_delete adds the check it makes.                    *)
LEMMA PastChecksOfActor ==
    ASSUME LocalInv, NEW s \in Slots, PastChecks(s),
           \/ Accept(s) \/ DropFrame(s) \/ Handle(s) \/ Respond(s)
           \/ \E e \in Envelopes : ReadFrame(s, e)
    PROVE  PastChecks(s)'
  <1>t. /\ pc \in [Slots -> PcValues] /\ env \in [Slots -> Envelopes \cup {NoEnv}]
        /\ verdict \in [Slots -> Verdicts] /\ proof \in [Slots -> Seq(Proofs)]
        /\ TaskOK
    BY DEF LocalInv, TypeOK
  <1>1. CASE Accept(s) \/ DropFrame(s) \/ Respond(s) \/ \E e \in Envelopes : ReadFrame(s, e)
    <2>1. pc'[s] \in {"idle", "read", "dispatch"}
      BY <1>1, <1>t DEF Accept, DropFrame, Respond, ReadFrame, EndTask, Goto
    <2>2. QED
      BY <2>1 DEF PastChecks
  <1>2. CASE \/ PublishAttestation(s) \/ LedgerRoot(s) \/ LedgerProof(s)
             \/ LedgerConsistency(s) \/ NotFound(s)
    <2>1. pc'[s] = "reply" /\ proof'[s] = <<>>
      BY <1>2, <1>t DEF PublishAttestation, LedgerRoot, LedgerProof, LedgerConsistency, NotFound,
                        Dispatch, Answer, TaskOK
    <2>2. QED
      BY <2>1 DEF PastChecks
  <1>3. CASE pc'[s] = "sign_failure"
    BY <1>3 DEF PastChecks
  <1>4. CASE ParseRequest(s) /\ pc'[s] # "sign_failure"
    <2>1. pc'[s] = "decrypt" /\ body(s).parses /\ env' = env
      BY <1>4, <1>t DEF ParseRequest, Goto, fail
    <2>2. QED
      BY <2>1 DEF PastChecks, body
  <1>5. CASE OpenChannel(s) /\ pc'[s] # "sign_failure"
    <2>1. pc[s] = "decrypt" /\ pc'[s] = "commitment" /\ Decrypts(body(s)) /\ UNCHANGED <<env, epoch>>
      BY <1>5, <1>t DEF OpenChannel, Goto, fail, failRequest, shared
    <2>2. QED
      BY <2>1 DEF PastChecks, body, Decrypts
  <1>6. CASE CheckCommitment(s) /\ pc'[s] # "sign_failure"
    <2>1. /\ pc[s] = "commitment" /\ pc'[s] = "policy" /\ UNCHANGED <<env, epoch>>
          /\ body(s).salt # <<>> /\ Opens(body(s))
      BY <1>6, <1>t DEF CheckCommitment, Goto, fail, failRequest, shared
    <2>2. QED
      BY <2>1 DEF PastChecks, body, Decrypts
  <1>7. CASE EvaluatePolicy(s) /\ pc'[s] # "sign_failure"
    <2>1. /\ pc[s] = "policy" /\ pc'[s] = "upstream" /\ UNCHANGED <<env, epoch>>
          /\ evaluate(body(s).plaintext, processor(s)) = "allowed"
      BY <1>7, <1>t DEF EvaluatePolicy, Goto, fail, failRequest, shared
    <2>2. QED
      BY <2>1 DEF PastChecks, body, processor, Decrypts
  <1>8. CASE CallUpstream(s) /\ pc'[s] # "sign_failure"
    <2> DEFINE v == Verdict(<<>>, body(s).commitment, processor(s), TRUE,
                            <<call_upstream(body(s).plaintext)>>)
    <2>1. /\ pc[s] = "upstream" /\ pc'[s] = "sign_success" /\ UNCHANGED <<env, epoch>>
          /\ verdict' = [verdict EXCEPT ![s] = v]
      BY <1>8, <1>t DEF CallUpstream, Goto, fail, failRequest, shared
    <2>2. v.commitment = body(s).commitment /\ v.processor = processor(s)
      BY DEF Verdict
    <2> HIDE DEF v
    <2>3. verdict'[s] = v
      BY <1>t, <2>1
    <2>4. QED
      BY <2>1, <2>2, <2>3 DEF PastChecks, body, processor, Decrypts
  <1>9. CASE SignSuccess(s)
    <2> DEFINE p == Signed(SuccessStatement(s))
    <2>1. /\ p.signer = epoch /\ p.statement.commitment = verdict[s].commitment
          /\ p.statement.processor = verdict[s].processor
      BY DEF Signed, SuccessStatement
    <2>2. /\ pc[s] = "sign_success" /\ pc'[s] = "append" /\ UNCHANGED env
          /\ proof' = [proof EXCEPT ![s] = <<p>>]
      BY <1>9, <1>t DEF SignSuccess, Goto
    <2> HIDE DEF p
    <2>3. proof'[s][1] = p
      BY <1>t, <2>2
    <2>4. Earned(body(s), p)
      BY <2>1, <2>2 DEF PastChecks, Earned, Decrypts
    <2>5. env[s].route = "inference"
      BY <1>t, <2>2 DEF TaskOK
    <2>6. QED
      BY <2>2, <2>3, <2>4, <2>5 DEF PastChecks, body, Earned
  <1>10. CASE SignFailure(s)
    <2> DEFINE p == Signed(FailureStatement(s))
    <2>1. p.statement.success = FALSE
      BY DEF Signed, FailureStatement
    <2>2. /\ pc[s] = "sign_failure" /\ pc'[s] = "append" /\ UNCHANGED env
          /\ proof' = [proof EXCEPT ![s] = <<p>>]
      BY <1>10, <1>t DEF SignFailure, Goto
    <2> HIDE DEF p
    <2>3. proof'[s][1] = p
      BY <1>t, <2>2
    <2>4. env[s].route = "inference"
      BY <1>t, <2>2 DEF TaskOK
    <2>5. QED
      BY <2>1, <2>2, <2>3, <2>4 DEF PastChecks
  <1>11. CASE AppendProof(s)
    <2>1. pc[s] = "append" /\ pc'[s] = "reply" /\ UNCHANGED <<env, proof, epoch>>
      BY <1>11, <1>t DEF AppendProof, Answer
    <2>2. QED
      BY <2>1 DEF PastChecks, Earned, body
  <1>12. QED
    BY <1>1, <1>2, <1>3, <1>4, <1>5, <1>6, <1>7, <1>8, <1>9, <1>10, <1>11 DEF Handle

ChecksInv == \A s \in Slots : PastChecks(s)

(* ChecksInv is kept by every step, given what a task holds at each point. *)
LEMMA ChecksStep == LocalInv /\ ChecksInv /\ [Next]_vars => ChecksInv'
  <1> SUFFICES ASSUME LocalInv, ChecksInv, [Next]_vars, NEW t \in Slots PROVE PastChecks(t)'
    BY DEF ChecksInv
  <1>t. PastChecks(t)
    BY DEF ChecksInv
  <1>1. CASE UNCHANGED vars
    BY <1>1, <1>t, PastChecksKept DEF vars, shared, locals
  <1>2. CASE Crash
    BY <1>2 DEF Crash, PastChecks
  <1>3. CASE Restart
    <2>1. pc'[t] = "idle"
      BY <1>3 DEF Restart, LocalInv, BootOK, locals
    <2>2. QED
      BY <2>1 DEF PastChecks
  <1>4. ASSUME NEW s \in Slots,
               \/ Accept(s) \/ DropFrame(s) \/ Handle(s) \/ Respond(s)
               \/ \E e \in Envelopes : ReadFrame(s, e)
        PROVE  PastChecks(t)'
    <2>1. CASE s = t
      BY <1>4, <1>t, <2>1, PastChecksOfActor
    <2>2. CASE s # t
      BY <1>4, <1>t, <2>2, BystanderUntouched, PastChecksKept
    <2>3. QED
      BY <2>1, <2>2
  <1>5. QED
    BY <1>1, <1>2, <1>3, <1>4 DEF Next

(* A request that reaches a success proof passed every check, against the   *)
(* key that signs; and by the policy's agreement with its reference, ASCII  *)
(* text among them is allowed by the published rules.                       *)
LEMMA ChecksEarnSuccess == LocalInv /\ ChecksInv => SuccessEarned
  <1> SUFFICES ASSUME LocalInv, ChecksInv, NEW s \in Slots, pc[s] \in {"append", "reply"},
                      proof[s] # <<>>, proof[s][1].statement.success
               PROVE  /\ body(s).parses /\ body(s).fields_ok
                      /\ body(s).sealed_to = proof[s][1].signer
                      /\ body(s).salt # <<>>
                      /\ proof[s][1].statement.commitment
                            = commit(body(s).plaintext, body(s).salt[1], body(s).context)
                      /\ ToSet(body(s).plaintext) \subseteq Ascii =>
                            evaluate_policy(body(s).plaintext, proof[s][1].statement.processor)
                              = "allowed"
    BY DEF SuccessEarned
  <1> DEFINE text == body(s).plaintext
             proc == proof[s][1].statement.processor
  <1>1. env[s].route = "inference" /\ Earned(body(s), proof[s][1])
    BY DEF ChecksInv, PastChecks
  <1>2. body(s) \in Bodies
    BY <1>1, RequestFieldsType DEF LocalInv
  <1>3. text \in Seq(Symbols)
    BY <1>2, BodiesAssumption DEF IsBody, Bytes
  <1>4. evaluate(text, proc) = "allowed"
    BY <1>1 DEF Earned
  <1> HIDE DEF text, proc
  <1>5. ASSUME ToSet(text) \subseteq Ascii PROVE evaluate_policy(text, proc) = "allowed"
    <2>1. text \in Seq(Ascii)
      BY <1>3, <1>5 DEF ToSet
    <2>2. evaluate_policy(text, proc) # "allowed" => evaluate(text, proc) = evaluate_policy(text, proc)
      BY <2>1, EngineFollowsReference
    <2>3. QED
      BY <1>4, <2>2
  <1>6. QED
    BY <1>1, <1>5 DEF Earned, Opens, text, proc

(* A success proof is earned, for any bodies and policy, on every path      *)
(* through process_and_delete and however tasks interleave: the request     *)
(* parsed, was sealed to the key that signs, opens the commitment the       *)
(* statement names and, when it is ASCII text, is allowed by the reference. *)
THEOREM SuccessIsEarned == Spec => []SuccessEarned
  <1>1. Init => LocalInv /\ ChecksInv
    BY InitType DEF LocalInv, Init, ChecksInv, PastChecks
  <1>2. QED
    BY <1>1, LocalStep, ChecksStep, ChecksEarnSuccess, PTL DEF Spec
=============================================================================
