---------------------------- MODULE GatewayProofs ----------------------------
(***************************************************************************)
(* The composed system is an enclave: whatever clients and the proxy do,   *)
(* the enclave inside behaves as Enclave says, so every theorem about      *)
(* Enclave holds of the whole path of a call.                              *)
(*                                                                         *)
(* About calls: ConnectionInv (a task serves the current request of its    *)
(* one client), CallInv (what a task and a connection hold fits the call), *)
(* KeysInv (an attestation a client keeps, and the answer it checks under  *)
(* it, are of one boot), and OnceInv (a sealed request is in one place     *)
(* only: with its client, with one task, or in one log).                   *)
(***************************************************************************)
EXTENDS Gateway, EnclaveProofs

(* A client that is connected or connecting has an envelope to send. *)
Forwarding ==
    /\ stage \in [Clients -> Stages]
    /\ req \in [Clients -> Envelopes \cup {NoEnv}]
    /\ \A c \in Clients : stage[c] \in {"connect", "write", "wait"} => req[c] \in Envelopes

(* The two envelopes a client builds are envelopes the enclave decodes. *)
LEMMA ClientEnvelopes ==
    /\ Env("attestation", <<>>, <<>>) \in Envelopes
    /\ \A b \in Bodies : Env("inference", <<>>, <<b>>) \in Envelopes
  <1>1. "attestation" \in {"attestation", "root", "other"}
    OBVIOUS
  <1>2. Env("attestation", <<>>, <<>>) \in Envelopes
    BY <1>1 DEF Envelopes, Env
  <1>3. ASSUME NEW b \in Bodies PROVE Env("inference", <<>>, <<b>>) \in Envelopes
    BY DEF Envelopes, Env
  <1>4. QED
    BY <1>2, <1>3

(* do_forward is only ever entered with an envelope that was built. *)
LEMMA ForwardingStep == Forwarding /\ [GatewayNext]_gvars => Forwarding'
  <1> SUFFICES ASSUME Forwarding, [GatewayNext]_gvars PROVE Forwarding'
    OBVIOUS
  <1> USE DEF Forwarding
  <1>0. CASE UNCHANGED <<stage, req>>
    BY <1>0
  <1>1. ASSUME NEW c \in Clients, FetchAttestation(c) PROVE Forwarding'
    BY <1>1, ClientEnvelopes DEF FetchAttestation, At, Stages
  <1>2. ASSUME NEW c \in Clients, NEW b \in Bodies, Seal(c, b) PROVE Forwarding'
    BY <1>2, ClientEnvelopes DEF Seal, At, Stages
  <1>a. ASSUME NEW c \in Clients, NEW e \in LedgerRequests, AskLedger(c, e) PROVE Forwarding'
    BY <1>a, LedgerRequestsAssumption DEF AskLedger, At, Stages
  <1>3. ASSUME NEW c \in Clients, KeepAttestation(c) \/ ReuseAttestation(c) PROVE Forwarding'
    BY <1>3 DEF KeepAttestation, ReuseAttestation, At, Finish, Stages
  <1>4. ASSUME NEW c \in Clients, Receive(c) \/ Upstream(c) \/ Timeout(c) PROVE Forwarding'
    BY <1>4 DEF Receive, Deliver, Upstream, Timeout, At, Finish, Stages
  <1>5. ASSUME NEW c \in Clients, NEW s \in Slots, Connect(c, s) \/ WriteFrame(c, s)
        PROVE  Forwarding'
    BY <1>5 DEF Connect, WriteFrame, At, Stages
  <1>6. ASSUME NEW s \in Slots, SendResponse(s) \/ PeerClosed(s) \/ EnclaveHandles(s)
        PROVE  UNCHANGED <<stage, req>>
    BY <1>6 DEF SendResponse, PeerClosed, EnclaveHandles, calls
  <1>7. ASSUME EnclaveCrash \/ EnclaveRestart PROVE UNCHANGED <<stage, req>>
    BY <1>7 DEF EnclaveCrash, EnclaveRestart, calls
  <1>8. CASE UNCHANGED gvars
    BY <1>0, <1>8 DEF gvars, calls
  <1>q. QED
    BY <1>0, <1>1, <1>2, <1>a, <1>3, <1>4, <1>5, <1>6, <1>7, <1>8 DEF GatewayNext

(* Every step of the composed system is a step of the enclave or leaves it  *)
(* alone.                                                                   *)
LEMMA EnclaveStep == Forwarding /\ [GatewayNext]_gvars => [Next]_vars
  <1> SUFFICES ASSUME Forwarding, [GatewayNext]_gvars PROVE [Next]_vars
    OBVIOUS
  <1>1. ASSUME NEW c \in Clients,
               \/ FetchAttestation(c) \/ KeepAttestation(c) \/ ReuseAttestation(c)
               \/ \E b \in Bodies : Seal(c, b)
               \/ \E e \in LedgerRequests : AskLedger(c, e)
               \/ Receive(c) \/ Upstream(c) \/ Timeout(c)
        PROVE  UNCHANGED vars
    BY <1>1 DEF FetchAttestation, KeepAttestation, ReuseAttestation, Seal, AskLedger, Receive,
                Upstream, Timeout
  <1>2. ASSUME NEW c \in Clients, NEW s \in Slots, Connect(c, s) PROVE Next
    BY <1>2 DEF Connect, Next
  <1>3. ASSUME NEW c \in Clients, NEW s \in Slots, WriteFrame(c, s) PROVE Next
    <2>1. req[c] \in Envelopes /\ ReadFrame(s, req[c])
      BY <1>3 DEF WriteFrame, At, Forwarding
    <2>2. QED
      BY <2>1 DEF Next
  <1>4. ASSUME NEW s \in Slots, SendResponse(s) \/ PeerClosed(s) \/ EnclaveHandles(s)
        PROVE  Next
    BY <1>4 DEF SendResponse, PeerClosed, EnclaveHandles, Next
  <1>5. ASSUME EnclaveCrash \/ EnclaveRestart PROVE Next
    BY <1>5 DEF EnclaveCrash, EnclaveRestart, Next
  <1>6. CASE UNCHANGED gvars
    BY <1>6 DEF gvars
  <1>q. QED
    BY <1>1, <1>2, <1>3, <1>4, <1>5, <1>6 DEF GatewayNext

(* Timeouts, retries, dropped connections and clients with stale keys make  *)
(* the enclave do nothing that Enclave does not already allow.              *)
THEOREM GatewayImplementsEnclave == GatewaySpec => Spec
  <1>1. GatewayInit => Init /\ Forwarding
    BY DEF GatewayInit, Forwarding, Stages
  <1>2. QED
    BY <1>1, ForwardingStep, EnclaveStep, PTL DEF GatewaySpec, Spec

(* The guarantees of the enclave's log therefore hold of the whole system:  *)
(* no signed head is ever contradicted, counter values are exact, every     *)
(* logged proof passes the audit and every zeroization report is true,      *)
(* whatever happens between client and enclave.                             *)
THEOREM GatewayKeepsLogGuarantees ==
    GatewaySpec => [](HeadsAuthentic /\ CountersExact /\ LogPassesAudit /\ ZeroizationTruthful)
  BY GatewayImplementsEnclave, HeadsAreAuthentic, CountersAreExact, LogAlwaysPassesAudit,
     ReportsAreTruthful, PTL

-----------------------------------------------------------------------------
(* Connections *)

(* The ends of the connections have their types. *)
EndsTyped ==
    /\ stage \in [Clients -> Stages]
    /\ link \in [Slots -> Optional(Clients)]
    /\ wire = [c \in Clients |-> wire[c]]
    /\ req = [c \in Clients |-> req[c]]

ConnectionInv == EndsTyped /\ ConnectionsOK

(* A handler step moves its own task on, past the reading of its request    *)
(* and without ending it, and leaves every envelope as it is.               *)
LEMMA HandlerMoves ==
    ASSUME TypeOK, NEW s \in Slots, Handle(s)
    PROVE  /\ env' = env /\ pc[s] \notin {"idle", "read"}
           /\ \E x \in PcValues \ {"idle", "read"} : pc' = [pc EXCEPT ![s] = x]
  <1>1. CASE \/ PublishAttestation(s) \/ LedgerRoot(s) \/ LedgerProof(s)
             \/ LedgerConsistency(s) \/ NotFound(s) \/ AppendProof(s)
    <2>1. /\ env' = env /\ pc[s] \in {"dispatch", "append"}
          /\ pc' = [pc EXCEPT ![s] = "reply"]
      BY <1>1 DEF PublishAttestation, LedgerRoot, LedgerProof, LedgerConsistency, NotFound,
                  AppendProof, Dispatch, Answer
    <2>2. QED
      BY <2>1 DEF PcValues
  <1>2. CASE \/ ParseRequest(s) \/ OpenChannel(s) \/ CheckCommitment(s)
             \/ EvaluatePolicy(s) \/ CallUpstream(s)
    <2>1. /\ env' = env /\ pc[s] \in {"dispatch", "decrypt", "commitment", "policy", "upstream"}
          /\ \/ pc' = [pc EXCEPT ![s] = "sign_failure"]
             \/ pc' = [pc EXCEPT ![s] = "decrypt"]
             \/ pc' = [pc EXCEPT ![s] = "commitment"]
             \/ pc' = [pc EXCEPT ![s] = "policy"]
             \/ pc' = [pc EXCEPT ![s] = "upstream"]
             \/ pc' = [pc EXCEPT ![s] = "sign_success"]
      BY <1>2 DEF ParseRequest, OpenChannel, CheckCommitment, EvaluatePolicy, CallUpstream,
                  Dispatch, Goto, fail, failRequest
    <2>2. QED
      BY <2>1 DEF PcValues
  <1>3. CASE SignSuccess(s) \/ SignFailure(s)
    <2>1. /\ env' = env /\ pc[s] \in {"sign_success", "sign_failure"}
          /\ pc' = [pc EXCEPT ![s] = "append"]
      BY <1>3 DEF SignSuccess, SignFailure, Goto
    <2>2. QED
      BY <2>1 DEF PcValues
  <1>4. QED
    BY <1>1, <1>2, <1>3 DEF Handle

(* A call that is over has no connection left, whatever ended it. *)
LEMMA DisconnectStep ==
    ASSUME ConnectionInv, NEW c \in Clients, Disconnect(c), pc' = pc, env' = env, req' = req,
           stage' \in [Clients -> Stages], \A d \in Clients \ {c} : stage'[d] = stage[d]
    PROVE  ConnectionInv'
  <1>0. EndsTyped /\ ConnectionsOK
    BY DEF ConnectionInv
  <1>1. EndsTyped'
    BY OptionalNone DEF ConnectionInv, EndsTyped, Disconnect
  <1>2. /\ wire'[c] = <<>> /\ \A d \in Clients \ {c} : wire'[d] = wire[d]
        /\ \A s \in Slots, d \in Clients : link'[s] = <<d>> => d # c /\ link[s] = <<d>>
    BY DEF ConnectionInv, EndsTyped, Disconnect
  <1>3. ConnectionsOK'
    <2>1. EndsAgree'
      BY <1>0, <1>1, <1>2 DEF EndsTyped, ConnectionsOK, EndsAgree, OneConnection, ResponsesAwaited
    <2>2. OneConnection'
      BY <1>0, <1>1, <1>2 DEF EndsTyped, ConnectionsOK, EndsAgree, OneConnection, ResponsesAwaited
    <2>3. ResponsesAwaited'
      BY <1>0, <1>1, <1>2 DEF EndsTyped, ConnectionsOK, EndsAgree, OneConnection, ResponsesAwaited
    <2>4. QED
      BY <2>1, <2>2, <2>3 DEF ConnectionsOK
  <1>4. QED
    BY <1>1, <1>3 DEF ConnectionInv

(* Both ends of a connection move together. *)
LEMMA ConnectionStep == TypeOK /\ ConnectionInv /\ [GatewayNext]_gvars => ConnectionInv'
  <1> SUFFICES ASSUME TypeOK, ConnectionInv, [GatewayNext]_gvars PROVE ConnectionInv'
    OBVIOUS
  <1>t. /\ EndsTyped /\ ConnectionsOK
        /\ pc \in [Slots -> PcValues] /\ env \in [Slots -> Envelopes \cup {NoEnv}]
    BY DEF TypeOK, ConnectionInv
  <1>1. ASSUME NEW c \in Clients,
               \/ FetchAttestation(c) \/ KeepAttestation(c) \/ ReuseAttestation(c)
               \/ \E b \in Bodies : Seal(c, b)
               \/ \E e \in LedgerRequests : AskLedger(c, e)
        PROVE  ConnectionInv'
    <2>1. /\ stage[c] \in {"idle", "seal"} /\ stage' \in [Clients -> Stages]
          /\ req' = [d \in Clients |-> req'[d]]
          /\ \A d \in Clients \ {c} : stage'[d] = stage[d] /\ req'[d] = req[d]
          /\ UNCHANGED <<pc, env, link, wire>>
      BY <1>1, <1>t DEF FetchAttestation, KeepAttestation, ReuseAttestation, Seal, AskLedger, At,
                        Finish, EndsTyped, Stages, vars, locals, conns
    <2>2. QED
      BY <2>1, <1>t DEF ConnectionInv, EndsTyped, ConnectionsOK,
         EndsAgree, OneConnection, ResponsesAwaited
  <1>2. ASSUME NEW c \in Clients, Receive(c) \/ Timeout(c) PROVE ConnectionInv'
    <2>1. /\ Disconnect(c) /\ UNCHANGED <<pc, env, req>>
          /\ stage' \in [Clients -> Stages] /\ \A d \in Clients \ {c} : stage'[d] = stage[d]
      BY <1>2, <1>t DEF Receive, Timeout, Deliver, At, Finish, EndsTyped, Stages, vars, locals
    <2>2. QED
      BY <2>1, DisconnectStep
  <1>3. ASSUME NEW c \in Clients, Upstream(c) PROVE ConnectionInv'
    <2>1. /\ wire[c] = <<>> /\ \A s \in Slots : link[s] # <<c>>
      BY <1>3, <1>t DEF Upstream, ConnectionsOK,
         EndsAgree, OneConnection, ResponsesAwaited
    <2>2. /\ UNCHANGED <<pc, env, req, link, wire>>
          /\ stage' \in [Clients -> Stages] /\ \A d \in Clients \ {c} : stage'[d] = stage[d]
      BY <1>3, <1>t DEF Upstream, Finish, EndsTyped, Stages, vars, locals, conns
    <2>3. QED
      BY <2>1, <2>2, <1>t DEF ConnectionInv, EndsTyped, ConnectionsOK,
         EndsAgree, OneConnection, ResponsesAwaited
  <1>4. ASSUME NEW c \in Clients, NEW s \in Slots, Connect(c, s) PROVE ConnectionInv'
    <2>1. /\ link[s] = <<>> /\ stage[c] = "connect" /\ pc[s] = "idle"
          /\ stage' = [stage EXCEPT ![c] = "write"] /\ pc' = [pc EXCEPT ![s] = "read"]
          /\ link' = [link EXCEPT ![s] = <<c>>] /\ UNCHANGED <<env, req, wire>>
      BY <1>4 DEF Connect, Accept, At, Goto
    <2>2. \A t \in Slots : link[t] # <<c>>
      BY <2>1, <1>t DEF ConnectionsOK,
         EndsAgree, OneConnection, ResponsesAwaited
    <2>3. <<c>> \in Optional(Clients)
      BY OptionalSome
    <2>4. EndsTyped'
      BY <2>1, <2>3, <1>t DEF EndsTyped, Stages
    <2>5. ConnectionsOK'
      BY <2>1, <2>2, <1>t DEF EndsTyped, ConnectionsOK,
         EndsAgree, OneConnection, ResponsesAwaited
    <2>6. QED
      BY <2>4, <2>5 DEF ConnectionInv
  <1>5. ASSUME NEW c \in Clients, NEW s \in Slots, WriteFrame(c, s) PROVE ConnectionInv'
    <2>1. /\ link[s] = <<c>> /\ stage[c] = "write" /\ pc[s] = "read"
          /\ stage' = [stage EXCEPT ![c] = "wait"] /\ pc' = [pc EXCEPT ![s] = "dispatch"]
          /\ env' = [env EXCEPT ![s] = req[c]] /\ UNCHANGED <<req, link, wire>>
      BY <1>5 DEF WriteFrame, ReadFrame, At, Goto, conns
    <2>2. EndsTyped'
      BY <2>1, <1>t DEF EndsTyped, Stages
    <2>3. ConnectionsOK'
      <3>1. EndsAgree'
        BY <2>1, <1>t DEF EndsTyped, ConnectionsOK, EndsAgree, OneConnection, ResponsesAwaited
      <3>2. OneConnection'
        BY <2>1, <1>t DEF EndsTyped, ConnectionsOK, EndsAgree, OneConnection, ResponsesAwaited
      <3>3. ResponsesAwaited'
        BY <2>1, <1>t DEF EndsTyped, ConnectionsOK, EndsAgree, OneConnection, ResponsesAwaited
      <3>4. QED
        BY <3>1, <3>2, <3>3 DEF ConnectionsOK
    <2>4. QED
      BY <2>2, <2>3 DEF ConnectionInv
  <1>6. ASSUME NEW s \in Slots, SendResponse(s) PROVE ConnectionInv'
    <2>1. /\ pc[s] = "reply" /\ pc' = [pc EXCEPT ![s] = "idle"]
          /\ env' = [env EXCEPT ![s] = NoEnv]
          /\ wire' = [c \in Clients |-> IF link[s] = <<c>> THEN <<reply[s]>> ELSE wire[c]]
          /\ link' = [link EXCEPT ![s] = <<>>] /\ UNCHANGED <<stage, req>>
      BY <1>6 DEF SendResponse, Respond, EndTask, calls
    <2>2. EndsTyped'
      BY <2>1, <1>t, OptionalNone DEF EndsTyped
    <2>3. ConnectionsOK'
      <3>1. EndsAgree'
        BY <2>1, <1>t DEF EndsTyped, ConnectionsOK, EndsAgree, OneConnection, ResponsesAwaited
      <3>2. OneConnection'
        BY <2>1, <1>t DEF EndsTyped, ConnectionsOK, EndsAgree, OneConnection, ResponsesAwaited
      <3>3. ResponsesAwaited'
        BY <2>1, <1>t DEF EndsTyped, ConnectionsOK, EndsAgree, OneConnection, ResponsesAwaited
      <3>4. QED
        BY <3>1, <3>2, <3>3 DEF ConnectionsOK
    <2>4. QED
      BY <2>2, <2>3 DEF ConnectionInv
  <1>7. ASSUME NEW s \in Slots, PeerClosed(s) PROVE ConnectionInv'
    <2>1. /\ \A c \in Clients : link[s] # <<c>>
          /\ pc' = [pc EXCEPT ![s] = "idle"]
          /\ env' = [env EXCEPT ![s] = NoEnv] /\ UNCHANGED <<stage, req, link, wire>>
      BY <1>7 DEF PeerClosed, DropFrame, EndTask, calls, conns
    <2>2. EndsTyped'
      BY <2>1, <1>t DEF EndsTyped
    <2>3. ConnectionsOK'
      <3>1. EndsAgree'
        BY <2>1, <1>t DEF EndsTyped, ConnectionsOK, EndsAgree, OneConnection, ResponsesAwaited
      <3>2. OneConnection'
        BY <2>1, <1>t DEF EndsTyped, ConnectionsOK, EndsAgree, OneConnection, ResponsesAwaited
      <3>3. ResponsesAwaited'
        BY <2>1, <1>t DEF EndsTyped, ConnectionsOK, EndsAgree, OneConnection, ResponsesAwaited
      <3>4. QED
        BY <3>1, <3>2, <3>3 DEF ConnectionsOK
    <2>4. QED
      BY <2>2, <2>3 DEF ConnectionInv
  <1>8. ASSUME NEW s \in Slots, EnclaveHandles(s) PROVE ConnectionInv'
    <2>1. UNCHANGED <<env, stage, req, link, wire>> /\ pc[s] \notin {"idle", "read"}
      BY <1>8, HandlerMoves DEF EnclaveHandles, calls, conns
    <2>2. PICK x \in PcValues \ {"idle", "read"} : pc' = [pc EXCEPT ![s] = x]
      BY <1>8, HandlerMoves DEF EnclaveHandles
    <2>3. QED
      BY <2>1, <2>2, <1>t DEF ConnectionInv, EndsTyped, ConnectionsOK,
         EndsAgree, OneConnection, ResponsesAwaited
  <1>9. ASSUME EnclaveCrash PROVE ConnectionInv'
    BY <1>9, <1>t, OptionalNone DEF EnclaveCrash, calls, ConnectionInv, EndsTyped, ConnectionsOK,
       EndsAgree, OneConnection, ResponsesAwaited
  <1>10. ASSUME EnclaveRestart \/ UNCHANGED gvars PROVE ConnectionInv'
    <2>1. UNCHANGED <<pc, env, stage, req, link, wire>>
      BY <1>10 DEF EnclaveRestart, Restart, gvars, vars, locals, calls, conns
    <2>2. QED
      BY <2>1, <1>t DEF ConnectionInv, EndsTyped, ConnectionsOK,
         EndsAgree, OneConnection, ResponsesAwaited
  <1>q. QED
    BY <1>1, <1>2, <1>3, <1>4, <1>5, <1>6, <1>7, <1>8, <1>9, <1>10 DEF GatewayNext

(* do_forward keeps connections apart, for any number of clients and tasks: *)
(* a task serves the current request of the one client it is connected to,  *)
(* and a response waits only for a client that reads.                       *)
THEOREM ConnectionsStayApart == GatewaySpec => []ConnectionsOK
  <1>1. GatewayInit => ConnectionInv
    BY OptionalNone DEF GatewayInit, ConnectionInv, EndsTyped, ConnectionsOK, EndsAgree,
               OneConnection, ResponsesAwaited, Stages
  <1>2. GatewaySpec => []TypeOK
    BY GatewayImplementsEnclave, TypeCorrect, PTL
  <1>3. ConnectionInv => ConnectionsOK
    BY DEF ConnectionInv
  <1>4. QED
    BY <1>1, <1>2, <1>3, ConnectionStep, PTL DEF GatewaySpec

-----------------------------------------------------------------------------
(* Answers *)

(* The attestation document of boot e: both keys of that boot. *)
KeysOf(e) == [channel_public_key |-> e, proof_verifier_key |-> e]

AttDocs == {<<KeysOf(e)>> : e \in Epochs}

(* Proof p is in the log of the boot that signed it, where receipt r says.  *)
InItsLog(p, r) ==
    /\ p.signer \in Epochs
    /\ verifyReceipt(p, r, p.signer)
    /\ r.index \in Nat /\ r.index + 1 \in DOMAIN ledger[p.signer]
    /\ ledger[p.signer][r.index + 1] = leaf_hash(p)

(* A response that answers envelope e; a request body that does not parse   *)
(* has no commitment to name.                                               *)
Fits(content, e) ==
    \/ e.route = "attestation" /\ content \in AttDocs
    \/ /\ e.route = "inference"
       /\ "statement" \in DOMAIN content[1]
       /\ e.body[1].parses => content[1].statement.commitment = e.body[1].commitment
       /\ content[1].statement.success => e.body[1].sealed_to = content[1].signer
       /\ InItsLog(content[1], content[2])
    \/ e.route = "proof" /\ Reads(content[1], "index", e.arg[1])
    \/ e.route = "consistency" /\ Reads(content[1], "size", e.arg[1])
    \/ e.route = "root" /\ content[1] \in issued

(* What a task holds for its request is about that request. *)
TaskFits(s) ==
    /\ pc[s] \in {"sign_success", "sign_failure"} /\ body(s).parses =>
          verdict[s].commitment = body(s).commitment
    /\ pc[s] = "append" => "statement" \in DOMAIN proof[s][1]
    /\ pc[s] = "append" /\ body(s).parses =>
          proof[s][1].statement.commitment = body(s).commitment
    /\ pc[s] \in {"decrypt", "commitment", "policy", "upstream"} => body(s).parses
    /\ pc[s] = "reply" /\ reply[s].status = 200 => Fits(reply[s].content, env[s])

TasksFit ==
    /\ reply = [s \in Slots |-> reply[s]]
    /\ \A s \in Slots : TaskFits(s)

(* What was signed and logged stays signed and logged. *)
HistoryGrows ==
    /\ issued \subseteq issued'
    /\ \A e \in Epochs : /\ DOMAIN ledger[e] \subseteq DOMAIN ledger'[e]
                         /\ \A i \in DOMAIN ledger[e] : ledger'[e][i] = ledger[e][i]

(* Every step of the enclave only adds to the history. *)
LEMMA HistoryStep == LocalInv /\ [Next]_vars => HistoryGrows
  <1> SUFFICES ASSUME LocalInv, [Next]_vars PROVE HistoryGrows
    OBVIOUS
  <1>t. /\ ledger \in [Epochs -> Seq(Leaves)] /\ epoch \in Epochs
        /\ proof \in [Slots -> Seq(Proofs)]
    BY DEF LocalInv, TypeOK
  <1>1. CASE Quiet \/ Stops \/ Boots
    BY <1>1 DEF Quiet, Stops, Boots, HistoryGrows
  <1>2. ASSUME NEW s \in Slots, Signs(s) PROVE HistoryGrows
    BY <1>2 DEF Signs, HistoryGrows
  <1>3. ASSUME NEW s \in Slots, Appends(s) PROVE HistoryGrows
    <2> DEFINE old == ledger[epoch]
               leaf == leaf_hash(proof[s][1])
               new == Append(old, leaf)
    <2>1. /\ ledger' = [ledger EXCEPT ![epoch] = new] /\ issued \subseteq issued'
          /\ pc[s] = "append"
      BY <1>3 DEF Appends, Signing
    <2>2. old \in Seq(Leaves) /\ leaf \in Leaves
      BY <1>t, <2>1, LoggableProof DEF LocalInv
    <2> HIDE DEF leaf, old
    <2>3. DOMAIN old \subseteq DOMAIN new /\ \A i \in DOMAIN old : new[i] = old[i]
      BY <2>2
    <2>4. ledger'[epoch] = new /\ \A e \in Epochs \ {epoch} : ledger'[e] = ledger[e]
      BY <1>t, <2>1
    <2> HIDE DEF new
    <2>5. QED
      BY <2>1, <2>3, <2>4 DEF HistoryGrows, old
  <1>4. QED
    BY <1>1, <1>2, <1>3, StepShape

(* A receipt keeps its worth, and an answer stays one. *)
LEMMA FitsMonotone ==
    ASSUME HistoryGrows, NEW content, NEW e, Fits(content, e)
    PROVE  Fits(content, e)'
  <1>1. ASSUME NEW p, NEW r, InItsLog(p, r) PROVE InItsLog(p, r)'
    BY <1>1 DEF InItsLog, HistoryGrows
  <1>2. issued \subseteq issued'
    BY DEF HistoryGrows
  <1>3. QED
    BY <1>1, <1>2 DEF Fits

(* A task that a step leaves alone keeps what it has. *)
LEMMA OthersFit ==
    ASSUME HistoryGrows, NEW t \in Slots, TaskFits(t),
           pc'[t] = pc[t], env'[t] = env[t], verdict'[t] = verdict[t], proof'[t] = proof[t],
           reply'[t] = reply[t]
    PROVE  TaskFits(t)'
  <1>1. pc[t] = "reply" /\ reply[t].status = 200 => Fits(reply[t].content, env[t])'
    BY FitsMonotone DEF TaskFits
  <1>2. QED
    BY <1>1 DEF TaskFits, body

(* A handler step changes nothing of another task. *)
LEMMA HandlerIsLocal ==
    ASSUME TypeOK, TasksFit, NEW s \in Slots, Handle(s)
    PROVE  /\ env' = env /\ reply' = [t \in Slots |-> reply'[t]]
           /\ \A t \in Slots \ {s} : /\ pc'[t] = pc[t] /\ verdict'[t] = verdict[t]
                                    /\ proof'[t] = proof[t] /\ reply'[t] = reply[t]
  <1> USE DEF TypeOK, TasksFit
  <1>1. CASE \/ PublishAttestation(s) \/ LedgerRoot(s) \/ LedgerProof(s)
             \/ LedgerConsistency(s) \/ NotFound(s) \/ AppendProof(s)
    BY <1>1 DEF PublishAttestation, LedgerRoot, LedgerProof, LedgerConsistency, NotFound,
                AppendProof, Answer
  <1>2. CASE \/ ParseRequest(s) \/ OpenChannel(s) \/ CheckCommitment(s)
             \/ EvaluatePolicy(s) \/ CallUpstream(s)
    BY <1>2 DEF ParseRequest, OpenChannel, CheckCommitment, EvaluatePolicy, CallUpstream, Goto,
                fail, failRequest
  <1>3. CASE SignSuccess(s) \/ SignFailure(s)
    BY <1>3 DEF SignSuccess, SignFailure, Goto
  <1>4. QED
    BY <1>1, <1>2, <1>3 DEF Handle

(* A handler step answers the request of its task, or carries the           *)
(* commitment of the request one step further.                              *)
LEMMA HandlerFits ==
    ASSUME TypeOK, TaskOK, ChecksInv, TasksFit, NEW s \in Slots, Handle(s)
    PROVE  TaskFits(s)'
  <1>t. /\ pc \in [Slots -> PcValues] /\ verdict \in [Slots -> Verdicts]
        /\ proof \in [Slots -> Seq(Proofs)] /\ reply = [t \in Slots |-> reply[t]]
        /\ TaskFits(s) /\ env' = env
    BY HandlerIsLocal DEF TypeOK, TasksFit
  <1>0. CASE NotFound(s)
    BY <1>0, <1>t DEF NotFound, Dispatch, Answer, Reply, TaskFits
  <1>1. CASE PublishAttestation(s)
    <2>1. <<Attestation>> \in AttDocs
      BY DEF Attestation, AttDocs, KeysOf, TypeOK
    <2>2. /\ pc' = [pc EXCEPT ![s] = "reply"] /\ env[s].route = "attestation"
          /\ \/ reply' = [reply EXCEPT ![s] = Reply(200, "attestation", <<Attestation>>)]
             \/ reply' = [reply EXCEPT ![s] = Reply(500, "error", <<>>)]
      BY <1>1 DEF PublishAttestation, Dispatch, Answer
    <2>3. /\ Reply(200, "attestation", <<Attestation>>).content = <<Attestation>>
          /\ Reply(500, "error", <<>>).status # 200
      BY DEF Reply
    <2>4. /\ pc'[s] = "reply"
          /\ \/ reply'[s] = Reply(200, "attestation", <<Attestation>>)
             \/ reply'[s] = Reply(500, "error", <<>>)
      BY <1>t, <2>2
    <2>5. reply'[s].status = 200 => reply'[s].content \in AttDocs
      BY <2>1, <2>3, <2>4
    <2>6. reply'[s].status = 200 => Fits(reply[s].content, env[s])'
      BY <1>t, <2>2, <2>5 DEF Fits
    <2>7. QED
      BY <2>4, <2>6 DEF TaskFits
  <1>2. CASE LedgerRoot(s)
    BY <1>2, <1>t DEF LedgerRoot, Dispatch, Answer, Reply, TaskFits, Fits
  <1>3. CASE LedgerProof(s)
    BY <1>3, <1>t DEF LedgerProof, Receipt, Dispatch, Answer, Reply, TaskFits, Fits, Reads
  <1>4. CASE LedgerConsistency(s)
    BY <1>4, <1>t DEF LedgerConsistency, sign_checkpoint, Dispatch, Answer, Reply, TaskFits, Fits,
                      Reads
  <1>5. CASE ParseRequest(s)
    BY <1>5, <1>t DEF ParseRequest, Goto, fail, TaskFits, body
  <1>6. CASE OpenChannel(s) \/ CheckCommitment(s) \/ EvaluatePolicy(s) \/ CallUpstream(s)
    BY <1>6, <1>t DEF OpenChannel, CheckCommitment, EvaluatePolicy, CallUpstream, Goto, fail,
                      failRequest, Verdict, TaskFits, body
  <1>7. CASE SignSuccess(s) \/ SignFailure(s)
    BY <1>7, <1>t DEF SignSuccess, SignFailure, Signed, SuccessStatement, FailureStatement, Goto,
                      TaskFits, body
  <1>8. CASE AppendProof(s)
    <2>1. env[s].route = "inference"
      BY <1>8 DEF AppendProof, TaskOK
    <2>p. PICK p : p = proof[s][1]
      OBVIOUS
    <2>l. PICK leaves : leaves = Append(ledger[epoch], leaf_hash(p))
      OBVIOUS
    <2>i. PICK idx : idx = Len(leaves) - 1
      OBVIOUS
    <2>c. PICK c : c = Receipt(leaves, idx)
      OBVIOUS
    <2>2. /\ pc[s] = "append" /\ pc'[s] = "reply"
          /\ reply'[s] = Reply(200, "inference", <<p, c>>)
          /\ ledger' = [ledger EXCEPT ![epoch] = leaves]
      BY <1>8, <1>t, <2>p, <2>l, <2>i, <2>c DEF AppendProof, log_append, Answer
    <2>3. /\ "statement" \in DOMAIN p /\ p.signer = epoch /\ leaf_hash(p) \in Leaves
          /\ body(s).parses => p.statement.commitment = body(s).commitment
          /\ p.statement.success => body(s).sealed_to = p.signer
      BY <1>t, <2>p, <2>2, LoggableProof DEF TaskOK, TaskFits, ChecksInv, PastChecks, Earned
    <2>4. /\ leaves \in Seq(Leaves) /\ idx \in Nat /\ idx < Len(leaves)
          /\ idx + 1 \in DOMAIN leaves /\ leaves[idx + 1] = leaf_hash(p)
      BY <2>l, <2>i, <2>3, AppendProperties DEF TypeOK
    <2>5. ledger'[epoch] = leaves /\ epoch \in Epochs
      BY <2>2 DEF TypeOK
    <2>6. /\ check_checkpoint_signature(c.checkpoint, epoch)
          /\ c.leaf_hash = leaf_hash(p) /\ c.index = idx
          /\ verifyInclusion(c.leaf_hash, c.index, c.checkpoint.size,
                             c.audit_path, c.checkpoint.root)
      BY <2>c, <2>4, ReceiptVerifies DEF Receipt
    <2>7. verifyReceipt(p, c, epoch)
      BY <2>3, <2>6 DEF verifyReceipt, check_proof_signature, SignedBy
    <2>8. InItsLog(p, c)'
      BY <2>3, <2>4, <2>5, <2>6, <2>7 DEF InItsLog
    <2>9. reply'[s].content[1] = p /\ reply'[s].content[2] = c
      BY <2>2 DEF Reply
    <2>10. Fits(reply[s].content, env[s])'
      BY <1>t, <2>1, <2>2, <2>3, <2>8, <2>9 DEF Fits, body
    <2>11. QED
      BY <2>2, <2>10 DEF TaskFits
  <1>9. QED
    BY <1>0, <1>1, <1>2, <1>3, <1>4, <1>5, <1>6, <1>7, <1>8 DEF Handle

(* What tasks hold stays about their requests, whatever the enclave does. *)
LEMMA TasksFitStep == LocalInv /\ ChecksInv /\ TasksFit /\ [Next]_vars => TasksFit'
  <1> SUFFICES ASSUME LocalInv, TypeOK, TaskOK, ChecksInv, TasksFit, [Next]_vars PROVE TasksFit'
    BY DEF LocalInv
  <1>t. /\ pc \in [Slots -> PcValues] /\ env \in [Slots -> Envelopes \cup {NoEnv}]
        /\ verdict \in [Slots -> Verdicts] /\ proof \in [Slots -> Seq(Proofs)]
        /\ reply = [s \in Slots |-> reply[s]] /\ \A s \in Slots : TaskFits(s)
    BY DEF TypeOK, TasksFit
  <1>i. HistoryGrows
    BY HistoryStep DEF LocalInv
  <1>1. ASSUME NEW s \in Slots,
               Accept(s) \/ DropFrame(s) \/ Respond(s) \/ \E e \in Envelopes : ReadFrame(s, e)
        PROVE  TasksFit'
    <2>1. /\ pc'[s] \in {"idle", "read", "dispatch"} /\ reply' = [t \in Slots |-> reply'[t]]
          /\ \A t \in Slots \ {s} :
                /\ pc'[t] = pc[t] /\ env'[t] = env[t] /\ verdict'[t] = verdict[t]
                /\ proof'[t] = proof[t] /\ reply'[t] = reply[t]
      BY <1>1, <1>t DEF Accept, DropFrame, Respond, ReadFrame, EndTask, Goto
    <2>2. \A t \in Slots \ {s} : TaskFits(t)'
      BY <2>1, <1>t, <1>i, OthersFit
    <2>3. TaskFits(s)'
      BY <2>1 DEF TaskFits
    <2>4. QED
      BY <2>1, <2>2, <2>3 DEF TasksFit
  <1>2. ASSUME NEW s \in Slots, Handle(s) PROVE TasksFit'
    <2>1. \A t \in Slots \ {s} : TaskFits(t)'
      BY <1>2, <1>t, <1>i, HandlerIsLocal, OthersFit
    <2>2. QED
      BY <1>2, <2>1, HandlerIsLocal, HandlerFits DEF TasksFit
  <1>3. CASE Crash
    BY <1>3 DEF Crash, TasksFit, TaskFits
  <1>4. CASE Restart \/ UNCHANGED vars
    <2>1. UNCHANGED <<pc, env, verdict, proof, reply>>
      BY <1>4 DEF Restart, vars, locals
    <2>2. \A t \in Slots : TaskFits(t)'
      BY <2>1, <1>t, <1>i, OthersFit
    <2>3. QED
      BY <2>1, <2>2, <1>t DEF TasksFit
  <1>q. QED
    BY <1>1, <1>2, <1>3, <1>4 DEF Next

(* Every call so far got its own answer: a body a client built parses, a    *)
(* call in progress has no result yet, the response on a connection fits    *)
(* the request of its client, and so does the result of a call that is over.*)
CallFits(c) ==
    /\ req[c].route = "inference" => req[c].body[1].parses
    /\ stage[c] # "idle" => result[c].status # 200
    /\ wire[c] # <<>> /\ wire[c][1].status = 200 => Fits(wire[c][1].content, req[c])
    /\ Answered(c) => req[c].route # "attestation" /\ Fits(result[c].content, req[c])

CallsFit ==
    /\ result = [c \in Clients |-> result[c]]
    /\ att = [c \in Clients |-> att[c]]
    /\ \A c \in Clients : CallFits(c)

(* A call that a step leaves alone keeps what it has. *)
LEMMA OtherCallsFit ==
    ASSUME HistoryGrows, NEW d \in Clients, CallFits(d),
           stage'[d] = stage[d], req'[d] = req[d], result'[d] = result[d], wire'[d] = wire[d]
    PROVE  CallFits(d)'
  <1>1. /\ wire[d] # <<>> /\ wire[d][1].status = 200 => Fits(wire[d][1].content, req[d])'
        /\ Answered(d) => req[d].route # "attestation" /\ Fits(result[d].content, req[d])'
    BY FitsMonotone DEF CallFits
  <1>2. QED
    BY <1>1 DEF CallFits, Answered

(* Every step of a call keeps its answer its own. *)
LEMMA CallsFitStep ==
    LocalInv /\ TasksFit /\ Forwarding /\ ConnectionInv /\ CallsFit /\ [GatewayNext]_gvars
        => CallsFit'
  <1> SUFFICES ASSUME LocalInv, TasksFit, Forwarding, ConnectionInv, CallsFit,
                      [GatewayNext]_gvars
               PROVE  CallsFit'
    OBVIOUS
  <1>t. /\ EndsTyped /\ ConnectionsOK
        /\ result = [c \in Clients |-> result[c]] /\ att = [c \in Clients |-> att[c]]
        /\ \A c \in Clients : CallFits(c)
    BY DEF ConnectionInv, CallsFit
  <1>i. HistoryGrows
    BY EnclaveStep, HistoryStep
  <1>1. ASSUME NEW c \in Clients,
               \/ FetchAttestation(c) \/ KeepAttestation(c) \/ ReuseAttestation(c)
               \/ \E b \in Bodies : Seal(c, b)
               \/ \E e \in LedgerRequests : AskLedger(c, e)
        PROVE  CallsFit'
    <2>1. /\ result' = [d \in Clients |-> result'[d]] /\ att' = [d \in Clients |-> att'[d]]
          /\ wire' = wire
          /\ \A d \in Clients \ {c} :
                stage'[d] = stage[d] /\ req'[d] = req[d] /\ result'[d] = result[d]
      BY <1>1, <1>t DEF FetchAttestation, KeepAttestation, ReuseAttestation, Seal, AskLedger, At,
                        Finish, EndsTyped, conns
    <2>2. wire[c] = <<>>
      BY <1>1, <1>t DEF FetchAttestation, KeepAttestation, ReuseAttestation, Seal, AskLedger, At,
                        ConnectionsOK, ResponsesAwaited
    <2>3. result'[c].status # 200
      <3>1. CASE \/ KeepAttestation(c) \/ \E b \in Bodies : Seal(c, b)
        <4>1. stage[c] = "seal" /\ result' = result
          BY <3>1 DEF KeepAttestation, Seal, At
        <4>2. QED
          BY <4>1, <1>t DEF CallFits
      <3>2. CASE FetchAttestation(c) \/ \E e \in LedgerRequests : AskLedger(c, e)
        BY <3>2, <1>t DEF FetchAttestation, AskLedger, NoResult, Result
      <3>3. CASE ReuseAttestation(c)
        BY <3>3, <1>t DEF ReuseAttestation, Finish, Rejected, NoResult, Result
      <3>4. QED
        BY <1>1, <3>1, <3>2, <3>3
    <2>4. req'[c].route = "inference" => req'[c].body[1].parses
      <3>1. CASE FetchAttestation(c) \/ KeepAttestation(c) \/ ReuseAttestation(c)
        BY <3>1, <1>t DEF FetchAttestation, KeepAttestation, ReuseAttestation, EndsTyped, NoEnv,
                          Env, CallFits
      <3>2. CASE \E b \in Bodies : Seal(c, b)
        BY <3>2, <1>t DEF Seal, Sealable, EndsTyped, Env
      <3>3. CASE \E e \in LedgerRequests : AskLedger(c, e)
        BY <3>3, <1>t, LedgerRequestsAssumption DEF AskLedger, EndsTyped
      <3>4. QED
        BY <1>1, <3>1, <3>2, <3>3
    <2>5. CallFits(c)'
      BY <2>1, <2>2, <2>3, <2>4 DEF CallFits, Answered
    <2>6. \A d \in Clients \ {c} : CallFits(d)'
      BY <2>1, <1>t, <1>i, OtherCallsFit
    <2>7. QED
      BY <2>1, <2>5, <2>6 DEF CallsFit
  <1>2. ASSUME NEW c \in Clients, Receive(c) \/ Upstream(c) \/ Timeout(c) PROVE CallsFit'
    <2>1. /\ result' = [d \in Clients |-> result'[d]] /\ att' = [d \in Clients |-> att'[d]]
          /\ req' = req
          /\ \A d \in Clients \ {c} :
                stage'[d] = stage[d] /\ wire'[d] = wire[d] /\ result'[d] = result[d]
      BY <1>2, <1>t DEF Receive, Upstream, Timeout, Deliver, Disconnect, At, Finish, EndsTyped, conns
    <2>2. wire'[c] = <<>>
      BY <1>2, <1>t DEF Receive, Upstream, Timeout, Disconnect, EndsTyped, ConnectionsOK,
                        ResponsesAwaited, conns
    <2>3. /\ stage'[c] # "idle" => result'[c].status # 200
          /\ result'[c].status = 200 =>
                req[c].route # "attestation" /\ Fits(result'[c].content, req[c])
      <3>1. CASE Upstream(c) \/ Timeout(c)
        BY <3>1, <1>t DEF Upstream, Timeout, Finish, Result
      <3>2. CASE Receive(c)
        BY <3>2, <1>t DEF Receive, Deliver, At, Finish, Result, Rejected, CallFits, EndsTyped
      <3>3. QED
        BY <1>2, <3>1, <3>2
    <2>4. CallFits(c)'
      BY <2>1, <2>2, <2>3, <1>t, <1>i, FitsMonotone DEF CallFits, Answered
    <2>5. \A d \in Clients \ {c} : CallFits(d)'
      BY <2>1, <1>t, <1>i, OtherCallsFit
    <2>6. QED
      BY <2>1, <2>4, <2>5 DEF CallsFit
  <1>3. ASSUME NEW c \in Clients, NEW s \in Slots, Connect(c, s) \/ WriteFrame(c, s)
        PROVE  CallsFit'
    <2>1. /\ UNCHANGED <<att, req, result, wire>> /\ stage[c] # "idle" /\ stage'[c] # "idle"
          /\ \A d \in Clients \ {c} : stage'[d] = stage[d]
      BY <1>3, <1>t DEF Connect, WriteFrame, At, EndsTyped, conns
    <2>2. CallFits(c)'
      BY <2>1, <1>t, <1>i, FitsMonotone DEF CallFits, Answered
    <2>3. \A d \in Clients \ {c} : CallFits(d)'
      BY <2>1, <1>t, <1>i, OtherCallsFit
    <2>4. QED
      BY <2>1, <2>2, <2>3, <1>t DEF CallsFit
  <1>4. ASSUME NEW s \in Slots, SendResponse(s) PROVE CallsFit'
    <2>1. /\ UNCHANGED <<stage, att, req, result>> /\ pc[s] = "reply"
          /\ wire' = [c \in Clients |-> IF link[s] = <<c>> THEN <<reply[s]>> ELSE wire[c]]
      BY <1>4 DEF SendResponse, Respond, calls
    <2>2. ASSUME NEW c \in Clients, link[s] = <<c>> PROVE CallFits(c)'
      <3>1. env[s] = req[c]
        BY <2>1, <2>2, <1>t DEF ConnectionsOK, EndsAgree
      <3>2. reply[s].status = 200 => Fits(reply[s].content, req[c])
        BY <2>1, <3>1 DEF TasksFit, TaskFits
      <3>3. wire'[c] = <<reply[s]>>
        BY <2>1, <2>2
      <3>4. QED
        BY <2>1, <3>2, <3>3, <1>t, <1>i, FitsMonotone DEF CallFits, Answered
    <2>3. ASSUME NEW c \in Clients, link[s] # <<c>> PROVE CallFits(c)'
      BY <2>1, <2>3, <1>t, <1>i, OtherCallsFit
    <2>4. QED
      BY <2>1, <2>2, <2>3, <1>t DEF CallsFit
  <1>5. ASSUME \/ \E s \in Slots : PeerClosed(s) \/ EnclaveHandles(s)
               \/ EnclaveCrash \/ EnclaveRestart \/ UNCHANGED gvars
        PROVE  CallsFit'
    <2>1. UNCHANGED <<stage, att, req, result, wire>>
      BY <1>5 DEF PeerClosed, EnclaveHandles, EnclaveCrash, EnclaveRestart, gvars, calls, conns
    <2>2. \A d \in Clients : CallFits(d)'
      BY <2>1, <1>t, <1>i, OtherCallsFit
    <2>3. QED
      BY <2>1, <2>2, <1>t DEF CallsFit
  <1>q. QED
    BY <1>1, <1>2, <1>3, <1>4, <1>5 DEF GatewayNext

(* What is known of a call, of the task that serves it and of the           *)
(* connection between them, all at once.                                    *)
CallInv == LocalInv /\ ChecksInv /\ TasksFit /\ Forwarding /\ ConnectionInv /\ CallsFit

(* The invariant of calls holds at the start, *)
LEMMA CallInit == GatewayInit => CallInv
  <1>1. SUFFICES ASSUME GatewayInit PROVE CallInv
    OBVIOUS
  <1>2. LocalInv /\ ChecksInv
    BY <1>1, InitType DEF GatewayInit, LocalInv, Init, ChecksInv, PastChecks
  <1>3. TasksFit
    BY <1>1 DEF GatewayInit, Init, TasksFit, TaskFits
  <1>4. Forwarding /\ ConnectionInv
    BY <1>1, OptionalNone DEF GatewayInit, Forwarding, ConnectionInv, EndsTyped, ConnectionsOK,
                                EndsAgree, OneConnection, ResponsesAwaited, Stages
  <1>5. CallsFit
    BY <1>1 DEF GatewayInit, CallsFit, CallFits, Answered, NoResult, Result, NoEnv, Env
  <1>6. QED
    BY <1>2, <1>3, <1>4, <1>5 DEF CallInv

(* and is kept by every step of client, proxy or enclave. *)
LEMMA CallStep == CallInv /\ [GatewayNext]_gvars => CallInv'
  BY LocalStep, ChecksStep, TasksFitStep, EnclaveStep, ForwardingStep, ConnectionStep, CallsFitStep
     DEF CallInv, LocalInv

(* The answer to a call is the answer to that call, for any number of       *)
(* clients, tasks, timeouts, late answers, crashes and boots: do_forward    *)
(* gives every HTTP request a connection of its own and drops it with the   *)
(* request, and the enclave answers on the connection it read from.         *)
THEOREM EveryAnswerIsItsOwn == GatewaySpec => []AnswersOwnCall
  <1>1. CallInv => AnswersOwnCall
    BY DEF CallInv, CallsFit, CallFits, AnswersOwnCall, Answered, Proved, Fits
  <1>2. QED
    BY <1>1, CallInit, CallStep, PTL DEF GatewaySpec

-----------------------------------------------------------------------------
(* Keys and receipts *)

(* The attestation a client holds names both keys of one boot, and a request*)
(* body in its hands is sealed to the channel key of that boot.             *)
KeyKept(c) ==
    /\ att[c] \in AttDocs \cup {<<>>}
    /\ stage[c] = "seal" => att[c] \in AttDocs
    /\ req[c].route = "inference" =>
          att[c] \in AttDocs /\ req[c].body[1].sealed_to = att[c][1].channel_public_key

KeysInv ==
    /\ sealed \subseteq Bodies
    /\ \A c \in Clients : KeyKept(c)

(* A document is one, and holds the keys of one boot. *)
LEMMA DocKeys ==
    ASSUME NEW a \in AttDocs
    PROVE  \E e \in Epochs : /\ a = <<KeysOf(e)>> /\ a # <<>>
                            /\ a[1].channel_public_key = e /\ a[1].proof_verifier_key = e
  BY DEF AttDocs, KeysOf

(* Only a fresh attestation replaces the one a client holds, and none of its*)
(* sealed requests is under way when that happens.                          *)
LEMMA KeysStep == CallInv /\ KeysInv /\ [GatewayNext]_gvars => KeysInv'
  <1> SUFFICES ASSUME CallInv, KeysInv, [GatewayNext]_gvars PROVE KeysInv'
    OBVIOUS
  <1>t. /\ EndsTyped /\ att = [c \in Clients |-> att[c]]
        /\ sealed \subseteq Bodies /\ \A c \in Clients : KeyKept(c) /\ CallFits(c)
    BY DEF CallInv, ConnectionInv, CallsFit, KeysInv
  <1>k. ASSUME NEW c \in Clients, att'[c] = att[c], req'[c] = req[c],
               stage'[c] # "seal" \/ stage[c] = "seal"
        PROVE  KeyKept(c)'
    BY <1>k, <1>t DEF KeyKept
  <1>1. ASSUME NEW c \in Clients, FetchAttestation(c) \/ ReuseAttestation(c)
                                  \/ \E e \in LedgerRequests : AskLedger(c, e)
        PROVE  KeysInv'
    <2>1. /\ UNCHANGED <<att, sealed>> /\ req'[c].route # "inference"
          /\ stage'[c] = "seal" => att[c] # <<>>
          /\ \A d \in Clients \ {c} : stage'[d] = stage[d] /\ req'[d] = req[d]
      <3>1. CASE FetchAttestation(c)
        BY <3>1, <1>t DEF FetchAttestation, At, EndsTyped, Env
      <3>2. CASE ReuseAttestation(c)
        BY <3>2, <1>t DEF ReuseAttestation, At, Finish, EndsTyped, NoEnv, Env
      <3>3. CASE \E e \in LedgerRequests : AskLedger(c, e)
        BY <3>3, <1>t, LedgerRequestsAssumption DEF AskLedger, At, EndsTyped
      <3>4. QED
        BY <1>1, <3>1, <3>2, <3>3
    <2>2. KeyKept(c)'
      BY <2>1, <1>t DEF KeyKept
    <2>3. \A d \in Clients \ {c} : KeyKept(d)'
      BY <2>1, <1>k
    <2>4. QED
      BY <2>1, <2>2, <2>3, <1>t DEF KeysInv
  <1>2. ASSUME NEW c \in Clients, NEW b \in Bodies, Seal(c, b) PROVE KeysInv'
    <2>1. /\ UNCHANGED att /\ sealed' = sealed \cup {b} /\ stage[c] = "seal"
          /\ b.sealed_to = att[c][1].channel_public_key
          /\ req'[c] = Env("inference", <<>>, <<b>>) /\ stage'[c] = "connect"
          /\ \A d \in Clients \ {c} : stage'[d] = stage[d] /\ req'[d] = req[d]
      BY <1>2, <1>t DEF Seal, At, EndsTyped
    <2>2. req'[c].body[1] = b
      BY <2>1 DEF Env
    <2>3. KeyKept(c)'
      BY <2>1, <2>2, <1>t DEF KeyKept
    <2>4. \A d \in Clients \ {c} : KeyKept(d)'
      BY <2>1, <1>k
    <2>5. QED
      BY <2>1, <2>3, <2>4, <1>t DEF KeysInv
  <1>3. ASSUME NEW c \in Clients, Receive(c) PROVE KeysInv'
    <2>1. /\ UNCHANGED <<req, sealed>> /\ wire[c] # <<>>
          /\ \A d \in Clients \ {c} : stage'[d] = stage[d] /\ att'[d] = att[d]
      BY <1>3, <1>t DEF Receive, Deliver, At, Finish, EndsTyped
    <2>2. \/ att' = att /\ stage'[c] # "seal"
          \/ /\ wire[c][1].status = 200 /\ req[c].route = "attestation"
             /\ att'[c] = wire[c][1].content
      BY <1>3, <1>t DEF Receive, Deliver, At, Finish, EndsTyped
    <2>3. CASE att' = att /\ stage'[c] # "seal"
      BY <2>1, <2>3, <1>k, <1>t DEF KeysInv
    <2>4. CASE /\ wire[c][1].status = 200 /\ req[c].route = "attestation"
               /\ att'[c] = wire[c][1].content
      <3>1. att'[c] \in AttDocs
        BY <2>1, <2>4, <1>t DEF CallFits, Fits
      <3>2. KeyKept(c)'
        BY <2>1, <2>4, <3>1 DEF KeyKept
      <3>3. \A d \in Clients \ {c} : KeyKept(d)'
        BY <2>1, <1>k
      <3>4. QED
        BY <2>1, <3>2, <3>3, <1>t DEF KeysInv
    <2>5. QED
      BY <2>2, <2>3, <2>4
  <1>4. ASSUME NEW c \in Clients, \/ KeepAttestation(c) \/ Upstream(c) \/ Timeout(c)
                                  \/ \E s \in Slots : Connect(c, s) \/ WriteFrame(c, s)
        PROVE  KeysInv'
    <2>1. /\ UNCHANGED <<att, req, sealed>> /\ stage'[c] # "seal"
          /\ \A d \in Clients \ {c} : stage'[d] = stage[d]
      BY <1>4, <1>t DEF KeepAttestation, Upstream, Timeout, Connect, WriteFrame, At, Finish, EndsTyped
    <2>2. QED
      BY <2>1, <1>k, <1>t DEF KeysInv
  <1>5. ASSUME \/ \E s \in Slots : SendResponse(s) \/ PeerClosed(s) \/ EnclaveHandles(s)
               \/ EnclaveCrash \/ EnclaveRestart \/ UNCHANGED gvars
        PROVE  KeysInv'
    <2>1. UNCHANGED calls
      BY <1>5 DEF SendResponse, PeerClosed, EnclaveHandles, EnclaveCrash, EnclaveRestart, gvars
    <2>2. QED
      BY <2>1, <1>k, <1>t DEF KeysInv, calls
  <1>q. QED
    BY <1>1, <1>2, <1>3, <1>4, <1>5 DEF GatewayNext

(* At the start nobody holds an attestation or an answer. *)
LEMMA KeysInit == GatewayInit => KeysInv
  BY DEF GatewayInit, KeysInv, KeyKept, NoEnv, Env

(* Every variable of the call path keeps its type, and no client ever comes *)
(* to seal a body without a verified attestation: a response of another     *)
(* status or to another route is never kept as one.                         *)
THEOREM GatewayTypeCorrect == GatewaySpec => []GatewayTypeOK
  <1>1. ASSUME CallInv, KeysInv PROVE GatewayTypeOK
    <2> DEFINE Docs == [channel_public_key : Epochs, proof_verifier_key : Epochs]
    <2>1. ASSUME NEW c \in Clients PROVE att[c] \in Optional(Docs)
      <3>1. CASE att[c] = <<>>
        BY <3>1, OptionalNone
      <3>2. CASE att[c] \in AttDocs
        <4>1. PICK e \in Epochs : att[c] = <<KeysOf(e)>>
          BY <3>2, DocKeys
        <4>2. KeysOf(e) \in Docs
          BY DEF KeysOf
        <4> HIDE DEF Docs
        <4>3. QED
          BY <4>1, <4>2, OptionalSome
      <3>3. QED
        BY <1>1, <3>1, <3>2 DEF KeysInv, KeyKept
    <2>2. att \in [Clients -> Optional(Docs)]
      BY <1>1, <2>1 DEF CallInv, CallsFit
    <2>3. \A c \in Clients : stage[c] = "seal" => att[c] # <<>>
      BY <1>1, DocKeys DEF KeysInv, KeyKept
    <2>4. QED
      BY <1>1, <2>2, <2>3 DEF GatewayTypeOK, CallInv, Forwarding, ConnectionInv, EndsTyped, KeysInv
  <1>2. QED
    BY <1>1, CallInit, CallStep, KeysInit, KeysStep, PTL DEF GatewaySpec

(* A receipt is worth what it says, however many boots, appends, timeouts   *)
(* and late answers there were since: under the key a client attested       *)
(* before it sealed its request a success verifies, and what verifies is in *)
(* the log of that boot at the index of the receipt.                        *)
THEOREM ReceiptsAlwaysHold == GatewaySpec => []ReceiptsHold
  <1>1. ASSUME CallInv, KeysInv, NEW c \in Clients, Proved(c), NEW p, NEW r, NEW key,
               p = result[c].content[1], r = result[c].content[2],
               key = att[c][1].proof_verifier_key
        PROVE  /\ p.statement.success => verifyReceipt(p, r, key)
               /\ verifyReceipt(p, r, key) =>
                     /\ r.index < Len(ledger[key])
                     /\ Logged(key)[r.index + 1] = p
    <2>1. Answered(c) /\ req[c].route = "inference" /\ CallFits(c) /\ KeyKept(c)
      BY <1>1 DEF Proved, CallInv, CallsFit, KeysInv
    <2>2. /\ InItsLog(p, r)
          /\ p.statement.success => req[c].body[1].sealed_to = p.signer
      BY <1>1, <2>1 DEF CallFits, Fits
    <2>3. key \in Epochs /\ req[c].body[1].sealed_to = key
      BY <1>1, <2>1, DocKeys DEF KeyKept
    <2>4. p.statement.success => verifyReceipt(p, r, key)
      BY <2>2, <2>3 DEF InItsLog
    <2>5. ASSUME verifyReceipt(p, r, key)
          PROVE  r.index < Len(ledger[key]) /\ Logged(key)[r.index + 1] = p
      <3>1. p.signer = key
        BY <2>5 DEF verifyReceipt, check_proof_signature, SignedBy
      <3>2. /\ r.index \in Nat /\ r.index + 1 \in DOMAIN ledger[key]
            /\ ledger[key][r.index + 1] = leaf_hash(p)
        BY <2>2, <3>1 DEF InItsLog
      <3>3. ledger[key] \in Seq(Leaves)
        BY <1>1, <2>3 DEF CallInv, LocalInv, TypeOK
      <3> DEFINE idx == r.index
                 log == ledger[key]
      <3>4. idx \in Nat /\ idx + 1 \in DOMAIN log /\ log \in Seq(Leaves)
        BY <3>2, <3>3
      <3> HIDE DEF idx, log
      <3>5. idx < Len(log) /\ idx + 1 \in 1..Len(log)
        BY <3>4
      <3>6. Logged(key)[idx + 1] = EntryOf(log[idx + 1])
        BY <3>5 DEF Logged, log
      <3>7. EntryOf(leaf_hash(p)) = p
        BY DEF EntryOf, leaf_hash
      <3>8. QED
        BY <3>2, <3>5, <3>6, <3>7 DEF idx, log
    <2>6. QED
      BY <2>4, <2>5
  <1>2. CallInv /\ KeysInv => ReceiptsHold
    BY <1>1 DEF ReceiptsHold
  <1>3. QED
    BY <1>2, CallInit, CallStep, KeysInit, KeysStep, PTL DEF GatewaySpec

-----------------------------------------------------------------------------
(* A call is logged at most once. *)

(* A sealed body is in at most one place: with the client that has not sent *)
(* it, with the task that has not logged its proof, or in a log.            *)
Unsent(c) == stage[c] \in {"connect", "write"} /\ req[c].route = "inference"

Pending(s) == env[s].route = "inference" /\ pc[s] # "reply"

UnsentKey(c) == req[c].body[1].commitment

PendingKey(s) == env[s].body[1].commitment

LoggedKey(e, i) == EntryOf(ledger[e][i]).statement.commitment

(* Every body on its way, and every proof, is of a body some client sealed. *)
AllSealed ==
    /\ \A b \in sealed : b \in Bodies /\ Sealable(b)
    /\ \A c \in Clients : Unsent(c) => req[c].body[1] \in sealed
    /\ \A s \in Slots : Pending(s) => env[s].body[1] \in sealed
    /\ \A e \in Epochs : \A i \in DOMAIN ledger[e] : \E b \in sealed : LoggedKey(e, i) = b.commitment

OnePlace ==
    /\ \A c, d \in Clients : Unsent(c) /\ Unsent(d) /\ UnsentKey(c) = UnsentKey(d) => c = d
    /\ \A c \in Clients, s \in Slots : Unsent(c) /\ Pending(s) => UnsentKey(c) # PendingKey(s)
    /\ \A s, t \in Slots : Pending(s) /\ Pending(t) /\ PendingKey(s) = PendingKey(t) => s = t

OneEntry ==
    /\ \A c \in Clients : Unsent(c) =>
          \A e \in Epochs : \A i \in DOMAIN ledger[e] : LoggedKey(e, i) # UnsentKey(c)
    /\ \A s \in Slots : Pending(s) =>
          \A e \in Epochs : \A i \in DOMAIN ledger[e] : LoggedKey(e, i) # PendingKey(s)
    /\ \A e, f \in Epochs : \A i \in DOMAIN ledger[e], j \in DOMAIN ledger[f] :
          LoggedKey(e, i) = LoggedKey(f, j) => e = f /\ i = j

OnceInv == AllSealed /\ OnePlace /\ OneEntry

(* A step that takes up no body and logs nothing. *)
LEMMA OnceKept ==
    ASSUME OnceInv, sealed' = sealed, ledger' = ledger,
           \A c \in Clients : Unsent(c)' => Unsent(c) /\ req'[c] = req[c],
           \A s \in Slots : Pending(s)' => Pending(s) /\ env'[s] = env[s]
    PROVE  OnceInv'
  <1>k. /\ \A c \in Clients : req'[c] = req[c] => UnsentKey(c)' = UnsentKey(c)
        /\ \A s \in Slots : env'[s] = env[s] => PendingKey(s)' = PendingKey(s)
        /\ \A e, i : LoggedKey(e, i)' = LoggedKey(e, i)
    BY DEF UnsentKey, PendingKey, LoggedKey
  <1>1. AllSealed'
    BY <1>k DEF OnceInv, AllSealed
  <1>2. OnePlace'
    BY <1>k DEF OnceInv, OnePlace
  <1>3. OneEntry'
    BY <1>k DEF OnceInv, OneEntry
  <1>4. QED
    BY <1>1, <1>2, <1>3 DEF OnceInv

(* A body that is not in sealed has a commitment of its own. *)
LEMMA FreshCommitment ==
    ASSUME AllSealed, NEW b \in Bodies, Sealable(b), b \notin sealed
    PROVE  /\ \A c \in Clients : Unsent(c) => UnsentKey(c) # b.commitment
           /\ \A s \in Slots : Pending(s) => PendingKey(s) # b.commitment
           /\ \A e \in Epochs : \A i \in DOMAIN ledger[e] : LoggedKey(e, i) # b.commitment
  <1>1. \A d \in sealed : d.commitment # b.commitment
    BY FreshSaltsAssumption DEF AllSealed
  <1>2. QED
    BY <1>1 DEF AllSealed, UnsentKey, PendingKey

(* A body just sealed is nowhere else. *)
LEMMA OnceSeal ==
    ASSUME CallInv, OnceInv, NEW c \in Clients, NEW b \in Bodies, Seal(c, b)
    PROVE  OnceInv'
  <1>1. /\ b \notin sealed /\ Sealable(b) /\ sealed' = sealed \cup {b}
        /\ stage[c] = "seal" /\ stage'[c] = "connect"
        /\ req'[c] = Env("inference", <<>>, <<b>>)
        /\ \A d \in Clients \ {c} : stage'[d] = stage[d] /\ req'[d] = req[d]
        /\ UNCHANGED <<ledger, env, pc>>
    BY DEF Seal, At, CallInv, ConnectionInv, EndsTyped, vars, shared, locals
  <1>2. req'[c].body[1] = b /\ UnsentKey(c)' = b.commitment
    BY <1>1 DEF Env, UnsentKey
  <1>3. \A d \in Clients \ {c} : (Unsent(d)' <=> Unsent(d)) /\ UnsentKey(d)' = UnsentKey(d)
    BY <1>1 DEF Unsent, UnsentKey
  <1>4. /\ \A s \in Slots : (Pending(s)' <=> Pending(s)) /\ PendingKey(s)' = PendingKey(s)
        /\ \A e, i : LoggedKey(e, i)' = LoggedKey(e, i)
    BY <1>1 DEF Pending, PendingKey, LoggedKey
  <1>5. /\ \A d \in Clients : Unsent(d) => UnsentKey(d) # b.commitment
        /\ \A s \in Slots : Pending(s) => PendingKey(s) # b.commitment
        /\ \A e \in Epochs : \A i \in DOMAIN ledger[e] : LoggedKey(e, i) # b.commitment
    BY <1>1, FreshCommitment DEF OnceInv
  <1>6. AllSealed'
    BY <1>1, <1>2, <1>3, <1>4 DEF OnceInv, AllSealed
  <1>7. OnePlace'
    BY <1>2, <1>3, <1>4, <1>5 DEF OnceInv, OnePlace
  <1>8. OneEntry'
    BY <1>1, <1>2, <1>3, <1>4, <1>5 DEF OnceInv, OneEntry
  <1>9. QED
    BY <1>6, <1>7, <1>8 DEF OnceInv

(* Writing the frame hands the body over; the client keeps no right to send *)
(* it again.                                                                *)
LEMMA OnceWrite ==
    ASSUME CallInv, OnceInv, NEW c \in Clients, NEW s \in Slots, WriteFrame(c, s)
    PROVE  OnceInv'
  <1>1. /\ stage[c] = "write" /\ stage'[c] = "wait" /\ env'[s] = req[c]
        /\ \A d \in Clients \ {c} : stage'[d] = stage[d]
        /\ \A t \in Slots \ {s} : env'[t] = env[t] /\ pc'[t] = pc[t]
        /\ UNCHANGED <<ledger, sealed, req>>
    BY DEF WriteFrame, ReadFrame, Goto, At, CallInv, LocalInv, TypeOK, ConnectionInv, EndsTyped, shared
  <1>2. /\ ~Unsent(c)'
        /\ \A d \in Clients \ {c} : (Unsent(d)' <=> Unsent(d)) /\ UnsentKey(d)' = UnsentKey(d)
    BY <1>1 DEF Unsent, UnsentKey
  <1>3. /\ Pending(s)' => Unsent(c) /\ PendingKey(s)' = UnsentKey(c)
        /\ \A t \in Slots \ {s} : (Pending(t)' <=> Pending(t)) /\ PendingKey(t)' = PendingKey(t)
        /\ \A e, i : LoggedKey(e, i)' = LoggedKey(e, i)
    BY <1>1 DEF Pending, PendingKey, Unsent, UnsentKey, LoggedKey
  <1>4. AllSealed'
    BY <1>1, <1>2, <1>3 DEF OnceInv, AllSealed
  <1>5. OnePlace'
    BY <1>2, <1>3 DEF OnceInv, OnePlace
  <1>6. OneEntry'
    BY <1>1, <1>2, <1>3 DEF OnceInv, OneEntry
  <1>7. QED
    BY <1>4, <1>5, <1>6 DEF OnceInv

(* Appending moves the body of a task to the log. *)
LEMMA OnceAppend ==
    ASSUME CallInv, OnceInv, NEW s \in Slots, AppendProof(s), UNCHANGED <<calls, conns>>
    PROVE  OnceInv'
  <1>t. /\ ledger \in [Epochs -> Seq(Leaves)] /\ epoch \in Epochs
        /\ pc \in [Slots -> PcValues] /\ proof \in [Slots -> Seq(Proofs)]
    BY DEF CallInv, LocalInv, TypeOK
  <1>p. PICK p : p = proof[s][1]
    OBVIOUS
  <1>n. PICK n : n = Len(ledger[epoch]) + 1
    OBVIOUS
  <1>1. /\ pc[s] = "append" /\ pc'[s] = "reply"
        /\ ledger' = [ledger EXCEPT ![epoch] = Append(ledger[epoch], leaf_hash(p))]
        /\ \A t \in Slots \ {s} : pc'[t] = pc[t]
        /\ UNCHANGED <<env, sealed, req, stage>>
    BY <1>p, <1>t DEF AppendProof, Answer, log_append, calls
  <1>2. Pending(s) /\ PendingKey(s) = p.statement.commitment
    <2>1. env[s].route = "inference"
      BY <1>1 DEF CallInv, LocalInv, TaskOK
    <2>2. Pending(s)
      BY <1>1, <2>1 DEF Pending
    <2>3. body(s).parses
      BY <2>2 DEF OnceInv, AllSealed, Sealable, body
    <2>4. QED
      BY <1>p, <1>1, <2>2, <2>3 DEF CallInv, TasksFit, TaskFits, PendingKey, body
  <1>3. /\ ~Pending(s)'
        /\ \A t \in Slots \ {s} : (Pending(t)' <=> Pending(t)) /\ PendingKey(t)' = PendingKey(t)
        /\ \A c \in Clients : (Unsent(c)' <=> Unsent(c)) /\ UnsentKey(c)' = UnsentKey(c)
    BY <1>1 DEF Pending, PendingKey, Unsent, UnsentKey
  <1>4. leaf_hash(p) \in Leaves
    BY <1>p, <1>1, LoggableProof DEF CallInv, LocalInv
  <1>5. n \notin DOMAIN ledger[epoch]
    BY <1>n, <1>t
  <1>6. ASSUME NEW e \in Epochs, NEW i \in DOMAIN ledger'[e]
        PROVE  \/ i \in DOMAIN ledger[e] /\ LoggedKey(e, i)' = LoggedKey(e, i)
               \/ e = epoch /\ i = n /\ LoggedKey(e, i)' = PendingKey(s)
    <2>1. CASE e # epoch
      BY <1>1, <1>t, <1>6, <2>1 DEF LoggedKey
    <2>2. CASE e = epoch
      <3> DEFINE old == ledger[epoch]
                 new == Append(old, leaf_hash(p))
      <3>1. ledger'[e] = new /\ old \in Seq(Leaves)
        BY <1>1, <1>t, <2>2
      <3> HIDE DEF old
      <3>2. i \in 1..(Len(old) + 1) /\ DOMAIN old = 1..Len(old) /\ Len(old) \in Nat
        BY <1>4, <1>6, <3>1
      <3>3. CASE i \in DOMAIN old
        <4>1. new[i] = old[i]
          BY <1>4, <3>1, <3>3
        <4>2. QED
          BY <2>2, <3>1, <3>3, <4>1 DEF LoggedKey, old
      <3>4. CASE i = Len(old) + 1
        <4>1. new[i] = leaf_hash(p)
          BY <1>4, <3>1, <3>4
        <4>2. EntryOf(leaf_hash(p)) = p
          BY DEF EntryOf, leaf_hash
        <4>3. ledger'[e][i] = leaf_hash(p)
          BY <3>1, <4>1
        <4> HIDE DEF new
        <4>4. LoggedKey(e, i)' = p.statement.commitment
          BY <4>2, <4>3 DEF LoggedKey
        <4>5. QED
          BY <1>2, <1>n, <2>2, <3>4, <4>4 DEF old
      <3>5. QED
        BY <3>2, <3>3, <3>4
    <2>3. QED
      BY <2>1, <2>2
  <1>7. env[s].body[1] \in sealed /\ PendingKey(s) = env[s].body[1].commitment
    BY <1>2 DEF OnceInv, AllSealed, PendingKey
  <1>8. AllSealed'
    BY <1>1, <1>3, <1>6, <1>7 DEF OnceInv, AllSealed
  <1>9. OnePlace'
    BY <1>3 DEF OnceInv, OnePlace
  <1>10. OneEntry'
    BY <1>2, <1>3, <1>5, <1>6 DEF OnceInv, OneEntry, OnePlace
  <1>11. QED
    BY <1>8, <1>9, <1>10 DEF OnceInv

(* Handlers log nothing but by append_proof, and begin with a request that  *)
(* is not answered yet.                                                     *)
LEMMA HandlerLogs ==
    ASSUME NEW s \in Slots, Handle(s), ~AppendProof(s)
    PROVE  ledger' = ledger /\ pc[s] # "reply"
  BY DEF Handle, PublishAttestation, LedgerRoot, LedgerProof, LedgerConsistency, NotFound,
         ParseRequest, OpenChannel, CheckCommitment, EvaluatePolicy, CallUpstream, SignSuccess,
         SignFailure, Dispatch, Goto, shared

(* Nothing sends a body a second time: a timeout, an error and a restart    *)
(* all lose the request.                                                    *)
LEMMA OnceStep == CallInv /\ OnceInv /\ [GatewayNext]_gvars => OnceInv'
  <1> SUFFICES ASSUME CallInv, OnceInv, [GatewayNext]_gvars PROVE OnceInv'
    OBVIOUS
  <1>t. /\ EndsTyped /\ pc \in [Slots -> PcValues] /\ env \in [Slots -> Envelopes \cup {NoEnv}]
    BY DEF CallInv, ConnectionInv, LocalInv, TypeOK
  <1>k. ASSUME UNCHANGED <<sealed, ledger, pc, env>>,
               \A c \in Clients : Unsent(c)' => Unsent(c) /\ req'[c] = req[c]
        PROVE  OnceInv'
    BY <1>k, OnceKept DEF Pending
  <1>1. ASSUME NEW c \in Clients, FetchAttestation(c) \/ ReuseAttestation(c)
                                  \/ \E e \in LedgerRequests : AskLedger(c, e)
        PROVE  OnceInv'
    <2>1. /\ req'[c].route # "inference" /\ UNCHANGED <<sealed, ledger, pc, env>>
          /\ \A d \in Clients \ {c} : stage'[d] = stage[d] /\ req'[d] = req[d]
      <3>1. CASE FetchAttestation(c)
        BY <3>1, <1>t DEF FetchAttestation, At, EndsTyped, Env, vars, shared, locals
      <3>2. CASE ReuseAttestation(c)
        BY <3>2, <1>t DEF ReuseAttestation, At, Finish, EndsTyped, NoEnv, Env, vars, shared, locals
      <3>3. CASE \E e \in LedgerRequests : AskLedger(c, e)
        BY <3>3, <1>t, LedgerRequestsAssumption DEF AskLedger, At, EndsTyped, vars, shared, locals
      <3>4. QED
        BY <1>1, <3>1, <3>2, <3>3
    <2>2. QED
      BY <1>k, <2>1 DEF Unsent
  <1>2. ASSUME NEW c \in Clients, KeepAttestation(c) \/ Receive(c) \/ Upstream(c) \/ Timeout(c)
        PROVE  OnceInv'
    <2>1. /\ stage'[c] \in {"idle", "seal"} /\ UNCHANGED <<req, sealed, ledger, pc, env>>
          /\ \A d \in Clients \ {c} : stage'[d] = stage[d]
      BY <1>2, <1>t DEF KeepAttestation, Receive, Deliver, Upstream, Timeout, At, Finish, EndsTyped,
                        vars, shared, locals
    <2>2. QED
      BY <1>k, <2>1 DEF Unsent
  <1>3. ASSUME NEW c \in Clients, NEW s \in Slots, Connect(c, s) PROVE OnceInv'
    <2>1. /\ stage[c] = "connect" /\ stage'[c] = "write" /\ pc[s] = "idle"
          /\ UNCHANGED <<req, sealed, ledger, env>>
          /\ \A d \in Clients \ {c} : stage'[d] = stage[d]
          /\ \A t \in Slots \ {s} : pc'[t] = pc[t]
      BY <1>3, <1>t DEF Connect, Accept, Goto, At, EndsTyped, shared
    <2>2. QED
      BY <2>1, OnceKept DEF Unsent, Pending
  <1>4. ASSUME NEW s \in Slots, SendResponse(s) \/ PeerClosed(s) PROVE OnceInv'
    <2>1. /\ env'[s] = NoEnv /\ UNCHANGED <<stage, req, sealed, ledger>>
          /\ \A t \in Slots \ {s} : pc'[t] = pc[t] /\ env'[t] = env[t]
      BY <1>4, <1>t DEF SendResponse, PeerClosed, Respond, DropFrame, EndTask, calls, shared
    <2>2. NoEnv.route # "inference"
      BY DEF NoEnv, Env
    <2>3. QED
      BY <2>1, <2>2, OnceKept DEF Unsent, Pending
  <1>5. ASSUME NEW s \in Slots, EnclaveHandles(s) PROVE OnceInv'
    <2>1. CASE AppendProof(s)
      BY <1>5, <2>1, OnceAppend DEF EnclaveHandles
    <2>2. CASE ~AppendProof(s)
      <3>1. Handle(s) /\ UNCHANGED <<stage, req, sealed>>
        BY <1>5 DEF EnclaveHandles, calls
      <3>2. ledger' = ledger /\ pc[s] # "reply"
        BY <2>2, <3>1, HandlerLogs
      <3>3. env' = env /\ \A t \in Slots \ {s} : pc'[t] = pc[t]
        BY <3>1, <1>t, HandlerMoves DEF CallInv, LocalInv
      <3>4. QED
        BY <3>1, <3>2, <3>3, OnceKept DEF Unsent, Pending
    <2>3. QED
      BY <2>1, <2>2
  <1>6. CASE EnclaveCrash
    <2>1. /\ UNCHANGED <<stage, req, sealed, ledger>> /\ \A s \in Slots : env'[s] = NoEnv
      BY <1>6 DEF EnclaveCrash, Crash, calls
    <2>2. NoEnv.route # "inference"
      BY DEF NoEnv, Env
    <2>3. QED
      BY <2>1, <2>2, OnceKept DEF Unsent, Pending
  <1>7. CASE EnclaveRestart
    <2>1. Restart /\ UNCHANGED <<stage, req, sealed, pc, env>>
      BY <1>7 DEF EnclaveRestart, Restart, calls, locals
    <2>2. ledger' = ledger
      <3>1. epoch + 1 \in Epochs
        BY <2>1, BoundsAssumption DEF CallInv, LocalInv, Restart, BootOK, TypeOK, Epochs
      <3>2. ledger[epoch + 1] = <<>>
        BY <3>1 DEF CallInv, LocalInv, BootOK, TypeOK, Epochs
      <3>3. QED
        BY <2>1, <3>1, <3>2 DEF CallInv, LocalInv, Restart, TypeOK
    <2>3. QED
      BY <1>k, <2>1, <2>2 DEF Unsent
  <1>8. CASE UNCHANGED gvars
    BY <1>k, <1>8 DEF gvars, vars, shared, locals, calls, Unsent
  <1>9. ASSUME NEW c \in Clients, \/ \E b \in Bodies : Seal(c, b)
                                  \/ \E s \in Slots : WriteFrame(c, s)
        PROVE  OnceInv'
    BY <1>9, OnceSeal, OnceWrite
  <1>q. QED
    BY <1>1, <1>2, <1>3, <1>4, <1>5, <1>6, <1>7, <1>8, <1>9 DEF GatewayNext

(* A call is logged at most once over all boots, for any number of clients, *)
(* provided salts are not drawn twice: neither the proxy nor the enclave    *)
(* repeats a request after a timeout, an error or a restart.                *)
THEOREM CallsAreLoggedOnce == GatewaySpec => []LoggedAtMostOnce
  <1>1. GatewayInit => OnceInv
    <2>1. SUFFICES ASSUME GatewayInit PROVE OnceInv
      OBVIOUS
    <2>2. /\ sealed = {} /\ \A c \in Clients : ~Unsent(c)
          /\ \A s \in Slots : ~Pending(s)
          /\ \A e \in Epochs : ledger[e] = <<>>
      BY <2>1 DEF GatewayInit, Init, Unsent, Pending, NoEnv, Env
    <2>3. \A e \in Epochs : DOMAIN ledger[e] = {}
      BY <2>2
    <2>4. QED
      BY <2>2, <2>3 DEF OnceInv, AllSealed, OnePlace, OneEntry
  <1>2. ASSUME CallInv, OnceInv PROVE LoggedAtMostOnce
    <2>1. SUFFICES ASSUME NEW e \in Epochs, NEW f \in Epochs,
                          NEW i \in 1..Len(ledger[e]), NEW j \in 1..Len(ledger[f]),
                          Logged(e)[i].statement.commitment = Logged(f)[j].statement.commitment
                   PROVE  e = f /\ i = j
      BY DEF LoggedAtMostOnce
    <2>2. ledger[e] \in Seq(Leaves) /\ ledger[f] \in Seq(Leaves)
      BY <1>2 DEF CallInv, LocalInv, TypeOK
    <2>3. i \in DOMAIN ledger[e] /\ j \in DOMAIN ledger[f]
      BY <2>2
    <2>4. LoggedKey(e, i) = LoggedKey(f, j)
      BY <2>1 DEF Logged, LoggedKey
    <2>5. QED
      BY <1>2, <2>3, <2>4 DEF OnceInv, OneEntry
  <1>3. QED
    BY <1>1, <1>2, CallInit, CallStep, OnceStep, PTL DEF GatewaySpec
=============================================================================
