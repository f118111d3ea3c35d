------------------------------ MODULE Gateway ------------------------------
(***************************************************************************)
(* The whole path of a call: PZDRClient.process of sdk/typescript/client.ts*)
(* over HTTP to the parent proxy, crates/vsock-parent-proxy/src/main.rs,   *)
(* which gives every HTTP request a vsock connection of its own, bounded   *)
(* by one timeout, to the enclave of module Enclave.                       *)
(*                                                                         *)
(* The enclave does not notice that the proxy has given up: its task goes  *)
(* on, signs and logs.  The proxy does not notice that the enclave has     *)
(* restarted: the next connection reaches a process with other keys.       *)
(***************************************************************************)
EXTENDS Enclave

CONSTANTS
    Clients,        \* callers of the proxy, each with one call at a time
    LedgerRequests  \* what they ask of the log

ASSUME LedgerRequestsAssumption ==
    /\ LedgerRequests \subseteq Envelopes
    /\ \A e \in LedgerRequests :
          e.route = "root" \/ (e.route \in {"proof", "consistency"} /\ e.arg # <<>>)

(* A body process may build: it opens its own commitment. *)
Sealable(b) == b.parses /\ b.fields_ok /\ b.salt # <<>> /\ Opens(b)

(* A salt is 16 random bytes, so no two bodies have one commitment. *)
ASSUME FreshSaltsAssumption ==
    \A b, d \in Bodies : Sealable(b) /\ Sealable(d) /\ b.commitment = d.commitment => b = d

VARIABLES
    stage,      \* where a client's call is (see Stages)
    att,        \* the attestation it holds, if any
    req,        \* the envelope do_forward built for its current HTTP request
    result,     \* what its last call ended with
    sealed,     \* every request body sealed so far (history: salts are random)
    link,       \* link[s]: the client whose connection task s serves, if any
    wire        \* wire[c]: the response frame on client c's connection, if any

calls == <<stage, att, req, result, sealed>>
conns == <<link, wire>>
gvars == <<vars, calls, conns>>

(* idle: no call.  seal: process holds a verified attestation.  connect,    *)
(* write, wait: do_forward is in connect, write_framed, read_framed.        *)
Stages == {"idle", "seal", "connect", "write", "wait"}

Result(status, content) == [status |-> status, content |-> content]

NoResult == Result(0, <<>>)

(* verifyAttestation threw. *)
Rejected == Result(1, <<>>)

GatewayInit ==
    /\ Init
    /\ stage = [c \in Clients |-> "idle"]
    /\ att = [c \in Clients |-> <<>>]
    /\ req = [c \in Clients |-> NoEnv]
    /\ result = [c \in Clients |-> NoResult]
    /\ sealed = {}
    /\ link = [s \in Slots |-> <<>>]
    /\ wire = [c \in Clients |-> <<>>]

At(c, from, to) == stage[c] = from /\ stage' = [stage EXCEPT ![c] = to]

Finish(c, r) ==
    /\ stage' = [stage EXCEPT ![c] = "idle"]
    /\ result' = [result EXCEPT ![c] = r]

-----------------------------------------------------------------------------
(* PZDRClient.process *)

(* getAttestation, which process calls when no attestation is passed in. *)
FetchAttestation(c) ==
    /\ At(c, "idle", "connect")
    /\ req' = [req EXCEPT ![c] = Env("attestation", <<>>, <<>>)]
    /\ result' = [result EXCEPT ![c] = NoResult]
    /\ UNCHANGED <<vars, att, sealed, conns>>

(* getAttestation was called for itself: the document is kept for later. *)
KeepAttestation(c) ==
    /\ At(c, "seal", "idle")
    /\ UNCHANGED <<vars, att, req, result, sealed, conns>>

(* options.attestation: an earlier one is passed in.  verifyAttestation may *)
(* find it too old.                                                         *)
ReuseAttestation(c) ==
    /\ stage[c] = "idle" /\ att[c] # <<>>
    /\ req' = [req EXCEPT ![c] = NoEnv]
    /\ \/ At(c, "idle", "seal") /\ result' = [result EXCEPT ![c] = NoResult]
       \/ Finish(c, Rejected)
    /\ UNCHANGED <<vars, att, sealed, conns>>

(* Fresh salt and nonce, sealed to the attested channel key, with its       *)
(* commitment.                                                              *)
Seal(c, b) ==
    /\ At(c, "seal", "connect")
    /\ b \notin sealed
    /\ Sealable(b)
    /\ b.sealed_to = att[c][1].channel_public_key
    /\ req' = [req EXCEPT ![c] = Env("inference", <<>>, <<b>>)]
    /\ sealed' = sealed \cup {b}
    /\ UNCHANGED <<vars, att, result, conns>>

(* A caller reads the log: forward_ledger_root, forward_path or             *)
(* forward_consistency.  axum parses the number, so what does not parse is  *)
(* answered without the enclave.                                            *)
AskLedger(c, e) ==
    /\ At(c, "idle", "connect")
    /\ req' = [req EXCEPT ![c] = e]
    /\ result' = [result EXCEPT ![c] = NoResult]
    /\ UNCHANGED <<vars, att, sealed, conns>>

(* Mutant: the HTTP status is not looked at. *)
Deliver_unchecked(c, r) ==
    IF req[c].route = "attestation"
    THEN At(c, "wait", "seal") /\ att' = [att EXCEPT ![c] = r.content] /\ UNCHANGED result
    ELSE Finish(c, Result(200, r.content)) /\ UNCHANGED att

(* req(): what the HTTP response means to the call.  A status other than    *)
(* 200 throws; so does an attestation that does not verify.                 *)
Deliver(c, r) ==
    \/ /\ r.status # 200
       /\ Finish(c, Result(r.status, <<>>))
       /\ UNCHANGED att
    \/ /\ r.status = 200 /\ req[c].route = "attestation"
       /\ \/ /\ At(c, "wait", "seal")
             /\ att' = [att EXCEPT ![c] = r.content]
             /\ UNCHANGED result
          \/ Finish(c, Rejected) /\ UNCHANGED att
    \/ /\ r.status = 200 /\ req[c].route # "attestation"
       /\ Finish(c, Result(200, r.content))
       /\ UNCHANGED att

-----------------------------------------------------------------------------
(* do_forward *)

(* Mutant: the stream is not closed with the request. *)
Disconnect_leaks(c) == wire' = [wire EXCEPT ![c] = <<>>] /\ UNCHANGED link

Disconnect(c) ==
    /\ link' = [s \in Slots |-> IF link[s] = <<c>> THEN <<>> ELSE link[s]]
    /\ wire' = [wire EXCEPT ![c] = <<>>]

Connect(c, s) ==
    /\ link[s] = <<>>
    /\ Accept(s)
    /\ At(c, "connect", "write")
    /\ link' = [link EXCEPT ![s] = <<c>>]
    /\ UNCHANGED <<att, req, result, sealed, wire>>

WriteFrame(c, s) ==
    /\ link[s] = <<c>>
    /\ ReadFrame(s, req[c])
    /\ At(c, "write", "wait")
    /\ UNCHANGED <<att, req, result, sealed, conns>>

(* read_framed completes; the response goes to the client as it is. *)
Receive(c) ==
    /\ stage[c] = "wait" /\ wire[c] # <<>>
    /\ Deliver(c, wire[c][1])
    /\ Disconnect(c)
    /\ UNCHANGED <<vars, req, sealed>>

(* Mutant: a broken connection is tried again with the same envelope. *)
Upstream_retries(c) ==
    /\ stage[c] \in {"write", "wait"}
    /\ wire[c] = <<>> /\ \A s \in Slots : link[s] # <<c>>
    /\ stage' = [stage EXCEPT ![c] = "connect"]
    /\ UNCHANGED <<vars, att, req, result, sealed, conns>>

(* AppError::Upstream: no enclave to connect to, or the connection is gone. *)
Upstream(c) ==
    /\ \/ stage[c] = "connect" /\ ~up
       \/ /\ stage[c] \in {"write", "wait"}
          /\ wire[c] = <<>> /\ \A s \in Slots : link[s] # <<c>>
    /\ Finish(c, Result(502, <<>>))
    /\ UNCHANGED <<vars, att, req, sealed, conns>>

(* Mutant: the connection survives the timeout. *)
Timeout_keeps_stream(c) ==
    /\ stage[c] \in {"connect", "write", "wait"}
    /\ Finish(c, Result(504, <<>>))
    /\ UNCHANGED <<vars, att, req, sealed, conns>>

(* AppError::Timeout: the future, and with it the connection, is dropped,   *)
(* whatever the enclave is doing and even if the answer is already there.   *)
(* A caller that hangs up has the same effect.                              *)
Timeout(c) ==
    /\ stage[c] \in {"connect", "write", "wait"}
    /\ Finish(c, Result(504, <<>>))
    /\ Disconnect(c)
    /\ UNCHANGED <<vars, att, req, sealed>>

-----------------------------------------------------------------------------
(* The enclave's side of the connections. *)

(* A response with nobody left to read it is lost. *)
SendResponse(s) ==
    /\ Respond(s)
    /\ wire' = [c \in Clients |-> IF link[s] = <<c>> THEN <<reply[s]>> ELSE wire[c]]
    /\ link' = [link EXCEPT ![s] = <<>>]
    /\ UNCHANGED calls

(* read_framed meets the end of a stream that was closed before the frame. *)
PeerClosed(s) ==
    /\ link[s] = <<>>
    /\ DropFrame(s)
    /\ UNCHANGED <<calls, conns>>

EnclaveHandles(s) == Handle(s) /\ UNCHANGED <<calls, conns>>

(* Connections die with the process; a frame already received stays. *)
EnclaveCrash ==
    /\ Crash
    /\ link' = [s \in Slots |-> <<>>]
    /\ UNCHANGED <<calls, wire>>

EnclaveRestart == Restart /\ UNCHANGED <<calls, conns>>

GatewayNext ==
    \/ \E c \in Clients :
         \/ FetchAttestation(c) \/ KeepAttestation(c) \/ ReuseAttestation(c)
         \/ \E b \in Bodies : Seal(c, b)
         \/ \E e \in LedgerRequests : AskLedger(c, e)
         \/ Receive(c) \/ Upstream(c) \/ Timeout(c)
         \/ \E s \in Slots : Connect(c, s) \/ WriteFrame(c, s)
    \/ \E s \in Slots : SendResponse(s) \/ PeerClosed(s) \/ EnclaveHandles(s)
    \/ EnclaveCrash \/ EnclaveRestart

GatewaySpec == GatewayInit /\ [][GatewayNext]_gvars

-----------------------------------------------------------------------------
(* Properties *)

(* Every variable has its type, and no body is sealed without a key.        *)
GatewayTypeOK ==
    /\ stage \in [Clients -> Stages]
    /\ att \in [Clients -> Optional([channel_public_key : Epochs, proof_verifier_key : Epochs])]
    /\ req \in [Clients -> Envelopes \cup {NoEnv}]
    /\ sealed \subseteq Bodies
    /\ link \in [Slots -> Optional(Clients)]
    /\ \A c \in Clients : stage[c] = "seal" => att[c] # <<>>

EndsAgree ==
    \A s \in Slots, c \in Clients : link[s] = <<c>> =>
        \/ stage[c] = "write" /\ pc[s] = "read"
        \/ stage[c] = "wait" /\ pc[s] \notin {"idle", "read"} /\ env[s] = req[c]

OneConnection ==
    \A s, t \in Slots, c \in Clients : link[s] = <<c>> /\ link[t] = <<c>> => s = t

ResponsesAwaited ==
    \A c \in Clients : wire[c] # <<>> =>
        stage[c] = "wait" /\ \A s \in Slots : link[s] # <<c>>

(* A connection has two ends: the task a client is connected to handles     *)
(* that client's current request and no other, no client has two            *)
(* connections, and a response waits only for a client that reads.          *)
ConnectionsOK == EndsAgree /\ OneConnection /\ ResponsesAwaited

(* A client whose call came back with what it asked for. *)
Answered(c) == stage[c] = "idle" /\ result[c].status = 200

(* A client whose call came back with a proof. *)
Proved(c) == Answered(c) /\ req[c].route = "inference"

(* The response has the member the caller reads, with this value. *)
Reads(answer, field, value) == field \in DOMAIN answer /\ answer[field] = value

(* The answer to a call is the answer to that call, however many earlier    *)
(* calls of this and other clients timed out and were answered late: an     *)
(* inference call gets a proof that names the commitment the client sent,   *)
(* a request to the log gets the index or the size it asked about.          *)
AnswersOwnCall ==
    \A c \in Clients : Answered(c) =>
        LET content == result[c].content
        IN  \/ /\ Proved(c) /\ "statement" \in DOMAIN content[1]
               /\ content[1].statement.commitment = req[c].body[1].commitment
            \/ req[c].route = "proof" /\ Reads(content[1], "index", req[c].arg[1])
            \/ req[c].route = "consistency" /\ Reads(content[1], "size", req[c].arg[1])
            \/ req[c].route = "root" /\ content[1] \in issued

(* What a client's receipt is worth, under the key the client attested      *)
(* before sealing: a success always verifies, although the enclave may have *)
(* restarted or logged more since; and what verifies is in the log of that  *)
(* boot, at the index of the receipt.                                       *)
ReceiptsHold ==
    \A c \in Clients : Proved(c) =>
        LET p   == result[c].content[1]
            r   == result[c].content[2]
            key == att[c][1].proof_verifier_key
        IN  /\ p.statement.success => verifyReceipt(p, r, key)
            /\ verifyReceipt(p, r, key) =>
                  /\ r.index < Len(ledger[key])
                  /\ Logged(key)[r.index + 1] = p

(* A call is logged at most once, over all boots: neither the proxy nor the *)
(* enclave repeats a request after a timeout, an error or a restart.        *)
LoggedAtMostOnce ==
    \A e, f \in Epochs : \A i \in 1..Len(ledger[e]), j \in 1..Len(ledger[f]) :
        Logged(e)[i].statement.commitment = Logged(f)[j].statement.commitment
            => e = f /\ i = j

(* "On any failure path the Gateway still returns a signed Failure Proof":  *)
(* an inference call that ends, ends with a proof.                          *)
FailuresAreProved ==
    \A c \in Clients :
        stage[c] = "idle" /\ req[c].route = "inference" => Proved(c)
=============================================================================
