# Formal model of the PZDR gateway

PZDR (Provable Zero Data Retention) runs inference on encrypted prompts
inside an AWS Nitro enclave and answers every request with a signed statement of
what happened to the plaintext, logged in a Merkle transparency log that anybody
can audit. This directory holds TLA+ models of that system, the TLC
configurations that check them, and TLAPS proofs of what matters most.

    tlc -config EnclaveConcurrent.cfg MCEnclave   # one run
    tlapm EnclaveProofs.tla                       # one module of proofs

`PROJECT.json` lists components, runs, the line range each definition
translates, the hazards the properties are aimed at, and the theorems.

## 1. The system

| Part | Source | State | Operations |
|---|---|---|---|
| Enclave service | `services/pzdr-enclave/src/main.rs` | channel key, proof key, atomic counter, mutex-protected log: all in memory | accept loop, one task per connection; routes attestation, inference, ledger root / proof / consistency |
| Transparency log | `.../transparency.rs` | vector of leaf hashes | append, root, root_at, inclusion_path, consistency_path |
| Policy engine | `.../policy.rs` | none | evaluate |
| Parent proxy | `crates/vsock-parent-proxy` | none of its own; one vsock connection per HTTP request | do_forward under one timeout, for five routes; readiness and heartbeat to systemd |
| SDK client | `sdk/typescript/client.ts` | the attestation a caller keeps | getAttestation, process, verifyReceipt |
| SDK and auditor verifiers | `sdk/typescript/transparency.ts`, `tools/pzdr_verify.py` | the head an auditor holds, the bundle being put together | verifyInclusion, verifyConsistency, checks of a proof, verify-bundle |
| Attestation and its verifiers | `crates/nitro-attestation`, `sdk/typescript/attestation.ts` | none | generate_attestation, parse_and_verify, verifyNitroAttestation |
| Reference policy and ledger | `tools/pzdr_ledger.py` | none | evaluate_policy, build_statement, sign_proof, sign_checkpoint |
| Metering | `crates/marketplace-metering` | a JSONL spool file shared by processes | append_event_jsonl, read_events_jsonl, batch_meter_usage_payload |
| Host supervision | `ops/systemd/`, `scripts/pzdr-enclave-watchdog`, `scripts/pzdr-terminate-enclave` | unit states, the running enclave | start, stop, look, restart, heartbeat |
| Build, deployment, vectors | `eif/`, `aws/`, `tools/pzdr_gen_vectors.py` | | shell scripts and generators |

How they interact. A client fetches and verifies an attestation, seals a prompt
to the attested channel key and posts it. The proxy opens a vsock connection,
writes one frame, waits for one frame, and gives up after a timeout. The enclave
task decrypts, checks the commitment, asks the policy engine, calls the model,
wipes, takes a counter value, signs, appends to the log under a lock and
answers with proof and receipt. The client (or an auditor, later) verifies
signature, checkpoint and Merkle path under the attested key. Metering writers
append usage events to a file; a command line tool turns the file into a payload.
systemd starts enclave and proxy; a timer runs a script that looks whether the enclave
is running and restarts its unit, and the proxy with it, if not.

What is hard about it:

* *concurrency*: counter and log are two shared objects with two disciplines
  (an atomic, a mutex), and a task is preempted between them;
* *crash*: nothing is persisted, so a restart changes both keys, resets the
  counter and empties the log, under clients that still hold the old attestation;
* *timeouts*: the proxy gives up, the enclave does not;
* *index arithmetic*: RFC 6962 trees of unbalanced size, on both sides of the wire,
  in three languages;
* *two implementations of one rule*: policy engine and reference policy; two
  attestation verifiers;
* *torn writes*: the spool is written with many small unsynchronised writes, one per JSON token;
* *evidence collected piecemeal*: attestation, checkpoint, inclusions and steps of an audit
  bundle come from separate requests to a moving log;
* *a watchdog that looks and then acts*, on a unit systemd believes active.

What correctness means, per part: the log only grows and no key signs two logs;
counters are unique and gap-free within a boot; every logged proof passes the
auditor; a zeroization report is true when it is signed; a success is earned;
every request that is read is answered with a proof; an answer belongs to its
call and a receipt is worth what it says; honest proofs verify and dishonest ones
do not; the engine denies what the reference denies; the spool bills what was
appended; an attestation verifier accepts exactly the trusted documents; a bundle is accepted
exactly when its parts fit together; whatever dies is brought back, and nothing that
runs is restarted by the watchdog without cause.

## 2. Modules

| Module | Models | Notes |
|---|---|---|
| `MerkleTree`, `MerkleProofs` | transparency.rs and the two verifiers | operators only; recursion as recursive functions |
| `LogAuditor`, `MCLogAuditor`, `LogAuditorProofs` | an auditor against an honest and a dishonest server; audit bundles | extends ProofVerifier |
| `Policy`, `PolicyComparison`, `MCPolicy` | policy.rs and evaluate_policy | operators, and a plaintext that grows symbol by symbol under both |
| `ProofVerifier` | pzdr_verify.py checks and verify-bundle, verifyReceipt | operators only, extends MerkleTree |
| `AuditLog` | abstract specification: what an audit log promises | not code |
| `Enclave`, `MCEnclave`, `EnclaveProofs` | the enclave service | extends Policy and ProofVerifier |
| `Gateway`, `MCGateway`, `GatewayProofs` | client, proxy and enclave composed | extends Enclave |
| `NitroVerifier`, `NitroComparison`, `MCNitro`, `PlatformProofs` | the attestation document and its two verifiers | operators, and a bundle that grows certificate by certificate under both |
| `Metering`, `MCMetering`, `MeteringProofs` | the spool, its writers and its reader | |
| `Supervisor`, `MCSupervisor`, `PlatformProofs` | the systemd units, the two scripts, the proxy's heartbeat | |
| `Recursion`, `FoldTheorems` | not code: what recursive functions and folds compute | instantiated by the proofs |

### Enclave

`up, epoch, counter, ledger, issued` are the process; `pc, env, buf, verdict,
proof, reply` are the locals of each connection task. A boot is a number that
names both keys drawn by `EnclaveState::new`. `ledger[e]` for an earlier boot and
`issued` are history, which no action reads.

An action is what a task does between two points where others can interfere:
`Accept`, `ReadFrame`/`DropFrame` (handle_conn), one action per ledger route, then
`ParseRequest`, `OpenChannel`, `CheckCommitment`, `EvaluatePolicy`,
`CallUpstream` (process_and_delete, each with all its early returns),
`SignSuccess`/`SignFailure` (fetch_add, statement, signature), `AppendProof` (the critical
section: append, audit path, signed head), `Respond`. `Crash` loses everything,
`Restart` boots with new keys. A critical section contains no await, hence is one
step.

Left out of statements: timestamps, session, tenant and proof ids, measurement and
policy hash. They are random or constant in the image and no check compares
them with anything else in the model. Not separate outcomes: failures that cannot
happen (HKDF expansion to 32 bytes, serialising the program's own values, which are the
only ways to reach the Err-500 branch of inference). The upstream call is a stub
that always succeeds today; its error branch is modelled as the code has it.
Counter overflow (u64) is out of reach. Hex spelling is abstracted: the model's
commitments are equal or not.

### Gateway

Adds per client `stage, att, req, result`, and the connections `link` (which client a
task serves) and `wire` (the response frame on its way). Every enclave step of
this module is a step of `Enclave`. `Timeout` may happen at any
moment, also when the response is already there; `Upstream` when the enclave is
down or the connection is gone. A frame that already reached the host survives a
crash. Salts are fresh: a body is sealed once (`sealed`), and two bodies that open their
commitments have different ones (`FreshSaltsAssumption`; `client.ts:171` draws 16 random bytes per call). verifyAttestation is a
nondeterministic outcome here (it may find a document too old); what it computes
is in `NitroVerifier`. `AskLedger` is a caller that reads the log through the proxy;
`LedgerRequests` says which of the requests the proxy's routes let through it may make
(a number that does not parse is answered by the proxy itself). A caller that hangs
up drops the proxy's future and with it the connection, which is what `Timeout` does.

### MerkleTree, LogAuditor, ProofVerifier

SHA-256 is a free constructor (injective, with leaf, node and empty apart); a
signature names the key that made it. Leaf indices are 0-based as in the code.
A dishonest server's paths range over all hashes of its own tree: a verifier that
accepts has rebuilt the root from the path, so any other hash is rejected anyway.

`LogAuditor` has one auditor and a server that is the enclave itself (`honest`) or not. Of an
honest one, the auditor asks for the step from the head it holds to the current one
(`Follow`), and collects a bundle by `FetchAttestation`, `FetchRoot`, `FetchProof`,
`FetchConsistency`, in any order, while `AppendProof` and `Reboot` go on. A view is
kept as the log it was taken from; everything the verifiers read of it is its checkpoint. Proofs
alternate between successes and denials as `build_statement` makes them.

### Policy

A plaintext is a sequence of symbol kinds that the two implementations can tell
apart (ASCII digit, dash, letter, other, marker byte, non-ASCII digit, stray byte). The
engine sees bytes, the reference decoded text. The SSN and PAN shapes and the size
limit are parameters, shortened for TLC. `PolicyAssumption` asks for a marker that is not empty, as
`<RESTRICTED` in `policy.rs:39` and `pzdr_ledger.py:34`: on an empty one the two would disagree. The loops of both
sides are folds over the plaintext with named steps (`encode`, `keep`, `scan`).

### NitroVerifier

Certificates are records; both path builders are folds over the bundle whose steps (`take_issuer`, `findIssuer`) move an
issuer from the bundle to the chain, one per round: a loop that runs once per certificate has run long enough.
`Trusted` is the declarative reference: some selection of the bundle, in some order, is a chain. `publish_attestation`
makes the documents of the enclave. `NitroComparison` presents a document, lets its bundle grow in any order and the
clock run, and states what each verifier promises at every moment; `MCNitro` chooses the certificates and adds documents
that lack fields and advertised keys that are not the signed ones. The crate is judged with an expected
PCR0 and without one. Decoding (CBOR, COSE, DER) is left out; `ca` stands for
cA = TRUE and keyCertSign. `NitroAssumption` says of the pinned root what the build pins: a self-signed CA.

### Metering

`to_writer` serialises an event straight to a `File`, which does not buffer: each JSON token is a write call
of its own, and a string is three (quote, contents, quote). `WriteToken` is one such call and `Advance` gives
the next one; `WriteNewline` is the last, after which the append has returned Ok. The spool `file` is the
sequence of these writes, of any number of writers in any order, and `Fail` leaves whatever a writer has
written so far.

The reader sees what each write looks like (`Glyph`), not whose it is. `take` reads a token into the current
line with `parse`, which is `from_str` for this struct: nesting, keys, unknown fields skipped with their values,
duplicate fields and values of the wrong type refused, tokens that land inside a string part of that string.
`end_line` ends a line, `scan` folds over the file, and `read_events_jsonl` also takes a last line without a newline.
`BilledField` is what of a write reaches the payload. An event has the fields `FieldKinds`, strings and numbers. `MaxRecords` is 25
in the code. Of the seven identifying strings of an event, the model tells apart the product code, the
request id, and the rest, which is what reaches the payload. Left out: escapes inside strings (each would be a write of its own), and
strings that are JSON tokens themselves.

Writes of two writers can be mixed without the line being refused. When A has written an opening quote, B
writes `{`, and B dies or goes on elsewhere, then A's string holds a brace more and the line parses. With a third
writer, two appends that both returned Ok can even end in one record: the closing parts of one lie in a field
that the reader does not know and skips. Nothing in the code prevents it. `BraceInString` describes exactly this
(an opening brace of one append between the quotes of one string of another, which was closed), and
`BillsWhatWasAppended` and the lower bound of `PayloadIsWhole` except it. No other mixture parses: that is what the
two properties say, and without the exception TLC finds them violated.

### Supervisor

`unit` is the enclave's oneshot unit, which stays active after its command exited;
`vm` is the enclave itself; they agree only when the watchdog has made them. `Look` is the
pipeline of the script, `WatchdogRestarts` the `systemctl restart` after it, with other
steps in between. Every command may fail (`Fault`, at most `MaxFaults` times): describe-enclaves
in either script, run-enclave, terminate-enclave, and the enclave and the proxy may die. `RequirementRestarts` is a restart of
docker.service or of the allocator, which `Requires=` and `After=` (`pzdr-enclave.service:3-4`) carry on to the enclave's
unit, at any moment, also between the watchdog's look and its restart; that is why `StopsOnlyUnseen` allows a stop when one has
happened since the look (`provoked`). The property is about ExecStop: an enclave whose start is not finished may also be
lost with that start. An operator who stops a unit and leaves it stopped is not modelled. A
start fails by itself when the CID is still in use. A failed start takes a queued proxy down with
it, as `Requires=` does. systemd and nitro-cli are external and modelled as the units
and scripts use them; start rate limits are not reached at these periods (15 s and 5 s).

## 3. Runs

| Run | Instance | Shows |
|---|---|---|
| `auditor` | logs of 0..17 leaves, every earlier head; 2 boots, bundles over logs up to 3; hostile logs up to 4 of two entries, paths up to 3 | `ConsistencyComplete`, `InclusionComplete`, `InclusionSound`, `AcceptedViewsExtend`, `BundleExact` |
| `auditor_steps` | 2 boots, logs up to 3 | **violated**: `StepsAreAttested` |
| `policy` | all ASCII texts up to 7 symbols, limit 6 | `AsciiDenialsAgree`, `ExtraDenialsArePii` |
| `policy_mirrors` | texts up to 4 with non-ASCII symbols | **violated**: `MirrorsReferenceDenials` |
| `enclave_handler` | 2 tasks, 13 bodies (one per way through), 1 proof per boot, 2 boots, fair | `TypeOK`, `LogPassesAudit`, `ZeroizationTruthful`, `SuccessEarned`, `EverySessionProved` |
| `enclave_concurrent` | 2 tasks, all routes, 3 proofs per boot, 2 boots | `CountersExact`, `RepliesVerify`, `HeadsAuthentic`, `ImplementsAuditLog` |
| `gateway_restart` | 1 client, 2 tasks, 2 boots, 4 salts, 2 proofs per boot, reads of entry 0 | `ConnectionsOK`, `AnswersOwnCall`, `GatewayTypeOK`, `ReceiptsHold`, `LoggedAtMostOnce` |
| `gateway_failures` | 1 client, 2 boots | **violated**: `FailuresAreProved` |
| `metering` | 3 writers, 3 appends of a string and a number field (16 writes each), limit 2 | `BillsWhatWasAppended`, `KeysIdentifyUsage`, `PayloadIsWhole` |
| `metering_retries` | the same with 2 appends | **violated**: `PayloadIdempotent` |
| `nitro` | 9 authorities, bundles up to 3 in any order, 7 instants, incomplete documents, foreign keys | `CrateIsExact`, `SdkIsExact` |
| `supervisor` | 4 faults | `EnclaveSettles`, `StopsOnlyUnseen`, `ProxyComesBack` |

Why the bounds are enough to meet the interesting cases:

* 17 leaves pass two powers of two beyond the first unbalanced trees, and
  both neighbours of 16;
* two tasks suffice for every pairwise race on counter and log, three proofs give
  an unbalanced log under concurrency, two boots are a restart;
* a log of three entries lets each part of a bundle come from another size, and from
  another boot;
* one task in `gateway_restart` may be busy with a call whose client has
  already timed out, while the other serves the next; that two clients do not get each
  other's answers is proved for any number (section 4);
* four faults let a start, a stop, a look and a death fail in one recovery;
* 7 symbols hold two shapes and a boundary on both sides, and pass the limit;
* three writers: one may die in mid-record, one interleave, one append whole, which also reaches the mixture of
  three in one line; a string and a number field are all kinds of writes there are. The constraint `Pursued`
  (`MCMetering`) leaves a state after checking it where nothing new can follow: a payload was built (no action reads it), a
  line of the spool was refused (all later readings fail), or `BraceInString` holds (the exception is for good). A last line that
  can only be refused is pursued for one writer at a time and one append less. The proofs have no such bounds;
* bundles of three hold a chain of two authorities plus the root or a namesake,
  and the clock (two ticks per second) passes every limit by one tick on each side.

Named bounds in the guards: `MaxEpoch`, `MaxProofs` (via `Committed`), `MaxSize`,
`BundleSize`, `LieSize`, `MaxBoots`, `MaxPath`, `MaxText`, `MaxAppends`, `MaxBundle`, `MaxClock`,
`MaxFaults`. Slots, clients and
writers are interchangeable: symmetry is used in runs without liveness properties.

Fairness of the enclave (`FairSpec`, used by `enclave_handler`): weak fairness of `Handle(s)` and
`Respond(s)` for each task. tokio polls a runnable task again, its mutex is fair, and
from a complete frame to the response a task waits for nothing but the ledger lock and the
upstream call, which ends one way or the other. Nothing is assumed of clients (a
frame may never be completed) or of the host (the enclave may stay down).

Fairness of the host (`Supervisor`): commands end, the timer fires, and systemd runs
the jobs it has queued; each is weakly fair. Faults are never owed.

### Where code and documents differ

* `policy.rs:10` says the engine mirrors `evaluate_policy`. On bytes outside ASCII
  it allows inputs the reference denies: `policy_mirrors`. On ASCII it is
  at least as strict, which `policy` shows.
* `docs/openapi.yaml:68` says every failure path returns a signed failure proof. A
  timeout or a dead enclave ends in a bare 504 or 502:
  `gateway_failures`. What does hold is `EverySessionProved`: a request that was *read* gets
  a proof unless the process dies.
* `docs/PROVABILITY.md:35` says that consistency is confirmed between two *signed* checkpoints, and
  :50 that verify-bundle checks it. `cmd_verify_consistency` checks no signature on either
  head and does not tie a step to the bundle's checkpoint, so a step of another boot is accepted:
  `auditor_steps`. What does hold is `BundleExact`.
* `marketplace-metering/src/lib.rs:3` says the payloads are idempotent. A usage appended twice under
  one key is billed twice, and the key is not in the payload: `metering_retries`.

Worth knowing although no document says otherwise: the counter is taken before the
ledger lock, so the log need not be in counter order (`CountersExact` is what
holds instead); the SDK's attestation verifier ignores pathLenConstraint, needs the root in the
bundle, and counts milliseconds where the crate counts seconds; the crate judges a document
without a certificate by the first certificate of its bundle; the payload's product
code is not compared with those of the events; lines of the spool can be mixed without being refused
(section 2, Metering); with two authorities of one name in a bundle the crate tries only the first; after a failed start of the enclave the
watchdog brings the enclave back, but not the proxy; a failed describe-enclaves costs a running
enclave its log, and so does a restart of docker or the allocator; and the heartbeat is a task of its own, so a proxy with stuck handlers
still beats.

## 4. Proofs

All theorems hold for every value of the constants: any set of tasks, clients and writers, any
request bodies that satisfy `BodiesAssumption` (a typing of the fields), any
number of boots, proofs, appends and faults, logs, texts and spools of any length, any policy parameters that
satisfy `PolicyAssumption`, any certificates, bundles and documents of the right type (`PresentedAssumption`) and any self-signed
root CA (`NitroAssumption`). `CallsAreLoggedOnce` also uses `FreshSaltsAssumption`.

| Module | Theorem | States |
|---|---|---|
| `EnclaveProofs` | `TypeCorrect` | `Spec => []TypeOK` |
| | `ReportsAreTruthful` | `Spec => []ZeroizationTruthful` |
| | `CountersAreExact` | `Spec => []CountersExact` |
| | `HeadsAreAuthentic` | `Spec => []HeadsAuthentic` |
| | `LogAlwaysPassesAudit` | `Spec => []LogPassesAudit` |
| | `EnclaveImplementsAuditLog` | `Spec => ImplementsAuditLog` |
| | `RepliesAlwaysVerify` | `Spec => []RepliesVerify` |
| | `SuccessIsEarned` | `Spec => []SuccessEarned` |
| | `EngineFollowsReference` | the engine and the reference on any ASCII text |
| | `DenialsAgree`, `ExtraDenialsAreForPii` | `ComparisonSpec => []AsciiDenialsAgree`, `=> []ExtraDenialsArePii` |
| `GatewayProofs` | `GatewayImplementsEnclave` | `GatewaySpec => Spec` |
| | `GatewayKeepsLogGuarantees` | the log's guarantees, of the composed system |
| | `GatewayTypeCorrect` | `GatewaySpec => []GatewayTypeOK` |
| | `ConnectionsStayApart` | `GatewaySpec => []ConnectionsOK` |
| | `EveryAnswerIsItsOwn` | `GatewaySpec => []AnswersOwnCall` |
| | `ReceiptsAlwaysHold` | `GatewaySpec => []ReceiptsHold` |
| | `CallsAreLoggedOnce` | `GatewaySpec => []LoggedAtMostOnce` |
| `MerkleProofs` | `InclusionVerifies`, `ConsistencyVerifies` | the server's paths pass the verifiers |
| | `InclusionIsSound`, `InclusionIsUnique`, `InclusionNamesSize` | one leaf, one path, one size |
| | `ConsistencyIsSound` | accepted heads are of prefixes |
| `LogAuditorProofs` | `HonestServerConvinces` | `Spec => []ConsistencyComplete` |
| | `HistoryIsNeverRewritten` | `Spec => AcceptedViewsExtend` |
| | `NoFalseInclusion` | `Spec => []InclusionSound` |
| | `ReceiptsNameTheirPlace` | `Spec => []InclusionComplete` |
| | `BundlesAreExact` | `Spec => []BundleExact` |
| `MeteringProofs` | `SpoolIsOrdered` | `Spec => []SpoolInv` |
| | `BillsAppended` | `Spec => []BillsWhatWasAppended` |
| | `KeysAreStable` | `Spec => []KeysIdentifyUsage` |
| | `PayloadsAreWhole` | `Spec => PayloadIsWhole` |
| `PlatformProofs` | `CrateAlwaysExact` | `NitroSpec => []CrateIsExact` |
| | `SdkAlwaysExact` | `NitroSpec => []SdkIsExact` |
| | `SupervisionInvariant`, `SparesRunningEnclave` | `Spec => []SupInv`, `Spec => StopsOnlyUnseen` |
| `Recursion`, `FoldTheorems` | `Defined`; `FoldEmpty`, `FoldAppend`, `FoldTrace` | see below |

### Induction over data

A recursive function `f[x \in S] == e` means `CHOOSE f : f = [x \in S |-> e]`, so before anything can be said of
it one must show that such a function exists. The library's theorems for that, and for induction, take an
operator as an argument, which no installed prover can supply. Here the operators are the *constants of a
module*: `Recursion` has `Dom`, `Measure` and `Body` and proves from them that a recursion whose calls lower the
measure is defined (`Defined`, from approximations up to each bound that agree with each other), and
induction over the naturals from the library's existence of least elements. `FoldTheorems` has `op` and proves what
`FoldLeft` of the community modules computes. A proof instantiates them for its own definition
(`HashRec`, `ReadFold`, `Climbing`, `Scanning`, ...). What is proved by induction becomes membership in a set
of naturals.

### The enclave

None of the properties is inductive alone. The argument is layered:

1. `LocalStep`: `TypeOK /\ TaskOK /\ BufferOK /\ BootOK`, what a task holds at each
   program point, is inductive by itself (one step per action). `ZeroizationTruthful`
   follows from it step by step: `BufferOK` says where plaintext is before signing, and after
   signing neither the proof nor the buffer of the task changes (`ReportOfActor`,
   `BystanderUntouched`).
2. `StepShape`: seen from the shared state, every step of `Next` is one of five
   (quiet, signs, appends, stops, boots). The theorems about the log are proved from these
   shapes, not from the individual handlers.
3. Counters: `CountersTaken` (no proof has a value not taken yet) strengthens
   `CountersUnique /\ CountersComplete`; signing adds `counter + 1` to the tasks' hands, appending moves
   a value from a task to the log.
4. Heads: a signed head is a head of a prefix now, and appending keeps every prefix.
   Boots to come have no log (`BootOK`), so a new key has signed nothing.
5. Audit: a proof in a task's hands passes the audit of its boot when signed, and
   appending carries it into the log.
6. Replies: what a route reads under the ledger lock is a path and a head of one log, which passes by the
   theorems of `MerkleProofs`.
7. Success: `PastChecks` says which checks a task has passed by its program point (parsed, opened,
   commitment, policy), so a signed success has passed them all (`ChecksInv`). That the engine's verdict
   implies the reference's is `EngineFollowsReference`.
8. Refinement: the shapes map to the actions of `AuditLog` or to stuttering.

`IndInv` in `Enclave` collects the invariants of layers 1 to 5.

Policy: on ASCII text encoding and decoding change nothing (`AsciiIsItself`). A window that matches the SSN
expression is one the byte scanner compares (`SsnIsFound`). For the card number, the scan is followed symbol by symbol:
after a word boundary its run is zero, it counts each digit of the match, and the boundary after the match (or
the end of the text) finds the run complete (`PanIsFound`).

### The composed system

1. `Forwarding` (a client's pending envelope is one of `Envelopes`) makes every gateway
   step an enclave step or a stutter, so the theorems above carry over.
2. Connections: `ConnectionInv` (types of both ends, and `ConnectionsOK`) is inductive given the
   enclave's `TypeOK`: a handler step keeps its task past reading (`HandlerMoves`), and
   whatever ends a call also ends its connection (`DisconnectStep`).
3. Answers: `TasksFit` follows the request's commitment, index or size through the task from
   verdict to proof to reply; `CallsFit` carries the reply over the connection to the result, since by
   `ConnectionsOK` the task's envelope is the client's current one. An answer that
   names a head, or an entry of a log, stays one because neither is ever taken back (`HistoryGrows`).
4. Receipts: `KeysInv` says that the attestation a client holds is of one boot, and that its pending body is
   sealed to that boot. A success was decrypted, so it was signed by that boot (`SuccessEarned`), its receipt is a
   path of that boot's log (`InItsLog`), and it verifies by `InclusionVerifies`; conversely a receipt that
   verifies was signed by that boot and names the place it was appended at.
5. Logged once: `OnceInv` says that a sealed body is with its client (`Unsent`), with one task (`Pending`) or in one
   log at one place, never in two of these. `FreshSaltsAssumption` makes the commitment stand for the body.

### The Merkle tree

Completeness: a path is followed through two kinds of subtree. In a *complete* one, of 2^d leaves, the bits
of the index decide on which side each sibling goes. The *last* one ends where the log ends, and there the
verifiers' loops skip the levels without a sibling. `CompleteClimbs` and `LastClimbs` are the inductions for
inclusion, `CompleteJoins` and `LastJoins` for consistency; the second of each pair splits a last subtree into a
complete left part and a smaller last one.

Soundness: a run of `verifyInclusion` is read backwards. The root is a node hash, its two children are fixed,
and so on down to the leaf (`CompleteFalls`, `LastFalls`); a path that is too long would have to take a leaf for
an inner node (`TooDeep`). That a log's leaves are no inner nodes (`Bare`) is the domain separation of `leaf_hash` and
`node_hash`. For consistency, two runs of `verifyConsistency` that start at the same indices and end with one new
root took the same nodes (`TwoRuns`), and the honest run is one of them. A path that is valid for
one size of the log is valid for no other (`InclusionNamesSize`), because a hash names the range of leaves
below it.

### The auditor

`LogInv` (whatever the server claims, the log behind a view is a sequence of leaves) with the soundness
theorems gives `AcceptedViewsExtend` and `InclusionSound` against any server; `HonestInv` (a view of the current boot
is a prefix of the current log) with the completeness theorems gives `ConsistencyComplete`. `BundleInv` says that each
part of a bundle was taken from a view the server had; `ItemExact` and `StepExact` say when such a part passes.

### Metering and supervision

`SpoolInv` is about files that may still make a payload (`Readable`). Their ended lines are the acknowledged events,
whole and in order (`EndedLines`), and the open line is one of four: empty (`Blank`); a beginning of one
event, with at most one living writer, who is at that place of it (`UnderWay`); struck by a foreign brace inside an open string
(`Struck`), where a newline is refused and the string's own closing quote would be `BraceInString`; or closed there by the first quote of
yet another writer (`Stuck`), after which nobody has a token to write that may follow. A writer who joins a line begins with a
brace, and outside a string a brace is refused or opens a value that no field of an event has. The bound on
the number of records needs no exception: a line ends with a newline, and each newline is the last write of an append that
returned Ok. Keys: the length in front of each part lets the parts be read back from the key one after the other.

`SupInv`: between the watchdog's look and its restart nothing starts the unit but the restart of a required service (`LookIsFresh`), because
a proxy that could do so is off when the unit has failed (`ProxyFollows`); what ExecStop is run on was down, could not be seen, or
comes after such a restart (`StopIsJustified`).

### The attestation

`NitroTypeOK` (a document, an advertisement and a clock of the right type) is inductive, and of every document of the
right type both verifiers are exact (`CrateExact`, `SdkExact`), so the two theorems are about the algorithms.

Both builders are instances of one relation, `Round(ends, fits, ..)`: unless the last certificate of the chain ends the path, the
*first* certificate of the pool that fits it is moved to the chain. `FoldTrace` turns each fold into its sequence of rounds.

* Soundness. `Drawn` holds after every round: the chain without its leaf and the pool are the bundle, rearranged by an
  injection, and neighbours in the chain fit. So an accepted chain is a selection of the bundle (`CrateSound`, `SdkSound`).
* Completeness. Take any path that `Trusted` promises, cut at the first certificate the root issued (crate) or at the
  first copy of the root (SDK, `RootLocated`). `Follows` says that the rounds so far have taken
  a beginning of that path, one certificate each, and that the rest of it still has distinct places in the pool (`Locates`). Since no two
  authorities share a name (crate), or a name and a key (SDK), whatever fits is *equal* to the path's next
  certificate, but it may lie at another place: if that place was meant for a later, equal certificate, the two exchange places
  (`LocatesWhenTaken`). There are as many rounds as certificates, so the path is found (`PathFound`).
* Time. The crate compares whole seconds. `ValidityValue` and `FreshValue` give the exact windows in milliseconds, also when
  the document's clock is ahead and the division truncates towards zero.

### Only model-checked

* `EverySessionProved`, `EnclaveSettles` and `ProxyComesBack`: liveness under fairness is out of TLAPS's reach;
* the four expected violations, which are counterexamples.

## 5. Not modelled

* decoding (JSON, CBOR, COSE, DER, hex, base64) beyond succeeding or failing;
* cryptography beyond the ideal behaviour above;
* metrics, health endpoint, logging, the NSM's random_bytes;
* Terraform, EIF build, release scripts;
* the vector generator (but for the session and the bundle it lays out) and the self test, which are
  tests;
* real time: timeouts happen at any moment, and there is no cost model for the
  rehashing done under the ledger lock.

## 6. Plan

Done: the core (Enclave, MerkleTree, Policy, ProofVerifier, AuditLog), the composed
path with the log's routes (Gateway), the verifiers and audit bundles (LogAuditor,
NitroVerifier, NitroComparison), Metering, Supervisor, and the proofs of section 4: every safety property that a passing
run checks is proved for all values of the constants.

Worth doing next: prove `ProxyComesBack` and the other liveness properties once the prover handles fairness; a bound on how
long the ledger lock is held while a head is rehashed; and the payload's product code, when the code comes to compare it.
