--------------------------- MODULE NitroVerifier ---------------------------
(***************************************************************************)
(* A Nitro attestation: how the enclave has it made (publish_attestation), *)
(* and its two verifiers, the Rust crate crates/nitro-attestation          *)
(* (parse_and_verify) and the SDK's sdk/typescript/attestation.ts          *)
(* (verifyNitroAttestation).  Both build a path from the leaf certificate  *)
(* to the pinned root by looking issuers up in the bundle, but not in the  *)
(* same way: the crate looks for the subject only and stops below the      *)
(* root, the SDK looks for a subject whose key verifies and stops at the   *)
(* root, which must be in the bundle.                                      *)
(*                                                                         *)
(* Clocks are in milliseconds.  A field a document may lack, or have with  *)
(* the wrong type, is <<>> or <<value>>.  Syntax (CBOR, COSE, X.509, JSON) *)
(* is left out.                                                            *)
(***************************************************************************)
EXTENDS Integers, Sequences, SequencesExt

CONSTANTS
    Root,           \* the pinned AWS root certificate
    MsPerSec,       \* 1000
    MaxSkew,        \* max_skew_secs, maxAgeSeconds
    ExpectedPcr0    \* the PCR0 of the published image

Option(S) == {s \in Seq(S) : Len(s) <= 1}

(* signed_by is the key that made the signature, ca is cA = TRUE (and       *)
(* keyCertSign if there is a KeyUsage), the validity is in seconds.  Equal  *)
(* records are equal DER.                                                   *)
Certificate ==
    [subject : STRING, issuer : STRING, key : STRING, signed_by : STRING, ca : BOOLEAN,
     path_len : Option(Nat), not_before : Int, not_after : Int]

ASSUME NitroAssumption ==
    /\ MsPerSec \in Nat \ {0} /\ MaxSkew \in Nat
    /\ Root \in Certificate /\ Root.ca
    /\ Root.signed_by = Root.key /\ Root.issuer = Root.subject

(* What the enclave binds in user_data, the COSE document, and the JSON     *)
(* around it.                                                               *)
UserData == [format : STRING, channel_public_key : STRING, proof_verifier_key : STRING]

Document ==
    [alg : STRING, signed_by : STRING, module_id : Option(STRING), digest : Option(STRING),
     timestamp_ms : Option(Int), pcr0 : Option(STRING), certificate : Option(Certificate),
     cabundle : Seq(Certificate), user_data : Option(UserData), public_key : Option(STRING)]

Advertisement ==
    [measurement : STRING, binding_format : STRING, channel_public_key : STRING,
     proof_verifier_key : STRING]

Format == "pzdr-attestation-binding/v1"

(* What publish_attestation asks the NSM to sign, and what it advertises    *)
(* around the document.                                                     *)
Binding(channel_key, proof_key) ==
    [format |-> Format, channel_public_key |-> channel_key, proof_verifier_key |-> proof_key]

Advertised(channel_key, proof_key) ==
    [measurement |-> ExpectedPcr0, binding_format |-> Format,
     channel_public_key |-> channel_key, proof_verifier_key |-> proof_key]

(* generate_attestation: the NSM adds the rest and signs with the key of    *)
(* its own certificate.                                                     *)
generate_attestation(nsm, user_data, public_key) ==
    [alg |-> "ES384", signed_by |-> nsm.certificate.key,
     module_id |-> <<"module">>, digest |-> <<"SHA384">>,
     timestamp_ms |-> <<nsm.clock>>, pcr0 |-> <<nsm.pcr0>>,
     certificate |-> <<nsm.certificate>>, cabundle |-> nsm.cabundle,
     user_data |-> <<user_data>>, public_key |-> <<public_key>>]

publish_attestation(nsm, channel_key, proof_key) ==
    generate_attestation(nsm, Binding(channel_key, proof_key), channel_key)

(* pool.iter().position(test), and what a path builder does with it: the    *)
(* certificate moves from the pool to the end of the chain.                 *)
TakeIssuer(st, test(_)) ==
    LET i == SelectInSeq(st.pool, test)
    IN  IF i = 0 THEN st
        ELSE [chain |-> Append(st.chain, st.pool[i]), pool |-> RemoveAt(st.pool, i)]

Unbuilt(leaf, cabundle) == [chain |-> <<leaf>>, pool |-> cabundle]

(* The integer division of Rust, for a positive divisor. *)
truncated(a, b) == IF a >= 0 THEN a \div b ELSE -((-a) \div b)

Abs(n) == IF n >= 0 THEN n ELSE -n

-----------------------------------------------------------------------------
(* crates/nitro-attestation *)

verify_cert_validity(cert, clock_ms) ==
    (clock_ms \div MsPerSec) \in cert.not_before..cert.not_after

verify_cert_signature(cert, issuer) == cert.signed_by = issuer.key

(* Mutant: the leaf is counted as a subordinate CA. *)
assert_ca_constraints_off_by_one(cert, subordinate_ca_count) ==
    cert.ca /\ (cert.path_len = <<>> \/ subordinate_ca_count < cert.path_len[1])

assert_ca_constraints(cert, subordinate_ca_count) ==
    cert.ca /\ (cert.path_len = <<>> \/ subordinate_ca_count <= cert.path_len[1])

(* The loop over issuers, which stops at a certificate the root issued: a   *)
(* round per certificate of the bundle, as each round shortens the pool.    *)
take_issuer(st, round) ==
    IF Last(st.chain).issuer = Root.subject THEN st
    ELSE TakeIssuer(st, LAMBDA c : c.subject = Last(st.chain).issuer)

build_path(leaf, cabundle) == FoldLeft(take_issuer, Unbuilt(leaf, cabundle), cabundle).chain

(* Verifier::parse: which fields must be there.  The chain is the           *)
(* certificate, if any, and then the bundle.                                *)
parse(doc) ==
    IF doc.module_id # <<>> /\ doc.digest # <<>> /\ doc.timestamp_ms # <<>>
    THEN << [timestamp_ms |-> doc.timestamp_ms[1], pcr0 |-> doc.pcr0,
             certificate_chain |-> doc.certificate \o doc.cabundle] >>
    ELSE <<>>

verify_chain(leaf, cabundle, clock_ms) ==
    LET chain     == build_path(leaf, cabundle)
        issuer(i) == IF i = Len(chain) THEN Root ELSE chain[i + 1]
    IN  /\ Last(chain).issuer = Root.subject
        /\ \A i \in 1..Len(chain) :
              /\ verify_cert_validity(chain[i], clock_ms)
              /\ chain[i].issuer = issuer(i).subject
              /\ assert_ca_constraints(issuer(i), i - 1)
              /\ verify_cert_signature(chain[i], issuer(i))
        /\ verify_cert_validity(Root, clock_ms)

verify_cose_signature(doc, leaf) == doc.alg = "ES384" /\ doc.signed_by = leaf.key

verify_signature(doc, chain, clock_ms) ==
    /\ chain # <<>>
    /\ verify_chain(Head(chain), Tail(chain), clock_ms)
    /\ verify_cose_signature(doc, Head(chain))

assert_fresh(timestamp_ms, now_ms) ==
    Abs(truncated(now_ms - timestamp_ms, MsPerSec)) <= MaxSkew

assert_measurement_matches(parsed, expected_pcr0) == parsed.pcr0 = <<expected_pcr0>>

(* The caller passes now_ms, and a PCR0 to expect or none; the chain is     *)
(* checked against the system clock.                                        *)
parse_and_verify(doc, expected_pcr0, now_ms, clock_ms) ==
    \E parsed \in ToSet(parse(doc)) :
        /\ verify_signature(doc, parsed.certificate_chain, clock_ms)
        /\ assert_fresh(parsed.timestamp_ms, now_ms)
        /\ expected_pcr0 # <<>> => assert_measurement_matches(parsed, expected_pcr0[1])

-----------------------------------------------------------------------------
(* sdk/typescript/attestation.ts *)

certIsValid(cert, now_ms) ==
    now_ms >= cert.not_before * MsPerSec /\ now_ms <= cert.not_after * MsPerSec

(* Mutant: the candidate's key is not tried. *)
IsIssuer_by_subject(child, candidate) == child.issuer = candidate.subject

IsIssuer(child, candidate) ==
    child.issuer = candidate.subject /\ child.signed_by = candidate.key

(* The loop of validateCertificatePath, a round at a time as above. *)
findIssuer(st, round) ==
    IF Last(st.chain) = Root THEN st
    ELSE TakeIssuer(st, LAMBDA c : IsIssuer(Last(st.chain), c))

validateCertificatePath(leaf, caBundle, now_ms) ==
    LET chain == FoldLeft(findIssuer, Unbuilt(leaf, caBundle), caBundle).chain
    IN  /\ Contains(caBundle, Root)
        /\ Last(chain) = Root
        /\ \A i \in 1..Len(chain) :
              certIsValid(chain[i], now_ms) /\ (i > 1 => chain[i].ca)
        /\ Root.signed_by = Root.key

(* advertised: the unsigned JSON around the document. *)
verifyNitroAttestation(doc, advertised, now_ms) ==
    /\ doc.alg = "ES384"
    /\ doc.digest = <<"SHA384">>
    /\ doc.certificate # <<>>
    /\ validateCertificatePath(doc.certificate[1], doc.cabundle, now_ms)
    /\ doc.signed_by = doc.certificate[1].key
    /\ doc.timestamp_ms # <<>> /\ Abs(now_ms - doc.timestamp_ms[1]) <= MaxSkew * MsPerSec
    /\ doc.pcr0 = <<ExpectedPcr0>>
    /\ doc.pcr0 = <<advertised.measurement>>
    /\ doc.public_key # <<>> /\ doc.user_data # <<>>
    /\ doc.user_data[1].format = Format
    /\ advertised.binding_format = Format
    /\ doc.public_key[1] = advertised.channel_public_key
    /\ doc.user_data[1].channel_public_key = doc.public_key[1]
    /\ doc.user_data[1].proof_verifier_key = advertised.proof_verifier_key

-----------------------------------------------------------------------------
(* What both are after, without an algorithm: some certificates of the      *)
(* bundle, in some order, lead from the leaf to the root, each signed by    *)
(* the next, each issuer a CA; Limited(c, n) bounds a CA with n CAs below,  *)
(* Valid(c) is the time window.                                             *)
Trusted(leaf, cabundle, Limited(_, _), Valid(_)) ==
    \E n \in 0..Len(cabundle) : \E pick \in Injection(1..n, 1..Len(cabundle)) :
        LET chain == <<leaf>> \o [k \in 1..n |-> cabundle[pick[k]]] \o <<Root>>
        IN  /\ \A k \in 1..(n + 1) :
                  /\ chain[k].issuer = chain[k + 1].subject
                  /\ chain[k].signed_by = chain[k + 1].key
                  /\ chain[k + 1].ca /\ Limited(chain[k + 1], k - 1)
            /\ \A k \in 1..(n + 2) : Valid(chain[k])
=============================================================================
