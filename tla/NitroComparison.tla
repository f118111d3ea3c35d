-------------------------- MODULE NitroComparison --------------------------
(***************************************************************************)
(* Both attestation verifiers beside what they are after: a document is    *)
(* presented, its bundle grows one certificate at a time, the clock runs,  *)
(* and both judge it at every moment.                                      *)
(***************************************************************************)
EXTENDS NitroVerifier

CONSTANTS
    Bundled,        \* the certificates a bundle may hold
    Presented,      \* the documents, each with what is advertised around it
    MaxBundle,      \* bound: certificates in a bundle
    MaxClock        \* bound: the verifier's clock

ASSUME PresentedAssumption ==
    Bundled \subseteq Certificate /\ Presented \subseteq (Document \X Advertisement)

VARIABLES
    doc,         \* the document presented
    advertised,  \* the JSON around it
    now          \* the verifier's clock

presentation == <<doc, advertised, now>>

NitroInit == now = 0 /\ \E p \in Presented : doc = p[1] /\ advertised = p[2]

AddCertificate(c) ==
    /\ Len(doc.cabundle) < MaxBundle
    /\ doc' = [doc EXCEPT !.cabundle = Append(@, c)]
    /\ UNCHANGED <<advertised, now>>

Tick == now < MaxClock /\ now' = now + 1 /\ UNCHANGED <<doc, advertised>>

NextDocument == now = MaxClock /\ now' = 0 /\ \E p \in Presented : doc' = p[1] /\ advertised' = p[2]

NitroNext == Tick \/ NextDocument \/ \E c \in Bundled : AddCertificate(c)

NitroSpec == NitroInit /\ [][NitroNext]_presentation

Authorities == ToSet(doc.cabundle) \cup {Root}

(* The certificate that speaks for the document, and what it signed. *)
Genuine(leaf) == doc.alg = "ES384" /\ doc.signed_by = leaf.key

Measured == doc.pcr0 = <<ExpectedPcr0>>

Age == Abs(now - doc.timestamp_ms[1])

(* The crate accepts only what is genuine, trusted and not older than the   *)
(* skew plus the second it rounds away; and it accepts all of that, in      *)
(* whatever order the bundle is, as long as no two authorities share a      *)
(* name.  The measurement counts exactly when the caller expects one.  A    *)
(* document without a certificate of its own is judged by the first one of  *)
(* its bundle.                                                              *)
CrateIsExact ==
    LET chain   == doc.certificate \o doc.cabundle
        trusted == Trusted(chain[1], Tail(chain),
                           LAMBDA c, n : c.path_len = <<>> \/ n <= c.path_len[1],
                           LAMBDA c : /\ now >= c.not_before * MsPerSec
                                      /\ now < (c.not_after + 1) * MsPerSec)
        wanted  == /\ doc.module_id # <<>> /\ doc.digest # <<>> /\ doc.timestamp_ms # <<>>
                   /\ chain # <<>> /\ Genuine(chain[1]) /\ trusted
                   /\ Age < (MaxSkew + 1) * MsPerSec
        apart   == \A c, d \in Authorities : c.subject = d.subject => c = d
    IN  \A expected \in {<<>>, <<ExpectedPcr0>>} :
            LET accepts == parse_and_verify(doc, expected, now, now)
            IN  /\ accepts => wanted /\ (expected # <<>> => Measured)
                /\ apart /\ wanted /\ (expected # <<>> => Measured) => accepts

(* The SDK accepts only what is genuine, trusted (path limits aside, which  *)
(* it does not look at), within the skew to the millisecond, and advertised *)
(* as publish_attestation does for the keys bound in the document; and, of  *)
(* documents that carry the root, all of that even when authorities share a *)
(* name, as long as they do not share a key as well.                        *)
SdkIsExact ==
    LET trusted == Trusted(doc.certificate[1], doc.cabundle, LAMBDA c, n : TRUE,
                           LAMBDA c : now \in (c.not_before * MsPerSec)..(c.not_after * MsPerSec))
        bound   == /\ doc.public_key # <<>> /\ doc.user_data # <<>>
                   /\ advertised = Advertised(doc.public_key[1], advertised.proof_verifier_key)
                   /\ doc.user_data[1] = Binding(doc.public_key[1], advertised.proof_verifier_key)
        wanted  == /\ doc.digest = <<"SHA384">> /\ doc.timestamp_ms # <<>>
                   /\ doc.certificate # <<>> /\ Genuine(doc.certificate[1]) /\ Measured
                   /\ trusted
                   /\ Age <= MaxSkew * MsPerSec
                   /\ bound
        accepts == verifyNitroAttestation(doc, advertised, now)
        apart   == \A c, d \in Authorities : c.subject = d.subject /\ c.key = d.key => c = d
    IN  /\ accepts => wanted
        /\ (Root \in ToSet(doc.cabundle) /\ apart) => (wanted => accepts)
=============================================================================
