------------------------------ MODULE MCNitro ------------------------------
(* Both verifiers on every bundle of up to MaxBundle certificates of a      *)
(* small authority, in every order, and at every moment around the limits.  *)
EXTENDS NitroComparison

Cert(subject, issuer, key, signed_by) ==
    [subject |-> subject, issuer |-> issuer, key |-> key, signed_by |-> signed_by,
     ca |-> TRUE, path_len |-> <<>>, not_before |-> 0, not_after |-> 9]

MCRoot == Cert("root", "root", "kr", "kr")

(* Instance certificates of each authority, and one with a bad signature. *)
Leaf(issuer, signed_by) == [Cert("instance", issuer, "ki", signed_by) EXCEPT !.ca = FALSE]

Leaves == {Leaf("root", "kr"), Leaf("region", "k1"), Leaf("region", "k3"),
           Leaf("zone", "k2"), Leaf("zone", "kx"), Leaf("root", "k4")}

(* A chain of two authorities; the first also with a path limit, renewed    *)
(* with a new key, for a shorter time, and not as a CA; a stranger with its *)
(* name; the root's new key under its old one; and a leaf.                  *)
RegionCA == Cert("region", "root", "k1", "kr")
ZoneCA   == Cert("zone", "region", "k2", "k1")

MCBundled ==
    {MCRoot, RegionCA, ZoneCA, Leaf("region", "k1"),
     [RegionCA EXCEPT !.path_len = <<0>>], [RegionCA EXCEPT !.key = "k3"],
     [RegionCA EXCEPT !.not_after = 1], [RegionCA EXCEPT !.ca = FALSE],
     Cert("region", "stranger", "k1", "kx"), Cert("root", "root", "k4", "kr")}

(* What an enclave of this or of another image has signed at time 2, or     *)
(* something else than the leaf's key signs.                                *)
Published(leaf, pcr0) ==
    publish_attestation([certificate |-> leaf, cabundle |-> <<>>, clock |-> 2, pcr0 |-> pcr0],
                        "ch", "pf")

Good == Published(Leaf("region", "k1"), ExpectedPcr0)

(* Documents that lack a field, or have another value there. *)
Odd ==
    {[Good EXCEPT ![field] = <<>>] : field \in
        {"module_id", "digest", "timestamp_ms", "pcr0", "certificate", "public_key", "user_data"}}
    \cup {[Good EXCEPT !.alg = "ES256"], [Good EXCEPT !.digest = <<"SHA256">>],
          [Good EXCEPT !.public_key = <<"ch2">>],
          [Good EXCEPT !.user_data[1].format = "v0"]}

Documents ==
    Odd \cup UNION {{Published(leaf, ExpectedPcr0), Published(leaf, "other"),
                     [Published(leaf, ExpectedPcr0) EXCEPT !.signed_by = "kx"]} : leaf \in Leaves}

Claim == Advertised("ch", "pf")

(* A host may advertise something else than the enclave did. *)
Claims == {Claim, [Claim EXCEPT !.measurement = "other"], [Claim EXCEPT !.binding_format = "v0"],
           [Claim EXCEPT !.channel_public_key = "ch2"],
           [Claim EXCEPT !.proof_verifier_key = "pf2"]}

MCPresented == (Documents \X {Claim}) \cup ({Good} \X Claims)
=============================================================================
