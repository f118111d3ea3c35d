-------------------------- MODULE PolicyComparison --------------------------
(***************************************************************************)
(* The engine and its reference side by side: a plaintext grows one symbol *)
(* at a time, and both judge it after every symbol.                        *)
(***************************************************************************)
EXTENDS Policy

CONSTANTS
    Alphabet,       \* the symbols a plaintext is made of
    MaxText,        \* bound: length of a plaintext
    Requested       \* the processors requests name

VARIABLES typed, wanted     \* the plaintext so far, and the processor

request == <<typed, wanted>>

ComparisonInit == typed = <<>> /\ wanted \in Requested

NewRequest == typed' = <<>> /\ wanted' \in Requested

Type(c) ==
    /\ Len(typed) < MaxText
    /\ typed' = Append(typed, c)
    /\ UNCHANGED wanted

ComparisonNext == NewRequest \/ \E c \in Alphabet : Type(c)

ComparisonSpec == ComparisonInit /\ [][ComparisonNext]_request

engine == evaluate(typed, wanted)
reference == evaluate_policy(typed, wanted)

(* On ASCII input the byte scanner is at least as strict as the published   *)
(* regular expressions: what evaluate_policy denies, evaluate denies, and   *)
(* for the same reason, so the reason recorded in the proof is the one the  *)
(* reference gives.                                                         *)
AsciiDenialsAgree ==
    (ToSet(typed) \subseteq Ascii /\ reference # "allowed") => engine = reference

(* Where the engine is stricter than the reference it is so only about PII: *)
(* it never refuses a plaintext the reference allows for its processor, its *)
(* size or a marker.                                                        *)
ExtraDenialsArePii ==
    (ToSet(typed) \subseteq Ascii /\ engine # reference) => engine = "pii_detected"

(* "Mirrors tools/pzdr_ledger.py::evaluate_policy": whatever the reference  *)
(* denies the engine denies, on any bytes.                                  *)
MirrorsReferenceDenials == reference # "allowed" => engine # "allowed"
=============================================================================
