------------------------------- MODULE Policy -------------------------------
(***************************************************************************)
(* The policy engine, services/pzdr-enclave/src/policy.rs, and the Python  *)
(* reference it is written after, tools/pzdr_ledger.py evaluate_policy.    *)
(*                                                                         *)
(* A plaintext is a sequence of symbols, one per kind of input the two     *)
(* implementations can tell apart:                                         *)
(*   "digit"    an ASCII digit            "dash"   the byte '-'            *)
(*   "word"     an ASCII letter           "blank"  an ASCII non-word byte  *)
(*   "mark"     the byte the deny marker is made of                        *)
(*   "udigit"   a digit outside ASCII, two bytes of UTF-8                  *)
(*   "stray"    a byte that occurs in no UTF-8 text (0xFF)                 *)
(* The engine reads bytes; the reference reads the decoded text, from      *)
(* which stray bytes have disappeared.                                     *)
(***************************************************************************)
EXTENDS Integers, Sequences, SequencesExt

CONSTANTS
    AllowedProcessors,  \* allowed_processors            <<"gateway">>
    MaxInputBytes,      \* max_input_bytes               100000
    Marker,             \* deny_markers[0] as bytes      "<RESTRICTED"
    SsnShape,           \* \d{3}-\d{2}-\d{4}, as a sequence of "digit"/"dash"
    PanLength           \* \d{16}                        16

Symbols == {"digit", "dash", "word", "blank", "mark", "udigit", "stray"}

ASSUME PolicyAssumption ==
    /\ AllowedProcessors \subseteq STRING
    /\ MaxInputBytes \in Nat
    /\ PanLength \in Nat \ {0}
    /\ Marker \in Seq({"mark", "word"}) /\ Marker # <<>>
    /\ SsnShape \in Seq({"digit", "dash"}) /\ SsnShape # <<>>

Ascii == Symbols \ {"udigit", "stray"}

-----------------------------------------------------------------------------
(* The engine: bytes. *)

(* The bytes of a plaintext: a non-ASCII digit is two bytes, neither of     *)
(* them an ASCII byte, and both a non-digit to the engine.                  *)
encode(b, c) == IF c = "udigit" THEN b \o <<"high", "high">> ELSE Append(b, c)

bytes(plaintext) == FoldLeft(encode, <<>>, plaintext)

(* windows(width).any(Test): the empty set of windows when b is too short. *)
AnyWindow(b, width, Test(_)) ==
    \E i \in 0..(Len(b) - width) : Test([j \in 1..width |-> b[i + j]])

contains(haystack, needle) ==
    /\ needle # <<>>
    /\ Len(haystack) >= Len(needle)
    /\ AnyWindow(haystack, Len(needle), LAMBDA w : w = needle)

looks_like_ssn(b) == AnyWindow(b, Len(SsnShape), LAMBDA w : w = SsnShape)

(* The scan over digit runs: hit when a run ends with exactly PanLength. *)
scan(st, c) ==
    IF c = "digit" THEN [st EXCEPT !.run = @ + 1]
    ELSE [run |-> 0, hit |-> st.hit \/ st.run = PanLength]

digit_runs(b) == FoldLeft(scan, [run |-> 0, hit |-> FALSE], b)

(* Mutant: a run that the input ends with is not looked at. *)
looks_like_pan_inside(b) == digit_runs(b).hit

looks_like_pan(b) == digit_runs(b).hit \/ digit_runs(b).run = PanLength

(* Mutant: off by one. *)
too_large_at_limit(b) == Len(b) >= MaxInputBytes

too_large(b) == Len(b) > MaxInputBytes

(* Ok(()) is "allowed"; Err(reason) is the reason. *)
evaluate(plaintext, processor) ==
    LET b == bytes(plaintext)
    IN  IF processor \notin AllowedProcessors           THEN "processor_not_allowed"
        ELSE IF too_large(b)                            THEN "input_too_large"
        ELSE IF contains(b, Marker)                     THEN "restricted_marker"
        ELSE IF looks_like_ssn(b) \/ looks_like_pan(b)  THEN "pii_detected"
        ELSE "allowed"

Reasons == {"processor_not_allowed", "input_too_large", "restricted_marker", "pii_detected"}

-----------------------------------------------------------------------------
(* The reference: decoded text and Unicode regular expressions. *)

(* plaintext.decode("utf-8", "ignore") *)
keep(text, c) == IF c = "stray" THEN text ELSE Append(text, c)

decode_ignore(plaintext) == FoldLeft(keep, <<>>, plaintext)

(* Python's \d and \w on text. *)
IsDigit(c) == c \in {"digit", "udigit"}
IsWord(c)  == c \in {"digit", "udigit", "word"}

(* re.search of \b shape \b, where the shape begins and ends with \d.  *)
Matches(text, shape) ==
    \E i \in 0..(Len(text) - Len(shape)) :
        /\ \A j \in 1..Len(shape) :
              IF shape[j] = "digit" THEN IsDigit(text[i + j]) ELSE text[i + j] = shape[j]
        /\ i = 0 \/ ~IsWord(text[i])
        /\ i + Len(shape) = Len(text) \/ ~IsWord(text[i + Len(shape) + 1])

evaluate_policy(plaintext, processor) ==
    LET text == decode_ignore(plaintext)
    IN  IF processor \notin AllowedProcessors             THEN "processor_not_allowed"
        ELSE IF Len(bytes(plaintext)) > MaxInputBytes     THEN "input_too_large"
        ELSE IF contains(text, Marker) \/ Marker = <<>>   THEN "restricted_marker"
        ELSE IF \/ Matches(text, SsnShape)
                \/ Matches(text, [i \in 1..PanLength |-> "digit"])
                                                          THEN "pii_detected"
        ELSE "allowed"
=============================================================================
