------------------------------ MODULE MCGateway ------------------------------
(* Model-checking instances of Gateway. *)
EXTENDS Gateway, TLC

MCMarker   == <<"mark", "word">>
MCSsnShape == <<"digit", "dash", "digit">>

(* A prompt sealed to the key of boot e, with the k-th salt drawn. *)
Prompt(e, k) ==
    LET salt == [i \in 1..k |-> "blank"]
    IN  [parses |-> TRUE, fields_ok |-> TRUE, sealed_to |-> e, plaintext |-> <<"word">>,
         salt |-> <<salt>>, context |-> <<"word">>,
         commitment |-> commit(<<"word">>, salt, <<"word">>), processor_id |-> <<"gateway">>]

(* Two calls per boot's key: salts are never drawn twice. *)
Prompts == {Prompt(e, 2 * e - k) : e \in Epochs, k \in {0, 1}}

(* The whole log, and one index and size each. *)
Questions == {Env("proof", <<0>>, <<>>)}

ClientSlotSymmetry == Permutations(Slots) \cup Permutations(Clients)
=============================================================================
