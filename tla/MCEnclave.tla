------------------------------ MODULE MCEnclave ------------------------------
(* Model-checking instances of Enclave. *)
EXTENDS Enclave, TLC

MCMarker   == <<"mark", "word">>
MCSsnShape == <<"digit", "dash", "digit">>

(* A well-formed request for plaintext p sealed to the key of boot e. *)
Request(p, e) ==
    [parses |-> TRUE, fields_ok |-> TRUE, sealed_to |-> e, plaintext |-> p,
     salt |-> << <<"blank">> >>, context |-> <<"word">>,
     commitment |-> commit(p, <<"blank">>, <<"word">>), processor_id |-> <<"gateway">>]

Ok(e) == Request(<<"word">>, e)

(* One body per way through process_and_delete. *)
AllBodies ==
    {[Ok(1) EXCEPT !.parses = FALSE], [Ok(1) EXCEPT !.fields_ok = FALSE],
     Ok(0), Ok(1), Ok(2),
     [Ok(1) EXCEPT !.salt = <<>>],
     [Ok(1) EXCEPT !.commitment = commit(<<"dash">>, <<"blank">>, <<"word">>)],
     [Ok(1) EXCEPT !.processor_id = <<>>], [Ok(1) EXCEPT !.processor_id = <<"other">>],
     Request(<<"mark", "word">>, 1),
     Request(<<"digit", "dash", "digit">>, 1), Request(<<"digit", "digit", "digit">>, 1),
     Request(<<"word", "word", "word", "word", "word">>, 1)}

(* A client that uses the first boot's key for ever: served by boot 1,      *)
(* refused by boot 2.                                                       *)
PinnedBody == {Ok(1)}

SlotSymmetry == Permutations(Slots)
=============================================================================
