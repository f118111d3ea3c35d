------------------------------ MODULE MCPolicy ------------------------------
EXTENDS PolicyComparison

(* The shapes, shortened: three symbols for an SSN, three digits for a PAN. *)
MCMarker   == <<"mark", "word">>
MCSsnShape == <<"digit", "dash", "digit">>
=============================================================================
