----------------------------- MODULE MCMetering -----------------------------
(* Model-checking instance of Metering. *)
EXTENDS Metering, FiniteSets, TLC

Scope(request_id, usage) == <<<<"p">>, request_id, usage>>

(* An inference and its retry an hour later, one whose fields run together  *)
(* to the same string, and two that are refused.                            *)
Metered ==
    {inference(Scope(<<"a", "b">>, <<"c">>), 0), inference(Scope(<<"a", "b">>, <<"c">>), 1),
     inference(Scope(<<"a">>, <<"b", "c">>), 0),
     inference(Scope(<<" ">>, <<"c">>), 0),
     [inference(Scope(<<"a">>, <<"c">>), 0) EXCEPT !.quantity = 0]}

(* A string and a number: the writes of both kinds of field. *)
Kinds == <<"string", "number">>

Products == {<<"p">>, <<" ">>}

(* No action looks at payload, so what follows a reading also happens       *)
(* without it; a line that is refused fails every later reading, and is     *)
(* pursued for one writer at a time and one append less; and BraceInString,  *)
(* the exception, is for good.  A state not pursued is checked and left.     *)
Pursued ==
    /\ payload.kind = "none"
    /\ ~BraceInString(file)
    /\ LET read == scan(file)
       IN  /\ ~read.failed
           /\ read.line.phase = "refused" =>
                 /\ started < MaxAppends
                 /\ Cardinality({w \in Writers : job[w] # NoJob}) <= 1

WriterSymmetry == Permutations(Writers)
=============================================================================
