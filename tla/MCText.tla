------------------------------- MODULE MCText -------------------------------
(* Instances of HeaderSearch and CallRecord for TLC. The two have nothing  *)
(* in common: a behaviour is one of either, the other stays as it starts.  *)
EXTENDS HeaderSearch, CallRecord

VARIABLE side

OneAndTwoLetters == {<<"a">>, <<"a", "b">>}

Search == SearchNext /\ UNCHANGED <<recordVars, side>>
Record == RecordNext /\ UNCHANGED <<searchVars, side>>

TextInit ==
    /\ SearchInit /\ RecordInit
    /\ side \in {"search", "record"}
    /\ side = "record" => body = <<>> /\ ext = <<"a">>

TextNext == (side = "search" /\ Search) \/ (side = "record" /\ Record)

TextSpec == TextInit /\ [][TextNext]_<<searchVars, recordVars, side>>
=============================================================================
