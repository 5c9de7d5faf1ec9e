-------------------------------- MODULE Cases --------------------------------
(***************************************************************************)
(* Calls of pure stages: `input' is one call, `result' what it returns,    *)
(* once it has.                                                            *)
(***************************************************************************)
VARIABLES input, result

vars == <<input, result>>

Pending == <<>>

(* The stage of a call is a function of it, and of nothing else.           *)
Answer(call, Stage(_)) ==
    /\ input.call = call
    /\ result = Pending
    /\ result' = <<Stage(input)>>
    /\ UNCHANGED input

Answered(call) == input.call = call /\ result # Pending
=============================================================================
