----------------------------- MODULE MCCanDevice -----------------------------
(* Two nodes: the first with an output and an input, the second with an     *)
(* input.                                                                   *)
EXTENDS CanDevice

CONSTANTS n1, n2, out, in1, in2

MCNodeOf == (out :> n1) @@ (in1 :> n1) @@ (in2 :> n2)

=============================================================================
