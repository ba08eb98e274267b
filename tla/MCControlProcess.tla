-------------------------- MODULE MCControlProcess --------------------------
(* Values for the constants of ControlProcess that a .cfg cannot write:     *)
(* the two processes of the instance, and the order of those that going     *)
(* online starts.                                                           *)
EXTENDS ControlProcess

CONSTANTS first, second

MCProcess == {first, second}

MCStartOrder == SelectSeq(<<first, second>>, LAMBDA p : p \in StartsOnline)

=============================================================================
