---------------------------- MODULE MCDigitalNode ----------------------------
(* A digital node with its outputs and inputs, alone on the bus.            *)
EXTENDS DigitalNode

CONSTANT digital

MCNodeOf == (Out :> digital) @@ (In :> digital)

MCValue == SUBSET Bit

=============================================================================
