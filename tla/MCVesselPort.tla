----------------------------- MODULE MCVesselPort -----------------------------
(* Both vessels, two commands at a time and a port with one place between   *)
(* its ends.                                                               *)
EXTENDS VesselPort

CONSTANTS Furnace, TicPort

MCVessel == {Furnace, TicPort}
MCResetting == {TicPort}

=============================================================================
