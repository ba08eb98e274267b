---------------------------- MODULE MCAxisMotion ----------------------------
(* The needle on two axes: programs that lift it before they move it, that  *)
(* look for the end switch, and that stop on the switch.                    *)
EXTENDS AxisMotion

CONSTANTS X, Y

Go(a, p, n) == [kind |-> "go", axis |-> a, to |-> p, repeat |-> n]
Sensor(a)   == [kind |-> "sensor", axis |-> a, to |-> 0, repeat |-> 0]
Valve       == [kind |-> "other", axis |-> Y, to |-> 0, repeat |-> 0]

MCProgram == {<<Go(Y, 2, 1), Go(X, 3, 0)>>, <<Sensor(Y), Valve>>}

\* One axis, for the liveness run.
MCOneAxis == {<<Sensor(Y), Valve, Go(Y, 2, 1)>>, <<Go(Y, 0, 0)>>}

=============================================================================
