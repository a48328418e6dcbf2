-------------------------- MODULE MCProactiveMode --------------------------
(* A day of six units: a night that wraps midnight, an afternoon nap, and  *)
(* an empty window.                                                        *)
EXTENDS ProactiveMode

Night == [start |-> 5, end |-> 2]
Nap == [start |-> 2, end |-> 4]
NoSleep == [start |-> 3, end |-> 3]
MCWindows == {Night, Nap, NoSleep}
=============================================================================
