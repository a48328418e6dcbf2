---------------------------- MODULE MCInitiative ----------------------------
(* A day of six units with a night that wraps midnight.                    *)
EXTENDS Initiative

Night == [start |-> 5, end |-> 1]
Nap == [start |-> 2, end |-> 3]
MCWindows == {Night, Nap}
=============================================================================
