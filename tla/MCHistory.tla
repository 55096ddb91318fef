------------------------------ MODULE MCHistory ------------------------------
(* Small instances of History for TLC: the system's zone, and UTC-03:30, in *)
(* which the second time is still in the first day.                         *)
EXTENDS History

MCTimes == {200, 1500}
MCZones == {[system |-> TRUE, sign |-> 1, hours |-> 0, minutes |-> 0],
            [system |-> FALSE, sign |-> -1, hours |-> 3, minutes |-> 30]}
=============================================================================
