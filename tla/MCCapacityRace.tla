--------------------------- MODULE MCCapacityRace ---------------------------
(* Values of the constants of CapacityRace for model checking.             *)
EXTENDS CapacityRace

(* Row ids in the order opposite to the starts.                            *)
Reversed == [s \in Slot |-> 100 - s[2]]

=============================================================================
