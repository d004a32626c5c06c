--------------------------- MODULE MCTeamCapacity ---------------------------
(* Constants for model-checking TeamCapacity.                              *)
EXTENDS TeamCapacity, TLC

CONSTANTS t1, t2, h1, h2, h3, b1, b2

(* A manager blocked the first grid row of one team.                       *)
OneBlocked == {<<t1, 1>>}

(* Identities are symmetric as long as no constant names one of them.      *)
Symmetry == Permutations(Team) \cup Permutations(HoldId) \cup Permutations(BookingId)
=============================================================================
