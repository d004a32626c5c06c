------------------------------- MODULE MCSync -------------------------------
(* Constants for model-checking Sync.                                      *)
EXTENDS Sync, TLC

CONSTANT p1

=============================================================================
