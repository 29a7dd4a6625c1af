-------------------------- MODULE MC_PhasePresence --------------------------
(* The rules at one degree of freedom by themselves.                       *)
EXTENDS PhasePresence
=============================================================================
