---------------------------- MODULE MC_AlarmSync ----------------------------
(* Two alarms, three calls: a call that leaves something behind, one that  *)
(* overlaps it, and the refresh that finds it.                             *)
EXTENDS AlarmSync, TLC

CONSTANT Last \* the call that is a refresh

MCUserOps == [c \in Calls |-> IF c = Last THEN {"list"} ELSE Ops]

Symmetry == Permutations(Alarms) \cup Permutations(Calls \ {Last})
=============================================================================
