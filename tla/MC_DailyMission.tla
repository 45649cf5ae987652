--------------------------- MODULE MC_DailyMission ---------------------------
(***************************************************************************)
(* Two handlers, and a user who moves between two zones in which the date  *)
(* differs: in one the clocks are put forward at its next midnight, which  *)
(* is when the offset for that midnight is taken, in the other before.     *)
(***************************************************************************)
EXTENDS DailyMission, TLC

MCZones == {[offset |-> 0, shift |-> 1, at |-> 3], [offset |-> -1, shift |-> 1, at |-> 1]}
MCSymmetry == Permutations(Handlers)
=============================================================================
