-------------------------- MODULE MC_MissionService --------------------------
(***************************************************************************)
(* Two requests at a time, one math problem, and the draws at the ends of  *)
(* each range.  One sleep report has the times and the quality, the other  *)
(* a duration of its own.                                                  *)
(***************************************************************************)
EXTENDS MissionService

CONSTANTS times, length

MCReports == {times, length}
MCSays == [r \in MCReports |-> IF r = times THEN {"sleep", "wake", "quality"} ELSE {"duration"}]

MCEnds(lo, hi) == {lo, hi}
=============================================================================
