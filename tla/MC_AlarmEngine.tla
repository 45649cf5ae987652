--------------------------- MODULE MC_AlarmEngine ---------------------------
(* Two alarms over a week of two days of two ticks: a weekly alarm, a        *)
(* one-shot and an inactive one, so that two alarms can be due at the same   *)
(* instant and a snooze can run into the next regular occurrence.            *)
EXTENDS AlarmEngine, TLC

CONSTANTS a1, a2

MCAlarms == {a1, a2}
MCConfigs ==
  {[time |-> 0, repeatDays |-> {1}, isActive |-> TRUE],
   [time |-> 0, repeatDays |-> {},  isActive |-> TRUE],
   [time |-> 1, repeatDays |-> {0}, isActive |-> FALSE]}

Symmetry == Permutations(MCAlarms)
=============================================================================
