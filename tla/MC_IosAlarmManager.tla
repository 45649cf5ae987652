-------------------------- MODULE MC_IosAlarmManager --------------------------
(* Two alarms and room for two removals under way at once.  One alarm is     *)
(* edited between two days, one day and off; the other was deleted while it  *)
(* rang, so that only its snoozes ring beside the first.                     *)
EXTENDS IosAlarmManager

CONSTANTS a1, a2

MCAlarms == {a1, a2}
Weekly(days) == [repeatDays |-> days, isActive |-> TRUE]
MCConfigs ==
  [a \in MCAlarms |->
     IF a = a1 THEN {Weekly({1, 3}), Weekly({2}), [repeatDays |-> {1}, isActive |-> FALSE]}
               ELSE {}]
=============================================================================
