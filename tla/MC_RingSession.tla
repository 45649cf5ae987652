---------------------------- MODULE MC_RingSession ----------------------------
(* Two alarms: one with a mission that may report twice and one that may     *)
(* not, and one without missions, which may be snoozed once.                 *)
EXTENDS RingSession

CONSTANTS a1, a2

MCAlarms   == {a1, a2}
MCMissions == [a \in MCAlarms |-> IF a = a1 THEN <<"object_detection", "math">> ELSE <<>>]

MCSnoozeLimit == [a \in MCAlarms |-> IF a = a1 THEN 0 ELSE 1]

OneAlarm    == {a1}
OneMission  == [a \in OneAlarm |-> <<"math">>]
NoSnooze    == [a \in OneAlarm |-> 0]
=============================================================================
