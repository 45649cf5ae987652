--------------------------- MODULE MissionPromise ---------------------------
(***************************************************************************)
(* What the daily mission promises a user: a calendar day has one mission, *)
(* chosen once, and whoever asks for the day's mission is told that one.   *)
(* [ai-mission.entity.ts:12, ai-mission.service.ts:105]                    *)
(***************************************************************************)
CONSTANTS Dates,    \* calendar days
          Missions, \* what may be chosen
          None      \* not chosen, so not in Missions

VARIABLES mission,  \* per date, the mission chosen for it, or None
          told      \* per date, the missions the user was told

promise == <<mission, told>>

Init == /\ mission = [d \in Dates |-> None]
        /\ told = [d \in Dates |-> {}]

Choose(d, m) == /\ mission[d] = None
                /\ mission' = [mission EXCEPT ![d] = m]
                /\ UNCHANGED told

Tell(d) == /\ mission[d] # None
           /\ told' = [told EXCEPT ![d] = @ \cup {mission[d]}]
           /\ UNCHANGED mission

Next == \E d \in Dates : Tell(d) \/ \E m \in Missions : Choose(d, m)

Spec == Init /\ [][Next]_promise
=============================================================================
