----------------------------- MODULE MCSessions -----------------------------
(* Projects of every type of schedule, run at midnight or in the day, most   *)
(* of them with catch_up_missed; day 0 is a Monday.                          *)
EXTENDS Sessions, TLC
Project(type, time, catch_up) ==
  [schedule_type |-> type, run_time |-> time, days |-> {0, 1, 3}, interval |-> 2, date |-> 1,
   catch_up_missed |-> catch_up]
MCConfigs ==
  {Project("daily", 0, FALSE), Project("daily", 1, TRUE), Project("weekly", 0, TRUE),
   Project("weekly", 1, FALSE), Project("interval", 0, TRUE), Project("onetime", 0, TRUE)}
=============================================================================
