------------------------------ MODULE MCReminders ------------------------------
(* Model checking Reminders: one row, of any kind, and two little          *)
(* calendars of two years of two months, which trade a day from one year   *)
(* to the next; the Bikram Sambat years begin a day after the Gregorian,   *)
(* and a repeating event can run off the end of the Gregorian table.       *)
EXTENDS Reminders

MCADMonths == <<<<2, 1>>, <<1, 2>>>>
MCBSMonths == <<<<1, 2>>, <<2, 1>>>>

(* The rows of the other kinds have come and gone: what the sweep does     *)
(* with one kind reads and writes nothing of another.                      *)
MCInit ==
  /\ Init /\ active = Users
  /\ \E kind \in {"task", "alarm", "event", "holiday"} :
       /\ task = [t \in Tasks |-> IF kind = "task" THEN Free ELSE Gone]
       /\ alarm = [a \in Alarms |-> IF kind = "alarm" THEN Free ELSE Gone]
       /\ event = [e \in Events |-> IF kind = "event" THEN Free ELSE Gone]
       /\ holiday = [h \in Holidays |-> IF kind = "holiday" THEN Free ELSE Gone]
       /\ notice \in [Users -> IF kind = "holiday" THEN RemindDays ELSE {NoDay}]

MCSpec == MCInit /\ [][Next]_vars /\ WF_vars(Sweeping)
=============================================================================
