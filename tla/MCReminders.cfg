CONSTANTS
  ADMonths <- MCADMonths
  BSMonths <- MCBSMonths
  Epoch = 1
  Tasks = {t1}
  Alarms = {a1}
  Events = {e1}
  Holidays = {d1}
  Users = {u1}
  Dates = {1, 2}
  RemindDays = {1}
  LastDay = 5
  MaxRequests = 2
  MaxFailures = 1
SPECIFICATION MCSpec
INVARIANTS
  ToldOnce
  FlagMeansTold
  OccurrenceRight
PROPERTY DueGetsTold
CHECK_DEADLOCK FALSE
