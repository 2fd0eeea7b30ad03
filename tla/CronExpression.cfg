SPECIFICATION CronSpec
CONSTANTS
  HoursPerDay = 2
  DaysPerWeek = 3
  MonthLength <- TwoMonths
  MaxDay = 3
  Any = Any
INVARIANTS CronTypeOK ReloadKeepsEntry
PROPERTIES StartsWhenChosen
