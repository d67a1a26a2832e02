SPECIFICATION Spec
CONSTANTS
  BpUnit = 1
  YearScale = 36500
  MaxAge = 5
  Users = {u1}
  NoUser = NoUser
  Cron = cron
  Ticks = {}
  Bodies <- OneADayOnly
  Aprs <- Live
  NoSnapshot = NoSnapshot
  Buffer = 1
  Fees = {1}
  Endowment = 6
  Amounts = {6}
  Requests = {"put"}
  Faults = FALSE
  Crashes = FALSE
  Logged = {"start"}
  MaxVersion = 1
  MaxClock = 0
INVARIANTS
  DailyCapIsHard
