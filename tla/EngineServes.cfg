SPECIFICATION FairSpec
CONSTANTS
  BpUnit = 1
  YearScale = 36500
  MaxAge = 1
  Users = {u1, u2}
  NoUser = NoUser
  Cron = cron
  Ticks = {t1}
  Bodies <- ConservativeOnly
  Aprs <- Live
  NoSnapshot = NoSnapshot
  Buffer = 1
  Fees = {1}
  Endowment = 0
  Amounts = {}
  Requests = {"put", "status", "chat_resume", "run_once"}
  Faults = TRUE
  Crashes = FALSE
  Logged = {}
  MaxVersion = 1
  MaxClock = 2
PROPERTIES
  ActiveUsersAreServed
