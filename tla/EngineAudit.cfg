SPECIFICATION Spec
CONSTANTS
  BpUnit = 1
  YearScale = 36500
  MaxAge = 5
  Users = {u1}
  NoUser = NoUser
  Cron = cron
  Ticks = {}
  Bodies <- MCBodies
  Aprs <- LiveOrLow
  NoSnapshot = NoSnapshot
  Buffer = 1
  Fees = {1}
  Endowment = 4
  Amounts = {4}
  Requests = {"put", "status", "chat_resume", "run_once"}
  Faults = TRUE
  Crashes = TRUE
  Logged = {"decision", "start", "done"}
  MaxVersion = 2
  MaxClock = 0
INVARIANTS
  TypeOK
  AuditExplains
  MovedFundsAreAudited
