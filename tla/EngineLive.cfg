SPECIFICATION FairSpec
CONSTANTS
  BpUnit = 1
  YearScale = 36500
  MaxAge = 5
  Users = {u1}
  NoUser = NoUser
  Cron = cron
  Ticks = {t1}
  Bodies <- ConservativeOnly
  Aprs <- Live
  NoSnapshot = NoSnapshot
  Buffer = 1
  Fees = {1}
  Endowment = 6
  Amounts = {6}
  Requests = {"put", "status", "chat_resume"}
  Faults = FALSE
  Crashes = FALSE
  Logged = {}
  MaxVersion = 1
  MaxClock = 0
INVARIANTS
  TransfersAreCovered
PROPERTIES
  PauseQuiesces
  InFlightLands
  IdleFundsGetSupplied
