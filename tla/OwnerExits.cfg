SPECIFICATION MCSpec
CONSTANTS
  BpUnit = 1
  YearScale = 36500
  MaxAge = 5
  Users = {u1}
  NoUser = NoUser
  Cron = cron
  Ticks = {}
  Bodies <- ConservativeOnly
  Aprs <- Live
  NoSnapshot = NoSnapshot
  Buffer = 1
  Fees = {0, 1}
  Endowment = 3
  Amounts = {1, 2}
  Requests = {"put"}
  Faults = FALSE
  Crashes = FALSE
  Logged = {}
  MaxVersion = 2
  MaxClock = 0
  Withdraws = {w1}
  Sends = {s1}
  Recovers = {r1}
  RecoverAmounts = {1}
  ExitFaults = TRUE
  MaxDeposits = 2
  MaxPayments = 2
INVARIANTS
  ExitTypeOK
  OnlyRefusalsStrand
  EarningsAreExplained
PROPERTIES
  PausedMoneySettles
