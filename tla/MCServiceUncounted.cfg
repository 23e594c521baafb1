SPECIFICATION Spec
SYMMETRY Symmetric
CONSTANTS
  CashbackRateNumerator = 1
  CashbackRateDenominator = 2
  MinPaymentForCashback = 2
  DailyCapPerUser = 3
  MaxInt = 127
  JakartaOffset = 1
  DayLength = 2
  Users = {u1}
  Keys = {k1}
  PayAmounts = {4}
  RedeemAmounts = {2}
  Days = {d1}
  TotalBudget = 4
  MaxLedgerId = 2
  LedgerIds <- MCLedgerIds
  Handlers = {h1, h2}
  NoUser = NoUser
  NoBody = NoBody
  NoCall = NoCall
  MayRestart = FALSE
  MaxLimited = 1
  MaxFailures = 1
INVARIANTS
  CountersReflectActivity
