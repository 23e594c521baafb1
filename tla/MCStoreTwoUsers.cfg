SPECIFICATION Spec
SYMMETRY Symmetric
CONSTANTS
  CashbackRateNumerator = 1
  CashbackRateDenominator = 2
  MinPaymentForCashback = 2
  DailyCapPerUser = 3
  MaxInt = 127
  JakartaOffset = 1
  DayLength = 2
  Users = {u1, u2}
  Keys = {k1, k2}
  PayAmounts = {6}
  RedeemAmounts = {3}
  LastDay = 1
  Days <- MCDays
  TotalBudget = 5
  MaxLedgerId = 9
  LedgerIds <- MCLedgerIds
  Workers = {w1, w2}
  MaxConns = 2
  MaxNow = 1
  MaxFailures = 0
  NoRequest = NoRequest
INVARIANTS
  DailyCapHeld
  ReadsStayTrue
  ChecksNeverTrip
  CountersReconcile
  ShortAwardUsesUpLimit
  LedgerMatchesSources
PROPERTIES
  CampaignSpec
