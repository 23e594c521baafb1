SPECIFICATION Spec
CONSTANTS
  CashbackRateNumerator = 5
  CashbackRateDenominator = 100
  MinPaymentForCashback = 20000
  DailyCapPerUser = 50000
  MaxInt = 268435455
  JakartaOffset = 7
  DayLength = 24
  Amounts = {20000, 53687092}
  Budgets = {120000}
INVARIANTS
  EarnedMeansFullRate
