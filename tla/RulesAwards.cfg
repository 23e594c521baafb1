SPECIFICATION Spec
CONSTANTS
  CashbackRateNumerator = 5
  CashbackRateDenominator = 100
  MinPaymentForCashback = 20000
  DailyCapPerUser = 50000
  MaxInt = 268435455
  JakartaOffset = 7
  DayLength = 24
  Amounts = {19999, 20000, 20001, 999980, 1000020, 53687091}
  Budgets = {0, 1, 999, 50000, 71003}
INVARIANTS
  AwardIsLargest
  StatusExplainsAward
