SPECIFICATION Spec
SYMMETRY Symmetric
CONSTANTS
  CashbackRateNumerator = 1
  CashbackRateDenominator = 2
  MinPaymentForCashback = 2
  DailyCapPerUser = 3
  MaxInt = 127
  JakartaOffset = 1
  DayLength = 2
  Users = {u1}
  Keys = {k1, k2}
  PayAmounts = {1, 4}
  RedeemAmounts = {2}
  LastDay = 0
  Days <- MCDays
  TotalBudget = 9
  MaxLedgerId = 9
  LedgerIds <- MCLedgerIds
  Workers = {w1, w2, w3}
  MaxConns = 2
  MaxNow = 0
  MaxFailures = 1
  NoRequest = NoRequest
INVARIANTS
  TypeOK
  DailyCapHeld
  OncePerKey
  RunningBalance
  NoWaitCycle
  LockOrder
  AnswerMatchesRow
  BalanceToldWasTrue
  CountersReconcile
PROPERTIES
  CampaignSpec
  RowsAreFinal
