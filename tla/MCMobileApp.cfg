SPECIFICATION FairSpec
CONSTANTS
  CashbackRateNumerator = 1
  CashbackRateDenominator = 2
  MinPaymentForCashback = 2
  DailyCapPerUser = 3
  MaxInt = 127
  JakartaOffset = 1
  DayLength = 2
  Users = {u1, u2}
  Keys = {k1, k2}
  PayAmounts = {4, 6}
  RedeemAmounts = {2}
  Days = {d1}
  TotalBudget = 9
  MaxLedgerId = 2
  LedgerIds <- MCLedgerIds
  DefaultUser = u1
  PageLimit = 1
  Refreshes = {own, reload}
  Own = own
  Nothing = Nothing
  Unread = Unread
  MaxLosses = 1
  MaxElsewhere = 1
INVARIANTS
  TypeOK
  NoticeIsTrue
  ScreenWasTrue
PROPERTIES
  OwnWriteShown
  LoadingEnds
