SPECIFICATION Spec
SYMMETRY Symmetric
CONSTANTS
  CashbackRateNumerator = 1
  CashbackRateDenominator = 2
  MinPaymentForCashback = 2
  DailyCapPerUser = 9
  MaxInt = 127
  JakartaOffset = 1
  DayLength = 2
  Users = {u1}
  Keys = {k1, k2}
  PayAmounts = {1, 4}
  RedeemAmounts = {2}
  Days = {d1}
  TotalBudget = 3
  MaxLedgerId = 3
  LedgerIds <- MCLedgerIds
  Handlers = {h1, h2}
  NoUser = NoUser
  NoBody = NoBody
  NoCall = NoCall
  MayRestart = TRUE
  MaxLimited = 1
  MaxFailures = 1
INVARIANTS
  TypeOK
  CountersFollowTables
  ScrapedBudgetIsRecent
  ScrapeCoversAnswered
