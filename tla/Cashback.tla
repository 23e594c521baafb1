------------------------------ MODULE Cashback ------------------------------
(***************************************************************************)
(* The pure money rules of internal/domain: the rate with its floor, the   *)
(* per-user daily cap, the partial award, the status that explains it and  *)
(* the calendar day of the cap.  Nothing here has state.                   *)
(*                                                                         *)
(* Money is int64 in the code.  The only product the rules compute,        *)
(* amount * CashbackRateNumerator, can leave that range, and Go wraps it   *)
(* silently, so the width is kept: MaxInt is the largest int64 and Int64   *)
(* is two's-complement wrapping.                                           *)
(***************************************************************************)
EXTENDS Integers

CONSTANTS
  CashbackRateNumerator,
  CashbackRateDenominator,
  MinPaymentForCashback,
  DailyCapPerUser,
  MaxInt,         \* 2^63 - 1 in the code
  JakartaOffset,  \* WIB is ahead of UTC by this many clock units (7 hours)
  DayLength       \* clock units in a day

ASSUME RateAssumption ==
  /\ CashbackRateNumerator \in Nat \ {0}
  /\ CashbackRateDenominator \in Nat \ {0}

ASSUME LimitAssumption ==
  /\ MinPaymentForCashback \in Nat \ {0}
  /\ DailyCapPerUser \in Nat

ASSUME WidthAssumption == MaxInt \in Nat \ {0}

ASSUME ClockAssumption ==
  /\ JakartaOffset \in Nat
  /\ DayLength \in Nat \ {0}

(* What an int64 holds after an operation whose exact result is n. *)
Int64(n) == ((n + MaxInt + 1) % (2 * (MaxInt + 1))) - (MaxInt + 1)

(* Go's integer division truncates towards zero. *)
Quotient(a, b) == IF a >= 0 THEN a \div b ELSE -((-a) \div b)

(* Mutant: rounds up.                                                      *)
GrossCashbackRoundedUp(amount) ==
  IF amount < MinPaymentForCashback
  THEN 0
  ELSE Quotient(Int64(amount * CashbackRateNumerator) + CashbackRateDenominator - 1,
                CashbackRateDenominator)

GrossCashback(amount) ==
  IF amount < MinPaymentForCashback
  THEN 0
  ELSE Quotient(Int64(amount * CashbackRateNumerator), CashbackRateDenominator)

DailyRemaining(earnedToday) ==
  IF DailyCapPerUser < earnedToday THEN 0 ELSE DailyCapPerUser - earnedToday

Lesser(a, b) == IF b < a THEN b ELSE a

(* Mutant: all of it or nothing.                                           *)
AwardAllOrNothing(gross, dailyRemaining, budgetRemaining) ==
  IF gross <= Lesser(dailyRemaining, budgetRemaining) THEN gross ELSE 0

AwardableCashback(gross, dailyRemaining, budgetRemaining) ==
  LET award == Lesser(Lesser(gross, dailyRemaining), budgetRemaining)
  IN  IF award < 0 THEN 0 ELSE award

StatusNoCashback      == "no_cashback"
StatusEarned          == "earned"
StatusPartialDailyCap == "partial_daily_cap"
StatusPartialBudget   == "partial_budget"
StatusDailyCapReached == "daily_cap_reached"
StatusBudgetExhausted == "budget_exhausted"

FinalStatus ==
  {StatusNoCashback, StatusEarned, StatusPartialDailyCap,
   StatusPartialBudget, StatusDailyCapReached, StatusBudgetExhausted}

(* Mutant: a tie goes to the cap.                                          *)
EarnStatusTie(amount, gross, award, dailyRemaining, budgetRemaining) ==
  IF amount < MinPaymentForCashback THEN StatusNoCashback
  ELSE IF award >= gross THEN StatusEarned
  ELSE IF budgetRemaining < dailyRemaining
  THEN IF award = 0 THEN StatusBudgetExhausted ELSE StatusPartialBudget
  ELSE IF award = 0 THEN StatusDailyCapReached ELSE StatusPartialDailyCap

EarnStatus(amount, gross, award, dailyRemaining, budgetRemaining) ==
  IF amount < MinPaymentForCashback THEN StatusNoCashback
  ELSE IF award >= gross THEN StatusEarned
  ELSE IF budgetRemaining <= dailyRemaining
  THEN IF award = 0 THEN StatusBudgetExhausted ELSE StatusPartialBudget
  ELSE IF award = 0 THEN StatusDailyCapReached ELSE StatusPartialDailyCap

(* The bucket of the daily cap: the calendar date in Jakarta of a UTC      *)
(* instant.  WIB has had one fixed offset since 1964.                      *)
JakartaDay(t) == (t + JakartaOffset) \div DayLength
=============================================================================
