-------------------------------- MODULE Rules --------------------------------
(***************************************************************************)
(* The decision of repo.go (steps 2 to 4 of ProcessPayment) run on its own *)
(* for one user, one payment after another, with the arithmetic of module  *)
(* Cashback and nothing in between.  It compares that arithmetic with what *)
(* the campaign promises: the largest whole award that fits, and a status  *)
(* that says why it is short.                                              *)
(***************************************************************************)
EXTENDS Cashback

CONSTANTS
  Amounts,  \* payment amounts to try
  Budgets   \* campaign budgets to start from

ASSUME RulesAssumption ==
  /\ Amounts \subseteq (1 .. MaxInt)
  /\ Budgets \subseteq Nat

VARIABLES
  earnedToday,  \* the user's tally for the day
  budget,       \* what is left of the campaign
  last          \* the latest decision and the limits it was taken under

vars == <<earnedToday, budget, last>>

NoDecision ==
  [amount |-> 0, award |-> 0, status |-> StatusNoCashback, earned |-> 0, budget |-> 0]

Init ==
  /\ earnedToday = 0
  /\ budget \in Budgets
  /\ last = NoDecision

(* One payment: gross, both limits, award, status, both counters moved.    *)
Decide(amount) ==
  LET gross  == GrossCashback(amount)
      daily  == DailyRemaining(earnedToday)
      award  == AwardableCashback(gross, daily, budget)
      status == IF gross = 0 THEN StatusNoCashback
                ELSE EarnStatus(amount, gross, award, daily, budget)
  IN  /\ last' = [amount |-> amount, award |-> award, status |-> status,
                  earned |-> earnedToday, budget |-> budget]
      /\ earnedToday' = earnedToday + award
      /\ budget' = budget - award

(* The next Jakarta day has a tally of its own.                            *)
NextDay ==
  /\ earnedToday > 0
  /\ earnedToday' = 0
  /\ UNCHANGED <<budget, last>>

Next == (\E a \in Amounts : Decide(a)) \/ NextDay

Spec == Init /\ [][Next]_vars

-----------------------------------------------------------------------------
(* x is no more than the rate gives and fits under both limits.            *)
Fits(x) ==
  /\ x * CashbackRateDenominator <= last.amount * CashbackRateNumerator
  /\ last.earned + x <= DailyCapPerUser
  /\ x <= last.budget

(* A product the rate computes that an int64 can hold.                     *)
InRange(amount) == amount * CashbackRateNumerator <= MaxInt

(* The award is the largest whole number that fits (AwardableCashback:     *)
(* "the largest amount that fits"), and nothing below the minimum.         *)
AwardIsLargest ==
  InRange(last.amount) =>
    IF last.amount < MinPaymentForCashback
    THEN last.award = 0
    ELSE Fits(last.award) /\ ~Fits(last.award + 1)

(* The amount is what the rate gives, floored.                             *)
FullRate ==
  /\ last.award * CashbackRateDenominator <= last.amount * CashbackRateNumerator
  /\ last.amount * CashbackRateNumerator < (last.award + 1) * CashbackRateDenominator

(* The status tells why: a payment that earned less than the full rate     *)
(* names a limit, the named limit is the one now used up, and the budget   *)
(* is named when both are.                                                 *)
StatusExplainsAward ==
  LET budgetUsed == last.award = last.budget
      capUsed    == last.earned + last.award = DailyCapPerUser
  IN  InRange(last.amount) /\ last.amount >= MinPaymentForCashback =>
        /\ FullRate => last.status \in {StatusEarned, StatusNoCashback}
        /\ ~FullRate =>
             last.status =
               IF budgetUsed
               THEN IF last.award = 0 THEN StatusBudgetExhausted ELSE StatusPartialBudget
               ELSE IF last.award = 0 THEN StatusDailyCapReached ELSE StatusPartialDailyCap
        /\ ~FullRate /\ ~budgetUsed => capUsed

(* domain/cashback.go on StatusEarned: "full 5% awarded".                  *)
EarnedMeansFullRate == last.status = StatusEarned => FullRate
=============================================================================
