--------------------------- MODULE CashbackProofs ---------------------------
(***************************************************************************)
(* Lemmas about the money rules of module Cashback, for every rate,        *)
(* minimum, cap and width.                                                 *)
(***************************************************************************)
EXTENDS Cashback, TLAPS

(* The width and the truncated division keep GrossCashback an integer,     *)
(* whatever the product wraps to (domain/cashback.go).                     *)
LEMMA GrossIsInt ==
  ASSUME NEW a \in Int
  PROVE  GrossCashback(a) \in Int
<1>1. CashbackRateNumerator \in Int /\ CashbackRateDenominator \in Nat \ {0}
  BY RateAssumption
<1>2. MaxInt \in Nat \ {0}
  BY WidthAssumption
<1>3. ASSUME NEW n \in Int PROVE Int64(n) \in Int
  <2>1. 2 * (MaxInt + 1) \in Nat \ {0}
    BY <1>2
  <2>2. (n + MaxInt + 1) % (2 * (MaxInt + 1)) \in Int
    BY <2>1, <1>2
  <2> QED
    BY <2>2, <1>2 DEF Int64
<1>4. ASSUME NEW n \in Int PROVE Quotient(n, CashbackRateDenominator) \in Int
  BY <1>1 DEF Quotient
<1> QED
  BY <1>1, <1>3, <1>4 DEF GrossCashback

(* The award is never negative and never more than any of its three limits *)
(* (AwardableCashback).                                                    *)
LEMMA AwardBounds ==
  ASSUME NEW gross \in Int, NEW daily \in Nat, NEW budget \in Nat
  PROVE  LET award == AwardableCashback(gross, daily, budget)
         IN  /\ award \in Nat
             /\ award <= daily
             /\ award <= budget
             /\ gross >= 0 => award <= gross
  BY DEF AwardableCashback, Lesser

(* A short award uses a limit up, and EarnStatus names the right one.      *)
LEMMA ShortAward ==
  ASSUME NEW a \in Int, NEW gross \in Int, NEW daily \in Nat, NEW budget \in Nat
  PROVE  LET award  == AwardableCashback(gross, daily, budget)
             status == EarnStatus(a, gross, award, daily, budget)
         IN  /\ status \in FinalStatus
             /\ status \in {StatusPartialBudget, StatusBudgetExhausted}
                  => award = budget
             /\ status \in {StatusPartialDailyCap, StatusDailyCapReached}
                  => award = daily
<1>1. MinPaymentForCashback \in Int
  BY LimitAssumption
<1>2. CASE a < MinPaymentForCashback
  BY <1>1, <1>2 DEF EarnStatus, FinalStatus, StatusNoCashback, StatusEarned,
     StatusPartialDailyCap, StatusPartialBudget, StatusDailyCapReached,
     StatusBudgetExhausted
<1>3. CASE a >= MinPaymentForCashback
  <2> DEFINE award == AwardableCashback(gross, daily, budget)
  <2>1. award \in Nat
    BY AwardBounds
  <2>2. CASE award >= gross
    BY <1>1, <1>3, <2>1, <2>2 DEF EarnStatus, FinalStatus, StatusNoCashback,
       StatusEarned, StatusPartialDailyCap, StatusPartialBudget,
       StatusDailyCapReached, StatusBudgetExhausted
  <2>3. CASE ~(award >= gross)
    <3>1. award = Lesser(daily, budget)
      BY <2>1, <2>3 DEF AwardableCashback, Lesser
    <3>2. EarnStatus(a, gross, award, daily, budget) =
            IF budget <= daily
            THEN IF award = 0 THEN StatusBudgetExhausted ELSE StatusPartialBudget
            ELSE IF award = 0 THEN StatusDailyCapReached ELSE StatusPartialDailyCap
      BY <1>1, <1>3, <2>1, <2>3 DEF EarnStatus
    <3> QED
      BY <3>1, <3>2 DEF Lesser, FinalStatus, StatusNoCashback, StatusEarned,
         StatusPartialDailyCap, StatusPartialBudget, StatusDailyCapReached,
         StatusBudgetExhausted
  <2> QED
    BY <2>2, <2>3
<1> QED
  BY <1>1, <1>2, <1>3

(* DailyRemaining is never negative; below the cap it is what is left.     *)
LEMMA DailyRemainingIsNat ==
  ASSUME NEW e \in Nat
  PROVE  /\ DailyRemaining(e) \in Nat
         /\ e <= DailyCapPerUser => DailyRemaining(e) = DailyCapPerUser - e
  BY LimitAssumption DEF DailyRemaining

(* What an int64 can hold, it holds.                                       *)
LEMMA InRangeIsExact == \A n \in 0 .. MaxInt : Int64(n) = n
<1> TAKE n \in 0 .. MaxInt
<1> DEFINE M == 2 * (MaxInt + 1)
<1>1. M \in Nat \ {0} /\ n + MaxInt + 1 \in 0 .. M - 1
  BY WidthAssumption
<1> HIDE DEF M
<1>2. \A m \in Nat \ {0} : \A k \in 0 .. m - 1 : k % m = k
  OBVIOUS
<1>3. (n + MaxInt + 1) % M = n + MaxInt + 1
  BY <1>1, <1>2
<1> QED
  BY <1>3, WidthAssumption DEF Int64, M

(* Division by a positive number floors.                                   *)
LEMMA FloorDivision ==
  ASSUME NEW n \in Nat, NEW d \in Nat \ {0}
  PROVE  /\ n \div d \in Nat
         /\ (n \div d) * d <= n
         /\ n < (n \div d + 1) * d
  OBVIOUS

(* In range, the gross cashback is the largest whole number the rate gives.*)
LEMMA GrossIsFloor ==
  ASSUME NEW a \in 0 .. MaxInt, a * CashbackRateNumerator <= MaxInt,
         a >= MinPaymentForCashback
  PROVE  /\ GrossCashback(a) \in Nat
         /\ GrossCashback(a) * CashbackRateDenominator <= a * CashbackRateNumerator
         /\ a * CashbackRateNumerator
              < (GrossCashback(a) + 1) * CashbackRateDenominator
<1> DEFINE p == a * CashbackRateNumerator
           g == GrossCashback(a)
<1>1. a \in Nat /\ p \in 0 .. MaxInt
  BY WidthAssumption, RateAssumption
<1>2. g = p \div CashbackRateDenominator
  BY <1>1, InRangeIsExact, LimitAssumption DEF GrossCashback, Quotient
<1>3. p \in Nat /\ CashbackRateDenominator \in Nat \ {0}
  BY <1>1, RateAssumption
<1> HIDE DEF p, g
<1>4. /\ g \in Nat /\ g * CashbackRateDenominator <= p
      /\ p < (g + 1) * CashbackRateDenominator
  BY <1>2, <1>3, FloorDivision
<1> QED
  BY <1>4 DEF p, g
=============================================================================
