----------------------------- MODULE RulesProofs -----------------------------
(***************************************************************************)
(* Proofs about module Rules, for every rate, minimum, cap and width.      *)
(***************************************************************************)
EXTENDS Rules, CashbackProofs

TypeInv ==
  /\ earnedToday \in 0 .. DailyCapPerUser
  /\ budget \in Nat
  /\ last \in [amount: 0 .. MaxInt, award: Nat, status: FinalStatus,
               earned: Nat, budget: Nat]

(* The limits a decision was taken under, and what it decided.             *)
Decided ==
  \/ last = NoDecision
  \/ LET gross == GrossCashback(last.amount)
         daily == DailyRemaining(last.earned)
     IN  /\ last.amount \in Amounts
         /\ last.earned <= DailyCapPerUser
         /\ last.award = AwardableCashback(gross, daily, last.budget)
         /\ last.status = IF gross = 0 THEN StatusNoCashback
                          ELSE EarnStatus(last.amount, gross, last.award,
                                          daily, last.budget)

IInv == TypeInv /\ Decided

(* Nothing decided yet: the invariant holds of the first state.            *)
LEMMA InitIInv == Init => IInv
<1> SUFFICES ASSUME Init PROVE IInv
  OBVIOUS
<1>1. StatusNoCashback \in FinalStatus /\ 0 \in 0 .. MaxInt
  BY WidthAssumption DEF FinalStatus
<1> QED
  BY <1>1, RulesAssumption, LimitAssumption
     DEF Init, IInv, TypeInv, Decided, NoDecision

(* A decision, or a new day, keeps tally and budget in range and records   *)
(* the limits the decision was taken under.                                *)
LEMMA NextIInv == IInv /\ [Next]_vars => IInv'
<1> SUFFICES ASSUME IInv, [Next]_vars PROVE IInv'
  OBVIOUS
<1>1. ASSUME NEW a \in Amounts, Decide(a) PROVE IInv'
  <2> DEFINE gross == GrossCashback(a)
             daily == DailyRemaining(earnedToday)
             award == AwardableCashback(gross, daily, budget)
             status == IF gross = 0 THEN StatusNoCashback
                       ELSE EarnStatus(a, gross, award, daily, budget)
  <2>1. a \in 1 .. MaxInt /\ MaxInt \in Nat
    BY RulesAssumption, WidthAssumption
  <2>2. gross \in Int
    BY <2>1, GrossIsInt
  <2>3. earnedToday \in Nat /\ earnedToday <= DailyCapPerUser /\ budget \in Nat
    BY LimitAssumption DEF IInv, TypeInv
  <2>4. daily = DailyCapPerUser - earnedToday /\ daily \in Nat
    BY <2>3, DailyRemainingIsNat
  <2>5. award \in Nat /\ award <= daily /\ award <= budget
    BY <2>2, <2>3, <2>4, AwardBounds
  <2>6. status \in FinalStatus
    <3>1. StatusNoCashback \in FinalStatus
      BY DEF FinalStatus
    <3>2. EarnStatus(a, gross, award, daily, budget) \in FinalStatus
      BY <2>1, <2>2, <2>3, <2>4, ShortAward
    <3> QED
      BY <3>1, <3>2
  <2>7. /\ last' = [amount |-> a, award |-> award, status |-> status,
                    earned |-> earnedToday, budget |-> budget]
        /\ earnedToday' = earnedToday + award
        /\ budget' = budget - award
    BY <1>1 DEF Decide
  <2>8. TypeInv'
    <3> HIDE DEF award, status, daily, gross
    <3> QED
      BY <2>1, <2>3, <2>4, <2>5, <2>6, <2>7, LimitAssumption DEF TypeInv
  <2>9. Decided'
    BY <2>3, <2>7 DEF Decided
  <2> QED
    BY <2>8, <2>9 DEF IInv
<1>2. CASE NextDay
  BY <1>2, LimitAssumption DEF NextDay, IInv, TypeInv, Decided
<1>3. CASE UNCHANGED vars
  BY <1>3 DEF vars, IInv, TypeInv, Decided
<1> QED
  BY <1>1, <1>2, <1>3 DEF Next

(* Every decision, whatever came before it, awards the largest whole       *)
(* amount that the rate, the daily cap and the budget all allow.           *)
LEMMA LargestFromIInv == IInv => AwardIsLargest
<1> SUFFICES ASSUME IInv, InRange(last.amount)
             PROVE  IF last.amount < MinPaymentForCashback THEN last.award = 0
                    ELSE Fits(last.award) /\ ~Fits(last.award + 1)
  BY DEF AwardIsLargest
<1>1. CASE last = NoDecision
  BY <1>1, LimitAssumption DEF NoDecision
<1>2. CASE last # NoDecision
  <2> DEFINE a == last.amount
             gross == GrossCashback(a)
             daily == DailyRemaining(last.earned)
  <2>1. /\ a \in 0 .. MaxInt /\ last.award \in Nat
        /\ last.earned \in Nat /\ last.budget \in Nat
    BY DEF IInv, TypeInv
  <2>2. /\ last.earned <= DailyCapPerUser
        /\ last.award = AwardableCashback(gross, daily, last.budget)
    BY <1>2 DEF IInv, Decided
  <2>3. daily \in Nat /\ daily = DailyCapPerUser - last.earned
    BY <2>1, <2>2, DailyRemainingIsNat
  <2>4. CASE a < MinPaymentForCashback
    <3>1. gross = 0
      BY <2>4 DEF GrossCashback
    <3> QED
      BY <2>1, <2>2, <2>3, <2>4, <3>1 DEF AwardableCashback, Lesser
  <2>5. CASE a >= MinPaymentForCashback
    <3>1. /\ gross \in Nat
          /\ gross * CashbackRateDenominator <= a * CashbackRateNumerator
          /\ a * CashbackRateNumerator < (gross + 1) * CashbackRateDenominator
      BY <2>1, <2>5, GrossIsFloor DEF InRange
    <3> HIDE DEF gross, daily
    <3>2. last.award = Lesser(Lesser(gross, daily), last.budget)
      BY <2>1, <2>2, <2>3, <3>1 DEF AwardableCashback, Lesser
    <3>3. /\ last.award <= gross /\ last.award <= daily /\ last.award <= last.budget
          /\ last.award \in {gross, daily, last.budget}
      BY <2>1, <2>3, <3>1, <3>2 DEF Lesser
    <3>4. ASSUME NEW x \in Nat
          PROVE  x <= gross <=> x * CashbackRateDenominator <= a * CashbackRateNumerator
      <4>1. /\ CashbackRateDenominator \in Nat \ {0} /\ CashbackRateNumerator \in Nat
            /\ a \in Nat
        BY <2>1, RateAssumption
      <4>2. ASSUME NEW m \in Nat, NEW n \in Nat, NEW d \in Nat, m <= n
            PROVE  m * d <= n * d
        BY <4>2
      <4>3. CASE x <= gross
        BY <4>1, <4>2, <4>3, <3>1
      <4>4. CASE x >= gross + 1
        BY <4>1, <4>2, <4>4, <3>1
      <4> QED
        BY <3>1, <4>3, <4>4
    <3>5. \A x \in Nat : Fits(x) <=> x <= gross /\ x <= daily /\ x <= last.budget
      BY <2>1, <2>3, <3>4, LimitAssumption DEF Fits
    <3> QED
      BY <2>1, <2>3, <2>5, <3>1, <3>3, <3>5, LimitAssumption
  <2> QED
    BY <2>1, <2>4, <2>5, LimitAssumption
<1> QED
  BY <1>1, <1>2

(* The partial-award rule of the README, as a theorem.                     *)
THEOREM AlwaysLargest == Spec => []AwardIsLargest
  BY InitIInv, NextIInv, LargestFromIInv, PTL DEF Spec

(* A number of full rate is the floored one, and no other.                 *)
LEMMA FloorIsUnique ==
  ASSUME NEW p \in Nat, NEW d \in Nat \ {0}, NEW g \in Nat, NEW x \in Nat,
         g * d <= p, p < (g + 1) * d
  PROVE  (x * d <= p /\ p < (x + 1) * d) <=> x = g
<1>1. ASSUME NEW m \in Nat, NEW n \in Nat, m <= n PROVE m * d <= n * d
  BY <1>1
<1>2. CASE x + 1 <= g
  <2>1. (x + 1) * d <= g * d
    BY <1>1, <1>2
  <2> QED
    BY <1>2, <2>1
<1>3. CASE g + 1 <= x
  <2>1. (g + 1) * d <= x * d
    BY <1>1, <1>3
  <2> QED
    BY <1>3, <2>1
<1> QED
  BY <1>2, <1>3

(* An award short of the full rate is the smaller limit, and the status    *)
(* names that one, the budget when they are equal.                         *)
LEMMA ExplainedFromIInv == IInv => StatusExplainsAward
<1> DEFINE budgetUsed == last.award = last.budget
           capUsed == last.earned + last.award = DailyCapPerUser
<1> SUFFICES ASSUME IInv, InRange(last.amount),
                    last.amount >= MinPaymentForCashback
             PROVE  /\ FullRate => last.status \in {StatusEarned, StatusNoCashback}
                    /\ ~FullRate =>
                         last.status =
                           IF budgetUsed
                           THEN IF last.award = 0 THEN StatusBudgetExhausted
                                                  ELSE StatusPartialBudget
                           ELSE IF last.award = 0 THEN StatusDailyCapReached
                                                  ELSE StatusPartialDailyCap
                    /\ ~FullRate /\ ~budgetUsed => capUsed
  BY DEF StatusExplainsAward
<1> DEFINE a == last.amount
           gross == GrossCashback(a)
           daily == DailyRemaining(last.earned)
           award == last.award
<1>1. last # NoDecision
  BY LimitAssumption DEF NoDecision
<1>2. /\ a \in 0 .. MaxInt /\ a \in Nat /\ award \in Nat
      /\ last.earned \in Nat /\ last.budget \in Nat
  BY WidthAssumption DEF IInv, TypeInv
<1>3. /\ last.earned <= DailyCapPerUser
      /\ award = AwardableCashback(gross, daily, last.budget)
      /\ last.status = IF gross = 0 THEN StatusNoCashback
                       ELSE EarnStatus(a, gross, award, daily, last.budget)
  BY <1>1 DEF IInv, Decided
<1>4. daily \in Nat /\ daily = DailyCapPerUser - last.earned
  BY <1>2, <1>3, DailyRemainingIsNat
<1>5. /\ gross \in Nat
      /\ gross * CashbackRateDenominator <= a * CashbackRateNumerator
      /\ a * CashbackRateNumerator < (gross + 1) * CashbackRateDenominator
  BY <1>2, GrossIsFloor DEF InRange
<1>6. FullRate <=> award = gross
  <2>1. a * CashbackRateNumerator \in Nat /\ CashbackRateDenominator \in Nat \ {0}
    BY <1>2, RateAssumption
  <2> HIDE DEF gross
  <2> QED
    BY <1>2, <1>5, <2>1, FloorIsUnique DEF FullRate
<1> HIDE DEF gross, daily
<1>7. award = Lesser(Lesser(gross, daily), last.budget)
  BY <1>2, <1>3, <1>4, <1>5 DEF AwardableCashback, Lesser
<1>8. CASE award = gross
  <2>1. last.status \in {StatusEarned, StatusNoCashback}
    BY <1>2, <1>3, <1>5, <1>8, LimitAssumption DEF EarnStatus
  <2> QED
    BY <1>6, <1>8, <2>1
<1>9. CASE award # gross
  <2>1. /\ award < gross /\ gross # 0
        /\ award = IF last.budget <= daily THEN last.budget ELSE daily
    BY <1>2, <1>4, <1>5, <1>7, <1>9 DEF Lesser
  <2>2. last.status =
          IF last.budget <= daily
          THEN IF award = 0 THEN StatusBudgetExhausted ELSE StatusPartialBudget
          ELSE IF award = 0 THEN StatusDailyCapReached ELSE StatusPartialDailyCap
    BY <1>2, <1>3, <1>5, <2>1, LimitAssumption DEF EarnStatus
  <2>3. (budgetUsed <=> last.budget <= daily) /\ (~budgetUsed => award = daily)
    BY <1>2, <1>4, <2>1
  <2>4. award = daily => capUsed
    BY <1>2, <1>4, LimitAssumption
  <2> QED
    BY <1>6, <1>9, <2>2, <2>3, <2>4
<1> QED
  BY <1>8, <1>9

(* The status of every decision is the reason of its award, for every      *)
(* rate, minimum, cap and width (EarnStatus).                              *)
THEOREM AlwaysExplained == Spec => []StatusExplainsAward
  BY InitIInv, NextIInv, ExplainedFromIInv, PTL DEF Spec
=============================================================================
