--------------------------- MODULE CampaignProofs ---------------------------
(***************************************************************************)
(* What Campaign guarantees for every set of users, keys, amounts and days *)
(* and every rate, cap and budget: first one step, then the behaviour.     *)
(***************************************************************************)
EXTENDS Campaign, CashbackProofs, FiniteSetTheorems, WellFoundedInduction

(* Awards and statuses are well typed in every typed state.                *)
LEMMA AwardIsNat ==
  ASSUME TablesOK, NEW u \in Users, NEW a \in PayAmounts, NEW d \in Days
  PROVE  /\ AwardFor(u, a, d) \in Nat
         /\ AwardFor(u, a, d) <= DailyRemaining(earned[u][d])
         /\ AwardFor(u, a, d) <= remaining
         /\ StatusFor(u, a, d) \in FinalStatus
<1>1. a \in Int
  BY AmountAssumption, WidthAssumption
<1>2. GrossCashback(a) \in Int
  BY <1>1, GrossIsInt
<1>3. earned[u][d] \in Nat /\ remaining \in Nat
  BY DEF TablesOK
<1>4. DailyRemaining(earned[u][d]) \in Nat
  BY <1>3, DailyRemainingIsNat
<1>5. StatusNoCashback \in FinalStatus
  BY DEF FinalStatus
<1> QED
  BY <1>1, <1>2, <1>3, <1>4, <1>5, AwardBounds, ShortAward
     DEF AwardFor, StatusFor

-----------------------------------------------------------------------------
(* One step of the campaign keeps the tables well typed.                   *)
LEMMA TablesInit == CampaignInit => TablesOK
  BY BudgetAssumption DEF CampaignInit, TablesOK

(* Each operation of the campaign writes well-typed rows and counters.     *)
LEMMA TablesStep == TablesOK /\ [CampaignNext]_tables => TablesOK'
<1> SUFFICES ASSUME TablesOK, [CampaignNext]_tables PROVE TablesOK'
  OBVIOUS
<1>1. CASE UNCHANGED tables
  BY <1>1 DEF TablesOK, tables
<1>2. ASSUME NEW u \in Users, NEW k \in Keys, NEW a \in PayAmounts,
             NEW d \in Days, Pay(u, k, a, d)
      PROVE  TablesOK'
  <2> DEFINE award == AwardFor(u, a, d)
  <2>1. award \in Nat /\ award <= remaining /\ StatusFor(u, a, d) \in FinalStatus
    BY AwardIsNat
  <2>2. balance[u] \in Nat /\ earned[u][d] \in Nat /\ remaining \in Nat
    BY DEF TablesOK
  <2>3. payments' \subseteq Payment
    BY <1>2, <2>1 DEF Pay, TablesOK, Payment
  <2>4. earned' \in [Users -> [Days -> Nat]]
    <3>1. earned' = [earned EXCEPT ![u][d] = @ + award]
      BY <1>2 DEF Pay
    <3>2. earned[u][d] + award \in Nat
      BY <2>1, <2>2
    <3> HIDE DEF award
    <3> QED
      BY <3>1, <3>2 DEF TablesOK
  <2>5. remaining' \in Nat /\ balance' \in [Users -> Nat]
    <3>1. remaining' = remaining - award /\ balance' = [balance EXCEPT ![u] = @ + award]
      BY <1>2 DEF Pay
    <3> HIDE DEF award
    <3> QED
      BY <3>1, <2>1, <2>2 DEF TablesOK
  <2>6. ledger' \subseteq LedgerEntry
    <3>1. CASE award = 0 /\ UNCHANGED ledger
      BY <3>1 DEF TablesOK
    <3>2. CASE award > 0 /\ PostEntry(u, "EARN", award, balance[u] + award, k)
      <4> HIDE DEF award
      <4> QED
        BY <3>2, <2>1, <2>2 DEF PostEntry, TablesOK, LedgerEntry
    <3> QED
      BY <1>2, <3>1, <3>2 DEF Pay
  <2> QED
    BY <1>2, <2>3, <2>4, <2>5, <2>6 DEF Pay, TablesOK
<1>3. ASSUME NEW u \in Users, NEW k \in Keys, NEW a \in RedeemAmounts,
             RedeemCash(u, k, a)
      PROVE  TablesOK'
  <2>1. a \in Nat \ {0}
    BY AmountAssumption, WidthAssumption
  <2>2. balance[u] \in Nat /\ balance[u] - a \in Nat
    BY <1>3, <2>1 DEF RedeemCash, TablesOK
  <2>3. redemptions' \subseteq Redemption
    BY <1>3, <2>2 DEF RedeemCash, TablesOK, Redemption
  <2>4. ledger' \subseteq LedgerEntry
    BY <1>3, <2>1, <2>2 DEF RedeemCash, PostEntry, TablesOK, LedgerEntry
  <2>5. balance' \in [Users -> Nat]
    BY <1>3, <2>2 DEF RedeemCash, TablesOK
  <2> QED
    BY <1>3, <2>3, <2>4, <2>5 DEF RedeemCash, TablesOK
<1> QED
  BY <1>1, <1>2, <1>3 DEF CampaignNext

(* The tables are always well typed: in particular remaining and every     *)
(* balance stay non-negative, whatever the requests.                       *)
THEOREM TablesAlwaysOK == CampaignSpec => []TablesOK
<1>1. CampaignInit => TablesOK
  BY TablesInit
<1>2. TablesOK /\ [CampaignNext]_tables => TablesOK'
  BY TablesStep
<1> QED
  BY <1>1, <1>2, PTL DEF CampaignSpec

(* No user earns more than the cap on one Jakarta day.                     *)
LEMMA DailyCapStep ==
  TablesOK /\ DailyCapHeld /\ [CampaignNext]_tables => DailyCapHeld'
<1> SUFFICES ASSUME TablesOK, DailyCapHeld, [CampaignNext]_tables
             PROVE  DailyCapHeld'
  OBVIOUS
<1>1. CASE UNCHANGED tables
  BY <1>1 DEF DailyCapHeld, tables
<1>2. ASSUME NEW u \in Users, NEW k \in Keys, NEW a \in PayAmounts,
             NEW d \in Days, Pay(u, k, a, d)
      PROVE  DailyCapHeld'
  <2> DEFINE award == AwardFor(u, a, d)
  <2>1. earned' = [earned EXCEPT ![u][d] = @ + award]
    BY <1>2 DEF Pay
  <2>2. award \in Nat /\ award <= DailyRemaining(earned[u][d])
    BY AwardIsNat
  <2>3. earned[u][d] \in Nat /\ earned[u][d] <= DailyCapPerUser
    BY DEF TablesOK, DailyCapHeld
  <2>4. earned[u][d] + award <= DailyCapPerUser
    BY <2>2, <2>3, DailyRemainingIsNat, LimitAssumption
  <2> HIDE DEF award
  <2> QED
    BY <2>1, <2>4 DEF TablesOK, DailyCapHeld
<1>3. ASSUME NEW u \in Users, NEW k \in Keys, NEW a \in RedeemAmounts,
             RedeemCash(u, k, a)
      PROVE  DailyCapHeld'
  BY <1>3 DEF RedeemCash, DailyCapHeld
<1> QED
  BY <1>1, <1>2, <1>3 DEF CampaignNext

(* However the payments come, no user earns more than the cap on one day.  *)
THEOREM DailyCapAlwaysHeld == CampaignSpec => []DailyCapHeld
<1>1. CampaignInit => TablesOK /\ DailyCapHeld
  BY TablesInit, LimitAssumption DEF CampaignInit, DailyCapHeld
<1>2. TablesOK /\ DailyCapHeld /\ [CampaignNext]_tables
        => TablesOK' /\ DailyCapHeld'
  BY TablesStep, DailyCapStep
<1> QED
  BY <1>1, <1>2, PTL DEF CampaignSpec

-----------------------------------------------------------------------------
(* The uniqueness of ledger entries rests on each having its source, so    *)
(* the two are one inductive argument.                                     *)

(* The row each operation appends.                                         *)
LEMMA PostedEntry ==
  ASSUME NEW u, NEW type, NEW a, NEW after, NEW k, PostEntry(u, type, a, after, k)
  PROVE  \E n : /\ ledger' = ledger \cup {n}
                /\ n.user = u /\ n.key = k /\ n.entry_type = type
                /\ n.amount = a /\ n.balance_after = after
                /\ n.id \in LedgerIds
                /\ \A e \in ledger : e.id # n.id
                /\ \A e \in LedgerOf(u) : e.id < n.id
<1>1. PICK id \in LedgerIds :
        /\ \A e \in ledger : e.id # id
        /\ \A e \in LedgerOf(u) : e.id < id
        /\ ledger' = ledger \cup
             {[id |-> id, user |-> u, entry_type |-> type, amount |-> a,
               balance_after |-> after, key |-> k]}
  BY DEF PostEntry
<1> DEFINE n == [id |-> id, user |-> u, entry_type |-> type, amount |-> a,
                 balance_after |-> after, key |-> k]
<1>2. /\ n.id = id /\ n.user = u /\ n.entry_type = type
      /\ n.amount = a /\ n.balance_after = after /\ n.key = k
  OBVIOUS
<1>3. ledger' = ledger \cup {n}
  BY <1>1
<1> HIDE DEF n
<1> QED
  BY <1>1, <1>2, <1>3

(* A payment appends its own row and, for an award, one EARN entry.        *)
LEMMA PaidRow ==
  ASSUME NEW u, NEW k, NEW a, NEW d, Pay(u, k, a, d)
  PROVE  \E p : /\ payments' = payments \cup {p}
                /\ p.user = u /\ p.key = k /\ p.amount = a
                /\ p.cashback_awarded = AwardFor(u, a, d)
                /\ p.status = StatusFor(u, a, d)
<1> DEFINE p == [user |-> u, key |-> k, amount |-> a,
                 cashback_awarded |-> AwardFor(u, a, d),
                 status |-> StatusFor(u, a, d)]
<1>1. /\ p.user = u /\ p.key = k /\ p.amount = a
      /\ p.cashback_awarded = AwardFor(u, a, d)
      /\ p.status = StatusFor(u, a, d)
  OBVIOUS
<1>2. payments' = payments \cup {p}
  BY DEF Pay
<1> HIDE DEF p
<1> QED
  BY <1>1, <1>2

(* A redemption appends its own row and one REDEEM entry.                  *)
LEMMA RedeemedRow ==
  ASSUME NEW u, NEW k, NEW a, RedeemCash(u, k, a)
  PROVE  \E r : /\ redemptions' = redemptions \cup {r}
                /\ r.user = u /\ r.key = k /\ r.amount = a
                /\ r.balance_after = balance[u] - a
<1> DEFINE r == [user |-> u, key |-> k, amount |-> a,
                 balance_after |-> balance[u] - a]
<1>1. r.user = u /\ r.key = k /\ r.amount = a /\ r.balance_after = balance[u] - a
  OBVIOUS
<1>2. redemptions' = redemptions \cup {r}
  BY DEF RedeemCash
<1> HIDE DEF r
<1> QED
  BY <1>1, <1>2

(* No operation adds a second row under a key or an id.                    *)
LEMMA OncePerKeyStep ==
  TablesOK /\ OncePerKey /\ LedgerMatchesSources /\ [CampaignNext]_tables
    => OncePerKey'
<1> SUFFICES ASSUME TablesOK, OncePerKey, LedgerMatchesSources,
                    [CampaignNext]_tables
             PROVE  OncePerKey'
  OBVIOUS
<1>1. CASE UNCHANGED tables
  BY <1>1 DEF OncePerKey, PaymentRows, RedemptionRows, tables
<1>2. ASSUME NEW u \in Users, NEW k \in Keys, NEW a \in PayAmounts,
             NEW d \in Days, Pay(u, k, a, d)
      PROVE  OncePerKey'
  <2> DEFINE award == AwardFor(u, a, d)
  <2>1. PICK p : payments' = payments \cup {p} /\ p.user = u /\ p.key = k
    BY <1>2, PaidRow
  <2>2. \A v \in Users, j \in Keys : \A q, r \in PaymentRows(v, j)' : q = r
    BY <1>2, <2>1 DEF Pay, OncePerKey, PaymentRows
  <2>3. \A v \in Users, j \in Keys : \A q, r \in RedemptionRows(v, j)' : q = r
    BY <1>2 DEF Pay, OncePerKey, RedemptionRows
  <2>4. \A e, f \in ledger' :
          \/ e.id = f.id
          \/ e.entry_type = f.entry_type /\ e.user = f.user /\ e.key = f.key
          => e = f
    <3>1. CASE UNCHANGED ledger
      BY <3>1 DEF OncePerKey
    <3>2. CASE PostEntry(u, "EARN", award, balance[u] + award, k)
      <4>1. PICK n : /\ ledger' = ledger \cup {n}
                     /\ n.user = u /\ n.key = k /\ n.entry_type = "EARN"
                     /\ \A e \in ledger : e.id # n.id
        BY <3>2, PostedEntry
      <4>2. \A e \in ledger :
              ~(e.entry_type = "EARN" /\ e.user = u /\ e.key = k)
        BY <1>2 DEF Pay, LedgerMatchesSources
      <4> QED
        BY <4>1, <4>2 DEF OncePerKey
    <3> QED
      BY <1>2, <3>1, <3>2 DEF Pay
  <2> QED
    BY <2>2, <2>3, <2>4 DEF OncePerKey
<1>3. ASSUME NEW u \in Users, NEW k \in Keys, NEW a \in RedeemAmounts,
             RedeemCash(u, k, a)
      PROVE  OncePerKey'
  <2>1. PICK r : redemptions' = redemptions \cup {r} /\ r.user = u /\ r.key = k
    BY <1>3, RedeemedRow
  <2>2. \A v \in Users, j \in Keys : \A q, s \in RedemptionRows(v, j)' : q = s
    BY <1>3, <2>1 DEF RedeemCash, OncePerKey, RedemptionRows
  <2>3. \A v \in Users, j \in Keys : \A q, s \in PaymentRows(v, j)' : q = s
    BY <1>3 DEF RedeemCash, OncePerKey, PaymentRows
  <2>4. PICK n : /\ ledger' = ledger \cup {n}
                 /\ n.user = u /\ n.key = k /\ n.entry_type = "REDEEM"
                 /\ \A e \in ledger : e.id # n.id
    BY <1>3, PostedEntry DEF RedeemCash
  <2>5. \A e \in ledger :
          ~(e.entry_type = "REDEEM" /\ e.user = u /\ e.key = k)
    BY <1>3 DEF RedeemCash, LedgerMatchesSources
  <2> QED
    BY <2>2, <2>3, <2>4, <2>5 DEF OncePerKey
<1> QED
  BY <1>1, <1>2, <1>3 DEF CampaignNext

(* Each operation appends source and entry together.                       *)
LEMMA LedgerMatchesSourcesStep ==
  TablesOK /\ LedgerMatchesSources /\ [CampaignNext]_tables
    => LedgerMatchesSources'
<1> SUFFICES ASSUME TablesOK, LedgerMatchesSources, [CampaignNext]_tables
             PROVE  LedgerMatchesSources'
  OBVIOUS
<1>1. CASE UNCHANGED tables
  BY <1>1 DEF LedgerMatchesSources, PaymentRows, RedemptionRows, LedgerOf, tables
<1>2. ASSUME NEW u \in Users, NEW k \in Keys, NEW a \in PayAmounts,
             NEW d \in Days, Pay(u, k, a, d)
      PROVE  LedgerMatchesSources'
  <2> DEFINE award == AwardFor(u, a, d)
  <2>1. PICK p : /\ payments' = payments \cup {p}
                 /\ p.user = u /\ p.key = k /\ p.cashback_awarded = award
    BY <1>2, PaidRow
  <2>2. redemptions' = redemptions
    BY <1>2 DEF Pay
  <2>3. CASE award = 0 /\ UNCHANGED ledger
    BY <2>1, <2>2, <2>3
       DEF LedgerMatchesSources, PaymentRows, RedemptionRows, LedgerOf
  <2>4. CASE award > 0 /\ PostEntry(u, "EARN", award, balance[u] + award, k)
    <3>1. PICK n : /\ ledger' = ledger \cup {n}
                   /\ n.user = u /\ n.key = k /\ n.entry_type = "EARN"
                   /\ n.amount = award
      BY <2>4, PostedEntry
    <3> HIDE DEF award
    <3> QED
      BY <2>1, <2>2, <3>1
         DEF LedgerMatchesSources, PaymentRows, RedemptionRows, LedgerOf
  <2> QED
    BY <1>2, <2>3, <2>4 DEF Pay
<1>3. ASSUME NEW u \in Users, NEW k \in Keys, NEW a \in RedeemAmounts,
             RedeemCash(u, k, a)
      PROVE  LedgerMatchesSources'
  <2>1. PICK r : /\ redemptions' = redemptions \cup {r}
                 /\ r.user = u /\ r.key = k /\ r.amount = a
                 /\ r.balance_after = balance[u] - a
    BY <1>3, RedeemedRow
  <2>2. PICK n : /\ ledger' = ledger \cup {n}
                 /\ n.user = u /\ n.key = k /\ n.entry_type = "REDEEM"
                 /\ n.amount = a /\ n.balance_after = balance[u] - a
    BY <1>3, PostedEntry DEF RedeemCash
  <2>3. payments' = payments
    BY <1>3 DEF RedeemCash
  <2> QED
    BY <2>1, <2>2, <2>3
       DEF LedgerMatchesSources, PaymentRows, RedemptionRows, LedgerOf
<1> QED
  BY <1>1, <1>2, <1>3 DEF CampaignNext

-----------------------------------------------------------------------------
(* Appending an entry that moves the balance by its amount keeps the       *)
(* running balance, because its id is the largest of its user.             *)
LEMMA RunningBalanceStep ==
  TablesOK /\ RunningBalance /\ [CampaignNext]_tables => RunningBalance'
<1> SUFFICES ASSUME TablesOK, RunningBalance, [CampaignNext]_tables
             PROVE  RunningBalance'
  OBVIOUS
<1>1. CASE UNCHANGED <<ledger, balance>>
  BY <1>1 DEF RunningBalance, LedgerOf, Precedes, Signed
<1>2. ASSUME NEW u \in Users, NEW n,
             ledger' = ledger \cup {n}, n.user = u, n.id \in LedgerIds,
             \A e \in LedgerOf(u) : e.id < n.id,
             balance' = [balance EXCEPT ![u] = n.balance_after],
             Signed(n) \in Int, n.balance_after = balance[u] + Signed(n)
      PROVE  RunningBalance'
  <2>1. \A e \in ledger : e.id \in Nat /\ e.user \in Users
    BY LedgerIdAssumption DEF TablesOK, LedgerEntry
  <2>2. n.id \in Nat
    BY <1>2, LedgerIdAssumption
  <2>3. \A v \in Users :
          LedgerOf(v)' = IF v = u THEN LedgerOf(u) \cup {n} ELSE LedgerOf(v)
    BY <1>2 DEF LedgerOf
  <2>4. \A v \in Users : balance'[v] = IF v = u THEN n.balance_after ELSE balance[v]
    BY <1>2 DEF TablesOK
  <2>5. balance[u] \in Nat
    BY DEF TablesOK
  <2>6. \A e \in ledger' :
          (\A f \in LedgerOf(e.user)' : e.id <= f.id)
            => e.balance_after = Signed(e)
    <3> SUFFICES ASSUME NEW e \in ledger',
                        \A f \in LedgerOf(e.user)' : e.id <= f.id
                 PROVE  e.balance_after = Signed(e)
      OBVIOUS
    <3>1. CASE e \in ledger
      <4>1. \A f \in LedgerOf(e.user) : e.id <= f.id
        BY <2>1, <2>3, <3>1
      <4> QED
        BY <3>1, <4>1 DEF RunningBalance
    <3>2. CASE e = n
      <4>1. \A f \in LedgerOf(u) : n.id <= f.id /\ f.id < n.id /\ f.id \in Nat
        BY <1>2, <2>1, <2>3, <3>2 DEF LedgerOf
      <4>2. LedgerOf(u) = {}
        BY <2>2, <4>1
      <4>3. balance[u] = 0
        BY <4>2 DEF RunningBalance
      <4> QED
        BY <1>2, <3>2, <4>3
    <3> QED
      BY <1>2, <3>1, <3>2
  <2>7. \A e, f \in ledger' :
          Precedes(f, e)' => e.balance_after = f.balance_after + Signed(e)
    <3> SUFFICES ASSUME NEW e \in ledger', NEW f \in ledger', Precedes(f, e)'
                 PROVE  e.balance_after = f.balance_after + Signed(e)
      OBVIOUS
    <3>1. /\ f.user = e.user /\ f.id < e.id
          /\ \A g \in LedgerOf(e.user)' : ~(f.id < g.id /\ g.id < e.id)
      BY DEF Precedes
    <3>2. CASE e \in ledger
      <4>1. f \in ledger
        BY <1>2, <2>1, <2>2, <3>1, <3>2 DEF LedgerOf
      <4>2. Precedes(f, e)
        BY <2>1, <2>3, <3>1, <3>2 DEF Precedes
      <4> QED
        BY <3>2, <4>1, <4>2 DEF RunningBalance
    <3>3. CASE e = n
      <4>1. f \in ledger /\ f.user = u
        BY <1>2, <2>2, <3>1, <3>3
      <4>2. \A g \in LedgerOf(u) : g.id <= f.id
        BY <1>2, <2>1, <2>3, <3>1, <3>3, <4>1 DEF LedgerOf
      <4>3. f.balance_after = balance[u]
        BY <4>1, <4>2 DEF RunningBalance
      <4> QED
        BY <1>2, <3>3, <4>3
    <3> QED
      BY <1>2, <3>2, <3>3
  <2>8. \A v \in Users : LedgerOf(v)' = {} => balance'[v] = 0
    BY <2>3, <2>4 DEF RunningBalance
  <2>9. \A e \in ledger' :
          (\A f \in LedgerOf(e.user)' : f.id <= e.id)
            => e.balance_after = balance'[e.user]
    <3> SUFFICES ASSUME NEW e \in ledger',
                        \A f \in LedgerOf(e.user)' : f.id <= e.id
                 PROVE  e.balance_after = balance'[e.user]
      OBVIOUS
    <3>1. CASE e = n
      BY <1>2, <2>4, <3>1
    <3>2. CASE e \in ledger /\ e.user = u
      BY <1>2, <2>1, <2>2, <2>3, <3>2 DEF LedgerOf
    <3>3. CASE e \in ledger /\ e.user # u
      <4>1. \A f \in LedgerOf(e.user) : f.id <= e.id
        BY <2>1, <2>3, <3>3
      <4> QED
        BY <2>1, <2>4, <3>3, <4>1 DEF RunningBalance
    <3> QED
      BY <1>2, <3>1, <3>2, <3>3
  <2> QED
    BY <2>6, <2>7, <2>8, <2>9 DEF RunningBalance, Signed
<1>3. ASSUME NEW u \in Users, NEW k \in Keys, NEW a \in PayAmounts,
             NEW d \in Days, Pay(u, k, a, d)
      PROVE  RunningBalance'
  <2> DEFINE award == AwardFor(u, a, d)
  <2>1. balance[u] \in Nat /\ award \in Nat
    BY AwardIsNat DEF TablesOK
  <2>2. balance' = [balance EXCEPT ![u] = balance[u] + award]
    BY <1>3 DEF Pay
  <2>3. CASE award = 0 /\ UNCHANGED ledger
    <3> HIDE DEF award
    <3>1. balance' = balance
      BY <2>1, <2>2, <2>3 DEF TablesOK
    <3> QED
      BY <1>1, <2>3, <3>1
  <2>4. CASE PostEntry(u, "EARN", award, balance[u] + award, k)
    <3>1. PICK n : /\ ledger' = ledger \cup {n}
                   /\ n.user = u /\ n.entry_type = "EARN"
                   /\ n.amount = award /\ n.balance_after = balance[u] + award
                   /\ n.id \in LedgerIds
                   /\ \A e \in LedgerOf(u) : e.id < n.id
      BY <2>4, PostedEntry
    <3> HIDE DEF award
    <3>2. Signed(n) \in Int /\ n.balance_after = balance[u] + Signed(n)
      BY <2>1, <3>1 DEF Signed
    <3> QED
      BY <1>2, <2>2, <3>1, <3>2
  <2> QED
    BY <1>3, <2>3, <2>4 DEF Pay
<1>4. ASSUME NEW u \in Users, NEW k \in Keys, NEW a \in RedeemAmounts,
             RedeemCash(u, k, a)
      PROVE  RunningBalance'
  <2>1. a \in Int /\ balance[u] \in Nat
    BY AmountAssumption, WidthAssumption DEF TablesOK
  <2>2. balance' = [balance EXCEPT ![u] = balance[u] - a]
    BY <1>4 DEF RedeemCash
  <2>3. PICK n : /\ ledger' = ledger \cup {n}
                 /\ n.user = u /\ n.entry_type = "REDEEM"
                 /\ n.amount = a /\ n.balance_after = balance[u] - a
                 /\ n.id \in LedgerIds
                 /\ \A e \in LedgerOf(u) : e.id < n.id
    BY <1>4, PostedEntry DEF RedeemCash
  <2>4. Signed(n) \in Int /\ n.balance_after = balance[u] + Signed(n)
    BY <2>1, <2>3 DEF Signed
  <2> QED
    BY <1>2, <2>2, <2>3, <2>4
<1>5. CASE UNCHANGED tables
  BY <1>1, <1>5 DEF tables
<1> QED
  BY <1>3, <1>4, <1>5 DEF CampaignNext

(* Once a limit bound an award it is used up, and it stays used up.        *)
LEMMA ShortAwardStep ==
  TablesOK /\ DailyCapHeld /\ ShortAwardUsesUpLimit /\ [CampaignNext]_tables
    => ShortAwardUsesUpLimit'
<1> SUFFICES ASSUME TablesOK, DailyCapHeld, ShortAwardUsesUpLimit,
                    [CampaignNext]_tables
             PROVE  ShortAwardUsesUpLimit'
  OBVIOUS
<1>1. CASE UNCHANGED <<payments, earned, remaining>>
  BY <1>1 DEF ShortAwardUsesUpLimit
<1>2. ASSUME NEW u \in Users, NEW k \in Keys, NEW a \in PayAmounts,
             NEW d \in Days, Pay(u, k, a, d)
      PROVE  ShortAwardUsesUpLimit'
  <2> DEFINE award == AwardFor(u, a, d)
             daily == DailyRemaining(earned[u][d])
             gross == GrossCashback(a)
  <2>1. PICK p : /\ payments' = payments \cup {p}
                 /\ p.user = u /\ p.status = StatusFor(u, a, d)
    BY <1>2, PaidRow
  <2>2. /\ earned' = [earned EXCEPT ![u][d] = @ + award]
        /\ remaining' = remaining - award
    BY <1>2 DEF Pay
  <2>3. award \in Nat /\ award <= daily /\ award <= remaining
    BY AwardIsNat
  <2>4. /\ earned \in [Users -> [Days -> Nat]] /\ remaining \in Nat
        /\ earned[u][d] \in Nat /\ earned[u][d] <= DailyCapPerUser
    BY DEF TablesOK, DailyCapHeld
  <2>5. daily \in Nat /\ daily = DailyCapPerUser - earned[u][d]
    BY <2>4, DailyRemainingIsNat
  <2>6. a \in Int /\ gross \in Int
    BY GrossIsInt, AmountAssumption, WidthAssumption
  <2>7. /\ StatusFor(u, a, d) \in {StatusPartialBudget, StatusBudgetExhausted}
             => award = remaining
        /\ StatusFor(u, a, d) \in {StatusPartialDailyCap, StatusDailyCapReached}
             => award = daily
    <3>1. CASE gross = 0
      BY <3>1 DEF StatusFor, StatusNoCashback, StatusPartialBudget,
         StatusBudgetExhausted, StatusPartialDailyCap, StatusDailyCapReached
    <3>2. CASE gross # 0
      <4>1. StatusFor(u, a, d) = EarnStatus(a, gross, award, daily, remaining)
        BY <3>2 DEF StatusFor
      <4>2. award = AwardableCashback(gross, daily, remaining)
        BY DEF AwardFor
      <4> HIDE DEF award, daily, gross
      <4> QED
        BY <4>1, <4>2, <2>4, <2>5, <2>6, ShortAward
    <3> QED
      BY <3>1, <3>2
  <2> HIDE DEF award, daily, gross
  <2>8. ASSUME NEW q \in payments',
               q.status \in {StatusPartialBudget, StatusBudgetExhausted}
        PROVE  remaining' = 0
    <3>1. CASE q \in payments
      BY <2>2, <2>3, <2>4, <2>8, <3>1 DEF ShortAwardUsesUpLimit
    <3>2. CASE q = p
      BY <2>1, <2>2, <2>4, <2>7, <2>8, <3>2
    <3> QED
      BY <2>1, <3>1, <3>2
  <2>9. ASSUME NEW q \in payments',
               q.status \in {StatusPartialDailyCap, StatusDailyCapReached}
        PROVE  \E c \in Days : earned'[q.user][c] = DailyCapPerUser
    <3>1. CASE q \in payments
      <4>1. PICK c \in Days : earned[q.user][c] = DailyCapPerUser
        BY <2>9, <3>1 DEF ShortAwardUsesUpLimit
      <4>2. q.user \in Users
        BY <3>1 DEF TablesOK, Payment
      <4>3. CASE q.user = u /\ c = d
        <5>1. award = 0
          BY <2>3, <2>4, <2>5, <4>1, <4>3, LimitAssumption
        <5> QED
          BY <2>2, <2>4, <4>1, <4>2, <4>3, <5>1
      <4>4. CASE ~(q.user = u /\ c = d)
        BY <2>2, <2>4, <4>1, <4>2, <4>4
      <4> QED
        BY <4>3, <4>4
    <3>2. CASE q = p
      <4>1. earned'[u][d] = earned[u][d] + award
        BY <2>2, <2>4
      <4> QED
        BY <2>1, <2>4, <2>5, <2>7, <2>9, <3>2, <4>1, LimitAssumption
    <3> QED
      BY <2>1, <3>1, <3>2
  <2> QED
    BY <2>8, <2>9 DEF ShortAwardUsesUpLimit
<1>3. ASSUME NEW u \in Users, NEW k \in Keys, NEW a \in RedeemAmounts,
             RedeemCash(u, k, a)
      PROVE  ShortAwardUsesUpLimit'
  BY <1>1, <1>3 DEF RedeemCash
<1>4. CASE UNCHANGED tables
  BY <1>1, <1>4 DEF tables
<1> QED
  BY <1>2, <1>3, <1>4 DEF CampaignNext

-----------------------------------------------------------------------------
(* Everything above as one inductive invariant of the abstract campaign.   *)
CampaignInv ==
  /\ TablesOK
  /\ DailyCapHeld
  /\ OncePerKey
  /\ LedgerMatchesSources
  /\ RunningBalance
  /\ ShortAwardUsesUpLimit

(* The empty tables satisfy the whole invariant.                           *)
LEMMA CampaignInvInit == CampaignInit => CampaignInv
<1> SUFFICES ASSUME CampaignInit PROVE CampaignInv
  OBVIOUS
<1>1. TablesOK
  BY TablesInit
<1>2. DailyCapHeld
  BY LimitAssumption DEF CampaignInit, DailyCapHeld
<1>3. OncePerKey /\ LedgerMatchesSources
  BY DEF CampaignInit, OncePerKey, LedgerMatchesSources, PaymentRows,
     RedemptionRows
<1>4. RunningBalance /\ ShortAwardUsesUpLimit
  BY DEF CampaignInit, RunningBalance, ShortAwardUsesUpLimit
<1> QED
  BY <1>1, <1>2, <1>3, <1>4 DEF CampaignInv

(* Each operation keeps the whole invariant, by the step lemmas above.     *)
LEMMA CampaignInvStep == CampaignInv /\ [CampaignNext]_tables => CampaignInv'
  BY TablesStep, DailyCapStep, OncePerKeyStep, LedgerMatchesSourcesStep,
     RunningBalanceStep, ShortAwardStep DEF CampaignInv

(* No duplicate rows, a ledger that matches its sources and adds up to     *)
(* every balance, limits used up exactly, in every campaign.               *)
THEOREM CampaignAlwaysConsistent == CampaignSpec => []CampaignInv
  BY CampaignInvInit, CampaignInvStep, PTL DEF CampaignSpec

(* One step changes no row that is there, and no spent budget comes back.  *)
LEMMA RowsGrow ==
  ASSUME TablesOK, [CampaignNext]_tables
  PROVE  /\ payments \subseteq payments'
         /\ redemptions \subseteq redemptions'
         /\ ledger \subseteq ledger'
         /\ remaining' <= remaining
<1> DEFINE Final == /\ payments \subseteq payments'
                    /\ redemptions \subseteq redemptions'
                    /\ ledger \subseteq ledger'
                    /\ remaining' <= remaining
<1>1. ASSUME NEW u \in Users, NEW k \in Keys, NEW a \in PayAmounts,
             NEW d \in Days, Pay(u, k, a, d)
      PROVE  Final
  <2> DEFINE award == AwardFor(u, a, d)
  <2>1. award \in Nat /\ remaining \in Nat /\ remaining' = remaining - award
    BY <1>1, AwardIsNat DEF Pay, TablesOK
  <2>2. ledger \subseteq ledger'
    BY <1>1 DEF Pay, PostEntry
  <2>3. payments \subseteq payments' /\ redemptions \subseteq redemptions'
    BY <1>1 DEF Pay
  <2> HIDE DEF award
  <2> QED
    BY <2>1, <2>2, <2>3
<1>2. ASSUME NEW u \in Users, NEW k \in Keys, NEW a \in RedeemAmounts,
             RedeemCash(u, k, a)
      PROVE  Final
  BY <1>2 DEF RedeemCash, PostEntry, TablesOK
<1>3. CASE UNCHANGED tables
  BY <1>3 DEF tables, TablesOK
<1> QED
  BY <1>1, <1>2, <1>3 DEF CampaignNext

(* Committed rows are never changed or removed; spent budget is gone.      *)
THEOREM CampaignRowsAreFinal == CampaignSpec => RowsAreFinal
<1>1. TablesOK /\ [CampaignNext]_tables
        => [/\ payments \subseteq payments'
            /\ redemptions \subseteq redemptions'
            /\ ledger \subseteq ledger'
            /\ remaining' <= remaining]_tables
  BY RowsGrow
<1> QED
  BY <1>1, TablesAlwaysOK, PTL DEF CampaignSpec, RowsAreFinal

-----------------------------------------------------------------------------
(* The history a balance was read from.                                    *)

(* The balance is that of the user's last entry, and there is a last one.  *)
LatestIsBalance ==
  \A u \in Users :
    \/ LedgerOf(u) = {} /\ balance[u] = 0
    \/ \E e \in LedgerOf(u) :
         /\ e.balance_after = balance[u]
         /\ \A f \in LedgerOf(u) : f.id <= e.id

(* An entry appended with the balance it leads to is the last one.         *)
LEMMA LatestStep ==
  TablesOK /\ LatestIsBalance /\ [CampaignNext]_tables => LatestIsBalance'
<1> SUFFICES ASSUME TablesOK, LatestIsBalance, [CampaignNext]_tables
             PROVE  LatestIsBalance'
  OBVIOUS
<1>1. CASE UNCHANGED <<ledger, balance>>
  BY <1>1 DEF LatestIsBalance, LedgerOf
<1>2. ASSUME NEW u \in Users, NEW n,
             ledger' = ledger \cup {n}, n.user = u, n.id \in LedgerIds,
             \A e \in LedgerOf(u) : e.id < n.id,
             balance' = [balance EXCEPT ![u] = n.balance_after]
      PROVE  LatestIsBalance'
  <2>1. n.id \in Nat /\ \A e \in ledger : e.id \in Nat
    BY <1>2, LedgerIdAssumption DEF TablesOK, LedgerEntry
  <2>2. \A v \in Users :
          LedgerOf(v)' = IF v = u THEN LedgerOf(u) \cup {n} ELSE LedgerOf(v)
    BY <1>2 DEF LedgerOf
  <2>3. \A v \in Users : balance'[v] = IF v = u THEN n.balance_after ELSE balance[v]
    BY <1>2 DEF TablesOK
  <2>4. \A e \in LedgerOf(u) \cup {n} : e.id <= n.id
    BY <1>2, <2>1 DEF LedgerOf
  <2>5. ASSUME NEW v \in Users
        PROVE  \/ LedgerOf(v)' = {} /\ balance'[v] = 0
               \/ \E e \in LedgerOf(v)' :
                    /\ e.balance_after = balance'[v]
                    /\ \A f \in LedgerOf(v)' : f.id <= e.id
    <3>1. CASE v = u
      BY <2>2, <2>3, <2>4, <3>1
    <3>2. CASE v # u
      BY <2>2, <2>3, <3>2 DEF LatestIsBalance
    <3> QED
      BY <3>1, <3>2
  <2> QED
    BY <2>5 DEF LatestIsBalance
<1>3. ASSUME NEW u \in Users, NEW k \in Keys, NEW a \in PayAmounts,
             NEW d \in Days, Pay(u, k, a, d)
      PROVE  LatestIsBalance'
  <2> DEFINE award == AwardFor(u, a, d)
  <2>1. balance[u] \in Nat /\ award \in Nat
    BY AwardIsNat DEF TablesOK
  <2>2. balance' = [balance EXCEPT ![u] = balance[u] + award]
    BY <1>3 DEF Pay
  <2>3. CASE award = 0 /\ UNCHANGED ledger
    <3> HIDE DEF award
    <3>1. balance' = balance
      BY <2>1, <2>2, <2>3 DEF TablesOK
    <3> QED
      BY <1>1, <2>3, <3>1
  <2>4. CASE PostEntry(u, "EARN", award, balance[u] + award, k)
    <3>1. PICK n : /\ ledger' = ledger \cup {n}
                   /\ n.user = u /\ n.balance_after = balance[u] + award
                   /\ n.id \in LedgerIds
                   /\ \A e \in LedgerOf(u) : e.id < n.id
      BY <2>4, PostedEntry
    <3> HIDE DEF award
    <3> QED
      BY <1>2, <2>2, <3>1
  <2> QED
    BY <1>3, <2>3, <2>4 DEF Pay
<1>4. ASSUME NEW u \in Users, NEW k \in Keys, NEW a \in RedeemAmounts,
             RedeemCash(u, k, a)
      PROVE  LatestIsBalance'
  <2>1. balance' = [balance EXCEPT ![u] = balance[u] - a]
    BY <1>4 DEF RedeemCash
  <2>2. PICK n : /\ ledger' = ledger \cup {n}
                 /\ n.user = u /\ n.balance_after = balance[u] - a
                 /\ n.id \in LedgerIds
                 /\ \A e \in LedgerOf(u) : e.id < n.id
    BY <1>4, PostedEntry DEF RedeemCash
  <2> QED
    BY <1>2, <2>1, <2>2
<1>5. CASE UNCHANGED tables
  BY <1>1, <1>5 DEF tables
<1> QED
  BY <1>3, <1>4, <1>5 DEF CampaignNext

(* No entries and no balance to begin with.                                *)
LEMMA LatestInit == CampaignInit => LatestIsBalance
  BY DEF CampaignInit, LatestIsBalance, LedgerOf

(* The award entries of one key: none before its payment, and none after.  *)
EarnsUnder(u, k) ==
  {e \in LedgerOf(u) : e.entry_type = "EARN" /\ e.key = k}

(* An award has its payment.                                               *)
LEMMA EarnsHavePayment ==
  ASSUME LedgerMatchesSources, NEW u, NEW k, PaymentRows(u, k) = {}
  PROVE  EarnsUnder(u, k) = {}
  BY DEF LedgerMatchesSources, EarnsUnder, LedgerOf

(* A payment that is there gets no further award.                          *)
LEMMA EarnsFixed ==
  ASSUME [CampaignNext]_tables, NEW u, NEW k, PaymentRows(u, k) # {}
  PROVE  EarnsUnder(u, k)' = EarnsUnder(u, k)
<1>1. CASE UNCHANGED tables
  BY <1>1 DEF tables, EarnsUnder, LedgerOf
<1>2. ASSUME NEW v \in Users, NEW j \in Keys, NEW a \in PayAmounts,
             NEW d \in Days, Pay(v, j, a, d)
      PROVE  EarnsUnder(u, k)' = EarnsUnder(u, k)
  <2> DEFINE award == AwardFor(v, a, d)
  <2>1. ~(u = v /\ k = j)
    BY <1>2 DEF Pay
  <2>2. CASE UNCHANGED ledger
    BY <2>2 DEF EarnsUnder, LedgerOf
  <2>3. CASE PostEntry(v, "EARN", award, balance[v] + award, j)
    <3>1. PICK n : ledger' = ledger \cup {n} /\ n.user = v /\ n.key = j
      BY <2>3, PostedEntry
    <3> QED
      BY <2>1, <3>1 DEF EarnsUnder, LedgerOf
  <2> QED
    BY <1>2, <2>2, <2>3 DEF Pay
<1>3. ASSUME NEW v \in Users, NEW j \in Keys, NEW a \in RedeemAmounts,
             RedeemCash(v, j, a)
      PROVE  EarnsUnder(u, k)' = EarnsUnder(u, k)
  <2>1. PICK n : ledger' = ledger \cup {n} /\ n.entry_type = "REDEEM"
    BY <1>3, PostedEntry DEF RedeemCash
  <2> QED
    BY <2>1 DEF EarnsUnder, LedgerOf
<1> QED
  BY <1>1, <1>2, <1>3 DEF CampaignNext

-----------------------------------------------------------------------------
(* Sums over finite sets.                                                  *)

(* A family of subsets of a finite set has a smallest member: what the     *)
(* lemmas below use for an induction over finite sets.                     *)
LEMMA SmallestSubset ==
  ASSUME NEW S, IsFiniteSet(S), NEW T, T \subseteq SUBSET S, T # {}
  PROVE  \E s \in T : \A r \in T : r \subseteq s => r = s
<1>1. IsWellFoundedOn(StrictSubsetOrdering(S), SUBSET S)
  BY FS_FiniteSubsetsOfFinite, FS_StrictSubsetOrderingWellFounded
<1>2. PICK s \in T : \A r \in T : <<r, s>> \notin StrictSubsetOrdering(S)
  BY <1>1, WFMin
<1>3. ASSUME NEW r \in T, r \subseteq s, r # s
      PROVE  FALSE
  BY <1>2, <1>3 DEF StrictSubsetOrdering
<1> QED
  BY <1>2, <1>3

(* The member MapThenSumSet adds first.                                    *)
First(s) == CHOOSE x \in s : TRUE

(* g gives every subset of S the sum of f over it.                         *)
IsSum(g, f, S) ==
  g = [s \in SUBSET S |-> IF s = {} THEN 0 ELSE f[First(s)] + g[s \ {First(s)}]]

(* MapThenSumSet with a function for its operator, so that facts about it  *)
(* need no operator parameter.                                             *)
Total(f, S) == (CHOOSE g : IsSum(g, f, S))[S]

(* A set with members has a first one.                                     *)
LEMMA FirstIsMember == ASSUME NEW s, s # {} PROVE First(s) \in s
  BY DEF First

(* The two lines of the definition, for one subset.                        *)
LEMMA SumStep ==
  ASSUME NEW S, NEW f, NEW g, IsSum(g, f, S), NEW s \in SUBSET S
  PROVE  /\ s = {} => g[s] = 0
         /\ s # {} => g[s] = f[First(s)] + g[s \ {First(s)}]
<1> DEFINE body(t) == IF t = {} THEN 0 ELSE f[First(t)] + g[t \ {First(t)}]
<1>1. g = [t \in SUBSET S |-> body(t)]
  BY DEF IsSum
<1>2. g[s] = body(s)
  <2> HIDE DEF body
  <2> QED BY <1>1
<1> QED
  BY <1>2

(* Two functions that sum the same terms agree.                            *)
LEMMA SumUnique ==
  ASSUME NEW S, IsFiniteSet(S), NEW f, NEW g, IsSum(g, f, S), NEW R, NEW h,
         IsSum(h, f, R), S \subseteq R
  PROVE  g[S] = h[S]
<1> SUFFICES ASSUME g[S] # h[S] PROVE FALSE
  OBVIOUS
<1> DEFINE T == {s \in SUBSET S : g[s] # h[s]}
<1>1. S \in T
  OBVIOUS
<1>2. PICK s \in T : \A r \in T : r \subseteq s => r = s
  <2>1. T \subseteq SUBSET S /\ T # {}
    BY <1>1
  <2> HIDE DEF T
  <2> QED
    BY <2>1, SmallestSubset
<1>3. s # {} 
  BY SumStep
<1>4. First(s) \in s
  BY <1>3, FirstIsMember
<1>5. s \ {First(s)} \notin T
  BY <1>2, <1>4
<1>6. g[s \ {First(s)}] = h[s \ {First(s)}]
  BY <1>5
<1>7. g[s] = f[First(s)] + g[s \ {First(s)}]
  BY <1>3, SumStep
<1>8. h[s] = f[First(s)] + h[s \ {First(s)}]
  <2>1. s \in SUBSET R
    OBVIOUS
  <2> HIDE DEF T
  <2> QED
    BY <1>3, <2>1, SumStep
<1> QED
  BY <1>6, <1>7, <1>8

(* Every subset of a finite set has a sum.                                 *)
LEMMA SumExists ==
  ASSUME NEW S, IsFiniteSet(S), NEW f
  PROVE  \E g : IsSum(g, f, S)
<1> SUFFICES ASSUME ~ \E g : IsSum(g, f, S) PROVE FALSE
  OBVIOUS
<1> DEFINE T == {s \in SUBSET S : ~ \E g : IsSum(g, f, s)}
<1>1. PICK s \in T : \A r \in T : r \subseteq s => r = s
  <2>1. T \subseteq SUBSET S /\ T # {}
    OBVIOUS
  <2> HIDE DEF T
  <2> QED
    BY <2>1, SmallestSubset
<1> DEFINE sum(r) == CHOOSE g : IsSum(g, f, r)
           value(r) == IF r = {} THEN 0 ELSE f[First(r)] + sum(r \ {First(r)})[r \ {First(r)}]
           g == [r \in SUBSET s |-> value(r)]
<1>2. ASSUME NEW r \in SUBSET s, r # s
      PROVE  IsSum(sum(r), f, r)
  <2>1. r \notin T
    BY <1>1, <1>2
  <2>2. \E h : IsSum(h, f, r)
    BY <2>1
  <2> QED
    BY <2>2
<1>3. ASSUME NEW r \in SUBSET s, r # s
      PROVE  sum(r)[r] = value(r)
  <2>1. IsSum(sum(r), f, r)
    BY <1>2, <1>3
  <2>2. CASE r = {}
    BY <2>1, <2>2, SumStep
  <2>3. CASE r # {}
    <3> DEFINE q == r \ {First(r)}
    <3>1. First(r) \in r
      BY <2>3, FirstIsMember
    <3>2. q \in SUBSET s /\ q # s /\ q \subseteq r /\ IsFiniteSet(q)
      BY <3>1, FS_Subset
    <3>3. IsSum(sum(q), f, q)
      BY <1>2, <3>2
    <3>4. sum(q)[q] = sum(r)[q]
      <4> HIDE DEF sum, q
      <4> QED
        BY <2>1, <3>2, <3>3, SumUnique
    <3>5. sum(r)[r] = f[First(r)] + sum(r)[q]
      <4> HIDE DEF sum
      <4> QED
        BY <2>1, <2>3, SumStep
    <3> QED
      BY <2>3, <3>4, <3>5
  <2> QED
    BY <2>2, <2>3
<1>4. ASSUME NEW r \in SUBSET s
      PROVE  g[r] = IF r = {} THEN 0 ELSE f[First(r)] + g[r \ {First(r)}]
  <2>1. CASE r = {}
    BY <2>1
  <2>2. CASE r # {}
    <3> DEFINE q == r \ {First(r)}
    <3>1. First(r) \in r
      BY <2>2, FirstIsMember
    <3>2. q \in SUBSET s /\ q # s
      BY <3>1
    <3>3. sum(q)[q] = g[q]
      <4>1. sum(q)[q] = value(q)
        BY <1>3, <3>2
      <4> HIDE DEF value, sum, q
      <4> QED
        BY <3>2, <4>1
    <3>4. g[r] = f[First(r)] + sum(q)[q]
      BY <2>2
    <3> QED
      BY <2>2, <3>3, <3>4
  <2> QED
    BY <2>1, <2>2
<1>5. IsSum(g, f, s)
  <2> DEFINE body(r) == IF r = {} THEN 0 ELSE f[First(r)] + g[r \ {First(r)}]
  <2>1. \A r \in SUBSET s : value(r) = body(r)
    BY <1>4
  <2>2. g = [r \in SUBSET s |-> body(r)]
    <3> HIDE DEF value, body
    <3> QED
      BY <2>1
  <2> QED
    BY <2>2 DEF IsSum
<1> QED
  BY <1>1, <1>5

(* What a sum is, read off its first member.                               *)
LEMMA TotalFirst ==
  ASSUME NEW S, IsFiniteSet(S), NEW f
  PROVE  /\ S = {} => Total(f, S) = 0
         /\ S # {} => Total(f, S) = f[First(S)] + Total(f, S \ {First(S)})
<1> DEFINE sum(s) == CHOOSE g : IsSum(g, f, s)
           R == S \ {First(S)}
<1>1. IsSum(sum(S), f, S)
  BY SumExists
<1>2. Total(f, S) = sum(S)[S] /\ Total(f, R) = sum(R)[R]
  BY DEF Total
<1>3. CASE S = {}
  <2>1. sum(S)[S] = 0
    <3> HIDE DEF sum
    <3> QED
      BY <1>1, <1>3, SumStep
  <2> QED
    BY <1>2, <1>3, <2>1
<1>4. CASE S # {}
  <2>1. R \subseteq S /\ IsFiniteSet(R)
    BY FS_Subset
  <2>2. IsSum(sum(R), f, R)
    <3> HIDE DEF R
    <3> QED
      BY <2>1, SumExists
  <2>3. sum(S)[S] = f[First(S)] + sum(S)[R]
    <3> HIDE DEF sum
    <3> QED
      BY <1>1, <1>4, SumStep
  <2>4. sum(R)[R] = sum(S)[R]
    <3> HIDE DEF sum, R
    <3> QED
      BY <1>1, <2>1, <2>2, SumUnique
  <2> QED
    BY <1>2, <1>4, <2>3, <2>4
<1> QED
  BY <1>3, <1>4

(* Integers add up to an integer.                                          *)
LEMMA TotalIsInt ==
  ASSUME NEW S, IsFiniteSet(S), NEW f, \A x \in S : f[x] \in Int
  PROVE  Total(f, S) \in Int
<1> SUFFICES ASSUME Total(f, S) \notin Int PROVE FALSE
  OBVIOUS
<1> DEFINE T == {s \in SUBSET S : Total(f, s) \notin Int}
<1>1. PICK s \in T : \A r \in T : r \subseteq s => r = s
  <2>1. T \subseteq SUBSET S /\ T # {}
    OBVIOUS
  <2> HIDE DEF T
  <2> QED
    BY <2>1, SmallestSubset
<1>2. s \subseteq S /\ IsFiniteSet(s) /\ Total(f, s) \notin Int
  BY FS_Subset
<1>3. s # {}
  <2>1. s = {} => Total(f, s) = 0
    BY <1>2, TotalFirst
  <2> QED
    BY <1>2, <2>1
<1>4. First(s) \in s
  BY <1>3, FirstIsMember
<1>5. Total(f, s \ {First(s)}) \in Int
  BY <1>1, <1>4
<1>6. Total(f, s) = f[First(s)] + Total(f, s \ {First(s)})
  BY <1>2, <1>3, TotalFirst
<1> QED
  BY <1>2, <1>4, <1>5, <1>6

(* Sums of the same terms are equal.                                       *)
LEMMA TotalSame ==
  ASSUME NEW S, IsFiniteSet(S), NEW f, NEW g, \A x \in S : f[x] = g[x]
  PROVE  Total(f, S) = Total(g, S)
<1> SUFFICES ASSUME Total(f, S) # Total(g, S) PROVE FALSE
  OBVIOUS
<1> DEFINE T == {s \in SUBSET S : Total(f, s) # Total(g, s)}
<1>1. PICK s \in T : \A r \in T : r \subseteq s => r = s
  <2>1. T \subseteq SUBSET S /\ T # {}
    OBVIOUS
  <2> HIDE DEF T
  <2> QED
    BY <2>1, SmallestSubset
<1>2. s \subseteq S /\ IsFiniteSet(s) /\ Total(f, s) # Total(g, s)
  BY FS_Subset
<1>3. s # {}
  BY <1>2, TotalFirst
<1>4. First(s) \in s
  BY <1>3, FirstIsMember
<1>5. Total(f, s \ {First(s)}) = Total(g, s \ {First(s)})
  BY <1>1, <1>4
<1>6. /\ Total(f, s) = f[First(s)] + Total(f, s \ {First(s)})
      /\ Total(g, s) = g[First(s)] + Total(g, s \ {First(s)})
  BY <1>2, <1>3, TotalFirst
<1> QED
  BY <1>2, <1>4, <1>5, <1>6

(* Any member may be taken first.                                          *)
LEMMA TotalWithout ==
  ASSUME NEW S, IsFiniteSet(S), NEW f, \A x \in S : f[x] \in Int
  PROVE  \A x \in S : Total(f, S) = f[x] + Total(f, S \ {x})
<1> DEFINE Any(s) == \A x \in s : Total(f, s) = f[x] + Total(f, s \ {x})
           T == {s \in SUBSET S : ~Any(s)}
<1> SUFFICES ASSUME ~Any(S) PROVE FALSE
  OBVIOUS
<1>1. PICK s \in T : \A r \in T : r \subseteq s => r = s
  <2>1. T \subseteq SUBSET S /\ T # {}
    OBVIOUS
  <2> HIDE DEF T
  <2> QED
    BY <2>1, SmallestSubset
<1>2. s \subseteq S /\ IsFiniteSet(s)
  BY FS_Subset
<1>3. PICK x \in s : Total(f, s) # f[x] + Total(f, s \ {x})
  OBVIOUS
<1> DEFINE p == First(s)
           r == s \ {p}
           q == s \ {x}
           both == s \ {p, x}
<1>4. p \in s
  BY <1>3, FirstIsMember
<1>5. Total(f, s) = f[p] + Total(f, r)
  BY <1>2, <1>3, TotalFirst
<1>6. p # x
  BY <1>3, <1>5
<1>7. r \ {x} = both /\ q \ {p} = both /\ x \in r /\ p \in q
  BY <1>3, <1>4, <1>6
<1>8. Any(r) /\ Any(q)
  BY <1>1, <1>2, <1>3, <1>4
<1>9. f[p] \in Int /\ f[x] \in Int /\ Total(f, both) \in Int
  <2>1. both \subseteq s /\ IsFiniteSet(both)
    BY <1>2, FS_Subset
  <2> HIDE DEF both, p
  <2> QED
    BY <1>2, <1>3, <1>4, <2>1, TotalIsInt
<1>10. Total(f, r) = f[x] + Total(f, both) /\ Total(f, q) = f[p] + Total(f, both)
  BY <1>7, <1>8
<1> HIDE DEF p, r, both
<1> QED
  BY <1>3, <1>5, <1>9, <1>10

(* A new member adds its term.                                             *)
LEMMA TotalAdd ==
  ASSUME NEW S, IsFiniteSet(S), NEW n, n \notin S, NEW f, NEW g,
         \A x \in S : f[x] = g[x], \A x \in S \cup {n} : g[x] \in Int
  PROVE  Total(g, S \cup {n}) = g[n] + Total(f, S)
<1>1. IsFiniteSet(S \cup {n})
  BY FS_AddElement
<1>2. (S \cup {n}) \ {n} = S
  OBVIOUS
<1>3. Total(g, S \cup {n}) = g[n] + Total(g, (S \cup {n}) \ {n})
  BY <1>1, TotalWithout
<1>4. Total(f, S) = Total(g, S)
  BY TotalSame
<1> QED
  BY <1>2, <1>3, <1>4

(* Zeros add up to zero.                                                   *)
LEMMA TotalOfZeros ==
  ASSUME NEW S, IsFiniteSet(S), NEW f, \A x \in S : f[x] = 0
  PROVE  Total(f, S) = 0
<1> SUFFICES ASSUME Total(f, S) # 0 PROVE FALSE
  OBVIOUS
<1> DEFINE T == {s \in SUBSET S : Total(f, s) # 0}
<1>1. PICK s \in T : \A r \in T : r \subseteq s => r = s
  <2>1. T \subseteq SUBSET S /\ T # {}
    OBVIOUS
  <2> HIDE DEF T
  <2> QED
    BY <2>1, SmallestSubset
<1>2. s \subseteq S /\ IsFiniteSet(s) /\ Total(f, s) # 0
  BY FS_Subset
<1>3. s # {}
  BY <1>2, TotalFirst
<1>4. First(s) \in s
  BY <1>3, FirstIsMember
<1>5. Total(f, s \ {First(s)}) = 0
  BY <1>1, <1>4
<1>6. Total(f, s) = f[First(s)] + Total(f, s \ {First(s)})
  BY <1>2, <1>3, TotalFirst
<1> QED
  BY <1>2, <1>4, <1>5, <1>6

(* One term that grows takes the sum with it.                              *)
LEMMA TotalMoved ==
  ASSUME NEW S, IsFiniteSet(S), NEW n \in S, NEW f, NEW g, NEW by \in Int,
         \A x \in S : f[x] \in Int,
         \A x \in S : g[x] = IF x = n THEN f[x] + by ELSE f[x]
  PROVE  Total(g, S) = Total(f, S) + by
<1>1. \A x \in S : g[x] \in Int
  OBVIOUS
<1>2. Total(f, S) = f[n] + Total(f, S \ {n}) /\ Total(g, S) = g[n] + Total(g, S \ {n})
  BY <1>1, TotalWithout
<1>3. IsFiniteSet(S \ {n}) /\ \A x \in S \ {n} : f[x] \in Int /\ g[x] = f[x]
  BY FS_RemoveElement
<1>4. Total(g, S \ {n}) = Total(f, S \ {n}) /\ Total(f, S \ {n}) \in Int
  BY <1>3, TotalSame, TotalIsInt
<1> QED
  BY <1>2, <1>4

-----------------------------------------------------------------------------
(* Reconciliation.                                                         *)

(* The sums of CountersReconcile, each over a set.                         *)
Amounts(S)   == MapThenSumSet(AmountOf, S)
Awards(S)    == MapThenSumSet(AwardOf, S)
Movements(S) == MapThenSumSet(Signed, S)
Tally(e)     == MapThenSumSet(LAMBDA d : e[d], Days)

(* They are the sums the lemmas above speak of.                            *)
LEMMA SumsAreTotals ==
  ASSUME NEW S
  PROVE  /\ Amounts(S) = Total([e \in S |-> AmountOf(e)], S)
         /\ Awards(S) = Total([p \in S |-> AwardOf(p)], S)
         /\ Movements(S) = Total([e \in S |-> Signed(e)], S)
<1>1. Amounts(S) = Total([e \in S |-> AmountOf(e)], S)
  BY Zenon DEF Amounts, Total, IsSum, First, MapThenSumSet, MapThenFoldSet
<1>2. Awards(S) = Total([p \in S |-> AwardOf(p)], S)
  BY Zenon DEF Awards, Total, IsSum, First, MapThenSumSet, MapThenFoldSet
<1>3. Movements(S) = Total([e \in S |-> Signed(e)], S)
  BY Zenon DEF Movements, Total, IsSum, First, MapThenSumSet, MapThenFoldSet
<1> QED
  BY <1>1, <1>2, <1>3

(* So is the tally of a user's days.                                       *)
LEMMA TallyIsTotal == ASSUME NEW e PROVE Tally(e) = Total(e, Days)
  BY Zenon DEF Tally, Total, IsSum, First, MapThenSumSet, MapThenFoldSet

(* A row added to a set of rows adds its amount, award or movement.        *)
LEMMA AmountsAdd ==
  ASSUME NEW S, IsFiniteSet(S), NEW n, n \notin S,
         \A e \in S \cup {n} : AmountOf(e) \in Int
  PROVE  Amounts(S \cup {n}) = Amounts(S) + AmountOf(n) /\ Amounts(S) \in Int
<1> DEFINE f == [e \in S |-> AmountOf(e)]
           g == [e \in S \cup {n} |-> AmountOf(e)]
<1>1. /\ \A e \in S : f[e] = g[e] /\ f[e] \in Int
      /\ \A e \in S \cup {n} : g[e] \in Int
      /\ g[n] = AmountOf(n)
  OBVIOUS
<1>2. Amounts(S) = Total(f, S) /\ Amounts(S \cup {n}) = Total(g, S \cup {n})
  BY SumsAreTotals
<1> HIDE DEF f, g
<1>3. Total(g, S \cup {n}) = g[n] + Total(f, S) /\ Total(f, S) \in Int
  BY <1>1, TotalAdd, TotalIsInt
<1> QED
  BY <1>1, <1>2, <1>3

(* The same of awards.                                                     *)
LEMMA AwardsAdd ==
  ASSUME NEW S, IsFiniteSet(S), NEW n, n \notin S,
         \A e \in S \cup {n} : AwardOf(e) \in Int
  PROVE  Awards(S \cup {n}) = Awards(S) + AwardOf(n) /\ Awards(S) \in Int
<1> DEFINE f == [e \in S |-> AwardOf(e)]
           g == [e \in S \cup {n} |-> AwardOf(e)]
<1>1. /\ \A e \in S : f[e] = g[e] /\ f[e] \in Int
      /\ \A e \in S \cup {n} : g[e] \in Int
      /\ g[n] = AwardOf(n)
  OBVIOUS
<1>2. Awards(S) = Total(f, S) /\ Awards(S \cup {n}) = Total(g, S \cup {n})
  BY SumsAreTotals
<1> HIDE DEF f, g
<1>3. Total(g, S \cup {n}) = g[n] + Total(f, S) /\ Total(f, S) \in Int
  BY <1>1, TotalAdd, TotalIsInt
<1> QED
  BY <1>1, <1>2, <1>3

(* The same of movements.                                                  *)
LEMMA MovementsAdd ==
  ASSUME NEW S, IsFiniteSet(S), NEW n, n \notin S,
         \A e \in S \cup {n} : Signed(e) \in Int
  PROVE  Movements(S \cup {n}) = Movements(S) + Signed(n) /\ Movements(S) \in Int
<1> DEFINE f == [e \in S |-> Signed(e)]
           g == [e \in S \cup {n} |-> Signed(e)]
<1>1. /\ \A e \in S : f[e] = g[e] /\ f[e] \in Int
      /\ \A e \in S \cup {n} : g[e] \in Int
      /\ g[n] = Signed(n)
  OBVIOUS
<1>2. Movements(S) = Total(f, S) /\ Movements(S \cup {n}) = Total(g, S \cup {n})
  BY SumsAreTotals
<1> HIDE DEF f, g
<1>3. Total(g, S \cup {n}) = g[n] + Total(f, S) /\ Total(f, S) \in Int
  BY <1>1, TotalAdd, TotalIsInt
<1> QED
  BY <1>1, <1>2, <1>3

(* No rows, no sum.                                                        *)
LEMMA NothingAdded == Amounts({}) = 0 /\ Awards({}) = 0 /\ Movements({}) = 0
  BY SumsAreTotals, TotalFirst, FS_EmptySet

PaymentsOf(u) == {p \in payments : p.user = u}

(* CountersReconcile with its sums named.                                  *)
Reconciled ==
  /\ TotalBudget - remaining = Amounts(Earns(ledger))
  /\ \A u \in Users :
       /\ Tally(earned[u]) = Amounts(Earns(LedgerOf(u)))
       /\ Awards(PaymentsOf(u)) = Amounts(Earns(LedgerOf(u)))
       /\ Movements(LedgerOf(u)) = balance[u]

(* It says the same.                                                       *)
LEMMA ReconciledIsThat == Reconciled => CountersReconcile
  BY Zenon DEF Reconciled, CountersReconcile, Amounts, Awards, Movements, Tally,
               PaymentsOf

(* Sums are of finitely many rows: what makes the reconciliation inductive.*)
TablesFinite == IsFiniteSet(payments) /\ IsFiniteSet(ledger) /\ IsFiniteSet(redemptions)

ReconcileInv == TablesOK /\ TablesFinite /\ Reconciled

(* Each operation adds at most one row to each table.                      *)
LEMMA FiniteStep == TablesFinite /\ [CampaignNext]_tables => TablesFinite'
<1> SUFFICES ASSUME TablesFinite, [CampaignNext]_tables PROVE TablesFinite'
  OBVIOUS
<1>1. CASE UNCHANGED tables
  BY <1>1 DEF TablesFinite, tables
<1>2. ASSUME NEW u \in Users, NEW k \in Keys, NEW a \in PayAmounts,
             NEW d \in Days, Pay(u, k, a, d)
      PROVE  TablesFinite'
  <2>1. PICK p : payments' = payments \cup {p}
    BY <1>2, PaidRow
  <2>2. CASE UNCHANGED ledger
    BY <1>2, <2>1, <2>2, FS_AddElement DEF Pay, TablesFinite
  <2>3. CASE PostEntry(u, "EARN", AwardFor(u, a, d), balance[u] + AwardFor(u, a, d), k)
    <3>1. PICK n : ledger' = ledger \cup {n}
      BY <2>3, PostedEntry
    <3> QED
      BY <1>2, <2>1, <3>1, FS_AddElement DEF Pay, TablesFinite
  <2> QED
    BY <1>2, <2>2, <2>3 DEF Pay
<1>3. ASSUME NEW u \in Users, NEW k \in Keys, NEW a \in RedeemAmounts,
             RedeemCash(u, k, a)
      PROVE  TablesFinite'
  <2>1. PICK r : redemptions' = redemptions \cup {r}
    BY <1>3, RedeemedRow
  <2>2. PICK n : ledger' = ledger \cup {n}
    BY <1>3, PostedEntry DEF RedeemCash
  <2> QED
    BY <1>3, <2>1, <2>2, FS_AddElement DEF RedeemCash, TablesFinite
<1> QED
  BY <1>1, <1>2, <1>3 DEF CampaignNext

(* The amounts to be added up are integers.                                *)
LEMMA RowsAddUp ==
  ASSUME TablesOK
  PROVE  /\ \A e \in ledger : AmountOf(e) \in Int /\ Signed(e) \in Int
         /\ \A p \in payments : AwardOf(p) \in Int
  BY DEF TablesOK, LedgerEntry, Payment, AmountOf, Signed, AwardOf

(* What one more entry adds to the awards and the movements of entries.    *)
LEMMA EntryAdds ==
  ASSUME TablesOK, TablesFinite, NEW S \in SUBSET ledger, NEW n, n \notin ledger,
         AmountOf(n) \in Int, Signed(n) \in Int
  PROVE  /\ Amounts(Earns(S \cup {n})) =
              IF n.entry_type = "EARN" THEN Amounts(Earns(S)) + n.amount
                                       ELSE Amounts(Earns(S))
         /\ Movements(S \cup {n}) = Movements(S) + Signed(n)
<1>1. IsFiniteSet(S) /\ Earns(S) \subseteq S /\ IsFiniteSet(Earns(S))
  BY FS_Subset DEF TablesFinite, Earns
<1>2. \A e \in S \cup {n} : AmountOf(e) \in Int /\ Signed(e) \in Int
  BY RowsAddUp
<1>3. n \notin S /\ n \notin Earns(S)
  BY <1>1
<1>4. Amounts(Earns(S) \cup {n}) = Amounts(Earns(S)) + AmountOf(n)
  BY <1>1, <1>2, <1>3, AmountsAdd
<1>5. Movements(S \cup {n}) = Movements(S) + Signed(n)
  BY <1>1, <1>2, <1>3, MovementsAdd
<1>6. CASE n.entry_type = "EARN"
  <2>1. Earns(S \cup {n}) = Earns(S) \cup {n}
    BY <1>6 DEF Earns
  <2> QED
    BY <1>4, <1>5, <1>6, <2>1 DEF AmountOf
<1>7. CASE n.entry_type # "EARN"
  <2>1. Earns(S \cup {n}) = Earns(S)
    BY <1>7 DEF Earns
  <2> QED
    BY <1>5, <1>7, <2>1
<1> QED
  BY <1>6, <1>7

(* A payment moves budget, tally, award and balance by the same amount, a  *)
(* redemption the balance by its own.                                      *)
LEMMA ReconciledStep ==
  ReconcileInv /\ [CampaignNext]_tables => Reconciled'
<1> SUFFICES ASSUME ReconcileInv, [CampaignNext]_tables PROVE Reconciled'
  OBVIOUS
<1> USE DEF ReconcileInv
<1>1. CASE UNCHANGED tables
  BY <1>1 DEF Reconciled, PaymentsOf, LedgerOf, Earns, tables
<1>2. TablesOK' /\ TablesFinite'
  BY TablesStep, FiniteStep
<1>3. \A u \in Users : LedgerOf(u) \subseteq ledger
  BY DEF LedgerOf
<1> DEFINE
      Moves(n) ==
        /\ Amounts(Earns(ledger)') =
             IF n.entry_type = "EARN" THEN Amounts(Earns(ledger)) + n.amount
                                      ELSE Amounts(Earns(ledger))
        /\ \A v \in Users :
             /\ Amounts(Earns(LedgerOf(v))') =
                  IF v = n.user /\ n.entry_type = "EARN"
                  THEN Amounts(Earns(LedgerOf(v))) + n.amount
                  ELSE Amounts(Earns(LedgerOf(v)))
             /\ Movements(LedgerOf(v)') =
                  IF v = n.user THEN Movements(LedgerOf(v)) + Signed(n)
                                ELSE Movements(LedgerOf(v))
<1>4. ASSUME NEW n, n \notin ledger, ledger' = ledger \cup {n},
             AmountOf(n) \in Int, Signed(n) \in Int
      PROVE  Moves(n)
  <2>1. Earns(ledger)' = Earns(ledger \cup {n})
    BY <1>4 DEF Earns
  <2>2. \A v \in Users :
          /\ LedgerOf(v)' = IF v = n.user THEN LedgerOf(v) \cup {n} ELSE LedgerOf(v)
          /\ Earns(LedgerOf(v))' = IF v = n.user THEN Earns(LedgerOf(v) \cup {n})
                                                 ELSE Earns(LedgerOf(v))
    BY <1>4 DEF LedgerOf, Earns
  <2>3. \A S \in SUBSET ledger :
          /\ Amounts(Earns(S \cup {n})) =
               IF n.entry_type = "EARN" THEN Amounts(Earns(S)) + n.amount
                                        ELSE Amounts(Earns(S))
          /\ Movements(S \cup {n}) = Movements(S) + Signed(n)
    BY <1>4, EntryAdds
  <2> QED
    BY <1>3, <2>1, <2>2, <2>3
<1> HIDE DEF Moves
<1>5. \A u \in Users : PaymentsOf(u) \subseteq payments /\ IsFiniteSet(PaymentsOf(u))
  BY FS_Subset DEF PaymentsOf, TablesFinite
<1>6. \A q \in payments : AwardOf(q) \in Int
  BY RowsAddUp
<1>7. ASSUME NEW u \in Users, NEW k \in Keys, NEW a \in PayAmounts,
             NEW d \in Days, Pay(u, k, a, d)
      PROVE  Reconciled'
  <2> DEFINE award == AwardFor(u, a, d)
  <2>1. PICK p : /\ payments' = payments \cup {p}
                 /\ p.user = u /\ p.key = k /\ p.cashback_awarded = award
    BY <1>7, PaidRow
  <2>2. p \notin payments
    BY <1>7, <2>1 DEF Pay, PaymentRows
  <2>3. /\ award \in Nat /\ award <= remaining /\ remaining \in Nat
        /\ balance[u] \in Nat /\ earned[u][d] \in Nat
    BY AwardIsNat DEF TablesOK
  <2>4. /\ earned' = [earned EXCEPT ![u][d] = @ + award]
        /\ remaining' = remaining - award
        /\ balance' = [balance EXCEPT ![u] = @ + award]
    BY <1>7 DEF Pay
  <2>5. AwardOf(p) = award
    BY <2>1 DEF AwardOf
  <2> HIDE DEF award
  <2>6. ASSUME NEW v \in Users
        PROVE  Tally(earned'[v]) = IF v = u THEN Tally(earned[v]) + award ELSE Tally(earned[v])
    <3>1. CASE v = u
      <4> DEFINE f == earned[u]
                 g == earned'[u]
      <4>1. /\ \A x \in Days : f[x] \in Int
            /\ \A x \in Days : g[x] = IF x = d THEN f[x] + award ELSE f[x]
        BY <2>3, <2>4 DEF TablesOK
      <4> HIDE DEF f, g
      <4>2. Total(g, Days) = Total(f, Days) + award
        BY <2>3, <4>1, DaysAssumption, TotalMoved
      <4> USE DEF f, g
      <4> QED
        BY <3>1, <4>2, TallyIsTotal
    <3>2. CASE v # u
      BY <2>4, <3>2 DEF TablesOK
    <3> QED
      BY <3>1, <3>2
  <2>7. ASSUME NEW v \in Users
        PROVE  /\ Awards(PaymentsOf(v)') =
                    IF v = u THEN Awards(PaymentsOf(v)) + award
                             ELSE Awards(PaymentsOf(v))
               /\ v = u => Awards(PaymentsOf(v)) \in Int
    <3>1. CASE v = u
      <4>1. PaymentsOf(u)' = PaymentsOf(u) \cup {p} /\ p \notin PaymentsOf(u)
        BY <2>1, <2>2 DEF PaymentsOf
      <4>2. \A q \in PaymentsOf(u) \cup {p} : AwardOf(q) \in Int
        BY <1>5, <1>6, <2>3, <2>5
      <4>3. IsFiniteSet(PaymentsOf(u))
        BY <1>5
      <4>4. /\ Awards(PaymentsOf(u) \cup {p}) = Awards(PaymentsOf(u)) + AwardOf(p)
            /\ Awards(PaymentsOf(u)) \in Int
        BY <4>1, <4>2, <4>3, AwardsAdd
      <4> QED
        BY <2>5, <3>1, <4>1, <4>4
    <3>2. CASE v # u
      BY <2>1, <3>2 DEF PaymentsOf
    <3> QED
      BY <3>1, <3>2
  <2>8. TotalBudget - remaining' = (TotalBudget - remaining) + award
    BY <2>3, <2>4, BudgetAssumption
  <2>9. \A v \in Users : balance'[v] = IF v = u THEN balance[v] + award ELSE balance[v]
    BY <2>4 DEF TablesOK
  <2>10. CASE award = 0 /\ UNCHANGED ledger
    <3>1. /\ Earns(ledger)' = Earns(ledger)
          /\ \A v \in Users : LedgerOf(v)' = LedgerOf(v) /\ Earns(LedgerOf(v))' = Earns(LedgerOf(v))
      BY <2>10 DEF Earns, LedgerOf
    <3>2. remaining' = remaining /\ balance' = balance
      BY <2>3, <2>4, <2>10 DEF TablesOK
    <3>3. \A v \in Users : Awards(PaymentsOf(v)') = Awards(PaymentsOf(v))
      BY <2>7, <2>10
    <3>4. \A v \in Users : earned'[v] = earned[v]
      BY <2>3, <2>4, <2>10 DEF TablesOK
    <3> QED
      BY <3>1, <3>2, <3>3, <3>4 DEF Reconciled
  <2>11. CASE PostEntry(u, "EARN", award, balance[u] + award, k)
    <3>1. PICK n : /\ ledger' = ledger \cup {n}
                   /\ n.user = u /\ n.entry_type = "EARN" /\ n.amount = award
                   /\ \A e \in ledger : e.id # n.id
      BY <2>11, PostedEntry
    <3>2. n \notin ledger /\ AmountOf(n) \in Int /\ Signed(n) = award /\ award \in Int
      BY <2>3, <3>1 DEF AmountOf, Signed
    <3>3. /\ Amounts(Earns(ledger)') = Amounts(Earns(ledger)) + award
          /\ \A v \in Users :
               /\ Amounts(Earns(LedgerOf(v))') =
                    IF v = u THEN Amounts(Earns(LedgerOf(v))) + award
                             ELSE Amounts(Earns(LedgerOf(v)))
               /\ Movements(LedgerOf(v)') =
                    IF v = u THEN Movements(LedgerOf(v)) + award
                             ELSE Movements(LedgerOf(v))
      <4>1. Moves(n)
        BY <1>4, <3>1, <3>2
      <4> QED
        BY <3>1, <3>2, <4>1 DEF Moves
    <3> QED
      BY <2>6, <2>7, <2>8, <2>9, <3>3 DEF Reconciled
  <2> QED
    BY <1>7, <2>10, <2>11 DEF Pay, award
<1>8. ASSUME NEW u \in Users, NEW k \in Keys, NEW a \in RedeemAmounts,
             RedeemCash(u, k, a)
      PROVE  Reconciled'
  <2>1. a \in Int /\ balance[u] \in Nat
    BY AmountAssumption, WidthAssumption DEF TablesOK
  <2>2. PICK n : /\ ledger' = ledger \cup {n}
                 /\ n.user = u /\ n.entry_type = "REDEEM" /\ n.amount = a
                 /\ \A e \in ledger : e.id # n.id
    BY <1>8, PostedEntry DEF RedeemCash
  <2>3. n \notin ledger /\ AmountOf(n) \in Int /\ Signed(n) = -a /\ -a \in Int
    BY <2>1, <2>2 DEF AmountOf, Signed
  <2>4. /\ Amounts(Earns(ledger)') = Amounts(Earns(ledger))
        /\ \A v \in Users :
             /\ Amounts(Earns(LedgerOf(v))') = Amounts(Earns(LedgerOf(v)))
             /\ Movements(LedgerOf(v)') =
                  IF v = u THEN Movements(LedgerOf(v)) + (-a) ELSE Movements(LedgerOf(v))
    <3>1. Moves(n)
      BY <1>4, <2>2, <2>3
    <3> QED
      BY <2>2, <2>3, <3>1 DEF Moves
  <2>5. \A v \in Users : balance'[v] = IF v = u THEN balance[v] + (-a) ELSE balance[v]
    BY <1>8, <2>1 DEF RedeemCash, TablesOK
  <2>6. /\ remaining' = remaining /\ earned' = earned
        /\ \A v \in Users : PaymentsOf(v)' = PaymentsOf(v)
    BY <1>8 DEF RedeemCash, PaymentsOf
  <2> QED
    BY <2>4, <2>5, <2>6 DEF Reconciled
<1> QED
  BY <1>1, <1>7, <1>8 DEF CampaignNext

(* Nothing spent, nothing earned.                                          *)
LEMMA ReconcileInit == CampaignInit => ReconcileInv
<1> SUFFICES ASSUME CampaignInit PROVE ReconcileInv
  OBVIOUS
<1>1. TablesOK /\ TablesFinite
  BY TablesInit, FS_EmptySet DEF CampaignInit, TablesFinite
<1>2. /\ Earns(ledger) = {}
      /\ \A u \in Users : LedgerOf(u) = {} /\ Earns(LedgerOf(u)) = {} /\ PaymentsOf(u) = {}
  BY DEF CampaignInit, Earns, LedgerOf, PaymentsOf
<1>3. \A u \in Users : Tally(earned[u]) = 0
  BY TallyIsTotal, TotalOfZeros, DaysAssumption DEF CampaignInit
<1>4. remaining = TotalBudget /\ \A u \in Users : balance[u] = 0
  BY DEF CampaignInit
<1>5. Reconciled
  BY <1>2, <1>3, <1>4, NothingAdded, BudgetAssumption DEF Reconciled
<1> QED
  BY <1>1, <1>5 DEF ReconcileInv

(* One step of the campaign keeps the books balanced.                      *)
LEMMA ReconcileStep == ReconcileInv /\ [CampaignNext]_tables => ReconcileInv'
  BY TablesStep, FiniteStep, ReconciledStep DEF ReconcileInv

(* Budget spent, daily tallies, awards on payments and balances are always *)
(* the same sums over the ledger, however many rows there are.             *)
THEOREM CampaignReconciles == CampaignSpec => []CountersReconcile
<1>1. ReconcileInv => CountersReconcile
  BY ReconciledIsThat DEF ReconcileInv
<1> QED
  BY <1>1, ReconcileInit, ReconcileStep, PTL DEF CampaignSpec
=============================================================================
