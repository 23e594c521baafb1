------------------------------ MODULE Campaign ------------------------------
(***************************************************************************)
(* What the store promises: the committed contents of the six tables of    *)
(* migrations/0001_init.sql, changed by two indivisible operations, one    *)
(* payment with its award and one redemption.  Module Store shows that the *)
(* statement-by-statement transactions of repo.go implement this module.   *)
(*                                                                         *)
(* payments, redemptions and cashback_ledger are sets of rows, so the      *)
(* UNIQUE constraints are properties to check and not facts of the model.  *)
(* A missing user_balance or user_daily_cashback row reads as zero in the  *)
(* code (COALESCE, the guarded UPDATE, the DEFAULT) and is a zero here.    *)
(***************************************************************************)
EXTENDS Cashback, FiniteSets, FiniteSetsExt

CONSTANTS
  Users,
  Keys,           \* idempotency keys, chosen by clients
  PayAmounts,     \* payment amounts clients send
  RedeemAmounts,  \* redemption amounts clients send
  Days,           \* Jakarta calendar dates of the campaign
  TotalBudget,    \* campaign_budget.total_budget
  LedgerIds       \* values of the BIGSERIAL cashback_ledger.id

ASSUME AmountAssumption ==
  /\ PayAmounts \subseteq (1 .. MaxInt)
  /\ RedeemAmounts \subseteq (1 .. MaxInt)

ASSUME BudgetAssumption == TotalBudget \in Nat

ASSUME LedgerIdAssumption == LedgerIds \subseteq Nat

(* A DATE column has finitely many values.                                 *)
ASSUME DaysAssumption == IsFiniteSet(Days)

VARIABLES
  payments,     \* rows of payments
  redemptions,  \* rows of redemptions
  ledger,       \* rows of cashback_ledger
  earned,       \* user_daily_cashback.earned, per user and day
  remaining,    \* campaign_budget.remaining
  balance       \* user_balance.balance, per user

tables == <<payments, redemptions, ledger, earned, remaining, balance>>

Payment ==
  [user: Users, key: Keys, amount: PayAmounts,
   cashback_awarded: Nat, status: FinalStatus]

Redemption ==
  [user: Users, key: Keys, amount: RedeemAmounts, balance_after: Nat]

(* source_type and source_id name the payment or redemption row: that row  *)
(* is identified by its user and key, and entry_type determines its table. *)
LedgerEntry ==
  [id: LedgerIds, user: Users, entry_type: {"EARN", "REDEEM"},
   amount: Nat \ {0}, balance_after: Nat, key: Keys]

(* The type of the tables: only finished rows, counters never negative.    *)
TablesOK ==
  /\ payments \subseteq Payment
  /\ redemptions \subseteq Redemption
  /\ ledger \subseteq LedgerEntry
  /\ earned \in [Users -> [Days -> Nat]]
  /\ remaining \in Nat
  /\ balance \in [Users -> Nat]

PaymentRows(u, k)    == {p \in payments : p.user = u /\ p.key = k}
RedemptionRows(u, k) == {r \in redemptions : r.user = u /\ r.key = k}
LedgerOf(u)          == {e \in ledger : e.user = u}

CampaignInit ==
  /\ payments = {}
  /\ redemptions = {}
  /\ ledger = {}
  /\ earned = [u \in Users |-> [d \in Days |-> 0]]
  /\ remaining = TotalBudget
  /\ balance = [u \in Users |-> 0]

(* The award a payment gets when it is processed alone, and its status.    *)
AwardFor(u, a, d) ==
  AwardableCashback(GrossCashback(a), DailyRemaining(earned[u][d]), remaining)

StatusFor(u, a, d) ==
  IF GrossCashback(a) = 0
  THEN StatusNoCashback
  ELSE EarnStatus(a, GrossCashback(a), AwardFor(u, a, d),
                  DailyRemaining(earned[u][d]), remaining)

(* Append an entry under a new id that follows every id of the same user:  *)
(* ids of different users need not be in commit order.                     *)
PostEntry(u, type, a, after, k) ==
  \E id \in LedgerIds :
    /\ \A e \in ledger : e.id # id
    /\ \A e \in LedgerOf(u) : e.id < id
    /\ ledger' = ledger \cup
         {[id |-> id, user |-> u, entry_type |-> type, amount |-> a,
           balance_after |-> after, key |-> k]}

(* A first payment under key k: recorded once, with the largest award that *)
(* fits, every counter moved by that award.                                *)
Pay(u, k, a, d) ==
  LET award == AwardFor(u, a, d)
  IN  /\ PaymentRows(u, k) = {}
      /\ payments' = payments \cup
           {[user |-> u, key |-> k, amount |-> a,
             cashback_awarded |-> award, status |-> StatusFor(u, a, d)]}
      /\ earned' = [earned EXCEPT ![u][d] = @ + award]
      /\ remaining' = remaining - award
      /\ balance' = [balance EXCEPT ![u] = @ + award]
      /\ \/ award = 0 /\ UNCHANGED ledger
         \/ award > 0 /\ PostEntry(u, "EARN", award, balance[u] + award, k)
      /\ UNCHANGED redemptions

(* A first redemption under key k that the balance covers.                 *)
RedeemCash(u, k, a) ==
  /\ RedemptionRows(u, k) = {}
  /\ balance[u] >= a
  /\ redemptions' = redemptions \cup
       {[user |-> u, key |-> k, amount |-> a, balance_after |-> balance[u] - a]}
  /\ balance' = [balance EXCEPT ![u] = @ - a]
  /\ PostEntry(u, "REDEEM", a, balance[u] - a, k)
  /\ UNCHANGED <<payments, earned, remaining>>

CampaignNext ==
  \E u \in Users, k \in Keys :
    \/ \E a \in PayAmounts, d \in Days : Pay(u, k, a, d)
    \/ \E a \in RedeemAmounts : RedeemCash(u, k, a)

(* Ids one after the other: for the modules above the store, which only see*)
(* the order of a user's entries.                                          *)
Dense == \A e \in ledger' : e.id <= Cardinality(ledger')

CampaignSpec == CampaignInit /\ [][CampaignNext]_tables

-----------------------------------------------------------------------------
(* Properties of the committed tables.                                     *)

(* No user ever earns more than the daily cap on one Jakarta day, however  *)
(* that user's payments interleave (repo.go: the daily row locked before   *)
(* it is read).                                                            *)
DailyCapHeld ==
  \A u \in Users, d \in Days : earned[u][d] <= DailyCapPerUser

(* A payment or redemption is processed once per (user, key), each source  *)
(* has at most one ledger entry, and ids are unique: the UNIQUE and PRIMARY*)
(* KEY constraints, which no statement of the code may run into.           *)
OncePerKey ==
  /\ \A u \in Users, k \in Keys :
       /\ \A p, q \in PaymentRows(u, k) : p = q
       /\ \A r, s \in RedemptionRows(u, k) : r = s
  /\ \A e, f \in ledger :
       \/ e.id = f.id
       \/ e.entry_type = f.entry_type /\ e.user = f.user /\ e.key = f.key
       => e = f

(* The ledger and its sources agree: a payment has an EARN entry exactly   *)
(* when it was awarded something, for that amount; a redemption has a      *)
(* REDEEM entry with its amount and its balance_after; no entry lacks its  *)
(* source.                                                                 *)
LedgerMatchesSources ==
  /\ \A p \in payments :
       p.cashback_awarded > 0 =>
         \E e \in LedgerOf(p.user) :
           e.entry_type = "EARN" /\ e.key = p.key /\ e.amount = p.cashback_awarded
  /\ \A r \in redemptions :
       \E e \in LedgerOf(r.user) :
         /\ e.entry_type = "REDEEM" /\ e.key = r.key
         /\ e.amount = r.amount /\ e.balance_after = r.balance_after
  /\ \A e \in ledger :
       \/ /\ e.entry_type = "EARN"
          /\ \E p \in PaymentRows(e.user, e.key) : p.cashback_awarded = e.amount
       \/ /\ e.entry_type = "REDEEM"
          /\ \E r \in RedemptionRows(e.user, e.key) : r.amount = e.amount

Signed(e) == IF e.entry_type = "EARN" THEN e.amount ELSE -e.amount

(* f is the entry just before e in the history of their user.              *)
Precedes(f, e) ==
  /\ f.user = e.user
  /\ f.id < e.id
  /\ \A g \in LedgerOf(e.user) : ~(f.id < g.id /\ g.id < e.id)

(* The history of a user, in the id order GET /cashback/history shows it,  *)
(* is a running balance: it starts from zero, each balance_after is the    *)
(* previous one moved by the entry's amount, and the last one is the       *)
(* materialised balance.  This is sum(ledger) = balance, entry by entry.   *)
RunningBalance ==
  /\ \A e \in ledger :
       (\A f \in LedgerOf(e.user) : e.id <= f.id) => e.balance_after = Signed(e)
  /\ \A e, f \in ledger :
       Precedes(f, e) => e.balance_after = f.balance_after + Signed(e)
  /\ \A u \in Users : LedgerOf(u) = {} => balance[u] = 0
  /\ \A e \in ledger :
       (\A f \in LedgerOf(e.user) : f.id <= e.id)
         => e.balance_after = balance[e.user]

AmountOf(e) == e.amount
AwardOf(p)  == p.cashback_awarded
Earns(S)    == {e \in S : e.entry_type = "EARN"}

(* Reconciliation: the budget spent, the daily tallies, the awards on the  *)
(* payments and the balances are all the same sums over the ledger.        *)
CountersReconcile ==
  LET total(S) == MapThenSumSet(AmountOf, S)
  IN  /\ TotalBudget - remaining = total(Earns(ledger))
      /\ \A u \in Users :
           LET paid == {p \in payments : p.user = u}
           IN  /\ MapThenSumSet(LAMBDA d : earned[u][d], Days)
                    = total(Earns(LedgerOf(u)))
               /\ MapThenSumSet(AwardOf, paid) = total(Earns(LedgerOf(u)))
               /\ MapThenSumSet(Signed, LedgerOf(u)) = balance[u]

(* A short award is never a mistake of order: whoever got less than the    *)
(* rate left the binding limit used up, so the budget lands exactly on its *)
(* total and the cap exactly on its value.                                 *)
ShortAwardUsesUpLimit ==
  \A p \in payments :
    /\ p.status \in {StatusPartialBudget, StatusBudgetExhausted} => remaining = 0
    /\ p.status \in {StatusPartialDailyCap, StatusDailyCapReached} =>
         \E d \in Days : earned[p.user][d] = DailyCapPerUser

(* The tables only grow: a committed row is never changed or removed, and  *)
(* spent budget never comes back.                                          *)
RowsAreFinal ==
  [][/\ payments \subseteq payments'
     /\ redemptions \subseteq redemptions'
     /\ ledger \subseteq ledger'
     /\ remaining' <= remaining]_tables
=============================================================================
