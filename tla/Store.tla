-------------------------------- MODULE Store --------------------------------
(***************************************************************************)
(* internal/store/repo.go: ProcessPayment and Redeem as the sequences of   *)
(* SQL statements they are, run by concurrent server goroutines on         *)
(* Postgres at READ COMMITTED.                                             *)
(*                                                                         *)
(* The tables of Campaign are the committed rows.  A running transaction   *)
(* keeps what it read and the row versions it wrote in loc[w], invisible   *)
(* to the others, and owns the row locks held[w] until it commits or rolls *)
(* back.  A statement reads the rows committed when it runs; one that      *)
(* writes or locks a row waits while another transaction holds it.         *)
(* Inserting under a UNIQUE key holds that key.  BIGSERIAL ids come from a *)
(* sequence no rollback rewinds.                                           *)
(*                                                                         *)
(* Consecutive statements are one action when at most the last of them can *)
(* wait or see another transaction.                                        *)
(***************************************************************************)
EXTENDS Campaign

CONSTANTS
  Workers,      \* goroutines serving write requests
  MaxConns,     \* connections in the pool (db.go)
  MaxNow,       \* bound: the clock stops here
  MaxFailures,  \* bound: failed statements, lost answers and crashes
  NoRequest     \* a worker without a request

ASSUME StoreAssumption ==
  /\ MaxConns \in Nat \ {0}
  /\ MaxNow \in Nat
  /\ MaxFailures \in Nat
  /\ \A t \in 0 .. MaxNow : JakartaDay(t) \in Days

VARIABLES
  nextLedgerId,  \* the sequence behind cashback_ledger.id
  now,           \* the UTC clock the use cases read
  failures,      \* failures so far
  pc,            \* the next statement of each worker
  req,           \* the request each worker serves
  loc,           \* what its transaction has read and written
  held           \* the row locks its transaction owns

control == <<pc, req, loc, held>>
vars == <<tables, nextLedgerId, now, failures, control>>

PayRequest ==
  [op: {"pay"}, user: Users, key: Keys, amount: PayAmounts, day: Days]

RedeemRequest ==
  [op: {"redeem"}, user: Users, key: Keys, amount: RedeemAmounts]

(* dailyRemaining is a local variable of ProcessPayment; earned, remaining *)
(* and balance are uncommitted row versions; the rest is EarnResult and    *)
(* RedeemResult, with outcome for the error.                               *)
Local ==
  [amount: Nat, award: Nat, status: FinalStatus \cup {"pending"},
   dailyRemaining: Nat, earned: Nat, remaining: Int, balance: Int,
   ledgerId: Nat, replayed: BOOLEAN,
   outcome: {"none", "ok", "insufficient", "error"}]

NewLocal ==
  [amount |-> 0, award |-> 0, status |-> "pending",
   dailyRemaining |-> 0, earned |-> 0, remaining |-> 0, balance |-> 0,
   ledgerId |-> 0, replayed |-> FALSE, outcome |-> "none"]

(* Lockable rows.  A key is locked in the table its request inserts into.  *)
Key(q)      == <<q.op, q.user, q.key>>
Daily(u, d) == <<"daily", u, d>>
Budget      == <<"budget">>
Bal(u)      == <<"balance", u>>

Rows ==
  {<<op, u, k>> : op \in {"pay", "redeem"}, u \in Users, k \in Keys}
    \cup {Daily(u, d) : u \in Users, d \in Days}
    \cup {Budget} \cup {Bal(u) : u \in Users}

InTx ==
  {"insert", "load", "daily", "budget", "apply", "readBalance", "debit",
   "ledger", "commit"}

PCs == InTx \cup {"idle", "begin", "done"}

TypeOK ==
  /\ TablesOK
  /\ nextLedgerId \in Nat
  /\ now \in 0 .. MaxNow
  /\ failures \in 0 .. MaxFailures
  /\ pc \in [Workers -> PCs]
  /\ req \in [Workers -> PayRequest \cup RedeemRequest \cup {NoRequest}]
  /\ loc \in [Workers -> Local]
  /\ held \in [Workers -> SUBSET Rows]

Init ==
  /\ CampaignInit
  /\ nextLedgerId = 1
  /\ now = 0
  /\ failures = 0
  /\ pc = [w \in Workers |-> "idle"]
  /\ req = [w \in Workers |-> NoRequest]
  /\ loc = [w \in Workers |-> NewLocal]
  /\ held = [w \in Workers |-> {}]

-----------------------------------------------------------------------------
(* Rows, connections and the end of a transaction.                         *)

CanLock(w, r) == \A v \in Workers \ {w} : r \notin held[v]

Lock(w, rows) == held' = [held EXCEPT ![w] = @ \cup rows]

Goto(w, label) == pc' = [pc EXCEPT ![w] = label]

Set(w, l) == loc' = [loc EXCEPT ![w] = l]

(* Commit and Rollback both drop every lock; the goroutine is left with an *)
(* answer for its client.                                                  *)
Answer(w, l) ==
  /\ Goto(w, "done")
  /\ Set(w, l)
  /\ held' = [held EXCEPT ![w] = {}]
  /\ UNCHANGED req

(* A statement that ends neither the transaction nor the request.          *)
Within(w, from, op) ==
  /\ pc[w] = from
  /\ req[w].op = op
  /\ UNCHANGED <<tables, now, failures, req>>

(* The worker takes up a request; a payment's day is fixed here, from the  *)
(* clock the use case reads before the transaction begins.                 *)
Receive(w) ==
  /\ pc[w] = "idle"
  /\ Goto(w, "begin")
  /\ \E u \in Users, k \in Keys :
       \/ \E a \in PayAmounts :
            req' = [req EXCEPT ![w] =
              [op |-> "pay", user |-> u, key |-> k, amount |-> a,
               day |-> JakartaDay(now)]]
       \/ \E a \in RedeemAmounts :
            req' = [req EXCEPT ![w] =
              [op |-> "redeem", user |-> u, key |-> k, amount |-> a]]
  /\ UNCHANGED <<tables, nextLedgerId, now, failures, loc, held>>

(* pool.Begin waits for a free connection; the transaction keeps it.       *)
Begin(w) ==
  /\ pc[w] = "begin"
  /\ Cardinality({v \in Workers : pc[v] \in InTx}) < MaxConns
  /\ Goto(w, "insert")
  /\ UNCHANGED <<tables, nextLedgerId, now, failures, req, loc, held>>

-----------------------------------------------------------------------------
(* ProcessPayment.                                                         *)

(* Mutant: SELECT, then INSERT, with no UNIQUE key to wait on.             *)
InsertPaymentUnkeyed(w) ==
  /\ Within(w, "insert", "pay")
  /\ PaymentRows(req[w].user, req[w].key) = {}
  /\ Set(w, [loc[w] EXCEPT !.amount = req[w].amount,
                           !.status = StatusNoCashback])
  /\ Goto(w, IF GrossCashback(req[w].amount) = 0 THEN "readBalance" ELSE "daily")
  /\ UNCHANGED <<nextLedgerId, held>>

(* INSERT INTO payments ... ON CONFLICT DO NOTHING.  A committed row makes *)
(* this a replay; an uncommitted one is waited for.                        *)
InsertPayment(w) ==
  LET q == req[w]
  IN  /\ Within(w, "insert", "pay")
      /\ CanLock(w, Key(q))
      /\ \/ /\ PaymentRows(q.user, q.key) # {}
            /\ Goto(w, "load")
            /\ UNCHANGED <<loc, held>>
         \/ /\ PaymentRows(q.user, q.key) = {}
            /\ Lock(w, {Key(q)})
            /\ IF GrossCashback(q.amount) = 0
               THEN /\ Set(w, [loc[w] EXCEPT !.amount = q.amount,
                                             !.status = StatusNoCashback])
                    /\ Goto(w, "readBalance")
               ELSE /\ Set(w, [loc[w] EXCEPT !.amount = q.amount])
                    /\ Goto(w, "daily")
      /\ UNCHANGED nextLedgerId

(* Mutant: a replay is answered with what it asked for.                    *)
LoadPaymentAsAsked(w) ==
  /\ Within(w, "load", "pay")
  /\ \E p \in PaymentRows(req[w].user, req[w].key) :
       Set(w, [loc[w] EXCEPT !.amount = req[w].amount,
                             !.award = p.cashback_awarded,
                             !.status = p.status,
                             !.replayed = TRUE])
  /\ Goto(w, "commit")
  /\ UNCHANGED <<nextLedgerId, held>>

(* Mutant: ON CONFLICT DO UPDATE SET amount.                               *)
LoadPaymentRewritten(w) ==
  LET q == req[w]
  IN  /\ pc[w] = "load" /\ q.op = "pay"
      /\ payments' = {IF p.user = q.user /\ p.key = q.key
                       THEN [p EXCEPT !.amount = q.amount] ELSE p : p \in payments}
      /\ Set(w, [loc[w] EXCEPT !.replayed = TRUE])
      /\ Goto(w, "commit")
      /\ UNCHANGED <<redemptions, ledger, earned, remaining, balance>>
      /\ UNCHANGED <<nextLedgerId, now, failures, req, held>>

(* loadExistingPayment: the stored outcome, with the balance of today.     *)
LoadPayment(w) ==
  LET q == req[w]
  IN  /\ Within(w, "load", "pay")
      /\ \E p \in PaymentRows(q.user, q.key) :
           Set(w, [loc[w] EXCEPT !.amount = p.amount,
                                 !.award = p.cashback_awarded,
                                 !.status = p.status,
                                 !.balance = balance[q.user],
                                 !.replayed = TRUE])
      /\ Goto(w, "commit")
      /\ UNCHANGED <<nextLedgerId, held>>

(* balanceTx, then finalizePayment with no award: no balance lock is taken.*)
ReadBalance(w) ==
  /\ Within(w, "readBalance", "pay")
  /\ Set(w, [loc[w] EXCEPT !.balance = balance[req[w].user]])
  /\ Goto(w, "commit")
  /\ UNCHANGED <<nextLedgerId, held>>

(* SELECT earned FROM user_daily_cashback, the tally of the request's day. *)
ReadDaily(w) ==
  /\ Within(w, "daily", "pay")
  /\ Set(w, [loc[w] EXCEPT !.dailyRemaining =
               DailyRemaining(earned[req[w].user][req[w].day])])
  /\ Goto(w, "budget")
  /\ UNCHANGED nextLedgerId

(* Mutants: no FOR UPDATE; FOR SHARE; the budget row locked first.         *)
LockDailyPlain(w)       == ReadDaily(w) /\ UNCHANGED held
LockDailyShared(w)      == ReadDaily(w) /\ Lock(w, {Daily(req[w].user, req[w].day)})
LockDailyAfterBudget(w) == ReadDaily(w) /\ CanLock(w, Budget) /\ Lock(w, {Budget})

(* Ensure the user's daily row, then SELECT earned ... FOR UPDATE.         *)
LockDaily(w) ==
  LET r == Daily(req[w].user, req[w].day)
  IN  ReadDaily(w) /\ CanLock(w, r) /\ Lock(w, {r})

(* The decision, from the tally read before and the budget read now.       *)
Decide(w) ==
  LET q     == req[w]
      gross == GrossCashback(q.amount)
      award == AwardableCashback(gross, loc[w].dailyRemaining, remaining)
  IN  /\ Within(w, "budget", "pay")
      /\ Set(w, [loc[w] EXCEPT
                   !.award = award,
                   !.status = EarnStatus(q.amount, gross, award,
                                         loc[w].dailyRemaining, remaining)])
      /\ Goto(w, IF award = 0 THEN "readBalance" ELSE "apply")
      /\ UNCHANGED nextLedgerId

(* Mutant: no FOR UPDATE.                                                  *)
LockBudgetPlain(w) == Decide(w) /\ UNCHANGED held

(* SELECT remaining FROM campaign_budget FOR UPDATE.                       *)
LockBudget(w) == Decide(w) /\ CanLock(w, Budget) /\ Lock(w, {Budget})

(* UPDATE user_daily_cashback, UPDATE campaign_budget, upsert user_balance:*)
(* relative updates, each of which locks its row.                          *)
ApplyAward(w) ==
  LET q    == req[w]
      rows == {Daily(q.user, q.day), Budget, Bal(q.user)}
  IN  /\ Within(w, "apply", "pay")
      /\ \A r \in rows : CanLock(w, r)
      /\ Lock(w, rows)
      /\ Set(w, [loc[w] EXCEPT
                   !.earned = earned[q.user][q.day] + loc[w].award,
                   !.remaining = remaining - loc[w].award,
                   !.balance = balance[q.user] + loc[w].award])
      /\ Goto(w, "ledger")
      /\ UNCHANGED nextLedgerId

-----------------------------------------------------------------------------
(* Redeem.                                                                 *)

InsertRedemption(w) ==
  LET q == req[w]
  IN  /\ Within(w, "insert", "redeem")
      /\ CanLock(w, Key(q))
      /\ \/ /\ RedemptionRows(q.user, q.key) # {}
            /\ Goto(w, "load")
            /\ UNCHANGED <<loc, held>>
         \/ /\ RedemptionRows(q.user, q.key) = {}
            /\ Lock(w, {Key(q)})
            /\ Set(w, [loc[w] EXCEPT !.amount = q.amount])
            /\ Goto(w, "debit")
      /\ UNCHANGED nextLedgerId

LoadRedemption(w) ==
  LET q == req[w]
  IN  /\ Within(w, "load", "redeem")
      /\ \E r \in RedemptionRows(q.user, q.key) :
           Set(w, [loc[w] EXCEPT !.amount = r.amount,
                                 !.balance = r.balance_after,
                                 !.replayed = TRUE])
      /\ Goto(w, "commit")
      /\ UNCHANGED <<nextLedgerId, held>>

(* The debit of user_balance.                                              *)
Subtract(w) ==
  /\ Within(w, "debit", "redeem")
  /\ Set(w, [loc[w] EXCEPT !.balance = balance[req[w].user] - req[w].amount])
  /\ Goto(w, "ledger")
  /\ UNCHANGED nextLedgerId

(* Mutants: no balance >= amount; a balance read, checked and written back *)
(* without its lock; the statement sent to the pool instead of the tx.     *)
DebitUnguarded(w) ==
  Subtract(w) /\ CanLock(w, Bal(req[w].user)) /\ Lock(w, {Bal(req[w].user)})

DebitUnlocked(w) ==
  Subtract(w) /\ balance[req[w].user] >= req[w].amount /\ UNCHANGED held

DebitOutsideTx(w) ==
  LET u == req[w].user
      b == balance[u] - req[w].amount
  IN  /\ pc[w] = "debit"
      /\ b >= 0
      /\ balance' = [balance EXCEPT ![u] = b]
      /\ Set(w, [loc[w] EXCEPT !.balance = b])
      /\ Goto(w, "ledger")
      /\ UNCHANGED <<payments, redemptions, ledger, earned, remaining>>
      /\ UNCHANGED <<nextLedgerId, now, failures, req, held>>

(* UPDATE user_balance ... WHERE balance >= amount, when the row qualifies.*)
Debit(w) ==
  /\ Subtract(w)
  /\ balance[req[w].user] >= req[w].amount
  /\ CanLock(w, Bal(req[w].user))
  /\ Lock(w, {Bal(req[w].user)})

(* Mutants: without the deferred Rollback; committed instead.              *)
RejectRedeemLeaking(w) ==
  /\ pc[w] = "debit"
  /\ balance[req[w].user] < req[w].amount
  /\ Goto(w, "done")
  /\ Set(w, [loc[w] EXCEPT !.outcome = "insufficient"])
  /\ UNCHANGED <<tables, nextLedgerId, now, failures, req, held>>

RejectRedeemCommitted(w) ==
  LET q == req[w]
  IN  /\ pc[w] = "debit"
      /\ balance[q.user] < q.amount
      /\ redemptions' = redemptions \cup
           {[user |-> q.user, key |-> q.key, amount |-> q.amount, balance_after |-> 0]}
      /\ Answer(w, [loc[w] EXCEPT !.outcome = "insufficient"])
      /\ UNCHANGED <<payments, ledger, earned, remaining, balance>>
      /\ UNCHANGED <<nextLedgerId, now, failures>>

(* The same statement when it does not: it skips the row without waiting   *)
(* for its lock, and the transaction rolls back, key and all.              *)
RejectRedeem(w) ==
  /\ pc[w] = "debit"
  /\ balance[req[w].user] < req[w].amount
  /\ Answer(w, [loc[w] EXCEPT !.outcome = "insufficient"])
  /\ UNCHANGED <<tables, nextLedgerId, now, failures>>

-----------------------------------------------------------------------------
(* Both: the ledger entry, finalizePayment or UPDATE redemptions, COMMIT.  *)

InsertLedger(w) ==
  /\ Within(w, "ledger", req[w].op)
  /\ nextLedgerId \in LedgerIds
  /\ Set(w, [loc[w] EXCEPT !.ledgerId = nextLedgerId])
  /\ nextLedgerId' = nextLedgerId + 1
  /\ Goto(w, "commit")
  /\ UNCHANGED held

(* The ledger row a transaction publishes.                                 *)
NewEntry(w, type, amount) ==
  [id |-> loc[w].ledgerId, user |-> req[w].user, entry_type |-> type,
   amount |-> amount, balance_after |-> loc[w].balance, key |-> req[w].key]

(* Mutant: the tally is written to the day it is now.                      *)
PublishPaymentToday(w) ==
  LET q == req[w]
      l == loc[w]
  IN  /\ payments' = payments \cup
           {[user |-> q.user, key |-> q.key, amount |-> q.amount,
             cashback_awarded |-> l.award, status |-> l.status]}
      /\ earned' = [earned EXCEPT ![q.user][JakartaDay(now)] = @ + l.award]
      /\ \/ l.award = 0 /\ UNCHANGED <<ledger, remaining, balance>>
         \/ /\ l.award > 0
            /\ ledger' = ledger \cup {NewEntry(w, "EARN", l.award)}
            /\ remaining' = l.remaining
            /\ balance' = [balance EXCEPT ![q.user] = l.balance]
      /\ UNCHANGED redemptions

(* A transaction with an award also wrote daily tally, budget, balance and *)
(* ledger.                                                                 *)
PublishPayment(w) ==
  LET q == req[w]
      l == loc[w]
  IN  /\ payments' = payments \cup
           {[user |-> q.user, key |-> q.key, amount |-> q.amount,
             cashback_awarded |-> l.award, status |-> l.status]}
      /\ \/ /\ l.award = 0
            /\ UNCHANGED <<ledger, earned, remaining, balance>>
         \/ /\ l.award > 0
            /\ ledger' = ledger \cup {NewEntry(w, "EARN", l.award)}
            /\ earned' = [earned EXCEPT ![q.user][q.day] = l.earned]
            /\ remaining' = l.remaining
            /\ balance' = [balance EXCEPT ![q.user] = l.balance]
      /\ UNCHANGED redemptions

PublishRedemption(w) ==
  LET q == req[w]
      l == loc[w]
  IN  /\ redemptions' = redemptions \cup
           {[user |-> q.user, key |-> q.key, amount |-> q.amount,
             balance_after |-> l.balance]}
      /\ ledger' = ledger \cup {NewEntry(w, "REDEEM", q.amount)}
      /\ balance' = [balance EXCEPT ![q.user] = l.balance]
      /\ UNCHANGED <<payments, earned, remaining>>

(* COMMIT takes effect; its acknowledgement may be lost, and then Commit   *)
(* returns an error for work that is durable.                              *)
Commit(w) ==
  /\ pc[w] = "commit"
  /\ \/ loc[w].replayed /\ UNCHANGED tables
     \/ ~loc[w].replayed /\ req[w].op = "pay" /\ PublishPayment(w)
     \/ ~loc[w].replayed /\ req[w].op = "redeem" /\ PublishRedemption(w)
  /\ \/ Answer(w, [loc[w] EXCEPT !.outcome = "ok"]) /\ UNCHANGED failures
     \/ /\ failures < MaxFailures
        /\ failures' = failures + 1
        /\ Answer(w, [loc[w] EXCEPT !.outcome = "error"])
  /\ UNCHANGED <<nextLedgerId, now>>

-----------------------------------------------------------------------------
(* Failures.                                                               *)

(* Mutant: no deferred Rollback, what was done before the ledger stays.    *)
FailHalfDone(w) ==
  LET q == req[w]
      l == loc[w]
  IN  /\ pc[w] \in InTx \cup {"begin"}
      /\ failures < MaxFailures
      /\ failures' = failures + 1
      /\ Answer(w, [l EXCEPT !.outcome = "error"])
      /\ IF pc[w] = "ledger" /\ q.op = "redeem"
         THEN /\ redemptions' = redemptions \cup
                   {[user |-> q.user, key |-> q.key, amount |-> q.amount,
                     balance_after |-> l.balance]}
              /\ balance' = [balance EXCEPT ![q.user] = l.balance]
              /\ UNCHANGED <<payments, ledger, earned, remaining>>
         ELSE UNCHANGED tables
      /\ UNCHANGED <<nextLedgerId, now>>

(* Any statement, or the wait for a connection, a lock or the commit, can  *)
(* fail or be cancelled with the request; the deferred Rollback follows.   *)
Fail(w) ==
  /\ pc[w] \in InTx \cup {"begin"}
  /\ failures < MaxFailures
  /\ failures' = failures + 1
  /\ Answer(w, [loc[w] EXCEPT !.outcome = "error"])
  /\ UNCHANGED <<tables, nextLedgerId, now>>

(* The server or Postgres stops: every open transaction is rolled back.    *)
Crash ==
  /\ failures < MaxFailures
  /\ \E w \in Workers : pc[w] # "idle"
  /\ failures' = failures + 1
  /\ pc' = [w \in Workers |-> "idle"]
  /\ req' = [w \in Workers |-> NoRequest]
  /\ loc' = [w \in Workers |-> NewLocal]
  /\ held' = [w \in Workers |-> {}]
  /\ UNCHANGED <<tables, nextLedgerId, now>>

(* The answer leaves; the worker is free.  Clients may send the same key   *)
(* again whatever they were told, and need not wait to be told.            *)
Return(w) ==
  /\ pc[w] = "done"
  /\ Goto(w, "idle")
  /\ req' = [req EXCEPT ![w] = NoRequest]
  /\ Set(w, NewLocal)
  /\ UNCHANGED <<tables, nextLedgerId, now, failures, held>>

Tick ==
  /\ now < MaxNow
  /\ now' = now + 1
  /\ UNCHANGED <<tables, nextLedgerId, failures, control>>

(* The steps of the code once a request is in.                             *)
Serve(w) ==
  \/ Begin(w)
  \/ InsertPayment(w)
  \/ LoadPayment(w)
  \/ ReadBalance(w)
  \/ LockDaily(w)
  \/ LockBudget(w)
  \/ ApplyAward(w)
  \/ InsertRedemption(w)
  \/ LoadRedemption(w)
  \/ Debit(w)
  \/ RejectRedeem(w)
  \/ InsertLedger(w)
  \/ Commit(w)
  \/ Return(w)

Next ==
  \/ \E w \in Workers : Receive(w) \/ Serve(w) \/ Fail(w)
  \/ Crash
  \/ Tick

Spec == Init /\ [][Next]_vars

(* Statements that can wait, for a connection or for a row, are granted in *)
(* the end if they can be granted again and again: the pool and Postgres   *)
(* queue their waiters.  The others only have to be run.                   *)
Fairness == \A w \in Workers : SF_vars(Serve(w))

FairSpec == Spec /\ Fairness

-----------------------------------------------------------------------------
(* Properties.                                                             *)

(* A transaction waiting at pc[w] waits for these rows.                    *)
Wanted(w) ==
  CASE pc[w] = "insert" -> {Key(req[w])}
    [] pc[w] = "daily"  -> {Daily(req[w].user, req[w].day)}
    [] pc[w] = "budget" -> {Budget}
    [] pc[w] = "apply"  -> {Daily(req[w].user, req[w].day), Budget, Bal(req[w].user)}
    [] pc[w] = "debit"  -> {Bal(req[w].user)}
    [] OTHER            -> {}

(* No deadlock among the row locks, which Postgres would break by failing  *)
(* a payment: no group of transactions in which each waits for a row       *)
(* another of the group holds.                                             *)
NoWaitCycle ==
  \A S \in (SUBSET Workers) \ {{}} :
    \E w \in S : \A v \in S \ {w} : Wanted(w) \cap held[v] = {}

Rank(r) == CASE r[1] \in {"pay", "redeem"} -> 1
             [] r[1] = "daily"   -> 2
             [] r[1] = "budget"  -> 3
             [] r[1] = "balance" -> 4

(* Why there is none: every transaction takes its rows in one order, key,  *)
(* daily tally, budget, balance.                                           *)
LockOrder ==
  \A w \in Workers :
    \A r \in Wanted(w) \ held[w], s \in held[w] : Rank(s) < Rank(r)

(* A row has one owner, so what a transaction read under a lock is still   *)
(* true at its updates and at its ledger entry; that it is at the commit   *)
(* too is part of CampaignSpec.                                            *)
ReadsStayTrue ==
  \A w \in Workers :
    LET q == req[w]
        l == loc[w]
    IN  /\ pc[w] \in {"apply", "ledger"} /\ q.op = "pay" =>
             /\ l.award = AwardFor(q.user, q.amount, q.day)
             /\ l.status = StatusFor(q.user, q.amount, q.day)
        /\ pc[w] = "ledger" =>
             l.balance = IF q.op = "pay" THEN balance[q.user] + l.award
                                         ELSE balance[q.user] - q.amount

(* The CHECK constraints are a backstop no statement runs into: no update  *)
(* in flight makes the budget or a balance negative.                       *)
ChecksNeverTrip ==
  \A w \in Workers :
    pc[w] \in {"ledger", "commit"} => loc[w].remaining >= 0 /\ loc[w].balance >= 0

(* A client told "ok" was told what the tables say, also for a replay, for *)
(* a key reused with another amount and for an answer after lost ones.     *)
AnswerMatchesRow ==
  \A w \in Workers :
    LET q == req[w]
        l == loc[w]
    IN  pc[w] = "done" /\ l.outcome = "ok" =>
          IF q.op = "pay"
          THEN \E p \in PaymentRows(q.user, q.key) :
                 /\ p.amount = l.amount
                 /\ p.cashback_awarded = l.award
                 /\ p.status = l.status
          ELSE \E r \in RedemptionRows(q.user, q.key) :
                 r.amount = l.amount /\ r.balance_after = l.balance

(* The balance in the answer to a payment, read anew for a replay and      *)
(* without a lock: the user really had it, and not before the award of     *)
(* this payment, whatever other payments and redemptions went by.          *)
BalanceToldWasTrue ==
  \A w \in Workers :
    LET q   == req[w]
        l   == loc[w]
        own == {e \in LedgerOf(q.user) : e.entry_type = "EARN" /\ e.key = q.key}
    IN  pc[w] = "done" /\ q.op = "pay" /\ l.outcome = "ok" =>
          \/ \E e \in LedgerOf(q.user) :
               e.balance_after = l.balance /\ \A o \in own : o.id <= e.id
          \/ own = {} /\ l.balance = 0

(* Every request is answered, unless the server dies under it: no lock or  *)
(* connection is kept by a transaction that is over, and no two            *)
(* transactions wait for each other.                                       *)
EveryRequestEnds == \A w \in Workers : pc[w] = "begin" ~> pc[w] = "idle"
=============================================================================
