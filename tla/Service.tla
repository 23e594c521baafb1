------------------------------- MODULE Service -------------------------------
(***************************************************************************)
(* One server process above the store: the router's middleware, the        *)
(* handlers of internal/httpapi, the use cases and the in-memory metrics.  *)
(*                                                                         *)
(* A call to the store is one step here, an action of Campaign: module     *)
(* Store shows its transactions implement them.  What interleaves is the   *)
(* rest: requests being refused, counted counter by counter, answered,     *)
(* and scraped; and the budget gauge read, set and written by several of   *)
(* them at once.                                                           *)
(***************************************************************************)
EXTENDS Campaign, Sequences

CONSTANTS
  Handlers,     \* goroutines of the HTTP server
  NoUser,       \* a request without X-User-Id
  NoBody,       \* a body that is not JSON, or has no key or no positive amount
  NoCall,       \* a handler without a request
  MayRestart,   \* whether the process may die
  MaxLimited,   \* bound: requests the rate limiter refuses
  MaxFailures   \* bound: failed store calls, lost answers, panics, restarts

ASSUME ServiceAssumption ==
  /\ NoUser \notin Users
  /\ NoBody \notin Keys
  /\ IsFiniteSet(Handlers)
  /\ MayRestart \in BOOLEAN
  /\ MaxLimited \in Nat
  /\ MaxFailures \in Nat

VARIABLES
  pc,        \* what each handler does next
  call,      \* the request it serves
  result,    \* what the store told it, how far it is, what it will answer
  metrics,   \* the process-lifetime counters
  gauge,     \* budgetRemaining
  failures,
  told       \* history: what this process has answered to payments

process == <<pc, call, result, metrics, gauge, failures, told>>
vars == <<tables, process>>

NothingTold == [payments |-> 0, awarded |-> 0]

(* Of a scrape: before is what had been told when it came in, and budgets  *)
(* are the values it may write if its own read succeeded.                  *)
NoResult == [code |-> 0, replayed |-> FALSE, award |-> 0, status |-> "none",
             seen |-> 0, counted |-> 0, before |-> NothingTold, budgets |-> {},
             lines |-> <<>>]

NoCounts == [payments |-> 0, awarded |-> 0, noCashback |-> 0, partial |-> 0,
             exhausted |-> 0, capReached |-> 0,
             redemptions |-> 0, redeemed |-> 0, rateLimited |-> 0]

Payments == [op: {"pay"}, user: Users, key: Keys, amount: PayAmounts]

Redemptions == [op: {"redeem"}, user: Users, key: Keys, amount: RedeemAmounts]

Reads == [op: {"balance", "history"}, user: Users]

PublicReads == [op: {"campaign", "scrape"}]

(* Writes that end before the store: no JSON, or no key, or no positive    *)
(* whole amount.                                                           *)
Unreadable == [op: {"pay", "redeem"}, user: Users, key: {NoBody}]

(* Requests to the routes behind requireUser without X-User-Id.            *)
Nameless == [op: {"pay", "redeem", "balance", "history"}, user: {NoUser}]

ASSUME NoCallAssumption == NoCall \notin Payments \cup Redemptions \cup PublicReads

TypeOK ==
  /\ TablesOK
  /\ pc \in [Handlers ->
       {"idle", "stored", "read", "again", "write", "done"}]
  /\ call \in [Handlers -> Payments \cup Redemptions \cup PublicReads \cup {NoCall}]
  /\ \A h \in Handlers :
       result[h].code \in {0, 200, 201, 400, 401, 422, 429, 500}
  /\ \A m \in DOMAIN NoCounts : metrics[m] \in Nat
  /\ gauge \in Nat
  /\ failures \in 0 .. MaxFailures
  /\ told \in [payments: Nat, awarded: Nat]

Init ==
  /\ CampaignInit
  /\ pc = [h \in Handlers |-> "idle"]
  /\ call = [h \in Handlers |-> NoCall]
  /\ result = [h \in Handlers |-> NoResult]
  /\ metrics = NoCounts
  /\ gauge = 0
  /\ failures = 0
  /\ told = NothingTold

-----------------------------------------------------------------------------
Goto(h, label) == pc' = [pc EXCEPT ![h] = label]

(* What is not looked at again is forgotten.                               *)
Answer(h, code) ==
  /\ Goto(h, "done")
  /\ result' = [result EXCEPT ![h] = [NoResult EXCEPT !.code = code]]

At(h, label) == pc[h] = label /\ UNCHANGED call

(* A request comes in and gets as far as its first shared access.          *)
Arrives(h, c) ==
  /\ pc[h] = "idle"
  /\ call' = [call EXCEPT ![h] = c]

(* It is answered, and tables and gauge stay as they are.                  *)
AtOnce(h, code) ==
  /\ At(h, "idle")
  /\ Answer(h, code)
  /\ UNCHANGED <<tables, gauge, failures, told>>

RequireUser(h) ==
  /\ \E c \in Nameless : AtOnce(h, 401)
  /\ UNCHANGED metrics

(* rateLimit does not look at the body.                                    *)
RateLimited(h) ==
  /\ metrics.rateLimited < MaxLimited
  /\ \E c \in Payments \cup Redemptions \cup Unreadable : AtOnce(h, 429)
  /\ metrics' = [metrics EXCEPT !.rateLimited = @ + 1]

(* decodeJSON, parseIDR, and the checks of the use case.                   *)
RefuseBody(h) ==
  /\ \E c \in Unreadable : AtOnce(h, 400)
  /\ UNCHANGED metrics

(* GetBalance and GetHistory read one snapshot and change nothing.         *)
ReadUser(h) ==
  /\ \E c \in Reads : AtOnce(h, 200)
  /\ UNCHANGED metrics

(* What the counters should say, from the tables.                          *)
Truth ==
  LET paid(S) == Cardinality({p \in payments : p.status \in S})
  IN  [payments    |-> Cardinality(payments),
       awarded     |-> MapThenSumSet(AwardOf, payments),
       noCashback  |-> paid({StatusNoCashback}),
       partial     |-> paid({StatusPartialDailyCap, StatusPartialBudget}),
       exhausted   |-> paid({StatusBudgetExhausted}),
       capReached  |-> paid({StatusDailyCapReached}),
       redemptions |-> Cardinality(redemptions),
       redeemed    |-> MapThenSumSet(AmountOf, redemptions)]

(* The store committed, and says so or fails to.                           *)
Stored(h, r) ==
  \/ /\ Goto(h, "stored")
     /\ result' = [result EXCEPT ![h] = r]
     /\ UNCHANGED failures
  \/ /\ failures < MaxFailures
     /\ failures' = failures + 1
     /\ Answer(h, 500)

(* MakePayment's call of ProcessPayment: processed now, or a replay.       *)
ProcessPayment(h) ==
  \E c \in Payments :
    /\ Arrives(h, c)
    /\ \/ \E d \in Days :
            /\ Pay(c.user, c.key, c.amount, d) /\ Dense
            /\ Stored(h, [NoResult EXCEPT
                            !.code = 201,
                            !.award = AwardFor(c.user, c.amount, d),
                            !.status = StatusFor(c.user, c.amount, d)])
       \/ \E p \in PaymentRows(c.user, c.key) :
            /\ UNCHANGED tables
            /\ Stored(h, [NoResult EXCEPT
                            !.code = 201, !.replayed = TRUE,
                            !.award = p.cashback_awarded, !.status = p.status])
    /\ UNCHANGED <<metrics, gauge, told>>

(* Redeem's call of the store: debited now, a replay, or not covered.      *)
RedeemBalance(h) ==
  \E c \in Redemptions :
    /\ Arrives(h, c)
    /\ \/ /\ RedeemCash(c.user, c.key, c.amount) /\ Dense
          /\ Stored(h, [NoResult EXCEPT !.code = 200, !.award = c.amount])
       \/ \E r \in RedemptionRows(c.user, c.key) :
            /\ UNCHANGED tables
            /\ Stored(h, [NoResult EXCEPT
                            !.code = 200, !.replayed = TRUE, !.award = r.amount])
       \/ /\ RedemptionRows(c.user, c.key) = {}
          /\ balance[c.user] < c.amount
          /\ Answer(h, 422)
          /\ UNCHANGED <<tables, failures>>
    /\ UNCHANGED <<metrics, gauge, told>>

(* The store failed without a commit, or the handler panicked wherever it  *)
(* is and the recoverer answers: 500.  What it did stays done.             *)
Recovered(h) ==
  /\ pc[h] # "done"
  /\ failures < MaxFailures
  /\ failures' = failures + 1
  /\ Answer(h, 500)
  /\ UNCHANGED <<tables, call, metrics, gauge, told>>

Add(counter, n) == <<[counter |-> counter, n |-> n]>>

Outcome(status) ==
  CASE status = "no_cashback"                             -> Add("noCashback", 1)
    [] status \in {"partial_daily_cap", "partial_budget"} -> Add("partial", 1)
    [] status = "budget_exhausted"                        -> Add("exhausted", 1)
    [] status = "daily_cap_reached"                       -> Add("capReached", 1)
    [] OTHER                                              -> <<>>

(* The additions of RecordEarn and of RecordRedeem, in their order.        *)
RecordEarn(r) ==
  Add("payments", 1)
    \o (IF r.award > 0 THEN Add("awarded", r.award) ELSE <<>>)
    \o Outcome(r.status)

RecordRedeem(r) == Add("redemptions", 1) \o Add("redeemed", r.award)

(* Mutant: replays are counted too.                                        *)
AddsOfAll(c, r) == IF c.op = "pay" THEN RecordEarn(r) ELSE RecordRedeem(r)

(* A first-time result is counted, a replay is not.                        *)
AddsOf(c, r) ==
  IF r.replayed THEN <<>>
  ELSE IF c.op = "pay" THEN RecordEarn(r) ELSE RecordRedeem(r)

(* Mutant: the gauge moved along by each award.                            *)
RecordOnGauge(h) ==
  /\ At(h, "stored")
  /\ gauge' = gauge - (IF call[h].op = "pay" THEN result[h].award ELSE 0)
  /\ Goto(h, "done")
  /\ UNCHANGED <<tables, result, metrics, failures, told>>

(* Mutant: the additions run on after the answer.                          *)
RecordAfterwards(h) ==
  LET adds == AddsOf(call[h], result[h])
      n == result[h].counted + 1
  IN  /\ pc[h] \in {"stored", "done"}
      /\ call[h] # NoCall
      /\ \/ /\ n <= Len(adds)
            /\ metrics' = [metrics EXCEPT ![adds[n].counter] = @ + adds[n].n]
            /\ result' = [result EXCEPT ![h].counted = n]
            /\ UNCHANGED pc
         \/ /\ pc[h] = "stored"
            /\ Goto(h, "done")
            /\ UNCHANGED <<metrics, result>>
      /\ UNCHANGED <<tables, call, gauge, failures, told>>

(* One atomic addition after the other.                                    *)
Record(h) ==
  LET adds == AddsOf(call[h], result[h])
      n == result[h].counted + 1
  IN  /\ At(h, "stored")
      /\ \/ /\ n <= Len(adds)
            /\ metrics' = [metrics EXCEPT ![adds[n].counter] = @ + adds[n].n]
            /\ result' = [result EXCEPT ![h].counted = n]
            /\ UNCHANGED pc
         \/ /\ n > Len(adds)
            /\ Goto(h, "done")
            /\ result' = [result EXCEPT ![h].status = "none", ![h].counted = 0]
            /\ UNCHANGED metrics
      /\ UNCHANGED <<tables, gauge, failures, told>>

-----------------------------------------------------------------------------
(* The budgets read and not stored yet.                                    *)
Unstored == {result[g].seen : g \in {g \in Handlers : pc[g] \in {"read", "again"}}}

(* Service.Campaign reads the budget row ...                               *)
ReadCampaign(h) ==
  \E c \in PublicReads :
    LET r == IF c.op = "scrape" THEN [NoResult EXCEPT !.before = told] ELSE NoResult
        may == IF c.op = "scrape" THEN {remaining} \cup Unstored ELSE {}
    IN  /\ Arrives(h, c)
        /\ \/ /\ Goto(h, "read")
              /\ result' = [result EXCEPT ![h] =
                               [r EXCEPT !.seen = remaining, !.budgets = may]]
              /\ UNCHANGED failures
           \/ /\ failures < MaxFailures
              /\ failures' = failures + 1
              /\ IF c.op = "scrape"
                 THEN Goto(h, "write") /\ result' = [result EXCEPT ![h] = r]
                 ELSE Answer(h, 500)
        /\ UNCHANGED <<tables, metrics, gauge, told>>

(* Mutant: a gauge that has a value keeps it.                              *)
SetGaugeOnce(h) ==
  /\ \/ /\ At(h, "read") /\ call[h].op = "campaign"
        /\ Answer(h, 200)
     \/ /\ At(h, "read") /\ call[h].op = "scrape"
        /\ Goto(h, "again")
        /\ UNCHANGED result
     \/ /\ At(h, "again")
        /\ Goto(h, "write")
        /\ result' = [result EXCEPT ![h].seen = 0]
  /\ gauge' = IF gauge = 0 THEN result[h].seen ELSE gauge
  /\ UNCHANGED <<tables, metrics, failures, told>>

(* ... and sets the gauge; a scrape goes on to set it once more ...        *)
SetGauge(h) ==
  /\ \/ /\ At(h, "read") /\ call[h].op = "campaign"
        /\ Answer(h, 200)
     \/ /\ At(h, "read") /\ call[h].op = "scrape"
        /\ Goto(h, "again")
        /\ UNCHANGED result
     \/ /\ At(h, "again")
        /\ Goto(h, "write")
        /\ result' = [result EXCEPT ![h].seen = 0]
  /\ gauge' = result[h].seen
  /\ UNCHANGED <<tables, metrics, failures, told>>

(* ... and writes one metric after the other, the gauge last.              *)
WriteMetrics(h) ==
  LET lines == result[h].lines
  IN  /\ At(h, "write")
      /\ \/ /\ Len(lines) < 2
            /\ result' = [result EXCEPT ![h].lines =
                             Append(lines, IF lines = <<>> THEN metrics.payments
                                                           ELSE metrics.awarded)]
            /\ UNCHANGED pc
         \/ /\ Len(lines) = 2
            /\ Goto(h, "done")
            /\ result' = [result EXCEPT ![h].code = 200, ![h].seen = gauge]
      /\ UNCHANGED <<tables, metrics, gauge, failures, told>>

(* The answer goes out.                                                    *)
Reply(h) ==
  /\ pc[h] = "done"
  /\ Goto(h, "idle")
  /\ call' = [call EXCEPT ![h] = NoCall]
  /\ result' = [result EXCEPT ![h] = NoResult]
  /\ told' = IF call[h] \in Payments /\ result[h].code = 201 /\ ~result[h].replayed
             THEN [payments |-> told.payments + 1,
                   awarded |-> told.awarded + result[h].award]
             ELSE told
  /\ UNCHANGED <<tables, metrics, gauge, failures>>

(* The process dies and is started again: the tables stay.                 *)
Restart ==
  /\ MayRestart
  /\ failures < MaxFailures
  /\ failures' = failures + 1
  /\ pc' = [h \in Handlers |-> "idle"]
  /\ call' = [h \in Handlers |-> NoCall]
  /\ result' = [h \in Handlers |-> NoResult]
  /\ metrics' = NoCounts
  /\ gauge' = 0
  /\ told' = NothingTold
  /\ UNCHANGED tables

Next ==
  \/ \E h \in Handlers :
       \/ RequireUser(h)
       \/ RateLimited(h)
       \/ RefuseBody(h)
       \/ ReadUser(h)
       \/ ProcessPayment(h)
       \/ RedeemBalance(h)
       \/ Recovered(h)
       \/ Record(h)
       \/ ReadCampaign(h)
       \/ SetGauge(h)
       \/ WriteMetrics(h)
       \/ Reply(h)
  \/ Restart

Spec == Init /\ [][Next]_vars

-----------------------------------------------------------------------------
(* What the handlers have still to add to a counter.                       *)
Pending(c) ==
  LET adds(h) == IF pc[h] = "stored" THEN AddsOf(call[h], result[h]) ELSE <<>>
      left(h) == MapThenSumSet(LAMBDA n : adds(h)[n].n,
                               {n \in result[h].counted + 1 .. Len(adds(h)) :
                                  adds(h)[n].counter = c})
  IN  MapThenSumSet(left, Handlers)

(* No counter ever runs ahead of the tables, and what is about to be added *)
(* is still missing: through replays, concurrent duplicates, lost answers, *)
(* panics between two additions, and restarts.  While nothing has failed,  *)
(* what is about to be added is all that is missing.                       *)
CountersFollowTables ==
  \A c \in DOMAIN Truth :
    /\ metrics[c] + Pending(c) <= Truth[c]
    /\ failures = 0 => metrics[c] + Pending(c) = Truth[c]

(* A payment this process answered before a scrape came in is in the       *)
(* scrape with its award, whatever failed or panicked meanwhile: the       *)
(* counters are added to, and read, one by one, but only a payment that    *)
(* was not answered by then can be there by half.  And nothing is in it    *)
(* that is not in the tables.                                              *)
ScrapeCoversAnswered ==
  \A h \in Handlers :
    pc[h] = "done" /\ call[h] = [op |-> "scrape"] /\ result[h].code = 200
      => /\ result[h].lines[1] \in result[h].before.payments .. Truth.payments
         /\ result[h].lines[2] \in result[h].before.awarded .. Truth.awarded

(* A scrape whose own read of the budget succeeded writes a budget that is *)
(* not below what remains, and not above the largest that was read and     *)
(* still to be stored when it came in: other requests may put an older     *)
(* budget into the gauge meanwhile, but none from before those.  One whose *)
(* read failed writes what it finds: the 0 of a fresh process, or a budget *)
(* of any age, which is not below what remains either.                     *)
ScrapedBudgetIsRecent ==
  \A h \in Handlers :
    pc[h] = "done" /\ call[h] = [op |-> "scrape"] /\ result[h].code = 200
      => /\ result[h].seen = 0 \/ result[h].seen >= remaining
         /\ result[h].budgets # {} =>
              /\ result[h].seen >= remaining
              /\ \E b \in result[h].budgets : result[h].seen <= b

(* usecase.go: "counters reflect real economic activity".  When no request *)
(* is in progress, the payments counter has every payment.                 *)
CountersReflectActivity ==
  (\A h \in Handlers : pc[h] = "idle") => metrics.payments = Cardinality(payments)
=============================================================================
