----------------------------- MODULE StoreProofs -----------------------------
(***************************************************************************)
(* Store implements Campaign, for any number of workers, users, keys and   *)
(* failures.                                                               *)
(*                                                                         *)
(* The inductive invariant IInv says, for every worker, which rows its     *)
(* transaction owns at each statement (Owns) and that whatever it has read *)
(* or computed under those locks still agrees with the committed tables    *)
(* (Knows); that no row has two owners (Exclusive); and that ledger ids    *)
(* drawn and not yet committed are new (Ids).  A commit by one worker then *)
(* cannot disturb what another knows, because the rows differ.             *)
(***************************************************************************)
EXTENDS Store, CampaignProofs

(* Between taking the key and committing.                                  *)
Working(w) ==
  \/ pc[w] \in {"daily", "budget", "apply", "readBalance", "debit", "ledger"}
  \/ pc[w] = "commit" /\ ~loc[w].replayed

(* Past the award decision.                                                *)
Decided(w) ==
  /\ \/ pc[w] \in {"apply", "readBalance", "ledger"}
     \/ pc[w] = "commit" /\ ~loc[w].replayed
  /\ req[w].op = "pay"

(* With the id of its ledger entry.                                        *)
Posted(w) ==
  /\ pc[w] = "commit" /\ ~loc[w].replayed
  /\ req[w].op = "redeem" \/ loc[w].award > 0

(* With new versions of the counters, not yet committed.                   *)
Writing(w) == pc[w] = "ledger" \/ Posted(w)

Exclusive == \A v, w \in Workers : v # w => held[v] \cap held[w] = {}

KeyOnly(q)  == {Key(q)}
WithDay(q)  == {Key(q), Daily(q.user, q.day)}
Limits(q)   == {Key(q), Daily(q.user, q.day), Budget}
AllRows(q)  == {Key(q), Daily(q.user, q.day), Budget, Bal(q.user)}
DebitRows(q) == {Key(q), Bal(q.user)}

(* A payment without an award stops after its key or after both limits.    *)
NoAward(w) ==
  \/ held[w] = KeyOnly(req[w]) /\ GrossCashback(req[w].amount) = 0
  \/ held[w] = Limits(req[w])

Owns(w) ==
  LET q == req[w]
  IN  /\ pc[w] # "idle" => q \in PayRequest \cup RedeemRequest
      /\ pc[w] \in {"idle", "begin", "insert", "load", "done"} => held[w] = {}
      /\ pc[w] = "commit" /\ loc[w].replayed => held[w] = {}
      /\ pc[w] \in {"daily", "budget", "apply", "readBalance"} => q.op = "pay"
      /\ pc[w] = "debit" => q.op = "redeem"
      /\ pc[w] \in {"daily", "debit"} => held[w] = KeyOnly(q)
      /\ pc[w] = "budget" => held[w] = WithDay(q)
      /\ pc[w] = "apply" => held[w] = Limits(q)
      /\ pc[w] = "readBalance" => NoAward(w)
      /\ pc[w] = "commit" /\ ~loc[w].replayed /\ q.op = "pay" /\ loc[w].award = 0
           => NoAward(w)
      /\ Writing(w) =>
           held[w] = IF q.op = "pay" THEN AllRows(q) ELSE DebitRows(q)

(* The rows already committed under the worker's key.                      *)
KeyRows(w) ==
  IF req[w].op = "pay" THEN PaymentRows(req[w].user, req[w].key)
                       ELSE RedemptionRows(req[w].user, req[w].key)

(* The stored row agrees with what the worker is going to answer.          *)
Told(w) ==
  LET q == req[w]
      l == loc[w]
  IN  IF q.op = "pay"
      THEN \E p \in PaymentRows(q.user, q.key) :
             p.amount = l.amount /\ p.cashback_awarded = l.award
               /\ p.status = l.status
      ELSE \E r \in RedemptionRows(q.user, q.key) :
             r.amount = l.amount /\ r.balance_after = l.balance

Knows(w) ==
  LET q == req[w]
      l == loc[w]
  IN  /\ Working(w) => KeyRows(w) = {} /\ l.amount = q.amount
      /\ pc[w] = "load" => KeyRows(w) # {}
      /\ pc[w] \in {"idle", "begin", "insert", "load"} \/ Working(w)
           => ~l.replayed
      /\ pc[w] \in {"idle", "begin", "insert"} => l.award = 0
      /\ l.balance >= 0 /\ l.remaining >= 0
      /\ pc[w] = "commit" /\ l.replayed => Told(w)
      /\ pc[w] = "done" /\ l.outcome = "ok" => Told(w)
      /\ pc[w] \in {"daily", "budget"} => GrossCashback(q.amount) # 0
      /\ pc[w] = "budget" =>
           l.dailyRemaining = DailyRemaining(earned[q.user][q.day])
      /\ Decided(w) => /\ l.award = AwardFor(q.user, q.amount, q.day)
                       /\ l.status = StatusFor(q.user, q.amount, q.day)
      /\ pc[w] = "readBalance" => l.award = 0
      /\ pc[w] = "apply" => l.award > 0
      /\ pc[w] = "ledger" /\ q.op = "pay" => l.award > 0
      /\ Writing(w) /\ q.op = "pay" =>
           /\ l.earned = earned[q.user][q.day] + l.award
           /\ l.remaining = remaining - l.award
           /\ l.balance = balance[q.user] + l.award
      /\ Writing(w) /\ q.op = "redeem" =>
           /\ balance[q.user] >= q.amount
           /\ l.balance = balance[q.user] - q.amount

Ids ==
  /\ \A e \in ledger : e.id < nextLedgerId
  /\ \A w \in Workers : Posted(w) =>
       /\ loc[w].ledgerId \in LedgerIds
       /\ loc[w].ledgerId < nextLedgerId
       /\ \A e \in ledger : e.id # loc[w].ledgerId
       /\ \A e \in LedgerOf(req[w].user) : e.id < loc[w].ledgerId
       /\ \A v \in Workers : v # w /\ Posted(v) => loc[v].ledgerId # loc[w].ledgerId

IInv ==
  /\ TypeOK
  /\ Exclusive
  /\ \A w \in Workers : Owns(w) /\ Knows(w)
  /\ Ids

-----------------------------------------------------------------------------
(* Moving one worker.                                                      *)

Same(w) ==
  /\ pc'[w] = pc[w]
  /\ req'[w] = req[w]
  /\ loc'[w] = loc[w]
  /\ held'[w] = held[w]

(* A worker whose own entries do not change knows what it knew.            *)
LEMMA SameKeeps ==
  ASSUME NEW w \in Workers, Owns(w), Knows(w), Same(w), UNCHANGED tables
  PROVE  Owns(w)' /\ Knows(w)'
<1>1. UNCHANGED <<payments, redemptions, ledger, earned, remaining, balance>>
  BY DEF tables
<1>2. Owns(w)'
  BY DEF Same, Owns, NoAward, Writing, Posted
<1>3. Knows(w)'
  BY <1>1 DEF Same, Knows, Working, Decided, Posted, Writing, KeyRows, Told,
     AwardFor, StatusFor, PaymentRows, RedemptionRows
<1> QED
  BY <1>2, <1>3

(* A step of one worker that commits nothing: what remains to be shown for *)
(* it is about that worker alone.                                          *)
LEMMA LocalStep ==
  ASSUME IInv, NEW v \in Workers, UNCHANGED tables, TypeOK',
         \A w \in Workers \ {v} : Same(w),
         \A w \in Workers \ {v} : held'[v] \cap held[w] = {},
         Owns(v)', Knows(v)',
         nextLedgerId' >= nextLedgerId,
         Posted(v)' => /\ loc'[v].ledgerId = nextLedgerId
                       /\ nextLedgerId \in LedgerIds
                       /\ nextLedgerId' = nextLedgerId + 1
  PROVE  IInv'
<1>1. UNCHANGED <<payments, redemptions, ledger, earned, remaining, balance>>
  BY DEF tables
<1>2. Exclusive'
  BY DEF IInv, Exclusive, Same
<1>3. \A w \in Workers : Owns(w)' /\ Knows(w)'
  BY SameKeeps DEF IInv
<1>4. Ids'
  <2>1. /\ nextLedgerId \in Nat
        /\ \A w \in Workers : loc[w].ledgerId \in Nat
        /\ \A e \in ledger : e.id \in Nat
        /\ nextLedgerId' \in Nat
    BY LedgerIdAssumption DEF IInv, TypeOK, TablesOK, Local, LedgerEntry
  <2>2. \A e \in ledger' : e.id < nextLedgerId'
    BY <1>1, <2>1 DEF IInv, Ids
  <2>3. \A w \in Workers \ {v} :
          /\ Posted(w)' <=> Posted(w)
          /\ loc'[w] = loc[w]
          /\ LedgerOf(req[w].user)' = LedgerOf(req'[w].user)
    BY <1>1 DEF Same, Posted, LedgerOf
  <2>4. ASSUME NEW w \in Workers \ {v}, Posted(w)'
        PROVE  /\ loc'[w].ledgerId \in LedgerIds
               /\ loc'[w].ledgerId < nextLedgerId'
               /\ \A e \in ledger' : e.id # loc'[w].ledgerId
               /\ \A e \in LedgerOf(req[w].user)' : e.id < loc'[w].ledgerId
               /\ \A x \in Workers :
                    x # w /\ Posted(x)' => loc'[x].ledgerId # loc'[w].ledgerId
    <3>1. Posted(w) /\ req'[w] = req[w] /\ loc'[w] = loc[w]
      BY <2>3, <2>4 DEF Same
    <3>2. \A x \in Workers :
            x # w /\ Posted(x)' => loc'[x].ledgerId # loc'[w].ledgerId
      BY <2>1, <2>3, <3>1 DEF IInv, Ids
    <3> QED
      BY <1>1, <2>1, <3>1, <3>2 DEF IInv, Ids, LedgerOf
  <2>5. ASSUME Posted(v)'
        PROVE  /\ loc'[v].ledgerId \in LedgerIds
               /\ loc'[v].ledgerId < nextLedgerId'
               /\ \A e \in ledger' : e.id < loc'[v].ledgerId /\ e.id # loc'[v].ledgerId
               /\ \A x \in Workers :
                    x # v /\ Posted(x)' => loc'[x].ledgerId # loc'[v].ledgerId
    BY <1>1, <2>1, <2>3, <2>5 DEF IInv, Ids
  <2>6. \A u : LedgerOf(u)' \subseteq ledger'
    BY DEF LedgerOf
  <2> QED
    BY <2>2, <2>3, <2>4, <2>5, <2>6 DEF Ids, Same
<1> QED
  BY <1>2, <1>3, <1>4 DEF IInv

-----------------------------------------------------------------------------
(* Types and locks in the form the step proofs use them.                   *)

(* Amounts of requests are positive numbers.                               *)
LEMMA AmountsAreNat ==
  PayAmounts \subseteq Nat \ {0} /\ RedeemAmounts \subseteq Nat \ {0}
  BY AmountAssumption, WidthAssumption

(* The typing facts of a state that satisfies the invariant.               *)
LEMMA StateTypes ==
  ASSUME IInv, NEW w \in Workers
  PROVE  /\ pc[w] \in PCs
         /\ loc[w] \in Local
         /\ pc[w] # "idle" => req[w] \in PayRequest \cup RedeemRequest
         /\ TablesOK /\ nextLedgerId \in Nat
  BY DEF IInv, TypeOK, Owns

(* What a payment computes its award from is well typed.                   *)
LEMMA PayTypes ==
  ASSUME IInv, NEW w \in Workers, pc[w] # "idle", req[w].op = "pay"
  PROVE  /\ req[w] \in PayRequest
         /\ req[w].user \in Users /\ req[w].key \in Keys
         /\ req[w].amount \in PayAmounts /\ req[w].day \in Days
         /\ req[w].amount \in Nat
         /\ GrossCashback(req[w].amount) \in Int
         /\ earned[req[w].user][req[w].day] \in Nat
         /\ remaining \in Nat /\ balance[req[w].user] \in Nat
<1>1. req[w] \in PayRequest
  BY StateTypes DEF PayRequest, RedeemRequest
<1>2. req[w].amount \in Nat
  BY <1>1, AmountsAreNat DEF PayRequest
<1> QED
  BY <1>1, <1>2, GrossIsInt, StateTypes DEF PayRequest, TablesOK

(* What a redemption debits is well typed.                                 *)
LEMMA RedeemTypes ==
  ASSUME IInv, NEW w \in Workers, pc[w] # "idle", req[w].op = "redeem"
  PROVE  /\ req[w] \in RedeemRequest
         /\ req[w].user \in Users /\ req[w].key \in Keys
         /\ req[w].amount \in RedeemAmounts
         /\ req[w].amount \in Nat
         /\ balance[req[w].user] \in Nat
<1>1. req[w] \in RedeemRequest
  BY StateTypes DEF PayRequest, RedeemRequest
<1>2. req[w].amount \in Nat
  BY <1>1, AmountsAreNat DEF RedeemRequest
<1> QED
  BY <1>1, <1>2, StateTypes DEF RedeemRequest, TablesOK

(* A worker inside a request serves a payment or a redemption.             *)
LEMMA RequestOp ==
  ASSUME IInv, NEW w \in Workers, pc[w] # "idle"
  PROVE  req[w].op \in {"pay", "redeem"}
  BY StateTypes DEF PayRequest, RedeemRequest

(* The rows a statement locks are lockable rows.                           *)
LEMMA RowTypes ==
  /\ \A q \in PayRequest : AllRows(q) \subseteq Rows
  /\ \A q \in RedeemRequest : DebitRows(q) \subseteq Rows
<1>1. ASSUME NEW q \in PayRequest PROVE AllRows(q) \subseteq Rows
  <2>1. q.op = "pay" /\ q.user \in Users /\ q.key \in Keys /\ q.day \in Days
    BY DEF PayRequest
  <2>2. Key(q) \in Rows /\ Daily(q.user, q.day) \in Rows
    BY <2>1 DEF Rows, Key, Daily
  <2>3. Budget \in Rows /\ Bal(q.user) \in Rows
    BY <2>1 DEF Rows
  <2> QED
    BY <2>2, <2>3 DEF AllRows
<1>2. ASSUME NEW q \in RedeemRequest PROVE DebitRows(q) \subseteq Rows
  <2>1. q.op = "redeem" /\ q.user \in Users /\ q.key \in Keys
    BY DEF RedeemRequest
  <2>2. Key(q) \in Rows /\ Bal(q.user) \in Rows
    BY <2>1 DEF Rows, Key
  <2> QED
    BY <2>2 DEF DebitRows
<1> QED
  BY <1>1, <1>2

(* A worker changes its own entries only.                                  *)
LEMMA Others ==
  ASSUME NEW v \in Workers, NEW label, NEW l, NEW h,
         IInv,
         Goto(v, label), Set(v, l), held' = [held EXCEPT ![v] = h],
         UNCHANGED req
  PROVE  /\ \A w \in Workers \ {v} : Same(w)
         /\ pc'[v] = label /\ loc'[v] = l /\ held'[v] = h /\ req'[v] = req[v]
  BY DEF IInv, TypeOK, Goto, Set, Same

(* Changing one worker's well-typed entries keeps the state well typed.    *)
LEMMA KeepsTypes ==
  ASSUME NEW v \in Workers, NEW label \in PCs, NEW l \in Local,
         NEW h \in SUBSET Rows, IInv,
         Goto(v, label), Set(v, l), held' = [held EXCEPT ![v] = h],
         UNCHANGED <<req, tables, now>>, failures' \in 0 .. MaxFailures,
         nextLedgerId' \in Nat
  PROVE  TypeOK'
  BY DEF IInv, TypeOK, TablesOK, tables, Goto, Set

(* All of the above, for a step of v inside its request.                   *)
LEMMA InnerStep ==
  ASSUME NEW v \in Workers, NEW label \in PCs, NEW l \in Local,
         NEW h \in SUBSET Rows, IInv,
         Goto(v, label), Set(v, l), held' = [held EXCEPT ![v] = h],
         UNCHANGED <<req, tables, now>>, failures' \in 0 .. MaxFailures,
         nextLedgerId' \in Nat, nextLedgerId' >= nextLedgerId,
         \A w \in Workers \ {v} : h \cap held[w] = {},
         Owns(v)', Knows(v)',
         Posted(v)' => /\ l.ledgerId = nextLedgerId
                       /\ nextLedgerId \in LedgerIds
                       /\ nextLedgerId' = nextLedgerId + 1
  PROVE  IInv'
<1>1. /\ \A w \in Workers \ {v} : Same(w)
      /\ loc'[v] = l /\ held'[v] = h
  BY Others
<1>2. TypeOK'
  BY KeepsTypes
<1> QED
  BY <1>1, <1>2, LocalStep

(* A step that locks nothing keeps every row with its owner.               *)
LEMMA Unlocked ==
  ASSUME IInv, NEW v \in Workers
  PROVE  /\ UNCHANGED held => held' = [held EXCEPT ![v] = held[v]]
         /\ UNCHANGED loc => Set(v, loc[v])
         /\ held[v] \in SUBSET Rows
         /\ \A w \in Workers \ {v} : held[v] \cap held[w] = {}
  BY DEF IInv, TypeOK, Exclusive, Set

(* Locking rows nobody else holds keeps one owner per row.                 *)
LEMMA Locked ==
  ASSUME IInv, NEW v \in Workers, NEW rows, Lock(v, rows),
         \A r \in rows : CanLock(v, r), rows \subseteq Rows
  PROVE  /\ held' = [held EXCEPT ![v] = held[v] \cup rows]
         /\ held[v] \cup rows \in SUBSET Rows
         /\ \A w \in Workers \ {v} : (held[v] \cup rows) \cap held[w] = {}
  BY DEF IInv, TypeOK, Exclusive, Lock, CanLock

-----------------------------------------------------------------------------
(* One lemma per action.                                                   *)

(* Begin: nothing is read or locked yet.                                   *)
LEMMA BeginStep ==
  ASSUME IInv, NEW v \in Workers, Begin(v) PROVE IInv'
<1>1. /\ pc[v] = "begin" /\ Goto(v, "insert")
      /\ UNCHANGED <<tables, nextLedgerId, now, failures, req, loc, held>>
  BY DEF Begin
<1>2. /\ pc'[v] = "insert" /\ req'[v] = req[v] /\ loc'[v] = loc[v] /\ held'[v] = held[v]
  BY <1>1 DEF Goto, IInv, TypeOK
<1>3. Owns(v)'
  BY <1>1, <1>2 DEF Owns, IInv, Posted, Writing
<1>4. Knows(v)'
  BY <1>1, <1>2 DEF Knows, IInv, Working, Decided, Posted, Writing
<1>5. ~Posted(v)'
  BY <1>2 DEF Posted
<1>6. "insert" \in PCs /\ loc[v] \in Local /\ nextLedgerId \in Nat /\ failures \in 0 .. MaxFailures
  BY DEF PCs, InTx, IInv, TypeOK
<1> QED
  BY <1>1, <1>3, <1>4, <1>5, <1>6, Unlocked, InnerStep

(* InsertPayment: a replay, or the owner of the new key.                   *)
LEMMA InsertPaymentStep ==
  ASSUME IInv, NEW v \in Workers, InsertPayment(v) PROVE IInv'
<1> DEFINE q == req[v]
<1>1. /\ pc[v] = "insert" /\ q.op = "pay" /\ CanLock(v, Key(q))
      /\ UNCHANGED <<tables, nextLedgerId, now, failures, req>>
  BY DEF InsertPayment, Within
<1>2. q \in PayRequest /\ q.amount \in Nat
  BY <1>1, PayTypes
<1>3. held[v] = {} /\ ~loc[v].replayed /\ loc[v].award = 0
  BY <1>1 DEF IInv, Owns, Knows
<1>4. /\ loc[v] \in Local /\ nextLedgerId' \in Nat /\ nextLedgerId' >= nextLedgerId
      /\ failures' \in 0 .. MaxFailures /\ UNCHANGED <<req, tables, now>>
  BY <1>1 DEF IInv, TypeOK
<1>5. loc[v].balance >= 0 /\ loc[v].remaining >= 0
  BY DEF IInv, Knows
<1>6. UNCHANGED <<payments, redemptions, earned, remaining, balance>>
  BY <1>1 DEF tables
<1>7. CASE /\ PaymentRows(q.user, q.key) # {} /\ Goto(v, "load")
           /\ UNCHANGED <<loc, held>>
  <2>1. pc'[v] = "load" /\ req'[v] = q /\ loc'[v] = loc[v] /\ held'[v] = {}
    BY <1>1, <1>3, <1>7 DEF Goto, IInv, TypeOK
  <2>2. Owns(v)'
    BY <1>2, <2>1 DEF Owns, Posted, Writing
  <2>3. Knows(v)'
    BY <1>1, <1>3, <1>5, <1>6, <1>7, <2>1
       DEF Knows, Working, Decided, Posted, Writing, KeyRows, PaymentRows
  <2>4. ~Posted(v)' /\ "load" \in PCs
    BY <2>1 DEF Posted, PCs, InTx
  <2> QED
    BY <1>4, <1>7, <2>2, <2>3, <2>4, Unlocked, InnerStep
<1>8. CASE /\ PaymentRows(q.user, q.key) = {} /\ Lock(v, {Key(q)})
           /\ GrossCashback(q.amount) = 0
           /\ Set(v, [loc[v] EXCEPT !.amount = q.amount,
                                    !.status = StatusNoCashback])
           /\ Goto(v, "readBalance")
  <2> DEFINE l == [loc[v] EXCEPT !.amount = q.amount, !.status = StatusNoCashback]
  <2>1. /\ l \in Local /\ l.amount = q.amount /\ l.status = StatusNoCashback
        /\ l.award = 0 /\ ~l.replayed /\ l.balance >= 0 /\ l.remaining >= 0
    BY <1>2, <1>3, <1>4, <1>5 DEF Local, FinalStatus
  <2>2. {Key(q)} \subseteq Rows
    BY <1>2, RowTypes DEF AllRows
  <2> HIDE DEF l
  <2>3. held' = [held EXCEPT ![v] = held[v] \cup {Key(q)}] /\ held[v] \cup {Key(q)} \in SUBSET Rows
        /\ \A w \in Workers \ {v} : (held[v] \cup {Key(q)}) \cap held[w] = {}
    BY <1>1, <1>8, <2>2, Locked
  <2>4. pc'[v] = "readBalance" /\ req'[v] = q /\ loc'[v] = l /\ held'[v] = {Key(q)}
    BY <1>1, <1>3, <1>8, <2>3 DEF Goto, Set, IInv, TypeOK, l
  <2>5. Owns(v)'
    BY <1>1, <1>2, <1>8, <2>4 DEF Owns, Posted, Writing, NoAward, KeyOnly
  <2>6. AwardFor(q.user, q.amount, q.day) = 0
    <3>1. TablesOK /\ DailyRemaining(earned[q.user][q.day]) \in Nat /\ remaining \in Nat
      BY <1>1, PayTypes, DailyRemainingIsNat, StateTypes
    <3> QED
      BY <1>8, <3>1, SMT DEF AwardFor, AwardableCashback, Lesser
  <2>7. StatusFor(q.user, q.amount, q.day) = StatusNoCashback
    BY <1>8 DEF StatusFor
  <2>8. Knows(v)'
    BY <1>1, <1>6, <1>8, <2>1, <2>4, <2>6, <2>7
       DEF Knows, Working, Decided, Posted, Writing, KeyRows, PaymentRows,
           AwardFor, StatusFor
  <2>9. ~Posted(v)' /\ "readBalance" \in PCs
    BY <2>4 DEF Posted, PCs, InTx
  <2> QED
    BY <1>4, <1>8, <2>1, <2>3, <2>5, <2>8, <2>9, InnerStep DEF l
<1>9. CASE /\ PaymentRows(q.user, q.key) = {} /\ Lock(v, {Key(q)})
           /\ GrossCashback(q.amount) # 0
           /\ Set(v, [loc[v] EXCEPT !.amount = q.amount])
           /\ Goto(v, "daily")
  <2> DEFINE l == [loc[v] EXCEPT !.amount = q.amount]
  <2>1. /\ l \in Local /\ l.amount = q.amount
        /\ ~l.replayed /\ l.balance >= 0 /\ l.remaining >= 0
    BY <1>2, <1>3, <1>4, <1>5 DEF Local
  <2>2. {Key(q)} \subseteq Rows
    BY <1>2, RowTypes DEF AllRows
  <2> HIDE DEF l
  <2>3. held' = [held EXCEPT ![v] = held[v] \cup {Key(q)}] /\ held[v] \cup {Key(q)} \in SUBSET Rows
        /\ \A w \in Workers \ {v} : (held[v] \cup {Key(q)}) \cap held[w] = {}
    BY <1>1, <1>9, <2>2, Locked
  <2>4. pc'[v] = "daily" /\ req'[v] = q /\ loc'[v] = l /\ held'[v] = {Key(q)}
    BY <1>1, <1>3, <1>9, <2>3 DEF Goto, Set, IInv, TypeOK, l
  <2>5. Owns(v)'
    BY <1>1, <1>2, <2>4 DEF Owns, Posted, Writing, KeyOnly
  <2>8. Knows(v)'
    BY <1>1, <1>6, <1>9, <2>1, <2>4
       DEF Knows, Working, Decided, Posted, Writing, KeyRows, PaymentRows
  <2>9. ~Posted(v)' /\ "daily" \in PCs
    BY <2>4 DEF Posted, PCs, InTx
  <2> QED
    BY <1>4, <1>9, <2>1, <2>3, <2>5, <2>8, <2>9, InnerStep DEF l
<1> QED
  BY <1>7, <1>8, <1>9 DEF InsertPayment

(* LoadPayment: what is answered is the stored row.                        *)
LEMMA LoadPaymentStep ==
  ASSUME IInv, NEW v \in Workers, LoadPayment(v) PROVE IInv'
<1> DEFINE q == req[v]
<1>1. /\ pc[v] = "load" /\ q.op = "pay" /\ Goto(v, "commit")
      /\ UNCHANGED <<tables, nextLedgerId, now, failures, req, held>>
  BY DEF LoadPayment, Within
<1>2. /\ q \in PayRequest /\ balance[q.user] \in Nat /\ TablesOK
  BY <1>1, PayTypes, StateTypes
<1>3. held[v] = {} /\ loc[v].remaining >= 0
  BY <1>1 DEF IInv, Owns, Knows
<1>4. /\ loc[v] \in Local /\ nextLedgerId' \in Nat /\ nextLedgerId' >= nextLedgerId
      /\ failures' \in 0 .. MaxFailures /\ UNCHANGED <<req, tables, now>>
  BY <1>1 DEF IInv, TypeOK
<1>5. UNCHANGED <<payments, redemptions, earned, remaining, balance>>
  BY <1>1 DEF tables
<1>6. PICK p \in PaymentRows(q.user, q.key) :
        Set(v, [loc[v] EXCEPT !.amount = p.amount,
                              !.award = p.cashback_awarded,
                              !.status = p.status,
                              !.balance = balance[q.user],
                              !.replayed = TRUE])
  BY DEF LoadPayment
<1> DEFINE l == [loc[v] EXCEPT !.amount = p.amount, !.award = p.cashback_awarded,
                               !.status = p.status, !.balance = balance[q.user],
                               !.replayed = TRUE]
<1>7. /\ p.amount \in Nat /\ p.cashback_awarded \in Nat
      /\ p.status \in FinalStatus
  BY <1>2, AmountsAreNat DEF TablesOK, PaymentRows, Payment
<1>8. /\ l \in Local /\ l.amount = p.amount /\ l.award = p.cashback_awarded
      /\ l.status = p.status /\ l.replayed /\ l.balance >= 0 /\ l.remaining >= 0
  <2>1. l \in Local
    <3>1. ASSUME NEW x \in Local, NEW a \in Nat, NEW b \in Nat,
                 NEW c \in FinalStatus, NEW d \in Nat
          PROVE  [x EXCEPT !.amount = a, !.award = b, !.status = c,
                           !.balance = d, !.replayed = TRUE] \in Local
      <4>1. d \in Int
        OBVIOUS
      <4> HIDE DEF FinalStatus
      <4> QED
        BY <4>1 DEF Local
    <3> QED
      BY <1>2, <1>4, <1>7, <3>1
  <2>2. /\ l.amount = p.amount /\ l.award = p.cashback_awarded
        /\ l.status = p.status /\ l.replayed = TRUE /\ l.balance = balance[q.user]
        /\ l.remaining = loc[v].remaining
    BY <1>4 DEF Local
  <2> QED
    BY <1>2, <1>3, <2>1, <2>2
<1> HIDE DEF l
<1>9. pc'[v] = "commit" /\ req'[v] = q /\ loc'[v] = l /\ held'[v] = {}
  BY <1>1, <1>3, <1>6 DEF Goto, Set, IInv, TypeOK, l
<1>10. Owns(v)'
  BY <1>2, <1>8, <1>9 DEF Owns, Posted, Writing
<1>11. Told(v)'
  BY <1>1, <1>5, <1>6, <1>8, <1>9 DEF Told, PaymentRows
<1>12. Knows(v)'
  BY <1>8, <1>9, <1>11 DEF Knows, Working, Decided, Posted, Writing
<1>13. ~Posted(v)' /\ "commit" \in PCs
  BY <1>8, <1>9 DEF Posted, PCs, InTx
<1> QED
  BY <1>1, <1>4, <1>6, <1>8, <1>10, <1>12, <1>13, Unlocked, InnerStep DEF l

(* ReadBalance: the payment goes on without an award.                      *)
LEMMA ReadBalanceStep ==
  ASSUME IInv, NEW v \in Workers, ReadBalance(v) PROVE IInv'
<1> DEFINE q == req[v]
           l == [loc[v] EXCEPT !.balance = balance[q.user]]
<1>1. /\ pc[v] = "readBalance" /\ q.op = "pay" /\ Goto(v, "commit") /\ Set(v, l)
      /\ UNCHANGED <<tables, nextLedgerId, now, failures, req, held>>
  BY DEF ReadBalance, Within
<1>2. q \in PayRequest /\ balance[q.user] \in Nat
  BY <1>1, PayTypes
<1>4. /\ loc[v] \in Local /\ nextLedgerId' \in Nat /\ nextLedgerId' >= nextLedgerId
      /\ failures' \in 0 .. MaxFailures /\ UNCHANGED <<req, tables, now>>
  BY <1>1 DEF IInv, TypeOK
<1>5. UNCHANGED <<payments, redemptions, earned, remaining, balance>>
  BY <1>1 DEF tables
<1>6. Owns(v) /\ Knows(v)
  BY DEF IInv
<1>7. loc[v].remaining >= 0 /\ ~loc[v].replayed /\ loc[v].award = 0
  BY <1>1, <1>6 DEF Knows, Working
<1>8. /\ l \in Local /\ l.balance >= 0
      /\ l.amount = loc[v].amount /\ l.award = loc[v].award
      /\ l.status = loc[v].status /\ l.replayed = loc[v].replayed
      /\ l.remaining = loc[v].remaining
  BY <1>2, <1>4 DEF Local
<1> HIDE DEF l
<1>9. pc'[v] = "commit" /\ req'[v] = q /\ loc'[v] = l /\ held'[v] = held[v]
  BY <1>1 DEF Goto, Set, IInv, TypeOK
<1>10. Owns(v)'
  BY <1>1, <1>2, <1>6, <1>7, <1>8, <1>9 DEF Owns, Posted, Writing, NoAward
<1>11. Knows(v)'
  BY <1>1, <1>5, <1>6, <1>7, <1>8, <1>9
     DEF Knows, Working, Decided, Posted, Writing, KeyRows, PaymentRows,
         AwardFor, StatusFor
<1>12. ~Posted(v)' /\ "commit" \in PCs
  BY <1>1, <1>7, <1>8, <1>9 DEF Posted, PCs, InTx
<1> QED
  BY <1>1, <1>4, <1>8, <1>10, <1>11, <1>12, Unlocked, InnerStep

(* LockDaily: the tally read is the one locked.                            *)
LEMMA LockDailyStep ==
  ASSUME IInv, NEW v \in Workers, LockDaily(v) PROVE IInv'
<1> DEFINE q == req[v]
           l == [loc[v] EXCEPT
                   !.dailyRemaining = DailyRemaining(earned[q.user][q.day])]
           rows == {Daily(q.user, q.day)}
<1>1. /\ pc[v] = "daily" /\ q.op = "pay" /\ Goto(v, "budget") /\ Set(v, l)
      /\ CanLock(v, Daily(q.user, q.day)) /\ Lock(v, rows)
      /\ UNCHANGED <<tables, nextLedgerId, now, failures, req>>
  BY DEF LockDaily, ReadDaily, Within
<1>2. q \in PayRequest /\ DailyRemaining(earned[q.user][q.day]) \in Nat
  BY <1>1, PayTypes, DailyRemainingIsNat
<1>4. /\ loc[v] \in Local /\ nextLedgerId' \in Nat /\ nextLedgerId' >= nextLedgerId
      /\ failures' \in 0 .. MaxFailures /\ UNCHANGED <<req, tables, now>>
  BY <1>1 DEF IInv, TypeOK
<1>5. UNCHANGED <<payments, redemptions, earned, remaining, balance>>
  BY <1>1 DEF tables
<1>6. Owns(v) /\ Knows(v)
  BY DEF IInv
<1>7. held[v] = KeyOnly(q) /\ ~loc[v].replayed
  BY <1>1, <1>6 DEF Owns, Knows, Working
<1>8. /\ l \in Local /\ l.dailyRemaining = DailyRemaining(earned[q.user][q.day])
      /\ l.amount = loc[v].amount /\ l.replayed = loc[v].replayed
      /\ l.remaining = loc[v].remaining /\ l.balance = loc[v].balance
  BY <1>2, <1>4 DEF Local
<1> HIDE DEF l
<1>9. /\ held' = [held EXCEPT ![v] = held[v] \cup rows]
      /\ held[v] \cup rows \in SUBSET Rows
      /\ \A w \in Workers \ {v} : (held[v] \cup rows) \cap held[w] = {}
  <2>1. rows \subseteq Rows
    BY <1>2, RowTypes DEF AllRows
  <2> QED
    BY <1>1, <2>1, Locked
<1>10. /\ pc'[v] = "budget" /\ req'[v] = q /\ loc'[v] = l
       /\ held'[v] = held[v] \cup rows
  BY <1>1, <1>9 DEF Goto, Set, IInv, TypeOK
<1>11. Owns(v)'
  BY <1>1, <1>2, <1>7, <1>10 DEF Owns, Posted, Writing, KeyOnly, WithDay
<1>12. Knows(v)'
  BY <1>1, <1>5, <1>6, <1>8, <1>10
     DEF Knows, Working, Decided, Posted, Writing, KeyRows, PaymentRows
<1>13. ~Posted(v)' /\ "budget" \in PCs
  BY <1>10 DEF Posted, PCs, InTx
<1> HIDE DEF rows
<1> QED
  BY <1>1, <1>4, <1>8, <1>9, <1>11, <1>12, <1>13, InnerStep

(* LockBudget: the decision is the one the tables call for.                *)
LEMMA LockBudgetStep ==
  ASSUME IInv, NEW v \in Workers, LockBudget(v) PROVE IInv'
<1> DEFINE q == req[v]
           gross == GrossCashback(q.amount)
           daily == loc[v].dailyRemaining
           award == AwardableCashback(gross, daily, remaining)
           status == EarnStatus(q.amount, gross, award, daily, remaining)
           l == [loc[v] EXCEPT !.award = award, !.status = status]
           label == IF award = 0 THEN "readBalance" ELSE "apply"
<1>1. /\ pc[v] = "budget" /\ q.op = "pay" /\ Goto(v, label) /\ Set(v, l)
      /\ CanLock(v, Budget) /\ Lock(v, {Budget})
      /\ UNCHANGED <<tables, nextLedgerId, now, failures, req>>
  BY DEF LockBudget, Decide, Within
<1>2. q \in PayRequest /\ TablesOK /\ q.user \in Users /\ q.amount \in PayAmounts
      /\ q.day \in Days
  BY <1>1, PayTypes, StateTypes
<1>4. /\ loc[v] \in Local /\ nextLedgerId' \in Nat /\ nextLedgerId' >= nextLedgerId
      /\ failures' \in 0 .. MaxFailures /\ UNCHANGED <<req, tables, now>>
  BY <1>1 DEF IInv, TypeOK
<1>5. UNCHANGED <<payments, redemptions, earned, remaining, balance>>
  BY <1>1 DEF tables
<1>6. Owns(v) /\ Knows(v)
  BY DEF IInv
<1>7. held[v] = WithDay(q) /\ gross # 0 /\ daily = DailyRemaining(earned[q.user][q.day])
  BY <1>1, <1>6 DEF Owns, Knows
<1>8. /\ award = AwardFor(q.user, q.amount, q.day)
      /\ status = StatusFor(q.user, q.amount, q.day)
  BY <1>7 DEF AwardFor, StatusFor
<1>9. award \in Nat /\ status \in FinalStatus
  BY <1>2, <1>8, AwardIsNat
<1> HIDE DEF award, status, daily, gross
<1>10. /\ l \in Local /\ l.award = award /\ l.status = status
       /\ l.amount = loc[v].amount /\ l.replayed = loc[v].replayed
       /\ l.remaining = loc[v].remaining /\ l.balance = loc[v].balance
  BY <1>4, <1>9 DEF Local
<1> HIDE DEF l
<1>11. /\ held' = [held EXCEPT ![v] = held[v] \cup {Budget}]
       /\ held[v] \cup {Budget} \in SUBSET Rows
       /\ \A w \in Workers \ {v} : (held[v] \cup {Budget}) \cap held[w] = {}
  <2>1. {Budget} \subseteq Rows
    BY DEF Rows
  <2> QED
    BY <1>1, <2>1, Locked
<1>12. /\ pc'[v] = label /\ req'[v] = q /\ loc'[v] = l
       /\ held'[v] = held[v] \cup {Budget}
  BY <1>1, <1>11 DEF Goto, Set, IInv, TypeOK
<1>13. Owns(v)'
  BY <1>1, <1>2, <1>7, <1>12
     DEF Owns, Posted, Writing, WithDay, Limits, NoAward
<1>14. Knows(v)'
  <2>1. /\ AwardFor(q.user, q.amount, q.day)' = award
        /\ StatusFor(q.user, q.amount, q.day)' = status
    BY <1>1, <1>5, <1>8 DEF AwardFor, StatusFor
  <2>2. Working(v) /\ ~loc[v].replayed
    BY <1>1, <1>6 DEF Knows, Working
  <2>3. KeyRows(v)' = KeyRows(v)
    BY <1>5, <1>12 DEF KeyRows, PaymentRows, RedemptionRows
  <2> QED
    BY <1>1, <1>6, <1>8, <1>9, <1>10, <1>12, <2>1, <2>2, <2>3
       DEF Knows, Working, Decided, Posted, Writing
<1>15. ~Posted(v)' /\ label \in PCs
  BY <1>12 DEF Posted, PCs, InTx
<1> HIDE DEF label
<1> QED
  BY <1>1, <1>4, <1>10, <1>11, <1>13, <1>14, <1>15, InnerStep

(* ApplyAward: the new versions are the old ones moved by the award.       *)
LEMMA ApplyAwardStep ==
  ASSUME IInv, NEW v \in Workers, ApplyAward(v) PROVE IInv'
<1> DEFINE q == req[v]
           e == earned[q.user][q.day] + loc[v].award
           r == remaining - loc[v].award
           b == balance[q.user] + loc[v].award
           l == [loc[v] EXCEPT !.earned = e, !.remaining = r, !.balance = b]
           rows == {Daily(q.user, q.day), Budget, Bal(q.user)}
<1>1. /\ pc[v] = "apply" /\ q.op = "pay" /\ Goto(v, "ledger") /\ Set(v, l)
      /\ \A x \in rows : CanLock(v, x)
      /\ Lock(v, rows)
      /\ UNCHANGED <<tables, nextLedgerId, now, failures, req>>
  BY DEF ApplyAward, Within
<1>2. /\ q \in PayRequest /\ TablesOK /\ q.user \in Users
      /\ q.amount \in PayAmounts /\ q.day \in Days
      /\ earned[q.user][q.day] \in Nat /\ remaining \in Nat /\ balance[q.user] \in Nat
  BY <1>1, PayTypes, StateTypes
<1>4. /\ loc[v] \in Local /\ nextLedgerId' \in Nat /\ nextLedgerId' >= nextLedgerId
      /\ failures' \in 0 .. MaxFailures /\ UNCHANGED <<req, tables, now>>
  BY <1>1 DEF IInv, TypeOK
<1>5. UNCHANGED <<payments, redemptions, earned, remaining, balance>>
  BY <1>1 DEF tables
<1>6. Owns(v) /\ Knows(v)
  BY DEF IInv
<1>7. /\ held[v] = Limits(q) /\ loc[v].award > 0
      /\ loc[v].award = AwardFor(q.user, q.amount, q.day)
  BY <1>1, <1>6 DEF Owns, Knows, Decided
<1>8. loc[v].award \in Nat /\ loc[v].award <= remaining
  BY <1>2, <1>7, AwardIsNat
<1>9. e \in Nat /\ r \in Nat /\ b \in Nat
  BY <1>2, <1>8
<1> HIDE DEF e, r, b
<1>10. l \in Local
  <2>1. r \in Int /\ b \in Int
    BY <1>9
  <2> QED
    BY <1>4, <1>9, <2>1 DEF Local
<1>11. /\ l.award = loc[v].award /\ l.status = loc[v].status
       /\ l.amount = loc[v].amount /\ l.replayed = loc[v].replayed
       /\ l.earned = e /\ l.remaining = r /\ l.balance = b
  BY <1>4 DEF Local
<1> HIDE DEF l
<1>12. /\ held' = [held EXCEPT ![v] = held[v] \cup rows]
       /\ held[v] \cup rows \in SUBSET Rows
       /\ \A w \in Workers \ {v} : (held[v] \cup rows) \cap held[w] = {}
  <2>1. rows \subseteq Rows
    BY <1>2, RowTypes DEF AllRows
  <2> QED
    BY <1>1, <2>1, Locked
<1>13. /\ pc'[v] = "ledger" /\ req'[v] = q /\ loc'[v] = l
       /\ held'[v] = held[v] \cup rows
  BY <1>1, <1>12 DEF Goto, Set, IInv, TypeOK
<1>14. Owns(v)'
  BY <1>1, <1>2, <1>7, <1>13
     DEF Owns, Posted, Writing, Limits, AllRows
<1>15. Knows(v)'
  <2>1. /\ AwardFor(q.user, q.amount, q.day)' = AwardFor(q.user, q.amount, q.day)
        /\ StatusFor(q.user, q.amount, q.day)' = StatusFor(q.user, q.amount, q.day)
    BY <1>1, <1>5 DEF AwardFor, StatusFor
  <2>2. Working(v) /\ ~loc[v].replayed /\ Decided(v)
    BY <1>1, <1>6 DEF Knows, Working, Decided
  <2>3. KeyRows(v)' = KeyRows(v)
    BY <1>5, <1>13 DEF KeyRows, PaymentRows, RedemptionRows
  <2> QED
    BY <1>1, <1>5, <1>6, <1>7, <1>8, <1>9, <1>11, <1>13, <2>1, <2>2, <2>3
       DEF Knows, Working, Decided, Posted, Writing, e, r, b
<1>16. ~Posted(v)' /\ "ledger" \in PCs
  BY <1>13 DEF Posted, PCs, InTx
<1> HIDE DEF rows
<1> QED
  BY <1>1, <1>4, <1>10, <1>12, <1>14, <1>15, <1>16, InnerStep

(* InsertRedemption: a replay, or the owner of the new key.                *)
LEMMA InsertRedemptionStep ==
  ASSUME IInv, NEW v \in Workers, InsertRedemption(v) PROVE IInv'
<1> DEFINE q == req[v]
<1>1. /\ pc[v] = "insert" /\ q.op = "redeem" /\ CanLock(v, Key(q))
      /\ UNCHANGED <<tables, nextLedgerId, now, failures, req>>
  BY DEF InsertRedemption, Within
<1>2. q \in RedeemRequest /\ q.amount \in Nat
  BY <1>1, RedeemTypes
<1>3. held[v] = {} /\ ~loc[v].replayed /\ loc[v].award = 0
  BY <1>1 DEF IInv, Owns, Knows
<1>4. /\ loc[v] \in Local /\ nextLedgerId' \in Nat /\ nextLedgerId' >= nextLedgerId
      /\ failures' \in 0 .. MaxFailures /\ UNCHANGED <<req, tables, now>>
  BY <1>1 DEF IInv, TypeOK
<1>5. loc[v].balance >= 0 /\ loc[v].remaining >= 0
  BY DEF IInv, Knows
<1>6. UNCHANGED <<payments, redemptions, earned, remaining, balance>>
  BY <1>1 DEF tables
<1>7. CASE /\ RedemptionRows(q.user, q.key) # {} /\ Goto(v, "load")
           /\ UNCHANGED <<loc, held>>
  <2>1. pc'[v] = "load" /\ req'[v] = q /\ loc'[v] = loc[v] /\ held'[v] = {}
    BY <1>1, <1>3, <1>7 DEF Goto, IInv, TypeOK
  <2>2. Owns(v)'
    BY <1>2, <2>1 DEF Owns, Posted, Writing
  <2>3. Knows(v)'
    BY <1>1, <1>3, <1>5, <1>6, <1>7, <2>1
       DEF Knows, Working, Decided, Posted, Writing, KeyRows, RedemptionRows
  <2>4. ~Posted(v)' /\ "load" \in PCs
    BY <2>1 DEF Posted, PCs, InTx
  <2> QED
    BY <1>4, <1>7, <2>2, <2>3, <2>4, Unlocked, InnerStep
<1>8. CASE /\ RedemptionRows(q.user, q.key) = {} /\ Lock(v, {Key(q)})
           /\ Set(v, [loc[v] EXCEPT !.amount = q.amount])
           /\ Goto(v, "debit")
  <2> DEFINE l == [loc[v] EXCEPT !.amount = q.amount]
  <2>1. /\ l \in Local /\ l.amount = q.amount
        /\ ~l.replayed /\ l.balance >= 0 /\ l.remaining >= 0
    BY <1>2, <1>3, <1>4, <1>5 DEF Local
  <2>2. {Key(q)} \subseteq Rows
    BY <1>2, RowTypes DEF DebitRows
  <2> HIDE DEF l
  <2>3. /\ held' = [held EXCEPT ![v] = held[v] \cup {Key(q)}]
        /\ held[v] \cup {Key(q)} \in SUBSET Rows
        /\ \A w \in Workers \ {v} : (held[v] \cup {Key(q)}) \cap held[w] = {}
    BY <1>1, <1>8, <2>2, Locked
  <2>4. pc'[v] = "debit" /\ req'[v] = q /\ loc'[v] = l /\ held'[v] = {Key(q)}
    BY <1>1, <1>3, <1>8, <2>3 DEF Goto, Set, IInv, TypeOK, l
  <2>5. Owns(v)'
    BY <1>1, <1>2, <2>4 DEF Owns, Posted, Writing, KeyOnly
  <2>6. Knows(v)'
    BY <1>1, <1>6, <1>8, <2>1, <2>4
       DEF Knows, Working, Decided, Posted, Writing, KeyRows, RedemptionRows
  <2>7. ~Posted(v)' /\ "debit" \in PCs
    BY <2>4 DEF Posted, PCs, InTx
  <2> QED
    BY <1>4, <1>8, <2>1, <2>3, <2>5, <2>6, <2>7, InnerStep DEF l
<1> QED
  BY <1>7, <1>8 DEF InsertRedemption

(* LoadRedemption: what is answered is the stored row.                     *)
LEMMA LoadRedemptionStep ==
  ASSUME IInv, NEW v \in Workers, LoadRedemption(v) PROVE IInv'
<1> DEFINE q == req[v]
<1>1. /\ pc[v] = "load" /\ q.op = "redeem" /\ Goto(v, "commit")
      /\ UNCHANGED <<tables, nextLedgerId, now, failures, req, held>>
  BY DEF LoadRedemption, Within
<1>2. q \in RedeemRequest /\ TablesOK
  BY <1>1, RedeemTypes, StateTypes
<1>3. held[v] = {} /\ loc[v].remaining >= 0
  BY <1>1 DEF IInv, Owns, Knows
<1>4. /\ loc[v] \in Local /\ nextLedgerId' \in Nat /\ nextLedgerId' >= nextLedgerId
      /\ failures' \in 0 .. MaxFailures /\ UNCHANGED <<req, tables, now>>
  BY <1>1 DEF IInv, TypeOK
<1>5. UNCHANGED <<payments, redemptions, earned, remaining, balance>>
  BY <1>1 DEF tables
<1>6. PICK r \in RedemptionRows(q.user, q.key) :
        Set(v, [loc[v] EXCEPT !.amount = r.amount, !.balance = r.balance_after,
                              !.replayed = TRUE])
  BY DEF LoadRedemption
<1> DEFINE l == [loc[v] EXCEPT !.amount = r.amount, !.balance = r.balance_after,
                               !.replayed = TRUE]
<1>7. r.amount \in Nat /\ r.balance_after \in Nat
  BY <1>2, AmountsAreNat DEF TablesOK, RedemptionRows, Redemption
<1>8. /\ l \in Local /\ l.amount = r.amount /\ l.balance = r.balance_after
      /\ l.replayed /\ l.balance >= 0 /\ l.remaining >= 0
  <2>1. r.balance_after \in Int
    BY <1>7
  <2>2. l \in Local
    BY <1>4, <1>7, <2>1 DEF Local
  <2>3. /\ l.amount = r.amount /\ l.balance = r.balance_after
        /\ l.replayed = TRUE /\ l.remaining = loc[v].remaining
    BY <1>4 DEF Local
  <2> QED
    BY <1>3, <1>7, <2>2, <2>3
<1> HIDE DEF l
<1>9. pc'[v] = "commit" /\ req'[v] = q /\ loc'[v] = l /\ held'[v] = {}
  BY <1>1, <1>3, <1>6 DEF Goto, Set, IInv, TypeOK, l
<1>10. Owns(v)'
  BY <1>2, <1>8, <1>9 DEF Owns, Posted, Writing
<1>11. Told(v)'
  BY <1>1, <1>5, <1>6, <1>8, <1>9 DEF Told, RedemptionRows
<1>12. Knows(v)'
  BY <1>8, <1>9, <1>11 DEF Knows, Working, Decided, Posted, Writing
<1>13. ~Posted(v)' /\ "commit" \in PCs
  BY <1>8, <1>9 DEF Posted, PCs, InTx
<1> QED
  BY <1>1, <1>4, <1>6, <1>8, <1>10, <1>12, <1>13, Unlocked, InnerStep DEF l

(* Debit: the new balance is the old one less the amount, not negative.    *)
LEMMA DebitStep ==
  ASSUME IInv, NEW v \in Workers, Debit(v) PROVE IInv'
<1> DEFINE q == req[v]
           b == balance[q.user] - q.amount
           l == [loc[v] EXCEPT !.balance = b]
           rows == {Bal(q.user)}
<1>1. /\ pc[v] = "debit" /\ q.op = "redeem" /\ Goto(v, "ledger") /\ Set(v, l)
      /\ CanLock(v, Bal(q.user)) /\ Lock(v, rows)
      /\ balance[q.user] >= q.amount
      /\ UNCHANGED <<tables, nextLedgerId, now, failures, req>>
  BY DEF Debit, Subtract, Within
<1>2. q \in RedeemRequest /\ q.user \in Users /\ q.amount \in Nat /\ balance[q.user] \in Nat
  BY <1>1, RedeemTypes
<1>4. /\ loc[v] \in Local /\ nextLedgerId' \in Nat /\ nextLedgerId' >= nextLedgerId
      /\ failures' \in 0 .. MaxFailures /\ UNCHANGED <<req, tables, now>>
  BY <1>1 DEF IInv, TypeOK
<1>5. UNCHANGED <<payments, redemptions, earned, remaining, balance>>
  BY <1>1 DEF tables
<1>6. Owns(v) /\ Knows(v)
  BY DEF IInv
<1>7. held[v] = KeyOnly(q)
  BY <1>1, <1>6 DEF Owns
<1>8. b \in Nat
  BY <1>1, <1>2
<1> HIDE DEF b
<1>9. /\ l \in Local /\ l.balance = b
      /\ l.amount = loc[v].amount /\ l.replayed = loc[v].replayed
      /\ l.remaining = loc[v].remaining
  BY <1>4, <1>8 DEF Local
<1> HIDE DEF l
<1>10. /\ held' = [held EXCEPT ![v] = held[v] \cup rows]
       /\ held[v] \cup rows \in SUBSET Rows
       /\ \A w \in Workers \ {v} : (held[v] \cup rows) \cap held[w] = {}
  <2>1. rows \subseteq Rows
    BY <1>2, RowTypes DEF DebitRows
  <2> QED
    BY <1>1, <2>1, Locked
<1>11. /\ pc'[v] = "ledger" /\ req'[v] = q /\ loc'[v] = l
       /\ held'[v] = held[v] \cup rows
  BY <1>1, <1>10 DEF Goto, Set, IInv, TypeOK
<1>12. Owns(v)'
  BY <1>1, <1>2, <1>7, <1>11 DEF Owns, Posted, Writing, KeyOnly, DebitRows
<1>13. Knows(v)'
  <2>1. Working(v) /\ ~loc[v].replayed
    BY <1>1, <1>6 DEF Knows, Working
  <2>2. KeyRows(v)' = KeyRows(v)
    BY <1>5, <1>11 DEF KeyRows, PaymentRows, RedemptionRows
  <2> QED
    BY <1>1, <1>5, <1>6, <1>8, <1>9, <1>11, <2>1, <2>2
       DEF Knows, Working, Decided, Posted, Writing, b
<1>14. ~Posted(v)' /\ "ledger" \in PCs
  BY <1>11 DEF Posted, PCs, InTx
<1> HIDE DEF rows
<1> QED
  BY <1>1, <1>4, <1>9, <1>10, <1>12, <1>13, <1>14, InnerStep

(* InsertLedger: the id is new and above every id of the user.             *)
LEMMA InsertLedgerStep ==
  ASSUME IInv, NEW v \in Workers, InsertLedger(v) PROVE IInv'
<1> DEFINE q == req[v]
           l == [loc[v] EXCEPT !.ledgerId = nextLedgerId]
<1>1. /\ pc[v] = "ledger" /\ Goto(v, "commit") /\ Set(v, l)
      /\ nextLedgerId \in LedgerIds /\ nextLedgerId' = nextLedgerId + 1
      /\ UNCHANGED <<tables, now, failures, req, held>>
  BY DEF InsertLedger, Within
<1>2. q.op \in {"pay", "redeem"}
  BY <1>1, RequestOp
<1>4. /\ loc[v] \in Local /\ nextLedgerId \in Nat
      /\ nextLedgerId' \in Nat /\ nextLedgerId' >= nextLedgerId
      /\ failures' \in 0 .. MaxFailures /\ UNCHANGED <<req, tables, now>>
  BY <1>1 DEF IInv, TypeOK
<1>5. UNCHANGED <<payments, redemptions, earned, remaining, balance>>
  BY <1>1 DEF tables
<1>6. Owns(v) /\ Knows(v)
  BY DEF IInv
<1>7. Working(v) /\ ~loc[v].replayed /\ Writing(v)
  BY <1>1, <1>6 DEF Knows, Working, Writing
<1>8. l \in Local
  BY <1>4 DEF Local
<1>9. /\ l.ledgerId = nextLedgerId
      /\ l.award = loc[v].award /\ l.status = loc[v].status
      /\ l.amount = loc[v].amount /\ l.replayed = loc[v].replayed
      /\ l.earned = loc[v].earned /\ l.remaining = loc[v].remaining
      /\ l.balance = loc[v].balance
  BY <1>4 DEF Local
<1> HIDE DEF l
<1>10. pc'[v] = "commit" /\ req'[v] = q /\ loc'[v] = l /\ held'[v] = held[v]
  BY <1>1 DEF Goto, Set, IInv, TypeOK
<1>11. q.op = "pay" => loc[v].award > 0
  BY <1>1, <1>6 DEF Knows
<1>12. Owns(v)'
  BY <1>1, <1>2, <1>6, <1>7, <1>9, <1>10, <1>11 DEF Owns, Posted, Writing
<1>13. Knows(v)'
  <2>1. KeyRows(v)' = KeyRows(v)
    BY <1>5, <1>10 DEF KeyRows, PaymentRows, RedemptionRows
  <2>2. /\ AwardFor(q.user, q.amount, q.day)' = AwardFor(q.user, q.amount, q.day)
        /\ StatusFor(q.user, q.amount, q.day)' = StatusFor(q.user, q.amount, q.day)
    BY <1>1, <1>5 DEF AwardFor, StatusFor
  <2> QED
    BY <1>1, <1>5, <1>6, <1>7, <1>9, <1>10, <2>1, <2>2
       DEF Knows, Working, Decided, Posted, Writing
<1>14. "commit" \in PCs
  BY DEF PCs, InTx
<1> QED
  BY <1>1, <1>4, <1>8, <1>9, <1>12, <1>13, <1>14, Unlocked, InnerStep

(* A transaction that ends without publishing anything.                    *)
LEMMA RollbackStep ==
  ASSUME IInv, NEW v \in Workers, NEW l \in Local, Answer(v, l),
         pc[v] # "idle", l.balance >= 0, l.remaining >= 0,
         l.outcome = "ok" => Told(v)',
         UNCHANGED <<tables, nextLedgerId, now>>, failures' \in 0 .. MaxFailures
  PROVE  IInv'
<1>1. /\ Goto(v, "done") /\ Set(v, l) /\ held' = [held EXCEPT ![v] = {}]
      /\ UNCHANGED req
  BY DEF Answer
<1>2. pc'[v] = "done" /\ req'[v] = req[v] /\ loc'[v] = l /\ held'[v] = {}
  BY <1>1 DEF Goto, Set, IInv, TypeOK
<1>3. Owns(v)'
  BY <1>2 DEF IInv, Owns, Posted, Writing
<1>4. Knows(v)'
  BY <1>2 DEF Knows, Working, Decided, Posted, Writing
<1>5. ~Posted(v)' /\ "done" \in PCs /\ {} \in SUBSET Rows
  BY <1>2 DEF Posted, PCs
<1>6. nextLedgerId' \in Nat /\ nextLedgerId' >= nextLedgerId
  BY DEF IInv, TypeOK
<1>7. \A w \in Workers \ {v} : {} \cap held[w] = {}
  OBVIOUS
<1> QED
  BY <1>1, <1>3, <1>4, <1>5, <1>6, <1>7, InnerStep

(* Setting the outcome keeps the local record well typed.                  *)
LEMMA WithOutcome ==
  ASSUME IInv, NEW v \in Workers, NEW o \in {"ok", "insufficient", "error"}
  PROVE  LET l == [loc[v] EXCEPT !.outcome = o]
         IN  /\ l \in Local /\ l.outcome = o
             /\ l.balance >= 0 /\ l.remaining >= 0
             /\ l.amount = loc[v].amount /\ l.award = loc[v].award
             /\ l.status = loc[v].status /\ l.balance = loc[v].balance
<1> DEFINE l == [loc[v] EXCEPT !.outcome = o]
<1>1. loc[v] \in Local /\ loc[v].balance >= 0 /\ loc[v].remaining >= 0
  BY DEF IInv, TypeOK, Knows
<1>2. l \in Local
  BY <1>1 DEF Local
<1>3. /\ l.outcome = o /\ l.amount = loc[v].amount /\ l.award = loc[v].award
      /\ l.status = loc[v].status /\ l.balance = loc[v].balance
      /\ l.remaining = loc[v].remaining
  BY <1>1 DEF Local
<1> QED
  BY <1>1, <1>2, <1>3

(* RejectRedeem: the transaction is rolled back.                           *)
LEMMA RejectRedeemStep ==
  ASSUME IInv, NEW v \in Workers, RejectRedeem(v) PROVE IInv'
<1> DEFINE l == [loc[v] EXCEPT !.outcome = "insufficient"]
<1>1. /\ Answer(v, l) /\ pc[v] = "debit"
      /\ UNCHANGED <<tables, nextLedgerId, now, failures>>
  BY DEF RejectRedeem
<1>2. l \in Local /\ l.outcome # "ok" /\ l.balance >= 0 /\ l.remaining >= 0
  BY WithOutcome
<1>3. failures' \in 0 .. MaxFailures
  BY <1>1 DEF IInv, TypeOK
<1> HIDE DEF l
<1> QED
  BY <1>1, <1>2, <1>3, RollbackStep

(* Fail: the transaction is rolled back.                                   *)
LEMMA FailStep ==
  ASSUME IInv, NEW v \in Workers, Fail(v) PROVE IInv'
<1> DEFINE l == [loc[v] EXCEPT !.outcome = "error"]
<1>1. /\ Answer(v, l) /\ pc[v] # "idle"
      /\ UNCHANGED <<tables, nextLedgerId, now>>
  BY DEF Fail, InTx
<1>2. l \in Local /\ l.outcome # "ok" /\ l.balance >= 0 /\ l.remaining >= 0
  BY WithOutcome
<1>3. failures' \in 0 .. MaxFailures
  BY StoreAssumption DEF Fail, IInv, TypeOK
<1> HIDE DEF l
<1> QED
  BY <1>1, <1>2, <1>3, RollbackStep

(* Receive: the request is well typed, its day is that of the clock.       *)
LEMMA ReceiveStep ==
  ASSUME IInv, NEW v \in Workers, Receive(v) PROVE IInv'
<1>1. /\ pc[v] = "idle" /\ Goto(v, "begin")
      /\ UNCHANGED <<tables, nextLedgerId, now, failures, loc, held>>
  BY DEF Receive
<1>2. PICK q \in PayRequest \cup RedeemRequest : req' = [req EXCEPT ![v] = q]
  <2>1. now \in 0 .. MaxNow
    BY DEF IInv, TypeOK
  <2>2. JakartaDay(now) \in Days
    BY <2>1, StoreAssumption
  <2>3. ASSUME NEW u \in Users, NEW k \in Keys, NEW a \in PayAmounts
        PROVE  [op |-> "pay", user |-> u, key |-> k, amount |-> a,
                day |-> JakartaDay(now)] \in PayRequest
    BY <2>2 DEF PayRequest
  <2>4. ASSUME NEW u \in Users, NEW k \in Keys, NEW a \in RedeemAmounts
        PROVE  [op |-> "redeem", user |-> u, key |-> k, amount |-> a] \in RedeemRequest
    BY DEF RedeemRequest
  <2> QED
    BY <2>3, <2>4 DEF Receive
<1>3. /\ pc'[v] = "begin" /\ req'[v] = q /\ loc'[v] = loc[v] /\ held'[v] = held[v]
      /\ \A w \in Workers \ {v} : Same(w)
  BY <1>1, <1>2 DEF Goto, IInv, TypeOK, Same
<1>4. TypeOK'
  <2>1. "begin" \in PCs
    BY DEF PCs
  <2> QED
    BY <1>1, <1>2, <2>1 DEF IInv, TypeOK, TablesOK, tables, Goto
<1>5. Owns(v)'
  BY <1>1, <1>3 DEF IInv, Owns, Posted, Writing
<1>6. Knows(v)'
  BY <1>1, <1>3 DEF IInv, Knows, Working, Decided, Posted, Writing
<1>7. ~Posted(v)'
  BY <1>3 DEF Posted
<1>8. nextLedgerId' >= nextLedgerId
  BY <1>1 DEF IInv, TypeOK
<1>9. \A w \in Workers \ {v} : held'[v] \cap held[w] = {}
  BY <1>3 DEF IInv, Exclusive
<1> QED
  BY <1>1, <1>3, <1>4, <1>5, <1>6, <1>7, <1>8, <1>9, LocalStep

(* The local record of an idle worker is well typed.                       *)
LEMMA NewLocalOK ==
  /\ NewLocal \in Local /\ ~NewLocal.replayed /\ NewLocal.award = 0
  /\ NewLocal.balance >= 0 /\ NewLocal.remaining >= 0
  BY DEF NewLocal, Local

(* Return: the worker is idle again.                                       *)
LEMMA ReturnStep ==
  ASSUME IInv, NEW v \in Workers, Return(v) PROVE IInv'
<1>1. /\ pc[v] = "done" /\ Goto(v, "idle") /\ Set(v, NewLocal)
      /\ req' = [req EXCEPT ![v] = NoRequest]
      /\ UNCHANGED <<tables, nextLedgerId, now, failures, held>>
  BY DEF Return
<1> HIDE DEF NewLocal
<1>3. /\ pc'[v] = "idle" /\ loc'[v] = NewLocal /\ held'[v] = held[v]
      /\ \A w \in Workers \ {v} : Same(w)
  BY <1>1 DEF Goto, Set, IInv, TypeOK, Same
<1>4. TypeOK'
  <2>1. "idle" \in PCs
    BY DEF PCs
  <2> QED
    BY <1>1, <2>1, NewLocalOK DEF IInv, TypeOK, TablesOK, tables, Goto, Set
<1>5. Owns(v)'
  BY <1>1, <1>3 DEF IInv, Owns, Posted, Writing
<1>6. Knows(v)'
  BY <1>1, <1>3, NewLocalOK DEF Knows, Working, Decided, Posted, Writing
<1>7. ~Posted(v)'
  BY <1>3 DEF Posted
<1>8. nextLedgerId' >= nextLedgerId
  BY <1>1 DEF IInv, TypeOK
<1>9. \A w \in Workers \ {v} : held'[v] \cap held[w] = {}
  BY <1>3 DEF IInv, Exclusive
<1> QED
  BY <1>1, <1>3, <1>4, <1>5, <1>6, <1>7, <1>8, <1>9, LocalStep

(* Crash: no worker knows or holds anything.                               *)
LEMMA CrashStep == ASSUME IInv, Crash PROVE IInv'
<1>1. /\ failures < MaxFailures /\ failures' = failures + 1
      /\ pc' = [w \in Workers |-> "idle"] /\ req' = [w \in Workers |-> NoRequest]
      /\ loc' = [w \in Workers |-> NewLocal] /\ held' = [w \in Workers |-> {}]
      /\ UNCHANGED <<tables, nextLedgerId, now>>
  BY DEF Crash
<1> HIDE DEF NewLocal
<1>2. TypeOK'
  BY <1>1, NewLocalOK, StoreAssumption DEF IInv, TypeOK, TablesOK, tables, PCs
<1>3. Exclusive'
  BY <1>1 DEF Exclusive
<1>4. \A w \in Workers : Owns(w)'
  BY <1>1 DEF Owns, Posted, Writing
<1>5. \A w \in Workers : Knows(w)'
  BY <1>1, NewLocalOK DEF Knows, Working, Decided, Posted, Writing
<1>6. Ids'
  BY <1>1 DEF IInv, Ids, Posted, tables
<1> QED
  BY <1>2, <1>3, <1>4, <1>5, <1>6 DEF IInv

(* A clock tick, or no step at all, changes nothing the invariant reads.   *)
LEMMA StutterStep ==
  ASSUME IInv, UNCHANGED <<tables, nextLedgerId, failures, control>>,
         now' \in 0 .. MaxNow
  PROVE  IInv'
<1>1. /\ UNCHANGED <<pc, req, loc, held>>
      /\ UNCHANGED <<payments, redemptions, ledger, earned, remaining, balance>>
  BY DEF control, tables
<1>2. TypeOK'
  BY <1>1 DEF IInv, TypeOK, TablesOK
<1>3. \A w \in Workers : Owns(w)' /\ Knows(w)'
  BY <1>1, SameKeeps DEF IInv, Same
<1>4. Exclusive' /\ Ids'
  BY <1>1 DEF IInv, Exclusive, Ids, Posted, LedgerOf
<1> QED
  BY <1>2, <1>3, <1>4 DEF IInv

-----------------------------------------------------------------------------
(* COMMIT of a first request is one step of the abstract campaign: what    *)
(* the transaction computed is what Campaign computes now.                 *)

Publishes(v) ==
  /\ pc[v] = "commit" /\ ~loc[v].replayed
  /\ \/ req[v].op = "pay" /\ PublishPayment(v)
     \/ req[v].op = "redeem" /\ PublishRedemption(v)

(* Publishing a first-time result is one operation of the campaign.        *)
LEMMA PublishIsCampaignStep ==
  ASSUME IInv, NEW v \in Workers, Publishes(v) PROVE CampaignNext
<1> DEFINE q == req[v]
           l == loc[v]
<1>1. pc[v] = "commit" /\ ~l.replayed /\ Working(v) /\ Knows(v) /\ Ids /\ TablesOK
  BY DEF Publishes, Working, IInv, TypeOK
<1>2. CASE q.op = "pay" /\ PublishPayment(v)
  <2> DEFINE award == AwardFor(q.user, q.amount, q.day)
             status == StatusFor(q.user, q.amount, q.day)
  <2>1. /\ q.user \in Users /\ q.key \in Keys /\ q.amount \in PayAmounts
        /\ q.day \in Days
    BY <1>1, <1>2, PayTypes
  <2>2. /\ l.award = award /\ l.status = status /\ award \in Nat
        /\ PaymentRows(q.user, q.key) = {}
    BY <1>1, <1>2, <2>1, AwardIsNat DEF Knows, Decided, KeyRows
  <2>3. /\ payments' = payments \cup
             {[user |-> q.user, key |-> q.key, amount |-> q.amount,
               cashback_awarded |-> award, status |-> status]}
        /\ UNCHANGED redemptions
    BY <1>2, <2>2 DEF PublishPayment
  <2> HIDE DEF award, status
  <2>4. /\ earned \in [Users -> [Days -> Nat]] /\ remaining \in Nat
        /\ balance \in [Users -> Nat]
    BY <1>1 DEF TablesOK
  <2>5. CASE l.award = 0 /\ UNCHANGED <<ledger, earned, remaining, balance>>
    <3>1. /\ earned' = [earned EXCEPT ![q.user][q.day] = @ + award]
          /\ remaining' = remaining - award
          /\ balance' = [balance EXCEPT ![q.user] = @ + award]
      BY <2>1, <2>2, <2>4, <2>5
    <3>2. Pay(q.user, q.key, q.amount, q.day)
      BY <2>2, <2>3, <2>5, <3>1 DEF Pay, award, status
    <3> QED
      BY <2>1, <3>2 DEF CampaignNext
  <2>6. CASE /\ l.award > 0
             /\ ledger' = ledger \cup {NewEntry(v, "EARN", l.award)}
             /\ earned' = [earned EXCEPT ![q.user][q.day] = l.earned]
             /\ remaining' = l.remaining
             /\ balance' = [balance EXCEPT ![q.user] = l.balance]
    <3>1. Posted(v) /\ Writing(v)
      BY <1>1, <1>2, <2>6 DEF Posted, Writing
    <3>2. /\ l.earned = earned[q.user][q.day] + award
          /\ l.remaining = remaining - award
          /\ l.balance = balance[q.user] + award
      BY <1>1, <1>2, <2>2, <3>1 DEF Knows
    <3>3. /\ earned' = [earned EXCEPT ![q.user][q.day] = @ + award]
          /\ remaining' = remaining - award
          /\ balance' = [balance EXCEPT ![q.user] = @ + award]
      BY <2>6, <3>2
    <3>4. PostEntry(q.user, "EARN", award, balance[q.user] + award, q.key)
      <4>1. /\ l.ledgerId \in LedgerIds
            /\ \A e \in ledger : e.id # l.ledgerId
            /\ \A e \in LedgerOf(q.user) : e.id < l.ledgerId
        BY <1>1, <3>1 DEF Ids
      <4>2. ledger' = ledger \cup
              {[id |-> l.ledgerId, user |-> q.user, entry_type |-> "EARN",
                amount |-> award, balance_after |-> balance[q.user] + award,
                key |-> q.key]}
        BY <2>2, <2>6, <3>2 DEF NewEntry
      <4> QED
        BY <4>1, <4>2 DEF PostEntry
    <3>5. Pay(q.user, q.key, q.amount, q.day)
      BY <2>2, <2>3, <2>6, <3>3, <3>4 DEF Pay, award, status
    <3> QED
      BY <2>1, <3>5 DEF CampaignNext
  <2> QED
    BY <1>2, <2>5, <2>6 DEF PublishPayment
<1>3. CASE q.op = "redeem" /\ PublishRedemption(v)
  <2>1. q.user \in Users /\ q.key \in Keys /\ q.amount \in RedeemAmounts
    BY <1>1, <1>3, RedeemTypes
  <2>2. Posted(v) /\ Writing(v)
    BY <1>1, <1>3 DEF Posted, Writing
  <2>3. /\ balance[q.user] >= q.amount /\ l.balance = balance[q.user] - q.amount
        /\ RedemptionRows(q.user, q.key) = {}
    BY <1>1, <1>3, <2>2 DEF Knows, KeyRows
  <2>4. /\ l.ledgerId \in LedgerIds
        /\ \A e \in ledger : e.id # l.ledgerId
        /\ \A e \in LedgerOf(q.user) : e.id < l.ledgerId
    BY <1>1, <2>2 DEF Ids
  <2>5. PostEntry(q.user, "REDEEM", q.amount, balance[q.user] - q.amount, q.key)
    BY <1>3, <2>3, <2>4 DEF PostEntry, PublishRedemption, NewEntry
  <2>6. RedeemCash(q.user, q.key, q.amount)
    BY <1>3, <2>3, <2>5 DEF RedeemCash, PublishRedemption
  <2> QED
    BY <2>1, <2>6 DEF CampaignNext
<1> QED
  BY <1>2, <1>3 DEF Publishes

(* What a commit leaves alone: every row its transaction does not own.     *)
LEMMA PublishEffects ==
  ASSUME IInv, NEW v \in Workers, Publishes(v)
  PROVE  /\ payments \subseteq payments' /\ redemptions \subseteq redemptions'
         /\ \A u, k : <<"pay", u, k>> \notin held[v]
              => PaymentRows(u, k)' = PaymentRows(u, k)
         /\ \A u, k : <<"redeem", u, k>> \notin held[v]
              => RedemptionRows(u, k)' = RedemptionRows(u, k)
         /\ \A u \in Users, d \in Days :
              Daily(u, d) \notin held[v] => earned'[u][d] = earned[u][d]
         /\ Budget \notin held[v] => UNCHANGED <<earned, remaining>>
         /\ \A u \in Users : Bal(u) \notin held[v] => balance'[u] = balance[u]
         /\ \/ ~Posted(v) /\ ledger' = ledger
            \/ /\ Posted(v)
               /\ Bal(req[v].user) \in held[v]
               /\ \E n : /\ ledger' = ledger \cup {n}
                         /\ n.id = loc[v].ledgerId /\ n.user = req[v].user
<1> DEFINE q == req[v]
           l == loc[v]
<1>1. /\ pc[v] = "commit" /\ ~l.replayed /\ Owns(v) /\ TablesOK
  BY DEF Publishes, IInv, TypeOK
<1>2. CASE q.op = "pay" /\ PublishPayment(v)
  <2>1. q.user \in Users /\ q.key \in Keys /\ q.day \in Days /\ l.award \in Nat
    BY <1>1, <1>2, PayTypes DEF IInv, TypeOK, Local
  <2>2. Key(q) = <<"pay", q.user, q.key>> /\ Key(q) \in held[v]
    BY <1>1, <1>2, <2>1
       DEF Key, Owns, NoAward, Writing, Posted, KeyOnly, Limits, AllRows
  <2>3. PICK p : payments' = payments \cup {p} /\ p.user = q.user /\ p.key = q.key
    <3> DEFINE p == [user |-> q.user, key |-> q.key, amount |-> q.amount,
                     cashback_awarded |-> l.award, status |-> l.status]
    <3>1. p.user = q.user /\ p.key = q.key
      OBVIOUS
    <3>2. payments' = payments \cup {p}
      BY <1>2 DEF PublishPayment
    <3> HIDE DEF p
    <3> QED
      BY <3>1, <3>2
  <2>4. redemptions' = redemptions
    BY <1>2 DEF PublishPayment
  <2>5. \A u, k : <<"pay", u, k>> \notin held[v]
          => PaymentRows(u, k)' = PaymentRows(u, k)
    BY <2>2, <2>3 DEF PaymentRows
  <2>6. CASE l.award = 0 /\ UNCHANGED <<ledger, earned, remaining, balance>>
    BY <1>2, <2>3, <2>4, <2>5, <2>6 DEF RedemptionRows, Posted
  <2>7. CASE /\ l.award > 0
             /\ ledger' = ledger \cup {NewEntry(v, "EARN", l.award)}
             /\ earned' = [earned EXCEPT ![q.user][q.day] = l.earned]
             /\ remaining' = l.remaining
             /\ balance' = [balance EXCEPT ![q.user] = l.balance]
    <3>1. Posted(v) /\ held[v] = AllRows(q)
      BY <1>1, <1>2, <2>7 DEF Owns, Posted, Writing
    <3>2. Daily(q.user, q.day) \in held[v] /\ Budget \in held[v] /\ Bal(q.user) \in held[v]
      BY <3>1 DEF AllRows
    <3>3. \A u \in Users, d \in Days :
            Daily(u, d) \notin held[v] => earned'[u][d] = earned[u][d]
      BY <1>1, <2>7, <3>2 DEF TablesOK
    <3>4. \A u \in Users : Bal(u) \notin held[v] => balance'[u] = balance[u]
      BY <1>1, <2>7, <3>2 DEF TablesOK
    <3>5. \E n : /\ ledger' = ledger \cup {n}
                 /\ n.id = l.ledgerId /\ n.user = q.user
      <4>1. /\ NewEntry(v, "EARN", l.award).id = l.ledgerId
            /\ NewEntry(v, "EARN", l.award).user = q.user
        BY DEF NewEntry
      <4> QED
        BY <2>7, <4>1
    <3> QED
      BY <2>3, <2>4, <2>5, <3>1, <3>2, <3>3, <3>4, <3>5 DEF RedemptionRows
  <2> QED
    BY <1>2, <2>6, <2>7 DEF PublishPayment
<1>3. CASE q.op = "redeem" /\ PublishRedemption(v)
  <2>1. q.user \in Users /\ q.key \in Keys
    BY <1>1, <1>3, RedeemTypes
  <2>2. Posted(v) /\ held[v] = DebitRows(q)
    BY <1>1, <1>3 DEF Owns, Posted, Writing
  <2>3. /\ Key(q) = <<"redeem", q.user, q.key>>
        /\ Key(q) \in held[v] /\ Bal(q.user) \in held[v]
    BY <1>3, <2>2 DEF Key, DebitRows
  <2>4. PICK r : redemptions' = redemptions \cup {r} /\ r.user = q.user /\ r.key = q.key
    <3> DEFINE r == [user |-> q.user, key |-> q.key, amount |-> q.amount,
                     balance_after |-> l.balance]
    <3>1. r.user = q.user /\ r.key = q.key
      OBVIOUS
    <3>2. redemptions' = redemptions \cup {r}
      BY <1>3 DEF PublishRedemption
    <3> HIDE DEF r
    <3> QED
      BY <3>1, <3>2
  <2>5. UNCHANGED <<payments, earned, remaining>>
    BY <1>3 DEF PublishRedemption
  <2>6. \A u, k : <<"redeem", u, k>> \notin held[v]
          => RedemptionRows(u, k)' = RedemptionRows(u, k)
    BY <2>3, <2>4 DEF RedemptionRows
  <2>7. \A u \in Users : Bal(u) \notin held[v] => balance'[u] = balance[u]
    BY <1>1, <1>3, <2>3 DEF PublishRedemption, TablesOK
  <2>8. \E n : /\ ledger' = ledger \cup {n}
               /\ n.id = l.ledgerId /\ n.user = q.user
    <3>1. /\ NewEntry(v, "REDEEM", q.amount).id = l.ledgerId
          /\ NewEntry(v, "REDEEM", q.amount).user = q.user
      BY DEF NewEntry
    <3> QED
      BY <1>3, <3>1 DEF PublishRedemption
  <2> QED
    BY <2>2, <2>3, <2>4, <2>5, <2>6, <2>7, <2>8 DEF PaymentRows
<1> QED
  BY <1>2, <1>3 DEF Publishes

(* Without a gross award there is no award, whatever the limits.           *)
LEMMA ZeroGross ==
  ASSUME NEW daily \in Nat, NEW budget \in Nat
  PROVE  AwardableCashback(0, daily, budget) = 0
  BY DEF AwardableCashback, Lesser

(* What one worker knows survives the commit of another: the rows it       *)
(* depends on are its own.                                                 *)
LEMMA PublishKeepsOthers ==
  ASSUME IInv, TablesOK', NEW v \in Workers, Publishes(v),
         NEW w \in Workers \ {v}, Same(w)
  PROVE  Owns(w)' /\ Knows(w)'
<1> DEFINE q == req[w]
           l == loc[w]
<1>1. Owns(w) /\ Knows(w) /\ held[v] \cap held[w] = {} /\ TablesOK
  BY DEF IInv, TypeOK, Exclusive
<1>2. pc'[w] = pc[w] /\ req'[w] = q /\ loc'[w] = l /\ held'[w] = held[w]
  BY DEF Same
<1>3. Owns(w)'
  BY <1>1, <1>2 DEF Owns, NoAward, Writing, Posted
<1>4. /\ Working(w)' <=> Working(w)
      /\ Decided(w)' <=> Decided(w)
      /\ Writing(w)' <=> Writing(w)
  BY <1>2 DEF Working, Decided, Writing, Posted
<1>5. KeyRows(w) \subseteq KeyRows(w)' /\ (Told(w) => Told(w)')
  BY <1>2, PublishEffects DEF KeyRows, Told, PaymentRows, RedemptionRows
<1>6. Working(w) => KeyRows(w)' = {}
  <2> SUFFICES ASSUME Working(w) PROVE KeyRows(w)' = {}
    OBVIOUS
  <2>1. pc[w] # "idle" /\ KeyRows(w) = {}
    BY <1>1 DEF Working, Knows
  <2>2. q.op \in {"pay", "redeem"}
    BY <2>1, RequestOp
  <2>3. Key(q) \in held[w]
    <3>1. CASE pc[w] \in {"daily", "debit", "budget", "apply", "readBalance", "ledger"}
      BY <1>1, <3>1 DEF Owns, NoAward, Writing, KeyOnly, WithDay, Limits, AllRows,
         DebitRows
    <3>2. CASE pc[w] = "commit" /\ ~l.replayed
      <4>1. l.award \in Nat
        BY DEF IInv, TypeOK, Local
      <4> QED
        BY <1>1, <2>2, <3>2, <4>1 DEF Owns, NoAward, Writing, Posted, KeyOnly,
           Limits, AllRows, DebitRows
    <3> QED
      BY <3>1, <3>2 DEF Working
  <2>4. Key(q) \notin held[v]
    BY <1>1, <2>3
  <2> QED
    BY <1>2, <2>1, <2>2, <2>4, PublishEffects DEF KeyRows, Key
<1>7. pc[w] = "budget" =>
        DailyRemaining(earned[q.user][q.day])' = DailyRemaining(earned[q.user][q.day])
  <2> SUFFICES ASSUME pc[w] = "budget"
               PROVE  DailyRemaining(earned[q.user][q.day])'
                        = DailyRemaining(earned[q.user][q.day])
    OBVIOUS
  <2>1. q.op = "pay" /\ Daily(q.user, q.day) \in held[w]
    BY <1>1 DEF Owns, WithDay
  <2>2. q.user \in Users /\ q.day \in Days
    BY <2>1, PayTypes
  <2>3. earned'[q.user][q.day] = earned[q.user][q.day]
    BY <1>1, <2>1, <2>2, PublishEffects
  <2> QED
    BY <1>2, <2>3
<1>8. Decided(w) =>
        /\ AwardFor(q.user, q.amount, q.day)' = AwardFor(q.user, q.amount, q.day)
        /\ StatusFor(q.user, q.amount, q.day)' = StatusFor(q.user, q.amount, q.day)
  <2> SUFFICES ASSUME Decided(w)
               PROVE  /\ AwardFor(q.user, q.amount, q.day)'
                            = AwardFor(q.user, q.amount, q.day)
                      /\ StatusFor(q.user, q.amount, q.day)'
                            = StatusFor(q.user, q.amount, q.day)
    OBVIOUS
  <2>1. /\ q.op = "pay" /\ q.user \in Users /\ q.day \in Days
        /\ l.award \in Nat
    BY PayTypes DEF Decided, IInv, TypeOK, Local
  <2>2. \/ GrossCashback(q.amount) = 0
        \/ Budget \in held[w]
    BY <1>1, <2>1
       DEF Decided, Owns, NoAward, Writing, Posted, Limits, AllRows
  <2>3. CASE GrossCashback(q.amount) = 0
    <3>1. /\ earned[q.user][q.day] \in Nat /\ remaining \in Nat
          /\ earned'[q.user][q.day] \in Nat /\ remaining' \in Nat
      BY <1>1, <2>1 DEF TablesOK
    <3>2. /\ DailyRemaining(earned[q.user][q.day]) \in Nat
          /\ DailyRemaining(earned'[q.user][q.day]) \in Nat
      BY <3>1, DailyRemainingIsNat
    <3> QED
      BY <1>2, <2>3, <3>1, <3>2, ZeroGross DEF AwardFor, StatusFor
  <2>4. CASE Budget \in held[w]
    <3>1. earned' = earned /\ remaining' = remaining
      BY <1>1, <2>4, PublishEffects
    <3> QED
      BY <1>2, <3>1 DEF AwardFor, StatusFor
  <2> QED
    BY <2>2, <2>3, <2>4
<1>9. Writing(w) => /\ balance'[q.user] = balance[q.user]
                    /\ q.op = "pay" => UNCHANGED <<earned, remaining>>
  <2> SUFFICES ASSUME Writing(w)
               PROVE  /\ balance'[q.user] = balance[q.user]
                      /\ q.op = "pay" => UNCHANGED <<earned, remaining>>
    OBVIOUS
  <2>1. pc[w] # "idle"
    BY DEF Writing, Posted
  <2>2. q.op \in {"pay", "redeem"} /\ q.user \in Users
    BY <2>1, RequestOp, PayTypes, RedeemTypes
  <2>3. /\ Bal(q.user) \in held[w]
        /\ q.op = "pay" => Budget \in held[w]
    BY <1>1, <2>2 DEF Owns, AllRows, DebitRows
  <2> QED
    BY <1>1, <2>2, <2>3, PublishEffects
<1>10. Knows(w)'
  <2> DEFINE A == AwardFor(q.user, q.amount, q.day)
             S == StatusFor(q.user, q.amount, q.day)
  <2>1. Decided(w) => A' = A /\ S' = S
    BY <1>8
  <2>2. Decided(w) => l.award = A /\ l.status = S
    BY <1>1 DEF Knows
  <2>3. /\ req'[w] = req[w]
        /\ AwardFor(req[w].user, req[w].amount, req[w].day)' = A'
        /\ StatusFor(req[w].user, req[w].amount, req[w].day)' = S'
    BY <1>2
  <2> HIDE DEF A, S
  <2> QED
    BY <1>1, <1>2, <1>4, <1>5, <1>6, <1>7, <1>9, <2>1, <2>2, <2>3 DEF Knows
<1> QED
  BY <1>3, <1>10

(* A commit publishes or, for a replay, changes no table.                  *)
LEMMA CommitShape ==
  ASSUME IInv, NEW v \in Workers, Commit(v)
  PROVE  /\ pc[v] = "commit"
         /\ \/ loc[v].replayed /\ UNCHANGED tables
            \/ Publishes(v)
         /\ \E o \in {"ok", "error"} : Answer(v, [loc[v] EXCEPT !.outcome = o])
         /\ failures' \in 0 .. MaxFailures
         /\ UNCHANGED <<nextLedgerId, now>>
<1>1. failures \in 0 .. MaxFailures
  BY DEF IInv, TypeOK
<1>2. failures' \in 0 .. MaxFailures
  BY <1>1, StoreAssumption DEF Commit
<1> QED
  BY <1>2 DEF Commit, Publishes

(* Commit: rows are published and given back in one step.                  *)
LEMMA CommitStep ==
  ASSUME IInv, NEW v \in Workers, Commit(v) PROVE IInv'
<1>1. PICK o \in {"ok", "error"} : Answer(v, [loc[v] EXCEPT !.outcome = o])
  BY CommitShape
<1> DEFINE l == [loc[v] EXCEPT !.outcome = o]
           q == req[v]
<1>2. /\ l \in Local /\ l.balance >= 0 /\ l.remaining >= 0
      /\ l.amount = loc[v].amount /\ l.award = loc[v].award
      /\ l.status = loc[v].status /\ l.balance = loc[v].balance
  <2>1. o \in {"ok", "insufficient", "error"}
    OBVIOUS
  <2> QED
    BY <2>1, WithOutcome, Zenon
<1>3. /\ pc[v] = "commit" /\ failures' \in 0 .. MaxFailures
      /\ UNCHANGED <<nextLedgerId, now>>
  BY CommitShape
<1>4. Answer(v, l)
  BY <1>1
<1> HIDE DEF l
<1>5. /\ pc'[v] = "done" /\ req'[v] = q /\ loc'[v] = l /\ held'[v] = {}
      /\ \A w \in Workers \ {v} : Same(w)
  BY <1>4 DEF Answer, Goto, Set, IInv, TypeOK, Same
<1>6. CASE loc[v].replayed /\ UNCHANGED tables
  <2>1. Told(v)
    BY <1>3, <1>6 DEF IInv, Knows
  <2>2. Told(v)'
    BY <1>2, <1>5, <1>6, <2>1 DEF Told, PaymentRows, RedemptionRows, tables
  <2> QED
    BY <1>2, <1>3, <1>4, <1>6, <2>2, RollbackStep
<1>7. CASE Publishes(v)
  <2>1. TablesOK'
    BY <1>7, PublishIsCampaignStep, TablesStep DEF IInv, TypeOK
  <2>2. TypeOK'
    <3>1. "done" \in PCs /\ {} \in SUBSET Rows
      BY DEF PCs
    <3> QED
      BY <1>2, <1>3, <1>4, <2>1, <3>1 DEF IInv, TypeOK, Answer, Goto, Set
  <2>3. Exclusive'
    BY <1>5 DEF IInv, Exclusive, Same
  <2>4. \A w \in Workers \ {v} : Owns(w)' /\ Knows(w)'
    BY <1>5, <1>7, <2>1, PublishKeepsOthers
  <2>5. Told(v)'
    <3>1. loc[v].amount = q.amount
      BY <1>7 DEF Publishes, IInv, Knows, Working
    <3>2. CASE q.op = "pay" /\ PublishPayment(v)
      <4> DEFINE p == [user |-> q.user, key |-> q.key, amount |-> q.amount,
                       cashback_awarded |-> loc[v].award, status |-> loc[v].status]
      <4>1. p \in payments'
        BY <3>2 DEF PublishPayment
      <4>2. /\ p.user = q.user /\ p.key = q.key /\ p.amount = q.amount
            /\ p.cashback_awarded = loc[v].award /\ p.status = loc[v].status
        OBVIOUS
      <4> HIDE DEF p
      <4> QED
        BY <1>2, <1>5, <3>1, <3>2, <4>1, <4>2 DEF Told, PaymentRows
    <3>3. CASE q.op = "redeem" /\ PublishRedemption(v)
      <4> DEFINE r == [user |-> q.user, key |-> q.key, amount |-> q.amount,
                       balance_after |-> loc[v].balance]
      <4>1. r \in redemptions'
        BY <3>3 DEF PublishRedemption
      <4>2. /\ r.user = q.user /\ r.key = q.key /\ r.amount = q.amount
            /\ r.balance_after = loc[v].balance
        OBVIOUS
      <4> HIDE DEF r
      <4> QED
        BY <1>2, <1>5, <3>1, <3>3, <4>1, <4>2 DEF Told, RedemptionRows
    <3> QED
      BY <1>7, <3>2, <3>3 DEF Publishes
  <2>6. Owns(v)' /\ Knows(v)'
    <3>1. Owns(v)'
      BY <1>3, <1>5 DEF IInv, Owns, Posted, Writing
    <3>2. Knows(v)'
      BY <1>2, <1>5, <2>5 DEF Knows, Working, Decided, Posted, Writing
    <3> QED
      BY <3>1, <3>2
  <2>7. Ids'
    <3>1. ~Posted(v)'
      BY <1>5 DEF Posted
    <3>2. \A w \in Workers \ {v} :
            /\ Posted(w)' <=> Posted(w)
            /\ loc'[w] = loc[w] /\ req'[w] = req[w]
      BY <1>5 DEF Same, Posted
    <3>3. CASE ~Posted(v) /\ ledger' = ledger
      BY <1>3, <3>1, <3>2, <3>3 DEF IInv, Ids, LedgerOf
    <3>4. ASSUME Posted(v), Bal(q.user) \in held[v], NEW n,
                 ledger' = ledger \cup {n}, n.id = loc[v].ledgerId, n.user = q.user
          PROVE  Ids'
      <4>1. \A e \in ledger' : e.id < nextLedgerId'
        BY <1>3, <3>4 DEF IInv, Ids
      <4>2. ASSUME NEW w \in Workers, Posted(w)'
            PROVE  /\ loc'[w].ledgerId \in LedgerIds
                   /\ loc'[w].ledgerId < nextLedgerId'
                   /\ \A e \in ledger' : e.id # loc'[w].ledgerId
                   /\ \A e \in LedgerOf(req[w].user)' : e.id < loc'[w].ledgerId
                   /\ \A x \in Workers :
                        x # w /\ Posted(x)' => loc'[x].ledgerId # loc'[w].ledgerId
        <5>1. w # v /\ Posted(w) /\ loc'[w] = loc[w] /\ req'[w] = req[w]
          BY <3>1, <3>2, <4>2
        <5>2. Bal(req[w].user) \in held[w]
          <6>1. pc[w] # "idle" /\ Writing(w)
            BY <5>1 DEF Posted, Writing
          <6> QED
            BY <6>1, RequestOp DEF IInv, Owns, AllRows, DebitRows
        <5>3. req[w].user # q.user
          BY <3>4, <5>1, <5>2 DEF IInv, Exclusive
        <5>4. LedgerOf(req[w].user)' = LedgerOf(req[w].user)
          BY <3>4, <5>1, <5>3 DEF LedgerOf
        <5>5. loc[v].ledgerId # loc[w].ledgerId
          BY <3>4, <5>1 DEF IInv, Ids
        <5>6. \A x \in Workers :
                x # w /\ Posted(x)' => loc'[x].ledgerId # loc'[w].ledgerId
          BY <3>1, <3>2, <5>1 DEF IInv, Ids
        <5> QED
          BY <1>3, <3>4, <5>1, <5>4, <5>5, <5>6 DEF IInv, Ids
      <4> QED
        BY <4>1, <4>2 DEF Ids
    <3> QED
      BY <1>7, <3>3, <3>4, PublishEffects
  <2> QED
    BY <2>2, <2>3, <2>4, <2>6, <2>7 DEF IInv
<1> QED
  BY <1>6, <1>7, CommitShape

-----------------------------------------------------------------------------
(* The invariant and its consequences.                                     *)

(* The empty campaign with idle workers satisfies the invariant.           *)
LEMMA IInvInit == Init => IInv
<1> SUFFICES ASSUME Init PROVE IInv
  OBVIOUS
<1> HIDE DEF NewLocal
<1>1. TypeOK
  <2>1. TablesOK
    BY TablesInit DEF Init
  <2>2. "idle" \in PCs /\ 0 \in 0 .. MaxNow /\ 0 \in 0 .. MaxFailures
    BY StoreAssumption DEF PCs
  <2> QED
    BY <2>1, <2>2, NewLocalOK DEF Init, TypeOK
<1>2. Exclusive
  BY DEF Init, Exclusive
<1>3. \A w \in Workers : Owns(w)
  BY DEF Init, Owns, Posted, Writing
<1>4. \A w \in Workers : Knows(w)
  BY NewLocalOK DEF Init, Knows, Working, Decided, Posted, Writing
<1>5. Ids
  BY DEF Init, CampaignInit, Ids, Posted
<1> QED
  BY <1>1, <1>2, <1>3, <1>4, <1>5 DEF IInv

(* Every step keeps the invariant: one lemma per action.                   *)
LEMMA IInvStep == IInv /\ [Next]_vars => IInv'
<1> SUFFICES ASSUME IInv, [Next]_vars PROVE IInv'
  OBVIOUS
<1>1. ASSUME NEW w \in Workers, Receive(w) \/ Serve(w) \/ Fail(w)
      PROVE  IInv'
  BY <1>1, ReceiveStep, BeginStep, InsertPaymentStep, LoadPaymentStep,
     ReadBalanceStep, LockDailyStep, LockBudgetStep, ApplyAwardStep,
     InsertRedemptionStep, LoadRedemptionStep, DebitStep, RejectRedeemStep,
     InsertLedgerStep, CommitStep, ReturnStep, FailStep DEF Serve
<1>2. ASSUME Crash PROVE IInv'
  BY <1>2, CrashStep
<1>3. ASSUME Tick PROVE IInv'
  <2>1. now' \in 0 .. MaxNow
    BY <1>3, StoreAssumption DEF Tick, IInv, TypeOK
  <2> QED
    BY <1>3, <2>1, StutterStep DEF Tick
<1>4. CASE UNCHANGED vars
  <2>1. now' \in 0 .. MaxNow
    BY <1>4 DEF vars, IInv, TypeOK
  <2> QED
    BY <1>4, <2>1, StutterStep DEF vars
<1> QED
  BY <1>1, <1>2, <1>3, <1>4 DEF Next

(* The inductive invariant holds in every reachable state.                 *)
LEMMA Invariance == Spec => []IInv
  BY IInvInit, IInvStep, PTL DEF Spec

(* Every variable keeps its type: remaining and every balance stay         *)
(* non-negative although a commit installs the versions a transaction      *)
(* computed earlier.                                                       *)
THEOREM TypeCorrect == Spec => []TypeOK
<1>1. IInv => TypeOK
  BY DEF IInv
<1> QED
  BY <1>1, Invariance, PTL

(* Every step of the interleaved transactions is one step of the abstract  *)
(* campaign, or leaves the committed tables alone.                         *)
LEMMA StepRefines == IInv /\ [Next]_vars => [CampaignNext]_tables
<1> SUFFICES ASSUME IInv, [Next]_vars PROVE [CampaignNext]_tables
  OBVIOUS
<1>1. ASSUME NEW w \in Workers, Commit(w) PROVE [CampaignNext]_tables
  BY <1>1, CommitShape, PublishIsCampaignStep
<1>2. ASSUME NEW w \in Workers, Receive(w) \/ Serve(w) \/ Fail(w), ~Commit(w)
      PROVE  UNCHANGED tables
  BY <1>2 DEF Receive, Serve, Fail, Begin, InsertPayment, LoadPayment,
     ReadBalance, LockDaily, ReadDaily, LockBudget, Decide, ApplyAward, InsertRedemption,
     LoadRedemption, Debit, Subtract, RejectRedeem, InsertLedger, Return, Within
<1>3. CASE Crash \/ Tick
  BY <1>3 DEF Crash, Tick
<1>4. CASE UNCHANGED vars
  BY <1>4 DEF vars
<1> QED
  BY <1>1, <1>2, <1>3, <1>4 DEF Next

(* For any number of workers, users, keys and connections, the interleaved *)
(* statements of ProcessPayment and Redeem, with failures and crashes,     *)
(* behave like the two atomic operations of module Campaign.               *)
THEOREM StoreImplementsCampaign == Spec => CampaignSpec
<1>1. Init => CampaignInit
  BY DEF Init
<1> QED
  BY <1>1, Invariance, StepRefines, PTL DEF Spec, CampaignSpec

(* The tables of Store inherit what is proved of Campaign: one award and   *)
(* one redemption per key, the daily cap, a ledger that matches its        *)
(* sources and adds up to the balances, limits used up exactly.            *)
THEOREM TablesConsistent ==
  Spec => [](/\ DailyCapHeld
             /\ OncePerKey
             /\ LedgerMatchesSources
             /\ RunningBalance
             /\ ShortAwardUsesUpLimit)
<1>1. CampaignInv => /\ DailyCapHeld
                     /\ OncePerKey
                     /\ LedgerMatchesSources
                     /\ RunningBalance
                     /\ ShortAwardUsesUpLimit
  BY DEF CampaignInv
<1> QED
  BY <1>1, StoreImplementsCampaign, CampaignAlwaysConsistent, PTL

(* Each conjunct by itself, as the runs check it: a key is paid and        *)
(* redeemed at most once, ...                                              *)
THEOREM KeysWorkOnce == Spec => []OncePerKey
  BY TablesConsistent, PTL

(* ... nobody earns more than the cap in a day, ...                        *)
THEOREM CapHolds == Spec => []DailyCapHeld
  BY TablesConsistent, PTL

(* ... every ledger entry has its payment or redemption and the other way  *)
(* round, ...                                                              *)
THEOREM LedgerComplete == Spec => []LedgerMatchesSources
  BY TablesConsistent, PTL

(* ... the entries of a user add up, one by one, to the balance, ...       *)
THEOREM BalanceRuns == Spec => []RunningBalance
  BY TablesConsistent, PTL

(* ... and an award that a limit cut short left nothing of that limit.     *)
THEOREM ShortAwardsExplained == Spec => []ShortAwardUsesUpLimit
  BY TablesConsistent, PTL

(* Budget spent, daily tallies, payments and balances are the same sums    *)
(* over the ledger after every commit, although each commit overwrites     *)
(* every one of them with what it computed before.                         *)
THEOREM StoreReconciles == Spec => []CountersReconcile
  BY StoreImplementsCampaign, CampaignReconciles, PTL

(* Committed rows stay as they are and the budget only falls, although     *)
(* each commit overwrites the counters with what it computed before.       *)
THEOREM StoreRowsAreFinal == Spec => RowsAreFinal
  BY StoreImplementsCampaign, CampaignRowsAreFinal, PTL

(* What a transaction decided under its locks is still true when it        *)
(* writes and commits.                                                     *)
THEOREM DecisionsStayTrue == Spec => []ReadsStayTrue
<1>1. IInv => ReadsStayTrue
  <2> SUFFICES ASSUME IInv, NEW w \in Workers
               PROVE  /\ pc[w] \in {"apply", "ledger"} /\ req[w].op = "pay" =>
                           /\ loc[w].award
                                = AwardFor(req[w].user, req[w].amount, req[w].day)
                           /\ loc[w].status
                                = StatusFor(req[w].user, req[w].amount, req[w].day)
                      /\ pc[w] = "ledger" =>
                           loc[w].balance =
                             IF req[w].op = "pay"
                             THEN balance[req[w].user] + loc[w].award
                             ELSE balance[req[w].user] - req[w].amount
    BY DEF ReadsStayTrue
  <2>1. pc[w] = "ledger" => req[w].op \in {"pay", "redeem"}
    BY RequestOp
  <2> QED
    BY <2>1 DEF IInv, Knows, Decided, Writing
<1> QED
  BY <1>1, Invariance, PTL

(* No update in flight would make the budget or a balance negative: the    *)
(* CHECK constraints never fire.                                           *)
THEOREM ChecksAlwaysHold == Spec => []ChecksNeverTrip
<1>1. IInv => ChecksNeverTrip
  BY DEF IInv, Knows, ChecksNeverTrip
<1> QED
  BY <1>1, Invariance, PTL

(* A client told "ok" was told what the tables say.                        *)
THEOREM AnswersAreDurable == Spec => []AnswerMatchesRow
<1>1. IInv => AnswerMatchesRow
  BY DEF IInv, Knows, Told, AnswerMatchesRow
<1> QED
  BY <1>1, Invariance, PTL

-----------------------------------------------------------------------------
(* Deadlock freedom of the row locks.                                      *)

(* The rank of each kind of row.                                           *)
LEMMA RowRanks ==
  /\ \A q : q.op \in {"pay", "redeem"} => Rank(Key(q)) = 1
  /\ \A u, d : Rank(Daily(u, d)) = 2
  /\ Rank(Budget) = 3
  /\ \A u : Rank(Bal(u)) = 4
<1>1. ASSUME NEW q, q.op \in {"pay", "redeem"} PROVE Rank(Key(q)) = 1
  <2>1. Key(q)[1] \in {"pay", "redeem"}
    BY <1>1 DEF Key
  <2> HIDE DEF Key
  <2> QED
    BY <2>1 DEF Rank
<1>2. ASSUME NEW u, NEW d PROVE Rank(Daily(u, d)) = 2
  <2>1. Daily(u, d)[1] = "daily"
    BY DEF Daily
  <2> QED
    BY <2>1 DEF Rank
<1>3. Rank(Budget) = 3
  <2>1. Budget[1] = "budget"
    BY DEF Budget
  <2> QED
    BY <2>1 DEF Rank
<1>4. ASSUME NEW u PROVE Rank(Bal(u)) = 4
  <2>1. Bal(u)[1] = "balance"
    BY DEF Bal
  <2> QED
    BY <2>1 DEF Rank
<1> QED
  BY <1>1, <1>2, <1>3, <1>4

(* What a transaction holds at each statement ranks below what it asks for.*)
LEMMA OrderFromInv == IInv => LockOrder
<1> SUFFICES ASSUME IInv, NEW w \in Workers, NEW r \in Wanted(w) \ held[w],
                    NEW s \in held[w]
             PROVE  Rank(s) < Rank(r)
  BY DEF LockOrder
<1>1. Owns(w)
  BY DEF IInv
<1>2. CASE pc[w] = "daily"
  <2>1. req[w].op = "pay" /\ s = Key(req[w]) /\ r = Daily(req[w].user, req[w].day)
    BY <1>1, <1>2 DEF Owns, KeyOnly, Wanted
  <2> QED
    BY <2>1, RowRanks
<1>3. CASE pc[w] = "budget"
  <2>1. /\ req[w].op = "pay" /\ r = Budget
        /\ s \in {Key(req[w]), Daily(req[w].user, req[w].day)}
    BY <1>1, <1>3 DEF Owns, WithDay, Wanted
  <2> QED
    BY <2>1, RowRanks
<1>4. CASE pc[w] = "apply"
  <2>1. /\ req[w].op = "pay" /\ held[w] = Limits(req[w])
        /\ r \in {Daily(req[w].user, req[w].day), Budget, Bal(req[w].user)}
    BY <1>1, <1>4 DEF Owns, Wanted
  <2>2. r = Bal(req[w].user)
    BY <2>1 DEF Limits
  <2>3. s \in {Key(req[w]), Daily(req[w].user, req[w].day), Budget}
    BY <2>1 DEF Limits
  <2> QED
    BY <2>1, <2>2, <2>3, RowRanks
<1>5. CASE pc[w] = "debit"
  <2>1. req[w].op = "redeem" /\ s = Key(req[w]) /\ r = Bal(req[w].user)
    BY <1>1, <1>5 DEF Owns, KeyOnly, Wanted
  <2> QED
    BY <2>1, RowRanks
<1>6. CASE pc[w] \notin {"daily", "budget", "apply", "debit"}
  BY <1>1, <1>6 DEF Owns, Wanted
<1> QED
  BY <1>2, <1>3, <1>4, <1>5, <1>6

(* Every transaction takes its rows in one order.                          *)
THEOREM LocksAreOrdered == Spec => []LockOrder
  BY OrderFromInv, Invariance, PTL

(* Following the waits inside a group of blocked transactions climbs the   *)
(* ranks, and there are only four.                                         *)
LEMMA NoCycleFromInv == IInv => NoWaitCycle
<1> SUFFICES ASSUME IInv, NEW S \in (SUBSET Workers) \ {{}},
                    ~(\E w \in S : \A v \in S \ {w} : Wanted(w) \cap held[v] = {})
             PROVE  FALSE
  BY DEF NoWaitCycle
<1> DEFINE WaitsAt(n) ==
      \E w \in S, v \in S : \E r \in Wanted(w) \cap held[v] :
        r \notin held[w] /\ Rank(r) >= n
<1>1. \A w \in Workers : \A r \in Wanted(w) : Rank(r) \in 1 .. 4
  <2> SUFFICES ASSUME NEW w \in Workers, NEW r \in Wanted(w)
               PROVE  Rank(r) \in 1 .. 4
    OBVIOUS
  <2>1. /\ pc[w] \in {"insert", "daily", "budget", "apply", "debit"}
        /\ r \in {Key(req[w]), Daily(req[w].user, req[w].day), Budget, Bal(req[w].user)}
    BY DEF Wanted
  <2>2. req[w].op \in {"pay", "redeem"}
    BY <2>1, RequestOp
  <2> QED
    BY <2>1, <2>2, RowRanks
<1>2. ASSUME NEW w \in S
      PROVE  \E v \in S : \E r \in Wanted(w) \cap held[v] : r \notin held[w]
  BY DEF IInv, Exclusive
<1>3. WaitsAt(1)
  <2>1. \E w \in S : TRUE
    <3>1. S # {}
      OBVIOUS
    <3> QED
      BY <3>1, Zenon
  <2> PICK w \in S : TRUE
    BY <2>1
  <2>2. PICK v \in S : \E r \in Wanted(w) \cap held[v] : r \notin held[w]
    BY <1>2
  <2> PICK r \in Wanted(w) \cap held[v] : r \notin held[w]
    BY <2>2
  <2>3. Rank(r) >= 1
    BY <1>1
  <2> QED
    BY <2>3
<1>4. ASSUME NEW n \in 1 .. 4, WaitsAt(n) PROVE WaitsAt(n + 1)
  <2>1. PICK w \in S, v \in S :
          \E r \in Wanted(w) \cap held[v] : r \notin held[w] /\ Rank(r) >= n
    BY <1>4
  <2> PICK r \in Wanted(w) \cap held[v] : r \notin held[w] /\ Rank(r) >= n
    BY <2>1
  <2>2. PICK u \in S : \E s \in Wanted(v) \cap held[u] : s \notin held[v]
    BY <1>2
  <2> PICK s \in Wanted(v) \cap held[u] : s \notin held[v]
    BY <2>2
  <2>3. Rank(r) < Rank(s)
    BY <2>2, OrderFromInv DEF LockOrder
  <2>4. Rank(s) >= n + 1
    BY <1>1, <2>2, <2>3
  <2> QED
    BY <2>2, <2>4
<1>5. ~WaitsAt(5)
  BY <1>1
<1> HIDE DEF WaitsAt
<1>6. WaitsAt(2)
  BY <1>3, <1>4, 1 + 1 = 2
<1>7. WaitsAt(3)
  BY <1>6, <1>4, 2 + 1 = 3
<1>8. WaitsAt(4)
  BY <1>7, <1>4, 3 + 1 = 4
<1>9. WaitsAt(5)
  BY <1>8, <1>4, 4 + 1 = 5
<1> QED
  BY <1>5, <1>9

(* The row locks never deadlock, with any number of workers.               *)
THEOREM NeverDeadlocked == Spec => []NoWaitCycle
  BY NoCycleFromInv, Invariance, PTL

-----------------------------------------------------------------------------
(* The balance an answer carries is read without a lock, or read before    *)
(* other transactions commit.  What keeps it true is the history: the      *)
(* balance is always that of the last entry (LatestIsBalance), entries     *)
(* stay, and the payment's own entry is there before a replay reads.       *)

(* The user had this balance, and not before the award under the key.      *)
WasBalance(u, k, b) ==
  \/ \E e \in LedgerOf(u) :
       e.balance_after = b /\ \A o \in EarnsUnder(u, k) : o.id <= e.id
  \/ EarnsUnder(u, k) = {} /\ b = 0

(* What each worker's answer says, or is going to say.                     *)
Heard(w) ==
  LET q == req[w]
      l == loc[w]
      told == \/ pc[w] = "commit" /\ l.replayed
              \/ pc[w] = "commit" /\ l.award = 0
              \/ pc[w] = "done" /\ l.outcome = "ok"
  IN  q.op = "pay" /\ told => WasBalance(q.user, q.key, l.balance)

BalanceInv ==
  /\ IInv
  /\ CampaignInv
  /\ LatestIsBalance
  /\ \A w \in Workers : Heard(w)

(* The balance of now is one.                                              *)
LEMMA BalanceNow ==
  ASSUME LatestIsBalance, NEW u \in Users, NEW k
  PROVE  WasBalance(u, k, balance[u])
  BY DEF LatestIsBalance, WasBalance, EarnsUnder

(* A balance the user had stays one as long as no award under the key is   *)
(* added.                                                                  *)
LEMMA WasBalanceKept ==
  ASSUME ledger \subseteq ledger', NEW u, NEW k, NEW b, WasBalance(u, k, b),
         EarnsUnder(u, k)' = EarnsUnder(u, k)
  PROVE  WasBalance(u, k, b)'
  BY DEF WasBalance, LedgerOf

(* The same as long as there is none.                                      *)
LEMMA NoOwnAwardYet ==
  ASSUME [CampaignNext]_tables, LedgerMatchesSources, LedgerMatchesSources',
         NEW u, NEW k, PaymentRows(u, k)' = {}
  PROVE  EarnsUnder(u, k)' = EarnsUnder(u, k)
<1>1. EarnsUnder(u, k)' = {}
  BY DEF LedgerMatchesSources, EarnsUnder, LedgerOf
<1>2. CASE PaymentRows(u, k) = {}
  BY <1>1, <1>2, EarnsHavePayment
<1>3. CASE PaymentRows(u, k) # {}
  BY <1>3, EarnsFixed
<1> QED
  BY <1>2, <1>3

(* A worker that does not move: its payment is there, or nobody else can   *)
(* add it.                                                                 *)
LEMMA HeardKept ==
  ASSUME BalanceInv, IInv', CampaignInv', [CampaignNext]_tables,
         NEW w \in Workers, Same(w)
  PROVE  Heard(w)'
<1> DEFINE q == req[w]
           l == loc[w]
<1>1. /\ TablesOK /\ LedgerMatchesSources /\ LedgerMatchesSources'
      /\ Knows(w) /\ Knows(w)' /\ Heard(w)
  BY DEF BalanceInv, IInv, CampaignInv
<1>2. ledger \subseteq ledger'
  BY <1>1, RowsGrow
<1>3. req'[w] = q /\ loc'[w] = l /\ pc'[w] = pc[w]
  BY DEF Same
<1>4. PICK u, k, b : u = q.user /\ k = q.key /\ b = l.balance
  OBVIOUS
<1> SUFFICES ASSUME q.op = "pay",
                    \/ pc[w] = "commit" /\ l.replayed
                    \/ pc[w] = "commit" /\ l.award = 0
                    \/ pc[w] = "done" /\ l.outcome = "ok"
             PROVE  WasBalance(u, k, b)'
  BY <1>3, <1>4 DEF Heard, WasBalance, EarnsUnder, LedgerOf
<1>5. WasBalance(u, k, b)
  BY <1>1, <1>4 DEF Heard
<1>6. EarnsUnder(u, k)' = EarnsUnder(u, k)
  <2>1. CASE pc[w] = "commit" /\ ~l.replayed
    <3>1. PaymentRows(u, k)' = {}
      BY <1>1, <1>3, <1>4, <2>1 DEF Knows, Working, KeyRows, PaymentRows
    <3> QED
      BY <1>1, <3>1, NoOwnAwardYet
  <2>2. CASE \/ pc[w] = "commit" /\ l.replayed
             \/ pc[w] = "done" /\ l.outcome = "ok"
    <3>1. PaymentRows(u, k) # {}
      BY <1>1, <1>4, <2>2 DEF Knows, Told
    <3> QED
      BY <3>1, EarnsFixed
  <2> QED
    BY <2>1, <2>2
<1> QED
  BY <1>2, <1>5, <1>6, WasBalanceKept

(* A step of one worker leaves the others where they are.                  *)
LEMMA OneMoves ==
  ASSUME TypeOK, NEW v \in Workers, Receive(v) \/ Serve(v) \/ Fail(v),
         NEW w \in Workers \ {v}
  PROVE  Same(w)
<1>1. /\ pc \in [Workers -> PCs] /\ loc \in [Workers -> Local]
      /\ held \in [Workers -> SUBSET Rows]
      /\ DOMAIN req = Workers
  BY DEF TypeOK
<1> USE <1>1 DEF Goto, Set, Lock, Same
<1>2. CASE Receive(v)
  BY <1>2 DEF Receive
<1>3. CASE Begin(v) \/ Return(v)
  BY <1>3 DEF Begin, Return
<1>4. CASE InsertPayment(v)
  BY <1>4 DEF InsertPayment, Within
<1>5. CASE LoadPayment(v) \/ ReadBalance(v)
  BY <1>5 DEF LoadPayment, ReadBalance, Within
<1>6. CASE LockDaily(v) \/ LockBudget(v)
  BY <1>6 DEF LockDaily, ReadDaily, LockBudget, Decide, Within
<1>7. CASE ApplyAward(v)
  BY <1>7 DEF ApplyAward, Within
<1>8. CASE InsertRedemption(v) \/ LoadRedemption(v)
  BY <1>8 DEF InsertRedemption, LoadRedemption, Within
<1>9. CASE Debit(v) \/ InsertLedger(v)
  BY <1>9 DEF Debit, Subtract, InsertLedger, Within
<1>10. CASE RejectRedeem(v) \/ Commit(v) \/ Fail(v)
  BY <1>10 DEF RejectRedeem, Commit, Fail, Answer
<1> QED
  BY <1>2, <1>3, <1>4, <1>5, <1>6, <1>7, <1>8, <1>9, <1>10 DEF Serve

(* A commit tells the balance read before, or the one it writes.           *)
LEMMA HeardCommit ==
  ASSUME BalanceInv, NEW v \in Workers, Commit(v)
  PROVE  Heard(v)'
<1> DEFINE q == req[v]
           l == loc[v]
<1>1. /\ IInv /\ TypeOK /\ TablesOK /\ LedgerMatchesSources
      /\ Owns(v) /\ Knows(v) /\ Heard(v)
  BY DEF BalanceInv, IInv, TypeOK, CampaignInv
<1>2. PICK o \in {"ok", "error"} : Answer(v, [l EXCEPT !.outcome = o])
  BY <1>1, CommitShape
<1>3. req'[v] = q /\ loc'[v].balance = l.balance
  BY <1>1, <1>2 DEF Answer, Set, TypeOK, Local
<1>4. PICK u, k, b : u = q.user /\ k = q.key /\ b = l.balance
  OBVIOUS
<1> SUFFICES ASSUME q.op = "pay" PROVE WasBalance(u, k, b)'
  BY <1>3, <1>4 DEF Heard, WasBalance, EarnsUnder, LedgerOf
<1>5. pc[v] = "commit" /\ ((l.replayed /\ UNCHANGED tables) \/ Publishes(v))
  BY <1>1, CommitShape
<1>6. CASE UNCHANGED ledger /\ (l.replayed \/ l.award = 0)
  <2>1. WasBalance(u, k, b)
    BY <1>1, <1>4, <1>5, <1>6 DEF Heard
  <2> QED
    BY <1>6, <2>1 DEF WasBalance, EarnsUnder, LedgerOf
<1>7. CASE ~l.replayed /\ l.award > 0 /\ ledger' = ledger \cup {NewEntry(v, "EARN", l.award)}
  <2>1. PICK n : n = NewEntry(v, "EARN", l.award)
    OBVIOUS
  <2>2. l.ledgerId \in Nat
    BY <1>1 DEF TypeOK, Local
  <2>3. /\ n.user = u /\ n.key = k /\ n.entry_type = "EARN"
        /\ n.balance_after = b /\ n.id \in Nat
    BY <1>4, <2>1, <2>2 DEF NewEntry
  <2>4. EarnsUnder(u, k) = {}
    <3>1. PaymentRows(u, k) = {}
      BY <1>1, <1>4, <1>5, <1>7 DEF Knows, Working, KeyRows
    <3> QED
      BY <1>1, <3>1, EarnsHavePayment
  <2>5. ledger' = ledger \cup {n}
    BY <1>7, <2>1
  <2>6. EarnsUnder(u, k)' = {n} /\ n \in LedgerOf(u)'
    BY <2>3, <2>4, <2>5 DEF EarnsUnder, LedgerOf
  <2> QED
    BY <2>3, <2>6 DEF WasBalance
<1>8. l.award \in Nat
  BY <1>1 DEF TypeOK, Local
<1> QED
  BY <1>5, <1>6, <1>7, <1>8 DEF Publishes, PublishPayment, tables

(* What a step lets its own worker tell.                                   *)
LEMMA HeardOwn ==
  ASSUME BalanceInv, NEW v \in Workers, Receive(v) \/ Serve(v) \/ Fail(v)
  PROVE  Heard(v)'
<1> DEFINE q == req[v]
           l == loc[v]
<1>1. /\ IInv /\ TypeOK /\ LatestIsBalance /\ Owns(v) /\ Knows(v)
      /\ pc \in [Workers -> PCs] /\ loc \in [Workers -> Local]
  BY DEF BalanceInv, IInv, TypeOK
<1>2. ASSUME pc'[v] \notin {"commit", "done"}
      PROVE  Heard(v)'
  BY <1>2 DEF Heard
<1>3. CASE Receive(v) \/ Begin(v) \/ Return(v)
  BY <1>1, <1>2, <1>3 DEF Receive, Begin, Return, Goto
<1>4. CASE InsertPayment(v) \/ InsertRedemption(v)
  BY <1>1, <1>2, <1>4 DEF InsertPayment, InsertRedemption, Goto
<1>5. CASE LockDaily(v) \/ LockBudget(v)
  BY <1>1, <1>2, <1>5 DEF LockDaily, ReadDaily, LockBudget, Decide, Goto
<1>6. CASE ApplyAward(v) \/ Debit(v)
  BY <1>1, <1>2, <1>6 DEF ApplyAward, Debit, Subtract, Goto
<1>7. CASE LoadPayment(v) \/ ReadBalance(v)
  <2>1. q.op = "pay" /\ pc[v] # "idle" /\ UNCHANGED <<tables, req>>
    BY <1>1, <1>7 DEF LoadPayment, ReadBalance, Within
  <2>2. loc'[v].balance = balance[q.user]
    <3>1. CASE LoadPayment(v)
      <4>1. PICK p \in PaymentRows(q.user, q.key) :
              loc' = [loc EXCEPT ![v] = [l EXCEPT !.amount = p.amount,
                                                  !.award = p.cashback_awarded,
                                                  !.status = p.status,
                                                  !.balance = balance[q.user],
                                                  !.replayed = TRUE]]
        BY <3>1 DEF LoadPayment, Set
      <4> QED
        BY <1>1, <4>1 DEF Local
    <3>2. CASE ReadBalance(v)
      BY <1>1, <3>2 DEF ReadBalance, Set, Local
    <3> QED
      BY <1>7, <3>1, <3>2
  <2>3. q.user \in Users
    BY <1>1, <2>1, PayTypes
  <2>4. WasBalance(q.user, q.key, balance[q.user])
    BY <1>1, <2>3, BalanceNow
  <2>5. WasBalance(q.user, q.key, balance[q.user])'
    BY <2>1, <2>4 DEF WasBalance, EarnsUnder, LedgerOf, tables
  <2>6. balance' = balance
    BY <2>1 DEF tables
  <2> QED
    BY <2>1, <2>2, <2>5, <2>6 DEF Heard
<1>8. CASE LoadRedemption(v)
  BY <1>8 DEF LoadRedemption, Within, Heard
<1>9. CASE InsertLedger(v)
  <2>1. /\ pc[v] = "ledger" /\ UNCHANGED req
        /\ pc'[v] = "commit" /\ loc'[v].award = l.award
        /\ loc'[v].replayed = l.replayed
    BY <1>1, <1>9 DEF InsertLedger, Within, Goto, Set, Local
  <2>2. q.op = "pay" => l.award > 0 /\ ~l.replayed
    BY <1>1, <2>1 DEF Knows, Working
  <2>3. l.award \in Nat
    BY <1>1 DEF Local
  <2> QED
    BY <2>1, <2>2, <2>3 DEF Heard
<1>10. CASE RejectRedeem(v) \/ Fail(v)
  BY <1>1, <1>10 DEF RejectRedeem, Fail, Answer, Goto, Set, Local, Heard
<1>11. CASE Commit(v)
  BY <1>11, HeardCommit
<1> QED
  BY <1>3, <1>4, <1>5, <1>6, <1>7, <1>8, <1>9, <1>10, <1>11 DEF Serve

(* Every step keeps what the answers say true.                             *)
LEMMA BalanceInvStep == BalanceInv /\ [Next]_vars => BalanceInv'
<1> SUFFICES ASSUME BalanceInv, [Next]_vars PROVE BalanceInv'
  OBVIOUS
<1>1. IInv /\ TypeOK /\ CampaignInv /\ LatestIsBalance /\ TablesOK
  BY DEF BalanceInv, IInv, TypeOK
<1>2. IInv' /\ [CampaignNext]_tables
  BY <1>1, IInvStep, StepRefines
<1>3. CampaignInv' /\ LatestIsBalance'
  BY <1>1, <1>2, CampaignInvStep, LatestStep
<1>4. ASSUME NEW v \in Workers, Receive(v) \/ Serve(v) \/ Fail(v),
             NEW w \in Workers
      PROVE  Heard(w)'
  <2>1. CASE w = v
    BY <1>4, <2>1, HeardOwn
  <2>2. CASE w # v
    BY <1>1, <1>2, <1>3, <1>4, <2>2, OneMoves, HeardKept
  <2> QED
    BY <2>1, <2>2
<1>5. CASE Crash
  <2>1. \A w \in Workers : pc'[w] = "idle"
    BY <1>5 DEF Crash
  <2> QED
    BY <1>2, <1>3, <2>1 DEF BalanceInv, Heard
<1>6. CASE Tick \/ UNCHANGED vars
  <2>1. \A w \in Workers : Same(w)
    BY <1>6 DEF Tick, vars, control, Same
  <2> QED
    BY <1>1, <1>2, <1>3, <2>1, HeardKept DEF BalanceInv
<1> QED
  BY <1>2, <1>3, <1>4, <1>5, <1>6 DEF Next, BalanceInv

(* The balance a payment's answer carries is one the user had, and not     *)
(* before the award of that payment, also when it is read anew for a       *)
(* replay (repo.go: loadExistingPayment, balanceTx).                       *)
THEOREM BalancesToldWereTrue == Spec => []BalanceToldWasTrue
<1>1. Init => BalanceInv
  <2> SUFFICES ASSUME Init PROVE BalanceInv
    OBVIOUS
  <2>1. IInv /\ CampaignInv /\ LatestIsBalance
    BY IInvInit, CampaignInvInit, LatestInit DEF Init
  <2>2. \A w \in Workers : Heard(w)
    BY DEF Init, Heard
  <2> QED
    BY <2>1, <2>2 DEF BalanceInv
<1>2. BalanceInv => BalanceToldWasTrue
  <2> SUFFICES ASSUME BalanceInv, NEW w \in Workers,
                      pc[w] = "done", req[w].op = "pay", loc[w].outcome = "ok"
               PROVE  WasBalance(req[w].user, req[w].key, loc[w].balance)
    BY DEF BalanceToldWasTrue, WasBalance, EarnsUnder
  <2> QED
    BY DEF BalanceInv, Heard
<1> QED
  BY <1>1, <1>2, BalanceInvStep, PTL DEF Spec
=============================================================================
