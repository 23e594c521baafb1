---------------------------- MODULE ServiceProofs ----------------------------
(***************************************************************************)
(* What one server process tells of the tables, for any number of          *)
(* handlers: its counters and its budget gauge.                            *)
(***************************************************************************)
EXTENDS Service, CampaignProofs, TLAPS

Calls == Payments \cup Redemptions \cup PublicReads

Counters ==
  {"payments", "awarded", "noCashback", "partial", "exhausted", "capReached",
   "redemptions", "redeemed", "rateLimited"}

Results ==
  [code: {0, 200, 201, 400, 401, 422, 429, 500}, replayed: BOOLEAN, award: Nat,
   status: FinalStatus \cup {"none"}, seen: Nat, counted: Nat,
   before: [payments: Nat, awarded: Nat], budgets: SUBSET Nat, lines: Seq(Nat)]

Scrapes == [payments: Nat, awarded: Nat]

Scraping(h) == call[h] = [op |-> "scrape"]

(* What a handler serves at each of its steps.                             *)
InStep(h) ==
  /\ pc[h] = "idle" => call[h] = NoCall
  /\ pc[h] = "stored" =>
       \/ /\ call[h] \in Payments
          /\ result[h].code = 201 /\ result[h].status \in FinalStatus
       \/ call[h] \in Redemptions
  /\ pc[h] = "read" => call[h] \in PublicReads
  /\ pc[h] \in {"again", "write"} => Scraping(h)

TablesInv == CampaignInv /\ TablesFinite

Typed ==
  /\ TablesInv
  /\ pc \in [Handlers -> {"idle", "stored", "read", "again", "write", "done"}]
  /\ call \in [Handlers -> Calls \cup {NoCall}]
  /\ result \in [Handlers -> Results]
  /\ metrics \in [Counters -> Nat]
  /\ gauge \in Nat
  /\ failures \in 0 .. MaxFailures
  /\ told \in Scrapes
  /\ \A h \in Handlers : InStep(h)

Same(h) == pc'[h] = pc[h] /\ call'[h] = call[h] /\ result'[h] = result[h]

(* A step of handler h.                                                    *)
Refuses(h) == RequireUser(h) \/ RateLimited(h) \/ RefuseBody(h) \/ ReadUser(h)

Steps(h) ==
  \/ Refuses(h)
  \/ ProcessPayment(h)
  \/ RedeemBalance(h)
  \/ Recovered(h)
  \/ Record(h)
  \/ ReadCampaign(h)
  \/ SetGauge(h)
  \/ WriteMetrics(h)
  \/ Reply(h)

-----------------------------------------------------------------------------
(* Types.                                                                  *)

(* The counters are those of a fresh process.                              *)
LEMMA CountersAre ==
  /\ DOMAIN NoCounts = Counters
  /\ NoCounts \in [Counters -> Nat]
  /\ \A c \in Counters : NoCounts[c] = 0
  BY DEF NoCounts, Counters

(* A result before and after an answer.                                    *)
LEMMA NothingYet == NoResult \in Results
<1>1. <<>> \in Seq(Nat)
  OBVIOUS
<1>2. NothingTold \in [payments: Nat, awarded: Nat]
  BY DEF NothingTold
<1>3. {} \in SUBSET Nat
  OBVIOUS
<1> HIDE DEF NothingTold
<1> QED
  BY <1>1, <1>2, <1>3 DEF NoResult, Results

Codes == {0, 200, 201, 400, 401, 422, 429, 500}

(* A result is the record of its fields.                                   *)
Fields(s) ==
  [code |-> s.code, replayed |-> s.replayed, award |-> s.award,
   status |-> s.status, seen |-> s.seen, counted |-> s.counted,
   before |-> s.before, budgets |-> s.budgets, lines |-> s.lines]

FieldsOK(s) ==
  /\ s.code \in Codes /\ s.replayed \in BOOLEAN /\ s.award \in Nat
  /\ s.status \in FinalStatus \cup {"none"}
  /\ s.seen \in Nat /\ s.counted \in Nat
  /\ s.before \in Scrapes /\ s.budgets \in SUBSET Nat /\ s.lines \in Seq(Nat)

(* Well-typed fields make a well-typed result ...                          *)
LEMMA FromFields ==
  ASSUME NEW s, s = Fields(s), FieldsOK(s) PROVE s \in Results
  BY DEF Fields, FieldsOK, Results, Codes, Scrapes

(* ... the other way round.                                                *)
LEMMA ToFields ==
  ASSUME NEW s \in Results PROVE s = Fields(s) /\ FieldsOK(s)
  BY DEF Fields, FieldsOK, Results, Codes, Scrapes

(* Nothing but the code is left in it.                                     *)
LEMMA AnswerIsResult ==
  ASSUME NEW c \in Codes
  PROVE  [NoResult EXCEPT !.code = c] \in Results
<1>1. NoResult = Fields(NoResult) /\ FieldsOK(NoResult)
  BY NothingYet, ToFields
<1>2. PICK s : s = [NoResult EXCEPT !.code = c]
  OBVIOUS
<1>3. s = Fields(s) /\ FieldsOK(s)
  BY <1>1, <1>2 DEF Fields, FieldsOK
<1> QED
  BY <1>2, <1>3, FromFields

(* Every step of the process is one of the campaign, or leaves the tables. *)
LEMMA TablesMove == [Next]_vars => [CampaignNext]_tables
<1> SUFFICES ASSUME [Next]_vars PROVE [CampaignNext]_tables
  OBVIOUS
<1>1. ASSUME NEW h \in Handlers, ProcessPayment(h) PROVE [CampaignNext]_tables
  <2>1. PICK c \in Payments :
          \/ \E d \in Days : Pay(c.user, c.key, c.amount, d)
          \/ UNCHANGED tables
    BY <1>1 DEF ProcessPayment
  <2>2. c.user \in Users /\ c.key \in Keys /\ c.amount \in PayAmounts
    BY DEF Payments
  <2> QED
    BY <2>1, <2>2 DEF CampaignNext
<1>2. ASSUME NEW h \in Handlers, RedeemBalance(h) PROVE [CampaignNext]_tables
  <2>1. PICK c \in Redemptions :
          RedeemCash(c.user, c.key, c.amount) \/ UNCHANGED tables
    BY <1>2 DEF RedeemBalance
  <2>2. c.user \in Users /\ c.key \in Keys /\ c.amount \in RedeemAmounts
    BY DEF Redemptions
  <2> QED
    BY <2>1, <2>2 DEF CampaignNext
<1>3. ASSUME NEW h \in Handlers,
             \/ Refuses(h) \/ Recovered(h) \/ Record(h) \/ ReadCampaign(h)
             \/ SetGauge(h) \/ WriteMetrics(h) \/ Reply(h)
      PROVE  UNCHANGED tables
  BY <1>3 DEF Refuses, RequireUser, RateLimited, RefuseBody, ReadUser, AtOnce,
              Recovered, Record, ReadCampaign, SetGauge, WriteMetrics, Reply
<1>4. CASE Restart \/ UNCHANGED vars
  BY <1>4 DEF Restart, vars
<1> QED
  BY <1>1, <1>2, <1>3, <1>4 DEF Next, Refuses

(* So the tables keep what every campaign keeps.                           *)
LEMMA TablesInvStep == ASSUME TablesInv, [Next]_vars PROVE TablesInv'
  BY TablesMove, CampaignInvStep, FiniteStep DEF TablesInv

(* They begin with it.                                                     *)
LEMMA TablesInvInit == Init => TablesInv
<1> SUFFICES ASSUME Init PROVE TablesInv
  OBVIOUS
<1>1. CampaignInit
  BY DEF Init
<1>2. TablesFinite
  BY <1>1, FS_EmptySet DEF CampaignInit, TablesFinite
<1> QED
  BY <1>1, <1>2, CampaignInvInit DEF TablesInv

(* Each handler has its own entries of pc, call and result.                *)
Entries(h) ==
  /\ UNCHANGED pc \/ \E x : pc' = [pc EXCEPT ![h] = x]
  /\ UNCHANGED call \/ \E x : call' = [call EXCEPT ![h] = x]
  /\ UNCHANGED result \/ \E x : result' = [result EXCEPT ![h] = x]

(* Taking up a call, and going on or answering, writes a handler's own.    *)
LEMMA ArrivingEntries ==
  ASSUME NEW h, NEW c, Arrives(h, c), NEW label, Goto(h, label),
         NEW new, result' = [result EXCEPT ![h] = new]
  PROVE  Entries(h)
  BY DEF Entries, Arrives, Goto

(* So does an answer of the store.                                         *)
LEMMA StoredEntries ==
  ASSUME NEW h, NEW c, Arrives(h, c), NEW r, NEW code, Stored(h, r) \/ Answer(h, code)
  PROVE  Entries(h)
<1>1. ASSUME NEW any, Answer(h, any) PROVE Entries(h)
  BY <1>1, ArrivingEntries DEF Answer
<1> QED
  BY <1>1, ArrivingEntries DEF Stored

(* And every step.                                                         *)
LEMMA OwnEntries == ASSUME NEW h, Steps(h) PROVE Entries(h)
<1>1. CASE Refuses(h)
  BY <1>1 DEF Refuses, RequireUser, RateLimited, RefuseBody, ReadUser, AtOnce,
              Entries, Goto, Answer, At
<1>2. CASE ProcessPayment(h)
  BY <1>2, StoredEntries DEF ProcessPayment
<1>3. CASE RedeemBalance(h)
  BY <1>3, StoredEntries DEF RedeemBalance
<1>4. CASE ReadCampaign(h)
  <2>1. PICK c, r :
          /\ Arrives(h, c)
          /\ \/ /\ Goto(h, "read")
                /\ \E new : result' = [result EXCEPT ![h] = new]
             \/ Goto(h, "write") /\ result' = [result EXCEPT ![h] = r]
             \/ Answer(h, 500)
    BY <1>4 DEF ReadCampaign
  <2> QED
    BY <2>1, ArrivingEntries, StoredEntries
<1>5. CASE Recovered(h)
  BY <1>5 DEF Recovered, Entries, Goto, Answer
<1>6. CASE Record(h)
  <2>1. \/ UNCHANGED result
        \/ result' = [result EXCEPT ![h].counted = result[h].counted + 1]
        \/ result' = [result EXCEPT ![h].status = "none", ![h].counted = 0]
    BY <1>6 DEF Record
  <2>2. \/ UNCHANGED result
        \/ result' = [result EXCEPT ![h] = [result[h] EXCEPT !.counted = result[h].counted + 1]]
        \/ result' = [result EXCEPT ![h] = [result[h] EXCEPT !.status = "none", !.counted = 0]]
    BY <2>1
  <2> QED
    BY <1>6, <2>2 DEF Record, Entries, Goto, At
<1>7. CASE SetGauge(h)
  BY <1>7 DEF SetGauge, Entries, Goto, Answer, At
<1>8. CASE WriteMetrics(h) \/ Reply(h)
  BY <1>8 DEF WriteMetrics, Reply, Entries, Goto, At
<1> QED
  BY <1>1, <1>2, <1>3, <1>4, <1>5, <1>6, <1>7, <1>8 DEF Steps

(* Other handlers stay where they are.                                     *)
LEMMA OneMoves ==
  ASSUME Typed, NEW h \in Handlers, Steps(h)
  PROVE  /\ \A g \in Handlers \ {h} : Same(g)
         /\ pc' = [g \in Handlers |-> pc'[g]]
         /\ call' = [g \in Handlers |-> call'[g]]
         /\ result' = [g \in Handlers |-> result'[g]]
<1>1. Entries(h)
  BY OwnEntries
<1>2. /\ \A g \in Handlers \ {h} : pc'[g] = pc[g]
      /\ pc' = [g \in Handlers |-> pc'[g]]
  BY <1>1 DEF Entries, Typed
<1>3. /\ \A g \in Handlers \ {h} : call'[g] = call[g]
      /\ call' = [g \in Handlers |-> call'[g]]
  BY <1>1 DEF Entries, Typed
<1>4. /\ \A g \in Handlers \ {h} : result'[g] = result[g]
      /\ result' = [g \in Handlers |-> result'[g]]
  BY <1>1 DEF Entries, Typed
<1> QED
  BY <1>2, <1>3, <1>4 DEF Same

(* What a step of one handler has to keep.                                 *)
Keeps(h) ==
  /\ pc'[h] \in {"idle", "stored", "read", "again", "write", "done"}
  /\ call'[h] \in Calls \cup {NoCall}
  /\ result'[h] \in Results
  /\ DOMAIN pc' = Handlers /\ DOMAIN call' = Handlers /\ DOMAIN result' = Handlers
  /\ metrics' \in [Counters -> Nat]
  /\ gauge' \in Nat
  /\ failures' \in 0 .. MaxFailures
  /\ InStep(h)'

(* Additions are of counters, by natural numbers.                          *)
LEMMA EarnTypes ==
  ASSUME NEW r \in Results
  PROVE  RecordEarn(r) \in Seq([counter: Counters, n: Nat])
<1> DEFINE A == [counter: Counters, n: Nat]
<1>1. \A x \in Counters, n \in Nat : Add(x, n) \in Seq(A)
  BY DEF Add
<1>2. r.award \in Nat
  BY DEF Results
<1>3. Outcome(r.status) \in Seq(A)
  <2>1. <<>> \in Seq(A)
    OBVIOUS
  <2> HIDE DEF A
  <2> QED
    BY <1>1, <2>1 DEF Outcome, Counters
<1>4. Add("payments", 1) \in Seq(A)
  BY <1>1 DEF Counters
<1>5. (IF r.award > 0 THEN Add("awarded", r.award) ELSE <<>>) \in Seq(A)
  BY <1>1, <1>2 DEF Counters
<1>6. RecordEarn(r) \in Seq(A)
  <2> HIDE DEF A
  <2> QED
    BY <1>3, <1>4, <1>5 DEF RecordEarn
<1> QED
  BY <1>6 DEF A

(* So are those of a result.                                               *)
LEMMA AddsTypes ==
  ASSUME NEW c, NEW r \in Results
  PROVE  AddsOf(c, r) \in Seq([counter: Counters, n: Nat])
<1> DEFINE A == [counter: Counters, n: Nat]
<1>1. \A x \in Counters, n \in Nat : Add(x, n) \in Seq(A)
  BY DEF Add
<1>2. r.award \in Nat
  BY DEF Results
<1>4. RecordEarn(r) \in Seq(A)
  BY EarnTypes
<1>5. RecordRedeem(r) \in Seq(A)
  <2>1. Add("redemptions", 1) \in Seq(A) /\ Add("redeemed", r.award) \in Seq(A)
    BY <1>1, <1>2 DEF Counters
  <2> HIDE DEF A
  <2> QED
    BY <2>1 DEF RecordRedeem
<1>6. <<>> \in Seq(A)
  OBVIOUS
<1> HIDE DEF A
<1>7. AddsOf(c, r) \in Seq(A)
  BY <1>4, <1>5, <1>6 DEF AddsOf
<1> QED
  BY <1>7 DEF A

(* A call that came in, and a store that answered it.                      *)
LEMMA StoredKeeps ==
  ASSUME Typed, NEW h \in Handlers, NEW c \in Calls, NEW r \in Results,
         Arrives(h, c), Stored(h, r), UNCHANGED <<metrics, gauge>>,
         \/ c \in Payments /\ r.code = 201 /\ r.status \in FinalStatus
         \/ c \in Redemptions
  PROVE  Keeps(h)
<1>1. /\ DOMAIN pc = Handlers /\ DOMAIN call = Handlers /\ DOMAIN result = Handlers
      /\ metrics \in [Counters -> Nat] /\ gauge \in Nat /\ failures \in 0 .. MaxFailures
  BY DEF Typed
<1>2. call'[h] = c /\ DOMAIN call' = Handlers
  BY <1>1 DEF Arrives
<1>3. CASE Goto(h, "stored") /\ result' = [result EXCEPT ![h] = r] /\ UNCHANGED failures
  BY <1>1, <1>2, <1>3 DEF Goto, Keeps, InStep
<1>4. CASE failures < MaxFailures /\ failures' = failures + 1 /\ Answer(h, 500)
  <2>1. result'[h] \in Results
    BY <1>1, <1>4, AnswerIsResult DEF Answer, Codes
  <2>2. failures' \in 0 .. MaxFailures
    BY <1>1, <1>4, ServiceAssumption
  <2> QED
    BY <1>1, <1>2, <1>4, <2>1, <2>2 DEF Answer, Goto, Keeps, InStep
<1> QED
  BY <1>3, <1>4 DEF Stored

(* A handler that is about to answer, or is done.                          *)
LEMMA AnswerKeeps ==
  ASSUME Typed, NEW h \in Handlers, NEW code \in Codes, Answer(h, code),
         call' \in [Handlers -> Calls \cup {NoCall}],
         metrics' \in [Counters -> Nat], gauge' \in Nat,
         UNCHANGED failures \/ (failures < MaxFailures /\ failures' = failures + 1)
  PROVE  Keeps(h)
<1>1. /\ DOMAIN pc = Handlers /\ DOMAIN result = Handlers /\ failures \in 0 .. MaxFailures
  BY DEF Typed
<1>2. result'[h] \in Results /\ DOMAIN result' = Handlers
  BY <1>1, AnswerIsResult DEF Answer
<1>3. failures' \in 0 .. MaxFailures
  BY <1>1, ServiceAssumption
<1>4. pc'[h] = "done" /\ DOMAIN pc' = Handlers
  BY <1>1 DEF Answer, Goto
<1> QED
  BY <1>2, <1>3, <1>4 DEF Keeps, InStep

(* Amounts are positive.                                                   *)
LEMMA AmountsNat ==
  /\ \A a \in RedeemAmounts : a \in Nat /\ a > 0
  /\ \A a \in PayAmounts : a \in Nat /\ a > 0
  BY AmountAssumption, WidthAssumption

(* What a result is made of that the store has told.                       *)
Told(r, code, replayed, award, status) ==
  /\ r.code = code /\ r.replayed = replayed /\ r.award = award
  /\ r.status = status /\ r.seen = 0 /\ r.counted = 0
  /\ r.before = NothingTold /\ r.budgets = {} /\ r.lines = <<>>

(* It is well typed when that is.                                          *)
LEMMA ToldIsResult ==
  ASSUME NEW r, r = Fields(r), NEW code \in Codes, NEW replayed \in BOOLEAN,
         NEW award \in Nat, NEW status \in FinalStatus \cup {"none"},
         Told(r, code, replayed, award, status)
  PROVE  r \in Results
<1>1. NothingTold \in Scrapes /\ <<>> \in Seq(Nat)
  BY DEF NothingTold, Scrapes
<1>2. FieldsOK(r)
  BY <1>1 DEF FieldsOK, Told
<1> QED
  BY <1>2, FromFields

(* A first-time payment's result ...                                       *)
LEMMA PaidResult ==
  ASSUME NEW award \in Nat, NEW status \in FinalStatus, NEW r,
         r = [NoResult EXCEPT !.code = 201, !.award = award, !.status = status]
  PROVE  r \in Results /\ Told(r, 201, FALSE, award, status)
<1>1. Told(r, 201, FALSE, award, status) /\ r = Fields(r)
  BY DEF NoResult, Told, Fields
<1>2. 201 \in Codes /\ status \in FinalStatus \cup {"none"}
  BY DEF Codes
<1> QED
  BY <1>1, <1>2, ToldIsResult

(* ... a replay's ...                                                      *)
LEMMA ReplayResult ==
  ASSUME NEW award \in Nat, NEW status \in FinalStatus, NEW r,
         r = [NoResult EXCEPT !.code = 201, !.replayed = TRUE,
                              !.award = award, !.status = status]
  PROVE  r \in Results /\ Told(r, 201, TRUE, award, status)
<1>1. Told(r, 201, TRUE, award, status) /\ r = Fields(r)
  BY DEF NoResult, Told, Fields
<1>2. 201 \in Codes /\ status \in FinalStatus \cup {"none"}
  BY DEF Codes
<1> QED
  BY <1>1, <1>2, ToldIsResult

(* ... and those of a redemption.                                          *)
LEMMA RedeemedResults ==
  ASSUME NEW amount \in Nat, NEW r, NEW old,
         r = [NoResult EXCEPT !.code = 200, !.award = amount],
         old = [NoResult EXCEPT !.code = 200, !.replayed = TRUE, !.award = amount]
  PROVE  /\ r \in Results /\ Told(r, 200, FALSE, amount, "none")
         /\ old \in Results /\ Told(old, 200, TRUE, amount, "none")
<1>1. Told(r, 200, FALSE, amount, "none") /\ r = Fields(r)
  BY DEF NoResult, Told, Fields
<1>2. Told(old, 200, TRUE, amount, "none") /\ old = Fields(old)
  BY DEF NoResult, Told, Fields
<1>3. 200 \in Codes /\ "none" \in FinalStatus \cup {"none"}
  BY DEF Codes
<1> QED
  BY <1>1, <1>2, <1>3, ToldIsResult

(* Both writes, with what the store told them.                             *)
LEMMA ProcessKeeps ==
  ASSUME Typed, NEW h \in Handlers, ProcessPayment(h) PROVE Keeps(h)
<1>1. PICK c \in Payments :
        /\ Arrives(h, c)
        /\ UNCHANGED <<metrics, gauge>>
        /\ \/ \E d \in Days :
                Stored(h, [NoResult EXCEPT
                             !.code = 201,
                             !.award = AwardFor(c.user, c.amount, d),
                             !.status = StatusFor(c.user, c.amount, d)])
           \/ \E p \in PaymentRows(c.user, c.key) :
                Stored(h, [NoResult EXCEPT
                             !.code = 201, !.replayed = TRUE,
                             !.award = p.cashback_awarded, !.status = p.status])
  BY DEF ProcessPayment
<1>2. c \in Calls /\ c.user \in Users /\ c.amount \in PayAmounts
  BY DEF Calls, Payments
<1>3. TablesOK
  BY DEF Typed, TablesInv, CampaignInv
<1>4. ASSUME NEW r \in Results, r.code = 201, r.status \in FinalStatus, Stored(h, r)
      PROVE  Keeps(h)
  BY <1>1, <1>2, <1>4, StoredKeeps
<1>5. ASSUME NEW d \in Days,
             Stored(h, [NoResult EXCEPT
                          !.code = 201,
                          !.award = AwardFor(c.user, c.amount, d),
                          !.status = StatusFor(c.user, c.amount, d)])
      PROVE  Keeps(h)
  <2>1. PICK award \in Nat, status \in FinalStatus :
          award = AwardFor(c.user, c.amount, d) /\ status = StatusFor(c.user, c.amount, d)
    BY <1>2, <1>3, AwardIsNat
  <2>2. PICK r : r = [NoResult EXCEPT !.code = 201, !.award = award, !.status = status]
    OBVIOUS
  <2>3. r \in Results /\ r.code = 201 /\ r.status \in FinalStatus
    <3>1. r \in Results /\ Told(r, 201, FALSE, award, status)
      BY <2>2, PaidResult
    <3> QED
      BY <3>1 DEF Told
  <2>4. Stored(h, r)
    BY <1>5, <2>1, <2>2
  <2> QED
    BY <1>4, <2>3, <2>4
<1>6. ASSUME NEW p \in PaymentRows(c.user, c.key),
             Stored(h, [NoResult EXCEPT
                          !.code = 201, !.replayed = TRUE,
                          !.award = p.cashback_awarded, !.status = p.status])
      PROVE  Keeps(h)
  <2>1. p.cashback_awarded \in Nat /\ p.status \in FinalStatus
    BY <1>3 DEF TablesOK, PaymentRows, Payment
  <2>2. PICK r : r = [NoResult EXCEPT !.code = 201, !.replayed = TRUE,
                                      !.award = p.cashback_awarded, !.status = p.status]
    OBVIOUS
  <2>3. r \in Results /\ r.code = 201 /\ r.status \in FinalStatus
    <3>1. r \in Results /\ Told(r, 201, TRUE, p.cashback_awarded, p.status)
      BY <2>1, <2>2, ReplayResult
    <3> QED
      BY <2>1, <3>1 DEF Told
  <2> QED
    BY <1>4, <1>6, <2>2, <2>3
<1> QED
  BY <1>1, <1>5, <1>6

(* The same of a redemption.                                               *)
LEMMA RedeemKeeps ==
  ASSUME Typed, NEW h \in Handlers, RedeemBalance(h) PROVE Keeps(h)
<1>1. PICK c \in Redemptions :
        /\ Arrives(h, c)
        /\ UNCHANGED <<metrics, gauge>>
        /\ \/ Stored(h, [NoResult EXCEPT !.code = 200, !.award = c.amount])
           \/ \E r \in RedemptionRows(c.user, c.key) :
                Stored(h, [NoResult EXCEPT
                             !.code = 200, !.replayed = TRUE, !.award = r.amount])
           \/ Answer(h, 422) /\ UNCHANGED <<tables, failures>>
  BY DEF RedeemBalance
<1>2. c \in Calls /\ c.amount \in Nat
  <2>1. c.amount \in RedeemAmounts
    BY DEF Redemptions
  <2>2. c.amount \in Nat
    BY <2>1, AmountsNat
  <2> QED
    BY <2>2 DEF Calls
<1>3. CASE Stored(h, [NoResult EXCEPT !.code = 200, !.award = c.amount])
  <2>1. PICK r : r = [NoResult EXCEPT !.code = 200, !.award = c.amount]
    OBVIOUS
  <2>2. r \in Results
    BY <1>2, <2>1, RedeemedResults
  <2> QED
    BY <1>1, <1>2, <1>3, <2>1, <2>2, StoredKeeps
<1>4. ASSUME NEW row \in RedemptionRows(c.user, c.key),
             Stored(h, [NoResult EXCEPT
                          !.code = 200, !.replayed = TRUE, !.award = row.amount])
      PROVE  Keeps(h)
  <2>1. PICK r : r = [NoResult EXCEPT !.code = 200, !.replayed = TRUE, !.award = row.amount]
    OBVIOUS
  <2>2. row.amount \in Nat
    <3>1. row.amount \in RedeemAmounts
      BY DEF Typed, TablesInv, CampaignInv, TablesOK, RedemptionRows, Redemption
    <3> QED
      BY <3>1, AmountsNat
  <2>3. r \in Results
    BY <2>1, <2>2, RedeemedResults
  <2> QED
    BY <1>1, <1>2, <1>4, <2>1, <2>3, StoredKeeps
<1>5. CASE Answer(h, 422) /\ UNCHANGED <<tables, failures>>
  <2>1. call' \in [Handlers -> Calls \cup {NoCall}]
    BY <1>1, <1>2 DEF Arrives, Typed
  <2>2. metrics' \in [Counters -> Nat] /\ gauge' \in Nat
    BY <1>1 DEF Typed
  <2> QED
    BY <1>5, <2>1, <2>2, AnswerKeeps DEF Codes
<1> QED
  BY <1>1, <1>3, <1>4, <1>5

(* An item of a sequence.                                                  *)
LEMMA ItemOf ==
  ASSUME NEW S, NEW s \in Seq(S), NEW i \in 1 .. Len(s) PROVE s[i] \in S
  OBVIOUS

(* Counting one more addition.                                             *)
LEMMA RecordKeeps ==
  ASSUME Typed, NEW h \in Handlers, Record(h) PROVE Keeps(h)
<1> DEFINE r == result[h]
           adds == AddsOf(call[h], r)
           n == r.counted + 1
<1>1. /\ DOMAIN pc = Handlers /\ DOMAIN call = Handlers /\ DOMAIN result = Handlers
      /\ r \in Results /\ r = Fields(r) /\ FieldsOK(r)
      /\ metrics \in [Counters -> Nat] /\ InStep(h)
  BY ToFields DEF Typed
<1>2. /\ pc[h] = "stored" /\ call[h] \in Calls \cup {NoCall}
      /\ UNCHANGED <<tables, call, gauge, failures>>
  BY DEF Record, At, Typed
<1>3. gauge' \in Nat /\ failures' \in 0 .. MaxFailures
  BY <1>2 DEF Typed
<1>4. CASE /\ n <= Len(adds)
           /\ metrics' = [metrics EXCEPT ![adds[n].counter] = @ + adds[n].n]
           /\ result' = [result EXCEPT ![h].counted = n]
           /\ UNCHANGED pc
  <2>1. metrics' \in [Counters -> Nat]
    <3>1. adds \in Seq([counter: Counters, n: Nat]) /\ n \in 1 .. Len(adds)
      BY <1>1, <1>4, AddsTypes DEF FieldsOK
    <3> HIDE DEF adds, n
    <3>2. adds[n] \in [counter: Counters, n: Nat]
      BY <3>1, ItemOf
    <3> QED
      BY <1>1, <1>4, <3>2
  <2>2. PICK s : s = [r EXCEPT !.counted = n]
    OBVIOUS
  <2>3. s = Fields(s) /\ FieldsOK(s) /\ s.code = r.code /\ s.status = r.status
    BY <1>1, <2>2 DEF Fields, FieldsOK
  <2>4. result'[h] = s /\ s \in Results /\ DOMAIN result' = Handlers
    BY <1>1, <1>4, <2>2, <2>3, FromFields
  <2> QED
    BY <1>1, <1>2, <1>3, <1>4, <2>1, <2>3, <2>4 DEF Keeps, InStep
<1>5. CASE /\ Goto(h, "done")
           /\ result' = [result EXCEPT ![h].status = "none", ![h].counted = 0]
           /\ UNCHANGED metrics
  <2>1. PICK s : s = [r EXCEPT !.status = "none", !.counted = 0]
    OBVIOUS
  <2>2. s = Fields(s) /\ FieldsOK(s)
    BY <1>1, <2>1 DEF Fields, FieldsOK
  <2>3. result'[h] = s /\ s \in Results /\ DOMAIN result' = Handlers
    BY <1>1, <1>5, <2>1, <2>2, FromFields
  <2> QED
    BY <1>1, <1>2, <1>3, <1>5, <2>3 DEF Keeps, InStep, Goto
<1> QED
  BY <1>4, <1>5 DEF Record

(* What a read of the budget row leaves with its handler.                  *)
Opens(c, r) == r = IF c.op = "scrape" THEN [NoResult EXCEPT !.before = told] ELSE NoResult

ReadOK(h, r, may) ==
  /\ Goto(h, "read")
  /\ result' = [result EXCEPT ![h] = [r EXCEPT !.seen = remaining, !.budgets = may]]

ReadInto(h, c, r, may) ==
  /\ Arrives(h, c)
  /\ \/ ReadOK(h, r, may) /\ UNCHANGED failures
     \/ /\ failures < MaxFailures
        /\ failures' = failures + 1
        /\ IF c.op = "scrape"
           THEN Goto(h, "write") /\ result' = [result EXCEPT ![h] = r]
           ELSE Answer(h, 500)
  /\ UNCHANGED <<tables, metrics, gauge, told>>

(* It is a scrape's or a campaign read's.                                  *)
LEMMA ReadsInto ==
  ASSUME NEW h, ReadCampaign(h)
  PROVE  \E c, r, may :
           /\ c \in PublicReads /\ Opens(c, r)
           /\ may = IF c.op = "scrape" THEN {remaining} \cup Unstored ELSE {}
           /\ ReadInto(h, c, r, may)
<1>1. PICK c \in PublicReads :
        LET r == IF c.op = "scrape" THEN [NoResult EXCEPT !.before = told] ELSE NoResult
            may == IF c.op = "scrape" THEN {remaining} \cup Unstored ELSE {}
        IN  ReadInto(h, c, r, may)
  BY DEF ReadCampaign, ReadInto, ReadOK
<1>2. PICK r, may :
        /\ r = IF c.op = "scrape" THEN [NoResult EXCEPT !.before = told] ELSE NoResult
        /\ may = IF c.op = "scrape" THEN {remaining} \cup Unstored ELSE {}
  OBVIOUS
<1>3. ReadInto(h, c, r, may)
  BY <1>1, <1>2
<1>4. Opens(c, r)
  BY <1>2 DEF Opens
<1> QED
  BY <1>2, <1>3, <1>4

(* A result with what had been told before.                                *)
LEMMA ScrapeBegins ==
  ASSUME NEW t \in Scrapes, NEW s, s = [NoResult EXCEPT !.before = t]
  PROVE  /\ s = Fields(s) /\ FieldsOK(s) /\ s.before = t
         /\ s.budgets = {} /\ s.lines = <<>> /\ s.code = 0
<1>1. NoResult = Fields(NoResult) /\ FieldsOK(NoResult)
  BY NothingYet, ToFields
<1> QED
  BY <1>1 DEF NoResult, Fields, FieldsOK

(* The budgets of others are numbers.                                      *)
LEMMA UnstoredTypes == ASSUME Typed PROVE Unstored \in SUBSET Nat
<1>1. \A g \in Handlers : result[g].seen \in Nat
  BY ToFields DEF Typed, FieldsOK
<1> QED
  BY <1>1 DEF Unstored

(* The reads of the budget row ...                                         *)
LEMMA ReadKeeps ==
  ASSUME Typed, NEW h \in Handlers, ReadCampaign(h) PROVE Keeps(h)
<1>1. PICK c, r, may :
        /\ c \in PublicReads /\ Opens(c, r)
        /\ may = IF c.op = "scrape" THEN {remaining} \cup Unstored ELSE {}
        /\ ReadInto(h, c, r, may)
  BY ReadsInto
<1>2. /\ DOMAIN pc = Handlers /\ DOMAIN call = Handlers /\ DOMAIN result = Handlers
      /\ metrics \in [Counters -> Nat] /\ gauge \in Nat /\ failures \in 0 .. MaxFailures
      /\ remaining \in Nat
  BY DEF Typed, TablesInv, CampaignInv, TablesOK
<1>3. /\ c \in PublicReads /\ c \in Calls
      /\ c.op = "scrape" => c = [op |-> "scrape"]
  BY <1>1 DEF Calls, PublicReads
<1>4. /\ call'[h] = c /\ call' \in [Handlers -> Calls \cup {NoCall}]
      /\ metrics' \in [Counters -> Nat] /\ gauge' \in Nat
  BY <1>1, <1>2, <1>3 DEF ReadInto, Arrives, Typed
<1>5. r = Fields(r) /\ FieldsOK(r)
  <2>1. NoResult = Fields(NoResult) /\ FieldsOK(NoResult)
    BY NothingYet, ToFields
  <2>2. told \in Scrapes
    BY DEF Typed
  <2> QED
    BY <1>1, <2>1, <2>2, ScrapeBegins DEF Opens
<1>6. may \in SUBSET Nat
  BY <1>1, <1>2, UnstoredTypes
<1>7. CASE ReadOK(h, r, may) /\ UNCHANGED failures
  <2>1. PICK s : s = [r EXCEPT !.seen = remaining, !.budgets = may]
    OBVIOUS
  <2>2. s = Fields(s) /\ FieldsOK(s)
    BY <1>2, <1>5, <1>6, <2>1 DEF Fields, FieldsOK
  <2>3. result'[h] = s /\ s \in Results /\ DOMAIN result' = Handlers
    BY <1>2, <1>7, <2>1, <2>2, FromFields DEF ReadOK
  <2> QED
    BY <1>2, <1>3, <1>4, <1>7, <2>3 DEF Keeps, InStep, Goto, ReadOK
<1>8. CASE /\ c.op = "scrape" /\ Goto(h, "write") /\ result' = [result EXCEPT ![h] = r]
           /\ failures < MaxFailures /\ failures' = failures + 1
  <2>1. failures' \in 0 .. MaxFailures
    BY <1>2, <1>8, ServiceAssumption
  <2>2. result'[h] \in Results /\ DOMAIN result' = Handlers
    BY <1>2, <1>5, <1>8, FromFields
  <2> QED
    BY <1>2, <1>3, <1>4, <1>8, <2>1, <2>2 DEF Keeps, InStep, Goto, Scraping
<1>9. CASE failures < MaxFailures /\ failures' = failures + 1 /\ Answer(h, 500)
  BY <1>4, <1>9, AnswerKeeps DEF Codes
<1> QED
  BY <1>1, <1>7, <1>8, <1>9 DEF ReadInto

(* ... and the gauge it sets and the metrics it writes.                    *)
LEMMA ScrapeKeeps ==
  ASSUME Typed, NEW h \in Handlers, SetGauge(h) \/ WriteMetrics(h) PROVE Keeps(h)
<1> DEFINE r == result[h]
<1>1. /\ DOMAIN pc = Handlers /\ DOMAIN call = Handlers /\ DOMAIN result = Handlers
      /\ r \in Results /\ r = Fields(r) /\ FieldsOK(r) /\ r.seen \in Nat
      /\ metrics \in [Counters -> Nat] /\ gauge \in Nat /\ InStep(h)
      /\ failures \in 0 .. MaxFailures
  BY ToFields DEF Typed, FieldsOK
<1>2. /\ UNCHANGED <<call, failures, metrics>>
      /\ gauge' \in Nat /\ call' \in [Handlers -> Calls \cup {NoCall}]
      /\ metrics' \in [Counters -> Nat] /\ call'[h] \in Calls \cup {NoCall}
  BY <1>1 DEF SetGauge, WriteMetrics, At, Typed
<1>3. CASE Answer(h, 200)
  BY <1>2, <1>3, AnswerKeeps DEF Codes
<1>4. ASSUME NEW s, s = Fields(s), FieldsOK(s), result' = [result EXCEPT ![h] = s],
             \/ Goto(h, "again") /\ Scraping(h)
             \/ Goto(h, "write") /\ Scraping(h)
             \/ UNCHANGED pc /\ pc[h] = "write"
             \/ Goto(h, "done")
      PROVE  Keeps(h)
  <2>1. result'[h] \in Results /\ DOMAIN result' = Handlers
    BY <1>1, <1>4, FromFields
  <2> QED
    BY <1>1, <1>2, <1>4, <2>1 DEF Keeps, InStep, Goto, Scraping
<1>5. CASE pc[h] = "read" /\ call[h].op = "scrape" /\ Goto(h, "again") /\ UNCHANGED result
  <2>1. Scraping(h)
    BY <1>1, <1>5 DEF InStep, Scraping, PublicReads
  <2>2. result' = [result EXCEPT ![h] = r]
    BY <1>1, <1>5 DEF Typed
  <2> QED
    BY <1>1, <1>4, <1>5, <2>1, <2>2
<1>6. CASE pc[h] = "again" /\ Goto(h, "write") /\ result' = [result EXCEPT ![h].seen = 0]
  <2>1. PICK s : s = [r EXCEPT !.seen = 0]
    OBVIOUS
  <2>2. s = Fields(s) /\ FieldsOK(s)
    BY <1>1, <2>1 DEF Fields, FieldsOK
  <2>3. Scraping(h) /\ result' = [result EXCEPT ![h] = s]
    BY <1>1, <1>6, <2>1 DEF InStep
  <2> QED
    BY <1>4, <1>6, <2>2, <2>3
<1>7. ASSUME NEW x \in Nat, result' = [result EXCEPT ![h].lines = Append(r.lines, x)],
             pc[h] = "write", UNCHANGED pc
      PROVE  Keeps(h)
  <2>1. PICK l : l = Append(r.lines, x)
    OBVIOUS
  <2>2. l \in Seq(Nat)
    BY <1>1, <2>1 DEF FieldsOK
  <2>3. PICK s : s = [r EXCEPT !.lines = l]
    OBVIOUS
  <2>4. s = Fields(s) /\ FieldsOK(s)
    BY <1>1, <2>2, <2>3 DEF Fields, FieldsOK
  <2>5. result' = [result EXCEPT ![h] = s]
    BY <1>7, <2>1, <2>3
  <2> QED
    BY <1>4, <1>7, <2>4, <2>5
<1>8. CASE /\ pc[h] = "write" /\ Goto(h, "done")
           /\ result' = [result EXCEPT ![h].code = 200, ![h].seen = gauge]
  <2>1. PICK s : s = [r EXCEPT !.code = 200, !.seen = gauge]
    OBVIOUS
  <2>2. s = Fields(s) /\ FieldsOK(s)
    <3>1. s = Fields(s) /\ s.code = 200 /\ s.seen = gauge
      BY <1>1, <2>1 DEF Fields
    <3>2. /\ s.replayed = r.replayed /\ s.award = r.award /\ s.status = r.status
          /\ s.counted = r.counted /\ s.before = r.before
          /\ s.budgets = r.budgets /\ s.lines = r.lines
      BY <1>1, <2>1 DEF Fields
    <3> QED
      BY <1>1, <3>1, <3>2 DEF FieldsOK, Codes
  <2>3. result' = [result EXCEPT ![h] = s]
    BY <1>1, <1>8, <2>1
  <2> QED
    BY <1>4, <1>8, <2>2, <2>3
<1>9. metrics.payments \in Nat /\ metrics.awarded \in Nat
  BY <1>1 DEF Counters
<1>10. CASE WriteMetrics(h)
  <2>1. CASE /\ result' = [result EXCEPT ![h].lines =
                             Append(r.lines, IF r.lines = <<>> THEN metrics.payments
                                                               ELSE metrics.awarded)]
             /\ pc[h] = "write" /\ UNCHANGED pc
    BY <1>7, <1>9, <2>1
  <2> QED
    BY <1>8, <1>10, <2>1 DEF WriteMetrics, At
<1> QED
  BY <1>3, <1>5, <1>6, <1>10 DEF SetGauge, At

(* What has been told is counted in natural numbers.                       *)
LEMMA ToldTypes ==
  ASSUME Typed, NEW h \in Handlers, Steps(h) PROVE told' \in Scrapes
<1>1. told \in Scrapes /\ result[h].award \in Nat
  BY ToFields DEF Typed, FieldsOK
<1>2. CASE Reply(h)
  BY <1>1, <1>2 DEF Reply, Scrapes
<1>3. CASE ~Reply(h)
  <2>1. told' = told
    BY <1>3 DEF Steps, Refuses, RequireUser, RateLimited, RefuseBody, ReadUser, AtOnce,
       ProcessPayment, RedeemBalance, Recovered, Record, ReadCampaign, SetGauge,
       WriteMetrics
  <2> QED
    BY <1>1, <2>1
<1> QED
  BY <1>2, <1>3

(* Every step of a handler keeps its types.                                *)
LEMMA StepKeeps ==
  ASSUME Typed, NEW h \in Handlers, Steps(h) PROVE Keeps(h)
<1>1. /\ DOMAIN pc = Handlers /\ DOMAIN call = Handlers /\ DOMAIN result = Handlers
      /\ metrics \in [Counters -> Nat] /\ gauge \in Nat /\ InStep(h)
      /\ call \in [Handlers -> Calls \cup {NoCall}] /\ failures \in 0 .. MaxFailures
  BY DEF Typed
<1>2. CASE Refuses(h)
  <2>1. PICK code \in Codes : Answer(h, code) /\ UNCHANGED <<call, gauge, failures>>
    BY <1>2 DEF Refuses, RequireUser, RateLimited, RefuseBody, ReadUser, AtOnce, At, Codes
  <2>2. metrics' \in [Counters -> Nat]
    BY <1>1, <1>2 DEF Refuses, RequireUser, RateLimited, RefuseBody, ReadUser, Counters
  <2> QED
    BY <1>1, <2>1, <2>2, AnswerKeeps
<1>3. CASE Recovered(h)
  BY <1>1, <1>3, AnswerKeeps DEF Recovered, Codes
<1>4. CASE Reply(h)
  BY <1>1, <1>4, NothingYet DEF Reply, Goto, Keeps, InStep
<1> QED
  BY <1>2, <1>3, <1>4, ProcessKeeps, RedeemKeeps, RecordKeeps, ReadKeeps,
     ScrapeKeeps DEF Steps

(* The process starts well typed.                                          *)
LEMMA TypedInit == Init => Typed
<1> SUFFICES ASSUME Init PROVE Typed
  OBVIOUS
<1>1. \A h \in Handlers : InStep(h)
  BY DEF Init, InStep
<1>2. failures \in 0 .. MaxFailures
  BY ServiceAssumption DEF Init
<1> QED
  BY <1>1, <1>2, TablesInvInit, CountersAre, NothingYet
     DEF Init, Typed, NothingTold, Scrapes

(* Every step keeps the types.                                             *)
LEMMA TypedStep == Typed /\ [Next]_vars => Typed'
<1> SUFFICES ASSUME Typed, [Next]_vars PROVE Typed'
  OBVIOUS
<1>1. TablesInv'
  BY TablesInvStep DEF Typed
<1>2. ASSUME NEW h \in Handlers, Steps(h)
      PROVE  Typed'
  <2>1. Keeps(h)
    BY <1>2, StepKeeps
  <2>2. /\ \A g \in Handlers \ {h} : Same(g)
        /\ pc' = [g \in Handlers |-> pc'[g]]
        /\ call' = [g \in Handlers |-> call'[g]]
        /\ result' = [g \in Handlers |-> result'[g]]
    BY <1>2, OneMoves
  <2>3. \A g \in Handlers : InStep(g)'
    BY <2>1, <2>2 DEF Typed, Same, Keeps, InStep, Scraping
  <2>4. pc' \in [Handlers -> {"idle", "stored", "read", "again", "write", "done"}]
    BY <2>1, <2>2 DEF Typed, Same, Keeps
  <2>5. call' \in [Handlers -> Calls \cup {NoCall}]
    BY <2>1, <2>2 DEF Typed, Same, Keeps
  <2>6. result' \in [Handlers -> Results]
    BY <2>1, <2>2 DEF Typed, Same, Keeps
  <2> QED
    BY <1>1, <1>2, <2>1, <2>3, <2>4, <2>5, <2>6, ToldTypes DEF Typed, Keeps
<1>3. CASE Restart
  <2>1. /\ pc' = [h \in Handlers |-> "idle"] /\ call' = [h \in Handlers |-> NoCall]
        /\ result' = [h \in Handlers |-> NoResult]
        /\ metrics' \in [Counters -> Nat] /\ gauge' = 0 /\ told' \in Scrapes
    BY <1>3, CountersAre DEF Restart, NothingTold, Scrapes
  <2>2. failures' \in 0 .. MaxFailures
    BY <1>3, ServiceAssumption DEF Restart, Typed
  <2>3. \A h \in Handlers : InStep(h)'
    BY <2>1 DEF InStep
  <2> QED
    BY <1>1, <2>1, <2>2, <2>3, NothingYet DEF Typed
<1>4. CASE UNCHANGED vars
  BY <1>1, <1>4 DEF Typed, InStep, Scraping, vars, process
<1> QED
  BY <1>2, <1>3, <1>4 DEF Next, Steps, Refuses

(* They hold of every state.                                               *)
LEMMA TypedAlways == Spec => []Typed
  BY TypedInit, TypedStep, PTL DEF Spec

(* The process is always well typed: in particular no counter and no gauge *)
(* is ever negative.                                                       *)
THEOREM ServiceTypes == Spec => []TypeOK
<1>1. Typed => TypeOK
  <2> SUFFICES ASSUME Typed PROVE TypeOK
    OBVIOUS
  <2>1. \A h \in Handlers : result[h].code \in {0, 200, 201, 400, 401, 422, 429, 500}
    BY ToFields DEF Typed, FieldsOK, Codes
  <2>2. \A m \in DOMAIN NoCounts : metrics[m] \in Nat
    BY CountersAre DEF Typed
  <2> QED
    BY <2>1, <2>2 DEF Typed, TypeOK, TablesInv, CampaignInv, Calls, Scrapes
<1> QED
  BY <1>1, TypedAlways, PTL

-----------------------------------------------------------------------------
(* The budget gauge.                                                       *)

(* A failure is counted.                                                   *)
LEMMA FailuresCounted ==
  ASSUME NEW h, Steps(h) PROVE failures' = failures \/ failures' = failures + 1
<1>1. CASE Refuses(h)
  BY <1>1 DEF Refuses, RequireUser, RateLimited, RefuseBody, ReadUser, AtOnce
<1>2. CASE ProcessPayment(h)
  BY <1>2 DEF ProcessPayment, Stored
<1>3. CASE RedeemBalance(h)
  BY <1>3 DEF RedeemBalance, Stored
<1>4. CASE Recovered(h) \/ Record(h) \/ ReadCampaign(h)
  BY <1>4 DEF Recovered, Record, ReadCampaign
<1>5. CASE SetGauge(h) \/ WriteMetrics(h) \/ Reply(h)
  BY <1>5 DEF SetGauge, WriteMetrics, Reply
<1> QED
  BY <1>1, <1>2, <1>3, <1>4, <1>5 DEF Steps

(* It holds a budget that it is going to put into the gauge.               *)
Reading(h) == pc[h] \in {"read", "again"}

(* It is a scrape whose own read succeeded.                                *)
Fresh(h) == Scraping(h) /\ result[h].budgets # {}

Below(n, B) == \E b \in B : n <= b

(* What is read and not stored yet was the budget at some moment.  From    *)
(* the time a scrape has stored its own budget until it ends, the gauge    *)
(* holds nothing older than what was not stored when it came in.           *)
Recent(h) ==
  /\ Reading(h) => result[h].seen >= remaining
  /\ Fresh(h) /\ pc[h] \in {"read", "again", "write"} =>
       /\ Below(remaining, result[h].budgets)
       /\ \A g \in Handlers : Reading(g) => Below(result[g].seen, result[h].budgets)
  /\ Fresh(h) /\ pc[h] \in {"again", "write"} =>
       gauge >= remaining /\ Below(gauge, result[h].budgets)
  /\ Fresh(h) /\ pc[h] = "done" =>
       result[h].seen >= remaining /\ Below(result[h].seen, result[h].budgets)

AllRecent == \A h \in Handlers : Recent(h)

(* The numbers are numbers.                                                *)
LEMMA BudgetTypes ==
  /\ Typed => /\ remaining \in Nat /\ gauge \in Nat
              /\ \A h \in Handlers : /\ result[h].seen \in Nat
                                     /\ result[h].budgets \in SUBSET Nat
  /\ Typed' => /\ remaining' \in Nat /\ gauge' \in Nat
               /\ \A h \in Handlers : /\ result'[h].seen \in Nat
                                      /\ result'[h].budgets \in SUBSET Nat
<1>1. ASSUME Typed
      PROVE  /\ remaining \in Nat /\ gauge \in Nat
             /\ \A h \in Handlers : /\ result[h].seen \in Nat
                                    /\ result[h].budgets \in SUBSET Nat
  BY <1>1, ToFields DEF Typed, TablesInv, CampaignInv, TablesOK, FieldsOK
<1>2. ASSUME Typed'
      PROVE  /\ remaining' \in Nat /\ gauge' \in Nat
             /\ \A h \in Handlers : /\ result'[h].seen \in Nat
                                    /\ result'[h].budgets \in SUBSET Nat
  BY <1>2, ToFields DEF Typed, TablesInv, CampaignInv, TablesOK, FieldsOK
<1> QED
  BY <1>1, <1>2

(* An answer ends a read.                                                  *)
LEMMA AnswerEnds ==
  ASSUME Typed, NEW h \in Handlers, NEW code, Answer(h, code)
  PROVE  pc'[h] = "done" /\ ~Reading(h)' /\ result'[h].budgets = {}
<1>1. DOMAIN pc = Handlers /\ DOMAIN result = Handlers
  BY DEF Typed
<1>2. PICK s : s = [NoResult EXCEPT !.code = code]
  OBVIOUS
<1>3. s.budgets = {}
  BY <1>2 DEF NoResult
<1>4. pc'[h] = "done" /\ result'[h] = s
  BY <1>1, <1>2 DEF Answer, Goto
<1> QED
  BY <1>3, <1>4 DEF Reading

(* A successful read.                                                      *)
LEMMA ReadBegins ==
  ASSUME Typed, NEW h \in Handlers, NEW c, NEW r, Opens(c, r), NEW may, ReadOK(h, r, may)
  PROVE  /\ pc'[h] = "read" /\ result'[h].seen = remaining
         /\ result'[h].budgets = may
         /\ result'[h].before = r.before /\ result'[h].lines = r.lines
<1>1. DOMAIN pc = Handlers /\ DOMAIN result = Handlers
  BY DEF Typed
<1>2. r = Fields(r)
  <2>1. NoResult = Fields(NoResult)
    BY NothingYet, ToFields
  <2>2. told \in Scrapes
    BY DEF Typed
  <2> QED
    BY <2>1, <2>2, ScrapeBegins DEF Opens
<1>3. PICK s : s = [r EXCEPT !.seen = remaining, !.budgets = may]
  OBVIOUS
<1>4. /\ s.seen = remaining /\ s.budgets = may
      /\ s.before = r.before /\ s.lines = r.lines
  BY <1>2, <1>3 DEF Fields
<1>5. pc'[h] = "read" /\ result'[h] = s
  BY <1>1, <1>3 DEF Goto, ReadOK
<1> QED
  BY <1>4, <1>5

(* What a step does to the gauge, and to the budgets on their way into it. *)
LEMMA SeenMoves ==
  ASSUME Typed, NEW h \in Handlers, Steps(h)
  PROVE  /\ gauge' = gauge \/ (Reading(h) /\ gauge' = result[h].seen)
         /\ Reading(h)' => \/ Reading(h) /\ result'[h].seen = result[h].seen
                           \/ result'[h].seen = remaining
<1>1. DOMAIN pc = Handlers /\ DOMAIN result = Handlers
  BY DEF Typed
<1>2. CASE Refuses(h) \/ Recovered(h)
  <2>1. PICK code : Answer(h, code) /\ UNCHANGED gauge
    BY <1>2 DEF Refuses, RequireUser, RateLimited, RefuseBody, ReadUser, AtOnce, Recovered
  <2> QED
    BY <2>1, AnswerEnds
<1>3. CASE ProcessPayment(h) \/ RedeemBalance(h)
  <2>1. UNCHANGED gauge /\ pc'[h] \in {"stored", "done"}
    BY <1>1, <1>3 DEF ProcessPayment, RedeemBalance, Stored, Answer, Goto
  <2> QED
    BY <2>1 DEF Reading
<1>4. CASE Record(h)
  <2>1. UNCHANGED gauge /\ pc'[h] \in {"stored", "done"}
    BY <1>1, <1>4 DEF Record, At, Goto
  <2> QED
    BY <2>1 DEF Reading
<1>5. CASE ReadCampaign(h)
  <2>1. PICK c, r, may :
          /\ c \in PublicReads /\ Opens(c, r)
          /\ ReadInto(h, c, r, may)
    BY <1>5, ReadsInto
  <2>2. CASE ReadOK(h, r, may)
    <3>1. UNCHANGED gauge
      BY <2>1 DEF ReadInto
    <3>2. result'[h].seen = remaining
      BY <2>1, <2>2, ReadBegins
    <3> QED
      BY <3>1, <3>2
  <2>3. CASE Goto(h, "write")
    BY <1>1, <2>1, <2>3 DEF ReadInto, Goto, Reading
  <2>4. CASE Answer(h, 500)
    BY <2>1, <2>4, AnswerEnds DEF ReadInto
  <2> QED
    BY <2>1, <2>2, <2>3, <2>4 DEF ReadInto
<1>6. CASE SetGauge(h)
  <2>1. Reading(h) /\ gauge' = result[h].seen
    BY <1>6 DEF SetGauge, At, Reading
  <2>2. CASE Answer(h, 200)
    BY <2>1, <2>2, AnswerEnds
  <2>3. CASE UNCHANGED result
    BY <2>1, <2>3
  <2>4. CASE Goto(h, "write")
    BY <1>1, <2>1, <2>4 DEF Goto, Reading
  <2> QED
    BY <1>6, <2>2, <2>3, <2>4 DEF SetGauge
<1>7. CASE WriteMetrics(h)
  <2>1. UNCHANGED gauge /\ pc'[h] \in {"write", "done"}
    BY <1>1, <1>7 DEF WriteMetrics, At, Goto
  <2> QED
    BY <2>1 DEF Reading
<1>8. CASE Reply(h)
  BY <1>1, <1>8 DEF Reply, Goto, Reading
<1> QED
  BY <1>2, <1>3, <1>4, <1>5, <1>6, <1>7, <1>8 DEF Steps

(* The life of a scrape whose own read succeeds.                           *)
LEMMA FreshSteps ==
  ASSUME Typed, NEW h \in Handlers, Steps(h), Fresh(h)',
         pc'[h] \in {"read", "again", "write", "done"}
  PROVE  /\ UNCHANGED remaining
         /\ \/ /\ pc'[h] = "read" /\ result'[h].budgets = {remaining} \cup Unstored
               /\ result'[h].seen = remaining
            \/ /\ Fresh(h) /\ result'[h].budgets = result[h].budgets
               /\ \/ /\ pc[h] \in {"read", "again"} /\ pc'[h] \in {"again", "write"}
                     /\ gauge' = result[h].seen
                  \/ pc[h] = "write" /\ pc'[h] = "write" /\ gauge' = gauge
                  \/ pc[h] = "write" /\ pc'[h] = "done" /\ result'[h].seen = gauge
<1>1. /\ DOMAIN pc = Handlers /\ DOMAIN call = Handlers /\ DOMAIN result = Handlers
      /\ InStep(h) /\ result[h] = Fields(result[h])
  BY ToFields DEF Typed
<1>2. ASSUME NEW code, Answer(h, code) PROVE FALSE
  BY <1>2, AnswerEnds DEF Fresh
<1>3. CASE Refuses(h) \/ Recovered(h)
  BY <1>2, <1>3 DEF Refuses, RequireUser, RateLimited, RefuseBody, ReadUser, AtOnce,
                    Recovered
<1>4. CASE ProcessPayment(h) \/ RedeemBalance(h)
  <2>1. PICK c : c \in Payments \cup Redemptions /\ Arrives(h, c)
    BY <1>4 DEF ProcessPayment, RedeemBalance
  <2> QED
    BY <1>1, <2>1 DEF Arrives, Fresh, Scraping, Payments, Redemptions
<1>5. CASE Record(h)
  BY <1>1, <1>5 DEF Record, At, InStep, Fresh, Scraping, Payments, Redemptions
<1>6. CASE ReadCampaign(h)
  <2>1. PICK c, r, may :
          /\ c \in PublicReads /\ Opens(c, r)
          /\ may = IF c.op = "scrape" THEN {remaining} \cup Unstored ELSE {}
          /\ ReadInto(h, c, r, may)
    BY <1>6, ReadsInto
  <2>2. c.op = "scrape" /\ UNCHANGED remaining
    BY <1>1, <2>1 DEF ReadInto, Arrives, Fresh, Scraping, tables
  <2>3. CASE ReadOK(h, r, may)
    <3>1. /\ pc'[h] = "read" /\ result'[h].seen = remaining
          /\ result'[h].budgets = may
      BY <2>1, <2>3, ReadBegins
    <3>2. may = {remaining} \cup Unstored
      BY <2>1, <2>2
    <3> QED
      BY <2>2, <3>1, <3>2
  <2>4. CASE result' = [result EXCEPT ![h] = r]
    <3>1. told \in Scrapes
      BY DEF Typed
    <3>2. r.budgets = {}
      BY <2>1, <2>2, <3>1, ScrapeBegins DEF Opens
    <3> QED
      BY <1>1, <2>4, <3>2 DEF Fresh
  <2> QED
    BY <1>2, <2>1, <2>3, <2>4 DEF ReadInto
<1>7. CASE SetGauge(h)
  <2>1. gauge' = result[h].seen /\ UNCHANGED <<call, remaining>>
    BY <1>7 DEF SetGauge, At, tables
  <2>2. CASE pc[h] = "read" /\ Goto(h, "again") /\ UNCHANGED result
    BY <1>1, <2>1, <2>2 DEF Goto, Fresh, Scraping
  <2>3. CASE pc[h] = "again" /\ Goto(h, "write") /\ result' = [result EXCEPT ![h].seen = 0]
    <3>1. PICK r, s : r = result[h] /\ r = Fields(r) /\ s = [r EXCEPT !.seen = 0]
      BY <1>1
    <3>2. s.budgets = r.budgets
      BY <3>1 DEF Fields
    <3>3. result'[h] = s /\ pc'[h] = "write"
      BY <1>1, <2>3, <3>1 DEF Goto
    <3> QED
      BY <2>1, <2>3, <3>1, <3>2, <3>3 DEF Fresh, Scraping
  <2> QED
    BY <1>2, <1>7, <2>2, <2>3 DEF SetGauge, At
<1>8. CASE WriteMetrics(h)
  <2>1. pc[h] = "write" /\ gauge' = gauge /\ UNCHANGED <<call, remaining>>
    BY <1>8 DEF WriteMetrics, At, tables
  <2>2. ASSUME NEW l, result' = [result EXCEPT ![h].lines = l], UNCHANGED pc
        PROVE  /\ Fresh(h) /\ result'[h].budgets = result[h].budgets
               /\ pc'[h] = "write"
    <3>1. PICK r, s : r = result[h] /\ r = Fields(r) /\ s = [r EXCEPT !.lines = l]
      BY <1>1
    <3>2. s.budgets = r.budgets
      BY <3>1 DEF Fields
    <3>3. result'[h] = s
      BY <1>1, <2>2, <3>1
    <3> QED
      BY <2>1, <2>2, <3>1, <3>2, <3>3 DEF Fresh, Scraping
  <2>3. CASE /\ Goto(h, "done")
             /\ result' = [result EXCEPT ![h].code = 200, ![h].seen = gauge]
    <3>1. PICK r, s : /\ r = result[h] /\ r = Fields(r)
                      /\ s = [r EXCEPT !.code = 200, !.seen = gauge]
      BY <1>1
    <3>2. s.budgets = r.budgets /\ s.seen = gauge
      BY <3>1 DEF Fields
    <3>3. result'[h] = s /\ pc'[h] = "done"
      BY <1>1, <2>3, <3>1 DEF Goto
    <3> QED
      BY <2>1, <3>1, <3>2, <3>3 DEF Fresh, Scraping
  <2> QED
    BY <1>8, <2>1, <2>2, <2>3 DEF WriteMetrics
<1>9. CASE Reply(h)
  BY <1>1, <1>9 DEF Reply, Goto
<1> QED
  BY <1>3, <1>4, <1>5, <1>6, <1>7, <1>8, <1>9 DEF Steps

(* A bound on what is read is one on what others have read and on the      *)
(* budget, whoever moves.                                                  *)
LEMMA StillBelow ==
  ASSUME Typed, Typed', NEW h \in Handlers, Steps(h), remaining' <= remaining,
         NEW B \in SUBSET Nat, Below(remaining, B),
         \A g \in Handlers : Reading(g) => Below(result[g].seen, B)
  PROVE  /\ Below(remaining', B)
         /\ \A g \in Handlers : Reading(g)' => Below(result'[g].seen, B)
         /\ gauge' = gauge \/ Below(gauge', B)
<1>1. /\ gauge' = gauge \/ (Reading(h) /\ gauge' = result[h].seen)
      /\ Reading(h)' => \/ Reading(h) /\ result'[h].seen = result[h].seen
                        \/ result'[h].seen = remaining
  BY SeenMoves
<1>2. Below(remaining', B)
  <2>1. PICK b \in B : b \in Nat /\ remaining <= b
    BY DEF Below
  <2>2. remaining \in Nat /\ remaining' \in Nat
    BY BudgetTypes
  <2>3. remaining' <= b
    BY <2>1, <2>2
  <2> QED
    BY <2>3 DEF Below
<1>3. ASSUME NEW g \in Handlers, Reading(g)' PROVE Below(result'[g].seen, B)
  <2>1. CASE g = h
    BY <1>1, <1>3, <2>1
  <2>2. CASE g # h
    <3>1. Same(g)
      BY <2>2, OneMoves
    <3> QED
      BY <1>3, <3>1 DEF Same, Reading
  <2> QED
    BY <2>1, <2>2
<1> QED
  BY <1>1, <1>2, <1>3

(* The step of a handler, for itself.                                      *)
LEMMA RecentOwn ==
  ASSUME Typed, Typed', NEW h \in Handlers, Steps(h), Recent(h), remaining' <= remaining
  PROVE  Recent(h)'
<1>1. /\ remaining \in Nat /\ remaining' \in Nat /\ gauge \in Nat /\ gauge' \in Nat
      /\ result[h].seen \in Nat /\ result'[h].seen \in Nat
      /\ result[h].budgets \in SUBSET Nat /\ result'[h].budgets \in SUBSET Nat
  BY BudgetTypes
<1>2. Reading(h)' => result'[h].seen >= remaining'
  <2>1. Reading(h)' => \/ Reading(h) /\ result'[h].seen = result[h].seen
                       \/ result'[h].seen = remaining
    BY SeenMoves
  <2> QED
    BY <1>1, <2>1 DEF Recent
<1> SUFFICES ASSUME Fresh(h)', pc'[h] \in {"read", "again", "write", "done"}
             PROVE  Recent(h)'
  BY <1>2 DEF Recent
<1>3. UNCHANGED remaining
  BY FreshSteps
<1>4. CASE /\ pc'[h] = "read" /\ result'[h].budgets = {remaining} \cup Unstored
           /\ result'[h].seen = remaining
  <2>1. PICK B : B = {remaining} \cup Unstored /\ B \in SUBSET Nat
    BY <1>1, UnstoredTypes
  <2>2. Below(remaining, B)
    BY <1>1, <2>1 DEF Below
  <2>3. \A g \in Handlers : Reading(g) => Below(result[g].seen, B)
    BY <2>1, BudgetTypes DEF Below, Unstored, Reading
  <2>4. /\ Below(remaining', B)
        /\ \A g \in Handlers : Reading(g)' => Below(result'[g].seen, B)
    BY <2>1, <2>2, <2>3, StillBelow
  <2> QED
    BY <1>2, <1>4, <2>1, <2>4 DEF Recent
<1>5. CASE /\ Fresh(h) /\ result'[h].budgets = result[h].budgets
           /\ pc[h] \in {"read", "again", "write"}
           /\ pc'[h] \in {"again", "write"}
           /\ \/ Reading(h) /\ gauge' = result[h].seen
              \/ pc[h] = "write" /\ gauge' = gauge
  <2>1. PICK B : B = result[h].budgets /\ B \in SUBSET Nat
    BY <1>1
  <2>2. /\ Below(remaining, B)
        /\ \A g \in Handlers : Reading(g) => Below(result[g].seen, B)
    BY <1>5, <2>1 DEF Recent
  <2>3. /\ Below(remaining', B)
        /\ \A g \in Handlers : Reading(g)' => Below(result'[g].seen, B)
    BY <2>1, <2>2, StillBelow
  <2>4. gauge' >= remaining' /\ Below(gauge', B)
    BY <1>3, <1>5, <2>1, <2>2 DEF Recent
  <2> QED
    BY <1>2, <1>5, <2>1, <2>3, <2>4 DEF Recent
<1>6. CASE /\ Fresh(h) /\ result'[h].budgets = result[h].budgets
           /\ pc[h] = "write" /\ pc'[h] = "done" /\ result'[h].seen = gauge
  <2>1. gauge >= remaining /\ Below(gauge, result[h].budgets)
    BY <1>6 DEF Recent
  <2> QED
    BY <1>2, <1>3, <1>6, <2>1 DEF Recent
<1> QED
  BY <1>4, <1>5, <1>6, FreshSteps DEF Reading

(* And for another one.                                                    *)
LEMMA RecentKept ==
  ASSUME Typed, Typed', NEW h \in Handlers, Steps(h), Recent(h),
         NEW k \in Handlers, k # h, Recent(k), remaining' <= remaining
  PROVE  Recent(k)'
<1>1. /\ remaining \in Nat /\ remaining' \in Nat /\ gauge \in Nat /\ gauge' \in Nat
      /\ result[k].seen \in Nat /\ result[h].seen \in Nat
      /\ result[k].budgets \in SUBSET Nat
  BY BudgetTypes
<1>2. Same(k)
  BY OneMoves
<1>3. gauge' = gauge \/ gauge' >= remaining'
  BY <1>1, SeenMoves DEF Recent
<1>4. PICK B : B = result[k].budgets /\ B = result'[k].budgets /\ B \in SUBSET Nat
  BY <1>1, <1>2 DEF Same
<1>5. Fresh(k)' => Fresh(k)
  BY <1>2 DEF Same, Fresh, Scraping
<1>6. Reading(k)' => result'[k].seen >= remaining'
  BY <1>1, <1>2 DEF Recent, Same, Reading
<1>7. ASSUME Fresh(k), pc[k] \in {"read", "again", "write"}
      PROVE  /\ Below(remaining', B)
             /\ \A g \in Handlers : Reading(g)' => Below(result'[g].seen, B)
             /\ gauge' = gauge \/ Below(gauge', B)
  <2>1. /\ Below(remaining, B)
        /\ \A g \in Handlers : Reading(g) => Below(result[g].seen, B)
    BY <1>4, <1>7 DEF Recent
  <2> QED
    BY <1>4, <2>1, StillBelow
<1>8. ASSUME Fresh(k), pc[k] \in {"again", "write"}
      PROVE  gauge' >= remaining' /\ Below(gauge', B)
  <2>1. gauge >= remaining /\ Below(gauge, B)
    BY <1>4, <1>8 DEF Recent
  <2> QED
    BY <1>1, <1>3, <1>7, <1>8, <2>1
<1>9. ASSUME Fresh(k), pc[k] = "done"
      PROVE  result'[k].seen >= remaining' /\ Below(result'[k].seen, B)
  BY <1>1, <1>2, <1>4, <1>9 DEF Recent, Same
<1> QED
  BY <1>2, <1>4, <1>5, <1>6, <1>7, <1>8, <1>9 DEF Recent, Same

(* No step, a failure or a restart included, breaks it.                    *)
LEMMA RecentStep ==
  ASSUME Typed, Typed', AllRecent, [Next]_vars PROVE AllRecent'
<1>1. remaining' <= remaining
  BY TablesMove, RowsGrow DEF Typed, TablesInv, CampaignInv
<1> SUFFICES ASSUME NEW g \in Handlers PROVE Recent(g)'
  BY DEF AllRecent
<1>2. ASSUME NEW h \in Handlers, Steps(h) PROVE Recent(g)'
  BY <1>1, <1>2, RecentOwn, RecentKept DEF AllRecent
<1>3. CASE Restart
  <2>1. \A h \in Handlers : pc'[h] = "idle"
    BY <1>3 DEF Restart
  <2> QED
    BY <2>1 DEF Recent, Reading
<1>4. CASE UNCHANGED vars
  BY <1>4 DEF vars, process, tables, AllRecent, Recent, Reading, Fresh, Scraping, Below
<1> QED
  BY <1>2, <1>3, <1>4 DEF Next, Steps, Refuses

(* What a scrape writes is what the gauge holds.                           *)
LEMMA ScrapeWritesGauge ==
  ASSUME Typed, NEW h \in Handlers, Steps(h), pc'[h] = "done", Scraping(h)'
  PROVE  result'[h].seen = 0 \/ (result'[h].seen = gauge /\ UNCHANGED remaining)
<1>1. /\ DOMAIN pc = Handlers /\ DOMAIN call = Handlers /\ DOMAIN result = Handlers
      /\ InStep(h) /\ result[h] = Fields(result[h])
  BY ToFields DEF Typed
<1>2. ASSUME NEW code, Answer(h, code) PROVE result'[h].seen = 0
  <2>1. PICK s : s = [NoResult EXCEPT !.code = code]
    OBVIOUS
  <2>2. s.seen = 0
    BY <2>1 DEF NoResult
  <2>3. result'[h] = s
    BY <1>1, <1>2, <2>1 DEF Answer
  <2> QED
    BY <2>2, <2>3
<1>3. CASE Refuses(h) \/ Recovered(h)
  BY <1>2, <1>3 DEF Refuses, RequireUser, RateLimited, RefuseBody, ReadUser, AtOnce,
                    Recovered
<1>4. CASE ProcessPayment(h) \/ RedeemBalance(h)
  <2>1. PICK c : c \in Payments \cup Redemptions /\ Arrives(h, c)
    BY <1>4 DEF ProcessPayment, RedeemBalance
  <2> QED
    BY <1>1, <2>1 DEF Arrives, Scraping, Payments, Redemptions
<1>5. CASE Record(h)
  BY <1>1, <1>5 DEF Record, At, InStep, Scraping, Payments, Redemptions
<1>6. CASE ReadCampaign(h)
  <2>1. Goto(h, "read") \/ Goto(h, "write") \/ Answer(h, 500)
    BY <1>6, ReadsInto DEF ReadInto, ReadOK
  <2> QED
    BY <1>1, <1>2, <2>1 DEF Goto
<1>7. CASE SetGauge(h)
  <2>1. Goto(h, "again") \/ Goto(h, "write") \/ Answer(h, 200)
    BY <1>7 DEF SetGauge
  <2> QED
    BY <1>1, <1>2, <2>1 DEF Goto
<1>8. CASE WriteMetrics(h)
  <2>1. pc[h] = "write" /\ UNCHANGED remaining
    BY <1>8 DEF WriteMetrics, At, tables
  <2>2. result' = [result EXCEPT ![h].code = 200, ![h].seen = gauge]
    BY <1>8, <2>1 DEF WriteMetrics
  <2>3. PICK r, s : /\ r = result[h] /\ r = Fields(r)
                    /\ s = [r EXCEPT !.code = 200, !.seen = gauge]
    BY <1>1
  <2>4. s.seen = gauge
    BY <2>3 DEF Fields
  <2>5. result'[h] = s
    BY <1>1, <2>2, <2>3
  <2> QED
    BY <2>1, <2>4, <2>5
<1>9. CASE Reply(h)
  BY <1>1, <1>9 DEF Reply, Goto
<1> QED
  BY <1>3, <1>4, <1>5, <1>6, <1>7, <1>8, <1>9 DEF Steps

(* The gauge is that of a fresh process or was the budget once, and so is  *)
(* what a scrape that has ended wrote.                                     *)
OnceBudget(n) == n = 0 \/ n >= remaining

Stale ==
  /\ OnceBudget(gauge)
  /\ \A h \in Handlers : pc[h] = "done" /\ Scraping(h) => OnceBudget(result[h].seen)

(* No step breaks it, since the budget only falls.                         *)
LEMMA StaleStep ==
  ASSUME Typed, Typed', AllRecent, Stale, [Next]_vars PROVE Stale'
<1>1. remaining' <= remaining
  BY TablesMove, RowsGrow DEF Typed, TablesInv, CampaignInv
<1>2. /\ remaining \in Nat /\ remaining' \in Nat /\ gauge \in Nat
      /\ \A h \in Handlers : result[h].seen \in Nat
  BY BudgetTypes
<1>3. ASSUME NEW n \in Nat, OnceBudget(n) PROVE OnceBudget(n)'
  BY <1>1, <1>2, <1>3 DEF OnceBudget
<1>4. ASSUME NEW h \in Handlers, Steps(h) PROVE Stale'
  <2>1. gauge' = gauge \/ (Reading(h) /\ gauge' = result[h].seen)
    BY <1>4, SeenMoves
  <2>2. Reading(h) => OnceBudget(result[h].seen)
    BY DEF AllRecent, Recent, OnceBudget
  <2>3. OnceBudget(gauge)'
    BY <1>1, <1>2, <2>1, <2>2 DEF Stale, OnceBudget
  <2>4. ASSUME NEW k \in Handlers, pc'[k] = "done", Scraping(k)'
        PROVE  OnceBudget(result[k].seen)'
    <3>1. CASE k = h
      <4>1. result'[h].seen = 0 \/ (result'[h].seen = gauge /\ UNCHANGED remaining)
        BY <1>4, <2>4, <3>1, ScrapeWritesGauge
      <4> QED
        BY <3>1, <4>1 DEF Stale, OnceBudget
    <3>2. CASE k # h
      <4>1. Same(k)
        BY <1>4, <3>2, OneMoves
      <4>2. OnceBudget(result[k].seen)
        BY <2>4, <4>1 DEF Stale, Same, Scraping
      <4> QED
        BY <1>1, <1>2, <4>1, <4>2 DEF OnceBudget, Same
    <3> QED
      BY <3>1, <3>2
  <2> QED
    BY <2>3, <2>4 DEF Stale
<1>5. CASE Restart
  BY <1>5 DEF Restart, Stale, OnceBudget
<1>6. CASE UNCHANGED vars
  BY <1>6 DEF vars, process, tables, Stale, OnceBudget, Scraping
<1> QED
  BY <1>4, <1>5, <1>6 DEF Next, Steps, Refuses

(* A scrape whose own read succeeded writes a budget between the one that  *)
(* remains and the largest that was still on its way into the gauge when   *)
(* it came in, and no scrape writes less than what remains but the 0 of a  *)
(* fresh process, with any number of scrapes and campaign reads, failures  *)
(* and restarts meanwhile (handler.go: Metrics; usecase.go: Campaign;      *)
(* observability.go: SetBudgetRemaining, WritePrometheus).                 *)
THEOREM ScrapedBudgetsAreRecent == Spec => []ScrapedBudgetIsRecent
<1>1. Init => AllRecent /\ Stale
  BY DEF Init, AllRecent, Recent, Reading, Stale, OnceBudget
<1>2. AllRecent /\ Stale => ScrapedBudgetIsRecent
  BY DEF AllRecent, Recent, ScrapedBudgetIsRecent, Fresh, Scraping, Below, Stale, OnceBudget
<1>3. Typed /\ Typed' /\ AllRecent /\ Stale /\ [Next]_vars => AllRecent' /\ Stale'
  BY RecentStep, StaleStep
<1> QED
  BY <1>1, <1>2, <1>3, TypedAlways, PTL DEF Spec

-----------------------------------------------------------------------------
(* More about sums (CampaignProofs has the rest).                          *)

(* Natural numbers add up to a natural number.                             *)
LEMMA TotalIsNat ==
  ASSUME NEW S, IsFiniteSet(S), NEW f, \A x \in S : f[x] \in Nat
  PROVE  Total(f, S) \in Nat
<1> SUFFICES ASSUME Total(f, S) \notin Nat PROVE FALSE
  OBVIOUS
<1> DEFINE T == {s \in SUBSET S : Total(f, s) \notin Nat}
<1>1. PICK s \in T : \A r \in T : r \subseteq s => r = s
  <2>1. T \subseteq SUBSET S /\ T # {}
    OBVIOUS
  <2> HIDE DEF T
  <2> QED
    BY <2>1, SmallestSubset
<1>2. s \subseteq S /\ IsFiniteSet(s) /\ Total(f, s) \notin Nat
  BY FS_Subset
<1>3. s # {}
  <2>1. s = {} => Total(f, s) = 0
    BY <1>2, TotalFirst
  <2> QED
    BY <1>2, <2>1
<1>4. First(s) \in s
  BY <1>3, FirstIsMember
<1>5. Total(f, s \ {First(s)}) \in Nat
  BY <1>1, <1>4
<1>6. Total(f, s) = f[First(s)] + Total(f, s \ {First(s)})
  BY <1>2, <1>3, TotalFirst
<1> QED
  BY <1>2, <1>4, <1>5, <1>6

(* Larger terms, larger sum.                                               *)
LEMMA TotalAtMost ==
  ASSUME NEW S, IsFiniteSet(S), NEW f, NEW g,
         \A x \in S : f[x] \in Int /\ g[x] \in Int /\ f[x] <= g[x]
  PROVE  Total(f, S) <= Total(g, S)
<1> SUFFICES ASSUME ~ (Total(f, S) <= Total(g, S)) PROVE FALSE
  OBVIOUS
<1> DEFINE T == {s \in SUBSET S : ~ (Total(f, s) <= Total(g, s))}
<1>1. PICK s \in T : \A r \in T : r \subseteq s => r = s
  <2>1. T \subseteq SUBSET S /\ T # {}
    OBVIOUS
  <2> HIDE DEF T
  <2> QED
    BY <2>1, SmallestSubset
<1>2. s \subseteq S /\ IsFiniteSet(s) /\ ~ (Total(f, s) <= Total(g, s))
  BY FS_Subset
<1>3. s # {}
  <2>1. s = {} => Total(f, s) = 0 /\ Total(g, s) = 0
    BY <1>2, TotalFirst
  <2> QED
    BY <1>2, <2>1
<1> DEFINE x == First(s)
           r == s \ {x}
<1>4. x \in s
  BY <1>3, FirstIsMember
<1>5. Total(f, r) <= Total(g, r)
  BY <1>1, <1>4
<1>6. Total(f, s) = f[x] + Total(f, r) /\ Total(g, s) = g[x] + Total(g, r)
  BY <1>2, <1>3, TotalFirst
<1>7. Total(f, r) \in Int /\ Total(g, r) \in Int
  <2>1. IsFiniteSet(r) /\ \A y \in r : f[y] \in Int /\ g[y] \in Int
    BY <1>2, FS_Subset
  <2> HIDE DEF r
  <2> QED
    BY <2>1, TotalIsInt
<1>8. f[x] \in Int /\ g[x] \in Int /\ f[x] <= g[x]
  BY <1>2, <1>4
<1> HIDE DEF r, x
<1> QED
  BY <1>2, <1>5, <1>6, <1>7, <1>8

(* Terms that are zero can be left out.                                    *)
LEMMA TotalOfPart ==
  ASSUME NEW S, IsFiniteSet(S), NEW P, P \subseteq S, NEW f,
         \A x \in S : f[x] \in Int, \A x \in S \ P : f[x] = 0
  PROVE  Total(f, S) = Total(f, P)
<1> SUFFICES ASSUME Total(f, S) # Total(f, S \cap P) PROVE FALSE
  <2>1. S \cap P = P
    OBVIOUS
  <2> QED
    BY <2>1
<1> DEFINE T == {s \in SUBSET S : Total(f, s) # Total(f, s \cap P)}
<1>1. PICK s \in T : \A r \in T : r \subseteq s => r = s
  <2>1. T \subseteq SUBSET S /\ T # {}
    OBVIOUS
  <2> HIDE DEF T
  <2> QED
    BY <2>1, SmallestSubset
<1>2. s \subseteq S /\ IsFiniteSet(s) /\ Total(f, s) # Total(f, s \cap P)
  BY FS_Subset
<1>3. s # {}
  <2>1. s = {} => s \cap P = s
    OBVIOUS
  <2> QED
    BY <1>2, <2>1
<1> DEFINE x == First(s)
           r == s \ {x}
<1>4. x \in s
  BY <1>3, FirstIsMember
<1>5. Total(f, r) = Total(f, r \cap P)
  BY <1>1, <1>4
<1>6. Total(f, s) = f[x] + Total(f, r)
  BY <1>2, <1>3, TotalFirst
<1>7. CASE x \in P
  <2>1. IsFiniteSet(s \cap P) /\ x \in s \cap P /\ \A y \in s \cap P : f[y] \in Int
    BY <1>2, <1>4, <1>7, FS_Subset
  <2>2. (s \cap P) \ {x} = r \cap P
    OBVIOUS
  <2>3. Total(f, s \cap P) = f[x] + Total(f, (s \cap P) \ {x})
    <3> HIDE DEF x
    <3> QED
      BY <2>1, TotalWithout
  <2> QED
    BY <1>2, <1>5, <1>6, <2>2, <2>3
<1>8. CASE x \notin P
  <2>1. r \cap P = s \cap P /\ f[x] = 0
    BY <1>2, <1>4, <1>8
  <2>2. Total(f, r) \in Int
    <3>1. IsFiniteSet(r) /\ \A y \in r : f[y] \in Int
      BY <1>2, FS_Subset
    <3> HIDE DEF r
    <3> QED
      BY <3>1, TotalIsInt
  <2>3. Total(f, r \cap P) = Total(f, s \cap P)
    BY <2>1
  <2> HIDE DEF r, x
  <2>4. Total(f, s) = Total(f, r)
    BY <1>6, <2>1, <2>2
  <2> QED
    BY <1>2, <1>5, <2>3, <2>4
<1> QED
  BY <1>7, <1>8

-----------------------------------------------------------------------------
(* What is still to be counted.                                            *)

Items(s, k, c) == {n \in k + 1 .. Len(s) : s[n].counter = c}

ItemFor(s, n, c) == IF s[n].counter = c THEN s[n].n ELSE 0

LeftOf(s, k, c) == MapThenSumSet(LAMBDA n : s[n].n, Items(s, k, c))

Adds(h) == IF pc[h] = "stored" THEN AddsOf(call[h], result[h]) ELSE <<>>

Left(h, c) == LeftOf(Adds(h), result[h].counted, c)

(* Pending is the sum of it, now and after a step.                         *)
LEMMA PendingIsTotal ==
  ASSUME NEW c
  PROVE  /\ Pending(c) = Total([h \in Handlers |-> Left(h, c)], Handlers)
         /\ Pending(c)' = Total([h \in Handlers |-> Left(h, c)'], Handlers)
<1>1. Total([h \in Handlers |-> Left(h, c)], Handlers) = MapThenSumSet(LAMBDA h : Left(h, c), Handlers)
  BY Zenon DEF Total, IsSum, First, MapThenSumSet, MapThenFoldSet
<1>2. MapThenSumSet(LAMBDA h : Left(h, c), Handlers) = Pending(c)
  BY Zenon DEF Pending, Left, LeftOf, Items, Adds
<1>3. Total([h \in Handlers |-> Left(h, c)'], Handlers) = MapThenSumSet(LAMBDA h : Left(h, c)', Handlers)
  BY Zenon DEF Total, IsSum, First, MapThenSumSet, MapThenFoldSet
<1>4. MapThenSumSet(LAMBDA h : Left(h, c)', Handlers) = Pending(c)'
  BY Zenon DEF Pending, Left, LeftOf, Items, Adds
<1> QED
  BY <1>1, <1>2, <1>3, <1>4, Zenon

(* Each addition takes its own amount off.                                 *)
LEMMA LeftStep ==
  ASSUME NEW s \in Seq([counter: Counters, n: Nat]), NEW k \in Nat, NEW c
  PROVE  /\ LeftOf(s, k, c) \in Nat
         /\ k >= Len(s) => LeftOf(s, k, c) = 0
         /\ k < Len(s) =>
              LeftOf(s, k, c) = ItemFor(s, k + 1, c) + LeftOf(s, k + 1, c)
<1> DEFINE f == [n \in 1 .. Len(s) |-> s[n].n]
           I == Items(s, k, c)
<1>1. /\ Len(s) \in Nat
      /\ \A n \in 1 .. Len(s) : s[n] \in [counter: Counters, n: Nat]
  <2> HIDE DEF f, I
  <2>1. Len(s) \in Nat
    OBVIOUS
  <2> QED
    BY <2>1, ItemOf
<1>2. \A n \in 1 .. Len(s) : f[n] = s[n].n /\ f[n] \in Nat
  BY <1>1
<1>3. \A m \in Nat : /\ Items(s, m, c) \subseteq 1 .. Len(s)
                     /\ IsFiniteSet(Items(s, m, c))
  <2> SUFFICES ASSUME NEW m \in Nat PROVE /\ Items(s, m, c) \subseteq 1 .. Len(s)
                                          /\ IsFiniteSet(Items(s, m, c))
    OBVIOUS
  <2>1. Items(s, m, c) \subseteq 1 .. Len(s)
    BY <1>1 DEF Items
  <2>2. IsFiniteSet(1 .. Len(s))
    BY <1>1, FS_Interval
  <2> QED
    BY <2>1, <2>2, FS_Subset
<1>4. ASSUME NEW m \in Nat PROVE LeftOf(s, m, c) = Total(f, Items(s, m, c))
  <2> DEFINE g == [n \in Items(s, m, c) |-> s[n].n]
  <2>1. LeftOf(s, m, c) = Total(g, Items(s, m, c))
    BY Zenon DEF LeftOf, Total, IsSum, First, MapThenSumSet, MapThenFoldSet
  <2>2. IsFiniteSet(Items(s, m, c)) /\ \A n \in Items(s, m, c) : g[n] = f[n]
    BY <1>2, <1>3
  <2> HIDE DEF f, g
  <2>3. Total(g, Items(s, m, c)) = Total(f, Items(s, m, c))
    BY <2>2, TotalSame
  <2> QED
    BY <2>1, <2>3
<1>5. LeftOf(s, k, c) \in Nat
  <2>1. IsFiniteSet(I) /\ \A n \in I : f[n] \in Nat
    BY <1>2, <1>3
  <2> HIDE DEF f, I
  <2>2. Total(f, I) \in Nat
    BY <2>1, TotalIsNat
  <2> QED
    BY <1>4, <2>2 DEF I
<1>6. ASSUME k >= Len(s) PROVE LeftOf(s, k, c) = 0
  <2>1. I = {}
    BY <1>1, <1>6 DEF Items
  <2> HIDE DEF f, I
  <2>2. Total(f, I) = 0
    BY <2>1, TotalFirst, FS_EmptySet
  <2> QED
    BY <1>4, <2>2 DEF I
<1>7. ASSUME k < Len(s), s[k + 1].counter = c
      PROVE  LeftOf(s, k, c) = s[k + 1].n + LeftOf(s, k + 1, c)
  <2>1. k + 1 \in I /\ I \ {k + 1} = Items(s, k + 1, c)
    BY <1>1, <1>7 DEF Items
  <2>2. IsFiniteSet(I) /\ (\A n \in I : f[n] \in Int) /\ f[k + 1] = s[k + 1].n
    BY <1>2, <1>3, <2>1
  <2>3. LeftOf(s, k, c) = Total(f, I) /\ LeftOf(s, k + 1, c) = Total(f, Items(s, k + 1, c))
    BY <1>4
  <2> HIDE DEF f, I
  <2>4. Total(f, I) = f[k + 1] + Total(f, I \ {k + 1})
    BY <2>1, <2>2, TotalWithout
  <2> QED
    BY <2>1, <2>2, <2>3, <2>4
<1>8. ASSUME k < Len(s), s[k + 1].counter # c
      PROVE  LeftOf(s, k, c) = LeftOf(s, k + 1, c)
  <2>1. Items(s, k, c) = Items(s, k + 1, c)
    BY <1>1, <1>8 DEF Items
  <2>2. LeftOf(s, k, c) = Total(f, Items(s, k, c))
    BY <1>4
  <2>3. LeftOf(s, k + 1, c) = Total(f, Items(s, k + 1, c))
    <3>1. k + 1 \in Nat
      OBVIOUS
    <3> HIDE DEF f
    <3> QED
      BY <1>4, <3>1
  <2> HIDE DEF f
  <2> QED
    BY <2>1, <2>2, <2>3
<1>9. ASSUME k < Len(s), s[k + 1].counter # c PROVE LeftOf(s, k + 1, c) \in Nat
  BY <1>5, <1>8, <1>9
<1> QED
  BY <1>5, <1>6, <1>7, <1>8, <1>9 DEF ItemFor

(* The counter a status is counted in, none for "earned".                  *)
Counted(status) ==
  CASE status = StatusNoCashback -> "noCashback"
    [] status \in {StatusPartialDailyCap, StatusPartialBudget} -> "partial"
    [] status = StatusBudgetExhausted -> "exhausted"
    [] status = StatusDailyCapReached -> "capReached"
    [] OTHER -> "none"

(* What a first-time result adds to a counter.                             *)
EarnGain(r, c) ==
  IF c = "payments" THEN 1
  ELSE IF c = "awarded" THEN r.award
  ELSE IF c = Counted(r.status) THEN 1 ELSE 0

RedeemGain(r, c) ==
  IF c = "redemptions" THEN 1 ELSE IF c = "redeemed" THEN r.award ELSE 0

(* A sequence after another.                                               *)
LEMMA Concat ==
  ASSUME NEW A, NEW s \in Seq(A), NEW t \in Seq(A)
  PROVE  /\ s \o t \in Seq(A) /\ Len(s \o t) = Len(s) + Len(t)
         /\ \A i \in 1 .. Len(s) : (s \o t)[i] = s[i]
         /\ \A i \in 1 .. Len(t) : (s \o t)[Len(s) + i] = t[i]
  OBVIOUS

(* One addition.                                                           *)
LEMMA OneAdd ==
  ASSUME NEW x \in Counters, NEW n \in Nat
  PROVE  /\ Add(x, n) \in Seq([counter: Counters, n: Nat])
         /\ Len(Add(x, n)) = 1
         /\ Add(x, n)[1] = [counter |-> x, n |-> n]
  BY DEF Add

(* The addition an outcome leads to.                                       *)
LEMMA OutcomeAdds ==
  ASSUME NEW status \in FinalStatus \cup {"none"}
  PROVE  /\ Counted(status) = "none" => Outcome(status) = <<>>
         /\ Counted(status) # "none" =>
              Counted(status) \in Counters /\ Outcome(status) = Add(Counted(status), 1)
  BY DEF FinalStatus, Counted, Outcome, Counters, StatusNoCashback, StatusEarned,
         StatusPartialDailyCap, StatusPartialBudget, StatusBudgetExhausted,
         StatusDailyCapReached

(* The additions of a payment, one by one.                                 *)
LEMMA EarnItems ==
  ASSUME NEW r \in Results, NEW s, s = RecordEarn(r)
  PROVE  /\ Len(s) \in Nat
         /\ r.award = 0 /\ Counted(r.status) = "none" =>
              /\ Len(s) = 1
              /\ s[1] = [counter |-> "payments", n |-> 1]
         /\ r.award > 0 /\ Counted(r.status) = "none" =>
              /\ Len(s) = 2
              /\ s[1] = [counter |-> "payments", n |-> 1]
              /\ s[2] = [counter |-> "awarded", n |-> r.award]
         /\ r.award = 0 /\ Counted(r.status) # "none" =>
              /\ Len(s) = 2
              /\ s[1] = [counter |-> "payments", n |-> 1]
              /\ s[2] = [counter |-> Counted(r.status), n |-> 1]
         /\ r.award > 0 /\ Counted(r.status) # "none" =>
              /\ Len(s) = 3
              /\ s[1] = [counter |-> "payments", n |-> 1]
              /\ s[2] = [counter |-> "awarded", n |-> r.award]
              /\ s[3] = [counter |-> Counted(r.status), n |-> 1]
<1>1. PICK A : A = [counter: Counters, n: Nat]
  OBVIOUS
<1>2. r.award \in Nat /\ r.status \in FinalStatus \cup {"none"}
  BY ToFields DEF FieldsOK
<1>3. PICK p, a, o : /\ p = Add("payments", 1)
                     /\ a = (IF r.award > 0 THEN Add("awarded", r.award) ELSE <<>>)
                     /\ o = Outcome(r.status)
  OBVIOUS
<1>4. s = (p \o a) \o o
  BY <1>3 DEF RecordEarn
<1>5. p \in Seq(A) /\ Len(p) = 1 /\ p[1] = [counter |-> "payments", n |-> 1]
  BY <1>1, <1>3, OneAdd DEF Counters
<1>6. /\ a \in Seq(A)
      /\ r.award = 0 => a = <<>>
      /\ r.award > 0 => Len(a) = 1 /\ a[1] = [counter |-> "awarded", n |-> r.award]
  <2>1. "awarded" \in Counters /\ <<>> \in Seq(A)
    BY DEF Counters
  <2>2. CASE r.award = 0
    BY <1>3, <2>1, <2>2
  <2>3. CASE r.award > 0
    <3>1. a = Add("awarded", r.award)
      BY <1>3, <2>3
    <3>2. /\ Add("awarded", r.award) \in Seq([counter: Counters, n: Nat])
          /\ Len(Add("awarded", r.award)) = 1
          /\ Add("awarded", r.award)[1] = [counter |-> "awarded", n |-> r.award]
      BY <1>2, <2>1, OneAdd
    <3>3. a \in Seq(A) /\ Len(a) = 1 /\ a[1] = [counter |-> "awarded", n |-> r.award]
      BY <1>1, <3>1, <3>2, Zenon
    <3> QED
      BY <2>3, <3>3
  <2> QED
    BY <1>2, <2>2, <2>3
<1>7. /\ o \in Seq(A)
      /\ Counted(r.status) = "none" => o = <<>>
      /\ Counted(r.status) # "none" =>
           Len(o) = 1 /\ o[1] = [counter |-> Counted(r.status), n |-> 1]
  <2>1. <<>> \in Seq(A)
    OBVIOUS
  <2>2. CASE Counted(r.status) = "none"
    BY <1>2, <1>3, <2>1, <2>2, OutcomeAdds
  <2>3. CASE Counted(r.status) # "none"
    <3>1. Counted(r.status) \in Counters /\ o = Add(Counted(r.status), 1)
      BY <1>2, <1>3, <2>3, OutcomeAdds
    <3> QED
      BY <1>1, <2>3, <3>1, OneAdd
  <2> QED
    BY <2>2, <2>3
<1>8. /\ p \o a \in Seq(A) /\ Len(p \o a) = 1 + Len(a) /\ (p \o a)[1] = p[1]
      /\ \A i \in 1 .. Len(a) : (p \o a)[1 + i] = a[i]
  <2>1. /\ p \o a \in Seq(A) /\ Len(p \o a) = Len(p) + Len(a)
        /\ \A i \in 1 .. Len(p) : (p \o a)[i] = p[i]
        /\ \A i \in 1 .. Len(a) : (p \o a)[Len(p) + i] = a[i]
    <3>1. p \in Seq(A) /\ a \in Seq(A)
      BY <1>5, <1>6
    <3> QED
      BY <3>1, Concat
  <2>2. 1 \in 1 .. Len(p)
    BY <1>5
  <2> QED
    BY <1>5, <2>1, <2>2
<1>9. /\ s \in Seq(A) /\ Len(s) = Len(p \o a) + Len(o)
      /\ \A i \in 1 .. Len(p \o a) : s[i] = (p \o a)[i]
      /\ \A i \in 1 .. Len(o) : s[Len(p \o a) + i] = o[i]
  BY <1>4, <1>7, <1>8, Concat
<1>10. PICK q : q = p \o a
  OBVIOUS
<1>11. /\ Len(q) = 1 + Len(a) /\ q[1] = [counter |-> "payments", n |-> 1]
       /\ r.award > 0 => q[2] = [counter |-> "awarded", n |-> r.award]
  BY <1>5, <1>6, <1>8, <1>10
<1>12. (r.award = 0 => Len(a) = 0) /\ (Counted(r.status) = "none" => Len(o) = 0)
  BY <1>6, <1>7
<1>13. /\ Len(s) = Len(q) + Len(o)
       /\ \A i \in 1 .. Len(q) : s[i] = q[i]
       /\ \A i \in 1 .. Len(o) : s[Len(q) + i] = o[i]
  BY <1>9, <1>10
<1>14. Len(a) \in Nat /\ Len(o) \in Nat
  BY <1>6, <1>7
<1>15. s[1] = [counter |-> "payments", n |-> 1]
  BY <1>11, <1>13, <1>14
<1>16. r.award > 0 => s[2] = [counter |-> "awarded", n |-> r.award]
  <2> SUFFICES ASSUME r.award > 0 PROVE s[2] = [counter |-> "awarded", n |-> r.award]
    OBVIOUS
  <2>1. 2 \in 1 .. Len(q)
    BY <1>6, <1>11
  <2> QED
    BY <1>11, <1>13, <2>1
<1>17. Counted(r.status) # "none" =>
         s[Len(q) + 1] = [counter |-> Counted(r.status), n |-> 1]
  <2> SUFFICES ASSUME Counted(r.status) # "none"
               PROVE  s[Len(q) + 1] = [counter |-> Counted(r.status), n |-> 1]
    OBVIOUS
  <2>1. Len(o) = 1 /\ o[1] = [counter |-> Counted(r.status), n |-> 1]
    BY <1>7, Zenon
  <2>2. 1 \in 1 .. 1
    OBVIOUS
  <2>3. 1 \in 1 .. Len(o)
    BY <2>1, <2>2, Zenon
  <2>4. s[Len(q) + 1] = o[1]
    BY <1>13, <2>3, Zenon
  <2> QED
    BY <2>1, <2>4, Zenon
<1>18. /\ Len(s) = 1 + Len(a) + Len(o)
       /\ r.award > 0 => Len(a) = 1
       /\ Counted(r.status) # "none" => Len(o) = 1
  BY <1>6, <1>7, <1>11, <1>13, <1>14
<1>19. PICK k, m, n : k = Len(a) /\ m = Len(o) /\ n = Len(s)
  OBVIOUS
<1>20. k \in Nat /\ m \in Nat /\ n = 1 + k + m
  BY <1>14, <1>18, <1>19
<1>21. /\ r.award = 0 => k = 0
       /\ r.award > 0 => k = 1
       /\ Counted(r.status) = "none" => m = 0
       /\ Counted(r.status) # "none" => m = 1
  BY <1>12, <1>18, <1>19
<1>22. Counted(r.status) # "none" =>
         s[k + 2] = [counter |-> Counted(r.status), n |-> 1]
  <2>1. Len(q) + 1 = k + 2
    BY <1>11, <1>19, <1>20
  <2> QED
    BY <1>17, <2>1
<1>23. /\ r.award = 0 => k + 2 = 2
       /\ r.award > 0 => k + 2 = 3
  BY <1>21
<1>24. n \in Nat /\ (k = 0 => n = 1 + m) /\ (k = 1 => n = 2 + m)
  BY <1>20
<1>25. CASE r.award = 0
  BY <1>15, <1>19, <1>21, <1>22, <1>23, <1>24, <1>25
<1>26. CASE r.award > 0
  BY <1>15, <1>16, <1>19, <1>21, <1>22, <1>23, <1>24, <1>26
<1> QED
  BY <1>2, <1>25, <1>26

(* The counters the tables know of.                                        *)
Followed == Counters \ {"rateLimited"}

(* What a first-time payment has to add ...                                *)
LEMMA EarnLeft ==
  ASSUME NEW r \in Results, NEW c \in Followed
  PROVE  LeftOf(RecordEarn(r), 0, c) = EarnGain(r, c)
<1>1. PICK s : s = RecordEarn(r)
  OBVIOUS
<1>2. s \in Seq([counter: Counters, n: Nat])
  BY <1>1, EarnTypes
<1>3. \A k \in Nat : /\ k >= Len(s) => LeftOf(s, k, c) = 0
                     /\ k < Len(s) =>
                          LeftOf(s, k, c) = ItemFor(s, k + 1, c) + LeftOf(s, k + 1, c)
  <2>1. s \in Seq([counter: Counters, n: Nat])
    BY <1>2
  <2> QED
    BY <2>1, LeftStep
<1>4. r.award \in Nat
  BY ToFields DEF FieldsOK
<1>5. r.status \in FinalStatus \cup {"none"}
  BY ToFields DEF FieldsOK
<1>6. Counted(r.status) \in {"none", "noCashback", "partial", "exhausted", "capReached"}
  BY <1>5 DEF Counted
<1>7. CASE r.award = 0 /\ Counted(r.status) = "none"
  <2>1. Len(s) = 1 /\ s[1] = [counter |-> "payments", n |-> 1]
    BY <1>1, <1>7, EarnItems
  <2>2. LeftOf(s, 0, c) = ItemFor(s, 1, c) + LeftOf(s, 1, c) /\ LeftOf(s, 1, c) = 0
    BY <1>3, <2>1
  <2> QED
    BY <1>1, <1>7, <2>1, <2>2 DEF EarnGain, ItemFor, Followed, Counters
<1>8. CASE r.award > 0 /\ Counted(r.status) = "none"
  <2>1. /\ Len(s) = 2 /\ s[1] = [counter |-> "payments", n |-> 1]
        /\ s[2] = [counter |-> "awarded", n |-> r.award]
    BY <1>1, <1>8, EarnItems
  <2>2. /\ LeftOf(s, 0, c) = ItemFor(s, 1, c) + LeftOf(s, 1, c)
        /\ LeftOf(s, 1, c) = ItemFor(s, 2, c) + LeftOf(s, 2, c) /\ LeftOf(s, 2, c) = 0
    BY <1>3, <2>1
  <2> QED
    BY <1>1, <1>4, <1>8, <2>1, <2>2 DEF EarnGain, ItemFor, Followed, Counters
<1>9. CASE r.award = 0 /\ Counted(r.status) # "none"
  <2>1. /\ Len(s) = 2 /\ s[1] = [counter |-> "payments", n |-> 1]
        /\ s[2] = [counter |-> Counted(r.status), n |-> 1]
    BY <1>1, <1>9, EarnItems
  <2>2. /\ LeftOf(s, 0, c) = ItemFor(s, 1, c) + LeftOf(s, 1, c)
        /\ LeftOf(s, 1, c) = ItemFor(s, 2, c) + LeftOf(s, 2, c) /\ LeftOf(s, 2, c) = 0
    BY <1>3, <2>1
  <2> QED
    BY <1>1, <1>6, <1>9, <2>1, <2>2 DEF EarnGain, ItemFor, Followed, Counters
<1>10. CASE r.award > 0 /\ Counted(r.status) # "none"
  <2>1. /\ Len(s) = 3 /\ s[1] = [counter |-> "payments", n |-> 1]
        /\ s[2] = [counter |-> "awarded", n |-> r.award]
        /\ s[3] = [counter |-> Counted(r.status), n |-> 1]
    BY <1>1, <1>10, EarnItems
  <2>2. /\ LeftOf(s, 0, c) = ItemFor(s, 1, c) + LeftOf(s, 1, c)
        /\ LeftOf(s, 1, c) = ItemFor(s, 2, c) + LeftOf(s, 2, c)
        /\ LeftOf(s, 2, c) = ItemFor(s, 3, c) + LeftOf(s, 3, c) /\ LeftOf(s, 3, c) = 0
    BY <1>3, <2>1
  <2> QED
    BY <1>1, <1>4, <1>6, <1>10, <2>1, <2>2 DEF EarnGain, ItemFor, Followed, Counters
<1> QED
  BY <1>4, <1>7, <1>8, <1>9, <1>10

(* ... and a first-time redemption.                                        *)
LEMMA RedeemLeft ==
  ASSUME NEW r \in Results, NEW c \in Followed
  PROVE  LeftOf(RecordRedeem(r), 0, c) = RedeemGain(r, c)
<1>1. PICK s, A, p, a :
        /\ s = RecordRedeem(r) /\ A = [counter: Counters, n: Nat]
        /\ p = Add("redemptions", 1) /\ a = Add("redeemed", r.award)
  OBVIOUS
<1>2. r.award \in Nat
  BY ToFields DEF FieldsOK
<1>3. p \in Seq(A) /\ Len(p) = 1 /\ p[1] = [counter |-> "redemptions", n |-> 1]
  BY <1>1, OneAdd DEF Counters
<1>4. a \in Seq(A) /\ Len(a) = 1 /\ a[1] = [counter |-> "redeemed", n |-> r.award]
  <2>1. "redeemed" \in Counters
    BY DEF Counters
  <2>2. /\ Add("redeemed", r.award) \in Seq([counter: Counters, n: Nat])
        /\ Len(Add("redeemed", r.award)) = 1
        /\ Add("redeemed", r.award)[1] = [counter |-> "redeemed", n |-> r.award]
    BY <1>2, <2>1, OneAdd
  <2> QED
    BY <1>1, <2>2, Zenon
<1>5. s = p \o a
  BY <1>1 DEF RecordRedeem
<1>6. /\ s \in Seq(A) /\ Len(s) = 2
      /\ s[1] = [counter |-> "redemptions", n |-> 1]
      /\ s[2] = [counter |-> "redeemed", n |-> r.award]
  <2>1. p \in Seq(A) /\ a \in Seq(A)
    BY <1>3, <1>4
  <2>2. /\ s \in Seq(A) /\ Len(s) = Len(p) + Len(a)
        /\ \A i \in 1 .. Len(p) : s[i] = p[i]
        /\ \A i \in 1 .. Len(a) : s[Len(p) + i] = a[i]
    BY <1>5, <2>1, Concat
  <2>3. 1 \in 1 .. Len(p) /\ 1 \in 1 .. Len(a) /\ Len(p) + 1 = 2
    BY <1>3, <1>4
  <2>4. s[1] = p[1] /\ s[2] = a[1]
    BY <2>2, <2>3
  <2> QED
    BY <1>3, <1>4, <2>2, <2>4
<1>7. \A k \in Nat : /\ k >= Len(s) => LeftOf(s, k, c) = 0
                     /\ k < Len(s) =>
                          LeftOf(s, k, c) = ItemFor(s, k + 1, c) + LeftOf(s, k + 1, c)
  <2>1. s \in Seq([counter: Counters, n: Nat])
    BY <1>1, <1>6
  <2> QED
    BY <2>1, LeftStep
<1>8. /\ LeftOf(s, 0, c) = ItemFor(s, 1, c) + LeftOf(s, 1, c)
      /\ LeftOf(s, 1, c) = ItemFor(s, 2, c) + LeftOf(s, 2, c) /\ LeftOf(s, 2, c) = 0
  <2>1. Len(s) = 2
    BY <1>6
  <2> QED
    BY <1>7, <2>1
<1> QED
  BY <1>1, <1>2, <1>6, <1>8 DEF RedeemGain, ItemFor, Followed, Counters

(* What a handler has to add, now and after a step.                        *)
LEMMA LeftNow ==
  ASSUME NEW h, NEW c, NEW a, NEW r
  PROVE  /\ pc[h] = "stored" /\ call[h] = a /\ result[h] = r
              => Left(h, c) = LeftOf(AddsOf(a, r), r.counted, c)
         /\ pc[h] # "stored" => Left(h, c) = LeftOf(<<>>, result[h].counted, c)
         /\ pc'[h] = "stored" /\ call'[h] = a /\ result'[h] = r
              => Left(h, c)' = LeftOf(AddsOf(a, r), r.counted, c)
         /\ pc'[h] # "stored" => Left(h, c)' = LeftOf(<<>>, result'[h].counted, c)
<1>1. ASSUME pc[h] = "stored", call[h] = a, result[h] = r
      PROVE  Left(h, c) = LeftOf(AddsOf(a, r), r.counted, c)
  BY <1>1 DEF Left, Adds
<1>2. ASSUME pc[h] # "stored"
      PROVE  Left(h, c) = LeftOf(<<>>, result[h].counted, c)
  BY <1>2 DEF Left, Adds
<1>3. ASSUME pc'[h] = "stored", call'[h] = a, result'[h] = r
      PROVE  Left(h, c)' = LeftOf(AddsOf(a, r), r.counted, c)
  BY <1>3 DEF Left, Adds
<1>4. ASSUME pc'[h] # "stored"
      PROVE  Left(h, c)' = LeftOf(<<>>, result'[h].counted, c)
  BY <1>4 DEF Left, Adds
<1> QED
  BY <1>1, <1>2, <1>3, <1>4

(* It is a natural number, and nothing when nothing is stored.             *)
LEMMA LeftTypes ==
  ASSUME NEW h \in Handlers, NEW c
  PROVE  /\ Typed => Left(h, c) \in Nat /\ (pc[h] # "stored" => Left(h, c) = 0)
         /\ Typed' => Left(h, c)' \in Nat /\ (pc'[h] # "stored" => Left(h, c)' = 0)
<1>1. ASSUME NEW k \in Nat PROVE LeftOf(<<>>, k, c) = 0
  <2>1. PICK s : s = <<>>
    OBVIOUS
  <2>2. s \in Seq([counter: Counters, n: Nat]) /\ k >= Len(s)
    BY <2>1
  <2>3. LeftOf(s, k, c) = 0
    BY <2>2, LeftStep
  <2> QED
    BY <2>1, <2>3
<1>2. ASSUME NEW a, NEW r \in Results PROVE LeftOf(AddsOf(a, r), r.counted, c) \in Nat
  <2>1. AddsOf(a, r) \in Seq([counter: Counters, n: Nat]) /\ r.counted \in Nat
    BY AddsTypes, ToFields DEF FieldsOK
  <2> QED
    BY <2>1, LeftStep
<1>3. ASSUME Typed
      PROVE  Left(h, c) \in Nat /\ (pc[h] # "stored" => Left(h, c) = 0)
  <2>1. PICK r \in Results : r = result[h]
    BY <1>3 DEF Typed
  <2>2. PICK a : a = call[h]
    OBVIOUS
  <2>3. r.counted \in Nat
    BY ToFields DEF FieldsOK
  <2>4. LeftOf(AddsOf(a, r), r.counted, c) \in Nat /\ LeftOf(<<>>, r.counted, c) = 0
    BY <1>1, <1>2, <2>3
  <2> QED
    BY <2>1, <2>2, <2>4, LeftNow
<1>4. ASSUME Typed'
      PROVE  Left(h, c)' \in Nat /\ (pc'[h] # "stored" => Left(h, c)' = 0)
  <2>1. PICK r \in Results : r = result'[h]
    BY <1>4 DEF Typed
  <2>2. PICK a : a = call'[h]
    OBVIOUS
  <2>3. r.counted \in Nat
    BY ToFields DEF FieldsOK
  <2>4. LeftOf(AddsOf(a, r), r.counted, c) \in Nat /\ LeftOf(<<>>, r.counted, c) = 0
    BY <1>1, <1>2, <2>3
  <2> QED
    BY <2>1, <2>2, <2>4, LeftNow
<1> QED
  BY <1>3, <1>4

(* So is what all of them have to add.                                     *)
LEMMA PendingIsNat == ASSUME Typed, NEW c PROVE Pending(c) \in Nat
<1> DEFINE f == [h \in Handlers |-> Left(h, c)]
<1>1. \A h \in Handlers : f[h] \in Nat
  BY LeftTypes
<1>2. Pending(c) = Total(f, Handlers)
  BY PendingIsTotal
<1> HIDE DEF f
<1> QED
  BY <1>1, <1>2, ServiceAssumption, TotalIsNat

(* A step of a handler changes what is pending by what it changes itself.  *)
LEMMA PendingMoves ==
  ASSUME Typed, Typed', NEW h \in Handlers, Steps(h), NEW c
  PROVE  /\ Pending(c) \in Nat
         /\ Pending(c)' = Pending(c) + Left(h, c)' - Left(h, c)
<1> DEFINE f == [g \in Handlers |-> Left(g, c)]
           next == [g \in Handlers |-> Left(g, c)']
<1>1. IsFiniteSet(Handlers)
  BY ServiceAssumption
<1>2. \A g \in Handlers : f[g] \in Nat /\ next[g] \in Nat
  BY LeftTypes
<1>3. PICK by \in Int : by = Left(h, c)' - Left(h, c)
  BY LeftTypes
<1>4. ASSUME NEW g \in Handlers, g # h PROVE Left(g, c)' = Left(g, c)
  <2>1. Same(g)
    BY <1>4, OneMoves
  <2>2. PICK a, r : a = call[g] /\ r = result[g]
    OBVIOUS
  <2>3. CASE pc[g] = "stored"
    BY <2>1, <2>2, <2>3, LeftNow DEF Same
  <2>4. CASE pc[g] # "stored"
    BY <2>1, <2>4, LeftTypes DEF Same
  <2> QED
    BY <2>3, <2>4
<1>5. \A g \in Handlers : next[g] = IF g = h THEN f[g] + by ELSE f[g]
  <2>1. Left(h, c) \in Nat /\ Left(h, c)' \in Nat
    BY LeftTypes
  <2>2. next[h] = f[h] + by
    BY <1>3, <2>1
  <2>3. \A g \in Handlers : g # h => next[g] = f[g]
    BY <1>4
  <2> HIDE DEF f, next
  <2> QED
    BY <2>2, <2>3
<1>6. Pending(c) = Total(f, Handlers) /\ Pending(c)' = Total(next, Handlers)
  BY PendingIsTotal
<1>7. PICK old, new : old = f /\ new = next
  OBVIOUS
<1>8. /\ \A g \in Handlers : old[g] \in Nat
      /\ \A g \in Handlers : new[g] = IF g = h THEN old[g] + by ELSE old[g]
  BY <1>2, <1>5, <1>7
<1>9. Total(new, Handlers) = Total(old, Handlers) + by /\ Total(old, Handlers) \in Nat
  <2>1. Total(old, Handlers) \in Nat
    BY <1>1, <1>8, TotalIsNat
  <2>2. \A g \in Handlers : old[g] \in Int
    BY <1>8
  <2> QED
    BY <1>1, <1>8, <2>1, <2>2, TotalMoved
<1>10. Left(h, c) \in Nat /\ Left(h, c)' \in Nat
  BY LeftTypes
<1> HIDE DEF f, next
<1> QED
  BY <1>3, <1>6, <1>7, <1>9, <1>10

-----------------------------------------------------------------------------
(* What the tables say the counters are.                                   *)

(* The payments of T with one of some statuses.                            *)
With(T, S) == Cardinality({p \in T : p.status \in S})

(* One more row, one more of its status.                                   *)
LEMMA WithAdd ==
  ASSUME NEW T, IsFiniteSet(T), NEW n, n \notin T, NEW S
  PROVE  /\ With(T, S) \in Nat
         /\ With(T \cup {n}, S) = With(T, S) + (IF n.status \in S THEN 1 ELSE 0)
<1> DEFINE R == {p \in T : p.status \in S}
           Q == {p \in T \cup {n} : p.status \in S}
<1>1. IsFiniteSet(R) /\ n \notin R
  BY FS_Subset
<1>2. Q = IF n.status \in S THEN R \cup {n} ELSE R
  OBVIOUS
<1>3. With(T, S) = Cardinality(R) /\ With(T \cup {n}, S) = Cardinality(Q)
  BY DEF With
<1> HIDE DEF R, Q
<1>4. Cardinality(R) \in Nat /\ Cardinality(R \cup {n}) = Cardinality(R) + 1
  BY <1>1, FS_CardinalityType, FS_AddElement
<1> QED
  BY <1>2, <1>3, <1>4

(* The entries of Truth.                                                   *)
LEMMA TruthIs ==
  /\ DOMAIN Truth = Followed
  /\ /\ Truth["payments"] = Cardinality(payments)
     /\ Truth["awarded"] = Awards(payments)
     /\ Truth["noCashback"] = With(payments, {StatusNoCashback})
     /\ Truth["partial"] = With(payments, {StatusPartialDailyCap, StatusPartialBudget})
     /\ Truth["exhausted"] = With(payments, {StatusBudgetExhausted})
     /\ Truth["capReached"] = With(payments, {StatusDailyCapReached})
     /\ Truth["redemptions"] = Cardinality(redemptions)
     /\ Truth["redeemed"] = Amounts(redemptions)
<1>1. DOMAIN Truth = Followed
  BY DEF Truth, Followed, Counters
<1> QED
  BY <1>1 DEF Truth, Awards, Amounts, With

(* And after a step.                                                       *)
LEMMA TruthNext ==
  /\ Truth["payments"]' = Cardinality(payments')
  /\ Truth["awarded"]' = Awards(payments')
  /\ Truth["noCashback"]' = With(payments', {StatusNoCashback})
  /\ Truth["partial"]' = With(payments', {StatusPartialDailyCap, StatusPartialBudget})
  /\ Truth["exhausted"]' = With(payments', {StatusBudgetExhausted})
  /\ Truth["capReached"]' = With(payments', {StatusDailyCapReached})
  /\ Truth["redemptions"]' = Cardinality(redemptions')
  /\ Truth["redeemed"]' = Amounts(redemptions')
  BY DEF Truth, Awards, Amounts, With

(* They are natural numbers.                                               *)
LEMMA TruthTypes ==
  ASSUME Typed, NEW c \in Followed PROVE Truth[c] \in Nat
<1>1. /\ payments \subseteq Payment /\ IsFiniteSet(payments)
      /\ redemptions \subseteq Redemption /\ IsFiniteSet(redemptions)
  BY DEF Typed, TablesInv, TablesFinite, CampaignInv, TablesOK
<1>2. Cardinality(payments) \in Nat /\ Cardinality(redemptions) \in Nat
  BY <1>1, FS_CardinalityType
<1>3. \A S : With(payments, S) \in Nat
  <2> SUFFICES ASSUME NEW S PROVE With(payments, S) \in Nat
    OBVIOUS
  <2>1. IsFiniteSet({p \in payments : p.status \in S})
    BY <1>1, FS_Subset
  <2> QED
    BY <2>1, FS_CardinalityType DEF With
<1>4. Awards(payments) \in Nat
  <2> DEFINE f == [p \in payments |-> AwardOf(p)]
  <2>1. \A p \in payments : f[p] \in Nat
    BY <1>1 DEF Payment, AwardOf
  <2>2. Awards(payments) = Total(f, payments)
    BY SumsAreTotals
  <2> HIDE DEF f
  <2> QED
    BY <1>1, <2>1, <2>2, TotalIsNat
<1>5. Amounts(redemptions) \in Nat
  <2> DEFINE f == [r \in redemptions |-> AmountOf(r)]
  <2>1. \A r \in redemptions : f[r] \in Nat
    <3>1. \A r \in redemptions : r.amount \in RedeemAmounts
      BY <1>1 DEF Redemption
    <3> QED
      BY <3>1, AmountsNat DEF AmountOf
  <2>2. Amounts(redemptions) = Total(f, redemptions)
    BY SumsAreTotals
  <2> HIDE DEF f
  <2> QED
    BY <1>1, <2>1, <2>2, TotalIsNat
<1> QED
  BY <1>2, <1>3, <1>4, <1>5, TruthIs DEF Followed, Counters

(* The statuses are six different strings.                                 *)
LEMMA StatusesDiffer ==
  ASSUME NEW s \in FinalStatus
  PROVE  /\ Counted(s) = "noCashback" <=> s \in {StatusNoCashback}
         /\ Counted(s) = "partial" <=> s \in {StatusPartialDailyCap, StatusPartialBudget}
         /\ Counted(s) = "exhausted" <=> s \in {StatusBudgetExhausted}
         /\ Counted(s) = "capReached" <=> s \in {StatusDailyCapReached}
         /\ Counted(s) \in {"none", "noCashback", "partial", "exhausted", "capReached"}
  BY DEF FinalStatus, Counted, StatusNoCashback, StatusEarned,
         StatusPartialDailyCap, StatusPartialBudget, StatusBudgetExhausted,
         StatusDailyCapReached

(* Rows that stay, entries that stay.                                      *)
LEMMA TruthSame ==
  ASSUME NEW c
  PROVE  UNCHANGED tables => Truth[c]' = Truth[c]
  BY DEF Truth, tables

(* A payment processed now.                                                *)
LEMMA PaidTruth ==
  ASSUME Typed, NEW u \in Users, NEW k \in Keys, NEW a \in PayAmounts, NEW d \in Days,
         Pay(u, k, a, d), NEW r \in Results,
         r.award = AwardFor(u, a, d), r.status = StatusFor(u, a, d),
         NEW c \in Followed
  PROVE  Truth[c] \in Int /\ Truth[c]' = Truth[c] + EarnGain(r, c)
<1>1. /\ payments \subseteq Payment /\ IsFiniteSet(payments)
      /\ redemptions \subseteq Redemption /\ IsFiniteSet(redemptions) /\ TablesOK
  BY DEF Typed, TablesInv, TablesFinite, CampaignInv, TablesOK
<1>2. PICK n : /\ n = [user |-> u, key |-> k, amount |-> a,
                       cashback_awarded |-> r.award, status |-> r.status]
  OBVIOUS
<1>3. /\ payments' = payments \cup {n} /\ n \notin payments /\ redemptions' = redemptions
      /\ n.status = r.status /\ AwardOf(n) = r.award
  BY <1>2 DEF Pay, PaymentRows, AwardOf
<1>4. r.award \in Nat /\ r.status \in FinalStatus
  <2>1. AwardFor(u, a, d) \in Nat /\ StatusFor(u, a, d) \in FinalStatus
    BY <1>1, AwardIsNat
  <2> QED
    BY <2>1
<1>5. /\ Cardinality(payments) \in Nat
      /\ Cardinality(payments \cup {n}) = Cardinality(payments) + 1
      /\ Cardinality(redemptions) \in Nat
  BY <1>1, <1>3, FS_CardinalityType, FS_AddElement
<1>6. Awards(payments) \in Int /\ Awards(payments \cup {n}) = Awards(payments) + r.award
  <2>1. \A p \in payments \cup {n} : AwardOf(p) \in Int
    BY <1>1, <1>3, <1>4 DEF Payment, AwardOf
  <2> QED
    BY <1>1, <1>3, <2>1, AwardsAdd
<1>7. Truth[c] \in Nat
  BY TruthTypes
<1>8. \A S : /\ With(payments, S) \in Nat
             /\ With(payments \cup {n}, S)
                  = With(payments, S) + (IF r.status \in S THEN 1 ELSE 0)
  BY <1>1, <1>3, WithAdd
<1>9. CASE c = "payments"
  BY <1>3, <1>5, <1>9, TruthIs, TruthNext DEF EarnGain
<1>10. CASE c = "awarded"
  BY <1>3, <1>6, <1>10, TruthIs, TruthNext DEF EarnGain
<1>11. CASE c \in {"redemptions", "redeemed"}
  <2>1. EarnGain(r, c) = 0
    BY <1>4, <1>11, StatusesDiffer DEF EarnGain
  <2> QED
    BY <1>3, <1>7, <1>11, <2>1, TruthIs, TruthNext
<1>12. CASE c = "noCashback"
  <2>1. EarnGain(r, c) = IF r.status \in {StatusNoCashback} THEN 1 ELSE 0
    BY <1>4, <1>12, StatusesDiffer DEF EarnGain
  <2>2. PICK S : S = {StatusNoCashback}
    OBVIOUS
  <2>3. Truth[c] = With(payments, S) /\ Truth[c]' = With(payments \cup {n}, S)
    BY <1>3, <1>12, <2>2, TruthIs, TruthNext
  <2>4. /\ With(payments, S) \in Nat
        /\ With(payments \cup {n}, S)
             = With(payments, S) + (IF r.status \in S THEN 1 ELSE 0)
    BY <1>8, Zenon
  <2>5. EarnGain(r, c) = IF r.status \in S THEN 1 ELSE 0
    BY <2>1, <2>2, Zenon
  <2> QED
    BY <2>3, <2>4, <2>5
<1>13. CASE c = "partial"
  <2>1. EarnGain(r, c) =
          IF r.status \in {StatusPartialDailyCap, StatusPartialBudget} THEN 1 ELSE 0
    BY <1>4, <1>13, StatusesDiffer DEF EarnGain
  <2>2. PICK S : S = {StatusPartialDailyCap, StatusPartialBudget}
    OBVIOUS
  <2>3. Truth[c] = With(payments, S) /\ Truth[c]' = With(payments \cup {n}, S)
    BY <1>3, <1>13, <2>2, TruthIs, TruthNext
  <2>4. /\ With(payments, S) \in Nat
        /\ With(payments \cup {n}, S)
             = With(payments, S) + (IF r.status \in S THEN 1 ELSE 0)
    BY <1>8, Zenon
  <2>5. EarnGain(r, c) = IF r.status \in S THEN 1 ELSE 0
    BY <2>1, <2>2, Zenon
  <2> QED
    BY <2>3, <2>4, <2>5
<1>14. CASE c = "exhausted"
  <2>1. EarnGain(r, c) = IF r.status \in {StatusBudgetExhausted} THEN 1 ELSE 0
    BY <1>4, <1>14, StatusesDiffer DEF EarnGain
  <2>2. PICK S : S = {StatusBudgetExhausted}
    OBVIOUS
  <2>3. Truth[c] = With(payments, S) /\ Truth[c]' = With(payments \cup {n}, S)
    BY <1>3, <1>14, <2>2, TruthIs, TruthNext
  <2>4. /\ With(payments, S) \in Nat
        /\ With(payments \cup {n}, S)
             = With(payments, S) + (IF r.status \in S THEN 1 ELSE 0)
    BY <1>8, Zenon
  <2>5. EarnGain(r, c) = IF r.status \in S THEN 1 ELSE 0
    BY <2>1, <2>2, Zenon
  <2> QED
    BY <2>3, <2>4, <2>5
<1>15. CASE c = "capReached"
  <2>1. EarnGain(r, c) = IF r.status \in {StatusDailyCapReached} THEN 1 ELSE 0
    BY <1>4, <1>15, StatusesDiffer DEF EarnGain
  <2>2. PICK S : S = {StatusDailyCapReached}
    OBVIOUS
  <2>3. Truth[c] = With(payments, S) /\ Truth[c]' = With(payments \cup {n}, S)
    BY <1>3, <1>15, <2>2, TruthIs, TruthNext
  <2>4. /\ With(payments, S) \in Nat
        /\ With(payments \cup {n}, S)
             = With(payments, S) + (IF r.status \in S THEN 1 ELSE 0)
    BY <1>8, Zenon
  <2>5. EarnGain(r, c) = IF r.status \in S THEN 1 ELSE 0
    BY <2>1, <2>2, Zenon
  <2> QED
    BY <2>3, <2>4, <2>5
<1> QED
  BY <1>9, <1>10, <1>11, <1>12, <1>13, <1>14, <1>15 DEF Followed, Counters

(* A redemption debited now.                                               *)
LEMMA RedeemedTruth ==
  ASSUME Typed, NEW u \in Users, NEW k \in Keys, NEW a \in RedeemAmounts,
         RedeemCash(u, k, a), NEW r \in Results, r.award = a, NEW c \in Followed
  PROVE  Truth[c] \in Int /\ Truth[c]' = Truth[c] + RedeemGain(r, c)
<1>1. /\ redemptions \subseteq Redemption /\ IsFiniteSet(redemptions)
      /\ payments \subseteq Payment /\ IsFiniteSet(payments)
  BY DEF Typed, TablesInv, TablesFinite, CampaignInv, TablesOK
<1>2. PICK n : n = [user |-> u, key |-> k, amount |-> a, balance_after |-> balance[u] - a]
  OBVIOUS
<1>3. /\ redemptions' = redemptions \cup {n} /\ n \notin redemptions
      /\ payments' = payments /\ AmountOf(n) = r.award
  BY <1>2 DEF RedeemCash, RedemptionRows, AmountOf
<1>4. r.award \in Nat
  BY AmountsNat
<1>5. /\ Cardinality(redemptions) \in Nat
      /\ Cardinality(redemptions \cup {n}) = Cardinality(redemptions) + 1
  BY <1>1, <1>3, FS_CardinalityType, FS_AddElement
<1>6. /\ Amounts(redemptions) \in Int
      /\ Amounts(redemptions \cup {n}) = Amounts(redemptions) + r.award
  <2>1. \A e \in redemptions \cup {n} : AmountOf(e) \in Int
    <3>1. \A e \in redemptions : e.amount \in RedeemAmounts
      BY <1>1 DEF Redemption
    <3> QED
      BY <1>3, <1>4, <3>1, AmountsNat DEF AmountOf
  <2> QED
    BY <1>1, <1>3, <2>1, AmountsAdd
<1>7. CASE c = "redemptions"
  BY <1>3, <1>5, <1>7, TruthIs, TruthNext DEF RedeemGain
<1>8. CASE c = "redeemed"
  BY <1>3, <1>6, <1>8, TruthIs, TruthNext DEF RedeemGain
<1>9. CASE c \notin {"redemptions", "redeemed"}
  <2>1. Truth[c] \in Int
    BY <1>9, TruthTypes
  <2>2. RedeemGain(r, c) = 0
    BY <1>9 DEF RedeemGain
  <2>3. Truth[c]' = Truth[c]
    BY <1>3, <1>9, TruthIs, TruthNext DEF Followed, Counters
  <2> QED
    BY <2>1, <2>2, <2>3
<1> QED
  BY <1>7, <1>8, <1>9

-----------------------------------------------------------------------------
(* The counters follow the tables.                                         *)

(* What a result adds in all: nothing when it is a replay.                 *)
LEMMA AllLeft ==
  ASSUME NEW a, NEW r \in Results, NEW c \in Followed
  PROVE  LeftOf(AddsOf(a, r), 0, c) =
           IF r.replayed THEN 0
           ELSE IF a.op = "pay" THEN EarnGain(r, c) ELSE RedeemGain(r, c)
<1>1. r.replayed \in BOOLEAN
  BY ToFields DEF FieldsOK
<1>2. CASE r.replayed
  <2>1. PICK s : s = <<>>
    OBVIOUS
  <2>2. s \in Seq([counter: Counters, n: Nat]) /\ 0 >= Len(s)
    BY <2>1
  <2>3. LeftOf(s, 0, c) = 0
    BY <2>2, LeftStep
  <2>4. AddsOf(a, r) = s
    BY <1>2, <2>1 DEF AddsOf
  <2> QED
    BY <1>2, <2>3, <2>4
<1>3. CASE ~r.replayed /\ a.op = "pay"
  <2>1. AddsOf(a, r) = RecordEarn(r)
    BY <1>3 DEF AddsOf
  <2> QED
    BY <1>3, <2>1, EarnLeft
<1>4. CASE ~r.replayed /\ a.op # "pay"
  <2>1. AddsOf(a, r) = RecordRedeem(r)
    BY <1>4 DEF AddsOf
  <2> QED
    BY <1>4, <2>1, RedeemLeft
<1> QED
  BY <1>1, <1>2, <1>3, <1>4

(* What a result adds is a natural number.                                 *)
LEMMA GainsAreNat ==
  ASSUME NEW r \in Results, NEW c PROVE EarnGain(r, c) \in Nat /\ RedeemGain(r, c) \in Nat
<1>1. r.award \in Nat
  BY ToFields DEF FieldsOK
<1> QED
  BY <1>1 DEF EarnGain, RedeemGain

(* A store that answers a call: the rows it wrote are what is left to add, *)
(* unless the answer is lost.                                              *)
LEMMA StoredMoves ==
  ASSUME Typed, Typed', NEW h \in Handlers, NEW a, Arrives(h, a),
         NEW r \in Results, r.counted = 0, Stored(h, r), NEW c \in Followed
  PROVE  /\ Left(h, c) = 0
         /\ \/ /\ failures' = failures
               /\ Left(h, c)' = IF r.replayed THEN 0
                                ELSE IF a.op = "pay" THEN EarnGain(r, c)
                                ELSE RedeemGain(r, c)
            \/ failures' # failures /\ Left(h, c)' = 0
<1>1. /\ DOMAIN pc = Handlers /\ DOMAIN call = Handlers /\ DOMAIN result = Handlers
      /\ failures \in Nat
  BY ServiceAssumption DEF Typed
<1>2. Left(h, c) = 0
  <2>1. pc[h] # "stored"
    BY DEF Arrives
  <2> QED
    BY <2>1, LeftTypes
<1>3. CASE Goto(h, "stored") /\ result' = [result EXCEPT ![h] = r] /\ UNCHANGED failures
  <2>1. pc'[h] = "stored" /\ result'[h] = r /\ call'[h] = a
    BY <1>1, <1>3 DEF Goto, Arrives
  <2>2. Left(h, c)' = LeftOf(AddsOf(a, r), r.counted, c)
    BY <2>1, LeftNow
  <2> QED
    BY <1>2, <1>3, <2>2, AllLeft
<1>4. CASE failures' = failures + 1 /\ Answer(h, 500)
  <2>1. pc'[h] # "stored"
    BY <1>1, <1>4 DEF Answer, Goto
  <2> QED
    BY <1>1, <1>2, <1>4, <2>1, LeftTypes
<1> QED
  BY <1>3, <1>4 DEF Stored

(* A step of a handler never moves the counters, with what it has left to  *)
(* add, ahead of the tables, and without a failure not behind them either. *)
LEMMA FollowOwn ==
  ASSUME Typed, Typed', NEW h \in Handlers, Steps(h), NEW c \in Followed
  PROVE  /\ Truth[c]' \in Int
         /\ metrics'[c] + Left(h, c)' - Truth[c]' <= metrics[c] + Left(h, c) - Truth[c]
         /\ failures' = failures =>
              metrics'[c] + Left(h, c)' - Truth[c]' = metrics[c] + Left(h, c) - Truth[c]
<1>1. /\ DOMAIN pc = Handlers /\ DOMAIN call = Handlers /\ DOMAIN result = Handlers
      /\ DOMAIN metrics = Counters /\ failures \in Nat /\ InStep(h)
  BY ServiceAssumption DEF Typed
<1>2. /\ metrics[c] \in Nat /\ metrics'[c] \in Nat /\ Truth[c] \in Nat
      /\ Left(h, c) \in Nat /\ Left(h, c)' \in Nat
      /\ pc[h] # "stored" => Left(h, c) = 0
      /\ pc'[h] # "stored" => Left(h, c)' = 0
  <2>1. metrics[c] \in Nat /\ metrics'[c] \in Nat
    BY DEF Typed, Followed
  <2> QED
    BY <2>1, TruthTypes, LeftTypes
<1>3. CASE Refuses(h) \/ ReadCampaign(h) \/ SetGauge(h) \/ WriteMetrics(h) \/ Reply(h)
  <2>1. UNCHANGED tables /\ metrics'[c] = metrics[c]
    <3>1. CASE Refuses(h)
      BY <1>1, <3>1 DEF Refuses, RequireUser, RateLimited, RefuseBody, ReadUser,
                        AtOnce, Followed
    <3>2. CASE ReadCampaign(h) \/ SetGauge(h) \/ WriteMetrics(h) \/ Reply(h)
      BY <3>2 DEF ReadCampaign, SetGauge, WriteMetrics, Reply
    <3> QED
      BY <1>3, <3>1, <3>2
  <2>2. pc[h] # "stored" /\ pc'[h] # "stored"
    <3>1. CASE Refuses(h)
      BY <1>1, <3>1 DEF Refuses, RequireUser, RateLimited, RefuseBody, ReadUser,
                        AtOnce, At, Answer, Goto
    <3>2. CASE ReadCampaign(h)
      BY <1>1, <3>2 DEF ReadCampaign, Arrives, Answer, Goto
    <3>3. CASE SetGauge(h)
      BY <1>1, <3>3 DEF SetGauge, At, Answer, Goto
    <3>4. CASE WriteMetrics(h) \/ Reply(h)
      BY <1>1, <3>4 DEF WriteMetrics, Reply, At, Goto
    <3> QED
      BY <1>3, <3>1, <3>2, <3>3, <3>4
  <2>3. Truth[c]' = Truth[c]
    BY <2>1, TruthSame
  <2> QED
    BY <1>2, <2>1, <2>2, <2>3
<1>4. CASE Recovered(h)
  <2>1. /\ UNCHANGED tables /\ metrics'[c] = metrics[c] /\ pc'[h] # "stored"
        /\ failures' # failures
    BY <1>1, <1>4 DEF Recovered, Answer, Goto
  <2>2. Truth[c]' = Truth[c]
    BY <2>1, TruthSame
  <2> QED
    BY <1>2, <2>1, <2>2
<1>5. CASE ProcessPayment(h)
  <2>1. PICK a \in Payments :
          /\ Arrives(h, a) /\ UNCHANGED metrics
          /\ \/ \E d \in Days :
                  /\ Pay(a.user, a.key, a.amount, d)
                  /\ Stored(h, [NoResult EXCEPT
                                  !.code = 201,
                                  !.award = AwardFor(a.user, a.amount, d),
                                  !.status = StatusFor(a.user, a.amount, d)])
             \/ \E p \in PaymentRows(a.user, a.key) :
                  /\ UNCHANGED tables
                  /\ Stored(h, [NoResult EXCEPT
                                  !.code = 201, !.replayed = TRUE,
                                  !.award = p.cashback_awarded, !.status = p.status])
    BY <1>5 DEF ProcessPayment
  <2>2. a.user \in Users /\ a.key \in Keys /\ a.amount \in PayAmounts /\ a.op = "pay"
    BY DEF Payments
  <2>3. TablesOK /\ metrics'[c] = metrics[c]
    BY <2>1 DEF Typed, TablesInv, CampaignInv
  <2>4. ASSUME NEW d \in Days,
               Pay(a.user, a.key, a.amount, d),
               Stored(h, [NoResult EXCEPT
                            !.code = 201,
                            !.award = AwardFor(a.user, a.amount, d),
                            !.status = StatusFor(a.user, a.amount, d)])
        PROVE  \E gain \in Nat :
                 /\ Truth[c]' = Truth[c] + gain /\ Left(h, c) = 0
                 /\ \/ failures' = failures /\ Left(h, c)' = gain
                    \/ failures' # failures /\ Left(h, c)' = 0
    <3>1. PICK award \in Nat, status \in FinalStatus :
            /\ award = AwardFor(a.user, a.amount, d)
            /\ status = StatusFor(a.user, a.amount, d)
      BY <2>2, <2>3, AwardIsNat
    <3>2. PICK r : r = [NoResult EXCEPT !.code = 201, !.award = award, !.status = status]
      OBVIOUS
    <3>3. r \in Results /\ Told(r, 201, FALSE, award, status)
      BY <3>2, PaidResult
    <3>4. r.counted = 0 /\ r.replayed = FALSE /\ r.award = award /\ r.status = status
      BY <3>3 DEF Told
    <3>5. Stored(h, r)
      BY <2>4, <3>1, <3>2
    <3>6. PICK gain \in Nat : gain = EarnGain(r, c)
      BY <3>3, GainsAreNat
    <3>7. Truth[c]' = Truth[c] + gain
      BY <2>2, <2>4, <3>1, <3>3, <3>4, <3>6, PaidTruth
    <3>8. /\ Left(h, c) = 0
          /\ \/ /\ failures' = failures
                /\ Left(h, c)' = IF r.replayed THEN 0
                                 ELSE IF a.op = "pay" THEN EarnGain(r, c)
                                 ELSE RedeemGain(r, c)
             \/ failures' # failures /\ Left(h, c)' = 0
      BY <2>1, <3>3, <3>4, <3>5, StoredMoves
    <3> QED
      BY <2>2, <3>4, <3>6, <3>7, <3>8
  <2>5. ASSUME NEW p \in PaymentRows(a.user, a.key),
               UNCHANGED tables,
               Stored(h, [NoResult EXCEPT
                            !.code = 201, !.replayed = TRUE,
                            !.award = p.cashback_awarded, !.status = p.status])
        PROVE  Truth[c]' = Truth[c] /\ Left(h, c) = 0 /\ Left(h, c)' = 0
    <3>1. p.cashback_awarded \in Nat /\ p.status \in FinalStatus
      BY <2>3 DEF TablesOK, PaymentRows, Payment
    <3>2. PICK r : r = [NoResult EXCEPT !.code = 201, !.replayed = TRUE,
                                        !.award = p.cashback_awarded, !.status = p.status]
      OBVIOUS
    <3>3. r \in Results /\ Told(r, 201, TRUE, p.cashback_awarded, p.status)
      BY <3>1, <3>2, ReplayResult
    <3>4. r.counted = 0 /\ r.replayed = TRUE /\ Stored(h, r)
      BY <2>5, <3>2, <3>3 DEF Told
    <3>5. Left(h, c) = 0 /\ Left(h, c)' = 0
      BY <2>1, <3>3, <3>4, StoredMoves
    <3> QED
      BY <2>5, <3>5, TruthSame
  <2>7. ASSUME NEW gain \in Nat,
               Truth[c]' = Truth[c] + gain, Left(h, c) = 0,
               \/ failures' = failures /\ Left(h, c)' = gain
               \/ failures' # failures /\ Left(h, c)' = 0
        PROVE  /\ Truth[c]' \in Int
               /\ metrics'[c] + Left(h, c)' - Truth[c]'
                    <= metrics[c] + Left(h, c) - Truth[c]
               /\ failures' = failures =>
                    metrics'[c] + Left(h, c)' - Truth[c]'
                      = metrics[c] + Left(h, c) - Truth[c]
    BY <1>2, <2>3, <2>7
  <2>8. Truth[c] + 0 = Truth[c]
    BY <1>2
  <2> QED
    BY <1>2, <2>1, <2>3, <2>4, <2>7, <2>8, <2>5
<1>6. CASE RedeemBalance(h)
  <2>1. PICK a \in Redemptions :
          /\ Arrives(h, a) /\ UNCHANGED metrics
          /\ \/ /\ RedeemCash(a.user, a.key, a.amount)
                /\ Stored(h, [NoResult EXCEPT !.code = 200, !.award = a.amount])
             \/ \E p \in RedemptionRows(a.user, a.key) :
                  /\ UNCHANGED tables
                  /\ Stored(h, [NoResult EXCEPT
                                  !.code = 200, !.replayed = TRUE, !.award = p.amount])
             \/ Answer(h, 422) /\ UNCHANGED <<tables, failures>>
    BY <1>6 DEF RedeemBalance
  <2>2. /\ a.user \in Users /\ a.key \in Keys /\ a.amount \in RedeemAmounts
        /\ a.op = "redeem"
    BY DEF Redemptions
  <2>3. TablesOK /\ metrics'[c] = metrics[c] /\ a.amount \in Nat
    BY <2>1, <2>2, AmountsNat DEF Typed, TablesInv, CampaignInv
  <2>4. ASSUME RedeemCash(a.user, a.key, a.amount),
               Stored(h, [NoResult EXCEPT !.code = 200, !.award = a.amount])
        PROVE  \E gain \in Nat :
                 /\ Truth[c]' = Truth[c] + gain /\ Left(h, c) = 0
                 /\ \/ failures' = failures /\ Left(h, c)' = gain
                    \/ failures' # failures /\ Left(h, c)' = 0
    <3>1. PICK r : r = [NoResult EXCEPT !.code = 200, !.award = a.amount]
      OBVIOUS
    <3>2. r \in Results /\ Told(r, 200, FALSE, a.amount, "none")
      BY <2>3, <3>1, RedeemedResults
    <3>3. r.counted = 0 /\ r.replayed = FALSE /\ r.award = a.amount /\ Stored(h, r)
      BY <2>4, <3>1, <3>2 DEF Told
    <3>4. PICK gain \in Nat : gain = RedeemGain(r, c)
      BY <3>2, GainsAreNat
    <3>5. Truth[c]' = Truth[c] + gain
      BY <2>2, <2>4, <3>2, <3>3, <3>4, RedeemedTruth
    <3>6. /\ Left(h, c) = 0
          /\ \/ /\ failures' = failures
                /\ Left(h, c)' = IF r.replayed THEN 0
                                 ELSE IF a.op = "pay" THEN EarnGain(r, c)
                                 ELSE RedeemGain(r, c)
             \/ failures' # failures /\ Left(h, c)' = 0
      BY <2>1, <3>2, <3>3, StoredMoves
    <3> QED
      BY <2>2, <3>3, <3>4, <3>5, <3>6
  <2>5. ASSUME NEW p \in RedemptionRows(a.user, a.key),
               UNCHANGED tables,
               Stored(h, [NoResult EXCEPT
                            !.code = 200, !.replayed = TRUE, !.award = p.amount])
        PROVE  Truth[c]' = Truth[c] /\ Left(h, c) = 0 /\ Left(h, c)' = 0
    <3>1. p.amount \in Nat
      <4>1. p.amount \in RedeemAmounts
        BY <2>3 DEF TablesOK, RedemptionRows, Redemption
      <4> QED
        BY <4>1, AmountsNat
    <3>2. PICK r : r = [NoResult EXCEPT !.code = 200, !.replayed = TRUE, !.award = p.amount]
      OBVIOUS
    <3>3. r \in Results /\ Told(r, 200, TRUE, p.amount, "none")
      BY <3>1, <3>2, RedeemedResults
    <3>4. r.counted = 0 /\ r.replayed = TRUE /\ Stored(h, r)
      BY <2>5, <3>2, <3>3 DEF Told
    <3>5. Left(h, c) = 0 /\ Left(h, c)' = 0
      BY <2>1, <3>3, <3>4, StoredMoves
    <3> QED
      BY <2>5, <3>5, TruthSame
  <2>6. CASE Answer(h, 422) /\ UNCHANGED <<tables, failures>>
    <3>1. pc[h] # "stored" /\ pc'[h] # "stored"
      BY <1>1, <2>1, <2>6 DEF Arrives, Answer, Goto
    <3> QED
      BY <1>2, <2>3, <2>6, <3>1, TruthSame
  <2>7. ASSUME NEW gain \in Nat,
               Truth[c]' = Truth[c] + gain, Left(h, c) = 0,
               \/ failures' = failures /\ Left(h, c)' = gain
               \/ failures' # failures /\ Left(h, c)' = 0
        PROVE  /\ Truth[c]' \in Int
               /\ metrics'[c] + Left(h, c)' - Truth[c]'
                    <= metrics[c] + Left(h, c) - Truth[c]
               /\ failures' = failures =>
                    metrics'[c] + Left(h, c)' - Truth[c]'
                      = metrics[c] + Left(h, c) - Truth[c]
    BY <1>2, <2>3, <2>7
  <2>8. Truth[c] + 0 = Truth[c]
    BY <1>2
  <2> QED
    BY <1>2, <2>1, <2>3, <2>4, <2>7, <2>8, <2>5, <2>6
<1>7. CASE Record(h)
  <2>1. PICK a, r : a = call[h] /\ r = result[h] /\ r \in Results
    BY DEF Typed
  <2>2. PICK adds, n : adds = AddsOf(a, r) /\ n = r.counted + 1
    OBVIOUS
  <2>3. /\ pc[h] = "stored" /\ UNCHANGED call /\ UNCHANGED tables /\ failures' = failures
        /\ \/ /\ n <= Len(adds)
              /\ metrics' = [metrics EXCEPT ![adds[n].counter] = @ + adds[n].n]
              /\ result' = [result EXCEPT ![h].counted = n]
              /\ UNCHANGED pc
           \/ n > Len(adds) /\ Goto(h, "done") /\ UNCHANGED metrics
    BY <1>7, <2>1, <2>2 DEF Record, At
  <2>4. Truth[c]' = Truth[c]
    BY <2>3, TruthSame
  <2>5. /\ adds \in Seq([counter: Counters, n: Nat]) /\ r.counted \in Nat
        /\ Len(adds) \in Nat
    <3>1. adds \in Seq([counter: Counters, n: Nat])
      BY <2>1, <2>2, AddsTypes
    <3>2. r.counted \in Nat
      BY <2>1, ToFields DEF FieldsOK
    <3> QED
      BY <3>1, <3>2
  <2>6. Left(h, c) = LeftOf(adds, r.counted, c)
    BY <2>1, <2>2, <2>3, LeftNow
  <2>7. /\ r.counted >= Len(adds) => LeftOf(adds, r.counted, c) = 0
        /\ r.counted < Len(adds) =>
             LeftOf(adds, r.counted, c) = ItemFor(adds, n, c) + LeftOf(adds, n, c)
    BY <2>2, <2>5, LeftStep
  <2>8. CASE /\ n <= Len(adds)
             /\ metrics' = [metrics EXCEPT ![adds[n].counter] = @ + adds[n].n]
             /\ result' = [result EXCEPT ![h].counted = n]
             /\ UNCHANGED pc
    <3>1. PICK s : s = [r EXCEPT !.counted = n]
      OBVIOUS
    <3>2. /\ s.counted = n /\ s.replayed = r.replayed /\ s.award = r.award
          /\ s.status = r.status
      <4>1. r = Fields(r)
        BY <2>1, ToFields
      <4> QED
        BY <3>1, <4>1 DEF Fields
    <3>3. AddsOf(a, s) = adds
      BY <2>2, <3>2 DEF AddsOf, RecordEarn, RecordRedeem
    <3>4. result'[h] = s /\ call'[h] = a /\ pc'[h] = "stored"
      BY <1>1, <2>1, <2>3, <2>8, <3>1
    <3>5. Left(h, c)' = LeftOf(adds, n, c)
      BY <3>2, <3>3, <3>4, LeftNow
    <3>6. n \in 1 .. Len(adds) /\ r.counted < Len(adds)
      BY <2>2, <2>5, <2>8
    <3>7. adds[n] \in [counter: Counters, n: Nat]
      BY <2>5, <3>6, ItemOf
    <3>8. metrics'[c] = metrics[c] + ItemFor(adds, n, c) /\ ItemFor(adds, n, c) \in Nat
      BY <1>1, <1>2, <2>8, <3>7 DEF ItemFor, Followed
    <3>9. Left(h, c) = ItemFor(adds, n, c) + Left(h, c)'
      BY <2>6, <2>7, <3>5, <3>6
    <3> QED
      BY <1>2, <2>3, <2>4, <3>8, <3>9
  <2>9. CASE n > Len(adds) /\ Goto(h, "done") /\ UNCHANGED metrics
    <3>1. pc'[h] # "stored" /\ r.counted >= Len(adds)
      BY <1>1, <2>2, <2>5, <2>9 DEF Goto
    <3> QED
      BY <1>2, <2>4, <2>6, <2>7, <2>9, <3>1
  <2> QED
    BY <2>3, <2>8, <2>9
<1> QED
  BY <1>3, <1>4, <1>5, <1>6, <1>7 DEF Steps

Follows ==
  \A c \in Followed :
    /\ metrics[c] + Pending(c) <= Truth[c]
    /\ failures = 0 => metrics[c] + Pending(c) = Truth[c]

(* A fresh process has counted nothing, and there is nothing to count.     *)
LEMMA FollowsInit == Init => Follows
<1> SUFFICES ASSUME Init, NEW c \in Followed
             PROVE  metrics[c] = 0 /\ Pending(c) = 0 /\ Truth[c] = 0
  BY DEF Follows
<1>1. metrics[c] = 0
  BY CountersAre DEF Init, Followed
<1>2. Pending(c) = 0
  <2> DEFINE f == [h \in Handlers |-> Left(h, c)]
  <2>1. \A h \in Handlers : f[h] = 0
    BY TypedInit, LeftTypes DEF Init
  <2>2. Pending(c) = Total(f, Handlers)
    BY PendingIsTotal
  <2> HIDE DEF f
  <2> QED
    BY <2>1, <2>2, ServiceAssumption, TotalOfZeros
<1>3. Truth[c] = 0
  <2>1. payments = {} /\ redemptions = {}
    BY DEF Init, CampaignInit
  <2>2. \A S : With(payments, S) = 0
    <3> SUFFICES ASSUME NEW S PROVE With(payments, S) = 0
      OBVIOUS
    <3>1. {p \in payments : p.status \in S} = {}
      BY <2>1
    <3> QED
      BY <3>1, FS_EmptySet DEF With
  <2>3. Cardinality(payments) = 0 /\ Cardinality(redemptions) = 0
    BY <2>1, FS_EmptySet
  <2>4. Awards(payments) = 0 /\ Amounts(redemptions) = 0
    BY <2>1, NothingAdded
  <2> QED
    BY <2>2, <2>3, <2>4, TruthIs DEF Followed, Counters
<1> QED
  BY <1>1, <1>2, <1>3

(* Every step, a restart included, keeps it.                               *)
LEMMA FollowsStep ==
  ASSUME Typed, Typed', Follows, [Next]_vars PROVE Follows'
<1> SUFFICES ASSUME NEW c \in Followed
             PROVE  /\ metrics'[c] + Pending(c)' <= Truth[c]'
                    /\ failures' = 0 => metrics'[c] + Pending(c)' = Truth[c]'
  BY DEF Follows
<1>1. /\ metrics[c] \in Nat /\ metrics'[c] \in Nat
      /\ failures \in Nat /\ Truth[c] \in Nat
  BY ServiceAssumption, TruthTypes DEF Typed, Followed
<1>2. /\ metrics[c] + Pending(c) <= Truth[c]
      /\ failures = 0 => metrics[c] + Pending(c) = Truth[c]
  BY DEF Follows
<1>3. ASSUME NEW h \in Handlers, Steps(h)
      PROVE  /\ metrics'[c] + Pending(c)' <= Truth[c]'
             /\ failures' = 0 => metrics'[c] + Pending(c)' = Truth[c]'
  <2>1. /\ Pending(c) \in Nat
        /\ Pending(c)' = Pending(c) + Left(h, c)' - Left(h, c)
    BY <1>3, PendingMoves
  <2>2. /\ Truth[c]' \in Int
        /\ metrics'[c] + Left(h, c)' - Truth[c]' <= metrics[c] + Left(h, c) - Truth[c]
        /\ failures' = failures =>
             metrics'[c] + Left(h, c)' - Truth[c]' = metrics[c] + Left(h, c) - Truth[c]
    BY <1>3, FollowOwn
  <2>3. Left(h, c) \in Nat /\ Left(h, c)' \in Nat
    BY LeftTypes
  <2>4. failures' = failures \/ failures' = failures + 1
    BY <1>3, FailuresCounted
  <2>5. PICK t, l, m : t = Truth[c]' /\ l = Left(h, c)' /\ m = Pending(c)'
    OBVIOUS
  <2>6. metrics'[c] + m <= t
    BY <1>1, <1>2, <2>1, <2>2, <2>3, <2>5
  <2>7. failures' = 0 => metrics'[c] + m = t
    <3>1. failures' = 0 => failures = 0 /\ failures' = failures
      BY <1>1, <2>4
    <3> SUFFICES ASSUME failures' = 0 PROVE metrics'[c] + m = t
      OBVIOUS
    <3>2. metrics[c] + Pending(c) = Truth[c]
      BY <1>2, <3>1
    <3>3. metrics'[c] + l - t = metrics[c] + Left(h, c) - Truth[c]
      BY <2>2, <2>5, <3>1
    <3>4. m = Pending(c) + l - Left(h, c)
      BY <2>1, <2>5
    <3>5. t \in Int /\ l \in Nat /\ Left(h, c) \in Nat /\ Pending(c) \in Nat
      BY <2>1, <2>2, <2>3, <2>5
    <3> QED
      BY <1>1, <3>2, <3>3, <3>4, <3>5
  <2> QED
    BY <2>5, <2>6, <2>7
<1>4. CASE Restart
  <2> DEFINE f == [h \in Handlers |-> Left(h, c)']
  <2>1. metrics'[c] = 0 /\ failures' = failures + 1 /\ UNCHANGED tables
    BY <1>4, CountersAre DEF Restart, Followed
  <2>2. \A h \in Handlers : f[h] = 0
    BY <1>4, LeftTypes DEF Restart
  <2>3. Pending(c)' = Total(f, Handlers)
    BY PendingIsTotal
  <2>4. Pending(c)' = 0
    <3> HIDE DEF f
    <3>1. Total(f, Handlers) = 0
      BY <2>2, ServiceAssumption, TotalOfZeros
    <3> QED
      BY <2>3, <3>1
  <2>5. Truth[c]' = Truth[c]
    BY <2>1, TruthSame
  <2> QED
    BY <1>1, <2>1, <2>4, <2>5
<1>5. CASE UNCHANGED vars
  <2>1. /\ UNCHANGED tables /\ metrics' = metrics /\ failures' = failures
        /\ UNCHANGED <<pc, call, result>>
    BY <1>5 DEF vars, process
  <2>2. Pending(c)' = Pending(c)
    <3>1. \A h \in Handlers : Left(h, c)' = Left(h, c)
      <4> SUFFICES ASSUME NEW h \in Handlers PROVE Left(h, c)' = Left(h, c)
        OBVIOUS
      <4>1. PICK a, r : a = call[h] /\ r = result[h]
        OBVIOUS
      <4>2. CASE pc[h] = "stored"
        BY <2>1, <4>1, <4>2, LeftNow
      <4>3. CASE pc[h] # "stored"
        BY <2>1, <4>3, LeftTypes
      <4> QED
        BY <4>2, <4>3
    <3>2. [h \in Handlers |-> Left(h, c)'] = [h \in Handlers |-> Left(h, c)]
      BY <3>1, Zenon
    <3> QED
      BY <3>2, PendingIsTotal
  <2>3. Truth[c]' = Truth[c]
    BY <2>1, TruthSame
  <2> QED
    BY <1>2, <2>1, <2>2, <2>3
<1> QED
  BY <1>3, <1>4, <1>5 DEF Next, Steps, Refuses

(* They follow them in every state.                                        *)
LEMMA FollowsAlways == Spec => []Follows
<1>1. Typed /\ Typed' /\ Follows /\ [Next]_vars => Follows'
  BY FollowsStep
<1> QED
  BY <1>1, FollowsInit, TypedAlways, PTL DEF Spec

(* No counter ever runs ahead of the tables, what is about to be added     *)
(* included, and while nothing has failed none is behind: with any number  *)
(* of handlers counting, replaying, failing and restarting (metrics.go:    *)
(* RecordEarn, RecordRedeem).                                              *)
THEOREM CountersAreTrue == Spec => []CountersFollowTables
<1>1. Follows => CountersFollowTables
  BY TruthIs DEF Follows, CountersFollowTables
<1> QED
  BY <1>1, FollowsAlways, PTL

-----------------------------------------------------------------------------
(* A scrape has the payments that were answered before it.                 *)

(* Fewer terms, none negative: smaller sum.                                *)
LEMMA TotalOfSubset ==
  ASSUME NEW S, IsFiniteSet(S), NEW P, P \subseteq S, NEW f, \A x \in S : f[x] \in Nat
  PROVE  Total(f, P) <= Total(f, S)
<1> DEFINE g == [x \in S |-> IF x \in P THEN f[x] ELSE 0]
<1>1. IsFiniteSet(P)
  BY FS_Subset
<1>2. /\ \A x \in S : g[x] \in Int /\ f[x] \in Int /\ g[x] <= f[x]
      /\ \A x \in P : g[x] = f[x]
      /\ \A x \in S \ P : g[x] = 0
  OBVIOUS
<1> HIDE DEF g
<1>3. Total(g, S) = Total(g, P)
  BY <1>2, TotalOfPart
<1>4. Total(g, P) = Total(f, P)
  BY <1>1, <1>2, TotalSame
<1>5. Total(g, S) <= Total(f, S)
  BY <1>2, TotalAtMost
<1> QED
  BY <1>3, <1>4, <1>5

(* What is left is no more than there was.                                 *)
LEMMA LeftAtMost ==
  ASSUME NEW s \in Seq([counter: Counters, n: Nat]), NEW k \in Nat, NEW c
  PROVE  LeftOf(s, k, c) <= LeftOf(s, 0, c)
<1> DEFINE f == [n \in 1 .. Len(s) |-> s[n].n]
<1>1. Len(s) \in Nat
  OBVIOUS
<1>2. \A n \in 1 .. Len(s) : s[n] \in [counter: Counters, n: Nat]
  <2> HIDE DEF f
  <2> QED
    BY ItemOf
<1>3. ASSUME NEW m \in Nat
      PROVE  /\ LeftOf(s, m, c) = Total(f, Items(s, m, c))
             /\ Items(s, m, c) \subseteq 1 .. Len(s) /\ IsFiniteSet(Items(s, m, c))
  <2> DEFINE g == [n \in Items(s, m, c) |-> s[n].n]
  <2>1. LeftOf(s, m, c) = Total(g, Items(s, m, c))
    BY Zenon DEF LeftOf, Total, IsSum, First, MapThenSumSet, MapThenFoldSet
  <2>2. Items(s, m, c) \subseteq 1 .. Len(s)
    BY <1>1 DEF Items
  <2>3. IsFiniteSet(1 .. Len(s))
    BY <1>1, FS_Interval
  <2>4. IsFiniteSet(Items(s, m, c)) /\ \A n \in Items(s, m, c) : g[n] = f[n]
    BY <2>2, <2>3, FS_Subset
  <2> HIDE DEF f, g
  <2>5. Total(g, Items(s, m, c)) = Total(f, Items(s, m, c))
    BY <2>4, TotalSame
  <2> QED
    BY <2>1, <2>2, <2>4, <2>5
<1>4. Items(s, k, c) \subseteq Items(s, 0, c)
  BY <1>1 DEF Items
<1>5. \A n \in Items(s, 0, c) : f[n] \in Nat
  BY <1>2, <1>3
<1>6. /\ LeftOf(s, k, c) = Total(f, Items(s, k, c))
      /\ LeftOf(s, 0, c) = Total(f, Items(s, 0, c)) /\ IsFiniteSet(Items(s, 0, c))
  BY <1>3
<1> HIDE DEF f
<1>7. Total(f, Items(s, k, c)) <= Total(f, Items(s, 0, c))
  BY <1>4, <1>5, <1>6, TotalOfSubset
<1> QED
  BY <1>6, <1>7

(* The two counters of which a client is told with its answer.             *)
Spoken == {"payments", "awarded"}

(* A payment stored now and not answered yet, what it adds to them, and    *)
(* how much of that it has added.                                          *)
ShareOf(label, a, r, c) ==
  IF /\ label \in {"stored", "done"}
     /\ a \in Payments
     /\ r.code = 201
     /\ ~r.replayed
  THEN IF c = "payments" THEN 1 ELSE r.award
  ELSE 0

Share(h, c) == ShareOf(pc[h], call[h], result[h], c)

Added(h, c) == Share(h, c) - Left(h, c)

AddedUntold(c) == Total([h \in Handlers |-> Added(h, c)], Handlers)

(* What has been told has been counted, beside what will be told.          *)
ToldCounted == \A c \in Spoken : told[c] + AddedUntold(c) <= metrics[c]

(* The tables know both counters.                                          *)
LEMMA SpokenFollowed == Spoken \subseteq Followed
  BY DEF Spoken, Followed, Counters

(* A share, now and after a step.                                          *)
LEMMA ShareNow ==
  ASSUME NEW h, NEW c, NEW label, NEW a, NEW r
  PROVE  /\ pc[h] = label /\ call[h] = a /\ result[h] = r
              => Share(h, c) = ShareOf(label, a, r, c)
         /\ pc'[h] = label /\ call'[h] = a /\ result'[h] = r
              => Share(h, c)' = ShareOf(label, a, r, c)
<1>1. ASSUME pc[h] = label, call[h] = a, result[h] = r
      PROVE  Share(h, c) = ShareOf(label, a, r, c)
  BY <1>1 DEF Share
<1>2. ASSUME pc'[h] = label, call'[h] = a, result'[h] = r
      PROVE  Share(h, c)' = ShareOf(label, a, r, c)
  BY <1>2 DEF Share
<1> QED
  BY <1>1, <1>2

(* It is a natural number.                                                 *)
LEMMA ShareTypes ==
  ASSUME NEW h \in Handlers, NEW c
  PROVE  (Typed => Share(h, c) \in Nat) /\ (Typed' => Share(h, c)' \in Nat)
<1>1. ASSUME NEW label, NEW a, NEW r \in Results PROVE ShareOf(label, a, r, c) \in Nat
  <2>1. r.award \in Nat
    BY ToFields DEF FieldsOK
  <2> QED
    BY <2>1 DEF ShareOf
<1>2. ASSUME Typed PROVE Share(h, c) \in Nat
  <2>1. PICK r \in Results : r = result[h]
    BY <1>2 DEF Typed
  <2>2. PICK label, a : label = pc[h] /\ a = call[h]
    OBVIOUS
  <2> QED
    BY <1>1, <2>1, <2>2, ShareNow
<1>3. ASSUME Typed' PROVE Share(h, c)' \in Nat
  <2>1. PICK r \in Results : r = result'[h]
    BY <1>3 DEF Typed
  <2>2. PICK label, a : label = pc'[h] /\ a = call'[h]
    OBVIOUS
  <2> QED
    BY <1>1, <2>1, <2>2, ShareNow
<1> QED
  BY <1>2, <1>3

(* What is left to add is part of the share.                               *)
LEMMA LeftOfShare ==
  ASSUME Typed, NEW h \in Handlers, NEW c \in Spoken
  PROVE  Left(h, c) \in Nat /\ Left(h, c) <= Share(h, c)
<1>1. PICK label, a, r : label = pc[h] /\ a = call[h] /\ r = result[h] /\ r \in Results
  BY DEF Typed
<1>2. r.counted \in Nat /\ r.award \in Nat /\ r.replayed \in BOOLEAN
  BY <1>1, ToFields DEF FieldsOK
<1>3. c \in Followed /\ Left(h, c) \in Nat
  BY SpokenFollowed, LeftTypes
<1>4. Share(h, c) = ShareOf(label, a, r, c) /\ Share(h, c) \in Nat
  BY <1>1, ShareNow, ShareTypes
<1>5. CASE pc[h] # "stored"
  <2>1. Left(h, c) = 0
    BY <1>1, <1>5, LeftTypes
  <2> QED
    BY <1>4, <2>1
<1>6. CASE pc[h] = "stored"
  <2>1. AddsOf(a, r) \in Seq([counter: Counters, n: Nat])
    BY <1>1, AddsTypes
  <2>2. LeftOf(AddsOf(a, r), r.counted, c) <= LeftOf(AddsOf(a, r), 0, c)
    BY <1>2, <2>1, LeftAtMost
  <2>3. Left(h, c) = LeftOf(AddsOf(a, r), r.counted, c)
    BY <1>1, <1>6, LeftNow
  <2>4. \/ a \in Payments /\ a.op = "pay" /\ r.code = 201
        \/ a.op = "redeem"
    BY <1>1, <1>6 DEF Typed, InStep, Payments, Redemptions
  <2>5. LeftOf(AddsOf(a, r), 0, c) = IF r.replayed THEN 0
                                     ELSE IF a.op = "pay" THEN EarnGain(r, c)
                                     ELSE RedeemGain(r, c)
    BY <1>1, <1>3, AllLeft
  <2>6. LeftOf(AddsOf(a, r), 0, c) <= ShareOf(label, a, r, c)
    <3>1. CASE r.replayed
      BY <1>4, <2>5, <3>1
    <3>2. CASE ~r.replayed /\ a.op = "redeem"
      <4>1. RedeemGain(r, c) = 0
        BY DEF RedeemGain, Spoken
      <4> QED
        BY <1>4, <2>5, <3>2, <4>1
    <3>3. CASE ~r.replayed /\ a \in Payments /\ a.op = "pay" /\ r.code = 201
      <4>1. EarnGain(r, c) = IF c = "payments" THEN 1 ELSE r.award
        BY DEF EarnGain, Spoken
      <4>2. ShareOf(label, a, r, c) = IF c = "payments" THEN 1 ELSE r.award
        BY <1>1, <1>6, <3>3 DEF ShareOf
      <4> QED
        BY <1>4, <2>5, <3>3, <4>1, <4>2
    <3> QED
      BY <1>2, <2>4, <3>1, <3>2, <3>3
  <2>7. LeftOf(AddsOf(a, r), 0, c) \in Nat
    BY <1>2, <2>1, LeftStep
  <2> QED
    BY <1>3, <1>4, <2>2, <2>3, <2>6, <2>7
<1> QED
  BY <1>5, <1>6

(* A store that answers leaves all of the share to be added.               *)
LEMMA StoredShare ==
  ASSUME Typed, Typed', NEW h \in Handlers, NEW a, Arrives(h, a),
         a \in Payments \cup Redemptions,
         NEW r \in Results, r.counted = 0, Stored(h, r), NEW c \in Spoken
  PROVE  Share(h, c)' <= Left(h, c)'
<1>1. /\ DOMAIN pc = Handlers /\ DOMAIN call = Handlers /\ DOMAIN result = Handlers
      /\ c \in Followed /\ Left(h, c)' \in Nat
  BY SpokenFollowed, LeftTypes DEF Typed
<1>2. CASE Goto(h, "stored") /\ result' = [result EXCEPT ![h] = r]
  <2>1. pc'[h] = "stored" /\ result'[h] = r /\ call'[h] = a
    BY <1>1, <1>2 DEF Goto, Arrives
  <2>2. /\ Left(h, c)' = LeftOf(AddsOf(a, r), 0, c)
        /\ Share(h, c)' = ShareOf("stored", a, r, c)
    BY <2>1, LeftNow, ShareNow
  <2>3. Left(h, c)' = IF r.replayed THEN 0
                      ELSE IF a.op = "pay" THEN EarnGain(r, c) ELSE RedeemGain(r, c)
    BY <1>1, <2>2, AllLeft
  <2>4. a \in Payments => a.op = "pay"
    BY DEF Payments
  <2>5. CASE a \in Payments /\ ~r.replayed
    BY <2>2, <2>3, <2>4, <2>5, GainsAreNat DEF ShareOf, EarnGain, Spoken
  <2>6. CASE ~(a \in Payments /\ ~r.replayed)
    BY <1>1, <2>2, <2>6 DEF ShareOf
  <2> QED
    BY <2>5, <2>6
<1>3. CASE Answer(h, 500)
  <2>1. PICK s : s = [NoResult EXCEPT !.code = 500]
    OBVIOUS
  <2>2. pc'[h] = "done" /\ result'[h] = s /\ s.code = 500
    BY <1>1, <1>3, <2>1 DEF Answer, Goto, NoResult
  <2>3. Share(h, c)' = ShareOf("done", call'[h], s, c)
    BY <2>2, ShareNow
  <2> QED
    BY <1>1, <2>2, <2>3 DEF ShareOf
<1> QED
  BY <1>2, <1>3 DEF Stored

(* What the store tells a handler of its call.                             *)
LEMMA StoreTells ==
  ASSUME Typed, NEW h \in Handlers, ProcessPayment(h) \/ RedeemBalance(h)
  PROVE  \E a \in Payments \cup Redemptions :
           /\ Arrives(h, a) /\ UNCHANGED <<metrics, told>>
           /\ \/ \E r \in Results : r.counted = 0 /\ Stored(h, r)
              \/ Answer(h, 422)
<1>1. TablesOK
  BY DEF Typed, TablesInv, CampaignInv
<1>2. CASE ProcessPayment(h)
  <2>1. PICK a \in Payments :
          /\ Arrives(h, a) /\ UNCHANGED <<metrics, told>>
          /\ \/ \E d \in Days :
                  Stored(h, [NoResult EXCEPT
                               !.code = 201,
                               !.award = AwardFor(a.user, a.amount, d),
                               !.status = StatusFor(a.user, a.amount, d)])
             \/ \E p \in PaymentRows(a.user, a.key) :
                  Stored(h, [NoResult EXCEPT
                               !.code = 201, !.replayed = TRUE,
                               !.award = p.cashback_awarded, !.status = p.status])
    BY <1>2 DEF ProcessPayment
  <2>2. a.user \in Users /\ a.amount \in PayAmounts
    BY DEF Payments
  <2>3. ASSUME NEW d \in Days,
               Stored(h, [NoResult EXCEPT
                            !.code = 201,
                            !.award = AwardFor(a.user, a.amount, d),
                            !.status = StatusFor(a.user, a.amount, d)])
        PROVE  \E r \in Results : r.counted = 0 /\ Stored(h, r)
    <3>1. PICK award \in Nat, status \in FinalStatus :
            /\ award = AwardFor(a.user, a.amount, d)
            /\ status = StatusFor(a.user, a.amount, d)
      BY <1>1, <2>2, AwardIsNat
    <3>2. PICK r : r = [NoResult EXCEPT !.code = 201, !.award = award, !.status = status]
      OBVIOUS
    <3>3. r \in Results /\ Told(r, 201, FALSE, award, status)
      BY <3>2, PaidResult
    <3> QED
      BY <2>3, <3>1, <3>2, <3>3 DEF Told
  <2>4. ASSUME NEW p \in PaymentRows(a.user, a.key),
               Stored(h, [NoResult EXCEPT
                            !.code = 201, !.replayed = TRUE,
                            !.award = p.cashback_awarded, !.status = p.status])
        PROVE  \E r \in Results : r.counted = 0 /\ Stored(h, r)
    <3>1. p.cashback_awarded \in Nat /\ p.status \in FinalStatus
      BY <1>1 DEF TablesOK, PaymentRows, Payment
    <3>2. PICK r : r = [NoResult EXCEPT !.code = 201, !.replayed = TRUE,
                                        !.award = p.cashback_awarded, !.status = p.status]
      OBVIOUS
    <3>3. r \in Results /\ Told(r, 201, TRUE, p.cashback_awarded, p.status)
      BY <3>1, <3>2, ReplayResult
    <3> QED
      BY <2>4, <3>2, <3>3 DEF Told
  <2> QED
    BY <2>1, <2>3, <2>4
<1>3. CASE RedeemBalance(h)
  <2>1. PICK a \in Redemptions :
          /\ Arrives(h, a) /\ UNCHANGED <<metrics, told>>
          /\ \/ Stored(h, [NoResult EXCEPT !.code = 200, !.award = a.amount])
             \/ \E p \in RedemptionRows(a.user, a.key) :
                  Stored(h, [NoResult EXCEPT
                               !.code = 200, !.replayed = TRUE, !.award = p.amount])
             \/ Answer(h, 422)
    BY <1>3 DEF RedeemBalance
  <2>2. ASSUME NEW n \in Nat, NEW s, NEW old,
               s = [NoResult EXCEPT !.code = 200, !.award = n],
               old = [NoResult EXCEPT !.code = 200, !.replayed = TRUE, !.award = n]
        PROVE  s \in Results /\ s.counted = 0 /\ old \in Results /\ old.counted = 0
    <3>1. /\ s \in Results /\ Told(s, 200, FALSE, n, "none")
          /\ old \in Results /\ Told(old, 200, TRUE, n, "none")
      BY <2>2, RedeemedResults
    <3> QED
      BY <3>1 DEF Told
  <2>3. a.amount \in Nat
    BY AmountsNat DEF Redemptions
  <2>4. \A p \in RedemptionRows(a.user, a.key) : p.amount \in Nat
    BY <1>1, AmountsNat DEF TablesOK, RedemptionRows, Redemption
  <2>5. \A n \in Nat :
          /\ Stored(h, [NoResult EXCEPT !.code = 200, !.award = n])
               => \E r \in Results : r.counted = 0 /\ Stored(h, r)
          /\ Stored(h, [NoResult EXCEPT !.code = 200, !.replayed = TRUE, !.award = n])
               => \E r \in Results : r.counted = 0 /\ Stored(h, r)
    <3> SUFFICES ASSUME NEW n \in Nat
                 PROVE  /\ Stored(h, [NoResult EXCEPT !.code = 200, !.award = n])
                             => \E r \in Results : r.counted = 0 /\ Stored(h, r)
                        /\ Stored(h, [NoResult EXCEPT !.code = 200, !.replayed = TRUE,
                                                      !.award = n])
                             => \E r \in Results : r.counted = 0 /\ Stored(h, r)
      OBVIOUS
    <3>1. PICK s, old :
            /\ s = [NoResult EXCEPT !.code = 200, !.award = n]
            /\ old = [NoResult EXCEPT !.code = 200, !.replayed = TRUE, !.award = n]
      OBVIOUS
    <3>2. s \in Results /\ s.counted = 0 /\ old \in Results /\ old.counted = 0
      BY <2>2, <3>1
    <3> QED
      BY <3>1, <3>2
  <2>6. CASE Answer(h, 422)
    BY <2>1, <2>6
  <2>7. CASE Stored(h, [NoResult EXCEPT !.code = 200, !.award = a.amount])
    BY <2>1, <2>3, <2>5, <2>7
  <2>8. ASSUME NEW p \in RedemptionRows(a.user, a.key),
               Stored(h, [NoResult EXCEPT
                            !.code = 200, !.replayed = TRUE, !.award = p.amount])
        PROVE  \E r \in Results : r.counted = 0 /\ Stored(h, r)
    BY <2>4, <2>5, <2>8
  <2> QED
    BY <2>1, <2>6, <2>7, <2>8
<1> QED
  BY <1>2, <1>3

(* A handler tells no more than it has counted.                            *)
LEMMA ToldOwn ==
  ASSUME Typed, Typed', NEW h \in Handlers, Steps(h), NEW c \in Spoken
  PROVE  told'[c] + Added(h, c)' - metrics'[c] <= told[c] + Added(h, c) - metrics[c]
<1>1. /\ DOMAIN pc = Handlers /\ DOMAIN call = Handlers /\ DOMAIN result = Handlers
      /\ InStep(h) /\ c \in Followed /\ DOMAIN metrics = Counters
  BY SpokenFollowed DEF Typed
<1>2. /\ told[c] \in Nat /\ told'[c] \in Nat /\ metrics[c] \in Nat /\ metrics'[c] \in Nat
  <2>1. told \in Scrapes /\ told' \in Scrapes
    BY DEF Typed
  <2> QED
    BY <1>1, <2>1 DEF Typed, Scrapes, Spoken, Followed
<1>3. /\ Share(h, c) \in Nat /\ Share(h, c)' \in Nat
      /\ Left(h, c) \in Nat /\ Left(h, c)' \in Nat /\ Left(h, c) <= Share(h, c)
      /\ pc[h] # "stored" => Left(h, c) = 0
      /\ pc'[h] # "stored" => Left(h, c)' = 0
  BY ShareTypes, LeftTypes, LeftOfShare
<1>4. Added(h, c) = Share(h, c) - Left(h, c) /\ Added(h, c)' = Share(h, c)' - Left(h, c)'
  BY DEF Added
<1>5. PICK label, a, r : /\ label = pc[h] /\ a = call[h] /\ r = result[h] /\ r \in Results
                         /\ Share(h, c) = ShareOf(label, a, r, c)
  <2>1. result[h] \in Results
    BY DEF Typed
  <2> QED
    BY <2>1, ShareNow
<1>6. ASSUME Share(h, c)' <= Left(h, c)', UNCHANGED told, metrics'[c] = metrics[c]
      PROVE  told'[c] + Added(h, c)' - metrics'[c] <= told[c] + Added(h, c) - metrics[c]
  BY <1>2, <1>3, <1>4, <1>6
<1>7. ASSUME NEW code, Answer(h, code), code # 201 PROVE Share(h, c)' <= Left(h, c)'
  <2>1. PICK s : s = [NoResult EXCEPT !.code = code]
    OBVIOUS
  <2>2. pc'[h] = "done" /\ result'[h] = s /\ s.code = code
    BY <1>1, <1>7, <2>1 DEF Answer, Goto, NoResult
  <2>3. Share(h, c)' = ShareOf("done", call'[h], s, c)
    BY <2>2, ShareNow
  <2> QED
    BY <1>3, <1>7, <2>2, <2>3 DEF ShareOf
<1>8. ASSUME call'[h] \notin Payments PROVE Share(h, c)' <= Left(h, c)'
  BY <1>3, <1>8 DEF Share, ShareOf
<1>9. CASE Refuses(h)
  <2>1. /\ UNCHANGED told
        /\ Answer(h, 401) \/ Answer(h, 429) \/ Answer(h, 400) \/ Answer(h, 200)
    BY <1>9 DEF Refuses, RequireUser, RateLimited, RefuseBody, ReadUser, AtOnce
  <2>2. metrics'[c] = metrics[c]
    BY <1>1, <1>9 DEF Refuses, RequireUser, RateLimited, RefuseBody, ReadUser, Followed
  <2> QED
    BY <1>6, <1>7, <2>1, <2>2
<1>10. CASE ProcessPayment(h) \/ RedeemBalance(h)
  <2>1. PICK b \in Payments \cup Redemptions :
          /\ Arrives(h, b) /\ UNCHANGED <<metrics, told>>
          /\ \/ \E s \in Results : s.counted = 0 /\ Stored(h, s)
             \/ Answer(h, 422)
    BY <1>10, StoreTells
  <2>2. CASE \E s \in Results : s.counted = 0 /\ Stored(h, s)
    BY <1>6, <2>1, <2>2, StoredShare
  <2>3. CASE Answer(h, 422)
    BY <1>6, <1>7, <2>1, <2>3
  <2> QED
    BY <2>1, <2>2, <2>3
<1>11. CASE Recovered(h)
  BY <1>6, <1>7, <1>11 DEF Recovered
<1>12. CASE ReadCampaign(h)
  <2>1. PICK b \in PublicReads : Arrives(h, b) /\ UNCHANGED <<metrics, told>>
    BY <1>12 DEF ReadCampaign
  <2>2. call'[h] = b /\ b \notin Payments
    BY <1>1, <2>1 DEF Arrives, PublicReads, Payments
  <2> QED
    BY <1>6, <1>8, <2>1, <2>2
<1>13. CASE SetGauge(h) \/ WriteMetrics(h)
  <2>1. UNCHANGED <<metrics, told, call>> /\ pc[h] \in {"read", "again", "write"}
    BY <1>13 DEF SetGauge, WriteMetrics, At
  <2>2. call'[h] \notin Payments
    BY <1>1, <2>1 DEF InStep, Scraping, PublicReads, Payments
  <2> QED
    BY <1>6, <1>8, <2>1, <2>2
<1>14. CASE Record(h)
  <2>1. /\ label = "stored" /\ UNCHANGED <<call, tables, told>> /\ failures' = failures
        /\ \/ /\ UNCHANGED pc
              /\ \E n : result' = [result EXCEPT ![h] = [r EXCEPT !.counted = n]]
           \/ /\ Goto(h, "done")
              /\ result' = [result EXCEPT ![h] = [r EXCEPT !.status = "none", !.counted = 0]]
    BY <1>5, <1>14 DEF Record, At
  <2>2. PICK s, next :
          /\ result'[h] = s /\ pc'[h] = next /\ next \in {"stored", "done"}
          /\ s.code = r.code /\ s.replayed = r.replayed /\ s.award = r.award
    <3>1. r = Fields(r)
      BY <1>5, ToFields
    <3>2. CASE /\ UNCHANGED pc
               /\ \E n : result' = [result EXCEPT ![h] = [r EXCEPT !.counted = n]]
      <4>1. PICK n, s : s = [r EXCEPT !.counted = n] /\ result'[h] = s
        BY <1>1, <3>2
      <4>2. s.code = r.code /\ s.replayed = r.replayed /\ s.award = r.award
        BY <3>1, <4>1 DEF Fields
      <4> QED
        BY <1>5, <2>1, <3>2, <4>1, <4>2
    <3>3. CASE /\ Goto(h, "done")
               /\ result' = [result EXCEPT ![h] = [r EXCEPT !.status = "none", !.counted = 0]]
      <4>1. PICK s : s = [r EXCEPT !.status = "none", !.counted = 0] /\ result'[h] = s
        BY <1>1, <3>3
      <4>2. s.code = r.code /\ s.replayed = r.replayed /\ s.award = r.award
        BY <3>1, <4>1 DEF Fields
      <4> QED
        BY <1>1, <3>3, <4>1, <4>2 DEF Goto
    <3> QED
      BY <2>1, <3>2, <3>3
  <2>3. call'[h] = a
    BY <1>5, <2>1
  <2>4. Share(h, c)' = Share(h, c)
    <3>1. Share(h, c)' = ShareOf(next, a, s, c)
      BY <2>2, <2>3, ShareNow
    <3> QED
      BY <1>5, <2>1, <2>2, <3>1 DEF ShareOf
  <2>5. metrics'[c] + Left(h, c)' - Truth[c]' = metrics[c] + Left(h, c) - Truth[c]
    BY <1>1, <2>1, FollowOwn
  <2>6. Truth[c]' = Truth[c] /\ Truth[c] \in Nat
    BY <1>1, <2>1, TruthSame, TruthTypes
  <2>7. metrics'[c] + Left(h, c)' = metrics[c] + Left(h, c)
    BY <1>2, <1>3, <2>5, <2>6
  <2> QED
    BY <1>2, <1>3, <1>4, <2>1, <2>4, <2>7
<1>15. CASE Reply(h)
  <2>1. /\ label = "done" /\ pc'[h] = "idle" /\ UNCHANGED metrics
        /\ told' = IF a \in Payments /\ r.code = 201 /\ ~r.replayed
                   THEN [payments |-> told.payments + 1, awarded |-> told.awarded + r.award]
                   ELSE told
    BY <1>1, <1>5, <1>15 DEF Reply, Goto
  <2>2. Share(h, c)' = 0
    BY <2>1 DEF Share, ShareOf
  <2>3. told'[c] = told[c] + Share(h, c)
    BY <1>2, <1>5, <2>1 DEF ShareOf, Spoken
  <2>4. Left(h, c) = 0 /\ Left(h, c)' = 0
    BY <1>3, <1>5, <2>1
  <2> QED
    BY <1>2, <1>3, <1>4, <2>1, <2>2, <2>3, <2>4
<1> QED
  BY <1>9, <1>10, <1>11, <1>12, <1>13, <1>14, <1>15 DEF Steps

(* The sum moves by what the handler of the step moves.                    *)
LEMMA AddedMoves ==
  ASSUME Typed, Typed', NEW h \in Handlers, Steps(h), NEW c
  PROVE  /\ AddedUntold(c) \in Int /\ Added(h, c) \in Int /\ Added(h, c)' \in Int
         /\ AddedUntold(c)' = AddedUntold(c) + Added(h, c)' - Added(h, c)
<1> DEFINE f == [g \in Handlers |-> Added(g, c)]
           next == [g \in Handlers |-> Added(g, c)']
<1>1. IsFiniteSet(Handlers)
  BY ServiceAssumption
<1>2. ASSUME NEW g \in Handlers
      PROVE  Added(g, c) \in Int /\ Added(g, c)' \in Int
  <2>1. /\ Share(g, c) \in Nat /\ Share(g, c)' \in Nat
        /\ Left(g, c) \in Nat /\ Left(g, c)' \in Nat
    BY ShareTypes, LeftTypes
  <2> QED
    BY <2>1 DEF Added
<1>3. PICK by \in Int : by = Added(h, c)' - Added(h, c)
  BY <1>2
<1>4. ASSUME NEW g \in Handlers, g # h PROVE Added(g, c)' = Added(g, c)
  <2>1. Same(g)
    BY <1>4, OneMoves
  <2>2. PICK label, a, r : label = pc[g] /\ a = call[g] /\ r = result[g]
    OBVIOUS
  <2>3. Left(g, c)' = Left(g, c)
    <3>1. CASE label = "stored"
      BY <2>1, <2>2, <3>1, LeftNow DEF Same
    <3>2. CASE label # "stored"
      BY <2>1, <2>2, <3>2, LeftTypes DEF Same
    <3> QED
      BY <3>1, <3>2
  <2>4. Share(g, c)' = Share(g, c)
    BY <2>1, <2>2, ShareNow DEF Same
  <2> QED
    BY <2>3, <2>4 DEF Added
<1>5. \A g \in Handlers : next[g] = IF g = h THEN f[g] + by ELSE f[g]
  <2>1. Added(h, c) \in Int /\ Added(h, c)' \in Int
    BY <1>2
  <2>2. next[h] = f[h] + by
    BY <1>3, <2>1
  <2>3. \A g \in Handlers : g # h => next[g] = f[g]
    BY <1>4
  <2> HIDE DEF f, next
  <2> QED
    BY <2>2, <2>3
<1>6. \A g \in Handlers : f[g] \in Int
  BY <1>2
<1>7. AddedUntold(c) = Total(f, Handlers) /\ AddedUntold(c)' = Total(next, Handlers)
  BY DEF AddedUntold
<1> HIDE DEF f, next
<1>8. Total(next, Handlers) = Total(f, Handlers) + by
  BY <1>1, <1>5, <1>6, TotalMoved
<1>9. Total(f, Handlers) \in Int
  BY <1>1, <1>6, TotalIsInt
<1>10. Added(h, c) \in Int /\ Added(h, c)' \in Int
  BY <1>2
<1> QED
  BY <1>3, <1>7, <1>8, <1>9, <1>10

(* Nothing is added by handlers without a request.                         *)
LEMMA IdleAdded ==
  ASSUME NEW c
  PROVE  /\ Typed /\ (\A h \in Handlers : pc[h] = "idle") => AddedUntold(c) = 0
         /\ Typed' /\ (\A h \in Handlers : pc'[h] = "idle") => AddedUntold(c)' = 0
<1>1. ASSUME NEW f, \A h \in Handlers : f[h] = 0 PROVE Total(f, Handlers) = 0
  BY <1>1, ServiceAssumption, TotalOfZeros
<1>2. ASSUME Typed, \A h \in Handlers : pc[h] = "idle" PROVE AddedUntold(c) = 0
  <2> DEFINE f == [h \in Handlers |-> Added(h, c)]
  <2>1. \A h \in Handlers : Left(h, c) = 0 /\ Share(h, c) = 0
    BY <1>2, LeftTypes DEF Share, ShareOf
  <2>2. \A h \in Handlers : f[h] = 0
    BY <2>1 DEF Added
  <2>3. AddedUntold(c) = Total(f, Handlers)
    BY DEF AddedUntold
  <2> HIDE DEF f
  <2> QED
    BY <1>1, <2>2, <2>3
<1>3. ASSUME Typed', \A h \in Handlers : pc'[h] = "idle" PROVE AddedUntold(c)' = 0
  <2> DEFINE f == [h \in Handlers |-> Added(h, c)']
  <2>1. \A h \in Handlers : Left(h, c)' = 0 /\ Share(h, c)' = 0
    BY <1>3, LeftTypes DEF Share, ShareOf
  <2>2. \A h \in Handlers : f[h] = 0
    BY <2>1 DEF Added
  <2>3. AddedUntold(c)' = Total(f, Handlers)
    BY DEF AddedUntold
  <2> HIDE DEF f
  <2> QED
    BY <1>1, <2>2, <2>3
<1> QED
  BY <1>2, <1>3

(* So it holds from the start ...                                          *)
LEMMA ToldInit == Init => ToldCounted
<1> SUFFICES ASSUME Init, NEW c \in Spoken PROVE told[c] + AddedUntold(c) <= metrics[c]
  BY DEF ToldCounted
<1>1. metrics[c] = 0 /\ told[c] = 0
  BY CountersAre, SpokenFollowed DEF Init, NothingTold, Spoken, Followed
<1>2. AddedUntold(c) = 0
  BY TypedInit, IdleAdded DEF Init
<1> QED
  BY <1>1, <1>2

(* ... and after every step, a restart included.                           *)
LEMMA ToldStep == ASSUME Typed, Typed', ToldCounted, [Next]_vars PROVE ToldCounted'
<1> SUFFICES ASSUME NEW c \in Spoken PROVE told'[c] + AddedUntold(c)' <= metrics'[c]
  BY DEF ToldCounted
<1>1. told[c] \in Nat /\ told'[c] \in Nat /\ metrics[c] \in Nat /\ metrics'[c] \in Nat
  <2>1. told \in Scrapes /\ told' \in Scrapes /\ c \in Counters
    BY SpokenFollowed DEF Typed, Followed
  <2> QED
    BY <2>1 DEF Typed, Scrapes, Spoken
<1>2. told[c] + AddedUntold(c) <= metrics[c]
  BY DEF ToldCounted
<1>3. ASSUME NEW h \in Handlers, Steps(h) PROVE told'[c] + AddedUntold(c)' <= metrics'[c]
  <2>1. PICK old, new, mine, mine1 :
          /\ old = AddedUntold(c) /\ new = AddedUntold(c)'
          /\ mine = Added(h, c) /\ mine1 = Added(h, c)'
    OBVIOUS
  <2>2. old \in Int /\ mine \in Int /\ mine1 \in Int /\ new = old + mine1 - mine
    BY <1>3, <2>1, AddedMoves
  <2>3. told'[c] + mine1 - metrics'[c] <= told[c] + mine - metrics[c]
    BY <1>3, <2>1, ToldOwn
  <2> QED
    BY <1>1, <1>2, <2>1, <2>2, <2>3
<1>4. CASE Restart
  <2>1. metrics'[c] = 0 /\ told'[c] = 0 /\ \A h \in Handlers : pc'[h] = "idle"
    BY <1>4, CountersAre, SpokenFollowed DEF Restart, NothingTold, Spoken, Followed
  <2>2. AddedUntold(c)' = 0
    BY <2>1, IdleAdded
  <2> QED
    BY <2>1, <2>2
<1>5. CASE UNCHANGED vars
  <2>1. told' = told /\ metrics' = metrics /\ UNCHANGED <<pc, call, result>>
    BY <1>5 DEF vars, process
  <2>2. AddedUntold(c)' = AddedUntold(c)
    <3>1. \A h \in Handlers : Added(h, c)' = Added(h, c)
      <4> SUFFICES ASSUME NEW h \in Handlers PROVE Added(h, c)' = Added(h, c)
        OBVIOUS
      <4>1. PICK label, a, r : label = pc[h] /\ a = call[h] /\ r = result[h]
        OBVIOUS
      <4>2. Left(h, c)' = Left(h, c)
        <5>1. CASE label = "stored"
          BY <2>1, <4>1, <5>1, LeftNow
        <5>2. CASE label # "stored"
          BY <2>1, <4>1, <5>2, LeftTypes
        <5> QED
          BY <5>1, <5>2
      <4>3. Share(h, c)' = Share(h, c)
        BY <2>1, <4>1, ShareNow
      <4> QED
        BY <4>2, <4>3 DEF Added
    <3>2. [h \in Handlers |-> Added(h, c)'] = [h \in Handlers |-> Added(h, c)]
      BY <3>1, Zenon
    <3> QED
      BY <3>2 DEF AddedUntold
  <2> QED
    BY <1>2, <2>1, <2>2
<1> QED
  BY <1>3, <1>4, <1>5 DEF Next, Steps, Refuses

(* What has been told is in the counters.                                  *)
LEMMA ToldAtMost ==
  ASSUME Typed, ToldCounted, NEW c \in Spoken PROVE told[c] <= metrics[c]
<1> DEFINE f == [h \in Handlers |-> Added(h, c)]
<1>1. \A h \in Handlers : f[h] \in Nat
  <2> SUFFICES ASSUME NEW h \in Handlers PROVE Added(h, c) \in Nat
    OBVIOUS
  <2>1. Left(h, c) \in Nat /\ Share(h, c) \in Nat /\ Left(h, c) <= Share(h, c)
    BY LeftOfShare, ShareTypes
  <2> QED
    BY <2>1 DEF Added
<1>2. AddedUntold(c) = Total(f, Handlers)
  BY DEF AddedUntold
<1> HIDE DEF f
<1>3. AddedUntold(c) \in Nat
  BY <1>1, <1>2, ServiceAssumption, TotalIsNat
<1>4. told[c] \in Nat /\ metrics[c] \in Nat
  <2>1. told \in Scrapes /\ c \in Counters
    BY SpokenFollowed DEF Typed, Followed
  <2> QED
    BY <2>1 DEF Typed, Scrapes, Spoken
<1>5. told[c] + AddedUntold(c) <= metrics[c]
  BY DEF ToldCounted
<1> QED
  BY <1>3, <1>4, <1>5

(* What a scrape has, has and will have read lies between what it found    *)
(* answered and what is counted now.                                       *)
Covers(h) ==
  Scraping(h) /\ pc[h] # "idle" =>
    /\ result[h].before.payments <= metrics["payments"]
    /\ result[h].before.awarded <= metrics["awarded"]
    /\ Len(result[h].lines) <= 2
    /\ Len(result[h].lines) >= 1 =>
         /\ result[h].before.payments <= result[h].lines[1]
         /\ result[h].lines[1] <= metrics["payments"]
    /\ Len(result[h].lines) = 2 =>
         /\ result[h].before.awarded <= result[h].lines[2]
         /\ result[h].lines[2] <= metrics["awarded"]
    /\ pc[h] = "done" /\ result[h].code = 200 => Len(result[h].lines) = 2

AllCovered == \A h \in Handlers : Covers(h)

(* The same of a result and two counters, as values.                       *)
CoveredBy(label, r, paid, awarded) ==
  /\ r.before.payments <= paid
  /\ r.before.awarded <= awarded
  /\ Len(r.lines) <= 2
  /\ Len(r.lines) >= 1 => r.before.payments <= r.lines[1] /\ r.lines[1] <= paid
  /\ Len(r.lines) = 2 => r.before.awarded <= r.lines[2] /\ r.lines[2] <= awarded
  /\ label = "done" /\ r.code = 200 => Len(r.lines) = 2

(* It is the same.                                                         *)
LEMMA CoversIs ==
  ASSUME NEW h
  PROVE  /\ Covers(h) <=> (Scraping(h) /\ pc[h] # "idle" =>
              CoveredBy(pc[h], result[h], metrics["payments"], metrics["awarded"]))
         /\ Covers(h)' <=> (Scraping(h)' /\ pc'[h] # "idle" =>
              CoveredBy(pc'[h], result'[h], metrics'["payments"], metrics'["awarded"]))
  BY DEF Covers, CoveredBy

(* Counters that grow keep it.                                             *)
LEMMA CoveredByMore ==
  ASSUME NEW label, NEW r \in Results, NEW paid \in Nat, NEW awarded \in Nat,
         NEW more \in Nat, NEW longer \in Nat, paid <= more, awarded <= longer,
         CoveredBy(label, r, paid, awarded)
  PROVE  CoveredBy(label, r, more, longer)
<1>1. /\ r.before.payments \in Int /\ r.before.awarded \in Int
      /\ r.lines \in Seq(Nat) /\ Len(r.lines) \in Nat
  BY ToFields DEF FieldsOK, Scrapes
<1>2. /\ Len(r.lines) >= 1 => r.lines[1] \in Nat
      /\ Len(r.lines) = 2 => r.lines[2] \in Nat
  BY <1>1
<1> QED
  BY <1>1, <1>2 DEF CoveredBy

(* Without a restart no counter falls.                                     *)
LEMMA MetricsGrow ==
  ASSUME Typed, NEW h \in Handlers, Steps(h), NEW c \in Followed
  PROVE  metrics[c] \in Nat /\ metrics'[c] >= metrics[c]
<1>1. metrics \in [Counters -> Nat] /\ c \in Counters /\ metrics[c] \in Nat
  BY DEF Typed, Followed
<1>2. CASE ~Record(h)
  <2>1. metrics'[c] = metrics[c]
    BY <1>1, <1>2 DEF Steps, Refuses, RequireUser, RateLimited, RefuseBody, ReadUser,
       Followed, ProcessPayment, RedeemBalance, Recovered, ReadCampaign, SetGauge,
       WriteMetrics, Reply
  <2> QED
    BY <1>1, <2>1
<1>3. CASE Record(h)
  <2>1. PICK a, r : a = call[h] /\ r = result[h] /\ r \in Results
    BY DEF Typed
  <2>2. PICK adds, n : adds = AddsOf(a, r) /\ n = r.counted + 1
    OBVIOUS
  <2>3. \/ /\ n <= Len(adds)
           /\ metrics' = [metrics EXCEPT ![adds[n].counter] = @ + adds[n].n]
        \/ UNCHANGED metrics
    BY <1>3, <2>1, <2>2 DEF Record
  <2>4. adds \in Seq([counter: Counters, n: Nat]) /\ n \in Nat \ {0}
    <3>1. adds \in Seq([counter: Counters, n: Nat])
      BY <2>1, <2>2, AddsTypes
    <3>2. r.counted \in Nat
      BY <2>1, ToFields DEF FieldsOK
    <3> QED
      BY <2>2, <3>1, <3>2
  <2>5. CASE /\ n <= Len(adds)
             /\ metrics' = [metrics EXCEPT ![adds[n].counter] = @ + adds[n].n]
    <3>1. n \in 1 .. Len(adds)
      BY <2>4, <2>5
    <3>2. adds[n] \in [counter: Counters, n: Nat]
      BY <2>4, <3>1, ItemOf
    <3> QED
      BY <1>1, <2>5, <3>2
  <2> QED
    BY <1>1, <2>3, <2>5
<1> QED
  BY <1>2, <1>3

(* Each step of a scrape, and every other step, keeps it.                  *)
LEMMA CoversOwn ==
  ASSUME Typed, Typed', ToldCounted,
         NEW h \in Handlers, Steps(h), Covers(h)
  PROVE  Covers(h)'
<1>1. /\ DOMAIN pc = Handlers /\ DOMAIN call = Handlers /\ DOMAIN result = Handlers
      /\ InStep(h)
  BY DEF Typed
<1>2. PICK paid \in Nat, awarded \in Nat :
        paid = metrics["payments"] /\ awarded = metrics["awarded"]
  BY DEF Typed, Counters
<1>3. PICK more \in Nat, longer \in Nat :
        /\ more = metrics'["payments"] /\ longer = metrics'["awarded"]
  BY DEF Typed, Counters
<1>4. paid <= more /\ awarded <= longer
  <2>1. "payments" \in Followed /\ "awarded" \in Followed
    BY DEF Followed, Counters
  <2>2. /\ metrics'["payments"] >= metrics["payments"]
        /\ metrics'["awarded"] >= metrics["awarded"]
    BY <2>1, MetricsGrow
  <2> QED
    BY <1>2, <1>3, <2>2
<1> SUFFICES ASSUME Scraping(h)', pc'[h] # "idle"
             PROVE  CoveredBy(pc'[h], result'[h], more, longer)
  BY <1>3, CoversIs
<1>5. Scraping(h) /\ pc[h] # "idle" => CoveredBy(pc[h], result[h], paid, awarded)
  BY <1>2, CoversIs
<1>6. PICK r : r = result[h] /\ r \in Results
  BY DEF Typed
<1>7. CASE Refuses(h)
  <2>1. call'[h] = call[h] /\ pc[h] = "idle"
    BY <1>7 DEF Refuses, RequireUser, RateLimited, RefuseBody, ReadUser, AtOnce, At
  <2> QED
    BY <1>1, <2>1, NoCallAssumption DEF InStep, Scraping, PublicReads
<1>8. CASE ProcessPayment(h) \/ RedeemBalance(h)
  <2>1. PICK c : c \in Payments \cup Redemptions /\ Arrives(h, c)
    BY <1>8 DEF ProcessPayment, RedeemBalance
  <2> QED
    BY <1>1, <2>1 DEF Arrives, Scraping, Payments, Redemptions
<1>9. CASE Recovered(h)
  <2>1. PICK s : s = [NoResult EXCEPT !.code = 500]
    OBVIOUS
  <2>2. result'[h] = s /\ s.code = 500 /\ s.before = NothingTold /\ s.lines = <<>>
    BY <1>1, <1>9, <2>1 DEF Recovered, Answer, NoResult
  <2>3. Len(s.lines) = 0
    BY <2>2
  <2> QED
    BY <2>2, <2>3 DEF CoveredBy, NothingTold
<1>10. CASE Record(h)
  BY <1>1, <1>10 DEF Record, At, InStep, Scraping, Payments, Redemptions
<1>11. CASE ReadCampaign(h)
  <2>1. PICK c, r0, may :
          /\ c \in PublicReads /\ Opens(c, r0)
          /\ ReadInto(h, c, r0, may)
    BY <1>11, ReadsInto
  <2>2. c.op = "scrape"
    BY <1>1, <2>1 DEF ReadInto, Arrives, Scraping
  <2>3. told \in Scrapes
    BY DEF Typed
  <2>4. r0.before = told /\ r0.lines = <<>>
    BY <2>1, <2>2, <2>3, ScrapeBegins DEF Opens
  <2>5. pc'[h] # "done" /\ result'[h].before = told /\ result'[h].lines = <<>>
    <3>1. CASE ReadOK(h, r0, may)
      <4>1. /\ pc'[h] = "read" /\ result'[h].before = r0.before
            /\ result'[h].lines = r0.lines
        BY <2>1, <3>1, ReadBegins
      <4> QED
        BY <2>4, <4>1
    <3>2. CASE Goto(h, "write") /\ result' = [result EXCEPT ![h] = r0]
      BY <1>1, <2>4, <3>2 DEF Goto
    <3> QED
      BY <2>1, <2>2, <3>1, <3>2 DEF ReadInto
  <2>6. told.payments <= more /\ told.awarded <= longer
    <3>1. told["payments"] <= metrics["payments"] /\ told["awarded"] <= metrics["awarded"]
      BY ToldAtMost DEF Spoken
    <3>2. told.payments \in Nat /\ told.awarded \in Nat
      BY <2>3 DEF Scrapes
    <3> QED
      BY <1>2, <1>4, <3>1, <3>2
  <2>7. Len(result'[h].lines) = 0
    BY <2>5
  <2> QED
    BY <2>5, <2>6, <2>7 DEF CoveredBy
<1>12. CASE SetGauge(h)
  <2>1. CASE At(h, "read") /\ call[h].op = "campaign"
    BY <1>1, <2>1 DEF At, Scraping
  <2>2. CASE At(h, "read") /\ Goto(h, "again") /\ UNCHANGED result
    <3>1. Scraping(h) /\ pc[h] = "read" /\ pc'[h] = "again" /\ result'[h] = r
      BY <1>1, <1>6, <2>2 DEF At, Goto, Scraping
    <3>2. CoveredBy("read", r, paid, awarded)
      BY <1>5, <1>6, <3>1
    <3>3. CoveredBy("again", r, paid, awarded)
      BY <3>2 DEF CoveredBy
    <3> QED
      BY <1>4, <1>6, <3>1, <3>3, CoveredByMore
  <2>3. CASE /\ At(h, "again") /\ Goto(h, "write")
             /\ result' = [result EXCEPT ![h].seen = 0]
    <3>1. PICK s : s = [r EXCEPT !.seen = 0]
      OBVIOUS
    <3>2. s.before = r.before /\ s.lines = r.lines
      <4>1. r = Fields(r)
        BY <1>6, ToFields
      <4> QED
        BY <3>1, <4>1 DEF Fields
    <3>3. /\ Scraping(h) /\ pc[h] = "again" /\ pc'[h] = "write" /\ result'[h] = s
      BY <1>1, <1>6, <2>3, <3>1 DEF At, Goto, Scraping
    <3>4. CoveredBy("again", r, paid, awarded)
      BY <1>5, <1>6, <3>3
    <3>5. CoveredBy("write", s, paid, awarded)
      BY <3>2, <3>4 DEF CoveredBy
    <3>6. s \in Results
      BY <3>3 DEF Typed
    <3> QED
      BY <1>4, <3>3, <3>5, <3>6, CoveredByMore
  <2> QED
    BY <1>12, <2>1, <2>2, <2>3 DEF SetGauge
<1>13. CASE WriteMetrics(h)
  <2>1. /\ Scraping(h) /\ pc[h] = "write" /\ UNCHANGED metrics
        /\ CoveredBy("write", r, paid, awarded) /\ more = paid /\ longer = awarded
    BY <1>2, <1>3, <1>5, <1>6, <1>13 DEF WriteMetrics, At, Scraping
  <2>2. /\ r.before.payments \in Int /\ r.before.awarded \in Int
        /\ r.lines \in Seq(Nat) /\ Len(r.lines) \in Nat /\ r = Fields(r)
    BY <1>6, ToFields DEF FieldsOK, Scrapes
  <2>3. CASE /\ Len(r.lines) < 2 /\ UNCHANGED pc
             /\ result' = [result EXCEPT ![h].lines =
                              Append(r.lines, IF r.lines = <<>> THEN metrics["payments"]
                                                                ELSE metrics["awarded"])]
    <3>1. PICK n : n = IF r.lines = <<>> THEN paid ELSE awarded
      OBVIOUS
    <3>2. PICK lines : lines = Append(r.lines, n)
      OBVIOUS
    <3>3. PICK s : s = [r EXCEPT !.lines = lines]
      OBVIOUS
    <3>4. result'[h] = s /\ pc'[h] = "write"
      BY <1>1, <1>2, <1>6, <2>1, <2>3, <3>1, <3>2, <3>3
    <3>5. s.before = r.before /\ s.lines = lines
      BY <2>2, <3>3 DEF Fields
    <3>6. n \in Nat
      BY <3>1
    <3>7. /\ Len(lines) = Len(r.lines) + 1 /\ lines[Len(r.lines) + 1] = n
          /\ \A i \in 1 .. Len(r.lines) : lines[i] = r.lines[i]
      BY <2>2, <3>2, <3>6
    <3>8. CASE Len(r.lines) = 0
      <4>1. r.lines = <<>>
        BY <2>2, <3>8
      <4>2. Len(lines) = 1 /\ lines[1] = paid
        BY <3>1, <3>7, <3>8, <4>1
      <4> QED
        BY <2>1, <3>4, <3>5, <4>2 DEF CoveredBy
    <3>9. CASE Len(r.lines) = 1
      <4>1. r.lines # <<>>
        BY <3>9
      <4>2. Len(lines) = 2 /\ lines[2] = awarded /\ lines[1] = r.lines[1]
        BY <3>1, <3>7, <3>9, <4>1
      <4> QED
        BY <2>1, <3>4, <3>5, <3>9, <4>2 DEF CoveredBy
    <3>10. PICK n0 \in Nat : n0 = Len(r.lines)
      BY <2>2
    <3>11. n0 < 2
      BY <2>3, <3>10
    <3>12. n0 = 0 \/ n0 = 1
      BY <3>11
    <3> QED
      BY <3>8, <3>9, <3>10, <3>12
  <2>4. CASE /\ Len(r.lines) = 2 /\ Goto(h, "done")
             /\ result' = [result EXCEPT ![h].code = 200, ![h].seen = gauge]
    <3>1. PICK s : s = [r EXCEPT !.code = 200, !.seen = gauge]
      OBVIOUS
    <3>2. s.before = r.before /\ s.lines = r.lines
      BY <2>2, <3>1 DEF Fields
    <3>3. result'[h] = s /\ pc'[h] = "done"
      BY <1>1, <1>6, <2>4, <3>1 DEF Goto
    <3> QED
      BY <2>1, <2>4, <3>2, <3>3 DEF CoveredBy
  <2> QED
    BY <1>6, <1>13, <2>3, <2>4 DEF WriteMetrics
<1>14. CASE Reply(h)
  BY <1>1, <1>14 DEF Reply, Goto
<1> QED
  BY <1>7, <1>8, <1>9, <1>10, <1>11, <1>12, <1>13, <1>14 DEF Steps

(* No step breaks it.                                                      *)
LEMMA CoveredStep ==
  ASSUME Typed, Typed', ToldCounted, AllCovered, [Next]_vars PROVE AllCovered'
<1> SUFFICES ASSUME NEW g \in Handlers PROVE Covers(g)'
  BY DEF AllCovered
<1>2. ASSUME NEW h \in Handlers, Steps(h) PROVE Covers(g)'
  <2>2. Covers(g) /\ Covers(h)
    BY DEF AllCovered
  <2>3. Covers(h)'
    BY <1>2, <2>2, CoversOwn
  <2>4. CASE g # h
    <3>1. Same(g)
      BY <1>2, <2>4, OneMoves
    <3>2. PICK r : r = result[g] /\ r \in Results
      BY DEF Typed
    <3>3. PICK paid \in Nat, awarded \in Nat :
            paid = metrics["payments"] /\ awarded = metrics["awarded"]
      BY DEF Typed, Counters
    <3>4. PICK more \in Nat, longer \in Nat :
            more = metrics'["payments"] /\ longer = metrics'["awarded"]
      BY DEF Typed, Counters
    <3>5. paid <= more /\ awarded <= longer
      <4>1. "payments" \in Followed /\ "awarded" \in Followed
        BY DEF Followed, Counters
      <4>2. /\ metrics'["payments"] >= metrics["payments"]
            /\ metrics'["awarded"] >= metrics["awarded"]
        BY <1>2, <4>1, MetricsGrow
      <4> QED
        BY <3>3, <3>4, <4>2
    <3> SUFFICES ASSUME Scraping(g)', pc'[g] # "idle"
                 PROVE  CoveredBy(pc'[g], result'[g], more, longer)
      BY <3>4, CoversIs
    <3>6. Scraping(g) /\ pc[g] # "idle" /\ pc'[g] = pc[g] /\ result'[g] = r
      BY <3>1, <3>2 DEF Same, Scraping
    <3>7. CoveredBy(pc[g], r, paid, awarded)
      BY <2>2, <3>2, <3>3, <3>6, CoversIs
    <3> QED
      BY <3>2, <3>5, <3>6, <3>7, CoveredByMore
  <2> QED
    BY <2>3, <2>4
<1>3. CASE Restart
  BY <1>3 DEF Restart, Covers
<1>4. CASE UNCHANGED vars
  BY <1>4 DEF vars, process, AllCovered, Covers, Scraping
<1> QED
  BY <1>2, <1>3, <1>4 DEF Next, Steps, Refuses

(* A payment that was answered before a scrape came in is in the scrape    *)
(* with its award, whatever other handlers count in between, and whatever  *)
(* failed or panicked before (metrics.go: RecordEarn, WritePrometheus: one *)
(* atomic operation per counter).                                          *)
THEOREM ScrapesCoverAnswers == Spec => []ScrapeCoversAnswered
<1>1. Init => AllCovered
  BY DEF Init, AllCovered, Covers
<1>2. Typed /\ Typed' /\ ToldCounted /\ AllCovered /\ [Next]_vars => AllCovered'
  BY CoveredStep
<1>3. Typed /\ Typed' /\ ToldCounted /\ [Next]_vars => ToldCounted'
  BY ToldStep
<1>4. ASSUME Typed, Follows, AllCovered PROVE ScrapeCoversAnswered
  <2> SUFFICES ASSUME NEW h \in Handlers, pc[h] = "done", call[h] = [op |-> "scrape"],
                      result[h].code = 200
               PROVE  /\ result[h].lines[1] \in result[h].before.payments .. Truth.payments
                      /\ result[h].lines[2] \in result[h].before.awarded .. Truth.awarded
    BY DEF ScrapeCoversAnswered
  <2>1. PICK r : r = result[h] /\ r \in Results
    BY <1>4 DEF Typed
  <2>2. CoveredBy("done", r, metrics["payments"], metrics["awarded"])
    BY <1>4, <2>1, CoversIs DEF AllCovered, Scraping
  <2>3. /\ r.before.payments \in Int /\ r.before.awarded \in Int
        /\ r.lines \in Seq(Nat) /\ Len(r.lines) = 2
    BY <2>1, <2>2, ToFields DEF FieldsOK, Scrapes, CoveredBy
  <2>4. r.lines[1] \in Nat /\ r.lines[2] \in Nat
    BY <2>3
  <2>5. "payments" \in Followed /\ "awarded" \in Followed
    BY DEF Followed, Counters
  <2>6. /\ metrics["payments"] + Pending("payments") <= Truth["payments"]
        /\ metrics["awarded"] + Pending("awarded") <= Truth["awarded"]
    BY <1>4, <2>5 DEF Follows
  <2>7. /\ metrics["payments"] \in Nat /\ metrics["awarded"] \in Nat
        /\ Truth["payments"] \in Nat /\ Truth["awarded"] \in Nat
    BY <1>4, <2>5, TruthTypes DEF Typed, Followed
  <2>8. Pending("payments") \in Nat /\ Pending("awarded") \in Nat
    BY <1>4, PendingIsNat
  <2>9. /\ metrics["payments"] <= Truth["payments"]
        /\ metrics["awarded"] <= Truth["awarded"]
    BY <2>6, <2>7, <2>8
  <2>10. /\ r.before.payments <= r.lines[1] /\ r.lines[1] <= Truth["payments"]
         /\ r.before.awarded <= r.lines[2] /\ r.lines[2] <= Truth["awarded"]
    BY <2>2, <2>3, <2>4, <2>7, <2>9 DEF CoveredBy
  <2> QED
    BY <2>1, <2>3, <2>4, <2>7, <2>10
<1> QED
  BY <1>1, <1>2, <1>3, <1>4, ToldInit, TypedAlways, FollowsAlways, PTL DEF Spec

=============================================================================
