---------------------------- MODULE MobileProofs ----------------------------
(***************************************************************************)
(* What the app may say and show: a notice about a write is true, and the  *)
(* screen is one user's balance beside that user's latest entries, however *)
(* refreshes, answers, failures and other clients interleave.              *)
(*                                                                         *)
(* The app only moves the tables as Campaign does, so what is proved there *)
(* holds here; the rest is about what a write, an answer and a refresh     *)
(* know of the tables.                                                     *)
(***************************************************************************)
EXTENDS Mobile, CampaignProofs

-----------------------------------------------------------------------------
(* One page of the history.                                                *)

(* The newest entries are no more than the limit; an entry left out is     *)
(* older than all of them, and then the page is full.                      *)
LEMMA NewestIsPage ==
  ASSUME NEW S, IsFiniteSet(S), \A e \in S : e.id \in Nat,
         \A e, f \in S : e.id = f.id => e = f
  PROVE  /\ Newest(S) \subseteq S
         /\ Cardinality(Newest(S)) \in Nat /\ Cardinality(Newest(S)) <= PageLimit
         /\ \A e \in S \ Newest(S) :
              Cardinality(Newest(S)) = PageLimit /\ \A f \in Newest(S) : e.id < f.id
<1> DEFINE above(e) == {f \in S : f.id > e.id}
           below(e) == {f \in S : f.id < e.id}
           N == Newest(S)
<1>1. PageLimit \in Nat \ {0}
  BY MobileAssumption
<1>2. N = {e \in S : Cardinality(above(e)) < PageLimit}
  BY DEF Newest
<1>3. N \subseteq S /\ IsFiniteSet(N) /\ Cardinality(N) \in Nat
  BY <1>2, FS_Subset, FS_CardinalityType
<1>4. \A e \in S : IsFiniteSet(above(e)) /\ Cardinality(above(e)) \in Nat
  BY FS_Subset, FS_CardinalityType
<1>5. Cardinality(N) <= PageLimit
  <2>1. CASE N = {}
    BY <1>1, <2>1, FS_EmptySet
  <2>2. CASE N # {}
    <3> DEFINE T == {below(e) : e \in N}
    <3>1. T \subseteq SUBSET S /\ T # {}
      BY <2>2
    <3>2. PICK s \in T : \A r \in T : r \subseteq s => r = s
      <4> HIDE DEF T
      <4> QED
        BY <3>1, SmallestSubset
    <3>3. PICK e \in N : s = below(e)
      OBVIOUS
    <3>4. ASSUME NEW f \in N
          PROVE  f \in {e} \cup above(e)
      <4>1. CASE f.id < e.id
        <5>1. below(f) \in T /\ below(f) \subseteq s
          BY <1>3, <3>3, <4>1
        <5>2. f \in below(e) /\ f \notin below(f)
          BY <1>3, <4>1
        <5> QED
          BY <3>2, <3>3, <5>1, <5>2
      <4>2. CASE f.id >= e.id
        BY <1>3, <4>2
      <4> QED
        BY <1>3, <4>1, <4>2
    <3>5. e \in S /\ e \notin above(e) /\ Cardinality(above(e)) < PageLimit
      BY <1>2, <1>3
    <3>6. Cardinality(above(e) \cup {e}) = Cardinality(above(e)) + 1
      <4> HIDE DEF above
      <4> QED
        BY <1>4, <3>5, FS_AddElement
    <3>7. Cardinality(N) <= Cardinality(above(e) \cup {e})
      <4>1. N \subseteq above(e) \cup {e}
        BY <3>4
      <4>2. IsFiniteSet(above(e) \cup {e})
        <5> HIDE DEF above
        <5> QED
          BY <1>4, <3>5, FS_AddElement
      <4> HIDE DEF above, N
      <4> QED
        BY <4>1, <4>2, FS_Subset
    <3> HIDE DEF above, N
    <3> QED
      BY <1>1, <1>3, <1>4, <3>5, <3>6, <3>7
  <2> QED
    BY <2>1, <2>2
<1>6. ASSUME NEW e \in S \ N, NEW f \in N
      PROVE  e.id < f.id
  <2>1. f \in S /\ Cardinality(above(f)) < PageLimit
    BY <1>2
  <2>2. ~(Cardinality(above(e)) < PageLimit)
    BY <1>2, <1>6
  <2> SUFFICES ASSUME ~(e.id < f.id) PROVE FALSE
    OBVIOUS
  <2>3. above(e) \subseteq above(f)
    BY <2>1
  <2>4. Cardinality(above(e)) <= Cardinality(above(f))
    <3> HIDE DEF above
    <3> QED
      BY <1>4, <2>1, <2>3, FS_Subset
  <2> HIDE DEF above
  <2> QED
    BY <1>1, <1>4, <2>1, <2>2, <2>4
<1>7. ASSUME S \ N # {}
      PROVE  Cardinality(N) = PageLimit
  <2> DEFINE T == {above(e) : e \in S \ N}
  <2>1. T \subseteq SUBSET S /\ T # {}
    <3>1. PICK x \in S \ N : TRUE
      BY <1>7
    <3>2. above(x) \in T
      OBVIOUS
    <3> QED
      BY <3>2
  <2>2. PICK s \in T : \A r \in T : r \subseteq s => r = s
    <3> HIDE DEF T
    <3> QED
      BY <2>1, SmallestSubset
  <2>3. PICK e \in S \ N : s = above(e)
    OBVIOUS
  <2>4. ASSUME NEW f \in above(e)
        PROVE  f \in N
    <3> SUFFICES ASSUME f \notin N PROVE FALSE
      OBVIOUS
    <3>1. f \in S /\ f.id > e.id
      OBVIOUS
    <3>2. above(f) \in T /\ above(f) \subseteq s
      BY <2>3, <3>1
    <3>3. f \in above(e) /\ f \notin above(f)
      BY <3>1
    <3> QED
      BY <2>2, <2>3, <3>2, <3>3
  <2>5. ~(Cardinality(above(e)) < PageLimit)
    BY <1>2
  <2>6. Cardinality(above(e)) <= Cardinality(N)
    <3>1. above(e) \subseteq N
      BY <2>4
    <3> HIDE DEF above, N
    <3> QED
      BY <1>3, <3>1, FS_Subset
  <2>7. Cardinality(above(e)) \in Nat
    BY <1>4
  <2> HIDE DEF above, N
  <2> QED
    BY <1>1, <1>3, <1>5, <2>5, <2>6, <2>7
<1> QED
  BY <1>3, <1>5, <1>6, <1>7

-----------------------------------------------------------------------------
(* The tables under the app.                                               *)

(* Only a write that is processed, or one of another client, changes the   *)
(* tables.                                                                 *)
LEMMA OnlyWritesMoveTables ==
  ASSUME Next, ~(\E w \in requests : Process(w)), ~Elsewhere
  PROVE  UNCHANGED tables
<1>1. CASE Reload \/ ChangeUser
  BY <1>1 DEF Reload, ChangeUser
<1>2. CASE \E i \in Refreshes : FetchBalance(i) \/ FetchHistory(i) \/ Show(i) \/ LoadFails(i)
  BY <1>2 DEF FetchBalance, FetchHistory, Show, LoadFails, EndRefresh
<1>3. CASE Tap \/ TapAgain
  BY <1>3 DEF Tap, TapAgain, Send
<1>4. CASE DeliverOk \/ DeliverError \/ Break
  BY <1>4 DEF DeliverOk, Delivered, DeliverError, Break, WriteFailed
<1> QED
  BY <1>1, <1>2, <1>3, <1>4 DEF Next

(* Whatever the app, the network and other clients do is at most one       *)
(* operation of the campaign.                                              *)
LEMMA TablesMove ==
  ASSUME TypeOK, [Next]_vars
  PROVE  [CampaignNext]_tables
<1>1. CASE UNCHANGED tables
  BY <1>1
<1>2. ASSUME NEW w \in requests, Process(w), ~UNCHANGED tables
      PROVE  CampaignNext
  <2>1. w \in Writes
    BY DEF TypeOK
  <2>2. CASE w.op = "pay"
    <3>1. w.user \in Users /\ w.key \in Keys /\ w.amount \in PayAmounts
      BY <2>1, <2>2 DEF Writes
    <3>2. \E d \in Days : Pay(w.user, w.key, w.amount, d)
      BY <1>2, <2>2 DEF Process
    <3> QED
      BY <3>1, <3>2 DEF CampaignNext
  <2>3. CASE w.op = "redeem"
    <3>1. w.user \in Users /\ w.key \in Keys /\ w.amount \in RedeemAmounts
      BY <2>1, <2>3 DEF Writes
    <3>2. RedeemCash(w.user, w.key, w.amount)
      BY <1>2, <2>3 DEF Process
    <3> QED
      BY <3>1, <3>2 DEF CampaignNext
  <2> QED
    BY <1>2, <2>2, <2>3 DEF Process
<1>3. CASE Elsewhere
  BY <1>3 DEF Elsewhere, CampaignNext
<1>4. ASSUME Next, ~(\E w \in requests : Process(w)), ~Elsewhere
      PROVE  UNCHANGED tables
  BY <1>4, OnlyWritesMoveTables
<1>5. CASE UNCHANGED vars
  BY <1>5 DEF vars, tables
<1> QED
  BY <1>1, <1>2, <1>3, <1>4, <1>5

(* The tables as Campaign knows them, with finitely many rows.             *)
TablesInv == CampaignInv /\ LatestIsBalance /\ TablesFinite

(* All of that is kept by a step.                                          *)
LEMMA TablesInvStep ==
  ASSUME TypeOK, TablesInv, [Next]_vars
  PROVE  TablesInv'
  BY TablesMove, CampaignInvStep, LatestStep, FiniteStep DEF TablesInv, CampaignInv

(* Empty tables satisfy it.                                                *)
LEMMA TablesInvInit == Init => TablesInv
<1> SUFFICES ASSUME Init PROVE TablesInv
  OBVIOUS
<1>1. CampaignInit
  BY DEF Init
<1>2. TablesFinite
  BY <1>1, FS_EmptySet DEF CampaignInit, TablesFinite
<1> QED
  BY <1>1, <1>2, CampaignInvInit, LatestInit DEF TablesInv

(* What is new in a user's history is newer than all that was there.       *)
LEMMA NewEntriesAreNewer ==
  ASSUME TablesOK, [CampaignNext]_tables, NEW u,
         NEW e \in LedgerOf(u)', e \notin LedgerOf(u), NEW f \in LedgerOf(u)
  PROVE  f.id < e.id
<1>1. ASSUME NEW v, NEW type, NEW a, NEW after, NEW k, PostEntry(v, type, a, after, k)
      PROVE  f.id < e.id
  <2>1. PICK n : /\ ledger' = ledger \cup {n} /\ n.user = v
                 /\ \A g \in LedgerOf(v) : g.id < n.id
    BY <1>1, PostedEntry
  <2>2. e = n /\ u = v
    BY <2>1 DEF LedgerOf
  <2> QED
    BY <2>1, <2>2
<1>2. ledger' # ledger
  BY DEF LedgerOf
<1>3. PICK v \in Users, k \in Keys :
        \/ \E a \in PayAmounts, d \in Days : Pay(v, k, a, d)
        \/ \E a \in RedeemAmounts : RedeemCash(v, k, a)
  BY <1>2 DEF CampaignNext, tables
<1> QED
  BY <1>1, <1>2, <1>3 DEF Pay, RedeemCash

-----------------------------------------------------------------------------
(* Types.                                                                  *)

Fetching == refreshing \in [Refreshes -> {Nothing} \cup Fetched]

(* A write has its answer first and its refresh, for its own user, after.  *)
InOrder ==
  /\ answer # Nothing => write # Nothing /\ refreshing[Own] = Nothing
  /\ refreshing[Own] # Nothing => write # Nothing /\ refreshing[Own].user = write.user

(* The types, with the tables' own invariant: what every lemma below needs.*)
Typed == TypeOK /\ TablesInv /\ InOrder

(* The app starts well typed.                                              *)
LEMMA TypedInit == Init => Typed
<1> SUFFICES ASSUME Init PROVE Typed
  OBVIOUS
<1>1. TablesInv
  BY TablesInvInit
<1>2. TablesOK
  BY <1>1 DEF TablesInv, CampaignInv
<1>3. \A i \in Refreshes : refreshing[i] = Nothing \/ refreshing[i] = Begun(userId)
  BY DEF Init
<1>4. userId \in Users
  BY MobileAssumption DEF Init
<1>5. Begun(userId) \in Fetched
  BY <1>4 DEF Begun, Fetched
<1>6. Fetching
  BY <1>3, <1>5 DEF Init, Fetching
<1>7. notice \in Notices
  BY DEF Init, Notices
<1>8. \A i \in Refreshes : refreshing[i] = Nothing \/ refreshing[i].history = Unread
  BY <1>3, <1>4 DEF Begun
<1>9. write = Nothing /\ answer = Nothing /\ loading = FALSE /\ refreshing[Own] = Nothing
  BY MobileAssumption DEF Init
<1>10. screen.balance \in Nat /\ screen.history \subseteq ledger
  BY DEF Init
<1>11. /\ requests \subseteq Writes /\ used \subseteq Keys /\ intents \subseteq SUBSET Writes
       /\ losses \in 0 .. MaxLosses /\ elsewhere \in 0 .. MaxElsewhere
  BY MobileAssumption DEF Init
<1>12. TypeOK
  BY <1>2, <1>4, <1>6, <1>7, <1>8, <1>9, <1>10, <1>11, Zenon DEF TypeOK, Fetching
<1> QED
  BY <1>1, <1>9, <1>12 DEF Typed, InOrder

(* Entries a refresh or the screen has stay in the ledger.                 *)
LEMMA LedgerOfGrows ==
  ASSUME TypeOK, [Next]_vars
  PROVE  ledger \subseteq ledger' /\ \A u : LedgerOf(u) \subseteq LedgerOf(u)'
  BY TablesMove, RowsGrow DEF TypeOK, LedgerOf

(* The page of a user is made of entries of that user.                     *)
LEMMA PageOfUser ==
  ASSUME TablesInv, NEW u
  PROVE  /\ Page(u) \subseteq LedgerOf(u)
         /\ Cardinality(Page(u)) <= PageLimit
         /\ \A e \in LedgerOf(u) \ Page(u) :
              Cardinality(Page(u)) = PageLimit /\ \A f \in Page(u) : e.id < f.id
<1>1. IsFiniteSet(LedgerOf(u))
  BY FS_Subset DEF TablesInv, TablesFinite, LedgerOf
<1>2. \A e \in LedgerOf(u) : e.id \in Nat
  BY LedgerIdAssumption DEF TablesInv, CampaignInv, TablesOK, LedgerEntry, LedgerOf
<1>3. \A e, f \in LedgerOf(u) : e.id = f.id => e = f
  BY DEF TablesInv, CampaignInv, OncePerKey, LedgerOf
<1> QED
  BY <1>1, <1>2, <1>3, NewestIsPage DEF Page

(* What a step does to the refreshes: each goes on, ends or begins, and    *)
(* reads what the tables hold.                                             *)
LEMMA RefreshMoves ==
  ASSUME Typed, [Next]_vars, NEW i \in Refreshes
  PROVE  \/ refreshing'[i] = refreshing[i]
         \/ refreshing'[i] = Nothing
         \/ \E u \in Users : refreshing'[i] = Begun(u)
         \/ /\ UNCHANGED <<tables, write>> /\ refreshing[i] # Nothing
            /\ \/ refreshing'[i] =
                     [refreshing[i] EXCEPT !.balance = balance[refreshing[i].user]]
               \/ refreshing'[i] =
                     [refreshing[i] EXCEPT !.history = Page(refreshing[i].user)]
<1> USE DEF Typed
<1>1. ASSUME NEW j \in Refreshes, NEW f, Refresh(j, f)
      PROVE  refreshing'[i] = IF i = j THEN f ELSE refreshing[i]
  BY <1>1 DEF Refresh, TypeOK
<1>2. userId \in Users /\ (answer # Nothing => write.user \in Users)
  BY DEF TypeOK, Writes, InOrder
<1>3. CASE Reload \/ ChangeUser
  BY <1>1, <1>2, <1>3 DEF Reload, ChangeUser, RefreshFor
<1>4. ASSUME NEW j \in Refreshes, FetchBalance(j)
      PROVE  \/ refreshing'[i] = refreshing[i]
             \/ /\ refreshing[i] # Nothing
                /\ refreshing'[i] =
                     [refreshing[i] EXCEPT !.balance = balance[refreshing[i].user]]
  BY <1>1, <1>4 DEF FetchBalance
<1>5. ASSUME NEW j \in Refreshes, FetchHistory(j)
      PROVE  \/ refreshing'[i] = refreshing[i]
             \/ /\ refreshing[i] # Nothing
                /\ refreshing'[i] =
                     [refreshing[i] EXCEPT !.history = Page(refreshing[i].user)]
  BY <1>1, <1>5 DEF FetchHistory
<1>6. ASSUME NEW j \in Refreshes, FetchBalance(j) \/ FetchHistory(j)
      PROVE  UNCHANGED <<tables, write>>
  BY <1>6 DEF FetchBalance, FetchHistory
<1>7. ASSUME NEW j \in Refreshes, Show(j) \/ LoadFails(j)
      PROVE  refreshing'[i] = refreshing[i] \/ refreshing'[i] = Nothing
  BY <1>1, <1>7 DEF Show, LoadFails, EndRefresh
<1>8. CASE Tap \/ TapAgain \/ DeliverError \/ Break \/ Elsewhere
           \/ (\E w \in requests : Process(w))
  BY <1>8 DEF Tap, TapAgain, Send, DeliverError, WriteFailed, Break, Elsewhere, Process
<1>9. CASE DeliverOk
  BY <1>1, <1>2, <1>9, MobileAssumption DEF DeliverOk
<1>10. CASE UNCHANGED vars
  BY <1>10 DEF vars
<1> QED
  BY <1>3, <1>4, <1>5, <1>6, <1>7, <1>8, <1>9, <1>10 DEF Next

(* A step leaves refreshing a function of the refreshes.                   *)
LEMMA RefreshesStayAFunction ==
  ASSUME TypeOK, [Next]_vars
  PROVE  refreshing' = [i \in Refreshes |-> refreshing'[i]]
<1>1. CASE UNCHANGED refreshing
  BY <1>1 DEF TypeOK
<1>2. ASSUME NEW j \in Refreshes, NEW f, Refresh(j, f)
      PROVE  refreshing' = [i \in Refreshes |-> refreshing'[i]]
  BY <1>2 DEF Refresh, TypeOK
<1>3. CASE Reload \/ ChangeUser
  BY <1>2, <1>3 DEF Reload, ChangeUser, RefreshFor
<1>4. CASE \E i \in Refreshes : FetchBalance(i) \/ FetchHistory(i) \/ Show(i) \/ LoadFails(i)
  BY <1>2, <1>4 DEF FetchBalance, FetchHistory, Show, LoadFails, EndRefresh
<1>5. CASE Tap \/ TapAgain \/ DeliverError \/ Break \/ Elsewhere
           \/ (\E w \in requests : Process(w))
  BY <1>1, <1>5
     DEF Tap, TapAgain, Send, DeliverError, WriteFailed, Break, Elsewhere, Process
<1>6. CASE DeliverOk
  BY <1>2, <1>6, MobileAssumption DEF DeliverOk
<1>7. CASE UNCHANGED vars
  BY <1>1, <1>7 DEF vars
<1> QED
  BY <1>3, <1>4, <1>5, <1>6, <1>7 DEF Next

(* A refresh as TypeOK has it.                                             *)
RefreshOK(i) ==
  \/ refreshing[i] = Nothing
  \/ refreshing[i].history = Unread
  \/ refreshing[i].history \subseteq LedgerOf(refreshing[i].user)

(* The refreshes stay well typed.                                          *)
LEMMA FetchingStep ==
  ASSUME Typed, [Next]_vars
  PROVE  Fetching' /\ \A i \in Refreshes : RefreshOK(i)'
<1> DEFINE Good(r) ==
             \/ r = Nothing
             \/ /\ r \in Fetched
                /\ \/ r.history = Unread
                   \/ \A e \in r.history : e \in ledger' /\ e.user = r.user
<1>1. ASSUME NEW i \in Refreshes
      PROVE  Good(refreshing'[i])
  <2>1. ledger \subseteq ledger'
    BY LedgerOfGrows DEF Typed
  <2>2. refreshing[i] \in {Nothing} \cup Fetched
    BY DEF Typed, TypeOK
  <2>3. PICK r : r = refreshing[i]
    OBVIOUS
  <2>4. Good(r)
    <3>1. r # Nothing /\ r.history # Unread => r.history \subseteq LedgerOf(r.user)
      BY <2>3 DEF Typed, TypeOK
    <3> QED
      BY <2>1, <2>2, <2>3, <3>1 DEF LedgerOf
  <2>5. CASE refreshing'[i] = r \/ refreshing'[i] = Nothing
    BY <2>4, <2>5
  <2>6. ASSUME NEW u \in Users, refreshing'[i] = Begun(u)
        PROVE  Good(refreshing'[i])
    BY <2>6 DEF Begun, Fetched
  <2>7. CASE r # Nothing /\ refreshing'[i] = [r EXCEPT !.balance = balance[r.user]]
    <3>1. balance[r.user] \in Nat
      BY <2>4, <2>7 DEF Fetched, Typed, TypeOK, TablesOK
    <3>2. /\ refreshing'[i] \in Fetched
          /\ refreshing'[i].history = r.history /\ refreshing'[i].user = r.user
      BY <2>4, <2>7, <3>1 DEF Fetched
    <3> QED
      BY <2>4, <2>7, <3>2
  <2>8. CASE r # Nothing /\ refreshing'[i] = [r EXCEPT !.history = Page(r.user)]
    <3>1. Page(r.user) \subseteq LedgerOf(r.user) /\ LedgerOf(r.user) \subseteq LedgerEntry
      BY PageOfUser DEF Typed, TypeOK, TablesOK, LedgerOf
    <3>2. /\ refreshing'[i] \in Fetched
          /\ refreshing'[i].history = Page(r.user) /\ refreshing'[i].user = r.user
      BY <2>4, <2>8, <3>1 DEF Fetched
    <3> QED
      BY <2>1, <3>1, <3>2 DEF LedgerOf
  <2> QED
    BY <2>3, <2>5, <2>6, <2>7, <2>8, RefreshMoves
<1>2. Fetching'
  <2>1. refreshing' = [i \in Refreshes |-> refreshing'[i]]
    BY RefreshesStayAFunction DEF Typed
  <2>2. \A i \in Refreshes : refreshing'[i] \in {Nothing} \cup Fetched
    BY <1>1
  <2> QED
    BY <2>1, <2>2 DEF Fetching
<1> QED
  BY <1>1, <1>2 DEF Fetched, RefreshOK, LedgerOf

(* A second tap sends what failed, under a fresh key.                      *)
LEMMA TapAgainSends ==
  ASSUME TypeOK, TapAgain
  PROVE  \E w \in Writes :
           Send(w) /\ w.key \notin used /\ intents' \subseteq SUBSET Writes
<1>1. PICK sent \in intents, k \in Keys \ used :
        LET w == [notice.write EXCEPT !.key = k]
        IN  /\ notice.write \in sent
            /\ Send(w)
            /\ intents' = (intents \ {sent}) \cup {sent \cup {w}}
  BY DEF TapAgain
<1>2. PICK v \in Writes : v = notice.write
  BY <1>1 DEF TypeOK
<1>3. PICK w : w = [v EXCEPT !.key = k]
  OBVIOUS
<1>4. w \in Writes /\ w.key = k
  BY <1>3 DEF Writes
<1>5. Send(w) /\ intents' = (intents \ {sent}) \cup {sent \cup {w}}
  BY <1>1, <1>2, <1>3
<1>6. intents' \subseteq SUBSET Writes
  BY <1>4, <1>5 DEF TypeOK
<1> QED
  BY <1>4, <1>5, <1>6

(* The tables have the write, with that cashback: what a notice says.      *)
Recorded(w, cashback) ==
  IF w.op = "pay"
  THEN \E p \in PaymentRows(w.user, w.key) :
         p.amount = w.amount /\ p.cashback_awarded = cashback
  ELSE \E r \in RedemptionRows(w.user, w.key) : r.amount = w.amount

(* A row under the key of the write w is the row of w.                     *)
RowIsOf(w) ==
  /\ w.op = "pay" => \A p \in PaymentRows(w.user, w.key) : p.amount = w.amount
  /\ w.op = "redeem" => \A r \in RedemptionRows(w.user, w.key) : r.amount = w.amount

(* The writes on their way and the one the app waits for.                  *)
Sent == requests \cup ({write} \ {Nothing})

RowsAsSent == \A w \in Sent : RowIsOf(w)

(* An answer is given to the write that waits for one, and an "ok" with    *)
(* what its row says, be it new or found.                                  *)
LEMMA AnswersAreTold ==
  ASSUME TypeOK, NEW w \in requests, Process(w), RowIsOf(w)
  PROVE  \/ answer' = answer
         \/ /\ w = write /\ answer = Nothing /\ refreshing[Own] = Nothing
            /\ \E ok \in BOOLEAN, cashback \in Nat :
                 /\ answer' = [ok |-> ok, cashback |-> cashback]
                 /\ ok => Recorded(w, cashback)'
<1> SUFFICES ASSUME answer' # answer
             PROVE  /\ w = write /\ answer = Nothing /\ refreshing[Own] = Nothing
                    /\ \E ok \in BOOLEAN, cashback \in Nat :
                         /\ answer' = [ok |-> ok, cashback |-> cashback]
                         /\ ok => Recorded(w, cashback)'
  OBVIOUS
<1>1. ASSUME NEW ok \in BOOLEAN, NEW cashback \in Nat, Reply(w, ok, cashback),
             ok => Recorded(w, cashback)'
      PROVE  /\ w = write /\ answer = Nothing /\ refreshing[Own] = Nothing
             /\ \E o \in BOOLEAN, c \in Nat :
                  /\ answer' = [ok |-> o, cashback |-> c]
                  /\ o => Recorded(w, c)'
  <2>1. /\ w = write /\ answer = Nothing /\ refreshing[Own] = Nothing
        /\ answer' = [ok |-> ok, cashback |-> cashback]
    BY <1>1, Zenon DEF Reply
  <2> QED
    BY <1>1, <2>1
<1>2. w \in Writes
  BY DEF TypeOK
<1>3. CASE w.op = "pay"
  <2>1. w.user \in Users /\ w.key \in Keys /\ w.amount \in PayAmounts
    BY <1>2, <1>3 DEF Writes
  <2>2. ASSUME NEW d \in Days, Pay(w.user, w.key, w.amount, d),
               Reply(w, TRUE, AwardFor(w.user, w.amount, d))
        PROVE  \E c \in Nat : Reply(w, TRUE, c) /\ Recorded(w, c)'
    <3>1. PICK p : /\ payments' = payments \cup {p}
                   /\ p.user = w.user /\ p.key = w.key /\ p.amount = w.amount
                   /\ p.cashback_awarded = AwardFor(w.user, w.amount, d)
      BY <2>2, PaidRow
    <3>2. AwardFor(w.user, w.amount, d) \in Nat
      BY <2>1, AwardIsNat DEF TypeOK
    <3> QED
      BY <1>3, <2>2, <3>1, <3>2 DEF Recorded, PaymentRows
  <2>3. ASSUME NEW p \in PaymentRows(w.user, w.key), UNCHANGED tables,
               Reply(w, TRUE, p.cashback_awarded)
        PROVE  \E c \in Nat : Reply(w, TRUE, c) /\ Recorded(w, c)'
    <3>1. p.cashback_awarded \in Nat /\ p \in payments
      BY DEF TypeOK, TablesOK, Payment, PaymentRows
    <3>2. p.amount = w.amount
      BY <1>3 DEF RowIsOf
    <3>3. p \in PaymentRows(w.user, w.key)'
      BY <2>3 DEF PaymentRows, tables
    <3> QED
      BY <1>3, <2>3, <3>1, <3>2, <3>3 DEF Recorded
  <2>4. \E c \in Nat : Reply(w, TRUE, c) /\ Recorded(w, c)'
    BY <1>3, <2>2, <2>3 DEF Process
  <2> QED
    BY <1>1, <2>4
<1>4. CASE w.op = "redeem"
  <2>1. ASSUME RedeemCash(w.user, w.key, w.amount)
        PROVE  Recorded(w, 0)'
    BY <1>4, <2>1, RedeemedRow DEF Recorded, RedemptionRows
  <2>2. ASSUME RedemptionRows(w.user, w.key) # {}, UNCHANGED tables
        PROVE  Recorded(w, 0)'
    BY <1>4, <2>2 DEF Recorded, RowIsOf, RedemptionRows, tables
  <2>3. \/ Reply(w, TRUE, 0) /\ Recorded(w, 0)'
        \/ Reply(w, FALSE, 0)
    BY <1>4, <2>1, <2>2 DEF Process
  <2> QED
    BY <1>1, <2>3
<1> QED
  BY <1>2, <1>3, <1>4 DEF Writes

(* The buttons are off exactly while a write waits.                        *)
LEMMA LoadingStep ==
  ASSUME Typed, [Next]_vars
  PROVE  loading' = (write' # Nothing)
<1>1. loading = (write # Nothing)
  BY DEF Typed, TypeOK
<1>2. CASE UNCHANGED <<write, loading>>
  BY <1>1, <1>2, Zenon
<1>3. ASSUME write' = Nothing, loading' = FALSE
      PROVE  loading' = (write' # Nothing)
  BY <1>3
<1>4. ASSUME NEW w \in Writes, Send(w)
      PROVE  loading' = (write' # Nothing)
  BY <1>4, NothingAssumption DEF Send
<1>5. ASSUME NEW i \in Refreshes, EndRefresh(i)
      PROVE  loading' = (write' # Nothing)
  BY <1>2, <1>3, <1>5, Zenon DEF EndRefresh
<1>6. CASE Tap
  BY <1>4, <1>6, Zenon DEF Tap
<1>7. CASE TapAgain
  BY <1>4, <1>7, TapAgainSends DEF Typed
<1>8. CASE Reload \/ ChangeUser \/ DeliverOk \/ Elsewhere
           \/ (\E w \in requests : Process(w)) \/ UNCHANGED vars
  BY <1>2, <1>8, Zenon DEF Reload, ChangeUser, DeliverOk, Delivered, Elsewhere, Process, vars
<1>9. ASSUME NEW i \in Refreshes, FetchBalance(i) \/ FetchHistory(i) \/ Show(i) \/ LoadFails(i)
      PROVE  loading' = (write' # Nothing)
  BY <1>2, <1>5, <1>9, Zenon DEF FetchBalance, FetchHistory, Show, LoadFails
<1>10. CASE DeliverError \/ Break
  BY <1>3, <1>10, Zenon DEF DeliverError, Break, WriteFailed
<1> QED
  BY <1>6, <1>7, <1>8, <1>9, <1>10 DEF Next

(* All other variables stay well typed.                                    *)
LEMMA TypedStep == ASSUME Typed, RowsAsSent, [Next]_vars PROVE TypeOK'
<1>1. TablesOK'
  BY TablesInvStep DEF Typed, TablesInv, CampaignInv
<1>2. ledger \subseteq ledger'
  BY LedgerOfGrows DEF Typed
<1> DEFINE
      App == /\ userId \in Users
             /\ write \in Writes \cup {Nothing}
             /\ notice \in Notices
             /\ screen.balance \in Nat /\ screen.history \subseteq ledger
      Net == /\ requests \subseteq Writes
             /\ answer \in Answers \cup {Nothing}
             /\ used \subseteq Keys
             /\ intents \subseteq SUBSET Writes
      Bounds == losses \in 0 .. MaxLosses /\ elsewhere \in 0 .. MaxElsewhere
<1>3. App /\ Net /\ Bounds
  BY DEF Typed, TypeOK
<1>4. App' /\ Net' /\ Bounds' => TypeOK'
  BY <1>1, FetchingStep, LoadingStep, Zenon DEF TypeOK, RefreshOK, Fetching
<1>5. ASSUME Reload \/ ChangeUser
      PROVE  App' /\ Net' /\ Bounds'
  BY <1>2, <1>3, <1>5 DEF Reload, ChangeUser, network, history
<1>6. ASSUME NEW i \in Refreshes, FetchBalance(i) \/ FetchHistory(i)
      PROVE  App' /\ Net' /\ Bounds'
  BY <1>2, <1>3, <1>6 DEF FetchBalance, FetchHistory, network, history
<1>7. ASSUME NEW i \in Refreshes, Show(i)
      PROVE  App' /\ Net' /\ Bounds'
  <2>1. RefreshOK(i) /\ refreshing[i] \in Fetched /\ ledger' = ledger
    BY <1>7 DEF Typed, TypeOK, RefreshOK, Show, EndRefresh, tables
  <2>2. screen'.balance \in Nat /\ screen'.history \subseteq ledger'
    BY <1>7, <2>1 DEF RefreshOK, Show, LedgerOf, Fetched
  <2> QED
    BY <1>3, <1>7, <2>2 DEF Show, EndRefresh, network, history
<1>8. ASSUME NEW i \in Refreshes, LoadFails(i)
      PROVE  App' /\ Net' /\ Bounds'
  BY <1>2, <1>3, <1>8, MobileAssumption DEF LoadFails, EndRefresh, Say, Notices, network, history
<1>9. ASSUME NEW w \in Writes, Send(w), intents' \subseteq SUBSET Writes
      PROVE  App' /\ Net' /\ Bounds'
  <2>1. w.key \in Keys
    BY DEF Writes
  <2> QED
    BY <1>2, <1>3, <1>9, <2>1 DEF Send, Say, Notices
<1>10. ASSUME Tap
       PROVE  App' /\ Net' /\ Bounds'
  BY <1>3, <1>9, <1>10 DEF Tap
<1>11. ASSUME TapAgain
       PROVE  App' /\ Net' /\ Bounds'
  BY <1>3, <1>9, <1>11, TapAgainSends DEF Typed
<1>12. ASSUME NEW w \in requests, Process(w)
       PROVE  App' /\ Net' /\ Bounds'
  <2>1. answer' \in Answers \cup {Nothing}
    BY <1>3, <1>12, AnswersAreTold DEF Answers, Typed, RowsAsSent, Sent
  <2>2. requests' \subseteq requests /\ losses' \in 0 .. MaxLosses
    BY <1>3, <1>12, MobileAssumption DEF Process
  <2> QED
    BY <1>2, <1>3, <1>12, <2>1, <2>2 DEF Process, history
<1>13. ASSUME DeliverOk
       PROVE  App' /\ Net' /\ Bounds'
  BY <1>2, <1>3, <1>13 DEF DeliverOk, Delivered, Say, Notices, Answers, history
<1>14. ASSUME DeliverError
       PROVE  App' /\ Net' /\ Bounds'
  BY <1>2, <1>3, <1>14 DEF DeliverError, WriteFailed, Say, Notices, history
<1>15. ASSUME Break
       PROVE  App' /\ Net' /\ Bounds'
  BY <1>2, <1>3, <1>15, MobileAssumption DEF Break, WriteFailed, Say, Notices, history
<1>16. ASSUME Elsewhere
       PROVE  App' /\ Net' /\ Bounds'
  BY <1>2, <1>3, <1>16, MobileAssumption DEF Elsewhere, network
<1>17. ASSUME UNCHANGED vars
       PROVE  App' /\ Net' /\ Bounds'
  BY <1>2, <1>3, <1>17 DEF vars, network, history
<1> QED
  BY <1>4, <1>5, <1>6, <1>7, <1>8, <1>10, <1>11, <1>12, <1>13, <1>14, <1>15, <1>16, <1>17
     DEF Next

-----------------------------------------------------------------------------
(* Writes and their keys.                                                  *)

(* Every key in a row or a write has been generated, ...                   *)
KeysUsed ==
  /\ \A p \in payments : p.key \in used
  /\ \A r \in redemptions : r.key \in used
  /\ \A w \in Sent : w.key \in used

(* ... and for one write only.                                             *)
KeyPerWrite == \A v, w \in Sent : v.key = w.key => v = w

(* What a step sends: nothing new, or one write under a fresh key.         *)
LEMMA SendsFresh ==
  ASSUME Typed, RowsAsSent, [Next]_vars
  PROVE  /\ used \subseteq used'
         /\ \/ Sent' \subseteq Sent
            \/ \E w \in Writes :
                 /\ w.key \notin used /\ w.key \in used'
                 /\ Sent' \subseteq Sent \cup {w}
                 /\ UNCHANGED tables
<1> USE DEF Sent
<1>1. ASSUME NEW w \in Writes, Send(w), w.key \notin used
      PROVE  /\ used \subseteq used'
             /\ w.key \in used' /\ Sent' \subseteq Sent \cup {w} /\ UNCHANGED tables
  BY <1>1 DEF Send
<1>2. CASE Tap
  BY <1>1, <1>2 DEF Tap
<1>3. CASE TapAgain
  BY <1>1, <1>3, TapAgainSends DEF Typed
<1>4. CASE UNCHANGED <<requests, write, used>>
  BY <1>4
<1>5. CASE Reload \/ ChangeUser \/ DeliverOk \/ UNCHANGED vars
  BY <1>4, <1>5 DEF Reload, ChangeUser, DeliverOk, Delivered, vars, network, history
<1>6. ASSUME NEW i \in Refreshes, FetchBalance(i) \/ FetchHistory(i) \/ Show(i) \/ LoadFails(i)
      PROVE  UNCHANGED <<requests, used>> /\ (write' = write \/ write' = Nothing)
  BY <1>6 DEF FetchBalance, FetchHistory, Show, LoadFails, EndRefresh, network, history
<1>7. CASE DeliverError \/ Break
  BY <1>7 DEF DeliverError, Break, WriteFailed, history
<1>8. ASSUME NEW w \in requests, Process(w)
      PROVE  used' = used /\ write' = write /\ requests' \subseteq requests
  BY <1>8 DEF Process, history
<1>9. CASE Elsewhere
  BY <1>9 DEF Elsewhere, network
<1> QED
  BY <1>2, <1>3, <1>4, <1>5, <1>6, <1>7, <1>8, <1>9 DEF Next

(* Where a new row comes from: a request under its key, or another client  *)
(* under a fresh one.                                                      *)
LEMMA NewRows ==
  ASSUME Typed, [Next]_vars
  PROVE  /\ \A p \in payments' \ payments :
              \/ p.key \notin used /\ p.key \in used' /\ Sent' = Sent
              \/ \E w \in requests :
                   w.op = "pay" /\ p.user = w.user /\ p.key = w.key /\ p.amount = w.amount
         /\ \A r \in redemptions' \ redemptions :
              \/ r.key \notin used /\ r.key \in used' /\ Sent' = Sent
              \/ \E w \in requests :
                   w.op = "redeem" /\ r.user = w.user /\ r.key = w.key /\ r.amount = w.amount
<1>1. ASSUME NEW u, NEW k, NEW a, NEW d, Pay(u, k, a, d)
      PROVE  /\ \A p \in payments' \ payments : p.user = u /\ p.key = k /\ p.amount = a
             /\ redemptions' = redemptions
  <2>1. PICK p : /\ payments' = payments \cup {p}
                 /\ p.user = u /\ p.key = k /\ p.amount = a
    BY <1>1, PaidRow
  <2> QED
    BY <1>1, <2>1 DEF Pay
<1>2. ASSUME NEW u, NEW k, NEW a, RedeemCash(u, k, a)
      PROVE  /\ \A r \in redemptions' \ redemptions : r.user = u /\ r.key = k /\ r.amount = a
             /\ payments' = payments
  <2>1. PICK r : /\ redemptions' = redemptions \cup {r}
                 /\ r.user = u /\ r.key = k /\ r.amount = a
    BY <1>2, RedeemedRow
  <2> QED
    BY <1>2, <2>1 DEF RedeemCash
<1>3. CASE UNCHANGED tables
  BY <1>3 DEF tables
<1>4. ASSUME NEW w \in requests, Process(w), ~UNCHANGED tables
      PROVE  \/ /\ w.op = "pay" /\ redemptions' = redemptions
                /\ \A p \in payments' \ payments :
                     p.user = w.user /\ p.key = w.key /\ p.amount = w.amount
             \/ /\ w.op = "redeem" /\ payments' = payments
                /\ \A r \in redemptions' \ redemptions :
                     r.user = w.user /\ r.key = w.key /\ r.amount = w.amount
  <2>1. \/ w.op = "pay" /\ \E d \in Days : Pay(w.user, w.key, w.amount, d)
        \/ w.op = "redeem" /\ RedeemCash(w.user, w.key, w.amount)
    BY <1>4 DEF Process
  <2> QED
    BY <1>1, <1>2, <2>1
<1>5. CASE Elsewhere
  <2>1. PICK u \in Users, k \in Keys \ used :
          /\ \/ \E a \in PayAmounts, d \in Days : Pay(u, k, a, d)
             \/ \E a \in RedeemAmounts : RedeemCash(u, k, a)
          /\ used' = used \cup {k}
    BY <1>5 DEF Elsewhere
  <2>2. /\ \A p \in payments' \ payments : p.key = k
        /\ \A r \in redemptions' \ redemptions : r.key = k
    BY <1>1, <1>2, <2>1
  <2>3. Sent' = Sent
    BY <1>5 DEF Elsewhere, network, Sent
  <2> QED
    BY <2>1, <2>2, <2>3
<1>6. ASSUME Next, ~(\E w \in requests : Process(w)), ~Elsewhere
      PROVE  UNCHANGED tables
  BY <1>6, OnlyWritesMoveTables
<1>7. CASE UNCHANGED vars
  BY <1>3, <1>7 DEF vars, tables
<1> QED
  BY <1>3, <1>4, <1>5, <1>6, <1>7

(* Keys stay used, and one write's.                                        *)
LEMMA KeysStep ==
  ASSUME Typed, RowsAsSent, KeysUsed, KeyPerWrite, [Next]_vars
  PROVE  KeysUsed' /\ KeyPerWrite'
<1>1. used \subseteq used'
  BY SendsFresh
<1>2. \A w \in requests : w.key \in used
  BY DEF KeysUsed, Sent
<1>3. \A p \in payments' : p.key \in used'
  BY <1>1, <1>2, NewRows DEF KeysUsed
<1>4. \A r \in redemptions' : r.key \in used'
  BY <1>1, <1>2, NewRows DEF KeysUsed
<1>5. CASE Sent' \subseteq Sent
  BY <1>1, <1>3, <1>4, <1>5 DEF KeysUsed, KeyPerWrite
<1>6. ASSUME NEW w \in Writes, w.key \notin used, w.key \in used',
             Sent' \subseteq Sent \cup {w}
      PROVE  KeysUsed' /\ KeyPerWrite'
  BY <1>1, <1>3, <1>4, <1>6 DEF KeysUsed, KeyPerWrite
<1> QED
  BY <1>5, <1>6, SendsFresh

(* A row under a sent write's key is that write's row: other writes have   *)
(* other keys.                                                             *)
LEMMA RowsAsSentStep ==
  ASSUME Typed, RowsAsSent, KeysUsed, KeyPerWrite, [Next]_vars
  PROVE  RowsAsSent'
<1> SUFFICES ASSUME NEW w \in Sent'
             PROVE  /\ w.op = "pay" =>
                         \A p \in payments' :
                           p.user = w.user /\ p.key = w.key => p.amount = w.amount
                    /\ w.op = "redeem" =>
                         \A r \in redemptions' :
                           r.user = w.user /\ r.key = w.key => r.amount = w.amount
  BY DEF RowsAsSent, RowIsOf, PaymentRows, RedemptionRows
<1>2. CASE w \notin Sent
  <2>1. w.key \notin used /\ UNCHANGED tables
    BY <1>2, SendsFresh
  <2> QED
    BY <2>1 DEF KeysUsed, tables
<1>3. CASE w \in Sent
  <2>1. w.key \in used /\ \A v \in requests : v.key = w.key => v = w
    BY <1>3 DEF KeysUsed, KeyPerWrite, Sent
  <2>2. /\ w.op = "pay" =>
             \A p \in payments :
               p.user = w.user /\ p.key = w.key => p.amount = w.amount
        /\ w.op = "redeem" =>
             \A r \in redemptions :
               r.user = w.user /\ r.key = w.key => r.amount = w.amount
    BY <1>3 DEF RowsAsSent, RowIsOf, PaymentRows, RedemptionRows
  <2>3. \A p \in payments' \ payments : p.key = w.key => p.amount = w.amount
    BY <2>1, NewRows
  <2>4. \A r \in redemptions' \ redemptions : r.key = w.key => r.amount = w.amount
    BY <2>1, NewRows
  <2> QED
    BY <2>2, <2>3, <2>4
<1> QED
  BY <1>2, <1>3

-----------------------------------------------------------------------------
(* The answer, the refresh after it, and the notice.                       *)

(* An "ok" under way, and the refresh it leads to, are about a write the   *)
(* tables have.                                                            *)
AnswerIsTrue ==
  answer # Nothing /\ answer.ok => Recorded(write, answer.cashback)

OwnIsRecorded ==
  refreshing[Own] # Nothing => \E cashback \in Nat : Recorded(write, cashback)

(* What a step does to the write, its answer and its refresh.              *)
LEMMA WriteMoves ==
  ASSUME Typed, RowsAsSent, [Next]_vars
  PROVE  \/ /\ UNCHANGED <<write, answer>>
            /\ refreshing[Own] = Nothing => refreshing'[Own] = Nothing
            /\ refreshing'[Own] # Nothing => refreshing'[Own].user = refreshing[Own].user
         \/ answer' = Nothing /\ refreshing'[Own] = Nothing
         \/ /\ refreshing'[Own] = Nothing /\ write' = write
            /\ write # Nothing
            /\ \E ok \in BOOLEAN, cashback \in Nat :
                 /\ answer' = [ok |-> ok, cashback |-> cashback]
                 /\ ok => Recorded(write, cashback)'
         \/ /\ answer # Nothing /\ answer.ok /\ write' = write /\ answer' = Nothing
            /\ refreshing'[Own] = Begun(write.user) /\ UNCHANGED tables
<1> DEFINE
      Waits == /\ UNCHANGED <<write, answer>>
               /\ refreshing[Own] = Nothing => refreshing'[Own] = Nothing
               /\ refreshing'[Own] # Nothing => refreshing'[Own].user = refreshing[Own].user
      Over  == answer' = Nothing /\ refreshing'[Own] = Nothing
<1>1. Own \in Refreshes /\ DOMAIN refreshing = Refreshes
  BY MobileAssumption DEF Typed, TypeOK
<1>2. refreshing[Own] # Nothing => refreshing[Own] \in Fetched
  BY <1>1 DEF Typed, TypeOK
<1>3. CASE UNCHANGED <<write, answer, refreshing>>
  BY <1>3
<1>4. CASE Reload \/ ChangeUser
  <2>1. PICK j \in Refreshes \ {Own}, u \in Users : Refresh(j, Begun(u))
    BY <1>4 DEF Reload, ChangeUser, RefreshFor, Typed, TypeOK
  <2>2. refreshing'[Own] = refreshing[Own]
    BY <2>1 DEF Refresh, Typed, TypeOK
  <2>3. UNCHANGED <<write, answer>>
    BY <1>4 DEF Reload, ChangeUser, network
  <2> QED
    BY <2>2, <2>3
<1>5. ASSUME NEW i \in Refreshes, FetchBalance(i) \/ FetchHistory(i)
      PROVE  Waits
  <2>1. UNCHANGED <<write, answer>>
    BY <1>5 DEF FetchBalance, FetchHistory, network
  <2>2. CASE i # Own
    <3>1. refreshing'[Own] = refreshing[Own]
      BY <1>1, <1>5, <2>2 DEF FetchBalance, FetchHistory, Refresh
    <3> QED
      BY <2>1, <3>1
  <2>3. CASE i = Own
    <3>1. refreshing[Own] # Nothing
      BY <1>5, <2>3 DEF FetchBalance, FetchHistory
    <3>2. refreshing'[Own].user = refreshing[Own].user
      BY <1>1, <1>2, <1>5, <2>3, <3>1 DEF FetchBalance, FetchHistory, Refresh, Fetched
    <3> QED
      BY <2>1, <3>1, <3>2
  <2> QED
    BY <2>2, <2>3
<1>6. ASSUME NEW i \in Refreshes, Show(i) \/ LoadFails(i)
      PROVE  Waits \/ Over
  <2>1. EndRefresh(i) /\ refreshing[i] # Nothing
    BY <1>6 DEF Show, LoadFails
  <2>2. answer' = answer
    BY <2>1 DEF EndRefresh, network
  <2>3. CASE i # Own
    BY <1>1, <2>1, <2>2, <2>3 DEF EndRefresh, Refresh
  <2>4. CASE i = Own
    BY <1>1, <2>1, <2>2, <2>4 DEF EndRefresh, Refresh, Typed, InOrder
  <2> QED
    BY <2>3, <2>4
<1>7. CASE Tap \/ TapAgain
  <2>1. PICK w : Send(w)
    BY <1>7 DEF Tap, TapAgain
  <2>2. ~(write # Nothing)
    BY <2>1, Zenon DEF Send, Typed, TypeOK
  <2>3. answer = Nothing /\ refreshing[Own] = Nothing
    BY <2>2 DEF Typed, InOrder
  <2> QED
    BY <2>1, <2>3 DEF Send
<1>8. ASSUME NEW w \in requests, Process(w)
      PROVE  \/ Waits
             \/ /\ refreshing'[Own] = Nothing /\ write' = write
                /\ write # Nothing
                /\ \E ok \in BOOLEAN, cashback \in Nat :
                     /\ answer' = [ok |-> ok, cashback |-> cashback]
                     /\ ok => Recorded(write, cashback)'
  <2>1. write' = write /\ refreshing' = refreshing
    BY <1>8 DEF Process
  <2>2. CASE answer' = answer
    BY <2>1, <2>2
  <2>3. CASE answer' # answer
    <3>1. /\ w = write /\ refreshing[Own] = Nothing
          /\ \E ok \in BOOLEAN, cashback \in Nat :
               /\ answer' = [ok |-> ok, cashback |-> cashback]
               /\ ok => Recorded(w, cashback)'
      BY <1>8, <2>3, AnswersAreTold DEF Typed, RowsAsSent, Sent
    <3>2. w # Nothing
      BY NothingAssumption DEF Typed, TypeOK
    <3>3. \A c : Recorded(w, c)' => Recorded(write, c)'
      BY <2>1, <3>1 DEF Recorded, PaymentRows, RedemptionRows
    <3> QED
      BY <2>1, <3>1, <3>2, <3>3
  <2> QED
    BY <2>2, <2>3
<1>9. CASE DeliverOk
  <2>1. refreshing'[Own] = Begun(write.user) /\ answer' = Nothing
    BY <1>1, <1>9 DEF DeliverOk, Delivered, Refresh
  <2> QED
    BY <1>9, <2>1 DEF DeliverOk, Delivered
<1>10. CASE DeliverError
  <2>1. refreshing'[Own] = Nothing
    BY <1>10 DEF DeliverError, WriteFailed, Typed, InOrder
  <2> QED
    BY <1>10, <2>1 DEF DeliverError
<1>11. CASE Break
  BY <1>11 DEF Break, WriteFailed
<1>12. CASE Elsewhere
  BY <1>3, <1>12 DEF Elsewhere, network
<1>13. CASE UNCHANGED vars
  BY <1>3, <1>13 DEF vars, network
<1> QED
  BY <1>4, <1>5, <1>6, <1>7, <1>8, <1>9, <1>10, <1>11, <1>12, <1>13 DEF Next

(* Answer and refresh come in their order.                                 *)
LEMMA InOrderStep ==
  ASSUME Typed, RowsAsSent, [Next]_vars
  PROVE  InOrder'
<1>1. \A u : Begun(u).user = u
  BY DEF Begun
<1> QED
  BY <1>1, WriteMoves DEF Typed, InOrder

(* What the answer and the refresh after it rest on stays recorded.        *)
LEMMA AnswerStep ==
  ASSUME Typed, RowsAsSent, AnswerIsTrue, OwnIsRecorded, [Next]_vars
  PROVE  AnswerIsTrue' /\ OwnIsRecorded'
<1>1. \A c : Recorded(write, c) /\ write' = write => Recorded(write, c)'
  BY TablesMove, RowsGrow DEF Typed, TypeOK, Recorded, PaymentRows, RedemptionRows
<1>2. answer # Nothing => answer.cashback \in Nat
  BY DEF Typed, TypeOK, Answers
<1>3. CASE /\ UNCHANGED <<write, answer>>
           /\ refreshing[Own] = Nothing => refreshing'[Own] = Nothing
  BY <1>1, <1>3 DEF AnswerIsTrue, OwnIsRecorded
<1>4. CASE answer' = Nothing /\ refreshing'[Own] = Nothing
  BY <1>4 DEF AnswerIsTrue, OwnIsRecorded
<1>5. ASSUME refreshing'[Own] = Nothing,
             NEW ok \in BOOLEAN, NEW cashback \in Nat,
             answer' = [ok |-> ok, cashback |-> cashback],
             ok => Recorded(write, cashback)'
      PROVE  AnswerIsTrue' /\ OwnIsRecorded'
  <2>1. answer'.ok = ok /\ answer'.cashback = cashback
    BY <1>5
  <2> QED
    BY <1>5, <2>1, Zenon DEF AnswerIsTrue, OwnIsRecorded
<1>6. CASE answer # Nothing /\ answer.ok /\ write' = write /\ answer' = Nothing
  BY <1>1, <1>2, <1>6 DEF AnswerIsTrue, OwnIsRecorded
<1> QED
  BY <1>3, <1>4, <1>5, <1>6, WriteMoves

(* A notice that says ok is one an answer gave, and stays true.            *)
LEMMA NoticeStep ==
  ASSUME Typed, RowsAsSent, AnswerIsTrue, NoticeIsTrue, [Next]_vars
  PROVE  NoticeIsTrue'
<1> DEFINE Said == notice.type = "ok" => Recorded(notice.write, notice.cashback)
<1>1. Said /\ (Said' => NoticeIsTrue')
  BY DEF NoticeIsTrue, Recorded
<1>2. CASE UNCHANGED notice
  BY <1>1, <1>2, TablesMove, RowsGrow
     DEF Typed, TypeOK, Recorded, PaymentRows, RedemptionRows
<1>3. CASE notice'.type # "ok"
  BY <1>1, <1>3
<1>4. CASE DeliverOk
  <2>1. notice' = [type |-> "ok", write |-> write, cashback |-> answer.cashback]
    BY <1>4 DEF DeliverOk, Say
  <2>2. Recorded(write, answer.cashback) /\ UNCHANGED tables
    BY <1>4 DEF DeliverOk, Delivered, AnswerIsTrue
  <2>3. Said'
    BY <2>1, <2>2 DEF Recorded, PaymentRows, RedemptionRows, tables
  <2> QED
    BY <1>1, <2>3
<1>5. CASE Reload \/ ChangeUser \/ Elsewhere \/ UNCHANGED vars
           \/ (\E w \in requests : Process(w))
  BY <1>2, <1>5 DEF Reload, ChangeUser, Elsewhere, Process, vars
<1>6. ASSUME NEW i \in Refreshes, FetchBalance(i) \/ FetchHistory(i) \/ Show(i) \/ LoadFails(i)
      PROVE  NoticeIsTrue'
  BY <1>2, <1>3, <1>6 DEF FetchBalance, FetchHistory, Show, LoadFails, Say
<1>7. CASE Tap \/ TapAgain \/ DeliverError \/ Break
  BY <1>3, <1>7 DEF Tap, TapAgain, Send, DeliverError, Break, WriteFailed, Say
<1> QED
  BY <1>4, <1>5, <1>6, <1>7 DEF Next

-----------------------------------------------------------------------------
(* What was read and what is shown.                                        *)

HadBalance(b, u) == b \in {0} \cup {e.balance_after : e \in LedgerOf(u)}

(* Each refresh has read a balance its user had and a page the user had.   *)
ReadsWereTrue ==
  \A i \in Refreshes :
    refreshing[i] # Nothing =>
      /\ refreshing[i].balance # Unread => HadBalance(refreshing[i].balance, refreshing[i].user)
      /\ refreshing[i].history # Unread => WasPage(refreshing[i].history, refreshing[i].user)

(* Both stay something the user had: later entries are newer.              *)
LEMMA HadStays ==
  ASSUME Typed, [Next]_vars, NEW u
  PROVE  /\ \A b : HadBalance(b, u) => HadBalance(b, u)'
         /\ \A S : WasPage(S, u) => WasPage(S, u)'
<1>1. LedgerOf(u) \subseteq LedgerOf(u)'
  BY LedgerOfGrows DEF Typed
<1>2. \A e \in LedgerOf(u)', f \in LedgerOf(u) : e \in LedgerOf(u) \/ f.id < e.id
  BY TablesMove, NewEntriesAreNewer DEF Typed, TypeOK
<1>3. \A b : HadBalance(b, u) => HadBalance(b, u)'
  BY <1>1 DEF HadBalance
<1>4. ASSUME NEW S, WasPage(S, u)
      PROVE  WasPage(S, u)'
  <2>1. S \subseteq LedgerOf(u) /\ Cardinality(S) <= PageLimit
    BY <1>4 DEF WasPage
  <2>2. ASSUME NEW e \in LedgerOf(u)' \ S
        PROVE  \/ \A f \in S : f.id < e.id
               \/ Cardinality(S) = PageLimit /\ \A f \in S : e.id < f.id
    BY <1>2, <1>4, <2>1 DEF WasPage
  <2> QED
    BY <1>1, <2>1, <2>2 DEF WasPage
<1> QED
  BY <1>3, <1>4

(* A read takes them from the tables.                                      *)
LEMMA ReadsAreTrue ==
  ASSUME Typed, NEW u \in Users
  PROVE  HadBalance(balance[u], u) /\ WasPage(Page(u), u)
<1>1. HadBalance(balance[u], u)
  BY DEF HadBalance, Typed, TablesInv, LatestIsBalance
<1>2. WasPage(Page(u), u)
  BY PageOfUser DEF WasPage, Typed
<1> QED
  BY <1>1, <1>2

(* Refreshes go on having read what was true.                              *)
LEMMA ReadsStep ==
  ASSUME Typed, RowsAsSent, ReadsWereTrue, [Next]_vars
  PROVE  ReadsWereTrue'
<1> DEFINE True(r) == /\ r.balance # Unread => HadBalance(r.balance, r.user)
                      /\ r.history # Unread => WasPage(r.history, r.user)
<1>1. ASSUME NEW i \in Refreshes, refreshing'[i] # Nothing
      PROVE  /\ refreshing'[i].balance # Unread => HadBalance(refreshing[i].balance, refreshing[i].user)'
             /\ refreshing'[i].history # Unread => WasPage(refreshing[i].history, refreshing[i].user)'
  <2>1. PICK r : r = refreshing[i]
    OBVIOUS
  <2>2. PICK n : n = refreshing'[i]
    OBVIOUS
  <2>3. r \in {Nothing} \cup Fetched /\ (r # Nothing => True(r))
    BY <2>1 DEF Typed, TypeOK, ReadsWereTrue
  <2> HIDE DEF True
  <2>4. \A s : True(s) => True(s)'
    BY HadStays DEF True
  <2>5. True(n)'
    <3>1. CASE n = r
      BY <1>1, <2>2, <2>3, <2>4, <3>1
    <3>2. ASSUME NEW u \in Users, n = Begun(u)
          PROVE  True(n)'
      BY <3>2 DEF Begun, True
    <3>3. CASE UNCHANGED tables /\ r # Nothing /\ n = [r EXCEPT !.balance = balance[r.user]]
      <4>1. /\ n.balance = balance[r.user] /\ n.history = r.history /\ n.user = r.user
            /\ r.user \in Users
        BY <2>3, <3>3 DEF Fetched
      <4>2. True(n)
        BY <2>3, <3>3, <4>1, ReadsAreTrue DEF True
      <4> QED
        BY <2>4, <4>2
    <3>4. CASE UNCHANGED tables /\ r # Nothing /\ n = [r EXCEPT !.history = Page(r.user)]
      <4>1. /\ n.history = Page(r.user) /\ n.balance = r.balance /\ n.user = r.user
            /\ r.user \in Users
        BY <2>3, <3>4 DEF Fetched
      <4>2. True(n)
        BY <2>3, <3>4, <4>1, ReadsAreTrue DEF True
      <4> QED
        BY <2>4, <4>2
    <3> QED
      BY <1>1, <2>1, <2>2, <3>1, <3>2, <3>3, <3>4, RefreshMoves
  <2> QED
    BY <2>2, <2>5 DEF True, HadBalance, WasPage, LedgerOf
<1> QED
  BY <1>1 DEF ReadsWereTrue

(* The screen changes only to what one refresh has read.                   *)
LEMMA ScreenStep ==
  ASSUME Typed, ReadsWereTrue, ScreenWasTrue, [Next]_vars
  PROVE  ScreenWasTrue'
<1>1. CASE UNCHANGED screen
  <2>1. PICK u \in Users : WasPage(screen.history, u) /\ HadBalance(screen.balance, u)
    BY DEF ScreenWasTrue, HadBalance
  <2>2. PICK S, b : S = screen.history /\ b = screen.balance
    OBVIOUS
  <2>3. WasPage(S, u)' /\ HadBalance(b, u)'
    BY <2>1, <2>2, HadStays
  <2> QED
    BY <1>1, <2>2, <2>3 DEF ScreenWasTrue, HadBalance, WasPage, LedgerOf
<1>2. ASSUME NEW i \in Refreshes, Show(i)
      PROVE  ScreenWasTrue'
  <2>1. PICK u \in Users : u = refreshing[i].user
    BY <1>2 DEF Show, Typed, TypeOK, Fetched
  <2>2. PICK S, b : S = refreshing[i].history /\ b = refreshing[i].balance
    OBVIOUS
  <2>3. WasPage(S, u) /\ HadBalance(b, u)
    BY <1>2, <2>1, <2>2 DEF Show, ReadsWereTrue
  <2>4. screen' = [balance |-> b, history |-> S]
    BY <1>2, <2>2 DEF Show
  <2>5. WasPage(S, u)' /\ HadBalance(b, u)'
    BY <2>3, HadStays
  <2> QED
    BY <2>4, <2>5 DEF ScreenWasTrue, HadBalance, WasPage, LedgerOf
<1>3. CASE Reload \/ ChangeUser \/ Elsewhere \/ UNCHANGED vars \/ DeliverOk
           \/ (\E w \in requests : Process(w))
  BY <1>1, <1>3 DEF Reload, ChangeUser, Elsewhere, Process, DeliverOk, Delivered, vars
<1>4. ASSUME NEW i \in Refreshes, FetchBalance(i) \/ FetchHistory(i) \/ LoadFails(i)
      PROVE  ScreenWasTrue'
  BY <1>1, <1>4 DEF FetchBalance, FetchHistory, LoadFails
<1>5. CASE Tap \/ TapAgain \/ DeliverError \/ Break
  BY <1>1, <1>5 DEF Tap, TapAgain, Send, DeliverError, Break, WriteFailed
<1> QED
  BY <1>2, <1>3, <1>4, <1>5 DEF Next

-----------------------------------------------------------------------------
(* The refresh after a write.                                              *)

(* The entry a write led to, if any.                                       *)
EntriesOf(w) ==
  {e \in LedgerOf(w.user) : e.key = w.key /\ (e.entry_type = "EARN" <=> w.op = "pay")}

(* A write that is recorded gets no further entry.                         *)
LEMMA EntriesFixed ==
  ASSUME Typed, [Next]_vars, NEW w \in Writes, NEW c, Recorded(w, c)
  PROVE  EntriesOf(w)' = EntriesOf(w)
<1>1. ASSUME NEW u, NEW type, NEW a, NEW after, NEW k, PostEntry(u, type, a, after, k),
             ~(u = w.user /\ k = w.key /\ (type = "EARN" <=> w.op = "pay"))
      PROVE  EntriesOf(w)' = EntriesOf(w)
  <2>1. PICK n : /\ ledger' = ledger \cup {n}
                 /\ n.user = u /\ n.key = k /\ n.entry_type = type
    BY <1>1, PostedEntry
  <2> QED
    BY <1>1, <2>1 DEF EntriesOf, LedgerOf
<1>2. CASE UNCHANGED ledger
  BY <1>2 DEF EntriesOf, LedgerOf
<1>3. ASSUME NEW u \in Users, NEW k \in Keys, NEW a \in PayAmounts, NEW d \in Days,
             Pay(u, k, a, d)
      PROVE  EntriesOf(w)' = EntriesOf(w)
  <2>1. ~(u = w.user /\ k = w.key /\ w.op = "pay")
    BY <1>3 DEF Pay, Recorded
  <2>2. UNCHANGED ledger
        \/ PostEntry(u, "EARN", AwardFor(u, a, d), balance[u] + AwardFor(u, a, d), k)
    BY <1>3 DEF Pay
  <2> QED
    BY <1>1, <1>2, <2>1, <2>2
<1>4. ASSUME NEW u \in Users, NEW k \in Keys, NEW a \in RedeemAmounts,
             RedeemCash(u, k, a)
      PROVE  EntriesOf(w)' = EntriesOf(w)
  <2>1. ~(u = w.user /\ k = w.key /\ w.op # "pay")
    BY <1>4 DEF RedeemCash, Recorded
  <2>2. PostEntry(u, "REDEEM", a, balance[u] - a, k)
    BY <1>4 DEF RedeemCash
  <2> QED
    BY <1>1, <2>1, <2>2
<1> QED
  BY <1>2, <1>3, <1>4, TablesMove DEF Typed, CampaignNext, tables

(* An entry is on a page, or newer ones fill the page.                     *)
ShownBy(S, e) ==
  \/ e \in S
  \/ Cardinality(S) = PageLimit /\ \A f \in S : f.id > e.id

(* The refresh after a write has the write's entry on its page: the page   *)
(* was read after the write was recorded.                                  *)
OwnHasEntry ==
  refreshing[Own] # Nothing /\ refreshing[Own].history # Unread =>
    \A e \in EntriesOf(write) : ShownBy(refreshing[Own].history, e)

(* It is read with the entry there, and no further entry follows.          *)
LEMMA OwnEntryStep ==
  ASSUME Typed, RowsAsSent, OwnIsRecorded, OwnHasEntry, [Next]_vars
  PROVE  OwnHasEntry'
<1> SUFFICES ASSUME refreshing'[Own] # Nothing, refreshing'[Own].history # Unread
             PROVE  \A e \in EntriesOf(write)' : ShownBy(refreshing'[Own].history, e)
  BY DEF OwnHasEntry, ShownBy
<1>1. Own \in Refreshes
  BY MobileAssumption
<1>2. refreshing'[Own] # Begun(write.user) /\ \A u \in Users : refreshing'[Own] # Begun(u)
  BY DEF Begun
<1>3. /\ write' = write
      /\ refreshing[Own] # Nothing
  BY <1>2, WriteMoves
<1>4. write \in Writes /\ \E c \in Nat : Recorded(write, c)
  BY <1>3 DEF OwnIsRecorded, Typed, TypeOK, InOrder
<1>5. EntriesOf(write)' = EntriesOf(write)
  <2>1. PICK w : w = write
    OBVIOUS
  <2>2. EntriesOf(w)' = EntriesOf(w)
    BY <1>4, <2>1, EntriesFixed
  <2> QED
    BY <1>3, <2>1, <2>2 DEF EntriesOf, LedgerOf
<1>6. refreshing[Own] \in Fetched /\ refreshing[Own].user = write.user
  BY <1>1, <1>3 DEF Typed, TypeOK, InOrder
<1>7. CASE refreshing'[Own] = refreshing[Own]
  BY <1>3, <1>5, <1>7 DEF OwnHasEntry
<1>8. CASE refreshing'[Own] =
             [refreshing[Own] EXCEPT !.balance = balance[refreshing[Own].user]]
  <2>1. refreshing'[Own].history = refreshing[Own].history
    BY <1>6, <1>8 DEF Fetched
  <2> QED
    BY <1>3, <1>5, <2>1 DEF OwnHasEntry
<1>9. CASE refreshing'[Own] =
             [refreshing[Own] EXCEPT !.history = Page(refreshing[Own].user)]
  <2>1. refreshing'[Own].history = Page(write.user)
    BY <1>6, <1>9 DEF Fetched
  <2>2. EntriesOf(write) \subseteq LedgerOf(write.user)
    BY DEF EntriesOf
  <2>3. \A e \in LedgerOf(write.user) : e.id \in Nat
    BY LedgerIdAssumption DEF Typed, TypeOK, TablesOK, LedgerEntry, LedgerOf
  <2>4. \A e \in EntriesOf(write) : ShownBy(Page(write.user), e)
    BY <2>2, <2>3, PageOfUser DEF ShownBy, Typed
  <2> QED
    BY <1>5, <2>1, <2>4
<1> QED
  BY <1>1, <1>2, <1>3, <1>7, <1>8, <1>9, RefreshMoves

-----------------------------------------------------------------------------
(* The app.                                                                *)

(* Everything above as one inductive invariant.                            *)
IInv ==
  /\ Typed
  /\ RowsAsSent /\ KeysUsed /\ KeyPerWrite
  /\ AnswerIsTrue /\ OwnIsRecorded /\ NoticeIsTrue
  /\ ReadsWereTrue /\ ScreenWasTrue /\ OwnHasEntry

(* Nothing sent, nothing read, an empty screen.                            *)
LEMMA AppInit == Init => IInv
<1> SUFFICES ASSUME Init PROVE IInv
  OBVIOUS
<1>1. Typed
  BY TypedInit
<1>2. RowsAsSent /\ KeysUsed /\ KeyPerWrite
  BY DEF Init, CampaignInit, RowsAsSent, KeysUsed, KeyPerWrite, Sent
<1>3. refreshing[Own] = Nothing /\ answer = Nothing
  BY MobileAssumption DEF Init
<1>4. AnswerIsTrue /\ OwnIsRecorded /\ OwnHasEntry
  BY <1>3 DEF AnswerIsTrue, OwnIsRecorded, OwnHasEntry
<1>5. NoticeIsTrue
  BY DEF Init, NoticeIsTrue
<1>6. ReadsWereTrue
  BY DEF Init, ReadsWereTrue, Begun
<1>7. ScreenWasTrue
  <2>1. WasPage({}, DefaultUser)
    BY MobileAssumption, FS_EmptySet DEF Init, CampaignInit, WasPage, LedgerOf
  <2> QED
    BY <2>1, MobileAssumption DEF Init, ScreenWasTrue
<1> QED
  BY <1>1, <1>2, <1>4, <1>5, <1>6, <1>7 DEF IInv

(* Every step of the app, the network and other clients keeps it.          *)
LEMMA AppStep == IInv /\ [Next]_vars => IInv'
<1> SUFFICES ASSUME IInv, [Next]_vars PROVE IInv'
  OBVIOUS
<1>1. TypeOK' /\ TablesInv' /\ InOrder'
  BY TypedStep, TablesInvStep, InOrderStep DEF IInv, Typed
<1>2. RowsAsSent' /\ KeysUsed' /\ KeyPerWrite'
  BY RowsAsSentStep, KeysStep DEF IInv
<1>3. AnswerIsTrue' /\ OwnIsRecorded' /\ NoticeIsTrue'
  BY AnswerStep, NoticeStep DEF IInv
<1>4. ReadsWereTrue' /\ ScreenWasTrue' /\ OwnHasEntry'
  BY ReadsStep, ScreenStep, OwnEntryStep DEF IInv
<1> QED
  BY <1>1, <1>2, <1>3, <1>4 DEF IInv, Typed

(* The invariant always holds, for any users, keys, page limit, number of  *)
(* overlapping refreshes, failures and other clients.                      *)
THEOREM AppInvariance == Spec => []IInv
  BY AppInit, AppStep, PTL DEF Spec

(* The app is always in a typed state: the buttons are off exactly while a *)
(* write waits, and a refresh holds entries of its own user.               *)
THEOREM AppTypes == Spec => []TypeOK
<1>1. IInv => TypeOK
  BY DEF IInv, Typed
<1> QED
  BY <1>1, AppInvariance, PTL

(* "Payment ok, earned ..." is true of the write the user tapped, although *)
(* requests are repeated, answers lost, and other clients write.           *)
THEOREM NoticesAreTrue == Spec => []NoticeIsTrue
<1>1. IInv => NoticeIsTrue
  BY DEF IInv
<1> QED
  BY <1>1, AppInvariance, PTL

(* The screen is one user's: a balance that user had, and that user's      *)
(* latest entries of some moment without a gap.                            *)
THEOREM ScreensWereTrue == Spec => []ScreenWasTrue
<1>1. IInv => ScreenWasTrue
  BY DEF IInv
<1> QED
  BY <1>1, AppInvariance, PTL

(* Without a failure, only Show ends the refresh after a write.            *)
LEMMA OnlyShowEndsOwn ==
  ASSUME Typed, Next,
         refreshing[Own] # Nothing, refreshing'[Own] = Nothing, losses' = losses
  PROVE  Show(Own)
<1>1. Own \in Refreshes /\ refreshing[Own] \in Fetched /\ DOMAIN refreshing = Refreshes
  BY MobileAssumption DEF Typed, TypeOK
<1>2. UNCHANGED refreshing => FALSE
  OBVIOUS
<1>3. ASSUME NEW i \in Refreshes \ {Own}, NEW f, Refresh(i, f)
      PROVE  FALSE
  BY <1>1, <1>3 DEF Refresh
<1>4. ~(Reload \/ ChangeUser)
  BY <1>3 DEF Reload, ChangeUser, RefreshFor
<1>5. ASSUME NEW i \in Refreshes, FetchBalance(i)
      PROVE  FALSE
  <2>1. i = Own
    BY <1>3, <1>5 DEF FetchBalance
  <2>2. refreshing'[Own] = [refreshing[Own] EXCEPT !.balance = balance[refreshing[Own].user]]
    BY <1>1, <1>5, <2>1 DEF FetchBalance, Refresh
  <2>3. balance[refreshing[Own].user] \in Nat
    BY <1>1 DEF Fetched, Typed, TypeOK, TablesOK
  <2>4. refreshing'[Own] \in Fetched
    BY <1>1, <2>2, <2>3 DEF Fetched
  <2> QED
    BY <2>4, NothingAssumption
<1>6. ASSUME NEW i \in Refreshes, FetchHistory(i)
      PROVE  FALSE
  <2>1. i = Own
    BY <1>3, <1>6 DEF FetchHistory
  <2>2. refreshing'[Own] = [refreshing[Own] EXCEPT !.history = Page(refreshing[Own].user)]
    BY <1>1, <1>6, <2>1 DEF FetchHistory, Refresh
  <2>3. Page(refreshing[Own].user) \subseteq LedgerEntry
    BY PageOfUser DEF Typed, TypeOK, TablesOK, LedgerOf
  <2>4. refreshing'[Own] \in Fetched
    BY <1>1, <2>2, <2>3 DEF Fetched
  <2> QED
    BY <2>4, NothingAssumption
<1>7. ASSUME NEW i \in Refreshes, LoadFails(i)
      PROVE  FALSE
  BY <1>7, MobileAssumption DEF LoadFails, Typed, TypeOK
<1>8. ASSUME NEW i \in Refreshes, Show(i)
      PROVE  Show(Own)
  BY <1>3, <1>8 DEF Show, EndRefresh
<1>9. ~DeliverOk
  BY DEF DeliverOk, Typed, InOrder
<1>10. ~(Tap \/ TapAgain \/ DeliverError \/ Break \/ Elsewhere
         \/ (\E w \in requests : Process(w)))
  BY <1>2 DEF Tap, TapAgain, Send, DeliverError, WriteFailed, Break, Elsewhere, Process
<1> QED
  BY <1>4, <1>5, <1>6, <1>7, <1>8, <1>9, <1>10 DEF Next

(* The refresh after a write ends with the write's entry on the screen, or *)
(* with a page of newer ones.                                              *)
THEOREM WritesAreShown == Spec => OwnWriteShown
<1> DEFINE
      Ends == refreshing[Own] # Nothing /\ refreshing'[Own] = Nothing /\ losses' = losses
      Shown == \A e \in LedgerOf(write.user) :
                 e.key = write.key /\ (e.entry_type = "EARN" <=> write.op = "pay")
                   => \/ e \in screen'.history
                      \/ /\ Cardinality(screen'.history) = PageLimit
                         /\ \A f \in screen'.history : f.id > e.id
<1>1. ASSUME IInv, Next, Ends
      PROVE  Shown
  <2>1. Show(Own)
    BY <1>1, OnlyShowEndsOwn DEF IInv
  <2>2. /\ refreshing[Own].history # Unread
        /\ screen'.history = refreshing[Own].history
    BY <2>1 DEF Show
  <2> QED
    BY <1>1, <2>2 DEF IInv, OwnHasEntry, EntriesOf, ShownBy
<1>2. IInv /\ [Next]_vars => [Ends => Shown]_vars
  BY <1>1
<1> QED
  BY <1>2, AppInvariance, PTL DEF Spec, OwnWriteShown
=============================================================================
