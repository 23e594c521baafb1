------------------------------- MODULE Mobile -------------------------------
(***************************************************************************)
(* The mobile app (App.js, src/api.js) and the network between it and the  *)
(* service, over the tables of Campaign.                                   *)
(*                                                                         *)
(* A write is one fetch.  It fails when the network loses the request or   *)
(* the answer; a request the app has given up may still arrive, and one    *)
(* that has arrived may arrive again.  A refresh fetches the campaign, the *)
(* balance and the history, shown together when all have arrived; the      *)
(* campaign only adds to the delay and is left out.  Reload and            *)
(* pull-to-refresh work at any time, and so does the field with the user,  *)
(* so refreshes overlap, also of different users.  Other clients go on     *)
(* writing.                                                                *)
(***************************************************************************)
EXTENDS Campaign

CONSTANTS
  DefaultUser, \* "demo-user"
  PageLimit,   \* the limit the app asks the history with
  Refreshes,   \* bound: refreshes in progress at once
  Own,         \* the one of them a write waits for
  Nothing,     \* no write, no answer, no refresh
  Unread,      \* what a refresh has not fetched yet
  MaxLosses,   \* bound: failed fetches and repeated requests
  MaxElsewhere \* bound: writes of other clients

ASSUME MobileAssumption ==
  /\ DefaultUser \in Users
  /\ PageLimit \in Nat \ {0}
  /\ Own \in Refreshes
  /\ MaxLosses \in Nat
  /\ MaxElsewhere \in Nat

VARIABLES
  userId,     \* the user the app acts for
  write,      \* the write pay or redeem waits for
  loading,    \* disables both buttons
  notice,     \* the message on the screen
  screen,     \* the balance and the history on the screen
  refreshing, \* each refresh in progress: for whom, and what it has read
  requests,   \* writes on their way to the service
  answer,     \* the answer on its way to the app
  used,       \* keys clients have generated
  intents,    \* history: the writes sent for each thing the user wanted once
  losses,
  elsewhere

network == <<requests, answer>>
history == <<used, intents>>
vars == <<tables, userId, write, loading, notice, screen, refreshing, network,
          history, losses, elsewhere>>

Writes ==
  [op: {"pay"}, user: Users, key: Keys, amount: PayAmounts]
    \cup [op: {"redeem"}, user: Users, key: Keys, amount: RedeemAmounts]

Answers == [ok: BOOLEAN, cashback: Nat]

(* A refresh in progress.                                                  *)
Fetched ==
  [user: Users, balance: {Unread} \cup Nat, history: {Unread} \cup SUBSET LedgerEntry]

ASSUME NothingAssumption == Nothing \notin Writes \cup Fetched

(* What the message says, and about which write.                           *)
Notices ==
  [type: {"none", "ok", "failed", "loadFailed"},
   write: Writes \cup {Nothing}, cashback: Nat]

Say(type, w, cashback) ==
  notice' = [type |-> type, write |-> w, cashback |-> cashback]

TypeOK ==
  /\ TablesOK
  /\ userId \in Users
  /\ write \in Writes \cup {Nothing}
  /\ loading = (write # Nothing)
  /\ notice \in Notices
  /\ screen.balance \in Nat /\ screen.history \subseteq ledger
  /\ refreshing \in [Refreshes -> {Nothing} \cup Fetched]
  /\ \A i \in Refreshes :
       \/ refreshing[i] = Nothing
       \/ refreshing[i].history = Unread
       \/ refreshing[i].history \subseteq LedgerOf(refreshing[i].user)
  /\ requests \subseteq Writes
  /\ answer \in Answers \cup {Nothing}
  /\ used \subseteq Keys
  /\ intents \subseteq SUBSET Writes
  /\ losses \in 0 .. MaxLosses
  /\ elsewhere \in 0 .. MaxElsewhere

Begun(u) == [user |-> u, balance |-> Unread, history |-> Unread]

(* The app opens with a refresh (useEffect).                               *)
Init ==
  /\ CampaignInit
  /\ userId = DefaultUser
  /\ write = Nothing
  /\ loading = FALSE
  /\ notice = [type |-> "none", write |-> Nothing, cashback |-> 0]
  /\ screen = [balance |-> 0, history |-> {}]
  /\ refreshing \in {[i \in Refreshes |-> IF i = first THEN Begun(userId) ELSE Nothing] :
                       first \in Refreshes \ {Own}}
  /\ requests = {}
  /\ answer = Nothing
  /\ used = {}
  /\ intents = {}
  /\ losses = 0
  /\ elsewhere = 0

-----------------------------------------------------------------------------
(* refresh().                                                              *)

Refresh(i, fetched) == refreshing' = [refreshing EXCEPT ![i] = fetched]

RefreshFor(u) ==
  \E i \in Refreshes \ {Own} : refreshing[i] = Nothing /\ Refresh(i, Begun(u))

(* Reload, or the list pulled down.                                        *)
Reload ==
  /\ RefreshFor(userId)
  /\ UNCHANGED <<tables, userId, write, loading, notice, screen>>
  /\ UNCHANGED <<network, history, losses, elsewhere>>

(* The user in the field changes, and with it refresh: useEffect runs it.  *)
(* A write in progress keeps its own.                                      *)
ChangeUser ==
  /\ \E u \in Users \ {userId} : userId' = u /\ RefreshFor(u)
  /\ UNCHANGED <<tables, write, loading, notice, screen>>
  /\ UNCHANGED <<network, history, losses, elsewhere>>

(* Mutant: shown without waiting for the other fetches.                    *)
FetchBalanceShown(i) ==
  /\ refreshing[i] # Nothing
  /\ refreshing[i].balance = Unread
  /\ Refresh(i, [refreshing[i] EXCEPT !.balance = balance[refreshing[i].user]])
  /\ screen' = [screen EXCEPT !.balance = balance[refreshing[i].user]]
  /\ UNCHANGED <<tables, userId, write, loading, notice>>
  /\ UNCHANGED <<network, history, losses, elsewhere>>

(* The service reads the balance ...                                       *)
FetchBalance(i) ==
  /\ refreshing[i] # Nothing
  /\ refreshing[i].balance = Unread
  /\ Refresh(i, [refreshing[i] EXCEPT !.balance = balance[refreshing[i].user]])
  /\ UNCHANGED <<tables, userId, write, loading, notice, screen>>
  /\ UNCHANGED <<network, history, losses, elsewhere>>

Newest(S) == {e \in S : Cardinality({f \in S : f.id > e.id}) < PageLimit}

(* Mutant: SELECT without WHERE user_id.                                   *)
PageOfAll(u) == Newest(ledger)

Page(u) == Newest(LedgerOf(u))

(* ... and, before or after, the newest entries of the ledger.             *)
FetchHistory(i) ==
  /\ refreshing[i] # Nothing
  /\ refreshing[i].history = Unread
  /\ Refresh(i, [refreshing[i] EXCEPT !.history = Page(refreshing[i].user)])
  /\ UNCHANGED <<tables, userId, write, loading, notice, screen>>
  /\ UNCHANGED <<network, history, losses, elsewhere>>

(* The refresh is over, and with its own the write (finally).              *)
EndRefresh(i) ==
  /\ Refresh(i, Nothing)
  /\ IF i = Own
     THEN write' = Nothing /\ loading' = FALSE
     ELSE UNCHANGED <<write, loading>>
  /\ UNCHANGED <<tables, userId, network, history, elsewhere>>

(* All of it has arrived and is shown, whoever is the user by now.         *)
Show(i) ==
  /\ refreshing[i] # Nothing
  /\ refreshing[i].balance # Unread /\ refreshing[i].history # Unread
  /\ screen' = [balance |-> refreshing[i].balance, history |-> refreshing[i].history]
  /\ EndRefresh(i)
  /\ UNCHANGED <<notice, losses>>

(* A fetch fails: "Load failed", whatever the notice said before.          *)
LoadFails(i) ==
  /\ refreshing[i] # Nothing
  /\ losses < MaxLosses
  /\ losses' = losses + 1
  /\ Say("loadFailed", Nothing, 0)
  /\ EndRefresh(i)
  /\ UNCHANGED screen

-----------------------------------------------------------------------------
(* pay() and redeem().                                                     *)

Send(w) ==
  /\ ~loading
  /\ loading' = TRUE
  /\ Say("none", Nothing, 0)
  /\ write' = w
  /\ requests' = requests \cup {w}
  /\ used' = used \cup {w.key}
  /\ UNCHANGED <<tables, userId, screen, refreshing, answer, losses, elsewhere>>

(* Mutant: one key for everything the app sends.                           *)
TapOneKey ==
  \E w \in Writes :
    /\ w.user = userId
    /\ w.key = CHOOSE k \in Keys : TRUE
    /\ Send(w)
    /\ intents' = intents \cup {{w}}

(* The user wants something, once.  The key is a fresh uuid().             *)
Tap ==
  \E w \in Writes :
    /\ w.user = userId
    /\ w.key \notin used
    /\ Send(w)
    /\ intents' = intents \cup {{w}}

(* After an error the user taps again for the same thing: a fresh key.     *)
TapAgain ==
  /\ notice.type = "failed" /\ notice.write.user = userId
  /\ \E sent \in intents, k \in Keys \ used :
       LET w == [notice.write EXCEPT !.key = k]
       IN  /\ notice.write \in sent
           /\ Send(w)
           /\ intents' = (intents \ {sent}) \cup {sent \cup {w}}

(* The answer to w, if the app still waits for it.                         *)
Reply(w, ok, cashback) ==
  answer' = IF w = write /\ answer = Nothing /\ refreshing[Own] = Nothing
            THEN [ok |-> ok, cashback |-> cashback]
            ELSE answer

(* The service processes a write: now, as a replay, or it refuses it.  The *)
(* network may bring the same request again.                               *)
Process(w) ==
  /\ w \in requests
  /\ \/ requests' = requests \ {w} /\ UNCHANGED losses
     \/ losses < MaxLosses /\ losses' = losses + 1 /\ UNCHANGED requests
  /\ \/ /\ w.op = "pay"
        /\ \/ \E d \in Days :
                /\ Pay(w.user, w.key, w.amount, d) /\ Dense
                /\ Reply(w, TRUE, AwardFor(w.user, w.amount, d))
           \/ \E p \in PaymentRows(w.user, w.key) :
                UNCHANGED tables /\ Reply(w, TRUE, p.cashback_awarded)
     \/ /\ w.op = "redeem"
        /\ \/ RedeemCash(w.user, w.key, w.amount) /\ Dense /\ Reply(w, TRUE, 0)
           \/ /\ RedemptionRows(w.user, w.key) # {}
              /\ UNCHANGED tables /\ Reply(w, TRUE, 0)
           \/ /\ RedemptionRows(w.user, w.key) = {} /\ balance[w.user] < w.amount
              /\ UNCHANGED tables /\ Reply(w, FALSE, 0)
  /\ UNCHANGED <<userId, write, loading, notice, screen, refreshing, history, elsewhere>>

WriteFailed ==
  /\ Say("failed", write, 0)
  /\ loading' = FALSE
  /\ write' = Nothing
  /\ UNCHANGED <<tables, userId, screen, refreshing, history, elsewhere>>

Delivered ==
  /\ answer' = Nothing
  /\ UNCHANGED <<tables, userId, write, loading, screen>>
  /\ UNCHANGED <<requests, history, losses, elsewhere>>

(* Mutants: a refresh already in progress is joined; no finally.           *)
DeliverJoining ==
  /\ answer # Nothing
  /\ answer.ok
  /\ Say("ok", write, answer.cashback)
  /\ \E i \in Refreshes :
       /\ (\E j \in Refreshes : refreshing[j] # Nothing) => refreshing[i] # Nothing
       /\ Refresh(Own, IF refreshing[i] = Nothing THEN Begun(write.user) ELSE refreshing[i])
  /\ Delivered

DeliverErrorOnly ==
  /\ answer # Nothing
  /\ ~answer.ok
  /\ Say("failed", write, 0)
  /\ UNCHANGED refreshing
  /\ Delivered

(* The answer arrives: what was earned, then a refresh, for the user who   *)
(* tapped; or the error.                                                   *)
DeliverOk ==
  /\ answer # Nothing
  /\ answer.ok
  /\ Say("ok", write, answer.cashback)
  /\ Refresh(Own, Begun(write.user))
  /\ Delivered

DeliverError ==
  /\ answer # Nothing
  /\ ~answer.ok
  /\ WriteFailed
  /\ answer' = Nothing
  /\ UNCHANGED <<requests, losses>>

(* The fetch fails, with the request lost, under way or processed.         *)
Break ==
  /\ write # Nothing
  /\ refreshing[Own] = Nothing
  /\ losses < MaxLosses
  /\ losses' = losses + 1
  /\ WriteFailed
  /\ answer' = Nothing
  /\ requests' \in {requests, requests \ {write}}

(* Somebody else, or the same user on another device.                      *)
Elsewhere ==
  /\ elsewhere < MaxElsewhere
  /\ elsewhere' = elsewhere + 1
  /\ \E u \in Users, k \in Keys \ used :
       /\ \/ \E a \in PayAmounts, d \in Days : Pay(u, k, a, d)
          \/ \E a \in RedeemAmounts : RedeemCash(u, k, a)
       /\ used' = used \cup {k}
  /\ Dense
  /\ UNCHANGED <<userId, write, loading, notice, screen, refreshing>>
  /\ UNCHANGED <<network, intents, losses>>

Next ==
  \/ Reload
  \/ ChangeUser
  \/ \E i \in Refreshes :
       FetchBalance(i) \/ FetchHistory(i) \/ Show(i) \/ LoadFails(i)
  \/ Tap
  \/ TapAgain
  \/ \E w \in requests : Process(w)
  \/ DeliverOk
  \/ DeliverError
  \/ Break
  \/ Elsewhere

Spec == Init /\ [][Next]_vars

(* What has been sent is processed and answered, or fails.  The user, the  *)
(* other clients and the failures are not forced.                          *)
Fairness ==
  /\ WF_vars(\E w \in requests : Process(w))
  /\ WF_vars(DeliverOk \/ DeliverError)
  /\ \A i \in Refreshes : WF_vars(FetchBalance(i) \/ FetchHistory(i) \/ Show(i))

FairSpec == Spec /\ Fairness

-----------------------------------------------------------------------------
(* "Payment ok, earned ..." is about the write the user tapped: the tables *)
(* have it with that amount and that cashback (App.js: setNotice).         *)
NoticeIsTrue ==
  notice.type = "ok" =>
    LET w == notice.write
    IN  IF w.op = "pay"
        THEN \E p \in PaymentRows(w.user, w.key) :
               p.amount = w.amount /\ p.cashback_awarded = notice.cashback
        ELSE \E r \in RedemptionRows(w.user, w.key) : r.amount = w.amount

(* What a read of the ledger for a user gave some time ago.                *)
WasPage(S, u) ==
  /\ S \subseteq LedgerOf(u)
  /\ Cardinality(S) <= PageLimit
  /\ \A e \in LedgerOf(u) \ S :
       \/ \A f \in S : f.id < e.id
       \/ Cardinality(S) = PageLimit /\ \A f \in S : e.id < f.id

(* The balance and the history on the screen are one user's: a balance     *)
(* that user had, beside that user's latest entries without a gap.  Parts  *)
(* of overlapping refreshes, of different users even, are never mixed      *)
(* (App.js: await Promise.all).                                            *)
ScreenWasTrue ==
  \E u \in Users :
    /\ WasPage(screen.history, u)
    /\ screen.balance \in {0} \cup {e.balance_after : e \in LedgerOf(u)}

(* The refresh after a write shows it, whatever other refreshes are under  *)
(* way and whoever the user is by then: when it ends without an error, the *)
(* entry of the write is on the screen, or newer ones fill the page        *)
(* (App.js: await refresh()).                                              *)
OwnWriteShown ==
  [][refreshing[Own] # Nothing /\ refreshing'[Own] = Nothing /\ losses' = losses
       => \A e \in LedgerOf(write.user) :
            e.key = write.key /\ (e.entry_type = "EARN" <=> write.op = "pay")
              => \/ e \in screen'.history
                 \/ /\ Cardinality(screen'.history) = PageLimit
                    /\ \A f \in screen'.history : f.id > e.id]_vars

(* The buttons come back (App.js: finally).                                *)
LoadingEnds == loading ~> ~loading

(* api.js: "every write carries a client-generated idempotency key so      *)
(* retries are safe": what the user wanted once is paid once, however      *)
(* often the user has to tap.                                              *)
RetriesAreSafe ==
  \A sent \in intents :
    Cardinality({p \in payments :
                   \E w \in sent :
                     w.op = "pay" /\ w.user = p.user /\ w.key = p.key}) <= 1
=============================================================================
