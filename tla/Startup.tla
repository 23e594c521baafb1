------------------------------- MODULE Startup -------------------------------
(***************************************************************************)
(* The life of the server processes (cmd/server/main.go) around one        *)
(* database: configuration, the pool, store.Migrate with the one migration *)
(* there is, serving, and the graceful shutdown.  Replicas start whenever  *)
(* they like, each with the environment it is given.                       *)
(*                                                                         *)
(* Migrate checks before it writes and takes no lock of its own.  What     *)
(* keeps two migrators apart is PostgreSQL: creating a table somebody else *)
(* is creating waits for that transaction and fails if it commits, and so  *)
(* does inserting a version.  The tables of the migration are created by   *)
(* one transaction, so they are one object here.                           *)
(***************************************************************************)
EXTENDS Integers

CONSTANTS
  Replicas,
  Settings,     \* values of CAMPAIGN_TOTAL_BUDGET in the environment
  DefaultBudget,\* 10_000_000 in config.go
  SeedBudget,   \* 10,000,000 in 0001_init.sql
  NoRow,        \* campaign_budget before it is seeded
  MaxOpen,      \* bound: requests in progress in one replica
  MaxFailures   \* bound: failed statements, crashes, lost answers

ASSUME StartupAssumption ==
  /\ DefaultBudget \in Nat \ {0}
  /\ SeedBudget \in Nat
  /\ NoRow \notin Nat
  /\ MaxOpen \in Nat
  /\ MaxFailures \in Nat

VARIABLES
  versionTable,  \* schema_migrations exists
  recorded,      \* it has the row of 0001_init.sql
  tables,        \* the tables of 0001_init.sql exist
  budget,        \* campaign_budget.remaining
  configured,    \* each process's Config.CampaignTotalBudget, 0 without one
  pc,            \* what each process does
  wrote,         \* what its migration transaction has not committed yet
  open,          \* its requests that are inside a transaction
  failures

database == <<versionTable, recorded, tables, budget>>
vars == <<database, configured, pc, wrote, open, failures>>

Parts == {"tables", "seed", "version"}

Starting ==
  {"connect", "create", "creating", "check", "begin", "build", "seed", "record",
   "commit", "listen"}

Up == {"serving", "draining", "closing"}

TypeOK ==
  /\ versionTable \in BOOLEAN
  /\ recorded \in BOOLEAN
  /\ tables \in BOOLEAN
  /\ budget \in Nat \cup {NoRow}
  /\ configured \in [Replicas -> Nat]
  /\ pc \in [Replicas -> {"down"} \cup Starting \cup Up]
  /\ wrote \in [Replicas -> SUBSET Parts]
  /\ open \in [Replicas -> Nat]
  /\ failures \in 0 .. MaxFailures

Init ==
  /\ versionTable = FALSE
  /\ recorded = FALSE
  /\ tables = FALSE
  /\ budget = NoRow
  /\ configured = [r \in Replicas |-> 0]
  /\ pc = [r \in Replicas |-> "down"]
  /\ wrote = [r \in Replicas |-> {}]
  /\ open = [r \in Replicas |-> 0]
  /\ failures = 0

-----------------------------------------------------------------------------
Goto(r, label) == pc' = [pc EXCEPT ![r] = label]

Write(r, part) == wrote' = [wrote EXCEPT ![r] = @ \cup {part}]

(* An object another transaction has written and not committed is waited   *)
(* for.                                                                    *)
Free(r, part) == \A s \in Replicas \ {r} : part \notin wrote[s]

At(r, label) == pc[r] = label /\ UNCHANGED <<open, failures>>

Proceed(r, label) == Goto(r, label) /\ UNCHANGED configured

End(r) == Goto(r, "down") /\ configured' = [configured EXCEPT ![r] = 0]

(* run returns an error: the process ends, its transaction is rolled back. *)
Abort(r) ==
  /\ End(r)
  /\ wrote' = [wrote EXCEPT ![r] = {}]

(* Mutant: what the comment in config.go says, the configured budget.      *)
SeededByConfig(r) == configured[r]

(* The row of 0001_init.sql, whoever applies it.                           *)
SeededBy(r) == SeedBudget

(* What is unset or not a number is the default.                           *)
getenvInt64(v, def) == IF v \in Int THEN v ELSE def

(* config.Load: a total budget that is not positive ends the process.      *)
Start(r) ==
  /\ pc[r] = "down"
  /\ \E v \in Settings :
       /\ getenvInt64(v, DefaultBudget) > 0
       /\ configured' = [configured EXCEPT ![r] = getenvInt64(v, DefaultBudget)]
  /\ Goto(r, "connect")
  /\ UNCHANGED <<database, wrote, open, failures>>

(* NewPool, with its ping.                                                 *)
Connect(r) ==
  /\ At(r, "connect")
  /\ Proceed(r, "create")
  /\ UNCHANGED <<database, wrote>>

(* CREATE TABLE IF NOT EXISTS schema_migrations looks for the table ...    *)
LookForVersions(r) ==
  /\ At(r, "create")
  /\ Proceed(r, IF versionTable THEN "check" ELSE "creating")
  /\ UNCHANGED <<database, wrote>>

(* ... and creates it, or fails when somebody did meanwhile.               *)
CreateVersions(r) ==
  /\ At(r, "creating")
  /\ \/ ~versionTable /\ Proceed(r, "check") /\ UNCHANGED wrote
     \/ versionTable /\ Abort(r)
  /\ versionTable' = TRUE
  /\ UNCHANGED <<recorded, tables, budget>>

(* Mutant: any version table will do.                                      *)
CheckTable(r) ==
  /\ At(r, "check")
  /\ Proceed(r, IF versionTable THEN "listen" ELSE "begin")
  /\ UNCHANGED <<database, wrote>>

(* SELECT EXISTS(... WHERE version = $1).                                  *)
Check(r) ==
  /\ At(r, "check")
  /\ Proceed(r, IF recorded THEN "listen" ELSE "begin")
  /\ UNCHANGED <<database, wrote>>

(* Begin, and the look of the first CREATE TABLE IF NOT EXISTS.            *)
LookForTables(r) ==
  /\ At(r, "begin")
  /\ Proceed(r, IF tables THEN "seed" ELSE "build")
  /\ UNCHANGED <<database, wrote>>

(* Mutant: sent to the pool and not to the transaction.                    *)
BuildOutsideTx(r) ==
  /\ At(r, "build")
  /\ ~tables
  /\ Proceed(r, "seed")
  /\ tables' = TRUE
  /\ UNCHANGED <<versionTable, recorded, budget, wrote>>

Build(r) ==
  /\ At(r, "build")
  /\ Free(r, "tables")
  /\ \/ ~tables /\ Write(r, "tables") /\ Proceed(r, "seed")
     \/ tables /\ Abort(r)
  /\ UNCHANGED database

(* Mutant: ON CONFLICT DO UPDATE, sent to the pool.                        *)
SeedAgain(r) ==
  /\ At(r, "seed")
  /\ Free(r, "seed")
  /\ budget' = SeedBudget
  /\ Proceed(r, "record")
  /\ UNCHANGED <<versionTable, recorded, tables, wrote>>

(* INSERT INTO campaign_budget ... ON CONFLICT DO NOTHING.                 *)
Seed(r) ==
  /\ At(r, "seed")
  /\ Free(r, "seed")
  /\ \/ budget = NoRow /\ Write(r, "seed")
     \/ budget # NoRow /\ UNCHANGED wrote
  /\ Proceed(r, "record")
  /\ UNCHANGED database

(* INSERT INTO schema_migrations, whose key is the version.                *)
Record(r) ==
  /\ At(r, "record")
  /\ Free(r, "version")
  /\ \/ ~recorded /\ Write(r, "version") /\ Proceed(r, "commit")
     \/ recorded /\ Abort(r)
  /\ UNCHANGED database

(* Mutant: no Commit.                                                      *)
CommitForgotten(r) ==
  /\ At(r, "commit")
  /\ Proceed(r, "listen")
  /\ UNCHANGED <<database, wrote>>

(* COMMIT; when its answer is lost the process ends although it took       *)
(* effect.                                                                 *)
Commit(r) ==
  /\ pc[r] = "commit"
  /\ tables' = (tables \/ "tables" \in wrote[r])
  /\ recorded' = (recorded \/ "version" \in wrote[r])
  /\ budget' = IF "seed" \in wrote[r] THEN SeededBy(r) ELSE budget
  /\ wrote' = [wrote EXCEPT ![r] = {}]
  /\ \/ Proceed(r, "listen") /\ UNCHANGED failures
     \/ /\ failures < MaxFailures
        /\ failures' = failures + 1
        /\ End(r)
  /\ UNCHANGED <<versionTable, open>>

Listen(r) ==
  /\ At(r, "listen")
  /\ Proceed(r, "serving")
  /\ UNCHANGED <<database, wrote>>

-----------------------------------------------------------------------------
(* A request begins its transaction.                                       *)
Accept(r) ==
  /\ pc[r] = "serving"
  /\ open[r] < MaxOpen
  /\ open' = [open EXCEPT ![r] = @ + 1]
  /\ UNCHANGED <<database, configured, pc, wrote, failures>>

(* Mutant: a payment without an award keeps its connection.                *)
FinishLeaking(r) ==
  /\ open[r] > 0
  /\ budget # NoRow
  /\ \/ /\ budget > 0
        /\ budget' = budget - 1
        /\ open' = [open EXCEPT ![r] = @ - 1]
     \/ budget = 0 /\ UNCHANGED <<budget, open>>
  /\ UNCHANGED <<versionTable, recorded, tables, configured, pc, wrote, failures>>

(* Mutant: the award does not look at what remains.                        *)
FinishUnguarded(r) ==
  /\ open[r] > 0
  /\ open' = [open EXCEPT ![r] = @ - 1]
  /\ budget # NoRow /\ budget' = budget - 1
  /\ UNCHANGED <<versionTable, recorded, tables, configured, pc, wrote, failures>>

(* A transaction ends, with an award of one unit or with none, also while  *)
(* the process is shutting down.                                           *)
Finish(r) ==
  /\ open[r] > 0
  /\ open' = [open EXCEPT ![r] = @ - 1]
  /\ \/ UNCHANGED budget
     \/ budget # NoRow /\ budget > 0 /\ budget' = budget - 1
  /\ UNCHANGED <<versionTable, recorded, tables, configured, pc, wrote, failures>>

(* SIGTERM: the server stops accepting.                                    *)
Signal(r) ==
  /\ At(r, "serving")
  /\ Proceed(r, "draining")
  /\ UNCHANGED <<database, wrote>>

(* The listener fails while the process serves: run returns, and closing   *)
(* the pool takes no new transaction and waits for those that are open.    *)
ListenError(r) ==
  /\ At(r, "serving")
  /\ Proceed(r, "closing")
  /\ UNCHANGED <<database, wrote>>

(* srv.Shutdown gives up on the requests after SHUTDOWN_TIMEOUT.           *)
ShutdownTimeout(r) ==
  /\ At(r, "draining")
  /\ open[r] > 0
  /\ Proceed(r, "closing")
  /\ UNCHANGED <<database, wrote>>

(* The deferred pool.Close returns once every connection is back.          *)
Exit(r) ==
  /\ pc[r] \in {"draining", "closing"}
  /\ open[r] = 0
  /\ End(r)
  /\ UNCHANGED <<database, wrote, open, failures>>

-----------------------------------------------------------------------------
(* A statement of Migrate, the pool or the listener fails, or a signal     *)
(* cancels the context they run under.                                     *)
Fail(r) ==
  /\ pc[r] \in Starting
  /\ failures < MaxFailures
  /\ failures' = failures + 1
  /\ Abort(r)
  /\ UNCHANGED <<database, open>>

(* The process dies.                                                       *)
Kill(r) ==
  /\ pc[r] # "down"
  /\ failures < MaxFailures
  /\ failures' = failures + 1
  /\ Abort(r)
  /\ open' = [open EXCEPT ![r] = 0]
  /\ UNCHANGED database

(* PostgreSQL restarts: migrators fail, servers lose their transactions.   *)
DatabaseRestart ==
  /\ failures < MaxFailures
  /\ failures' = failures + 1
  /\ LET ends(r) == pc[r] \in Starting \ {"connect", "listen"}
     IN  /\ pc' = [r \in Replicas |-> IF ends(r) THEN "down" ELSE pc[r]]
         /\ configured' = [r \in Replicas |-> IF ends(r) THEN 0 ELSE configured[r]]
  /\ wrote' = [r \in Replicas |-> {}]
  /\ open' = [r \in Replicas |-> 0]
  /\ UNCHANGED database

Migrate(r) ==
  \/ Connect(r)
  \/ LookForVersions(r)
  \/ CreateVersions(r)
  \/ Check(r)
  \/ LookForTables(r)
  \/ Build(r)
  \/ Seed(r)
  \/ Record(r)
  \/ Commit(r)
  \/ Listen(r)

Shutdown(r) ==
  \/ ShutdownTimeout(r)
  \/ Exit(r)

Next ==
  \/ \E r \in Replicas :
       \/ Start(r)
       \/ Migrate(r)
       \/ Accept(r)
       \/ Finish(r)
       \/ Signal(r)
       \/ ListenError(r)
       \/ Shutdown(r)
       \/ Fail(r)
       \/ Kill(r)
  \/ DatabaseRestart

Spec == Init /\ [][Next]_vars

(* A process runs on, and so do its requests and its timer.  Nothing makes *)
(* a process start, stop or fail.                                          *)
Fairness ==
  \A r \in Replicas : WF_vars(Migrate(r)) /\ WF_vars(Finish(r)) /\ WF_vars(Shutdown(r))

FairSpec == Spec /\ Fairness

-----------------------------------------------------------------------------
(* Migrate: "each file runs inside its own transaction and is recorded":   *)
(* whatever fails and whoever races, the tables, their seed and their      *)
(* version appear together.                                                *)
AppliedIffRecorded == tables = recorded /\ (tables <=> budget # NoRow)

(* A replica that got past Migrate, first or as the one who found the work *)
(* done, serves on a complete schema; the ones that lost the race do not   *)
(* serve.                                                                  *)
ServesMigrated ==
  \A r \in Replicas : pc[r] \in Up \cup {"listen"} => tables /\ recorded

(* All of it is one atomic migration and servers that spend, the serving   *)
(* replicas being those past Listen: the campaign starts once, with the    *)
(* budget of 0001_init.sql, whichever replica gets there and whatever      *)
(* CAMPAIGN_TOTAL_BUDGET it was given.                                     *)
M == INSTANCE Migration WITH
       applied <- tables /\ recorded,
       serving <- {r \in Replicas : pc[r] \in Up}

MigrationSpec == M!Spec

(* config.go: "Once seeded, the database row is the source of truth".  No  *)
(* later start, whatever its configuration and however it races or fails,  *)
(* gives spent budget back.                                                *)
SeededOnce ==
  [][budget # NoRow => budget' # NoRow /\ budget' <= budget]_vars

(* A replica that starts ends up serving or gone: migrators do not wait    *)
(* for each other for ever.                                                *)
StartupEnds == \A r \in Replicas : pc[r] \in Starting ~> pc[r] \in {"serving", "down"}

(* A replica told to stop stops, with its requests or by its timeout, and  *)
(* so does one whose listener failed: closing the pool does not wait for a *)
(* connection nobody gives back.                                           *)
ShutdownEnds ==
  \A r \in Replicas : pc[r] \in {"draining", "closing"} ~> pc[r] = "down"
=============================================================================
