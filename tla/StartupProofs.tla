---------------------------- MODULE StartupProofs ----------------------------
(***************************************************************************)
(* The safety of module Startup for any number of replicas and failures,   *)
(* and that it implements module Migration.                                *)
(***************************************************************************)
EXTENDS Startup, TLAPS

(* A migrator has written nothing, or it is the one that created the       *)
(* tables and everything so far.  It gets past Record in that case only.   *)
Progress(r) ==
  /\ pc[r] = "seed" =>
       \/ tables /\ wrote[r] = {}
       \/ ~tables /\ wrote[r] = {"tables"}
  /\ pc[r] = "record" =>
       \/ tables /\ wrote[r] = {}
       \/ ~tables /\ wrote[r] = {"tables", "seed"}
  /\ pc[r] = "commit" => ~tables /\ wrote[r] = Parts
  /\ pc[r] \notin {"seed", "record", "commit"} => wrote[r] = {}

Alone == \A r, s \in Replicas : r # s => wrote[r] = {} \/ wrote[s] = {}

(* Only a server has requests, until it is gone.                           *)
OpenServed == \A r \in Replicas : open[r] > 0 => pc[r] \in Up

IInv ==
  /\ TypeOK
  /\ AppliedIffRecorded
  /\ ServesMigrated
  /\ Alone
  /\ OpenServed
  /\ \A r \in Replicas : Progress(r)

(* Nothing runs and nothing exists.                                        *)
LEMMA StartupInit == Init => IInv
  <1> SUFFICES ASSUME Init
               PROVE  IInv
    OBVIOUS
  <1>1. TypeOK
    <2>1. /\ failures \in 0 .. MaxFailures
          /\ open \in [Replicas -> Nat]
          /\ configured \in [Replicas -> Nat]
      BY StartupAssumption DEF Init
    <2>2. versionTable \in BOOLEAN /\ recorded \in BOOLEAN /\ tables \in BOOLEAN
      BY DEF Init
    <2>3. /\ budget \in Nat \cup {NoRow}
          /\ pc \in [Replicas -> {"down"} \cup Starting \cup Up]
          /\ wrote \in [Replicas -> SUBSET Parts]
      BY DEF Init
    <2> QED BY <2>1, <2>2, <2>3 DEF TypeOK
  <1>2. AppliedIffRecorded /\ ServesMigrated
    BY DEF Init, AppliedIffRecorded, ServesMigrated, Up
  <1>3. Alone /\ OpenServed /\ \A r \in Replicas : Progress(r)
    BY DEF Init, Alone, OpenServed, Progress
  <1> QED BY <1>1, <1>2, <1>3 DEF IInv

(* A process that ends keeps nothing uncommitted.                          *)
LEMMA AbortStep ==
  ASSUME IInv, NEW r \in Replicas, Abort(r),
         UNCHANGED <<recorded, tables, budget>>,
         open' \in [Replicas -> Nat], failures' \in 0 .. MaxFailures,
         versionTable' \in BOOLEAN,
         \A s \in Replicas : open'[s] > 0 => s # r /\ open[s] > 0
  PROVE  IInv'
  <1>1. TypeOK'
    BY DEF IInv, TypeOK, Abort, End, Goto
  <1>2. AppliedIffRecorded' /\ ServesMigrated'
    BY DEF IInv, TypeOK, AppliedIffRecorded, ServesMigrated, Abort, End, Goto, Up
  <1>3. Alone'
    BY DEF IInv, TypeOK, Alone, Abort
  <1>4. \A s \in Replicas : Progress(s)'
    BY DEF IInv, TypeOK, Progress, Abort, End, Goto
  <1>5. OpenServed'
    BY DEF IInv, TypeOK, OpenServed, Abort, End, Goto
  <1> QED BY <1>1, <1>2, <1>3, <1>4, <1>5 DEF IInv

(* A migrator moves on without writing.                                    *)
LEMMA MoveStep ==
  ASSUME IInv, NEW r \in Replicas, NEW label \in {"down"} \cup Starting \cup Up,
         Goto(r, label), UNCHANGED <<recorded, tables, budget, wrote, open, failures>>,
         versionTable' \in BOOLEAN, configured' \in [Replicas -> Nat],
         Progress(r)',
         label \in Up \cup {"listen"} => tables /\ recorded,
         open[r] > 0 => label \in Up
  PROVE  IInv'
  <1>1. TypeOK'
    BY DEF IInv, TypeOK, Goto
  <1>2. AppliedIffRecorded' /\ ServesMigrated'
    BY DEF IInv, TypeOK, AppliedIffRecorded, ServesMigrated, Goto
  <1>3. Alone'
    BY DEF IInv, Alone
  <1>4. \A s \in Replicas \ {r} : Progress(s)'
    BY DEF IInv, TypeOK, Progress, Goto
  <1>5. OpenServed'
    BY DEF IInv, TypeOK, OpenServed, Goto
  <1> QED BY <1>1, <1>2, <1>3, <1>4, <1>5 DEF IInv

(* A migrator writes a part that nobody else has written.                  *)
LEMMA WriteStep ==
  ASSUME IInv, NEW r \in Replicas, NEW part \in Parts,
         NEW label \in {"seed", "record", "commit"},
         Proceed(r, label), Write(r, part), UNCHANGED <<database, open, failures>>,
         pc[r] \notin Up,
         \A s \in Replicas \ {r} : wrote[s] = {},
         Progress(r)'
  PROVE  IInv'
  <1>1. TypeOK'
    BY DEF IInv, TypeOK, Proceed, Goto, Write, database, Starting
  <1>2. AppliedIffRecorded' /\ ServesMigrated'
    BY DEF IInv, TypeOK, AppliedIffRecorded, ServesMigrated, Proceed, Goto, database, Up
  <1>3. Alone'
    BY DEF IInv, TypeOK, Alone, Write
  <1>4. \A s \in Replicas \ {r} : Progress(s)'
    BY DEF IInv, TypeOK, Progress, Proceed, Goto, Write, database
  <1>5. OpenServed'
    BY DEF IInv, TypeOK, OpenServed, Proceed, Goto, Up
  <1> QED BY <1>1, <1>2, <1>3, <1>4, <1>5 DEF IInv

(* Whoever has written anything has written the tables.                    *)
LEMMA WritersHaveTables ==
  ASSUME IInv, NEW s \in Replicas
  PROVE  /\ wrote[s] = {} \/ "tables" \in wrote[s]
         /\ wrote[s] # {} => ~tables
  <1>1. wrote[s] = {} \/ ("tables" \in wrote[s] /\ ~tables)
    BY DEF IInv, Progress, Parts
  <1> QED BY <1>1

(* The actions of Migrate, one by one.                                     *)
LEMMA MigrateStep ==
  ASSUME IInv, NEW r \in Replicas, Migrate(r)
  PROVE  IInv'
  <1>0. CASE Connect(r)
    <2>1. Progress(r)'
      BY <1>0 DEF IInv, TypeOK, Connect, At, Proceed, Goto, Progress, database
    <2> QED
      BY <1>0, <2>1, MoveStep
         DEF Proceed, OpenServed, Connect, At, database, Starting, Up, IInv, TypeOK
  <1>1. CASE LookForVersions(r)
    <2>1. Progress(r)'
      BY <1>1 DEF IInv, TypeOK, LookForVersions, At, Proceed, Goto, Progress, database
    <2>2. PICK label \in {"check", "creating"} : Proceed(r, label)
      BY <1>1 DEF LookForVersions
    <2> QED
      BY <1>1, <2>1, <2>2, MoveStep
         DEF Proceed, OpenServed, LookForVersions, At, database, Starting, Up, IInv, TypeOK
  <1>2. CASE CreateVersions(r)
    <2>1. CASE Abort(r)
      BY <1>2, <2>1, AbortStep
           DEF OpenServed, Up, Starting, CreateVersions, At, IInv, TypeOK
    <2>2. CASE Proceed(r, "check") /\ UNCHANGED wrote
      <3>1. Progress(r)'
        BY <1>2, <2>2 DEF IInv, TypeOK, CreateVersions, At, Proceed, Goto, Progress
      <3> QED
        BY <1>2, <2>2, <3>1, MoveStep DEF Proceed, OpenServed, CreateVersions, At, Starting, Up, IInv, TypeOK
    <2> QED BY <1>2, <2>1, <2>2 DEF CreateVersions
  <1>3. CASE Check(r)
    <2>1. Progress(r)'
      BY <1>3 DEF IInv, TypeOK, Check, At, Proceed, Goto, Progress, database
    <2>2. PICK label \in {"listen", "begin"} :
            Proceed(r, label) /\ (label = "listen" => recorded)
      BY <1>3 DEF Check
    <2>3. recorded => tables
      BY DEF IInv, AppliedIffRecorded
    <2> QED
      BY <1>3, <2>1, <2>2, <2>3, MoveStep
         DEF Proceed, OpenServed, Check, At, database, Starting, Up, IInv, TypeOK
  <1>4. CASE LookForTables(r)
    <2>1. Progress(r)'
      BY <1>4 DEF IInv, TypeOK, LookForTables, At, Proceed, Goto, Progress, database
    <2>2. PICK label \in {"seed", "build"} : Proceed(r, label)
      BY <1>4 DEF LookForTables
    <2> QED
      BY <1>4, <2>1, <2>2, MoveStep
         DEF Proceed, OpenServed, LookForTables, At, database, Starting, Up, IInv, TypeOK
  <1>5. CASE Build(r)
    <2>1. CASE Abort(r)
      BY <1>5, <2>1, AbortStep
           DEF OpenServed, Up, Starting, Build, At, database, IInv, TypeOK
    <2>2. CASE ~tables /\ Write(r, "tables") /\ Proceed(r, "seed")
      <3>1. \A s \in Replicas \ {r} : wrote[s] = {}
        BY <1>5, WritersHaveTables DEF Build, Free
      <3>2. Progress(r)'
        BY <1>5, <2>2 DEF IInv, TypeOK, Build, At, Proceed, Goto, Write, Progress, database
      <3> QED
        BY <1>5, <2>2, <3>1, <3>2, WriteStep DEF Build, At, Parts, Up
    <2> QED BY <1>5, <2>1, <2>2 DEF Build
  <1>6. CASE Seed(r)
    <2>1. CASE budget # NoRow /\ UNCHANGED wrote
      <3>1. tables
        BY <2>1 DEF IInv, AppliedIffRecorded
      <3>2. Progress(r)'
        BY <1>6, <2>1, <3>1 DEF IInv, TypeOK, Seed, At, Proceed, Goto, Progress, database
      <3> QED
        BY <1>6, <2>1, <3>2, MoveStep
           DEF Proceed, OpenServed, Seed, At, database, Starting, Up, IInv, TypeOK
    <2>2. CASE budget = NoRow /\ Write(r, "seed")
      <3>1. ~tables /\ wrote[r] = {"tables"}
        BY <1>6, <2>2 DEF IInv, AppliedIffRecorded, Progress, Seed, At
      <3>2. \A s \in Replicas \ {r} : wrote[s] = {}
        BY <3>1 DEF IInv, Alone
      <3>3. Progress(r)'
        BY <1>6, <2>2, <3>1 DEF IInv, TypeOK, Seed, At, Proceed, Goto, Write, Progress, database
      <3> QED
        BY <1>6, <2>2, <3>2, <3>3, WriteStep DEF Seed, At, Parts, Up
    <2> QED BY <1>6, <2>1, <2>2 DEF Seed
  <1>7. CASE Record(r)
    <2>1. CASE Abort(r)
      BY <1>7, <2>1, AbortStep
           DEF OpenServed, Up, Starting, Record, At, database, IInv, TypeOK
    <2>2. CASE ~recorded /\ Write(r, "version") /\ Proceed(r, "commit")
      <3>1. ~tables /\ wrote[r] = {"tables", "seed"}
        BY <1>7, <2>2 DEF IInv, AppliedIffRecorded, Progress, Record, At
      <3>2. \A s \in Replicas \ {r} : wrote[s] = {}
        BY <3>1 DEF IInv, Alone
      <3>3. Progress(r)'
        BY <1>7, <2>2, <3>1
           DEF IInv, TypeOK, Record, At, Proceed, Goto, Write, Progress, database, Parts
      <3> QED
        BY <1>7, <2>2, <3>2, <3>3, WriteStep DEF Record, At, Parts, Up
    <2> QED BY <1>7, <2>1, <2>2 DEF Record
  <1>8. CASE Commit(r)
    <2>1. ~tables /\ wrote[r] = Parts
      BY <1>8 DEF IInv, Progress, Commit
    <2>2. tables' /\ recorded' /\ budget' = SeedBudget
      BY <1>8, <2>1 DEF Commit, Parts, SeededBy
    <2>3. \A s \in Replicas \ {r} : wrote[s] = {}
      BY <2>1 DEF IInv, Alone, Parts
    <2>4. \A s \in Replicas : wrote'[s] = {}
      BY <1>8, <2>3 DEF Commit, IInv, TypeOK
    <2>5. PICK label \in {"listen", "down"} :
            Goto(r, label) /\ configured' \in [Replicas -> Nat]
      BY <1>8 DEF Commit, Proceed, End, IInv, TypeOK
    <2>6. failures' \in 0 .. MaxFailures
      BY <1>8, StartupAssumption DEF Commit, IInv, TypeOK
    <2>7. TypeOK'
      <3>1. tables' \in BOOLEAN /\ recorded' \in BOOLEAN
        BY <1>8 DEF Commit
      <3>2. budget' \in Nat
        BY <2>2, StartupAssumption
      <3>3. pc' \in [Replicas -> {"down"} \cup Starting \cup Up]
        BY <2>5 DEF IInv, TypeOK, Proceed, Goto, Starting
      <3>4. wrote' \in [Replicas -> SUBSET Parts]
        BY <1>8 DEF Commit, IInv, TypeOK
      <3> QED BY <1>8, <2>5, <2>6, <3>1, <3>2, <3>3, <3>4 DEF Commit, IInv, TypeOK
    <2>8. AppliedIffRecorded'
      BY <1>8, <2>2, StartupAssumption DEF AppliedIffRecorded, Commit
    <2>9. ServesMigrated'
      BY <2>2 DEF ServesMigrated
    <2>10. Alone'
      BY <2>4 DEF Alone
    <2>11. \A s \in Replicas : Progress(s)'
      <3> TAKE s \in Replicas
      <3>1. CASE s = r
        BY <2>4, <2>5, <3>1 DEF Progress, IInv, TypeOK, Goto
      <3>2. CASE s # r
        <4>1. pc'[s] = pc[s] /\ pc[s] # "commit"
          BY <2>3, <2>5, <3>2 DEF IInv, TypeOK, Progress, Proceed, Goto, Parts
        <4> QED BY <2>2, <2>4, <4>1 DEF Progress
      <3> QED BY <3>1, <3>2
    <2>12. OpenServed'
      BY <1>8, <2>5 DEF Commit, OpenServed, Goto, Up, IInv, TypeOK
    <2> QED BY <2>7, <2>8, <2>9, <2>10, <2>11, <2>12 DEF IInv
  <1>9. CASE Listen(r)
    <2>1. tables /\ recorded
      BY <1>9 DEF IInv, ServesMigrated, Listen, At
    <2>2. Progress(r)'
      BY <1>9 DEF IInv, TypeOK, Listen, At, Proceed, Goto, Progress, database
    <2> QED
      BY <1>9, <2>1, <2>2, MoveStep DEF Proceed, OpenServed, Listen, At, database, Up, IInv, TypeOK
  <1> QED
    BY <1>0, <1>1, <1>2, <1>3, <1>4, <1>5, <1>6, <1>7, <1>8, <1>9 DEF Migrate

(* The actions outside Migrate.                                            *)
LEMMA OtherStep ==
  ASSUME IInv, NEW r \in Replicas,
         \/ Start(r) \/ Accept(r) \/ Finish(r) \/ Signal(r) \/ ListenError(r)
         \/ Shutdown(r) \/ Fail(r) \/ Kill(r)
  PROVE  IInv'
  <1>1. CASE Start(r)
    <2>1. Progress(r)'
      BY <1>1 DEF IInv, TypeOK, Start, Goto, Progress, database
    <2>2. configured' \in [Replicas -> Nat]
      <3>1. PICK v \in Settings :
              /\ getenvInt64(v, DefaultBudget) > 0
              /\ configured' = [configured EXCEPT ![r] = getenvInt64(v, DefaultBudget)]
        BY <1>1 DEF Start
      <3>2. getenvInt64(v, DefaultBudget) \in Int
        BY StartupAssumption DEF getenvInt64
      <3>3. getenvInt64(v, DefaultBudget) \in Nat
        BY <3>1, <3>2
      <3> QED BY <3>1, <3>3 DEF IInv, TypeOK
    <2> QED
      BY <1>1, <2>1, <2>2, MoveStep DEF OpenServed, Start, database, Starting, Up, IInv, TypeOK
  <1>2. CASE Accept(r)
    BY <1>2 DEF Accept, IInv, TypeOK, OpenServed, Up, AppliedIffRecorded, ServesMigrated, Alone,
                Progress, database
  <1>3. CASE Finish(r)
    <2>1. budget' \in Nat \cup {NoRow} /\ (budget' = NoRow <=> budget = NoRow)
      BY <1>3, StartupAssumption DEF Finish, IInv, TypeOK
    <2>2. open' \in [Replicas -> Nat]
      BY <1>3 DEF Finish, IInv, TypeOK
    <2> QED
      BY <1>3, <2>1, <2>2 DEF Finish, IInv, TypeOK, OpenServed, AppliedIffRecorded, ServesMigrated,
                              Alone, Progress
  <1>4. CASE Signal(r)
    <2>1. tables /\ recorded
      BY <1>4 DEF IInv, ServesMigrated, Signal, At, Up
    <2>2. Progress(r)'
      BY <1>4 DEF IInv, TypeOK, Signal, At, Proceed, Goto, Progress, database
    <2> QED
      BY <1>4, <2>1, <2>2, MoveStep DEF Proceed, OpenServed, Signal, At, database, Up, IInv, TypeOK
  <1>5. CASE ShutdownTimeout(r)
    <2>1. tables /\ recorded
      BY <1>5 DEF IInv, ServesMigrated, ShutdownTimeout, At, Up
    <2>2. Progress(r)'
      BY <1>5 DEF IInv, TypeOK, ShutdownTimeout, At, Proceed, Goto, Progress, database
    <2> QED
      BY <1>5, <2>1, <2>2, MoveStep DEF Proceed, OpenServed, ShutdownTimeout, At, database, Up, IInv, TypeOK
  <1>6. CASE Exit(r)
    <2>1. Progress(r)'
      BY <1>6 DEF IInv, TypeOK, Exit, End, Goto, Progress, database
    <2> QED
      BY <1>6, <2>1, MoveStep DEF End, OpenServed, Exit, database, Up, IInv, TypeOK
  <1>7. CASE Fail(r)
    BY <1>7, AbortStep, StartupAssumption
           DEF OpenServed, Up, Starting, Fail, database, IInv, TypeOK
  <1>8. CASE Kill(r)
    BY <1>8, AbortStep, StartupAssumption
           DEF OpenServed, Up, Starting, Kill, database, IInv, TypeOK
  <1>9. CASE ListenError(r)
    <2>1. tables /\ recorded
      BY <1>9 DEF IInv, ServesMigrated, ListenError, At, Up
    <2>2. Progress(r)'
      BY <1>9 DEF IInv, TypeOK, ListenError, At, Proceed, Goto, Progress, database
    <2> QED
      BY <1>9, <2>1, <2>2, MoveStep DEF Proceed, OpenServed, ListenError, At, database, Up, IInv, TypeOK
  <1> QED
    BY <1>1, <1>2, <1>3, <1>4, <1>5, <1>6, <1>7, <1>8, <1>9 DEF Shutdown

(* Every step keeps the invariant.                                         *)
LEMMA StartupStep == IInv /\ [Next]_vars => IInv'
  <1> SUFFICES ASSUME IInv, [Next]_vars
               PROVE  IInv'
    OBVIOUS
  <1>1. CASE UNCHANGED vars
    BY <1>1 DEF IInv, TypeOK, AppliedIffRecorded, ServesMigrated, Alone, Progress,
                OpenServed, vars, database
  <1>2. CASE DatabaseRestart
    <2>1. TypeOK'
      BY <1>2, StartupAssumption DEF DatabaseRestart, IInv, TypeOK, database
    <2>2. AppliedIffRecorded' /\ Alone'
      BY <1>2 DEF DatabaseRestart, IInv, AppliedIffRecorded, Alone, database
    <2>3. ServesMigrated'
      BY <1>2 DEF DatabaseRestart, IInv, TypeOK, ServesMigrated, database, Up, Starting
    <2>4. \A s \in Replicas : Progress(s)'
      BY <1>2 DEF DatabaseRestart, IInv, TypeOK, Progress, database, Starting
    <2>5. OpenServed'
      BY <1>2 DEF DatabaseRestart, OpenServed
    <2> QED BY <2>1, <2>2, <2>3, <2>4, <2>5 DEF IInv
  <1> QED BY <1>1, <1>2, MigrateStep, OtherStep DEF Next

(* The invariant holds in every reachable state.                           *)
LEMMA StartupInvariance == Spec => []IInv
  BY StartupInit, StartupStep, PTL DEF Spec

(* Every reachable state is well typed: the budget is never negative.      *)
THEOREM TypeCorrect == Spec => []TypeOK
  <1>1. IInv => TypeOK
    BY DEF IInv
  <1> QED BY <1>1, StartupInvariance, PTL

(* However many replicas race in Migrate and fail, the tables, their seed  *)
(* and their version appear together.                                      *)
THEOREM MigrationIsAtomic == Spec => []AppliedIffRecorded
  <1>1. IInv => AppliedIffRecorded
    BY DEF IInv
  <1> QED BY <1>1, StartupInvariance, PTL

(* No replica serves before the migration is committed.                    *)
THEOREM OnlyMigratedServe == Spec => []ServesMigrated
  <1>1. IInv => ServesMigrated
    BY DEF IInv
  <1> QED BY <1>1, StartupInvariance, PTL

(* The budget is seeded once and only falls from then on.                  *)
THEOREM BudgetIsSeededOnce == Spec => SeededOnce
  <1>1. IInv /\ [Next]_vars => [budget # NoRow => budget' # NoRow /\ budget' <= budget]_vars
    <2> SUFFICES ASSUME IInv, Next, budget # NoRow
                 PROVE  budget' # NoRow /\ budget' <= budget
      BY DEF vars
    <2>1. budget \in Nat
      BY DEF IInv, TypeOK
    <2>2. CASE UNCHANGED budget
      BY <2>1, <2>2
    <2>3. ASSUME NEW r \in Replicas, Commit(r)
          PROVE  FALSE
      BY <2>3 DEF Commit, IInv, Progress, AppliedIffRecorded
    <2>4. ASSUME NEW r \in Replicas, Finish(r)
          PROVE  budget' # NoRow /\ budget' <= budget
      BY <2>1, <2>4, StartupAssumption DEF Finish
    <2> QED
      BY <2>2, <2>3, <2>4
         DEF Next, Migrate, Shutdown, Start, Connect, LookForVersions, CreateVersions, Check,
             LookForTables, Build, Seed, Record, Listen, Accept, Signal, ListenError,
             ShutdownTimeout, Exit, Fail, Kill, DatabaseRestart, database
  <1> QED BY <1>1, StartupInvariance, PTL DEF Spec, SeededOnce

-----------------------------------------------------------------------------
Serving == {r \in Replicas : pc[r] \in Up}

(* A process that does not cross the border of Up leaves the servers alone.*)
LEMMA ServingKept ==
  ASSUME IInv, NEW r \in Replicas, NEW label \in {"down"} \cup Starting \cup Up,
         Goto(r, label), label \in Up <=> pc[r] \in Up
  PROVE  Serving' = Serving
  BY DEF Serving, Goto, IInv, TypeOK

(* One that ends stops to serve, if it did.                                *)
LEMMA ServingStops ==
  ASSUME IInv, NEW r \in Replicas, Goto(r, "down")
  PROVE  Serving' = Serving \ {r}
  BY DEF Serving, Goto, IInv, TypeOK, Up

(* The statements of Migrate are invisible to the servers but for the      *)
(* commit, which applies everything, and Listen.                           *)
LEMMA MigrateMaps ==
  ASSUME IInv, NEW r \in Replicas, Migrate(r)
  PROVE  [M!Next]_(M!vars)
  <1>1. CASE Commit(r)
    <2>1. ~tables /\ ~recorded /\ wrote[r] = Parts
      BY <1>1 DEF IInv, Progress, AppliedIffRecorded, Commit
    <2>2. tables' /\ recorded' /\ budget' = SeedBudget
      BY <1>1, <2>1 DEF Commit, Parts, SeededBy
    <2>3. PICK label \in {"listen", "down"} : Goto(r, label)
      BY <1>1 DEF Commit, Proceed, End
    <2>4. Serving' = Serving
      BY <1>1, <2>3, ServingKept DEF Commit, Starting, Up
    <2>5. M!Apply
      BY <2>1, <2>2, <2>4 DEF M!Apply, Serving
    <2> QED BY <2>5 DEF M!Next
  <1>2. CASE Listen(r)
    <2>1. tables /\ recorded
      BY <1>2 DEF IInv, ServesMigrated, Listen, At
    <2>2. UNCHANGED <<tables, recorded, budget>>
      BY <1>2 DEF Listen, database
    <2>3. Serving' = Serving \cup {r}
      BY <1>2 DEF Serving, Listen, At, Proceed, Goto, IInv, TypeOK, Up
    <2>4. M!Serve(r)
      BY <2>1, <2>2, <2>3 DEF M!Serve, Serving
    <2> QED BY <2>4 DEF M!Next
  <1>3. ASSUME ~Commit(r), ~Listen(r)
        PROVE  UNCHANGED M!vars
    <2>1. UNCHANGED <<tables, recorded, budget>>
      BY <1>3 DEF Migrate, Connect, LookForVersions, CreateVersions, Check,
                  LookForTables, Build, Seed, Record, database
    <2>2. pc[r] \in Starting
      BY <1>3 DEF Migrate, Connect, LookForVersions, CreateVersions, Check,
                  LookForTables, Build, Seed, Record, At, Starting
    <2>3. PICK label \in {"down"} \cup Starting : Goto(r, label)
      BY <1>3 DEF Migrate, Connect, LookForVersions, CreateVersions, Check,
                  LookForTables, Build, Seed, Record, Proceed, Abort, End, Starting
    <2>4. Serving' = Serving
      BY <2>2, <2>3, ServingKept DEF Starting, Up
    <2> QED BY <2>1, <2>4 DEF M!vars, Serving
  <1> QED BY <1>1, <1>2, <1>3

(* Every step is a step of Migration, or invisible to it.                  *)
LEMMA StartupMaps == IInv /\ [Next]_vars => [M!Next]_(M!vars)
  <1> SUFFICES ASSUME IInv, [Next]_vars
               PROVE  [M!Next]_(M!vars)
    OBVIOUS
  <1>1. CASE UNCHANGED vars
    BY <1>1 DEF vars, database, M!vars
  <1>2. CASE DatabaseRestart
    <2>1. \A r \in Replicas : pc'[r] \in Up <=> pc[r] \in Up
      BY <1>2 DEF DatabaseRestart, Starting, Up
    <2>2. Serving' = Serving
      BY <2>1 DEF Serving
    <2> QED BY <1>2, <2>2 DEF DatabaseRestart, database, M!vars, Serving
  <1>3. ASSUME NEW r \in Replicas, Finish(r)
        PROVE  [M!Next]_(M!vars)
    <2>1. Serving' = Serving /\ UNCHANGED <<tables, recorded>>
      BY <1>3 DEF Serving, Finish
    <2>2. CASE UNCHANGED budget
      BY <2>1, <2>2 DEF M!vars, Serving
    <2>3. CASE budget # NoRow /\ budget > 0 /\ budget' = budget - 1
      <3>1. r \in Serving
        BY <1>3 DEF Finish, Serving, IInv, OpenServed
      <3>2. M!Award
        BY <2>1, <2>3, <3>1 DEF M!Award, Serving
      <3> QED BY <3>2 DEF M!Next
    <2> QED BY <1>3, <2>2, <2>3 DEF Finish
  <1>4. ASSUME NEW r \in Replicas, Exit(r) \/ Fail(r) \/ Kill(r)
        PROVE  [M!Next]_(M!vars)
    <2>1. Goto(r, "down") /\ UNCHANGED <<tables, recorded, budget>>
      BY <1>4 DEF Exit, Fail, Kill, Abort, End, database
    <2>2. M!Stop(r)
      BY <2>1, ServingStops DEF M!Stop, Serving
    <2> QED BY <2>2 DEF M!Next
  <1>5. ASSUME NEW r \in Replicas,
               Start(r) \/ Accept(r) \/ Signal(r) \/ ListenError(r) \/ ShutdownTimeout(r)
        PROVE  UNCHANGED M!vars
    <2>1. UNCHANGED <<tables, recorded, budget>>
      BY <1>5 DEF Start, Accept, Signal, ListenError, ShutdownTimeout, database
    <2>2. CASE Accept(r)
      BY <2>1, <2>2 DEF Accept, M!vars
    <2>3. CASE Start(r)
      BY <2>1, <2>3, ServingKept DEF Start, M!vars, Starting, Up, Serving
    <2>4. CASE Signal(r) \/ ListenError(r) \/ ShutdownTimeout(r)
      <3>1. PICK label \in Up : Goto(r, label) /\ pc[r] \in Up
        BY <2>4 DEF Signal, ListenError, ShutdownTimeout, At, Proceed, Up
      <3> QED BY <2>1, <3>1, ServingKept DEF M!vars, Serving
    <2> QED BY <1>5, <2>2, <2>3, <2>4
  <1> QED
    BY <1>1, <1>2, <1>3, <1>4, <1>5, MigrateMaps DEF Next, Shutdown

(* For any number of replicas, however they race, fail and restart, what   *)
(* the servers see is one atomic migration and a budget that only they     *)
(* spend.                                                                  *)
THEOREM StartupImplementsMigration == Spec => MigrationSpec
  <1>1. Init => M!Init
    BY DEF Init, M!Init, Up
  <1> QED BY <1>1, StartupInvariance, StartupMaps, PTL DEF Spec, MigrationSpec, M!Spec
=============================================================================
