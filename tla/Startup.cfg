SPECIFICATION FairSpec
CONSTANTS
  Replicas = {r1, r2, r3}
  Settings = {0, 1, Unset}
  DefaultBudget = 1
  SeedBudget = 2
  NoRow = NoRow
  MaxOpen = 1
  MaxFailures = 2
INVARIANTS
  TypeOK
  AppliedIffRecorded
  ServesMigrated
PROPERTIES
  SeededOnce
  MigrationSpec
  StartupEnds
  ShutdownEnds
