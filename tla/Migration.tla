------------------------------ MODULE Migration ------------------------------
(***************************************************************************)
(* What store.Migrate promises to the servers that share a database: the   *)
(* schema appears once and at once, with the campaign's whole budget; only *)
(* then does anybody serve; and from then on the budget is only spent, by  *)
(* servers.  Module Startup shows that the processes of cmd/server, each   *)
(* with its statements, races and failures, implement this module.         *)
(***************************************************************************)
EXTENDS Naturals

CONSTANTS
  Replicas,
  SeedBudget,
  NoRow       \* campaign_budget before it is seeded

VARIABLES
  applied,  \* 0001_init.sql has been applied
  budget,   \* campaign_budget.remaining
  serving   \* the replicas that serve requests or finish them

vars == <<applied, budget, serving>>

Init ==
  /\ applied = FALSE
  /\ budget = NoRow
  /\ serving = {}

Apply ==
  /\ ~applied
  /\ applied' = TRUE
  /\ budget' = SeedBudget
  /\ UNCHANGED serving

Serve(r) ==
  /\ applied
  /\ serving' = serving \cup {r}
  /\ UNCHANGED <<applied, budget>>

Stop(r) ==
  /\ serving' = serving \ {r}
  /\ UNCHANGED <<applied, budget>>

Award ==
  /\ serving # {}
  /\ budget > 0
  /\ budget' = budget - 1
  /\ UNCHANGED <<applied, serving>>

Next ==
  \/ Apply
  \/ Award
  \/ \E r \in Replicas : Serve(r) \/ Stop(r)

Spec == Init /\ [][Next]_vars
=============================================================================
