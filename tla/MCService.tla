------------------------------ MODULE MCService ------------------------------
(***************************************************************************)
(* Small instances of Service.                                             *)
(***************************************************************************)
EXTENDS Service, TLC

CONSTANT MaxLedgerId

MCLedgerIds == 1 .. MaxLedgerId

Symmetric ==
  Permutations(Handlers) \cup Permutations(Keys) \cup Permutations(Days)
=============================================================================
