------------------------------- MODULE MCStore -------------------------------
(***************************************************************************)
(* Small instances of Store.  The numbers are scaled so that each limit of *)
(* the code is reached in two or three payments; see the README.           *)
(***************************************************************************)
EXTENDS Store, TLC

CONSTANTS MaxLedgerId, LastDay

MCLedgerIds == 1 .. MaxLedgerId
MCDays == 0 .. LastDay

Symmetric ==
  Permutations(Workers) \cup Permutations(Keys) \cup Permutations(Users)
=============================================================================
