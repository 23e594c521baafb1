------------------------------ MODULE MCMobile ------------------------------
(***************************************************************************)
(* Small instances of Mobile.                                              *)
(***************************************************************************)
EXTENDS Mobile, TLC

CONSTANT MaxLedgerId

MCLedgerIds == 1 .. MaxLedgerId

=============================================================================
