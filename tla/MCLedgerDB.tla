----------------------------- MODULE MCLedgerDB -----------------------------
(***************************************************************************)
(* LedgerDB on small sets of keys and timestamps.  No definition orders    *)
(* either of them, so both are symmetric.                                  *)
(***************************************************************************)
EXTENDS LedgerAudit, TLC

Symmetry == Permutations(Keys) \cup Permutations(Timestamps)
=============================================================================
