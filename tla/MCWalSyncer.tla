---------------------------- MODULE MCWalSyncer ----------------------------
(***************************************************************************)
(* Small instances of WalSyncer: one tab that makes two edits, or two tabs *)
(* that share the log.                                                     *)
(***************************************************************************)
EXTENDS WalSyncer, TLC

CONSTANTS t1, t2, e1, e2

TabsAlike == Permutations({t1, t2})
=============================================================================
