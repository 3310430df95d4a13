--------------------------- MODULE MCSyncSession ---------------------------
(***************************************************************************)
(* Small instances of SyncSession: two editors, whose tabs may share a log *)
(* and push each other's updates; one document begun by s1; an edit of     *)
(* alice's and one of bob's that builds on it, so that a lost one leaves   *)
(* another hanging.                                                        *)
(***************************************************************************)
EXTENDS SyncSession, TLC

CONSTANTS s1, a1, b1, alice, bob, i1

Editors == {alice, bob}

EditDeps   == s1 :> {} @@ a1 :> {s1} @@ b1 :> {s1, a1}
EditAuthor == a1 :> alice @@ b1 :> bob
=============================================================================
