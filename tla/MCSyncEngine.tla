--------------------------- MODULE MCSyncEngine ---------------------------
(* An edit of the tab's own, and an update of another client made on it.    *)
EXTENDS SyncEngine, TLC

CONSTANTS mine, theirs

MCOp   == {mine, theirs}
MCMine == {mine}
MCDeps == (mine :> {}) @@ (theirs :> {mine})
=============================================================================
