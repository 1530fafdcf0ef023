---------------------------- MODULE MCMigration -----------------------------
(***************************************************************************)
(* Two jobs of a release and one of a release whose baseline was edited.   *)
(***************************************************************************)
EXTENDS Migration

CONSTANTS first, again, edited
MountedDigest == [j \in Jobs |-> IF j = edited THEN "amended" ELSE "baseline"]
=============================================================================
