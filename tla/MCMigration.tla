---------------------------- MODULE MCMigration ----------------------------
(* Instances of Migration for TLC.                                         *)
EXTENDS Migration, TLC

CONSTANTS u1, u2, a1

\* Both letters are for one addressee.
MCTo == (u1 :> a1) @@ (u2 :> a1)
=============================================================================
