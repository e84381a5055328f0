-------------------------- MODULE MCPostgresSetup --------------------------
(* Instances of PostgresSetup for TLC.                                     *)
EXTENDS PostgresSetup, TLC

CONSTANTS q1, q2, q3, p1, p2, s1, s2, s3

\* A process with a pool of two sessions for two instances, and one with a client.
MCHome == (q1 :> p1) @@ (q2 :> p1) @@ (q3 :> p2)
MCClient == (p1 :> {s1, s2}) @@ (p2 :> {s3})
=============================================================================
