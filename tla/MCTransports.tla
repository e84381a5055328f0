--------------------------- MODULE MCTransports ---------------------------
(* Instances of Transports for TLC.                                        *)
EXTENDS Transports, TLC

CONSTANTS w1, w2, i1, i2, c1

MCConn == (w1 :> i1) @@ (w2 :> i2)

\* Two servers with three transports each, and a client without.
MCTransports == (i1 :> 3) @@ (i2 :> 3) @@ (c1 :> 0)

MCPolicies == {[strategy |-> "backup", failsToNext |-> 1, maxTries |-> 3],
               [strategy |-> "backup", failsToNext |-> 2, maxTries |-> 3],
               [strategy |-> "balancer", failsToNext |-> 1, maxTries |-> 1]}

\* None, the one a fresh instance starts with, another two, all.
MCBroken == {{}, {0}, {1, 2}, {0, 1, 2}}

\* Nothing tells the two servers apart but their names.
Symmetry ==
    {f \in Permutations({w1, w2, i1, i2}) :
        \A w \in {w1, w2} : f[w] \in {w1, w2} /\ f[MCConn[w]] = MCConn[f[w]]}
=============================================================================
