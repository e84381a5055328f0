--------------------------- MODULE MCRedisTagged ---------------------------
(* Instances of RedisTagged for TLC.                                       *)
EXTENDS RedisTagged, TLC

CONSTANTS w1, w2, s1, c1, c2, c3, u1, u2, a1

\* Two servers with a worker each; sendMail and cancelMail are called on a
\* third instance, {type: "client"}.
MCConn == (w1 :> c1) @@ (w2 :> c2) @@ (s1 :> c3)

\* The servers delete what is done; a letter cancelled is kept.
MCKeepHistory == (c1 :> FALSE) @@ (c2 :> FALSE) @@ (c3 :> TRUE)

MCRank == (u1 :> 1) @@ (u2 :> 2)

\* Both letters are for one addressee.
MCTo == (u1 :> a1) @@ (u2 :> a1)

\* Nothing tells the two servers apart: they change places with their workers.
Symmetry ==
    {f \in Permutations({w1, w2, c1, c2}) :
        \A w \in {w1, w2} : f[w] \in {w1, w2} /\ f[MCConn[w]] = MCConn[f[w]]}
=============================================================================
