---------------------------- MODULE MCRedisWatch ----------------------------
(* Instances of RedisWatch for TLC.                                        *)
EXTENDS RedisWatch, TLC

CONSTANTS u1, u2, w1, w2, s1, c1, c2, c3

\* Two servers, and an application that queues mail.
ConnDedicated == (w1 :> c1) @@ (w2 :> c2) @@ (s1 :> c3)

\* The server on c1 queues mail itself.
ConnServer == (w1 :> c1) @@ (w2 :> c2) @@ (s1 :> c1)

\* The servers are configured differently.
MCKeepHistory == (c1 :> TRUE) @@ (c2 :> FALSE) @@ (c3 :> FALSE)
=============================================================================
