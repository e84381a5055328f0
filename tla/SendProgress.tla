----------------------------- MODULE SendProgress -----------------------------
(***************************************************************************)
(* The lifecycle with a time that moves only while somebody waits for it.  *)
(*                                                                         *)
(* Time is finite in a run, so here it moves only as long as an open row   *)
(* waits for it: for its sendAt, or for a claim on it to go stale.  More   *)
(* time would change no guard of the model.  WaitIsBounded bounds it below  *)
(* MaxTime, so that no behaviour ends for want of time.                    *)
(***************************************************************************)
EXTENDS SendLifecycle

Awaited(u) ==
    /\ Open(row[u])
    /\ row[u].sendAt > now \/ ~Takeable(row[u], now)

TimedNext == Next /\ (now' # now => \E u \in Row : Awaited(u))

TimedSpec == Init /\ [][TimedNext]_vars

\* No row keeps the others waiting without limit: an attempt holds it for its
\* claim and maxRenewals renewals, however long the transport takes, and a
\* retry waits retryDelay.  Time stands still here when nobody waits for it.
WaitIsBounded ==
    now <= 1 + MaxTries * (SendingTimeout * (1 + MaxRenewals) + RetryDelay)
=============================================================================
