---------------------------- MODULE MCSendLiveness ----------------------------
(* Progress of the lifecycle on a small instance.                          *)
EXTENDS MCSendLifecycle, SendProgress

\* What the code does whenever it can: the event loop runs a lane on, storages
\* and transports answer in the end, scans go on, clocks advance.  Nothing is
\* assumed of sendMail, cancelMail, the renewal timer, faults and destroy.
LaneProgress(w) ==
    \/ Dispatch(w)
    \/ Claim(w) \/ ClaimRejected(w)
    \/ RenewDone(w)
    \/ \E result \in SUBSET Recipient : Settle(w, result)
    \/ Complete(w)
    \/ WriteDone(w) \/ WriteLost(w)
    \/ CallHook(w)

Fairness ==
    /\ \A w \in Lane : /\ WF_vars(\E u \in Row : Fetch(w, u))
                       /\ WF_vars(LaneProgress(w))
    /\ WF_vars(Tick /\ \E u \in Row : Awaited(u))

LiveSpec == TimedSpec /\ Fairness

-----------------------------------------------------------------------------
Worked(u) == \E w \in Lane : job[w].pc \in Working /\ job[w].uuid = u

\* An open row that is claimed while nobody works on it.
Abandoned(u) == Open(row[u]) /\ row[u].isSending /\ ~Worked(u)

\* Every letter in the queue is in the end reported to one hook, or cancelled.
\* Two things may go otherwise, and only by a fault: a row is ended and the
\* process is gone before the hook, or a row has lost its worker on the last
\* attempt, and then it stays claimed for ever.
EveryLetterResolves ==
    \A u \in Row :
        row[u].status = "stored" ~>
            \/ hooks[u].onSent + hooks[u].onError = 1
            \/ CancelledOf(u)
            \/ /\ faults < MaxFaults
               /\ \/ ended[u] # "no"
                  \/ Abandoned(u) /\ row[u].tries = MaxTries
=============================================================================
