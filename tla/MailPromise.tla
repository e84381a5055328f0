----------------------------- MODULE MailPromise -----------------------------
(***************************************************************************)
(* What the queue promises of every letter, without storage, workers,      *)
(* claims or time: attempts are numbered and limited, a letter ends only   *)
(* out of an attempt, is given up only out of the last one, a cancelled    *)
(* letter does not go on, and its sender is told of its end at most once.  *)
(***************************************************************************)
EXTENDS Integers

CONSTANTS Row, MaxTries

VARIABLES phase,      \* where the letter is
          tries,      \* attempts begun
          cancelled,  \* cancelMail has taken effect
          told        \* the hook called for it

vars == <<phase, tries, cancelled, told>>

Phase == {"new", "queued", "sending", "sent", "failed"}

TypeOK == /\ phase \in [Row -> Phase]
          /\ tries \in [Row -> 0..MaxTries]
          /\ cancelled \in [Row -> BOOLEAN]
          /\ told \in [Row -> {"nothing", "onSent", "onError"}]

Init == /\ phase = [u \in Row |-> "new"]
        /\ tries = [u \in Row |-> 0]
        /\ cancelled = [u \in Row |-> FALSE]
        /\ told = [u \in Row |-> "nothing"]

Enqueue(u) ==
    /\ phase[u] = "new"
    /\ phase' = [phase EXCEPT ![u] = "queued"]
    /\ UNCHANGED <<tries, cancelled, told>>

\* A first attempt, a retry, or an attempt that takes a stale one over.
Attempt(u) ==
    /\ phase[u] \in {"queued", "sending"}
    /\ ~cancelled[u]
    /\ tries[u] < MaxTries
    /\ phase' = [phase EXCEPT ![u] = "sending"]
    /\ tries' = [tries EXCEPT ![u] = @ + 1]
    /\ UNCHANGED <<cancelled, told>>

\* The attempt ends without ending the letter, so another one is left.
Requeue(u) ==
    /\ phase[u] = "sending"
    /\ ~cancelled[u]
    /\ tries[u] < MaxTries
    /\ phase' = [phase EXCEPT ![u] = "queued"]
    /\ UNCHANGED <<tries, cancelled, told>>

Succeed(u) ==
    /\ phase[u] = "sending"
    /\ ~cancelled[u]
    /\ phase' = [phase EXCEPT ![u] = "sent"]
    /\ UNCHANGED <<tries, cancelled, told>>

GiveUp(u) ==
    /\ phase[u] = "sending"
    /\ ~cancelled[u]
    /\ tries[u] = MaxTries
    /\ phase' = [phase EXCEPT ![u] = "failed"]
    /\ UNCHANGED <<tries, cancelled, told>>

Cancel(u) ==
    /\ phase[u] # "new"
    /\ cancelled' = [cancelled EXCEPT ![u] = TRUE]
    /\ UNCHANGED <<phase, tries, told>>

Tell(u) ==
    /\ told[u] = "nothing"
    /\ \/ phase[u] = "sent" /\ told' = [told EXCEPT ![u] = "onSent"]
       \/ phase[u] = "failed" /\ told' = [told EXCEPT ![u] = "onError"]
    /\ UNCHANGED <<phase, tries, cancelled>>

Next == \E u \in Row : \/ Enqueue(u) \/ Attempt(u) \/ Requeue(u)
                       \/ Succeed(u) \/ GiveUp(u) \/ Cancel(u) \/ Tell(u)

Spec == Init /\ [][Next]_vars
=============================================================================
