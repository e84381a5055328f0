------------------------------ MODULE AtomicRow ------------------------------
(***************************************************************************)
(* What a storage has to be for the send lifecycle: a register per letter  *)
(* whose claim is one indivisible compare-and-set.  An attempt is numbered *)
(* one above the last, a claim that is held is taken over only when it is  *)
(* stale, its stamp moves forward while it is held, and a letter that is   *)
(* closed (sent, given up, cancelled, deleted) stays closed.               *)
(***************************************************************************)
EXTENDS Integers

CONSTANTS Letter, MaxTries, SendingTimeout

VARIABLES now, register

vars == <<now, register>>

Free(n) == [phase |-> "free", tries |-> n]
Held(n, stamp) == [phase |-> "held", tries |-> n, stamp |-> stamp]
Absent == [phase |-> "absent"]
Closed == [phase |-> "closed"]

Init == /\ now = 1
        /\ register = [u \in Letter |-> Absent]

Set(u, value) ==
    /\ register' = [register EXCEPT ![u] = value]
    /\ UNCHANGED now

Enter(u) == register[u] = Absent /\ Set(u, Free(0))

Claim(u, stamp) ==
    LET r == register[u] IN
    /\ \/ r.phase = "free"
       \/ r.phase = "held" /\ r.stamp <= stamp - SendingTimeout
    /\ r.tries < MaxTries
    /\ stamp <= now
    /\ Set(u, Held(r.tries + 1, stamp))

\* The new stamp is above the last one, and past the clock only by that.
Renew(u) ==
    LET r == register[u] IN
    /\ r.phase = "held"
    /\ \E stamp \in r.stamp + 1 .. (IF now > r.stamp THEN now ELSE r.stamp + 1) :
          Set(u, Held(r.tries, stamp))

Release(u) ==
    /\ register[u].phase = "held"
    /\ register[u].tries < MaxTries
    /\ Set(u, Free(register[u].tries))

Close(u) == register[u].phase \in {"free", "held"} /\ Set(u, Closed)

Pass == now' = now + 1 /\ UNCHANGED register

\* Every operation changes its letter: saying so spares TLC the rest of the
\* letters and of the operations.
Next == \/ \E u \in Letter :
             /\ register'[u] # register[u]
             /\ \/ Enter(u) \/ Renew(u) \/ Release(u) \/ Close(u)
                \/ \E stamp \in 1 .. now : Claim(u, stamp)
        \/ Pass

Spec == Init /\ [][Next]_vars
=============================================================================
