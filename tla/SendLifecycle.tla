---------------------------- MODULE SendLifecycle ----------------------------
(***************************************************************************)
(* The life of a queued letter: several server instances scan one storage, *)
(* claim due rows, hand them to a transport, keep the claim fresh while    *)
(* the SMTP roundtrip runs, and write the outcome back under the lease.    *)
(*                                                                         *)
(* A lane is one task that an instance has in hand: __pool of an instance  *)
(* runs {concurrency} of them, and one more is held by the scan that waits *)
(* for a slot.  Home says which instance a lane belongs to.  Every storage *)
(* call is two actions, the call and its effect with the reply, so that    *)
(* anything may happen while it is under way.  The storage executes one    *)
(* call atomically, as MongoDB, PostgreSQL and the Lua scripts do.         *)
(***************************************************************************)
EXTENDS QueueRow

CONSTANTS Row,          \* uuids of the letters
          Server,       \* server instances
          Lane,         \* tasks in hand, over all instances
          Home,         \* the instance of a lane
          Skew,         \* how far the clock of an instance is ahead
          RetryDelay,   \* retryDelay
          MaxRenewals,  \* maxRenewals; 0 models {renewClaim: false}
          KeepHistory,  \* keepHistory
          MaxTime,      \* bound: the last instant of a behaviour
          MaxFaults     \* bound: crashes, destroys and storage errors

ASSUME HomeAssumption == Home \in [Lane -> Server]
ASSUME SkewAssumption == Skew \in [Server -> Nat]
ASSUME RetryDelayAssumption == RetryDelay \in Nat
ASSUME MaxRenewalsAssumption == MaxRenewals \in Nat
ASSUME KeepHistoryAssumption == KeepHistory \in BOOLEAN
ASSUME BoundsAssumption == MaxTime \in Nat /\ MaxFaults \in Nat

VARIABLES
    now,        \* real time
    row,        \* the storage
    life,       \* of an instance: "up", "draining" or "aborted"
    job,        \* the task of each lane
    canceller,  \* the cancelMail call on each row
    faults,     \* faults that may still happen
    \* history
    runs,       \* transport.sendMail calls made for a row
    delivered,  \* recipients that some transport accepted a row for
    ended,      \* how a completion write ended a row
    hooks       \* calls of the two hooks for a row

vars == <<now, row, life, job, canceller, faults, runs, delivered, ended, hooks>>
history == <<runs, delivered, ended, hooks>>

Clock(s) == now + Skew[s]

Max2(a, b) == IF a >= b THEN a ELSE b

-----------------------------------------------------------------------------
(* State.                                                                  *)

\* The completion writes: row sent, row given up, partly delivered row back
\* in the queue, failed attempt back in the queue.
Kinds == {"sent", "failed", "released", "retried"}

\* fetched:  read by a scan, not dispatched yet
\* claiming: the claim is under way
\* sending:  claimed, the transport has it
\* settled:  the transport answered, an active renewal is awaited
\* writing:  the completion write is under way
\* hook:     the completion write is acknowledged, the hook is to be called
Claimless == {"fetched", "claiming"}
Working   == {"sending", "settled", "writing", "hook"}

JobType == [pc : Claimless \cup Working, uuid : Row,
            tries : Nat, sendingAt : Nat, accepted : SUBSET Recipient,
            renewals : Nat, renewAt : Nat, result : SUBSET Recipient,
            kind : Kinds \cup {"none"}, nextAt : Nat]

IdleJob == [pc |-> "idle"]

TypeOK ==
    /\ now \in Nat
    /\ row \in [Row -> RowType]
    /\ life \in [Server -> {"up", "draining", "aborted"}]
    /\ job \in [Lane -> JobType \cup {IdleJob}]
    /\ canceller \in [Row -> {"idle", "decided", "cancelled"}]
    /\ faults \in Nat
    /\ runs \in [Row -> Nat]
    /\ delivered \in [Row -> SUBSET Recipient]
    /\ ended \in [Row -> {"no", "sent", "failed"}]
    /\ hooks \in [Row -> [onSent : Nat, onError : Nat]]

Init ==
    /\ now = 1
    /\ row = [u \in Row |-> NewRow("none", 0)]
    /\ life = [s \in Server |-> "up"]
    /\ job = [w \in Lane |-> IdleJob]
    /\ canceller = [u \in Row |-> "idle"]
    /\ faults = MaxFaults
    /\ runs = [u \in Row |-> 0]
    /\ delivered = [u \in Row |-> {}]
    /\ ended = [u \in Row |-> "no"]
    /\ hooks = [u \in Row |-> [onSent |-> 0, onError |-> 0]]

-----------------------------------------------------------------------------
(* Enqueue and cancel.                                                     *)

\* sendMail without concatenation: ___addToQueue pushes a fresh row that is
\* due at once.
AddToQueue(u) ==
    /\ row[u].status = "none"
    /\ row' = [row EXCEPT ![u] = NewRow("stored", now)]
    /\ UNCHANGED <<now, life, job, canceller, faults, history>>

\* cancelMail reads the row and decides: absent, sent and cancelled rows are
\* reported as not cancelled.
CancelRead(u) ==
    /\ canceller[u] = "idle"
    /\ row[u].status = "stored"
    /\ ~row[u].isSent /\ ~row[u].isCancelled
    /\ canceller' = [canceller EXCEPT ![u] = "decided"]
    /\ UNCHANGED <<now, row, life, job, faults, history>>

CancelEffect(r) == IF KeepHistory THEN Cancelled(r) ELSE Removed(r)

\* ... and then writes, without asking again: remove(task) has no lease and
\* update(task, {isCancelled}) has no guard.
CancelWrite(u) ==
    /\ canceller[u] = "decided"
    /\ IF row[u].status = "stored"
       THEN /\ row' = [row EXCEPT ![u] = CancelEffect(@)]
            /\ canceller' = [canceller EXCEPT ![u] = "cancelled"]
       ELSE /\ canceller' = [canceller EXCEPT ![u] = "idle"]
            /\ UNCHANGED row
    /\ UNCHANGED <<now, life, job, faults, history>>

-----------------------------------------------------------------------------
(* Scan, dispatch and claim.                                               *)

InHand(s, u) == \E w \in Lane : /\ Home[w] = s
                                /\ job[w].pc \in Working \cup {"claiming"}
                                /\ job[w].uuid = u

\* A scan (___iterate, queue.iterate) reads a due row.  What the lane keeps is
\* a copy: the cursor may hand it over much later.
Fetch(w, u) ==
    /\ job[w].pc = "idle"
    /\ life[Home[w]] = "up"
    /\ Eligible(row[u], Clock(Home[w]))
    /\ job' = [job EXCEPT ![w] =
         [pc |-> "fetched", uuid |-> u,
          tries |-> row[u].tries, sendingAt |-> row[u].sendingAt,
          accepted |-> row[u].accepted,
          renewals |-> 0, renewAt |-> 0, result |-> {},
          kind |-> "none", nextAt |-> 0]]
    /\ UNCHANGED <<now, row, life, canceller, faults, history>>

\* ___dispatch and the start of ___send: a destroyed instance drops the task,
\* and so does one that has the row in hand; otherwise the claim is stamped
\* and issued.  Waiting for a pool slot is part of waiting in "fetched".
Dispatch(w) ==
    /\ job[w].pc = "fetched"
    /\ IF life[Home[w]] # "up" \/ InHand(Home[w], job[w].uuid)
       THEN job' = [job EXCEPT ![w] = IdleJob]
       ELSE job' = [job EXCEPT ![w] = [@ EXCEPT !.pc = "claiming",
                                                !.sendingAt = Clock(Home[w])]]
    /\ UNCHANGED <<now, row, life, canceller, faults, history>>

ClaimWrite(j, r) == Claimed(r, j.tries + 1, j.sendingAt)

\* The claim succeeds and the letter is handed to the transport.
Claim(w) ==
    LET j == job[w]
        u == j.uuid
    IN  /\ j.pc = "claiming"
        /\ CanClaim(row[u], j.tries, j.sendingAt)
        /\ row' = [row EXCEPT ![u] = ClaimWrite(j, @)]
        /\ job' = [job EXCEPT ![w] = [j EXCEPT !.pc = "sending", !.tries = @ + 1]]
        /\ runs' = [runs EXCEPT ![u] = @ + 1]
        /\ UNCHANGED <<now, life, canceller, faults, delivered, ended, hooks>>

\* "Stale claim, skipping".
ClaimRejected(w) ==
    LET j == job[w] IN
    /\ j.pc = "claiming"
    /\ ~CanClaim(row[j.uuid], j.tries, j.sendingAt)
    /\ job' = [job EXCEPT ![w] = IdleJob]
    /\ UNCHANGED <<now, row, life, canceller, faults, history>>

\* The storage throws on the claim; the write may have been executed.
ClaimError(w) ==
    LET j == job[w]
        u == j.uuid
    IN  /\ j.pc = "claiming"
        /\ faults > 0
        /\ \/ UNCHANGED row
           \/ /\ CanClaim(row[u], j.tries, j.sendingAt)
              /\ row' = [row EXCEPT ![u] = ClaimWrite(j, @)]
        /\ job' = [job EXCEPT ![w] = IdleJob]
        /\ faults' = faults - 1
        /\ UNCHANGED <<now, life, canceller, history>>

-----------------------------------------------------------------------------
(* Claim renewal.                                                          *)

RenewStart_NoBudget(w) ==
    LET j == job[w] IN
    /\ j.pc = "sending"
    /\ j.renewAt = 0
    /\ life[Home[w]] = "up"
    /\ job' = [job EXCEPT ![w].renewAt = Max2(Clock(Home[w]), j.sendingAt + 1)]
    /\ UNCHANGED <<now, row, life, canceller, faults, history>>

\* The timer of ___startClaimRenewal fires.  No renewal starts once the
\* transport has answered or the instance is destroyed, nor beyond the budget.
RenewStart(w) ==
    LET j == job[w] IN
    /\ j.pc = "sending"
    /\ j.renewAt = 0
    /\ life[Home[w]] = "up"
    /\ j.renewals < MaxRenewals
    /\ job' = [job EXCEPT ![w] =
         [j EXCEPT !.renewals = @ + 1,
                   !.renewAt = Max2(Clock(Home[w]), j.sendingAt + 1)]]
    /\ UNCHANGED <<now, row, life, canceller, faults, history>>

Renewing(j) == j.pc \in {"sending", "settled"} /\ j.renewAt > 0

\* The renewal of a lost lease fails, and ends renewing: the budget is spent.
Halted(j) == [j EXCEPT !.renewAt = 0, !.renewals = MaxRenewals]

RenewDone_KeepsStamp(w) ==
    LET j == job[w] IN
    /\ Renewing(j)
    /\ IF HoldsLease(row[j.uuid], j.tries, j.sendingAt)
       THEN /\ row' = [row EXCEPT ![j.uuid] = Renewed(@, j.renewAt)]
            /\ job' = [job EXCEPT ![w].renewAt = 0]
       ELSE /\ job' = [job EXCEPT ![w] = Halted(@)]
            /\ UNCHANGED row
    /\ UNCHANGED <<now, life, canceller, faults, history>>

\* The lease-guarded renewal is executed and answered.
RenewDone(w) ==
    LET j == job[w] IN
    /\ Renewing(j)
    /\ IF HoldsLease(row[j.uuid], j.tries, j.sendingAt)
       THEN /\ row' = [row EXCEPT ![j.uuid] = Renewed(@, j.renewAt)]
            /\ job' = [job EXCEPT ![w] = [j EXCEPT !.sendingAt = j.renewAt,
                                                   !.renewAt = 0]]
       ELSE /\ job' = [job EXCEPT ![w] = Halted(@)]
            /\ UNCHANGED row
    /\ UNCHANGED <<now, life, canceller, faults, history>>

\* The storage throws on the renewal; the write may have been executed, and
\* then the row carries a stamp the worker does not know.
RenewError(w) ==
    LET j == job[w] IN
    /\ Renewing(j)
    /\ faults > 0
    /\ \/ UNCHANGED row
       \/ /\ HoldsLease(row[j.uuid], j.tries, j.sendingAt)
          /\ row' = [row EXCEPT ![j.uuid] = Renewed(@, j.renewAt)]
    /\ job' = [job EXCEPT ![w] = Halted(@)]
    /\ faults' = faults - 1
    /\ UNCHANGED <<now, life, canceller, history>>

-----------------------------------------------------------------------------
(* The transport answers; the outcome is decided and written.              *)

\* The transport's callback: it accepted the letter for `result`, a part of
\* the recipients it was offered.  An error, an answer that names nobody and
\* a transport that throws are the empty set.
Settle(w, result) ==
    LET j == job[w] IN
    /\ j.pc = "sending"
    /\ result \subseteq Recipient \ j.accepted
    /\ job' = [job EXCEPT ![w] = [j EXCEPT !.pc = "settled", !.result = result]]
    /\ delivered' = [delivered EXCEPT ![j.uuid] = @ \cup result]
    /\ UNCHANGED <<now, row, life, canceller, faults, runs, ended, hooks>>

\* The branches of the callback, after ___trackAcceptedRecipients: `result` is
\* what this attempt added, `accepted` what the letter's record now holds.
Outcome_OnlyThisAttempt(j, accepted) ==
    CASE j.result # {}                            -> "sent"
      [] j.result = {} /\ j.tries >= MaxTries     -> "failed"
      [] OTHER                                    -> "retried"

Outcome_NeverFails(j, accepted) ==
    CASE j.result # {} /\ accepted = Recipient    -> "sent"
      [] j.result # {} /\ accepted # Recipient    -> "released"
      [] OTHER                                    -> "retried"

Outcome(j, accepted) ==
    CASE j.result # {} /\ accepted = Recipient                       -> "sent"
      [] ~(j.result # {} /\ accepted = Recipient) /\ j.tries >= MaxTries -> "failed"
      [] j.result # {} /\ accepted # Recipient /\ j.tries < MaxTries -> "released"
      [] OTHER                                                       -> "retried"

\* After renewal.stop() the callback goes on: a destroyed instance leaves the
\* claim as it is, otherwise the completion write is issued.
Complete(w) ==
    LET j == job[w]
        accepted == j.accepted \cup j.result
    IN  /\ j.pc = "settled"
        /\ j.renewAt = 0
        /\ IF life[Home[w]] = "aborted"
           THEN job' = [job EXCEPT ![w] = IdleJob]
           ELSE job' = [job EXCEPT ![w] =
                  [j EXCEPT !.pc = "writing",
                            !.accepted = accepted,
                            !.kind = Outcome(j, accepted),
                            !.nextAt = Clock(Home[w]) + RetryDelay]]
        /\ UNCHANGED <<now, row, life, canceller, faults, history>>

Final(kind) == kind \in {"sent", "failed"}

\* The completion write of a lane on the row it holds.
Written(j, r) ==
    CASE j.kind = "sent" /\ KeepHistory   -> Sent(r, j.accepted)
      [] j.kind = "failed" /\ KeepHistory -> Failed(r, j.accepted)
      [] j.kind = "released"              -> Released(r, j.nextAt, j.accepted)
      [] j.kind = "retried"               -> Retried(r, j.nextAt)
      [] OTHER                            -> Removed(r)

Wrote(j) ==
    /\ HoldsLease(row[j.uuid], j.tries, j.sendingAt)
    /\ row' = [row EXCEPT ![j.uuid] = Written(j, @)]
    /\ ended' = IF Final(j.kind) THEN [ended EXCEPT ![j.uuid] = j.kind] ELSE ended

\* The write is executed and acknowledged; after a final one the hook is due.
WriteDone(w) ==
    LET j == job[w] IN
    /\ j.pc = "writing"
    /\ Wrote(j)
    /\ job' = [job EXCEPT ![w] = IF Final(j.kind) THEN [j EXCEPT !.pc = "hook"]
                                                  ELSE IdleJob]
    /\ UNCHANGED <<now, life, canceller, faults, runs, delivered, hooks>>

WriteLost_StillCallsHook(w) ==
    LET j == job[w] IN
    /\ j.pc = "writing"
    /\ ~HoldsLease(row[j.uuid], j.tries, j.sendingAt)
    /\ job' = [job EXCEPT ![w] = IF Final(j.kind) THEN [j EXCEPT !.pc = "hook"]
                                                  ELSE IdleJob]
    /\ UNCHANGED <<now, row, life, canceller, faults, history>>

\* "lease lost before ...": a superseded worker goes away silently.
WriteLost(w) ==
    LET j == job[w] IN
    /\ j.pc = "writing"
    /\ ~HoldsLease(row[j.uuid], j.tries, j.sendingAt)
    /\ job' = [job EXCEPT ![w] = IdleJob]
    /\ UNCHANGED <<now, row, life, canceller, faults, history>>

\* The storage throws on the completion write, which may have been executed;
\* the exception is logged and no hook is called.
WriteError(w) ==
    LET j == job[w] IN
    /\ j.pc = "writing"
    /\ faults > 0
    /\ \/ UNCHANGED <<row, ended>>
       \/ Wrote(j)
    /\ job' = [job EXCEPT ![w] = IdleJob]
    /\ faults' = faults - 1
    /\ UNCHANGED <<now, life, canceller, runs, delivered, hooks>>

\* callHook: onSent after a "sent" write, onError after a "failed" one.
CallHook(w) ==
    LET j == job[w] IN
    /\ j.pc = "hook"
    /\ hooks' = IF j.kind = "sent"
                THEN [hooks EXCEPT ![j.uuid].onSent = @ + 1]
                ELSE [hooks EXCEPT ![j.uuid].onError = @ + 1]
    /\ job' = [job EXCEPT ![w] = IdleJob]
    /\ UNCHANGED <<now, row, life, canceller, faults, runs, delivered, ended>>

-----------------------------------------------------------------------------
(* Instances and time.                                                     *)

\* The process dies, and is started again with nothing in hand.
Crash(s) ==
    /\ faults > 0
    /\ job' = [w \in Lane |-> IF Home[w] = s THEN IdleJob ELSE job[w]]
    /\ life' = [life EXCEPT ![s] = "up"]
    /\ faults' = faults - 1
    /\ UNCHANGED <<now, row, canceller, history>>

\* destroy() neutralises what is in flight, destroy({drain: true}) lets it
\* finish; both stop scanning, for good.
Destroy(s, mode) ==
    /\ faults > 0
    /\ life[s] = "up"
    /\ life' = [life EXCEPT ![s] = mode]
    /\ faults' = faults - 1
    /\ UNCHANGED <<now, row, job, canceller, history>>

Tick ==
    /\ now < MaxTime
    /\ now' = now + 1
    /\ UNCHANGED <<row, life, job, canceller, faults, history>>

-----------------------------------------------------------------------------
LaneStep(w) ==
    \/ \E u \in Row : Fetch(w, u)
    \/ Dispatch(w)
    \/ Claim(w)
    \/ ClaimRejected(w)
    \/ ClaimError(w)
    \/ RenewStart(w)
    \/ RenewDone(w)
    \/ RenewError(w)
    \/ \E result \in SUBSET Recipient : Settle(w, result)
    \/ Complete(w)
    \/ WriteDone(w)
    \/ WriteLost(w)
    \/ WriteError(w)
    \/ CallHook(w)

RowStep(u) == AddToQueue(u) \/ CancelRead(u) \/ CancelWrite(u)

ServerStep(s) == Crash(s) \/ \E mode \in {"draining", "aborted"} : Destroy(s, mode)

Next ==
    \/ \E w \in Lane : LaneStep(w)
    \/ \E u \in Row : RowStep(u)
    \/ \E s \in Server : ServerStep(s)
    \/ Tick

Spec == Init /\ [][Next]_vars

-----------------------------------------------------------------------------
(* What the lifecycle promises.                                            *)

\* Two workers that are past their claim of the same row are on different
\* attempts: the compare-and-set on `tries` hands every attempt number of a
\* row to one worker, whatever the clocks, expiries and crashes.
OneWorkerPerTry ==
    \A w, v \in Lane :
        /\ job[w].pc \in Working
        /\ job[v].pc \in Working
        /\ job[w].uuid = job[v].uuid
        /\ job[w].tries = job[v].tries
        => w = v

\* Every SMTP attempt ever made for a row has consumed one of its tries, and
\* no row gets more than maxTries of them: the claim does not look at maxTries
\* itself and relies on the copy that iterate checked.
AttemptsWithinBudget ==
    \A u \in Row : runs[u] <= row[u].tries /\ row[u].tries <= MaxTries

\* A worker loses its claim only to a takeover (a higher attempt number), to
\* cancelMail, or to a renewal of its own whose acknowledgement was lost.  No
\* step of a peer, and none of its own, strips a claim otherwise.
ClaimLostOnlyToTakeover ==
    \A w \in Lane :
        LET j == job[w]
            r == row[j.uuid]
        IN  j.pc \in Working \ {"hook"} =>
              \/ HoldsLease(r, j.tries, j.sendingAt)
              \/ r.tries > j.tries
              \/ r.isCancelled \/ r.status = "removed"
              \/ faults < MaxFaults /\ r.isSending /\ r.sendingAt > j.sendingAt

\* The hooks of a row are called at most once in all, by whichever of the
\* workers wrote its end: a superseded worker must not lie to onSent or
\* onError.
HookAtMostOnce ==
    \A u \in Row :
        /\ hooks[u].onSent + hooks[u].onError <= 1
        /\ hooks[u].onSent > 0 => ended[u] = "sent"
        /\ hooks[u].onError > 0 => ended[u] = "failed"

\* What the row records as accepted was accepted by some transport, and a row
\* is ended as sent only when every recipient was, over all its attempts.
SentMeansDelivered ==
    \A u \in Row : /\ row[u].accepted \subseteq delivered[u]
                   /\ ended[u] = "sent" => delivered[u] = Recipient

\* Once a completion write has ended a row, no later step of any worker claims,
\* requeues or rewrites it; cancelMail may at most flag it.
EndIsFinal ==
    [][\A u \in Row : ended[u] # "no" =>
          /\ ended'[u] = ended[u]
          /\ runs'[u] = runs[u]
          /\ \/ row'[u] = row[u]
             \/ row'[u] = CancelEffect(row[u])]_vars

\* After cancelMail has returned true no transport is called for the row any
\* more, although copies of it may still be waiting in other instances.
NoSendAfterCancel ==
    [][\A u \in Row : canceller[u] = "cancelled" => runs'[u] = runs[u]]_vars

-----------------------------------------------------------------------------
(* The lifecycle implements MailPromise.                                   *)

PhaseOf(u) ==
    CASE ended[u] # "no"                                  -> ended[u]
      [] ended[u] = "no" /\ row[u].status = "none"        -> "new"
      [] ended[u] = "no" /\ row[u].status # "none"
           /\ row[u].isSending                            -> "sending"
      [] OTHER                                            -> "queued"

ToldOf(u) ==
    CASE hooks[u].onSent > 0                             -> "onSent"
      [] hooks[u].onSent = 0 /\ hooks[u].onError > 0     -> "onError"
      [] OTHER                                           -> "nothing"

\* A row that was removed without having been ended was removed by cancelMail.
CancelledOf(u) ==
    row[u].isCancelled \/ (row[u].status = "removed" /\ ended[u] = "no")

Promise == INSTANCE MailPromise WITH
    phase     <- [u \in Row |-> PhaseOf(u)],
    tries     <- [u \in Row |-> row[u].tries],
    cancelled <- [u \in Row |-> CancelledOf(u)],
    told      <- [u \in Row |-> ToldOf(u)]

\* Every step of the lifecycle, renewals, crashes, destroys and storage errors
\* included, is a step of MailPromise or invisible in it.
KeepsPromise == Promise!Spec

=============================================================================
