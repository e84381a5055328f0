------------------------- MODULE SendLifecycleProofs -------------------------
(***************************************************************************)
(* Proofs about SendLifecycle, for every set of letters, instances, lanes  *)
(* and recipients, every skew of the clocks, timeout, delay and budget:    *)
(* the types, the attempts, the ends, then that a claim is lost only to a  *)
(* takeover, that a letter that ended as sent was delivered, and that the  *)
(* lifecycle implements MailPromise.  At the end, for one letter and       *)
(* clocks that agree, that its waiting is bounded.                         *)
(***************************************************************************)
EXTENDS SendProgress, TLAPS

-----------------------------------------------------------------------------
(* Facts about the operators the actions are made of.                      *)

\* The updates of QueueRow turn a row into a row.
LEMMA RowUpdateTypes ==
    ASSUME NEW r \in RowType, NEW n \in Nat, NEW at \in Nat,
           NEW accepted \in SUBSET Recipient
    PROVE  /\ Claimed(r, n, at) \in RowType
           /\ Renewed(r, at) \in RowType
           /\ Retried(r, at) \in RowType
           /\ Released(r, at, accepted) \in RowType
           /\ Sent(r, accepted) \in RowType
           /\ Failed(r, accepted) \in RowType
           /\ Removed(r) \in RowType
           /\ Cancelled(r) \in RowType
BY DEF RowType, RowStatus, Claimed, Renewed, Retried, Released, Sent, Failed,
       Removed, Cancelled

LEMMA CancelEffectType ==
    ASSUME NEW r \in RowType
    PROVE  CancelEffect(r) \in RowType
BY DEF CancelEffect, Cancelled, Removed, RowType, RowStatus

LEMMA NewRowType ==
    ASSUME NEW status \in RowStatus, NEW at \in Nat
    PROVE  NewRow(status, at) \in RowType
BY DEF RowType, RowStatus, NewRow

\* A lane that is not idle has a job of the full type.
LEMMA BusyJobType ==
    ASSUME TypeOK, NEW w \in Lane, job[w].pc # "idle"
    PROVE  job[w] \in JobType
BY DEF TypeOK, IdleJob

LEMMA ClockType ==
    ASSUME TypeOK, NEW w \in Lane
    PROVE  Home[w] \in Server /\ Clock(Home[w]) \in Nat
BY HomeAssumption, SkewAssumption DEF TypeOK, Clock

\* The completion write of a job makes a row.
LEMMA WrittenType ==
    ASSUME NEW j \in JobType, NEW r \in RowType
    PROVE  Written(j, r) \in RowType
<1>1. j.accepted \in SUBSET Recipient /\ j.nextAt \in Nat
  BY DEF JobType
<1>2. /\ Retried(r, j.nextAt) \in RowType
      /\ Released(r, j.nextAt, j.accepted) \in RowType
      /\ Sent(r, j.accepted) \in RowType
      /\ Failed(r, j.accepted) \in RowType
      /\ Removed(r) \in RowType
  BY <1>1, RowUpdateTypes
<1>3. QED
  BY <1>2 DEF Written

LEMMA OutcomeType ==
    ASSUME NEW j, NEW accepted
    PROVE  Outcome(j, accepted) \in Kinds
BY DEF Outcome, Kinds

-----------------------------------------------------------------------------
(* Type correctness.                                                       *)

LEMMA InitType == Init => TypeOK
<1> SUFFICES ASSUME Init PROVE TypeOK
  OBVIOUS
<1>1. row \in [Row -> RowType]
  BY NewRowType DEF Init, RowStatus
<1>2. faults \in Nat
  BY BoundsAssumption DEF Init
<1>3. QED
  BY <1>1, <1>2 DEF Init, TypeOK

\* Every step of a lane keeps the types.
LEMMA LaneStepType ==
    ASSUME TypeOK, NEW w \in Lane, LaneStep(w)
    PROVE  TypeOK'
<1> DEFINE j == job[w]
           u == job[w].uuid
<1> USE DEF history
<1>0. /\ Home[w] \in Server
      /\ Clock(Home[w]) \in Nat
      /\ Clock(Home[w]) + RetryDelay \in Nat
  BY ClockType, RetryDelayAssumption
<1>1. ASSUME NEW v \in Row, Fetch(w, v)
      PROVE  TypeOK'
  BY <1>1 DEF Fetch, TypeOK, JobType, RowType, Claimless
<1>2. ASSUME j.pc # "idle"
      PROVE  j \in JobType /\ u \in Row /\ row[u] \in RowType
  BY <1>2, BusyJobType DEF JobType, TypeOK
<1>3. CASE Dispatch(w)
  <2>1. j \in JobType
    BY <1>2, <1>3 DEF Dispatch
  <2>2. [j EXCEPT !.pc = "claiming", !.sendingAt = Clock(Home[w])] \in JobType
    BY <1>0, <2>1 DEF JobType, Claimless
  <2>3. QED
    BY <1>3, <2>2 DEF Dispatch, TypeOK
<1>4. ASSUME j.pc = "claiming"
      PROVE  ClaimWrite(j, row[u]) \in RowType
  <2>1. j.tries + 1 \in Nat /\ j.sendingAt \in Nat /\ row[u] \in RowType
    BY <1>2, <1>4 DEF JobType
  <2>2. QED
    BY <2>1, RowUpdateTypes DEF ClaimWrite
<1>5. CASE Claim(w)
  <2>1. j \in JobType /\ ClaimWrite(j, row[u]) \in RowType
    BY <1>2, <1>4, <1>5 DEF Claim
  <2>2. row' \in [Row -> RowType]
    BY <1>5, <2>1 DEF Claim, TypeOK
  <2>3. ASSUME NEW n \in Nat
        PROVE  [j EXCEPT !.pc = "sending", !.tries = n] \in JobType
    BY <2>1 DEF JobType, Working
  <2>4. j.tries + 1 \in Nat /\ u \in Row /\ runs[u] + 1 \in Nat
    BY <2>1 DEF JobType, TypeOK
  <2>5. runs' \in [Row -> Nat]
    BY <1>5, <2>4 DEF Claim, TypeOK
  <2>6. QED
    BY <1>5, <2>2, <2>3, <2>4, <2>5 DEF Claim, TypeOK
<1>6. CASE ClaimRejected(w)
  BY <1>6 DEF ClaimRejected, TypeOK
<1>7. CASE ClaimError(w)
  <2>1. row' \in [Row -> RowType]
    BY <1>4, <1>7 DEF ClaimError, TypeOK
  <2>2. QED
    BY <1>7, <2>1 DEF ClaimError, TypeOK
<1>8. CASE RenewStart(w)
  <2>1. j \in JobType
    BY <1>2, <1>8 DEF RenewStart
  <2>2. Max2(Clock(Home[w]), j.sendingAt + 1) \in Nat
    BY <1>0, <2>1 DEF Max2, JobType
  <2>3. ASSUME NEW n \in Nat, NEW at \in Nat
        PROVE  [j EXCEPT !.renewals = n, !.renewAt = at] \in JobType
    BY <2>1 DEF JobType
  <2>4. j.renewals + 1 \in Nat
    BY <2>1 DEF JobType
  <2>5. QED
    BY <1>8, <2>2, <2>3, <2>4 DEF RenewStart, TypeOK
<1>9. ASSUME Renewing(j)
      PROVE  /\ j \in JobType
             /\ Halted(j) \in JobType
             /\ Renewed(row[u], j.renewAt) \in RowType
  <2>1. j \in JobType /\ row[u] \in RowType
    BY <1>2, <1>9 DEF Renewing
  <2>2. QED
    BY <2>1, RowUpdateTypes, MaxRenewalsAssumption DEF Halted, JobType
<1>10. CASE RenewDone(w)
  <2>1. row' \in [Row -> RowType]
    BY <1>9, <1>10 DEF RenewDone, TypeOK
  <2>2. job' \in [Lane -> JobType \cup {IdleJob}]
    <3>1. /\ j \in JobType
          /\ Halted(j) \in JobType
          /\ [j EXCEPT !.sendingAt = j.renewAt, !.renewAt = 0] \in JobType
      BY <1>9, <1>10 DEF RenewDone, JobType
    <3>2. QED
      BY <1>10, <3>1 DEF RenewDone, TypeOK
  <2>3. QED
    BY <1>10, <2>1, <2>2 DEF RenewDone, TypeOK
<1>11. CASE RenewError(w)
  <2>1. row' \in [Row -> RowType]
    BY <1>9, <1>11 DEF RenewError, TypeOK
  <2>2. QED
    BY <1>9, <1>11, <2>1 DEF RenewError, TypeOK
<1>12. ASSUME NEW result \in SUBSET Recipient, Settle(w, result)
       PROVE  TypeOK'
  BY <1>2, <1>12 DEF Settle, TypeOK, JobType, Working
<1>13. CASE Complete(w)
  <2>1. j \in JobType
    BY <1>2, <1>13 DEF Complete
  <2>2. Outcome(j, j.accepted \cup j.result) \in Kinds
    BY OutcomeType
  <2>3. [j EXCEPT !.pc = "writing",
                  !.accepted = j.accepted \cup j.result,
                  !.kind = Outcome(j, j.accepted \cup j.result),
                  !.nextAt = Clock(Home[w]) + RetryDelay] \in JobType
    BY <1>0, <2>1, <2>2 DEF JobType, Working
  <2>4. QED
    BY <1>13, <2>3 DEF Complete, TypeOK
<1>14. ASSUME j.pc = "writing", Wrote(j)
       PROVE  /\ row' \in [Row -> RowType]
              /\ ended' \in [Row -> {"no", "sent", "failed"}]
  <2>1. j \in JobType /\ row[u] \in RowType
    BY <1>2, <1>14
  <2>2. Written(j, row[u]) \in RowType
    BY <2>1, WrittenType
  <2>3. QED
    BY <1>14, <2>1, <2>2 DEF Wrote, Final, TypeOK
<1>15. CASE WriteDone(w)
  <2>1. j \in JobType
    BY <1>2, <1>15 DEF WriteDone
  <2>2. [j EXCEPT !.pc = "hook"] \in JobType
    BY <2>1 DEF JobType, Working
  <2>3. QED
    BY <1>14, <1>15, <2>2 DEF WriteDone, TypeOK
<1>16. CASE WriteLost(w)
  BY <1>16 DEF WriteLost, TypeOK
<1>17. CASE WriteError(w)
  <2>1. row' \in [Row -> RowType] /\ ended' \in [Row -> {"no", "sent", "failed"}]
    BY <1>14, <1>17 DEF WriteError, TypeOK
  <2>2. QED
    BY <1>17, <2>1 DEF WriteError, TypeOK
<1>18. CASE CallHook(w)
  BY <1>2, <1>18 DEF CallHook, TypeOK
<1>19. QED
  BY <1>1, <1>3, <1>5, <1>6, <1>7, <1>8, <1>10, <1>11, <1>12, <1>13, <1>15,
     <1>16, <1>17, <1>18 DEF LaneStep

LEMMA OtherStepType ==
    ASSUME TypeOK,
           \/ \E u \in Row : RowStep(u)
           \/ \E s \in Server : ServerStep(s)
           \/ Tick
    PROVE  TypeOK'
<1> USE DEF history
<1>1. ASSUME NEW u \in Row, AddToQueue(u)
      PROVE  TypeOK'
  <2>1. NewRow("stored", now) \in RowType
    BY NewRowType DEF TypeOK, RowStatus
  <2>2. QED
    BY <1>1, <2>1 DEF AddToQueue, TypeOK
<1>2. ASSUME NEW u \in Row, CancelRead(u)
      PROVE  TypeOK'
  BY <1>2 DEF CancelRead, TypeOK
<1>3. ASSUME NEW u \in Row, CancelWrite(u)
      PROVE  TypeOK'
  <2>1. CancelEffect(row[u]) \in RowType
    BY CancelEffectType DEF TypeOK
  <2>2. QED
    BY <1>3, <2>1 DEF CancelWrite, TypeOK
<1>4. ASSUME NEW s \in Server, Crash(s)
      PROVE  TypeOK'
  BY <1>4 DEF Crash, TypeOK
<1>5. ASSUME NEW s \in Server, NEW mode \in {"draining", "aborted"}, Destroy(s, mode)
      PROVE  TypeOK'
  BY <1>5 DEF Destroy, TypeOK
<1>6. CASE Tick
  BY <1>6 DEF Tick, TypeOK
<1>7. QED
  BY <1>1, <1>2, <1>3, <1>4, <1>5, <1>6 DEF RowStep, ServerStep

\* The state has the declared types in every behaviour.
THEOREM TypeCorrect == Spec => []TypeOK
<1>1. Init => TypeOK
  BY InitType
<1>2. TypeOK /\ [Next]_vars => TypeOK'
  <2> SUFFICES ASSUME TypeOK, [Next]_vars PROVE TypeOK'
    OBVIOUS
  <2>1. CASE Next
    BY <2>1, LaneStepType, OtherStepType DEF Next
  <2>2. CASE UNCHANGED vars
    BY <2>2 DEF vars, TypeOK
  <2>3. QED
    BY <2>1, <2>2
<1>3. QED
  BY <1>1, <1>2, PTL DEF Spec

-----------------------------------------------------------------------------
(* Attempts.  OneWorkerPerTry is not inductive: a claim gives its worker    *)
(* the number row.tries + 1, which no other worker has because none is      *)
(* ahead of its row.  AttemptsWithinBudget rests on the copies that wait     *)
(* for their claim: the storage no longer asks for maxTries then, so each    *)
(* copy has to be below it.                                                 *)

CopiesBelowBudget ==
    \A w \in Lane : job[w].pc \in Claimless =>
        /\ row[job[w].uuid].status # "none"
        /\ job[w].tries < MaxTries

WorkersNotAhead ==
    \A w \in Lane : job[w].pc \in Working =>
        /\ row[job[w].uuid].status # "none"
        /\ job[w].tries <= row[job[w].uuid].tries

UnpushedUntried ==
    \A u \in Row : row[u].status = "none" => row[u].tries = 0

AttemptInv ==
    /\ CopiesBelowBudget
    /\ WorkersNotAhead
    /\ UnpushedUntried
    /\ OneWorkerPerTry
    /\ AttemptsWithinBudget

\* Steps that neither fetch nor claim: a lane drops its task or goes on with
\* the same attempt, and no row changes its attempt number.
SameAttempt(v) ==
    \/ job'[v].pc = "idle"
    \/ /\ job'[v].uuid = job[v].uuid
       /\ job'[v].tries = job[v].tries
       /\ job'[v].pc \in Working <=> job[v].pc \in Working
       /\ job'[v].pc \in Claimless <=> job[v].pc \in Claimless

SameTries(u) ==
    /\ row'[u].tries = row[u].tries
    /\ row'[u].status = "none" <=> row[u].status = "none"

LEMMA QuietStepAttempts ==
    ASSUME TypeOK, AttemptInv, runs' = runs,
           \A v \in Lane : SameAttempt(v),
           \A u \in Row : SameTries(u)
    PROVE  AttemptInv'
<1>1. ASSUME NEW v \in Lane, job'[v].pc \in Claimless \cup Working
      PROVE  /\ job[v].uuid \in Row
             /\ job'[v].uuid = job[v].uuid
             /\ job'[v].tries = job[v].tries
             /\ job'[v].pc \in Working <=> job[v].pc \in Working
             /\ job'[v].pc \in Claimless <=> job[v].pc \in Claimless
  <2>1. SameAttempt(v) /\ job'[v].pc # "idle"
    BY <1>1 DEF Claimless, Working
  <2>2. job[v].pc # "idle"
    BY <1>1, <2>1 DEF SameAttempt, Claimless, Working
  <2>3. job[v] \in JobType
    BY <2>2, BusyJobType
  <2>4. QED
    BY <2>1, <2>3 DEF SameAttempt, JobType
<1>2. CopiesBelowBudget'
  BY <1>1 DEF CopiesBelowBudget, AttemptInv, SameTries
<1>3. WorkersNotAhead'
  BY <1>1 DEF WorkersNotAhead, AttemptInv, SameTries
<1>4. UnpushedUntried' /\ AttemptsWithinBudget'
  BY DEF UnpushedUntried, AttemptsWithinBudget, AttemptInv, SameTries
<1>5. OneWorkerPerTry'
  BY <1>1 DEF OneWorkerPerTry, AttemptInv
<1>6. QED
  BY <1>2, <1>3, <1>4, <1>5 DEF AttemptInv

LEMMA FetchAttempts ==
    ASSUME TypeOK, AttemptInv, NEW w \in Lane, NEW u \in Row, Fetch(w, u)
    PROVE  AttemptInv'
<1>1. /\ job'[w].pc = "fetched" /\ job'[w].uuid = u
      /\ job'[w].tries = row[u].tries
      /\ \A v \in Lane \ {w} : job'[v] = job[v]
      /\ row' = row /\ runs' = runs
  BY DEF Fetch, TypeOK, history
<1>2. row[u].status # "none" /\ row[u].tries < MaxTries
  BY DEF Fetch, Eligible, Open
<1>3. CopiesBelowBudget'
  BY <1>1, <1>2 DEF CopiesBelowBudget, AttemptInv
<1>4. job'[w].pc \notin Working
  BY <1>1 DEF Working
<1>5. WorkersNotAhead' /\ OneWorkerPerTry'
  BY <1>1, <1>4 DEF WorkersNotAhead, OneWorkerPerTry, AttemptInv
<1>6. UnpushedUntried' /\ AttemptsWithinBudget'
  BY <1>1 DEF UnpushedUntried, AttemptsWithinBudget, AttemptInv
<1>7. QED
  BY <1>3, <1>5, <1>6 DEF AttemptInv

\* The row that a claim write changes: its attempt number goes up by one.
LEMMA ClaimWriteTries ==
    ASSUME TypeOK, AttemptInv, NEW w \in Lane,
           job[w].pc = "claiming",
           CanClaim(row[job[w].uuid], job[w].tries, job[w].sendingAt)
    PROVE  LET j == job[w]
               r == row[j.uuid]
           IN  /\ j \in JobType /\ r \in RowType
               /\ r.status = "stored"
               /\ r.tries = j.tries
               /\ j.tries + 1 <= MaxTries
               /\ ClaimWrite(j, r).tries = r.tries + 1
               /\ ClaimWrite(j, r).status = "stored"
<1>1. job[w] \in JobType
  BY BusyJobType
<1>2. row[job[w].uuid] \in RowType
  BY <1>1 DEF JobType, TypeOK
<1>3. job[w].tries < MaxTries /\ job[w].tries \in Nat
  BY <1>1 DEF AttemptInv, CopiesBelowBudget, Claimless, JobType
<1>4. row[job[w].uuid].status = "stored" /\ row[job[w].uuid].tries = job[w].tries
  BY DEF CanClaim, Open
<1>5. QED
  BY <1>1, <1>2, <1>3, <1>4, MaxTriesAssumption
     DEF ClaimWrite, Claimed, RowType

LEMMA ClaimAttempts ==
    ASSUME TypeOK, AttemptInv, NEW w \in Lane, Claim(w)
    PROVE  AttemptInv'
<1> DEFINE j == job[w]
           u == job[w].uuid
<1>1. /\ j \in JobType /\ u \in Row
      /\ row[u] \in RowType /\ row[u].tries = j.tries
      /\ row[u].status = "stored"
      /\ j.tries + 1 <= MaxTries
      /\ ClaimWrite(j, row[u]).tries = row[u].tries + 1
      /\ ClaimWrite(j, row[u]).status = "stored"
  BY ClaimWriteTries DEF Claim, JobType
<1>2. /\ row'[u].tries = row[u].tries + 1 /\ row'[u].status = "stored"
      /\ \A v \in Row \ {u} : row'[v] = row[v]
  BY <1>1 DEF Claim, TypeOK
<1>3. /\ job'[w].pc = "sending" /\ job'[w].uuid = u
      /\ job'[w].tries = row[u].tries + 1
      /\ \A v \in Lane \ {w} : job'[v] = job[v]
  BY <1>1 DEF Claim, TypeOK, JobType
<1>4. /\ runs'[u] = runs[u] + 1
      /\ \A v \in Row \ {u} : runs'[v] = runs[v]
  BY <1>1 DEF Claim, TypeOK
<1>5. \A v \in Row : row[v].tries \in Nat /\ runs[v] \in Nat
  BY DEF TypeOK, RowType
<1>6. ASSUME NEW v \in Lane \ {w}, job[v].pc \in Claimless \cup Working
      PROVE  job[v].uuid \in Row /\ job[v].tries \in Nat
  <2>1. job[v] \in JobType
    BY <1>6, BusyJobType DEF Claimless, Working
  <2>2. QED
    BY <2>1 DEF JobType
<1>7. CopiesBelowBudget'
  BY <1>2, <1>3, <1>6 DEF CopiesBelowBudget, AttemptInv, Claimless
<1>8. WorkersNotAhead'
  BY <1>1, <1>2, <1>3, <1>5, <1>6 DEF WorkersNotAhead, AttemptInv
<1>9. UnpushedUntried'
  BY <1>2 DEF UnpushedUntried, AttemptInv
<1>10. AttemptsWithinBudget'
  BY <1>1, <1>2, <1>4, <1>5, MaxTriesAssumption DEF AttemptsWithinBudget, AttemptInv
<1>11. ASSUME NEW v \in Lane \ {w}, job[v].pc \in Working, job[v].uuid = u
       PROVE  job[v].tries # row[u].tries + 1
  <2>1. job[v].tries <= row[u].tries
    BY <1>11 DEF WorkersNotAhead, AttemptInv
  <2>2. QED
    BY <1>5, <1>6, <1>11, <2>1
<1>12. OneWorkerPerTry'
  BY <1>3, <1>11 DEF OneWorkerPerTry, AttemptInv
<1>13. QED
  BY <1>7, <1>8, <1>9, <1>10, <1>12 DEF AttemptInv

\* A claim that was executed but not acknowledged consumes a try for nothing.
LEMMA ClaimErrorAttempts ==
    ASSUME TypeOK, AttemptInv, NEW w \in Lane, ClaimError(w)
    PROVE  AttemptInv'
<1> DEFINE j == job[w]
           u == job[w].uuid
<1>1. /\ job'[w].pc = "idle"
      /\ \A v \in Lane \ {w} : job'[v] = job[v]
      /\ runs' = runs
  BY DEF ClaimError, TypeOK, IdleJob, history
<1>2. CASE UNCHANGED row
  <2>1. \A v \in Lane : SameAttempt(v)
    BY <1>1 DEF SameAttempt
  <2>2. \A v \in Row : SameTries(v)
    BY <1>2 DEF SameTries
  <2>3. QED
    BY <1>1, <2>1, <2>2, QuietStepAttempts
<1>3. CASE /\ CanClaim(row[u], j.tries, j.sendingAt)
           /\ row' = [row EXCEPT ![u] = ClaimWrite(j, @)]
  <2>1. /\ j \in JobType /\ u \in Row
        /\ row[u].status = "stored"
        /\ j.tries + 1 <= MaxTries /\ row[u].tries = j.tries
        /\ ClaimWrite(j, row[u]).tries = row[u].tries + 1
        /\ ClaimWrite(j, row[u]).status = "stored"
    BY <1>3, ClaimWriteTries DEF ClaimError, JobType
  <2>2. /\ row'[u].tries = row[u].tries + 1 /\ row'[u].status = "stored"
        /\ \A v \in Row \ {u} : row'[v] = row[v]
    BY <1>3, <2>1 DEF TypeOK
  <2>3. \A v \in Row : row[v].tries \in Nat /\ runs[v] \in Nat
    BY DEF TypeOK, RowType
  <2>4. ASSUME NEW v \in Lane \ {w}, job[v].pc \in Claimless \cup Working
        PROVE  job[v].uuid \in Row /\ job[v].tries \in Nat
    <3>1. job[v] \in JobType
      BY <2>4, BusyJobType DEF Claimless, Working
    <3>2. QED
      BY <3>1 DEF JobType
  <2>5. CopiesBelowBudget'
    BY <1>1, <2>2, <2>4 DEF CopiesBelowBudget, AttemptInv, Claimless
  <2>6. WorkersNotAhead'
    BY <1>1, <2>2, <2>3, <2>4 DEF WorkersNotAhead, AttemptInv, Working
  <2>7. UnpushedUntried' /\ OneWorkerPerTry'
    BY <1>1, <2>2 DEF UnpushedUntried, OneWorkerPerTry, AttemptInv, Working
  <2>8. AttemptsWithinBudget'
    BY <1>1, <2>1, <2>2, <2>3, MaxTriesAssumption DEF AttemptsWithinBudget, AttemptInv
  <2>9. QED
    BY <2>5, <2>6, <2>7, <2>8 DEF AttemptInv
<1>4. QED
  BY <1>2, <1>3 DEF ClaimError

LEMMA AddToQueueAttempts ==
    ASSUME TypeOK, AttemptInv, NEW u \in Row, AddToQueue(u)
    PROVE  AttemptInv'
<1>1. /\ row'[u].tries = 0 /\ row'[u].status = "stored"
      /\ \A v \in Row \ {u} : row'[v] = row[v]
      /\ row[u].status = "none" /\ row[u].tries = 0
      /\ job' = job /\ runs' = runs
  BY DEF AddToQueue, NewRow, TypeOK, AttemptInv, UnpushedUntried, history
<1>2. \A v \in Lane : job[v].pc \in Claimless \cup Working =>
                          job[v].uuid \in Row \ {u}
  <2> SUFFICES ASSUME NEW v \in Lane, job[v].pc \in Claimless \cup Working
               PROVE  job[v].uuid \in Row \ {u}
    OBVIOUS
  <2>1. job[v].uuid \in Row
    BY BusyJobType DEF JobType, Claimless, Working
  <2>2. row[job[v].uuid].status # "none"
    BY DEF AttemptInv, CopiesBelowBudget, WorkersNotAhead
  <2>3. QED
    BY <1>1, <2>1, <2>2
<1>3. CopiesBelowBudget' /\ WorkersNotAhead'
  BY <1>1, <1>2 DEF CopiesBelowBudget, WorkersNotAhead, AttemptInv
<1>4. UnpushedUntried' /\ AttemptsWithinBudget' /\ OneWorkerPerTry'
  BY <1>1, MaxTriesAssumption
     DEF UnpushedUntried, AttemptsWithinBudget, OneWorkerPerTry, AttemptInv
<1>5. QED
  BY <1>3, <1>4 DEF AttemptInv

\* The updates of a lease holder and of cancelMail leave the number alone.
LEMMA UpdatesKeepTries ==
    ASSUME NEW r \in RowType, NEW j, NEW at
    PROVE  /\ Renewed(r, at).tries = r.tries
           /\ Renewed(r, at).status = r.status
           /\ CancelEffect(r).tries = r.tries
           /\ Written(j, r).tries = r.tries
           /\ r.status = "stored" => /\ CancelEffect(r).status # "none"
                                     /\ Written(j, r).status # "none"
<1>1. /\ Renewed(r, at).tries = r.tries /\ Renewed(r, at).status = r.status
      /\ CancelEffect(r).tries = r.tries
      /\ r.status = "stored" => CancelEffect(r).status # "none"
  BY DEF Renewed, CancelEffect, Cancelled, Removed, RowType
<1>2. /\ \A a : /\ Sent(r, a).tries = r.tries /\ Sent(r, a).status = r.status
                /\ Failed(r, a).tries = r.tries /\ Failed(r, a).status = r.status
      /\ \A a, t : /\ Released(r, t, a).tries = r.tries
                   /\ Released(r, t, a).status = r.status
      /\ \A t : Retried(r, t).tries = r.tries /\ Retried(r, t).status = r.status
      /\ Removed(r).tries = r.tries /\ Removed(r).status = "removed"
  BY DEF Sent, Failed, Released, Retried, Removed, RowType
<1>3. /\ Written(j, r).tries = r.tries
      /\ r.status = "stored" => Written(j, r).status # "none"
  BY <1>2 DEF Written
<1>4. QED
  BY <1>1, <1>3

LEMMA QuietLaneStepAttempts ==
    ASSUME TypeOK, AttemptInv, NEW w \in Lane,
           \/ Dispatch(w) \/ ClaimRejected(w)
           \/ RenewStart(w) \/ RenewDone(w) \/ RenewError(w)
           \/ \E result \in SUBSET Recipient : Settle(w, result)
           \/ Complete(w)
           \/ WriteDone(w) \/ WriteLost(w) \/ WriteError(w)
           \/ CallHook(w)
    PROVE  AttemptInv'
<1> DEFINE j == job[w]
           u == job[w].uuid
<1>1. runs' = runs
  BY DEF Dispatch, ClaimRejected, RenewStart, RenewDone, RenewError, Settle,
         Complete, WriteDone, WriteLost, WriteError, CallHook, history
<1>2. j \in JobType /\ row[u] \in RowType /\ u \in Row
  <2>1. j.pc # "idle"
    BY DEF Dispatch, ClaimRejected, RenewStart, RenewDone, RenewError, Renewing,
           Settle, Complete, WriteDone, WriteLost, WriteError, CallHook
  <2>2. QED
    BY <2>1, BusyJobType DEF JobType, TypeOK
<1>3. \A v \in Lane \ {w} : SameAttempt(v)
  BY DEF SameAttempt, TypeOK, Dispatch, ClaimRejected, RenewStart, RenewDone,
         RenewError, Settle, Complete, WriteDone, WriteLost, WriteError, CallHook
<1>4. SameAttempt(w)
  <2>0. ASSUME job'[w] = IdleJob
        PROVE  SameAttempt(w)
    BY <2>0 DEF SameAttempt, IdleJob
  <2>1. CASE Dispatch(w)
    <3>1. \/ job'[w] = IdleJob
          \/ job'[w] = [j EXCEPT !.pc = "claiming", !.sendingAt = Clock(Home[w])]
      BY <2>1 DEF Dispatch, TypeOK
    <3>2. QED
      BY <1>2, <2>0, <2>1, <3>1 DEF Dispatch, SameAttempt, JobType, Claimless, Working
  <2>2. CASE ClaimRejected(w) \/ WriteLost(w) \/ WriteError(w) \/ CallHook(w)
    BY <2>0, <2>2 DEF ClaimRejected, WriteLost, WriteError, CallHook, TypeOK
  <2>3. CASE RenewStart(w)
    BY <1>2, <2>3 DEF RenewStart, SameAttempt, TypeOK, JobType
  <2>4. CASE RenewDone(w) \/ RenewError(w)
    <3>1. \/ job'[w] = Halted(j)
          \/ job'[w] = [j EXCEPT !.sendingAt = j.renewAt, !.renewAt = 0]
      BY <2>4 DEF RenewDone, RenewError, TypeOK
    <3>2. QED
      BY <1>2, <3>1 DEF Halted, SameAttempt, JobType
  <2>5. ASSUME NEW result \in SUBSET Recipient, Settle(w, result)
        PROVE  SameAttempt(w)
    <3>1. job'[w] = [j EXCEPT !.pc = "settled", !.result = result] /\ j.pc = "sending"
      BY <2>5 DEF Settle, TypeOK
    <3>2. QED
      BY <1>2, <3>1 DEF SameAttempt, JobType, Claimless, Working
  <2>6. CASE Complete(w)
    <3>1. /\ j.pc = "settled"
          /\ \/ job'[w] = IdleJob
             \/ job'[w] = [j EXCEPT !.pc = "writing",
                                    !.accepted = j.accepted \cup j.result,
                                    !.kind = Outcome(j, j.accepted \cup j.result),
                                    !.nextAt = Clock(Home[w]) + RetryDelay]
      BY <2>6 DEF Complete, TypeOK
    <3>2. QED
      BY <1>2, <2>0, <3>1 DEF SameAttempt, JobType, Claimless, Working
  <2>7. CASE WriteDone(w)
    BY <1>2, <2>7 DEF WriteDone, SameAttempt, TypeOK, JobType, IdleJob, Claimless, Working
  <2>8. QED
    BY <2>1, <2>2, <2>3, <2>4, <2>5, <2>6, <2>7
<1>5. \/ row' = row
      \/ /\ HoldsLease(row[u], j.tries, j.sendingAt)
         /\ \/ row' = [row EXCEPT ![u] = Renewed(@, j.renewAt)]
            \/ row' = [row EXCEPT ![u] = Written(j, @)]
  BY DEF Dispatch, ClaimRejected, RenewStart, RenewDone, RenewError, Settle,
         Complete, WriteDone, WriteLost, WriteError, CallHook, Wrote
<1>6. \A v \in Row : SameTries(v)
  <2>1. CASE row' = row
    BY <2>1 DEF SameTries
  <2>2. CASE /\ HoldsLease(row[u], j.tries, j.sendingAt)
             /\ \/ row' = [row EXCEPT ![u] = Renewed(@, j.renewAt)]
                \/ row' = [row EXCEPT ![u] = Written(j, @)]
    <3>0. row[u].status = "stored"
      BY <2>2 DEF HoldsLease
    <3>1. /\ row'[u].tries = row[u].tries
          /\ row'[u].status # "none" /\ row[u].status # "none"
      <4>1. row'[u] = Renewed(row[u], j.renewAt) \/ row'[u] = Written(j, row[u])
        BY <1>2, <2>2 DEF TypeOK
      <4>2. QED
        BY <1>2, <3>0, <4>1, UpdatesKeepTries
    <3>2. \A v \in Row \ {u} : row'[v] = row[v]
      BY <2>2 DEF TypeOK
    <3>3. QED
      BY <3>1, <3>2 DEF SameTries
  <2>3. QED
    BY <1>5, <2>1, <2>2
<1>7. QED
  BY <1>1, <1>3, <1>4, <1>6, QuietStepAttempts

LEMMA QuietOtherStepAttempts ==
    ASSUME TypeOK, AttemptInv,
           \/ \E u \in Row : CancelRead(u) \/ CancelWrite(u)
           \/ \E s \in Server : ServerStep(s)
           \/ Tick
           \/ UNCHANGED vars
    PROVE  AttemptInv'
<1>1. runs' = runs
  BY DEF CancelRead, CancelWrite, ServerStep, Crash, Destroy, Tick, vars, history
<1>2. \A v \in Lane : SameAttempt(v)
  BY DEF SameAttempt, IdleJob, TypeOK, CancelRead, CancelWrite, ServerStep, Crash,
         Destroy, Tick, vars
<1>3. \A v \in Row : SameTries(v)
  <2>1. CASE row' = row
    BY <2>1 DEF SameTries
  <2>2. CASE \E u \in Row : CancelWrite(u)
    <3>1. PICK u \in Row : CancelWrite(u)
      BY <2>2
    <3>2. CASE row[u].status = "stored"
      <4>1. row[u] \in RowType
        BY DEF TypeOK
      <4>2. row'[u].tries = row[u].tries /\ row'[u].status # "none"
        BY <3>1, <3>2, <4>1, UpdatesKeepTries DEF CancelWrite, TypeOK
      <4>3. QED
        BY <3>1, <3>2, <4>2 DEF CancelWrite, SameTries, TypeOK
    <3>3. CASE row[u].status # "stored"
      BY <3>1, <3>3 DEF CancelWrite, SameTries
    <3>4. QED
      BY <3>2, <3>3
  <2>3. QED
    BY <2>1, <2>2 DEF CancelRead, ServerStep, Crash, Destroy, Tick, vars
<1>4. QED
  BY <1>1, <1>2, <1>3, QuietStepAttempts

LEMMA AttemptsInductive == Spec => []AttemptInv
<1>1. Init => AttemptInv
  BY MaxTriesAssumption
     DEF Init, AttemptInv, CopiesBelowBudget, WorkersNotAhead, UnpushedUntried,
         OneWorkerPerTry, AttemptsWithinBudget, NewRow, IdleJob, Claimless, Working
<1>2. TypeOK /\ AttemptInv /\ [Next]_vars => AttemptInv'
  <2> SUFFICES ASSUME TypeOK, AttemptInv, [Next]_vars PROVE AttemptInv'
    OBVIOUS
  <2>1. CASE \E w \in Lane : LaneStep(w)
    BY <2>1, FetchAttempts, ClaimAttempts, ClaimErrorAttempts,
       QuietLaneStepAttempts DEF LaneStep
  <2>2. CASE \E u \in Row : RowStep(u)
    BY <2>2, AddToQueueAttempts, QuietOtherStepAttempts DEF RowStep
  <2>3. CASE (\E s \in Server : ServerStep(s)) \/ Tick \/ UNCHANGED vars
    BY <2>3, QuietOtherStepAttempts
  <2>4. QED
    BY <2>1, <2>2, <2>3 DEF Next
<1>3. QED
  BY <1>1, <1>2, TypeCorrect, PTL DEF Spec

\* No two workers past their claim ever share an attempt of a letter.
THEOREM OneWorker == Spec => []OneWorkerPerTry
BY AttemptsInductive, PTL DEF AttemptInv

\* Every SMTP attempt costs a try, and there are at most maxTries of them.
THEOREM Budget == Spec => []AttemptsWithinBudget
BY AttemptsInductive, PTL DEF AttemptInv

-----------------------------------------------------------------------------
(* Ends and hooks.  A row that was ended is closed: no claim and no lease   *)
(* can match it again.  So there is one completion write per row, one lane   *)
(* that waits to call the hook, and it has not been called before.          *)

Closed(r) ==
    \/ r.status = "removed"
    \/ r.status = "stored" /\ r.isFailed
    \/ r.status = "stored" /\ r.isSent /\ ~r.isSending

EndsAreClosed ==
    \A u \in Row : ended[u] # "no" => Closed(row[u])

HookDueOnce ==
    \A w \in Lane : job[w].pc = "hook" =>
        /\ Final(job[w].kind) /\ ended[job[w].uuid] = job[w].kind
        /\ hooks[job[w].uuid].onSent = 0 /\ hooks[job[w].uuid].onError = 0
        /\ \A v \in Lane : job[v].pc = "hook" /\ job[v].uuid = job[w].uuid => v = w

UnendedUntold ==
    \A u \in Row : ended[u] = "no" => hooks[u].onSent = 0 /\ hooks[u].onError = 0

EndInv == EndsAreClosed /\ HookDueOnce /\ UnendedUntold /\ HookAtMostOnce

LEMMA ClosedIsFinal ==
    ASSUME NEW r \in RowType, Closed(r)
    PROVE  /\ r.status # "none"
           /\ \A n, at : ~HoldsLease(r, n, at)
           /\ ~Open(r)
           /\ \A n, at : ~CanClaim(r, n, at)
           /\ Closed(CancelEffect(r))
BY DEF Closed, HoldsLease, Open, CanClaim, CancelEffect, Cancelled, Removed,
       RowType, RowStatus

\* What a step does to the row of a lane.
LEMMA LaneStepRow ==
    ASSUME TypeOK, NEW w \in Lane, LaneStep(w)
    PROVE  LET j == job[w]
               u == j.uuid
           IN  \/ row' = row /\ runs' = runs /\ ended' = ended
               \/ /\ j \in JobType
                  /\ CanClaim(row[u], j.tries, j.sendingAt)
                  /\ \A v \in Row \ {u} : row'[v] = row[v] /\ runs'[v] = runs[v]
                  /\ ended' = ended
               \/ /\ j \in JobType
                  /\ HoldsLease(row[u], j.tries, j.sendingAt)
                  /\ \A v \in Row \ {u} : row'[v] = row[v] /\ ended'[v] = ended[v]
                  /\ runs' = runs
<1> DEFINE j == job[w]
           u == job[w].uuid
<1>1. CASE Claim(w) \/ ClaimError(w)
  <2>1. j \in JobType
    BY <1>1, BusyJobType DEF Claim, ClaimError
  <2>2. QED
    BY <1>1, <2>1 DEF Claim, ClaimError, TypeOK, history
<1>2. CASE RenewDone(w) \/ RenewError(w)
  <2>1. j \in JobType
    BY <1>2, BusyJobType DEF RenewDone, RenewError, Renewing
  <2>2. QED
    BY <1>2, <2>1 DEF RenewDone, RenewError, TypeOK, history
<1>3. CASE WriteDone(w) \/ WriteError(w)
  <2>1. j \in JobType
    BY <1>3, BusyJobType DEF WriteDone, WriteError
  <2>2. (UNCHANGED <<row, ended>> \/ Wrote(j)) /\ runs' = runs
    BY <1>3 DEF WriteDone, WriteError
  <2>3. QED
    BY <2>1, <2>2 DEF Wrote, TypeOK
<1>4. CASE \/ \E v \in Row : Fetch(w, v)
           \/ Dispatch(w) \/ ClaimRejected(w) \/ RenewStart(w)
           \/ \E result \in SUBSET Recipient : Settle(w, result)
           \/ Complete(w) \/ WriteLost(w) \/ CallHook(w)
  BY <1>4 DEF Fetch, Dispatch, ClaimRejected, RenewStart, Settle, Complete,
              WriteLost, CallHook, history
<1>5. QED
  BY <1>1, <1>2, <1>3, <1>4 DEF LaneStep

\* After its end a row is at most flagged or removed by cancelMail.
LEMMA StepAfterEnd ==
    ASSUME TypeOK, EndsAreClosed, [Next]_vars, NEW u \in Row, ended[u] # "no"
    PROVE  /\ ended'[u] = ended[u]
           /\ runs'[u] = runs[u]
           /\ row'[u] = row[u] \/ row'[u] = CancelEffect(row[u])
<1>1. row[u] \in RowType /\ Closed(row[u])
  BY DEF TypeOK, EndsAreClosed
<1>2. /\ \A n, at : ~HoldsLease(row[u], n, at)
      /\ \A n, at : ~CanClaim(row[u], n, at)
      /\ row[u].status # "none"
  BY <1>1, ClosedIsFinal
<1>3. ASSUME NEW w \in Lane, LaneStep(w)
      PROVE  ended'[u] = ended[u] /\ runs'[u] = runs[u] /\ row'[u] = row[u]
  BY <1>2, <1>3, LaneStepRow
<1>4. ASSUME NEW v \in Row, RowStep(v)
      PROVE  /\ ended'[u] = ended[u] /\ runs'[u] = runs[u]
             /\ row'[u] = row[u] \/ row'[u] = CancelEffect(row[u])
  BY <1>2, <1>4 DEF RowStep, AddToQueue, CancelRead, CancelWrite, TypeOK, history
<1>5. CASE (\E s \in Server : ServerStep(s)) \/ Tick \/ UNCHANGED vars
  BY <1>5 DEF ServerStep, Crash, Destroy, Tick, vars, history
<1>6. QED
  BY <1>3, <1>4, <1>5 DEF Next

LEMMA EndsStayClosed ==
    ASSUME TypeOK, EndsAreClosed, [Next]_vars, ended' = ended
    PROVE  EndsAreClosed'
<1> SUFFICES ASSUME NEW u \in Row, ended[u] # "no"
             PROVE  Closed(row'[u])
  BY DEF EndsAreClosed
<1>1. row[u] \in RowType /\ Closed(row[u])
  BY DEF TypeOK, EndsAreClosed
<1>2. row'[u] = row[u] \/ row'[u] = CancelEffect(row[u])
  BY StepAfterEnd
<1>3. QED
  BY <1>1, <1>2, ClosedIsFinal

\* Steps that write no end, make no lane due to call a hook and call none.
LEMMA QuietStepEnds ==
    ASSUME TypeOK, EndInv, [Next]_vars, ended' = ended, hooks' = hooks,
           \A v \in Lane : job'[v].pc = "hook" => job'[v] = job[v]
    PROVE  EndInv'
<1>1. EndsAreClosed'
  BY EndsStayClosed DEF EndInv
<1>2. HookDueOnce'
  BY DEF HookDueOnce, EndInv
<1>3. UnendedUntold' /\ HookAtMostOnce'
  BY DEF UnendedUntold, HookAtMostOnce, EndInv
<1>4. QED
  BY <1>1, <1>2, <1>3 DEF EndInv

\* A final completion write closes the row.
LEMMA FinalWriteCloses ==
    ASSUME NEW r \in RowType, NEW j, Final(j.kind), r.status = "stored"
    PROVE  Closed(Written(j, r))
<1>1. /\ \A a : /\ Sent(r, a).status = "stored" /\ Sent(r, a).isSent
                /\ ~Sent(r, a).isSending
                /\ Failed(r, a).status = "stored" /\ Failed(r, a).isFailed
      /\ Removed(r).status = "removed"
  BY DEF Sent, Failed, Removed, RowType
<1>2. QED
  BY <1>1 DEF Written, Final, Closed

\* An executed completion write found the row unended, hence untold and with
\* no lane due to call its hook.
LEMMA WriteEnds ==
    ASSUME TypeOK, EndInv, NEW w \in Lane, job[w].pc = "writing", Wrote(job[w])
    PROVE  LET j == job[w]
               u == j.uuid
           IN  /\ j \in JobType /\ u \in Row
               /\ ended[u] = "no"
               /\ hooks[u].onSent = 0 /\ hooks[u].onError = 0
               /\ \A v \in Lane : job[v].pc = "hook" => job[v].uuid # u
               /\ \A v \in Row \ {u} : row'[v] = row[v] /\ ended'[v] = ended[v]
               /\ Final(j.kind) => ended'[u] = j.kind /\ Closed(row'[u])
               /\ ~Final(j.kind) => ended' = ended
<1> DEFINE j == job[w]
           u == job[w].uuid
<1>1. j \in JobType /\ u \in Row /\ row[u] \in RowType
  <2>1. j \in JobType
    BY BusyJobType
  <2>2. QED
    BY <2>1 DEF JobType, TypeOK
<1>2. HoldsLease(row[u], j.tries, j.sendingAt)
  BY DEF Wrote
<1>3. ended[u] = "no"
  BY <1>1, <1>2, ClosedIsFinal DEF EndInv, EndsAreClosed
<1>4. hooks[u].onSent = 0 /\ hooks[u].onError = 0
  BY <1>1, <1>3 DEF EndInv, UnendedUntold
<1>5. \A v \in Lane : job[v].pc = "hook" => job[v].uuid # u
  BY <1>3 DEF EndInv, HookDueOnce, Final
<1>6. /\ row'[u] = Written(j, row[u])
      /\ \A v \in Row \ {u} : row'[v] = row[v] /\ ended'[v] = ended[v]
      /\ Final(j.kind) => ended'[u] = j.kind
      /\ ~Final(j.kind) => ended' = ended
  BY <1>1 DEF Wrote, TypeOK
<1>7. Final(j.kind) => Closed(row'[u])
  BY <1>1, <1>2, <1>6, FinalWriteCloses DEF HoldsLease
<1>8. QED
  BY <1>1, <1>3, <1>4, <1>5, <1>6, <1>7

LEMMA FinalWriteEnds ==
    ASSUME TypeOK, EndInv, NEW w \in Lane, Final(job[w].kind),
           job[w].pc = "writing", Wrote(job[w]), hooks' = hooks,
           \A v \in Lane \ {w} : job'[v] = job[v],
           job'[w] \in {IdleJob, [job[w] EXCEPT !.pc = "hook"]}
    PROVE  EndInv'
<1> DEFINE j == job[w]
           u == job[w].uuid
<1>1. /\ j \in JobType /\ u \in Row
      /\ ended[u] = "no"
      /\ hooks[u].onSent = 0 /\ hooks[u].onError = 0
      /\ \A v \in Lane : job[v].pc = "hook" => job[v].uuid # u
      /\ \A v \in Row \ {u} : row'[v] = row[v] /\ ended'[v] = ended[v]
      /\ ended'[u] = j.kind /\ Closed(row'[u])
  BY WriteEnds
<1>2. job'[w].pc = "hook" => job'[w].uuid = u /\ job'[w].kind = j.kind
  BY <1>1 DEF IdleJob, JobType
<1>3. \A v \in Lane \ {w} : job[v].pc = "hook" => job[v].uuid \in Row \ {u}
  BY <1>1, BusyJobType DEF JobType
<1>4. EndsAreClosed'
  BY <1>1 DEF EndInv, EndsAreClosed
<1>5. HookDueOnce'
  BY <1>1, <1>2, <1>3 DEF EndInv, HookDueOnce
<1>6. UnendedUntold'
  BY <1>1 DEF EndInv, UnendedUntold, Final
<1>7. HookAtMostOnce'
  BY <1>1 DEF EndInv, HookAtMostOnce
<1>8. QED
  BY <1>4, <1>5, <1>6, <1>7 DEF EndInv

LEMMA WriteStepEnds ==
    ASSUME TypeOK, EndInv, [Next]_vars, NEW w \in Lane,
           WriteDone(w) \/ WriteError(w)
    PROVE  EndInv'
<1> DEFINE j == job[w]
<1>1. /\ j.pc = "writing" /\ hooks' = hooks
      /\ \A v \in Lane \ {w} : job'[v] = job[v]
      /\ UNCHANGED <<row, ended>> \/ Wrote(j)
  BY DEF WriteDone, WriteError, TypeOK
<1>2. \/ job'[w] = IdleJob
      \/ Final(j.kind) /\ Wrote(j) /\ job'[w] = [j EXCEPT !.pc = "hook"]
  BY DEF WriteDone, WriteError, TypeOK
<1>3. CASE Final(j.kind) /\ Wrote(j)
  BY <1>1, <1>2, <1>3, FinalWriteEnds
<1>4. CASE ~(Final(j.kind) /\ Wrote(j))
  <2>1. ended' = ended
    BY <1>1, <1>4, WriteEnds
  <2>2. \A v \in Lane : job'[v].pc = "hook" => job'[v] = job[v]
    BY <1>1, <1>2, <1>4 DEF IdleJob
  <2>3. QED
    BY <1>1, <2>1, <2>2, QuietStepEnds
<1>5. QED
  BY <1>3, <1>4

LEMMA CallHookEnds ==
    ASSUME TypeOK, EndInv, [Next]_vars, NEW w \in Lane, CallHook(w)
    PROVE  EndInv'
<1> DEFINE j == job[w]
           u == job[w].uuid
<1>1. /\ j.pc = "hook" /\ ended' = ended
      /\ job'[w] = IdleJob /\ \A v \in Lane \ {w} : job'[v] = job[v]
  BY DEF CallHook, TypeOK
<1>2. j \in JobType /\ u \in Row
  BY <1>1, BusyJobType DEF JobType
<1>3. /\ Final(j.kind) /\ ended[u] = j.kind
      /\ hooks[u].onSent = 0 /\ hooks[u].onError = 0
      /\ \A v \in Lane \ {w} : job[v].pc = "hook" => job[v].uuid # u
  BY <1>1 DEF EndInv, HookDueOnce
<1>4. /\ \/ j.kind = "sent" /\ hooks'[u].onSent = 1 /\ hooks'[u].onError = 0
         \/ j.kind = "failed" /\ hooks'[u].onSent = 0 /\ hooks'[u].onError = 1
      /\ \A v \in Row \ {u} : hooks'[v] = hooks[v]
  BY <1>2, <1>3 DEF CallHook, Final, TypeOK
<1>5. EndsAreClosed'
  BY <1>1, EndsStayClosed DEF EndInv
<1>6. HookDueOnce'
  <2> SUFFICES ASSUME NEW v \in Lane, job'[v].pc = "hook"
               PROVE  /\ Final(job'[v].kind) /\ ended'[job'[v].uuid] = job'[v].kind
                      /\ hooks'[job'[v].uuid].onSent = 0
                      /\ hooks'[job'[v].uuid].onError = 0
                      /\ \A x \in Lane : job'[x].pc = "hook" /\ job'[x].uuid = job'[v].uuid
                                         => x = v
    BY DEF HookDueOnce
  <2>1. v # w /\ job'[v] = job[v]
    BY <1>1 DEF IdleJob
  <2>2. job[v].uuid \in Row \ {u}
    BY <1>3, <2>1, BusyJobType DEF JobType
  <2>3. QED
    BY <1>1, <1>4, <2>1, <2>2 DEF EndInv, HookDueOnce, IdleJob
<1>7. UnendedUntold'
  BY <1>1, <1>3, <1>4 DEF EndInv, UnendedUntold, Final
<1>8. HookAtMostOnce'
  BY <1>1, <1>3, <1>4 DEF EndInv, HookAtMostOnce
<1>9. QED
  BY <1>5, <1>6, <1>7, <1>8 DEF EndInv

LEMMA OtherStepEnds ==
    ASSUME TypeOK, EndInv, [Next]_vars,
           \/ \E w \in Lane :
                 \/ \E u \in Row : Fetch(w, u)
                 \/ Dispatch(w) \/ Claim(w) \/ ClaimRejected(w) \/ ClaimError(w)
                 \/ RenewStart(w) \/ RenewDone(w) \/ RenewError(w)
                 \/ \E result \in SUBSET Recipient : Settle(w, result)
                 \/ Complete(w) \/ WriteLost(w)
           \/ \E u \in Row : RowStep(u)
           \/ \E s \in Server : ServerStep(s)
           \/ Tick
           \/ UNCHANGED vars
    PROVE  EndInv'
<1>1. ended' = ended /\ hooks' = hooks
  BY DEF Fetch, Dispatch, Claim, ClaimRejected, ClaimError, RenewStart, RenewDone,
         RenewError, Settle, Complete, WriteLost, RowStep, AddToQueue, CancelRead,
         CancelWrite, ServerStep, Crash, Destroy, Tick, vars, history
<1>2. CASE \E w \in Lane :
              \/ Claim(w)
              \/ RenewStart(w) \/ RenewDone(w) \/ RenewError(w)
              \/ \E result \in SUBSET Recipient : Settle(w, result)
  <2>1. PICK w \in Lane :
           \/ Claim(w)
           \/ RenewStart(w) \/ RenewDone(w) \/ RenewError(w)
           \/ \E result \in SUBSET Recipient : Settle(w, result)
    BY <1>2
  <2>2. job[w] \in JobType /\ job[w].pc # "hook"
    <3>1. job[w].pc \in {"claiming", "sending", "settled"}
      BY <2>1 DEF Claim, RenewStart, RenewDone, RenewError, Renewing, Settle
    <3>2. QED
      BY <3>1, BusyJobType
  <2>3. job'[w].pc # "hook"
    <3>1. CASE Claim(w)
      BY <2>2, <3>1 DEF Claim, TypeOK, JobType
    <3>2. CASE RenewStart(w)
      BY <2>2, <3>2 DEF RenewStart, TypeOK, JobType
    <3>3. CASE RenewDone(w) \/ RenewError(w)
      <4>1. \/ job'[w] = Halted(job[w])
            \/ job'[w] = [job[w] EXCEPT !.sendingAt = job[w].renewAt, !.renewAt = 0]
        BY <3>3 DEF RenewDone, RenewError, TypeOK
      <4>2. QED
        BY <2>2, <4>1 DEF Halted, JobType
    <3>4. ASSUME NEW result \in SUBSET Recipient, Settle(w, result)
          PROVE  job'[w].pc # "hook"
      BY <2>2, <3>4 DEF Settle, TypeOK, JobType
    <3>5. QED
      BY <2>1, <3>1, <3>2, <3>3, <3>4
  <2>4. \A v \in Lane \ {w} : job'[v] = job[v]
    BY <2>1 DEF Claim, RenewStart, RenewDone, RenewError, Settle, TypeOK
  <2>5. QED
    BY <1>1, <2>3, <2>4, QuietStepEnds
<1>3. CASE \/ \E w \in Lane :
                 \/ \E u \in Row : Fetch(w, u)
                 \/ Dispatch(w) \/ ClaimRejected(w) \/ ClaimError(w)
                 \/ Complete(w) \/ WriteLost(w)
           \/ \E u \in Row : RowStep(u)
           \/ \E s \in Server : ServerStep(s)
           \/ Tick
           \/ UNCHANGED vars
  <2>1. ASSUME NEW w \in Lane, NEW u \in Row, Fetch(w, u)
        PROVE  \A v \in Lane : job'[v].pc = "hook" => job'[v] = job[v]
    BY <2>1 DEF Fetch, TypeOK
  <2>2. ASSUME NEW w \in Lane,
               ClaimRejected(w) \/ ClaimError(w) \/ WriteLost(w)
        PROVE  \A v \in Lane : job'[v].pc = "hook" => job'[v] = job[v]
    BY <2>2 DEF ClaimRejected, ClaimError, WriteLost, TypeOK, IdleJob
  <2>3. ASSUME NEW w \in Lane, Dispatch(w) \/ Complete(w)
        PROVE  \A v \in Lane : job'[v].pc = "hook" => job'[v] = job[v]
    <3>1. job[w] \in JobType
      BY <2>3, BusyJobType DEF Dispatch, Complete
    <3>2. job'[w].pc # "hook"
      <4>1. job'[w] = IdleJob => job'[w].pc # "hook"
        BY DEF IdleJob
      <4>2. ASSUME NEW at, job'[w] = [job[w] EXCEPT !.pc = "claiming", !.sendingAt = at]
            PROVE  job'[w].pc # "hook"
        BY <3>1, <4>2 DEF JobType
      <4>3. CASE Dispatch(w)
        <5>1. \/ job'[w] = IdleJob
              \/ job'[w] = [job[w] EXCEPT !.pc = "claiming",
                                          !.sendingAt = Clock(Home[w])]
          BY <4>3 DEF Dispatch, TypeOK
        <5>2. QED
          BY <4>1, <4>2, <5>1
      <4>4. CASE Complete(w)
        <5>1. \/ job'[w] = IdleJob
              \/ job'[w] = [job[w] EXCEPT
                     !.pc = "writing",
                     !.accepted = job[w].accepted \cup job[w].result,
                     !.kind = Outcome(job[w], job[w].accepted \cup job[w].result),
                     !.nextAt = Clock(Home[w]) + RetryDelay]
          BY <4>4 DEF Complete, TypeOK
        <5>2. QED
          BY <3>1, <4>1, <5>1 DEF JobType
      <4>5. QED
        BY <2>3, <4>3, <4>4
    <3>3. QED
      BY <2>3, <3>2 DEF Dispatch, Complete, TypeOK
  <2>4. ASSUME \/ \E u \in Row : RowStep(u)
               \/ \E s \in Server : ServerStep(s)
               \/ Tick
               \/ UNCHANGED vars
        PROVE  \A v \in Lane : job'[v].pc = "hook" => job'[v] = job[v]
    BY <2>4 DEF RowStep, AddToQueue, CancelRead, CancelWrite, ServerStep, Crash,
                Destroy, Tick, vars, IdleJob
  <2>5. QED
    BY <1>1, <1>3, <2>1, <2>2, <2>3, <2>4, QuietStepEnds
<1>4. QED
  BY <1>2, <1>3

LEMMA EndsInductive == Spec => []EndInv
<1>1. Init => EndInv
  BY DEF Init, EndInv, EndsAreClosed, HookDueOnce, UnendedUntold, HookAtMostOnce,
         IdleJob
<1>2. TypeOK /\ EndInv /\ [Next]_vars => EndInv'
  <2> SUFFICES ASSUME TypeOK, EndInv, [Next]_vars PROVE EndInv'
    OBVIOUS
  <2>1. CASE \E w \in Lane : WriteDone(w) \/ WriteError(w)
    BY <2>1, WriteStepEnds
  <2>2. CASE \E w \in Lane : CallHook(w)
    BY <2>2, CallHookEnds
  <2>3. QED
    BY <2>1, <2>2, OtherStepEnds DEF Next, LaneStep
<1>3. QED
  BY <1>1, <1>2, TypeCorrect, PTL DEF Spec

\* onSent and onError are called at most once for a letter, and only for the
\* end that the storage acknowledged.
THEOREM HookOnce == Spec => []HookAtMostOnce
BY EndsInductive, PTL DEF EndInv

\* No step of any worker touches a row after its end.
THEOREM EndFinal == Spec => EndIsFinal
<1>1. TypeOK /\ EndInv /\ [Next]_vars =>
        [\A u \in Row : ended[u] # "no" =>
           /\ ended'[u] = ended[u]
           /\ runs'[u] = runs[u]
           /\ \/ row'[u] = row[u]
              \/ row'[u] = CancelEffect(row[u])]_vars
  BY StepAfterEnd DEF EndInv
<1>2. QED
  BY <1>1, TypeCorrect, EndsInductive, PTL DEF Spec, EndIsFinal

-----------------------------------------------------------------------------
(* Cancelled letters.  What cancelMail leaves behind matches no claim and   *)
(* no lease, and no step clears it.                                         *)

Blocked(r) == r.status = "removed" \/ (r.status = "stored" /\ r.isCancelled)

CancelInv == \A u \in Row : canceller[u] = "cancelled" => Blocked(row[u])

LEMMA BlockedIsFinal ==
    ASSUME NEW r \in RowType, Blocked(r)
    PROVE  /\ r.status # "none"
           /\ \A n, at : ~HoldsLease(r, n, at) /\ ~CanClaim(r, n, at)
           /\ Blocked(CancelEffect(r))
BY DEF Blocked, HoldsLease, Open, CanClaim, CancelEffect, Cancelled, Removed,
       RowType, RowStatus

LEMMA StepAfterCancel ==
    ASSUME TypeOK, CancelInv, [Next]_vars, NEW u \in Row, Blocked(row[u])
    PROVE  runs'[u] = runs[u] /\ Blocked(row'[u])
<1>1. /\ row[u] \in RowType
      /\ \A n, at : ~HoldsLease(row[u], n, at) /\ ~CanClaim(row[u], n, at)
      /\ row[u].status # "none"
      /\ Blocked(CancelEffect(row[u]))
  BY BlockedIsFinal DEF TypeOK
<1>2. ASSUME NEW w \in Lane, LaneStep(w)
      PROVE  runs'[u] = runs[u] /\ row'[u] = row[u]
  BY <1>1, <1>2, LaneStepRow
<1>3. ASSUME NEW v \in Row, RowStep(v)
      PROVE  runs'[u] = runs[u] /\ row'[u] \in {row[u], CancelEffect(row[u])}
  BY <1>1, <1>3 DEF RowStep, AddToQueue, CancelRead, CancelWrite, TypeOK, history
<1>4. CASE (\E s \in Server : ServerStep(s)) \/ Tick \/ UNCHANGED vars
  BY <1>4 DEF ServerStep, Crash, Destroy, Tick, vars, history
<1>5. QED
  BY <1>1, <1>2, <1>3, <1>4 DEF Next

LEMMA CancelInductive == Spec => []CancelInv
<1>1. Init => CancelInv
  BY DEF Init, CancelInv
<1>2. TypeOK /\ CancelInv /\ [Next]_vars => CancelInv'
  <2> SUFFICES ASSUME TypeOK, CancelInv, [Next]_vars,
                      NEW u \in Row, canceller'[u] = "cancelled"
               PROVE  Blocked(row'[u])
    BY DEF CancelInv
  <2>1. CASE canceller[u] = "cancelled"
    BY <2>1, StepAfterCancel DEF CancelInv
  <2>2. CASE canceller[u] # "cancelled"
    <3>1. CancelWrite(u) /\ row[u].status = "stored"
      BY <2>2, ZenonT(60) DEF Next, LaneStep, RowStep, ServerStep, vars, history, TypeOK,
                  Fetch, Dispatch, Claim, ClaimRejected, ClaimError, RenewStart,
                  RenewDone, RenewError, Settle, Complete, WriteDone, WriteLost,
                  WriteError, CallHook, AddToQueue, CancelRead, CancelWrite,
                  Crash, Destroy, Tick
    <3>2. row'[u] = CancelEffect(row[u]) /\ row[u] \in RowType
      BY <3>1 DEF CancelWrite, TypeOK
    <3>3. QED
      BY <3>1, <3>2 DEF CancelEffect, Cancelled, Removed, Blocked, RowType
  <2>3. QED
    BY <2>1, <2>2
<1>3. QED
  BY <1>1, <1>2, TypeCorrect, PTL DEF Spec

\* Once cancelMail has returned true, no transport is called for the letter.
THEOREM CancelStopsSending == Spec => NoSendAfterCancel
<1>1. TypeOK /\ CancelInv /\ [Next]_vars =>
        [\A u \in Row : canceller[u] = "cancelled" => runs'[u] = runs[u]]_vars
  BY StepAfterCancel DEF CancelInv
<1>2. QED
  BY <1>1, TypeCorrect, CancelInductive, PTL DEF Spec, NoSendAfterCancel

-----------------------------------------------------------------------------
(* How the task of a lane changes, field by field.                         *)

Takes(w) ==
    LET k == job'[w] IN
    /\ k.pc = "fetched" /\ k.uuid \in Row
    /\ k.accepted = row[k.uuid].accepted
    /\ k.result = {} /\ k.renewAt = 0
    /\ delivered' = delivered

Goes(w, from, to) ==
    /\ job[w].pc = from /\ job'[w].pc = to
    /\ job'[w].uuid = job[w].uuid

SameLetter(w) ==
    /\ job'[w].accepted = job[w].accepted /\ job'[w].result = job[w].result
    /\ delivered' = delivered

SameLease(w) ==
    job'[w].tries = job[w].tries /\ job'[w].sendingAt = job[w].sendingAt

Stamps(w) ==
    /\ Goes(w, "fetched", "claiming") /\ SameLetter(w)
    /\ job'[w].renewAt = job[w].renewAt

Claims(w) ==
    /\ Goes(w, "claiming", "sending") /\ SameLetter(w)
    /\ job'[w].renewAt = job[w].renewAt
    /\ job'[w].sendingAt = job[w].sendingAt
    /\ job'[w].tries = job[w].tries + 1
    /\ Claim(w)

Renews(w) ==
    /\ Goes(w, "sending", "sending") /\ SameLetter(w) /\ SameLease(w)
    /\ row' = row
    /\ job'[w].renewAt > job[w].sendingAt

EndsRenewal(w) ==
    /\ Goes(w, "sending", "sending") \/ Goes(w, "settled", "settled")
    /\ SameLetter(w)
    /\ job'[w].tries = job[w].tries
    /\ job'[w].renewAt = 0
    /\ RenewDone(w) \/ RenewError(w)

Settles(w) ==
    /\ Goes(w, "sending", "settled") /\ SameLease(w)
    /\ row' = row
    /\ job'[w].renewAt = job[w].renewAt
    /\ job'[w].accepted = job[w].accepted
    /\ job'[w].result \subseteq Recipient
    /\ delivered' = [delivered EXCEPT ![job[w].uuid] = @ \cup job'[w].result]

Completes(w) ==
    /\ Goes(w, "settled", "writing") /\ SameLease(w)
    /\ row' = row
    /\ job[w].renewAt = 0 /\ job'[w].renewAt = 0
    /\ job'[w].accepted = job[w].accepted \cup job[w].result
    /\ job'[w].result = job[w].result
    /\ job'[w].kind = Outcome(job[w], job'[w].accepted)
    /\ delivered' = delivered

Ends(w) ==
    /\ Goes(w, "writing", "hook") /\ SameLetter(w) /\ SameLease(w)
    /\ job'[w].renewAt = job[w].renewAt /\ job'[w].kind = job[w].kind

LaneTransition(w) ==
    \/ job'[w] = IdleJob /\ delivered' = delivered
    \/ Takes(w) \/ Stamps(w) \/ Claims(w) \/ Renews(w) \/ EndsRenewal(w)
    \/ Settles(w) \/ Completes(w) \/ Ends(w)

LEMMA LaneStepTransition ==
    ASSUME TypeOK, NEW w \in Lane, LaneStep(w)
    PROVE  LaneTransition(w) /\ \A v \in Lane \ {w} : job'[v] = job[v]
<1> DEFINE j == job[w]
<1>1. \A v \in Lane \ {w} : job'[v] = job[v]
  BY DEF LaneStep, TypeOK, Fetch, Dispatch, Claim, ClaimRejected, ClaimError,
         RenewStart, RenewDone, RenewError, Settle, Complete, WriteDone, WriteLost,
         WriteError, CallHook
<1> SUFFICES LaneTransition(w)
  BY <1>1
<1>2. ASSUME NEW u \in Row, Fetch(w, u)
      PROVE  Takes(w)
  BY <1>2 DEF Fetch, Takes, TypeOK, history
<1>3. ASSUME j.pc # "idle"
      PROVE  j \in JobType
  BY <1>3, BusyJobType
<1>4. CASE Dispatch(w)
  <2>1. /\ j.pc = "fetched" /\ delivered' = delivered
        /\ \/ job'[w] = IdleJob
           \/ job'[w] = [j EXCEPT !.pc = "claiming", !.sendingAt = Clock(Home[w])]
    BY <1>4 DEF Dispatch, TypeOK, history
  <2>2. j \in JobType
    BY <1>3, <2>1
  <2>3. CASE job'[w] = IdleJob
    BY <2>1, <2>3 DEF LaneTransition
  <2>4. CASE job'[w] # IdleJob
    <3>1. /\ job'[w].pc = "claiming" /\ job'[w].uuid = j.uuid
          /\ job'[w].accepted = j.accepted /\ job'[w].result = j.result
          /\ job'[w].renewAt = j.renewAt
      BY <2>1, <2>2, <2>4 DEF JobType
    <3>2. QED
      BY <2>1, <3>1 DEF LaneTransition, Stamps, Goes, SameLetter
  <2>5. QED
    BY <2>3, <2>4
<1>5. CASE Claim(w)
  <2>1. /\ j.pc = "claiming" /\ delivered' = delivered
        /\ job'[w] = [j EXCEPT !.pc = "sending", !.tries = @ + 1]
    BY <1>5 DEF Claim, TypeOK
  <2>2. j \in JobType
    BY <1>3, <2>1
  <2>3. /\ job'[w].pc = "sending" /\ job'[w].uuid = j.uuid
        /\ job'[w].accepted = j.accepted /\ job'[w].result = j.result
        /\ job'[w].renewAt = j.renewAt /\ job'[w].sendingAt = j.sendingAt
        /\ job'[w].tries = j.tries + 1
    BY <2>1, <2>2 DEF JobType
  <2>4. QED
    BY <1>5, <2>1, <2>3 DEF Claims, Goes, SameLetter, LaneTransition
<1>6. CASE ClaimRejected(w) \/ ClaimError(w) \/ WriteLost(w) \/ WriteError(w)
           \/ CallHook(w)
  BY <1>6 DEF ClaimRejected, ClaimError, WriteLost, WriteError, CallHook, TypeOK,
              history, LaneTransition
<1>7. CASE RenewStart(w)
  <2>1. /\ j.pc = "sending" /\ delivered' = delivered /\ row' = row
        /\ job'[w] = [j EXCEPT !.renewals = @ + 1,
                               !.renewAt = Max2(Clock(Home[w]), j.sendingAt + 1)]
    BY <1>7 DEF RenewStart, TypeOK, history
  <2>2. j \in JobType /\ Clock(Home[w]) \in Nat
    BY <1>3, <2>1, ClockType
  <2>3. Max2(Clock(Home[w]), j.sendingAt + 1) > j.sendingAt
    BY <2>2 DEF Max2, JobType
  <2>4. /\ job'[w].pc = "sending" /\ job'[w].uuid = j.uuid
        /\ job'[w].accepted = j.accepted /\ job'[w].result = j.result
        /\ job'[w].tries = j.tries /\ job'[w].sendingAt = j.sendingAt
    BY <2>1, <2>2 DEF JobType
  <2>5. job'[w].renewAt = Max2(Clock(Home[w]), j.sendingAt + 1)
    BY <2>1, <2>2 DEF JobType
  <2>6. QED
    BY <2>1, <2>3, <2>4, <2>5 DEF LaneTransition, Renews, Goes, SameLetter, SameLease
<1>8. CASE RenewDone(w) \/ RenewError(w)
  <2>1. /\ j.pc \in {"sending", "settled"} /\ delivered' = delivered
        /\ \/ job'[w] = Halted(j)
           \/ job'[w] = [j EXCEPT !.sendingAt = j.renewAt, !.renewAt = 0]
    BY <1>8 DEF RenewDone, RenewError, Renewing, TypeOK, history
  <2>2. j \in JobType
    BY <1>3, <2>1
  <2>3. /\ job'[w].pc = j.pc /\ job'[w].uuid = j.uuid /\ job'[w].tries = j.tries
        /\ job'[w].accepted = j.accepted /\ job'[w].result = j.result
        /\ job'[w].renewAt = 0
    BY <2>1, <2>2 DEF Halted, JobType
  <2>4. QED
    BY <1>8, <2>1, <2>3 DEF LaneTransition, EndsRenewal, Goes, SameLetter
<1>9. ASSUME NEW result \in SUBSET Recipient, Settle(w, result)
      PROVE  Settles(w)
  <2>1. /\ j.pc = "sending" /\ row' = row
        /\ delivered' = [delivered EXCEPT ![j.uuid] = @ \cup result]
        /\ job'[w] = [j EXCEPT !.pc = "settled", !.result = result]
    BY <1>9 DEF Settle, TypeOK
  <2>2. j \in JobType
    BY <1>3, <2>1
  <2>3. /\ job'[w].pc = "settled" /\ job'[w].uuid = j.uuid
        /\ job'[w].accepted = j.accepted /\ job'[w].result = result
        /\ job'[w].tries = j.tries /\ job'[w].sendingAt = j.sendingAt
        /\ job'[w].renewAt = j.renewAt
    BY <2>1, <2>2 DEF JobType
  <2>4. QED
    BY <2>1, <2>3 DEF Settles, Goes, SameLease
<1>10. CASE Complete(w)
  <2>1. /\ j.pc = "settled" /\ j.renewAt = 0 /\ delivered' = delivered /\ row' = row
        /\ \/ job'[w] = IdleJob
           \/ job'[w] = [j EXCEPT !.pc = "writing",
                                  !.accepted = j.accepted \cup j.result,
                                  !.kind = Outcome(j, j.accepted \cup j.result),
                                  !.nextAt = Clock(Home[w]) + RetryDelay]
    BY <1>10 DEF Complete, TypeOK, history
  <2>2. j \in JobType
    BY <1>3, <2>1
  <2>3. CASE job'[w] = IdleJob
    BY <2>1, <2>3 DEF LaneTransition
  <2>4. CASE job'[w] # IdleJob
    <3>1. /\ job'[w].pc = "writing" /\ job'[w].uuid = j.uuid
          /\ job'[w].tries = j.tries /\ job'[w].sendingAt = j.sendingAt
          /\ job'[w].renewAt = j.renewAt /\ job'[w].result = j.result
      BY <2>1, <2>2, <2>4 DEF JobType
    <3>2. /\ job'[w].accepted = j.accepted \cup j.result
          /\ job'[w].kind = Outcome(j, j.accepted \cup j.result)
      BY <2>1, <2>2, <2>4 DEF JobType
    <3>3. QED
      BY <2>1, <3>1, <3>2 DEF LaneTransition, Completes, Goes, SameLease
  <2>5. QED
    BY <2>3, <2>4
<1>11. CASE WriteDone(w)
  <2>1. /\ j.pc = "writing" /\ delivered' = delivered
        /\ job'[w] = IdleJob \/ job'[w] = [j EXCEPT !.pc = "hook"]
    BY <1>11 DEF WriteDone, TypeOK
  <2>2. j \in JobType
    BY <1>3, <2>1
  <2>3. CASE job'[w] = IdleJob
    BY <2>1, <2>3 DEF LaneTransition
  <2>4. CASE job'[w] = [j EXCEPT !.pc = "hook"]
    <3>1. /\ job'[w].pc = "hook" /\ job'[w].uuid = j.uuid
          /\ job'[w].accepted = j.accepted /\ job'[w].result = j.result
          /\ job'[w].tries = j.tries /\ job'[w].sendingAt = j.sendingAt
          /\ job'[w].renewAt = j.renewAt /\ job'[w].kind = j.kind
      BY <2>2, <2>4 DEF JobType
    <3>2. QED
      BY <2>1, <3>1 DEF LaneTransition, Ends, Goes, SameLetter, SameLease
  <2>5. QED
    BY <2>1, <2>3, <2>4
<1>12. QED
  BY <1>2, <1>4, <1>5, <1>6, <1>7, <1>8, <1>9, <1>10, <1>11
     DEF LaneStep, LaneTransition

\* The other steps of the system leave a lane as it is, or empty it.
LEMMA OtherStepTransition ==
    ASSUME TypeOK,
           \/ \E u \in Row : RowStep(u)
           \/ \E s \in Server : ServerStep(s)
           \/ Tick
           \/ UNCHANGED vars
    PROVE  /\ delivered' = delivered
           /\ \A v \in Lane : job'[v] = job[v] \/ job'[v] = IdleJob
BY DEF RowStep, AddToQueue, CancelRead, CancelWrite, ServerStep, Crash, Destroy,
       Tick, vars, TypeOK, history

\* What a step of a lane does to the rows.
RowTransition(w) ==
    LET j == job[w]
        u == j.uuid
    IN  \/ UNCHANGED <<row, ended>>
        \/ /\ j.pc = "claiming" /\ CanClaim(row[u], j.tries, j.sendingAt)
           /\ row' = [row EXCEPT ![u] = ClaimWrite(j, @)] /\ ended' = ended
        \/ /\ Renewing(j) /\ HoldsLease(row[u], j.tries, j.sendingAt)
           /\ row' = [row EXCEPT ![u] = Renewed(@, j.renewAt)] /\ ended' = ended
        \/ j.pc = "writing" /\ Wrote(j)

LEMMA LaneStepRows ==
    ASSUME NEW w \in Lane, LaneStep(w)
    PROVE  RowTransition(w)
BY DEF RowTransition, LaneStep, Fetch, Dispatch, Claim, ClaimRejected, ClaimError,
       RenewStart, RenewDone, RenewError, Settle, Complete, WriteDone, WriteLost,
       WriteError, CallHook, history

\* The recipients a row records, after each update.
LEMMA UpdatesAccepted ==
    ASSUME NEW r \in RowType, NEW j \in JobType, NEW at
    PROVE  /\ ClaimWrite(j, r).accepted = r.accepted
           /\ Renewed(r, at).accepted = r.accepted
           /\ CancelEffect(r).accepted = r.accepted
           /\ Written(j, r).accepted \in {r.accepted, j.accepted}
<1>1. /\ ClaimWrite(j, r).accepted = r.accepted
      /\ Renewed(r, at).accepted = r.accepted
      /\ CancelEffect(r).accepted = r.accepted
  BY DEF ClaimWrite, Claimed, Renewed, CancelEffect, Cancelled, Removed, RowType
<1>2. /\ \A a : Sent(r, a).accepted = a /\ Failed(r, a).accepted = a
      /\ \A a, t : Released(r, t, a).accepted = a
      /\ \A t : Retried(r, t).accepted = r.accepted
      /\ Removed(r).accepted = r.accepted
  BY DEF Sent, Failed, Released, Retried, Removed, RowType
<1>3. Written(j, r).accepted \in {r.accepted, j.accepted}
  BY <1>2 DEF Written
<1>4. QED
  BY <1>1, <1>3

-----------------------------------------------------------------------------
(* Deliveries.  What a row and every copy of it record as accepted was       *)
(* accepted, and a worker writes the outcome that its letter's record asks   *)
(* for; so the write that ends a row as sent finds every recipient reached.  *)

LettersDelivered ==
    \A u \in Row : row[u].accepted \subseteq delivered[u]

CopiesDelivered ==
    \A w \in Lane : job[w].pc # "idle" =>
        job[w].accepted \cup job[w].result \subseteq delivered[job[w].uuid]

OutcomesFit ==
    \A w \in Lane : job[w].pc \in {"writing", "hook"} =>
        /\ job[w].kind \in Kinds
        /\ job[w].kind = "sent" => job[w].accepted = Recipient
        /\ job[w].kind = "failed" => job[w].tries >= MaxTries
        /\ job[w].kind \in {"released", "retried"} => job[w].tries < MaxTries

DeliveryInv ==
    /\ LettersDelivered
    /\ CopiesDelivered
    /\ OutcomesFit
    /\ SentMeansDelivered


\* The outcome a worker decides on, from what the letter's record then holds.
LEMMA OutcomeFits ==
    ASSUME NEW j \in JobType, NEW accepted
    PROVE  LET kind == Outcome(j, accepted) IN
           /\ kind = "sent" => accepted = Recipient
           /\ kind = "failed" => j.tries >= MaxTries
           /\ kind \in {"released", "retried"} => j.tries < MaxTries
<1>1. j.tries \in Nat
  BY DEF JobType
<1>2. QED
  BY <1>1, MaxTriesAssumption DEF Outcome

\* Deliveries are never taken back.
LEMMA DeliveredGrows ==
    ASSUME TypeOK, [Next]_vars
    PROVE  \A u \in Row : delivered[u] \subseteq delivered'[u]
<1>1. ASSUME NEW w \in Lane, LaneStep(w)
      PROVE  \A u \in Row : delivered[u] \subseteq delivered'[u]
  <2>1. LaneTransition(w)
    BY <1>1, LaneStepTransition
  <2>2. CASE Settles(w)
    BY <2>2 DEF Settles, TypeOK
  <2>3. CASE ~Settles(w)
    BY <2>1, <2>3 DEF LaneTransition, Takes, Stamps, Claims, Renews, EndsRenewal,
                      Completes, Ends, SameLetter
  <2>4. QED
    BY <2>2, <2>3
<1>2. CASE \/ \E u \in Row : RowStep(u)
           \/ \E s \in Server : ServerStep(s)
           \/ Tick \/ UNCHANGED vars
  BY <1>2 DEF RowStep, AddToQueue, CancelRead, CancelWrite, ServerStep, Crash, Destroy,
              Tick, vars, history
<1>3. QED
  BY <1>1, <1>2 DEF Next

LEMMA LaneStepDeliveries ==
    ASSUME TypeOK, DeliveryInv, NEW w \in Lane, LaneStep(w)
    PROVE  CopiesDelivered' /\ OutcomesFit'
<1> DEFINE j == job[w]
           k == job'[w]
<1>1. LaneTransition(w) /\ \A v \in Lane \ {w} : job'[v] = job[v]
  BY LaneStepTransition
<1>2. /\ TypeOK'
      /\ \A u \in Row : delivered[u] \subseteq delivered'[u]
  BY LaneStepType, DeliveredGrows DEF Next
<1>3. ASSUME NEW v \in Lane, job[v].pc # "idle"
      PROVE  job[v] \in JobType /\ job[v].uuid \in Row
  BY <1>3, BusyJobType DEF JobType
<1>4. CopiesDelivered'
  <2> SUFFICES ASSUME NEW v \in Lane, job'[v].pc # "idle"
               PROVE  job'[v].accepted \cup job'[v].result
                        \subseteq delivered'[job'[v].uuid]
    BY DEF CopiesDelivered
  <2>1. CASE v # w
    BY <1>1, <1>2, <1>3, <2>1 DEF DeliveryInv, CopiesDelivered
  <2>2. CASE v = w /\ Takes(w)
    BY <2>2 DEF Takes, DeliveryInv, LettersDelivered
  <2>3. CASE v = w /\ j.pc # "idle" /\ k.uuid = j.uuid
    <3>1. j.accepted \cup j.result \subseteq delivered[j.uuid] /\ j.uuid \in Row
      BY <1>3, <2>3 DEF DeliveryInv, CopiesDelivered
    <3>2. CASE SameLetter(w)
      BY <2>3, <3>1, <3>2 DEF SameLetter
    <3>3. CASE Settles(w)
      <4>1. delivered'[j.uuid] = delivered[j.uuid] \cup k.result
        BY <3>1, <3>3 DEF Settles, TypeOK
      <4>2. k.accepted = j.accepted
        BY <3>3 DEF Settles
      <4>3. QED
        BY <2>3, <3>1, <4>1, <4>2
    <3>4. CASE Completes(w)
      BY <2>3, <3>1, <3>4 DEF Completes
    <3>5. QED
      BY <1>1, <2>2, <2>3, <3>2, <3>3, <3>4
         DEF LaneTransition, Stamps, Claims, Renews, EndsRenewal, Ends, IdleJob
  <2>4. k.pc # "idle" => Takes(w) \/ (j.pc # "idle" /\ k.uuid = j.uuid)
    BY <1>1 DEF LaneTransition, Stamps, Claims, Renews, EndsRenewal, Settles,
                Completes, Ends, Goes, IdleJob
  <2>5. QED
    BY <2>1, <2>2, <2>3, <2>4
<1>5. OutcomesFit'
  <2> SUFFICES ASSUME NEW v \in Lane, job'[v].pc \in {"writing", "hook"}
               PROVE  /\ job'[v].kind \in Kinds
                      /\ job'[v].kind = "sent" => job'[v].accepted = Recipient
                      /\ job'[v].kind = "failed" => job'[v].tries >= MaxTries
                      /\ job'[v].kind \in {"released", "retried"} =>
                            job'[v].tries < MaxTries
    BY DEF OutcomesFit
  <2>1. CASE v # w
    BY <1>1, <2>1 DEF DeliveryInv, OutcomesFit
  <2>2. CASE v = w /\ Ends(w)
    BY <2>2 DEF Ends, Goes, SameLetter, SameLease, DeliveryInv, OutcomesFit
  <2>3. CASE v = w /\ Completes(w)
    <3>1. j \in JobType
      BY <1>3, <2>3 DEF Completes, Goes
    <3>2. k.kind = Outcome(j, k.accepted) /\ k.tries = j.tries
      BY <2>3 DEF Completes, SameLease
    <3>3. /\ k.kind \in Kinds
          /\ k.kind = "sent" => k.accepted = Recipient
          /\ k.kind = "failed" => j.tries >= MaxTries
          /\ k.kind \in {"released", "retried"} => j.tries < MaxTries
      BY <3>1, <3>2, OutcomeType, OutcomeFits
    <3>4. QED
      BY <2>3, <3>2, <3>3
  <2>4. CASE v = w /\ ~Ends(w) /\ ~Completes(w)
    BY <1>1, <2>4 DEF LaneTransition, Takes, Stamps, Claims, Renews, EndsRenewal,
                      Settles, Goes, IdleJob
  <2>5. QED
    BY <2>1, <2>2, <2>3, <2>4
<1>6. QED
  BY <1>4, <1>5

LEMMA LaneStepLetters ==
    ASSUME TypeOK, DeliveryInv, NEW w \in Lane, LaneStep(w)
    PROVE  LettersDelivered' /\ SentMeansDelivered'
<1> DEFINE j == job[w]
           u == job[w].uuid
<1>1. RowTransition(w)
  BY LaneStepRows
<1>2. /\ TypeOK'
      /\ \A v \in Row : delivered[v] \subseteq delivered'[v]
  BY LaneStepType, DeliveredGrows DEF Next
<1>3. \A v \in Row : /\ row[v].accepted \subseteq delivered[v]
                     /\ ended[v] = "sent" => delivered[v] = Recipient
                     /\ delivered'[v] \subseteq Recipient
  BY <1>2 DEF DeliveryInv, LettersDelivered, SentMeansDelivered, TypeOK
<1>4. CASE UNCHANGED <<row, ended>>
  BY <1>2, <1>3, <1>4 DEF LettersDelivered, SentMeansDelivered
<1>5. CASE ~UNCHANGED <<row, ended>>
  <2>1. j \in JobType /\ u \in Row /\ row[u] \in RowType
    <3>1. j \in JobType
      BY <1>1, <1>5, BusyJobType DEF RowTransition, Renewing
    <3>2. QED
      BY <3>1 DEF JobType, TypeOK
  <2>2. j.accepted \subseteq delivered[u]
    BY <1>1, <1>5, <2>1 DEF DeliveryInv, CopiesDelivered, RowTransition, Renewing
  <2>3. /\ row'[u] \in {ClaimWrite(j, row[u]), Renewed(row[u], j.renewAt),
                       Written(j, row[u])}
        /\ \A v \in Row \ {u} : row'[v] = row[v] /\ ended'[v] = ended[v]
    BY <1>1, <1>5, <2>1 DEF RowTransition, Wrote, TypeOK
  <2>4. row'[u].accepted \in {row[u].accepted, j.accepted}
    BY <2>1, <2>3, UpdatesAccepted
  <2>5. LettersDelivered'
    BY <1>2, <1>3, <2>2, <2>3, <2>4 DEF LettersDelivered
  <2>6. ended'[u] = "sent" => delivered'[u] = Recipient
    <3>1. CASE ended'[u] = ended[u]
      BY <1>2, <1>3, <2>1, <3>1, ZenonT(60)
    <3>2. CASE ended'[u] # ended[u]
      <4>1. j.pc = "writing" /\ ended'[u] = j.kind
        BY <1>1, <2>1, <3>2 DEF RowTransition, Wrote, TypeOK
      <4>2. j.kind = "sent" => j.accepted = Recipient
        BY <4>1 DEF DeliveryInv, OutcomesFit
      <4>3. QED
        <5>1. delivered[u] \subseteq delivered'[u] /\ delivered'[u] \subseteq Recipient
          BY <1>2, <1>3, <2>1
        <5>2. QED
          BY <2>2, <4>1, <4>2, <5>1
    <3>3. QED
      BY <3>1, <3>2
  <2>7. SentMeansDelivered'
    <3>1. ASSUME NEW v \in Row \ {u}, ended'[v] = "sent"
          PROVE  delivered'[v] = Recipient
      BY <1>2, <1>3, <2>3, <3>1
    <3>2. QED
      BY <2>5, <2>6, <3>1 DEF SentMeansDelivered, LettersDelivered
  <2>8. QED
    BY <2>5, <2>7
<1>6. QED
  BY <1>4, <1>5

LEMMA OtherStepDeliveries ==
    ASSUME TypeOK, DeliveryInv,
           \/ \E u \in Row : RowStep(u)
           \/ \E s \in Server : ServerStep(s)
           \/ Tick
           \/ UNCHANGED vars
    PROVE  DeliveryInv'
<1>1. /\ delivered' = delivered
      /\ \A v \in Lane : job'[v] = job[v] \/ job'[v] = IdleJob
  BY OtherStepTransition
<1>2. CopiesDelivered' /\ OutcomesFit'
  BY <1>1 DEF DeliveryInv, CopiesDelivered, OutcomesFit, IdleJob
<1>3. ended' = ended
  BY DEF RowStep, AddToQueue, CancelRead, CancelWrite, ServerStep, Crash, Destroy,
         Tick, vars, history
<1>4. ASSUME NEW v \in Row
      PROVE  row'[v].accepted \in {row[v].accepted, {}}
  <2>1. row[v] \in RowType
    BY DEF TypeOK
  <2>2. row'[v] \in {row[v], NewRow("stored", now), CancelEffect(row[v])}
    BY DEF RowStep, AddToQueue, CancelRead, CancelWrite, ServerStep, Crash, Destroy,
           Tick, vars, TypeOK
  <2>3. CancelEffect(row[v]).accepted = row[v].accepted
    BY <2>1 DEF CancelEffect, Cancelled, Removed, RowType
  <2>4. QED
    BY <2>2, <2>3 DEF NewRow
<1>5. LettersDelivered' /\ SentMeansDelivered'
  BY <1>1, <1>3, <1>4 DEF DeliveryInv, LettersDelivered, SentMeansDelivered
<1>6. QED
  BY <1>2, <1>5 DEF DeliveryInv

LEMMA DeliveriesInductive == Spec => []DeliveryInv
<1>1. Init => DeliveryInv
  BY DEF Init, DeliveryInv, LettersDelivered, CopiesDelivered, OutcomesFit,
         SentMeansDelivered, NewRow, IdleJob
<1>2. TypeOK /\ DeliveryInv /\ [Next]_vars => DeliveryInv'
  BY LaneStepDeliveries, LaneStepLetters, OtherStepDeliveries DEF Next, DeliveryInv
<1>3. QED
  BY <1>1, <1>2, TypeCorrect, PTL DEF Spec

\* A letter that was ended as sent was accepted for every one of its recipients,
\* over all its attempts, and a row never records an acceptance nobody made.
THEOREM SentIsDelivered == Spec => []SentMeansDelivered
BY DeliveriesInductive, PTL DEF DeliveryInv

-----------------------------------------------------------------------------
(* Claims.  A renewal moves the stamp of a row forward, and its worker knows *)
(* the new stamp unless a fault has lost the acknowledgement.  A peer can     *)
(* only take the row over: nobody else has this worker's attempt number.    *)

RenewalsForward ==
    \A w \in Lane : job[w].pc # "idle" =>
        /\ job[w].pc \in Claimless => job[w].renewAt = 0
        /\ job[w].renewAt > 0 => job[w].renewAt > job[w].sendingAt

ClaimInv ==
    /\ RenewalsForward
    /\ faults <= MaxFaults
    /\ ClaimLostOnlyToTakeover

\* The other steps of a lane leave the forwardness of renewals alone.
LEMMA RenewalsStep ==
    ASSUME TypeOK, RenewalsForward, [Next]_vars
    PROVE  RenewalsForward'
<1>1. ASSUME NEW w \in Lane, LaneStep(w)
      PROVE  RenewalsForward'
  <2>1. LaneTransition(w) /\ \A v \in Lane \ {w} : job'[v] = job[v]
    BY <1>1, LaneStepTransition
  <2>2. job[w].pc # "idle" => job[w] \in JobType
    BY BusyJobType
  <2>3. job'[w].pc # "idle" =>
           /\ job'[w].pc \in Claimless => job'[w].renewAt = 0
           /\ job'[w].renewAt > 0 => job'[w].renewAt > job'[w].sendingAt
    <3>1. CASE Takes(w)
      BY <3>1 DEF Takes
    <3>2. CASE EndsRenewal(w)
      BY <3>2 DEF EndsRenewal
    <3>3. CASE Stamps(w)
      <4>1. job[w].renewAt = 0 /\ job'[w].renewAt = 0
        BY <3>3 DEF Stamps, Goes, RenewalsForward, Claimless
      <4>2. QED
        BY <4>1
    <3>4. CASE Claims(w) \/ Settles(w) \/ Ends(w)
      BY <3>4 DEF Claims, Settles, Ends, Goes, SameLease, RenewalsForward, Claimless
    <3>5. CASE Renews(w)
      BY <3>5 DEF Renews, Goes, SameLease, Claimless
    <3>6. CASE Completes(w)
      BY <3>6 DEF Completes, Goes, Claimless
    <3>7. QED
      BY <2>1, <3>1, <3>2, <3>3, <3>4, <3>5, <3>6 DEF LaneTransition, IdleJob
  <2>4. QED
    BY <2>1, <2>3 DEF RenewalsForward
<1>2. CASE \/ \E u \in Row : RowStep(u)
           \/ \E s \in Server : ServerStep(s)
           \/ Tick \/ UNCHANGED vars
  <2>1. \A v \in Lane : job'[v] = job[v] \/ job'[v] = IdleJob
    BY <1>2, OtherStepTransition
  <2>2. QED
    BY <2>1 DEF RenewalsForward, IdleJob
<1>3. QED
  BY <1>1, <1>2 DEF Next

LEMMA FaultsRunOut ==
    ASSUME TypeOK, [Next]_vars
    PROVE  faults' <= faults
<1>1. faults' = faults \/ faults' = faults - 1
  BY DEF Next, LaneStep, RowStep, ServerStep, vars, history, Fetch, Dispatch,
         Claim, ClaimRejected, ClaimError, RenewStart, RenewDone, RenewError, Settle,
         Complete, WriteDone, WriteLost, WriteError, CallHook, AddToQueue, CancelRead,
         CancelWrite, Crash, Destroy, Tick
<1>2. QED
  BY <1>1 DEF TypeOK

\* What another lane, cancelMail or anybody else can do to the row a worker
\* has claimed: nothing, take it over, or cancel it.
LEMMA PeerStepRow ==
    ASSUME TypeOK, AttemptInv, [Next]_vars,
           NEW v \in Lane, job[v].pc \in Working, ~LaneStep(v)
    PROVE  LET r == row'[job[v].uuid]
           IN  \/ r = row[job[v].uuid]
               \/ r.tries > job[v].tries
               \/ r.isCancelled \/ r.status = "removed"
<1> DEFINE u == job[v].uuid
<1>1. /\ job[v] \in JobType /\ u \in Row /\ row[u] \in RowType
      /\ job[v].tries \in Nat /\ row[u].tries \in Nat
  <2>1. job[v] \in JobType
    BY BusyJobType DEF Working
  <2>2. QED
    BY <2>1 DEF JobType, TypeOK, RowType
<1>2. row[u].status # "none" /\ job[v].tries <= row[u].tries
  BY DEF AttemptInv, WorkersNotAhead
<1>3. ASSUME NEW w \in Lane, LaneStep(w), row'[u] # row[u]
      PROVE  row'[u].tries > job[v].tries
  <2> DEFINE j == job[w]
  <2>0. w # v /\ RowTransition(w)
    BY <1>3, LaneStepRows
  <2>1. /\ j \in JobType /\ j.uuid = u
        /\ \/ j.pc = "claiming" /\ CanClaim(row[u], j.tries, j.sendingAt)
              /\ row'[u] = ClaimWrite(j, row[u])
           \/ /\ HoldsLease(row[u], j.tries, j.sendingAt) /\ j.pc \in Working
              /\ row'[u] = Renewed(row[u], j.renewAt) \/ row'[u] = Written(j, row[u])
    <3>1. j \in JobType
      BY <1>3, <2>0, BusyJobType DEF RowTransition, Renewing
    <3>2. j.uuid \in Row
      BY <3>1 DEF JobType
    <3>3. j.uuid = u
      BY <1>1, <1>3, <2>0, <3>2 DEF RowTransition, Wrote, TypeOK
    <3>4. QED
      BY <1>1, <1>3, <2>0, <3>1, <3>3 DEF RowTransition, Wrote, Renewing, Working, TypeOK
  <2>2. CASE j.pc = "claiming" /\ CanClaim(row[u], j.tries, j.sendingAt)
             /\ row'[u] = ClaimWrite(j, row[u])
    <3>1. ClaimWrite(j, row[u]).tries = row[u].tries + 1
      BY <2>1, <2>2, ClaimWriteTries
    <3>2. QED
      BY <1>1, <1>2, <2>2, <3>1
  <2>3. CASE /\ HoldsLease(row[u], j.tries, j.sendingAt) /\ j.pc \in Working
             /\ row'[u] = Renewed(row[u], j.renewAt) \/ row'[u] = Written(j, row[u])
    <3>1. row'[u].tries = row[u].tries
      <4>1. /\ Renewed(row[u], j.renewAt).tries = row[u].tries
            /\ Written(j, row[u]).tries = row[u].tries
        BY <1>1, UpdatesKeepTries
      <4>2. QED
        BY <2>3, <4>1
    <3>2. row[u].tries = j.tries
      BY <2>3 DEF HoldsLease
    <3>3. j.tries # job[v].tries
      BY <2>0, <2>1, <2>3 DEF AttemptInv, OneWorkerPerTry
    <3>4. QED
      BY <1>1, <1>2, <3>1, <3>2, <3>3
  <2>4. QED
    BY <2>1, <2>2, <2>3
<1>4. ASSUME NEW x \in Row, RowStep(x), row'[u] # row[u]
      PROVE  row'[u].isCancelled \/ row'[u].status = "removed"
  <2>1. row'[u] = CancelEffect(row[u])
    BY <1>1, <1>2, <1>4 DEF RowStep, AddToQueue, CancelRead, CancelWrite, TypeOK
  <2>2. QED
    BY <1>1, <2>1 DEF CancelEffect, Cancelled, Removed, RowType
<1>5. CASE (\E s \in Server : ServerStep(s)) \/ Tick \/ UNCHANGED vars
  BY <1>5 DEF ServerStep, Crash, Destroy, Tick, vars
<1>6. QED
  BY <1>3, <1>4, <1>5 DEF Next

\* The promise about one worker.
Keeps(j, r) ==
    \/ HoldsLease(r, j.tries, j.sendingAt)
    \/ r.tries > j.tries
    \/ r.isCancelled \/ r.status = "removed"
    \/ faults < MaxFaults /\ r.isSending /\ r.sendingAt > j.sendingAt

\* A worker's own step.
LEMMA OwnStepKeeps ==
    ASSUME TypeOK, AttemptInv, ClaimInv, NEW w \in Lane, LaneStep(w),
           job'[w].pc \in Working \ {"hook"}
    PROVE  Keeps(job[w], row[job[w].uuid])' 
<1> DEFINE j == job[w]
           k == job'[w]
           u == job[w].uuid
<1>1. LaneTransition(w)
  BY LaneStepTransition
<1>2. k.uuid = u /\ j.pc # "idle"
  BY <1>1 DEF LaneTransition, Takes, Stamps, Claims, Renews, EndsRenewal, Settles,
              Completes, Ends, Goes, Working, IdleJob
<1>3. j \in JobType /\ u \in Row /\ row[u] \in RowType
  <2>1. j \in JobType
    BY <1>2, BusyJobType
  <2>2. QED
    BY <2>1 DEF JobType, TypeOK
<1>4. faults' <= faults /\ faults \in Nat /\ faults' \in Nat /\ MaxFaults \in Nat
      /\ faults <= MaxFaults
  BY FaultsRunOut, LaneStepType, BoundsAssumption DEF Next, TypeOK, ClaimInv
<1>5. j.pc \in Working \ {"hook"} => Keeps(j, row[u])
  BY DEF ClaimInv, ClaimLostOnlyToTakeover, Keeps
<1>6. CASE Claims(w)
  <2>1. row'[u] = ClaimWrite(j, row[u]) /\ CanClaim(row[u], j.tries, j.sendingAt)
    BY <1>3, <1>6 DEF Claims, Claim, TypeOK
  <2>2. HoldsLease(row'[u], j.tries + 1, j.sendingAt)
    BY <1>3, <2>1 DEF ClaimWrite, Claimed, CanClaim, Open, HoldsLease, RowType
  <2>3. QED
    BY <1>2, <1>6, <2>2 DEF Claims, Keeps
<1>7. CASE Renews(w) \/ Settles(w) \/ Completes(w)
  <2>1. row' = row /\ j.pc \in Working \ {"hook"}
        /\ k.tries = j.tries /\ k.sendingAt = j.sendingAt
    BY <1>7 DEF Renews, Settles, Completes, Goes, SameLease, Working
  <2>2. QED
    BY <1>2, <1>4, <1>5, <2>1 DEF Keeps
<1>8. CASE EndsRenewal(w)
  <2>1. /\ j.pc \in Working \ {"hook"} /\ k.tries = j.tries
        /\ RenewDone(w) \/ RenewError(w)
    BY <1>8 DEF EndsRenewal, Goes, Working
  <2>2. CASE row' = row /\ job'[w] = Halted(j)
    <3>1. k.sendingAt = j.sendingAt
      BY <1>3, <2>2 DEF Halted, JobType
    <3>2. QED
      BY <1>2, <1>4, <1>5, <2>1, <2>2, <3>1 DEF Keeps
  <2>3. CASE /\ HoldsLease(row[u], j.tries, j.sendingAt)
             /\ row' = [row EXCEPT ![u] = Renewed(@, j.renewAt)]
             /\ job'[w] = [j EXCEPT !.sendingAt = j.renewAt, !.renewAt = 0]
    <3>1. k.sendingAt = j.renewAt
      BY <1>3, <2>3 DEF JobType
    <3>2. HoldsLease(row'[u], j.tries, j.renewAt)
      BY <1>3, <2>3 DEF HoldsLease, Renewed, RowType, TypeOK
    <3>3. QED
      BY <1>2, <2>1, <3>1, <3>2 DEF Keeps
  <2>4. CASE /\ RenewError(w)
             /\ HoldsLease(row[u], j.tries, j.sendingAt)
             /\ row' = [row EXCEPT ![u] = Renewed(@, j.renewAt)]
    <3>1. job'[w] = Halted(j) /\ faults' = faults - 1 /\ j.renewAt > 0
      BY <2>4 DEF RenewError, Renewing, TypeOK
    <3>2. k.sendingAt = j.sendingAt
      BY <1>3, <3>1 DEF Halted, JobType
    <3>3. j.renewAt > j.sendingAt
      BY <1>2, <3>1 DEF ClaimInv, RenewalsForward
    <3>4. row'[u].isSending /\ row'[u].sendingAt = j.renewAt
      BY <1>3, <2>4 DEF Renewed, RowType, TypeOK
    <3>5. faults' < MaxFaults
      BY <1>4, <3>1
    <3>6. QED
      BY <1>2, <3>2, <3>3, <3>4, <3>5 DEF Keeps
  <2>5. QED
    BY <2>1, <2>2, <2>3, <2>4 DEF RenewDone, RenewError, TypeOK
<1>9. QED
  BY <1>1, <1>6, <1>7, <1>8 DEF LaneTransition, Takes, Stamps, Ends, Goes, Working, IdleJob

LEMMA ClaimsInductive == Spec => []ClaimInv
<1>1. Init => ClaimInv
  BY BoundsAssumption DEF Init, ClaimInv, RenewalsForward, ClaimLostOnlyToTakeover,
     IdleJob, Working
<1>2. TypeOK /\ TypeOK' /\ AttemptInv /\ ClaimInv /\ [Next]_vars => ClaimInv'
  <2> SUFFICES ASSUME TypeOK, TypeOK', AttemptInv, ClaimInv, [Next]_vars PROVE ClaimInv'
    OBVIOUS
  <2>1. /\ faults' <= faults /\ faults \in Nat /\ faults' \in Nat /\ MaxFaults \in Nat
        /\ faults <= MaxFaults
    BY FaultsRunOut, BoundsAssumption DEF TypeOK, ClaimInv
  <2>2. RenewalsForward'
    BY RenewalsStep DEF ClaimInv
  <2>3. ASSUME NEW v \in Lane, job'[v].pc \in Working \ {"hook"}
        PROVE  Keeps(job[v], row[job[v].uuid])'
    <3>1. CASE LaneStep(v)
      BY <2>3, <3>1, OwnStepKeeps
    <3>2. CASE ~LaneStep(v)
      <4>1. job'[v] = job[v]
        <5>1. job'[v] = job[v] \/ job'[v] = IdleJob
          BY <3>2, LaneStepTransition, OtherStepTransition DEF Next
        <5>2. QED
          BY <2>3, <5>1 DEF IdleJob, Working
      <4>2. Keeps(job[v], row[job[v].uuid])
        BY <2>3, <4>1 DEF ClaimInv, ClaimLostOnlyToTakeover, Keeps
      <4>3. \/ row'[job[v].uuid] = row[job[v].uuid]
            \/ row'[job[v].uuid].tries > job[v].tries
            \/ row'[job[v].uuid].isCancelled
            \/ row'[job[v].uuid].status = "removed"
        BY <2>3, <3>2, <4>1, PeerStepRow
      <4>4. QED
        BY <2>1, <4>1, <4>2, <4>3 DEF Keeps
    <3>3. QED
      BY <3>1, <3>2
  <2>4. ClaimLostOnlyToTakeover'
    BY <2>3 DEF ClaimLostOnlyToTakeover, Keeps
  <2>5. QED
    BY <2>1, <2>2, <2>4 DEF ClaimInv
<1>3. QED
  BY <1>1, <1>2, TypeCorrect, AttemptsInductive, PTL DEF Spec

\* A worker loses its claim only to a takeover, to cancelMail or to a renewal of
\* its own whose acknowledgement was lost.
THEOREM ClaimIsKept == Spec => []ClaimLostOnlyToTakeover
BY ClaimsInductive, PTL DEF ClaimInv

-----------------------------------------------------------------------------
(* The lifecycle implements MailPromise.  The promise sees of a letter its   *)
(* phase, the number of its attempts, whether it is cancelled and what its   *)
(* sender was told; each step changes the view of one letter at most.        *)

\* A row that was not pushed yet cannot be cancelled.
NoneIsFresh ==
    \A u \in Row : row[u].status = "none" => ~row[u].isCancelled

LEMMA FreshInductive == Spec => []NoneIsFresh
<1>1. Init => NoneIsFresh
  BY DEF Init, NoneIsFresh, NewRow
<1>2. TypeOK /\ NoneIsFresh /\ [Next]_vars => NoneIsFresh'
  <2> SUFFICES ASSUME TypeOK, NoneIsFresh, [Next]_vars,
                      NEW u \in Row, row'[u].status = "none"
               PROVE  ~row'[u].isCancelled
    BY DEF NoneIsFresh
  <2>1. row[u] \in RowType
    BY DEF TypeOK
  <2>2. ASSUME row'[u] # row[u]
        PROVE  row'[u].status # "none"
    <3>1. CASE \E w \in Lane : LaneStep(w)
      <4>1. PICK w \in Lane : LaneStep(w)
        BY <3>1
      <4> DEFINE j == job[w]
      <4>2. RowTransition(w)
        BY <4>1, LaneStepRows
      <4>3. /\ j \in JobType
            /\ row[u].status = "stored"
            /\ row'[u] \in {ClaimWrite(j, row[u]), Renewed(row[u], j.renewAt),
                           Written(j, row[u])}
        <5>1. j \in JobType
          BY <2>2, <4>2, BusyJobType DEF RowTransition, Renewing
        <5>2. j.uuid = u
          BY <2>2, <4>2, <5>1 DEF RowTransition, Wrote, TypeOK, JobType
        <5>3. QED
          BY <2>2, <4>2, <5>1, <5>2
             DEF RowTransition, Wrote, TypeOK, CanClaim, Open, HoldsLease
      <4>4. ClaimWrite(j, row[u]).status = row[u].status
        BY <2>1 DEF ClaimWrite, Claimed, RowType
      <4>5. /\ Renewed(row[u], j.renewAt).status = row[u].status
            /\ Written(j, row[u]).status # "none"
        BY <2>1, <4>3, UpdatesKeepTries
      <4>6. QED
        BY <4>3, <4>4, <4>5
    <3>2. CASE \E x \in Row : RowStep(x)
      <4>1. \/ row'[u] = NewRow("stored", now)
            \/ row[u].status = "stored" /\ row'[u] = CancelEffect(row[u])
        BY <2>2, <3>2 DEF RowStep, AddToQueue, CancelRead, CancelWrite, TypeOK
      <4>2. QED
        BY <2>1, <4>1, UpdatesKeepTries DEF NewRow
    <3>3. CASE (\E s \in Server : ServerStep(s)) \/ Tick \/ UNCHANGED vars
      BY <2>2, <3>3 DEF ServerStep, Crash, Destroy, Tick, vars
    <3>4. QED
      BY <3>1, <3>2, <3>3 DEF Next
  <2>3. QED
    BY <2>2 DEF NoneIsFresh
<1>3. QED
  BY <1>1, <1>2, TypeCorrect, PTL DEF Spec

SameRest(u) ==
    row'[u].tries = row[u].tries /\ ToldOf(u)' = ToldOf(u)

SameView(u) ==
    /\ PhaseOf(u)' = PhaseOf(u) /\ CancelledOf(u)' = CancelledOf(u)
    /\ SameRest(u)

LEMMA Stutters ==
    ASSUME \A u \in Row : SameView(u)
    PROVE  UNCHANGED Promise!vars
BY DEF SameView, SameRest, Promise!vars

\* A step that changes the view of one letter is a step of the promise when
\* that letter makes one.
LEMMA Lifts ==
    ASSUME NEW u \in Row, \A v \in Row \ {u} : SameView(v)
    PROVE  /\ /\ SameRest(u) /\ CancelledOf(u)' = CancelledOf(u)
              /\ PhaseOf(u) = "new" /\ PhaseOf(u)' = "queued"
              => Promise!Enqueue(u)
           /\ /\ ToldOf(u)' = ToldOf(u) /\ CancelledOf(u)' = CancelledOf(u)
              /\ PhaseOf(u) \in {"queued", "sending"} /\ PhaseOf(u)' = "sending"
              /\ ~CancelledOf(u)
              /\ row[u].tries < MaxTries /\ row'[u].tries = row[u].tries + 1
              => Promise!Attempt(u)
           /\ /\ SameRest(u) /\ CancelledOf(u)' = CancelledOf(u)
              /\ PhaseOf(u) = "sending" /\ PhaseOf(u)' = "queued"
              /\ ~CancelledOf(u) /\ row[u].tries < MaxTries
              => Promise!Requeue(u)
           /\ /\ SameRest(u) /\ CancelledOf(u)' = CancelledOf(u)
              /\ PhaseOf(u) = "sending" /\ PhaseOf(u)' = "sent"
              /\ ~CancelledOf(u)
              => Promise!Succeed(u)
           /\ /\ SameRest(u) /\ CancelledOf(u)' = CancelledOf(u)
              /\ PhaseOf(u) = "sending" /\ PhaseOf(u)' = "failed"
              /\ ~CancelledOf(u) /\ row[u].tries = MaxTries
              => Promise!GiveUp(u)
           /\ /\ SameRest(u) /\ PhaseOf(u)' = PhaseOf(u)
              /\ PhaseOf(u) # "new" /\ CancelledOf(u)' = TRUE
              => Promise!Cancel(u)
           /\ /\ row'[u].tries = row[u].tries /\ PhaseOf(u)' = PhaseOf(u)
              /\ CancelledOf(u)' = CancelledOf(u) /\ ToldOf(u) = "nothing"
              /\ \/ PhaseOf(u) = "sent" /\ ToldOf(u)' = "onSent"
                 \/ PhaseOf(u) = "failed" /\ ToldOf(u)' = "onError"
              => Promise!Tell(u)
<1>1. \A v \in Row \ {u} :
        /\ PhaseOf(v)' = PhaseOf(v) /\ CancelledOf(v)' = CancelledOf(v)
        /\ row'[v].tries = row[v].tries /\ ToldOf(v)' = ToldOf(v)
  BY DEF SameView, SameRest
<1>2. ASSUME SameRest(u), CancelledOf(u)' = CancelledOf(u),
             PhaseOf(u) = "new", PhaseOf(u)' = "queued"
      PROVE  Promise!Enqueue(u)
  BY <1>1, <1>2 DEF SameRest, Promise!Enqueue
<1>3. ASSUME ToldOf(u)' = ToldOf(u), CancelledOf(u)' = CancelledOf(u),
             PhaseOf(u) \in {"queued", "sending"}, PhaseOf(u)' = "sending",
             ~CancelledOf(u),
             row[u].tries < MaxTries, row'[u].tries = row[u].tries + 1
      PROVE  Promise!Attempt(u)
  BY <1>1, <1>3 DEF Promise!Attempt
<1>4. ASSUME SameRest(u), CancelledOf(u)' = CancelledOf(u),
             PhaseOf(u) = "sending", PhaseOf(u)' = "queued",
             ~CancelledOf(u), row[u].tries < MaxTries
      PROVE  Promise!Requeue(u)
  BY <1>1, <1>4 DEF SameRest, Promise!Requeue
<1>5. ASSUME SameRest(u), CancelledOf(u)' = CancelledOf(u),
             PhaseOf(u) = "sending", PhaseOf(u)' = "sent", ~CancelledOf(u)
      PROVE  Promise!Succeed(u)
  BY <1>1, <1>5 DEF SameRest, Promise!Succeed
<1>6. ASSUME SameRest(u), CancelledOf(u)' = CancelledOf(u),
             PhaseOf(u) = "sending", PhaseOf(u)' = "failed",
             ~CancelledOf(u), row[u].tries = MaxTries
      PROVE  Promise!GiveUp(u)
  BY <1>1, <1>6 DEF SameRest, Promise!GiveUp
<1>7. ASSUME SameRest(u), PhaseOf(u)' = PhaseOf(u),
             PhaseOf(u) # "new", CancelledOf(u)' = TRUE
      PROVE  Promise!Cancel(u)
  BY <1>1, <1>7 DEF SameRest, Promise!Cancel
<1>8. ASSUME row'[u].tries = row[u].tries, PhaseOf(u)' = PhaseOf(u),
             CancelledOf(u)' = CancelledOf(u), ToldOf(u) = "nothing",
             \/ PhaseOf(u) = "sent" /\ ToldOf(u)' = "onSent"
             \/ PhaseOf(u) = "failed" /\ ToldOf(u)' = "onError"
      PROVE  Promise!Tell(u)
  BY <1>1, <1>8 DEF Promise!Tell
<1>9. QED
  BY <1>2, <1>3, <1>4, <1>5, <1>6, <1>7, <1>8

\* How a letter that is in the storage and not ended is seen.
LEMMA StoredView ==
    ASSUME NEW u \in Row, row[u] \in RowType,
           row[u].status = "stored", ended[u] = "no"
    PROVE  /\ row[u].isSending => PhaseOf(u) = "sending"
           /\ ~row[u].isSending => PhaseOf(u) = "queued"
           /\ CancelledOf(u) = row[u].isCancelled
BY DEF PhaseOf, CancelledOf, RowType

LEMMA UnchangedView ==
    ASSUME NEW u \in Row, row'[u] = row[u], ended'[u] = ended[u], hooks'[u] = hooks[u]
    PROVE  SameView(u)
BY DEF SameView, SameRest, PhaseOf, CancelledOf, ToldOf

\* A claim, acknowledged or not, is an attempt.
LEMMA ClaimIsAttempt ==
    ASSUME TypeOK, TypeOK', AttemptInv, EndInv, NEW w \in Lane,
           NEW u \in Row, u = job[w].uuid, job[w].pc = "claiming",
           CanClaim(row[job[w].uuid], job[w].tries, job[w].sendingAt),
           row' = [row EXCEPT ![job[w].uuid] = ClaimWrite(job[w], @)],
           ended' = ended, hooks' = hooks
    PROVE  Promise!Next
<1> DEFINE j == job[w]
<1>1. /\ j \in JobType /\ u \in Row /\ row[u] \in RowType /\ row'[u] \in RowType
      /\ row[u].tries = j.tries /\ j.tries + 1 <= MaxTries
      /\ row'[u] = ClaimWrite(j, row[u])
      /\ row'[u].tries = row[u].tries + 1
      /\ \A v \in Row \ {u} : row'[v] = row[v]
  <2>1. /\ j \in JobType /\ row[u] \in RowType
        /\ row[u].tries = j.tries /\ j.tries + 1 <= MaxTries
        /\ ClaimWrite(j, row[u]).tries = row[u].tries + 1
    BY ClaimWriteTries
  <2>2. u \in Row
    BY <2>1 DEF JobType
  <2>3. row'[u] = ClaimWrite(j, row[u]) /\ \A v \in Row \ {u} : row'[v] = row[v]
    BY <2>2 DEF TypeOK
  <2>4. row'[u] \in RowType
    BY <2>2 DEF TypeOK
  <2>5. QED
    BY <2>1, <2>2, <2>3, <2>4
<1>2. row[u].status = "stored" /\ ~row[u].isCancelled
  BY DEF CanClaim, Open
<1>3. row'[u].status = "stored" /\ row'[u].isSending /\ ~row'[u].isCancelled
  BY <1>1, <1>2 DEF ClaimWrite, Claimed, RowType
<1>4. ended[u] = "no"
  BY <1>1, ClosedIsFinal DEF EndInv, EndsAreClosed
<1>5. PhaseOf(u) \in {"queued", "sending"} /\ ~CancelledOf(u)
  BY <1>1, <1>2, <1>4, StoredView DEF RowType
<1>6. PhaseOf(u)' = "sending" /\ ~CancelledOf(u)'
  BY <1>1, <1>3, <1>4 DEF PhaseOf, CancelledOf
<1>7. ToldOf(u)' = ToldOf(u)
  BY DEF ToldOf
<1>8. row[u].tries < MaxTries
  BY <1>1, MaxTriesAssumption DEF RowType
<1>9. \A v \in Row \ {u} : SameView(v)
  BY <1>1, UnchangedView
<1>10. CancelledOf(u)' = CancelledOf(u)
  BY <1>5, <1>6 DEF CancelledOf
<1>11. Promise!Attempt(u)
  BY <1>1, <1>5, <1>6, <1>7, <1>8, <1>9, <1>10, Lifts
<1>12. QED
  BY <1>1, <1>11 DEF Promise!Next

\* A renewal is invisible.
LEMMA RenewalIsInvisible ==
    ASSUME TypeOK, NEW w \in Lane, Renewing(job[w]), NEW u \in Row, u = job[w].uuid,
           HoldsLease(row[job[w].uuid], job[w].tries, job[w].sendingAt),
           row' = [row EXCEPT ![job[w].uuid] = Renewed(@, job[w].renewAt)],
           ended' = ended, hooks' = hooks
    PROVE  UNCHANGED Promise!vars
<1>1. row[u] \in RowType
  BY DEF TypeOK
<1>2. /\ row'[u] = Renewed(row[u], job[w].renewAt)
      /\ \A v \in Row \ {u} : row'[v] = row[v]
  BY <1>1 DEF TypeOK
<1>3. row[u].isSending
  BY DEF HoldsLease
<1>4. /\ row'[u].status = row[u].status /\ row'[u].tries = row[u].tries
      /\ row'[u].isSending /\ row'[u].isCancelled = row[u].isCancelled
  <2>1. ASSUME NEW r \in RowType, NEW at
        PROVE  /\ Renewed(r, at).status = r.status /\ Renewed(r, at).tries = r.tries
               /\ Renewed(r, at).isSending
               /\ Renewed(r, at).isCancelled = r.isCancelled
    BY DEF Renewed, RowType
  <2>2. QED
    BY <1>1, <1>2, <2>1
<1>5. SameView(u)
  BY <1>3, <1>4 DEF SameView, SameRest, PhaseOf, CancelledOf, ToldOf
<1>6. \A v \in Row \ {u} : SameView(v)
  BY <1>2, UnchangedView
<1>7. QED
  BY <1>1, <1>5, <1>6, Stutters

\* What a completion write leaves of the row, as far as the promise sees it.
LEMMA WrittenView ==
    ASSUME NEW j \in JobType, NEW r \in RowType,
           r.status = "stored", ~r.isCancelled, j.kind \in Kinds
    PROVE  /\ ~Written(j, r).isCancelled
           /\ ~Final(j.kind) => /\ Written(j, r).status = "stored"
                                /\ ~Written(j, r).isSending
<1>1. /\ \A a : ~Sent(r, a).isCancelled /\ ~Failed(r, a).isCancelled
      /\ \A a, t : /\ ~Released(r, t, a).isCancelled /\ ~Released(r, t, a).isSending
                   /\ Released(r, t, a).status = "stored"
      /\ \A t : /\ ~Retried(r, t).isCancelled /\ ~Retried(r, t).isSending
                /\ Retried(r, t).status = "stored"
      /\ ~Removed(r).isCancelled
  BY DEF Sent, Failed, Released, Retried, Removed, RowType
<1>2. CASE j.kind = "released" \/ j.kind = "retried"
  BY <1>1, <1>2 DEF Written
<1>3. CASE Final(j.kind)
  BY <1>1, <1>3 DEF Written, Final
<1>4. QED
  BY <1>2, <1>3 DEF Kinds, Final

\* A completion write ends or requeues the letter.
LEMMA WriteIsOutcome ==
    ASSUME TypeOK, AttemptInv, EndInv, DeliveryInv, NEW w \in Lane,
           NEW u \in Row, u = job[w].uuid, job[w].pc = "writing", Wrote(job[w]), hooks' = hooks
    PROVE  Promise!Next
<1> DEFINE j == job[w]
<1>1. /\ j \in JobType /\ u \in Row
      /\ ended[u] = "no"
      /\ \A v \in Row \ {u} : row'[v] = row[v] /\ ended'[v] = ended[v]
      /\ Final(j.kind) => ended'[u] = j.kind
      /\ ~Final(j.kind) => ended' = ended
  BY WriteEnds
<1>2. row[u] \in RowType /\ row'[u] = Written(j, row[u])
  BY <1>1 DEF TypeOK, Wrote
<1>3. /\ row[u].status = "stored" /\ row[u].isSending /\ ~row[u].isCancelled
      /\ row[u].tries = j.tries
  BY DEF Wrote, HoldsLease
<1>4. /\ j.kind \in Kinds
      /\ j.kind = "failed" => j.tries >= MaxTries
      /\ j.kind \in {"released", "retried"} => j.tries < MaxTries
  BY DEF DeliveryInv, OutcomesFit
<1>5. PhaseOf(u) = "sending" /\ ~CancelledOf(u)
  BY <1>1, <1>2, <1>3, StoredView
<1>6. SameRest(u)
  <2>1. row'[u].tries = row[u].tries
    BY <1>1, <1>2, UpdatesKeepTries
  <2>2. QED
    BY <2>1 DEF SameRest, ToldOf
<1>7. /\ ~row'[u].isCancelled
      /\ ~Final(j.kind) => row'[u].status = "stored" /\ ~row'[u].isSending
  BY <1>1, <1>2, <1>3, <1>4, WrittenView
<1>8. \A v \in Row \ {u} : SameView(v)
  BY <1>1, UnchangedView
<1>9. CASE Final(j.kind)
  <2>1. PhaseOf(u)' = j.kind /\ ~CancelledOf(u)'
    BY <1>1, <1>7, <1>9 DEF PhaseOf, CancelledOf, Final
  <2>2. CancelledOf(u)' = CancelledOf(u)
    BY <1>5, <2>1 DEF CancelledOf
  <2>3. CASE j.kind = "sent"
    <3>1. Promise!Succeed(u)
      BY <1>1, <1>5, <1>6, <1>8, <2>1, <2>2, <2>3, Lifts
    <3>2. QED
      BY <1>1, <3>1 DEF Promise!Next
  <2>4. CASE j.kind = "failed"
    <3>1. row[u].tries = MaxTries
      BY <1>1, <1>2, <1>3, <1>4, <2>4, MaxTriesAssumption
         DEF AttemptInv, AttemptsWithinBudget, RowType
    <3>2. Promise!GiveUp(u)
      BY <1>1, <1>5, <1>6, <1>8, <2>1, <2>2, <2>4, <3>1, Lifts
    <3>3. QED
      BY <1>1, <3>2 DEF Promise!Next
  <2>5. QED
    BY <1>9, <2>3, <2>4 DEF Final
<1>10. CASE ~Final(j.kind)
  <2>1. PhaseOf(u)' = "queued" /\ ~CancelledOf(u)'
    BY <1>1, <1>7, <1>10 DEF PhaseOf, CancelledOf
  <2>2. CancelledOf(u)' = CancelledOf(u)
    BY <1>5, <2>1 DEF CancelledOf
  <2>3. row[u].tries < MaxTries
    BY <1>3, <1>4, <1>10 DEF Final, Kinds
  <2>4. Promise!Requeue(u)
    BY <1>1, <1>5, <1>6, <1>8, <2>1, <2>2, <2>3, Lifts
  <2>5. QED
    BY <1>1, <2>4 DEF Promise!Next
<1>11. QED
  BY <1>9, <1>10

\* The call of a hook tells the sender.
LEMMA HookTells ==
    ASSUME TypeOK, EndInv, NEW w \in Lane, NEW u \in Row, u = job[w].uuid,
           CallHook(w)
    PROVE  Promise!Next
<1> DEFINE j == job[w]
<1>1. j \in JobType /\ u \in Row
  <2>1. j \in JobType
    BY BusyJobType DEF CallHook
  <2>2. QED
    BY <2>1 DEF JobType
<1>2. /\ Final(j.kind) /\ ended[u] = j.kind
      /\ hooks[u].onSent = 0 /\ hooks[u].onError = 0
  BY DEF CallHook, EndInv, HookDueOnce
<1>3. /\ row' = row /\ ended' = ended
      /\ \A v \in Row \ {u} : hooks'[v] = hooks[v]
      /\ j.kind = "sent" => hooks'[u].onSent = 1
      /\ j.kind = "failed" => hooks'[u].onSent = 0 /\ hooks'[u].onError = 1
  BY <1>1, <1>2 DEF CallHook, TypeOK
<1>4. PhaseOf(u) = j.kind /\ PhaseOf(u)' = PhaseOf(u) /\ CancelledOf(u)' = CancelledOf(u)
  BY <1>2, <1>3 DEF PhaseOf, CancelledOf, Final
<1>5. /\ ToldOf(u) = "nothing"
      /\ j.kind = "sent" => ToldOf(u)' = "onSent"
      /\ j.kind = "failed" => ToldOf(u)' = "onError"
  BY <1>2, <1>3 DEF ToldOf
<1>6. \A v \in Row \ {u} : SameView(v)
  BY <1>3, UnchangedView
<1>7. Promise!Tell(u)
  BY <1>1, <1>2, <1>3, <1>4, <1>5, <1>6, Lifts DEF Final
<1>8. QED
  BY <1>1, <1>7 DEF Promise!Next

LEMMA LaneStepPromise ==
    ASSUME TypeOK, TypeOK', AttemptInv, EndInv, DeliveryInv, NEW w \in Lane, LaneStep(w)
    PROVE  [Promise!Next]_(Promise!vars)
<1>1. CASE CallHook(w)
  <2>1. job[w] \in JobType
    BY <1>1, BusyJobType DEF CallHook
  <2>2. PICK u \in Row : u = job[w].uuid
    BY <2>1 DEF JobType
  <2>3. QED
    BY <1>1, <2>2, HookTells
<1>2. CASE ~CallHook(w)
  <2>1. hooks' = hooks
    BY <1>2 DEF LaneStep, Fetch, Dispatch, Claim, ClaimRejected, ClaimError, RenewStart,
       RenewDone, RenewError, Settle, Complete, WriteDone, WriteLost, WriteError, history
  <2>2. RowTransition(w)
    BY LaneStepRows
  <2>3. CASE UNCHANGED <<row, ended>>
    BY <2>1, <2>3, UnchangedView, Stutters
  <2>4. CASE ~UNCHANGED <<row, ended>>
    <3>1. job[w] \in JobType
      BY <2>2, <2>4, BusyJobType DEF RowTransition, Renewing
    <3>2. PICK u \in Row : u = job[w].uuid
      BY <3>1 DEF JobType
    <3>3. QED
      BY <2>1, <2>2, <2>4, <3>2, ClaimIsAttempt, RenewalIsInvisible, WriteIsOutcome
         DEF RowTransition
  <2>5. QED
    BY <2>3, <2>4
<1>3. QED
  BY <1>1, <1>2

\* sendMail enqueues.
LEMMA AddIsEnqueue ==
    ASSUME TypeOK, EndInv, AttemptInv, NoneIsFresh, NEW u \in Row, AddToQueue(u)
    PROVE  Promise!Next
<1>1. /\ row'[u] = NewRow("stored", now)
      /\ \A v \in Row \ {u} : row'[v] = row[v]
      /\ row[u].status = "none" /\ ended' = ended /\ hooks' = hooks
      /\ row[u] \in RowType
  BY DEF AddToQueue, TypeOK, history
<1>2. ended[u] = "no"
  BY <1>1, ClosedIsFinal DEF EndInv, EndsAreClosed
<1>3. row[u].tries = 0 /\ ~row[u].isCancelled
  BY <1>1 DEF AttemptInv, UnpushedUntried, NoneIsFresh
<1>4. /\ row'[u].tries = 0 /\ ~row'[u].isCancelled /\ row'[u].status = "stored"
      /\ ~row'[u].isSending
  BY <1>1 DEF NewRow
<1>5. /\ PhaseOf(u) = "new" /\ PhaseOf(u)' = "queued"
      /\ CancelledOf(u)' = CancelledOf(u)
  BY <1>1, <1>2, <1>3, <1>4 DEF PhaseOf, CancelledOf
<1>6. SameRest(u)
  BY <1>1, <1>3, <1>4 DEF SameRest, ToldOf
<1>7. \A v \in Row \ {u} : SameView(v)
  BY <1>1, UnchangedView
<1>8. Promise!Enqueue(u)
  BY <1>5, <1>6, <1>7, Lifts
<1>9. QED
  BY <1>8 DEF Promise!Next

\* The write of cancelMail cancels, or finds the letter ended and removes it.
LEMMA CancelWriteCancels ==
    ASSUME TypeOK, NEW u \in Row, CancelWrite(u)
    PROVE  [Promise!Next]_(Promise!vars)
<1>1. ended' = ended /\ hooks' = hooks
  BY DEF CancelWrite, history
<1>2. CASE row[u].status # "stored"
  <2>1. row' = row
    BY <1>2 DEF CancelWrite
  <2>2. QED
    BY <1>1, <2>1, UnchangedView, Stutters
<1>3. CASE row[u].status = "stored"
  <2>1. /\ row[u] \in RowType /\ row'[u] = CancelEffect(row[u])
        /\ \A v \in Row \ {u} : row'[v] = row[v]
    BY <1>3 DEF CancelWrite, TypeOK
  <2>2. /\ row'[u].isSending = row[u].isSending /\ row'[u].tries = row[u].tries
        /\ \/ row'[u].status = "stored" /\ row'[u].isCancelled
           \/ row'[u].status = "removed" /\ row'[u].isCancelled = row[u].isCancelled
    BY <1>3, <2>1 DEF CancelEffect, Cancelled, Removed, RowType
  <2>3. SameRest(u)
    BY <1>1, <2>2 DEF SameRest, ToldOf
  <2>4. PhaseOf(u)' = PhaseOf(u)
    BY <1>1, <1>3, <2>2 DEF PhaseOf
  <2>5. \A v \in Row \ {u} : SameView(v)
    BY <1>1, <2>1, UnchangedView
  <2>6. PhaseOf(u) # "new"
    BY <1>3 DEF PhaseOf, TypeOK
  <2>7. CASE CancelledOf(u)'
    <3>1. CancelledOf(u)' = TRUE
      BY <2>7 DEF CancelledOf
    <3>2. Promise!Cancel(u)
      BY <2>3, <2>4, <2>5, <2>6, <3>1, Lifts
    <3>3. QED
      BY <3>2 DEF Promise!Next
  <2>8. CASE ~CancelledOf(u)'
    <3>1. CancelledOf(u)' = CancelledOf(u)
      BY <1>1, <1>3, <2>2, <2>8 DEF CancelledOf
    <3>2. SameView(u)
      BY <2>3, <2>4, <3>1 DEF SameView
    <3>3. QED
      BY <2>5, <3>2, Stutters
  <2>9. QED
    BY <2>7, <2>8
<1>4. QED
  BY <1>2, <1>3

LEMMA PromiseInit == Init => Promise!Init
<1> SUFFICES ASSUME Init PROVE Promise!Init
  OBVIOUS
<1>1. ASSUME NEW u \in Row
      PROVE  /\ PhaseOf(u) = "new" /\ row[u].tries = 0
             /\ CancelledOf(u) = FALSE /\ ToldOf(u) = "nothing"
  <2>1. row[u] = NewRow("none", 0) /\ ended[u] = "no"
        /\ hooks[u] = [onSent |-> 0, onError |-> 0]
    BY DEF Init
  <2>2. QED
    BY <2>1 DEF NewRow, PhaseOf, CancelledOf, ToldOf
<1>2. QED
  BY <1>1 DEF Promise!Init

\* Every step of the lifecycle, renewals, crashes, destroys and storage errors
\* included, is a step of MailPromise or invisible in it.
THEOREM LifecycleKeepsPromise == Spec => KeepsPromise
<1>1. Init => Promise!Init
  BY PromiseInit
<1>2. TypeOK /\ TypeOK' /\ AttemptInv /\ EndInv /\ DeliveryInv /\ NoneIsFresh
        /\ [Next]_vars => [Promise!Next]_(Promise!vars)
  <2> SUFFICES ASSUME TypeOK, TypeOK', AttemptInv, EndInv, DeliveryInv, NoneIsFresh,
                      [Next]_vars
               PROVE  [Promise!Next]_(Promise!vars)
    OBVIOUS
  <2>1. CASE \E w \in Lane : LaneStep(w)
    BY <2>1, LaneStepPromise
  <2>2. CASE \E u \in Row : AddToQueue(u) \/ CancelWrite(u)
    BY <2>2, AddIsEnqueue, CancelWriteCancels
  <2>3. CASE \/ \E u \in Row : CancelRead(u)
             \/ \E s \in Server : ServerStep(s)
             \/ Tick \/ UNCHANGED vars
    <3>1. row' = row /\ ended' = ended /\ hooks' = hooks
      BY <2>3 DEF CancelRead, ServerStep, Crash, Destroy, Tick, vars, history
    <3>2. QED
      BY <3>1, UnchangedView, Stutters
  <2>4. QED
    BY <2>1, <2>2, <2>3 DEF Next, RowStep
<1>3. QED
  BY <1>1, <1>2, TypeCorrect, AttemptsInductive, EndsInductive, DeliveriesInductive,
     FreshInductive, PTL DEF Spec, KeepsPromise, Promise!Spec

-----------------------------------------------------------------------------
(* Bounded waiting, with one letter and clocks that agree.  What has to be  *)
(* carried along is a budget: the time that has passed, together with what   *)
(* the attempts and renewals that are left may still take, fits the bound.   *)
(* So it is with the time the row is due, with the time its claim goes       *)
(* stale, and with the stamps the worker on the current attempt knows or     *)
(* has under way.  Time moves only while a row waits, that is below one of   *)
(* these; a claim, a renewal and a retry each spend what they add.           *)

\* The time an attempt may take, and what is left of it all for a row with so many
\* tries and for a worker with so many renewals.
Attempt == SendingTimeout * (1 + MaxRenewals) + RetryDelay
Bound == 1 + MaxTries * Attempt
Left(tries) == (MaxTries - tries) * Attempt
Renewable(renewals) == SendingTimeout * (MaxRenewals - renewals)

\* What an open row may still wait for, after it is due and after its claim is stale.
Owed(r) == Left(r.tries) + (IF r.isSending THEN RetryDelay ELSE 0)

RowInTime(r, at) ==
    Open(r) =>
      /\ at + Owed(r) <= Bound
      /\ r.sendAt + Owed(r) <= Bound
      /\ r.isSending => r.sendingAt + SendingTimeout + Owed(r) <= Bound

\* The row is on the attempt of this worker.
Held(j, r) == Open(r) /\ r.isSending /\ r.tries = j.tries

Rest(j) == Left(j.tries) + RetryDelay + Renewable(j.renewals)

JobInTime(j, r, at) ==
    /\ j.pc \in Claimless => j.renewals = 0 /\ j.renewAt = 0
    /\ j.pc = "claiming" => j.sendingAt <= at
    /\ j.pc \in {"sending", "settled"} => j.renewals <= MaxRenewals
    /\ j.pc \in {"sending", "settled"} /\ Held(j, r) =>
         /\ at + Rest(j) <= Bound
         /\ r.sendAt + Rest(j) <= Bound
         /\ r.sendingAt + SendingTimeout + Rest(j) <= Bound
         /\ j.sendingAt + SendingTimeout + Rest(j) <= Bound
         /\ j.renewAt > 0 => j.renewAt + SendingTimeout + Rest(j) <= Bound
    /\ j.pc = "writing" /\ Held(j, r) => j.nextAt + Left(j.tries) <= Bound

LaneInTime(w) ==
    job[w].pc # "idle" => JobInTime(job[w], row[job[w].uuid], now)

WaitInv ==
    /\ now <= Bound
    /\ \A u \in Row : row[u].status = "none" => now = 1
    /\ \A u \in Row : RowInTime(row[u], now)
    /\ \A w \in Lane : LaneInTime(w)

LEMMA TimesLeft ==
    ASSUME NEW t \in Nat, t <= MaxTries
    PROVE  /\ Left(t) \in Nat /\ Attempt \in Nat /\ Bound \in Nat
           /\ t < MaxTries => Left(t) = Left(t + 1) + Attempt
           /\ Left(0) + 1 = Bound
<1>1. MaxTries \in Nat /\ SendingTimeout \in Nat /\ MaxRenewals \in Nat /\ RetryDelay \in Nat
  BY MaxTriesAssumption, SendingTimeoutAssumption, MaxRenewalsAssumption,
     RetryDelayAssumption
<1>2. SendingTimeout * (1 + MaxRenewals) \in Nat
  BY <1>1
<1>3. Attempt \in Nat
  BY <1>1, <1>2 DEF Attempt
<1>4. \A n \in Nat : n * Attempt \in Nat /\ (n + 1) * Attempt = n * Attempt + Attempt
  BY <1>3
<1>5. MaxTries - t \in Nat
  BY <1>1
<1>6. Left(t) \in Nat /\ Bound \in Nat
  BY <1>1, <1>3, <1>4, <1>5 DEF Left, Bound
<1>7. ASSUME t < MaxTries
      PROVE  Left(t) = Left(t + 1) + Attempt
  <2>1. MaxTries - (t + 1) \in Nat /\ MaxTries - t = (MaxTries - (t + 1)) + 1
    BY <1>1, <1>7
  <2>2. QED
    BY <1>4, <2>1 DEF Left
<1>8. Left(0) + 1 = Bound
  BY <1>1, <1>3, <1>4 DEF Left, Bound
<1>9. QED
  BY <1>3, <1>6, <1>7, <1>8

LEMMA RenewalsLeft ==
    ASSUME NEW n \in Nat, n <= MaxRenewals
    PROVE  /\ Renewable(n) \in Nat /\ Renewable(MaxRenewals) = 0
           /\ n < MaxRenewals => Renewable(n) = Renewable(n + 1) + SendingTimeout
           /\ Attempt = SendingTimeout + Renewable(0) + RetryDelay
<1>1. SendingTimeout \in Nat /\ MaxRenewals \in Nat /\ RetryDelay \in Nat
  BY SendingTimeoutAssumption, MaxRenewalsAssumption, RetryDelayAssumption
<1>2. \A k \in Nat : /\ SendingTimeout * k \in Nat
                     /\ SendingTimeout * (k + 1) = SendingTimeout * k + SendingTimeout
  BY <1>1
<1>3. MaxRenewals - n \in Nat /\ MaxRenewals - MaxRenewals = 0 /\ SendingTimeout * 0 = 0
  BY <1>1
<1>4. Renewable(n) \in Nat /\ Renewable(MaxRenewals) = 0
  BY <1>2, <1>3 DEF Renewable
<1>5. ASSUME n < MaxRenewals
      PROVE  Renewable(n) = Renewable(n + 1) + SendingTimeout
  <2>1. MaxRenewals - (n + 1) \in Nat /\ MaxRenewals - n = (MaxRenewals - (n + 1)) + 1
    BY <1>1, <1>5
  <2>2. QED
    BY <1>2, <2>1 DEF Renewable
<1>6. Attempt = SendingTimeout + Renewable(0) + RetryDelay
  <2>1. MaxRenewals - 0 = MaxRenewals /\ 1 + MaxRenewals = MaxRenewals + 1
    BY <1>1
  <2>2. SendingTimeout * (1 + MaxRenewals) = SendingTimeout * MaxRenewals + SendingTimeout
    BY <1>1, <1>2, <2>1
  <2>3. SendingTimeout * MaxRenewals \in Nat
    BY <1>1, <1>2
  <2>4. QED
    BY <1>1, <2>1, <2>2, <2>3 DEF Attempt, Renewable
<1>7. QED
  BY <1>4, <1>5, <1>6

-----------------------------------------------------------------------------
(* What each update leaves to a row, and to the workers on it.             *)

\* A worker that is not on the row's attempt is asked for nothing.
LEMMA NotHeldInTime ==
    ASSUME NEW j, NEW r, NEW r2, NEW at, NEW at2, at <= at2, at \in Nat, at2 \in Nat,
           j \in JobType, JobInTime(j, r, at),
           j.pc \in Working => ~Held(j, r2)
    PROVE  JobInTime(j, r2, at2)
BY DEF JobInTime, JobType, Claimless, Working

LEMMA ClaimInTime ==
    ASSUME NEW j \in JobType, NEW r \in RowType, NEW at \in Nat,
           RowInTime(r, at), JobInTime(j, r, at),
           j.pc = "claiming", j.tries < MaxTries,
           CanClaim(r, j.tries, j.sendingAt)
    PROVE  /\ RowInTime(ClaimWrite(j, r), at)
           /\ JobInTime([j EXCEPT !.pc = "sending", !.tries = @ + 1], ClaimWrite(j, r), at)
<1> DEFINE q == ClaimWrite(j, r)
           k == [j EXCEPT !.pc = "sending", !.tries = @ + 1]
<1>1. /\ j.tries \in Nat /\ j.sendingAt \in Nat /\ r.sendAt \in Nat
      /\ MaxTries \in Nat /\ SendingTimeout \in Nat /\ MaxRenewals \in Nat /\ RetryDelay \in Nat
  BY MaxTriesAssumption, SendingTimeoutAssumption, MaxRenewalsAssumption,
     RetryDelayAssumption DEF JobType, RowType
<1>2. /\ q.isSending /\ q.sendingAt = j.sendingAt /\ q.tries = j.tries + 1
      /\ q.sendAt = r.sendAt
  BY DEF ClaimWrite, Claimed, RowType
<1>3. /\ k.pc = "sending" /\ k.tries = j.tries + 1 /\ k.sendingAt = j.sendingAt
      /\ k.renewals = 0 /\ k.renewAt = 0
  BY DEF JobType, JobInTime, Claimless
<1>4. Open(r) /\ r.tries = j.tries /\ j.sendingAt <= at
  BY DEF CanClaim, JobInTime
<1>5. at + Left(j.tries) <= Bound /\ r.sendAt + Left(j.tries) <= Bound
  <2>1. at + Owed(r) <= Bound /\ r.sendAt + Owed(r) <= Bound
    BY <1>4 DEF RowInTime
  <2>2. Left(j.tries) \in Nat /\ Bound \in Nat
    BY <1>1, TimesLeft
  <2>3. QED
    BY <1>1, <1>4, <2>1, <2>2 DEF Owed
<1>6. /\ Left(j.tries) = Left(j.tries + 1) + SendingTimeout + Renewable(0) + RetryDelay
      /\ Left(j.tries + 1) \in Nat /\ Renewable(0) \in Nat /\ Bound \in Nat
  <2>1. j.tries + 1 \in Nat /\ j.tries + 1 <= MaxTries /\ j.tries <= MaxTries
    BY <1>1
  <2>2. Left(j.tries) = Left(j.tries + 1) + Attempt
    BY <1>1, <2>1, TimesLeft
  <2>3. Left(j.tries + 1) \in Nat /\ Bound \in Nat
    BY <2>1, TimesLeft
  <2>4. Attempt = SendingTimeout + Renewable(0) + RetryDelay /\ Renewable(0) \in Nat
    BY <1>1, RenewalsLeft
  <2>5. QED
    BY <1>1, <2>2, <2>3, <2>4
<1>7. RowInTime(q, at)
  <2>1. Owed(q) = Left(j.tries + 1) + RetryDelay
    BY <1>2 DEF Owed
  <2>2. QED
    BY <1>1, <1>2, <1>4, <1>5, <1>6, <2>1 DEF RowInTime
<1>8. JobInTime(k, q, at)
  <2>1. Rest(k) = Left(j.tries + 1) + RetryDelay + Renewable(0)
    BY <1>3 DEF Rest
  <2>2. QED
    BY <1>1, <1>2, <1>3, <1>4, <1>5, <1>6, <2>1 DEF JobInTime, Claimless
<1>9. QED
  BY <1>7, <1>8

LEMMA RestLeft ==
    ASSUME NEW j \in JobType, j.tries <= MaxTries, j.renewals <= MaxRenewals
    PROVE  /\ Rest(j) \in Nat /\ Left(j.tries) + RetryDelay <= Rest(j)
           /\ j.renewals = MaxRenewals => Rest(j) = Left(j.tries) + RetryDelay
<1>1. /\ j.tries \in Nat /\ j.renewals \in Nat /\ RetryDelay \in Nat
  BY RetryDelayAssumption DEF JobType
<1>2. Left(j.tries) \in Nat
  BY <1>1, TimesLeft
<1>3. /\ Renewable(j.renewals) \in Nat
      /\ j.renewals = MaxRenewals => Renewable(j.renewals) = 0
  BY <1>1, RenewalsLeft
<1>4. QED
  BY <1>1, <1>2, <1>3 DEF Rest

\* A renewal, with its answer and without it.
LEMMA RenewInTime ==
    ASSUME NEW j \in JobType, NEW r \in RowType, NEW at \in Nat,
           RowInTime(r, at), JobInTime(j, r, at),
           Renewing(j), j.tries <= MaxTries,
           HoldsLease(r, j.tries, j.sendingAt)
    PROVE  /\ RowInTime(Renewed(r, j.renewAt), at)
           /\ JobInTime([j EXCEPT !.sendingAt = j.renewAt, !.renewAt = 0],
                        Renewed(r, j.renewAt), at)
           /\ JobInTime(Halted(j), Renewed(r, j.renewAt), at)
<1> DEFINE q == Renewed(r, j.renewAt)
           k == [j EXCEPT !.sendingAt = j.renewAt, !.renewAt = 0]
           h == Halted(j)
<1>1. /\ j.tries \in Nat /\ j.sendingAt \in Nat /\ j.renewAt \in Nat /\ j.renewals \in Nat
      /\ r.sendAt \in Nat /\ MaxRenewals \in Nat /\ SendingTimeout \in Nat
      /\ RetryDelay \in Nat
  BY SendingTimeoutAssumption, MaxRenewalsAssumption, RetryDelayAssumption
     DEF JobType, RowType
<1>2. /\ j.pc \in {"sending", "settled"} /\ j.renewAt > 0
      /\ j.renewals <= MaxRenewals
  BY DEF Renewing, JobInTime
<1>3. /\ q.isSending /\ q.sendingAt = j.renewAt /\ q.tries = j.tries
      /\ q.sendAt = r.sendAt
      /\ Open(q) <=> Open(r)
  BY DEF Renewed, RowType, Open, HoldsLease
<1>4. /\ k.pc = j.pc /\ k.tries = j.tries /\ k.sendingAt = j.renewAt
      /\ k.renewals = j.renewals /\ k.renewAt = 0
  BY DEF JobType
<1>5. /\ h.pc = j.pc /\ h.tries = j.tries /\ h.sendingAt = j.sendingAt
      /\ h.renewals = MaxRenewals /\ h.renewAt = 0
  BY DEF JobType, Halted
<1>6. Rest(k) = Rest(j)
  BY <1>4 DEF Rest
<1>7. /\ Left(j.tries) \in Nat /\ Bound \in Nat
      /\ Rest(j) \in Nat /\ Left(j.tries) + RetryDelay <= Rest(j)
  BY <1>1, <1>2, RestLeft, TimesLeft
<1>8. Rest(h) = Left(j.tries) + RetryDelay
  <2>1. Renewable(MaxRenewals) = 0
    BY <1>1, RenewalsLeft
  <2>2. QED
    BY <1>1, <1>5, <1>7, <2>1 DEF Rest
<1>9. ASSUME Open(r)
      PROVE  /\ at + Rest(j) <= Bound /\ r.sendAt + Rest(j) <= Bound
             /\ j.sendingAt + SendingTimeout + Rest(j) <= Bound
             /\ j.renewAt + SendingTimeout + Rest(j) <= Bound
  BY <1>2, <1>9 DEF JobInTime, Held, HoldsLease
<1>10. RowInTime(q, at)
  <2>1. Owed(q) = Left(j.tries) + RetryDelay
    BY <1>3 DEF Owed
  <2>2. QED
    BY <1>1, <1>3, <1>7, <1>9, <2>1 DEF RowInTime
<1>11. JobInTime(k, q, at)
  BY <1>1, <1>2, <1>3, <1>4, <1>6, <1>7, <1>9 DEF JobInTime, Claimless, Held
<1>12. JobInTime(h, q, at)
  BY <1>1, <1>2, <1>3, <1>5, <1>7, <1>8, <1>9 DEF JobInTime, Claimless, Held
<1>13. QED
  BY <1>10, <1>11, <1>12

\* A completion write: the row is closed, or back in the queue.
LEMMA WrittenInTime ==
    ASSUME NEW j \in JobType, NEW r \in RowType, NEW at \in Nat,
           RowInTime(r, at), JobInTime(j, r, at),
           j.pc = "writing", j.tries <= MaxTries,
           HoldsLease(r, j.tries, j.sendingAt)
    PROVE  /\ RowInTime(Written(j, r), at)
           /\ ~(Open(Written(j, r)) /\ Written(j, r).isSending)
<1> DEFINE q == Written(j, r)
<1>1. CASE j.kind \in {"released", "retried"}
  <2>1. q = Released(r, j.nextAt, j.accepted) \/ q = Retried(r, j.nextAt)
    BY <1>1 DEF Written
  <2>2. /\ ~q.isSending /\ q.sendAt = j.nextAt /\ q.tries = j.tries
        /\ Open(q) <=> Open(r)
    BY <2>1 DEF Released, Retried, RowType, Open, HoldsLease
  <2>3. Owed(q) = Left(j.tries) + 0
    BY <2>2 DEF Owed
  <2>4. ASSUME Open(r)
        PROVE  at + Left(j.tries) <= Bound /\ j.nextAt + Left(j.tries) <= Bound
    <3>1. at + Owed(r) <= Bound /\ j.nextAt + Left(j.tries) <= Bound
      BY <2>4 DEF RowInTime, JobInTime, Held, HoldsLease
    <3>2. Owed(r) = Left(j.tries) + RetryDelay
      BY DEF Owed, HoldsLease
    <3>3. Left(j.tries) \in Nat /\ RetryDelay \in Nat /\ Bound \in Nat
      BY RetryDelayAssumption, TimesLeft DEF JobType
    <3>4. QED
      BY <3>1, <3>2, <3>3
  <2>5. Left(j.tries) \in Nat
    BY TimesLeft DEF JobType
  <2>6. QED
    BY <2>2, <2>3, <2>4, <2>5 DEF RowInTime
<1>2. CASE j.kind \notin {"released", "retried"}
  <2>1. q = Sent(r, j.accepted) \/ q = Failed(r, j.accepted) \/ q = Removed(r)
    BY <1>2 DEF Written
  <2>2. ~Open(q)
    BY <2>1 DEF Sent, Failed, Removed, RowType, Open
  <2>3. QED
    BY <2>2 DEF RowInTime
<1>3. QED
  BY <1>1, <1>2

\* The steps of a worker that leave its row alone.
LEMMA RenewStartInTime ==
    ASSUME NEW j \in JobType, NEW r \in RowType, NEW at \in Nat,
           JobInTime(j, r, at), j.pc = "sending", j.tries <= MaxTries,
           j.renewAt = 0, j.renewals < MaxRenewals
    PROVE  JobInTime([j EXCEPT !.renewals = @ + 1, !.renewAt = Max2(at, j.sendingAt + 1)],
                     r, at)
<1> DEFINE k == [j EXCEPT !.renewals = @ + 1, !.renewAt = Max2(at, j.sendingAt + 1)]
<1>1. /\ j.tries \in Nat /\ j.sendingAt \in Nat /\ j.renewals \in Nat
      /\ r.sendAt \in Nat /\ r.sendingAt \in Nat
      /\ MaxRenewals \in Nat /\ SendingTimeout \in Nat \ {0} /\ RetryDelay \in Nat
  BY SendingTimeoutAssumption, MaxRenewalsAssumption, RetryDelayAssumption
     DEF JobType, RowType
<1>2. /\ k.pc = "sending" /\ k.tries = j.tries /\ k.sendingAt = j.sendingAt
      /\ k.renewals = j.renewals + 1 /\ k.renewAt = Max2(at, j.sendingAt + 1)
  BY DEF JobType
<1>3. /\ Left(j.tries) \in Nat /\ Bound \in Nat
      /\ Renewable(j.renewals + 1) \in Nat
      /\ Renewable(j.renewals) = Renewable(j.renewals + 1) + SendingTimeout
  BY <1>1, RenewalsLeft, TimesLeft
<1>4. Rest(j) = Rest(k) + SendingTimeout /\ Rest(k) \in Nat
  BY <1>1, <1>2, <1>3 DEF Rest
<1>5. ASSUME Held(j, r)
      PROVE  /\ at + Rest(j) <= Bound /\ r.sendAt + Rest(j) <= Bound
             /\ r.sendingAt + SendingTimeout + Rest(j) <= Bound
             /\ j.sendingAt + SendingTimeout + Rest(j) <= Bound
  BY <1>5 DEF JobInTime
<1>6. k.renewAt = at \/ k.renewAt = j.sendingAt + 1
  BY <1>2 DEF Max2
<1>7. Held(k, r) => Held(j, r)
  BY <1>2 DEF Held
<1>8. QED
  BY <1>1, <1>2, <1>3, <1>4, <1>5, <1>6, <1>7 DEF JobInTime, Claimless

LEMMA CompleteInTime ==
    ASSUME NEW j \in JobType, NEW r \in RowType, NEW at \in Nat,
           NEW accepted \in SUBSET Recipient, NEW kind \in Kinds,
           RowInTime(r, at), j.pc = "settled", j.tries <= MaxTries
    PROVE  JobInTime([j EXCEPT !.pc = "writing", !.accepted = accepted, !.kind = kind,
                               !.nextAt = at + RetryDelay], r, at)
<1> DEFINE k == [j EXCEPT !.pc = "writing", !.accepted = accepted, !.kind = kind,
                          !.nextAt = at + RetryDelay]
<1>1. k.pc = "writing" /\ k.tries = j.tries /\ k.nextAt = at + RetryDelay
  BY DEF JobType
<1>2. ASSUME Held(k, r)
      PROVE  k.nextAt + Left(k.tries) <= Bound
  <2>1. at + Owed(r) <= Bound /\ Owed(r) = Left(j.tries) + RetryDelay
    BY <1>1, <1>2 DEF RowInTime, Held, Owed
  <2>2. Left(j.tries) \in Nat /\ RetryDelay \in Nat /\ Bound \in Nat
    BY RetryDelayAssumption, TimesLeft DEF JobType
  <2>3. QED
    BY <1>1, <2>1, <2>2
<1>3. QED
  BY <1>1, <1>2 DEF JobInTime, Claimless

\* Time passes while the row waits for it.
LEMMA TickInTime ==
    ASSUME NEW r \in RowType, NEW at \in Nat, RowInTime(r, at), r.tries <= MaxTries,
           Open(r), r.sendAt > at \/ ~Takeable(r, at)
    PROVE  /\ RowInTime(r, at + 1) /\ at + 1 <= Bound
           /\ \A j \in JobType :
                JobInTime(j, r, at) /\ j.tries <= MaxTries => JobInTime(j, r, at + 1)
<1>1. /\ r.tries \in Nat /\ r.sendAt \in Nat /\ r.sendingAt \in Nat
      /\ SendingTimeout \in Nat /\ RetryDelay \in Nat
  BY SendingTimeoutAssumption, RetryDelayAssumption DEF RowType
<1>2. Left(r.tries) \in Nat /\ Bound \in Nat
  BY <1>1, TimesLeft
<1>3. Owed(r) \in Nat
  BY <1>1, <1>2 DEF Owed
<1>4. \/ at + 1 <= r.sendAt
      \/ r.isSending /\ at + 1 <= r.sendingAt + SendingTimeout
  BY <1>1 DEF Takeable
<1>5. RowInTime(r, at + 1) /\ at + 1 <= Bound
  BY <1>1, <1>2, <1>3, <1>4 DEF RowInTime
<1>6. ASSUME NEW j \in JobType, JobInTime(j, r, at), j.tries <= MaxTries
      PROVE  JobInTime(j, r, at + 1)
  <2>1. j.pc \in {"sending", "settled"} => Rest(j) \in Nat
    BY <1>6, RestLeft DEF JobInTime
  <2>2. j.sendingAt \in Nat
    BY DEF JobType
  <2>3. ASSUME j.pc \in {"sending", "settled"}, Held(j, r)
        PROVE  at + 1 + Rest(j) <= Bound
    <3>1. r.sendAt + Rest(j) <= Bound /\ r.sendingAt + SendingTimeout + Rest(j) <= Bound
      BY <1>6, <2>3 DEF JobInTime
    <3>2. QED
      BY <1>1, <1>2, <1>4, <2>1, <2>3, <3>1
  <2>4. QED
    BY <1>6, <2>2, <2>3 DEF JobInTime
<1>7. QED
  BY <1>5, <1>6

-----------------------------------------------------------------------------
(* A step of a lane.                                                       *)

LEMMA StepInTime ==
    ASSUME NEW u, Row = {u}, TypeOK, WaitInv, now' = now, NEW w \in Lane,
           \A v \in Lane \ {w} : job'[v] = job[v],
           row'[u].status = "none" => row[u].status = "none",
           RowInTime(row'[u], now),
           job'[w].pc # "idle" => /\ job'[w].uuid = u
                                  /\ JobInTime(job'[w], row'[u], now),
           \/ row'[u] = row[u]
           \/ \A v \in Lane \ {w} : job[v].pc \in Working => ~Held(job[v], row'[u])
    PROVE  WaitInv'
<1>1. now \in Nat /\ now <= now
  BY DEF TypeOK
<1>2. ASSUME NEW v \in Lane \ {w}, job[v].pc # "idle"
      PROVE  JobInTime(job[v], row'[u], now)
  <2>1. job[v] \in JobType /\ job[v].uuid = u
    BY <1>2, BusyJobType DEF JobType
  <2>2. JobInTime(job[v], row[u], now)
    BY <1>2, <2>1 DEF WaitInv, LaneInTime
  <2>3. QED
    BY <1>1, <2>1, <2>2, NotHeldInTime
<1>3. \A v \in Lane : LaneInTime(v)'
  <2> SUFFICES ASSUME NEW v \in Lane PROVE LaneInTime(v)'
    OBVIOUS
  <2>1. CASE v = w
    BY <2>1 DEF LaneInTime
  <2>2. CASE v # w
    <3>1. job'[v] = job[v] /\ job[v].pc # "idle" => job[v].uuid = u
      BY <2>2, BusyJobType DEF JobType
    <3>2. QED
      BY <1>2, <2>2, <3>1 DEF LaneInTime
  <2>3. QED
    BY <2>1, <2>2
<1>4. QED
  BY <1>3 DEF WaitInv

\* A step of a lane that does not write its row.
LEMMA QuietStepInTime ==
    ASSUME NEW u, Row = {u}, TypeOK, WaitInv, now' = now, row' = row, NEW w \in Lane,
           \A v \in Lane \ {w} : job'[v] = job[v],
           job'[w].pc # "idle" => /\ job'[w].uuid = u
                                  /\ JobInTime(job'[w], row[u], now)
    PROVE  WaitInv'
BY StepInTime DEF WaitInv

\* What the lane steps rely on.
LEMMA LaneFacts ==
    ASSUME NEW u, Row = {u}, \A s \in Server : Skew[s] = 0,
           TypeOK, AttemptInv, WaitInv, NEW w \in Lane
    PROVE  /\ now \in Nat /\ Clock(Home[w]) = now
           /\ row[u] \in RowType /\ RowInTime(row[u], now)
           /\ row[u].tries <= MaxTries
           /\ job[w].pc # "idle" =>
                /\ job[w] \in JobType /\ job[w].uuid = u
                /\ job[w].tries <= MaxTries
                /\ job[w].pc \in Claimless => job[w].tries < MaxTries
                /\ JobInTime(job[w], row[u], now)
<1>1. now \in Nat /\ row[u] \in RowType /\ Home[w] \in Server
  BY ClockType DEF TypeOK
<1>2. Clock(Home[w]) = now
  BY <1>1 DEF Clock
<1>3. row[u].tries <= MaxTries /\ row[u].tries \in Nat
  BY <1>1 DEF AttemptInv, AttemptsWithinBudget, RowType
<1>4. ASSUME job[w].pc # "idle"
      PROVE  /\ job[w] \in JobType /\ job[w].uuid = u
             /\ job[w].tries <= MaxTries
             /\ job[w].pc \in Claimless => job[w].tries < MaxTries
             /\ JobInTime(job[w], row[u], now)
  <2>1. job[w] \in JobType /\ job[w].uuid = u
    BY <1>4, BusyJobType DEF JobType
  <2>2. job[w].pc \in Claimless => job[w].tries < MaxTries
    BY DEF AttemptInv, CopiesBelowBudget
  <2>3. job[w].pc \in Working => job[w].tries <= row[u].tries
    BY <2>1 DEF AttemptInv, WorkersNotAhead
  <2>4. job[w].tries <= MaxTries
    BY <1>3, <2>1, <2>2, <2>3, MaxTriesAssumption DEF JobType
  <2>5. QED
    BY <1>4, <2>1, <2>2, <2>4 DEF WaitInv, LaneInTime
<1>5. QED
  BY <1>1, <1>2, <1>3, <1>4 DEF WaitInv

LEMMA FetchInTime ==
    ASSUME NEW u, Row = {u}, \A s \in Server : Skew[s] = 0,
           TypeOK, AttemptInv, WaitInv, NEW w \in Lane,
           Fetch(w, u) \/ Dispatch(w) \/ ClaimRejected(w)
    PROVE  WaitInv'
<1> DEFINE j == job[w]
<1>1. now' = now /\ row' = row /\ \A v \in Lane \ {w} : job'[v] = job[v]
  BY DEF Fetch, Dispatch, ClaimRejected, TypeOK
<1>2. CASE Fetch(w, u)
  <2>1. /\ job'[w].pc = "fetched" /\ job'[w].uuid = u
        /\ job'[w].renewals = 0 /\ job'[w].renewAt = 0
    BY <1>2 DEF Fetch, TypeOK
  <2>2. QED
    BY <1>1, <2>1, QuietStepInTime DEF JobInTime, Claimless
<1>3. CASE Dispatch(w)
  <2>1. \/ job'[w] = IdleJob
        \/ job'[w] = [j EXCEPT !.pc = "claiming", !.sendingAt = Clock(Home[w])]
    BY <1>3 DEF Dispatch, TypeOK
  <2>2. /\ j \in JobType /\ j.uuid = u /\ j.pc = "fetched"
        /\ JobInTime(j, row[u], now) /\ Clock(Home[w]) = now /\ now \in Nat
    BY <1>3, LaneFacts DEF Dispatch
  <2>3. job'[w].pc # "idle" =>
          /\ job'[w].pc = "claiming" /\ job'[w].uuid = u /\ job'[w].sendingAt = now
          /\ job'[w].renewals = 0 /\ job'[w].renewAt = 0
    <3>1. j.renewals = 0 /\ j.renewAt = 0
      BY <2>2 DEF JobInTime, Claimless
    <3>2. IdleJob.pc = "idle"
      BY DEF IdleJob
    <3>3. LET k == [j EXCEPT !.pc = "claiming", !.sendingAt = Clock(Home[w])]
          IN  /\ k.pc = "claiming" /\ k.uuid = u /\ k.sendingAt = now
              /\ k.renewals = 0 /\ k.renewAt = 0
      BY <2>2, <3>1 DEF JobType
    <3>4. QED
      BY <2>1, <3>2, <3>3
  <2>4. QED
    BY <1>1, <2>2, <2>3, QuietStepInTime DEF JobInTime, Claimless
<1>4. CASE ClaimRejected(w)
  BY <1>1, <1>4, QuietStepInTime DEF ClaimRejected, TypeOK, IdleJob
<1>5. QED
  BY <1>2, <1>3, <1>4

LEMMA ClaimStepInTime ==
    ASSUME NEW u, Row = {u}, \A s \in Server : Skew[s] = 0,
           TypeOK, AttemptInv, WaitInv, NEW w \in Lane,
           Claim(w) \/ ClaimError(w)
    PROVE  WaitInv'
<1> DEFINE j == job[w]
           q == ClaimWrite(j, row[u])
<1>1. j.pc = "claiming" /\ now' = now /\ \A v \in Lane \ {w} : job'[v] = job[v]
  BY DEF Claim, ClaimError, TypeOK
<1>2. /\ j \in JobType /\ j.uuid = u /\ j.tries < MaxTries
      /\ JobInTime(j, row[u], now) /\ now \in Nat
      /\ row[u] \in RowType /\ RowInTime(row[u], now)
  BY <1>1, LaneFacts DEF Claimless
<1>3. CASE row' = row /\ job'[w] = IdleJob
  BY <1>1, <1>3, QuietStepInTime DEF IdleJob
<1>4. ASSUME CanClaim(row[u], j.tries, j.sendingAt), row'[u] = q,
             \/ job'[w] = IdleJob
             \/ job'[w] = [j EXCEPT !.pc = "sending", !.tries = @ + 1]
      PROVE  WaitInv'
  <2>1. /\ RowInTime(q, now)
        /\ JobInTime([j EXCEPT !.pc = "sending", !.tries = @ + 1], q, now)
    BY <1>1, <1>2, <1>4, ClaimInTime
  <2>2. q.tries = row[u].tries + 1 /\ q.status = "stored"
    BY <1>2, <1>4 DEF ClaimWrite, Claimed, RowType, CanClaim, Open
  <2>3. ASSUME NEW v \in Lane \ {w}, job[v].pc \in Working
        PROVE  ~Held(job[v], q)
    <3>1. job[v] \in JobType /\ job[v].uuid = u
      BY <2>3, BusyJobType DEF JobType, Working
    <3>2. job[v].tries <= row[u].tries
      BY <2>3, <3>1 DEF AttemptInv, WorkersNotAhead
    <3>3. QED
      BY <1>2, <2>2, <3>1, <3>2 DEF Held, JobType, RowType
  <2>4. job'[w].pc # "idle" => job'[w].uuid = u /\ JobInTime(job'[w], q, now)
    <3>1. [j EXCEPT !.pc = "sending", !.tries = @ + 1].uuid = u
      BY <1>2 DEF JobType
    <3>2. IdleJob.pc = "idle"
      BY DEF IdleJob
    <3>3. QED
      BY <1>4, <2>1, <3>1, <3>2
  <2>5. QED
    BY <1>1, <1>4, <2>1, <2>2, <2>3, <2>4, StepInTime
<1>5. QED
  BY <1>1, <1>2, <1>3, <1>4 DEF Claim, ClaimError, TypeOK

LEMMA RenewStepInTime ==
    ASSUME NEW u, Row = {u}, \A s \in Server : Skew[s] = 0,
           TypeOK, AttemptInv, WaitInv, NEW w \in Lane,
           RenewStart(w) \/ RenewDone(w) \/ RenewError(w)
    PROVE  WaitInv'
<1> DEFINE j == job[w]
           q == Renewed(row[u], j.renewAt)
<1>1. /\ j.pc \in {"sending", "settled"}
      /\ now' = now /\ \A v \in Lane \ {w} : job'[v] = job[v]
  BY DEF RenewStart, RenewDone, RenewError, Renewing, TypeOK
<1>2. /\ j \in JobType /\ j.uuid = u /\ j.tries <= MaxTries
      /\ JobInTime(j, row[u], now) /\ now \in Nat /\ Clock(Home[w]) = now
      /\ row[u] \in RowType /\ RowInTime(row[u], now)
  BY <1>1, LaneFacts
<1>3. Halted(j).uuid = u /\ JobInTime(Halted(j), row[u], now)
  <2>1. /\ Halted(j).pc = j.pc /\ Halted(j).tries = j.tries /\ Halted(j).uuid = u
        /\ Halted(j).sendingAt = j.sendingAt
        /\ Halted(j).renewals = MaxRenewals /\ Halted(j).renewAt = 0
    BY <1>2 DEF Halted, JobType
  <2>2. /\ Rest(j) \in Nat /\ Left(j.tries) + RetryDelay <= Rest(j)
        /\ Left(j.tries) \in Nat /\ Bound \in Nat
    BY <1>1, <1>2, RestLeft, TimesLeft DEF JobInTime, JobType
  <2>3. Renewable(MaxRenewals) = 0 /\ MaxRenewals \in Nat
    BY RenewalsLeft, MaxRenewalsAssumption
  <2>4. Rest(Halted(j)) = Left(j.tries) + RetryDelay /\ RetryDelay \in Nat
    BY <2>1, <2>2, <2>3, RetryDelayAssumption DEF Rest
  <2>5. /\ j.sendingAt \in Nat /\ row[u].sendingAt \in Nat /\ row[u].sendAt \in Nat
        /\ SendingTimeout \in Nat
    BY <1>2, SendingTimeoutAssumption DEF JobType, RowType
  <2>6. QED
    BY <1>1, <1>2, <2>1, <2>2, <2>3, <2>4, <2>5 DEF JobInTime, Held, Claimless
<1>4. CASE RenewStart(w)
  <2>1. /\ job'[w] = [j EXCEPT !.renewals = @ + 1,
                               !.renewAt = Max2(now, j.sendingAt + 1)]
        /\ j.pc = "sending" /\ j.renewAt = 0 /\ j.renewals < MaxRenewals /\ row' = row
    BY <1>2, <1>4 DEF RenewStart, TypeOK
  <2>2. job'[w].uuid = u /\ JobInTime(job'[w], row[u], now)
    <3>1. JobInTime([j EXCEPT !.renewals = @ + 1, !.renewAt = Max2(now, j.sendingAt + 1)],
                    row[u], now)
      BY <1>2, <2>1, RenewStartInTime
    <3>2. QED
      BY <1>2, <2>1, <3>1 DEF JobType
  <2>3. QED
    BY <1>1, <2>1, <2>2, QuietStepInTime
<1>5. CASE row' = row /\ job'[w] = Halted(j)
  BY <1>1, <1>3, <1>5, QuietStepInTime
<1>6. ASSUME HoldsLease(row[u], j.tries, j.sendingAt), row'[u] = q, Renewing(j),
             \/ job'[w] = Halted(j)
             \/ job'[w] = [j EXCEPT !.sendingAt = j.renewAt, !.renewAt = 0]
      PROVE  WaitInv'
  <2>1. /\ RowInTime(q, now)
        /\ JobInTime([j EXCEPT !.sendingAt = j.renewAt, !.renewAt = 0], q, now)
        /\ JobInTime(Halted(j), q, now)
    BY <1>2, <1>6, RenewInTime
  <2>2. q.tries = j.tries /\ q.status = "stored"
    BY <1>2, <1>6 DEF Renewed, RowType, HoldsLease
  <2>3. ASSUME NEW v \in Lane \ {w}, job[v].pc \in Working
        PROVE  ~Held(job[v], q)
    <3>1. job[v].uuid = u
      BY <2>3, BusyJobType DEF JobType, Working
    <3>2. job[v].tries # j.tries
      BY <1>1, <1>2, <2>3, <3>1 DEF AttemptInv, OneWorkerPerTry, Working
    <3>3. QED
      BY <2>2, <3>2 DEF Held
  <2>4. job'[w].uuid = u /\ JobInTime(job'[w], q, now)
    BY <1>2, <1>3, <1>6, <2>1 DEF JobType
  <2>5. QED
    BY <1>1, <1>6, <2>1, <2>2, <2>3, <2>4, StepInTime
<1>7. QED
  BY <1>1, <1>2, <1>4, <1>5, <1>6 DEF RenewDone, RenewError, TypeOK

LEMMA OutcomeStepInTime ==
    ASSUME NEW u, Row = {u}, \A s \in Server : Skew[s] = 0,
           TypeOK, AttemptInv, WaitInv, NEW w \in Lane,
           (\E result \in SUBSET Recipient : Settle(w, result)) \/ Complete(w)
    PROVE  WaitInv'
<1> DEFINE j == job[w]
<1>1. /\ j.pc \in {"sending", "settled"}
      /\ now' = now /\ row' = row /\ \A v \in Lane \ {w} : job'[v] = job[v]
  BY DEF Settle, Complete, TypeOK
<1>2. /\ j \in JobType /\ j.uuid = u /\ j.tries <= MaxTries
      /\ JobInTime(j, row[u], now) /\ now \in Nat /\ Clock(Home[w]) = now
      /\ row[u] \in RowType /\ RowInTime(row[u], now)
  BY <1>1, LaneFacts
<1>3. ASSUME NEW result \in SUBSET Recipient, Settle(w, result)
      PROVE  WaitInv'
  <2>1. job'[w] = [j EXCEPT !.pc = "settled", !.result = result]
    BY <1>3 DEF Settle, TypeOK
  <2>2. /\ job'[w].pc = "settled" /\ job'[w].uuid = u /\ job'[w].tries = j.tries
        /\ job'[w].sendingAt = j.sendingAt
        /\ job'[w].renewals = j.renewals /\ job'[w].renewAt = j.renewAt
    BY <1>2, <2>1 DEF JobType
  <2>3. JobInTime(job'[w], row[u], now)
    BY <1>1, <1>2, <2>2 DEF JobInTime, Held, Rest, Claimless
  <2>4. QED
    BY <1>1, <2>2, <2>3, QuietStepInTime
<1>4. CASE Complete(w)
  <2> DEFINE accepted == j.accepted \cup j.result
             kind == Outcome(j, accepted)
             k == [j EXCEPT !.pc = "writing", !.accepted = accepted, !.kind = kind,
                            !.nextAt = now + RetryDelay]
  <2>1. (job'[w] = IdleJob \/ job'[w] = k) /\ j.pc = "settled"
    BY <1>2, <1>4 DEF Complete, TypeOK
  <2>2. accepted \in SUBSET Recipient /\ kind \in Kinds
    BY <1>2, OutcomeType DEF JobType
  <2>3. JobInTime(k, row[u], now)
    <3> HIDE DEF accepted, kind
    <3>1. QED
      BY <1>2, <2>1, <2>2, CompleteInTime
  <2>4. k.uuid = u
    BY <1>2 DEF JobType
  <2>5. IdleJob.pc = "idle"
    BY DEF IdleJob
  <2> HIDE DEF k
  <2>6. job'[w].pc # "idle" => job'[w].uuid = u /\ JobInTime(job'[w], row[u], now)
    BY <2>1, <2>3, <2>4, <2>5
  <2>7. QED
    BY <1>1, <2>6, QuietStepInTime
<1>5. QED
  BY <1>3, <1>4

LEMMA WriteStepInTime ==
    ASSUME NEW u, Row = {u}, \A s \in Server : Skew[s] = 0,
           TypeOK, AttemptInv, WaitInv, NEW w \in Lane,
           WriteDone(w) \/ WriteLost(w) \/ WriteError(w) \/ CallHook(w)
    PROVE  WaitInv'
<1> DEFINE j == job[w]
           q == Written(j, row[u])
<1>1. /\ j.pc \in {"writing", "hook"}
      /\ now' = now /\ \A v \in Lane \ {w} : job'[v] = job[v]
  BY DEF WriteDone, WriteLost, WriteError, CallHook, TypeOK
<1>2. /\ j \in JobType /\ j.uuid = u /\ j.tries <= MaxTries
      /\ JobInTime(j, row[u], now) /\ now \in Nat
      /\ row[u] \in RowType /\ RowInTime(row[u], now)
  BY <1>1, LaneFacts
<1>3. CASE row' = row /\ job'[w] = IdleJob
  BY <1>1, <1>3, QuietStepInTime DEF IdleJob
<1>4. ASSUME j.pc = "writing", HoldsLease(row[u], j.tries, j.sendingAt), row'[u] = q,
             job'[w] = IdleJob \/ job'[w] = [j EXCEPT !.pc = "hook"]
      PROVE  WaitInv'
  <2>1. RowInTime(q, now) /\ ~(Open(q) /\ q.isSending)
    BY <1>2, <1>4, WrittenInTime
  <2>2. q.status # "none"
    BY <1>2, <1>4, UpdatesKeepTries DEF HoldsLease
  <2>3. [j EXCEPT !.pc = "hook"].pc = "hook" /\ [j EXCEPT !.pc = "hook"].uuid = u
    BY <1>2 DEF JobType
  <2>4. job'[w].pc # "idle" => job'[w].pc = "hook" /\ job'[w].uuid = u
    <3>1. IdleJob.pc = "idle"
      BY DEF IdleJob
    <3>2. QED
      BY <1>4, <2>3, <3>1
  <2>5. job'[w].pc # "idle" => JobInTime(job'[w], q, now)
    BY <2>4 DEF JobInTime, Claimless
  <2>6. \A v : ~Held(job[v], q)
    BY <2>1 DEF Held
  <2>7. QED
    BY <1>1, <1>4, <2>1, <2>2, <2>4, <2>5, <2>6, StepInTime
<1>5. QED
  BY <1>1, <1>2, <1>3, <1>4 DEF WriteDone, WriteLost, WriteError, CallHook, Wrote, TypeOK

-----------------------------------------------------------------------------
(* The other steps.                                                        *)

LEMMA OtherStepInTime ==
    ASSUME NEW u, Row = {u}, TypeOK, WaitInv,
           \/ RowStep(u)
           \/ \E s \in Server : ServerStep(s)
           \/ UNCHANGED vars
    PROVE  WaitInv'
<1>1. /\ now' = now /\ now \in Nat /\ row[u] \in RowType /\ RowInTime(row[u], now)
      /\ IdleJob.pc = "idle"
  BY DEF RowStep, AddToQueue, CancelRead, CancelWrite, ServerStep, Crash, Destroy,
         vars, TypeOK, WaitInv, IdleJob
<1>2. \A v \in Lane : job'[v] = job[v] \/ job'[v] = IdleJob
  BY OtherStepTransition
<1>3. \/ row'[u] = row[u]
      \/ /\ ~(Open(row'[u]) /\ row'[u].isSending) /\ row'[u].status # "none"
         /\ RowInTime(row'[u], now)
  <2>1. CASE AddToQueue(u)
    <3>1. row'[u] = NewRow("stored", now) /\ now = 1
      BY <2>1 DEF AddToQueue, TypeOK, WaitInv
    <3>2. /\ row'[u].tries = 0 /\ ~row'[u].isSending /\ row'[u].sendAt = 1
          /\ row'[u].status = "stored"
      BY <3>1 DEF NewRow
    <3>3. Owed(row'[u]) = Left(0) + 0 /\ Left(0) \in Nat /\ Left(0) + 1 = Bound
      <4>1. 0 \in Nat /\ 0 <= MaxTries
        BY MaxTriesAssumption
      <4>2. QED
        BY <3>2, <4>1, TimesLeft DEF Owed
    <3>4. QED
      BY <3>1, <3>2, <3>3 DEF RowInTime
  <2>2. CASE CancelWrite(u)
    <3>1. row'[u] = row[u] \/ (row'[u] = CancelEffect(row[u]) /\ row[u].status = "stored")
      BY <2>2 DEF CancelWrite, TypeOK
    <3>2. ~Open(CancelEffect(row[u]))
      BY <1>1 DEF CancelEffect, Cancelled, Removed, Open, RowType
    <3>3. row[u].status = "stored" => CancelEffect(row[u]).status # "none"
      BY <1>1, UpdatesKeepTries
    <3>4. QED
      BY <3>1, <3>2, <3>3 DEF RowInTime
  <2>3. CASE row' = row
    BY <2>3
  <2>4. QED
    BY <2>1, <2>2, <2>3 DEF RowStep, CancelRead, ServerStep, Crash, Destroy, vars
<1>4. ASSUME NEW v \in Lane PROVE LaneInTime(v)'
  <2>1. CASE job'[v].pc # "idle"
    <3>1. job'[v] = job[v] /\ job[v].pc # "idle"
      BY <1>1, <1>2, <2>1
    <3>2. job[v] \in JobType /\ job[v].uuid = u
      BY <3>1, BusyJobType DEF JobType
    <3>3. JobInTime(job[v], row[u], now)
      BY <3>1, <3>2 DEF WaitInv, LaneInTime
    <3>4. JobInTime(job[v], row'[u], now)
      <4>1. CASE row'[u] = row[u]
        BY <3>3, <4>1
      <4>2. CASE ~(Open(row'[u]) /\ row'[u].isSending)
        BY <1>1, <3>2, <3>3, <4>2, NotHeldInTime DEF Held
      <4>3. QED
        BY <1>3, <4>1, <4>2
    <3>5. QED
      BY <1>1, <3>1, <3>2, <3>4 DEF LaneInTime
  <2>2. QED
    BY <2>1 DEF LaneInTime
<1>5. QED
  BY <1>1, <1>3, <1>4 DEF WaitInv

LEMMA TickKeepsTime ==
    ASSUME NEW u, Row = {u}, \A s \in Server : Skew[s] = 0,
           TypeOK, AttemptInv, WaitInv, Tick, Awaited(u)
    PROVE  WaitInv'
<1>1. /\ now \in Nat /\ row[u] \in RowType /\ RowInTime(row[u], now)
      /\ now' = now + 1 /\ row' = row /\ job' = job
  BY DEF Tick, TypeOK, WaitInv
<1>2. row[u].tries <= MaxTries
  BY DEF AttemptInv, AttemptsWithinBudget
<1>3. /\ RowInTime(row[u], now + 1) /\ now + 1 <= Bound
      /\ \A j \in JobType : JobInTime(j, row[u], now) /\ j.tries <= MaxTries
                               => JobInTime(j, row[u], now + 1)
  BY <1>1, <1>2, TickInTime DEF Awaited
<1>4. row[u].status # "none"
  BY DEF Awaited, Open
<1>5. ASSUME NEW v \in Lane PROVE LaneInTime(v)'
  <2>1. CASE job[v].pc # "idle"
    <3>1. /\ job[v] \in JobType /\ job[v].uuid = u /\ job[v].tries <= MaxTries
          /\ JobInTime(job[v], row[u], now)
      BY <2>1, LaneFacts
    <3>2. QED
      BY <1>1, <1>3, <3>1 DEF LaneInTime
  <2>2. QED
    BY <1>1, <2>1 DEF LaneInTime
<1>6. QED
  BY <1>1, <1>3, <1>4, <1>5 DEF WaitInv

\* With one letter and clocks that agree, a letter is never awaited for longer
\* than its attempts can last, each with all its renewals and its retry delay:
\* whatever the transports, the storages and the instances do.
THEOREM WaitsEnd ==
    ASSUME NEW u, Row = {u}, \A s \in Server : Skew[s] = 0
    PROVE  TimedSpec => []WaitIsBounded
<1>1. Init => WaitInv
  <2>1. Bound \in Nat /\ 1 <= Bound
    <3>1. Left(0) \in Nat /\ Bound \in Nat /\ Left(0) + 1 = Bound
      <4>1. 0 \in Nat /\ 0 <= MaxTries
        BY MaxTriesAssumption
      <4>2. QED
        BY <4>1, TimesLeft
    <3>2. QED
      BY <3>1
  <2>2. QED
    BY <2>1 DEF Init, WaitInv, NewRow, RowInTime, Open, LaneInTime, IdleJob
<1>2. TypeOK /\ AttemptInv /\ WaitInv /\ [TimedNext]_vars => WaitInv'
  <2> SUFFICES ASSUME TypeOK, AttemptInv, WaitInv, [TimedNext]_vars PROVE WaitInv'
    OBVIOUS
  <2>1. ASSUME NEW w \in Lane, LaneStep(w)
        PROVE  WaitInv'
    <3>1. CASE \/ \E v \in Row : Fetch(w, v)
               \/ Dispatch(w) \/ ClaimRejected(w)
      BY <3>1, FetchInTime
    <3>2. CASE Claim(w) \/ ClaimError(w)
      BY <3>2, ClaimStepInTime
    <3>3. CASE RenewStart(w) \/ RenewDone(w) \/ RenewError(w)
      BY <3>3, RenewStepInTime
    <3>4. CASE (\E result \in SUBSET Recipient : Settle(w, result)) \/ Complete(w)
      BY <3>4, OutcomeStepInTime
    <3>5. CASE WriteDone(w) \/ WriteLost(w) \/ WriteError(w) \/ CallHook(w)
      BY <3>5, WriteStepInTime
    <3>6. QED
      BY <2>1, <3>1, <3>2, <3>3, <3>4, <3>5 DEF LaneStep
  <2>2. CASE \/ \E v \in Row : RowStep(v)
             \/ \E s \in Server : ServerStep(s)
             \/ UNCHANGED vars
    BY <2>2, OtherStepInTime
  <2>3. CASE TimedNext /\ Tick
    <3>1. now' # now
      BY <2>3 DEF Tick, TypeOK
    <3>2. Awaited(u)
      BY <2>3, <3>1 DEF TimedNext
    <3>3. QED
      BY <2>3, <3>2, TickKeepsTime
  <2>4. QED
    BY <2>1, <2>2, <2>3 DEF TimedNext, Next
<1>3. WaitInv => WaitIsBounded
  BY DEF WaitInv, WaitIsBounded, Bound, Attempt
<1>4. TimedSpec => Spec
  <2>1. [TimedNext]_vars => [Next]_vars
    BY DEF TimedNext
  <2>2. QED
    BY <2>1, PTL DEF TimedSpec, Spec
<1>5. QED
  BY <1>1, <1>2, <1>3, <1>4, TypeCorrect, AttemptsInductive, PTL DEF TimedSpec
=============================================================================
