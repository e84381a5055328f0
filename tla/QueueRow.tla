------------------------------ MODULE QueueRow ------------------------------
(***************************************************************************)
(* One row of the mail queue and the predicates and updates that the      *)
(* storage adapters evaluate on it in one atomic operation.                *)
(*                                                                         *)
(* The adapters share these predicates: the query of MongoQueue.iterate    *)
(* and the WHERE of PostgresQueue.iterate are isIterateCandidate and the   *)
(* score of the schedule key in RedisQueue; likewise for the claim and for *)
(* the lease guard.  A row is a record; the letter itself is abstracted to *)
(* the set of recipients the transports have accepted it for.              *)
(*                                                                         *)
(* The operators named X_... after an operator X are slips a maintainer    *)
(* could make in X; each is used to show that a property notices it.       *)
(***************************************************************************)
EXTENDS Integers

CONSTANTS Recipient,       \* the addresses of a letter
          MaxTries,        \* maxTries: attempts a row may consume
          SendingTimeout   \* sendingTimeout: age at which a claim is stale

ASSUME MaxTriesAssumption == MaxTries \in Nat \ {0}
ASSUME SendingTimeoutAssumption == SendingTimeout \in Nat \ {0}

\* "none": not pushed yet; "removed": deleted from the storage.  A removed row
\* keeps its last fields for the properties only: every predicate below asks
\* for a stored row.
RowStatus == {"none", "stored", "removed"}

RowType == [status : RowStatus,
            tries : Nat, isSending : BOOLEAN, sendingAt : Nat, sendAt : Nat,
            isSent : BOOLEAN, isFailed : BOOLEAN, isCancelled : BOOLEAN,
            accepted : SUBSET Recipient]

NewRow(status, sendAt) ==
    [status |-> status,
     tries |-> 0, isSending |-> FALSE, sendingAt |-> 0, sendAt |-> sendAt,
     isSent |-> FALSE, isFailed |-> FALSE, isCancelled |-> FALSE,
     accepted |-> {}]

-----------------------------------------------------------------------------
(* Predicates.                                                             *)

Open_IgnoresSent(r) ==
    r.status = "stored" /\ ~r.isFailed /\ ~r.isCancelled

Open_IgnoresCancelled(r) ==
    r.status = "stored" /\ ~r.isSent /\ ~r.isFailed

\* Neither sent, nor given up, nor cancelled.
Open(r) ==
    r.status = "stored" /\ ~r.isSent /\ ~r.isFailed /\ ~r.isCancelled

Takeable_Never(r, at) == ~r.isSending

\* Nobody holds the row, or the claim on it is stale at time `at`.
Takeable(r, at) ==
    ~r.isSending \/ r.sendingAt <= at - SendingTimeout

Eligible_TriesOffByOne(r, at) ==
    Open(r) /\ r.sendAt <= at /\ r.tries <= MaxTries /\ Takeable(r, at)

\* The predicate of iterate: the row is due at time `at`.
Eligible(r, at) ==
    Open(r) /\ r.sendAt <= at /\ r.tries < MaxTries /\ Takeable(r, at)

CanClaim_IgnoresTries(r, tries, stamp) ==
    Open(r) /\ Takeable(r, stamp)

\* The compare-and-set of the send claim: the row is as it was read (`tries`)
\* and it is free, or stale at the stamp the claim would write.
CanClaim(r, tries, stamp) ==
    Open(r) /\ r.tries = tries /\ Takeable(r, stamp)

\* The guard on every write a worker makes after its claim: the row still
\* carries the attempt and the stamp this worker wrote.
HoldsLease(r, tries, sendingAt) ==
    /\ r.status = "stored"
    /\ r.tries = tries /\ r.isSending /\ r.sendingAt = sendingAt
    /\ ~r.isCancelled /\ ~r.isFailed

-----------------------------------------------------------------------------
(* Updates.                                                                *)

Claimed_KeepsTries(r, tries, stamp) ==
    [r EXCEPT !.isSending = TRUE, !.sendingAt = stamp]

Claimed(r, tries, stamp) ==
    [r EXCEPT !.isSending = TRUE, !.sendingAt = stamp, !.tries = tries]

Renewed(r, at) == [r EXCEPT !.isSending = TRUE, !.sendingAt = at]

Retried_Backdates(r, sendAt) ==
    [r EXCEPT !.isSending = FALSE, !.sendingAt = -1, !.sendAt = sendAt]

\* A failed attempt goes back to the queue; its letter is not rewritten.
Retried(r, sendAt) ==
    [r EXCEPT !.isSending = FALSE, !.sendingAt = 0, !.sendAt = sendAt]

\* A partly delivered letter goes back to the queue with the recipients that
\* have it.
Released(r, sendAt, accepted) ==
    [r EXCEPT !.isSending = FALSE, !.sendingAt = 0, !.sendAt = sendAt,
              !.accepted = accepted]

Sent(r, accepted) ==
    [r EXCEPT !.isSent = TRUE, !.isSending = FALSE, !.sendingAt = 0,
              !.accepted = accepted]

Failed(r, accepted) ==
    [r EXCEPT !.isSent = FALSE, !.isFailed = TRUE,
              !.isSending = FALSE, !.sendingAt = 0, !.accepted = accepted]

Removed(r) == [r EXCEPT !.status = "removed"]

Cancelled(r) == [r EXCEPT !.isCancelled = TRUE]
=============================================================================
