------------------------------ MODULE Adapters ------------------------------
(***************************************************************************)
(* The predicates and updates of QueueRow as each adapter states them: a   *)
(* MongoDB query, a WHERE clause, JavaScript on a letter that was read, and *)
(* the Lua scripts.  They treat differently what QueueRow takes for granted *)
(* - letters of version 3 without the two fields of the lock, the index in  *)
(* which Redis looks for due letters, and update objects, whose fields      *)
(* decide which guard an update gets.                                       *)
(***************************************************************************)
EXTENDS QueueRow

(* Letters as they are stored.                                             *)

LockFields == {"isSending", "sendingAt"}

\* has: the fields of the lock that the document or JSON text has
Document == [row : RowType, has : SUBSET LockFields]

Has(d, field) == field \in d.has

\* `task.isSending === true`, in Lua `task.isSending`
IsSending(d) == Has(d, "isSending") /\ d.row.isSending

\* `typeof task.sendingAt === 'number' ? task.sendingAt : 0`, `task.sendingAt or 0`
SendingAt(d) == IF Has(d, "sendingAt") THEN d.row.sendingAt ELSE 0

\* docs/migration-v3-v4.md:75: a letter without the fields is unlocked.
AsRow(d) == [d.row EXCEPT !.isSending = IsSending(d), !.sendingAt = SendingAt(d)]

Closed(r) == r.isSent \/ r.isFailed \/ r.isCancelled

Found(d) == d.row.status = "stored"

-----------------------------------------------------------------------------
(* MongoDB: a comparison with a field that is missing is false, {$ne: true} *)
(* of it is true.                                                          *)

MongoOpen(d) == Found(d) /\ ~d.row.isSent /\ ~d.row.isFailed /\ ~d.row.isCancelled

MongoNotSending(d) == ~(Has(d, "isSending") /\ d.row.isSending)

MongoTakeable(d, at) ==
    \/ MongoNotSending(d)
    \/ Has(d, "sendingAt") /\ d.row.sendingAt <= at - SendingTimeout

MongoIterate(d, now) ==
    MongoOpen(d) /\ d.row.sendAt <= now /\ d.row.tries < MaxTries /\ MongoTakeable(d, now)

MongoClaim(d, tries, stamp) ==
    MongoOpen(d) /\ d.row.tries = tries /\ MongoTakeable(d, stamp)

\* the queries of update and of remove
MongoLease(d, tries, sendingAt) ==
    /\ Found(d) /\ d.row.tries = tries
    /\ Has(d, "isSending") /\ d.row.isSending
    /\ Has(d, "sendingAt") /\ d.row.sendingAt = sendingAt
    /\ ~d.row.isCancelled /\ ~d.row.isFailed

MongoAppend(d) == MongoOpen(d) /\ MongoNotSending(d)

MongoPending(d, sendAt) ==
    MongoAppend(d) /\ d.row.tries < MaxTries /\ d.row.sendAt <= sendAt

-----------------------------------------------------------------------------
(* PostgreSQL: every column has a value.                                   *)

PostgresOpen(r) == r.status = "stored" /\ ~r.isSent /\ ~r.isFailed /\ ~r.isCancelled

PostgresIterate(r, now) ==
    /\ PostgresOpen(r) /\ r.sendAt <= now /\ r.tries < MaxTries
    /\ ~r.isSending \/ r.sendingAt <= now - SendingTimeout

PostgresClaim(r, tries, stamp) ==
    PostgresOpen(r) /\ r.tries = tries /\ (~r.isSending \/ r.sendingAt <= stamp - SendingTimeout)

\* the WHERE of update and of remove
PostgresLease(r, tries, sendingAt) ==
    /\ r.status = "stored" /\ r.tries = tries /\ r.isSending /\ r.sendingAt = sendingAt
    /\ ~r.isCancelled /\ ~r.isFailed

PostgresAppend(r) == PostgresOpen(r) /\ ~r.isSending

PostgresPending(r, sendAt) ==
    PostgresOpen(r) /\ ~r.isSending /\ r.tries < MaxTries /\ r.sendAt <= sendAt

-----------------------------------------------------------------------------
(* Redis.                                                                  *)

\* isIterateCandidate; it does not look at sendAt.
IterateCandidate(d, now) ==
    /\ ~Closed(d.row) /\ d.row.tries < MaxTries
    /\ IsSending(d) => SendingAt(d) <= now - SendingTimeout

\* standalone: the sendat key, then the letter
StandaloneIterate(d, sendat, now) ==
    sendat <= now /\ Found(d) /\ IterateCandidate(d, now)

\* hash tags: the schedule set, the script, then isIterateCandidate again
TaggedReturned(d, now) ==
    /\ Found(d) /\ ~Closed(d.row) /\ d.row.tries < MaxTries
    /\ \/ IsSending(d) /\ SendingAt(d) + SendingTimeout <= now
       \/ ~IsSending(d) /\ d.row.sendAt <= now

TaggedIterate(d, score, now) ==
    score <= now /\ TaggedReturned(d, now) /\ IterateCandidate(d, now)

\* canClaimTask, and mode 'claim' of the update script
RedisClaim(d, tries, stamp) ==
    /\ Found(d) /\ ~Closed(d.row) /\ d.row.tries = tries
    /\ ~(IsSending(d) /\ SendingAt(d) > stamp - SendingTimeout)

\* canReleaseLease, remove, and mode 'lease' of the scripts
RedisLease(d, tries, sendingAt) ==
    /\ Found(d) /\ d.row.tries = tries
    /\ IsSending(d) /\ SendingAt(d) = sendingAt
    /\ ~d.row.isCancelled /\ ~d.row.isFailed

RedisAppend(d) == Found(d) /\ ~(IsSending(d) \/ Closed(d.row))

RedisPending(d, sendAt) ==
    /\ Found(d) /\ ~Closed(d.row)
    /\ ~(d.row.sendAt > sendAt) /\ ~IsSending(d) /\ ~(d.row.tries >= MaxTries)

-----------------------------------------------------------------------------
(* Update objects are functions; `accepted` stands for mailOptions, and the *)
(* transport of a retry is left out.                                       *)

LeaseFields == {"leaseTries", "leaseSendingAt"}
MetaFields == LeaseFields \cup {"appendMailOption"}

\* isAppendMailOptionUpdate, isSendClaimUpdate, isSendLeaseGuardedUpdate, in the
\* order in which every adapter asks
Guard(update) ==
    IF "appendMailOption" \in DOMAIN update THEN "append"
    ELSE IF /\ {"isSending", "tries"} \subseteq DOMAIN update
            /\ update["isSending"] = TRUE
         THEN "claim"
    ELSE IF LeaseFields \subseteq DOMAIN update THEN "lease"
    ELSE "plain"

StripInternalUpdateMeta(update) ==
    [f \in DOMAIN update \ MetaFields |-> update[f]]

\* $set, SET, { ...currentTask, ...update } and the loop of the update script
Merged(r, update) ==
    LET u == StripInternalUpdateMeta(update)
    IN  [f \in DOMAIN r |-> IF f \in DOMAIN u THEN u[f] ELSE r[f]]

\* The task in memory carries what its claim wrote, so its tries and its stamp are
\* numbers.
WithLease(task, update) ==
    IF task.isSending
    THEN [f \in DOMAIN update \cup LeaseFields |->
            CASE f = "leaseTries" -> task.tries
              [] f = "leaseSendingAt" -> task.sendingAt
              [] OTHER -> update[f]]
    ELSE update

ClaimUpdate(tries, stamp) == [isSending |-> TRUE, sendingAt |-> stamp, tries |-> tries]
RenewUpdate(at) == [isSending |-> TRUE, sendingAt |-> at]
RetryUpdate(sendAt) == [isSending |-> FALSE, sendingAt |-> 0, sendAt |-> sendAt]
ReleaseUpdate(sendAt, accepted) ==
    [isSending |-> FALSE, sendingAt |-> 0, sendAt |-> sendAt, accepted |-> accepted]
SentUpdate(accepted) ==
    [isSent |-> TRUE, isSending |-> FALSE, sendingAt |-> 0, accepted |-> accepted]
FailedUpdate(accepted) ==
    [isSent |-> FALSE, isFailed |-> TRUE, isSending |-> FALSE, sendingAt |-> 0,
     accepted |-> accepted]
CancelUpdate == [isCancelled |-> TRUE]
=============================================================================
