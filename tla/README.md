# MailTime in TLA+

MailTime (`src/index.js`, `src/adapters/`) is a mail queue that several node
processes drain together over one storage. A row of the storage is one letter.
No process coordinates the others: what keeps a letter from being sent by two
workers, sent for ever, or reported twice is a handful of compare-and-set
predicates on rows, a lease that a worker renews while the SMTP roundtrip runs,
and the order in which one callback does its work between awaits. This directory
models that protocol, checks it with TLC on small instances and proves its main
safety properties with TLAPS for every size.

## 1. Inventory

| Part | Code | State | Operations | What is hard |
|---|---|---|---|---|
| Send lifecycle | `index.js` `___iterate`, `___dispatch`, `___send`, `___startClaimRenewal`, `___handleError`, `__withLease`, `__leaseRemoveOpts`, `callHook` | `__inFlight`, the copy of the row a task carries (`tries`, `sendingAt`, `mailOptions`), the renewal's closure (`stopped`, `renewals`, `activeRenewal`) | scan, dispatch, claim, renew, answer of the transport, completion write, hook | everything between two awaits: a stale copy, a lost claim, a late callback, a lost acknowledgement, a crash |
| Queue adapters, row semantics | `adapters/mongo.js`, `postgres.js`, `redis.js` | the rows | `iterate`, `push`, `update` (claim, lease, plain, append), `remove`, `cancel`, `getPendingTo` | each predicate must be evaluated together with its update; cancel is a read and a write |
| Redis, standalone layout | `redis.js` 421-865 | `letter`, `sendat`, `concatletter` keys; the watches of one shared connection | the same, in several commands | interleaved WATCH/MULTI, keys that get out of step |
| Redis, hash-tag layout | `redis.js` 39-188, 315-349 | letters hash, schedule set, pointers to pending letters and the set that tracks them | five Lua scripts and the round trips around them | a row that leaves the schedule and never returns; a script that is executed twice; a pointer to the wrong letter |
| Enqueue, concatenation, cancel | `index.js` `sendMail`, `___addToQueue`, `cancelMail` | none of their own | push, append to a pending row, cancel | check-then-act against sends |
| Send pool and instance lifecycle | `createPool`, `destroy`, `drain`, `pause`, `resume` | `active`, `queue`, `drainResolvers`; `__isDestroyed`, `__abortInFlight`, `__isPaused` | dispatch, end of a job, drain, destroy, pause, resume | what is in flight when an instance stops |
| Per-recipient tracking | `collectAcceptedSet`, `collectAllRecipients`, `___trackAcceptedRecipients`, `___finalizeRejected`, `filterAddressField` | `mailOption.accepted`, `.rejected` | union per attempt, remaining recipients | partial delivery over several attempts |
| Transports | `___isHealthyTransport`, `___nextHealthyTransport`, `___mayFailOver`, `___verifyTransports`, balancer, backup | `__unhealthyTransports`, `transport` of instance and row | rotate, fail over, verify | an instance verifies while it sends and others know something else; the row's transport is read long before it is used |
| Layout migration | `scripts/migrate-redis-queue-to-cluster.mjs` | the keys of source and target | copy letters, schedule and pointers, wipe before a rerun | a script that dies half-way and is run again, pointers that expire meanwhile |
| Compilation and payload policy | `___render`, `___compileMailOpts`, `___applyPayloadPolicy`, `helpers.js` | none | pure transformations | - |
| Storage setup | `postgres.js` `__setup`, `ready` | `__readyPromise`; the advisory lock of a session | create table and indexes under the lock | lock and unlock are separate calls of a client that may be a pool |
| Construction, presets | constructor, `___ready`, `ping`, `presets.js` | options | sequential | - |
| JoSk, storages, nodemailer | external | - | one scan per tick; storage calls; SMTP | unknown outcomes |

They interact through three channels: *storage calls* (atomic on a row, may throw
after having been executed), *callbacks* (JoSk calls `___iterate`, the adapter
calls `___dispatch`, the transport calls the completion callback, that calls
`onSent`/`onError`), and *flags and sets of one instance* (`__isDestroyed`,
`__abortInFlight`, `__inFlight`, the pool).

What makes each part correct:

* lifecycle: one worker per attempt; no more than `maxTries` attempts; a claim is
  lost only to somebody entitled to it; one hook per letter, the right one; an
  ended row stays ended; nothing is sent after a cancellation; a letter is sent
  only when all its recipients have it; every letter is resolved in the end.
* pool: never more than `concurrency` sends; `drain()` resolves only when none
  is left and always does.
* concatenation: an accepted mail option is in exactly one letter that is sent.
* Redis: the several commands of one call amount to the atomic call; a letter that
  is open is found by some later scan.
* adapters: all ask for the same rows, and recognise the same updates as claims and as
  writes of a worker that holds one.
* transports: a healthy transport is used whenever one is known; a vetoed failure
  stays with its transport; failures that permit it lead around all of them; the
  balancer treats the healthy ones alike.
* migration: when the script is done, the target holds what the source holds.
* storage setup: processes do not create the table at the same time, and every
  `ready()` is answered.
* recipients: what an attempt offers is the letter's recipients minus the accepted.

`PROJECT.json` lists the hazards one by one, each at its line, with the
properties that watch it or the module that will.

## 2. Modules

```
QueueRow            a row: predicates and updates of the adapters      (no state)
   |  EXTENDS
SendLifecycle ------ INSTANCE ... WITH ------> MailPromise   (what the queue promises)
   |  EXTENDS         \
MCSendLifecycle        SendProgress    time that moves only while somebody waits
   |  EXTENDS         /            \
MCSendLiveness                      SendLifecycleProofs   (TLAPS)
fairness and progress

QueueRow
   |  EXTENDS
RedisWatch --------- INSTANCE ... WITH ------> AtomicRow     (what a storage must be)
   |  EXTENDS                                     ^
MCRedisWatch                                      |
                                                  |
QueueRow <- RedisTagged - INSTANCE ... WITH ------+      <- MCRedisTagged
QueueRow <- EXTENDS - Adapters    as each adapter says it
QueueRow <- EXTENDS - Migration   from the keys of RedisWatch to those of RedisTagged  <- MCMigration
AdaptersProofs  EXTENDS Adapters and Migration                             (TLAPS)

RedisWatchProofs, RedisTaggedProofs  EXTEND RedisWatch and RedisTagged     (TLAPS)

SendPool  <- SendPoolProofs    the inside of one instance: pool, scans, drain, destroy
Concat  <- EXTENDS - MCConcat, ConcatProofs     folding mails into pending letters
Transports <- EXTENDS - MCTransports, TransportsProofs   the transport of an attempt
PostgresSetup <- EXTENDS - MCPostgresSetup, PostgresSetupProofs   tables under a lock
```

`SendLifecycle` assumes that every storage call acts at once; `RedisWatch` and
`RedisTagged` ask whether the two Redis layouts provide that. `SendLifecycle` has
lanes and one destroy flag per instance; `SendPool` opens up the instance, with sends
reduced to their beginning and end. `SendLifecycle` sees a letter as a set of
recipients; `Concat` opens up the letter, without clocks.

### QueueRow

The record of a row (`status`, `tries`, `isSending`, `sendingAt`, `sendAt`,
`isSent`, `isFailed`, `isCancelled`, `accepted`) with the predicates that
storages evaluate on it: `Eligible` (iterate), `CanClaim` (the claim's
compare-and-set), `HoldsLease` (guard of every write after the claim), and the
updates that the code writes. The adapters state these predicates several
times, as a Mongo query, a WHERE clause, JavaScript and Lua; here `map` in
`PROJECT.json` points at the one that shows each most plainly, and `Adapters` has
them all. The letter itself
is abstracted to the set of its recipients and the subset recorded as
`accepted`. A removed row keeps its fields for the properties; no predicate holds
of it, because each asks for `status = "stored"`.

Operators such as `Open_IgnoresSent`, here and in `SendLifecycle`, are slips of
the operator after which they are named. They are used nowhere in the
specification: putting one in the place of its original has to make a stated
property fail, which shows that the property depends on that piece of code.

### Adapters

What `QueueRow` says once for all adapters, as each of them says it: `MongoIterate`,
`PostgresClaim`, `RedisLease`, `TaggedReturned` and so on. A `Document` is a letter that
may lack the fields of the lock, as those of version 3 do; a Mongo query does not match
a missing field where JavaScript and Lua read a 0. In Redis a scan first looks into an
index, the `sendat` key or the score, that is only as good as the writes that keep it.
Updates are objects here: `Guard` is the adapters' choice between append, claim, lease
and plain by the fields of the object, `WithLease` adds those of the lease, `Merged`
is what is stored. Nothing runs in this module; `AdaptersProofs` shows that all of it
comes to what `QueueRow` says (section 4). `RedisWatch` and `RedisTagged` add how the
Redis calls become atomic, and when the index is right.

### SendLifecycle

| Variable | Code |
|---|---|
| `now`, `Skew` | real time; `Date.now()` of instance `s` is `Clock(s) == now + Skew[s]` |
| `row` | the storage |
| `life` | `"up"`; `"draining"` = `__isDestroyed`; `"aborted"` = `__isDestroyed` and `__abortInFlight` |
| `job` | for each lane the task it carries: where ___send stands (`pc`), its copy of the row, the renewal's budget and stamp, the transport's answer, the write it is about to make |
| `canceller` | a `cancelMail` call between its read and its write, or answered `true` |
| `faults` | faults still allowed (a bound) |
| `runs`, `delivered`, `ended`, `hooks` | history: calls of `transport.sendMail`, recipients a transport accepted, how a completion write ended the row, hook calls |

A *lane* is one task in hand. An instance runs `concurrency` sends, and its scan
holds one more row while it waits for a slot.

| Action | Code |
|---|---|
| `AddToQueue` | `___addToQueue`, `queue.push` |
| `CancelRead`, `CancelWrite` | the two halves of `queue.cancel` |
| `Fetch` | `___iterate` and the read of a row by the adapter's cursor |
| `Dispatch` | `___dispatch` (destroyed, `__inFlight`), start of `___send` with the claim's stamp |
| `Claim`, `ClaimRejected`, `ClaimError` | the three answers to the claim; a claimed row goes to the transport |
| `RenewStart`, `RenewDone`, `RenewError` | `renew()` before and after its await |
| `Settle` | the transport calls back, having accepted some, all or none of what it was offered |
| `Complete` | `await renewal.stop()`, the test of `__abortInFlight`, the branches of the callback and of `___handleError` |
| `WriteDone`, `WriteLost`, `WriteError` | the three answers to the completion write |
| `CallHook` | `callHook` in the continuation of that write |
| `Crash`, `Destroy`, `Tick` | process death and restart, `destroy()` in both forms, time |

Every storage call is two steps, the call and its effect with the answer, so any
other step can come between them; the effect is one step because MongoDB,
PostgreSQL and Redis scripts evaluate predicate and update together. A call that
throws may have been executed (`ClaimError`, `RenewError` and `WriteError` have
both outcomes). A completion write whose lease is gone is executed by nobody:
the answer "not modified" is all the worker learns.

### MailPromise

The abstract specification: a letter has a phase, a number of attempts, a
cancelled flag and what its sender was told; no storage, lanes, claims or clocks.
`KeepsPromise` says that `SendLifecycle` implements it under the mapping
`PhaseOf`, `ToldOf`, `CancelledOf`. Claims (also stolen ones) map to `Attempt`,
renewals and lost claims are invisible, and a partial or failed attempt maps to
`Requeue`, which it may be only while a further attempt is left.

### SendProgress, MCSendLifecycle, MCSendLiveness

`SendProgress` is the lifecycle with a clock that moves only while an open row waits
for it (`TimedNext`), with the bound on that waiting. The two other modules are for TLC:
the constants (which lane belongs to which instance, skews, the symmetry of the
recipients), and the fairness and the progress property.

### SendPool

| Variable | Code |
|---|---|
| `life` | `"up"`, `"paused"` (`__isPaused`), `"draining"` (`__isDestroyed`), `"aborted"` (also `__abortInFlight`) |
| `scan` | calls of `___iterate` that may overlap: `"reading"` the cursor or `"waiting"` in `await ___dispatch`; the rows the cursor will still return |
| `inFlight` | `__inFlight` |
| `queue`, `active` | the two variables of `createPool` |
| `started`, `sending`, `ended` | where a job with a slot is: before its first line, in `___send`, settled before the pool's `finally` |
| `drain` | calls of `drain()`, the resolvers included; `at` is a history of when they were called |

| Action | Code |
|---|---|
| `ScanStart`, `ScanEnd` | `___iterate` and the adapter's loop |
| `Skip`, `Dispatch` | the two outcomes of `___dispatch`; `Dispatch` ends with `tryStart` |
| `JobStart`, `SendEnd` | the function that `___dispatch` gives to the pool: the test of `__isDestroyed`, `___send`, the `finally` |
| `SlotFree` | the pool's `finally`: `active--`, the drain resolvers, `tryStart` |
| `Drain`, `Pause`, `Resume`, `DestroyNow`, `DestroyDrain` | the calls of the application |

`TryStart` is the function of that name and part of the actions that call it.

### RedisWatch and AtomicRow

| Variable | Code |
|---|---|
| `letter`, `sendat` | the two keys of a letter; 0 is a missing `sendat` key |
| `watched`, `dirty` | the server's WATCH state of each connection |
| `call` | what a worker is doing: scanned (`due`, `read`), in a guarded call (`watched`, `checked`, `refused`), holding a claim (`working`); and a `sendMail` call (`Sender`): pushing at once, or in the guarded call of an append |
| `cancel` | a `cancel()` call on a letter, between its commands |
| `now`, `faults` | time; crashes and commands that throw still allowed (bounds) |

`Conn` says which connection a worker or a `sendMail` call uses: that of its
instance. `Concat` are the instances that fold, and `Concurrency` limits the
workers of an instance that have a slot of the pool (`Slots`).

A guarded call is `Watch`, `Get`, then `Exec` or `Unwatch`, each one command
that the server executes alone; `CallThrows` is a command that throws, executed
or not. `StartClaim` and `StartWrite` begin the calls that `___send` makes
(claim, renewal, the three completion writes), `StartAppend` the append of
`sendMail`. `Push` is the MULTI/EXEC of a push. All of them end in `ExecOn`, the EXEC
on a connection: it ends every watch there, whoever set it, and sets nothing if a watched
key was written (a push that is refused so throws, and `sendMail` with it; a guarded call
returns `false`). What a call that threw has watched stays watched and can
refuse the EXEC of the next. `cancel` takes its commands one by
one without WATCH (`CancelUnschedule`, `CancelRead`, `CancelFind`, then
`CancelDelete`, or `CancelSet` and `CancelClear`); `CancelLost` stops it between
two. `Crash` ends a process with its connection and its watches.

`AtomicRow` is the abstract storage: a register per letter that is absent, free,
held or closed, with an indivisible claim. `ActsAtomically` maps a letter key to
its register (`RegisterOf`). A command that does not change the register is
invisible; an `EXEC` has to be a legal claim, renewal, release or close of the
register *as it is at that moment*, which is what WATCH is there for.

### Concat

| Variable | Code |
|---|---|
| `letter` | rows: `tries`, `isSending`, how they ended, `mailOptions` as the sequence of mails folded in, `accepted` of each option that has the field |
| `job` | of each worker, the copy its scan read, and whether it claimed it |
| `call` | each `sendMail`: before its append, before its push, done with a uuid (and the mail that stands for this one), or rejected |
| `got` | history: who received the body of a mail |

`sendMail` is `AnswerRepeat` (`equals` found the mail in the letter),
`FindPending` and `Fold` (the append, or what follows its refusal), or
`AddToQueue`; `SendMailFails` is a storage that throws after executing the write. A worker
is `Fetch`, `Claim`, `Settle` (the transport's answer with the completion write)
or `Abandon`. `Compiled` follows `deepMerge` on the `cc` fields, `Offered` takes
away the union of `accepted`, `Tracked` is `___trackAcceptedRecipients`, and
`Written` stores the *copy's* `mailOptions`, as the code does.

### RedisTagged

| Variable | Code |
|---|---|
| `db.letters`, `db.options` | the `letters` hash: the row of a letter, and the mails appended to its `mailOptions` |
| `db.schedule` | the `schedule` sorted set: when a scan has to find a letter |
| `db.pointer`, `db.concatkeys` | the `concatletter` key of an addressee with its expiry, and the sorted set of these keys |
| `call` | what a worker (scanned, in a script, working) or a `sendMail`/`cancelMail` call is doing |
| `now`, `faults` | time; crashes and answers that do not arrive (bounds) |

`PushScript`, `UpdateScript`, `RemoveScript`, `AppendScript` and `IterateScript`
are the five Lua scripts, as functions of the keys and the call; Redis executes
each as one step. `RunScript` is a script with its answer; `AnswerLost` a
connection that fails before or after the execution, with the error reaching the
caller; `AnswerSwallowed` is the second `try` of `__runScript`, whose `catch`
sends the script again by EVAL. `Scan`, `Dispatch` and `StartWrite` are the
worker's calls, `StartPush`, `StartCancel`, `LookUp` and `ReadPending` those of a
sender. `Tick` lets pointers expire, as Redis does. The mapping `RegisterOf` into
`AtomicRow` is that of `RedisWatch`.

### Transports

| Variable | Code |
|---|---|
| `policy` | `strategy`, `failsToNext` and `maxTries` of the prefix (chosen in the initial state) |
| `view` | of each instance: `__unhealthyTransports`, the cursor `transport`, whether it has verified; `share` is a history of the balancer's choices |
| `row` | `tries`, `isSending`, `transport` and the end of a letter, and whether its claim has gone stale |
| `job` | a worker's copy of a row, waiting for its claim or sending |
| `history`, `condemned` | the attempts of each letter; the transports some instance ever found broken |
| `faults` | restarts and claims that go stale (a bound) |

`NextHealthy` is `___nextHealthyTransport`. `Verify` is `___ready` from the ping on
and `___verifyTransports`, a step of its own that may come at any time after the
start, because scans do not wait for it. `AddToQueue` (`AddOther` for letters that
are not followed) moves the balancer's cursor, `Claim` replaces a broken
transport (`ToSend`), and `Failed` asks `MayFailOver` and rotates (`ToRetry`).
`Sent`, `PartlySent` and `ClaimRefused` are the other answers.

### Migration

| Variable | Code |
|---|---|
| `source`, `target` | the keys of the standalone layout and of the cluster |
| `run` | where the script is, with what SCAN has still to return and what was read of the key in hand |
| `now`, `crashes` | time; runs that may die (a bound) |

One action per command of the script (`WipePointers`, `WipeLetters`, `CopyLetter`,
`ScheduleLetter`, `ReadPointer`, `CopyPointer`, `TrackPointer`); `Start` stands for
the loop that drops expired keys from `concatkeys` and the test whether the target
is empty. `Push` and `Work` change the source while no run is under way, `RollBack`
puts it back in use after one.

### PostgresSetup

| Variable | Code |
|---|---|
| `setup` | of each instance, where `__setup` stands, the statements left under the lock and whether one failed; `lock` is a history of the session that granted the lock |
| `session` | the server: which query a session runs, and how often it holds the lock |
| `torn` | history: processes that lost a session that held the lock |
| `faults` | connections lost and processes that die (a bound) |

`Begin` is the call of `__setup` in `__applyPrefix`. Each `client.query` is
`Connect`, which gives the call an idle session, and its execution (`Lock`,
`Create`, `CreateFails`, `Unlock`). A process with a `pg.Client` has one session;
`Pooled` processes have several, which `OtherQuery` of the application uses too
and `CloseIdle` closes. `Rejected` is the `try`/`finally`. The lock is re-entrant
for its session, and an unlock in another session has no effect, as in PostgreSQL.

## 3. Runs

| Run | Instance | Shows |
|---|---|---|
| `send_keep` | 2 instances with 1 lane, the clock of one 1 ahead, 2 recipients, `keepHistory`, `maxTries` 2, `sendingTimeout` 2, 1 renewal, time to 4, 1 fault | all safety properties and the refinement |
| `send_live` | the same with clocks that agree, 1 recipient, rows deleted at their end, `sendingTimeout` 1, time to 12 | every letter resolves, in bounded time; the refinement for `remove()` completions |
| `pool` | 3 rows, 2 scans, 2 slots, 1 caller of `drain()` | the pool's limit and accounts, and that nobody waits for ever |
| `redis_dedicated` | 2 servers with 1 worker each, one with `keepHistory` and one without, a client that folds, 1 letter, `maxTries` 2, time to 2, 1 fault | the commands of a call amount to one atomic operation, the keys agree, a cancellation holds |
| `concat_fold` | 3 mails to one addressee with a copy, two of them the same, 2 workers, `maxTries` 2 | no mail is in two letters, `accepted` is true, a pushed mail arrives |
| `redis_tagged` | 2 servers with 1 worker each that delete what is done, a client that keeps history, 2 letters to one addressee, 1 mail to fold, `maxTries` 2, scan limits of 1, time to 3, 1 fault | the schedule and the pointers keep up with the letters, the scan always makes room, and every call amounts to one atomic operation |
| `transports` | 2 servers with 3 transports, a client with none, 1 letter followed and 3 not, backup after 1 and after 2 failures and balancer, 2 faults | which transport an attempt is made with |
| `migration` | 2 letters to one addressee, time to 6, 2 crashes | the target equals the source when the script is done |
| `postgres_setup` | 2 instances on a pool of 2 sessions, 1 on a client, 1 statement under the lock, 1 fault | processes do not create the table at the same time; a setup waits for ever only for a lock that a pool keeps for nobody |
| `redis_push_between`, `cancel_lost`, `folded_mail_lost` | | one disagreement of code and documentation each (section 6, items 1, 15 and 2) |

*Bounds.* One letter is enough for safety: no predicate or update reads a second
row, and lanes interact through the row they share. Two attempts make the first,
a retry or takeover, and the last one, which is where all branches on `maxTries`
differ. Two recipients are the fewest that can be delivered in part. One fault
suffices for each unknown outcome; `MaxTime` lets a claim be renewed, go stale,
be taken over and be retried in one behaviour. Two lanes are a worker and the one
that supersedes it; two tasks of one instance and `__inFlight` are in `pool`, and in
the proofs of the lifecycle, which hold for any lanes, instances and clocks.
`MaxTime` and `MaxFaults` bound only the runs: the proofs hold for
every value of both. `CHECK_DEADLOCK FALSE` is set because a system whose letters
are all resolved and whose time is up does stop; so does a destroyed instance
with an empty pool, and a queue whose mails have all been sent.

In `pool` two slots and three rows are the least with which one scan waits while
another dispatches and a row is offered to both. In `redis_dedicated` the
two servers are the claim and what it races with: a takeover, a completion by a
superseded worker, an append of the client, a cancellation. One fault is a command that
throws and leaves its watch to the next call of its connection. The run is an instance
of the deployment for which the calls are atomic (`OneAtATime`, section 4), and
`redis_push_between` leaves it by a server that queues mail itself. Several rows in the
hands of one server, `__inFlight` and its pool are left to the proofs, and so are
several letters.

In `concat_fold` a third mail is needed so that a letter can hold two and another
`sendMail` find it; a copy (`cc`) makes partial delivery possible. Its claims may be stale at any time, mails may come at any time, and workers may die
at any time, so no bound but `maxTries` cuts it off.

In `redis_tagged` two letters to one addressee are what a pointer can confuse and
a scan limit of one letter can starve; the client's history makes cancelled
letters stay where deleted ones go, so that one run has both the update and the
remove script. `sendingTimeout` is 1, so that a claim is renewed, goes stale and is
taken over by time 3. One fault is a lost answer, a script that is executed twice
or a crash. `RerunOps` leaves out the push (section 6, item 8).

In `transports` three is the least number of transports for which "the next" and
"another" differ; the sets in `MCBroken` are none, the one that a fresh instance
starts with, the other two, and all. Three attempts with `failsToNext` 2 reach the
first rotation and the attempt after it; three with `failsToNext` 1 go around. Two
faults are what it takes to lose a veto (section 6, item 10), which one did not show.
Balancer policies have one attempt because a retry does not move the letter.

In `migration` the second letter is pushed, ended or retried between two runs, and
takes the addressee's pointer over; two crashes are a run that dies and a rerun
that dies too.

In `postgres_setup` two sessions are what lock and unlock can miss each other on, two
instances on them what can take the lock again in the same session, and the client of
the other process is who waits. One statement is enough to be under the lock; a
longer check with two of them gave the same result.

The two workers of `concat_fold` and its two
equal mails, the two servers of `redis_tagged` and of `transports` with their
workers, and the recipients of a letter are interchangeable, and the runs of safety properties use that symmetry; the runs with liveness properties do not.

*Properties.* `OneWorkerPerTry`, `AttemptsWithinBudget`,
`ClaimLostOnlyToTakeover`, `HookAtMostOnce`, `SentMeansDelivered`, `EndIsFinal`,
`NoSendAfterCancel`, `KeepsPromise`, `WaitIsBounded`, `EveryLetterResolves` of the
lifecycle; `ConcurrencyBound`, `NobodyForgotten`, `MarksMatchJobs`,
`DestroyIsQuiet`, `DestroyDrainResolves`, `ScanGetsSlot` of the
pool; `KeysAgree`, `CancelHolds`, `PointerStays`, `ScanMakesRoom`, `ActsAtomically` of Redis (and
`OneWorkerPerTry` and `OpenIsScheduled` of `RedisWatch`, which do not hold);
`VetoHolds`, `FailoverSweeps`, `BalancedShare`, `UsesHealthy` of transports;
`Migrated` of the migration; `SetupsExclude`, `SetupEnds` of the setup;
`InOneLetter`, `AcceptedIsReached`, `PushedMailArrives` of folding. Each is stated
in words at its definition.

`SentMeansDelivered` records what a transport *reported* as accepted; the queue
cannot know more. That a letter may be *mailed* twice when a worker dies between
the answer of the SMTP server and its completion write is documented
(`docs/tuning.md`, "Reliability boundary") and is possible in the model: the
properties limit it to one mailing per attempt and `maxTries` attempts.

*Fairness.* `MCSendLiveness` assumes, for each lane, weak fairness of taking a due
row (JoSk calls `___iterate` again and again) and of the steps that follow by
themselves (dispatch, the storage's answers, the transport's callback, the
continuation, the hook), and of time passing while an open row waits for it. An
answer always comes because storage clients and nodemailer time out with an
error; that is external. Nothing is assumed of `sendMail`, `cancelMail`, the
renewal timer, `destroy` and faults. Fairness of a lane is as strong as one
disjunction of its steps, since a lane is one chain of continuations.
`TimedNext` lets time pass only while it can change something, so that a finite
`MaxTime` cuts off no behaviour; `WaitIsBounded` says so, namely
that a letter does not wait longer than its attempts, each with its claim
and its renewals, can hold it. `WaitsEnd` proves it for one letter, which is what
`send_live` has, whatever the timeouts, budgets, instances and faults.

The pool assumes that the event loop runs what is ready, that cursors return and
that sends settle (for the reasons above). Nobody has to start a scan, and nobody
has to call `drain()` or `destroy()`.

The setup assumes strong fairness of getting a session and of the execution of a
query: clients and pools serve calls in the order they came, and the server grants
a lock in the order of the requests. Nothing makes a pool close a connection.

`EveryLetterResolves` names its two exceptions, each of which needs a fault: a
row was ended but its hook was not called (the process died or the storage threw
after executing the write), or it lost its worker on the last attempt (section 6, item 3). `SetupEnds` names
one: a session of a pool of several has kept the lock of a setup that gave it back
to another (section 6, item 13).

## 4. Proofs

Eight modules hold the theorems, each about the module it is named after
(`AdaptersProofs` also about `Migration`). What a run
shows on its instance a theorem shows for every value of the constants.

`SendLifecycleProofs` proves, for every set of letters,
instances, lanes and recipients, every skew, timeout, delay and budget, and any number
of faults (but for the hypotheses of the last):

| Theorem | States |
|---|---|
| `TypeCorrect` | `Spec => []TypeOK` |
| `OneWorker` | `Spec => []OneWorkerPerTry` |
| `Budget` | `Spec => []AttemptsWithinBudget` |
| `HookOnce` | `Spec => []HookAtMostOnce` |
| `EndFinal` | `Spec => EndIsFinal` |
| `CancelStopsSending` | `Spec => NoSendAfterCancel` |
| `SentIsDelivered` | `Spec => []SentMeansDelivered` |
| `ClaimIsKept` | `Spec => []ClaimLostOnlyToTakeover` |
| `LifecycleKeepsPromise` | `Spec => KeepsPromise`: the refinement of `MailPromise` |
| `WaitsEnd` | `TimedSpec => []WaitIsBounded`, with one letter and clocks that agree |

About the other components:

| Module | Theorems | For |
|---|---|---|
| `SendPoolProofs` | `PoolTypes`, `PoolBound` (`ConcurrencyBound`), `PoolForgetsNobody` (`NobodyForgotten`), `PoolMarks` (`MarksMatchJobs`), `DestroyedIsQuiet` (`DestroyIsQuiet`) | every finite set of tasks, any scans, slots and `drain()` calls |
| `RedisTaggedProofs` | `TaggedTypes`, `TaggedKeysAgree` (`KeysAgree`), `TaggedScansMakeRoom` (`ScanMakesRoom`); with `"push" \notin RerunOps` also `TaggedPointersStay` (`PointerStays`) and `TaggedActsAtomically` (`ActsAtomically`, the refinement of `AtomicRow`) | all letters, addressees, callers, delays and limits of a scan, any crashes and lost answers |
| `RedisWatchProofs` | `WatchTypes`; under `OneAtATime` also `WatchOneWorkerPerTry` (`OneWorkerPerTry`), `WatchKeysAgree` (`KeysAgree`), `WatchCancelHolds` (`CancelHolds`), `WatchActsAtomically` (`ActsAtomically`) | all letters, instances, workers and `sendMail` calls, any `cancel()` calls, crashes and commands that throw |
| `TransportsProofs` | `TransportTypes`, `HealthyFirst` (`UsesHealthy`), `BalancerGoesRound` (`BalancedShare`), `VetoIsKept` (`VetoHolds`), `FailoverGoesAround` (`FailoverSweeps`) | any number of transports, instances, letters and faults, every policy |
| `ConcatProofs` | `TypesHold` (`TypeOK`), `OneLetter` (`InOneLetter`), `AcceptedReached` (`AcceptedIsReached`), `PushedArrives` (`PushedMailArrives`) | all mails, with any text, any copies and any way to write them, any workers and attempts |
| `AdaptersProofs` | `TargetTakesOver` (`Migrated`), `ScansSurvive` (after the script the scan of the new layout returns what that of the old one would have, at every later time) | all letters and addressees, any crashes and reruns of the script, any work between them |
| `PostgresSetupProofs` | `ProcessesExclude` (`SetupsExclude`) | every finite set of instances, any clients, pools and statements, any faults |

`AdaptersProofs` proves, for every letter, time, stamp and number of tries, that
the adapters and `QueueRow` agree:

| Theorem | States |
|---|---|
| `ScansAgree` | what a scan returns is `Eligible` |
| `ClaimsAgree` | the condition of a claim is `CanClaim` |
| `LeasesAgree` | the guard of update and remove is `HoldsLease` |
| `FoldsAgree` | append and `getPendingTo` ask for the same rows everywhere |
| `GuardsChosen` | which guard every update of `index.js` gets |
| `UpdatesAgree` | what every update makes of a row: `Claimed` ... `Cancelled` |

What they assume says where adapters could part. A locked letter has a stamp
(MongoDB would never take it over without one). The tagged scan filters claimed rows
by their stamp only, so that a claimed row must have been due when it was claimed. The
score is not later than the row is eligible, and the `sendat` key holds the letter's
`sendAt`: what `KeysAgree` of `RedisTagged` and of `RedisWatch` are about. No lease has the stamp 0, which Redis reads into a letter without one.

Assumptions: those named `...Assumption` in the modules, which TLC evaluates in every
run. In `QueueRow` and `SendLifecycle`: `maxTries` and `sendingTimeout` positive, `Home`
and `Skew` functions of the right type, the other constants naturals or a Boolean. In
`RedisTagged` and `RedisWatch`: there is a letter (and an instance), since a variable
has to name one. In `PostgresSetup`: the instances are finitely many, since the lock
counts them, and none is named like a state of a session. Two theorems of
`RedisTagged` and four of `RedisWatch` have a hypothesis of their own:

* `"push" \notin RerunOps`: no push is executed twice. It may be (section 6, item 8), and
  then both are false: the letter comes back after its end.
* `OneAtATime`: a connection has one guarded call at a time, and no push during it. That
  is so with `{concurrency: 1}`, the default (`README.md:491` of the repository), on
  dedicated mail workers, which `docs/tuning.md:21` recommends: the processes that send
  queue no mail. An application that folds mail must also wait for one `sendMail` before
  it calls the next. Without any of this the theorems are false: `redis_push_between`
  drops the second condition; two sends at once, two appends, or an append
  and a push, on one connection overwrite a claim of another process in the same way.
  Many documented deployments do not meet them (section 6, item 1).

The argument for the lifecycle:

* `TypeOK` is inductive by itself (`InitType`, `LaneStepType`, `OtherStepType`).
* `OneWorkerPerTry` and `AttemptsWithinBudget` are not. A claim gives its worker
  the number `row.tries + 1`; that nobody else has it needs `WorkersNotAhead`: no
  worker is ahead of its row. And since the claim does not test `maxTries`, the
  limit needs `CopiesBelowBudget`: every copy that waits for its claim is below
  it, and the compare-and-set makes the row as the copy is. Their conjunction is
  `AttemptInv`; fetch, claim, a claim that throws and push are the steps that touch
  it, all others are shown to keep attempts (`SameAttempt`, `SameTries`).
* `HookAtMostOnce` and `EndIsFinal` rest on `EndInv`: a row that a completion
  write ended is `Closed`, that is removed, failed, or sent and not claimed, and a
  closed row matches no claim and no lease (`ClosedIsFinal`); so one lane at most
  is about to call a hook for a row, and none has been called before.
* `NoSendAfterCancel` rests on `CancelInv`: what `cancelMail` leaves behind matches
  no claim, and no step clears it. It holds although the write of `cancelMail` has
  no guard, because it is the claim that asks.
* `SentMeansDelivered` rests on `DeliveryInv`: what a row and every copy of it record
  was delivered (`LettersDelivered`, `CopiesDelivered`), and a worker writes the outcome
  that its record calls for (`OutcomesFit`). An old copy that is written back may record
  less than was delivered, never more.
* `ClaimLostOnlyToTakeover` rests on `OneWorkerPerTry` and on `RenewalsForward`: a
  renewal under way carries a later stamp than its worker knows. So a row with a
  worker's `tries` has the worker's stamp, unless an acknowledgement was lost, and a row
  with more was taken over.
* `KeepsPromise`: the initial states agree, and every action maps to one of `MailPromise`
  or to a stutter, by the phase, attempts, cancellation and hook of the one letter it
  touches. `AttemptInv`, `EndInv` and `DeliveryInv` are what an abstract step needs: a
  claim takes an open letter below its budget, a requeue has a further attempt
  left, a letter is called sent when all have it.

Staleness plays no part in these proofs: no property above depends on clocks,
which is why any skew is allowed. `sendingTimeout` decides only how *often* a
letter is mailed and how soon.

How soon is `WaitIsBounded`, and there everything is about clocks. `WaitInv` carries a
budget: the time that has passed, together with what the attempts and renewals that are
left may still take, fits the bound. So does the time the row is due and the time its
claim goes stale (`RowInTime`), and so do the stamps that the worker on the current
attempt knows or has under way (`JobInTime`), among them that of a renewal which the
storage executes while the worker is told of an error. Time moves only below one of
these; a claim spends an attempt, a renewal one of `maxRenewals`, a retry its delay.
Only the worker with the row's `tries` can write these times, and it is the only one by
`OneWorkerPerTry`; what a stale claim's worker still does is not on the clock. The
hypotheses are needed: the time spent waiting for another letter
comes on top, and an instance whose clock is ahead writes a
later `sendAt`. That a letter is not kept by a transport that never answers needs no
fairness here: `___startClaimRenewal` gives up, and then the claim goes stale.

And for the others:

* *Pool.* `PoolInv`: the counter `active` is the number of jobs that hold a slot and
  below the limit (`SlotsTaken`), every mark belongs to one place (`Marks`), and what a
  `drain()` resolved after `destroy()` found stays so (`DrainsAreQuiet`). `TryStart`
  moves a prefix of the queue into slots; that it takes as many as fit is a lemma on
  sequences.
* *Hash-tag Redis.* `KeysInv` says `KeysAgree` of the keys, and that each script's
  arguments fit its caller (`CallsFit`); one lemma per script shows that it keeps the
  keys agreeing, whoever calls it and how often. `AtomicInv` adds what makes a
  script a legal operation on the register as it is *when it is executed*: a lease is
  never on a sent letter, a renewal's stamp is later than the lease it asks for, and a
  letter that is being pushed is not there.
* *Standalone Redis.* `WatchInv` ties the commands together: between GET and EXEC the
  letter is watched, and the connection is marked or the letter is what GET returned
  (`Watching`). That needs `Alone`, no two guarded calls on a connection, and `Folding`,
  none but of an application that folds on the connection of a push. This is where
  `OneAtATime` comes in, and `SlotFree`, that a pool of one slot gives it to nobody else
  while a call is under way: another EXEC would end the watch. What a call that threw has
  left watched does no harm: it can only refuse the next EXEC.
* *Transports.* `LifeInv` says that a row counts its attempts and that what an instance
  holds for broken has been condemned. A cursor that goes round is a matter of
  distances in a ring (`Steps`, `NextHealthyFits`): what the balancer reaches sooner has
  had as many letters as what it reaches later, or one less (`SharesInOrder`). `RouteInv` follows a
  transport from row to copy to attempt: a copy that can still be claimed agrees
  with the row, or was read while the attempt before was stale. `SweepInv`
  follows the letter's way around: all transports between its first and its last one
  are tried or condemned (`Covers`), each rotation adds one (`MovesOn`), and
  rotations come every `failsToNext` attempts.
* *Folding.* `HomeInv`: only a `sendMail` that is over has left its mail anywhere
  (`Placed`), and it has left it with one letter and the copies of that letter (`OneHome`,
  over the mails that are `Seen` in a letter or in a copy of it). The copies belong to it
  because a completion writes an old copy back over a longer letter, and what an append
  had put there must not turn up in another. `DeliveryInv` adds that an address recorded
  as accepted has received the body it is recorded for and that of the letter's first mail,
  which every copy holds (`RecordsTrue`), so that a letter is marked sent when its
  first mail has reached all (`FirstArrived`). Only the first: a mail folded in may be
  missing from the copy that is sent (section 6, item 2).
* *Migration.* `MigrationInv`: while the script runs, the letters it has still to copy
  are not in the target (`Absent`), and those it has copied agree (`Moved`), so that the two
  make up the source at every step (`LettersInv`); a rerun begins by making all of
  them absent. Pointers cannot be compared so, as they expire while the script works: a
  pointer of the target that leads elsewhere expires no later than the one of the source
  (`NotAstray`), which a crash between two keys and time passing both keep, because no
  pointer lives longer than the next one gets (`Bounded`). `ScansSurvive` then needs that a
  claimed letter was due when it was claimed (`ClaimedWasDue`), the same fact that
  `ScansAgree` asks for.
* *Setup.* `LockInv`: the server's lock has one holder, and in a process that lost no
  session with the lock the sessions hold it at least once for each setup that got it there
  and has not given it back. A count is needed because the lock is re-entrant: an unlock
  on the right session may leave it held for another instance of the pool.

Three proofs failed before they succeeded, and changed what is stated:

* `VetoHolds` was not inductive, and false: with two faults TLC found the behaviour of
  section 6, item 10. The run had one. It now excepts `StaleTwice`.
* `PointerStays` was false with two calls that push to one addressee: a push that is
  executed after its own pointer would have expired deletes the key (`redis.js:41-49`),
  whatever letter it leads to. Folding then opens a letter of its own; no mail is lost. The
  property now says so.
* `OneWorkerPerTry` of `RedisWatch` needs all of `OneAtATime`. That a send has a
  connection for itself with `{concurrency: 1}` is not enough, since `sendMail` uses it too.

Only model-checked: `EveryLetterResolves`, `DestroyDrainResolves`, `ScanGetsSlot` and
`SetupEnds`, which are liveness under fairness and out of the prover's reach.

## 5. What is abstracted

* The answer of a transport is the subset of the offered recipients that it
  accepted; an error, an empty answer and a synchronous exception of the transport
  or of the compilation lead through the same branch and are the empty set.
* A write whose answer is lost is executed at once or never, not later.
* Waiting for a slot is waiting in `"fetched"`; the copy may be arbitrarily old.
* JoSk's lease is left out: any instance may scan at any time. `pause()` and
  `{mode: 'one'}` allow fewer scans and so no further behaviours of the safety
  part.
* The offset between the clocks of two instances is constant. A clock that is set
  back is not modelled.
* One `cancelMail` call per row. `sendAt` of a new letter is the present; a later
  one only delays `Fetch`.
* `RedisQueue.update` and `remove` return `false` where the others throw; a lost
  answer then takes the branch of `ClaimRejected` or `WriteLost`, which leads to
  the same state as `ClaimError` or `WriteError`.
* The scan limits of MongoDB, PostgreSQL and the standalone Redis layout and the
  order of their scans (the hash-tag layout has both).
* Redis: the stamp of a claim is taken when its WATCH is executed; `sendat` holds
  the letter's `sendAt` (the key's value is what `iterate` compares, its uuid is
  the key's name). `concatletter` keys are left out: an append goes to any letter that
  was ever pushed, and what it adds to `mailOptions` is in `Concat`. Clients without
  `watch()` or `multi()`, for which the adapter logs that it is not atomic, are left out
  too. A WATCH that throws is a call that was refused without effect. Each instance
  has its own client, and nobody else has commands executed on it.
* Pool: what the storage offers to a scan is any set of rows, fixed when the scan
  starts. A rejected send settles like any other, since `___send` catches.
* Redis, hash-tag layout: round trips of `__runScript` that execute nothing (SCRIPT
  LOAD, an EVALSHA answered NOSCRIPT) only delay a call. A scan is one step with its
  script: one that takes longer does what a later scan with an older `now` does. At
  most 100 pointers are dropped per scan in the code; the rest wait for the next.
  What a row carries besides the fields of `QueueRow` is left out. Two things happen
  to it: `cjson` turns an empty array of a row into `{}` when an update or an append
  encodes it again, so `accepted: []` comes back as an object, which every reader of
  that field takes for "nothing accepted"; and numbers beyond 14 digits would lose
  their last ones, which no timestamp has.
* Transports: every server has the same list of transports, as
  `docs/multi-instance.md` asks of `strategy` and `failsToNext` too; letters that are
  not followed only move the cursor. `verify()` of all transports is one step, since
  nothing is recorded before the last answer. A partly delivered letter goes back
  with the transport it came with: the code does not write a replaced one. How long
  a claim lives is not modelled: it may go stale at any time.
* Migration: producers and workers are stopped while the script runs, as
  `docs/migration-v5-v5.1.md` asks. SCAN returns the keys that are there when it
  starts. A letter whose payload is no JSON or has no uuid is passed over by the
  script, and none is in the model; pointers without an expiry are not written by
  this version.
* Storage setup: the instances of one prefix; a pool has its sessions from the start
  and opens a closed one again when it needs it; `ready()` waits for what `setup` shows.
* Concat: `cancelMail`, `{keepHistory: false}`, `bcc`, array `to` (never folded by
  `getPendingTo`), and everything of a mail but its text and copies. The append is
  the atomic one of MongoDB, PostgreSQL and the Redis scripts. A pointer to a letter in
  Redis expires before the letter is due, which makes the race of item 2 in
  section 6 rare there; MongoDB and PostgreSQL have no such distance.

## 6. Where code and documentation differ

Items 1, 2 and 15 have a run that ends in a counterexample. First two bugs:

1. **WATCH on a shared connection** (`redis_push_between`, a bug). In the standalone
   layout all calls of a process share a connection, and every EXEC or UNWATCH ends all
   its watches. A `sendMail` of the process that sends makes such calls between WATCH and EXEC
   of a claim: a push is an EXEC (`redis.js:574`), an append ends in an EXEC or UNWATCH
   (`redis.js:792-803`). With `{concurrency: 2}` two claims are under way at once and
   one ends the watch of the other (`redis.js:829`, `:842`). If another process claimed the
   letter meanwhile, the EXEC of the first overwrites that claim and reports success: two workers send the same
   attempt, against `docs/tuning.md:16` and `:22` and `README.md:491`. A cancellation, a
   completion or an append in between is undone in the same way. The calls are atomic
   where every connection makes one guarded call at a time and no push during it
   (`redis_dedicated` and the theorems under `OneAtATime`).
   A command that threw leaves its watch on the connection, and the EXEC of the next push
   may be refused for it: then `sendMail` rejects although nobody touched its letter.
2. **A folded mail is lost** (`folded_mail_lost`, a bug). The claim compares `tries`
   and an append does not change it, so a letter that a scan has copied can still be appended
   to; the copy is sent, marked sent, and its `mailOptions` replace the longer list.
   The caller has been given the uuid of a letter whose `onSent` is called. Without any
   race, the same happens to a mail folded into a letter that the addressee has
   accepted while a copy is missing: the union of `accepted` keeps it from being offered.

The others:

3. **A worker lost on the last attempt**. The claim counts the
   attempt first, and `iterate` asks for `tries < maxTries`. So a row whose last
   worker died, or whose last completion write failed, is never scanned again: it
   stays `isSending`, is never marked failed, `onError` is never called. `docs/tuning.md:16` and
   `skills/mail-time/references/api.md:332` say that it is re-claimed.
   `EveryLetterResolves` has to except it.
4. **A hook after `destroy()`**. `__abortInFlight` is tested
   before the completion write, not after it. `index.js:512` says that no hook is called
   once `destroy()` has returned.
5. **`pause()` and then `drain()`**. A scan in progress does not
   look at `__isPaused`; while its cursor fetches the next row the pool may be empty,
   so `drain()` resolves, and then the scan starts more sends. `index.js:558` and
   `docs/multi-instance.md:96` recommend the pair as the way to wait for in-flight sends.
6. **A dropped copy**. Folding merges the options with
   `deepMerge`, where a later `cc` string replaces an earlier one; the delivery
   check still waits for both addresses. The first is never offered, and the letter
   is retried until it fails.
7. **A repeated append.** After SCRIPT LOAD `__runScript` (`redis.js:334-342`) swallows
   any error of EVALSHA, also that of a connection that failed after the script was
   executed, and sends the script again with EVAL. The append script has no guard
   against that: the mail is in `mailOptions` twice. `docs/queue-api.md:46` says that
   an append adds one element atomically.
8. **A repeated push.** For the same reason, and because a client may retry on its
   own, a push can be executed again after its letter was claimed, sent and deleted;
   it then brings the letter back, to be sent once more. All other scripts compare
   what the call read and are harmless when repeated (`redis_tagged`).
9. **Failures in a row.** `README.md:481` says that the backup strategy rotates after
   `failsToNext` failures in a row. The code tests `tries % failsToNext`: attempts that
   some recipients accepted count too, so a letter may rotate on its first failure.
10. **What a veto covers.** `docs/migration-v4.1-v5.md:51` speaks of
    never crossing providers once the body is on the wire. The veto holds for the attempt
    that follows (`VetoHolds`), with one exception. An attempt is made with the transport
    of a copy (`index.js:1280`), and a failure changes the row's transport but not
    its `tries`, which is all the claim compares. So if the claims of two attempts in a row
    go stale, each is copied while in hand and claimed after its failure: attempt 1 rotates
    the row to 1, attempt 2 is made with the older 0 and vetoes, and attempt 3 with the 1
    that was read before the veto. Beyond the attempt that follows, a failure that permits
    it rotates, a release after partial delivery keeps the row's transport, and an
    instance that finds that transport broken replaces it.
11. **Who balances.** An instance without transports never moves the cursor
    (`index.js:801`): every letter of a `{type: "client"}` starts with transport 0, and
    under the balancer strategy a retry does not rotate either. `README.md:72` and
    `docs/recipes.md:221` do not say so.
12. **Readiness and verification.** When the ping of `___ready` fails, the transports
    are not verified, but scans go on when the storage comes back: all count as
    healthy until the instance is restarted.
13. **The advisory lock of PostgreSQL's setup.** Lock and unlock are separate calls
    of `client.query` (`postgres.js:148`, `:179`). On a pool, which `README.md:545` and
    `skills/mail-time/references/adapters.md:40` recommend, they may run on different
    sessions: the unlock has no effect and the lock stays with a pooled connection until
    that is closed, while another process of the prefix waits for it. `SetupEnds`
    excepts it. Instances that share a pool may also run their statements at once, since
    a session takes its lock again, and so may instances of different prefixes, whose
    locks differ although the table is one. A setup that failed is never tried again:
    `ready()` keeps answering with its error.

14. **Columns that are not added.** `docs/migration-v3-v4.md:33`, `:71` and `:75` say that
    PostgreSQL adds `is_sending` and `sending_at` by `ALTER TABLE ... ADD COLUMN IF NOT
    EXISTS`. `__setup` has only `CREATE TABLE IF NOT EXISTS`, which leaves a table of
    version 3 as it is.
15. **A letter that nobody finds** (`cancel_lost`, a bug). In the standalone layout `cancel`
    deletes the `sendat` key first (`redis.js:604`), then reads the letter, and writes it
    last. If the process dies or a command throws in between, the letter is open and
    has no `sendat` key, which is all that `iterate` looks at: neither cancelled
    nor ever sent, unless somebody cancels it again, against `docs/queue-api.md:52` and
    `README.md:60`. A worker that has the letter in hand at that moment puts the key back
    when it releases it. `KeysAgree` has to except a `cancel()` that was lost, and
    `OpenIsScheduled` is what fails.

Two of concatenation and cancellation remain. The stale copy of
item 2 also loses *recorded recipients*: a slow worker releases a partly delivered
letter with the same `tries`, the older copy of a scan still passes the claim, and its
completion writes the older `accepted` back, so that addresses are mailed again
(against `api.md:340-342`). And the adapters' `cancel` reads `isSent` and writes
`isCancelled` without a guard: a letter that is sent in between is marked cancelled
and `cancelMail` returns `true` (against `index.js:702`).

## 7. Not modelled, and the plan

Not modelled: the parsing of options, `transportFrom`, templates and the payload policy
(sequential transformations without shared state, covered by unit tests); MongoDB's
`ensureIndex`; JoSk, nodemailer and the storages' servers
(external). `index.cjs`, 44% of the repository's lines of JavaScript, is the bundle
that rollup makes of the sources modelled here, and the type declarations are
generated, so that the share of all lines that `map` names stays low.

Done: `QueueRow` and `Adapters`; `SendLifecycle` and `MailPromise`; `SendPool`;
`RedisWatch` and `RedisTagged` with `AtomicRow`; `Transports`; `PostgresSetup`, `Concat`
and `Migration`, all with their theorems.

Next:

* The `concatletter` keys of the standalone layout, with `Concat` as the promise: which
  letter an append goes to. The commands of the append are modelled.
