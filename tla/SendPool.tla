------------------------------ MODULE SendPool ------------------------------
(***************************************************************************)
(* The inside of one server instance: scans hand the rows they read to     *)
(* __pool, which runs at most {concurrency} sends, and drain(), pause(),    *)
(* resume() and destroy() act on it at any moment.                         *)
(*                                                                         *)
(* JavaScript runs one continuation at a time, so an action is the code     *)
(* between two awaits.  A send is abstracted to its beginning and its end;  *)
(* what it does in between is SendLifecycle.                               *)
(***************************************************************************)
EXTENDS Integers, Sequences, FiniteSets

CONSTANTS Task,    \* uuids of the rows a scan may read
          Scan,    \* calls of ___iterate that may overlap
          Caller,  \* calls of drain() that may wait at once
          Limit    \* concurrency

ASSUME LimitAssumption == Limit \in Nat \ {0}
ASSUME TaskAssumption == IsFiniteSet(Task)

VARIABLES
    life,      \* "up", "paused", "draining" or "aborted" (both destroyed)
    scan,      \* of each scan: where it is, and the rows it has still to read
    inFlight,  \* __inFlight
    queue,     \* the jobs that wait for a slot, with the scan that waits too
    active,    \* slots taken
    started,   \* tasks with a slot whose job has not run its first line yet
    sending,   \* tasks in ___send
    ended,     \* jobs that are settled and have not given their slot back
    drain      \* of each drain() call: its state, and the life of the instance
               \* when it was called ("up" again after a resume)

vars == <<life, scan, inFlight, queue, active, started, sending, ended, drain>>

Destroyed == life \in {"draining", "aborted"}

Lives == {"up", "paused", "draining", "aborted"}

Job == [uuid : Task, scan : Scan]

TypeOK ==
    /\ life \in Lives
    /\ scan \in [Scan -> [pc : {"idle", "reading", "waiting"}, todo : SUBSET Task]]
    /\ inFlight \subseteq Task
    /\ queue \in Seq(Job)
    /\ active \in Nat
    /\ started \subseteq Task
    /\ sending \subseteq Task
    /\ ended \in Nat
    /\ drain \in [Caller -> [pc : {"idle", "waiting", "resolved"}, at : Lives]]

Init ==
    /\ life = "up"
    /\ scan = [s \in Scan |-> [pc |-> "idle", todo |-> {}]]
    /\ inFlight = {}
    /\ queue = <<>>
    /\ active = 0
    /\ started = {}
    /\ sending = {}
    /\ ended = 0
    /\ drain = [c \in Caller |-> [pc |-> "idle", at |-> "up"]]

-----------------------------------------------------------------------------
(* createPool.                                                             *)

AtRest_IgnoresActive(a, q) == q = <<>>

AtRest(a, q) == a = 0 /\ q = <<>>

Startable_OffByOne(a, q) ==
    IF Limit + 1 - a <= Len(q) THEN Limit + 1 - a ELSE Len(q)

\* How many jobs tryStart takes off the queue when `a` slots are taken.
Startable(a, q) ==
    IF Limit - a <= Len(q) THEN Limit - a ELSE Len(q)

TryStart_NewestFirst(a, q, sc) ==
    LET n     == Startable(a, q)
        taken == {q[i] : i \in Len(q) - n + 1 .. Len(q)}
    IN  /\ active' = a + n
        /\ queue' = SubSeq(q, 1, Len(q) - n)
        /\ started' = started \cup {job.uuid : job \in taken}
        /\ scan' = [s \in Scan |-> IF \E job \in taken : job.scan = s
                                   THEN [sc[s] EXCEPT !.pc = "reading"]
                                   ELSE sc[s]]

\* tryStart, with `a` slots taken, the queue `q` and the scans `sc`: the oldest
\* jobs get the free slots, and the scans that wait with them go on.
TryStart(a, q, sc) ==
    LET n     == Startable(a, q)
        taken == {q[i] : i \in 1 .. n}
    IN  /\ active' = a + n
        /\ queue' = SubSeq(q, n + 1, Len(q))
        /\ started' = started \cup {job.uuid : job \in taken}
        /\ scan' = [s \in Scan |-> IF \E job \in taken : job.scan = s
                                   THEN [sc[s] EXCEPT !.pc = "reading"]
                                   ELSE sc[s]]

-----------------------------------------------------------------------------
(* Scans.                                                                  *)

\* ___iterate on behalf of the scheduler; the storage will offer the rows in
\* `todo`, one of them in mode 'one'.
ScanStart(s, todo) ==
    /\ life = "up"
    /\ scan[s].pc = "idle"
    /\ scan' = [scan EXCEPT ![s] = [pc |-> "reading", todo |-> todo]]
    /\ UNCHANGED <<life, inFlight, queue, active, started, sending, ended, drain>>

ScanEnd(s) ==
    /\ scan[s].pc = "reading"
    /\ scan[s].todo = {}
    /\ scan' = [scan EXCEPT ![s].pc = "idle"]
    /\ UNCHANGED <<life, inFlight, queue, active, started, sending, ended, drain>>

Skipped(t) == Destroyed \/ t \in inFlight

\* The scan's next row goes to ___dispatch, which passes over it ...
Skip(s, t) ==
    /\ scan[s].pc = "reading"
    /\ t \in scan[s].todo
    /\ Skipped(t)
    /\ scan' = [scan EXCEPT ![s].todo = @ \ {t}]
    /\ UNCHANGED <<life, inFlight, queue, active, started, sending, ended, drain>>

\* ... or marks it in flight and gives it to the pool; the scan waits until the
\* job has a slot.
Dispatch(s, t) ==
    /\ scan[s].pc = "reading"
    /\ t \in scan[s].todo
    /\ ~Skipped(t)
    /\ inFlight' = inFlight \cup {t}
    /\ TryStart(active, Append(queue, [uuid |-> t, scan |-> s]),
                [scan EXCEPT ![s] = [pc |-> "waiting", todo |-> @.todo \ {t}]])
    /\ UNCHANGED <<life, sending, ended, drain>>

-----------------------------------------------------------------------------
(* Jobs.                                                                   *)

JobStart_LeavesMark(t) ==
    /\ t \in started
    /\ started' = started \ {t}
    /\ IF Destroyed THEN /\ ended' = ended + 1
                         /\ UNCHANGED <<sending, inFlight>>
                    ELSE /\ sending' = sending \cup {t}
                         /\ UNCHANGED <<inFlight, ended>>
    /\ UNCHANGED <<life, scan, queue, active, drain>>

\* The job runs: an instance destroyed in the meantime does not send any more.
JobStart(t) ==
    /\ t \in started
    /\ started' = started \ {t}
    /\ IF Destroyed THEN /\ inFlight' = inFlight \ {t}
                         /\ ended' = ended + 1
                         /\ UNCHANGED sending
                    ELSE /\ sending' = sending \cup {t}
                         /\ UNCHANGED <<inFlight, ended>>
    /\ UNCHANGED <<life, scan, queue, active, drain>>

\* ___send settles, whatever came of it, and the mark is taken off.
SendEnd(t) ==
    /\ t \in sending
    /\ sending' = sending \ {t}
    /\ inFlight' = inFlight \ {t}
    /\ ended' = ended + 1
    /\ UNCHANGED <<life, scan, queue, active, started, drain>>

\* The drain() calls after a job has ended with `a` slots taken and the queue `q`.
Resolved(a, q) ==
    [c \in Caller |-> IF drain[c].pc = "waiting" /\ AtRest(a, q)
                      THEN [drain[c] EXCEPT !.pc = "resolved"] ELSE drain[c]]

SlotFree_Twice ==
    /\ ended > 0
    /\ ended' = ended
    /\ drain' = Resolved(active - 1, queue)
    /\ TryStart(active - 1, queue, scan)
    /\ UNCHANGED <<life, inFlight, sending>>

SlotFree_StartsNone ==
    /\ ended > 0
    /\ ended' = ended - 1
    /\ active' = active - 1
    /\ drain' = Resolved(active - 1, queue)
    /\ UNCHANGED <<life, scan, inFlight, queue, started, sending>>

SlotFree_ResolvesTooEarly ==
    /\ ended > 0
    /\ ended' = ended - 1
    /\ drain' = Resolved(active, queue)
    /\ TryStart(active - 1, queue, scan)
    /\ UNCHANGED <<life, inFlight, sending>>

\* The finally of the pool: the slot is given back, drain() calls are resolved
\* if the pool is at rest, and tryStart runs.
SlotFree ==
    /\ ended > 0
    /\ ended' = ended - 1
    /\ drain' = Resolved(active - 1, queue)
    /\ TryStart(active - 1, queue, scan)
    /\ UNCHANGED <<life, inFlight, sending>>

-----------------------------------------------------------------------------
(* Calls of the application.                                               *)

\* __pool.drain(): resolved at once, or when the pool comes to rest.
DrainCall(at) ==
    [pc |-> IF AtRest(active, queue) THEN "resolved" ELSE "waiting", at |-> at]

Drain(c) ==
    /\ drain[c].pc # "waiting"
    /\ drain' = [drain EXCEPT ![c] = DrainCall(life)]
    /\ UNCHANGED <<life, scan, inFlight, queue, active, started, sending, ended>>

Pause ==
    /\ life = "up"
    /\ life' = "paused"
    /\ UNCHANGED <<scan, inFlight, queue, active, started, sending, ended, drain>>

Resume ==
    /\ life = "paused"
    /\ life' = "up"
    /\ drain' = [c \in Caller |-> [drain[c] EXCEPT !.at = "up"]]
    /\ UNCHANGED <<scan, inFlight, queue, active, started, sending, ended>>

\* destroy() and destroy({drain: true}); the latter is also a drain() call, and
\* is resolved together with an earlier one that still waits.
DestroyNow ==
    /\ ~Destroyed
    /\ life' = "aborted"
    /\ UNCHANGED <<scan, inFlight, queue, active, started, sending, ended, drain>>

DestroyDrain(c) ==
    /\ ~Destroyed
    /\ life' = "draining"
    /\ drain' = [drain EXCEPT ![c] = DrainCall("draining")]
    /\ UNCHANGED <<scan, inFlight, queue, active, started, sending, ended>>

-----------------------------------------------------------------------------
ScanGoesOn(s) == ScanEnd(s) \/ \E t \in Task : Skip(s, t) \/ Dispatch(s, t)

Next ==
    \/ \E s \in Scan : (\E todo \in SUBSET Task : ScanStart(s, todo)) \/ ScanGoesOn(s)
    \/ \E t \in Task : JobStart(t) \/ SendEnd(t)
    \/ SlotFree
    \/ \E c \in Caller : Drain(c) \/ DestroyDrain(c)
    \/ Pause \/ Resume \/ DestroyNow

Spec == Init /\ [][Next]_vars

\* The event loop runs what is ready, cursors and sends come back in the end;
\* nobody has to start a scan or to call the instance.
Fairness ==
    /\ \A s \in Scan : WF_vars(ScanGoesOn(s))
    /\ \A t \in Task : WF_vars(JobStart(t)) /\ WF_vars(SendEnd(t))
    /\ WF_vars(SlotFree)

FairSpec == Spec /\ Fairness

-----------------------------------------------------------------------------
\* There are never more than {concurrency} sends at a time, and the counter of
\* the pool counts just the jobs that hold a slot.
ConcurrencyBound ==
    /\ Cardinality(sending) <= Limit
    /\ active = Cardinality(started) + Cardinality(sending) + ended

\* A job waits only while every slot is taken, and so a drain() call waits only
\* while a job that will resolve it is running: neither is ever forgotten.
NobodyForgotten ==
    /\ queue # <<>> => active = Limit
    /\ \A c \in Caller : drain[c].pc = "waiting" => active > 0

\* __inFlight holds the tasks of the pool and no others: a mark left behind would
\* bar its row from this instance for good, a missing one lets a row in twice.
MarksMatchJobs ==
    LET waiting == {queue[i].uuid : i \in DOMAIN queue} IN
    /\ inFlight = waiting \cup started \cup sending
    /\ Cardinality(waiting) = Len(queue)
    /\ waiting \cap started = {} /\ waiting \cap sending = {} /\ started \cap sending = {}

\* After destroy() no send begins, and after destroy({drain: true}) has resolved
\* none is left, although scans may still be dispatching rows.
DestroyIsQuiet ==
    [][Destroyed => /\ sending' \subseteq sending
                    /\ (\E c \in Caller : /\ drain[c].pc = "resolved"
                                          /\ drain[c].at \in {"draining", "aborted"})
                       => sending' = {}]_vars

\* A drain() call of an instance that was destroyed is resolved in the end.
DestroyDrainResolves ==
    \A c \in Caller : Destroyed /\ drain[c].pc = "waiting" ~> drain[c].pc = "resolved"

\* A scan that waits for a slot gets one, however busy other scans keep the pool.
ScanGetsSlot ==
    \A s \in Scan : scan[s].pc = "waiting" ~> scan[s].pc # "waiting"
=============================================================================
