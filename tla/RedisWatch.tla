----------------------------- MODULE RedisWatch -----------------------------
(***************************************************************************)
(* RedisQueue in its standalone layout: a letter is two keys, its JSON and *)
(* its due time (sendat).  A claim, a lease-guarded write and the append   *)
(* of sendMail are several commands, WATCH, GET and MULTI/EXEC or UNWATCH, *)
(* and a push is MULTI/EXEC, all on one connection that everything in the  *)
(* process shares.  Redis executes one command (and one MULTI/EXEC) at a   *)
(* time; between two commands of a call anything of other calls may be     *)
(* executed, on this connection too.                                       *)
(*                                                                         *)
(* WATCH belongs to the connection: the EXEC or UNWATCH of any call, a     *)
(* push included, ends every watch of the connection, and an EXEC does     *)
(* nothing if one of the connection's watched keys was written.            *)
(***************************************************************************)
EXTENDS QueueRow, FiniteSets

CONSTANTS Letter,       \* uuids
          Client,       \* instances, each with its connection
          Worker,       \* rows a scan has passed on, over all instances
          Sender,       \* sendMail calls under way, over all instances
          Conn,         \* the client of a worker or sender
          Concat,       \* the instances with {concatEmails: true}
          Concurrency,  \* concurrency: sends at once of an instance
          KeepHistory,  \* keepHistory of each instance
          RetryDelay,   \* retryDelay
          MaxTime,      \* bound: the last instant of a behaviour
          MaxFaults     \* bound: crashes and commands without an answer

User == Worker \cup Sender

ASSUME ConnAssumption == Client # {} /\ Conn \in [User -> Client]
ASSUME UserAssumption == IsFiniteSet(Worker) /\ Worker \cap Sender = {}
ASSUME ConcatAssumption == Concat \subseteq Client
ASSUME ConcurrencyAssumption == Concurrency \in Nat \ {0}
ASSUME KeepHistoryAssumption == KeepHistory \in [Client -> BOOLEAN]
ASSUME RetryDelayAssumption == RetryDelay \in Nat
ASSUME BoundsAssumption == MaxTime \in Nat /\ MaxFaults \in Nat

VARIABLES
    now,      \* time
    letter,   \* the letter keys; not "stored": no such key
    sendat,   \* the sendat keys; 0: no such key
    watched,  \* per connection, the letters whose key it watches
    dirty,    \* connections one of whose watched keys has been written
    call,     \* what each worker and each sender is doing
    cancel,   \* the cancel() call on each letter
    faults    \* faults that may still happen

vars == <<now, letter, sendat, watched, dirty, call, cancel, faults>>
connection == <<watched, dirty>>

-----------------------------------------------------------------------------
(* State.                                                                  *)

\* The calls of update and remove that are guarded: those of workers ...
WorkerOps == {"claim", "renew", "sent", "failed", "released"}

\* ... and the one of senders.
Ops == WorkerOps \cup {"append"}

\* due:     the scan found the sendat key due
\* read:    the scan read the letter, which waits in ___dispatch
\* watched: WATCH is executed, GET comes next
\* checked: the guard held of what GET returned, MULTI/EXEC comes next
\* refused: it did not, UNWATCH comes next
\* working: the claim is held and no call is under way
CallType == [pc : {"due", "read", "watched", "checked", "refused", "working"},
             op : Ops \cup {"none"}, uuid : Letter,
             tries : Nat, sendingAt : Nat, mayRenew : BOOLEAN,
             at : Nat,         \* the stamp or the sendAt to write
             seen : RowType]   \* what GET returned

NoRow == NewRow("none", 0)

IdleCall == [pc |-> "idle"]

CancelPending == {"unscheduled", "decided", "found"}

CancelType == [pc : CancelPending \cup {"idle", "clearing", "cancelled", "lost"},
               keep : BOOLEAN, seen : RowType]

TypeOK ==
    /\ now \in Nat
    /\ letter \in [Letter -> RowType]
    /\ sendat \in [Letter -> Nat]
    /\ watched \in [Client -> SUBSET Letter]
    /\ dirty \subseteq Client
    /\ call \in [User -> CallType \cup {IdleCall}]
    /\ cancel \in [Letter -> CancelType]
    /\ faults \in Nat

NoCancel(pc) == [pc |-> pc, keep |-> FALSE, seen |-> NoRow]

Init ==
    /\ now = 1
    /\ letter = [u \in Letter |-> NoRow]
    /\ sendat = [u \in Letter |-> 0]
    /\ watched = [c \in Client |-> {}]
    /\ dirty = {}
    /\ call = [w \in User |-> IdleCall]
    /\ cancel = [u \in Letter |-> NoCancel("idle")]
    /\ faults = MaxFaults

-----------------------------------------------------------------------------
(* Keys and connections.                                                   *)

\* The connections that watch the key of `u` are marked when it is written.
Touched(u) == {c \in Client : u \in watched[c]}

SendAtKey_OnlySentIsFinal(r) ==
    IF r.status = "stored" /\ ~r.isSent THEN r.sendAt ELSE 0

\* The sendat key that goes with the letter `r`.
SendAtKey(r) == IF Open(r) THEN r.sendAt ELSE 0

\* The watches of a connection end.
Unwatched(c) == [watched EXCEPT ![c] = {}]

ExecOn_IgnoresDirty(c, u, r, due) ==
    /\ watched' = Unwatched(c)
    /\ dirty' = (dirty \cup Touched(u)) \ {c}
    /\ letter' = [letter EXCEPT ![u] = r]
    /\ sendat' = [sendat EXCEPT ![u] = due]

\* MULTI ... EXEC on connection `c`, setting both keys of `u`: nothing is set
\* if a watched key of the connection was written.
ExecOn(c, u, r, due) ==
    /\ watched' = Unwatched(c)
    /\ \/ /\ c \in dirty
          /\ dirty' = dirty \ {c}
          /\ UNCHANGED <<letter, sendat>>
       \/ /\ c \notin dirty
          /\ dirty' = (dirty \cup Touched(u)) \ {c}
          /\ letter' = [letter EXCEPT ![u] = r]
          /\ sendat' = [sendat EXCEPT ![u] = due]

-----------------------------------------------------------------------------
(* sendMail: push, or append to a pending letter.                          *)

\* A letter is pushed, also after an append that returned false; with an EXEC
\* that is refused sendMail throws.
Push(s, u) ==
    /\ call[s].pc = "idle"
    /\ letter[u].status = "none"
    /\ ExecOn(Conn[s], u, NewRow("stored", now), now)
    /\ UNCHANGED <<now, call, cancel, faults>>

NewCall(u) ==
    [pc |-> "due", op |-> "none", uuid |-> u, tries |-> 0, sendingAt |-> 0,
     mayRenew |-> FALSE, at |-> 0, seen |-> NoRow]

\* getPendingTo found the letter `u`, which by now may be anything, and
\* update({appendMailOption}) begins.  The concat keys only say which letter.
StartAppend(s, u) ==
    /\ call[s].pc = "idle"
    /\ Conn[s] \in Concat
    /\ letter[u].status # "none"
    /\ watched' = [watched EXCEPT ![Conn[s]] = @ \cup {u}]
    /\ call' = [call EXCEPT ![s] = [NewCall(u) EXCEPT !.pc = "watched", !.op = "append"]]
    /\ UNCHANGED <<now, letter, sendat, dirty, cancel, faults>>

-----------------------------------------------------------------------------
(* iterate.                                                                *)

\* The scan comes across a sendat key that is due ...
Look(w, u) ==
    /\ call[w].pc = "idle"
    /\ sendat[u] # 0 /\ sendat[u] <= now
    /\ call' = [call EXCEPT ![w] = NewCall(u)]
    /\ UNCHANGED <<now, letter, sendat, connection, cancel, faults>>

IterateCandidate(r) == Open(r) /\ r.tries < MaxTries /\ Takeable(r, now)

\* The letter is in __inFlight: a worker of this instance waits with it for a
\* slot of the pool, or sends it.
InHand(w) ==
    \E v \in Worker \ {w} : /\ Conn[v] = Conn[w]
                            /\ call[v].pc \notin {"idle", "due"}
                            /\ call[v].uuid = call[w].uuid

\* ... and reads the letter, which by now may be another or none.  ___dispatch
\* passes over one that the instance has in hand.
Read(w) ==
    LET r == letter[call[w].uuid] IN
    /\ call[w].pc = "due"
    /\ call' = [call EXCEPT ![w] =
         IF IterateCandidate(r) /\ ~InHand(w)
         THEN [@ EXCEPT !.pc = "read", !.tries = r.tries]
         ELSE IdleCall]
    /\ UNCHANGED <<now, letter, sendat, connection, cancel, faults>>

-----------------------------------------------------------------------------
(* The guarded calls of update and remove.                                 *)

\* The worker has a slot of its instance's pool.
Sending(w) == call[w].pc \in {"watched", "checked", "refused", "working"}

Slots(c) == {v \in Worker : Conn[v] = c /\ Sending(v)}

Watch_Forgotten(w, op, at) ==
    /\ call' = [call EXCEPT ![w] = [@ EXCEPT !.pc = "watched", !.op = op, !.at = at]]
    /\ UNCHANGED <<now, letter, sendat, connection, cancel, faults>>

Watch(w, op, at) ==
    /\ watched' = [watched EXCEPT ![Conn[w]] = @ \cup {call[w].uuid}]
    /\ call' = [call EXCEPT ![w] = [@ EXCEPT !.pc = "watched", !.op = op, !.at = at]]
    /\ UNCHANGED <<now, letter, sendat, dirty, cancel, faults>>

\* update({isSending: true, ...}) begins when a slot of the pool is free.
StartClaim(w) ==
    /\ call[w].pc = "read"
    /\ Cardinality(Slots(Conn[w])) < Concurrency
    /\ Watch(w, "claim", now)

\* The stamp of a renewal is above the last one.
RenewalStamp(j) == IF now > j.sendingAt THEN now ELSE j.sendingAt + 1

\* A worker renews its claim, or writes what came of the attempt: sent, given
\* up after the last attempt, or back in the queue before it.
StartWrite(w, op) ==
    LET j == call[w] IN
    /\ j.pc = "working"
    /\ \/ op = "renew" /\ j.mayRenew /\ RenewalStamp(j) <= MaxTime
          /\ Watch(w, op, RenewalStamp(j))
       \/ op = "sent" /\ Watch(w, op, 0)
       \/ op = "failed" /\ j.tries >= MaxTries /\ Watch(w, op, 0)
       \/ op = "released" /\ j.tries < MaxTries /\ Watch(w, op, now + RetryDelay)

\* The guard of update or remove, by what the call is.
Passes(j, r) ==
    CASE j.op = "claim"  -> CanClaim(r, j.tries, j.at)
      [] j.op = "append" -> Open(r) /\ ~r.isSending
      [] OTHER           -> HoldsLease(r, j.tries, j.sendingAt)

\* GET, and the guard on what it returns.
Get(w) ==
    LET j == call[w]
        r == letter[j.uuid]
    IN  /\ j.pc = "watched"
        /\ call' = [call EXCEPT ![w] =
             IF Passes(j, r) THEN [j EXCEPT !.pc = "checked", !.seen = r]
                             ELSE [j EXCEPT !.pc = "refused"]]
        /\ UNCHANGED <<now, letter, sendat, connection, cancel, faults>>

\* The worker or sender after its call has returned `done`.
After(j, done) ==
    LET idle == [j EXCEPT !.pc = "working", !.op = "none", !.at = 0, !.seen = NoRow] IN
    CASE j.op = "claim" /\ done -> [idle EXCEPT !.tries = @ + 1, !.sendingAt = j.at,
                                                !.mayRenew = TRUE]
      [] j.op = "renew" /\ done -> [idle EXCEPT !.sendingAt = j.at]
      [] j.op = "renew" /\ ~done -> [idle EXCEPT !.mayRenew = FALSE]
      [] OTHER -> IdleCall

UnwatchEffect(w) ==
    /\ watched' = Unwatched(Conn[w])
    /\ dirty' = dirty \ {Conn[w]}

Unwatch(w) ==
    /\ call[w].pc = "refused"
    /\ UnwatchEffect(w)
    /\ call' = [call EXCEPT ![w] = After(@, FALSE)]
    /\ UNCHANGED <<now, letter, sendat, cancel, faults>>

\* The letter a call writes: what GET returned, with the call's fields.  An
\* append adds to mailOptions only.
Update(j, keep) ==
    CASE j.op = "append"          -> j.seen
      [] j.op = "claim"           -> Claimed(j.seen, j.tries + 1, j.at)
      [] j.op = "renew"           -> Renewed(j.seen, j.at)
      [] j.op = "released"        -> Retried(j.seen, j.at)
      [] j.op = "sent" /\ keep    -> Sent(j.seen, j.seen.accepted)
      [] j.op = "failed" /\ keep  -> Failed(j.seen, j.seen.accepted)
      [] OTHER                    -> Removed(j.seen)

\* The EXEC of a call; that of an append leaves the sendat key alone.
ExecEffect(w) ==
    LET j == call[w]
        r == Update(j, KeepHistory[Conn[w]])
    IN  ExecOn(Conn[w], j.uuid, r,
               IF j.op = "append" THEN sendat[j.uuid] ELSE SendAtKey(r))

Exec(w) ==
    /\ call[w].pc = "checked"
    /\ ExecEffect(w)
    /\ call' = [call EXCEPT ![w] = After(@, Conn[w] \notin dirty)]
    /\ UNCHANGED <<now, cancel, faults>>

\* A command throws, executed or not; the call catches it and returns false,
\* and what it watches stays watched.
CallThrows(w) ==
    /\ call[w].pc \in {"watched", "checked", "refused"}
    /\ faults > 0
    /\ \/ UNCHANGED <<letter, sendat, connection>>
       \/ call[w].pc = "refused" /\ UnwatchEffect(w) /\ UNCHANGED <<letter, sendat>>
       \/ call[w].pc = "checked" /\ ExecEffect(w)
    /\ call' = [call EXCEPT ![w] = After(@, FALSE)]
    /\ faults' = faults - 1
    /\ UNCHANGED <<now, cancel>>

-----------------------------------------------------------------------------
(* cancel: no WATCH, the sendat key goes first.                            *)

CancelUnschedule(u, c) ==
    /\ cancel[u].pc = "idle"
    /\ letter[u].status # "none"
    /\ sendat' = [sendat EXCEPT ![u] = 0]
    /\ cancel' = [cancel EXCEPT ![u] =
         [@ EXCEPT !.pc = "unscheduled", !.keep = KeepHistory[c]]]
    /\ UNCHANGED <<now, letter, connection, call, faults>>

\* GET of cancel: a letter that is gone, sent or cancelled is not cancelled.
CancelRead(u) ==
    /\ cancel[u].pc = "unscheduled"
    /\ cancel' = [cancel EXCEPT ![u] =
         IF letter[u].status = "stored" /\ ~letter[u].isSent /\ ~letter[u].isCancelled
         THEN [@ EXCEPT !.pc = "decided"] ELSE NoCancel("idle")]
    /\ UNCHANGED <<now, letter, sendat, connection, call, faults>>

\* With {keepHistory: false}, EXISTS of remove; with true, GET of update.
CancelFind(u) ==
    LET k == cancel[u] IN
    /\ k.pc = "decided"
    /\ cancel' = [cancel EXCEPT ![u] =
         IF letter[u].status = "stored"
         THEN [k EXCEPT !.pc = "found", !.seen = IF k.keep THEN letter[u] ELSE NoRow]
         ELSE NoCancel("idle")]
    /\ UNCHANGED <<now, letter, sendat, connection, call, faults>>

\* ... then DEL of both keys, if they are still there,
CancelDelete(u) ==
    /\ cancel[u].pc = "found"
    /\ ~cancel[u].keep
    /\ letter' = [letter EXCEPT ![u] = Removed(@)]
    /\ sendat' = [sendat EXCEPT ![u] = 0]
    /\ dirty' = IF letter[u].status = "stored" THEN dirty \cup Touched(u) ELSE dirty
    /\ cancel' = [cancel EXCEPT ![u] = NoCancel("cancelled")]
    /\ UNCHANGED <<now, watched, call, faults>>

\* ... or SET of the letter as GET returned it, now cancelled, whatever it has
\* become since,
CancelSet(u) ==
    /\ cancel[u].pc = "found"
    /\ cancel[u].keep
    /\ letter' = [letter EXCEPT ![u] = Cancelled(cancel[u].seen)]
    /\ dirty' = dirty \cup Touched(u)
    /\ cancel' = [cancel EXCEPT ![u] = NoCancel("clearing")]
    /\ UNCHANGED <<now, sendat, watched, call, faults>>

\* ... and DEL of the sendat key.
CancelClear(u) ==
    /\ cancel[u].pc = "clearing"
    /\ sendat' = [sendat EXCEPT ![u] = 0]
    /\ cancel' = [cancel EXCEPT ![u] = NoCancel("cancelled")]
    /\ UNCHANGED <<now, letter, connection, call, faults>>

\* The process dies, or a command of cancel throws: the rest is not executed.
CancelLost(u) ==
    /\ cancel[u].pc \in CancelPending \cup {"clearing"}
    /\ faults > 0
    /\ cancel' = [cancel EXCEPT ![u] = NoCancel("lost")]
    /\ faults' = faults - 1
    /\ UNCHANGED <<now, letter, sendat, connection, call>>

-----------------------------------------------------------------------------
\* A process dies with its connection, and starts again.
Crash(c) ==
    /\ faults > 0
    /\ call' = [w \in User |-> IF Conn[w] = c THEN IdleCall ELSE call[w]]
    /\ watched' = Unwatched(c)
    /\ dirty' = dirty \ {c}
    /\ faults' = faults - 1
    /\ UNCHANGED <<now, letter, sendat, cancel>>

Tick ==
    /\ now < MaxTime
    /\ now' = now + 1
    /\ UNCHANGED <<letter, sendat, connection, call, cancel, faults>>

\* The commands of a guarded call after its WATCH.
CallStep(w) == Get(w) \/ Unwatch(w) \/ Exec(w) \/ CallThrows(w)

WorkerStep(w) ==
    \/ \E u \in Letter : Look(w, u)
    \/ Read(w) \/ StartClaim(w)
    \/ \E op \in WorkerOps : StartWrite(w, op)
    \/ CallStep(w)

SenderStep(s) ==
    \/ \E u \in Letter : Push(s, u) \/ StartAppend(s, u)
    \/ CallStep(s)

CancelStep(u) ==
    \/ \E c \in Client : CancelUnschedule(u, c)
    \/ CancelRead(u) \/ CancelFind(u) \/ CancelDelete(u)
    \/ CancelSet(u) \/ CancelClear(u) \/ CancelLost(u)

Next ==
    \/ \E w \in Worker : WorkerStep(w)
    \/ \E s \in Sender : SenderStep(s)
    \/ \E u \in Letter : CancelStep(u)
    \/ \E c \in Client : Crash(c)
    \/ Tick

Spec == Init /\ [][Next]_vars

-----------------------------------------------------------------------------
\* The claim of a worker is held, as far as the worker knows.
Holds(w) ==
    /\ Sending(w)
    /\ call[w].op # "claim"

\* docs/tuning.md:16: it is impossible for two workers to flip a row at the
\* same tries value.  That holds while no two guarded calls, and no push during
\* one, share a connection, and fails when they do (README.md).
OneWorkerPerTry ==
    \A v, w \in Worker :
        v # w /\ Holds(v) /\ Holds(w) /\ call[v].uuid = call[w].uuid
        => call[v].tries # call[w].tries

\* The two keys of a letter agree, except while a cancel() call is between its
\* commands or was lost there (OpenIsScheduled): a scan can find every letter
\* that is open, and no other.
KeysAgree ==
    \A u \in Letter :
        cancel[u].pc \in {"idle", "cancelled"}
        => sendat[u] = IF Open(letter[u]) THEN letter[u].sendAt ELSE 0

\* docs/queue-api.md:52: iterate must enumerate every open letter that is due.
\* No scan finds one without a sendat key.  While cancel() is under way that is
\* as it should be; a cancel() that was lost leaves such a letter behind.
OpenIsScheduled ==
    \A u \in Letter :
        Open(letter[u]) /\ cancel[u].pc \notin CancelPending => sendat[u] # 0

\* Once cancel() has returned true the letter stays closed and nobody claims it,
\* although cancel() watches nothing and a claim may be between its commands.
CancelHolds ==
    [][\A u \in Letter : cancel[u].pc = "cancelled"
         => /\ ~Open(letter'[u])
            /\ \A w \in Worker : Holds(w)' /\ call'[w].uuid = u => Holds(w)]_vars

\* Every call, with all its commands, acts like one atomic operation on the
\* letter: the storage that SendLifecycle assumes.
RegisterOf(r) ==
    CASE r.status = "none"          -> [phase |-> "absent"]
      [] Open(r) /\ r.isSending     -> [phase |-> "held", tries |-> r.tries,
                                        stamp |-> r.sendingAt]
      [] Open(r) /\ ~r.isSending    -> [phase |-> "free", tries |-> r.tries]
      [] OTHER                      -> [phase |-> "closed"]

Atomic == INSTANCE AtomicRow WITH register <- [u \in Letter |-> RegisterOf(letter[u])]

ActsAtomically == Atomic!Spec
=============================================================================
