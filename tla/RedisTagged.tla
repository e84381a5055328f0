----------------------------- MODULE RedisTagged -----------------------------
(***************************************************************************)
(* RedisQueue in its hash-tag layout ({useHashTags: true}, Redis Cluster):  *)
(* the letters are one hash, their next times one sorted set (schedule),    *)
(* and a pending letter is found by its addressee through a pointer that    *)
(* expires and is registered in a second sorted set (concatkeys).  Every    *)
(* change is a Lua script, which Redis executes as one step; what a call    *)
(* takes is the round trips of __runScript around it.                       *)
(*                                                                         *)
(* A script is executed by EVALSHA if the client believes it loaded, else   *)
(* by SCRIPT LOAD and EVALSHA, and by EVAL if that fails.  Which scripts a  *)
(* client believes loaded, and which the server has (a node restarts, fails *)
(* over, or is another node of the cluster), is left open, so any of the    *)
(* three may be what executes it; round trips that execute nothing (SCRIPT  *)
(* LOAD, an EVALSHA answered NOSCRIPT) only delay the call and are left     *)
(* out.  Names X_... after a definition X are slips a maintainer could make *)
(* in X.                                                                    *)
(***************************************************************************)
EXTENDS QueueRow, Sequences, FiniteSets, Functions

CONSTANTS Letter,       \* uuids
          Rank,         \* the order of uuids: ZRANGEBYSCORE breaks ties by it
          Address,      \* addressees of letters that can be folded into
          To,           \* `to` of a letter; not an Address: a letter without
          Mail,         \* mails to fold into a pending letter
          Client,       \* server instances
          Worker,       \* sends in hand, over all instances
          Sender,       \* sendMail() and cancelMail() calls in progress
          Conn,         \* the instance of a worker or sender
          KeepHistory,  \* keepHistory of each instance
          RetryDelay,   \* retryDelay
          SendDelay,    \* concatDelay: from sendMail() to sendAt
          PointerLead,  \* how long before sendAt a pointer expires: 128 ms
          Limit,        \* rows one scan returns
          ScanLimit,    \* rows one scan looks at
          RerunOps,     \* operations of which EVALSHA may lose the answer after
                        \* SCRIPT LOAD: see AnswerSwallowed
          MaxTime,      \* bound: the last instant of a behaviour
          MaxFaults     \* bound: crashes and answers that do not arrive

Caller == Worker \cup Sender

ASSUME CallerAssumption == Worker \cap Sender = {} /\ Conn \in [Caller -> Client]
ASSUME LetterAssumption == Letter # {} /\ Mail # {}
ASSUME RankAssumption == Rank \in [Letter -> Nat] /\ IsInjective(Rank)
ASSUME KeepHistoryAssumption == KeepHistory \in [Client -> BOOLEAN]
ASSUME DelayAssumption == /\ RetryDelay \in Nat /\ SendDelay \in Nat
                          /\ PointerLead \in Nat /\ PointerLead <= SendDelay
ASSUME LimitAssumption == Limit \in Nat \ {0} /\ ScanLimit \in Nat /\ ScanLimit >= Limit
ASSUME BoundsAssumption == MaxTime \in Nat /\ MaxFaults \in Nat

VARIABLES
    now,     \* time
    db,      \* the keys of the queue
    call,    \* what each worker and each sender is doing
    faults   \* faults that may still happen

vars == <<now, db, call, faults>>

-----------------------------------------------------------------------------
(* State.                                                                  *)

\* letters:    the hash; a row that is not "stored" is not in it
\* options:    the mails appended to the mailOptions of a letter
\* schedule:   the scores of the sorted set; 0: not a member
\* pointer:    the concatletter keys; until = 0: no such key
\* concatkeys: the scores of the sorted set of pointers; 0: not a member
DbType ==
    [letters : [Letter -> RowType], options : [Letter -> Seq(Mail)],
     schedule : [Letter -> Nat],
     pointer : [Address -> [uuid : Letter, until : Nat]],
     concatkeys : [Address -> Nat]]

SendOps == {"claim", "renew", "sent", "failed", "released"}
Ops == SendOps \cup {"push", "append", "cancel"}

ASSUME RerunAssumption == RerunOps \subseteq Ops

\* script:  __runScript is under way
\* again:   the error of an EVALSHA was swallowed, EVAL comes next
\* read:    the scan answered, a row is in hand and ___dispatch comes next
\* working: the claim is held and no call is under way
\* pointed: getPendingTo has the uuid, the letter is read next
InScript == {"script", "again"}

CallType == [pc : InScript \cup {"read", "working", "pointed"},
             op : Ops \cup {"none"}, uuid : Letter,
             tries : Nat, sendingAt : Nat, mayRenew : BOOLEAN,
             at : Nat,    \* the `now`, the stamp or the sendAt of the call
             mail : Mail]

IdleCall == [pc |-> "idle"]

SomeLetter == CHOOSE u \in Letter : TRUE

NoPointer == [uuid |-> SomeLetter, until |-> 0]

NewCall(op, u, at) ==
    [pc |-> "idle", op |-> op, uuid |-> u, tries |-> 0, sendingAt |-> 0,
     mayRenew |-> FALSE, at |-> at, mail |-> CHOOSE m \in Mail : TRUE]

TypeOK ==
    /\ now \in Nat
    /\ db \in DbType
    /\ call \in [Caller -> CallType \cup {IdleCall}]
    /\ faults \in Nat

Init ==
    /\ now = 1
    /\ db = [letters |-> [u \in Letter |-> NewRow("none", 0)],
             options |-> [u \in Letter |-> <<>>],
             schedule |-> [u \in Letter |-> 0],
             pointer |-> [a \in Address |-> NoPointer],
             concatkeys |-> [a \in Address |-> 0]]
    /\ call = [k \in Caller |-> IdleCall]
    /\ faults = MaxFaults

-----------------------------------------------------------------------------
(* The scripts: the keys after script X of call `j`.                       *)

\* When a scan has to find the row: its schedule score.
DueAt(r) == IF r.isSending THEN r.sendingAt + SendingTimeout ELSE r.sendAt

PushScript(d, j) ==
    LET until == IF j.at - PointerLead >= now THEN j.at - PointerLead ELSE 0 IN
    [d EXCEPT !.letters[j.uuid] = NewRow("stored", j.at),
              !.options[j.uuid] = <<>>,
              !.schedule[j.uuid] = j.at,
              !.pointer = [a \in Address |->
                  IF a # To[j.uuid] THEN @[a]
                  ELSE IF until = 0 THEN NoPointer ELSE [uuid |-> j.uuid, until |-> until]],
              !.concatkeys = [a \in Address |->
                  IF a = To[j.uuid] THEN j.at - PointerLead ELSE @[a]]]

WithoutPointer_AnyLetters(d, u) ==
    [d EXCEPT !.pointer = [a \in Address |-> IF a = To[u] THEN NoPointer ELSE @[a]],
              !.concatkeys = [a \in Address |-> IF a = To[u] THEN 0 ELSE @[a]]]

\* A letter that ends takes its own pointer with it, and no other letter's.
WithoutPointer(d, u) ==
    LET own == {a \in Address : a = To[u] /\ d.pointer[a].uuid = u}
        gone == {a \in Address : a = To[u] /\ d.pointer[a].until = 0}
    IN  [d EXCEPT !.pointer = [a \in Address |-> IF a \in own THEN NoPointer ELSE @[a]],
                  !.concatkeys = [a \in Address |-> IF a \in own \cup gone THEN 0 ELSE @[a]]]

WithRow_KeepsScore(d, u, r) ==
    [d EXCEPT !.letters[u] = r,
              !.schedule[u] = IF ~Open(r) THEN 0 ELSE IF @ = 0 THEN DueAt(r) ELSE @]

\* HSET and the schedule that goes with the new row.
WithRow(d, u, r) ==
    [d EXCEPT !.letters[u] = r,
              !.schedule[u] = IF Open(r) THEN DueAt(r) ELSE 0]

\* The guard of the modes `claim`, `lease` and `plain`.
Passes(j, r) ==
    CASE j.op = "claim"  -> CanClaim(r, j.tries, j.at)
      [] j.op = "cancel" -> TRUE
      [] OTHER           -> HoldsLease(r, j.tries, j.sendingAt)

\* The fields of the call, put over those of the row as it is now.
Update(j, r) ==
    CASE j.op = "claim"    -> Claimed(r, j.tries + 1, j.at)
      [] j.op = "renew"    -> Renewed(r, j.at)
      [] j.op = "released" -> Retried(r, j.at)
      [] j.op = "sent"     -> Sent(r, r.accepted)
      [] j.op = "failed"   -> Failed(r, r.accepted)
      [] j.op = "cancel"   -> Cancelled(r)

UpdateScript(d, j) ==
    LET r == d.letters[j.uuid]
        after == WithRow(d, j.uuid, Update(j, r))
    IN  IF r.status # "stored" THEN [d EXCEPT !.schedule[j.uuid] = 0]
        ELSE IF ~Passes(j, r) THEN d
        ELSE IF Open(Update(j, r)) THEN after ELSE WithoutPointer(after, j.uuid)

RemoveScript(d, j) ==
    LET r == d.letters[j.uuid] IN
    IF r.status # "stored" THEN [d EXCEPT !.schedule[j.uuid] = 0]
    ELSE IF ~Passes(j, r) THEN d
    ELSE WithoutPointer(WithRow(d, j.uuid, NewRow("removed", 0)), j.uuid)

CanAppend(r) == Open(r) /\ ~r.isSending

AppendScript(d, j) ==
    IF CanAppend(d.letters[j.uuid])
    THEN [d EXCEPT !.options[j.uuid] = Append(@, j.mail)]
    ELSE d

-----------------------------------------------------------------------------
(* The scan.                                                               *)

Due(d, at) == {u \in Letter : d.schedule[u] # 0 /\ d.schedule[u] <= at}

\* The due rows before `u`: lower scores, then lower uuids.
Before(d, at, u) ==
    {v \in Due(d, at) : \/ d.schedule[v] < d.schedule[u]
                        \/ d.schedule[v] = d.schedule[u] /\ Rank[v] < Rank[u]}

Exhausted(r) == r.tries >= MaxTries

\* A due row that the scan returns.
Returnable(r, at) ==
    /\ Open(r) /\ ~Exhausted(r)
    /\ IF r.isSending THEN DueAt(r) <= at ELSE r.sendAt <= at

\* The loop ends with the tasks it may return.
Scanned(d, at) ==
    {u \in Due(d, at) :
        /\ Cardinality(Before(d, at, u)) < ScanLimit
        /\ Cardinality({v \in Before(d, at, u) : Returnable(d.letters[v], at)}) < Limit}

ScanAnswer(d, at) == {u \in Scanned(d, at) : Returnable(d.letters[u], at)}

Rescored_KeepsExhausted(d, at, u) ==
    IF Open(d.letters[u]) THEN DueAt(d.letters[u]) ELSE 0

\* The score of a due row that the scan does not return: a row that is over or
\* has used up its tries leaves the schedule, another moves to its time.
Rescored(d, at, u) ==
    LET r == d.letters[u] IN
    IF Open(r) /\ ~Exhausted(r) THEN DueAt(r) ELSE 0

IterateScript(d, at) ==
    LET expired == {a \in Address : d.concatkeys[a] # 0 /\ d.concatkeys[a] <= at}
        passed == Scanned(d, at) \ ScanAnswer(d, at)
    IN  [d EXCEPT
           !.pointer = [a \in Address |-> IF a \in expired THEN NoPointer ELSE @[a]],
           !.concatkeys = [a \in Address |-> IF a \in expired THEN 0 ELSE @[a]],
           !.schedule = [u \in Letter |-> IF u \in passed THEN Rescored(d, at, u) ELSE @[u]]]

-----------------------------------------------------------------------------
(* A call of a script, and its answer.                                     *)

Ends(op) == op \in {"sent", "failed", "cancel"}

Effect(k) ==
    LET j == call[k] IN
    CASE j.op = "push"   -> PushScript(db, j)
      [] j.op = "append" -> AppendScript(db, j)
      [] Ends(j.op) /\ ~KeepHistory[Conn[k]] -> RemoveScript(db, j)
      [] OTHER            -> UpdateScript(db, j)

\* What update and remove answer: the row was there and the guard held.
Answer(j) == db.letters[j.uuid].status = "stored" /\ Passes(j, db.letters[j.uuid])

\* The worker after its call has answered `done`; a sender is through with any
\* answer.
After(j, done) ==
    LET idle == [j EXCEPT !.pc = "working", !.op = "none", !.at = 0] IN
    CASE j.op = "claim" /\ done -> [idle EXCEPT !.tries = @ + 1, !.sendingAt = j.at,
                                                !.mayRenew = TRUE]
      [] j.op = "renew" /\ done -> [idle EXCEPT !.sendingAt = j.at]
      [] j.op = "renew" /\ ~done -> [idle EXCEPT !.mayRenew = FALSE]
      [] OTHER -> IdleCall

Begin(k, j) ==
    /\ call' = [call EXCEPT ![k] = [j EXCEPT !.pc = "script"]]
    /\ UNCHANGED <<now, db, faults>>

\* The script is executed and its answer arrives.
RunScript(k) ==
    /\ call[k].pc \in InScript
    /\ db' = Effect(k)
    /\ call' = [call EXCEPT ![k] = After(@, Answer(@))]
    /\ UNCHANGED <<now, faults>>

Fault == faults > 0 /\ faults' = faults - 1 /\ UNCHANGED now

\* The connection fails, before the script is executed or after.  The error of
\* an EVAL, or of EVALSHA for a script believed loaded, reaches the caller, which
\* takes it for a refusal ...
AnswerLost(k) ==
    /\ call[k].pc \in InScript
    /\ Fault
    /\ db' = Effect(k) \/ UNCHANGED db
    /\ call' = [call EXCEPT ![k] = After(@, FALSE)]

\* ... while after SCRIPT LOAD the error is swallowed and the script is sent
\* again, as source, whether it has been executed or not; here it has been.
AnswerSwallowed(k) ==
    /\ call[k].pc = "script" /\ call[k].op \in RerunOps
    /\ Fault
    /\ db' = Effect(k)
    /\ call' = [call EXCEPT ![k].pc = "again"]

ScriptStep(k) == RunScript(k) \/ AnswerLost(k) \/ AnswerSwallowed(k)

-----------------------------------------------------------------------------
(* The calls.                                                              *)

\* iterate.  Its script is one step here: a scan that takes longer does what a
\* later one with an older `now` would do, and finds less.  The rows of its answer
\* pass isIterateCandidate, and one of them is followed.
Scan(w) ==
    LET found == ScanAnswer(db, now) IN
    /\ call[w].pc = "idle"
    /\ db' = IterateScript(db, now)
    /\ IF found = {} THEN UNCHANGED call
       ELSE \E u \in found :
              call' = [call EXCEPT ![w] =
                  [NewCall("none", u, 0) EXCEPT !.pc = "read", !.tries = db.letters[u].tries]]
    /\ UNCHANGED <<now, faults>>

\* iterate logs the error; if the script was executed the keys have changed.
ScanLost(w) ==
    /\ call[w].pc = "idle"
    /\ Fault
    /\ db' = IterateScript(db, now)
    /\ db' # db
    /\ UNCHANGED call

InHand(w) == \E v \in Worker \ {w} :
    /\ Conn[v] = Conn[w]
    /\ call[v].pc \in InScript \cup {"working"}
    /\ call[v].uuid = call[w].uuid

\* ___dispatch passes over a letter this instance has in hand.
Dispatch(w) ==
    /\ call[w].pc = "read"
    /\ IF InHand(w)
       THEN /\ call' = [call EXCEPT ![w] = IdleCall]
            /\ UNCHANGED <<now, db, faults>>
       ELSE Begin(w, [call[w] EXCEPT !.op = "claim", !.at = now])

RenewalStamp(j) == IF now > j.sendingAt THEN now ELSE j.sendingAt + 1

\* A worker renews its claim, or writes what came of the attempt.
StartWrite(w, op) ==
    LET j == call[w]
        with(at) == Begin(w, [j EXCEPT !.op = op, !.at = at])
    IN  /\ j.pc = "working"
        /\ \/ op = "renew" /\ j.mayRenew /\ RenewalStamp(j) <= MaxTime /\ with(RenewalStamp(j))
           \/ op = "sent" /\ with(0)
           \/ op = "failed" /\ j.tries >= MaxTries /\ with(0)
           \/ op = "released" /\ j.tries < MaxTries /\ with(now + RetryDelay)

\* push: a uuid is used once.
StartPush(s, u) ==
    /\ call[s].pc = "idle"
    /\ db.letters[u].status = "none"
    /\ \A k \in Sender : call[k].pc # "idle" => call[k].op # "push" \/ call[k].uuid # u
    /\ Begin(s, NewCall("push", u, now + SendDelay))

\* HGET of cancel: a letter that is gone, sent or cancelled is not cancelled.
StartCancel(s, u) ==
    LET r == db.letters[u] IN
    /\ call[s].pc = "idle"
    /\ r.status = "stored" /\ ~r.isSent /\ ~r.isCancelled
    /\ Begin(s, NewCall("cancel", u, 0))

\* GET of getPendingTo.
LookUp(s, a, m) ==
    /\ call[s].pc = "idle"
    /\ db.pointer[a].until # 0
    /\ \A u \in Letter : m \notin Range(db.options[u])
    /\ \A k \in Sender : call[k].pc # "idle" => call[k].mail # m \/ call[k].op # "append"
    /\ call' = [call EXCEPT ![s] =
         [NewCall("append", db.pointer[a].uuid, now + SendDelay)
            EXCEPT !.pc = "pointed", !.mail = m]]
    /\ UNCHANGED <<now, db, faults>>

\* HGET of getPendingTo; with a pending letter, appendMailOption.
ReadPending(s) ==
    LET r == db.letters[call[s].uuid] IN
    /\ call[s].pc = "pointed"
    /\ IF CanAppend(r) /\ r.sendAt <= call[s].at /\ ~Exhausted(r)
       THEN Begin(s, call[s])
       ELSE /\ call' = [call EXCEPT ![s] = IdleCall]
            /\ UNCHANGED <<now, db, faults>>

-----------------------------------------------------------------------------
Crash(c) ==
    /\ faults > 0
    /\ \E k \in Caller : Conn[k] = c /\ call[k].pc # "idle"
    /\ faults' = faults - 1
    /\ call' = [k \in Caller |-> IF Conn[k] = c THEN IdleCall ELSE call[k]]
    /\ UNCHANGED <<now, db>>

\* Redis drops the keys that expire.
Tick ==
    /\ now < MaxTime
    /\ now' = now + 1
    /\ db' = [db EXCEPT !.pointer = [a \in Address |->
                 IF @[a].until < now' THEN NoPointer ELSE @[a]]]
    /\ UNCHANGED <<call, faults>>

WorkerStep(w) ==
    Scan(w) \/ ScanLost(w) \/ Dispatch(w) \/ \E op \in SendOps : StartWrite(w, op)

SenderStep(s) ==
    \/ \E u \in Letter : StartPush(s, u) \/ StartCancel(s, u)
    \/ \E a \in Address, m \in Mail : LookUp(s, a, m)
    \/ ReadPending(s)

Next ==
    \/ \E k \in Caller : ScriptStep(k)
    \/ \E w \in Worker : WorkerStep(w)
    \/ \E s \in Sender : SenderStep(s)
    \/ \E c \in Client : Crash(c)
    \/ Tick

Spec == Init /\ [][Next]_vars

-----------------------------------------------------------------------------
\* A scan finds every row on time: the score of a row that may be tried again is
\* the time it becomes due, although scans drop rows in flight that have no tries
\* left and move the others; and nothing that is over stays in the schedule.
ScheduleKeepsUp ==
    \A u \in Letter :
        LET r == db.letters[u] IN
        /\ Open(r) /\ ~Exhausted(r) => db.schedule[u] = DueAt(r)
        /\ Open(r) /\ Exhausted(r)  => db.schedule[u] \in {0, DueAt(r)}
        /\ ~Open(r)                 => db.schedule[u] = 0

\* A pointer leads to a letter to its addressee that is stored and open, and
\* concatkeys knows when it expires.
PointersKeepUp ==
    \A a \in Address :
        LET p == db.pointer[a] IN
        p.until # 0 => /\ To[p.uuid] = a /\ Open(db.letters[p.uuid])
                       /\ db.concatkeys[a] = p.until

\* All the keys of the queue tell the same of every letter, whatever calls, scans,
\* crashes and lost answers lie between its push and its end.
KeysAgree == ScheduleKeepsUp /\ PointersKeepUp

\* A pointer that has not expired is lost only with its own letter or to the push
\* of another one (which takes it away if it is executed so late that its own would
\* have expired): an older letter to the same addressee that ends leaves it alone.
PointerStays ==
    [][\A a \in Address :
         LET p == db.pointer[a] IN
         p.until > now => \/ db'.pointer[a] = p
                          \/ ~Open(db'.letters[p.uuid])
                          \/ \E u \in Letter : /\ To[u] = a
                                               /\ db.letters[u].status = "none"
                                               /\ db'.letters[u].status = "stored"]_vars

\* Rows that a scan passes over cannot hide others behind the limits: a scan that
\* returns nothing leaves none of the rows it looked at due.
ScanMakesRoom ==
    [][\A w \in Worker :
         Scan(w) => \/ ScanAnswer(db, now) # {}
                    \/ Due(db', now) \cap Scanned(db, now) = {}]_vars

\* Every call, with its round trips, acts like one atomic operation on the
\* letter: the storage that SendLifecycle assumes.
RegisterOf(r) ==
    CASE r.status = "none"          -> [phase |-> "absent"]
      [] Open(r) /\ r.isSending     -> [phase |-> "held", tries |-> r.tries,
                                        stamp |-> r.sendingAt]
      [] Open(r) /\ ~r.isSending    -> [phase |-> "free", tries |-> r.tries]
      [] OTHER                      -> [phase |-> "closed"]

Atomic == INSTANCE AtomicRow WITH
    register <- [u \in Letter |-> RegisterOf(db.letters[u])]

ActsAtomically == Atomic!Spec
=============================================================================
