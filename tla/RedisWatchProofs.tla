--------------------------- MODULE RedisWatchProofs ---------------------------
(***************************************************************************)
(* Proofs about RedisWatch: while the guarded calls of each connection are  *)
(* made one at a time, with no push between their commands, WATCH, GET and  *)
(* MULTI/EXEC act like one operation, for every set of letters, instances,  *)
(* workers and senders, any delays, and any number of crashes and commands  *)
(* without an answer.                                                       *)
(***************************************************************************)
EXTENDS RedisWatch, FiniteSetTheorems, TLAPS

\* Dedicated mail workers (docs/tuning.md:21) with {concurrency: 1}, the default:
\* the processes that send queue no mail, and those that queue it send none; and one
\* that folds mail waits for each sendMail call before it makes the next.
OneAtATime ==
    /\ Concurrency = 1
    /\ \A w \in Worker, s \in Sender : Conn[w] # Conn[s]
    /\ \A s, t \in Sender : s # t /\ Conn[s] = Conn[t] => Conn[s] \notin Concat

-----------------------------------------------------------------------------
(* Types.                                                                  *)

LEMMA NewRowType ==
    ASSUME NEW status \in RowStatus, NEW at \in Nat
    PROVE  /\ NewRow(status, at) \in RowType
           /\ NewRow(status, at).status = status /\ NewRow(status, at).sendAt = at
           /\ ~NewRow(status, at).isSending /\ ~NewRow(status, at).isSent
           /\ NewRow(status, at).tries = 0
           /\ Open(NewRow(status, at)) <=> status = "stored"
BY DEF NewRow, RowType, Open

LEMMA NoRowType == NoRow \in RowType /\ NoRow.status = "none"
BY NewRowType DEF NoRow, RowStatus

LEMMA SendAtKeyType ==
    ASSUME NEW r \in RowType
    PROVE  SendAtKey(r) \in Nat
BY DEF SendAtKey, RowType

LEMMA UpdateType ==
    ASSUME NEW j \in CallType, NEW keep \in BOOLEAN
    PROVE  Update(j, keep) \in RowType
<1>1. j.at \in Nat /\ j.tries + 1 \in Nat /\ j.seen \in RowType
  BY DEF CallType
<1> DEFINE r == j.seen
<1> HIDE DEF r
<1>2. r \in RowType
  BY <1>1 DEF r
<1>3. /\ Claimed(r, j.tries + 1, j.at) \in RowType /\ Renewed(r, j.at) \in RowType
      /\ Retried(r, j.at) \in RowType
  BY <1>1, <1>2 DEF Claimed, Renewed, Retried, RowType
<1>4. /\ Sent(r, r.accepted) \in RowType /\ Failed(r, r.accepted) \in RowType
      /\ Removed(r) \in RowType
  BY <1>2 DEF Sent, Failed, Removed, RowType, RowStatus
<1>5. QED
  BY <1>2, <1>3, <1>4 DEF Update, r

\* What comes of a call that has returned.
LEMMA AfterIs ==
    ASSUME NEW j \in CallType, NEW done \in BOOLEAN, NEW after, after = After(j, done)
    PROVE  \/ after = IdleCall
           \/ /\ after \in CallType /\ after.pc = "working" /\ after.op = "none"
              /\ after.uuid = j.uuid
              /\ \/ j.op = "claim" /\ done /\ after.tries = j.tries + 1
                 \/ j.op = "renew" /\ after.tries = j.tries
<1> DEFINE idle == [j EXCEPT !.pc = "working", !.op = "none", !.at = 0, !.seen = NoRow]
<1>1. /\ idle \in CallType /\ idle.pc = "working" /\ idle.op = "none"
      /\ idle.uuid = j.uuid /\ idle.tries = j.tries
  BY NoRowType DEF CallType
<1>2. j.at \in Nat /\ idle.tries + 1 \in Nat
  BY DEF CallType
<1>3. \/ after = IdleCall
      \/ /\ j.op = "claim" /\ done
         /\ after = [idle EXCEPT !.tries = @ + 1, !.sendingAt = j.at, !.mayRenew = TRUE]
      \/ j.op = "renew" /\ after = [idle EXCEPT !.sendingAt = j.at]
      \/ j.op = "renew" /\ after = [idle EXCEPT !.mayRenew = FALSE]
  BY DEF After
<1> HIDE DEF idle
<1>4. CASE /\ j.op = "claim" /\ done
           /\ after = [idle EXCEPT !.tries = @ + 1, !.sendingAt = j.at, !.mayRenew = TRUE]
  <2>1. /\ after \in CallType /\ after.pc = "working" /\ after.op = "none"
        /\ after.uuid = j.uuid /\ after.tries = j.tries + 1
    BY <1>1, <1>2, <1>4, ZenonT(60) DEF CallType
  <2>2. QED
    BY <1>4, <2>1
<1>5. CASE \/ j.op = "renew" /\ after = [idle EXCEPT !.sendingAt = j.at]
           \/ j.op = "renew" /\ after = [idle EXCEPT !.mayRenew = FALSE]
  <2>1. /\ after \in CallType /\ after.pc = "working" /\ after.op = "none"
        /\ after.uuid = j.uuid /\ after.tries = j.tries
    BY <1>1, <1>2, <1>5 DEF CallType
  <2>2. QED
    BY <1>5, <2>1
<1>6. QED
  BY <1>3, <1>4, <1>5

LEMMA CallRead ==
    ASSUME TypeOK, NEW w \in User, call[w].pc # "idle"
    PROVE  call[w] \in CallType /\ call[w].uuid \in Letter
BY DEF TypeOK, IdleCall, CallType

LEMMA NewCallType ==
    ASSUME NEW u \in Letter
    PROVE  /\ NewCall(u) \in CallType
           /\ NewCall(u).pc = "due" /\ NewCall(u).uuid = u /\ NewCall(u).tries = 0
BY NoRowType DEF NewCall, CallType

\* The types of the keys and the connections after MULTI ... EXEC.
LEMMA ExecType ==
    ASSUME TypeOK, NEW c \in Client, NEW u \in Letter, NEW r \in RowType, NEW due \in Nat,
           ExecOn(c, u, r, due)
    PROVE  /\ letter' \in [Letter -> RowType] /\ sendat' \in [Letter -> Nat]
           /\ watched' \in [Client -> SUBSET Letter] /\ dirty' \subseteq Client
<1>1. watched' = Unwatched(c) /\ dirty' \subseteq dirty \cup Touched(u)
      /\ \/ letter' = letter /\ sendat' = sendat
         \/ /\ letter' = [letter EXCEPT ![u] = r]
            /\ sendat' = [sendat EXCEPT ![u] = due]
  BY DEF ExecOn
<1>2. letter' \in [Letter -> RowType] /\ sendat' \in [Letter -> Nat]
  BY <1>1 DEF TypeOK
<1>3. watched' \in [Client -> SUBSET Letter]
  BY <1>1 DEF TypeOK, Unwatched
<1>4. dirty' \subseteq Client
  BY <1>1 DEF TypeOK, Touched
<1>5. QED
  BY <1>2, <1>3, <1>4

LEMMA WatchType ==
    ASSUME TypeOK, NEW w \in User, call[w] \in CallType, NEW op \in Ops, NEW at \in Nat,
           Watch(w, op, at)
    PROVE  TypeOK'
<1>1. call[w].uuid \in Letter /\ Conn[w] \in Client
  BY ConnAssumption DEF CallType
<1>2. watched' \in [Client -> SUBSET Letter]
  BY <1>1 DEF Watch, TypeOK
<1> DEFINE j == [call[w] EXCEPT !.pc = "watched", !.op = op, !.at = at]
<1>3. j \in CallType /\ call' = [call EXCEPT ![w] = j]
  BY DEF Watch, CallType
<1> HIDE DEF j
<1>4. call' \in [User -> CallType \cup {IdleCall}]
  BY <1>3 DEF TypeOK
<1>5. QED
  BY <1>2, <1>4 DEF Watch, TypeOK

\* A step that leaves the keys and the connections alone.
LEMMA QuietType ==
    ASSUME TypeOK, NEW w \in User, NEW j \in CallType \cup {IdleCall},
           call' = [call EXCEPT ![w] = j], UNCHANGED <<now, letter, sendat, connection, cancel>>,
           faults' \in Nat
    PROVE  TypeOK'
BY DEF TypeOK, connection

LEMMA CallTypes ==
    ASSUME TypeOK, NEW w \in User, CallStep(w)
    PROVE  TypeOK'
<1>1. now \in Nat /\ faults \in Nat /\ call \in [User -> CallType \cup {IdleCall}]
  BY DEF TypeOK
<1>2. CASE Get(w)
  <2>1. call[w] \in CallType /\ letter[call[w].uuid] \in RowType
    BY <1>2, CallRead DEF Get, TypeOK
  <2> DEFINE j == [call[w] EXCEPT !.pc = "checked", !.seen = letter[call[w].uuid]]
             k == [call[w] EXCEPT !.pc = "refused"]
  <2>2. j \in CallType /\ k \in CallType
    BY <2>1 DEF CallType
  <2>3. call' = [call EXCEPT ![w] = j] \/ call' = [call EXCEPT ![w] = k]
    BY <1>2 DEF Get
  <2> HIDE DEF j, k
  <2>4. QED
    BY <1>1, <1>2, <2>2, <2>3, QuietType DEF Get
<1>3. CASE Unwatch(w) \/ Exec(w) \/ CallThrows(w)
  <2>1. call[w] \in CallType
    BY <1>3, CallRead DEF Unwatch, Exec, CallThrows
  <2>2. PICK done \in BOOLEAN : call' = [call EXCEPT ![w] = After(call[w], done)]
    BY <1>3 DEF Unwatch, Exec, CallThrows
  <2>3. After(call[w], done) \in CallType \cup {IdleCall}
    BY <2>1, AfterIs
  <2>4. call' \in [User -> CallType \cup {IdleCall}]
    BY <1>1, <2>2, <2>3
  <2>5. /\ letter' \in [Letter -> RowType] /\ sendat' \in [Letter -> Nat]
        /\ watched' \in [Client -> SUBSET Letter] /\ dirty' \subseteq Client
    <3>1. CASE ExecEffect(w)
      <4> DEFINE r == Update(call[w], KeepHistory[Conn[w]])
                 due == IF call[w].op = "append" THEN sendat[call[w].uuid] ELSE SendAtKey(r)
      <4>1. Conn[w] \in Client /\ KeepHistory[Conn[w]] \in BOOLEAN
        BY ConnAssumption, KeepHistoryAssumption
      <4>2. r \in RowType /\ call[w].uuid \in Letter
        BY <2>1, <4>1, UpdateType DEF CallType
      <4> HIDE DEF r
      <4>3. due \in Nat
        BY <4>2, SendAtKeyType DEF TypeOK
      <4>4. ExecOn(Conn[w], call[w].uuid, r, due)
        BY <3>1 DEF ExecEffect, r
      <4> HIDE DEF due
      <4>5. QED
        BY <4>1, <4>2, <4>3, <4>4, ExecType
    <3>2. CASE UnwatchEffect(w) /\ UNCHANGED <<letter, sendat>>
      BY <3>2 DEF UnwatchEffect, Unwatched, TypeOK
    <3>3. CASE UNCHANGED <<letter, sendat, connection>>
      BY <3>3 DEF connection, TypeOK
    <3>4. QED
      BY <1>3, <3>1, <3>2, <3>3 DEF Unwatch, Exec, CallThrows
  <2>6. now' \in Nat /\ faults' \in Nat /\ cancel' \in [Letter -> CancelType]
    <3>1. faults' = faults \/ (faults > 0 /\ faults' = faults - 1)
      BY <1>3 DEF Unwatch, Exec, CallThrows
    <3>2. now' = now /\ cancel' = cancel
      BY <1>3 DEF Unwatch, Exec, CallThrows
    <3>3. QED
      BY <1>1, <3>1, <3>2 DEF TypeOK
  <2>7. QED
    BY <2>4, <2>5, <2>6 DEF TypeOK
<1>4. QED
  BY <1>2, <1>3 DEF CallStep

LEMMA WorkerTypes ==
    ASSUME TypeOK, NEW w \in Worker, WorkerStep(w)
    PROVE  TypeOK'
<1>1. now \in Nat /\ faults \in Nat /\ w \in User
  BY DEF TypeOK, User
<1>2. ASSUME NEW u \in Letter, Look(w, u)
      PROVE  TypeOK'
  BY <1>1, <1>2, NewCallType, QuietType DEF Look
<1>3. CASE Read(w)
  <2>1. call[w] \in CallType /\ letter[call[w].uuid].tries \in Nat
    BY <1>1, <1>3, CallRead DEF Read, TypeOK, RowType
  <2> DEFINE j == [call[w] EXCEPT !.pc = "read", !.tries = letter[call[w].uuid].tries]
  <2>2. j \in CallType
    BY <2>1 DEF CallType
  <2>3. call' = [call EXCEPT ![w] = j] \/ call' = [call EXCEPT ![w] = IdleCall]
    BY <1>3 DEF Read
  <2> HIDE DEF j
  <2>4. QED
    BY <1>1, <1>3, <2>2, <2>3, QuietType DEF Read
<1>4. CASE StartClaim(w)
  BY <1>1, <1>4, CallRead, WatchType DEF StartClaim, Ops, WorkerOps
<1>5. ASSUME NEW op \in WorkerOps, StartWrite(w, op)
      PROVE  TypeOK'
  <2>1. call[w] \in CallType
    BY <1>1, <1>5, CallRead DEF StartWrite
  <2>2. RenewalStamp(call[w]) \in Nat /\ now + RetryDelay \in Nat /\ 0 \in Nat
    BY <1>1, <2>1, RetryDelayAssumption DEF RenewalStamp, CallType
  <2>3. QED
    BY <1>1, <1>5, <2>1, <2>2, WatchType DEF StartWrite, Ops
<1>6. QED
  BY <1>1, <1>2, <1>3, <1>4, <1>5, CallTypes DEF WorkerStep

LEMMA SenderTypes ==
    ASSUME TypeOK, NEW s \in Sender, SenderStep(s)
    PROVE  TypeOK'
<1>1. s \in User /\ Conn[s] \in Client /\ now \in Nat
  BY ConnAssumption DEF User, TypeOK
<1>2. ASSUME NEW u \in Letter, Push(s, u)
      PROVE  TypeOK'
  <2>1. NewRow("stored", now) \in RowType
    BY <1>1, NewRowType DEF RowStatus
  <2>2. ExecOn(Conn[s], u, NewRow("stored", now), now)
        /\ UNCHANGED <<now, call, cancel, faults>>
    BY <1>2 DEF Push
  <2>3. QED
    BY <1>1, <2>1, <2>2, ExecType DEF TypeOK
<1>3. ASSUME NEW u \in Letter, StartAppend(s, u)
      PROVE  TypeOK'
  <2> DEFINE j == [NewCall(u) EXCEPT !.pc = "watched", !.op = "append"]
  <2>1. j \in CallType
    <3>1. ASSUME NEW k \in CallType
          PROVE  [k EXCEPT !.pc = "watched", !.op = "append"] \in CallType
      BY DEF CallType, Ops
    <3>2. QED
      BY <3>1, NewCallType
  <2>4. call' = [call EXCEPT ![s] = j]
    BY <1>3 DEF StartAppend
  <2> HIDE DEF j
  <2>2. watched' \in [Client -> SUBSET Letter]
    BY <1>1, <1>3 DEF StartAppend, TypeOK
  <2>3. QED
    BY <1>1, <1>3, <2>1, <2>2, <2>4 DEF StartAppend, TypeOK
<1>4. QED
  BY <1>1, <1>2, <1>3, CallTypes DEF SenderStep

LEMMA NoCancelType ==
    ASSUME NEW pc \in {"idle", "clearing", "cancelled", "lost"}
    PROVE  NoCancel(pc) \in CancelType /\ NoCancel(pc).pc = pc /\ ~NoCancel(pc).keep
BY NoRowType DEF NoCancel, CancelType

LEMMA CancelTypes ==
    ASSUME TypeOK, NEW u \in Letter, CancelStep(u)
    PROVE  TypeOK'
<1>1. /\ cancel[u] \in CancelType /\ letter[u] \in RowType /\ faults \in Nat /\ now \in Nat
      /\ cancel \in [Letter -> CancelType]
  BY DEF TypeOK, CancelType
<1>3. ASSUME NEW k \in CancelType, cancel' = [cancel EXCEPT ![u] = k],
             NEW r \in RowType, letter' = letter \/ letter' = [letter EXCEPT ![u] = r],
             sendat' = sendat \/ sendat' = [sendat EXCEPT ![u] = 0],
             dirty' = dirty \/ dirty' = dirty \cup Touched(u),
             UNCHANGED <<now, watched, call>>, faults' \in Nat
      PROVE  TypeOK'
  <2>1. cancel' \in [Letter -> CancelType]
    BY <1>1, <1>3
  <2>2. letter' \in [Letter -> RowType]
    BY <1>3 DEF TypeOK
  <2>3. sendat' \in [Letter -> Nat] /\ dirty' \subseteq Client
    BY <1>3 DEF TypeOK, Touched
  <2>4. QED
    BY <1>3, <2>1, <2>2, <2>3 DEF TypeOK
<1>4. ASSUME NEW c \in Client, CancelUnschedule(u, c)
      PROVE  TypeOK'
  <2> DEFINE k == [cancel[u] EXCEPT !.pc = "unscheduled", !.keep = KeepHistory[c]]
  <2>1. k \in CancelType
    BY <1>1, KeepHistoryAssumption DEF CancelType, CancelPending
  <2>2. cancel' = [cancel EXCEPT ![u] = k]
    BY <1>4 DEF CancelUnschedule
  <2> HIDE DEF k
  <2>3. QED
    BY <1>1, <1>3, <1>4, <2>1, <2>2 DEF CancelUnschedule, connection
<1>5. CASE CancelRead(u)
  <2> DEFINE k == [cancel[u] EXCEPT !.pc = "decided"]
  <2>1. k \in CancelType
    BY <1>1 DEF CancelType, CancelPending
  <2>2. cancel' = [cancel EXCEPT ![u] = k] \/ cancel' = [cancel EXCEPT ![u] = NoCancel("idle")]
    BY <1>5 DEF CancelRead
  <2> HIDE DEF k
  <2>3. QED
    BY <1>1, <1>3, <1>5, <2>1, <2>2, NoCancelType DEF CancelRead, connection
<1>6. CASE CancelFind(u)
  <2> DEFINE r == IF cancel[u].keep THEN letter[u] ELSE NoRow
             k == [cancel[u] EXCEPT !.pc = "found", !.seen = r]
  <2>1. r \in RowType
    BY <1>1, NoRowType
  <2>2. cancel' = [cancel EXCEPT ![u] = k] \/ cancel' = [cancel EXCEPT ![u] = NoCancel("idle")]
    BY <1>6 DEF CancelFind
  <2> HIDE DEF r
  <2>3. k \in CancelType
    BY <1>1, <2>1 DEF CancelType, CancelPending
  <2> HIDE DEF k
  <2>4. QED
    BY <1>1, <1>3, <1>6, <2>2, <2>3, NoCancelType DEF CancelFind, connection
<1>7. CASE CancelDelete(u)
  <2>1. Removed(letter[u]) \in RowType
    BY <1>1 DEF Removed, RowType, RowStatus
  <2>2. QED
    BY <1>1, <1>3, <1>7, <2>1, NoCancelType DEF CancelDelete
<1>8. CASE CancelSet(u)
  <2>1. Cancelled(cancel[u].seen) \in RowType
    BY <1>1 DEF Cancelled, RowType, CancelType
  <2>2. QED
    BY <1>1, <1>3, <1>8, <2>1, NoCancelType DEF CancelSet
<1>9. CASE CancelClear(u)
  BY <1>1, <1>3, <1>9, NoCancelType DEF CancelClear, connection
<1>10. CASE CancelLost(u)
  <2>1. faults' \in Nat
    BY <1>1, <1>10 DEF CancelLost
  <2>2. QED
    BY <1>1, <1>3, <1>10, <2>1, NoCancelType DEF CancelLost, connection
<1>11. QED
  BY <1>4, <1>5, <1>6, <1>7, <1>8, <1>9, <1>10 DEF CancelStep

LEMMA TypesStep == TypeOK /\ [Next]_vars => TypeOK'
<1> SUFFICES ASSUME TypeOK, [Next]_vars PROVE TypeOK'
  OBVIOUS
<1>1. ASSUME NEW c \in Client, Crash(c)
      PROVE  TypeOK'
  BY <1>1 DEF Crash, TypeOK, Unwatched
<1>2. CASE Tick
  BY <1>2 DEF Tick, TypeOK, connection
<1>3. CASE UNCHANGED vars
  BY <1>3 DEF vars, TypeOK
<1>4. QED
  BY <1>1, <1>2, <1>3, WorkerTypes, SenderTypes, CancelTypes DEF Next

LEMMA TypesInit == Init => TypeOK
BY NoRowType, NoCancelType, BoundsAssumption DEF Init, TypeOK

\* The keys, the connections and the calls have the declared types in every behaviour.
THEOREM WatchTypes == Spec => []TypeOK
BY TypesInit, TypesStep, PTL DEF Spec

-----------------------------------------------------------------------------
(* The invariant.                                                          *)

\* Cancelled or deleted: nobody's guard holds of such a letter again.
Ended(r) == r.status = "removed" \/ (r.status = "stored" /\ r.isCancelled)

\* A letter, its sendat key and its cancel() call.
LetterFits(u) ==
    /\ letter[u].isSent => ~letter[u].isSending
    /\ cancel[u].pc \in {"idle", "cancelled"} => sendat[u] = SendAtKey(letter[u])
    /\ cancel[u].pc \in CancelPending => sendat[u] \in {0, SendAtKey(letter[u])}
    /\ cancel[u].pc \in {"clearing", "cancelled"} => Ended(letter[u])
    /\ cancel[u].pc # "idle" => letter[u].status # "none"
    /\ cancel[u].pc = "found" /\ cancel[u].keep =>
         cancel[u].seen.status = "stored" /\ (cancel[u].seen.isSent => ~cancel[u].seen.isSending)

\* What a call writes is what the register may become.
Attempt(j, at) ==
    /\ j.pc = "read" => j.tries < MaxTries
    /\ j.pc \in {"watched", "checked"} /\ j.op = "claim" =>
         j.tries < MaxTries /\ 1 <= j.at /\ j.at <= at
    /\ j.pc \in {"watched", "checked"} /\ j.op = "released" => j.tries < MaxTries
    /\ j.pc \in {"watched", "checked"} /\ j.op = "renew" =>
         j.sendingAt < j.at /\ j.at <= IF at > j.sendingAt THEN at ELSE j.sendingAt + 1

\* Between GET and EXEC the letter is watched, and the connection is marked or the letter
\* is still what GET returned.
Watching(w) ==
    LET j == call[w] IN
    /\ j.pc = "watched" => j.uuid \in watched[Conn[w]]
    /\ j.pc = "checked" => /\ j.uuid \in watched[Conn[w]]
                           /\ Conn[w] \in dirty \/ j.seen = letter[j.uuid]
                           /\ Passes(j, j.seen)

\* A worker that holds a claim made it before anyone made the next one.
ClaimFits(w) ==
    Holds(w) => /\ letter[call[w].uuid].status # "none"
                /\ \/ call[w].tries <= letter[call[w].uuid].tries
                   \/ Ended(letter[call[w].uuid])

CallFits(w) ==
    /\ call[w].pc \in {"watched", "checked", "refused"} => call[w].op \in Ops
    /\ call[w].pc = "working" => call[w].op = "none"
    /\ Watching(w) /\ ClaimFits(w) /\ Attempt(call[w], now)

\* A connection is used by one guarded call at a time.
Alone == \A v, w \in User :
    v # w /\ Conn[v] = Conn[w] => ~(Sending(v) /\ Sending(w))

\* Only an instance that folds mail appends.
Folding == \A s \in Sender : Sending(s) => Conn[s] \in Concat

WatchInv ==
    /\ TypeOK /\ now >= 1
    /\ \A u \in Letter : LetterFits(u)
    /\ \A w \in User : CallFits(w)
    /\ Alone /\ Folding
    /\ OneWorkerPerTry

-----------------------------------------------------------------------------
(* What is written.                                                        *)

LEMMA SendAtKeyIs ==
    ASSUME NEW r
    PROVE  /\ Open(r) => SendAtKey(r) = r.sendAt
           /\ ~Open(r) => SendAtKey(r) = 0
           /\ Ended(r) => SendAtKey(r) = 0 /\ ~Open(r)
BY DEF SendAtKey, Open, Ended

\* The guard holds of no letter that is cancelled or deleted.
LEMMA PassesOpen ==
    ASSUME NEW j, NEW r, Passes(j, r), r.isSent => ~r.isSending
    PROVE  /\ Open(r) /\ ~Ended(r)
           /\ j.op # "append" => r.tries = j.tries
           /\ j.op \notin {"claim", "append"} => r.isSending /\ r.sendingAt = j.sendingAt
           /\ j.op = "claim" => Takeable(r, j.at)
<1>1. CASE j.op = "claim"
  BY <1>1 DEF Passes, CanClaim, Open, Ended
<1>2. CASE j.op = "append"
  BY <1>2 DEF Passes, Open, Ended
<1>3. CASE j.op \notin {"claim", "append"}
  BY <1>3 DEF Passes, HoldsLease, Open, Ended
<1>4. QED
  BY <1>1, <1>2, <1>3

LEMMA UpdateIs ==
    ASSUME NEW j \in CallType, j.op \in Ops, NEW keep \in BOOLEAN,
           NEW r, r = j.seen, Passes(j, r), r.isSent => ~r.isSending,
           NEW new, new = Update(j, keep)
    PROVE  /\ new.status \in {"stored", "removed"} /\ (new.isSent => ~new.isSending)
           /\ \/ /\ j.op = "claim" /\ Open(new) /\ new.isSending
                 /\ new.tries = r.tries + 1 /\ new.sendingAt = j.at
              \/ /\ j.op = "renew" /\ Open(new) /\ new.isSending
                 /\ new.tries = r.tries /\ new.sendingAt = j.at
              \/ /\ j.op = "released" /\ Open(new) /\ ~new.isSending
                 /\ new.tries = r.tries
              \/ /\ j.op \in {"sent", "failed"} /\ ~Open(new)
                 /\ new.tries = r.tries
              \/ j.op = "append" /\ new = r
<1>1. /\ r \in RowType /\ Open(r)
      /\ j.op # "append" => r.tries = j.tries
      /\ j.op \notin {"claim", "append"} => r.isSending
  BY PassesOpen DEF CallType
<1>2. CASE j.op = "claim"
  <2>1. new = Claimed(r, j.tries + 1, j.at)
    BY <1>2 DEF Update
  <2>2. QED
    BY <1>1, <1>2, <2>1 DEF Claimed, RowType, Open
<1>3. CASE j.op = "renew"
  <2>1. new = Renewed(r, j.at)
    BY <1>3 DEF Update
  <2>2. QED
    BY <1>1, <1>3, <2>1 DEF Renewed, RowType, Open
<1>4. CASE j.op = "released"
  <2>1. new = Retried(r, j.at)
    BY <1>4 DEF Update
  <2>2. QED
    BY <1>1, <1>4, <2>1 DEF Retried, RowType, Open
<1>5. CASE j.op \in {"sent", "failed"}
  <2>1. new = Sent(r, r.accepted) \/ new = Failed(r, r.accepted) \/ new = Removed(r)
    BY <1>5 DEF Update
  <2>2. QED
    BY <1>1, <1>5, <2>1 DEF Sent, Failed, Removed, RowType, Open
<1>6. CASE j.op = "append"
  BY <1>1, <1>6 DEF Update, Open
<1>7. QED
  BY <1>2, <1>3, <1>4, <1>5, <1>6 DEF Ops, WorkerOps

\* What any step may make of a letter.
Grows(r, s) ==
    /\ s.status # "none"
    /\ r.status = "none" \/ r.tries <= s.tries \/ Ended(s)
    /\ Ended(r) => Ended(s)

\* The sendat key that an EXEC writes.
SendAtAfter(j, new) == IF j.op = "append" THEN sendat[j.uuid] ELSE SendAtKey(new)

\* MULTI ... EXEC writes the letter it was read from, or nothing.
LEMMA ExecWrites ==
    ASSUME WatchInv, NEW w \in User, call[w].pc = "checked", ExecEffect(w)
    PROVE  LET j == call[w]
               u == j.uuid
               new == Update(j, KeepHistory[Conn[w]])
           IN  /\ j \in CallType /\ u \in Letter /\ j.op \in Ops /\ new \in RowType
               /\ \/ UNCHANGED <<letter, sendat>>
                  \/ /\ Conn[w] \notin dirty
                     /\ j.seen = letter[u] /\ Passes(j, letter[u])
                     /\ letter' = [letter EXCEPT ![u] = new]
                     /\ sendat' = [sendat EXCEPT ![u] = SendAtAfter(j, new)]
                     /\ \A c \in Client \ {Conn[w]} : u \in watched[c] => c \in dirty'
               /\ \A c \in Client \ {Conn[w]} :
                     watched'[c] = watched[c] /\ (c \in dirty => c \in dirty')
<1>1. /\ call[w] \in CallType /\ call[w].uuid \in Letter /\ call[w].op \in Ops
      /\ Conn[w] \in Client
  BY CallRead, ConnAssumption DEF WatchInv, CallFits
<1>2. Update(call[w], KeepHistory[Conn[w]]) \in RowType
  BY <1>1, UpdateType, KeepHistoryAssumption
<1>3. \A c \in Client \ {Conn[w]} :
        watched'[c] = watched[c] /\ (c \in dirty => c \in dirty')
  BY DEF ExecEffect, ExecOn, Unwatched, WatchInv, TypeOK
<1>4. CASE Conn[w] \in dirty
  BY <1>1, <1>2, <1>3, <1>4 DEF ExecEffect, ExecOn
<1>5. CASE Conn[w] \notin dirty
  <2>1. call[w].seen = letter[call[w].uuid] /\ Passes(call[w], letter[call[w].uuid])
    BY <1>5 DEF WatchInv, CallFits, Watching
  <2>2. QED
    BY <1>1, <1>2, <1>3, <1>5, <2>1 DEF ExecEffect, ExecOn, SendAtAfter, Touched
<1>6. QED
  BY <1>4, <1>5

\* A call that goes on waiting fits what the others have done.
LEMMA CallLasts ==
    ASSUME NEW w \in User, TypeOK, TypeOK', CallFits(w), call'[w] = call[w], now <= now',
           \A u \in Letter : letter'[u] = letter[u] \/ Grows(letter[u], letter'[u]),
           \/ call[w].pc \notin {"watched", "checked"}
           \/ /\ watched[Conn[w]] \subseteq watched'[Conn[w]]
              /\ Conn[w] \in dirty => Conn[w] \in dirty'
              /\ \/ call[w].pc = "watched"
                 \/ letter'[call[w].uuid] = letter[call[w].uuid]
                 \/ call[w].uuid \notin watched[Conn[w]]
                 \/ Conn[w] \in dirty'
    PROVE  CallFits(w)'
<1>1. now \in Nat /\ now' \in Nat
  BY DEF TypeOK
<1>2. CASE call[w].pc = "idle"
  BY <1>2 DEF CallFits, Watching, ClaimFits, Holds, Sending, Attempt
<1>3. CASE call[w].pc # "idle"
  <2> DEFINE j == call[w]
             u == call[w].uuid
  <2>1. j \in CallType /\ u \in Letter
    BY <1>3, CallRead
  <2>2. Watching(w)'
    BY DEF CallFits, Watching, Passes
  <2>3. ClaimFits(w)'
    <3> SUFFICES ASSUME Holds(w)
                 PROVE  /\ letter'[u].status # "none"
                        /\ j.tries <= letter'[u].tries \/ Ended(letter'[u])
      BY DEF ClaimFits, Holds, Sending
    <3>1. letter[u].status # "none" /\ (j.tries <= letter[u].tries \/ Ended(letter[u]))
      BY DEF CallFits, ClaimFits
    <3>2. letter'[u] = letter[u] \/ Grows(letter[u], letter'[u])
      BY <2>1
    <3>3. j.tries \in Nat /\ letter[u].tries \in Nat /\ letter'[u].tries \in Nat
      BY <2>1 DEF CallType, TypeOK, RowType
    <3>4. QED
      BY <3>1, <3>2, <3>3 DEF Grows
  <2>4. Attempt(j, now')
    <3>1. j.at \in Nat /\ j.sendingAt \in Nat /\ Attempt(j, now)
      BY <2>1 DEF CallType, CallFits
    <3>2. QED
      BY <1>1, <3>1 DEF Attempt
  <2>5. QED
    BY <2>2, <2>3, <2>4 DEF CallFits
<1>4. QED
  BY <1>2, <1>3

-----------------------------------------------------------------------------
(* The steps of a worker or sender.                                        *)

LEMMA UserFrame ==
    ASSUME WatchInv, TypeOK', NEW w \in User, NEW j, call' = [call EXCEPT ![w] = j],
           now' = now, CallFits(w)',
           \A u \in Letter : LetterFits(u)',
           \A u \in Letter : letter'[u] = letter[u] \/ Grows(letter[u], letter'[u]),
           \A c \in Client \ {Conn[w]} :
              /\ watched'[c] = watched[c] /\ (c \in dirty => c \in dirty')
              /\ \A u \in watched[c] : letter'[u] = letter[u] \/ c \in dirty',
           \/ Sending(w)
           \/ /\ letter' = letter /\ watched[Conn[w]] \subseteq watched'[Conn[w]]
              /\ Conn[w] \in dirty => Conn[w] \in dirty',
           Sending(w)' => \/ Sending(w)
                            \/ /\ w \in Sender => Conn[w] \in Concat
                               /\ \A v \in User \ {w} : Conn[v] = Conn[w] => ~Sending(v),
           w \in Worker /\ Holds(w)' =>
              \/ Holds(w) /\ call'[w].uuid = call[w].uuid /\ call'[w].tries = call[w].tries
              \/ \A v \in User \ {w} :
                    Holds(v) /\ call[v].uuid = call'[w].uuid => call[v].tries # call'[w].tries
    PROVE  WatchInv'
<1>1. /\ TypeOK /\ now \in Nat /\ now >= 1
      /\ \A v \in User \ {w} : call'[v] = call[v] /\ Conn[v] \in Client
  BY ConnAssumption DEF WatchInv, TypeOK
<1>2. \A v \in User : CallFits(v)'
  <2> SUFFICES ASSUME NEW v \in User \ {w} PROVE CallFits(v)'
    OBVIOUS
  <2>1. CASE Conn[v] = Conn[w] /\ Sending(w)
    <3>1. call[v].pc \notin {"watched", "checked"}
      BY <2>1 DEF WatchInv, Alone, Sending
    <3>2. QED
      BY <1>1, <3>1, CallLasts DEF WatchInv
  <2>2. CASE Conn[v] = Conn[w] /\ ~Sending(w)
    BY <1>1, <2>2, CallLasts DEF WatchInv
  <2>3. CASE Conn[v] # Conn[w]
    BY <1>1, <2>3, CallLasts DEF WatchInv
  <2>4. QED
    BY <2>1, <2>2, <2>3
<1>3. Alone' /\ Folding'
  <2>1. \A v \in User \ {w} : Sending(v)' <=> Sending(v)
    BY <1>1 DEF Sending
  <2>2. QED
    BY <2>1 DEF WatchInv, Alone, Folding, User
<1>4. OneWorkerPerTry'
  <2>1. \A v \in User \ {w} : (Holds(v)' <=> Holds(v)) /\ call'[v] = call[v]
    BY <1>1 DEF Holds, Sending
  <2>2. QED
    BY <2>1 DEF WatchInv, OneWorkerPerTry, User
<1>5. QED
  BY <1>1, <1>2, <1>3, <1>4 DEF WatchInv

\* A step that touches nothing but the call of the worker.
LEMMA QuietStep ==
    ASSUME WatchInv, TypeOK', NEW w \in User, NEW j, call' = [call EXCEPT ![w] = j],
           UNCHANGED <<now, letter, sendat, connection, cancel>>, CallFits(w)',
           Sending(w)' => Sending(w),
           Holds(w)' =>
              Holds(w) /\ call'[w].uuid = call[w].uuid /\ call'[w].tries = call[w].tries
    PROVE  WatchInv'
<1>1. \A u \in Letter : LetterFits(u)'
  BY DEF WatchInv, LetterFits
<1>2. QED
  BY <1>1, UserFrame DEF connection

LEMMA WatchStep ==
    ASSUME WatchInv, TypeOK', NEW w \in User, call[w] \in CallType, NEW op \in Ops,
           NEW at \in Nat, Watch(w, op, at),
           Attempt([call[w] EXCEPT !.pc = "watched", !.op = op, !.at = at], now),
           \/ op # "claim" /\ call[w].pc = "working" /\ call[w].op = "none"
           \/ /\ op = "claim" /\ w \in Worker
              /\ \A v \in User \ {w} : Conn[v] = Conn[w] => ~Sending(v)
    PROVE  WatchInv'
<1> DEFINE j == [call[w] EXCEPT !.pc = "watched", !.op = op, !.at = at]
<1>1. /\ j.pc = "watched" /\ j.op = op /\ j.uuid = call[w].uuid /\ j.tries = call[w].tries
      /\ call[w].uuid \in Letter
  BY DEF CallType
<1>2. /\ call' = [call EXCEPT ![w] = j] /\ now' = now /\ letter' = letter
      /\ sendat' = sendat /\ dirty' = dirty /\ cancel' = cancel
      /\ watched' = [watched EXCEPT ![Conn[w]] = @ \cup {call[w].uuid}]
  BY DEF Watch
<1>3. Attempt(j, now)
  OBVIOUS
<1> HIDE DEF j
<1>4. /\ call'[w] = j /\ Conn[w] \in Client
      /\ watched'[Conn[w]] = watched[Conn[w]] \cup {call[w].uuid}
      /\ \A c \in Client \ {Conn[w]} : watched'[c] = watched[c]
  BY <1>2, ConnAssumption DEF WatchInv, TypeOK
<1>5. CallFits(w)'
  <2>1. Watching(w)'
    BY <1>1, <1>4 DEF Watching
  <2>2. ClaimFits(w)'
    BY <1>1, <1>2, <1>4 DEF ClaimFits, Holds, Sending, WatchInv, CallFits
  <2>3. Attempt(call[w], now)'
    BY <1>2, <1>3, <1>4
  <2>4. QED
    BY <1>1, <1>4, <2>1, <2>2, <2>3 DEF CallFits
<1>6. \A u \in Letter : LetterFits(u)'
  BY <1>2 DEF WatchInv, LetterFits
<1>7. Sending(w)' => \/ Sending(w)
                       \/ /\ w \in Sender => Conn[w] \in Concat
                          /\ \A v \in User \ {w} : Conn[v] = Conn[w] => ~Sending(v)
  BY UserAssumption DEF Sending
<1>8. Holds(w)' =>
        Holds(w) /\ call'[w].uuid = call[w].uuid /\ call'[w].tries = call[w].tries
  BY <1>1, <1>4 DEF Holds, Sending
<1>9. QED
  BY <1>2, <1>4, <1>5, <1>6, <1>7, <1>8, UserFrame

LEMMA AppendStep ==
    ASSUME WatchInv, TypeOK', OneAtATime, NEW s \in Sender, NEW u \in Letter,
           StartAppend(s, u)
    PROVE  WatchInv'
<1> DEFINE j == [NewCall(u) EXCEPT !.pc = "watched", !.op = "append"]
<1>1. s \in User /\ s \notin Worker /\ Conn[s] \in Client /\ TypeOK
  BY ConnAssumption, UserAssumption DEF User, WatchInv
<1>2. j.pc = "watched" /\ j.op = "append" /\ j.uuid = u /\ j.tries = 0
  BY NewCallType DEF CallType
<1>3. /\ call' = [call EXCEPT ![s] = j] /\ now' = now /\ letter' = letter
      /\ sendat' = sendat /\ dirty' = dirty /\ cancel' = cancel
      /\ watched' = [watched EXCEPT ![Conn[s]] = @ \cup {u}]
      /\ call[s].pc = "idle" /\ Conn[s] \in Concat /\ letter[u].status # "none"
  BY DEF StartAppend
<1> HIDE DEF j
<1>4. /\ call'[s] = j /\ watched'[Conn[s]] = watched[Conn[s]] \cup {u}
      /\ \A c \in Client \ {Conn[s]} : watched'[c] = watched[c]
  BY <1>1, <1>3 DEF TypeOK
<1>5. CallFits(s)'
  <2>1. Watching(s)' /\ Attempt(call[s], now)'
    BY <1>2, <1>4 DEF Watching, Attempt
  <2>2. letter[u].tries \in Nat
    BY <1>1 DEF TypeOK, RowType
  <2>3. ClaimFits(s)'
    BY <1>2, <1>3, <1>4, <2>2 DEF ClaimFits
  <2>4. QED
    BY <1>2, <1>4, <2>1, <2>3 DEF CallFits, Ops
<1>6. \A v \in Letter : LetterFits(v)'
  BY <1>3 DEF WatchInv, LetterFits
<1>7. ASSUME NEW v \in User \ {s}, Conn[v] = Conn[s]
      PROVE  ~Sending(v)
  BY <1>3, <1>7 DEF OneAtATime, WatchInv, Folding, User
<1>8. QED
  BY <1>1, <1>3, <1>4, <1>5, <1>6, <1>7, UserFrame

LEMMA ScanStep ==
    ASSUME WatchInv, TypeOK', NEW w \in Worker,
           (\E u \in Letter : Look(w, u)) \/ Read(w)
    PROVE  WatchInv'
<1>1. /\ call \in [User -> CallType \cup {IdleCall}] /\ letter \in [Letter -> RowType]
      /\ w \in User
  BY DEF WatchInv, TypeOK, User
<1>2. UNCHANGED <<now, letter, sendat, connection, cancel>>
  BY DEF Look, Read
<1>3. /\ call' = [call EXCEPT ![w] = call'[w]]
      /\ \/ call'[w].pc \in {"idle", "due"}
         \/ call'[w].pc = "read" /\ call'[w].tries < MaxTries
  <2>1. ASSUME NEW u \in Letter, Look(w, u)
        PROVE  call' = [call EXCEPT ![w] = call'[w]] /\ call'[w].pc = "due"
    BY <1>1, <2>1, NewCallType DEF Look
  <2>2. CASE Read(w)
    <3> DEFINE r == letter[call[w].uuid]
               read == [call[w] EXCEPT !.pc = "read", !.tries = r.tries]
    <3>1. call[w] \in CallType
      BY <1>1, <2>2, CallRead DEF Read, WatchInv
    <3>2. read.pc = "read" /\ read.tries = r.tries
      BY <3>1 DEF CallType
    <3>3. \/ call' = [call EXCEPT ![w] = IdleCall]
          \/ r.tries < MaxTries /\ call' = [call EXCEPT ![w] = read]
      BY <2>2 DEF Read, IterateCandidate
    <3> HIDE DEF read, r
    <3>4. QED
      BY <1>1, <3>2, <3>3 DEF IdleCall
  <2>3. QED
    BY <2>1, <2>2
<1>5. CallFits(w)' /\ ~Sending(w)' /\ ~Holds(w)'
  BY <1>3 DEF CallFits, Watching, ClaimFits, Holds, Attempt, Sending
<1>6. QED
  BY <1>1, <1>2, <1>3, <1>5, QuietStep

\* The pool has one slot: who starts a claim finds nobody on the connection.
LEMMA SlotFree ==
    ASSUME OneAtATime, NEW w \in Worker, StartClaim(w),
           NEW v \in User, Conn[v] = Conn[w], Sending(v)
    PROVE  FALSE
<1>1. v \in Slots(Conn[w])
  BY DEF OneAtATime, Slots, User
<1>2. IsFiniteSet(Slots(Conn[w]))
  BY UserAssumption, FS_Subset DEF Slots
<1>3. Cardinality(Slots(Conn[w])) \in Nat /\ Cardinality(Slots(Conn[w])) < 1
  BY <1>2, FS_CardinalityType DEF StartClaim, OneAtATime
<1>4. Slots(Conn[w]) = {}
  BY <1>2, <1>3, FS_EmptySet
<1>5. QED
  BY <1>1, <1>4

LEMMA BeginStep ==
    ASSUME WatchInv, TypeOK', OneAtATime, NEW w \in Worker,
           StartClaim(w) \/ \E op \in WorkerOps : StartWrite(w, op)
    PROVE  WatchInv'
<1>1. call[w] \in CallType /\ TypeOK /\ now \in Nat /\ now >= 1 /\ w \in User
  BY CallRead DEF StartClaim, StartWrite, WatchInv, TypeOK, User
<1>2. CASE StartClaim(w)
  <2>1. call[w].pc = "read" /\ Watch(w, "claim", now)
    BY <1>2 DEF StartClaim
  <2>2. call[w].tries < MaxTries
    BY <1>1, <2>1 DEF WatchInv, CallFits, Attempt
  <2> DEFINE j == [call[w] EXCEPT !.pc = "watched", !.op = "claim", !.at = now]
  <2>3. j.op = "claim" /\ j.at = now /\ j.pc = "watched" /\ j.tries = call[w].tries
    BY <1>1 DEF CallType
  <2> HIDE DEF j
  <2>4. Attempt(j, now)
    BY <1>1, <2>2, <2>3 DEF Attempt
  <2>5. \A v \in User \ {w} : Conn[v] = Conn[w] => ~Sending(v)
    BY <1>2, SlotFree
  <2>6. QED
    BY <1>1, <2>1, <2>4, <2>5, WatchStep DEF j, Ops, WorkerOps
<1>3. ASSUME NEW op \in WorkerOps, StartWrite(w, op)
      PROVE  WatchInv'
  <2>1. call[w].pc = "working"
    BY <1>3 DEF StartWrite
  <2>2. RenewalStamp(call[w]) \in Nat /\ now + RetryDelay \in Nat /\ 0 \in Nat
    BY <1>1, RetryDelayAssumption DEF RenewalStamp, CallType
  <2>3. PICK at \in Nat :
           /\ Watch(w, op, at) /\ op # "claim"
           /\ op = "renew" => at = RenewalStamp(call[w])
           /\ op = "released" => call[w].tries < MaxTries
    BY <1>3, <2>2 DEF StartWrite
  <2> DEFINE j == [call[w] EXCEPT !.pc = "watched", !.op = op, !.at = at]
  <2>4. /\ j.op = op /\ j.at = at /\ j.pc = "watched" /\ j.tries = call[w].tries
        /\ j.sendingAt = call[w].sendingAt /\ call[w].sendingAt \in Nat
    BY <1>1 DEF CallType
  <2> HIDE DEF j
  <2>5. Attempt(j, now)
    BY <1>1, <2>3, <2>4 DEF Attempt, RenewalStamp
  <2>6. call[w].op = "none"
    BY <1>1, <2>1 DEF WatchInv, CallFits
  <2>7. QED
    BY <1>1, <2>1, <2>3, <2>5, <2>6, WatchStep DEF j, Ops
<1>4. QED
  BY <1>2, <1>3

LEMMA GetStep ==
    ASSUME WatchInv, TypeOK', NEW w \in User, Get(w)
    PROVE  WatchInv'
<1> DEFINE r == letter[call[w].uuid]
           j == IF Passes(call[w], r) THEN [call[w] EXCEPT !.pc = "checked", !.seen = r]
                                      ELSE [call[w] EXCEPT !.pc = "refused"]
<1>1. call[w] \in CallType /\ call[w].pc = "watched" /\ call[w].op \in Ops /\ CallFits(w)
  BY CallRead DEF Get, WatchInv, CallFits
<1>2. /\ j.uuid = call[w].uuid /\ j.tries = call[w].tries /\ j.op = call[w].op
      /\ j.sendingAt = call[w].sendingAt /\ j.at = call[w].at
      /\ \/ j.pc = "refused"
         \/ j.pc = "checked" /\ j.seen = r /\ Passes(call[w], r)
  BY <1>1 DEF CallType
<1>3. call' = [call EXCEPT ![w] = j] /\ UNCHANGED <<now, letter, sendat, connection, cancel>>
  BY DEF Get
<1> HIDE DEF j
<1>4. call'[w] = j
  BY <1>3 DEF WatchInv, TypeOK
<1>5. Passes(j, r) <=> Passes(call[w], r)
  BY <1>2 DEF Passes
<1>6. CallFits(w)'
  <2>1. Watching(w)'
    BY <1>1, <1>2, <1>3, <1>4, <1>5 DEF Watching, CallFits, connection
  <2>2. ClaimFits(w)'
    BY <1>1, <1>2, <1>3, <1>4 DEF ClaimFits, CallFits, Holds, Sending
  <2>3. Attempt(j, now)
    BY <1>1, <1>2 DEF CallFits, Attempt
  <2>4. QED
    BY <1>1, <1>2, <1>3, <1>4, <2>1, <2>2, <2>3 DEF CallFits
<1>7. Sending(w) /\ (Holds(w)' => Holds(w))
  BY <1>1, <1>2, <1>4 DEF Sending, Holds
<1>8. QED
  BY <1>2, <1>3, <1>4, <1>6, <1>7, QuietStep

\* EXEC writes the letter: the claim of the others is older, and they will not write it.
LEMMA WrittenFits ==
    ASSUME WatchInv, NEW w \in User, NEW new, call[w] \in CallType, call[w].op \in Ops,
           NEW u \in Letter, u = call[w].uuid, NEW r, r = letter[u],
           new = Update(call[w], KeepHistory[Conn[w]]), new \in RowType,
           call[w].seen = r, Passes(call[w], r),
           letter' = [letter EXCEPT ![u] = new],
           sendat' = [sendat EXCEPT ![u] = SendAtAfter(call[w], new)],
           cancel' = cancel
    PROVE  /\ \A v \in Letter : LetterFits(v)'
           /\ \A v \in Letter : letter'[v] = letter[v] \/ Grows(letter[v], letter'[v])
           /\ call[w].op = "claim" =>
                /\ call[w].tries = r.tries
                /\ new.tries = call[w].tries + 1
                /\ ~Ended(r)
           /\ new.status # "none"
<1>1. /\ u \in Letter /\ r \in RowType /\ (r.isSent => ~r.isSending) /\ LetterFits(u)
      /\ KeepHistory[Conn[w]] \in BOOLEAN
  BY KeepHistoryAssumption, ConnAssumption DEF CallType, WatchInv, TypeOK, LetterFits
<1>2. Open(r) /\ ~Ended(r) /\ (call[w].op = "claim" => r.tries = call[w].tries)
  BY <1>1, PassesOpen
<1>3. /\ call[w].op = "append" => new = r
      /\ new.status \in {"stored", "removed"} /\ (new.isSent => ~new.isSending)
      /\ new.tries = r.tries \/ new.tries = r.tries + 1
      /\ call[w].op = "claim" => new.tries = r.tries + 1
  BY <1>1, UpdateIs
<1>4. /\ letter'[u] = new /\ sendat'[u] = SendAtAfter(call[w], new)
      /\ \A v \in Letter \ {u} : letter'[v] = letter[v] /\ sendat'[v] = sendat[v]
  BY <1>1 DEF WatchInv, TypeOK
<1>5. LetterFits(u)'
  <2>1. CASE call[w].op = "append"
    BY <1>1, <1>3, <1>4, <2>1 DEF LetterFits, SendAtAfter
  <2>2. CASE call[w].op # "append"
    BY <1>1, <1>2, <1>3, <1>4, <2>2 DEF LetterFits, SendAtAfter
  <2>3. QED
    BY <2>1, <2>2
<1>6. \A v \in Letter \ {u} : LetterFits(v)'
  BY <1>4 DEF WatchInv, LetterFits
<1>7. Grows(r, new)
  BY <1>1, <1>2, <1>3 DEF Grows, RowType
<1>8. QED
  BY <1>2, <1>3, <1>4, <1>5, <1>6, <1>7

LEMMA EndStep ==
    ASSUME WatchInv, TypeOK', NEW w \in User, Unwatch(w) \/ Exec(w) \/ CallThrows(w)
    PROVE  WatchInv'
<1>1. /\ call[w].pc \in {"watched", "checked", "refused"} /\ Sending(w)
      /\ call[w] \in CallType /\ call[w].uuid \in Letter /\ call[w].op \in Ops
      /\ CallFits(w) /\ TypeOK
  BY CallRead DEF Unwatch, Exec, CallThrows, Sending, WatchInv, CallFits
<1>2. now' = now /\ cancel' = cancel
  BY DEF Unwatch, Exec, CallThrows
<1>3. PICK done \in BOOLEAN :
        /\ call' = [call EXCEPT ![w] = After(call[w], done)]
        /\ done => Exec(w) /\ Conn[w] \notin dirty
  BY DEF Unwatch, Exec, CallThrows
<1> DEFINE j == After(call[w], done)
<1>4. \/ j = IdleCall
      \/ /\ j.pc = "working" /\ j.op = "none" /\ j.uuid = call[w].uuid
         /\ \/ call[w].op = "claim" /\ done /\ j.tries = call[w].tries + 1
            \/ call[w].op = "renew" /\ j.tries = call[w].tries
  BY <1>1, AfterIs
<1> HIDE DEF j
<1>5. call'[w] = j /\ call' = [call EXCEPT ![w] = j]
  BY <1>3 DEF j, WatchInv, TypeOK
<1> DEFINE u == call[w].uuid
           new == Update(call[w], KeepHistory[Conn[w]])
<1> HIDE DEF u, new
\* The letters, and the other connections.
<1>6. /\ \A c \in Client \ {Conn[w]} :
           watched'[c] = watched[c] /\ (c \in dirty => c \in dirty')
      /\ \/ UNCHANGED <<letter, sendat>> /\ ~done
         \/ /\ letter' = [letter EXCEPT ![u] = new]
            /\ sendat' = [sendat EXCEPT ![u] = SendAtAfter(call[w], new)]
            /\ new \in RowType
            /\ call[w].seen = letter[u] /\ Passes(call[w], letter[u])
            /\ \A c \in Client \ {Conn[w]} : u \in watched[c] => c \in dirty'
  <2>1. CASE call[w].pc = "checked" /\ ExecEffect(w)
    <3>1. Conn[w] \in dirty => UNCHANGED <<letter, sendat>> /\ ~done
      BY <1>3, <2>1 DEF ExecEffect, ExecOn
    <3>2. Conn[w] \notin dirty =>
             /\ letter' = [letter EXCEPT ![u] = new]
             /\ sendat' = [sendat EXCEPT ![u] = SendAtAfter(call[w], new)]
             /\ call[w].seen = letter[u]
      BY <2>1 DEF ExecEffect, ExecOn, SendAtAfter, u, new, WatchInv, CallFits, Watching
    <3>3. Passes(call[w], call[w].seen) /\ new \in RowType
      BY <1>1, <2>1, ExecWrites DEF CallFits, Watching, new
    <3>4. Conn[w] \notin dirty => \A c \in Client \ {Conn[w]} : u \in watched[c] => c \in dirty'
      BY <2>1 DEF ExecEffect, ExecOn, Touched, u
    <3>5. \A c \in Client \ {Conn[w]} :
             watched'[c] = watched[c] /\ (c \in dirty => c \in dirty')
      BY <2>1, ExecWrites
    <3>6. QED
      BY <3>1, <3>2, <3>3, <3>4, <3>5
  <2>2. CASE UnwatchEffect(w) /\ UNCHANGED <<letter, sendat>> /\ ~done
    BY <2>2 DEF UnwatchEffect, Unwatched, WatchInv, TypeOK
  <2>3. CASE UNCHANGED <<letter, sendat, connection>> /\ ~done
    BY <2>3 DEF connection
  <2>4. QED
    BY <1>3, <2>1, <2>2, <2>3 DEF Unwatch, Exec, CallThrows
<1>7. /\ \A v \in Letter : LetterFits(v)'
      /\ \A v \in Letter : letter'[v] = letter[v] \/ Grows(letter[v], letter'[v])
      /\ call[w].op = "claim" /\ done =>
           /\ call[w].tries = letter[u].tries /\ ~Ended(letter[u])
           /\ letter'[u].tries = call[w].tries + 1
           /\ letter'[u].status # "none"
  <2>1. CASE UNCHANGED <<letter, sendat>> /\ ~done
    BY <1>2, <2>1 DEF WatchInv, LetterFits
  <2>2. CASE /\ letter' = [letter EXCEPT ![u] = new]
             /\ sendat' = [sendat EXCEPT ![u] = SendAtAfter(call[w], new)]
             /\ new \in RowType
             /\ call[w].seen = letter[u] /\ Passes(call[w], letter[u])
    <3>1. letter'[u] = new
      BY <1>1, <2>2 DEF u, TypeOK
    <3>2. QED
      BY <1>1, <1>2, <2>2, <3>1, WrittenFits DEF u, new
  <2>3. QED
    BY <1>6, <2>1, <2>2
<1>8. CallFits(w)'
  <2>1. CASE j = IdleCall
    BY <1>5, <2>1 DEF CallFits, Watching, ClaimFits, Holds, Sending, Attempt, IdleCall
  <2>2. CASE j.pc = "working" /\ j.op = "none" /\ j.uuid = u
             /\ call[w].op = "claim" /\ done /\ j.tries = call[w].tries + 1
    <3>1. ClaimFits(w)'
      BY <1>1, <1>5, <1>7, <2>2 DEF ClaimFits, CallType
    <3>2. QED
      BY <1>5, <2>2, <3>1 DEF CallFits, Watching, Attempt
  <2>3. CASE j.pc = "working" /\ j.op = "none" /\ j.uuid = u
             /\ call[w].op = "renew" /\ j.tries = call[w].tries
    <3>1. letter[u].status # "none" /\ (call[w].tries <= letter[u].tries \/ Ended(letter[u]))
      BY <1>1, <2>3 DEF CallFits, ClaimFits, Holds, u
    <3>2. letter'[u] = letter[u] \/ Grows(letter[u], letter'[u])
      BY <1>1, <1>7 DEF u
    <3>3. /\ call[w].tries \in Nat /\ letter[u].tries \in Nat /\ letter'[u].tries \in Nat
      BY <1>1 DEF u, CallType, TypeOK, RowType
    <3>4. ClaimFits(w)'
      BY <1>5, <2>3, <3>1, <3>2, <3>3 DEF ClaimFits, Grows
    <3>5. QED
      BY <1>5, <2>3, <3>4 DEF CallFits, Watching, Attempt
  <2>4. QED
    BY <1>4, <2>1, <2>2, <2>3 DEF u
<1>9. w \in Worker /\ Holds(w)' =>
        \/ Holds(w) /\ call'[w].uuid = call[w].uuid /\ call'[w].tries = call[w].tries
        \/ \A v \in User \ {w} :
              Holds(v) /\ call[v].uuid = call'[w].uuid => call[v].tries # call'[w].tries
  <2>1. CASE j = IdleCall
    BY <1>5, <2>1 DEF Holds, Sending, IdleCall
  <2>2. CASE /\ j.uuid = u /\ call[w].op = "claim" /\ done
             /\ j.tries = call[w].tries + 1
    <3> SUFFICES ASSUME NEW v \in User \ {w}, Holds(v), call[v].uuid = u
                 PROVE  call[v].tries # call[w].tries + 1
      BY <1>5, <2>2
    <3>1. call[v].tries <= letter[u].tries /\ letter[u].tries = call[w].tries
      BY <1>7, <2>2 DEF WatchInv, CallFits, ClaimFits
    <3>2. call[v].tries \in Nat /\ call[w].tries \in Nat
      BY <1>1, CallRead DEF Holds, Sending, CallType
    <3>3. QED
      BY <3>1, <3>2
  <2>3. CASE j.uuid = u /\ call[w].op = "renew" /\ j.tries = call[w].tries
    BY <1>1, <1>5, <2>3 DEF Holds, u
  <2>4. QED
    BY <1>4, <2>1, <2>2, <2>3 DEF u
<1>10. \A c \in Client \ {Conn[w]} : \A v \in watched[c] : letter'[v] = letter[v] \/ c \in dirty'
  <2>1. CASE letter' = letter
    BY <2>1
  <2>2. CASE /\ letter' = [letter EXCEPT ![u] = new]
             /\ \A c \in Client \ {Conn[w]} : u \in watched[c] => c \in dirty'
    BY <1>1, <2>2 DEF TypeOK
  <2>3. QED
    BY <1>6, <2>1, <2>2
<1>11. QED
  BY <1>1, <1>2, <1>5, <1>6, <1>7, <1>8, <1>9, <1>10, UserFrame

-----------------------------------------------------------------------------
(* The other steps.                                                        *)

\* A step outside the guarded calls, which writes one letter or none and tells who
\* watches it.
LEMMA KeyStep ==
    ASSUME WatchInv, TypeOK', UNCHANGED <<now, call>>, NEW u \in Letter,
           \A v \in Letter \ {u} : /\ letter'[v] = letter[v] /\ sendat'[v] = sendat[v]
                                   /\ cancel'[v] = cancel[v],
           LetterFits(u)',
           letter'[u] = letter[u] \/ Grows(letter[u], letter'[u]),
           \A w \in User : Sending(w) =>
              watched'[Conn[w]] = watched[Conn[w]] /\ (Conn[w] \in dirty => Conn[w] \in dirty'),
           \/ letter'[u] = letter[u]
           \/ letter[u].status # "stored"
           \/ Touched(u) \subseteq dirty'
    PROVE  WatchInv'
<1>1. TypeOK /\ now \in Nat /\ \A w \in User : Conn[w] \in Client
  BY ConnAssumption DEF WatchInv, TypeOK
<1>2. \A v \in Letter : LetterFits(v)'
  BY DEF WatchInv, LetterFits
<1>3. \A v \in Letter : letter'[v] = letter[v] \/ Grows(letter[v], letter'[v])
  OBVIOUS
<1>4. \A w \in User : CallFits(w)'
  <2> SUFFICES ASSUME NEW w \in User PROVE CallFits(w)'
    OBVIOUS
  <2>1. CASE call[w].pc \notin {"watched", "checked"}
    BY <1>1, <1>3, <2>1, CallLasts DEF WatchInv
  <2>2. CASE \/ call[w].pc = "watched"
             \/ letter'[call[w].uuid] = letter[call[w].uuid]
             \/ call[w].uuid \notin watched[Conn[w]]
             \/ Conn[w] \in dirty'
    BY <1>1, <1>3, <2>2, CallLasts DEF WatchInv, Sending
  <2>3. CASE /\ call[w].pc = "checked" /\ call[w].uuid = u
             /\ u \in watched[Conn[w]] /\ Conn[w] \notin dirty'
    <3>1. call[w].seen = letter[u] /\ Passes(call[w], call[w].seen)
      BY <2>3 DEF WatchInv, CallFits, Watching, Sending
    <3>2. letter[u].status = "stored"
      BY <3>1 DEF Passes, CanClaim, HoldsLease, Open
    <3>3. letter'[u] = letter[u]
      BY <1>1, <2>3, <3>2 DEF Touched
    <3>4. QED
      BY <2>2, <2>3, <3>3
  <2>4. QED
    BY <1>1, <2>1, <2>2, <2>3, CallRead
<1>5. Alone' /\ Folding' /\ OneWorkerPerTry'
  BY DEF WatchInv, Alone, Folding, Sending, OneWorkerPerTry, Holds
<1>6. QED
  BY <1>2, <1>4, <1>5 DEF WatchInv

LEMMA RowsFrame ==
    ASSUME WatchInv, NEW u \in Letter, NEW k, NEW r,
           cancel' = [cancel EXCEPT ![u] = k],
           letter' = letter \/ letter' = [letter EXCEPT ![u] = r],
           sendat' = sendat \/ sendat' = [sendat EXCEPT ![u] = 0]
    PROVE  /\ \A v \in Letter \ {u} : /\ letter'[v] = letter[v] /\ sendat'[v] = sendat[v]
                                      /\ cancel'[v] = cancel[v]
           /\ cancel'[u] = k
           /\ letter'[u] = letter[u] \/ (letter' = [letter EXCEPT ![u] = r] /\ letter'[u] = r)
           /\ sendat'[u] = sendat[u] \/ (sendat' = [sendat EXCEPT ![u] = 0] /\ sendat'[u] = 0)
BY DEF WatchInv, TypeOK

\* A step of cancel() that reads, or takes the sendat key.
LEMMA CancelReads ==
    ASSUME WatchInv, TypeOK', NEW u \in Letter,
           \/ \E c \in Client : CancelUnschedule(u, c)
           \/ CancelRead(u) \/ CancelFind(u) \/ CancelClear(u) \/ CancelLost(u)
    PROVE  WatchInv'
<1>1. /\ LetterFits(u) /\ cancel[u] \in CancelType /\ letter[u] \in RowType
      /\ letter[u].status # "none"
      /\ UNCHANGED <<now, letter, connection, call>>
  BY DEF WatchInv, TypeOK, LetterFits, CancelUnschedule, CancelRead, CancelFind,
         CancelClear, CancelLost, CancelPending
<1>2. ASSUME NEW k, cancel' = [cancel EXCEPT ![u] = k],
             sendat' = sendat \/ sendat' = [sendat EXCEPT ![u] = 0],
             k.pc \in {"idle", "cancelled"} => sendat'[u] = SendAtKey(letter[u]),
             k.pc \in CancelPending => sendat'[u] \in {0, SendAtKey(letter[u])},
             k.pc \in {"clearing", "cancelled"} => Ended(letter[u]),
             k.pc = "found" /\ k.keep =>
                k.seen.status = "stored" /\ (k.seen.isSent => ~k.seen.isSending)
      PROVE  WatchInv'
  <2>1. /\ \A v \in Letter \ {u} : /\ letter'[v] = letter[v] /\ sendat'[v] = sendat[v]
                                   /\ cancel'[v] = cancel[v]
        /\ cancel'[u] = k
    BY <1>1, <1>2, RowsFrame
  <2>2. LetterFits(u)'
    BY <1>1, <1>2, <2>1 DEF LetterFits
  <2>3. QED
    BY <1>1, <2>1, <2>2, KeyStep DEF connection
<1>3. ASSUME NEW c \in Client, CancelUnschedule(u, c)
      PROVE  WatchInv'
  <2> DEFINE k == [cancel[u] EXCEPT !.pc = "unscheduled", !.keep = KeepHistory[c]]
  <2>1. k.pc = "unscheduled" /\ cancel' = [cancel EXCEPT ![u] = k]
    BY <1>1, <1>3 DEF CancelUnschedule, CancelType
  <2>2. sendat' = [sendat EXCEPT ![u] = 0] /\ sendat'[u] = 0
    BY <1>3 DEF CancelUnschedule, WatchInv, TypeOK
  <2> HIDE DEF k
  <2>3. QED
    BY <1>2, <2>1, <2>2
<1>4. CASE CancelRead(u)
  <2> DEFINE decided == [cancel[u] EXCEPT !.pc = "decided"]
  <2>1. decided.pc = "decided" /\ NoCancel("idle").pc = "idle"
    BY <1>1, NoCancelType DEF CancelType
  <2>2. PICK k \in {decided, NoCancel("idle")} :
           /\ cancel' = [cancel EXCEPT ![u] = k]
           /\ k = decided \/ ~Open(letter[u])
    <3>1. CASE letter[u].status = "stored" /\ ~letter[u].isSent /\ ~letter[u].isCancelled
      BY <1>4, <3>1 DEF CancelRead
    <3>2. CASE ~(letter[u].status = "stored" /\ ~letter[u].isSent /\ ~letter[u].isCancelled)
      BY <1>4, <3>2 DEF CancelRead, Open
    <3>3. QED
      BY <3>1, <3>2
  <2>3. sendat' = sendat /\ cancel[u].pc \in CancelPending
    BY <1>4 DEF CancelRead, CancelPending
  <2>4. sendat[u] \in {0, SendAtKey(letter[u])}
    BY <1>1, <2>3 DEF LetterFits
  <2>5. k.pc \in {"decided", "idle"} /\ (k.pc = "idle" => SendAtKey(letter[u]) = 0)
    BY <2>1, <2>2, SendAtKeyIs
  <2> HIDE DEF decided
  <2>6. QED
    BY <1>2, <2>2, <2>3, <2>4, <2>5 DEF CancelPending
<1>5. CASE CancelFind(u)
  <2>1. sendat' = sendat /\ cancel[u].pc \in CancelPending
    BY <1>5 DEF CancelFind, CancelPending, connection
  <2>2. sendat[u] \in {0, SendAtKey(letter[u])}
    BY <1>1, <2>1 DEF LetterFits
  <2>3. CASE letter[u].status = "stored"
    <3> DEFINE k == [cancel[u] EXCEPT !.pc = "found",
                        !.seen = IF cancel[u].keep THEN letter[u] ELSE NoRow]
    <3>1. /\ k.pc = "found"
          /\ k.keep => k.seen = letter[u]
          /\ cancel' = [cancel EXCEPT ![u] = k]
      BY <1>1, <1>5, <2>3 DEF CancelFind, CancelType
    <3> HIDE DEF k
    <3>2. letter[u].isSent => ~letter[u].isSending
      BY <1>1 DEF LetterFits
    <3>3. QED
      BY <1>2, <2>1, <2>2, <2>3, <3>1, <3>2
  <2>4. CASE letter[u].status # "stored"
    <3> DEFINE k == NoCancel("idle")
    <3>1. k.pc = "idle" /\ cancel' = [cancel EXCEPT ![u] = k]
      BY <1>5, <2>4, NoCancelType DEF CancelFind
    <3>2. SendAtKey(letter[u]) = 0
      BY <2>4, SendAtKeyIs DEF Open
    <3> HIDE DEF k
    <3>3. QED
      BY <1>2, <2>1, <2>2, <3>1, <3>2 DEF CancelPending
  <2>5. QED
    BY <2>3, <2>4
<1>6. CASE CancelClear(u)
  <2> DEFINE k == NoCancel("cancelled")
  <2>1. k.pc = "cancelled" /\ cancel' = [cancel EXCEPT ![u] = k]
    BY <1>6, NoCancelType DEF CancelClear
  <2>2. sendat' = [sendat EXCEPT ![u] = 0] /\ sendat'[u] = 0
    BY <1>6 DEF CancelClear, WatchInv, TypeOK
  <2>3. Ended(letter[u]) /\ SendAtKey(letter[u]) = 0
    BY <1>1, <1>6, SendAtKeyIs DEF CancelClear, LetterFits
  <2> HIDE DEF k
  <2>4. QED
    BY <1>2, <2>1, <2>2, <2>3 DEF CancelPending
<1>7. CASE CancelLost(u)
  <2> DEFINE k == NoCancel("lost")
  <2>1. k.pc = "lost" /\ cancel' = [cancel EXCEPT ![u] = k] /\ sendat' = sendat
    BY <1>7, NoCancelType DEF CancelLost
  <2> HIDE DEF k
  <2>2. QED
    BY <1>2, <2>1 DEF CancelPending
<1>8. QED
  BY <1>3, <1>4, <1>5, <1>6, <1>7

\* The step of cancel() that ends the letter.
LEMMA CancelWrites ==
    ASSUME WatchInv, TypeOK', NEW u \in Letter, CancelDelete(u) \/ CancelSet(u)
    PROVE  WatchInv'
<1>1. /\ LetterFits(u) /\ cancel[u] \in CancelType /\ letter[u] \in RowType
      /\ letter'[u] \in RowType /\ now \in Nat
      /\ UNCHANGED <<now, watched, call>>
  BY DEF WatchInv, TypeOK, CancelDelete, CancelSet
<1>2. CASE CancelDelete(u)
  <2> DEFINE k == NoCancel("cancelled")
  <2>1. k.pc = "cancelled" /\ cancel' = [cancel EXCEPT ![u] = k]
    BY <1>2, NoCancelType DEF CancelDelete
  <2> HIDE DEF k
  <2>2. letter' = [letter EXCEPT ![u] = Removed(letter[u])] /\ sendat' = [sendat EXCEPT ![u] = 0]
    BY <1>2 DEF CancelDelete
  <2>3. /\ \A v \in Letter \ {u} : /\ letter'[v] = letter[v] /\ sendat'[v] = sendat[v]
                                   /\ cancel'[v] = cancel[v]
        /\ cancel'[u] = k /\ letter'[u] = Removed(letter[u]) /\ sendat'[u] = 0
    BY <2>1, <2>2 DEF WatchInv, TypeOK
  <2>4. /\ letter'[u].status = "removed" /\ letter'[u].isSent = letter[u].isSent
        /\ letter'[u].isSending = letter[u].isSending
    BY <1>1, <2>3 DEF Removed, RowType
  <2>5. SendAtKey(letter'[u]) = 0 /\ Ended(letter'[u])
    BY <2>4, SendAtKeyIs DEF Ended
  <2>6. LetterFits(u)'
    BY <1>1, <2>1, <2>3, <2>4, <2>5 DEF LetterFits, CancelPending
  <2>7. Grows(letter[u], letter'[u])
    BY <2>4, <2>5 DEF Grows
  <2>8. dirty \subseteq dirty' /\ (letter[u].status = "stored" => Touched(u) \subseteq dirty')
    BY <1>2 DEF CancelDelete
  <2>9. QED
    BY <1>1, <2>3, <2>6, <2>7, <2>8, KeyStep
<1>3. CASE CancelSet(u)
  <2> DEFINE k == NoCancel("clearing")
             r == Cancelled(cancel[u].seen)
  <2>1. k.pc = "clearing" /\ cancel' = [cancel EXCEPT ![u] = k]
    BY <1>3, NoCancelType DEF CancelSet
  <2>2. /\ cancel[u].pc = "found" /\ cancel[u].keep
        /\ cancel[u].seen.status = "stored"
        /\ cancel[u].seen.isSent => ~cancel[u].seen.isSending
        /\ letter[u].status # "none"
    BY <1>1, <1>3 DEF CancelSet, LetterFits
  <2>3. r.status = "stored" /\ r.isCancelled /\ (r.isSent => ~r.isSending)
    BY <1>1, <2>2 DEF Cancelled, CancelType, RowType
  <2>4. letter' = [letter EXCEPT ![u] = r] /\ sendat' = sendat
    BY <1>3 DEF CancelSet
  <2> HIDE DEF k, r
  <2>5. /\ \A v \in Letter \ {u} : /\ letter'[v] = letter[v] /\ sendat'[v] = sendat[v]
                                   /\ cancel'[v] = cancel[v]
        /\ cancel'[u] = k /\ letter'[u] = r
    BY <2>1, <2>4 DEF WatchInv, TypeOK
  <2>6. Ended(r)
    BY <2>3 DEF Ended
  <2>7. LetterFits(u)'
    BY <2>1, <2>3, <2>5, <2>6 DEF LetterFits, CancelPending
  <2>8. Grows(letter[u], letter'[u])
    BY <2>3, <2>5, <2>6 DEF Grows
  <2>9. dirty \subseteq dirty' /\ Touched(u) \subseteq dirty'
    BY <1>3 DEF CancelSet
  <2>10. QED
    BY <1>1, <2>5, <2>7, <2>8, <2>9, KeyStep
<1>4. QED
  BY <1>2, <1>3

\* The EXEC of a push ends the watches of the connection, which nobody is using.
LEMMA PushStep ==
    ASSUME WatchInv, TypeOK', OneAtATime, NEW s \in Sender, NEW u \in Letter, Push(s, u)
    PROVE  WatchInv'
<1>1. /\ LetterFits(u) /\ now \in Nat /\ TypeOK /\ Conn[s] \in Client
      /\ s \in User /\ letter[u].status = "none"
      /\ UNCHANGED <<now, call, cancel>>
  BY ConnAssumption DEF WatchInv, TypeOK, Push, User
<1>2. \A w \in User : Sending(w) => Conn[w] # Conn[s]
  <2>1. call[s].pc = "idle" /\ ~Sending(s)
    BY DEF Push, Sending
  <2>2. QED
    BY <2>1 DEF OneAtATime, WatchInv, Folding, User
<1>3. \A c \in Client \ {Conn[s]} :
        watched'[c] = watched[c] /\ (c \in dirty => c \in dirty')
  BY <1>1 DEF Push, ExecOn, Unwatched, TypeOK
<1>4. \A w \in User : Sending(w) =>
        watched'[Conn[w]] = watched[Conn[w]] /\ (Conn[w] \in dirty => Conn[w] \in dirty')
  BY <1>2, <1>3, ConnAssumption
<1>5. CASE letter' = letter /\ sendat' = sendat
  <2>1. LetterFits(u)'
    BY <1>1, <1>5 DEF LetterFits
  <2>2. QED
    BY <1>1, <1>4, <1>5, <2>1, KeyStep
<1>6. CASE /\ letter' = [letter EXCEPT ![u] = NewRow("stored", now)]
           /\ sendat' = [sendat EXCEPT ![u] = now]
  <2> DEFINE r == NewRow("stored", now)
  <2>1. Open(r) /\ r.sendAt = now /\ ~r.isSending /\ r.status = "stored"
    BY <1>1, NewRowType DEF RowStatus
  <2> HIDE DEF r
  <2>2. /\ \A v \in Letter \ {u} : letter'[v] = letter[v] /\ sendat'[v] = sendat[v]
        /\ letter'[u] = r /\ sendat'[u] = now
    BY <1>1, <1>6 DEF TypeOK, r
  <2>3. cancel[u].pc = "idle" /\ SendAtKey(r) = now /\ ~Ended(letter[u])
    BY <1>1, <2>1, SendAtKeyIs DEF LetterFits, Ended
  <2>4. LetterFits(u)'
    BY <1>1, <2>1, <2>2, <2>3 DEF LetterFits, CancelPending
  <2>5. Grows(letter[u], letter'[u])
    BY <1>1, <2>1, <2>2, <2>3 DEF Grows
  <2>6. QED
    BY <1>1, <1>4, <2>2, <2>4, <2>5, KeyStep
<1>7. QED
  BY <1>5, <1>6 DEF Push, ExecOn

LEMMA TimeSteps ==
    ASSUME WatchInv, TypeOK', Tick \/ \E c \in Client : Crash(c)
    PROVE  WatchInv'
<1>1. /\ TypeOK /\ now \in Nat /\ now' \in Nat /\ now >= 1 /\ now <= now'
      /\ UNCHANGED <<letter, sendat, cancel>>
      /\ \A w \in User : Conn[w] \in Client
  BY ConnAssumption DEF WatchInv, TypeOK, Tick, Crash
<1>2. \A w \in User :
        \/ call'[w] = IdleCall
        \/ /\ call'[w] = call[w] /\ watched'[Conn[w]] = watched[Conn[w]]
           /\ Conn[w] \in dirty => Conn[w] \in dirty'
  BY <1>1 DEF Tick, Crash, Unwatched, connection, TypeOK
<1>3. \A w \in User : CallFits(w)'
  <2> SUFFICES ASSUME NEW w \in User PROVE CallFits(w)'
    OBVIOUS
  <2>1. CASE call'[w] = IdleCall
    BY <2>1 DEF CallFits, Watching, ClaimFits, Holds, Sending, Attempt, IdleCall
  <2>2. CASE /\ call'[w] = call[w] /\ watched'[Conn[w]] = watched[Conn[w]]
             /\ Conn[w] \in dirty => Conn[w] \in dirty'
    BY <1>1, <2>2, CallLasts DEF WatchInv
  <2>3. QED
    BY <1>2, <2>1, <2>2
<1>4. \A w \in User : /\ Sending(w)' => Sending(w)
                      /\ Holds(w)' => Holds(w) /\ call'[w] = call[w]
  BY <1>2 DEF Sending, Holds, IdleCall
<1>5. Alone' /\ Folding' /\ OneWorkerPerTry'
  <2>1. Alone'
    BY <1>4 DEF WatchInv, Alone
  <2>2. Folding'
    BY <1>4 DEF WatchInv, Folding, User
  <2>3. OneWorkerPerTry'
    BY <1>4 DEF WatchInv, OneWorkerPerTry, User
  <2>4. QED
    BY <2>1, <2>2, <2>3
<1>6. \A u \in Letter : LetterFits(u)'
  BY <1>1 DEF WatchInv, LetterFits
<1>7. QED
  BY <1>1, <1>3, <1>5, <1>6 DEF WatchInv

LEMMA WatchInit == Init => WatchInv
<1> SUFFICES ASSUME Init PROVE WatchInv
  OBVIOUS
<1>1. TypeOK /\ now >= 1
  BY TypesInit DEF Init
<1>2. ~NoRow.isSent /\ SendAtKey(NoRow) = 0
  BY NewRowType, SendAtKeyIs DEF NoRow, RowStatus
<1>3. \A u \in Letter : LetterFits(u)
  BY <1>2, NoCancelType DEF Init, LetterFits, CancelPending
<1>4. \A w \in User : CallFits(w) /\ ~Sending(w) /\ ~Holds(w)
  BY DEF Init, IdleCall, CallFits, Watching, ClaimFits, Holds, Attempt, Sending
<1>5. QED
  BY <1>1, <1>3, <1>4 DEF WatchInv, Alone, Folding, OneWorkerPerTry, User

LEMMA WatchInductive ==
    ASSUME OneAtATime
    PROVE  Spec => []WatchInv
<1>1. WatchInv /\ [Next]_vars => WatchInv'
  <2> SUFFICES ASSUME WatchInv, [Next]_vars PROVE WatchInv'
    OBVIOUS
  <2>1. TypeOK'
    BY TypesStep DEF WatchInv
  <2>2. ASSUME NEW w \in Worker, WorkerStep(w)
        PROVE  WatchInv'
    BY <2>1, <2>2, ScanStep, BeginStep, GetStep, EndStep DEF WorkerStep, CallStep, User
  <2>3. ASSUME NEW u \in Letter, CancelStep(u)
        PROVE  WatchInv'
    BY <2>1, <2>3, CancelReads, CancelWrites DEF CancelStep
  <2>6. ASSUME NEW s \in Sender, SenderStep(s)
        PROVE  WatchInv'
    BY <2>1, <2>6, PushStep, AppendStep, GetStep, EndStep DEF SenderStep, CallStep, User
  <2>4. CASE UNCHANGED vars
    BY <2>1, <2>4 DEF vars, connection, WatchInv, LetterFits, CallFits, Watching, ClaimFits, Holds,
                      Attempt, Alone, Folding, Sending, OneWorkerPerTry, Passes
  <2>5. QED
    BY <2>1, <2>2, <2>3, <2>4, <2>6, TimeSteps DEF Next
<1>2. QED
  BY <1>1, WatchInit, PTL DEF Spec

\* The two keys of a letter agree, but for a cancel() call between its commands.
THEOREM WatchKeysAgree ==
    ASSUME OneAtATime
    PROVE  Spec => []KeysAgree
<1>1. WatchInv => KeysAgree
  BY DEF WatchInv, LetterFits, KeysAgree, SendAtKey
<1>2. QED
  BY <1>1, WatchInductive, PTL

\* docs/tuning.md:16: no two workers hold a claim on the same letter at the same tries.
THEOREM WatchOneWorkerPerTry ==
    ASSUME OneAtATime
    PROVE  Spec => []OneWorkerPerTry
<1>1. WatchInv => OneWorkerPerTry
  BY DEF WatchInv
<1>2. QED
  BY <1>1, WatchInductive, PTL

-----------------------------------------------------------------------------
(* A cancelled letter.                                                     *)

\* A claim begins with EXEC, on a letter that is open.
LEMMA ClaimBegins ==
    ASSUME WatchInv, [Next]_vars, NEW w \in Worker, Holds(w)', ~Holds(w)
    PROVE  call'[w].uuid = call[w].uuid /\ Open(letter[call[w].uuid])
<1>1. call'[w] # call[w] /\ call'[w] # IdleCall
  BY DEF Holds, Sending, IdleCall
<1>2. call \in [User -> CallType \cup {IdleCall}] /\ w \in User /\ w \notin Sender
  BY UserAssumption DEF WatchInv, TypeOK, User
<1>3. PICK v \in Worker : WorkerStep(v)
  <2>1. ASSUME NEW s \in Sender, SenderStep(s)
        PROVE  FALSE
    <3>1. call' = call \/ \E j : call' = [call EXCEPT ![s] = j]
      BY <2>1 DEF SenderStep, CallStep, Push, StartAppend, Get, Unwatch, Exec, CallThrows
    <3>2. QED
      BY <1>1, <1>2, <3>1
  <2>2. QED
    BY <1>1, <1>2, <2>1 DEF Next, vars, CancelStep, CancelUnschedule, CancelRead, CancelFind,
              CancelDelete, CancelSet, CancelClear, CancelLost, Crash, Tick
<1>4. v = w
  BY <1>1, <1>2, <1>3 DEF WorkerStep, CallStep, Look, Read, StartClaim, StartWrite,
              Watch, Get, Unwatch, Exec, CallThrows
<1>5. ASSUME NEW op, NEW at, Watch(w, op, at), call[w].pc = "working" \/ op = "claim",
             call[w] \in CallType
      PROVE  FALSE
  <2>1. call'[w] = [call[w] EXCEPT !.pc = "watched", !.op = op, !.at = at]
    BY <1>2, <1>5 DEF Watch
  <2>2. call'[w].op = op /\ call'[w].pc = "watched"
    BY <1>5, <2>1 DEF CallType
  <2>3. op # "claim" /\ call[w].pc = "working"
    BY <1>5, <2>2 DEF Holds, Sending
  <2>4. call[w].op = "none"
    BY <1>2, <2>3 DEF WatchInv, CallFits
  <2>5. QED
    BY <2>3, <2>4 DEF Holds, Sending
<1>6. CASE StartClaim(w) \/ \E op \in WorkerOps : StartWrite(w, op)
  <2>1. call[w] \in CallType
    BY <1>2, <1>6, CallRead DEF StartClaim, StartWrite, WatchInv
  <2>2. QED
    BY <1>5, <1>6, <2>1 DEF StartClaim, StartWrite
<1>7. CASE (\E u \in Letter : Look(w, u)) \/ Read(w)
  <2>1. ASSUME NEW u \in Letter, Look(w, u)
        PROVE  FALSE
    BY <1>2, <2>1, NewCallType DEF Look, Holds, Sending
  <2>2. CASE Read(w)
    <3>1. call[w] \in CallType
      BY <1>2, <2>2, CallRead DEF Read, WatchInv
    <3> DEFINE read == [call[w] EXCEPT !.pc = "read", !.tries = letter[call[w].uuid].tries]
    <3>2. read.pc = "read"
      BY <3>1 DEF CallType
    <3>3. call'[w] = IdleCall \/ call'[w] = read
      BY <1>2, <2>2 DEF Read
    <3> HIDE DEF read
    <3>4. QED
      BY <1>1, <3>2, <3>3 DEF Holds, Sending
  <2>3. QED
    BY <1>7, <2>1, <2>2
<1>8. CASE Get(w)
  <2>1. call[w] \in CallType /\ call[w].pc = "watched"
    BY <1>2, <1>8, CallRead DEF Get, WatchInv
  <2> DEFINE r == letter[call[w].uuid]
             j == IF Passes(call[w], r) THEN [call[w] EXCEPT !.pc = "checked", !.seen = r]
                                        ELSE [call[w] EXCEPT !.pc = "refused"]
  <2>2. j.op = call[w].op
    BY <2>1 DEF CallType
  <2>3. call'[w] = j
    BY <1>2, <1>8 DEF Get
  <2> HIDE DEF j
  <2>4. QED
    BY <2>1, <2>2, <2>3 DEF Holds, Sending
<1>9. CASE Unwatch(w) \/ Exec(w) \/ CallThrows(w)
  <2>1. /\ call[w].pc \in {"watched", "checked", "refused"} /\ call[w] \in CallType
    BY <1>2, <1>9, CallRead DEF Unwatch, Exec, CallThrows, WatchInv
  <2>2. PICK done \in BOOLEAN :
          /\ call' = [call EXCEPT ![w] = After(call[w], done)]
          /\ done => Exec(w) /\ Conn[w] \notin dirty
    BY <1>9 DEF Unwatch, Exec, CallThrows
  <2> DEFINE j == After(call[w], done)
  <2>3. \/ j = IdleCall
        \/ /\ j.uuid = call[w].uuid
           /\ (call[w].op = "claim" /\ done) \/ call[w].op = "renew"
    BY <2>1, AfterIs
  <2>4. call'[w] = j
    BY <1>2, <2>2
  <2> HIDE DEF j
  <2>5. call[w].op = "claim" /\ done /\ j.uuid = call[w].uuid
    BY <1>1, <2>1, <2>3, <2>4 DEF Holds, Sending
  <2>6. /\ call[w].seen = letter[call[w].uuid] /\ Passes(call[w], call[w].seen)
    BY <1>2, <2>2, <2>5 DEF Exec, WatchInv, CallFits, Watching
  <2>7. Open(letter[call[w].uuid])
    BY <2>5, <2>6 DEF Passes, CanClaim
  <2>8. QED
    BY <2>4, <2>5, <2>7
<1>10. QED
  BY <1>3, <1>4, <1>6, <1>7, <1>8, <1>9 DEF WorkerStep, CallStep

\* Once cancel() has returned true the letter stays closed and nobody claims it.
THEOREM WatchCancelHolds ==
    ASSUME OneAtATime
    PROVE  Spec => CancelHolds
<1>1. ASSUME WatchInv, WatchInv', [Next]_vars, NEW u \in Letter, cancel[u].pc = "cancelled"
      PROVE  /\ ~Open(letter'[u])
             /\ \A w \in Worker : Holds(w)' /\ call'[w].uuid = u => Holds(w)
  <2>1. cancel'[u] = cancel[u]
    <3>1. CASE (\E w \in Worker : WorkerStep(w)) \/ (\E s \in Sender : SenderStep(s))
      BY <3>1 DEF WorkerStep, SenderStep, CallStep, Push, StartAppend, Look, Read, StartClaim,
                  StartWrite, Watch, Get, Unwatch, Exec, CallThrows
    <3>2. CASE \E v \in Letter : CancelStep(v)
      <4>1. PICK v \in Letter : CancelStep(v)
        BY <3>2
      <4>2. cancel[v].pc \notin {"cancelled"} /\ \E k : cancel' = [cancel EXCEPT ![v] = k]
        BY <4>1 DEF CancelStep, CancelUnschedule, CancelRead, CancelFind, CancelDelete, CancelSet,
                    CancelClear, CancelLost, CancelPending
      <4>3. QED
        BY <1>1, <4>2
    <3>3. CASE (\E c \in Client : Crash(c)) \/ Tick \/ UNCHANGED vars
      BY <3>3 DEF Crash, Tick, vars
    <3>4. QED
      BY <1>1, <3>1, <3>2, <3>3 DEF Next
  <2>2. ~Open(letter[u]) /\ ~Open(letter'[u])
    BY <1>1, <2>1, SendAtKeyIs DEF WatchInv, LetterFits
  <2>3. QED
    BY <1>1, <2>2, ClaimBegins
<1>2. WatchInv /\ WatchInv' /\ [Next]_vars =>
        [\A u \in Letter : cancel[u].pc = "cancelled"
           => /\ ~Open(letter'[u])
              /\ \A w \in Worker : Holds(w)' /\ call'[w].uuid = u => Holds(w)]_vars
  BY <1>1
<1>3. QED
  BY <1>2, WatchInductive, PTL DEF Spec, CancelHolds

-----------------------------------------------------------------------------
(* The register of each letter.                                            *)

\* The operations of AtomicRow, from register `x` to register `y` at time `at`.
Moves(x, y, at) ==
    \/ x = Atomic!Absent /\ y = Atomic!Free(0)
    \/ \E stamp \in 1 .. at :
          /\ \/ x.phase = "free"
             \/ x.phase = "held" /\ x.stamp <= stamp - SendingTimeout
          /\ x.tries < MaxTries
          /\ y = Atomic!Held(x.tries + 1, stamp)
    \/ /\ x.phase = "held"
       /\ \E stamp \in x.stamp + 1 .. (IF at > x.stamp THEN at ELSE x.stamp + 1) :
             y = Atomic!Held(x.tries, stamp)
    \/ x.phase = "held" /\ x.tries < MaxTries /\ y = Atomic!Free(x.tries)
    \/ x.phase \in {"free", "held"} /\ y = Atomic!Closed

LEMMA RegisterIs ==
    ASSUME NEW r \in RowType
    PROVE  /\ r.status = "none" => RegisterOf(r) = Atomic!Absent
           /\ Open(r) /\ r.isSending => RegisterOf(r) = Atomic!Held(r.tries, r.sendingAt)
           /\ Open(r) /\ ~r.isSending => RegisterOf(r) = Atomic!Free(r.tries)
           /\ r.status # "none" /\ ~Open(r) => RegisterOf(r) = Atomic!Closed
BY DEF RegisterOf, Open, RowType, Atomic!Absent, Atomic!Held, Atomic!Free, Atomic!Closed

\* A letter that ends closes its register, or it was closed.
LEMMA EndCloses ==
    ASSUME NEW r \in RowType, r.status # "none", NEW new \in RowType,
           new.status # "none", ~Open(new), NEW at \in Nat
    PROVE  \/ RegisterOf(new) = RegisterOf(r)
           \/ Moves(RegisterOf(r), RegisterOf(new), at)
<1>1. RegisterOf(new) = Atomic!Closed
  BY RegisterIs
<1>2. CASE ~Open(r)
  BY <1>1, <1>2, RegisterIs
<1>3. CASE Open(r)
  <2>1. RegisterOf(r).phase \in {"free", "held"}
    BY <1>3, RegisterIs DEF Atomic!Held, Atomic!Free, RowType
  <2>2. QED
    BY <1>1, <2>1 DEF Moves
<1>4. QED
  BY <1>2, <1>3

\* What EXEC writes is an operation on the register, or nothing.
LEMMA WrittenMoves ==
    ASSUME NEW j \in CallType, j.op \in Ops, j.pc = "checked", NEW keep \in BOOLEAN,
           NEW r \in RowType, r = j.seen, Passes(j, r), r.isSent => ~r.isSending,
           NEW new \in RowType, new = Update(j, keep), NEW at \in Nat, Attempt(j, at)
    PROVE  \/ RegisterOf(new) = RegisterOf(r)
           \/ Moves(RegisterOf(r), RegisterOf(new), at)
<1>1. /\ j.tries \in Nat /\ j.sendingAt \in Nat /\ j.at \in Nat
      /\ r.tries \in Nat /\ r.sendingAt \in Nat /\ SendingTimeout \in Nat /\ MaxTries \in Nat
  BY SendingTimeoutAssumption, MaxTriesAssumption DEF CallType, RowType
<1>2. /\ Open(r) /\ (j.op # "append" => r.tries = j.tries)
      /\ j.op \notin {"claim", "append"} => r.isSending /\ r.sendingAt = j.sendingAt
      /\ j.op = "claim" => Takeable(r, j.at)
  BY PassesOpen
<1>3. CASE j.op = "claim" /\ Open(new) /\ new.isSending
           /\ new.tries = r.tries + 1 /\ new.sendingAt = j.at
  <2>1. RegisterOf(new) = Atomic!Held(r.tries + 1, j.at)
    BY <1>3, RegisterIs
  <2>2. r.tries < MaxTries /\ j.at \in 1 .. at
    BY <1>1, <1>2, <1>3 DEF Attempt
  <2>3. /\ RegisterOf(r).tries = r.tries
        /\ \/ RegisterOf(r).phase = "free"
           \/ RegisterOf(r).phase = "held" /\ RegisterOf(r).stamp <= j.at - SendingTimeout
    <3>1. CASE r.isSending
      <4>1. RegisterOf(r) = Atomic!Held(r.tries, r.sendingAt)
        BY <1>2, <3>1, RegisterIs
      <4>2. QED
        BY <1>2, <1>3, <3>1, <4>1 DEF Takeable, Atomic!Held
    <3>2. CASE ~r.isSending
      <4>1. RegisterOf(r) = Atomic!Free(r.tries)
        BY <1>2, <3>2, RegisterIs
      <4>2. QED
        BY <4>1 DEF Atomic!Free
    <3>3. QED
      BY <3>1, <3>2 DEF RowType
  <2>4. QED
    BY <2>1, <2>2, <2>3 DEF Moves
<1>4. ASSUME j.op \notin {"claim", "append"}
      PROVE  /\ RegisterOf(r).phase = "held" /\ RegisterOf(r).tries = r.tries
             /\ RegisterOf(r).stamp = r.sendingAt
  <2>1. RegisterOf(r) = Atomic!Held(r.tries, r.sendingAt)
    BY <1>2, <1>4, RegisterIs
  <2>2. QED
    BY <2>1 DEF Atomic!Held
<1>5. CASE j.op = "renew" /\ Open(new) /\ new.isSending
           /\ new.tries = r.tries /\ new.sendingAt = j.at
  <2>1. RegisterOf(new) = Atomic!Held(r.tries, j.at)
    BY <1>5, RegisterIs
  <2>2. j.at \in r.sendingAt + 1 .. (IF at > r.sendingAt THEN at ELSE r.sendingAt + 1)
    BY <1>1, <1>2, <1>5 DEF Attempt
  <2>3. QED
    BY <1>4, <1>5, <2>1, <2>2 DEF Moves
<1>6. CASE j.op = "released" /\ Open(new) /\ ~new.isSending /\ new.tries = r.tries
  <2>1. RegisterOf(new) = Atomic!Free(r.tries)
    BY <1>6, RegisterIs
  <2>2. r.tries < MaxTries
    BY <1>2, <1>6 DEF Attempt
  <2>3. QED
    BY <1>4, <1>6, <2>1, <2>2 DEF Moves
<1>7. CASE ~Open(new) /\ new.status # "none"
  BY <1>2, <1>7, EndCloses DEF Open
<1>8. CASE new = r
  BY <1>8
<1>9. QED
  BY <1>3, <1>5, <1>6, <1>7, <1>8, UpdateIs

Registers == [u \in Letter |-> RegisterOf(letter[u])]

\* One register moves.
LEMMA MoveIsStep ==
    ASSUME NEW u \in Letter, NEW y, Registers' = [Registers EXCEPT ![u] = y],
           now' = now, Moves(Registers[u], y, now), y # Registers[u]
    PROVE  Atomic!Next
<1>1. Registers'[u] # Registers[u]
  BY DEF Registers
<1>2. Atomic!Set(u, y)
  BY DEF Atomic!Set, Registers
<1>3. \/ Atomic!Enter(u) \/ Atomic!Renew(u) \/ Atomic!Release(u) \/ Atomic!Close(u)
      \/ \E stamp \in 1 .. now : Atomic!Claim(u, stamp)
  <2>1. CASE Registers[u] = Atomic!Absent /\ y = Atomic!Free(0)
    BY <1>2, <2>1 DEF Atomic!Enter, Registers
  <2>2. ASSUME NEW stamp \in 1 .. now,
               \/ Registers[u].phase = "free"
               \/ Registers[u].phase = "held"
                    /\ Registers[u].stamp <= stamp - SendingTimeout,
               Registers[u].tries < MaxTries,
               y = Atomic!Held(Registers[u].tries + 1, stamp)
        PROVE  Atomic!Claim(u, stamp)
    BY <1>2, <2>2 DEF Atomic!Claim, Registers
  <2>3. ASSUME Registers[u].phase = "held",
               NEW stamp \in Registers[u].stamp + 1
                               .. (IF now > Registers[u].stamp THEN now
                                                               ELSE Registers[u].stamp + 1),
               y = Atomic!Held(Registers[u].tries, stamp)
        PROVE  Atomic!Renew(u)
    BY <1>2, <2>3 DEF Atomic!Renew, Registers
  <2>4. CASE /\ Registers[u].phase = "held" /\ Registers[u].tries < MaxTries
             /\ y = Atomic!Free(Registers[u].tries)
    BY <1>2, <2>4 DEF Atomic!Release, Registers
  <2>5. CASE Registers[u].phase \in {"free", "held"} /\ y = Atomic!Closed
    BY <1>2, <2>5 DEF Atomic!Close, Registers
  <2>6. QED
    BY <2>1, <2>2, <2>3, <2>4, <2>5 DEF Moves
<1>4. QED
  BY <1>1, <1>3 DEF Atomic!Next, Registers

LEMMA RegistersStay ==
    ASSUME letter' = letter, now' = now
    PROVE  [Atomic!Next]_(Atomic!vars)
BY DEF Atomic!vars

\* One letter is written.
LEMMA WriteActs ==
    ASSUME TypeOK, NEW u \in Letter, NEW new, letter' = [letter EXCEPT ![u] = new], now' = now,
           \/ RegisterOf(new) = RegisterOf(letter[u])
           \/ Moves(RegisterOf(letter[u]), RegisterOf(new), now)
    PROVE  [Atomic!Next]_(Atomic!vars)
<1> DEFINE x == RegisterOf(letter[u])
           y == RegisterOf(new)
<1>1. Registers' = [Registers EXCEPT ![u] = y] /\ Registers[u] = x
  BY DEF Registers, TypeOK
<1>2. x = y \/ Moves(x, y, now)
  OBVIOUS
<1> HIDE DEF x, y
<1>3. CASE x = y
  <2>1. Registers' = Registers
    BY <1>1, <1>3 DEF Registers
  <2>2. QED
    BY <2>1 DEF Registers, Atomic!vars
<1>4. CASE x # y
  BY <1>1, <1>2, <1>4, MoveIsStep
<1>5. QED
  BY <1>3, <1>4

LEMMA StepActs ==
    ASSUME WatchInv, [Next]_vars
    PROVE  [Atomic!Next]_(Atomic!vars)
<1>1. TypeOK /\ now \in Nat /\ letter \in [Letter -> RowType]
  BY DEF WatchInv, TypeOK
<1>2. ASSUME NEW w \in User, call[w].pc = "checked", ExecEffect(w), now' = now
      PROVE  [Atomic!Next]_(Atomic!vars)
  <2> DEFINE u == call[w].uuid
             new == Update(call[w], KeepHistory[Conn[w]])
  <2>1. /\ call[w] \in CallType /\ u \in Letter /\ call[w].op \in Ops /\ new \in RowType
        /\ \/ letter' = letter
           \/ /\ call[w].seen = letter[u] /\ Passes(call[w], letter[u])
              /\ letter' = [letter EXCEPT ![u] = new]
    BY <1>2, ExecWrites
  <2>2. Attempt(call[w], now) /\ KeepHistory[Conn[w]] \in BOOLEAN
    BY ConnAssumption, KeepHistoryAssumption DEF WatchInv, CallFits
  <2>3. letter[u].isSent => ~letter[u].isSending
    BY <2>1 DEF WatchInv, LetterFits
  <2>4. CASE letter' = letter
    BY <1>2, <2>4, RegistersStay
  <2>5. CASE /\ call[w].seen = letter[u] /\ Passes(call[w], letter[u])
             /\ letter' = [letter EXCEPT ![u] = new]
    <3>1. \/ RegisterOf(new) = RegisterOf(letter[u])
          \/ Moves(RegisterOf(letter[u]), RegisterOf(new), now)
      BY <1>1, <1>2, <2>1, <2>2, <2>3, <2>5, WrittenMoves
    <3> HIDE DEF u, new
    <3>2. QED
      BY <1>1, <1>2, <2>1, <2>5, <3>1, WriteActs
  <2>6. QED
    BY <2>1, <2>4, <2>5
<1>3. ASSUME NEW w \in User,
             \/ w \in Worker /\ WorkerStep(w)
             \/ CallStep(w) \/ (\E u \in Letter : StartAppend(w, u))
      PROVE  [Atomic!Next]_(Atomic!vars)
  <2>1. \/ letter' = letter /\ now' = now
        \/ call[w].pc = "checked" /\ ExecEffect(w) /\ now' = now
    BY <1>3 DEF WorkerStep, CallStep, StartAppend, Look, Read, StartClaim,
                StartWrite, Watch, Get, Unwatch, Exec, CallThrows
  <2>2. QED
    BY <1>2, <2>1, RegistersStay
<1>4. ASSUME NEW u \in Letter, CancelDelete(u) \/ CancelSet(u)
      PROVE  [Atomic!Next]_(Atomic!vars)
  <2>1. LetterFits(u) /\ cancel[u] \in CancelType
    BY DEF WatchInv, TypeOK
  <2>2. letter[u].status # "none" /\ now' = now
    BY <1>4, <2>1 DEF LetterFits, CancelDelete, CancelSet
  <2>3. PICK new \in RowType :
           letter' = [letter EXCEPT ![u] = new] /\ new.status # "none" /\ ~Open(new)
    <3>1. CASE CancelDelete(u)
      <4>1. Removed(letter[u]) \in RowType /\ Removed(letter[u]).status = "removed"
        BY <1>1 DEF Removed, RowType, RowStatus
      <4>2. QED
        BY <3>1, <4>1 DEF CancelDelete, Open
    <3>2. CASE CancelSet(u)
      <4>1. cancel[u].seen.status = "stored" /\ cancel[u].seen \in RowType
        BY <2>1, <3>2 DEF CancelSet, LetterFits, CancelType
      <4> DEFINE r == Cancelled(cancel[u].seen)
      <4>2. r \in RowType /\ r.isCancelled /\ r.status = "stored"
        BY <4>1 DEF Cancelled, RowType
      <4>3. letter' = [letter EXCEPT ![u] = r]
        BY <3>2 DEF CancelSet
      <4> HIDE DEF r
      <4>4. QED
        BY <4>2, <4>3 DEF Open
    <3>3. QED
      BY <1>4, <3>1, <3>2
  <2>4. \/ RegisterOf(new) = RegisterOf(letter[u])
        \/ Moves(RegisterOf(letter[u]), RegisterOf(new), now)
    BY <1>1, <2>2, <2>3, EndCloses
  <2>5. QED
    BY <1>1, <2>2, <2>3, <2>4, WriteActs
<1>5. ASSUME NEW s \in Sender, NEW u \in Letter, Push(s, u)
      PROVE  [Atomic!Next]_(Atomic!vars)
  <2> DEFINE new == NewRow("stored", now)
  <2>1. new \in RowType /\ Open(new) /\ ~new.isSending /\ new.tries = 0
    BY <1>1, NewRowType DEF RowStatus
  <2>2. /\ letter[u].status = "none" /\ now' = now
        /\ letter' = letter \/ letter' = [letter EXCEPT ![u] = new]
    BY <1>5 DEF Push, ExecOn
  <2> HIDE DEF new
  <2>3. RegisterOf(letter[u]) = Atomic!Absent /\ RegisterOf(new) = Atomic!Free(0)
    BY <1>1, <2>1, <2>2, RegisterIs
  <2>4. Moves(RegisterOf(letter[u]), RegisterOf(new), now)
    BY <2>3 DEF Moves
  <2>5. QED
    BY <1>1, <2>2, <2>4, WriteActs, RegistersStay
<1>6. CASE Tick
  <2>1. now' = now + 1 /\ letter' = letter
    BY <1>6 DEF Tick
  <2>2. Atomic!Pass
    BY <2>1 DEF Atomic!Pass
  <2>3. QED
    BY <2>2 DEF Atomic!Next
<1>7. CASE \/ \E u \in Letter : \/ \E c \in Client : CancelUnschedule(u, c)
                                \/ CancelRead(u) \/ CancelFind(u) \/ CancelClear(u)
                                \/ CancelLost(u)
           \/ \E c \in Client : Crash(c)
           \/ UNCHANGED vars
  <2>1. letter' = letter /\ now' = now
    BY <1>7 DEF CancelUnschedule, CancelRead, CancelFind, CancelClear, CancelLost, Crash, vars
  <2>2. QED
    BY <2>1, RegistersStay
<1>8. QED
  BY <1>3, <1>4, <1>5, <1>6, <1>7 DEF Next, CancelStep, SenderStep, User

\* Every call, with all its commands, acts like one atomic operation on the letter: the
\* storage that the send lifecycle assumes.
THEOREM WatchActsAtomically ==
    ASSUME OneAtATime
    PROVE  Spec => ActsAtomically
<1>1. Init => Atomic!Init
  <2> SUFFICES ASSUME Init PROVE Atomic!Init
    OBVIOUS
  <2>1. RegisterOf(NoRow) = Atomic!Absent
    BY NoRowType, RegisterIs
  <2>2. now = 1 /\ letter = [u \in Letter |-> NoRow]
    BY DEF Init
  <2>3. QED
    BY <2>1, <2>2 DEF Atomic!Init
<1>2. WatchInv /\ [Next]_vars => [Atomic!Next]_(Atomic!vars)
  BY StepActs
<1>3. QED
  BY <1>1, <1>2, WatchInductive, PTL DEF Spec, ActsAtomically, Atomic!Spec
=============================================================================
