-------------------------- MODULE RedisTaggedProofs --------------------------
(***************************************************************************)
(* Proofs about RedisTagged: the keys of the queue agree, and its scripts   *)
(* amount to atomic operations on the letters, for every set of letters,    *)
(* addressees, instances and calls, any delays and limits of a scan, and    *)
(* any number of crashes and lost answers.                                  *)
(***************************************************************************)
EXTENDS RedisTagged, TLAPS

-----------------------------------------------------------------------------
(* Invariants.                                                             *)

\* KeysAgree, of any keys `d`.
ScheduleFits(d) ==
    \A u \in Letter :
        LET r == d.letters[u] IN
        /\ Open(r) /\ ~Exhausted(r) => d.schedule[u] = DueAt(r)
        /\ Open(r) /\ Exhausted(r)  => d.schedule[u] \in {0, DueAt(r)}
        /\ ~Open(r)                 => d.schedule[u] = 0

PointersFit(d) ==
    \A a \in Address :
        LET p == d.pointer[a] IN
        p.until # 0 => /\ To[p.uuid] = a /\ Open(d.letters[p.uuid])
                       /\ d.concatkeys[a] = p.until

\* A call that executes a script has an operation, and a push a time for its pointer.
CallsFit ==
    \A k \in Caller :
        LET j == call[k] IN
        /\ j.pc \in InScript => j.op \in Ops
        /\ j.pc = "pointed" => j.op = "append"
        /\ j.pc \in InScript /\ j.op = "push" => j.at >= PointerLead

KeysInv == TypeOK /\ ScheduleFits(db) /\ PointersFit(db) /\ CallsFit

\* A letter that is sent is not claimed, so that no lease on it is left.
SentIsFree == \A u \in Letter : db.letters[u].isSent => ~db.letters[u].isSending

\* What a worker writes is what the register may become ...
Attempt(j, at) ==
    /\ j.pc = "read" => j.tries < MaxTries
    /\ j.pc \in InScript /\ j.op = "claim" =>
         j.tries < MaxTries /\ 1 <= j.at /\ j.at <= at
    /\ j.pc \in InScript /\ j.op = "released" => j.tries < MaxTries
    /\ j.pc \in InScript /\ j.op = "renew" =>
         j.sendingAt < j.at /\ j.at <= IF at > j.sendingAt THEN at ELSE j.sendingAt + 1

AttemptsFit == \A k \in Caller : Attempt(call[k], now)

Pushing(k) == call[k].pc \in InScript /\ call[k].op = "push"

\* ... and a letter is pushed by one call, which is not executed twice.
PushesFit ==
    /\ \A k \in Caller : Pushing(k) =>
          /\ k \in Sender /\ call[k].pc = "script"
          /\ db.letters[call[k].uuid].status = "none"
    /\ \A k, l \in Caller :
          Pushing(k) /\ Pushing(l) /\ call[k].uuid = call[l].uuid => k = l

AtomicInv == KeysInv /\ now >= 1 /\ SentIsFree /\ AttemptsFit /\ PushesFit

-----------------------------------------------------------------------------
(* The scripts.                                                            *)

Fits(d) == d \in DbType /\ ScheduleFits(d) /\ PointersFit(d)

LEMMA NoPointerType == NoPointer \in [uuid : Letter, until : Nat]
BY LetterAssumption DEF NoPointer, SomeLetter

LEMMA NewRowType ==
    ASSUME NEW status \in RowStatus, NEW at \in Nat
    PROVE  /\ NewRow(status, at) \in RowType
           /\ NewRow(status, at).status = status
           /\ ~NewRow(status, at).isSending /\ ~NewRow(status, at).isSent
           /\ NewRow(status, at).tries = 0 /\ NewRow(status, at).sendAt = at
           /\ Open(NewRow(status, at)) <=> status = "stored"
BY DEF NewRow, RowType, Open

LEMMA DueAtType ==
    ASSUME NEW r \in RowType
    PROVE  DueAt(r) \in Nat
<1>1. r.sendingAt \in Nat /\ r.sendAt \in Nat /\ SendingTimeout \in Nat
  BY SendingTimeoutAssumption DEF RowType
<1>2. QED
  BY <1>1 DEF DueAt

\* HSET with its score: the letter is the new one, and the schedule fits.
LEMMA RowStored ==
    ASSUME NEW d \in DbType, ScheduleFits(d), NEW u \in Letter, NEW r \in RowType
    PROVE  LET e == WithRow(d, u, r)
           IN  /\ e \in DbType /\ ScheduleFits(e)
               /\ e.letters = [d.letters EXCEPT ![u] = r]
               /\ e.pointer = d.pointer /\ e.concatkeys = d.concatkeys
<1> DEFINE score == IF Open(r) THEN DueAt(r) ELSE 0
           e == WithRow(d, u, r)
<1>1. score \in Nat
  BY DueAtType
<1>2. score = IF Open(r) THEN DueAt(r) ELSE 0
  OBVIOUS
<1>3. e = [d EXCEPT !.letters[u] = r, !.schedule[u] = score]
  BY DEF WithRow
<1> HIDE DEF score, e
<1>4. /\ e.letters = [d.letters EXCEPT ![u] = r]
      /\ e.schedule = [d.schedule EXCEPT ![u] = score]
      /\ e.pointer = d.pointer /\ e.concatkeys = d.concatkeys /\ e.options = d.options
      /\ e = [letters |-> e.letters, options |-> e.options, schedule |-> e.schedule,
              pointer |-> e.pointer, concatkeys |-> e.concatkeys]
  BY <1>3 DEF DbType
<1>5. /\ d.letters \in [Letter -> RowType] /\ d.options \in [Letter -> Seq(Mail)]
      /\ d.schedule \in [Letter -> Nat]
      /\ d.pointer \in [Address -> [uuid : Letter, until : Nat]]
      /\ d.concatkeys \in [Address -> Nat]
  BY DEF DbType
<1>6. e \in DbType
  <2>1. e.letters \in [Letter -> RowType] /\ e.schedule \in [Letter -> Nat]
    BY <1>1, <1>4, <1>5
  <2>2. QED
    BY <1>4, <1>5, <2>1 DEF DbType
<1>7. ScheduleFits(e)
  <2>1. /\ e.letters[u] = r /\ e.schedule[u] = score
        /\ \A v \in Letter \ {u} : e.letters[v] = d.letters[v] /\ e.schedule[v] = d.schedule[v]
    BY <1>4, <1>5
  <2>2. QED
    BY <1>2, <2>1 DEF ScheduleFits
<1>8. QED
  BY <1>4, <1>6, <1>7 DEF e

\* The pointer of a letter that ends.
LEMMA PointerTaken ==
    ASSUME NEW d \in DbType, NEW u \in Letter
    PROVE  LET e == WithoutPointer(d, u)
           IN  /\ e \in DbType
               /\ e.letters = d.letters /\ e.schedule = d.schedule
               /\ \A a \in Address :
                    \/ /\ a = To[u] /\ d.pointer[a].uuid = u
                       /\ e.pointer[a].until = 0
                    \/ /\ e.pointer[a] = d.pointer[a]
                       /\ d.pointer[a].until # 0 => ~(a = To[u] /\ d.pointer[a].uuid = u)
                       /\ d.pointer[a].until # 0 => e.concatkeys[a] = d.concatkeys[a]
<1> DEFINE own == {a \in Address : a = To[u] /\ d.pointer[a].uuid = u}
           gone == {a \in Address : a = To[u] /\ d.pointer[a].until = 0}
           ptr == [a \in Address |-> IF a \in own THEN NoPointer ELSE d.pointer[a]]
           ckeys == [a \in Address |-> IF a \in own \cup gone THEN 0 ELSE d.concatkeys[a]]
           e == WithoutPointer(d, u)
<1>1. e = [d EXCEPT !.pointer = ptr, !.concatkeys = ckeys]
  BY DEF WithoutPointer
<1>2. /\ d.letters \in [Letter -> RowType] /\ d.options \in [Letter -> Seq(Mail)]
      /\ d.schedule \in [Letter -> Nat]
      /\ d.pointer \in [Address -> [uuid : Letter, until : Nat]]
      /\ d.concatkeys \in [Address -> Nat]
  BY DEF DbType
<1>3. ptr \in [Address -> [uuid : Letter, until : Nat]] /\ ckeys \in [Address -> Nat]
  BY <1>2, NoPointerType
<1>4. \A a \in Address :
        /\ ptr[a] = IF a \in own THEN NoPointer ELSE d.pointer[a]
        /\ a \notin own /\ a \notin gone => ckeys[a] = d.concatkeys[a]
  OBVIOUS
<1> HIDE DEF ptr, ckeys, e
<1>5. /\ e.letters = d.letters /\ e.options = d.options /\ e.schedule = d.schedule
      /\ e.pointer = ptr /\ e.concatkeys = ckeys
      /\ e = [letters |-> e.letters, options |-> e.options, schedule |-> e.schedule,
              pointer |-> e.pointer, concatkeys |-> e.concatkeys]
  BY <1>1 DEF DbType
<1>6. e \in DbType
  BY <1>2, <1>3, <1>5 DEF DbType
<1>7. NoPointer.until = 0
  BY DEF NoPointer
<1>8. QED
  BY <1>4, <1>5, <1>6, <1>7 DEF e

\* A letter is written, and with an end of it its pointer goes.
LEMMA RowWritten ==
    ASSUME NEW d, Fits(d), NEW u \in Letter, NEW r \in RowType,
           NEW e, e = IF Open(r) THEN WithRow(d, u, r)
                                 ELSE WithoutPointer(WithRow(d, u, r), u)
    PROVE  /\ Fits(e)
           /\ e.letters = [d.letters EXCEPT ![u] = r]
           /\ \A a \in Address : \/ e.pointer[a] = d.pointer[a]
                                 \/ d.pointer[a].uuid = u /\ ~Open(r)
<1> DEFINE mid == WithRow(d, u, r)
<1>1. /\ mid \in DbType /\ ScheduleFits(mid)
      /\ mid.letters = [d.letters EXCEPT ![u] = r]
      /\ mid.pointer = d.pointer /\ mid.concatkeys = d.concatkeys
  BY RowStored DEF Fits
<1>2. /\ mid.letters[u] = r
      /\ \A v \in Letter \ {u} : mid.letters[v] = d.letters[v]
      /\ d.pointer \in [Address -> [uuid : Letter, until : Nat]]
  BY <1>1 DEF Fits, DbType
<1>3. CASE Open(r)
  <2>1. e = mid
    BY <1>3
  <2> HIDE DEF mid
  <2>2. PointersFit(mid)
    BY <1>1, <1>2, <1>3 DEF Fits, PointersFit
  <2>3. QED
    BY <1>1, <2>1, <2>2 DEF Fits
<1>4. CASE ~Open(r)
  <2>1. e = WithoutPointer(mid, u)
    BY <1>4
  <2> HIDE DEF mid
  <2>2. /\ e \in DbType
        /\ e.letters = mid.letters /\ e.schedule = mid.schedule
        /\ \A a \in Address :
             \/ /\ a = To[u] /\ d.pointer[a].uuid = u
                /\ e.pointer[a].until = 0
             \/ /\ e.pointer[a] = d.pointer[a]
                /\ d.pointer[a].until # 0 => ~(a = To[u] /\ d.pointer[a].uuid = u)
                /\ d.pointer[a].until # 0 => e.concatkeys[a] = d.concatkeys[a]
    BY <1>1, <2>1, PointerTaken
  <2>3. ScheduleFits(e)
    BY <1>1, <2>2 DEF ScheduleFits
  <2>4. PointersFit(e)
    <3> SUFFICES ASSUME NEW a \in Address, e.pointer[a].until # 0
                 PROVE  /\ To[e.pointer[a].uuid] = a
                        /\ Open(e.letters[e.pointer[a].uuid])
                        /\ e.concatkeys[a] = e.pointer[a].until
      BY DEF PointersFit
    <3>1. /\ e.pointer[a] = d.pointer[a] /\ d.pointer[a].until # 0
          /\ ~(a = To[u] /\ d.pointer[a].uuid = u)
          /\ e.concatkeys[a] = d.concatkeys[a]
      BY <2>2
    <3>2. /\ To[d.pointer[a].uuid] = a /\ Open(d.letters[d.pointer[a].uuid])
          /\ d.concatkeys[a] = d.pointer[a].until
      BY <3>1 DEF Fits, PointersFit
    <3>3. d.pointer[a].uuid # u /\ d.pointer[a].uuid \in Letter
      BY <1>2, <3>1, <3>2
    <3>4. e.letters[d.pointer[a].uuid] = d.letters[d.pointer[a].uuid]
      <4>1. e.letters = mid.letters
        BY <2>2
      <4>2. QED
        BY <1>2, <3>3, <4>1
    <3>5. QED
      BY <3>1, <3>2, <3>4
  <2>5. QED
    BY <1>1, <1>4, <2>2, <2>3, <2>4 DEF Fits
<1>5. QED
  BY <1>3, <1>4

\* A script that finds no letter takes it off the schedule, where it is not.
LEMMA NothingThere ==
    ASSUME NEW d, Fits(d), NEW u \in Letter, d.letters[u].status # "stored",
           NEW e, e = [d EXCEPT !.schedule[u] = 0]
    PROVE  e = d
<1>1. d \in DbType /\ d.schedule \in [Letter -> Nat]
  BY DEF Fits, DbType
<1>2. d.schedule[u] = 0
  BY DEF Fits, ScheduleFits, Open
<1>3. [d.schedule EXCEPT ![u] = 0] = d.schedule
  BY <1>1, <1>2
<1>4. e = [d EXCEPT !.schedule = d.schedule]
  BY <1>1, <1>3 DEF DbType
<1>5. QED
  BY <1>1, <1>4 DEF DbType

LEMMA PushFits ==
    ASSUME NEW d, Fits(d), now \in Nat, NEW j \in CallType, j.at >= PointerLead,
           NEW e, e = PushScript(d, j)
    PROVE  /\ Fits(e)
           /\ e.letters = [d.letters EXCEPT ![j.uuid] = NewRow("stored", j.at)]
           /\ \A a \in Address : a # To[j.uuid] => e.pointer[a] = d.pointer[a]
<1> DEFINE u == j.uuid
           lead == j.at - PointerLead
           until == IF lead >= now THEN lead ELSE 0
           new == IF until = 0 THEN NoPointer ELSE [uuid |-> u, until |-> until]
           r == NewRow("stored", j.at)
           ptr == [a \in Address |-> IF a # To[u] THEN d.pointer[a] ELSE new]
           ckeys == [a \in Address |-> IF a = To[u] THEN lead ELSE d.concatkeys[a]]
<1>1. /\ d.letters \in [Letter -> RowType] /\ d.options \in [Letter -> Seq(Mail)]
      /\ d.schedule \in [Letter -> Nat]
      /\ d.pointer \in [Address -> [uuid : Letter, until : Nat]]
      /\ d.concatkeys \in [Address -> Nat] /\ d \in DbType
  BY DEF Fits, DbType
<1>2. u \in Letter /\ j.at \in Nat /\ lead \in Nat /\ until \in Nat
  BY DelayAssumption DEF CallType
<1>3. r \in RowType /\ Open(r) /\ DueAt(r) = j.at
  BY <1>2, NewRowType DEF RowStatus, DueAt
<1>4. new \in [uuid : Letter, until : Nat]
  BY <1>2, NoPointerType
<1>5. new.until # 0 => new.uuid = u /\ new.until = lead
  BY DEF NoPointer
<1>6. e = [d EXCEPT !.letters[u] = r, !.options[u] = <<>>, !.schedule[u] = j.at,
                    !.pointer = ptr, !.concatkeys = ckeys]
  BY DEF PushScript
<1> HIDE DEF u, lead, until, new, r
<1>7. /\ ptr \in [Address -> [uuid : Letter, until : Nat]] /\ ckeys \in [Address -> Nat]
      /\ \A a \in Address :
           /\ a # To[u] => ptr[a] = d.pointer[a] /\ ckeys[a] = d.concatkeys[a]
           /\ a = To[u] => ptr[a] = new /\ ckeys[a] = lead
  BY <1>1, <1>2, <1>4
<1> HIDE DEF ptr, ckeys
<1>8. /\ e.letters = [d.letters EXCEPT ![u] = r]
      /\ e.options = [d.options EXCEPT ![u] = <<>>]
      /\ e.schedule = [d.schedule EXCEPT ![u] = j.at]
      /\ e.pointer = ptr /\ e.concatkeys = ckeys
      /\ e = [letters |-> e.letters, options |-> e.options, schedule |-> e.schedule,
              pointer |-> e.pointer, concatkeys |-> e.concatkeys]
  BY <1>1, <1>6 DEF DbType
<1>9. e \in DbType
  <2>1. /\ e.letters \in [Letter -> RowType] /\ e.options \in [Letter -> Seq(Mail)]
        /\ e.schedule \in [Letter -> Nat]
    BY <1>1, <1>2, <1>3, <1>8
  <2>2. QED
    BY <1>7, <1>8, <2>1 DEF DbType
<1>10. /\ e.letters[u] = r /\ e.schedule[u] = j.at
       /\ \A v \in Letter \ {u} : e.letters[v] = d.letters[v] /\ e.schedule[v] = d.schedule[v]
  BY <1>1, <1>2, <1>8
<1>11. ScheduleFits(e)
  BY <1>3, <1>10 DEF Fits, ScheduleFits
<1>12. PointersFit(e)
  <2>1. SUFFICES ASSUME NEW a \in Address, e.pointer[a].until # 0
                 PROVE  /\ To[e.pointer[a].uuid] = a /\ Open(e.letters[e.pointer[a].uuid])
                        /\ e.concatkeys[a] = e.pointer[a].until
    BY DEF PointersFit
  <2>2. CASE a # To[u]
    <3>1. e.pointer[a] = d.pointer[a] /\ e.concatkeys[a] = d.concatkeys[a]
      BY <1>7, <1>8, <2>2
    <3>2. /\ To[d.pointer[a].uuid] = a /\ Open(d.letters[d.pointer[a].uuid])
          /\ d.concatkeys[a] = d.pointer[a].until
      BY <2>1, <3>1 DEF Fits, PointersFit
    <3>3. d.pointer[a].uuid \in Letter \ {u}
      BY <1>1, <2>2, <3>2
    <3>4. e.letters[d.pointer[a].uuid] = d.letters[d.pointer[a].uuid]
      BY <1>10, <3>3
    <3>5. QED
      BY <3>1, <3>2, <3>4
  <2>3. CASE a = To[u]
    <3>1. e.pointer[a] = new /\ e.concatkeys[a] = lead
      BY <1>7, <1>8, <2>3
    <3>2. new.uuid = u /\ new.until = lead
      BY <1>5, <2>1, <3>1
    <3>3. Open(e.letters[u])
      BY <1>3, <1>10
    <3>4. QED
      BY <2>3, <3>1, <3>2, <3>3
  <2>4. QED
    BY <2>2, <2>3
<1>13. QED
  BY <1>7, <1>8, <1>9, <1>11, <1>12 DEF Fits, u, r

LEMMA AppendFits ==
    ASSUME NEW d, Fits(d), NEW j \in CallType, NEW e, e = AppendScript(d, j)
    PROVE  Fits(e) /\ e.letters = d.letters /\ e.pointer = d.pointer
<1> DEFINE longer == [d.options EXCEPT ![j.uuid] = Append(@, j.mail)]
<1>1. /\ d.letters \in [Letter -> RowType] /\ d.options \in [Letter -> Seq(Mail)]
      /\ d.schedule \in [Letter -> Nat]
      /\ d.pointer \in [Address -> [uuid : Letter, until : Nat]]
      /\ d.concatkeys \in [Address -> Nat] /\ d \in DbType
  BY DEF Fits, DbType
<1>2. longer \in [Letter -> Seq(Mail)]
  <2>1. j.uuid \in Letter /\ j.mail \in Mail
    BY DEF CallType
  <2>2. Append(d.options[j.uuid], j.mail) \in Seq(Mail)
    BY <1>1, <2>1
  <2>3. QED
    BY <1>1, <2>2
<1>3. e = d \/ e = [d EXCEPT !.options[j.uuid] = Append(@, j.mail)]
  BY DEF AppendScript
<1>4. CASE e = d
  BY <1>4
<1>5. CASE e = [d EXCEPT !.options[j.uuid] = Append(@, j.mail)]
  <2> HIDE DEF longer
  <2>1. /\ e.letters = d.letters /\ e.options = longer /\ e.schedule = d.schedule
        /\ e.pointer = d.pointer /\ e.concatkeys = d.concatkeys
        /\ e = [letters |-> e.letters, options |-> e.options, schedule |-> e.schedule,
                pointer |-> e.pointer, concatkeys |-> e.concatkeys]
    BY <1>1, <1>5 DEF DbType, longer
  <2>2. e \in DbType
    BY <1>1, <1>2, <2>1 DEF DbType
  <2>3. ScheduleFits(e) /\ PointersFit(e)
    BY <2>1 DEF Fits, ScheduleFits, PointersFit
  <2>4. QED
    BY <2>1, <2>2, <2>3 DEF Fits
<1>6. QED
  BY <1>3, <1>4, <1>5

\* What the updates make of a row.
LEMMA UpdateType ==
    ASSUME NEW j \in CallType, j.op \in Ops \ {"push", "append"}, NEW r \in RowType
    PROVE  Update(j, r) \in RowType
<1>1. j.at \in Nat /\ j.tries + 1 \in Nat
  BY DEF CallType
<1>2. Claimed(r, j.tries + 1, j.at) \in RowType
  BY <1>1 DEF Claimed, RowType
<1>3. Renewed(r, j.at) \in RowType /\ Retried(r, j.at) \in RowType
  BY <1>1 DEF Renewed, Retried, RowType
<1>4. /\ Sent(r, r.accepted) \in RowType /\ Failed(r, r.accepted) \in RowType
      /\ Cancelled(r) \in RowType
  BY DEF Sent, Failed, Cancelled, RowType
<1>5. j.op \in {"claim", "renew", "released", "sent", "failed", "cancel"}
  BY DEF Ops, SendOps
<1>6. QED
  BY <1>2, <1>3, <1>4, <1>5 DEF Update

\* A script that has an effect on the letter of its call:  a push, or an update whose
\* guard holds.
Written(j, r, new) ==
    \/ j.op = "push" /\ new = NewRow("stored", j.at)
    \/ /\ j.op \in Ops \ {"push", "append"}
       /\ r.status = "stored" /\ Passes(j, r)
       /\ \/ new = Update(j, r)
          \/ Ends(j.op) /\ new = NewRow("removed", 0)

\* From the keys `d` to the keys `e` only that letter changes, and no pointer but that of
\* a letter pushed or ended.
Writes(d, j, e) ==
    \E new \in RowType :
        /\ Written(j, d.letters[j.uuid], new)
        /\ e.letters = [d.letters EXCEPT ![j.uuid] = new]
        /\ \A a \in Address : \/ e.pointer[a] = d.pointer[a]
                              \/ j.op = "push" /\ a = To[j.uuid]
                              \/ d.pointer[a].uuid = j.uuid /\ ~Open(new)

LEMMA UpdateFits ==
    ASSUME NEW d, Fits(d), NEW j \in CallType, j.op \in Ops \ {"push", "append"},
           NEW e, e = UpdateScript(d, j) \/ (Ends(j.op) /\ e = RemoveScript(d, j))
    PROVE  Fits(e) /\ (e = d \/ Writes(d, j, e))
<1> DEFINE u == j.uuid
           r == d.letters[u]
<1>1. u \in Letter /\ r \in RowType
  BY DEF CallType, Fits, DbType
<1>2. CASE r.status # "stored"
  <2>1. e = [d EXCEPT !.schedule[u] = 0]
    BY <1>2 DEF UpdateScript, RemoveScript
  <2>2. e = d
    BY <1>1, <1>2, <2>1, NothingThere
  <2>3. QED
    BY <2>2
<1>3. CASE r.status = "stored" /\ ~Passes(j, r)
  BY <1>3 DEF UpdateScript, RemoveScript
<1>4. CASE r.status = "stored" /\ Passes(j, r) /\ e = UpdateScript(d, j)
  <2> DEFINE new == Update(j, r)
  <2>1. new \in RowType
    BY <1>1, UpdateType
  <2>2. e = IF Open(new) THEN WithRow(d, u, new) ELSE WithoutPointer(WithRow(d, u, new), u)
    BY <1>4 DEF UpdateScript
  <2>3. Written(j, r, new)
    BY <1>4 DEF Written
  <2> HIDE DEF new, u
  <2>4. /\ Fits(e) /\ e.letters = [d.letters EXCEPT ![u] = new]
        /\ \A a \in Address : \/ e.pointer[a] = d.pointer[a]
                              \/ d.pointer[a].uuid = u /\ ~Open(new)
    BY <1>1, <2>1, <2>2, RowWritten
  <2>5. QED
    BY <2>1, <2>3, <2>4 DEF u, Writes
<1>5. CASE r.status = "stored" /\ Passes(j, r) /\ Ends(j.op) /\ e = RemoveScript(d, j)
  <2> DEFINE new == NewRow("removed", 0)
  <2>1. new \in RowType /\ ~Open(new)
    BY NewRowType DEF RowStatus
  <2>2. e = IF Open(new) THEN WithRow(d, u, new) ELSE WithoutPointer(WithRow(d, u, new), u)
    BY <1>5, <2>1 DEF RemoveScript
  <2>3. Written(j, r, new)
    BY <1>5 DEF Written
  <2> HIDE DEF new, u
  <2>4. /\ Fits(e) /\ e.letters = [d.letters EXCEPT ![u] = new]
        /\ \A a \in Address : \/ e.pointer[a] = d.pointer[a]
                              \/ d.pointer[a].uuid = u /\ ~Open(new)
    BY <1>1, <2>1, <2>2, RowWritten
  <2>5. QED
    BY <2>1, <2>3, <2>4 DEF u, Writes
<1>6. QED
  BY <1>2, <1>3, <1>4, <1>5

\* A call that is under way, as the invariant knows it.
LEMMA CallRead ==
    ASSUME KeysInv, NEW k \in Caller, call[k].pc # "idle"
    PROVE  /\ call[k] \in CallType
           /\ call[k].pc \in InScript => call[k].op \in Ops
           /\ call[k].pc \in InScript /\ call[k].op = "push" => call[k].at >= PointerLead
BY DEF KeysInv, TypeOK, CallsFit, IdleCall

\* Every script leaves keys that fit, and writes one letter or none.
LEMMA ScriptEffect ==
    ASSUME KeysInv, NEW k \in Caller, call[k].pc \in InScript, NEW e, e = Effect(k)
    PROVE  /\ Fits(e)
           /\ \/ e.letters = db.letters /\ e.pointer = db.pointer
              \/ Writes(db, call[k], e)
<1>1. /\ call[k] \in CallType /\ call[k].op \in Ops
      /\ call[k].op = "push" => call[k].at >= PointerLead
  BY CallRead DEF InScript
<1>2. Fits(db) /\ now \in Nat
  BY DEF Fits, KeysInv, TypeOK
<1>3. CASE call[k].op = "push"
  <2>1. e = PushScript(db, call[k])
    BY <1>3 DEF Effect, Ends
  <2>2. /\ Fits(e)
        /\ e.letters = [db.letters EXCEPT ![call[k].uuid] = NewRow("stored", call[k].at)]
        /\ \A a \in Address : a # To[call[k].uuid] => e.pointer[a] = db.pointer[a]
    BY <1>1, <1>2, <1>3, <2>1, PushFits
  <2>3. NewRow("stored", call[k].at) \in RowType
    BY <1>1, NewRowType DEF CallType, RowStatus
  <2>4. QED
    BY <1>3, <2>2, <2>3 DEF Written, Writes
<1>4. CASE call[k].op = "append"
  <2>1. e = AppendScript(db, call[k])
    BY <1>4 DEF Effect, Ends
  <2>2. QED
    BY <1>1, <1>2, <2>1, AppendFits
<1>5. CASE call[k].op \notin {"push", "append"}
  <2>1. e = UpdateScript(db, call[k]) \/ (Ends(call[k].op) /\ e = RemoveScript(db, call[k]))
    BY <1>5 DEF Effect, Ends
  <2>2. call[k].op \in Ops \ {"push", "append"}
    BY <1>1, <1>5
  <2>3. Fits(e) /\ (e = db \/ Writes(db, call[k], e))
    BY <1>1, <1>2, <2>1, <2>2, UpdateFits
  <2>4. QED
    BY <2>3
<1>6. QED
  BY <1>3, <1>4, <1>5

\* A scan moves scores and drops pointers that have expired.
LEMMA ScanEffect ==
    ASSUME NEW d, Fits(d), NEW at \in Nat, NEW e, e = IterateScript(d, at)
    PROVE  /\ Fits(e) /\ e.letters = d.letters
           /\ \A a \in Address :
                e.pointer[a] = d.pointer[a] \/ d.pointer[a].until <= at
<1> DEFINE expired == {a \in Address : d.concatkeys[a] # 0 /\ d.concatkeys[a] <= at}
           passed == Scanned(d, at) \ ScanAnswer(d, at)
           ptr == [a \in Address |-> IF a \in expired THEN NoPointer ELSE d.pointer[a]]
           ckeys == [a \in Address |-> IF a \in expired THEN 0 ELSE d.concatkeys[a]]
           sched == [u \in Letter |-> IF u \in passed THEN Rescored(d, at, u)
                                                      ELSE d.schedule[u]]
<1>1. /\ d.letters \in [Letter -> RowType] /\ d.options \in [Letter -> Seq(Mail)]
      /\ d.schedule \in [Letter -> Nat]
      /\ d.pointer \in [Address -> [uuid : Letter, until : Nat]]
      /\ d.concatkeys \in [Address -> Nat] /\ d \in DbType
  BY DEF Fits, DbType
<1>2. e = [d EXCEPT !.pointer = ptr, !.concatkeys = ckeys, !.schedule = sched]
  BY DEF IterateScript
<1>3. /\ ptr \in [Address -> [uuid : Letter, until : Nat]] /\ ckeys \in [Address -> Nat]
      /\ \A a \in Address :
           \/ ptr[a] = NoPointer /\ d.concatkeys[a] <= at
           \/ ptr[a] = d.pointer[a] /\ ckeys[a] = d.concatkeys[a]
  BY <1>1, NoPointerType
<1>4. \A u \in Letter :
        /\ Rescored(d, at, u) \in Nat
        /\ Rescored(d, at, u) = IF Open(d.letters[u]) /\ ~Exhausted(d.letters[u])
                                THEN DueAt(d.letters[u]) ELSE 0
  BY <1>1, DueAtType DEF Rescored
<1>5. /\ sched \in [Letter -> Nat]
      /\ \A u \in Letter : sched[u] = Rescored(d, at, u) \/ sched[u] = d.schedule[u]
  BY <1>1, <1>4
<1> HIDE DEF ptr, ckeys, sched
<1>6. /\ e.letters = d.letters /\ e.options = d.options /\ e.schedule = sched
      /\ e.pointer = ptr /\ e.concatkeys = ckeys
      /\ e = [letters |-> e.letters, options |-> e.options, schedule |-> e.schedule,
              pointer |-> e.pointer, concatkeys |-> e.concatkeys]
  BY <1>1, <1>2 DEF DbType
<1>7. e \in DbType
  BY <1>1, <1>3, <1>5, <1>6 DEF DbType
<1>8. ScheduleFits(e)
  BY <1>4, <1>5, <1>6 DEF Fits, ScheduleFits
<1>9. NoPointer.until = 0
  BY DEF NoPointer
<1>10. PointersFit(e)
  BY <1>3, <1>6, <1>9 DEF Fits, PointersFit
<1>11. \A a \in Address : e.pointer[a] = d.pointer[a] \/ d.pointer[a].until <= at
  <2> SUFFICES ASSUME NEW a \in Address, d.concatkeys[a] <= at
               PROVE  d.pointer[a].until <= at
    BY <1>3, <1>6
  <2>1. d.pointer[a].until \in Nat
    BY <1>1
  <2>2. d.pointer[a].until # 0 => d.concatkeys[a] = d.pointer[a].until
    BY DEF Fits, PointersFit
  <2>3. QED
    BY <2>1, <2>2
<1>12. QED
  BY <1>6, <1>7, <1>8, <1>10, <1>11 DEF Fits

-----------------------------------------------------------------------------
(* The keys agree.                                                         *)

CallFits(j) ==
    /\ j.pc \in InScript => j.op \in Ops
    /\ j.pc = "pointed" => j.op = "append"
    /\ j.pc \in InScript /\ j.op = "push" => j.at >= PointerLead

\* What comes of a call when its script has answered.
LEMMA AfterIs ==
    ASSUME NEW j \in CallType, NEW done \in BOOLEAN, NEW after, after = After(j, done)
    PROVE  \/ after = IdleCall
           \/ /\ after \in CallType /\ after.pc = "working"
              /\ j.op \in {"claim", "renew"}
<1> DEFINE idle == [j EXCEPT !.pc = "working", !.op = "none", !.at = 0]
<1>1. idle \in CallType /\ idle.pc = "working"
  BY DEF CallType
<1>2. /\ j.at \in Nat /\ idle.tries + 1 \in Nat
  BY DEF CallType
<1>3. /\ [idle EXCEPT !.tries = @ + 1, !.sendingAt = j.at, !.mayRenew = TRUE] \in CallType
      /\ [idle EXCEPT !.tries = @ + 1, !.sendingAt = j.at, !.mayRenew = TRUE].pc = "working"
  <2> HIDE DEF idle
  <2>1. QED
    BY <1>1, <1>2 DEF CallType
<1>4. /\ [idle EXCEPT !.sendingAt = j.at] \in CallType
      /\ [idle EXCEPT !.sendingAt = j.at].pc = "working"
      /\ [idle EXCEPT !.mayRenew = FALSE] \in CallType
      /\ [idle EXCEPT !.mayRenew = FALSE].pc = "working"
  <2> HIDE DEF idle
  <2>1. QED
    BY <1>1, <1>2 DEF CallType
<1>5. \/ after = IdleCall
      \/ /\ j.op = "claim"
         /\ after = [idle EXCEPT !.tries = @ + 1, !.sendingAt = j.at, !.mayRenew = TRUE]
      \/ j.op = "renew" /\ after = [idle EXCEPT !.sendingAt = j.at]
      \/ j.op = "renew" /\ after = [idle EXCEPT !.mayRenew = FALSE]
  BY DEF After
<1> HIDE DEF idle
<1>6. QED
  BY <1>3, <1>4, <1>5

\* A step of one call that leaves keys that fit.
LEMMA CallStep ==
    ASSUME KeysInv, NEW k \in Caller, NEW j \in CallType \cup {IdleCall}, CallFits(j),
           call' = [call EXCEPT ![k] = j], Fits(db'), now' \in Nat, faults' \in Nat
    PROVE  KeysInv'
<1>1. call \in [Caller -> CallType \cup {IdleCall}] /\ CallsFit
  BY DEF KeysInv, TypeOK
<1>2. call' \in [Caller -> CallType \cup {IdleCall}]
  BY <1>1
<1>3. call'[k] = j /\ \A l \in Caller \ {k} : call'[l] = call[l]
  BY <1>1
<1>4. CallsFit'
  BY <1>1, <1>3 DEF CallsFit, CallFits
<1>5. QED
  BY <1>2, <1>4 DEF KeysInv, TypeOK, Fits

LEMMA IdleFits == IdleCall \in CallType \cup {IdleCall} /\ CallFits(IdleCall)
BY DEF IdleCall, CallFits, InScript

LEMMA FaultType ==
    ASSUME KeysInv, Fault
    PROVE  faults' \in Nat /\ now' = now
BY DEF Fault, KeysInv, TypeOK

\* A script is executed, and its answer arrives or not.
LEMMA ScriptKeys ==
    ASSUME KeysInv, NEW k \in Caller, ScriptStep(k)
    PROVE  KeysInv'
<1>1. call[k].pc \in InScript
  BY DEF ScriptStep, RunScript, AnswerLost, AnswerSwallowed, InScript
<1>2. call[k] \in CallType /\ CallFits(call[k])
  BY <1>1, CallRead DEF InScript, KeysInv, CallsFit, CallFits
<1>3. now \in Nat /\ faults \in Nat /\ Fits(db)
  BY DEF KeysInv, TypeOK, Fits
<1>4. /\ Fits(db') /\ now' \in Nat /\ faults' \in Nat
  BY <1>1, <1>3, ScriptEffect, FaultType
     DEF ScriptStep, RunScript, AnswerLost, AnswerSwallowed
<1>5. CASE RunScript(k) \/ AnswerLost(k)
  <2>1. PICK done \in BOOLEAN : call' = [call EXCEPT ![k] = After(call[k], done)]
    BY <1>5 DEF RunScript, AnswerLost, Answer
  <2> DEFINE after == After(call[k], done)
  <2>2. after \in CallType \cup {IdleCall} /\ CallFits(after)
    BY <1>2, AfterIs, IdleFits DEF CallFits, InScript
  <2> HIDE DEF after
  <2>3. QED
    BY <1>4, <2>1, <2>2, CallStep DEF after
<1>6. CASE AnswerSwallowed(k)
  <2> DEFINE again == [call[k] EXCEPT !.pc = "again"]
  <2>1. call' = [call EXCEPT ![k] = again]
    BY <1>6 DEF AnswerSwallowed
  <2>2. again \in CallType /\ again.op = call[k].op /\ again.at = call[k].at
    BY <1>2 DEF CallType, InScript
  <2>3. CallFits(again)
    BY <1>1, <1>2, <2>2 DEF CallFits, InScript, CallType
  <2> HIDE DEF again
  <2>4. QED
    BY <1>4, <2>1, <2>2, <2>3, CallStep
<1>7. QED
  BY <1>5, <1>6 DEF ScriptStep

\* A call begins.
LEMMA BeginKeys ==
    ASSUME KeysInv, NEW k \in Caller, NEW j \in CallType, j.op \in Ops,
           j.op = "push" => j.at >= PointerLead, Begin(k, j)
    PROVE  KeysInv'
<1> DEFINE begun == [j EXCEPT !.pc = "script"]
<1>1. begun \in CallType /\ begun.op = j.op /\ begun.at = j.at /\ begun.pc = "script"
  BY DEF CallType, InScript
<1>2. CallFits(begun)
  BY <1>1 DEF CallFits
<1>3. /\ call' = [call EXCEPT ![k] = begun]
      /\ now' \in Nat /\ faults' \in Nat /\ Fits(db')
  BY DEF Begin, KeysInv, TypeOK, Fits, ScheduleFits, PointersFit
<1> HIDE DEF begun
<1>4. QED
  BY <1>1, <1>2, <1>3, CallStep

LEMMA NewCallType ==
    ASSUME NEW op \in Ops \cup {"none"}, NEW u \in Letter, NEW at \in Nat,
           NEW pc \in InScript \cup {"read", "working", "pointed"}
    PROVE  /\ [NewCall(op, u, at) EXCEPT !.pc = pc] \in CallType
           /\ \A n \in Nat :
                [NewCall(op, u, at) EXCEPT !.pc = pc, !.tries = n] \in CallType
           /\ \A m \in Mail :
                [NewCall(op, u, at) EXCEPT !.pc = pc, !.mail = m] \in CallType
<1>1. (CHOOSE m \in Mail : TRUE) \in Mail
  BY LetterAssumption
<1>2. QED
  BY <1>1 DEF NewCall, CallType

\* A worker scans, passes over a letter or begins a call.
LEMMA WorkerKeys ==
    ASSUME KeysInv, NEW w \in Worker, WorkerStep(w)
    PROVE  KeysInv'
<1>1. w \in Caller /\ now \in Nat /\ faults \in Nat /\ Fits(db)
  BY DEF Caller, KeysInv, TypeOK, Fits
<1>2. ASSUME Scan(w) \/ ScanLost(w), UNCHANGED call
      PROVE  KeysInv'
  <2>1. Fits(db') /\ now' \in Nat /\ faults' \in Nat
    BY <1>1, <1>2, ScanEffect, FaultType DEF Scan, ScanLost
  <2>2. QED
    BY <1>2, <2>1 DEF KeysInv, TypeOK, Fits, CallsFit
<1>3. ASSUME Scan(w), NEW u \in ScanAnswer(db, now),
             call' = [call EXCEPT ![w] =
                [NewCall("none", u, 0) EXCEPT !.pc = "read", !.tries = db.letters[u].tries]]
      PROVE  KeysInv'
  <2> DEFINE read == [NewCall("none", u, 0) EXCEPT !.pc = "read", !.tries = db.letters[u].tries]
  <2>1. u \in Letter
    BY DEF ScanAnswer, Scanned, Due
  <2>2. db.letters[u].tries \in Nat
    BY <1>1, <2>1 DEF Fits, DbType, RowType
  <2>3. read \in CallType
    BY <2>1, <2>2, NewCallType
  <2>4. CallFits(read)
    BY DEF CallFits, NewCall, InScript
  <2>5. Fits(db') /\ now' \in Nat /\ faults' \in Nat
    BY <1>1, <1>3, ScanEffect DEF Scan
  <2> HIDE DEF read
  <2>6. QED
    BY <1>1, <1>3, <2>3, <2>4, <2>5, CallStep DEF read
<1>4. CASE Dispatch(w)
  <2>1. call[w] \in CallType
    BY <1>1, <1>4, CallRead DEF Dispatch
  <2>2. CASE InHand(w)
    BY <1>1, <1>4, <2>2, IdleFits, CallStep DEF Dispatch, Fits, ScheduleFits, PointersFit
  <2>3. CASE ~InHand(w)
    <3> DEFINE j == [call[w] EXCEPT !.op = "claim", !.at = now]
    <3>1. j \in CallType /\ j.op = "claim"
      BY <1>1, <2>1 DEF CallType, Ops, SendOps
    <3>2. Begin(w, j)
      BY <1>4, <2>3 DEF Dispatch
    <3> HIDE DEF j
    <3>3. QED
      BY <1>1, <3>1, <3>2, BeginKeys DEF Ops, SendOps
  <2>4. QED
    BY <2>2, <2>3
<1>5. ASSUME NEW op \in SendOps, StartWrite(w, op)
      PROVE  KeysInv'
  <2>1. call[w] \in CallType
    BY <1>1, <1>5, CallRead DEF StartWrite
  <2>2. PICK at \in Nat : Begin(w, [call[w] EXCEPT !.op = op, !.at = at])
    <3>1. RenewalStamp(call[w]) \in Nat /\ now + RetryDelay \in Nat /\ 0 \in Nat
      BY <1>1, <2>1, DelayAssumption DEF RenewalStamp, CallType
    <3>2. QED
      BY <1>5, <3>1 DEF StartWrite
  <2> DEFINE j == [call[w] EXCEPT !.op = op, !.at = at]
  <2>3. j \in CallType /\ j.op = op
    BY <2>1 DEF CallType, Ops
  <2> HIDE DEF j
  <2>4. QED
    BY <1>1, <2>2, <2>3, BeginKeys DEF j, Ops, SendOps
<1>6. QED
  BY <1>2, <1>3, <1>4, <1>5 DEF WorkerStep, Scan, ScanLost

\* A sender begins a call, or looks for a letter to fold into.
LEMMA SenderKeys ==
    ASSUME KeysInv, NEW s \in Sender, SenderStep(s)
    PROVE  KeysInv'
<1>1. s \in Caller /\ now \in Nat /\ faults \in Nat /\ Fits(db)
  BY DEF Caller, KeysInv, TypeOK, Fits
<1>2. now + SendDelay \in Nat /\ now + SendDelay >= PointerLead
  BY <1>1, DelayAssumption
<1>3. ASSUME NEW u \in Letter, NEW op \in {"push", "cancel"}, NEW at \in Nat,
             op = "push" => at >= PointerLead, Begin(s, NewCall(op, u, at))
      PROVE  KeysInv'
  <2> DEFINE begun == [NewCall(op, u, at) EXCEPT !.pc = "script"]
  <2>1. begun \in CallType
    BY NewCallType DEF Ops, InScript
  <2>2. CallFits(begun)
    BY <1>3 DEF CallFits, NewCall, Ops
  <2>3. /\ call' = [call EXCEPT ![s] = begun]
        /\ now' \in Nat /\ faults' \in Nat /\ Fits(db')
    BY <1>1, <1>3 DEF Begin, Fits, ScheduleFits, PointersFit
  <2> HIDE DEF begun
  <2>4. QED
    BY <1>1, <2>1, <2>2, <2>3, CallStep
<1>4. ASSUME NEW u \in Letter, StartPush(s, u) \/ StartCancel(s, u)
      PROVE  KeysInv'
  BY <1>2, <1>3, <1>4 DEF StartPush, StartCancel
<1>5. ASSUME NEW a \in Address, NEW m \in Mail, LookUp(s, a, m)
      PROVE  KeysInv'
  <2> DEFINE j == [NewCall("append", db.pointer[a].uuid, now + SendDelay)
                     EXCEPT !.pc = "pointed", !.mail = m]
  <2>1. db.pointer[a].uuid \in Letter
    BY <1>1 DEF Fits, DbType
  <2>2. j \in CallType
    BY <1>2, <2>1, NewCallType DEF Ops
  <2>3. CallFits(j)
    BY DEF CallFits, NewCall, InScript
  <2>4. /\ call' = [call EXCEPT ![s] = j]
        /\ now' \in Nat /\ faults' \in Nat /\ Fits(db')
    BY <1>1, <1>5 DEF LookUp, Fits, ScheduleFits, PointersFit
  <2> HIDE DEF j
  <2>5. QED
    BY <1>1, <2>2, <2>3, <2>4, CallStep
<1>6. CASE ReadPending(s)
  <2>1. call[s] \in CallType /\ call[s].op = "append"
    BY <1>1, <1>6, CallRead DEF ReadPending, KeysInv, CallsFit
  <2>2. CASE call' = [call EXCEPT ![s] = IdleCall] /\ UNCHANGED <<now, db, faults>>
    BY <1>1, <2>2, IdleFits, CallStep DEF Fits, ScheduleFits, PointersFit
  <2>3. CASE Begin(s, call[s])
    BY <1>1, <2>1, <2>3, BeginKeys DEF Ops
  <2>4. QED
    BY <1>6, <2>2, <2>3 DEF ReadPending
<1>7. QED
  BY <1>4, <1>5, <1>6 DEF SenderStep

LEMMA CrashKeys ==
    ASSUME KeysInv, NEW c \in Client, Crash(c)
    PROVE  KeysInv'
<1>1. /\ call' = [k \in Caller |-> IF Conn[k] = c THEN IdleCall ELSE call[k]]
      /\ now' = now /\ db' = db /\ faults' \in Nat
  BY DEF Crash, KeysInv, TypeOK
<1>2. CallsFit'
  BY <1>1 DEF KeysInv, CallsFit, IdleCall, InScript
<1>3. call' \in [Caller -> CallType \cup {IdleCall}]
  BY <1>1 DEF KeysInv, TypeOK
<1>4. QED
  BY <1>1, <1>2, <1>3 DEF KeysInv, TypeOK, ScheduleFits, PointersFit

\* Time passes, and pointers go.
LEMMA TickKeys ==
    ASSUME KeysInv, Tick
    PROVE  KeysInv'
<1> DEFINE ptr == [a \in Address |-> IF db.pointer[a].until < now + 1 THEN NoPointer
                                                                      ELSE db.pointer[a]]
<1>1. /\ now' = now + 1 /\ now' \in Nat /\ call' = call /\ faults' = faults
      /\ db' = [db EXCEPT !.pointer = ptr]
  BY DEF Tick, KeysInv, TypeOK
<1>2. /\ db.letters \in [Letter -> RowType] /\ db.options \in [Letter -> Seq(Mail)]
      /\ db.schedule \in [Letter -> Nat]
      /\ db.pointer \in [Address -> [uuid : Letter, until : Nat]]
      /\ db.concatkeys \in [Address -> Nat] /\ db \in DbType
  BY DEF KeysInv, TypeOK, DbType
<1>3. /\ ptr \in [Address -> [uuid : Letter, until : Nat]]
      /\ \A a \in Address : ptr[a] = NoPointer \/ ptr[a] = db.pointer[a]
  BY <1>2, NoPointerType
<1> HIDE DEF ptr
<1>4. /\ db'.letters = db.letters /\ db'.options = db.options /\ db'.schedule = db.schedule
      /\ db'.pointer = ptr /\ db'.concatkeys = db.concatkeys
      /\ db' = [letters |-> db'.letters, options |-> db'.options, schedule |-> db'.schedule,
                pointer |-> db'.pointer, concatkeys |-> db'.concatkeys]
  BY <1>1, <1>2 DEF DbType
<1>5. db' \in DbType
  BY <1>2, <1>3, <1>4 DEF DbType
<1>6. ScheduleFits(db)'
  BY <1>4 DEF KeysInv, ScheduleFits
<1>7. NoPointer.until = 0
  BY DEF NoPointer
<1>8. PointersFit(db)'
  BY <1>3, <1>4, <1>7 DEF KeysInv, PointersFit
<1>9. CallsFit'
  BY <1>1 DEF KeysInv, CallsFit
<1>10. QED
  BY <1>1, <1>5, <1>6, <1>8, <1>9 DEF KeysInv, TypeOK

LEMMA InitKeys == Init => KeysInv
<1> SUFFICES ASSUME Init PROVE KeysInv
  OBVIOUS
<1>1. NewRow("none", 0) \in RowType /\ ~Open(NewRow("none", 0))
  BY NewRowType DEF RowStatus
<1>2. TypeOK
  BY <1>1, NoPointerType, BoundsAssumption DEF Init, TypeOK, DbType
<1>3. ScheduleFits(db) /\ PointersFit(db)
  <2>1. NoPointer.until = 0
    BY DEF NoPointer
  <2>2. QED
    BY <1>1, <2>1 DEF Init, ScheduleFits, PointersFit
<1>4. CallsFit
  BY DEF Init, CallsFit, IdleCall, InScript
<1>5. QED
  BY <1>2, <1>3, <1>4 DEF KeysInv

LEMMA KeysStep == KeysInv /\ [Next]_vars => KeysInv'
<1> SUFFICES ASSUME KeysInv, [Next]_vars PROVE KeysInv'
  OBVIOUS
<1>1. CASE Next
  BY <1>1, ScriptKeys, WorkerKeys, SenderKeys, CrashKeys, TickKeys DEF Next
<1>2. CASE UNCHANGED vars
  BY <1>2 DEF vars, KeysInv, TypeOK, ScheduleFits, PointersFit, CallsFit
<1>3. QED
  BY <1>1, <1>2

LEMMA KeysInductive == Spec => []KeysInv
BY InitKeys, KeysStep, PTL DEF Spec

\* The keys and the calls have the declared types in every behaviour.
THEOREM TaggedTypes == Spec => []TypeOK
BY KeysInductive, PTL DEF KeysInv

\* All the keys of the queue tell the same of every letter, whatever calls, scans,
\* crashes, lost answers and repeated scripts lie between its push and its end.
THEOREM TaggedKeysAgree == Spec => []KeysAgree
<1>1. KeysInv => KeysAgree
  BY DEF KeysInv, KeysAgree, ScheduleFits, PointersFit, ScheduleKeepsUp, PointersKeepUp
<1>2. QED
  BY <1>1, KeysInductive, PTL

\* A scan that returns nothing leaves none of the rows it looked at due, so that they
\* cannot hide others behind its limits.
THEOREM TaggedScansMakeRoom == Spec => ScanMakesRoom
<1>1. ASSUME KeysInv, NEW w \in Worker, Scan(w), ScanAnswer(db, now) = {}
      PROVE  Due(db', now) \cap Scanned(db, now) = {}
  <2> SUFFICES ASSUME NEW u \in Scanned(db, now), u \in Due(db', now)
               PROVE  FALSE
    OBVIOUS
  <2>1. u \in Letter /\ now \in Nat /\ db \in DbType
    BY <1>1 DEF Scanned, Due, KeysInv, TypeOK
  <2>2. db'.schedule[u] = Rescored(db, now, u)
    BY <1>1, <2>1 DEF Scan, IterateScript, DbType
  <2>3. db.letters[u] \in RowType
    BY <2>1 DEF DbType
  <2>4. /\ Open(db.letters[u]) /\ ~Exhausted(db.letters[u])
        /\ DueAt(db.letters[u]) <= now
    BY <2>1, <2>2 DEF Due, Rescored
  <2>5. Returnable(db.letters[u], now)
    BY <2>4 DEF Returnable, DueAt
  <2>6. QED
    BY <1>1, <2>5 DEF ScanAnswer
<1>2. KeysInv /\ [Next]_vars =>
        [\A w \in Worker :
            Scan(w) => \/ ScanAnswer(db, now) # {}
                       \/ Due(db', now) \cap Scanned(db, now) = {}]_vars
  BY <1>1
<1>3. QED
  BY <1>2, KeysInductive, PTL DEF Spec, ScanMakesRoom

-----------------------------------------------------------------------------
(* The scripts are atomic operations on the letters, if no push is executed *)
(* twice.                                                                  *)

LEMMA WrittenRow ==
    ASSUME NEW j \in CallType, NEW r \in RowType, NEW new, Written(j, r, new)
    PROVE  /\ new.status # "none"
           /\ r.status = "none" => j.op = "push"
           /\ (r.isSent => ~r.isSending) => (new.isSent => ~new.isSending)
<1>1. CASE j.op = "push" /\ new = NewRow("stored", j.at)
  BY <1>1 DEF NewRow
<1>2. CASE r.status = "stored" /\ new = NewRow("removed", 0)
  BY <1>2 DEF NewRow
<1>3. ASSUME j.op = "claim", r.status = "stored", Passes(j, r), new = Update(j, r)
      PROVE  new.status # "none" /\ ~new.isSent
  <2>1. new = Claimed(r, j.tries + 1, j.at) /\ CanClaim(r, j.tries, j.at)
    BY <1>3 DEF Update, Passes
  <2>2. QED
    BY <1>3, <2>1 DEF Claimed, CanClaim, Open, RowType
<1>4. ASSUME j.op = "renew", r.status = "stored", Passes(j, r), new = Update(j, r)
      PROVE  new.status # "none" /\ new.isSent = r.isSent /\ r.isSending
  <2>1. new = Renewed(r, j.at) /\ HoldsLease(r, j.tries, j.sendingAt)
    BY <1>4 DEF Update, Passes
  <2>2. QED
    BY <1>4, <2>1 DEF Renewed, HoldsLease, RowType
<1>5. ASSUME j.op \in {"released", "sent", "failed"}, r.status = "stored", new = Update(j, r)
      PROVE  new.status # "none" /\ ~new.isSending
  <2>1. \/ new = Retried(r, j.at) \/ new = Sent(r, r.accepted) \/ new = Failed(r, r.accepted)
    BY <1>5 DEF Update
  <2>2. QED
    BY <1>5, <2>1 DEF Retried, Sent, Failed, RowType
<1>6. ASSUME j.op = "cancel", r.status = "stored", new = Update(j, r)
      PROVE  new.status # "none" /\ new.isSent = r.isSent /\ new.isSending = r.isSending
  <2>1. new = Cancelled(r)
    BY <1>6 DEF Update
  <2>2. QED
    BY <1>6, <2>1 DEF Cancelled, RowType
<1>7. QED
  BY <1>1, <1>2, <1>3, <1>4, <1>5, <1>6 DEF Written, Ops, SendOps

\* Time does not take away what a call may write.
LEMMA AttemptLasts ==
    ASSUME NEW j \in CallType \cup {IdleCall}, now \in Nat, now' \in Nat, now <= now',
           Attempt(j, now)
    PROVE  Attempt(j, now')
<1>1. CASE j = IdleCall
  BY <1>1 DEF IdleCall, Attempt, InScript
<1>2. CASE j \in CallType
  <2>1. j.at \in Nat /\ j.sendingAt \in Nat
    BY <1>2 DEF CallType
  <2>2. QED
    BY <2>1 DEF Attempt
<1>3. QED
  BY <1>1, <1>2

\* A step of a call that is no push after it.
LEMMA AttemptStep ==
    ASSUME AtomicInv, KeysInv', NEW k \in Caller, NEW j \in CallType \cup {IdleCall},
           call' = [call EXCEPT ![k] = j], now' = now, Attempt(j, now),
           j.pc \in InScript => j.op # "push",
           SentIsFree',
           \A l \in Caller \ {k} :
              Pushing(l) => db'.letters[call[l].uuid].status = "none"
    PROVE  AtomicInv'
<1>1. call \in [Caller -> CallType \cup {IdleCall}] /\ now \in Nat
  BY DEF AtomicInv, KeysInv, TypeOK
<1>2. call'[k] = j /\ \A l \in Caller \ {k} : call'[l] = call[l]
  BY <1>1
<1>3. AttemptsFit'
  <2>1. Attempt(j, now') /\ \A l \in Caller : Attempt(call[l], now)
    BY <1>1, AttemptLasts DEF AtomicInv, AttemptsFit
  <2>2. \A l \in Caller \ {k} : Attempt(call'[l], now')
    <3> SUFFICES ASSUME NEW l \in Caller \ {k}, NEW i \in CallType \cup {IdleCall},
                        i = call[l], i = call'[l]
                 PROVE  Attempt(i, now')
      BY <1>1, <1>2
    <3>1. Attempt(i, now)
      BY <2>1
    <3>2. QED
      BY <1>1, <3>1, AttemptLasts
  <2>3. QED
    BY <1>2, <2>1, <2>2 DEF AttemptsFit
<1>4. PushesFit'
  <2>1. \A l \in Caller : Pushing(l)' => l # k /\ Pushing(l) /\ call'[l] = call[l]
    BY <1>2 DEF Pushing
  <2>2. QED
    BY <2>1 DEF AtomicInv, PushesFit
<1>5. QED
  BY <1>1, <1>3, <1>4 DEF AtomicInv

LEMMA ScriptAtomic ==
    ASSUME AtomicInv, KeysInv', "push" \notin RerunOps, NEW k \in Caller, ScriptStep(k)
    PROVE  AtomicInv'
<1>1. KeysInv /\ call[k].pc \in InScript /\ Attempt(call[k], now)
  BY DEF AtomicInv, AttemptsFit, ScriptStep, RunScript, AnswerLost, AnswerSwallowed, InScript
<1>2. call[k] \in CallType /\ call[k].uuid \in Letter /\ call[k].op \in Ops
  BY <1>1, CallRead DEF InScript, CallType
<1>3. db \in DbType /\ db.letters \in [Letter -> RowType]
  BY <1>1 DEF KeysInv, TypeOK, DbType
<1>4. \/ db'.letters = db.letters
      \/ \E new \in RowType :
            /\ Written(call[k], db.letters[call[k].uuid], new)
            /\ db'.letters = [db.letters EXCEPT ![call[k].uuid] = new]
  <2>1. db'.letters = db.letters \/ Writes(db, call[k], db')
    BY <1>1, ScriptEffect DEF ScriptStep, RunScript, AnswerLost, AnswerSwallowed
  <2>2. QED
    BY <2>1 DEF Writes
<1>5. SentIsFree'
  <2>1. CASE db'.letters = db.letters
    BY <2>1 DEF AtomicInv, SentIsFree
  <2>2. ASSUME NEW new \in RowType, Written(call[k], db.letters[call[k].uuid], new),
               db'.letters = [db.letters EXCEPT ![call[k].uuid] = new]
        PROVE  SentIsFree'
    <3>1. new.isSent => ~new.isSending
      BY <1>2, <1>3, <2>2, WrittenRow DEF AtomicInv, SentIsFree
    <3>2. QED
      BY <1>2, <1>3, <2>2, <3>1 DEF AtomicInv, SentIsFree
  <2>3. QED
    BY <1>4, <2>1, <2>2
<1>6. ASSUME NEW l \in Caller \ {k}, Pushing(l)
      PROVE  db'.letters[call[l].uuid].status = "none"
  <2>1. db.letters[call[l].uuid].status = "none" /\ call[l].uuid \in Letter
    BY <1>1, <1>6, CallRead DEF AtomicInv, PushesFit, Pushing, InScript, CallType
  <2>2. ASSUME NEW new \in RowType, Written(call[k], db.letters[call[k].uuid], new),
               db'.letters = [db.letters EXCEPT ![call[k].uuid] = new]
        PROVE  db'.letters[call[l].uuid].status = "none"
    <3>1. CASE call[k].uuid = call[l].uuid
      <4>1. call[k].op = "push"
        BY <1>2, <1>3, <2>1, <2>2, <3>1, WrittenRow
      <4>2. QED
        BY <1>1, <1>6, <3>1, <4>1 DEF AtomicInv, PushesFit, Pushing
    <3>2. CASE call[k].uuid # call[l].uuid
      BY <1>3, <2>1, <2>2, <3>2
    <3>3. QED
      BY <3>1, <3>2
  <2>3. QED
    BY <1>4, <2>1, <2>2
<1>7. now' = now
  BY DEF ScriptStep, RunScript, AnswerLost, AnswerSwallowed, Fault
<1>8. CASE RunScript(k) \/ AnswerLost(k)
  <2>1. PICK done \in BOOLEAN : call' = [call EXCEPT ![k] = After(call[k], done)]
    BY <1>8 DEF RunScript, AnswerLost, Answer
  <2> DEFINE after == After(call[k], done)
  <2>2. after = IdleCall \/ (after \in CallType /\ after.pc = "working")
    BY <1>2, AfterIs
  <2> HIDE DEF after
  <2>3. Attempt(after, now) /\ after.pc \notin InScript
    BY <2>2 DEF Attempt, InScript, IdleCall
  <2>4. QED
    BY <1>5, <1>6, <1>7, <2>1, <2>2, <2>3, AttemptStep DEF after
<1>9. CASE AnswerSwallowed(k)
  <2> DEFINE again == [call[k] EXCEPT !.pc = "again"]
  <2>1. call' = [call EXCEPT ![k] = again] /\ call[k].op # "push"
    BY <1>9 DEF AnswerSwallowed
  <2>2. /\ again \in CallType /\ again.op = call[k].op /\ again.at = call[k].at
        /\ again.tries = call[k].tries /\ again.sendingAt = call[k].sendingAt
        /\ again.pc = "again"
    BY <1>2 DEF CallType, InScript
  <2> HIDE DEF again
  <2>3. Attempt(again, now)
    BY <1>1, <2>2 DEF Attempt, InScript
  <2>4. QED
    BY <1>5, <1>6, <1>7, <2>1, <2>2, <2>3, AttemptStep
<1>10. QED
  BY <1>8, <1>9 DEF ScriptStep

\* What begins beside a push.
LEMMA OtherAtomic ==
    ASSUME AtomicInv, KeysInv', NEW k \in Caller, NEW j \in CallType \cup {IdleCall},
           call' = [call EXCEPT ![k] = j], now' = now, Attempt(j, now),
           j.pc \in InScript => j.op # "push", db'.letters = db.letters
    PROVE  AtomicInv'
<1>1. SentIsFree'
  BY DEF AtomicInv, SentIsFree
<1>2. \A l \in Caller \ {k} : Pushing(l) => db'.letters[call[l].uuid].status = "none"
  BY DEF AtomicInv, PushesFit
<1>3. QED
  BY <1>1, <1>2, AttemptStep

LEMMA WorkerAtomic ==
    ASSUME AtomicInv, KeysInv', NEW w \in Worker, WorkerStep(w)
    PROVE  AtomicInv'
<1>1. /\ w \in Caller /\ now \in Nat /\ now >= 1 /\ Fits(db) /\ KeysInv
      /\ Attempt(call[w], now)
  BY DEF Caller, AtomicInv, KeysInv, TypeOK, Fits, AttemptsFit
<1>2. ASSUME Scan(w) \/ ScanLost(w), UNCHANGED call
      PROVE  AtomicInv'
  <2>1. db'.letters = db.letters /\ now' = now
    BY <1>1, <1>2, ScanEffect DEF Scan, ScanLost, Fault
  <2>2. QED
    BY <1>2, <2>1 DEF AtomicInv, SentIsFree, AttemptsFit, Attempt, PushesFit, Pushing
<1>3. ASSUME Scan(w), NEW u \in ScanAnswer(db, now),
             call' = [call EXCEPT ![w] =
                [NewCall("none", u, 0) EXCEPT !.pc = "read", !.tries = db.letters[u].tries]]
      PROVE  AtomicInv'
  <2> DEFINE read == [NewCall("none", u, 0) EXCEPT !.pc = "read", !.tries = db.letters[u].tries]
  <2>1. u \in Letter /\ ~Exhausted(db.letters[u])
    BY DEF ScanAnswer, Scanned, Due, Returnable
  <2>2. db.letters[u].tries \in Nat /\ db.letters[u].tries < MaxTries
    BY <1>1, <2>1, MaxTriesAssumption DEF Fits, DbType, RowType, Exhausted
  <2>3. read \in CallType
    BY <2>1, <2>2, NewCallType
  <2>4. read.pc = "read" /\ read.tries = db.letters[u].tries
    BY DEF NewCall
  <2>5. db'.letters = db.letters /\ now' = now
    BY <1>1, <1>3, ScanEffect DEF Scan
  <2> HIDE DEF read
  <2>6. Attempt(read, now) /\ read.pc \notin InScript
    BY <2>2, <2>4 DEF Attempt, InScript
  <2>7. QED
    BY <1>1, <1>3, <2>3, <2>5, <2>6, OtherAtomic DEF read
<1>4. CASE Dispatch(w)
  <2>1. call[w] \in CallType /\ call[w].tries < MaxTries
    BY <1>1, <1>4, CallRead DEF Dispatch, Attempt
  <2>2. now' = now /\ db'.letters = db.letters
    BY <1>4 DEF Dispatch, Begin
  <2>3. CASE InHand(w)
    <3>1. call' = [call EXCEPT ![w] = IdleCall]
      BY <1>4, <2>3 DEF Dispatch
    <3>2. Attempt(IdleCall, now) /\ IdleCall.pc \notin InScript
      BY DEF Attempt, IdleCall, InScript
    <3>3. QED
      BY <1>1, <2>2, <3>1, <3>2, OtherAtomic
  <2>4. CASE ~InHand(w)
    <3> DEFINE j == [[call[w] EXCEPT !.op = "claim", !.at = now] EXCEPT !.pc = "script"]
    <3>1. call' = [call EXCEPT ![w] = j]
      BY <1>4, <2>4 DEF Dispatch, Begin
    <3>2. /\ j \in CallType /\ j.op = "claim" /\ j.at = now /\ j.pc = "script"
          /\ j.tries = call[w].tries
      BY <1>1, <2>1 DEF CallType, Ops, SendOps, InScript
    <3> HIDE DEF j
    <3>3. Attempt(j, now)
      BY <1>1, <2>1, <3>2 DEF Attempt
    <3>4. QED
      BY <1>1, <2>2, <3>1, <3>2, <3>3, OtherAtomic
  <2>5. QED
    BY <2>3, <2>4
<1>5. ASSUME NEW op \in SendOps, StartWrite(w, op)
      PROVE  AtomicInv'
  <2>1. call[w] \in CallType
    BY <1>1, <1>5, CallRead DEF StartWrite
  <2>2. PICK at \in Nat :
           /\ Begin(w, [call[w] EXCEPT !.op = op, !.at = at])
           /\ op # "claim"
           /\ op = "renew" => at = RenewalStamp(call[w])
           /\ op = "released" => call[w].tries < MaxTries
    <3>1. RenewalStamp(call[w]) \in Nat /\ now + RetryDelay \in Nat /\ 0 \in Nat
      BY <1>1, <2>1, DelayAssumption DEF RenewalStamp, CallType
    <3>2. QED
      BY <1>5, <3>1 DEF StartWrite
  <2> DEFINE j == [[call[w] EXCEPT !.op = op, !.at = at] EXCEPT !.pc = "script"]
  <2>3. /\ j \in CallType /\ j.op = op /\ j.at = at /\ j.pc = "script"
        /\ j.tries = call[w].tries /\ j.sendingAt = call[w].sendingAt
    BY <2>1 DEF CallType, Ops, InScript
  <2>4. call' = [call EXCEPT ![w] = j] /\ now' = now /\ db'.letters = db.letters
    BY <2>2 DEF Begin
  <2> HIDE DEF j
  <2>5. op = "renew" => /\ call[w].sendingAt < at
                        /\ at <= IF now > call[w].sendingAt THEN now
                                                            ELSE call[w].sendingAt + 1
    BY <1>1, <2>1, <2>2 DEF RenewalStamp, CallType
  <2>6. Attempt(j, now)
    BY <2>2, <2>3, <2>5 DEF Attempt
  <2>7. op # "push"
    BY DEF SendOps
  <2>8. QED
    BY <1>1, <2>3, <2>4, <2>6, <2>7, OtherAtomic
<1>6. QED
  BY <1>2, <1>3, <1>4, <1>5 DEF WorkerStep, Scan, ScanLost

\* A push begins: no other call pushes the letter.
LEMMA PushAtomic ==
    ASSUME AtomicInv, KeysInv', NEW s \in Sender, NEW u \in Letter, StartPush(s, u)
    PROVE  AtomicInv'
<1> DEFINE j == [NewCall("push", u, now + SendDelay) EXCEPT !.pc = "script"]
<1>1. /\ s \in Caller /\ KeysInv
      /\ call \in [Caller -> CallType \cup {IdleCall}]
  BY DEF Caller, AtomicInv, KeysInv, TypeOK
<1>2. /\ call' = [call EXCEPT ![s] = j] /\ now' = now /\ db' = db
      /\ call[s].pc = "idle" /\ db.letters[u].status = "none"
      /\ \A k \in Sender : call[k].pc # "idle" => call[k].op # "push" \/ call[k].uuid # u
  BY DEF StartPush, Begin
<1>3. j.op = "push" /\ j.uuid = u /\ j.pc = "script"
  BY DEF NewCall
<1> HIDE DEF j
<1>4. call'[s] = j /\ \A l \in Caller \ {s} : call'[l] = call[l]
  BY <1>1, <1>2
<1>5. SentIsFree'
  BY <1>2 DEF AtomicInv, SentIsFree
<1>6. AttemptsFit'
  <2>1. Attempt(j, now')
    BY <1>3 DEF Attempt
  <2>2. \A l \in Caller \ {s} : Attempt(call'[l], now')
    BY <1>2, <1>4 DEF AtomicInv, AttemptsFit, Attempt
  <2>3. QED
    BY <1>4, <2>1, <2>2 DEF AttemptsFit
<1>7. PushesFit'
  <2>1. \A l \in Caller \ {s} : Pushing(l)' => Pushing(l) /\ call'[l].uuid # u
    BY <1>2, <1>4 DEF AtomicInv, PushesFit, Pushing, InScript
  <2>2. QED
    BY <1>2, <1>3, <1>4, <2>1 DEF AtomicInv, PushesFit, Pushing, InScript
<1>8. QED
  BY <1>2, <1>5, <1>6, <1>7 DEF AtomicInv

LEMMA SenderAtomic ==
    ASSUME AtomicInv, KeysInv', NEW s \in Sender, SenderStep(s)
    PROVE  AtomicInv'
<1>1. s \in Caller /\ KeysInv
  BY DEF Caller, AtomicInv
<1>2. /\ call' \in [Caller -> CallType \cup {IdleCall}]
      /\ call \in [Caller -> CallType \cup {IdleCall}]
  BY <1>1 DEF KeysInv, TypeOK
<1>3. ASSUME NEW j, call' = [call EXCEPT ![s] = j], now' = now, db' = db,
             \/ j.pc \in InScript /\ j.op \in {"append", "cancel"}
             \/ j.pc = "pointed" \/ j = IdleCall
      PROVE  AtomicInv'
  <2>1. j \in CallType \cup {IdleCall}
    <3>1. call'[s] = j
      BY <1>1, <1>2, <1>3
    <3>2. QED
      BY <1>1, <1>2, <3>1
  <2>2. Attempt(j, now) /\ (j.pc \in InScript => j.op # "push")
    BY <1>3 DEF Attempt, InScript, IdleCall
  <2>3. QED
    BY <1>1, <1>3, <2>1, <2>2, OtherAtomic
<1>4. ASSUME NEW u \in Letter, StartCancel(s, u)
      PROVE  AtomicInv'
  <2> DEFINE j == [NewCall("cancel", u, 0) EXCEPT !.pc = "script"]
  <2>1. j.pc \in InScript /\ j.op = "cancel"
    BY DEF NewCall, InScript
  <2>2. call' = [call EXCEPT ![s] = j] /\ now' = now /\ db' = db
    BY <1>4 DEF StartCancel, Begin
  <2> HIDE DEF j
  <2>3. QED
    BY <1>3, <2>1, <2>2
<1>5. ASSUME NEW a \in Address, NEW m \in Mail, LookUp(s, a, m)
      PROVE  AtomicInv'
  <2> DEFINE j == [NewCall("append", db.pointer[a].uuid, now + SendDelay)
                     EXCEPT !.pc = "pointed", !.mail = m]
  <2>1. j.pc = "pointed"
    BY DEF NewCall
  <2>2. call' = [call EXCEPT ![s] = j] /\ now' = now /\ db' = db
    BY <1>5 DEF LookUp
  <2> HIDE DEF j
  <2>3. QED
    BY <1>3, <2>1, <2>2
<1>6. CASE ReadPending(s)
  <2>1. call[s] \in CallType /\ call[s].op = "append"
    BY <1>1, <1>6, CallRead DEF ReadPending, KeysInv, CallsFit
  <2>2. CASE call' = [call EXCEPT ![s] = IdleCall] /\ UNCHANGED <<now, db, faults>>
    BY <1>3, <2>2
  <2>3. CASE Begin(s, call[s])
    <3> DEFINE j == [call[s] EXCEPT !.pc = "script"]
    <3>1. j.pc \in InScript /\ j.op = "append"
      BY <2>1 DEF CallType, InScript
    <3>2. call' = [call EXCEPT ![s] = j] /\ now' = now /\ db' = db
      BY <2>3 DEF Begin
    <3> HIDE DEF j
    <3>3. QED
      BY <1>3, <3>1, <3>2
  <2>4. QED
    BY <1>6, <2>2, <2>3 DEF ReadPending
<1>7. QED
  BY <1>4, <1>5, <1>6, PushAtomic DEF SenderStep

LEMMA TimeAtomic ==
    ASSUME AtomicInv, KeysInv', Tick \/ \E c \in Client : Crash(c)
    PROVE  AtomicInv'
<1>1. /\ call \in [Caller -> CallType \cup {IdleCall}] /\ now \in Nat /\ db \in DbType
  BY DEF AtomicInv, KeysInv, TypeOK
<1>2. /\ \A k \in Caller : call'[k] \in {call[k], IdleCall}
      /\ now' \in Nat /\ now <= now' /\ db'.letters = db.letters
  BY <1>1 DEF Tick, Crash, DbType
<1>3. SentIsFree'
  BY <1>2 DEF AtomicInv, SentIsFree
<1>4. AttemptsFit'
  <2> SUFFICES ASSUME NEW k \in Caller, NEW i \in CallType \cup {IdleCall}, i = call'[k]
               PROVE  Attempt(i, now')
    BY DEF AttemptsFit, KeysInv, TypeOK
  <2>1. Attempt(IdleCall, now)
    BY DEF Attempt, IdleCall, InScript
  <2>2. Attempt(i, now)
    BY <1>2, <2>1 DEF AtomicInv, AttemptsFit
  <2>3. QED
    BY <1>1, <1>2, <2>2, AttemptLasts
<1>5. PushesFit'
  <2>1. \A k \in Caller : Pushing(k)' => Pushing(k) /\ call'[k] = call[k]
    BY <1>2 DEF Pushing, IdleCall, InScript
  <2>2. QED
    BY <1>2, <2>1 DEF AtomicInv, PushesFit
<1>6. QED
  BY <1>1, <1>2, <1>3, <1>4, <1>5 DEF AtomicInv

LEMMA InitAtomic == Init => AtomicInv
<1> SUFFICES ASSUME Init PROVE AtomicInv
  OBVIOUS
<1>1. KeysInv
  BY InitKeys
<1>2. SentIsFree /\ now >= 1
  BY DEF Init, SentIsFree, NewRow
<1>3. AttemptsFit /\ PushesFit
  BY DEF Init, AttemptsFit, Attempt, PushesFit, Pushing, IdleCall, InScript
<1>4. QED
  BY <1>1, <1>2, <1>3 DEF AtomicInv

LEMMA AtomicInductive ==
    ASSUME "push" \notin RerunOps
    PROVE  Spec => []AtomicInv
<1>1. Init => AtomicInv
  BY InitAtomic
<1>2. AtomicInv /\ [Next]_vars => AtomicInv'
  <2> SUFFICES ASSUME AtomicInv, [Next]_vars PROVE AtomicInv'
    OBVIOUS
  <2>1. KeysInv'
    BY KeysStep DEF AtomicInv
  <2>2. CASE Next
    BY <2>1, <2>2, ScriptAtomic, WorkerAtomic, SenderAtomic, TimeAtomic DEF Next
  <2>3. CASE UNCHANGED vars
    BY <2>1, <2>3
       DEF vars, AtomicInv, SentIsFree, AttemptsFit, Attempt, PushesFit, Pushing
  <2>4. QED
    BY <2>2, <2>3
<1>3. QED
  BY <1>1, <1>2, PTL DEF Spec

-----------------------------------------------------------------------------
(* Pointers.                                                               *)

PointerKept(a) ==
    \/ db'.pointer[a] = db.pointer[a]
    \/ ~Open(db'.letters[db.pointer[a].uuid])
    \/ \E u \in Letter : /\ To[u] = a
                         /\ db.letters[u].status = "none"
                         /\ db'.letters[u].status = "stored"

LEMMA ScriptKeepsPointer ==
    ASSUME AtomicInv, NEW k \in Caller, ScriptStep(k),
           NEW a \in Address
    PROVE  PointerKept(a)
<1>1. KeysInv /\ call[k].pc \in InScript
  BY DEF AtomicInv, ScriptStep, RunScript, AnswerLost, AnswerSwallowed, InScript
<1>2. call[k].uuid \in Letter
  BY <1>1, CallRead DEF InScript, CallType
<1>3. db.letters \in [Letter -> RowType]
  BY <1>1 DEF KeysInv, TypeOK, DbType
<1>4. \/ db'.pointer = db.pointer
      \/ Writes(db, call[k], db')
  BY <1>1, ScriptEffect DEF ScriptStep, RunScript, AnswerLost, AnswerSwallowed
<1>5. ASSUME NEW new \in RowType,
             Written(call[k], db.letters[call[k].uuid], new),
             db'.letters = [db.letters EXCEPT ![call[k].uuid] = new],
             \/ db'.pointer[a] = db.pointer[a]
             \/ call[k].op = "push" /\ a = To[call[k].uuid]
             \/ db.pointer[a].uuid = call[k].uuid /\ ~Open(new)
      PROVE  PointerKept(a)
  <2>1. db'.letters[call[k].uuid] = new
    BY <1>2, <1>3, <1>5
  <2>2. CASE call[k].op = "push" /\ a = To[call[k].uuid]
    <3>1. db.letters[call[k].uuid].status = "none"
      BY <1>1, <2>2 DEF AtomicInv, PushesFit, Pushing
    <3>2. new.status = "stored"
      BY <1>5, <2>2 DEF Written, NewRow
    <3>3. QED
      BY <1>2, <2>1, <2>2, <3>1, <3>2 DEF PointerKept
  <2>3. QED
    BY <1>5, <2>1, <2>2 DEF PointerKept
<1>6. QED
  BY <1>4, <1>5 DEF Writes, PointerKept

LEMMA StepKeepsPointer ==
    ASSUME AtomicInv, [Next]_vars, NEW a \in Address, db.pointer[a].until > now
    PROVE  PointerKept(a)
<1>1. KeysInv /\ now \in Nat /\ Fits(db) /\ db \in DbType /\ db.pointer[a].until \in Nat
  BY DEF AtomicInv, KeysInv, TypeOK, Fits, DbType
<1>2. ASSUME NEW k \in Caller, ScriptStep(k)
      PROVE  PointerKept(a)
  BY <1>2, ScriptKeepsPointer
<1>3. ASSUME NEW w \in Worker, Scan(w) \/ ScanLost(w)
      PROVE  PointerKept(a)
  <2>1. db'.pointer[a] = db.pointer[a] \/ db.pointer[a].until <= now
    BY <1>1, <1>3, ScanEffect DEF Scan, ScanLost
  <2>2. QED
    BY <1>1, <2>1 DEF PointerKept
<1>4. CASE Tick
  <2>1. db'.pointer[a] = IF db.pointer[a].until < now + 1 THEN NoPointer ELSE db.pointer[a]
    BY <1>1, <1>4 DEF Tick, DbType
  <2>2. QED
    BY <1>1, <2>1 DEF PointerKept
<1>5. CASE UNCHANGED db
  BY <1>5 DEF PointerKept
<1>6. ASSUME NEW w \in Worker, Dispatch(w) \/ \E op \in SendOps : StartWrite(w, op)
      PROVE  UNCHANGED db
  BY <1>6 DEF Dispatch, StartWrite, Begin
<1>7. ASSUME NEW s \in Sender, SenderStep(s)
      PROVE  UNCHANGED db
  BY <1>7 DEF SenderStep, StartPush, StartCancel, LookUp, ReadPending, Begin
<1>8. ASSUME NEW c \in Client, Crash(c)
      PROVE  UNCHANGED db
  BY <1>8 DEF Crash
<1>9. QED
  BY <1>2, <1>3, <1>4, <1>5, <1>6, <1>7, <1>8 DEF Next, WorkerStep, vars

\* A pointer that has not expired is lost only with its own letter or to the push of
\* another one, if no push is executed twice.
THEOREM TaggedPointersStay ==
    ASSUME "push" \notin RerunOps
    PROVE  Spec => PointerStays
<1>1. AtomicInv /\ [Next]_vars =>
        [\A a \in Address :
            LET p == db.pointer[a] IN
            p.until > now => \/ db'.pointer[a] = p
                             \/ ~Open(db'.letters[p.uuid])
                             \/ \E u \in Letter : /\ To[u] = a
                                                  /\ db.letters[u].status = "none"
                                                  /\ db'.letters[u].status = "stored"]_vars
  BY StepKeepsPointer DEF PointerKept
<1>2. QED
  BY <1>1, AtomicInductive, PTL DEF Spec, PointerStays

-----------------------------------------------------------------------------
(* The register of each letter.                                            *)

\* The operations of AtomicRow, from register `x` to register `y` at time `at`.
Moves(x, y, at) ==
    \/ x = Atomic!Absent /\ y = Atomic!Free(0)
    \/ \E stamp \in 1 .. at :
          /\ \/ x.phase = "free"
             \/ x.phase = "held" /\ x.stamp <= stamp - SendingTimeout
          /\ x.tries < MaxTries
          /\ y = Atomic!Held(x.tries + 1, stamp)
    \/ /\ x.phase = "held"
       /\ \E stamp \in x.stamp + 1 .. (IF at > x.stamp THEN at ELSE x.stamp + 1) :
             y = Atomic!Held(x.tries, stamp)
    \/ x.phase = "held" /\ x.tries < MaxTries /\ y = Atomic!Free(x.tries)
    \/ x.phase \in {"free", "held"} /\ y = Atomic!Closed

LEMMA RegisterIs ==
    ASSUME NEW r \in RowType
    PROVE  /\ r.status = "none" => RegisterOf(r) = Atomic!Absent
           /\ Open(r) /\ r.isSending => RegisterOf(r) = Atomic!Held(r.tries, r.sendingAt)
           /\ Open(r) /\ ~r.isSending => RegisterOf(r) = Atomic!Free(r.tries)
           /\ r.status # "none" /\ ~Open(r) => RegisterOf(r) = Atomic!Closed
BY DEF RegisterOf, Open, RowType, Atomic!Absent, Atomic!Held, Atomic!Free, Atomic!Closed

\* A letter that ends closes its register, or it was closed.
LEMMA EndCloses ==
    ASSUME NEW r \in RowType, r.status = "stored", NEW new \in RowType,
           new.status # "none", ~Open(new), NEW at \in Nat
    PROVE  \/ RegisterOf(new) = RegisterOf(r)
           \/ Moves(RegisterOf(r), RegisterOf(new), at)
<1>1. RegisterOf(new) = Atomic!Closed
  BY RegisterIs
<1>2. CASE ~Open(r)
  BY <1>1, <1>2, RegisterIs
<1>3. CASE Open(r)
  <2>1. RegisterOf(r).phase \in {"free", "held"}
    BY <1>3, RegisterIs DEF Atomic!Held, Atomic!Free, RowType
  <2>2. QED
    BY <1>1, <2>1 DEF Moves
<1>4. QED
  BY <1>2, <1>3

\* What a script writes is an operation on the register, or nothing.
LEMMA WrittenMoves ==
    ASSUME NEW j \in CallType, NEW r \in RowType, NEW new \in RowType, Written(j, r, new),
           r.isSent => ~r.isSending, NEW at \in Nat, at >= 1, Attempt(j, at),
           j.pc \in InScript, j.op = "push" => r.status = "none"
    PROVE  \/ RegisterOf(new) = RegisterOf(r)
           \/ Moves(RegisterOf(r), RegisterOf(new), at)
<1>1. /\ j.tries \in Nat /\ j.sendingAt \in Nat /\ j.at \in Nat
      /\ r.tries \in Nat /\ r.sendingAt \in Nat /\ SendingTimeout \in Nat /\ MaxTries \in Nat
  BY SendingTimeoutAssumption, MaxTriesAssumption DEF CallType, RowType
<1>2. CASE j.op = "push"
  <2>1. new = NewRow("stored", j.at)
    BY <1>2 DEF Written
  <2>2. Open(new) /\ ~new.isSending /\ new.tries = 0
    BY <1>1, <2>1, NewRowType DEF RowStatus
  <2>3. RegisterOf(new) = Atomic!Free(0) /\ RegisterOf(r) = Atomic!Absent
    BY <1>2, <2>2, RegisterIs
  <2>4. QED
    BY <2>3 DEF Moves
<1>3. ASSUME j.op # "push", new = NewRow("removed", 0)
      PROVE  \/ RegisterOf(new) = RegisterOf(r)
             \/ Moves(RegisterOf(r), RegisterOf(new), at)
  <2>1. r.status = "stored" /\ new.status # "none" /\ ~Open(new)
    BY <1>3, NewRowType DEF Written, RowStatus
  <2>2. QED
    BY <2>1, EndCloses
<1>4. ASSUME j.op = "claim", r.status = "stored", Passes(j, r), new = Update(j, r)
      PROVE  Moves(RegisterOf(r), RegisterOf(new), at)
  <2>1. new = Claimed(r, j.tries + 1, j.at) /\ CanClaim(r, j.tries, j.at)
    BY <1>4 DEF Update, Passes
  <2>2. /\ Open(r) /\ r.tries = j.tries /\ Takeable(r, j.at)
        /\ j.tries < MaxTries /\ j.at \in 1 .. at
    BY <1>1, <1>4, <2>1 DEF CanClaim, Attempt
  <2>3. Open(new) /\ new.isSending /\ new.tries = r.tries + 1 /\ new.sendingAt = j.at
    BY <2>1, <2>2 DEF Claimed, Open, RowType
  <2>4. RegisterOf(new) = Atomic!Held(r.tries + 1, j.at)
    BY <2>3, RegisterIs
  <2>5. /\ RegisterOf(r).tries = r.tries
        /\ \/ RegisterOf(r).phase = "free"
           \/ RegisterOf(r).phase = "held" /\ RegisterOf(r).stamp <= j.at - SendingTimeout
    <3>1. CASE r.isSending
      <4>1. RegisterOf(r) = Atomic!Held(r.tries, r.sendingAt)
        BY <2>2, <3>1, RegisterIs
      <4>2. QED
        BY <2>2, <3>1, <4>1 DEF Takeable, Atomic!Held
    <3>2. CASE ~r.isSending
      <4>1. RegisterOf(r) = Atomic!Free(r.tries)
        BY <2>2, <3>2, RegisterIs
      <4>2. QED
        BY <4>1 DEF Atomic!Free
    <3>3. QED
      BY <3>1, <3>2
  <2>6. QED
    BY <2>2, <2>4, <2>5 DEF Moves
<1>5. ASSUME j.op \in {"renew", "released", "sent", "failed"}, r.status = "stored",
             Passes(j, r)
      PROVE  /\ Open(r) /\ r.isSending /\ r.tries = j.tries /\ r.sendingAt = j.sendingAt
             /\ RegisterOf(r) = Atomic!Held(r.tries, r.sendingAt)
             /\ RegisterOf(r).phase = "held" /\ RegisterOf(r).tries = r.tries
             /\ RegisterOf(r).stamp = r.sendingAt
  <2>1. HoldsLease(r, j.tries, j.sendingAt)
    BY <1>5 DEF Passes
  <2>2. Open(r) /\ r.isSending /\ r.tries = j.tries /\ r.sendingAt = j.sendingAt
    BY <2>1 DEF HoldsLease, Open
  <2>3. RegisterOf(r) = Atomic!Held(r.tries, r.sendingAt)
    BY <2>2, RegisterIs
  <2>4. QED
    BY <2>2, <2>3 DEF Atomic!Held
<1>6. ASSUME j.op = "renew", r.status = "stored", Passes(j, r), new = Update(j, r)
      PROVE  Moves(RegisterOf(r), RegisterOf(new), at)
  <2>1. new = Renewed(r, j.at)
    BY <1>6 DEF Update
  <2>2. Open(new) /\ new.isSending /\ new.tries = r.tries /\ new.sendingAt = j.at
    BY <1>5, <1>6, <2>1 DEF Renewed, Open, RowType
  <2>3. RegisterOf(new) = Atomic!Held(r.tries, j.at)
    BY <2>2, RegisterIs
  <2>4. j.at \in r.sendingAt + 1 .. (IF at > r.sendingAt THEN at ELSE r.sendingAt + 1)
    BY <1>1, <1>5, <1>6 DEF Attempt
  <2>5. QED
    BY <1>5, <1>6, <2>3, <2>4 DEF Moves
<1>7. ASSUME j.op = "released", r.status = "stored", Passes(j, r), new = Update(j, r)
      PROVE  Moves(RegisterOf(r), RegisterOf(new), at)
  <2>1. new = Retried(r, j.at)
    BY <1>7 DEF Update
  <2>2. Open(new) /\ ~new.isSending /\ new.tries = r.tries
    BY <1>5, <1>7, <2>1 DEF Retried, Open, RowType
  <2>3. RegisterOf(new) = Atomic!Free(r.tries)
    BY <2>2, RegisterIs
  <2>4. r.tries < MaxTries
    BY <1>5, <1>7 DEF Attempt
  <2>5. QED
    BY <1>5, <1>7, <2>3, <2>4 DEF Moves
<1>8. ASSUME j.op \in {"sent", "failed", "cancel"}, r.status = "stored", new = Update(j, r)
      PROVE  \/ RegisterOf(new) = RegisterOf(r)
             \/ Moves(RegisterOf(r), RegisterOf(new), at)
  <2>1. \/ new = Sent(r, r.accepted) \/ new = Failed(r, r.accepted) \/ new = Cancelled(r)
    BY <1>8 DEF Update
  <2>2. new.status # "none" /\ ~Open(new)
    BY <1>8, <2>1 DEF Sent, Failed, Cancelled, Open, RowType
  <2>3. QED
    BY <1>8, <2>2, EndCloses
<1>9. QED
  BY <1>2, <1>3, <1>4, <1>6, <1>7, <1>8 DEF Written, Ops, SendOps

Registers == [u \in Letter |-> RegisterOf(db.letters[u])]

\* One register moves.
LEMMA MoveIsStep ==
    ASSUME NEW u \in Letter, NEW y, Registers' = [Registers EXCEPT ![u] = y],
           now' = now, Moves(Registers[u], y, now), y # Registers[u]
    PROVE  Atomic!Next
<1>1. Registers'[u] # Registers[u]
  BY DEF Registers
<1>2. Atomic!Set(u, y)
  BY DEF Atomic!Set, Registers
<1>3. \/ Atomic!Enter(u) \/ Atomic!Renew(u) \/ Atomic!Release(u) \/ Atomic!Close(u)
      \/ \E stamp \in 1 .. now : Atomic!Claim(u, stamp)
  <2>1. CASE Registers[u] = Atomic!Absent /\ y = Atomic!Free(0)
    BY <1>2, <2>1 DEF Atomic!Enter, Registers
  <2>2. ASSUME NEW stamp \in 1 .. now,
               \/ Registers[u].phase = "free"
               \/ Registers[u].phase = "held"
                    /\ Registers[u].stamp <= stamp - SendingTimeout,
               Registers[u].tries < MaxTries,
               y = Atomic!Held(Registers[u].tries + 1, stamp)
        PROVE  Atomic!Claim(u, stamp)
    BY <1>2, <2>2 DEF Atomic!Claim, Registers
  <2>3. ASSUME Registers[u].phase = "held",
               NEW stamp \in Registers[u].stamp + 1
                               .. (IF now > Registers[u].stamp THEN now
                                                               ELSE Registers[u].stamp + 1),
               y = Atomic!Held(Registers[u].tries, stamp)
        PROVE  Atomic!Renew(u)
    BY <1>2, <2>3 DEF Atomic!Renew, Registers
  <2>4. CASE /\ Registers[u].phase = "held" /\ Registers[u].tries < MaxTries
             /\ y = Atomic!Free(Registers[u].tries)
    BY <1>2, <2>4 DEF Atomic!Release, Registers
  <2>5. CASE Registers[u].phase \in {"free", "held"} /\ y = Atomic!Closed
    BY <1>2, <2>5 DEF Atomic!Close, Registers
  <2>6. QED
    BY <2>1, <2>2, <2>3, <2>4, <2>5 DEF Moves
<1>4. QED
  BY <1>1, <1>3 DEF Atomic!Next, Registers

LEMMA RegistersStay ==
    ASSUME Registers' = Registers, now' = now
    PROVE  [Atomic!Next]_(Atomic!vars)
BY DEF Registers, Atomic!vars

LEMMA ScriptActs ==
    ASSUME AtomicInv, NEW k \in Caller, ScriptStep(k)
    PROVE  [Atomic!Next]_(Atomic!vars)
<1>1. KeysInv /\ call[k].pc \in InScript /\ Attempt(call[k], now)
  BY DEF AtomicInv, AttemptsFit, ScriptStep, RunScript, AnswerLost, AnswerSwallowed, InScript
<1>2. call[k] \in CallType /\ call[k].uuid \in Letter
  BY <1>1, CallRead DEF InScript, CallType
<1>3. db.letters \in [Letter -> RowType] /\ now \in Nat /\ now >= 1
  BY <1>1 DEF AtomicInv, KeysInv, TypeOK, DbType
<1>4. now' = now
  BY DEF ScriptStep, RunScript, AnswerLost, AnswerSwallowed, Fault
<1>5. db'.letters = db.letters \/ Writes(db, call[k], db')
  BY <1>1, ScriptEffect DEF ScriptStep, RunScript, AnswerLost, AnswerSwallowed
<1>6. CASE db'.letters = db.letters
  BY <1>4, <1>6, RegistersStay DEF Registers
<1>7. ASSUME NEW new \in RowType,
             Written(call[k], db.letters[call[k].uuid], new),
             db'.letters = [db.letters EXCEPT ![call[k].uuid] = new]
      PROVE  [Atomic!Next]_(Atomic!vars)
  <2> DEFINE u == call[k].uuid
             x == RegisterOf(db.letters[u])
             y == RegisterOf(new)
  <2>1. call[k].op = "push" => db.letters[u].status = "none"
    BY <1>1 DEF AtomicInv, PushesFit, Pushing
  <2>2. db.letters[u].isSent => ~db.letters[u].isSending
    BY <1>2 DEF AtomicInv, SentIsFree
  <2>3. x = y \/ Moves(x, y, now)
    BY <1>1, <1>2, <1>3, <1>7, <2>1, <2>2, WrittenMoves
  <2>4. Registers' = [Registers EXCEPT ![u] = y] /\ Registers[u] = x
    BY <1>2, <1>3, <1>7 DEF Registers
  <2>5. u \in Letter
    BY <1>2
  <2> HIDE DEF u, x, y
  <2>6. CASE x = y
    <3>1. Registers' = Registers
      BY <2>4, <2>6 DEF Registers
    <3>2. QED
      BY <1>4, <3>1, RegistersStay
  <2>7. CASE x # y
    BY <1>4, <2>3, <2>4, <2>5, <2>7, MoveIsStep
  <2>8. QED
    BY <2>6, <2>7
<1>8. QED
  BY <1>5, <1>6, <1>7 DEF Writes

\* Every other step leaves the letters alone.
LEMMA StepActs ==
    ASSUME AtomicInv, [Next]_vars
    PROVE  [Atomic!Next]_(Atomic!vars)
<1>1. KeysInv /\ now \in Nat /\ Fits(db) /\ db \in DbType
  BY DEF AtomicInv, KeysInv, TypeOK, Fits
<1>2. CASE db'.letters = db.letters /\ now' = now
  BY <1>2, RegistersStay DEF Registers
<1>3. ASSUME NEW w \in Worker, Scan(w) \/ ScanLost(w)
      PROVE  db'.letters = db.letters /\ now' = now
  BY <1>1, <1>3, ScanEffect DEF Scan, ScanLost, Fault
<1>4. CASE Tick
  <2>1. now' = now + 1 /\ db'.letters = db.letters
    BY <1>1, <1>4 DEF Tick, DbType
  <2>2. Atomic!Pass
    BY <2>1 DEF Atomic!Pass
  <2>3. QED
    BY <2>2 DEF Atomic!Next
<1>5. ASSUME NEW w \in Worker, Dispatch(w) \/ \E op \in SendOps : StartWrite(w, op)
      PROVE  UNCHANGED <<db, now>>
  BY <1>5 DEF Dispatch, StartWrite, Begin
<1>6. ASSUME NEW s \in Sender, SenderStep(s)
      PROVE  UNCHANGED <<db, now>>
  BY <1>6 DEF SenderStep, StartPush, StartCancel, LookUp, ReadPending, Begin
<1>7. ASSUME NEW c \in Client, Crash(c)
      PROVE  UNCHANGED <<db, now>>
  BY <1>7 DEF Crash
<1>8. QED
  BY <1>2, <1>3, <1>4, <1>5, <1>6, <1>7, ScriptActs DEF Next, WorkerStep, vars

\* Every call, with its round trips, its lost answers and its repetitions, acts like one
\* atomic operation on the letter, if no push is executed twice: the storage that the
\* send lifecycle assumes.
THEOREM TaggedActsAtomically ==
    ASSUME "push" \notin RerunOps
    PROVE  Spec => ActsAtomically
<1>1. Init => Atomic!Init
  <2> SUFFICES ASSUME Init PROVE Atomic!Init
    OBVIOUS
  <2>1. NewRow("none", 0) \in RowType /\ NewRow("none", 0).status = "none"
    BY NewRowType DEF RowStatus
  <2>2. RegisterOf(NewRow("none", 0)) = Atomic!Absent
    BY <2>1, RegisterIs
  <2>3. now = 1 /\ db.letters = [u \in Letter |-> NewRow("none", 0)]
    BY DEF Init
  <2>4. QED
    BY <2>2, <2>3 DEF Atomic!Init
<1>2. AtomicInv /\ [Next]_vars => [Atomic!Next]_(Atomic!vars)
  BY StepActs
<1>3. QED
  BY <1>1, <1>2, AtomicInductive, PTL DEF Spec, ActsAtomically, Atomic!Spec
=============================================================================
