----------------------------- MODULE Migration -----------------------------
(***************************************************************************)
(* scripts/migrate-redis-queue-to-cluster.mjs: the letters of a prefix and  *)
(* their concat pointers are copied from the standalone layout of a Redis   *)
(* to the hash-tag layout of a cluster, command by command and without a    *)
(* transaction.  The script may die after any command, and is run again,    *)
(* with --overwrite if it left something behind.                            *)
(*                                                                         *)
(* As docs/migration-v5-v5.1.md asks, producers and workers are stopped     *)
(* while the script runs, and nothing uses the target before it is done;    *)
(* between two runs the source may be back in use (the rollback of that     *)
(* page), so that a second run may find it changed.  Time passes and        *)
(* pointers expire on both sides at any moment.  Names X_... after a        *)
(* definition X are slips a maintainer could make in X.                     *)
(***************************************************************************)
EXTENDS QueueRow

CONSTANTS Letter,     \* uuids
          Address,    \* addressees with a pointer
          To,         \* `to` of a letter
          Lead,       \* a pointer expires so long before its letter is due
          Delay,      \* concatDelay: from sendMail() to sendAt
          MaxTime,    \* bound: the last instant of a behaviour
          MaxCrashes  \* bound: runs that die

ASSUME ToAssumption == To \in [Letter -> Address]
ASSUME DelayAssumption == Lead \in Nat /\ Delay \in Nat /\ Lead < Delay
ASSUME BoundsAssumption == MaxTime \in Nat /\ MaxCrashes \in Nat

VARIABLES
    now,      \* time
    source,   \* the letters and the pointers of the source
    target,   \* letters, schedule, pointers and concatkeys of the target
    run,      \* where the script is
    crashes   \* crashes that may still happen

vars == <<now, source, target, run, crashes>>

-----------------------------------------------------------------------------
\* until = 0: there is no such key; a pointer that has expired on the source keeps
\* the uuid, for the properties only.
NoPointer == [uuid |-> "none", until |-> 0]

NoLetters == [u \in Letter |-> NewRow("none", 0)]

NoTarget == [letters |-> NoLetters,
             schedule |-> [u \in Letter |-> 0],
             pointer |-> [a \in Address |-> NoPointer],
             concatkeys |-> [a \in Address |-> 0]]

\* left: keys the scan has not returned yet
\* key:  the letter or the addressee in hand, with what was read of it
Stopped == [pc |-> "stopped", left |-> {}]

Init ==
    /\ now = 1
    /\ source = [letters |-> NoLetters, pointer |-> [a \in Address |-> NoPointer]]
    /\ target = NoTarget
    /\ run = Stopped
    /\ crashes = MaxCrashes

Stored(letters) == {u \in Letter : letters[u].status = "stored"}

Pointing(pointer) == {a \in Address : pointer[a].until # 0}

-----------------------------------------------------------------------------
(* The source, while the script is stopped.                                *)

\* RedisQueue.push of a letter that may be folded into.
Push(u) ==
    LET sendAt == now + Delay IN
    /\ run.pc = "stopped"
    /\ source.letters[u].status = "none"
    /\ source' = [source EXCEPT
         !.letters[u] = NewRow("stored", sendAt),
         !.pointer[To[u]] = [uuid |-> u, until |-> sendAt - Lead]]
    /\ UNCHANGED <<now, target, run, crashes>>

\* A worker claims a letter, puts it back, ends it and keeps or deletes it.
Work(u) ==
    LET r == source.letters[u]
        becomes(s) == source' = [source EXCEPT !.letters[u] = s]
    IN  /\ run.pc = "stopped"
        /\ \/ Eligible(r, now) /\ becomes(Claimed(r, r.tries + 1, now))
           \/ Open(r) /\ r.isSending
              /\ (becomes(Retried(r, now + 1)) \/ becomes(Sent(r, {})) \/ becomes(Removed(r)))
        /\ UNCHANGED <<now, target, run, crashes>>

-----------------------------------------------------------------------------
(* The script.                                                             *)

NextEligibleAt_SendAt(r) == IF Open(r) THEN r.sendAt ELSE 0

\* nextEligibleAt; 0: null.
NextEligibleAt(r) ==
    IF ~Open(r) THEN 0
    ELSE IF r.isSending THEN r.sendingAt + SendingTimeout ELSE r.sendAt

Tracked(t) == {a \in Address : t.concatkeys[a] # 0}

\* The keys of expired pointers leave concatkeys; then the run is refused, or the
\* old contents are deleted first, or the copy begins.
Start(overwrite) ==
    LET live == [target EXCEPT !.concatkeys = [a \in Address |->
                    IF a \in Pointing(target.pointer) THEN @[a] ELSE 0]]
        hasData == \/ Stored(live.letters) # {} \/ Tracked(live) # {}
                   \/ \E u \in Letter : live.schedule[u] # 0
    IN  /\ run.pc = "stopped"
        /\ target' = live
        /\ run' = IF hasData
                  THEN IF overwrite THEN [pc |-> "wipe", left |-> {}] ELSE Stopped
                  ELSE [pc |-> "letters", left |-> Stored(source.letters)]
        /\ UNCHANGED <<now, source, crashes>>

\* DEL of the pointers that concatkeys knows.
WipePointers ==
    /\ run.pc = "wipe"
    /\ target' = [target EXCEPT !.pointer = [a \in Address |->
                     IF a \in Tracked(target) THEN NoPointer ELSE @[a]]]
    /\ run' = [run EXCEPT !.pc = "wiped"]
    /\ UNCHANGED <<now, source, crashes>>

\* One DEL of the three keys.
Emptied(t) == [NoTarget EXCEPT !.pointer = t.pointer]

WipeLetters ==
    /\ run.pc = "wiped"
    /\ target' = Emptied(target)
    /\ run' = [pc |-> "letters", left |-> Stored(source.letters)]
    /\ UNCHANGED <<now, source, crashes>>

\* GET and HSET of a letter that SCAN returned.
CopyLetter(u) ==
    /\ run.pc = "letters"
    /\ u \in run.left
    /\ target' = [target EXCEPT !.letters[u] = source.letters[u]]
    /\ run' = [pc |-> "schedule", left |-> run.left \ {u}, key |-> u]
    /\ UNCHANGED <<now, source, crashes>>

\* ZADD, unless the letter is over.
ScheduleLetter ==
    LET at == NextEligibleAt(source.letters[run.key]) IN
    /\ run.pc = "schedule"
    /\ target' = [target EXCEPT !.schedule[run.key] = IF at = 0 THEN @ ELSE at]
    /\ run' = [pc |-> "letters", left |-> run.left]
    /\ UNCHANGED <<now, source, crashes>>

ScanPointers ==
    /\ run.pc = "letters" /\ run.left = {}
    /\ run' = [pc |-> "pointers", left |-> Pointing(source.pointer)]
    /\ UNCHANGED <<now, source, target, crashes>>

\* GET and PTTL of a pointer; one that has expired since SCAN returned it, or is
\* in its last millisecond, is passed over.
ReadPointer(a) ==
    LET p == source.pointer[a] IN
    /\ run.pc = "pointers"
    /\ a \in run.left
    /\ run' = IF p.until <= now THEN [run EXCEPT !.left = @ \ {a}]
              ELSE [pc |-> "pointer", left |-> run.left \ {a}, key |-> a,
                    uuid |-> p.uuid, ttl |-> p.until - now]
    /\ UNCHANGED <<now, source, target, crashes>>

\* SET with what was left of its life when it was read.
CopyPointer ==
    /\ run.pc = "pointer"
    /\ target' = [target EXCEPT !.pointer[run.key] =
                     [uuid |-> run.uuid, until |-> now + run.ttl]]
    /\ run' = [run EXCEPT !.pc = "track"]
    /\ UNCHANGED <<now, source, crashes>>

Track(t, a, ttl) == [t EXCEPT !.concatkeys[a] = now + ttl]

\* ZADD of the pointer.
TrackPointer ==
    /\ run.pc = "track"
    /\ target' = Track(target, run.key, run.ttl)
    /\ run' = [pc |-> "pointers", left |-> run.left]
    /\ UNCHANGED <<now, source, crashes>>

Done ==
    /\ run.pc = "pointers" /\ run.left = {}
    /\ run' = [pc |-> "done", left |-> {}]
    /\ UNCHANGED <<now, source, target, crashes>>

\* The migration is not kept: the source is used again.
RollBack ==
    /\ run.pc = "done"
    /\ run' = Stopped
    /\ UNCHANGED <<now, source, target, crashes>>

Crash ==
    /\ crashes > 0
    /\ run.pc \notin {"stopped", "done"}
    /\ crashes' = crashes - 1
    /\ run' = Stopped
    /\ UNCHANGED <<now, source, target>>

-----------------------------------------------------------------------------
Expired(pointer) ==
    [a \in Address |-> IF pointer[a].until < now' THEN [pointer[a] EXCEPT !.until = 0]
                       ELSE pointer[a]]

Tick ==
    /\ now < MaxTime
    /\ now' = now + 1
    /\ source' = [source EXCEPT !.pointer = Expired(@)]
    /\ target' = [target EXCEPT !.pointer = Expired(@)]
    /\ UNCHANGED <<run, crashes>>

Script ==
    \/ \E overwrite \in BOOLEAN : Start(overwrite)
    \/ WipePointers \/ WipeLetters \/ ScheduleLetter \/ ScanPointers
    \/ CopyPointer \/ TrackPointer \/ Done
    \/ \E u \in Letter : CopyLetter(u)
    \/ \E a \in Address : ReadPointer(a)

Next ==
    \/ \E u \in Letter : Push(u) \/ Work(u)
    \/ Script \/ Crash \/ RollBack \/ Tick

Spec == Init /\ [][Next]_vars

-----------------------------------------------------------------------------
\* When the script is done the target holds the letters of the source and no
\* others, whatever earlier runs left there, and its workers will find each open
\* one when the source's would have; at no time is there an entry in the schedule
\* without its letter.
LettersAgree ==
    /\ run.pc = "done" =>
         \A u \in Letter :
           LET r == source.letters[u] IN
           IF r.status = "stored"
           THEN /\ target.letters[u] = r
                /\ Open(r) /\ r.isSending  => target.schedule[u] = r.sendingAt + SendingTimeout
                /\ Open(r) /\ ~r.isSending => target.schedule[u] = r.sendAt
                /\ ~Open(r)                => target.schedule[u] = 0
           ELSE target.letters[u].status # "stored"
    /\ \A u \in Letter : target.schedule[u] # 0 => target.letters[u].status = "stored"

\* When the script is done a mail is folded into the letter it would be folded
\* into on the source or, as the script takes time, would have been a moment ago;
\* a scan removes the pointer no earlier than it expires.  A pointer that a run
\* left untracked when it died leads to no other letter (a pointer in its last
\* instant is not counted).
PointersAgree ==
    run.pc = "done" =>
      \A a \in Address :
        LET p == source.pointer[a]
            q == target.pointer[a]
        IN  /\ q.until > now => q.uuid = p.uuid
            /\ p.until > now => q.until >= p.until /\ target.concatkeys[a] >= q.until

\* docs/migration-v5-v5.1.md:37: the target takes over where the source stopped,
\* however many runs it took and whatever they left behind.
Migrated == LettersAgree /\ PointersAgree
=============================================================================
