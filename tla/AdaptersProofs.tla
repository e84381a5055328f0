--------------------------- MODULE AdaptersProofs ---------------------------
(***************************************************************************)
(* The adapters agree with QueueRow, and so with each other; and letters   *)
(* that the migration script moved from one layout of Redis to the other   *)
(* are still there, and are found by the same scans.                       *)
(***************************************************************************)
EXTENDS Adapters, Migration, TLAPS

-----------------------------------------------------------------------------
(* The queries and updates of the adapters.                                *)

LEMMA RowRead ==
    ASSUME NEW d \in Document
    PROVE  /\ d.row \in RowType
           /\ AsRow(d) \in RowType
           /\ IsSending(d) \in BOOLEAN /\ SendingAt(d) \in Nat
           /\ AsRow(d).isSending = IsSending(d)
           /\ AsRow(d).sendingAt = SendingAt(d)
           /\ AsRow(d).status = d.row.status
           /\ AsRow(d).tries = d.row.tries /\ AsRow(d).sendAt = d.row.sendAt
           /\ AsRow(d).isSent = d.row.isSent
           /\ AsRow(d).isFailed = d.row.isFailed
           /\ AsRow(d).isCancelled = d.row.isCancelled
<1>1. d.row \in RowType
  BY DEF Document
<1>2. IsSending(d) \in BOOLEAN /\ SendingAt(d) \in Nat
  BY <1>1 DEF IsSending, SendingAt, RowType
<1>3. QED
  BY <1>1, <1>2 DEF AsRow, RowType

\* Every scan returns the rows that QueueRow calls eligible, and no others, also
\* among letters of version 3 - if a letter that is locked has its stamp (MongoDB)
\* and, in Redis, if the score in which the scan looks is not later than the row is
\* eligible, and a claimed row was due when it was claimed.
THEOREM ScansAgree ==
    ASSUME NEW d \in Document, NEW at \in Nat, NEW score \in Nat,
           IsSending(d) => Has(d, "sendingAt"),
           Eligible(AsRow(d), at) => score <= at,
           IsSending(d) => d.row.sendAt <= SendingAt(d)
    PROVE  /\ MongoIterate(d, at) <=> Eligible(AsRow(d), at)
           /\ PostgresIterate(AsRow(d), at) <=> Eligible(AsRow(d), at)
           /\ StandaloneIterate(d, d.row.sendAt, at) <=> Eligible(AsRow(d), at)
           /\ TaggedIterate(d, score, at) <=> Eligible(AsRow(d), at)
<1> USE SendingTimeoutAssumption, MaxTriesAssumption, RowRead
<1>1. AsRow(d) \in RowType /\ d.row \in RowType
  OBVIOUS
<1>2. MongoIterate(d, at) <=> Eligible(AsRow(d), at)
  BY <1>1 DEF MongoIterate, MongoOpen, MongoTakeable, MongoNotSending, Found,
        Eligible, Open, Takeable, IsSending, SendingAt, RowType
<1>3. PostgresIterate(AsRow(d), at) <=> Eligible(AsRow(d), at)
  BY <1>1 DEF PostgresIterate, PostgresOpen, Eligible, Open, Takeable
<1>4. StandaloneIterate(d, d.row.sendAt, at) <=> Eligible(AsRow(d), at)
  BY <1>1 DEF StandaloneIterate, IterateCandidate, Closed, Found, Eligible, Open,
        Takeable, RowType
<1>5. TaggedIterate(d, score, at) <=> Eligible(AsRow(d), at)
  BY <1>1 DEF TaggedIterate, TaggedReturned, IterateCandidate, Closed, Found,
        Eligible, Open, Takeable, RowType
<1>6. QED
  BY <1>2, <1>3, <1>4, <1>5

\* The compare-and-set of the claim is the same everywhere.
THEOREM ClaimsAgree ==
    ASSUME NEW d \in Document, NEW tries \in Nat, NEW stamp \in Nat,
           IsSending(d) => Has(d, "sendingAt")
    PROVE  /\ MongoClaim(d, tries, stamp) <=> CanClaim(AsRow(d), tries, stamp)
           /\ PostgresClaim(AsRow(d), tries, stamp) <=> CanClaim(AsRow(d), tries, stamp)
           /\ RedisClaim(d, tries, stamp) <=> CanClaim(AsRow(d), tries, stamp)
<1> USE SendingTimeoutAssumption, RowRead
<1>1. AsRow(d) \in RowType /\ d.row \in RowType
  OBVIOUS
<1>2. MongoClaim(d, tries, stamp) <=> CanClaim(AsRow(d), tries, stamp)
  BY <1>1 DEF MongoClaim, MongoOpen, MongoTakeable, MongoNotSending, Found,
        CanClaim, Open, Takeable, IsSending, SendingAt, RowType
<1>3. PostgresClaim(AsRow(d), tries, stamp) <=> CanClaim(AsRow(d), tries, stamp)
  BY <1>1 DEF PostgresClaim, PostgresOpen, CanClaim, Open, Takeable
<1>4. RedisClaim(d, tries, stamp) <=> CanClaim(AsRow(d), tries, stamp)
  BY <1>1 DEF RedisClaim, Closed, Found, CanClaim, Open, Takeable, RowType
<1>5. QED
  BY <1>2, <1>3, <1>4

\* So is the guard of the writes that follow a claim; only a stamp of 0, which no
\* claim writes, could tell a letter without one apart.
THEOREM LeasesAgree ==
    ASSUME NEW d \in Document, NEW tries \in Nat, NEW sendingAt \in Nat \ {0}
    PROVE  /\ MongoLease(d, tries, sendingAt) <=> HoldsLease(AsRow(d), tries, sendingAt)
           /\ PostgresLease(AsRow(d), tries, sendingAt)
                <=> HoldsLease(AsRow(d), tries, sendingAt)
           /\ RedisLease(d, tries, sendingAt) <=> HoldsLease(AsRow(d), tries, sendingAt)
<1> USE RowRead
<1>1. AsRow(d) \in RowType /\ d.row \in RowType
  OBVIOUS
<1>2. MongoLease(d, tries, sendingAt) <=> HoldsLease(AsRow(d), tries, sendingAt)
  BY <1>1 DEF MongoLease, Found, HoldsLease, IsSending, SendingAt, RowType
<1>3. PostgresLease(AsRow(d), tries, sendingAt) <=> HoldsLease(AsRow(d), tries, sendingAt)
  BY <1>1 DEF PostgresLease, HoldsLease
<1>4. RedisLease(d, tries, sendingAt) <=> HoldsLease(AsRow(d), tries, sendingAt)
  BY <1>1 DEF RedisLease, Found, HoldsLease
<1>5. QED
  BY <1>2, <1>3, <1>4

\* All fold mails into the same letters: open ones that nobody sends.
THEOREM FoldsAgree ==
    ASSUME NEW d \in Document, NEW sendAt \in Nat
    PROVE  LET free == Open(AsRow(d)) /\ ~AsRow(d).isSending
               pending == free /\ AsRow(d).tries < MaxTries /\ AsRow(d).sendAt <= sendAt
           IN  /\ MongoAppend(d) <=> free
               /\ PostgresAppend(AsRow(d)) <=> free
               /\ RedisAppend(d) <=> free
               /\ MongoPending(d, sendAt) <=> pending
               /\ PostgresPending(AsRow(d), sendAt) <=> pending
               /\ RedisPending(d, sendAt) <=> pending
<1>1. AsRow(d) \in RowType /\ d.row \in RowType
  BY RowRead
<1>2. MongoAppend(d) <=> Open(AsRow(d)) /\ ~AsRow(d).isSending
  BY <1>1, RowRead DEF MongoAppend, MongoOpen, MongoNotSending, Found, Open, IsSending
<1>3. PostgresAppend(AsRow(d)) <=> Open(AsRow(d)) /\ ~AsRow(d).isSending
  BY DEF PostgresAppend, PostgresOpen, Open
<1>4. RedisAppend(d) <=> Open(AsRow(d)) /\ ~AsRow(d).isSending
  BY <1>1, RowRead DEF RedisAppend, Closed, Found, Open
<1>5. QED
  BY <1>1, <1>2, <1>3, <1>4, RowRead, MaxTriesAssumption
     DEF MongoPending, PostgresPending, PostgresOpen, RedisPending, RedisAppend, Closed,
         Found, Open, RowType

-----------------------------------------------------------------------------
(* Which guard an update gets, and what it makes of a row.                 *)

LEMMA WithLeaseFields ==
    ASSUME NEW task, task.isSending, NEW u
    PROVE  /\ DOMAIN WithLease(task, u) = DOMAIN u \cup LeaseFields
           /\ \A f \in DOMAIN u \ LeaseFields : WithLease(task, u)[f] = u[f]
BY DEF WithLease, LeaseFields

LEMMA LeaseOfUpdate ==
    ASSUME NEW task, task.isSending, NEW u, "appendMailOption" \notin DOMAIN u,
           "tries" \notin DOMAIN u
    PROVE  Guard(WithLease(task, u)) = "lease"
<1>1. DOMAIN WithLease(task, u) = DOMAIN u \cup LeaseFields
  BY WithLeaseFields
<1>2. /\ "appendMailOption" \notin DOMAIN WithLease(task, u)
      /\ "tries" \notin DOMAIN WithLease(task, u)
      /\ LeaseFields \subseteq DOMAIN WithLease(task, u)
  BY <1>1 DEF LeaseFields
<1>3. QED
  BY <1>2 DEF Guard

RowFields == {"status", "tries", "isSending", "sendingAt", "sendAt", "isSent", "isFailed",
              "isCancelled", "accepted"}

\* The fields of the lease are not stored.
LEMMA MergedIs ==
    ASSUME NEW r \in RowType, NEW task, NEW u, DOMAIN u \cap MetaFields = {}
    PROVE  /\ Merged(r, u) = [f \in RowFields |-> IF f \in DOMAIN u THEN u[f] ELSE r[f]]
           /\ Merged(r, WithLease(task, u)) = Merged(r, u)
<1> DEFINE w == WithLease(task, u)
<1>0. DOMAIN r = RowFields
  BY DEF RowType, RowFields
<1>1. Merged(r, u) = [f \in RowFields |-> IF f \in DOMAIN u THEN u[f] ELSE r[f]]
  BY <1>0 DEF Merged, StripInternalUpdateMeta
<1>2. CASE task.isSending
  <2>1. DOMAIN u \ LeaseFields = DOMAIN u
    BY DEF MetaFields
  <2>2. DOMAIN w = DOMAIN u \cup LeaseFields /\ \A f \in DOMAIN u : w[f] = u[f]
    BY <1>2, <2>1, WithLeaseFields
  <2> HIDE DEF w
  <2>3. DOMAIN w \ MetaFields = DOMAIN u \ MetaFields
    BY <2>2 DEF MetaFields
  <2>4. StripInternalUpdateMeta(w) = StripInternalUpdateMeta(u)
    BY <2>2, <2>3 DEF StripInternalUpdateMeta
  <2>5. QED
    BY <1>1, <2>4 DEF Merged, w
<1>3. CASE ~task.isSending
  BY <1>1, <1>3 DEF WithLease
<1>4. QED
  BY <1>1, <1>2, <1>3

\* Every write that a worker makes after its claim is guarded by its lease, whatever
\* the adapter, and only the claim by the claim's compare-and-set: a renewal, which
\* also sets isSending, is not taken for a claim.
THEOREM GuardsChosen ==
    ASSUME NEW task, task.isSending, NEW n \in Nat, NEW at \in Nat,
           NEW accepted \in SUBSET Recipient
    PROVE  /\ Guard(ClaimUpdate(n, at)) = "claim"
           /\ Guard(WithLease(task, RenewUpdate(at))) = "lease"
           /\ Guard(WithLease(task, RetryUpdate(at))) = "lease"
           /\ Guard(WithLease(task, ReleaseUpdate(at, accepted))) = "lease"
           /\ Guard(WithLease(task, SentUpdate(accepted))) = "lease"
           /\ Guard(WithLease(task, FailedUpdate(accepted))) = "lease"
           /\ Guard(CancelUpdate) = "plain"
<1>1. Guard(ClaimUpdate(n, at)) = "claim"
  BY DEF Guard, ClaimUpdate
<1>2. Guard(CancelUpdate) = "plain"
  BY DEF Guard, CancelUpdate, LeaseFields
<1>3. /\ Guard(WithLease(task, RenewUpdate(at))) = "lease"
      /\ Guard(WithLease(task, RetryUpdate(at))) = "lease"
      /\ Guard(WithLease(task, ReleaseUpdate(at, accepted))) = "lease"
      /\ Guard(WithLease(task, SentUpdate(accepted))) = "lease"
      /\ Guard(WithLease(task, FailedUpdate(accepted))) = "lease"
  BY LeaseOfUpdate
     DEF RenewUpdate, RetryUpdate, ReleaseUpdate, SentUpdate, FailedUpdate
<1>4. QED
  BY <1>1, <1>2, <1>3

\* What an update makes of a row is what QueueRow says.
THEOREM UpdatesAgree ==
    ASSUME NEW r \in RowType, NEW task, NEW n \in Nat, NEW at \in Nat,
           NEW accepted \in SUBSET Recipient
    PROVE  /\ Merged(r, ClaimUpdate(n, at)) = Claimed(r, n, at)
           /\ Merged(r, WithLease(task, RenewUpdate(at))) = Renewed(r, at)
           /\ Merged(r, WithLease(task, RetryUpdate(at))) = Retried(r, at)
           /\ Merged(r, WithLease(task, ReleaseUpdate(at, accepted)))
                = Released(r, at, accepted)
           /\ Merged(r, WithLease(task, SentUpdate(accepted))) = Sent(r, accepted)
           /\ Merged(r, WithLease(task, FailedUpdate(accepted))) = Failed(r, accepted)
           /\ Merged(r, CancelUpdate) = Cancelled(r)
<1>1. Merged(r, ClaimUpdate(n, at)) = Claimed(r, n, at)
  <2> DEFINE u == ClaimUpdate(n, at)  c == Claimed(r, n, at)
  <2>1. DOMAIN r = RowFields /\ DOMAIN c = RowFields /\ c = [f \in DOMAIN c |-> c[f]]
    BY DEF RowType, RowFields, Claimed
  <2>2. DOMAIN u = {"isSending", "sendingAt", "tries"}
    BY DEF ClaimUpdate
  <2>3. /\ Merged(r, ClaimUpdate(n, at)) = Merged(r, u)
        /\ Merged(r, u) = [f \in RowFields |-> IF f \in DOMAIN u THEN u[f] ELSE r[f]]
    BY <2>2, MergedIs DEF MetaFields, LeaseFields
  <2>4. \A f \in RowFields : Merged(r, u)[f] = c[f]
    BY <2>1, <2>2, <2>3 DEF Claimed, ClaimUpdate, RowType, RowFields
  <2>5. QED
    BY <2>1, <2>3, <2>4
<1>2. Merged(r, WithLease(task, RenewUpdate(at))) = Renewed(r, at)
  <2> DEFINE u == RenewUpdate(at)  c == Renewed(r, at)
  <2>1. DOMAIN r = RowFields /\ DOMAIN c = RowFields /\ c = [f \in DOMAIN c |-> c[f]]
    BY DEF RowType, RowFields, Renewed
  <2>2. DOMAIN u = {"isSending", "sendingAt"}
    BY DEF RenewUpdate
  <2>3. /\ Merged(r, WithLease(task, RenewUpdate(at))) = Merged(r, u)
        /\ Merged(r, u) = [f \in RowFields |-> IF f \in DOMAIN u THEN u[f] ELSE r[f]]
    BY <2>2, MergedIs DEF MetaFields, LeaseFields
  <2>4. \A f \in RowFields : Merged(r, u)[f] = c[f]
    BY <2>1, <2>2, <2>3 DEF Renewed, RenewUpdate, RowType, RowFields
  <2>5. QED
    BY <2>1, <2>3, <2>4
<1>3. Merged(r, WithLease(task, RetryUpdate(at))) = Retried(r, at)
  <2> DEFINE u == RetryUpdate(at)  c == Retried(r, at)
  <2>1. DOMAIN r = RowFields /\ DOMAIN c = RowFields /\ c = [f \in DOMAIN c |-> c[f]]
    BY DEF RowType, RowFields, Retried
  <2>2. DOMAIN u = {"isSending", "sendingAt", "sendAt"}
    BY DEF RetryUpdate
  <2>3. /\ Merged(r, WithLease(task, RetryUpdate(at))) = Merged(r, u)
        /\ Merged(r, u) = [f \in RowFields |-> IF f \in DOMAIN u THEN u[f] ELSE r[f]]
    BY <2>2, MergedIs DEF MetaFields, LeaseFields
  <2>4. \A f \in RowFields : Merged(r, u)[f] = c[f]
    BY <2>1, <2>2, <2>3, ZenonT(60) DEF Retried, RetryUpdate, RowType, RowFields
  <2>5. QED
    BY <2>1, <2>3, <2>4
<1>4. Merged(r, WithLease(task, ReleaseUpdate(at, accepted))) = Released(r, at, accepted)
  <2> DEFINE u == ReleaseUpdate(at, accepted)  c == Released(r, at, accepted)
  <2>1. DOMAIN r = RowFields /\ DOMAIN c = RowFields /\ c = [f \in DOMAIN c |-> c[f]]
    BY DEF RowType, RowFields, Released
  <2>2. DOMAIN u = {"isSending", "sendingAt", "sendAt", "accepted"}
    BY DEF ReleaseUpdate
  <2>3. /\ Merged(r, WithLease(task, ReleaseUpdate(at, accepted))) = Merged(r, u)
        /\ Merged(r, u) = [f \in RowFields |-> IF f \in DOMAIN u THEN u[f] ELSE r[f]]
    BY <2>2, MergedIs DEF MetaFields, LeaseFields
  <2>4. \A f \in RowFields : Merged(r, u)[f] = c[f]
    BY <2>1, <2>2, <2>3, ZenonT(60) DEF Released, ReleaseUpdate, RowType, RowFields
  <2>5. QED
    BY <2>1, <2>3, <2>4
<1>5. Merged(r, WithLease(task, SentUpdate(accepted))) = Sent(r, accepted)
  <2> DEFINE u == SentUpdate(accepted)  c == Sent(r, accepted)
  <2>1. DOMAIN r = RowFields /\ DOMAIN c = RowFields /\ c = [f \in DOMAIN c |-> c[f]]
    BY DEF RowType, RowFields, Sent
  <2>2. DOMAIN u = {"isSent", "isSending", "sendingAt", "accepted"}
    BY DEF SentUpdate
  <2>3. /\ Merged(r, WithLease(task, SentUpdate(accepted))) = Merged(r, u)
        /\ Merged(r, u) = [f \in RowFields |-> IF f \in DOMAIN u THEN u[f] ELSE r[f]]
    BY <2>2, MergedIs DEF MetaFields, LeaseFields
  <2>4. \A f \in RowFields : Merged(r, u)[f] = c[f]
    BY <2>1, <2>2, <2>3, ZenonT(60) DEF Sent, SentUpdate, RowType, RowFields
  <2>5. QED
    BY <2>1, <2>3, <2>4
<1>6. Merged(r, WithLease(task, FailedUpdate(accepted))) = Failed(r, accepted)
  <2> DEFINE u == FailedUpdate(accepted)  c == Failed(r, accepted)
  <2>1. DOMAIN r = RowFields /\ DOMAIN c = RowFields /\ c = [f \in DOMAIN c |-> c[f]]
    BY DEF RowType, RowFields, Failed
  <2>2. DOMAIN u = {"isSent", "isFailed", "isSending", "sendingAt", "accepted"}
    BY DEF FailedUpdate
  <2>3. /\ Merged(r, WithLease(task, FailedUpdate(accepted))) = Merged(r, u)
        /\ Merged(r, u) = [f \in RowFields |-> IF f \in DOMAIN u THEN u[f] ELSE r[f]]
    BY <2>2, MergedIs DEF MetaFields, LeaseFields
  <2>4. \A f \in RowFields : Merged(r, u)[f] = c[f]
    <3>1. \A f \in DOMAIN u : c[f] = u[f]
      <4>1. /\ c.isSent = FALSE /\ c.isFailed = TRUE /\ c.isSending = FALSE
            /\ c.sendingAt = 0 /\ c.accepted = accepted
        BY <2>1 DEF Failed, RowFields
      <4>2. /\ u.isSent = FALSE /\ u.isFailed = TRUE /\ u.isSending = FALSE
            /\ u.sendingAt = 0 /\ u.accepted = accepted
        BY DEF FailedUpdate
      <4> HIDE DEF u, c
      <4>3. QED
        BY <2>2, <4>1, <4>2
    <3>2. \A f \in RowFields \ DOMAIN u : c[f] = r[f]
      BY <2>1, <2>2 DEF Failed, RowFields
    <3> HIDE DEF u, c
    <3>3. QED
      BY <2>3, <3>1, <3>2
  <2>5. QED
    BY <2>1, <2>3, <2>4
<1>7. Merged(r, CancelUpdate) = Cancelled(r)
  <2> DEFINE u == CancelUpdate  c == Cancelled(r)
  <2>1. DOMAIN r = RowFields /\ DOMAIN c = RowFields /\ c = [f \in DOMAIN c |-> c[f]]
    BY DEF RowType, RowFields, Cancelled
  <2>2. DOMAIN u = {"isCancelled"}
    BY DEF CancelUpdate
  <2>3. /\ Merged(r, CancelUpdate) = Merged(r, u)
        /\ Merged(r, u) = [f \in RowFields |-> IF f \in DOMAIN u THEN u[f] ELSE r[f]]
    BY <2>2, MergedIs DEF MetaFields, LeaseFields
  <2>4. \A f \in RowFields : Merged(r, u)[f] = c[f]
    BY <2>1, <2>2, <2>3 DEF Cancelled, CancelUpdate, RowType, RowFields
  <2>5. QED
    BY <2>1, <2>3, <2>4
<1>8. QED
  BY <1>1, <1>2, <1>3, <1>4, <1>5, <1>6, <1>7

-----------------------------------------------------------------------------
(* The migration script.                                                  *)

\* Types of the two sides.
PointerType == [uuid : Letter \cup {"none"}, until : Nat]

TypesFit ==
    /\ now \in Nat
    /\ source \in [letters : [Letter -> RowType], pointer : [Address -> PointerType]]
    /\ target \in [letters : [Letter -> RowType], schedule : [Letter -> Nat],
                   pointer : [Address -> PointerType], concatkeys : [Address -> Nat]]

\* The script with a letter in hand, and with a pointer in hand.
LetterPhase == {"letters", "schedule"}
PointerPhase == {"pointers", "pointer", "track"}

RunFits ==
    /\ run.pc \in {"stopped", "wipe", "wiped", "done"} \cup LetterPhase \cup PointerPhase
    /\ run.pc = "wipe" => run \in [pc : {"wipe"}, left : {{}}]
    /\ run.pc = "letters" => run \in [pc : {"letters"}, left : SUBSET Letter]
    /\ run.pc = "schedule" => run \in [pc : {"schedule"}, left : SUBSET Letter, key : Letter]
    /\ run.pc = "pointers" => run \in [pc : {"pointers"}, left : SUBSET Address]
    /\ run.pc \in {"pointer", "track"} =>
          run \in [pc : {"pointer", "track"}, left : SUBSET Address, key : Address,
                   uuid : Letter \cup {"none"}, ttl : Nat]

\* A letter before it is copied, when its text is, and when its place in the
\* schedule is.
Absent(u) == target.letters[u].status # "stored" /\ target.schedule[u] = 0

Copied(u) ==
    /\ source.letters[u].status = "stored"
    /\ target.letters[u] = source.letters[u]

Moved(u) ==
    IF source.letters[u].status = "stored"
    THEN Copied(u) /\ target.schedule[u] = NextEligibleAt(source.letters[u])
    ELSE Absent(u)

LettersInv ==
    /\ \A u \in Letter : target.schedule[u] # 0 => target.letters[u].status = "stored"
    /\ run.pc \in LetterPhase =>
         \A u \in run.left : source.letters[u].status = "stored" /\ Absent(u)
    /\ run.pc = "schedule" =>
         run.key \notin run.left /\ Copied(run.key) /\ target.schedule[run.key] = 0
    /\ run.pc \in LetterPhase \cup PointerPhase \cup {"done"} =>
         \A u \in Letter : \/ run.pc \in LetterPhase /\ u \in run.left
                           \/ run.pc = "schedule" /\ u = run.key
                           \/ Moved(u)

\* No pointer outlives the one its addressee gets next.
Bounded ==
    \A a \in Address :
      /\ source.pointer[a].until <= now + (Delay - Lead)
      /\ target.pointer[a].until <= now + (Delay - Lead)

\* A pointer of the target that leads elsewhere expires no later than the one of
\* the source.
NotAstray ==
    \A a \in Address :
      LET p == source.pointer[a]
          q == target.pointer[a]
      IN  q.until > now => q.uuid = p.uuid \/ q.until <= p.until

InHand ==
    run.pc \in {"pointer", "track"} =>
      LET p == source.pointer[run.key]
          q == target.pointer[run.key]
      IN  /\ run.uuid = p.uuid
          /\ run.ttl <= Delay - Lead
          /\ p.until > now => p.until <= now + run.ttl
          /\ run.pc = "track" => q.until <= now + run.ttl
          /\ run.pc = "track" /\ p.until > now => q.uuid = p.uuid /\ q.until >= p.until

Handed(a) ==
    LET p == source.pointer[a]
        q == target.pointer[a]
    IN  p.until > now =>
          q.uuid = p.uuid /\ q.until >= p.until /\ target.concatkeys[a] >= q.until

PointersInv ==
    /\ Bounded
    /\ NotAstray
    /\ InHand
    /\ run.pc \in PointerPhase \cup {"done"} =>
         \A a \in Address :
           \/ run.pc \in PointerPhase /\ a \in run.left
           \/ run.pc \in {"pointer", "track"} /\ a = run.key
           \/ Handed(a)

MigrationInv == TypesFit /\ RunFits /\ LettersInv /\ PointersInv

SourceType == [letters : [Letter -> RowType], pointer : [Address -> PointerType]]
TargetType == [letters : [Letter -> RowType], schedule : [Letter -> Nat],
               pointer : [Address -> PointerType], concatkeys : [Address -> Nat]]

LEMMA NewRows ==
    ASSUME NEW at \in Nat
    PROVE  /\ NewRow("none", at) \in RowType /\ NewRow("stored", at) \in RowType
           /\ NewRow("none", at).status = "none"
BY DEF NewRow, RowType, RowStatus

LEMMA RowsOfLetters ==
    ASSUME NEW r \in RowType, NEW at \in Nat, NEW tries \in Nat
    PROVE  /\ Claimed(r, tries, at) \in RowType /\ Retried(r, at) \in RowType
           /\ Sent(r, {}) \in RowType /\ Removed(r) \in RowType
           /\ NextEligibleAt(r) \in Nat
<1>1. /\ Claimed(r, tries, at) \in RowType /\ Retried(r, at) \in RowType
      /\ Sent(r, {}) \in RowType /\ Removed(r) \in RowType
  BY DEF Claimed, Retried, Sent, Removed, RowType, RowStatus
<1>2. NextEligibleAt(r) \in Nat
  BY SendingTimeoutAssumption DEF NextEligibleAt, RowType
<1>3. QED
  BY <1>1, <1>2

LEMMA Nothing ==
    /\ NoPointer \in PointerType /\ NoPointer.until = 0
    /\ NoTarget \in TargetType
    /\ \A u \in Letter : NoTarget.letters[u].status = "none" /\ NoTarget.schedule[u] = 0
    /\ NoLetters \in [Letter -> RowType]
    /\ NoTarget.pointer = [a \in Address |-> NoPointer]
<1>1. NoPointer \in PointerType /\ NoPointer.until = 0
  BY DEF NoPointer, PointerType
<1>2. PICK row : row = NewRow("none", 0) /\ row \in RowType /\ row.status = "none"
  BY NewRows
<1>3. NoLetters = [u \in Letter |-> row]
  BY <1>2 DEF NoLetters
<1>4. NoTarget = [letters |-> [u \in Letter |-> row], schedule |-> [u \in Letter |-> 0],
                  pointer |-> [a \in Address |-> NoPointer],
                  concatkeys |-> [a \in Address |-> 0]]
  BY <1>3 DEF NoTarget
<1> HIDE DEF NoPointer
<1>5. QED
  BY <1>1, <1>2, <1>3, <1>4 DEF TargetType

-----------------------------------------------------------------------------
(* What each step makes of each part.                                      *)

LEMMA PushMakes ==
    ASSUME TypesFit, NEW u \in Letter, Push(u)
    PROVE  /\ run.pc = "stopped" /\ run' = run /\ now' = now /\ target' = target
           /\ To[u] \in Address
           /\ source' \in SourceType
           /\ source'.pointer = [source.pointer EXCEPT ![To[u]] =
                                    [uuid |-> u, until |-> now + Delay - Lead]]
<1>1. source \in SourceType /\ now \in Nat
  BY DEF TypesFit, SourceType
<1>2. To[u] \in Address
  BY ToAssumption
<1>3. PICK row \in RowType : row = NewRow("stored", now + Delay)
  BY <1>1, DelayAssumption, NewRows
<1>4. PICK p \in PointerType : p = [uuid |-> u, until |-> now + Delay - Lead]
  <2>1. now + Delay - Lead \in Nat
    BY <1>1, DelayAssumption
  <2>2. [uuid |-> u, until |-> now + Delay - Lead] \in PointerType
    BY <2>1 DEF PointerType
  <2>3. QED
    BY <2>2
<1>5. source'.pointer = [source.pointer EXCEPT ![To[u]] = p]
  BY <1>1, <1>4, DelayAssumption DEF Push, SourceType
<1>6. /\ source'.letters = [source.letters EXCEPT ![u] = row]
      /\ source' = [letters |-> source'.letters, pointer |-> source'.pointer]
  BY <1>1, <1>3, DelayAssumption DEF Push, SourceType
<1>7. source'.letters \in [Letter -> RowType] /\ source'.pointer \in [Address -> PointerType]
  BY <1>1, <1>2, <1>5, <1>6 DEF SourceType
<1>8. source' \in SourceType
  BY <1>6, <1>7 DEF SourceType
<1>9. QED
  BY <1>2, <1>4, <1>5, <1>8 DEF Push

LEMMA WorkMakes ==
    ASSUME TypesFit, NEW u \in Letter, Work(u)
    PROVE  /\ run.pc = "stopped" /\ run' = run /\ now' = now /\ target' = target
           /\ source' \in SourceType /\ source'.pointer = source.pointer
<1>1. source \in SourceType /\ now \in Nat
  BY DEF TypesFit, SourceType
<1>2. PICK r \in RowType : r = source.letters[u]
  BY <1>1 DEF SourceType
<1>3. r.tries \in Nat
  BY DEF RowType
<1>4. PICK s \in RowType : source' = [source EXCEPT !.letters[u] = s]
  <2>1. \/ source' = [source EXCEPT !.letters[u] = Claimed(r, r.tries + 1, now)]
        \/ source' = [source EXCEPT !.letters[u] = Retried(r, now + 1)]
        \/ source' = [source EXCEPT !.letters[u] = Sent(r, {})]
        \/ source' = [source EXCEPT !.letters[u] = Removed(r)]
    BY <1>2, Zenon DEF Work
  <2>2. /\ Claimed(r, r.tries + 1, now) \in RowType /\ Retried(r, now + 1) \in RowType
        /\ Sent(r, {}) \in RowType /\ Removed(r) \in RowType
    BY <1>1, <1>3, RowsOfLetters
  <2>3. QED
    BY <2>1, <2>2, Zenon
<1>5. /\ source'.letters = [source.letters EXCEPT ![u] = s]
      /\ source'.pointer = source.pointer
      /\ source' = [letters |-> source'.letters, pointer |-> source'.pointer]
  BY <1>1, <1>4 DEF SourceType
<1>6. source'.letters \in [Letter -> RowType]
  BY <1>1, <1>5 DEF SourceType
<1>7. source' \in SourceType
  BY <1>1, <1>5, <1>6 DEF SourceType
<1>8. QED
  BY <1>5, <1>7, Zenon DEF Work

LEMMA StartMakes ==
    ASSUME TypesFit, NEW overwrite \in BOOLEAN, Start(overwrite)
    PROVE  /\ now' = now /\ source' = source /\ target' \in TargetType
           /\ target'.letters = target.letters /\ target'.schedule = target.schedule
           /\ target'.pointer = target.pointer
           /\ \/ run' \in {[pc |-> "wipe", left |-> {}], Stopped}
              \/ /\ run' = [pc |-> "letters", left |-> Stored(source.letters)]
                 /\ \A u \in Letter : Absent(u)
<1>1. target \in TargetType
  BY DEF TypesFit, TargetType
<1>2. PICK t : t = [target EXCEPT !.concatkeys = [a \in Address |->
                       IF a \in Pointing(target.pointer) THEN target.concatkeys[a] ELSE 0]]
  OBVIOUS
<1>3. /\ t \in TargetType
      /\ t.letters = target.letters /\ t.schedule = target.schedule
      /\ t.pointer = target.pointer
  <2>1. PICK k : k = [a \in Address |-> IF a \in Pointing(target.pointer)
                                        THEN target.concatkeys[a] ELSE 0]
    OBVIOUS
  <2>2. k \in [Address -> Nat]
    BY <1>1, <2>1 DEF TargetType
  <2>3. t = [target EXCEPT !.concatkeys = k]
    BY <1>2, <2>1
  <2>4. QED
    BY <1>1, <2>2, <2>3 DEF TargetType
<1>4. target' = t /\ now' = now /\ source' = source
  BY <1>1, <1>2 DEF Start, TargetType
<1>5. \/ run' \in {[pc |-> "wipe", left |-> {}], Stopped}
      \/ /\ run' = [pc |-> "letters", left |-> Stored(source.letters)]
         /\ Stored(t.letters) = {} /\ \A u \in Letter : t.schedule[u] = 0
  BY <1>1, <1>2 DEF Start, TargetType
<1>6. Stored(t.letters) = {} => \A u \in Letter : target.letters[u].status # "stored"
  BY <1>3 DEF Stored
<1>7. QED
  BY <1>3, <1>4, <1>5, <1>6 DEF Absent

LEMMA WipePointersMakes ==
    ASSUME TypesFit, RunFits, WipePointers
    PROVE  /\ now' = now /\ source' = source /\ target' \in TargetType
           /\ target'.letters = target.letters /\ target'.schedule = target.schedule
           /\ \A a \in Address : \/ target'.pointer[a] = NoPointer
                                 \/ target'.pointer[a] = target.pointer[a]
           /\ run'.pc = "wiped"
<1>1. target \in TargetType
  BY DEF TypesFit, TargetType
<1>2. PICK q : q = [a \in Address |-> IF a \in Tracked(target) THEN NoPointer
                                      ELSE target.pointer[a]]
  OBVIOUS
<1>3. q \in [Address -> PointerType] /\ \A a \in Address : q[a] \in {NoPointer, target.pointer[a]}
  BY <1>1, <1>2, Nothing DEF TargetType
<1>4. target' = [target EXCEPT !.pointer = q]
  BY <1>2 DEF WipePointers
<1>5. /\ target' \in TargetType /\ target'.pointer = q
      /\ target'.letters = target.letters /\ target'.schedule = target.schedule
  BY <1>1, <1>3, <1>4 DEF TargetType
<1>6. run'.pc = "wiped"
  BY DEF WipePointers, RunFits
<1>7. QED
  BY <1>3, <1>5, <1>6 DEF WipePointers

LEMMA WipeLettersMakes ==
    ASSUME TypesFit, WipeLetters
    PROVE  /\ now' = now /\ source' = source /\ target' \in TargetType
           /\ target'.pointer = target.pointer
           /\ \A u \in Letter : Absent(u)'
           /\ run' = [pc |-> "letters", left |-> Stored(source.letters)]
<1>1. target \in TargetType
  BY DEF TypesFit, TargetType
<1>2. target' = [NoTarget EXCEPT !.pointer = target.pointer]
  BY DEF WipeLetters, Emptied
<1>3. PICK t : t = NoTarget
  OBVIOUS
<1>4. t \in TargetType /\ \A u \in Letter : t.letters[u].status = "none" /\ t.schedule[u] = 0
  BY <1>3, Nothing
<1>5. /\ target' \in TargetType /\ target'.pointer = target.pointer
      /\ target'.letters = t.letters /\ target'.schedule = t.schedule
  BY <1>1, <1>2, <1>3, <1>4 DEF TargetType
<1>6. QED
  BY <1>4, <1>5 DEF WipeLetters, Absent

LEMMA CopyLetterMakes ==
    ASSUME TypesFit, NEW u \in Letter, CopyLetter(u)
    PROVE  /\ now' = now /\ source' = source /\ target' \in TargetType
           /\ target'.letters = [target.letters EXCEPT ![u] = source.letters[u]]
           /\ target'.schedule = target.schedule /\ target'.pointer = target.pointer
<1>1. target \in TargetType
  BY DEF TypesFit, TargetType
<1>2. source.letters[u] \in RowType
  BY DEF TypesFit
<1>3. PICK l : l = [target.letters EXCEPT ![u] = source.letters[u]]
  OBVIOUS
<1>4. l \in [Letter -> RowType]
  BY <1>1, <1>2, <1>3 DEF TargetType
<1>5. target' = [target EXCEPT !.letters = l]
  BY <1>1, <1>3 DEF CopyLetter, TargetType
<1>6. QED
  BY <1>1, <1>3, <1>4, <1>5 DEF CopyLetter, TargetType

LEMMA ScheduleLetterMakes ==
    ASSUME TypesFit, RunFits, LettersInv, ScheduleLetter
    PROVE  /\ now' = now /\ source' = source /\ target' \in TargetType
           /\ target'.schedule = [target.schedule EXCEPT ![run.key] =
                                     NextEligibleAt(source.letters[run.key])]
           /\ target'.letters = target.letters /\ target'.pointer = target.pointer
<1>1. target \in TargetType
  BY DEF TypesFit, TargetType
<1>2. run.pc = "schedule" /\ run.key \in Letter /\ target.schedule[run.key] = 0
  BY DEF ScheduleLetter, RunFits, LettersInv
<1>3. PICK at \in Nat : at = NextEligibleAt(source.letters[run.key])
  BY <1>2, RowsOfLetters DEF TypesFit
<1>4. PICK s : s = [target.schedule EXCEPT ![run.key] = at]
  OBVIOUS
<1>5. s \in [Letter -> Nat]
  BY <1>1, <1>4 DEF TargetType
<1>6. target' = [target EXCEPT !.schedule = s]
  BY <1>1, <1>2, <1>3, <1>4 DEF ScheduleLetter, TargetType
<1>7. QED
  BY <1>1, <1>3, <1>4, <1>5, <1>6 DEF ScheduleLetter, TargetType

LEMMA CopyPointerMakes ==
    ASSUME TypesFit, RunFits, CopyPointer
    PROVE  /\ now' = now /\ source' = source /\ target' \in TargetType
           /\ run.key \in Address
           /\ target'.pointer = [target.pointer EXCEPT ![run.key] =
                                    [uuid |-> run.uuid, until |-> now + run.ttl]]
           /\ target'.letters = target.letters /\ target'.schedule = target.schedule
           /\ target'.concatkeys = target.concatkeys
           /\ run'.pc = "track" /\ run'.left = run.left /\ run'.key = run.key
           /\ run'.uuid = run.uuid /\ run'.ttl = run.ttl
           /\ RunFits'
<1>1. target \in TargetType /\ now \in Nat
  BY DEF TypesFit, TargetType
<1>2. /\ run \in [pc : {"pointer", "track"}, left : SUBSET Address, key : Address,
                  uuid : Letter \cup {"none"}, ttl : Nat]
      /\ run' = [run EXCEPT !.pc = "track"]
  BY DEF CopyPointer, RunFits
<1>3. /\ run'.pc = "track" /\ run'.left = run.left /\ run'.key = run.key
      /\ run'.uuid = run.uuid /\ run'.ttl = run.ttl
      /\ run' \in [pc : {"pointer", "track"}, left : SUBSET Address, key : Address,
                  uuid : Letter \cup {"none"}, ttl : Nat]
  BY <1>2
<1>4. RunFits'
  BY <1>3 DEF RunFits, LetterPhase, PointerPhase
<1>5. PICK p \in PointerType : p = [uuid |-> run.uuid, until |-> now + run.ttl]
  <2>1. run.uuid \in Letter \cup {"none"} /\ now + run.ttl \in Nat
    BY <1>1, <1>2
  <2>2. [uuid |-> run.uuid, until |-> now + run.ttl] \in PointerType
    BY <2>1 DEF PointerType
  <2>3. QED
    BY <2>2
<1>6. PICK q : q = [target.pointer EXCEPT ![run.key] = p]
  OBVIOUS
<1>7. q \in [Address -> PointerType]
  BY <1>1, <1>6 DEF TargetType
<1>8. target' = [target EXCEPT !.pointer = q]
  BY <1>1, <1>5, <1>6 DEF CopyPointer, TargetType
<1>9. /\ target' \in TargetType /\ target'.pointer = q /\ target'.letters = target.letters
      /\ target'.schedule = target.schedule /\ target'.concatkeys = target.concatkeys
  BY <1>1, <1>7, <1>8 DEF TargetType
<1>10. QED
  BY <1>2, <1>3, <1>4, <1>5, <1>6, <1>9 DEF CopyPointer

LEMMA TrackPointerMakes ==
    ASSUME TypesFit, RunFits, TrackPointer
    PROVE  /\ now' = now /\ source' = source /\ target' \in TargetType
           /\ run.key \in Address
           /\ target'.concatkeys = [target.concatkeys EXCEPT ![run.key] = now + run.ttl]
           /\ target'.letters = target.letters /\ target'.schedule = target.schedule
           /\ target'.pointer = target.pointer
<1>1. target \in TargetType /\ now \in Nat
  BY DEF TypesFit, TargetType
<1>2. run.key \in Address /\ run.ttl \in Nat
  BY DEF TrackPointer, RunFits
<1>3. PICK k : k = [target.concatkeys EXCEPT ![run.key] = now + run.ttl]
  OBVIOUS
<1>4. k \in [Address -> Nat]
  BY <1>1, <1>2, <1>3 DEF TargetType
<1>5. target' = [target EXCEPT !.concatkeys = k]
  BY <1>1, <1>3 DEF TrackPointer, Track, TargetType
<1>6. QED
  BY <1>1, <1>2, <1>3, <1>4, <1>5 DEF TrackPointer, TargetType

LEMMA ExpiredIs ==
    ASSUME NEW pointer \in [Address -> PointerType]
    PROVE  /\ Expired(pointer) \in [Address -> PointerType]
           /\ \A a \in Address :
                /\ Expired(pointer)[a].uuid = pointer[a].uuid
                /\ Expired(pointer)[a].until = IF pointer[a].until < now' THEN 0
                                               ELSE pointer[a].until
<1>1. ASSUME NEW a \in Address
      PROVE  LET p == pointer[a]
                 e == IF p.until < now' THEN [p EXCEPT !.until = 0] ELSE p
             IN  /\ e \in PointerType /\ e.uuid = p.uuid
                 /\ e.until = IF p.until < now' THEN 0 ELSE p.until
  <2>1. PICK p \in PointerType : p = pointer[a]
    OBVIOUS
  <2>2. /\ [p EXCEPT !.until = 0] \in PointerType /\ [p EXCEPT !.until = 0].uuid = p.uuid
        /\ [p EXCEPT !.until = 0].until = 0
    BY DEF PointerType
  <2>3. QED
    BY <2>1, <2>2
<1>2. QED
  BY <1>1 DEF Expired

LEMMA TickMakes ==
    ASSUME TypesFit, Tick
    PROVE  /\ now' = now + 1 /\ run' = run
           /\ source' \in SourceType /\ target' \in TargetType
           /\ source'.letters = source.letters
           /\ target'.letters = target.letters /\ target'.schedule = target.schedule
           /\ target'.concatkeys = target.concatkeys
           /\ \A a \in Address :
                /\ source'.pointer[a].uuid = source.pointer[a].uuid
                /\ source'.pointer[a].until = IF source.pointer[a].until < now + 1 THEN 0
                                              ELSE source.pointer[a].until
                /\ target'.pointer[a].uuid = target.pointer[a].uuid
                /\ target'.pointer[a].until = IF target.pointer[a].until < now + 1 THEN 0
                                              ELSE target.pointer[a].until
<1>1. source \in SourceType /\ target \in TargetType
  BY DEF TypesFit, SourceType, TargetType
<1>2. source.pointer \in [Address -> PointerType] /\ target.pointer \in [Address -> PointerType]
  BY <1>1 DEF SourceType, TargetType
<1>3. now' = now + 1 /\ run' = run
  BY DEF Tick
<1>4. PICK p, q : p = Expired(source.pointer) /\ q = Expired(target.pointer)
  OBVIOUS
<1>5. p \in [Address -> PointerType] /\ q \in [Address -> PointerType]
  BY <1>2, <1>4, ExpiredIs
<1>6. source' = [source EXCEPT !.pointer = p] /\ target' = [target EXCEPT !.pointer = q]
  BY <1>4 DEF Tick
<1>7. /\ source' \in SourceType /\ source'.letters = source.letters /\ source'.pointer = p
  BY <1>1, <1>5, <1>6 DEF SourceType
<1>8. /\ target' \in TargetType /\ target'.letters = target.letters /\ target'.pointer = q
      /\ target'.schedule = target.schedule /\ target'.concatkeys = target.concatkeys
  BY <1>1, <1>5, <1>6 DEF TargetType
<1>9. QED
  BY <1>2, <1>3, <1>4, <1>7, <1>8, ExpiredIs

-----------------------------------------------------------------------------
(* What each step leaves true.                                             *)

LEMMA InitInv == Init => MigrationInv
<1> SUFFICES ASSUME Init PROVE MigrationInv
  OBVIOUS
<1>1. PICK p \in PointerType : p = NoPointer /\ p.until = 0
  BY Nothing
<1>2. source = [letters |-> NoLetters, pointer |-> [a \in Address |-> p]]
  BY <1>1 DEF Init
<1>3. source \in SourceType /\ \A a \in Address : source.pointer[a].until = 0
  BY <1>1, <1>2, Nothing DEF SourceType
<1>4. target \in TargetType /\ target = NoTarget
  BY Nothing DEF Init
<1>5. /\ \A a \in Address : target.pointer[a].until = 0
      /\ \A u \in Letter : target.schedule[u] = 0
  BY <1>4, Nothing
<1>6. now = 1 /\ run.pc = "stopped"
  BY DEF Init, Stopped
<1>7. TypesFit /\ RunFits
  BY <1>3, <1>4, <1>6 DEF TypesFit, RunFits, SourceType, TargetType, LetterPhase, PointerPhase
<1>8. LettersInv
  BY <1>5, <1>6 DEF LettersInv, LetterPhase, PointerPhase
<1>9. PointersInv
  BY <1>3, <1>5, <1>6, DelayAssumption
     DEF PointersInv, Bounded, NotAstray, InHand, LetterPhase, PointerPhase
<1>10. QED
  BY <1>7, <1>8, <1>9 DEF MigrationInv

\* While the script copies nothing there is little to keep.
LEMMA Elsewhere ==
    ASSUME source' \in SourceType, target' \in TargetType, now' \in Nat, RunFits',
           run'.pc \in {"stopped", "wipe", "wiped"},
           \A u \in Letter : target'.schedule[u] # 0 => target'.letters[u].status = "stored",
           Bounded', NotAstray'
    PROVE  MigrationInv'
<1>1. TypesFit'
  BY DEF TypesFit, SourceType, TargetType
<1>2. LettersInv'
  BY DEF LettersInv, LetterPhase, PointerPhase
<1>3. PointersInv'
  BY DEF PointersInv, InHand, LetterPhase, PointerPhase
<1>4. QED
  BY <1>1, <1>2, <1>3 DEF MigrationInv

LEMMA PushInv ==
    ASSUME MigrationInv, NEW u \in Letter, Push(u)
    PROVE  MigrationInv'
<1>1. /\ run.pc = "stopped" /\ run' = run /\ now' = now /\ target' = target
      /\ source' \in SourceType /\ To[u] \in Address
      /\ source'.pointer = [source.pointer EXCEPT ![To[u]] =
                               [uuid |-> u, until |-> now + Delay - Lead]]
  BY PushMakes DEF MigrationInv
<1>2. source \in SourceType /\ target \in TargetType /\ now \in Nat
  BY DEF MigrationInv, TypesFit, SourceType, TargetType
<1>3. ASSUME NEW a \in Address
      PROVE  \/ source'.pointer[a] = source.pointer[a]
             \/ source'.pointer[a].until = now + (Delay - Lead)
  BY <1>1, <1>2, DelayAssumption DEF SourceType
<1>4. \A a \in Address : /\ source.pointer[a].until \in Nat /\ target.pointer[a].until \in Nat
                         /\ source.pointer[a].until <= now + (Delay - Lead)
                         /\ target.pointer[a].until <= now + (Delay - Lead)
  BY <1>2 DEF MigrationInv, PointersInv, Bounded, SourceType, TargetType, PointerType
<1>5. Bounded'
  BY <1>1, <1>2, <1>3, <1>4, DelayAssumption DEF Bounded
<1>6. NotAstray'
  BY <1>1, <1>3, <1>4 DEF MigrationInv, PointersInv, NotAstray
<1>7. RunFits'
  BY <1>1 DEF MigrationInv, RunFits
<1>8. QED
  BY <1>1, <1>2, <1>5, <1>6, <1>7, Elsewhere DEF MigrationInv, LettersInv

LEMMA WorkInv ==
    ASSUME MigrationInv, NEW u \in Letter, Work(u)
    PROVE  MigrationInv'
<1>1. /\ run.pc = "stopped" /\ run' = run /\ now' = now /\ target' = target
      /\ source' \in SourceType /\ source'.pointer = source.pointer
  BY WorkMakes DEF MigrationInv
<1>2. target \in TargetType /\ now \in Nat
  BY DEF MigrationInv, TypesFit, TargetType
<1>3. Bounded' /\ NotAstray'
  BY <1>1 DEF MigrationInv, PointersInv, Bounded, NotAstray
<1>4. RunFits'
  BY <1>1 DEF MigrationInv, RunFits
<1>5. QED
  BY <1>1, <1>2, <1>3, <1>4, Elsewhere DEF MigrationInv, LettersInv

\* The copy begins with a target that has no letters.
LEMMA Begins ==
    ASSUME MigrationInv, now' = now, source' = source, target' \in TargetType,
           target'.pointer = target.pointer, \A u \in Letter : Absent(u)',
           run' = [pc |-> "letters", left |-> Stored(source.letters)]
    PROVE  MigrationInv'
<1>1. /\ run'.pc = "letters" /\ run'.left = Stored(source.letters)
      /\ Stored(source.letters) \subseteq Letter
  BY DEF Stored
<1>2. RunFits'
  BY <1>1 DEF RunFits, LetterPhase, PointerPhase
<1>3. TypesFit'
  BY DEF MigrationInv, TypesFit, TargetType
<1>4. \A u \in Letter : u \in run'.left \/ Moved(u)'
  BY <1>1 DEF Stored, Moved
<1>5. \A u \in run'.left : source'.letters[u].status = "stored" /\ Absent(u)'
  BY <1>1 DEF Stored
<1>6. LettersInv'
  BY <1>1, <1>4, <1>5 DEF LettersInv, LetterPhase, PointerPhase, Absent
<1>7. PointersInv'
  BY <1>1 DEF MigrationInv, PointersInv, Bounded, NotAstray, InHand, LetterPhase, PointerPhase
<1>8. QED
  BY <1>2, <1>3, <1>6, <1>7 DEF MigrationInv

LEMMA StartInv ==
    ASSUME MigrationInv, NEW overwrite \in BOOLEAN, Start(overwrite)
    PROVE  MigrationInv'
<1>1. /\ now' = now /\ source' = source /\ target' \in TargetType
      /\ target'.letters = target.letters /\ target'.schedule = target.schedule
      /\ target'.pointer = target.pointer
      /\ \/ run' \in {[pc |-> "wipe", left |-> {}], Stopped}
         \/ /\ run' = [pc |-> "letters", left |-> Stored(source.letters)]
            /\ \A u \in Letter : Absent(u)
  BY StartMakes DEF MigrationInv
<1>2. CASE run' \in {[pc |-> "wipe", left |-> {}], Stopped}
  <2>1. RunFits' /\ run'.pc \in {"stopped", "wipe", "wiped"}
    BY <1>2 DEF RunFits, Stopped, LetterPhase, PointerPhase
  <2>2. Bounded' /\ NotAstray'
    BY <1>1 DEF MigrationInv, PointersInv, Bounded, NotAstray
  <2>3. source \in SourceType /\ now \in Nat
    BY DEF MigrationInv, TypesFit, SourceType
  <2>4. QED
    BY <1>1, <2>1, <2>2, <2>3, Elsewhere DEF MigrationInv, LettersInv
<1>3. CASE /\ run' = [pc |-> "letters", left |-> Stored(source.letters)]
           /\ \A u \in Letter : Absent(u)
  BY <1>1, <1>3, Begins DEF Absent
<1>4. QED
  BY <1>1, <1>2, <1>3

LEMMA WipePointersInv ==
    ASSUME MigrationInv, WipePointers
    PROVE  MigrationInv'
<1>1. /\ now' = now /\ source' = source /\ target' \in TargetType
      /\ target'.letters = target.letters /\ target'.schedule = target.schedule
      /\ \A a \in Address : \/ target'.pointer[a] = NoPointer
                            \/ target'.pointer[a] = target.pointer[a]
      /\ run'.pc = "wiped"
  BY WipePointersMakes DEF MigrationInv
<1>2. source \in SourceType /\ now \in Nat
  BY DEF MigrationInv, TypesFit, SourceType
<1>3. RunFits'
  BY <1>1 DEF RunFits, LetterPhase, PointerPhase
<1>4. Bounded' /\ NotAstray'
  <2>1. \A a \in Address : \/ target'.pointer[a].until = 0
                           \/ target'.pointer[a] = target.pointer[a]
    BY <1>1, Nothing
  <2>2. Bounded'
    BY <1>1, <1>2, <2>1, DelayAssumption DEF MigrationInv, PointersInv, Bounded
  <2>3. NotAstray'
    BY <1>1, <1>2, <2>1 DEF MigrationInv, PointersInv, NotAstray
  <2>4. QED
    BY <2>2, <2>3
<1>5. QED
  BY <1>1, <1>2, <1>3, <1>4, Elsewhere DEF MigrationInv, LettersInv

LEMMA WipeLettersInv ==
    ASSUME MigrationInv, WipeLetters
    PROVE  MigrationInv'
BY WipeLettersMakes, Begins DEF MigrationInv

LEMMA StopsInv ==
    ASSUME MigrationInv, run' = Stopped, now' = now, source' = source, target' = target
    PROVE  MigrationInv'
<1>1. RunFits' /\ run'.pc = "stopped"
  BY DEF RunFits, Stopped, LetterPhase, PointerPhase
<1>2. Bounded' /\ NotAstray'
  BY DEF MigrationInv, PointersInv, Bounded, NotAstray
<1>3. source \in SourceType /\ target \in TargetType /\ now \in Nat
  BY DEF MigrationInv, TypesFit, SourceType, TargetType
<1>4. QED
  BY <1>1, <1>2, <1>3, Elsewhere DEF MigrationInv, LettersInv

LEMMA CopyLetterInv ==
    ASSUME MigrationInv, NEW u \in Letter, CopyLetter(u)
    PROVE  MigrationInv'
<1>1. /\ now' = now /\ source' = source /\ target' \in TargetType
      /\ target'.letters = [target.letters EXCEPT ![u] = source.letters[u]]
      /\ target'.schedule = target.schedule /\ target'.pointer = target.pointer
  BY CopyLetterMakes DEF MigrationInv
<1>2. /\ run.pc = "letters" /\ u \in run.left /\ run.left \subseteq Letter
      /\ run' = [pc |-> "schedule", left |-> run.left \ {u}, key |-> u]
  BY DEF CopyLetter, MigrationInv, RunFits
<1>3. run'.pc = "schedule" /\ run'.left = run.left \ {u} /\ run'.key = u
  BY <1>2
<1>4. target \in TargetType
  BY DEF MigrationInv, TypesFit, TargetType
<1>5. /\ target'.letters[u] = source.letters[u]
      /\ \A v \in Letter : v # u => target'.letters[v] = target.letters[v]
  BY <1>1, <1>4 DEF TargetType
<1>6. source.letters[u].status = "stored" /\ Absent(u)
  BY <1>2 DEF MigrationInv, LettersInv, LetterPhase
<1>7. RunFits'
  BY <1>2 DEF RunFits, LetterPhase, PointerPhase
<1>8. TypesFit'
  BY <1>1 DEF MigrationInv, TypesFit, TargetType
<1>9. LettersInv'
  <2>1. \A v \in Letter : target'.schedule[v] # 0 => target'.letters[v].status = "stored"
    BY <1>1, <1>5, <1>6 DEF MigrationInv, LettersInv
  <2>2. \A v \in run'.left : source'.letters[v].status = "stored" /\ Absent(v)'
    BY <1>1, <1>2, <1>3, <1>5 DEF MigrationInv, LettersInv, LetterPhase, Absent
  <2>3. run'.key \notin run'.left /\ Copied(run.key)' /\ target'.schedule[run'.key] = 0
    BY <1>1, <1>3, <1>5, <1>6 DEF Copied, Absent
  <2>4. ASSUME NEW v \in Letter, v \notin run'.left, v # u
        PROVE  Moved(v)'
    <3>1. Moved(v)
      BY <1>2, <1>3, <2>4 DEF MigrationInv, LettersInv, LetterPhase
    <3>2. QED
      BY <1>1, <1>5, <2>4, <3>1 DEF Moved, Copied, Absent
  <2>5. QED
    BY <1>3, <2>1, <2>2, <2>3, <2>4 DEF LettersInv, LetterPhase
<1>10. PointersInv'
  BY <1>1, <1>3 DEF MigrationInv, PointersInv, Bounded, NotAstray, InHand, LetterPhase, PointerPhase
<1>11. QED
  BY <1>7, <1>8, <1>9, <1>10 DEF MigrationInv

LEMMA ScheduleLetterInv ==
    ASSUME MigrationInv, ScheduleLetter
    PROVE  MigrationInv'
<1>1. /\ now' = now /\ source' = source /\ target' \in TargetType
      /\ target'.schedule = [target.schedule EXCEPT ![run.key] =
                                NextEligibleAt(source.letters[run.key])]
      /\ target'.letters = target.letters /\ target'.pointer = target.pointer
  BY ScheduleLetterMakes DEF MigrationInv
<1>2. /\ run.pc = "schedule" /\ run.key \in Letter /\ run.left \subseteq Letter
      /\ run' = [pc |-> "letters", left |-> run.left]
  BY DEF ScheduleLetter, MigrationInv, RunFits
<1>3. run'.pc = "letters" /\ run'.left = run.left
  BY <1>2
<1>4. PICK u \in Letter : u = run.key
  BY <1>2
<1>5. target \in TargetType
  BY DEF MigrationInv, TypesFit, TargetType
<1>6. /\ target'.schedule[u] = NextEligibleAt(source.letters[u])
      /\ \A v \in Letter : v # u => target'.schedule[v] = target.schedule[v]
  BY <1>1, <1>4, <1>5 DEF TargetType
<1>7. u \notin run.left /\ Copied(u)
  BY <1>2, <1>4 DEF MigrationInv, LettersInv
<1>8. RunFits'
  BY <1>2 DEF RunFits, LetterPhase, PointerPhase
<1>9. TypesFit'
  BY <1>1 DEF MigrationInv, TypesFit, TargetType
<1>10. LettersInv'
  <2>1. \A v \in Letter : target'.schedule[v] # 0 => target'.letters[v].status = "stored"
    BY <1>1, <1>6, <1>7 DEF MigrationInv, LettersInv, Copied
  <2>2. \A v \in run'.left : source'.letters[v].status = "stored" /\ Absent(v)'
    BY <1>1, <1>2, <1>3, <1>6, <1>7 DEF MigrationInv, LettersInv, LetterPhase, Absent
  <2>3. ASSUME NEW v \in Letter, v \notin run'.left
        PROVE  Moved(v)'
    <3>1. CASE v = u
      BY <1>1, <1>6, <1>7, <3>1 DEF Moved, Copied
    <3>2. CASE v # u
      <4>1. Moved(v)
        BY <1>2, <1>3, <1>4, <2>3, <3>2 DEF MigrationInv, LettersInv, LetterPhase
      <4>2. QED
        BY <1>1, <1>6, <3>2, <4>1 DEF Moved, Copied, Absent
    <3>3. QED
      BY <3>1, <3>2
  <2>4. QED
    BY <1>3, <2>1, <2>2, <2>3 DEF LettersInv, LetterPhase
<1>11. PointersInv'
  BY <1>1, <1>3 DEF MigrationInv, PointersInv, Bounded, NotAstray, InHand, LetterPhase, PointerPhase
<1>12. QED
  BY <1>8, <1>9, <1>10, <1>11 DEF MigrationInv

\* Once the letters are there, the steps for the pointers leave them alone.
LEMMA LettersStay ==
    ASSUME MigrationInv, source'.letters = source.letters,
           target'.letters = target.letters, target'.schedule = target.schedule,
           \/ run.pc \in PointerPhase \cup {"done"}
           \/ run.pc = "letters" /\ run.left = {},
           run'.pc \in PointerPhase \cup {"done"}
    PROVE  LettersInv'
<1>1. \A u \in Letter : Moved(u)
  BY DEF MigrationInv, LettersInv, LetterPhase, PointerPhase
<1>2. \A u \in Letter : Moved(u)'
  BY <1>1 DEF Moved, Copied, Absent
<1>3. QED
  BY <1>2 DEF MigrationInv, LettersInv, LetterPhase, PointerPhase

LEMMA ScanPointersInv ==
    ASSUME MigrationInv, ScanPointers
    PROVE  MigrationInv'
<1>1. /\ now' = now /\ source' = source /\ target' = target
      /\ run.pc = "letters" /\ run.left = {}
      /\ run' = [pc |-> "pointers", left |-> Pointing(source.pointer)]
  BY DEF ScanPointers
<1>2. run'.pc = "pointers" /\ run'.left = Pointing(source.pointer)
  BY <1>1
<1>3. RunFits'
  BY <1>1 DEF RunFits, LetterPhase, PointerPhase, Pointing
<1>4. TypesFit'
  BY <1>1 DEF MigrationInv, TypesFit
<1>5. LettersInv'
  BY <1>1, <1>2, LettersStay DEF PointerPhase
<1>6. Bounded' /\ NotAstray' /\ InHand'
  BY <1>1, <1>2 DEF MigrationInv, PointersInv, Bounded, NotAstray, InHand
<1>7. \A a \in Address : a \in run'.left \/ Handed(a)'
  BY <1>1, <1>2 DEF MigrationInv, TypesFit, Handed, Pointing
<1>8. PointersInv'
  BY <1>2, <1>6, <1>7 DEF PointersInv, PointerPhase
<1>9. QED
  BY <1>3, <1>4, <1>5, <1>8 DEF MigrationInv

LEMMA ReadPointerInv ==
    ASSUME MigrationInv, NEW a \in Address, ReadPointer(a)
    PROVE  MigrationInv'
<1>1. /\ now' = now /\ source' = source /\ target' = target
      /\ run.pc = "pointers" /\ a \in run.left
      /\ run \in [pc : {"pointers"}, left : SUBSET Address]
  BY DEF ReadPointer, MigrationInv, RunFits
<1>2. /\ source \in SourceType /\ target \in TargetType /\ now \in Nat
      /\ source.pointer[a] \in PointerType
  BY DEF MigrationInv, TypesFit, SourceType, TargetType
<1>3. TypesFit'
  BY <1>1 DEF MigrationInv, TypesFit
<1>4. Bounded' /\ NotAstray'
  BY <1>1 DEF MigrationInv, PointersInv, Bounded, NotAstray
<1>5. CASE source.pointer[a].until <= now
  <2>1. run' = [run EXCEPT !.left = run.left \ {a}]
    BY <1>5 DEF ReadPointer
  <2>2. /\ run' \in [pc : {"pointers"}, left : SUBSET Address]
        /\ run'.pc = "pointers" /\ run'.left = run.left \ {a}
    BY <1>1, <2>1
  <2>3. RunFits'
    BY <2>2 DEF RunFits, LetterPhase, PointerPhase
  <2>4. LettersInv'
    BY <1>1, <2>2, LettersStay DEF PointerPhase
  <2>5. Handed(a)
    BY <1>2, <1>5 DEF Handed, PointerType
  <2>6. \A b \in Address : b \in run'.left \/ Handed(b)'
    BY <1>1, <2>2, <2>5 DEF MigrationInv, PointersInv, PointerPhase, Handed
  <2>7. PointersInv'
    BY <1>4, <2>2, <2>6 DEF PointersInv, PointerPhase, InHand
  <2>8. QED
    BY <1>3, <2>3, <2>4, <2>7 DEF MigrationInv
<1>6. CASE ~(source.pointer[a].until <= now)
  <2>1. PICK p \in PointerType : p = source.pointer[a]
    BY <1>2
  <2>2. run' = [pc |-> "pointer", left |-> run.left \ {a}, key |-> a, uuid |-> p.uuid,
                ttl |-> p.until - now]
    BY <1>6, <2>1 DEF ReadPointer
  <2>3. p.until \in Nat /\ p.uuid \in Letter \cup {"none"} /\ p.until - now \in Nat
    BY <1>2, <1>6, <2>1 DEF PointerType
  <2>4. /\ run'.pc = "pointer" /\ run'.left = run.left \ {a} /\ run'.key = a
        /\ run'.uuid = p.uuid /\ run'.ttl = p.until - now
    BY <2>2
  <2>5. RunFits'
    BY <1>1, <2>2, <2>3 DEF RunFits, LetterPhase, PointerPhase
  <2>6. LettersInv'
    BY <1>1, <2>4, LettersStay DEF PointerPhase
  <2>7. p.until <= now + (Delay - Lead)
    BY <2>1 DEF MigrationInv, PointersInv, Bounded
  <2>8. InHand'
    BY <1>1, <1>2, <2>1, <2>3, <2>4, <2>7, DelayAssumption DEF InHand
  <2>9. \A b \in Address : b \in run'.left \/ b = a \/ Handed(b)'
    BY <1>1, <2>4 DEF MigrationInv, PointersInv, PointerPhase, Handed
  <2>10. PointersInv'
    BY <1>4, <2>4, <2>8, <2>9 DEF PointersInv, PointerPhase
  <2>11. QED
    BY <1>3, <2>5, <2>6, <2>10 DEF MigrationInv
<1>7. QED
  BY <1>5, <1>6

LEMMA CopyPointerInv ==
    ASSUME MigrationInv, CopyPointer
    PROVE  MigrationInv'
<1>1. /\ now' = now /\ source' = source /\ target' \in TargetType
      /\ target'.letters = target.letters /\ target'.schedule = target.schedule
      /\ target'.concatkeys = target.concatkeys
      /\ run'.pc = "track" /\ run'.left = run.left /\ run'.key = run.key
      /\ run'.uuid = run.uuid /\ run'.ttl = run.ttl
      /\ run.pc = "pointer" /\ RunFits'
  BY CopyPointerMakes DEF MigrationInv, CopyPointer
<1>2. PICK a \in Address : a = run.key
  BY CopyPointerMakes DEF MigrationInv
<1>3. PICK ttl \in Nat : ttl = run.ttl
  BY <1>1 DEF MigrationInv, RunFits
<1>4. source \in SourceType /\ target \in TargetType /\ now \in Nat
  BY DEF MigrationInv, TypesFit, SourceType, TargetType
<1>5. /\ target'.pointer[a].uuid = run.uuid /\ target'.pointer[a].until = now + ttl
      /\ \A b \in Address : b # a => target'.pointer[b] = target.pointer[b]
  <2>1. target'.pointer = [target.pointer EXCEPT ![a] = [uuid |-> run.uuid, until |-> now + ttl]]
    BY <1>2, <1>3, CopyPointerMakes DEF MigrationInv
  <2>2. PICK p : p = [uuid |-> run.uuid, until |-> now + ttl]
    OBVIOUS
  <2>3. p.uuid = run.uuid /\ p.until = now + ttl
    BY <2>2
  <2>4. QED
    BY <1>4, <2>1, <2>2, <2>3 DEF TargetType
<1>6. PICK p \in PointerType : p = source.pointer[a]
  BY <1>4 DEF SourceType
<1>7. /\ run.uuid = p.uuid /\ ttl <= Delay - Lead
      /\ p.until > now => p.until <= now + ttl
  BY <1>1, <1>2, <1>3, <1>6 DEF MigrationInv, PointersInv, InHand
<1>8. TypesFit'
  BY <1>1 DEF MigrationInv, TypesFit, TargetType
<1>9. LettersInv'
  BY <1>1, LettersStay DEF PointerPhase
<1>10. Bounded'
  BY <1>1, <1>3, <1>4, <1>5, <1>7, DelayAssumption DEF MigrationInv, PointersInv, Bounded
<1>11. NotAstray'
  BY <1>1, <1>5, <1>6, <1>7 DEF MigrationInv, PointersInv, NotAstray
<1>12. InHand'
  <2>1. /\ source'.pointer[run'.key] = p /\ run'.uuid = p.uuid /\ run'.ttl = ttl
        /\ target'.pointer[run'.key].uuid = p.uuid
        /\ target'.pointer[run'.key].until = now + ttl
    BY <1>1, <1>2, <1>3, <1>5, <1>6, <1>7
  <2>2. p.until \in Nat
    BY DEF PointerType
  <2>3. QED
    BY <1>1, <1>3, <1>4, <1>7, <2>1, <2>2 DEF InHand
<1>13. \A b \in Address : b \in run'.left \/ b = run'.key \/ Handed(b)'
  BY <1>1, <1>2, <1>5 DEF MigrationInv, PointersInv, PointerPhase, Handed
<1>14. PointersInv'
  BY <1>1, <1>10, <1>11, <1>12, <1>13 DEF PointersInv, PointerPhase
<1>15. QED
  BY <1>1, <1>8, <1>9, <1>14 DEF MigrationInv

LEMMA TrackPointerInv ==
    ASSUME MigrationInv, TrackPointer
    PROVE  MigrationInv'
<1>1. /\ now' = now /\ source' = source /\ target' \in TargetType
      /\ target'.letters = target.letters /\ target'.schedule = target.schedule
      /\ target'.pointer = target.pointer
      /\ run.pc = "track" /\ run' = [pc |-> "pointers", left |-> run.left]
  BY TrackPointerMakes DEF MigrationInv, TrackPointer
<1>2. run'.pc = "pointers" /\ run'.left = run.left
  BY <1>1
<1>3. PICK a \in Address : a = run.key
  BY TrackPointerMakes DEF MigrationInv
<1>4. target \in TargetType
  BY DEF MigrationInv, TypesFit, TargetType
<1>5. /\ target'.concatkeys[a] = now + run.ttl
      /\ \A b \in Address : b # a => target'.concatkeys[b] = target.concatkeys[b]
  BY <1>3, <1>4, TrackPointerMakes DEF MigrationInv, TargetType
<1>6. RunFits'
  BY <1>1 DEF MigrationInv, RunFits, LetterPhase, PointerPhase
<1>7. TypesFit'
  BY <1>1 DEF MigrationInv, TypesFit, TargetType
<1>8. LettersInv'
  BY <1>1, <1>2, LettersStay DEF PointerPhase
<1>9. Bounded' /\ NotAstray' /\ InHand'
  BY <1>1, <1>2 DEF MigrationInv, PointersInv, Bounded, NotAstray, InHand
<1>10. Handed(a)'
  BY <1>1, <1>3, <1>5 DEF MigrationInv, PointersInv, InHand, Handed
<1>11. \A b \in Address : b \in run'.left \/ Handed(b)'
  BY <1>1, <1>2, <1>3, <1>5, <1>10 DEF MigrationInv, PointersInv, PointerPhase, Handed
<1>12. PointersInv'
  BY <1>2, <1>9, <1>11 DEF PointersInv, PointerPhase
<1>13. QED
  BY <1>6, <1>7, <1>8, <1>12 DEF MigrationInv

LEMMA DoneInv ==
    ASSUME MigrationInv, Done
    PROVE  MigrationInv'
<1>1. /\ now' = now /\ source' = source /\ target' = target
      /\ run.pc = "pointers" /\ run.left = {} /\ run' = [pc |-> "done", left |-> {}]
  BY DEF Done
<1>2. RunFits'
  BY <1>1 DEF RunFits, LetterPhase, PointerPhase
<1>3. TypesFit'
  BY <1>1 DEF MigrationInv, TypesFit
<1>4. LettersInv'
  BY <1>1, LettersStay DEF PointerPhase
<1>5. PointersInv'
  BY <1>1 DEF MigrationInv, PointersInv, Bounded, NotAstray, InHand, Handed, PointerPhase
<1>6. QED
  BY <1>2, <1>3, <1>4, <1>5 DEF MigrationInv

\* Time only takes pointers away, and from the source no later than from the target.
LEMMA TickInv ==
    ASSUME MigrationInv, Tick
    PROVE  MigrationInv'
<1>1. /\ now' = now + 1 /\ run' = run
      /\ source' \in SourceType /\ target' \in TargetType
      /\ source'.letters = source.letters
      /\ target'.letters = target.letters /\ target'.schedule = target.schedule
      /\ target'.concatkeys = target.concatkeys
  BY TickMakes DEF MigrationInv
<1>2. /\ now \in Nat
      /\ \A a \in Address : /\ source.pointer[a].until \in Nat /\ target.pointer[a].until \in Nat
  BY DEF MigrationInv, TypesFit, PointerType
<1>3. \A a \in Address :
        /\ source'.pointer[a].uuid = source.pointer[a].uuid
        /\ source'.pointer[a].until = IF source.pointer[a].until < now + 1 THEN 0
                                      ELSE source.pointer[a].until
        /\ target'.pointer[a].uuid = target.pointer[a].uuid
        /\ target'.pointer[a].until = IF target.pointer[a].until < now + 1 THEN 0
                                      ELSE target.pointer[a].until
  BY TickMakes DEF MigrationInv
<1>4. TypesFit'
  BY <1>1, <1>2 DEF TypesFit, SourceType, TargetType
<1>5. RunFits'
  BY <1>1 DEF MigrationInv, RunFits
<1>6. LettersInv'
  <2>1. \A u \in Letter : Moved(u) => Moved(u)'
    BY <1>1 DEF Moved, Copied, Absent
  <2>2. \A u \in Letter : Absent(u) => Absent(u)'
    BY <1>1 DEF Absent
  <2>3. \A u \in Letter : Copied(u) => Copied(u)'
    BY <1>1 DEF Copied
  <2>4. run.pc \in LetterPhase => run.left \subseteq Letter
    BY DEF MigrationInv, RunFits, LetterPhase
  <2>5. run.pc = "schedule" => run.key \in Letter
    BY DEF MigrationInv, RunFits
  <2>6. \A u \in Letter : target'.schedule[u] # 0 => target'.letters[u].status = "stored"
    BY <1>1 DEF MigrationInv, LettersInv
  <2>7. run'.pc \in LetterPhase =>
          \A u \in run'.left : source'.letters[u].status = "stored" /\ Absent(u)'
    BY <1>1, <2>2, <2>4 DEF MigrationInv, LettersInv
  <2>8. run'.pc = "schedule" =>
          run'.key \notin run'.left /\ Copied(run.key)' /\ target'.schedule[run'.key] = 0
    BY <1>1 DEF MigrationInv, LettersInv, Copied
  <2>9. run'.pc \in LetterPhase \cup PointerPhase \cup {"done"} =>
          \A u \in Letter : \/ run'.pc \in LetterPhase /\ u \in run'.left
                            \/ run'.pc = "schedule" /\ u = run'.key
                            \/ Moved(u)'
    BY <1>1, <2>1 DEF MigrationInv, LettersInv
  <2>10. QED
    BY <2>6, <2>7, <2>8, <2>9 DEF LettersInv
<1>7. Bounded'
  BY <1>1, <1>2, <1>3, DelayAssumption DEF MigrationInv, PointersInv, Bounded
<1>8. NotAstray'
  BY <1>1, <1>2, <1>3 DEF MigrationInv, PointersInv, NotAstray
<1>9. InHand'
  <2> SUFFICES ASSUME run'.pc \in {"pointer", "track"}
               PROVE  InHand'
    BY DEF InHand
  <2>1. run.key \in Address /\ run.ttl \in Nat
    BY <1>1 DEF MigrationInv, RunFits
  <2>2. QED
    BY <1>1, <1>2, <1>3, <2>1 DEF MigrationInv, PointersInv, InHand
<1>10. ASSUME NEW a \in Address, Handed(a)
       PROVE  Handed(a)'
  BY <1>1, <1>2, <1>3, <1>10 DEF Handed
<1>11. run'.pc \in PointerPhase \cup {"done"} =>
         \A a \in Address :
           \/ run'.pc \in PointerPhase /\ a \in run'.left
           \/ run'.pc \in {"pointer", "track"} /\ a = run'.key
           \/ Handed(a)'
  BY <1>1, <1>10 DEF MigrationInv, PointersInv
<1>12. PointersInv'
  BY <1>7, <1>8, <1>9, <1>11 DEF PointersInv
<1>13. QED
  BY <1>4, <1>5, <1>6, <1>12 DEF MigrationInv

LEMMA InvInductive == MigrationInv /\ [Next]_vars => MigrationInv'
<1> SUFFICES ASSUME MigrationInv, [Next]_vars PROVE MigrationInv'
  OBVIOUS
<1>1. ASSUME NEW u \in Letter, Push(u) \/ Work(u)
      PROVE  MigrationInv'
  BY <1>1, PushInv, WorkInv
<1>2. CASE Script
  <2>1. ASSUME NEW overwrite \in BOOLEAN, Start(overwrite)
        PROVE  MigrationInv'
    BY <2>1, StartInv
  <2>2. ASSUME NEW u \in Letter, CopyLetter(u)
        PROVE  MigrationInv'
    BY <2>2, CopyLetterInv
  <2>3. ASSUME NEW a \in Address, ReadPointer(a)
        PROVE  MigrationInv'
    BY <2>3, ReadPointerInv
  <2>4. QED
    BY <1>2, <2>1, <2>2, <2>3, WipePointersInv, WipeLettersInv, ScheduleLetterInv,
       ScanPointersInv, CopyPointerInv, TrackPointerInv, DoneInv DEF Script
<1>3. CASE Crash
  BY <1>3, StopsInv DEF Crash
<1>4. CASE RollBack
  BY <1>4, StopsInv DEF RollBack
<1>5. CASE Tick
  BY <1>5, TickInv
<1>6. CASE UNCHANGED vars
  <2>1. now' = now /\ source' = source /\ target' = target /\ run' = run
    BY <1>6 DEF vars
  <2>2. TypesFit' /\ RunFits'
    BY <2>1 DEF MigrationInv, TypesFit, RunFits
  <2>3. LettersInv'
    BY <2>1 DEF MigrationInv, LettersInv, Moved, Copied, Absent
  <2>4. PointersInv'
    BY <2>1 DEF MigrationInv, PointersInv, Bounded, NotAstray, InHand, Handed
  <2>5. QED
    BY <2>2, <2>3, <2>4 DEF MigrationInv
<1>7. QED
  BY <1>1, <1>2, <1>3, <1>4, <1>5, <1>6 DEF Next

LEMMA AlwaysInv == Spec => []MigrationInv
<1>1. Init => MigrationInv
  BY InitInv
<1>2. MigrationInv /\ [Next]_vars => MigrationInv'
  BY InvInductive
<1>3. QED
  BY <1>1, <1>2, PTL DEF Spec

\* The target takes over where the source stopped: however many runs the script took
\* and wherever they died, whatever the source did in between and however long its
\* commands take, the letters, their places in the schedule and the live pointers
\* are those of the source.
THEOREM TargetTakesOver == Spec => []Migrated
<1>1. MigrationInv => LettersAgree
  <2> SUFFICES ASSUME MigrationInv PROVE LettersAgree
    OBVIOUS
  <2>1. \A u \in Letter : target.schedule[u] # 0 => target.letters[u].status = "stored"
    BY DEF MigrationInv, LettersInv
  <2>2. ASSUME run.pc = "done", NEW u \in Letter
        PROVE  LET r == source.letters[u] IN
               IF r.status = "stored"
               THEN /\ target.letters[u] = r
                    /\ Open(r) /\ r.isSending  => target.schedule[u] = r.sendingAt + SendingTimeout
                    /\ Open(r) /\ ~r.isSending => target.schedule[u] = r.sendAt
                    /\ ~Open(r)                => target.schedule[u] = 0
               ELSE target.letters[u].status # "stored"
    <3>1. Moved(u)
      BY <2>2 DEF MigrationInv, LettersInv, LetterPhase
    <3>2. QED
      BY <3>1 DEF Moved, Copied, Absent, NextEligibleAt
  <2>3. QED
    BY <2>1, <2>2 DEF LettersAgree
<1>2. MigrationInv => PointersAgree
  <2> SUFFICES ASSUME MigrationInv, run.pc = "done", NEW a \in Address
               PROVE  LET p == source.pointer[a]
                          q == target.pointer[a]
                      IN  /\ q.until > now => q.uuid = p.uuid
                          /\ p.until > now => q.until >= p.until /\ target.concatkeys[a] >= q.until
    BY DEF PointersAgree
  <2>1. Handed(a)
    BY DEF MigrationInv, PointersInv, PointerPhase
  <2>2. now \in Nat /\ source.pointer[a].until \in Nat /\ target.pointer[a].until \in Nat
    BY DEF MigrationInv, TypesFit, PointerType
  <2>3. LET p == source.pointer[a]
            q == target.pointer[a]
        IN  q.until > now => q.uuid = p.uuid \/ q.until <= p.until
    BY DEF MigrationInv, PointersInv, NotAstray
  <2>4. QED
    BY <2>1, <2>2, <2>3 DEF Handed
<1>3. QED
  BY <1>1, <1>2, AlwaysInv, PTL DEF Migrated

-----------------------------------------------------------------------------
(* The scans of the two layouts.                                           *)

\* A letter that was claimed was due, and each has its time.
WasDue(r) ==
    /\ r.isSending => r.sendAt <= r.sendingAt
    /\ r.status = "stored" => r.sendAt # 0

ClaimedWasDue == \A u \in Letter : WasDue(source.letters[u])

\* A letter as a process of version 5 stores it, with the fields of the lock.
Text(r) == [row |-> r, has |-> LockFields]

ScansAlike ==
    run.pc = "done" =>
      \A u \in Letter, at \in Nat :
        LET here == Text(source.letters[u])
            there == Text(target.letters[u])
        IN  target.schedule[u] # 0 /\ TaggedIterate(there, target.schedule[u], at)
              <=> StandaloneIterate(here, here.row.sendAt, at)

LEMMA RowsWereDue ==
    ASSUME NEW r \in RowType, WasDue(r), NEW at \in Nat
    PROVE  /\ at # 0 => WasDue(NewRow("stored", at)) /\ WasDue(Retried(r, at))
           /\ Eligible(r, at) => WasDue(Claimed(r, r.tries + 1, at))
           /\ r.status = "stored" => WasDue(Sent(r, {}))
           /\ WasDue(Removed(r))
<1>1. at # 0 => WasDue(NewRow("stored", at))
  BY DEF WasDue, NewRow
<1>2. Eligible(r, at) => WasDue(Claimed(r, r.tries + 1, at))
  BY DEF WasDue, Eligible, Open, Claimed, RowType
<1>3. at # 0 => WasDue(Retried(r, at))
  BY DEF WasDue, Retried, RowType
<1>4. r.status = "stored" => WasDue(Sent(r, {}))
  BY DEF WasDue, Sent, RowType
<1>5. WasDue(Removed(r))
  BY DEF WasDue, Removed, RowType
<1>6. QED
  BY <1>1, <1>2, <1>3, <1>4, <1>5

LEMMA DueStays ==
    ASSUME TypesFit, ClaimedWasDue, [Next]_vars
    PROVE  ClaimedWasDue'
<1>1. source \in SourceType /\ now \in Nat
  BY DEF TypesFit, SourceType
<1>2. ASSUME NEW u \in Letter, NEW s, WasDue(s),
             source'.letters = [source.letters EXCEPT ![u] = s]
      PROVE  ClaimedWasDue'
  <2>1. \A v \in Letter : source'.letters[v] = IF v = u THEN s ELSE source.letters[v]
    BY <1>1, <1>2 DEF SourceType
  <2>2. QED
    BY <1>2, <2>1 DEF ClaimedWasDue
<1>3. ASSUME NEW u \in Letter, Push(u)
      PROVE  ClaimedWasDue'
  <2>1. PICK s : s = NewRow("stored", now + Delay)
    OBVIOUS
  <2>2. now + Delay \in Nat /\ now + Delay # 0
    BY <1>1, DelayAssumption
  <2>3. WasDue(s)
    BY <2>1, <2>2 DEF WasDue, NewRow
  <2>4. source'.letters = [source.letters EXCEPT ![u] = s]
    BY <1>1, <1>3, <2>1, DelayAssumption DEF Push, SourceType
  <2>5. QED
    BY <1>2, <2>3, <2>4
<1>4. ASSUME NEW u \in Letter, Work(u)
      PROVE  ClaimedWasDue'
  <2>1. PICK r \in RowType : r = source.letters[u] /\ WasDue(r)
    BY <1>1 DEF SourceType, ClaimedWasDue
  <2>2. PICK s : WasDue(s) /\ source' = [source EXCEPT !.letters[u] = s]
    <3>1. \/ /\ Eligible(r, now)
             /\ source' = [source EXCEPT !.letters[u] = Claimed(r, r.tries + 1, now)]
          \/ /\ Open(r)
             /\ \/ source' = [source EXCEPT !.letters[u] = Retried(r, now + 1)]
                \/ source' = [source EXCEPT !.letters[u] = Sent(r, {})]
                \/ source' = [source EXCEPT !.letters[u] = Removed(r)]
      BY <1>4, <2>1, Zenon DEF Work
    <3>2. Eligible(r, now) => WasDue(Claimed(r, r.tries + 1, now))
      BY <1>1, <2>1, RowsWereDue
    <3>3. now + 1 \in Nat /\ now + 1 # 0
      BY <1>1
    <3>4. WasDue(Retried(r, now + 1))
      BY <2>1, <3>3, RowsWereDue
    <3>5. Open(r) => WasDue(Sent(r, {}))
      BY <1>1, <2>1, RowsWereDue DEF Open
    <3>6. WasDue(Removed(r))
      BY <1>1, <2>1, RowsWereDue
    <3>7. QED
      BY <3>1, <3>2, <3>4, <3>5, <3>6, Zenon
  <2>3. source'.letters = [source.letters EXCEPT ![u] = s]
    BY <1>1, <2>2 DEF SourceType
  <2>4. QED
    BY <1>2, <2>2, <2>3
<1>5. ASSUME source'.letters = source.letters
      PROVE  ClaimedWasDue'
  BY <1>5 DEF ClaimedWasDue
<1>6. CASE Script \/ Crash \/ RollBack \/ UNCHANGED vars
  <2>1. source' = source
    BY <1>6 DEF Script, Crash, RollBack, vars, Start, CopyLetter, ReadPointer, WipePointers,
       WipeLetters, ScheduleLetter, ScanPointers, CopyPointer, TrackPointer, Done
  <2>2. QED
    BY <1>5, <2>1
<1>7. CASE Tick
  BY <1>5, <1>7, TickMakes
<1>8. QED
  BY <1>3, <1>4, <1>6, <1>7 DEF Next

\* When the script is done, a scan of the hash-tag layout of the target returns the
\* letters that a scan of the standalone layout of the source would return, at any
\* later time: the score the script computes hides no letter and shows none early.
THEOREM ScansSurvive == Spec => []ScansAlike
<1>1. Init => ClaimedWasDue
  <2> SUFFICES ASSUME Init, NEW u \in Letter PROVE WasDue(source.letters[u])
    BY DEF ClaimedWasDue
  <2>1. source.letters = NoLetters
    BY DEF Init
  <2>2. QED
    BY <2>1 DEF NoLetters, NewRow, WasDue
<1>2. MigrationInv /\ ClaimedWasDue /\ [Next]_vars => ClaimedWasDue'
  BY DueStays DEF MigrationInv
<1>3. MigrationInv /\ ClaimedWasDue => ScansAlike
  <2> SUFFICES ASSUME MigrationInv, ClaimedWasDue, run.pc = "done", NEW u \in Letter, NEW at \in Nat
               PROVE  LET here == Text(source.letters[u])
                          there == Text(target.letters[u])
                      IN  target.schedule[u] # 0 /\ TaggedIterate(there, target.schedule[u], at)
                            <=> StandaloneIterate(here, here.row.sendAt, at)
    BY DEF ScansAlike
  <2>1. PICK r \in RowType : r = source.letters[u]
    BY DEF MigrationInv, TypesFit
  <2>2. Moved(u)
    BY DEF MigrationInv, LettersInv, LetterPhase
  <2>3. CASE r.status = "stored"
    <3>1. target.letters[u] = r /\ target.schedule[u] = NextEligibleAt(r)
      BY <2>1, <2>2, <2>3 DEF Moved, Copied
    <3>2. WasDue(r)
      BY <2>1 DEF ClaimedWasDue
    <3>3. PICK d : d = Text(r)
      OBVIOUS
    <3>4. d.row = r /\ IsSending(d) = r.isSending /\ SendingAt(d) = r.sendingAt
      BY <3>3 DEF Text, IsSending, SendingAt, Has, LockFields, RowType
    <3>5. NextEligibleAt(r) # 0 /\ TaggedIterate(d, NextEligibleAt(r), at)
            <=> StandaloneIterate(d, r.sendAt, at)
      BY <2>3, <3>2, <3>4, SendingTimeoutAssumption, MaxTriesAssumption
         DEF WasDue, TaggedIterate, TaggedReturned, IterateCandidate, StandaloneIterate,
             Closed, Found, NextEligibleAt, Open, RowType
    <3>6. QED
      BY <2>1, <3>1, <3>3, <3>4, <3>5
  <2>4. CASE r.status # "stored"
    <3>1. target.schedule[u] = 0
      BY <2>1, <2>2, <2>4 DEF Moved, Absent
    <3>2. ~Found(Text(source.letters[u]))
      BY <2>1, <2>4 DEF Found, Text
    <3>3. QED
      BY <3>1, <3>2 DEF StandaloneIterate
  <2>5. QED
    BY <2>3, <2>4
<1>4. QED
  BY <1>1, <1>2, <1>3, AlwaysInv, PTL DEF Spec

=============================================================================
