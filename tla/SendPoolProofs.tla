--------------------------- MODULE SendPoolProofs ---------------------------
(***************************************************************************)
(* Proofs about SendPool, for every finite set of tasks, every number of    *)
(* overlapping scans and drain() calls and every concurrency.               *)
(***************************************************************************)
EXTENDS SendPool, FiniteSetTheorems, SequenceTheorems, TLAPS

-----------------------------------------------------------------------------
(* The queue of the pool.                                                  *)

Uuids(q) == {q[i].uuid : i \in DOMAIN q}

\* No task waits twice.
Distinct(q) == \A i, j \in DOMAIN q : q[i].uuid = q[j].uuid => i = j

\* As many tasks as places in the first n.
LEMMA PrefixCount ==
    ASSUME NEW q \in Seq(Job), Distinct(q), NEW n \in 0 .. Len(q)
    PROVE  LET tasks == {q[i].uuid : i \in 1 .. n}
           IN  IsFiniteSet(tasks) /\ Cardinality(tasks) = n
<1> DEFINE tasks == {q[i].uuid : i \in 1 .. n}
           f == [i \in 1 .. n |-> q[i].uuid]
<1>1. DOMAIN q = 1 .. Len(q) /\ Len(q) \in Nat /\ n \in Nat
  BY LenProperties
<1>2. f \in [1 .. n -> tasks]
  OBVIOUS
<1>3. IsInjective(f)
  BY <1>1 DEF Distinct, IsInjective
<1>4. f \in Bijection(1 .. n, tasks)
  BY <1>2, <1>3 DEF Bijection, Injection, Surjection
<1>5. IsFiniteSet(1 .. n) /\ Cardinality(1 .. n) = n
  BY <1>1, FS_Interval
<1>6. ExistsBijection(1 .. n, tasks)
  BY <1>4 DEF ExistsBijection
<1>7. QED
  BY <1>5, <1>6, FS_Bijection

LEMMA WaitingCount ==
    ASSUME NEW q \in Seq(Job), Distinct(q)
    PROVE  Cardinality(Uuids(q)) = Len(q)
<1>1. Len(q) \in 0 .. Len(q) /\ DOMAIN q = 1 .. Len(q)
  BY LenProperties
<1>2. QED
  BY <1>1, PrefixCount DEF Uuids

\* A new task in the queue is one more place and one more task.
LEMMA AppendTask ==
    ASSUME NEW q \in Seq(Job), Distinct(q), NEW t \in Task, NEW s \in Scan,
           t \notin Uuids(q)
    PROVE  LET longer == Append(q, [uuid |-> t, scan |-> s])
           IN  /\ longer \in Seq(Job) /\ longer # <<>>
               /\ Distinct(longer)
               /\ Uuids(longer) = Uuids(q) \cup {t}
<1> DEFINE job == [uuid |-> t, scan |-> s]
           longer == Append(q, job)
<1>1. job \in Job /\ job.uuid = t
  BY DEF Job
<1>2. /\ longer \in Seq(Job) /\ longer # <<>>
      /\ Len(longer) = Len(q) + 1
      /\ \A i \in 1 .. Len(q) : longer[i] = q[i]
      /\ longer[Len(q) + 1] = job
  BY <1>1, AppendProperties
<1>3. /\ Len(q) \in Nat /\ DOMAIN q = 1 .. Len(q)
      /\ DOMAIN longer = 1 .. Len(q) + 1
  BY <1>2, LenProperties
<1> HIDE DEF longer, job
<1>4. Distinct(longer)
  <2> SUFFICES ASSUME NEW i \in 1 .. Len(q) + 1, NEW k \in 1 .. Len(q) + 1,
                      longer[i].uuid = longer[k].uuid
               PROVE  i = k
    BY <1>3 DEF Distinct
  <2>1. CASE i \in 1 .. Len(q) /\ k \in 1 .. Len(q)
    BY <1>2, <1>3, <2>1 DEF Distinct
  <2>2. ASSUME NEW x \in 1 .. Len(q)
        PROVE  longer[x].uuid # t
    BY <1>2, <1>3, <2>2 DEF Uuids
  <2>3. longer[Len(q) + 1].uuid = t
    BY <1>1, <1>2
  <2>4. QED
    BY <1>3, <2>1, <2>2, <2>3
<1>5. Uuids(longer) = Uuids(q) \cup {t}
  <2>1. ASSUME NEW x \in Uuids(longer)
        PROVE  x \in Uuids(q) \cup {t}
    BY <1>1, <1>2, <1>3 DEF Uuids
  <2>2. ASSUME NEW x \in Uuids(q)
        PROVE  x \in Uuids(longer)
    <3>1. PICK i \in 1 .. Len(q) : x = q[i].uuid
      BY <1>3 DEF Uuids
    <3>2. x = longer[i].uuid /\ i \in DOMAIN longer
      BY <1>2, <1>3, <3>1
    <3>3. QED
      BY <3>2 DEF Uuids
  <2>3. t \in Uuids(longer)
    <3>1. longer[Len(q) + 1].uuid = t /\ Len(q) + 1 \in DOMAIN longer
      BY <1>1, <1>2, <1>3
    <3>2. QED
      BY <3>1 DEF Uuids
  <2>4. QED
    BY <2>1, <2>2, <2>3
<1>6. QED
  BY <1>2, <1>4, <1>5 DEF longer, job

-----------------------------------------------------------------------------
(* tryStart.                                                               *)

LEMMA StartableFits ==
    ASSUME NEW a \in Nat, a <= Limit, NEW q \in Seq(Job)
    PROVE  LET n == Startable(a, q)
           IN  /\ n \in 0 .. Len(q)
               /\ a + n <= Limit
               /\ n # Len(q) => a + n = Limit
               /\ a < Limit /\ q # <<>> => n > 0
<1>1. Len(q) \in Nat /\ (q # <<>> => Len(q) > 0)
  BY LenProperties, EmptySeq
<1>2. QED
  BY <1>1, LimitAssumption DEF Startable

\* The jobs that tryStart leaves in the queue, and those it takes.
LEMMA StartSplits ==
    ASSUME NEW q \in Seq(Job), Distinct(q), NEW n \in 0 .. Len(q)
    PROVE  LET rest  == SubSeq(q, n + 1, Len(q))
               taken == {q[i].uuid : i \in 1 .. n}
           IN  /\ rest \in Seq(Job) /\ Len(rest) = Len(q) - n
               /\ Distinct(rest)
               /\ Uuids(rest) \cap taken = {}
               /\ Uuids(rest) \cup taken = Uuids(q)
<1> DEFINE rest  == SubSeq(q, n + 1, Len(q))
           taken == {q[i].uuid : i \in 1 .. n}
<1>1. /\ DOMAIN q = 1 .. Len(q) /\ Len(q) \in Nat /\ n \in Nat
      /\ \A i \in 1 .. Len(q) : q[i] \in Job
  BY LenProperties
<1>2. /\ rest \in Seq(Job)
      /\ Len(rest) = Len(q) - n
      /\ \A i \in 1 .. Len(q) - n : rest[i] = q[i + n]
  <2>1. \A i \in n + 1 .. Len(q) : q[i] \in Job
    BY <1>1
  <2>2. /\ rest \in Seq(Job)
        /\ Len(rest) = IF n + 1 <= Len(q) THEN Len(q) - (n + 1) + 1 ELSE 0
        /\ \A i \in 1 .. Len(q) - (n + 1) + 1 : rest[i] = q[(n + 1) + i - 1]
    <3>1. n + 1 \in Int /\ Len(q) \in Int
      BY <1>1
    <3>2. QED
      BY <2>1, <3>1, SubSeqProperties
  <2>3. Len(q) - (n + 1) + 1 = Len(q) - n /\ (~(n + 1 <= Len(q)) => Len(q) - n = 0)
    <3>1. ASSUME NEW m \in Nat, n \in 0 .. m
          PROVE  m - (n + 1) + 1 = m - n /\ (~(n + 1 <= m) => m - n = 0)
      BY <1>1, <3>1
    <3>2. QED
      BY <1>1, <3>1
  <2>4. ASSUME NEW i \in 1 .. Len(q) - n
        PROVE  rest[i] = q[i + n]
    <3>1. (n + 1) + i - 1 = i + n
      BY <1>1
    <3>2. rest[i] = q[(n + 1) + i - 1]
      BY <2>2, <2>3
    <3>3. QED
      BY <3>1, <3>2
  <2>5. Len(rest) = Len(q) - n
    <3> HIDE DEF rest
    <3>1. QED
      BY <2>2, <2>3
  <2>6. QED
    BY <2>2, <2>4, <2>5
<1>3. DOMAIN rest = 1 .. Len(q) - n
  BY <1>2, LenProperties
<1> HIDE DEF rest
<1>4. Distinct(rest)
  <2> SUFFICES ASSUME NEW i \in 1 .. Len(q) - n, NEW k \in 1 .. Len(q) - n,
                      rest[i].uuid = rest[k].uuid
               PROVE  i = k
    BY <1>3 DEF Distinct
  <2>1. q[i + n].uuid = q[k + n].uuid /\ i + n \in 1 .. Len(q) /\ k + n \in 1 .. Len(q)
    BY <1>1, <1>2
  <2>2. i + n = k + n
    BY <1>1, <2>1 DEF Distinct
  <2>3. QED
    BY <1>1, <2>2
<1>5. Uuids(rest) = {q[i].uuid : i \in n + 1 .. Len(q)}
  <2>1. ASSUME NEW x \in Uuids(rest)
        PROVE  x \in {q[i].uuid : i \in n + 1 .. Len(q)}
    <3>1. PICK i \in 1 .. Len(q) - n : x = rest[i].uuid
      BY <1>3 DEF Uuids
    <3>2. x = q[i + n].uuid /\ i + n \in n + 1 .. Len(q)
      BY <1>1, <1>2, <3>1
    <3>3. QED
      BY <3>2
  <2>2. ASSUME NEW k \in n + 1 .. Len(q)
        PROVE  q[k].uuid \in Uuids(rest)
    <3>1. k - n \in 1 .. Len(q) - n /\ (k - n) + n = k
      BY <1>1
    <3>2. rest[k - n] = q[k] /\ k - n \in DOMAIN rest
      BY <1>2, <1>3, <3>1
    <3>3. QED
      BY <3>2 DEF Uuids
  <2>3. QED
    BY <2>1, <2>2
<1>6. Uuids(rest) \cap taken = {}
  BY <1>1, <1>5 DEF Distinct
<1>7. Uuids(rest) \cup taken = Uuids(q)
  <2>1. 1 .. Len(q) = (1 .. n) \cup (n + 1 .. Len(q))
    BY <1>1
  <2>2. QED
    BY <1>1, <1>5, <2>1 DEF Uuids
<1>8. QED
  BY <1>2, <1>4, <1>6, <1>7 DEF rest

\* tryStart fills the free slots with the oldest jobs: it never goes beyond the
\* limit, and leaves a job waiting only when every slot is taken.
LEMMA TryStartFills ==
    ASSUME NEW a \in Nat, a <= Limit, NEW q \in Seq(Job), Distinct(q),
           started \in SUBSET Task, Uuids(q) \cap started = {},
           NEW sc \in [Scan -> [pc : {"idle", "reading", "waiting"}, todo : SUBSET Task]],
           TryStart(a, q, sc)
    PROVE  /\ active' \in Nat /\ a <= active' /\ active' <= Limit
           /\ queue' \in Seq(Job) /\ Distinct(queue')
           /\ queue' # <<>> => active' = Limit
           /\ a < Limit /\ q # <<>> => active' > a
           /\ started' \in SUBSET Task
           /\ Cardinality(started') = Cardinality(started) + (active' - a)
           /\ Uuids(queue') \cap started' = {}
           /\ Uuids(queue') \cup started' = Uuids(q) \cup started
           /\ scan' \in [Scan -> [pc : {"idle", "reading", "waiting"}, todo : SUBSET Task]]
<1> DEFINE n == Startable(a, q)
           taken == {q[i].uuid : i \in 1 .. n}
<1>1. /\ n \in 0 .. Len(q) /\ a + n <= Limit
      /\ n # Len(q) => a + n = Limit
      /\ a < Limit /\ q # <<>> => n > 0
  BY StartableFits
<1>2. /\ active' = a + n
      /\ queue' = SubSeq(q, n + 1, Len(q))
      /\ started' = started \cup taken
  <2>1. {job.uuid : job \in {q[i] : i \in 1 .. n}} = taken
    OBVIOUS
  <2>2. QED
    BY <2>1 DEF TryStart
<1>3. scan' \in [Scan -> [pc : {"idle", "reading", "waiting"}, todo : SUBSET Task]]
  BY ZenonT(60) DEF TryStart
<1> HIDE DEF n
<1>4. /\ queue' \in Seq(Job) /\ Len(queue') = Len(q) - n
      /\ Distinct(queue')
      /\ Uuids(queue') \cap taken = {}
      /\ Uuids(queue') \cup taken = Uuids(q)
  BY <1>1, <1>2, StartSplits
<1>5. IsFiniteSet(taken) /\ Cardinality(taken) = n
  BY <1>1, PrefixCount
<1>6. Len(q) \in Nat /\ n \in Nat
  BY <1>1, LenProperties
<1>7. queue' # <<>> => active' = Limit
  <2>1. queue' # <<>> => Len(queue') > 0
    BY <1>4, EmptySeq
  <2>2. QED
    BY <1>1, <1>2, <1>4, <1>6, <2>1
<1>8. taken \subseteq Task
  <2>1. \A i \in 1 .. Len(q) : q[i] \in Job
    BY ElementOfSeq
  <2>2. QED
    BY <1>1, <1>6, <2>1 DEF Job
<1>9. IsFiniteSet(started) /\ Cardinality(started) \in Nat
  BY TaskAssumption, FS_Subset, FS_CardinalityType
<1>10. Cardinality(started') = Cardinality(started) + n
  <2>1. started \cap taken = {}
    BY <1>4
  <2>2. Cardinality(started \cap taken) = 0
    BY <2>1, FS_EmptySet
  <2>3. Cardinality(started \cup taken) = Cardinality(started) + Cardinality(taken)
                                          - Cardinality(started \cap taken)
    BY <1>5, <1>9, FS_Union
  <2>4. QED
    BY <1>2, <1>5, <1>6, <1>9, <2>2, <2>3
<1>11. active' \in Nat /\ a <= active' /\ active' <= Limit /\ active' - a = n
  BY <1>1, <1>2, <1>6
<1>12. Uuids(queue') \cap started' = {} /\ Uuids(queue') \cup started' = Uuids(q) \cup started
  BY <1>2, <1>4
<1>13. a < Limit /\ q # <<>> => active' > a
  BY <1>1, <1>2, <1>6
<1>14. QED
  BY <1>2, <1>3, <1>4, <1>7, <1>8, <1>10, <1>11, <1>12, <1>13

-----------------------------------------------------------------------------
(* The invariant.  ConcurrencyBound and MarksMatchJobs do not bound the slots *)
(* taken nor name the tasks that wait; and what a resolved drain() promises   *)
(* of an instance is kept because no life comes back from a destroy.         *)

SlotsTaken ==
    /\ active <= Limit
    /\ active = Cardinality(started) + Cardinality(sending) + ended

Marks ==
    /\ Distinct(queue)
    /\ inFlight = Uuids(queue) \cup started \cup sending
    /\ Uuids(queue) \cap started = {}
    /\ Uuids(queue) \cap sending = {}
    /\ started \cap sending = {}

DrainsAreQuiet ==
    \A c \in Caller : drain[c].at \in {"draining", "aborted"} =>
        /\ Destroyed
        /\ drain[c].pc = "resolved" => sending = {}

PoolInv == TypeOK /\ SlotsTaken /\ NobodyForgotten /\ Marks /\ DrainsAreQuiet

\* The sets of tasks are finite.
LEMMA TasksCounted ==
    ASSUME NEW S \in SUBSET Task
    PROVE  /\ IsFiniteSet(S) /\ Cardinality(S) \in Nat
           /\ Cardinality(S) = 0 <=> S = {}
           /\ \A t \in S : Cardinality(S \ {t}) = Cardinality(S) - 1
           /\ \A t \in Task \ S : Cardinality(S \cup {t}) = Cardinality(S) + 1
<1>1. IsFiniteSet(S)
  BY TaskAssumption, FS_Subset
<1>2. Cardinality(S) \in Nat
  BY <1>1, FS_CardinalityType
<1>3. Cardinality(S) = 0 <=> S = {}
  BY <1>1, FS_EmptySet
<1>4. \A t \in S : Cardinality(S \ {t}) = Cardinality(S) - 1
  BY <1>1, FS_RemoveElement
<1>5. \A t \in Task \ S : Cardinality(S \cup {t}) = Cardinality(S) + 1
  BY <1>1, FS_AddElement
<1>6. QED
  BY <1>1, <1>2, <1>3, <1>4, <1>5

LEMMA InitPool == Init => PoolInv
<1> SUFFICES ASSUME Init PROVE PoolInv
  OBVIOUS
<1>1. TypeOK
  BY EmptySeq DEF Init, TypeOK, Lives
<1>2. Cardinality({}) = 0
  BY FS_EmptySet
<1>3. SlotsTaken
  BY <1>2, LimitAssumption DEF Init, SlotsTaken
<1>4. NobodyForgotten
  BY DEF Init, NobodyForgotten
<1>5. Marks
  BY DEF Init, Marks, Distinct, Uuids
<1>6. DrainsAreQuiet
  BY DEF Init, DrainsAreQuiet
<1>7. QED
  BY <1>1, <1>3, <1>4, <1>5, <1>6 DEF PoolInv

\* A row goes to the pool.
LEMMA DispatchPool ==
    ASSUME PoolInv, NEW s \in Scan, NEW t \in Task, Dispatch(s, t)
    PROVE  PoolInv'
<1> DEFINE longer == Append(queue, [uuid |-> t, scan |-> s])
           sc == [scan EXCEPT ![s] = [pc |-> "waiting", todo |-> @.todo \ {t}]]
<1>1. /\ life \in Lives /\ queue \in Seq(Job) /\ active \in Nat
      /\ started \in SUBSET Task /\ sending \in SUBSET Task /\ ended \in Nat
      /\ inFlight \in SUBSET Task
      /\ active <= Limit /\ Distinct(queue)
      /\ active = Cardinality(started) + Cardinality(sending) + ended
  BY DEF PoolInv, TypeOK, SlotsTaken, Marks
<1>2. /\ life' = life /\ sending' = sending /\ ended' = ended /\ drain' = drain
      /\ inFlight' = inFlight \cup {t}
      /\ t \notin inFlight /\ ~Destroyed
      /\ TryStart(active, longer, sc)
  BY DEF Dispatch, Skipped
<1>3. t \notin Uuids(queue) /\ t \notin started /\ t \notin sending
  BY <1>2 DEF PoolInv, Marks
<1>4. /\ longer \in Seq(Job) /\ longer # <<>> /\ Distinct(longer)
      /\ Uuids(longer) = Uuids(queue) \cup {t}
  BY <1>1, <1>3, AppendTask
<1>5. sc \in [Scan -> [pc : {"idle", "reading", "waiting"}, todo : SUBSET Task]]
  BY DEF PoolInv, TypeOK
<1>6. Uuids(longer) \cap started = {}
  BY <1>3, <1>4 DEF PoolInv, Marks
<1> HIDE DEF longer, sc
<1>7. /\ active' \in Nat /\ active <= active' /\ active' <= Limit
      /\ queue' \in Seq(Job) /\ Distinct(queue')
      /\ queue' # <<>> => active' = Limit
      /\ started' \in SUBSET Task
      /\ Cardinality(started') = Cardinality(started) + (active' - active)
      /\ Uuids(queue') \cap started' = {}
      /\ Uuids(queue') \cup started' = Uuids(longer) \cup started
      /\ scan' \in [Scan -> [pc : {"idle", "reading", "waiting"}, todo : SUBSET Task]]
  BY <1>1, <1>2, <1>4, <1>5, <1>6, TryStartFills
<1>8. TypeOK'
  BY <1>1, <1>2, <1>7 DEF PoolInv, TypeOK
<1>9. SlotsTaken'
  <2>1. Cardinality(started) \in Nat /\ Cardinality(sending) \in Nat
    BY <1>1, TasksCounted
  <2>2. active' = Cardinality(started') + Cardinality(sending) + ended
    <3> DEFINE d == active' - active
    <3>1. active' = active + d /\ d \in Int
      BY <1>1, <1>7
    <3>2. Cardinality(started') = Cardinality(started) + d
      BY <1>7
    <3> HIDE DEF d
    <3>3. active + d = (Cardinality(started) + d) + Cardinality(sending) + ended
      BY <1>1, <2>1, <3>1
    <3>4. QED
      BY <3>1, <3>2, <3>3, Zenon
  <2>3. Cardinality(sending') = Cardinality(sending) /\ ended' = ended /\ active' <= Limit
    BY <1>2, <1>7
  <2>4. active' = Cardinality(started') + Cardinality(sending') + ended'
    BY <2>2, <2>3, Zenon
  <2>5. QED
    BY <2>3, <2>4, Zenon DEF SlotsTaken
<1>10. NobodyForgotten'
  BY <1>1, <1>2, <1>7 DEF PoolInv, NobodyForgotten
<1>11. Marks'
  BY <1>2, <1>3, <1>4, <1>7 DEF PoolInv, Marks
<1>12. DrainsAreQuiet'
  BY <1>2 DEF PoolInv, DrainsAreQuiet, Destroyed
<1>13. QED
  BY <1>8, <1>9, <1>10, <1>11, <1>12 DEF PoolInv

\* A job that holds a slot runs its first line.
LEMMA JobStartPool ==
    ASSUME PoolInv, NEW t \in Task, JobStart(t)
    PROVE  PoolInv'
<1>1. /\ started \in SUBSET Task /\ sending \in SUBSET Task /\ ended \in Nat
      /\ active = Cardinality(started) + Cardinality(sending) + ended
      /\ active \in Nat
      /\ t \in started /\ t \notin sending /\ t \notin Uuids(queue)
  BY DEF PoolInv, TypeOK, SlotsTaken, Marks, JobStart
<1>2. /\ started' = started \ {t}
      /\ life' = life /\ scan' = scan /\ queue' = queue /\ active' = active
      /\ drain' = drain
      /\ \/ /\ Destroyed /\ inFlight' = inFlight \ {t} /\ ended' = ended + 1
            /\ sending' = sending
         \/ /\ ~Destroyed /\ sending' = sending \cup {t}
            /\ inFlight' = inFlight /\ ended' = ended
  BY DEF JobStart
<1>3. /\ Cardinality(started) \in Nat /\ Cardinality(sending) \in Nat
      /\ Cardinality(started \ {t}) = Cardinality(started) - 1
      /\ Cardinality(sending \cup {t}) = Cardinality(sending) + 1
  BY <1>1, TasksCounted
<1>4. TypeOK'
  BY <1>1, <1>2 DEF PoolInv, TypeOK
<1>5. SlotsTaken'
  <2>1. active' <= Limit
    BY <1>2 DEF PoolInv, SlotsTaken
  <2>2. Cardinality(started') = Cardinality(started) - 1
    BY <1>2, <1>3
  <2>3. CASE Cardinality(sending') = Cardinality(sending) /\ ended' = ended + 1
    <3>1. active = (Cardinality(started) - 1) + Cardinality(sending) + (ended + 1)
      BY <1>1, <1>3
    <3>2. QED
      BY <1>2, <2>1, <2>2, <2>3, <3>1 DEF SlotsTaken
  <2>4. CASE Cardinality(sending') = Cardinality(sending) + 1 /\ ended' = ended
    <3>1. active = (Cardinality(started) - 1) + (Cardinality(sending) + 1) + ended
      BY <1>1, <1>3
    <3>2. QED
      BY <1>2, <2>1, <2>2, <2>4, <3>1 DEF SlotsTaken
  <2>5. QED
    BY <1>2, <1>3, <2>3, <2>4
<1>6. NobodyForgotten'
  BY <1>2 DEF PoolInv, NobodyForgotten
<1>7. Marks'
  BY <1>1, <1>2 DEF PoolInv, Marks
<1>8. DrainsAreQuiet'
  BY <1>2 DEF PoolInv, DrainsAreQuiet, Destroyed
<1>9. QED
  BY <1>4, <1>5, <1>6, <1>7, <1>8 DEF PoolInv

LEMMA SendEndPool ==
    ASSUME PoolInv, NEW t \in Task, SendEnd(t)
    PROVE  PoolInv'
<1>1. /\ started \in SUBSET Task /\ sending \in SUBSET Task /\ ended \in Nat
      /\ active = Cardinality(started) + Cardinality(sending) + ended
      /\ t \in sending /\ t \notin started /\ t \notin Uuids(queue)
  BY DEF PoolInv, TypeOK, SlotsTaken, Marks, SendEnd
<1>2. /\ sending' = sending \ {t} /\ inFlight' = inFlight \ {t} /\ ended' = ended + 1
      /\ life' = life /\ scan' = scan /\ queue' = queue /\ active' = active
      /\ started' = started /\ drain' = drain
  BY DEF SendEnd
<1>3. /\ Cardinality(started) \in Nat /\ Cardinality(sending) \in Nat
      /\ Cardinality(sending \ {t}) = Cardinality(sending) - 1
  BY <1>1, TasksCounted
<1>4. TypeOK'
  BY <1>1, <1>2 DEF PoolInv, TypeOK
<1>5. SlotsTaken'
  BY <1>1, <1>2, <1>3 DEF PoolInv, SlotsTaken
<1>6. NobodyForgotten'
  BY <1>2 DEF PoolInv, NobodyForgotten
<1>7. Marks'
  BY <1>1, <1>2 DEF PoolInv, Marks
<1>8. DrainsAreQuiet'
  BY <1>2 DEF PoolInv, DrainsAreQuiet, Destroyed
<1>9. QED
  BY <1>4, <1>5, <1>6, <1>7, <1>8 DEF PoolInv

\* A slot is given back: a drain() call that goes on waiting waits for a job that
\* tryStart has just given the slot, or for one that had one.
LEMMA SlotFreePool ==
    ASSUME PoolInv, SlotFree
    PROVE  PoolInv'
<1>1. /\ life \in Lives /\ queue \in Seq(Job) /\ active \in Nat
      /\ started \in SUBSET Task /\ sending \in SUBSET Task /\ ended \in Nat
      /\ active <= Limit /\ Distinct(queue) /\ Uuids(queue) \cap started = {}
      /\ active = Cardinality(started) + Cardinality(sending) + ended
      /\ scan \in [Scan -> [pc : {"idle", "reading", "waiting"}, todo : SUBSET Task]]
  BY DEF PoolInv, TypeOK, SlotsTaken, Marks
<1>2. /\ ended > 0 /\ ended' = ended - 1
      /\ drain' = Resolved(active - 1, queue)
      /\ TryStart(active - 1, queue, scan)
      /\ life' = life /\ inFlight' = inFlight /\ sending' = sending
  BY DEF SlotFree
<1>3. Cardinality(started) \in Nat /\ Cardinality(sending) \in Nat
  BY <1>1, TasksCounted
<1>4. active - 1 \in Nat /\ active - 1 <= Limit /\ active - 1 < Limit
  BY <1>1, <1>2, <1>3, LimitAssumption
<1>5. /\ active' \in Nat /\ active - 1 <= active' /\ active' <= Limit
      /\ queue' \in Seq(Job) /\ Distinct(queue')
      /\ queue' # <<>> => active' = Limit
      /\ queue # <<>> => active' > active - 1
      /\ started' \in SUBSET Task
      /\ Cardinality(started') = Cardinality(started) + (active' - (active - 1))
      /\ Uuids(queue') \cap started' = {}
      /\ Uuids(queue') \cup started' = Uuids(queue) \cup started
      /\ scan' \in [Scan -> [pc : {"idle", "reading", "waiting"}, todo : SUBSET Task]]
  BY <1>1, <1>2, <1>4, TryStartFills
<1>6. /\ drain' \in [Caller -> [pc : {"idle", "waiting", "resolved"}, at : Lives]]
      /\ \A c \in Caller :
           /\ drain'[c].at = drain[c].at
           /\ drain'[c].pc = "waiting" => ~AtRest(active - 1, queue)
           /\ drain'[c].pc = "resolved" =>
                drain[c].pc = "resolved" \/ AtRest(active - 1, queue)
  <2>1. drain \in [Caller -> [pc : {"idle", "waiting", "resolved"}, at : Lives]]
    BY DEF PoolInv, TypeOK
  <2>2. ASSUME NEW c \in Caller
        PROVE  drain'[c] = IF drain[c].pc = "waiting" /\ AtRest(active - 1, queue)
                           THEN [drain[c] EXCEPT !.pc = "resolved"] ELSE drain[c]
    BY <1>2 DEF Resolved
  <2>3. DOMAIN drain' = Caller /\ drain' = [c \in Caller |-> drain'[c]]
    BY <1>2 DEF Resolved
  <2>4. ASSUME NEW c \in Caller
        PROVE  /\ drain'[c] \in [pc : {"idle", "waiting", "resolved"}, at : Lives]
               /\ drain'[c].at = drain[c].at
               /\ drain'[c].pc = "waiting" => ~AtRest(active - 1, queue)
               /\ drain'[c].pc = "resolved" =>
                     drain[c].pc = "resolved" \/ AtRest(active - 1, queue)
    BY <2>1, <2>2
  <2>5. QED
    BY <2>3, <2>4
<1>7. TypeOK'
  <2>1. inFlight' \subseteq Task /\ ended' \in Nat
    BY <1>1, <1>2 DEF PoolInv, TypeOK
  <2>2. QED
    BY <1>1, <1>2, <1>5, <1>6, <2>1 DEF TypeOK
<1>8. SlotsTaken'
  <2>1. active' = Cardinality(started') + Cardinality(sending) + (ended - 1)
    <3> DEFINE d == active' - (active - 1)
    <3>1. active' = (active - 1) + d /\ d \in Int
      BY <1>1, <1>5
    <3>2. Cardinality(started') = Cardinality(started) + d
      BY <1>5
    <3> HIDE DEF d
    <3>3. (active - 1) + d = (Cardinality(started) + d) + Cardinality(sending) + (ended - 1)
      <4>1. /\ active \in Nat /\ ended \in Nat /\ d \in Int
            /\ active = Cardinality(started) + Cardinality(sending) + ended
        BY <1>1, <3>1
      <4>2. QED
        BY <1>3, <4>1
    <3>4. QED
      BY <3>1, <3>2, <3>3, Zenon
  <2>2. /\ Cardinality(sending') = Cardinality(sending) /\ ended' = ended - 1
        /\ active' <= Limit
    BY <1>2, <1>5
  <2>3. active' = Cardinality(started') + Cardinality(sending') + ended'
    BY <2>1, <2>2, Zenon
  <2>4. QED
    BY <2>2, <2>3, Zenon DEF SlotsTaken
<1>9. NobodyForgotten'
  <2>1. ASSUME NEW c \in Caller, drain'[c].pc = "waiting"
        PROVE  active' > 0
    <3>1. active - 1 # 0 \/ queue # <<>>
      BY <1>6, <2>1 DEF AtRest
    <3>2. QED
      BY <1>1, <1>4, <1>5, <3>1
  <2>2. QED
    BY <1>5, <2>1 DEF NobodyForgotten
<1>10. Marks'
  BY <1>2, <1>5 DEF PoolInv, Marks
<1>11. DrainsAreQuiet'
  <2> SUFFICES ASSUME NEW c \in Caller, drain'[c].at \in {"draining", "aborted"}
               PROVE  Destroyed' /\ (drain'[c].pc = "resolved" => sending' = {})
    BY DEF DrainsAreQuiet
  <2>1. drain[c].at \in {"draining", "aborted"}
    BY <1>6
  <2>2. Destroyed' /\ (drain[c].pc = "resolved" => sending = {})
    BY <1>2, <2>1 DEF PoolInv, DrainsAreQuiet, Destroyed
  <2>3. AtRest(active - 1, queue) => sending = {}
    <3>1. active - 1 = 0 => Cardinality(sending) = 0
      BY <1>1, <1>2, <1>3
    <3>2. QED
      BY <1>1, <3>1, TasksCounted DEF AtRest
  <2>4. QED
    BY <1>2, <1>6, <2>2, <2>3
<1>12. QED
  BY <1>7, <1>8, <1>9, <1>10, <1>11 DEF PoolInv

\* The calls of the application: a drain() call waits only for a busy pool.
LEMMA CallPool ==
    ASSUME PoolInv,
           \/ \E c \in Caller : Drain(c) \/ DestroyDrain(c)
           \/ Pause \/ Resume \/ DestroyNow
    PROVE  PoolInv'
<1>1. /\ scan' = scan /\ inFlight' = inFlight /\ queue' = queue /\ active' = active
      /\ started' = started /\ sending' = sending /\ ended' = ended
  BY DEF Drain, DestroyDrain, Pause, Resume, DestroyNow
<1>2. SlotsTaken' /\ Marks'
  BY <1>1 DEF PoolInv, SlotsTaken, Marks
<1>3. AtRest(active, queue) => sending = {}
  <2>1. /\ sending \in SUBSET Task /\ started \in SUBSET Task /\ ended \in Nat
        /\ active = Cardinality(started) + Cardinality(sending) + ended
    BY DEF PoolInv, TypeOK, SlotsTaken
  <2>2. /\ Cardinality(started) \in Nat /\ Cardinality(sending) \in Nat
        /\ Cardinality(sending) = 0 => sending = {}
    BY <2>1, TasksCounted
  <2>3. active = 0 => Cardinality(sending) = 0
    BY <2>1, <2>2
  <2>4. QED
    BY <2>2, <2>3 DEF AtRest
<1>4. ~AtRest(active, queue) => active > 0
  BY LimitAssumption DEF PoolInv, NobodyForgotten, AtRest, TypeOK
<1>5. /\ life \in Lives
      /\ drain \in [Caller -> [pc : {"idle", "waiting", "resolved"}, at : Lives]]
  BY DEF PoolInv, TypeOK
<1>6. ASSUME NEW c \in Caller, NEW at \in Lives,
             drain' = [drain EXCEPT ![c] = DrainCall(at)],
             life' \in Lives,
             at \in {"draining", "aborted"} => Destroyed',
             Destroyed => Destroyed'
      PROVE  PoolInv'
  <2>1. DrainCall(at) \in [pc : {"idle", "waiting", "resolved"}, at : Lives]
    BY DEF DrainCall
  <2>2. drain' \in [Caller -> [pc : {"idle", "waiting", "resolved"}, at : Lives]]
    BY <1>5, <1>6, <2>1
  <2>3. /\ drain'[c] = DrainCall(at)
        /\ \A d \in Caller \ {c} : drain'[d] = drain[d]
    BY <1>5, <1>6
  <2>4. TypeOK'
    BY <1>1, <1>6, <2>2 DEF PoolInv, TypeOK
  <2>5. /\ drain'[c].pc = "waiting" => active > 0
        /\ drain'[c].pc = "resolved" => sending = {}
        /\ drain'[c].at = at
    BY <1>3, <1>4, <2>3 DEF DrainCall
  <2>6. NobodyForgotten'
    BY <1>1, <2>3, <2>5 DEF PoolInv, NobodyForgotten
  <2>7. DrainsAreQuiet'
    BY <1>1, <1>6, <2>3, <2>5 DEF PoolInv, DrainsAreQuiet
  <2>8. QED
    BY <1>2, <2>4, <2>6, <2>7 DEF PoolInv
<1>7. ASSUME NEW c \in Caller, Drain(c)
      PROVE  PoolInv'
  <2>1. drain' = [drain EXCEPT ![c] = DrainCall(life)] /\ life' = life
    BY <1>7 DEF Drain
  <2>2. QED
    BY <1>5, <1>6, <2>1 DEF Destroyed
<1>8. ASSUME NEW c \in Caller, DestroyDrain(c)
      PROVE  PoolInv'
  <2>1. /\ drain' = [drain EXCEPT ![c] = DrainCall("draining")]
        /\ life' = "draining"
    BY <1>8 DEF DestroyDrain
  <2>2. QED
    BY <1>6, <2>1 DEF Destroyed, Lives
<1>9. CASE Pause \/ DestroyNow
  <2>1. drain' = drain /\ life' \in Lives /\ (Destroyed => Destroyed')
    BY <1>9 DEF Pause, DestroyNow, Destroyed, Lives
  <2>2. TypeOK' /\ NobodyForgotten' /\ DrainsAreQuiet'
    BY <1>1, <2>1 DEF PoolInv, TypeOK, NobodyForgotten, DrainsAreQuiet
  <2>3. QED
    BY <1>2, <2>2 DEF PoolInv
<1>10. CASE Resume
  <2>1. life' = "up" /\ drain' = [c \in Caller |-> [drain[c] EXCEPT !.at = "up"]]
    BY <1>10 DEF Resume
  <2>2. \A c \in Caller : drain'[c].at = "up" /\ drain'[c].pc = drain[c].pc
    BY <1>5, <2>1
  <2>3. drain' \in [Caller -> [pc : {"idle", "waiting", "resolved"}, at : Lives]]
    BY <1>5, <2>1 DEF Lives
  <2>4. TypeOK'
    BY <1>1, <2>1, <2>3 DEF PoolInv, TypeOK, Lives
  <2>5. NobodyForgotten' /\ DrainsAreQuiet'
    BY <1>1, <2>2 DEF PoolInv, NobodyForgotten, DrainsAreQuiet
  <2>6. QED
    BY <1>2, <2>4, <2>5 DEF PoolInv
<1>11. QED
  BY <1>7, <1>8, <1>9, <1>10

\* What a scan does besides giving rows to the pool.
LEMMA ScanPool ==
    ASSUME PoolInv, NEW s \in Scan,
           \/ \E todo \in SUBSET Task : ScanStart(s, todo)
           \/ ScanEnd(s)
           \/ \E t \in Task : Skip(s, t)
    PROVE  PoolInv'
<1>1. /\ life' = life /\ inFlight' = inFlight /\ queue' = queue /\ active' = active
      /\ started' = started /\ sending' = sending /\ ended' = ended /\ drain' = drain
  BY DEF ScanStart, ScanEnd, Skip
<1>2. scan' \in [Scan -> [pc : {"idle", "reading", "waiting"}, todo : SUBSET Task]]
  <2>1. scan \in [Scan -> [pc : {"idle", "reading", "waiting"}, todo : SUBSET Task]]
    BY DEF PoolInv, TypeOK
  <2>2. QED
    BY <2>1 DEF ScanStart, ScanEnd, Skip
<1>3. TypeOK'
  BY <1>1, <1>2 DEF PoolInv, TypeOK
<1>4. SlotsTaken' /\ NobodyForgotten' /\ Marks' /\ DrainsAreQuiet'
  BY <1>1 DEF PoolInv, SlotsTaken, NobodyForgotten, Marks, DrainsAreQuiet, Destroyed
<1>5. QED
  BY <1>3, <1>4 DEF PoolInv

LEMMA PoolInductive == Spec => []PoolInv
<1>1. Init => PoolInv
  BY InitPool
<1>2. PoolInv /\ [Next]_vars => PoolInv'
  <2> SUFFICES ASSUME PoolInv, [Next]_vars PROVE PoolInv'
    OBVIOUS
  <2>1. CASE Next
    BY <2>1, DispatchPool, JobStartPool, SendEndPool, SlotFreePool, CallPool, ScanPool
       DEF Next, ScanGoesOn
  <2>2. CASE UNCHANGED vars
    BY <2>2 DEF vars, PoolInv, TypeOK, SlotsTaken, NobodyForgotten, Marks,
                DrainsAreQuiet, Destroyed
  <2>3. QED
    BY <2>1, <2>2
<1>3. QED
  BY <1>1, <1>2, PTL DEF Spec

\* The state of the pool has the declared types in every behaviour.
THEOREM PoolTypes == Spec => []TypeOK
BY PoolInductive, PTL DEF PoolInv

\* Never more than {concurrency} sends at a time, and the counter of the pool
\* counts just the jobs that hold a slot.
THEOREM PoolBound == Spec => []ConcurrencyBound
<1>1. PoolInv => ConcurrencyBound
  <2> SUFFICES ASSUME PoolInv PROVE ConcurrencyBound
    OBVIOUS
  <2>1. /\ started \in SUBSET Task /\ sending \in SUBSET Task /\ ended \in Nat
        /\ active <= Limit
        /\ active = Cardinality(started) + Cardinality(sending) + ended
    BY DEF PoolInv, TypeOK, SlotsTaken
  <2>2. Cardinality(started) \in Nat /\ Cardinality(sending) \in Nat
    BY <2>1, TasksCounted
  <2>3. QED
    BY <2>1, <2>2, LimitAssumption DEF ConcurrencyBound
<1>2. QED
  BY <1>1, PoolInductive, PTL

\* A job waits only while every slot is taken, a drain() call only while a job
\* runs.
THEOREM PoolForgetsNobody == Spec => []NobodyForgotten
BY PoolInductive, PTL DEF PoolInv

\* __inFlight holds the tasks of the pool and no others, each in one place.
THEOREM PoolMarks == Spec => []MarksMatchJobs
<1>1. PoolInv => MarksMatchJobs
  BY WaitingCount DEF PoolInv, TypeOK, Marks, MarksMatchJobs, Uuids
<1>2. QED
  BY <1>1, PoolInductive, PTL

\* After destroy() no send begins, and after destroy({drain: true}) has resolved
\* none is left.
THEOREM DestroyedIsQuiet == Spec => DestroyIsQuiet
<1>1. PoolInv /\ [Next]_vars =>
        [Destroyed => /\ sending' \subseteq sending
                      /\ (\E c \in Caller : /\ drain[c].pc = "resolved"
                                            /\ drain[c].at \in {"draining", "aborted"})
                         => sending' = {}]_vars
  <2> SUFFICES ASSUME PoolInv, [Next]_vars, Destroyed
               PROVE  /\ sending' \subseteq sending
                      /\ (\E c \in Caller : /\ drain[c].pc = "resolved"
                                            /\ drain[c].at \in {"draining", "aborted"})
                         => sending' = {}
    OBVIOUS
  <2>1. sending' \subseteq sending
    BY DEF Next, ScanGoesOn, ScanStart, ScanEnd, Skip, Dispatch, JobStart, SendEnd,
           SlotFree, Drain, DestroyDrain, Pause, Resume, DestroyNow, vars
  <2>2. (\E c \in Caller : /\ drain[c].pc = "resolved"
                           /\ drain[c].at \in {"draining", "aborted"})
        => sending = {}
    BY DEF PoolInv, DrainsAreQuiet
  <2>3. QED
    BY <2>1, <2>2
<1>2. QED
  BY <1>1, PoolInductive, PTL DEF Spec, DestroyIsQuiet
=============================================================================
