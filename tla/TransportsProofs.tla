-------------------------- MODULE TransportsProofs --------------------------
(***************************************************************************)
(* Proofs about Transports, for every set of letters, instances and workers,*)
(* every number of transports, every policy, and any number of restarts and *)
(* of claims that go stale.                                                 *)
(***************************************************************************)
EXTENDS Transports, FiniteSetTheorems, SequenceTheorems, WellFoundedInduction, TLAPS

-----------------------------------------------------------------------------
(* The next healthy transport.                                             *)

LEMMA LeastNatural ==
    ASSUME NEW T \in SUBSET Nat, T # {}
    PROVE  Min(T) \in T /\ \A y \in T : Min(T) <= y
<1>1. \E x \in T : \A y \in T : ~ (<<y, x>> \in OpToRel(<,Nat))
  BY NatLessThanWellFounded, WFMin
<1>2. \A x, y \in Nat : ~ (<<y, x>> \in OpToRel(<,Nat)) => x <= y
  BY DEF OpToRel
<1>3. \E x \in T : \A y \in T : x <= y
  BY <1>1, <1>2
<1>4. QED
  BY <1>3 DEF Min

\* `k` steps forward in a ring of `n`.
LEMMA Around ==
    ASSUME NEW n \in Nat \ {0}, NEW a \in 0 .. n - 1, NEW k \in 1 .. n
    PROVE  (a + k) % n = IF a + k < n THEN a + k ELSE a + k - n
OBVIOUS

\* The steps from `a` forward to `t`, of `n` transports in a ring; all around to
\* `a` itself.
Steps(n, a, t) == IF t > a THEN t - a ELSE t + n - a

LEMMA StepsLead ==
    ASSUME NEW n \in Nat \ {0}, NEW a \in 0 .. n - 1, NEW t \in 0 .. n - 1
    PROVE  Steps(n, a, t) \in 1 .. n /\ (a + Steps(n, a, t)) % n = t
<1>1. Steps(n, a, t) \in 1 .. n
  BY DEF Steps
<1>2. QED
  BY <1>1, Around DEF Steps

LEMMA StepsCount ==
    ASSUME NEW n \in Nat \ {0}, NEW a \in 0 .. n - 1, NEW k \in 1 .. n
    PROVE  (a + k) % n \in 0 .. n - 1 /\ Steps(n, a, (a + k) % n) = k
<1>1. (a + k) % n = IF a + k < n THEN a + k ELSE a + k - n
  BY Around
<1>2. QED
  BY <1>1 DEF Steps

\* What lies before the next healthy transport is broken, and the transport
\* itself only if all are.
LEMMA NextHealthyFits ==
    ASSUME NEW n \in Nat \ {0}, NEW bad, NEW from \in 0 .. n - 1
    PROVE  LET t == NextHealthy(n, bad, from)
           IN  /\ t \in 0 .. n - 1
               /\ \A s \in 0 .. n - 1 : Steps(n, from, s) < Steps(n, from, t) => s \in bad
               /\ t \in bad => 0 .. n - 1 \subseteq bad
<1> DEFINE steps == {k \in 1 .. n : (from + k) % n \notin bad}
           t == NextHealthy(n, bad, from)
<1>1. steps \in SUBSET Nat
  OBVIOUS
<1>2. ASSUME NEW s \in 0 .. n - 1, s \notin bad
      PROVE  Steps(n, from, s) \in steps
  BY <1>2, StepsLead
<1>3. CASE steps = {}
  <2>1. t = from
    BY <1>3 DEF NextHealthy
  <2>2. 0 .. n - 1 \subseteq bad
    BY <1>2, <1>3
  <2>3. QED
    BY <2>1, <2>2
<1>4. CASE steps # {}
  <2> DEFINE k == Min(steps)
  <2>1. k \in steps /\ \A y \in steps : k <= y
    BY <1>1, <1>4, LeastNatural
  <2>2. t = (from + k) % n
    BY <1>4 DEF NextHealthy
  <2>3. t \in 0 .. n - 1 /\ Steps(n, from, t) = k /\ t \notin bad
    BY <2>1, <2>2, StepsCount, ZenonT(60)
  <2> HIDE DEF k, t
  <2>4. ASSUME NEW s \in 0 .. n - 1, Steps(n, from, s) < Steps(n, from, t)
        PROVE  s \in bad
    <3>1. SUFFICES ASSUME s \notin bad
                   PROVE  FALSE
      OBVIOUS
    <3>2. k <= Steps(n, from, s)
      BY <1>2, <2>1, <3>1
    <3>3. Steps(n, from, s) \in Nat /\ k \in Nat
      BY <2>1, StepsLead
    <3>4. QED
      BY <2>3, <2>4, <3>2, <3>3
  <2>5. QED
    BY <2>3, <2>4 DEF t
<1>5. QED
  BY <1>3, <1>4

\* Two instances that go on from the same transport come to the same next one,
\* or one of them knows that the other's is broken.
LEMMA NextHealthyMeet ==
    ASSUME NEW n \in Nat \ {0}, NEW A, NEW B, NEW from \in 0 .. n - 1, from \in A
    PROVE  LET s == NextHealthy(n, A, from)
               t == NextHealthy(n, B, from)
           IN  s = t \/ s \in A \cup B \/ t \in A \cup B
<1> DEFINE s == NextHealthy(n, A, from)
           t == NextHealthy(n, B, from)
<1>1. /\ s \in 0 .. n - 1 /\ t \in 0 .. n - 1
      /\ Steps(n, from, t) < Steps(n, from, s) => t \in A
      /\ Steps(n, from, s) < Steps(n, from, t) => s \in B
  BY NextHealthyFits
<1> HIDE DEF s, t
<1>2. Steps(n, from, s) = Steps(n, from, t) => s = t
  BY <1>1 DEF Steps
<1>3. Steps(n, from, s) \in Int /\ Steps(n, from, t) \in Int
  BY <1>1 DEF Steps
<1>4. QED
  BY <1>1, <1>2, <1>3 DEF s, t

-----------------------------------------------------------------------------
(* All servers have the same transports.                                   *)

LEMMA OneRing ==
    ASSUME NEW i \in Instance, Transports[i] > 0
    PROVE  /\ Transports[i] \in Nat \ {0}
           /\ AllIndexes = 0 .. Transports[i] - 1
           /\ Index(i) = 0 .. Transports[i] - 1
<1>1. \A k \in Instance : Transports[k] \in Nat
  BY TransportsAssumption
<1>2. Index(i) = 0 .. Transports[i] - 1 /\ Transports[i] \in Nat \ {0}
  BY <1>1 DEF Index
<1>3. ASSUME NEW k \in Instance
      PROVE  Index(k) \subseteq Index(i)
  <2>1. Transports[k] > 0 => Transports[k] = Transports[i]
    BY TransportsAssumption
  <2>2. ~(Transports[k] > 0) => Index(k) = {}
    BY <1>1 DEF Index
  <2>3. QED
    BY <2>1, <2>2 DEF Index
<1>4. UNION {Index(k) : k \in Instance} = Index(i)
  BY <1>3
<1>5. 0 \in Index(i)
  BY <1>2
<1>6. QED
  BY <1>2, <1>4, <1>5 DEF AllIndexes

LEMMA IndexesFit ==
    0 \in AllIndexes /\ \A i \in Instance : Index(i) \subseteq AllIndexes
BY DEF AllIndexes

LEMMA WorkersHave ==
    ASSUME NEW w \in Worker
    PROVE  Conn[w] \in Instance /\ Transports[Conn[w]] > 0
BY WorkerAssumption

-----------------------------------------------------------------------------
(* Types.                                                                  *)

Entry == [transport : AllIndexes, end : Ends, stale : BOOLEAN]

View == [verified : BOOLEAN, unhealthy : SUBSET AllIndexes,
         transport : AllIndexes, share : [AllIndexes -> Nat]]

\* A row counts its attempts, and an attempt in hand has no end yet.
Counted(u) ==
    /\ row[u].tries = Len(history[u])
    /\ row[u].isSending => /\ row[u].tries > 0
                           /\ row[u].status = "open"
                           /\ history[u][row[u].tries].end = "open"
    /\ row[u].stale => row[u].isSending /\ history[u][row[u].tries].stale
    /\ row[u].status = "none" => row[u].tries = 0
    /\ row[u].status = "failed" => row[u].tries = policy.maxTries

\* A send in hand has read or made an attempt that its row has counted, with the
\* transport that the attempt was made with.
JobFits(w) ==
    LET j == job[w] IN
    /\ j.pc = "read" => /\ j.tries < policy.maxTries /\ j.tries <= row[j.uuid].tries
                        /\ row[j.uuid].status # "none"
    /\ j.pc = "sending" => /\ j.tries > 0 /\ j.tries <= row[j.uuid].tries
                           /\ history[j.uuid][j.tries].transport = j.transport

\* What an instance knows to be broken has been found broken.
Known == \A i \in Instance : view[i].unhealthy \subseteq condemned

LifeInv ==
    /\ TypeOK
    /\ Known
    /\ \A u \in Letter : Counted(u)
    /\ \A w \in Worker : JobFits(w)

LEMMA EntryType ==
    ASSUME NEW s \in Seq(Entry), NEW n \in 1 .. Len(s), NEW e \in Ends
    PROVE  LET ended == [s EXCEPT ![n].end = e]
               late  == [s EXCEPT ![n].stale = TRUE]
           IN  /\ ended \in Seq(Entry) /\ Len(ended) = Len(s)
               /\ late \in Seq(Entry) /\ Len(late) = Len(s)
<1>1. s \in [1 .. Len(s) -> Entry] /\ Len(s) \in Nat
  BY LenProperties
<1>2. /\ [s[n] EXCEPT !.end = e] \in Entry
      /\ [s[n] EXCEPT !.stale = TRUE] \in Entry
  BY <1>1 DEF Entry
<1>3. ASSUME NEW x \in Entry
      PROVE  [s EXCEPT ![n] = x] \in Seq(Entry) /\ Len([s EXCEPT ![n] = x]) = Len(s)
  BY ExceptSeq
<1>4. QED
  BY <1>2, <1>3

LEMMA AfterFits ==
    ASSUME NEW i \in Instance, NEW t \in AllIndexes
    PROVE  After(i, t) \in AllIndexes /\ ToSend(i, t) \in AllIndexes
<1>1. CASE Transports[i] > 0
  BY <1>1, OneRing, NextHealthyFits DEF After, ToSend
<1>2. CASE ~(Transports[i] > 0)
  <2>1. Transports[i] = 0
    BY <1>2, TransportsAssumption
  <2>2. 1 .. 0 = {}
    OBVIOUS
  <2>3. After(i, t) = t
    BY <2>1, <2>2 DEF After, NextHealthy
  <2>4. QED
    BY <2>3 DEF ToSend
<1>3. QED
  BY <1>1, <1>2

\* The types, one by one.
LEMMA Types ==
    ASSUME TypeOK
    PROVE  /\ policy \in [strategy : Strategies, failsToNext : Nat \ {0}, maxTries : Nat \ {0}]
           /\ \A i \in Instance : view[i] \in View
           /\ \A u \in Letter : row[u] \in RowType
           /\ history \in [Letter -> Seq(Entry)]
           /\ \A w \in Worker : job[w].pc \in {"idle", "read", "sending"}
           /\ \A w \in Worker : job[w].pc # "idle" => job[w] \in JobType
<1>1. policy \in [strategy : Strategies, failsToNext : Nat \ {0}, maxTries : Nat \ {0}]
  BY PoliciesAssumption DEF TypeOK
<1>2. \A i \in Instance : view[i] \in View
  BY DEF TypeOK, View
<1>3. \A u \in Letter : row[u] \in RowType
  BY DEF TypeOK
<1>4. history \in [Letter -> Seq(Entry)]
  BY DEF TypeOK, Entry
<1>5. \A w \in Worker : job[w] \in JobType \/ job[w] = IdleJob
  BY DEF TypeOK
<1>6. \A j \in JobType : j.pc \in {"idle", "read", "sending"}
  BY DEF JobType
<1>7. IdleJob.pc = "idle"
  BY DEF IdleJob
<1>8. QED
  BY <1>1, <1>2, <1>3, <1>4, <1>5, <1>6, <1>7

\* What a send in hand comes to: nothing, or the end of its attempt.
LEMMA FinishTypes ==
    ASSUME LifeInv, NEW w \in Worker, job[w].pc = "sending",
           NEW e \in Ends, NEW after \in RowType,
           Finish(w, e, after), policy' = policy
    PROVE  TypeOK'
<1> DEFINE j == job[w]
<1>1. j \in JobType /\ j.uuid \in Letter /\ j.tries \in Nat /\ j.tries > 0
  BY Types DEF LifeInv, JobFits, JobType
<1>2. row[j.uuid] \in RowType /\ history[j.uuid] \in Seq(Entry)
  BY <1>1, Types DEF LifeInv
<1>3. row' \in [Letter -> RowType]
  <2>1. [after EXCEPT !.isSending = FALSE, !.stale = FALSE] \in RowType
    BY DEF RowType
  <2>2. QED
    BY <1>1, <2>1 DEF Finish, LifeInv, TypeOK
<1>4. history' \in [Letter -> Seq(Entry)]
  <2>1. CASE row[j.uuid].isSending /\ row[j.uuid].tries = j.tries
    <3>1. j.tries \in 1 .. Len(history[j.uuid])
      BY <1>1, <2>1 DEF LifeInv, Counted
    <3>2. [history[j.uuid] EXCEPT ![j.tries].end = e] \in Seq(Entry)
      BY <1>2, <3>1, EntryType
    <3>3. QED
      BY <1>1, <2>1, <3>2, Types DEF Finish, LifeInv
  <2>2. CASE ~(row[j.uuid].isSending /\ row[j.uuid].tries = j.tries)
    BY <2>2, Types DEF Finish, LifeInv
  <2>3. QED
    BY <2>1, <2>2
<1>5. job' \in [Worker -> JobType \cup {IdleJob}]
  BY DEF Finish, LifeInv, TypeOK
<1>6. QED
  BY <1>3, <1>4, <1>5 DEF Finish, LifeInv, TypeOK, Entry, RowType, JobType

LEMMA FailedRow ==
    ASSUME LifeInv, NEW w \in Worker, job[w].pc = "sending", NEW may \in BOOLEAN
    PROVE  LET j == job[w]
               r == row[j.uuid]
           IN  /\ r \in RowType /\ GivenUp(r) \in RowType
               /\ [r EXCEPT !.status = "sent"] \in RowType
               /\ [r EXCEPT !.transport = ToRetry(Conn[w], j.transport, j.tries, may)]
                  \in RowType
<1>1. job[w].uuid \in Letter /\ job[w].transport \in AllIndexes
  BY Types DEF LifeInv, JobType
<1>2. row[job[w].uuid] \in RowType
  BY <1>1, Types DEF LifeInv
<1>3. ToRetry(Conn[w], job[w].transport, job[w].tries, may) \in AllIndexes
  BY <1>1, AfterFits, WorkersHave DEF ToRetry
<1>4. QED
  BY <1>2, <1>3 DEF RowType, GivenUp

LEMMA AdvancedType ==
    ASSUME NEW v \in View, NEW t \in AllIndexes
    PROVE  Advanced(v, t) \in View
<1>1. [v.share EXCEPT ![t] = @ + 1] \in [AllIndexes -> Nat]
  BY DEF View
<1>2. QED
  BY <1>1 DEF Advanced, View

LEMMA ClaimTypes ==
    ASSUME NEW r \in RowType, NEW j \in JobType, NEW n \in 0 .. policy.maxTries,
           NEW t \in AllIndexes
    PROVE  /\ [r EXCEPT !.isSending = TRUE, !.stale = FALSE, !.tries = n] \in RowType
           /\ [j EXCEPT !.pc = "sending", !.tries = n, !.transport = t] \in JobType
BY DEF RowType, JobType

LEMMA TypesStep ==
    ASSUME LifeInv, [Next]_vars
    PROVE  TypeOK'
<1> USE Types DEF LifeInv
<1>0. policy.maxTries \in Nat /\ 0 \in 0 .. policy.maxTries
  OBVIOUS
<1>1. ASSUME NEW i \in Instance, Restart(i)
      PROVE  TypeOK'
  <2>1. FreshView \in View
    BY IndexesFit DEF FreshView, View
  <2>2. view' \in [Instance -> View]
    BY <1>1, <2>1 DEF Restart, TypeOK, View
  <2>3. job' \in [Worker -> JobType \cup {IdleJob}]
    BY <1>1 DEF Restart, TypeOK
  <2>4. faults' \in Nat
    BY <1>1 DEF Restart, TypeOK
  <2>5. QED
    BY <1>1, <2>2, <2>3, <2>4 DEF Restart, TypeOK, View, RowType, JobType
<1>2. ASSUME NEW i \in Instance, AddOther(i)
      PROVE  TypeOK'
  <2>1. Advanced(view[i], After(i, view[i].transport)) \in View
    BY AdvancedType, AfterFits DEF View
  <2>2. view' \in [Instance -> View]
    BY <1>2, <2>1 DEF AddOther, TypeOK, View
  <2>3. QED
    BY <1>2, <2>2 DEF AddOther, TypeOK, View, RowType, JobType
<1>3. ASSUME NEW i \in Instance, NEW bad \in Broken, Verify(i, bad)
      PROVE  TypeOK'
  <2>1. bad \subseteq AllIndexes
    BY <1>3, BrokenAssumption, OneRing DEF Verify
  <2>2. /\ view[i].transport \in AllIndexes
        /\ NextHealthy(Transports[i], bad, view[i].transport) \in AllIndexes
    <3>1. view[i].transport \in AllIndexes
      BY DEF View
    <3>2. Transports[i] > 0
      BY <1>3 DEF Verify
    <3>3. /\ Transports[i] \in Nat \ {0}
          /\ AllIndexes = 0 .. Transports[i] - 1
      BY <3>2, OneRing
    <3>4. QED
      BY ONLY <3>1, <3>3, NextHealthyFits
  <2>3. view' \in [Instance -> View]
    BY <1>3, <2>1, <2>2 DEF Verify, TypeOK, View, FreshView
  <2>4. condemned' \subseteq AllIndexes
    BY <1>3, <2>1 DEF Verify, TypeOK
  <2>5. QED
    BY <1>3, <2>3, <2>4 DEF Verify, TypeOK, View, RowType, JobType
<1>4. ASSUME NEW i \in Instance, NEW u \in Letter, AddToQueue(i, u)
      PROVE  TypeOK'
  <2> DEFINE t == IF Balances(i) THEN After(i, view[i].transport) ELSE view[i].transport
  <2>1. t \in AllIndexes /\ view[i].transport \in AllIndexes
    BY AfterFits DEF View
  <2>2. Advanced(view[i], t) \in View
    BY <2>1, AdvancedType
  <2>3. [NoRow EXCEPT !.status = "open", !.transport = t] \in RowType
    BY ONLY <1>0, <2>1 DEF NoRow, RowType
  <2> HIDE DEF t
  <2>4. /\ row' = [row EXCEPT ![u] = [NoRow EXCEPT !.status = "open", !.transport = t]]
        /\ view' = [view EXCEPT ![i] = IF Balances(i) THEN Advanced(view[i], t) ELSE view[i]]
    BY <1>4 DEF AddToQueue, t
  <2>5. row' \in [Letter -> RowType]
    BY <2>3, <2>4 DEF TypeOK
  <2>6. view' \in [Instance -> View]
    BY <2>2, <2>4 DEF TypeOK, View
  <2>7. QED
    BY <1>4, <2>5, <2>6 DEF AddToQueue, TypeOK, View, RowType, JobType
<1>5. ASSUME NEW w \in Worker, NEW u \in Letter, Scan(w, u)
      PROVE  TypeOK'
  <2>1. [pc |-> "read", uuid |-> u, tries |-> row[u].tries, transport |-> row[u].transport]
        \in JobType
    BY DEF JobType, RowType
  <2>2. job' \in [Worker -> JobType \cup {IdleJob}]
    BY <1>5, <2>1 DEF Scan, TypeOK
  <2>3. QED
    BY <1>5, <2>2 DEF Scan, TypeOK, View, RowType, JobType
<1>6. ASSUME NEW w \in Worker, Claim(w)
      PROVE  TypeOK'
  <2> DEFINE j == job[w]
             t == ToSend(Conn[w], j.transport)
  <2>1. j \in JobType /\ j.uuid \in Letter /\ j.tries \in Nat /\ j.tries < policy.maxTries
    <3>1. j.pc = "read"
      BY <1>6 DEF Claim
    <3>2. j \in JobType
      BY <3>1 DEF TypeOK, IdleJob
    <3>3. j.tries < policy.maxTries
      BY <3>1 DEF JobFits
    <3> HIDE DEF j
    <3>4. QED
      BY <3>2, <3>3 DEF JobType
  <2>2. t \in AllIndexes
    BY <2>1, AfterFits, WorkersHave DEF JobType
  <2>3. j.tries + 1 \in 0 .. policy.maxTries
    BY ONLY <1>0, <2>1
  <2>4. /\ [row[j.uuid] EXCEPT !.isSending = TRUE, !.stale = FALSE, !.tries = j.tries + 1]
           \in RowType
        /\ [j EXCEPT !.pc = "sending", !.tries = j.tries + 1, !.transport = t] \in JobType
    BY <2>1, <2>2, <2>3, ClaimTypes
  <2>5. [transport |-> t, end |-> "open", stale |-> FALSE] \in Entry
    BY <2>2 DEF Entry, Ends
  <2>6. Append(history[j.uuid], [transport |-> t, end |-> "open", stale |-> FALSE])
        \in Seq(Entry)
    BY <2>1, <2>5, AppendProperties
  <2> HIDE DEF t
  <2>7. /\ row' = [row EXCEPT ![j.uuid] = [@ EXCEPT !.isSending = TRUE, !.stale = FALSE,
                                                    !.tries = j.tries + 1]]
        /\ job' = [job EXCEPT ![w] = [j EXCEPT !.pc = "sending", !.tries = j.tries + 1,
                                               !.transport = t]]
        /\ history' = [history EXCEPT ![j.uuid] =
             Append(@, [transport |-> t, end |-> "open", stale |-> FALSE])]
    BY <1>6 DEF Claim, t
  <2>8. row' \in [Letter -> RowType]
    BY <2>4, <2>7 DEF TypeOK
  <2>9. job' \in [Worker -> JobType \cup {IdleJob}]
    <3>1. job \in [Worker -> JobType \cup {IdleJob}]
      BY DEF TypeOK
    <3>2. QED
      BY ONLY <2>4, <2>7, <3>1
  <2>10. history' \in [Letter -> Seq(Entry)]
    BY <2>6, <2>7
  <2>11. QED
    BY <1>6, <2>8, <2>9, <2>10 DEF Claim, TypeOK, RowType, JobType, Entry
<1>7. ASSUME NEW w \in Worker, ClaimRefused(w)
      PROVE  TypeOK'
  <2>1. job' \in [Worker -> JobType \cup {IdleJob}]
    BY <1>7 DEF ClaimRefused, TypeOK
  <2>2. QED
    BY <1>7, <2>1 DEF ClaimRefused, TypeOK, RowType, JobType
<1>8. ASSUME NEW w \in Worker, Sent(w) \/ PartlySent(w)
      PROVE  TypeOK'
  <2>1. "sent" \in Ends /\ "partial" \in Ends
    BY DEF Ends
  <2>2. policy' = policy
    BY <1>8 DEF Sent, PartlySent, Finish
  <2>3. QED
    BY <1>8, <2>1, <2>2, FailedRow, FinishTypes DEF Sent, PartlySent
<1>9. ASSUME NEW w \in Worker, NEW hook \in Hooks, NEW tagged \in BOOLEAN,
             Failed(w, hook, tagged)
      PROVE  TypeOK'
  <2>1. "vetoed" \in Ends /\ "permitted" \in Ends
    BY DEF Ends
  <2>2. policy' = policy /\ job[w].pc = "sending"
    BY <1>9 DEF Failed, Finish
  <2>3. MayFailOver(hook, tagged) \in BOOLEAN
    BY DEF MayFailOver
  <2>4. QED
    BY <1>9, <2>1, <2>2, <2>3, FailedRow, FinishTypes DEF Failed
<1>10. ASSUME NEW u \in Letter, GoStale(u)
       PROVE  TypeOK'
  <2>1. row' \in [Letter -> RowType]
    BY <1>10 DEF GoStale, TypeOK, RowType
  <2>2. row[u].tries \in 1 .. Len(history[u])
    BY <1>10 DEF GoStale, Counted, RowType
  <2>3. [history[u] EXCEPT ![row[u].tries].stale = TRUE] \in Seq(Entry)
    <3>1. "open" \in Ends
      BY DEF Ends
    <3>2. QED
      BY <2>2, <3>1, EntryType
  <2>4. history' \in [Letter -> Seq(Entry)]
    BY <1>10, <2>3 DEF GoStale
  <2>5. faults' \in Nat
    BY <1>10 DEF GoStale, TypeOK
  <2>6. QED
    BY <1>10, <2>1, <2>4, <2>5 DEF GoStale, TypeOK, RowType, JobType, Entry
<1>11. CASE UNCHANGED vars
  BY <1>11 DEF vars, TypeOK, RowType, JobType
<1>12. QED
  BY <1>1, <1>2, <1>3, <1>4, <1>5, <1>6, <1>7, <1>8, <1>9, <1>10, <1>11 DEF Next

-----------------------------------------------------------------------------
(* The life of a row.                                                      *)

\* What a step leaves alone.
LetterStays(u) == row'[u] = row[u] /\ history'[u] = history[u]

LEMMA RestStays ==
    ASSUME LifeInv, policy' = policy
    PROVE  /\ \A u \in Letter : LetterStays(u) => Counted(u)'
           /\ \A w \in Worker : job'[w] = IdleJob => JobFits(w)'
           /\ \A w \in Worker : job'[w] = job[w] /\ LetterStays(job[w].uuid) => JobFits(w)'
<1>1. ASSUME NEW u \in Letter, LetterStays(u)
      PROVE  Counted(u)'
  BY <1>1 DEF LifeInv, Counted, LetterStays
<1>2. ASSUME NEW w \in Worker, job'[w] = IdleJob
      PROVE  JobFits(w)'
  BY <1>2 DEF JobFits, IdleJob
<1>3. ASSUME NEW w \in Worker, job'[w] = job[w], LetterStays(job[w].uuid)
      PROVE  JobFits(w)'
  BY <1>3 DEF LifeInv, JobFits, LetterStays
<1>4. QED
  BY <1>1, <1>2, <1>3

\* Unless the letter is new and loses no attempt, the sends of it fit on.
LEMMA SendsStay ==
    ASSUME LifeInv, policy' = policy, NEW u \in Letter, row[u].status # "none",
           row'[u].status # "none", row'[u].tries >= row[u].tries,
           row'[u].tries \in Nat,
           \A n \in 1 .. row[u].tries : history'[u][n].transport = history[u][n].transport
    PROVE  \A w \in Worker : job'[w] = job[w] /\ job[w].uuid = u => JobFits(w)'
<1> SUFFICES ASSUME NEW w \in Worker, job'[w] = job[w], job[w].uuid = u
             PROVE  JobFits(w)'
  OBVIOUS
<1>1. CASE job[w].pc = "idle"
  BY <1>1 DEF JobFits
<1>2. CASE job[w].pc # "idle"
  <2>1. job[w].tries \in Nat /\ row[u].tries \in Nat
    BY <1>2, Types DEF LifeInv, JobType, RowType
  <2>2. job[w].pc = "read" => job[w].tries < policy.maxTries /\ job[w].tries <= row[u].tries
    BY DEF LifeInv, JobFits
  <2>3. job[w].pc = "sending" =>
          /\ job[w].tries > 0 /\ job[w].tries <= row[u].tries
          /\ history[u][job[w].tries].transport = job[w].transport
    BY DEF LifeInv, JobFits
  <2>4. job[w].pc = "sending" => job[w].tries \in 1 .. row[u].tries
    BY <2>1, <2>3
  <2>5. QED
    BY <2>1, <2>2, <2>3, <2>4 DEF JobFits
<1>3. QED
  BY <1>1, <1>2

\* The end of an attempt, as the row sees it.
Ended(u, n, e, after) ==
    /\ row' = [row EXCEPT ![u] = [after EXCEPT !.isSending = FALSE, !.stale = FALSE]]
    /\ history' = [history EXCEPT ![u] = [history[u] EXCEPT ![n].end = e]]

LEMMA FinishLife ==
    ASSUME LifeInv, NEW w \in Worker, job[w].pc = "sending",
           NEW e \in Ends, NEW after \in RowType,
           Finish(w, e, after),
           after.tries = row[job[w].uuid].tries, after.status # "none",
           after.status = "failed" => job[w].tries = policy.maxTries
    PROVE  /\ \A u \in Letter : Counted(u)'
           /\ \A v \in Worker : JobFits(v)'
<1>0. job[w] \in JobType /\ policy' = policy
  BY Types DEF LifeInv, Finish
<1> SUFFICES ASSUME NEW u \in Letter, u = job[w].uuid, NEW n \in Nat, n = job[w].tries
             PROVE  /\ \A x \in Letter : Counted(x)'
                    /\ \A v \in Worker : JobFits(v)'
  BY <1>0 DEF JobType
<1>1. policy' = policy /\ row[u].tries = after.tries
  BY <1>0
<1>2. job' = [job EXCEPT ![w] = IdleJob] /\ job \in [Worker -> JobType \cup {IdleJob}]
  BY DEF Finish, LifeInv, TypeOK
<1>3. row \in [Letter -> RowType] /\ history \in [Letter -> Seq(Entry)]
  BY Types DEF LifeInv, TypeOK
<1>4. CASE row[u].isSending /\ row[u].tries = n
  <2>1. Ended(u, n, e, after)
    BY <1>4 DEF Finish, Ended
  <2>2. n \in 1 .. Len(history[u]) /\ row[u].status = "open"
    BY <1>1, <1>4 DEF LifeInv, Counted
  <2>3. history'[u] = [history[u] EXCEPT ![n].end = e] /\ Len(history'[u]) = Len(history[u])
    <3>1. history'[u] = [history[u] EXCEPT ![n].end = e]
      BY <1>3, <2>1 DEF Ended
    <3>2. history[u] \in Seq(Entry)
      BY <1>3
    <3>3. QED
      BY <2>2, <3>1, <3>2, EntryType
  <2>4. \A k \in 1 .. Len(history[u]) : history'[u][k].transport = history[u][k].transport
    <3>1. \A k \in 1 .. Len(history[u]) : history[u][k] \in Entry
      BY <1>1, <1>3, ElementOfSeq
    <3>2. DOMAIN history[u] = 1 .. Len(history[u])
      BY <1>1, <1>3, LenProperties
    <3>3. QED
      BY <2>3, <3>1, <3>2 DEF Entry
  <2>5. row'[u] = [after EXCEPT !.isSending = FALSE, !.stale = FALSE]
    BY <1>1, <1>3, <2>1 DEF Ended
  <2>6. /\ row'[u].tries = row[u].tries /\ row'[u].status = after.status
        /\ row'[u].isSending = FALSE /\ row'[u].stale = FALSE
    BY <2>5 DEF RowType
  <2>7. Counted(u)'
    <3>1. row[u].tries = Len(history[u]) /\ n > 0
      BY <1>4 DEF LifeInv, Counted
    <3>2. after.status = "failed" => row[u].tries = policy'.maxTries
      BY <1>1, <1>4
    <3>3. QED
      BY <2>3, <2>6, <3>1, <3>2 DEF Counted
  <2>8. \A x \in Letter \ {u} : LetterStays(x)
    BY <1>1, <1>3, <2>1 DEF Ended, LetterStays
  <2>9. ASSUME NEW v \in Worker, v # w
        PROVE  JobFits(v)'
    <3>1. job'[v] = job[v]
      BY <1>2, <2>9
    <3>2. CASE job[v].pc = "idle"
      BY <3>1, <3>2 DEF JobFits
    <3>3. CASE job[v].pc # "idle"
      <4>1. job[v].uuid \in Letter
        BY <3>3, Types DEF LifeInv, JobType
      <4>2. job[v].uuid # u => JobFits(v)'
        BY <1>1, <2>8, <3>1, <4>1, RestStays
      <4>3. row[u].tries = Len(history[u]) /\ row[u].tries \in Nat
        BY <1>1, <1>3 DEF LifeInv, Counted, RowType
      <4>4. job[v].uuid = u => JobFits(v)'
        BY <1>1, <2>2, <2>4, <2>6, <3>1, <4>3, SendsStay, SMTT(30)
      <4>5. QED
        BY <4>2, <4>4
    <3>4. QED
      BY <3>2, <3>3
  <2>10. JobFits(w)'
    BY <1>1, <1>2, RestStays
  <2>11. QED
    BY <1>1, <2>7, <2>8, <2>9, <2>10, RestStays
<1>5. CASE ~(row[u].isSending /\ row[u].tries = n)
  <2>1. \A x \in Letter : LetterStays(x)
    BY <1>5 DEF Finish, LetterStays
  <2>2. ASSUME NEW v \in Worker
        PROVE  JobFits(v)'
    <3>1. CASE v = w
      BY <1>1, <1>2, <3>1, RestStays
    <3>2. CASE job[v].pc = "idle" /\ v # w
      BY <1>2, <3>2 DEF JobFits
    <3>3. CASE job[v].pc # "idle" /\ v # w
      <4>1. job[v].uuid \in Letter /\ job'[v] = job[v]
        BY <1>2, <3>3, Types DEF LifeInv, JobType
      <4>2. QED
        BY <1>1, <2>1, <4>1, RestStays
    <3>4. QED
      BY <3>1, <3>2, <3>3
  <2>3. QED
    BY <1>1, <2>1, <2>2, RestStays
<1>6. QED
  BY <1>4, <1>5

\* A claim, written out: attempt n + 1 of letter u with transport t.
Claims(w, u, n, t) ==
    /\ u = job[w].uuid /\ n = job[w].tries /\ t = ToSend(Conn[w], job[w].transport)
    /\ job[w].pc = "read" /\ n < policy.maxTries
    /\ Free(row[u]) /\ row[u].tries = n /\ n = Len(history[u])
    /\ row'[u] = [row[u] EXCEPT !.isSending = TRUE, !.stale = FALSE, !.tries = n + 1]
    /\ job'[w] = [job[w] EXCEPT !.pc = "sending", !.tries = n + 1, !.transport = t]
    /\ Len(history'[u]) = n + 1
    /\ \A k \in 1 .. n : history'[u][k] = history[u][k]
    /\ history'[u][n + 1] = [transport |-> t, end |-> "open", stale |-> FALSE]
    /\ \A x \in Letter \ {u} : LetterStays(x)
    /\ \A v \in Worker \ {w} : job'[v] = job[v]

LEMMA ClaimIs ==
    ASSUME LifeInv, NEW w \in Worker, Claim(w)
    PROVE  /\ policy' = policy /\ view' = view /\ condemned' = condemned
           /\ job[w] \in JobType
           /\ \E u \in Letter, n \in Nat, t \in AllIndexes : Claims(w, u, n, t)
<1> DEFINE s == ToSend(Conn[w], job[w].transport)
<1>1. /\ policy' = policy /\ view' = view /\ condemned' = condemned
      /\ job[w].pc = "read"
  BY DEF Claim
<1>2. job[w] \in JobType /\ job[w].tries < policy.maxTries
  BY <1>1, Types DEF LifeInv, JobFits
<1>3. s \in AllIndexes /\ job[w].uuid \in Letter /\ job[w].tries \in Nat
  BY <1>2, AfterFits, WorkersHave DEF JobType
<1> HIDE DEF s
<1>4. PICK u \in Letter, n \in Nat, t \in AllIndexes :
         u = job[w].uuid /\ n = job[w].tries /\ t = s
  BY <1>3
<1>5. /\ row \in [Letter -> RowType] /\ history \in [Letter -> Seq(Entry)]
      /\ job \in [Worker -> JobType \cup {IdleJob}]
  BY Types DEF LifeInv, TypeOK
<1>6. /\ Free(row[u]) /\ row[u].tries = n
      /\ row' = [row EXCEPT ![u] = [row[u] EXCEPT !.isSending = TRUE, !.stale = FALSE,
                                                  !.tries = n + 1]]
      /\ job' = [job EXCEPT ![w] = [job[w] EXCEPT !.pc = "sending", !.tries = n + 1,
                                                  !.transport = t]]
      /\ history' = [history EXCEPT ![u] =
           Append(history[u], [transport |-> t, end |-> "open", stale |-> FALSE])]
  BY <1>4 DEF Claim, s
<1>7. n = Len(history[u])
  BY <1>6 DEF LifeInv, Counted
<1>8. /\ Len(history'[u]) = n + 1
      /\ \A k \in 1 .. n : history'[u][k] = history[u][k]
      /\ history'[u][n + 1] = [transport |-> t, end |-> "open", stale |-> FALSE]
  <2>1. history[u] \in Seq(Entry) /\ [transport |-> t, end |-> "open", stale |-> FALSE] \in Entry
    BY <1>5 DEF Entry, Ends
  <2>2. history'[u] = Append(history[u], [transport |-> t, end |-> "open", stale |-> FALSE])
    BY <1>5, <1>6
  <2>3. QED
    BY <1>7, <2>1, <2>2, AppendProperties
<1>9. /\ \A x \in Letter \ {u} : LetterStays(x)
      /\ \A v \in Worker \ {w} : job'[v] = job[v]
      /\ row'[u] = [row[u] EXCEPT !.isSending = TRUE, !.stale = FALSE, !.tries = n + 1]
      /\ job'[w] = [job[w] EXCEPT !.pc = "sending", !.tries = n + 1, !.transport = t]
  BY <1>5, <1>6 DEF LetterStays
<1>10. Claims(w, u, n, t)
  BY <1>1, <1>2, <1>4, <1>6, <1>7, <1>8, <1>9 DEF Claims, s
<1>11. QED
  BY <1>1, <1>2, <1>10

\* All jobs fit after a step that keeps the jobs but perhaps some that end.
LEMMA JobsStay ==
    ASSUME LifeInv, policy' = policy,
           \A u \in Letter : LetterStays(u),
           \A w \in Worker : job'[w] \in {job[w], IdleJob}
    PROVE  (\A u \in Letter : Counted(u)') /\ (\A w \in Worker : JobFits(w)')
<1>1. ASSUME NEW w \in Worker
      PROVE  JobFits(w)'
  <2>1. CASE job[w].pc = "idle" /\ job'[w] = job[w]
    BY <2>1 DEF JobFits
  <2>2. CASE job[w].pc # "idle" /\ job'[w] = job[w]
    <3>1. job[w].uuid \in Letter
      BY <2>2, Types DEF LifeInv, JobType
    <3>2. QED
      BY <2>2, <3>1, RestStays
  <2>3. CASE job'[w] = IdleJob
    BY <2>3, RestStays
  <2>4. QED
    BY <2>1, <2>2, <2>3
<1>2. QED
  BY <1>1, RestStays

\* A job that a step of the letter u keeps.
LEMMA JobsStayBut ==
    ASSUME LifeInv, policy' = policy, NEW u \in Letter, NEW w \in Worker,
           \A x \in Letter \ {u} : LetterStays(x),
           job'[w] = job[w],
           row'[u].status # "none", row'[u].tries >= row[u].tries,
           row'[u].tries \in Nat,
           \A n \in 1 .. row[u].tries : history'[u][n].transport = history[u][n].transport
    PROVE  JobFits(w)'
<1>1. CASE job[w].pc = "idle"
  BY <1>1 DEF JobFits
<1>2. CASE job[w].pc # "idle"
  <2>1. job[w] \in JobType /\ job[w].uuid \in Letter /\ job[w].tries \in Nat
    BY <1>2, Types DEF LifeInv, JobType
  <2>2. job[w].uuid # u => JobFits(w)'
    BY <2>1, RestStays
  <2>3. row[u].status = "none" => row[u].tries = 0
    BY DEF LifeInv, Counted
  <2>4. job[w].pc \in {"read", "sending"}
    BY <2>1 DEF JobType
  <2>5. job[w].uuid = u => row[u].status # "none"
    BY <2>1, <2>3, <2>4 DEF LifeInv, JobFits
  <2>6. job[w].uuid = u => JobFits(w)'
    BY <2>1, <2>5, SendsStay
  <2>7. QED
    BY <2>2, <2>6
<1>3. QED
  BY <1>1, <1>2

LEMMA KnownStep ==
    ASSUME LifeInv, [Next]_vars
    PROVE  Known' /\ condemned \subseteq condemned'
<1> USE DEF LifeInv, Known
<1>0. view \in [Instance -> View]
  BY DEF TypeOK, View
<1>1. ASSUME NEW i \in Instance, Restart(i)
      PROVE  Known' /\ condemned \subseteq condemned'
  BY <1>0, <1>1 DEF Restart, FreshView
<1>2. ASSUME NEW i \in Instance, NEW v, NEW t, view' = [view EXCEPT ![i] = v],
             condemned' = condemned, v = view[i] \/ v = Advanced(view[i], t)
      PROVE  Known' /\ condemned \subseteq condemned'
  <2>1. v.unhealthy = view[i].unhealthy
    BY <1>0, <1>2 DEF Advanced, View
  <2>2. QED
    BY <1>0, <1>2, <2>1
<1>3. ASSUME NEW i \in Instance, NEW bad \in Broken, Verify(i, bad)
      PROVE  Known' /\ condemned \subseteq condemned'
  BY <1>0, <1>3 DEF Verify, FreshView
<1>4. ASSUME NEW i \in Instance, NEW u \in Letter, AddToQueue(i, u)
      PROVE  Known' /\ condemned \subseteq condemned'
  BY <1>2, <1>4 DEF AddToQueue
<1>5. ASSUME NEW i \in Instance, AddOther(i)
      PROVE  Known' /\ condemned \subseteq condemned'
  BY <1>2, <1>5 DEF AddOther
<1>6. CASE UNCHANGED <<view, condemned>>
  BY <1>6
<1>7. QED
  BY <1>1, <1>3, <1>4, <1>5, <1>6
     DEF Next, vars, Scan, Claim, ClaimRefused, Sent, PartlySent, Failed, Finish, GoStale

\* What a finished send leaves of its row.
LEMMA FinishedRow ==
    ASSUME LifeInv, NEW w \in Worker, job[w].pc = "sending", NEW may \in BOOLEAN,
           NEW after,
           LET r == row[job[w].uuid] IN
             \/ after = [r EXCEPT !.status = "sent"]
             \/ after = IF Exhausted(w) THEN GivenUp(r) ELSE r
             \/ after = IF Exhausted(w) THEN GivenUp(r)
                        ELSE [r EXCEPT !.transport =
                                ToRetry(Conn[w], job[w].transport, job[w].tries, may)]
    PROVE  /\ after \in RowType
           /\ after.tries = row[job[w].uuid].tries
           /\ after.status # "none"
           /\ after.status = "failed" =>
                job[w].tries = policy.maxTries \/ row[job[w].uuid].status = "failed"
<1> DEFINE r == row[job[w].uuid]
<1>1. job[w] \in JobType /\ r \in RowType
  BY Types, FailedRow DEF LifeInv
<1>2. after \in RowType
  BY FailedRow DEF LifeInv
<1>3. Exhausted(w) => job[w].tries = policy.maxTries
  <2>1. job[w].tries \in 0 .. policy.maxTries /\ policy.maxTries \in Nat
    BY <1>1, Types DEF JobType, LifeInv
  <2>2. QED
    BY <2>1 DEF Exhausted
<1>4. r.status # "none"
  <2>1. job[w].tries > 0 /\ job[w].tries <= r.tries /\ job[w].tries \in Nat
    BY <1>1 DEF LifeInv, JobFits, JobType
  <2>2. r.status = "none" => r.tries = 0
    BY <1>1 DEF LifeInv, Counted, JobType
  <2>3. QED
    BY <2>1, <2>2
<1>5. after.tries = r.tries /\ (after.status = "failed" =>
                                  Exhausted(w) \/ r.status = "failed") /\ after.status # "none"
  BY <1>1, <1>4 DEF RowType, GivenUp
<1>6. QED
  BY <1>2, <1>3, <1>5

LEMMA LifeStep ==
    ASSUME LifeInv, [Next]_vars
    PROVE  LifeInv'
<1> DEFINE Life == (\A u \in Letter : Counted(u)') /\ (\A w \in Worker : JobFits(w)')
<1>0. /\ row \in [Letter -> RowType] /\ history \in [Letter -> Seq(Entry)]
      /\ job \in [Worker -> JobType \cup {IdleJob}]
      /\ policy.maxTries \in Nat
  BY Types DEF LifeInv, TypeOK
<1>1. ASSUME UNCHANGED <<policy, row, history, job>>
      PROVE  Life
  BY <1>1, JobsStay DEF LetterStays
<1>2. ASSUME NEW i \in Instance, Restart(i)
      PROVE  Life
  <2>1. \A w \in Worker : job'[w] \in {job[w], IdleJob}
    BY <1>2 DEF Restart
  <2>2. QED
    BY <1>2, <2>1, JobsStay DEF Restart, LetterStays
<1>3. ASSUME NEW i \in Instance, NEW u \in Letter, AddToQueue(i, u)
      PROVE  Life
  <2>1. /\ policy' = policy /\ job' = job /\ history' = history
        /\ row[u].status = "none"
        /\ \E t : row' = [row EXCEPT ![u] = [NoRow EXCEPT !.status = "open", !.transport = t]]
    BY <1>3 DEF AddToQueue
  <2>2. /\ row'[u].status = "open" /\ row'[u].tries = 0
        /\ ~row'[u].isSending /\ ~row'[u].stale
    BY <1>0, <2>1 DEF NoRow
  <2>3. row[u].tries = 0 /\ Len(history[u]) = 0
    BY <2>1 DEF LifeInv, Counted
  <2>4. \A x \in Letter \ {u} : LetterStays(x)
    BY <1>0, <2>1 DEF LetterStays
  <2>5. Counted(u)'
    BY <2>1, <2>2, <2>3 DEF Counted
  <2>6. \A w \in Worker : JobFits(w)'
    BY <2>1, <2>2, <2>3, <2>4, JobsStayBut
  <2>7. QED
    BY <2>1, <2>4, <2>5, <2>6, RestStays
<1>4. ASSUME NEW w \in Worker, NEW u \in Letter, Scan(w, u)
      PROVE  Life
  <2>1. /\ policy' = policy /\ row' = row /\ history' = history
        /\ row[u].status = "open" /\ row[u].tries < policy.maxTries
        /\ job' = [job EXCEPT ![w] = [pc |-> "read", uuid |-> u, tries |-> row[u].tries,
                                      transport |-> row[u].transport]]
    BY <1>4 DEF Scan, Free
  <2>2. \A x \in Letter : LetterStays(x)
    BY <2>1 DEF LetterStays
  <2>3. row[u].tries \in Nat
    BY <1>0 DEF RowType
  <2>4. JobFits(w)'
    BY <1>0, <2>1, <2>3 DEF JobFits
  <2>5. \A v \in Worker \ {w} : JobFits(v)'
    BY <1>0, <2>1, <2>2, <2>3, JobsStayBut
  <2>6. QED
    BY <2>1, <2>2, <2>4, <2>5, RestStays
<1>5. ASSUME NEW w \in Worker, Claim(w)
      PROVE  Life
  <2>1. policy' = policy /\ job[w] \in JobType
    BY <1>5, ClaimIs
  <2>2. PICK u \in Letter, n \in Nat, t \in AllIndexes : Claims(w, u, n, t)
    BY <1>5, ClaimIs
  <2>3. row[u] \in RowType /\ row[u].tries = n /\ row[u].status = "open"
    BY <1>0, <2>2 DEF Claims, Free
  <2>4. /\ row'[u].tries = n + 1 /\ row'[u].status = "open"
        /\ row'[u].isSending /\ ~row'[u].stale
    BY <2>2, <2>3 DEF Claims, RowType
  <2>5. /\ history'[u][n + 1].end = "open" /\ history'[u][n + 1].transport = t
        /\ Len(history'[u]) = n + 1
        /\ \A k \in 1 .. n : history'[u][k] = history[u][k]
    BY <2>2 DEF Claims
  <2>6. Counted(u)'
    BY <2>4, <2>5 DEF Counted
  <2>7. /\ job'[w].pc = "sending" /\ job'[w].uuid = u
        /\ job'[w].tries = n + 1 /\ job'[w].transport = t
    BY <2>1, <2>2 DEF Claims, JobType
  <2>8. JobFits(w)'
    BY <2>4, <2>5, <2>7 DEF JobFits
  <2>9. /\ \A x \in Letter \ {u} : LetterStays(x)
        /\ \A v \in Worker \ {w} : job'[v] = job[v]
    BY <2>2 DEF Claims
  <2>10. \A v \in Worker \ {w} : JobFits(v)'
    BY <2>1, <2>3, <2>4, <2>5, <2>9, JobsStayBut
  <2>11. QED
    BY <2>1, <2>6, <2>8, <2>9, <2>10, RestStays
<1>6. ASSUME NEW w \in Worker, ClaimRefused(w)
      PROVE  Life
  <2>1. \A v \in Worker : job'[v] \in {job[v], IdleJob}
    BY <1>0, <1>6 DEF ClaimRefused
  <2>2. QED
    BY <1>6, <2>1, JobsStay DEF ClaimRefused, LetterStays
<1>7. ASSUME NEW w \in Worker, NEW e \in Ends, NEW may \in BOOLEAN, NEW after,
             job[w].pc = "sending", Finish(w, e, after),
             LET r == row[job[w].uuid] IN
               \/ after = [r EXCEPT !.status = "sent"]
               \/ after = IF Exhausted(w) THEN GivenUp(r) ELSE r
               \/ after = IF Exhausted(w) THEN GivenUp(r)
                          ELSE [r EXCEPT !.transport =
                                  ToRetry(Conn[w], job[w].transport, job[w].tries, may)]
      PROVE  Life
  <2>1. /\ after \in RowType
        /\ after.tries = row[job[w].uuid].tries
        /\ after.status # "none"
        /\ after.status = "failed" =>
             job[w].tries = policy.maxTries \/ row[job[w].uuid].status = "failed"
    BY <1>7, FinishedRow
  <2>2. CASE row[job[w].uuid].isSending /\ row[job[w].uuid].tries = job[w].tries
    <3>1. row[job[w].uuid].status = "open"
      <4>1. job[w].uuid \in Letter
        BY <1>7, Types DEF LifeInv, JobType
      <4>2. QED
        BY <2>2, <4>1 DEF LifeInv, Counted
    <3>2. QED
      BY <1>7, <2>1, <3>1, FinishLife
  <2>3. CASE ~(row[job[w].uuid].isSending /\ row[job[w].uuid].tries = job[w].tries)
    <3>1. \A v \in Worker : job'[v] \in {job[v], IdleJob}
      BY <1>0, <1>7 DEF Finish
    <3>2. QED
      BY <1>7, <2>3, <3>1, JobsStay DEF Finish, LetterStays
  <2>4. QED
    BY <2>2, <2>3
<1>8. ASSUME NEW w \in Worker, Sent(w) \/ PartlySent(w)
      PROVE  Life
  <2>1. "sent" \in Ends /\ "partial" \in Ends
    BY DEF Ends
  <2>2. QED
    BY <1>7, <1>8, <2>1 DEF Sent, PartlySent
<1>9. ASSUME NEW w \in Worker, NEW hook \in Hooks, NEW tagged \in BOOLEAN,
             Failed(w, hook, tagged)
      PROVE  Life
  <2>1. "vetoed" \in Ends /\ "permitted" \in Ends /\ MayFailOver(hook, tagged) \in BOOLEAN
    BY DEF Ends, MayFailOver
  <2>2. QED
    BY <1>7, <1>9, <2>1 DEF Failed
<1>10. ASSUME NEW u \in Letter, GoStale(u)
       PROVE  Life
  <2> DEFINE n == row[u].tries
  <2>1. /\ policy' = policy /\ job' = job /\ row[u].isSending
        /\ row' = [row EXCEPT ![u] = [row[u] EXCEPT !.stale = TRUE]]
        /\ history' = [history EXCEPT ![u] = [history[u] EXCEPT ![n].stale = TRUE]]
    BY <1>10 DEF GoStale
  <2>2. n \in 1 .. Len(history[u]) /\ n = Len(history[u]) /\ row[u].status = "open"
        /\ history[u][n].end = "open"
    BY <1>0, <2>1 DEF LifeInv, Counted, RowType
  <2>3. history[u] \in [1 .. Len(history[u]) -> Entry] /\ Len(history[u]) \in Nat
    BY <1>0, LenProperties
  <2>4. history'[u] = [history[u] EXCEPT ![n].stale = TRUE]
        /\ Len(history'[u]) = Len(history[u])
    <3>1. history'[u] = [history[u] EXCEPT ![n].stale = TRUE]
      BY <1>0, <2>1
    <3>2. history[u] \in Seq(Entry) /\ "open" \in Ends
      BY <1>0 DEF Ends
    <3>3. QED
      BY <2>2, <3>1, <3>2, EntryType
  <2>5. /\ \A k \in 1 .. n : /\ history'[u][k].transport = history[u][k].transport
                             /\ history'[u][k].end = history[u][k].end
        /\ history'[u][n].stale
    BY <2>2, <2>3, <2>4 DEF Entry
  <2>6. row'[u] = [row[u] EXCEPT !.stale = TRUE] /\ row[u] \in RowType
    BY <1>0, <2>1
  <2>7. /\ row'[u].tries = n /\ row'[u].status = "open" /\ row'[u].isSending /\ n \in Nat
    BY <2>1, <2>2, <2>6 DEF RowType
  <2>8. n > 0 /\ n \in 1 .. n
    BY <2>2
  <2>9. Counted(u)'
    BY <2>2, <2>4, <2>5, <2>7, <2>8 DEF Counted
  <2>10. \A x \in Letter \ {u} : LetterStays(x)
    BY <1>0, <2>1 DEF LetterStays
  <2>11. \A w \in Worker : JobFits(w)'
    BY <2>1, <2>5, <2>7, <2>10, JobsStayBut
  <2>12. QED
    BY <2>1, <2>9, <2>10, <2>11, RestStays
<1>11. Life
  BY <1>1, <1>2, <1>3, <1>4, <1>5, <1>6, <1>8, <1>9, <1>10
     DEF Next, vars, Verify, AddOther
<1>12. TypeOK' /\ Known'
  BY TypesStep, KnownStep
<1>13. QED
  BY <1>11, <1>12 DEF LifeInv

LEMMA LifeInit == Init => LifeInv
<1> SUFFICES ASSUME Init
             PROVE  LifeInv
  OBVIOUS
<1>1. policy.maxTries \in Nat /\ policy \in Policies
  BY PoliciesAssumption DEF Init
<1>2. NoRow \in RowType
  BY <1>1, IndexesFit DEF NoRow, RowType
<1>3. FreshView \in View
  BY IndexesFit DEF FreshView, View
<1>4. <<>> \in Seq(Entry) /\ Len(<<>>) = 0
  OBVIOUS
<1>5. MaxFaults \in Nat
  BY BoundsAssumption
<1>6. TypeOK
  BY <1>1, <1>2, <1>3, <1>4, <1>5 DEF Init, TypeOK, View, Entry
<1>7. \A u \in Letter : Counted(u)
  BY <1>4 DEF Init, Counted, NoRow
<1>8. \A w \in Worker : JobFits(w)
  BY DEF Init, JobFits, IdleJob
<1>9. Known
  BY DEF Init, Known, FreshView
<1>10. QED
  BY <1>6, <1>7, <1>8, <1>9 DEF LifeInv

\* The state stays within its types, and with it that of every row.
THEOREM TransportTypes == Spec => []TypeOK
<1>1. LifeInv /\ [Next]_vars => LifeInv'
  BY LifeStep
<1>2. LifeInv => TypeOK
  BY DEF LifeInv
<1>3. QED
  BY LifeInit, <1>1, <1>2, PTL DEF Spec

-----------------------------------------------------------------------------
(* The choice for an attempt.                                              *)

\* An attempt uses a transport that its instance found broken only if it found
\* all broken: the theorem for UsesHealthy.
THEOREM HealthyFirst == Spec => UsesHealthy
<1> DEFINE Healthy(w) ==
      job'[w].pc = "sending" /\ job[w].pc = "read" =>
        LET i == Conn[w] IN
        job'[w].transport \in view[i].unhealthy => view[i].unhealthy = Index(i)
<1>1. ASSUME LifeInv, [Next]_vars
      PROVE  \A w \in Worker : Healthy(w)
  <2> SUFFICES ASSUME NEW w \in Worker, job'[w].pc = "sending", job[w].pc = "read",
                      job'[w].transport \in view[Conn[w]].unhealthy
               PROVE  view[Conn[w]].unhealthy = Index(Conn[w])
    OBVIOUS
  <2>1. job \in [Worker -> JobType \cup {IdleJob}]
    BY <1>1 DEF LifeInv, TypeOK
  <2>2. Claim(w)
    <3>1. job'[w] # job[w] /\ job'[w].pc = "sending" /\ job[w].pc = "read"
      OBVIOUS
    <3>2. IdleJob.pc = "idle"
      BY DEF IdleJob
    <3>3. ASSUME NEW i \in Instance
          PROVE  ~Restart(i) /\ ~AddOther(i)
      BY <2>1, <3>1, <3>2 DEF Restart, AddOther
    <3>4. ASSUME NEW v \in Worker, NEW u \in Letter
          PROVE  ~Scan(v, u)
      BY <2>1, <3>1, <3>2 DEF Scan
    <3>5. ASSUME NEW v \in Worker
          PROVE  ~ClaimRefused(v) /\ ~Sent(v) /\ ~PartlySent(v) /\ (Claim(v) => v = w)
      BY <2>1, <3>1, <3>2 DEF ClaimRefused, Sent, PartlySent, Finish, Claim
    <3>6. ASSUME NEW v \in Worker, NEW hook \in Hooks, NEW tagged \in BOOLEAN
          PROVE  ~Failed(v, hook, tagged)
      BY <2>1, <3>1, <3>2 DEF Failed, Finish
    <3>7. QED
      BY <1>1, <3>1, <3>3, <3>4, <3>5, <3>6
         DEF Next, vars, Verify, AddToQueue, AddOther, GoStale
  <2>3. PICK u \in Letter, n \in Nat, t \in AllIndexes : Claims(w, u, n, t)
    BY <1>1, <2>2, ClaimIs
  <2>4. job[w] \in JobType /\ job[w].transport \in AllIndexes
    BY <1>1, <2>2, ClaimIs DEF JobType
  <2>5. job'[w].transport = ToSend(Conn[w], job[w].transport)
    BY <2>3, <2>4 DEF Claims, JobType
  <2>6. /\ Conn[w] \in Instance
        /\ Transports[Conn[w]] \in Nat \ {0}
        /\ AllIndexes = 0 .. Transports[Conn[w]] - 1
        /\ Index(Conn[w]) = 0 .. Transports[Conn[w]] - 1
    BY WorkersHave, OneRing
  <2>7. view[Conn[w]].unhealthy \subseteq AllIndexes
    BY <1>1, <2>6, Types DEF LifeInv, View
  <2>8. CASE job[w].transport \in view[Conn[w]].unhealthy
    <3>1. job'[w].transport =
            NextHealthy(Transports[Conn[w]], view[Conn[w]].unhealthy, job[w].transport)
      BY <2>5, <2>8 DEF ToSend, After
    <3>2. 0 .. Transports[Conn[w]] - 1 \subseteq view[Conn[w]].unhealthy
      BY <2>4, <2>6, <3>1, NextHealthyFits
    <3>3. QED
      BY <2>6, <2>7, <3>2
  <2>9. CASE job[w].transport \notin view[Conn[w]].unhealthy
    BY <2>5, <2>9 DEF ToSend
  <2>10. QED
    BY <2>8, <2>9
<1>2. LifeInv /\ [Next]_vars => LifeInv'
  BY LifeStep
<1>3. QED
  BY LifeInit, <1>1, <1>2, PTL DEF Spec, UsesHealthy

-----------------------------------------------------------------------------
(* The balancer.                                                           *)

\* What the balancer comes to sooner has had as many letters as what it comes to
\* later, or one less.
InOrder(n, v) ==
    \A s, t \in (0 .. n - 1) \ v.unhealthy :
        Steps(n, v.transport, s) < Steps(n, v.transport, t) =>
            v.share[s] <= v.share[t] /\ v.share[t] <= v.share[s] + 1

SharesInOrder == \A i \in Instance : Transports[i] > 0 => InOrder(Transports[i], view[i])

LEMMA AdvanceKeepsOrder ==
    ASSUME NEW n \in Nat \ {0}, AllIndexes = 0 .. n - 1, NEW v \in View, InOrder(n, v),
           NEW t, t = NextHealthy(n, v.unhealthy, v.transport)
    PROVE  InOrder(n, Advanced(v, t))
<1>1. v.transport \in 0 .. n - 1 /\ v.share \in [0 .. n - 1 -> Nat]
  BY DEF View
<1>2. /\ t \in 0 .. n - 1
      /\ \A s \in 0 .. n - 1 : Steps(n, v.transport, s) < Steps(n, v.transport, t)
                               => s \in v.unhealthy
      /\ t \in v.unhealthy => 0 .. n - 1 \subseteq v.unhealthy
  BY <1>1, NextHealthyFits
<1>3. /\ Advanced(v, t).transport = t
      /\ Advanced(v, t).unhealthy = v.unhealthy
      /\ Advanced(v, t).share = [v.share EXCEPT ![t] = @ + 1]
  BY DEF Advanced, View
<1>4. \A s \in 0 .. n - 1 :
         s # t /\ s \notin v.unhealthy =>
           /\ Steps(n, v.transport, t) < Steps(n, v.transport, s)
           /\ Steps(n, t, s) = Steps(n, v.transport, s) - Steps(n, v.transport, t)
           /\ Steps(n, t, s) < Steps(n, t, t)
  <2>1. TAKE s \in 0 .. n - 1
  <2>2. SUFFICES ASSUME s # t, s \notin v.unhealthy
                 PROVE  /\ Steps(n, v.transport, t) < Steps(n, v.transport, s)
                        /\ Steps(n, t, s) = Steps(n, v.transport, s) - Steps(n, v.transport, t)
                        /\ Steps(n, t, s) < Steps(n, t, t)
    OBVIOUS
  <2>3. ~(Steps(n, v.transport, s) < Steps(n, v.transport, t))
    BY <1>2, <2>2
  <2>4. QED
    <3> DEFINE a == v.transport
    <3>1. a \in 0 .. n - 1 /\ t \in 0 .. n - 1
      BY <1>1, <1>2
    <3> HIDE DEF a
    <3>2. ~(Steps(n, a, s) < Steps(n, a, t))
      BY <2>3 DEF a
    <3>3. Steps(n, a, t) < Steps(n, a, s)
      BY <2>2, <3>1, <3>2 DEF Steps
    <3>4. /\ Steps(n, t, s) = Steps(n, a, s) - Steps(n, a, t)
          /\ Steps(n, t, s) < Steps(n, t, t)
      BY <2>2, <3>1, <3>3 DEF Steps
    <3>5. QED
      BY <3>3, <3>4 DEF a
<1>5. \A s \in 0 .. n - 1 : Steps(n, v.transport, s) \in Int
  BY <1>1 DEF Steps
<1>6. ASSUME NEW a \in 0 .. n - 1, NEW b \in 0 .. n - 1,
             a \notin v.unhealthy, b \notin v.unhealthy, Steps(n, t, a) < Steps(n, t, b)
      PROVE  LET share == [v.share EXCEPT ![t] = @ + 1]
             IN  share[a] <= share[b] /\ share[b] <= share[a] + 1
  <2>1. a # t
    BY <1>2, <1>4, <1>6 DEF Steps
  <2>2. CASE b = t
    <3>1. v.share[t] <= v.share[a] /\ v.share[a] <= v.share[t] + 1
      BY <1>2, <1>4, <1>6, <2>1, <2>2 DEF InOrder
    <3>2. QED
      BY <1>1, <2>1, <2>2, <3>1
  <2>3. CASE b # t
    <3>1. Steps(n, v.transport, a) < Steps(n, v.transport, b)
      BY <1>2, <1>4, <1>5, <1>6, <2>1, <2>3
    <3>2. v.share[a] <= v.share[b] /\ v.share[b] <= v.share[a] + 1
      BY <1>6, <3>1 DEF InOrder
    <3>3. QED
      BY <1>1, <2>1, <2>3, <3>2
  <2>4. QED
    BY <2>2, <2>3
<1>7. QED
  BY <1>3, <1>6 DEF InOrder

LEMMA SharesStep ==
    ASSUME LifeInv, SharesInOrder, [Next]_vars
    PROVE  SharesInOrder'
<1> SUFFICES ASSUME NEW i \in Instance, Transports[i] > 0
             PROVE  InOrder(Transports[i], view'[i])
  BY DEF SharesInOrder, InOrder
<1>1. /\ Transports[i] \in Nat \ {0} /\ AllIndexes = 0 .. Transports[i] - 1
      /\ InOrder(Transports[i], view[i])
      /\ view \in [Instance -> View]
  BY OneRing DEF SharesInOrder, LifeInv, TypeOK, View
<1>2. ASSUME view'[i].share = FreshView.share
      PROVE  InOrder(Transports[i], view'[i])
  <2>1. \A s \in 0 .. Transports[i] - 1 : view'[i].share[s] = 0
    BY <1>1, <1>2 DEF FreshView
  <2>2. QED
    BY <2>1 DEF InOrder
<1>3. ASSUME NEW k \in Instance, view' = [view EXCEPT ![k] = Advanced(view[k], After(k, view[k].transport))]
      PROVE  InOrder(Transports[i], view'[i])
  <2>1. CASE k = i
    <3>1. view'[i] = Advanced(view[i], After(i, view[i].transport)) /\ view[i] \in View
      BY <1>1, <1>3, <2>1
    <3>2. After(i, view[i].transport) =
            NextHealthy(Transports[i], view[i].unhealthy, view[i].transport)
      BY DEF After
    <3>3. QED
      BY <1>1, <3>1, <3>2, AdvanceKeepsOrder
  <2>2. CASE k # i
    BY <1>1, <1>3, <2>2
  <2>3. QED
    BY <2>1, <2>2
<1>4. ASSUME NEW k \in Instance, Restart(k)
      PROVE  InOrder(Transports[i], view'[i])
  <2>1. view'[i] = FreshView \/ view'[i] = view[i]
    BY <1>1, <1>4 DEF Restart
  <2>2. QED
    BY <1>1, <1>2, <2>1
<1>5. ASSUME NEW k \in Instance, NEW bad \in Broken, Verify(k, bad)
      PROVE  InOrder(Transports[i], view'[i])
  <2>1. view'[i].share = FreshView.share \/ view'[i] = view[i]
    BY <1>1, <1>5 DEF Verify, FreshView
  <2>2. QED
    BY <1>1, <1>2, <2>1
<1>6. ASSUME NEW k \in Instance, NEW u \in Letter, AddToQueue(k, u)
      PROVE  InOrder(Transports[i], view'[i])
  <2>1. CASE Balances(k)
    BY <1>3, <1>6, <2>1 DEF AddToQueue
  <2>2. CASE ~Balances(k)
    <3>1. view'[i] = view[i]
      BY <1>1, <1>6, <2>2 DEF AddToQueue
    <3>2. QED
      BY <1>1, <3>1
  <2>3. QED
    BY <2>1, <2>2
<1>7. ASSUME NEW k \in Instance, AddOther(k)
      PROVE  InOrder(Transports[i], view'[i])
  BY <1>3, <1>7 DEF AddOther
<1>8. CASE UNCHANGED view
  BY <1>1, <1>8
<1>9. QED
  BY <1>4, <1>5, <1>6, <1>7, <1>8
     DEF Next, vars, Scan, Claim, ClaimRefused, Sent, PartlySent, Failed, Finish, GoStale

\* Since the verification an instance has put as many letters on each transport
\* it knows to be healthy, but for one: the theorem for BalancedShare.
THEOREM BalancerGoesRound == Spec => []BalancedShare
<1>1. Init => SharesInOrder
  <2> SUFFICES ASSUME Init, NEW i \in Instance, Transports[i] > 0
               PROVE  InOrder(Transports[i], view[i])
    BY DEF SharesInOrder
  <2>1. AllIndexes = 0 .. Transports[i] - 1
    BY OneRing
  <2>2. \A s \in 0 .. Transports[i] - 1 : view[i].share[s] = 0
    BY <2>1 DEF Init, FreshView
  <2>3. QED
    BY <2>2 DEF InOrder
<1>2. LifeInv /\ SharesInOrder => BalancedShare
  <2> SUFFICES ASSUME LifeInv, SharesInOrder, NEW i \in Instance,
                      NEW s \in Index(i) \ view[i].unhealthy,
                      NEW t \in Index(i) \ view[i].unhealthy
               PROVE  view[i].share[s] - view[i].share[t] <= 1
    BY DEF BalancedShare
  <2>1. Transports[i] \in Nat
    BY TransportsAssumption
  <2>2. Transports[i] > 0 /\ s \in 0 .. Transports[i] - 1 /\ t \in 0 .. Transports[i] - 1
    BY <2>1 DEF Index
  <2>3. AllIndexes = 0 .. Transports[i] - 1 /\ view[i] \in View
    BY <2>2, OneRing, Types DEF LifeInv
  <2>4. /\ view[i].share[s] \in Nat /\ view[i].share[t] \in Nat
        /\ view[i].transport \in 0 .. Transports[i] - 1
    BY <2>2, <2>3 DEF View
  <2>5. InOrder(Transports[i], view[i])
    BY <2>2 DEF SharesInOrder
  <2> DEFINE ds == Steps(Transports[i], view[i].transport, s)
             dt == Steps(Transports[i], view[i].transport, t)
  <2>6. ds \in Int /\ dt \in Int /\ (ds = dt => s = t)
    BY <2>1, <2>2, <2>4 DEF Steps
  <2>7. /\ ds < dt => view[i].share[s] <= view[i].share[t]
        /\ dt < ds => view[i].share[s] <= view[i].share[t] + 1
    BY <2>2, <2>5 DEF InOrder
  <2> HIDE DEF ds, dt
  <2>8. QED
    BY <2>4, <2>6, <2>7
<1>3. LifeInv /\ [Next]_vars => LifeInv'
  BY LifeStep
<1>4. LifeInv /\ SharesInOrder /\ [Next]_vars => SharesInOrder'
  BY SharesStep
<1>5. QED
  BY LifeInit, <1>1, <1>2, <1>3, <1>4, PTL DEF Spec

-----------------------------------------------------------------------------
(* The way of a letter from one attempt to the next.                       *)

\* An attempt with transport `t` can come of a copy with transport `c`.
Near(c, t) ==
    \/ t = c
    \/ /\ c \in condemned
       /\ \E i \in Instance, bad \in SUBSET condemned :
            Transports[i] > 0 /\ c \in bad /\ t = NextHealthy(Transports[i], bad, c)

StaleAt(u, n) == n > 0 /\ history[u][n].stale

\* The row leads from its last attempt to the next: while the attempt has no end
\* the row has the transport it was made from, unless it was made from an older
\* copy; after a veto it has that of the attempt.
RowLeads(u) ==
    LET n == row[u].tries
        last == history[u][n]
    IN  n > 0 /\ row[u].status = "open" =>
          /\ last.end = "open" /\ ~StaleAt(u, n - 1) => Near(row[u].transport, last.transport)
          /\ last.end = "vetoed" => row[u].transport = last.transport

\* So does a copy that can still be claimed: it agrees with the row, or was read
\* while the attempt that ended in a veto was in hand.
CopyLeads(w) ==
    LET j == job[w]
        n == row[j.uuid].tries
        last == history[j.uuid][n]
    IN  j.pc = "read" /\ j.tries = n /\ row[j.uuid].status = "open" =>
          /\ ~StaleAt(j.uuid, n) => ~row[j.uuid].isSending
          /\ ~StaleAt(j.uuid, n) => j.transport = row[j.uuid].transport
          /\ n > 0 /\ last.end = "open" => j.transport = row[j.uuid].transport
          /\ n > 0 /\ last.end = "vetoed" /\ ~StaleAt(j.uuid, n - 1)
             => Near(j.transport, last.transport)

VetoAt(u) == \A n \in Vetoed(u) : StaleTwice(u, n) \/ KeepsTransport(u, n)

RouteInv ==
    /\ \A u \in Letter : RowLeads(u) /\ VetoAt(u)
    /\ \A w \in Worker : CopyLeads(w)

LEMMA NearToSend ==
    ASSUME LifeInv, NEW w \in Worker, NEW c \in AllIndexes
    PROVE  Near(c, ToSend(Conn[w], c))
<1>1. /\ Conn[w] \in Instance /\ Transports[Conn[w]] > 0
      /\ view[Conn[w]].unhealthy \subseteq condemned
  BY WorkersHave DEF LifeInv, Known
<1>2. CASE c \in view[Conn[w]].unhealthy
  BY <1>1, <1>2 DEF Near, ToSend, After
<1>3. CASE c \notin view[Conn[w]].unhealthy
  BY <1>3 DEF Near, ToSend
<1>4. QED
  BY <1>2, <1>3

\* Two attempts that come of the same copy have the same transport, or one of
\* them is known to be broken.
LEMMA NearMeets ==
    ASSUME NEW c \in AllIndexes, NEW s, NEW t, Near(c, s), Near(c, t)
    PROVE  t = s \/ {s, t} \cap condemned # {}
<1>1. CASE s = c \/ t = c
  BY <1>1 DEF Near
<1>2. CASE s # c /\ t # c
  <2>1. PICK i \in Instance, A \in SUBSET condemned :
           Transports[i] > 0 /\ c \in A /\ s = NextHealthy(Transports[i], A, c)
    BY <1>2 DEF Near
  <2>2. PICK k \in Instance, B \in SUBSET condemned :
           Transports[k] > 0 /\ c \in B /\ t = NextHealthy(Transports[k], B, c)
    BY <1>2 DEF Near
  <2>3. /\ Transports[k] = Transports[i]
        /\ Transports[i] \in Nat \ {0} /\ c \in 0 .. Transports[i] - 1
    BY <2>1, <2>2, OneRing, TransportsAssumption
  <2>4. s = t \/ s \in A \cup B \/ t \in A \cup B
    BY <2>1, <2>2, <2>3, NextHealthyMeet
  <2>5. QED
    BY <2>1, <2>2, <2>4
<1>3. QED
  BY <1>1, <1>2

LEMMA NearGrows ==
    ASSUME NEW c, NEW t, Near(c, t), condemned \subseteq condemned'
    PROVE  Near(c, t)'
BY DEF Near

\* A step that adds no attempt adds no pair of them.
LEMMA VetoStays ==
    ASSUME NEW u \in Letter, VetoAt(u), condemned \subseteq condemned',
           NEW m \in Nat, m = Len(history[u]), m = Len(history'[u]),
           \A k \in 1 .. m - 1 : history'[u][k] = history[u][k],
           m > 0 => history'[u][m].transport = history[u][m].transport
    PROVE  VetoAt(u)'
<1> SUFFICES ASSUME NEW n \in Vetoed(u)'
             PROVE  (StaleTwice(u, n) \/ KeepsTransport(u, n))'
  BY DEF VetoAt
<1>1. n \in 1 .. m /\ n + 1 \in 1 .. m /\ history'[u][n].end = "vetoed"
  BY DEF Vetoed, Attempts
<1>2. n \in 1 .. m - 1
  BY <1>1
<1>3. n \in Vetoed(u)
  BY <1>1, <1>2 DEF Vetoed, Attempts
<1>4. history'[u][n + 1].transport = history[u][n + 1].transport
  BY <1>1
<1>5. StaleTwice(u, n) => StaleTwice(u, n)'
  BY <1>2 DEF StaleTwice
<1>6. KeepsTransport(u, n) => KeepsTransport(u, n)'
  BY <1>2, <1>4 DEF KeepsTransport
<1>7. QED
  BY <1>3, <1>5, <1>6 DEF VetoAt

LEMMA RouteStays ==
    ASSUME LifeInv, RouteInv, condemned \subseteq condemned'
    PROVE  /\ \A u \in Letter : LetterStays(u) => RowLeads(u)' /\ VetoAt(u)'
           /\ \A w \in Worker : job'[w] = IdleJob => CopyLeads(w)'
           /\ \A w \in Worker : job'[w] = job[w] /\ LetterStays(job[w].uuid) => CopyLeads(w)'
<1>1. ASSUME NEW u \in Letter, LetterStays(u)
      PROVE  RowLeads(u)' /\ VetoAt(u)'
  <2>1. VetoAt(u)'
    <3>1. Len(history[u]) \in Nat
      BY Types, LenProperties DEF LifeInv
    <3>2. VetoAt(u)
      BY DEF RouteInv
    <3>3. QED
      BY <1>1, <3>1, <3>2, VetoStays DEF LetterStays
  <2>2. RowLeads(u)'
    <3>1. RowLeads(u)
      BY DEF RouteInv
    <3>2. PICK r, h : r = row[u] /\ h = history[u]
      OBVIOUS
    <3>3. row'[u] = r /\ history'[u] = h
      BY <1>1, <3>2 DEF LetterStays
    <3>4. Near(r.transport, h[r.tries].transport) => Near(r.transport, h[r.tries].transport)'
      BY NearGrows
    <3>5. QED
      BY <3>1, <3>2, <3>3, <3>4 DEF RowLeads, StaleAt
  <2>3. QED
    BY <2>1, <2>2
<1>2. ASSUME NEW w \in Worker, job'[w] = IdleJob
      PROVE  CopyLeads(w)'
  BY <1>2 DEF CopyLeads, IdleJob
<1>3. ASSUME NEW w \in Worker, job'[w] = job[w], LetterStays(job[w].uuid)
      PROVE  CopyLeads(w)'
  <2>1. CopyLeads(w)
    BY DEF RouteInv
  <2>2. PICK j, r, h : j = job[w] /\ r = row[j.uuid] /\ h = history[j.uuid]
    OBVIOUS
  <2>3. job'[w] = j /\ row'[j.uuid] = r /\ history'[j.uuid] = h
    BY <1>3, <2>2 DEF LetterStays
  <2>4. Near(j.transport, h[r.tries].transport) => Near(j.transport, h[r.tries].transport)'
    BY NearGrows
  <2>5. QED
    BY <2>1, <2>2, <2>3, <2>4 DEF CopyLeads, StaleAt
<1>4. QED
  BY <1>1, <1>2, <1>3

\* The end of attempt n of letter u, written out.
Finishes(w, u, n, e, after) ==
    /\ u = job[w].uuid /\ n = job[w].tries /\ n > 0
    /\ row[u].isSending /\ row[u].status = "open" /\ row[u].tries = n
    /\ n = Len(history[u]) /\ n = Len(history'[u])
    /\ history[u][n].end = "open" /\ history[u][n].transport = job[w].transport
    /\ row'[u] = [after EXCEPT !.isSending = FALSE, !.stale = FALSE]
    /\ \A k \in 1 .. n - 1 : history'[u][k] = history[u][k]
    /\ history'[u][n] = [history[u][n] EXCEPT !.end = e]
    /\ history[u][n] \in Entry
    /\ \A x \in Letter \ {u} : LetterStays(x)
    /\ \A v \in Worker \ {w} : job'[v] = job[v]
    /\ job'[w] = IdleJob

LEMMA FinishIs ==
    ASSUME LifeInv, NEW w \in Worker, job[w].pc = "sending",
           NEW e \in Ends, NEW after, Finish(w, e, after),
           row[job[w].uuid].isSending, row[job[w].uuid].tries = job[w].tries
    PROVE  \E u \in Letter, n \in Nat : Finishes(w, u, n, e, after)
<1>1. job[w] \in JobType
  BY Types DEF LifeInv
<1>2. PICK u \in Letter, n \in Nat : u = job[w].uuid /\ n = job[w].tries
  BY <1>1 DEF JobType
<1>3. /\ row \in [Letter -> RowType] /\ history \in [Letter -> Seq(Entry)]
      /\ job \in [Worker -> JobType \cup {IdleJob}]
  BY Types DEF LifeInv, TypeOK
<1>4. /\ n > 0 /\ row[u].status = "open" /\ n = Len(history[u])
      /\ history[u][n].end = "open" /\ history[u][n].transport = job[w].transport
      /\ row[u].isSending /\ row[u].tries = n
  BY <1>2 DEF LifeInv, Counted, JobFits
<1>5. /\ row' = [row EXCEPT ![u] = [after EXCEPT !.isSending = FALSE, !.stale = FALSE]]
      /\ history' = [history EXCEPT ![u] = [history[u] EXCEPT ![n].end = e]]
      /\ job' = [job EXCEPT ![w] = IdleJob]
  BY <1>2 DEF Finish
<1>6. history[u] \in [1 .. n -> Entry] /\ history[u] \in Seq(Entry) /\ n \in 1 .. n
  BY <1>3, <1>4, LenProperties
<1>7. history'[u] = [history[u] EXCEPT ![n].end = e]
  BY <1>3, <1>5
<1>8. /\ n = Len(history'[u])
      /\ \A k \in 1 .. n - 1 : history'[u][k] = history[u][k]
      /\ history'[u][n] = [history[u][n] EXCEPT !.end = e]
      /\ history[u][n] \in Entry
  <2>1. n = Len(history'[u])
    BY <1>4, <1>6, <1>7, EntryType
  <2>2. QED
    BY <1>6, <1>7, <2>1
<1>9. /\ row'[u] = [after EXCEPT !.isSending = FALSE, !.stale = FALSE]
      /\ \A x \in Letter \ {u} : LetterStays(x)
      /\ \A v \in Worker \ {w} : job'[v] = job[v]
      /\ job'[w] = IdleJob
  BY <1>3, <1>5 DEF LetterStays
<1>10. QED
  BY <1>2, <1>4, <1>8, <1>9 DEF Finishes

\* What a finished send does to its row: a veto keeps the transport.
LEMMA FinishRoutes ==
    ASSUME LifeInv, RouteInv, policy' = policy, condemned' = condemned,
           NEW w \in Worker, NEW u \in Letter, NEW n \in Nat, NEW e \in Ends \ {"open"},
           NEW after \in RowType, Finishes(w, u, n, e, after),
           after.tries = n,
           e = "vetoed" /\ after.status = "open" => after.transport = job[w].transport
    PROVE  RouteInv'
<1>1. /\ row'[u].tries = n /\ row'[u].status = after.status
      /\ row'[u].transport = after.transport /\ ~row'[u].isSending
  BY DEF Finishes, RowType
<1>2. /\ history'[u][n].end = e
      /\ history'[u][n].transport = history[u][n].transport
      /\ history'[u][n].stale = history[u][n].stale
  BY SMTT(30) DEF Finishes, Entry
<1>3. /\ n > 0 /\ \A k \in 1 .. n - 1 : history'[u][k] = history[u][k]
      /\ row[u].isSending /\ row[u].status = "open" /\ row[u].tries = n
      /\ history[u][n].end = "open" /\ history[u][n].transport = job[w].transport
      /\ n = Len(history[u]) /\ n = Len(history'[u])
      /\ \A x \in Letter \ {u} : LetterStays(x)
      /\ \A v \in Worker \ {w} : job'[v] = job[v]
      /\ job'[w] = IdleJob
  BY DEF Finishes
<1>4. \A k \in Nat : k < n => (StaleAt(u, k)' <=> StaleAt(u, k))
  BY <1>3 DEF StaleAt
<1>5. StaleAt(u, n)' <=> StaleAt(u, n)
  BY <1>2 DEF StaleAt
<1>6. RowLeads(u)'
  BY <1>1, <1>2, <1>3 DEF RowLeads
<1>7. VetoAt(u)'
  BY <1>2, <1>3, VetoStays DEF RouteInv
<1>8. ASSUME NEW v \in Worker, v # w
      PROVE  CopyLeads(v)'
  <2>1. job'[v] = job[v]
    BY <1>3, <1>8
  <2>2. CASE job[v].pc # "read"
    BY <2>1, <2>2 DEF CopyLeads
  <2>3. CASE job[v].pc = "read" /\ job[v].uuid # u
    <3>1. job[v].uuid \in Letter
      BY <2>3, Types DEF LifeInv, JobType
    <3>2. QED
      BY <1>3, <2>1, <2>3, <3>1, RouteStays
  <2>4. CASE job[v].pc = "read" /\ job[v].uuid = u /\ job[v].tries # n
    BY <1>1, <2>1, <2>4 DEF CopyLeads
  <2>5. CASE job[v].pc = "read" /\ job[v].uuid = u /\ job[v].tries = n
    <3>1. PICK c \in AllIndexes : c = job[v].transport
      BY <2>5, Types DEF LifeInv, JobType
    <3>2. StaleAt(u, n) /\ c = row[u].transport
      BY <1>3, <2>5, <3>1 DEF RouteInv, CopyLeads
    <3>3. ~StaleAt(u, n - 1) => Near(row[u].transport, history[u][n].transport)
      BY <1>3 DEF RouteInv, RowLeads
    <3>4. n - 1 \in Nat /\ n - 1 < n
      BY <1>3
    <3>5. PICK t : t = history[u][n].transport
      OBVIOUS
    <3>6. Near(c, t) => Near(c, t)'
      BY NearGrows
    <3>7. history'[u][n].end # "open" /\ history'[u][n].transport = t
      BY <1>2, <3>5
    <3>8. ~StaleAt(u, n - 1)' => Near(c, t)'
      BY <1>4, <3>2, <3>3, <3>4, <3>5, <3>6
    <3>9. job'[v].uuid = u /\ job'[v].transport = c /\ row'[u].tries = n
      BY <1>1, <2>1, <2>5, <3>1
    <3>10. QED
      BY <1>3, <1>5, <3>2, <3>7, <3>8, <3>9 DEF CopyLeads
  <2>6. QED
    BY <2>2, <2>3, <2>4, <2>5
<1>9. CopyLeads(w)'
  BY <1>3, RouteStays
<1>10. QED
  BY <1>3, <1>6, <1>7, <1>8, <1>9, RouteStays DEF RouteInv

LEMMA ClaimRoutes ==
    ASSUME LifeInv, RouteInv, policy' = policy, condemned' = condemned,
           NEW w \in Worker, job[w] \in JobType,
           NEW u \in Letter, NEW n \in Nat, NEW t \in AllIndexes, Claims(w, u, n, t)
    PROVE  RouteInv'
<1>1. PICK c \in AllIndexes : c = job[w].transport
  BY DEF JobType
<1>2. /\ job[w].pc = "read" /\ job[w].uuid = u /\ job[w].tries = n
      /\ row[u].tries = n /\ row[u].status = "open" /\ Free(row[u])
      /\ n = Len(history[u]) /\ Len(history'[u]) = n + 1
      /\ \A k \in 1 .. n : history'[u][k] = history[u][k]
      /\ history'[u][n + 1].end = "open" /\ history'[u][n + 1].transport = t
      /\ ~history'[u][n + 1].stale
      /\ \A x \in Letter \ {u} : LetterStays(x)
      /\ \A v \in Worker \ {w} : job'[v] = job[v]
  BY DEF Claims, Free
<1>3. Near(c, t) /\ (Near(c, t) => Near(c, t)')
  <2>1. t = ToSend(Conn[w], c)
    BY <1>1 DEF Claims
  <2>2. QED
    BY <2>1, NearToSend, NearGrows
<1>4. /\ row'[u].tries = n + 1 /\ row'[u].transport = row[u].transport
      /\ row'[u].status = "open"
  <2>1. row[u] \in RowType
    BY Types DEF LifeInv
  <2>2. QED
    BY <1>2, <2>1 DEF Claims, RowType
<1>5. StaleAt(u, n)' <=> StaleAt(u, n)
  BY <1>2 DEF StaleAt
<1>6. ~StaleAt(u, n) => c = row[u].transport
  BY <1>1, <1>2 DEF RouteInv, CopyLeads
<1>7. RowLeads(u)'
  <2>1. (n + 1) - 1 = n
    OBVIOUS
  <2>2. PICK d : d = row'[u].transport
    OBVIOUS
  <2>3. ~StaleAt(u, n)' => d = c
    BY <1>4, <1>5, <1>6, <2>2
  <2>4. ~StaleAt(u, n)' => Near(d, t)'
    BY <1>3, <2>3
  <2>5. QED
    BY <1>2, <1>4, <2>1, <2>2, <2>4 DEF RowLeads
<1>8. ASSUME n > 0, history[u][n].end = "vetoed"
      PROVE  StaleTwice(u, n) \/ t = history[u][n].transport
             \/ {history[u][n].transport, t} \cap condemned # {}
  <2>1. PICK s : s = history[u][n].transport
    OBVIOUS
  <2>2. CASE ~StaleAt(u, n)
    <3>1. row[u].transport = s
      BY <1>2, <1>8, <2>1 DEF RouteInv, RowLeads
    <3>2. Near(s, t) /\ s = c
      BY <1>3, <1>6, <2>2, <3>1
    <3>3. QED
      BY <2>1, <3>2 DEF Near
  <2>3. CASE StaleAt(u, n) /\ ~StaleAt(u, n - 1)
    <3>1. Near(c, s)
      BY <1>1, <1>2, <1>8, <2>1, <2>3 DEF RouteInv, CopyLeads
    <3>2. QED
      BY <1>3, <2>1, <3>1, NearMeets
  <2>4. CASE StaleAt(u, n) /\ StaleAt(u, n - 1)
    BY <2>4 DEF StaleAt, StaleTwice
  <2>5. QED
    BY <2>2, <2>3, <2>4
<1>9. VetoAt(u)'
  <2> SUFFICES ASSUME NEW m \in Vetoed(u)'
               PROVE  (StaleTwice(u, m) \/ KeepsTransport(u, m))'
    BY DEF VetoAt
  <2>1. m \in 1 .. n /\ m + 1 \in 1 .. n + 1 /\ history[u][m].end = "vetoed"
    BY <1>2 DEF Vetoed, Attempts
  <2>2. StaleTwice(u, m)' <=> StaleTwice(u, m)
    <3>1. m > 1 => m - 1 \in 1 .. n
      BY <2>1
    <3>2. history'[u][m] = history[u][m]
      BY <1>2, <2>1
    <3>3. m > 1 => history'[u][m - 1] = history[u][m - 1]
      BY <1>2, <3>1
    <3>4. QED
      BY <3>2, <3>3 DEF StaleTwice
  <2>3. history'[u][m] = history[u][m]
    BY <1>2, <2>1
  <2>4. CASE m = n
    BY <1>2, <1>8, <2>1, <2>2, <2>3, <2>4 DEF KeepsTransport
  <2>5. CASE m # n
    <3>1. m \in Vetoed(u) /\ m + 1 \in 1 .. n
      BY <1>2, <2>1, <2>5 DEF Vetoed, Attempts
    <3>2. history'[u][m + 1] = history[u][m + 1]
      BY <1>2, <3>1
    <3>3. StaleTwice(u, m) \/ KeepsTransport(u, m)
      BY <3>1 DEF RouteInv, VetoAt
    <3>4. QED
      BY <2>2, <2>3, <3>2, <3>3 DEF KeepsTransport
  <2>6. QED
    BY <2>4, <2>5
<1>10. ASSUME NEW v \in Worker
       PROVE  CopyLeads(v)'
  <2>1. CASE v = w
    <3>1. job'[w].pc = "sending"
      BY DEF Claims, JobType
    <3>2. QED
      BY <2>1, <3>1 DEF CopyLeads
  <2>2. CASE v # w /\ job[v].pc # "read"
    BY <1>2, <2>2 DEF CopyLeads
  <2>3. CASE v # w /\ job[v].pc = "read" /\ job[v].uuid # u
    <3>1. job[v].uuid \in Letter /\ job'[v] = job[v]
      BY <1>2, <2>3, Types DEF LifeInv, JobType
    <3>2. QED
      BY <1>2, <2>3, <3>1, RouteStays
  <2>4. CASE v # w /\ job[v].pc = "read" /\ job[v].uuid = u
    <3>1. job[v].tries <= n /\ job[v].tries \in Nat /\ job'[v] = job[v]
      BY <1>2, <2>4, Types DEF LifeInv, JobType, JobFits
    <3>2. QED
      BY <1>4, <2>4, <3>1 DEF CopyLeads
  <2>5. QED
    BY <2>1, <2>2, <2>3, <2>4
<1>11. QED
  BY <1>2, <1>7, <1>9, <1>10, RouteStays DEF RouteInv

LEMMA JobsRoute ==
    ASSUME LifeInv, RouteInv, condemned \subseteq condemned',
           NEW w \in Worker, NEW U \in SUBSET Letter,
           job'[w] \in {job[w], IdleJob},
           \A u \in U : LetterStays(u),
           job[w].pc = "read" => job[w].uuid \in U
    PROVE  CopyLeads(w)'
<1>1. CASE job'[w] = IdleJob
  BY <1>1, RouteStays
<1>2. CASE job'[w] = job[w] /\ job[w].pc # "read"
  BY <1>2 DEF CopyLeads
<1>3. CASE job'[w] = job[w] /\ job[w].pc = "read"
  BY <1>3, RouteStays
<1>4. QED
  BY <1>1, <1>2, <1>3

\* A step that changes no row and starts no send.
LEMMA AllRoute ==
    ASSUME LifeInv, RouteInv, condemned \subseteq condemned',
           \A u \in Letter : LetterStays(u),
           \A w \in Worker : job'[w] \in {job[w], IdleJob}
    PROVE  RouteInv'
<1>1. ASSUME NEW w \in Worker
      PROVE  CopyLeads(w)'
  <2>1. job[w].pc = "read" => job[w].uuid \in Letter
    BY Types DEF LifeInv, JobType
  <2>2. QED
    BY <2>1, JobsRoute
<1>2. QED
  BY <1>1, RouteStays DEF RouteInv

LEMMA RouteStep ==
    ASSUME LifeInv, RouteInv, [Next]_vars
    PROVE  RouteInv'
<1>0. /\ row \in [Letter -> RowType] /\ history \in [Letter -> Seq(Entry)]
      /\ job \in [Worker -> JobType \cup {IdleJob}]
      /\ condemned \subseteq condemned'
  BY Types, KnownStep DEF LifeInv, TypeOK
<1>1. CASE UNCHANGED <<policy, row, history, job>>
  BY <1>0, <1>1, AllRoute DEF LetterStays
<1>2. ASSUME NEW i \in Instance, Restart(i)
      PROVE  RouteInv'
  <2>1. \A w \in Worker : job'[w] \in {job[w], IdleJob}
    BY <1>2 DEF Restart
  <2>2. QED
    BY <1>0, <1>2, <2>1, AllRoute DEF Restart, LetterStays
<1>3. ASSUME NEW i \in Instance, NEW u \in Letter, AddToQueue(i, u)
      PROVE  RouteInv'
  <2>1. /\ job' = job /\ history' = history
        /\ row[u].status = "none"
        /\ \E t : row' = [row EXCEPT ![u] = [NoRow EXCEPT !.status = "open", !.transport = t]]
    BY <1>3 DEF AddToQueue
  <2>2. row'[u].tries = 0
    BY <1>0, <2>1 DEF NoRow
  <2>3. \A x \in Letter \ {u} : LetterStays(x)
    BY <1>0, <2>1 DEF LetterStays
  <2>4. RowLeads(u)'
    BY <2>2 DEF RowLeads
  <2>5. VetoAt(u)'
    <3>1. Len(history[u]) \in Nat /\ VetoAt(u)
      BY <1>0, LenProperties DEF RouteInv
    <3>2. QED
      BY <1>0, <2>1, <3>1, VetoStays
  <2>6. ASSUME NEW w \in Worker
        PROVE  CopyLeads(w)'
    <3>1. job[w].pc = "read" => job[w].uuid \in Letter \ {u}
      BY <2>1, Types DEF LifeInv, JobFits, JobType
    <3>2. QED
      BY <1>0, <2>1, <2>3, <3>1, JobsRoute
  <2>7. QED
    BY <1>0, <2>3, <2>4, <2>5, <2>6, RouteStays DEF RouteInv
<1>4. ASSUME NEW w \in Worker, NEW u \in Letter, Scan(w, u)
      PROVE  RouteInv'
  <2>1. /\ row' = row /\ history' = history /\ condemned' = condemned
        /\ Free(row[u])
        /\ job' = [job EXCEPT ![w] = [pc |-> "read", uuid |-> u, tries |-> row[u].tries,
                                      transport |-> row[u].transport]]
    BY <1>4 DEF Scan
  <2>2. \A x \in Letter : LetterStays(x)
    BY <2>1 DEF LetterStays
  <2>3. CopyLeads(w)'
    <3>1. /\ job'[w].uuid = u /\ job'[w].tries = row[u].tries
          /\ job'[w].transport = row[u].transport
      BY <1>0, <2>1
    <3>2. row[u].stale => StaleAt(u, row[u].tries)
      BY DEF LifeInv, Counted, StaleAt
    <3>3. ~StaleAt(u, row[u].tries) => ~row[u].isSending
      BY <2>1, <3>2 DEF Free
    <3>4. row[u].status = "open" /\ row[u].tries > 0
          /\ history[u][row[u].tries].end = "vetoed" =>
            row[u].transport = history[u][row[u].tries].transport
      BY DEF RouteInv, RowLeads
    <3>5. PICK r, h : r = row[u] /\ h = history[u]
      OBVIOUS
    <3>6. r.transport = h[r.tries].transport => Near(r.transport, h[r.tries].transport)'
      BY DEF Near
    <3>7. row'[u] = r /\ history'[u] = h
      BY <2>1, <3>5
    <3>8. \A n : StaleAt(u, n)' <=> StaleAt(u, n)
      BY <2>1 DEF StaleAt
    <3>9. QED
      BY <3>1, <3>3, <3>4, <3>5, <3>6, <3>7, <3>8 DEF CopyLeads
  <2>4. ASSUME NEW v \in Worker, v # w
        PROVE  CopyLeads(v)'
    <3>1. job'[v] = job[v]
      BY <1>0, <2>1, <2>4
    <3>2. job[v].pc = "read" => job[v].uuid \in Letter
      BY Types DEF LifeInv, JobType
    <3>3. QED
      BY <1>0, <2>2, <3>1, <3>2, JobsRoute
  <2>5. QED
    BY <1>0, <2>2, <2>3, <2>4, RouteStays DEF RouteInv
<1>5. ASSUME NEW w \in Worker, Claim(w)
      PROVE  RouteInv'
  BY <1>5, ClaimIs, ClaimRoutes
<1>6. ASSUME NEW w \in Worker, ClaimRefused(w)
      PROVE  RouteInv'
  <2>1. \A v \in Worker : job'[v] \in {job[v], IdleJob}
    BY <1>0, <1>6 DEF ClaimRefused
  <2>2. QED
    BY <1>0, <1>6, <2>1, AllRoute DEF ClaimRefused, LetterStays
<1>7. ASSUME NEW w \in Worker, NEW e \in Ends \ {"open"}, NEW may \in BOOLEAN, NEW after,
             job[w].pc = "sending", Finish(w, e, after),
             LET r == row[job[w].uuid] IN
               \/ after = [r EXCEPT !.status = "sent"]
               \/ after = IF Exhausted(w) THEN GivenUp(r) ELSE r
               \/ after = IF Exhausted(w) THEN GivenUp(r)
                          ELSE [r EXCEPT !.transport =
                                  ToRetry(Conn[w], job[w].transport, job[w].tries, may)],
             e = "vetoed" /\ after.status = "open" => after.transport = job[w].transport
      PROVE  RouteInv'
  <2>1. /\ after \in RowType
        /\ after.tries = row[job[w].uuid].tries
    BY <1>7, FinishedRow
  <2>2. CASE row[job[w].uuid].isSending /\ row[job[w].uuid].tries = job[w].tries
    <3>1. PICK u \in Letter, n \in Nat : Finishes(w, u, n, e, after)
      BY <1>7, <2>2, FinishIs
    <3>2. after.tries = n
      BY <2>1, <2>2, <3>1 DEF Finishes
    <3>3. policy' = policy /\ condemned' = condemned
      BY <1>7 DEF Finish
    <3>4. QED
      BY <1>7, <2>1, <3>1, <3>2, <3>3, FinishRoutes
  <2>3. CASE ~(row[job[w].uuid].isSending /\ row[job[w].uuid].tries = job[w].tries)
    <3>1. \A v \in Worker : job'[v] \in {job[v], IdleJob}
      BY <1>0, <1>7 DEF Finish
    <3>2. QED
      BY <1>0, <1>7, <2>3, <3>1, AllRoute DEF Finish, LetterStays
  <2>4. QED
    BY <2>2, <2>3
<1>8. ASSUME NEW w \in Worker, Sent(w) \/ PartlySent(w)
      PROVE  RouteInv'
  <2>1. "sent" \in Ends \ {"open"} /\ "partial" \in Ends \ {"open"}
    BY DEF Ends
  <2>2. QED
    BY <1>7, <1>8, <2>1 DEF Sent, PartlySent
<1>9. ASSUME NEW w \in Worker, NEW hook \in Hooks, NEW tagged \in BOOLEAN,
             Failed(w, hook, tagged)
      PROVE  RouteInv'
  <2> DEFINE may == MayFailOver(hook, tagged)
             e == IF hook \in {"false", "throws"} \/ (hook = "none" /\ tagged)
                  THEN "vetoed" ELSE "permitted"
             r == row[job[w].uuid]
             t == ToRetry(Conn[w], job[w].transport, job[w].tries, may)
             after == IF Exhausted(w) THEN GivenUp(r) ELSE [r EXCEPT !.transport = t]
  <2>1. e \in Ends \ {"open"} /\ may \in BOOLEAN
    BY DEF Ends, MayFailOver
  <2>2. e = "vetoed" => t = job[w].transport
    <3>1. e = "vetoed" => ~may
      BY DEF MayFailOver
    <3>2. QED
      BY <3>1 DEF ToRetry
  <2>3. job[w].pc = "sending" /\ Finish(w, e, after)
    BY <1>9 DEF Failed
  <2>4. e = "vetoed" /\ after.status = "open" => after.transport = job[w].transport
    <3>1. r \in RowType
      BY <2>3, FailedRow
    <3>2. Exhausted(w) => after.status = "failed"
      BY <3>1 DEF GivenUp, RowType
    <3>3. ~Exhausted(w) => after.transport = t
      BY <3>1 DEF RowType
    <3>4. QED
      BY <2>2, <3>2, <3>3
  <2>5. \/ after = [r EXCEPT !.status = "sent"]
        \/ after = IF Exhausted(w) THEN GivenUp(r) ELSE r
        \/ after = IF Exhausted(w) THEN GivenUp(r)
                   ELSE [r EXCEPT !.transport =
                           ToRetry(Conn[w], job[w].transport, job[w].tries, may)]
    OBVIOUS
  <2> HIDE DEF may, e, after
  <2>6. QED
    BY <1>7, <2>1, <2>3, <2>4, <2>5
<1>10. ASSUME NEW u \in Letter, GoStale(u)
       PROVE  RouteInv'
  <2>1. PICK n \in Nat : n = row[u].tries
    BY <1>0 DEF RowType
  <2>2. /\ job' = job /\ row[u].isSending /\ condemned' = condemned
        /\ row' = [row EXCEPT ![u] = [row[u] EXCEPT !.stale = TRUE]]
        /\ history' = [history EXCEPT ![u] = [history[u] EXCEPT ![n].stale = TRUE]]
    BY <1>10, <2>1 DEF GoStale
  <2>3. /\ n \in 1 .. n /\ n > 0 /\ n = Len(history[u]) /\ row[u].status = "open"
        /\ history[u][n].end = "open"
    BY <1>0, <2>1, <2>2 DEF LifeInv, Counted, RowType
  <2>4. history[u] \in [1 .. n -> Entry] /\ history[u] \in Seq(Entry) /\ "open" \in Ends
    BY <1>0, <2>3, LenProperties DEF Ends
  <2>5. history'[u] = [history[u] EXCEPT ![n].stale = TRUE]
    BY <1>0, <2>2
  <2>6. /\ n = Len(history'[u])
        /\ \A k \in 1 .. n - 1 : history'[u][k] = history[u][k]
        /\ history'[u][n].transport = history[u][n].transport
        /\ history'[u][n].end = "open"
        /\ history'[u][n].stale
    <3>1. n = Len(history'[u])
      BY <2>3, <2>4, <2>5, EntryType
    <3>2. history[u][n] \in Entry
      BY <2>3, <2>4
    <3>3. QED
      BY <2>3, <2>4, <2>5, <3>1, <3>2 DEF Entry
  <2>7. /\ row'[u].tries = n /\ row'[u].transport = row[u].transport
        /\ row'[u].status = "open"
    BY <1>0, <2>1, <2>2, <2>3 DEF RowType
  <2>8. \A x \in Letter \ {u} : LetterStays(x)
    BY <1>0, <2>2 DEF LetterStays
  <2>9. VetoAt(u)'
    BY <2>2, <2>3, <2>6, VetoStays DEF RouteInv
  <2>10. StaleAt(u, n - 1)' <=> StaleAt(u, n - 1)
    BY <2>3, <2>6 DEF StaleAt
  <2>11. RowLeads(u)'
    <3>1. PICK c, t : c = row[u].transport /\ t = history[u][n].transport
      OBVIOUS
    <3>2. ~StaleAt(u, n - 1) => Near(c, t)
      BY <2>1, <2>3, <3>1 DEF RouteInv, RowLeads
    <3>3. ~StaleAt(u, n - 1)' => Near(c, t)'
      BY <1>0, <2>10, <3>2, NearGrows
    <3>4. row'[u].transport = c /\ history'[u][n].transport = t
      BY <2>6, <2>7, <3>1
    <3>5. QED
      BY <2>6, <2>7, <3>3, <3>4 DEF RowLeads
  <2>12. ASSUME NEW w \in Worker
         PROVE  CopyLeads(w)'
    <3>1. CASE job[w].pc = "read" => job[w].uuid # u
      <4>1. job[w].pc = "read" => job[w].uuid \in Letter \ {u}
        BY <3>1, Types DEF LifeInv, JobType
      <4>2. QED
        BY <1>0, <2>2, <2>8, <4>1, JobsRoute
    <3>2. CASE job[w].pc = "read" /\ job[w].uuid = u
      <4>1. job[w].tries = n => job[w].transport = row[u].transport
        BY <2>1, <2>3, <3>2 DEF RouteInv, CopyLeads
      <4>2. StaleAt(u, n)'
        BY <2>3, <2>6 DEF StaleAt
      <4>3. QED
        BY <2>2, <2>6, <2>7, <3>2, <4>1, <4>2 DEF CopyLeads
    <3>3. QED
      BY <3>1, <3>2
  <2>13. QED
    BY <1>0, <2>8, <2>9, <2>11, <2>12, RouteStays DEF RouteInv
<1>11. QED
  BY <1>1, <1>2, <1>3, <1>4, <1>5, <1>6, <1>8, <1>9, <1>10
     DEF Next, vars, Verify, AddOther

LEMMA RouteInit == Init => RouteInv
<1> SUFFICES ASSUME Init
             PROVE  RouteInv
  OBVIOUS
<1>1. \A u \in Letter : RowLeads(u)
  BY DEF Init, RowLeads, NoRow
<1>2. \A u \in Letter : VetoAt(u)
  <2>1. \A u \in Letter : Len(history[u]) = 0
    BY DEF Init
  <2>2. QED
    BY <2>1 DEF VetoAt, Vetoed, Attempts
<1>3. \A w \in Worker : CopyLeads(w)
  BY DEF Init, CopyLeads, IdleJob
<1>4. QED
  BY <1>1, <1>2, <1>3 DEF RouteInv

\* A vetoed failure is followed by an attempt with the same transport, if not
\* two claims in a row went stale and none of the two transports is found broken:
\* the theorem for VetoHolds.
THEOREM VetoIsKept == Spec => []VetoHolds
<1>1. LifeInv /\ [Next]_vars => LifeInv'
  BY LifeStep
<1>2. LifeInv /\ RouteInv /\ [Next]_vars => RouteInv'
  BY RouteStep
<1>3. RouteInv => VetoHolds
  BY DEF RouteInv, VetoAt, VetoHolds
<1>4. QED
  BY LifeInit, RouteInit, <1>1, <1>2, <1>3, PTL DEF Spec

-----------------------------------------------------------------------------
(* Around the ring.                                                        *)

\* The steps from `a` forward to `t`, none to `a` itself.
Dist(n, a, t) == IF t >= a THEN t - a ELSE t + n - a

\* Of `n` transports, those before `p` on the way from `a` are tried or broken,
\* and the tried ones do not lie behind `p`.
Covers(n, a, p, tried, broken) ==
    /\ \A x \in 0 .. n - 1 : Dist(n, a, x) < Dist(n, a, p) => x \in tried \cup broken
    /\ \A x \in tried : Dist(n, a, x) <= Dist(n, a, p)

\* Transport `q` is a new one further on, or the way has gone around.
GoesOn(n, a, q, tried, broken) ==
    /\ q \in 0 .. n - 1
    /\ \/ 0 .. n - 1 \subseteq tried \cup broken
       \/ Covers(n, a, q, tried, broken) /\ q \notin tried

\* The next healthy transport is.
LEMMA MovesOn ==
    ASSUME NEW n \in Nat \ {0}, NEW a \in 0 .. n - 1, NEW p \in 0 .. n - 1,
           NEW tried \in SUBSET (0 .. n - 1), NEW broken, NEW bad \in SUBSET broken,
           Covers(n, a, p, tried, broken), p \in tried \/ p \in broken
    PROVE  GoesOn(n, a, NextHealthy(n, bad, p), tried, broken)
<1> SUFFICES ASSUME NEW q, q = NextHealthy(n, bad, p)
             PROVE  GoesOn(n, a, q, tried, broken)
  OBVIOUS
<1>1. /\ q \in 0 .. n - 1
      /\ \A x \in 0 .. n - 1 : Steps(n, p, x) < Steps(n, p, q) => x \in bad
  BY NextHealthyFits
<1>2. CASE Dist(n, a, q) > Dist(n, a, p)
  <2>1. ASSUME NEW x \in 0 .. n - 1, Dist(n, a, x) < Dist(n, a, q)
        PROVE  x \in tried \cup broken
    <3>1. CASE Dist(n, a, x) < Dist(n, a, p)
      BY <3>1 DEF Covers
    <3>2. CASE x = p
      BY <3>2
    <3>3. CASE Dist(n, a, x) > Dist(n, a, p)
      <4>1. Steps(n, p, x) < Steps(n, p, q)
        BY <1>1, <1>2, <2>1, <3>3 DEF Steps, Dist
      <4>2. QED
        BY <1>1, <4>1
    <3>4. Dist(n, a, x) = Dist(n, a, p) => x = p
      BY DEF Dist
    <3>5. Dist(n, a, x) \in Int /\ Dist(n, a, p) \in Int
      BY DEF Dist
    <3>6. QED
      BY <3>1, <3>2, <3>3, <3>4, <3>5
  <2>2. ASSUME NEW x \in tried
        PROVE  Dist(n, a, x) < Dist(n, a, q)
    <3>1. Dist(n, a, x) <= Dist(n, a, p)
      BY DEF Covers
    <3>2. Dist(n, a, x) \in Int /\ Dist(n, a, p) \in Int /\ Dist(n, a, q) \in Int
      BY <1>1 DEF Dist
    <3>3. QED
      BY <1>2, <3>1, <3>2
  <2>3. Dist(n, a, q) \in Int /\ \A x \in tried : Dist(n, a, x) \in Int
    BY <1>1 DEF Dist
  <2>4. ASSUME NEW x \in tried
        PROVE  x # q /\ Dist(n, a, x) <= Dist(n, a, q)
    <3>1. Dist(n, a, x) < Dist(n, a, q) /\ Dist(n, a, x) \in Int
      BY <2>2, <2>3
    <3>2. QED
      BY <2>3, <3>1
  <2>5. QED
    BY <1>1, <2>1, <2>4 DEF Covers, GoesOn
<1>3. CASE ~(Dist(n, a, q) > Dist(n, a, p))
  <2>1. ASSUME NEW x \in 0 .. n - 1
        PROVE  x \in tried \cup broken
    <3>1. CASE Dist(n, a, x) < Dist(n, a, p)
      BY <3>1 DEF Covers
    <3>2. CASE x = p
      BY <3>2
    <3>3. CASE Dist(n, a, x) > Dist(n, a, p)
      <4>1. Steps(n, p, x) < Steps(n, p, q)
        BY <1>1, <1>3, <3>3 DEF Steps, Dist
      <4>2. QED
        BY <1>1, <4>1
    <3>4. Dist(n, a, x) = Dist(n, a, p) => x = p
      BY DEF Dist
    <3>5. Dist(n, a, x) \in Int /\ Dist(n, a, p) \in Int
      BY DEF Dist
    <3>6. QED
      BY <3>1, <3>2, <3>3, <3>4, <3>5
  <2>2. QED
    BY <1>1, <2>1 DEF GoesOn
<1>4. QED
  BY <1>2, <1>3

LEMMA DivStep ==
    ASSUME NEW f \in Nat \ {0}, NEW k \in Nat \ {0}
    PROVE  /\ k \div f \in Nat /\ (k - 1) \div f \in Nat
           /\ k \div f <= (k - 1) \div f + 1
           /\ k % f # 0 => k \div f = (k - 1) \div f
OBVIOUS

\* A row that rotates when it is time to goes on to `r`, and the attempt is made
\* with `t`, which may be further on.
Rotates(n, f, m, last, r, broken) ==
    IF n > 1 /\ m % f = 0 THEN \E bad \in SUBSET broken : r = NextHealthy(n, bad, last)
                          ELSE r = last

Adapts(n, r, t, broken) ==
    \/ t = r
    \/ r \in broken /\ \E bad \in SUBSET broken : t = NextHealthy(n, bad, r)

LEMMA SweepsOn ==
    ASSUME NEW n \in Nat \ {0}, NEW f \in Nat \ {0}, NEW m \in Nat \ {0},
           NEW a \in 0 .. n - 1, NEW tried \in SUBSET (0 .. n - 1), NEW last \in tried,
           NEW broken, NEW r, NEW t,
           Covers(n, a, last, tried, broken),
           Cardinality(tried) >= 1 + (m - 1) \div f,
           Rotates(n, f, m, last, r, broken), Adapts(n, r, t, broken)
    PROVE  \/ 0 .. n - 1 \subseteq tried \cup broken
           \/ /\ Covers(n, a, t, tried \cup {t}, broken)
              /\ Cardinality(tried \cup {t}) >= 1 + m \div f
<1>0. IsFiniteSet(tried) /\ Cardinality(tried) \in Nat
  <2>1. IsFiniteSet(0 .. n - 1)
    BY FS_Interval
  <2>2. QED
    BY <2>1, FS_Subset, FS_CardinalityType
<1>1. ASSUME t \in 0 .. n - 1, Covers(n, a, t, tried, broken), t \notin tried
      PROVE  /\ Covers(n, a, t, tried \cup {t}, broken)
             /\ Cardinality(tried \cup {t}) >= 1 + m \div f
  <2>1. Cardinality(tried \cup {t}) = Cardinality(tried) + 1
    BY <1>0, <1>1, FS_AddElement
  <2>2. Covers(n, a, t, tried \cup {t}, broken)
    BY <1>1 DEF Covers, Dist
  <2>3. QED
    BY <1>0, <2>1, <2>2, DivStep
<1>2. CASE n > 1 /\ m % f = 0
  <2>1. PICK bad \in SUBSET broken : r = NextHealthy(n, bad, last)
    BY <1>2 DEF Rotates
  <2>2. GoesOn(n, a, r, tried, broken)
    BY <2>1, MovesOn
  <2>3. CASE t = r
    BY <1>1, <2>2, <2>3 DEF GoesOn
  <2>4. CASE r \in broken /\ \E other \in SUBSET broken : t = NextHealthy(n, other, r)
    <3>1. PICK other \in SUBSET broken : t = NextHealthy(n, other, r)
      BY <2>4
    <3>2. CASE Covers(n, a, r, tried, broken) /\ r \in 0 .. n - 1
      <4>1. GoesOn(n, a, NextHealthy(n, other, r), tried, broken)
        BY <2>4, <3>2, MovesOn
      <4>2. QED
        BY <1>1, <3>1, <4>1 DEF GoesOn
    <3>3. QED
      BY <2>2, <3>2 DEF GoesOn
  <2>5. QED
    BY <2>3, <2>4 DEF Adapts
<1>3. CASE n > 1 /\ m % f # 0
  <2>1. r = last
    BY <1>3 DEF Rotates
  <2>2. CASE t = r
    <3>1. tried \cup {t} = tried
      BY <2>1, <2>2
    <3>2. m \div f = (m - 1) \div f
      BY <1>3, DivStep
    <3>3. QED
      BY <2>1, <2>2, <3>1, <3>2
  <2>3. CASE r \in broken /\ \E other \in SUBSET broken : t = NextHealthy(n, other, r)
    <3>1. PICK other \in SUBSET broken : t = NextHealthy(n, other, r)
      BY <2>3
    <3>2. GoesOn(n, a, t, tried, broken)
      BY <2>1, <3>1, MovesOn
    <3>3. QED
      BY <1>1, <3>2 DEF GoesOn
  <2>4. QED
    BY <2>2, <2>3 DEF Adapts
<1>4. CASE n = 1
  BY <1>4
<1>5. QED
  BY <1>2, <1>3, <1>4

-----------------------------------------------------------------------------
(* The way of a letter around the ring.                                    *)

Used(h) == {h[k].transport : k \in 1 .. Len(h)}

\* The first `m` attempts failed, permitted to go on, and did not go stale.
Smooth(h, m) == \A k \in 1 .. m : h[k].end = "permitted" /\ ~h[k].stale

\* The attempts `h` went around, or from the first transport to the last they
\* left none out that is not broken, and came often enough to a new one.
Swept(h, n, f, broken) ==
    LET m == Len(h) IN
    \/ 0 .. n - 1 \subseteq Used(h) \cup broken
    \/ /\ Covers(n, h[1].transport, h[m].transport, Used(h), broken)
       /\ Cardinality(Used(h)) >= 1 + (m - 1) \div f

\* So they do as long as they are smooth, and a row `r` that is left open by them
\* goes on to the next transport when it is time to.
Sweeping(h, r, n, f, broken) ==
    LET m == Len(h) IN
    m > 0 =>
        /\ Smooth(h, m - 1) => Swept(h, n, f, broken)
        /\ Smooth(h, m) /\ r.status = "open" =>
             Rotates(n, f, m, h[m].transport, r.transport, broken)

LEMMA SweepingGrows ==
    ASSUME NEW h, NEW r, NEW n, NEW f, NEW broken, NEW more,
           Sweeping(h, r, n, f, broken), broken \subseteq more
    PROVE  Sweeping(h, r, n, f, more)
<1>1. Swept(h, n, f, broken) => Swept(h, n, f, more)
  BY DEF Swept, Covers
<1>2. \A m, t, u : Rotates(n, f, m, t, u, broken) => Rotates(n, f, m, t, u, more)
  BY DEF Rotates
<1>3. QED
  BY <1>1, <1>2 DEF Sweeping

LEMMA UsedFits ==
    ASSUME NEW n \in Nat \ {0}, AllIndexes = 0 .. n - 1, NEW h \in Seq(Entry)
    PROVE  /\ Used(h) \in SUBSET (0 .. n - 1)
           /\ \A k \in 1 .. Len(h) : h[k] \in Entry /\ h[k].transport \in Used(h)
<1>1. \A k \in 1 .. Len(h) : h[k] \in Entry
  BY ElementOfSeq
<1>2. \A e \in Entry : e.transport \in 0 .. n - 1
  BY DEF Entry
<1>3. QED
  BY <1>1, <1>2 DEF Used

\* Another attempt, made from a row that leads to it.
LEMMA SweepsNext ==
    ASSUME NEW n \in Nat \ {0}, AllIndexes = 0 .. n - 1, NEW f \in Nat \ {0}, NEW broken,
           NEW h \in Seq(Entry), NEW g \in Seq(Entry), NEW r, NEW s, NEW m \in Nat,
           m = Len(h), Len(g) = m + 1,
           \A k \in 1 .. m : g[k] = h[k],
           g[m + 1].end = "open",
           Sweeping(h, r, n, f, broken), r.status = "open",
           m > 0 /\ Smooth(h, m) => Adapts(n, r.transport, g[m + 1].transport, broken)
    PROVE  Sweeping(g, s, n, f, broken)
<1> DEFINE t == g[m + 1].transport
<1>1. ~Smooth(g, m + 1)
  BY DEF Smooth
<1>2. Used(g) = Used(h) \cup {t}
  <2>1. 1 .. m + 1 = 1 .. m \cup {m + 1}
    OBVIOUS
  <2>2. QED
    BY <2>1 DEF Used
<1>3. Smooth(g, m) => Smooth(h, m)
  BY DEF Smooth
<1>4. t \in 0 .. n - 1
  BY UsedFits
<1>5. CASE m = 0
  <2>1. Used(g) = {t}
    BY <1>2, <1>5 DEF Used
  <2>2. Covers(n, t, t, {t}, broken)
    BY <1>4 DEF Covers, Dist
  <2>3. Cardinality({t}) >= 1 + 0 \div f
    <3>1. Cardinality({t}) = 1
      BY FS_Singleton
    <3>2. 0 \div f = 0
      OBVIOUS
    <3>3. QED
      BY <3>1, <3>2
  <2>4. Swept(g, n, f, broken)
    BY <1>5, <2>1, <2>2, <2>3 DEF Swept
  <2>5. QED
    BY <1>1, <2>4 DEF Sweeping
<1>6. CASE m > 0 /\ Smooth(h, m)
  <2>1. /\ Swept(h, n, f, broken)
        /\ Rotates(n, f, m, h[m].transport, r.transport, broken)
    BY <1>6 DEF Sweeping, Smooth
  <2>2. m \in Nat \ {0} /\ 1 \in 1 .. m /\ m \in 1 .. m
    BY <1>6
  <2>3. /\ Used(h) \in SUBSET (0 .. n - 1)
        /\ h[1].transport \in 0 .. n - 1 /\ h[m].transport \in Used(h)
        /\ g[1] = h[1]
    BY <2>2, UsedFits
  <2>4. CASE 0 .. n - 1 \subseteq Used(h) \cup broken
    BY <1>1, <1>2, <2>4 DEF Sweeping, Swept
  <2>5. CASE /\ Covers(n, h[1].transport, h[m].transport, Used(h), broken)
             /\ Cardinality(Used(h)) >= 1 + (m - 1) \div f
    <3>1. \/ 0 .. n - 1 \subseteq Used(h) \cup broken
          \/ /\ Covers(n, h[1].transport, t, Used(h) \cup {t}, broken)
             /\ Cardinality(Used(h) \cup {t}) >= 1 + m \div f
      BY <1>6, <2>1, <2>2, <2>3, <2>5, SweepsOn
    <3>2. Swept(g, n, f, broken)
      BY <1>2, <2>3, <3>1 DEF Swept
    <3>3. QED
      BY <1>1, <3>2 DEF Sweeping
  <2>6. QED
    BY <2>1, <2>4, <2>5 DEF Swept
<1>7. CASE ~Smooth(h, m)
  BY <1>1, <1>3, <1>7 DEF Sweeping
<1>8. QED
  BY <1>5, <1>6, <1>7

\* The last of the attempts ended or went stale.
LastMarked(h, g, m) ==
    /\ m = Len(h) /\ m = Len(g)
    /\ \A k \in 1 .. m - 1 : g[k] = h[k]
    /\ \A k \in 1 .. m : g[k].transport = h[k].transport

LEMMA SweepsEnd ==
    ASSUME NEW n, NEW f, NEW broken,
           NEW h, NEW g, NEW r, NEW s, NEW m \in Nat, LastMarked(h, g, m),
           Sweeping(h, r, n, f, broken),
           Smooth(g, m) /\ s.status = "open" =>
             Rotates(n, f, m, h[m].transport, s.transport, broken)
    PROVE  Sweeping(g, s, n, f, broken)
<1>0. /\ m = Len(h) /\ m = Len(g)
      /\ \A k \in 1 .. m - 1 : g[k] = h[k]
      /\ \A k \in 1 .. m : g[k].transport = h[k].transport
  BY DEF LastMarked
<1>1. Used(g) = Used(h)
  BY <1>0 DEF Used
<1>2. Smooth(g, m - 1) => Smooth(h, m - 1)
  BY <1>0 DEF Smooth
<1>3. m > 0 => g[1].transport = h[1].transport /\ g[m].transport = h[m].transport
  BY <1>0
<1>4. m > 0 /\ Swept(h, n, f, broken) => Swept(g, n, f, broken)
  BY <1>0, <1>1, <1>3 DEF Swept
<1>5. QED
  BY <1>0, <1>2, <1>3, <1>4 DEF Sweeping

SweepInv ==
    policy.strategy = "backup" =>
        \A u \in Letter, i \in Instance : Transports[i] > 0 =>
            Sweeping(history[u], row[u], Transports[i], policy.failsToNext, condemned)

\* A claim makes the attempt the row leads to, for it is claimed from a copy that
\* agrees with the row if the last attempt did not go stale.
LEMMA ClaimSweeps ==
    ASSUME LifeInv, RouteInv, policy.strategy = "backup",
           NEW w \in Worker, NEW u \in Letter, NEW m \in Nat, NEW t \in AllIndexes,
           Claims(w, u, m, t), job[w] \in JobType,
           NEW n \in Nat \ {0}, AllIndexes = 0 .. n - 1, Transports[Conn[w]] = n,
           NEW f \in Nat \ {0}, history' \in [Letter -> Seq(Entry)],
           Sweeping(history[u], row[u], n, f, condemned)
    PROVE  Sweeping(history'[u], row'[u], n, f, condemned)
<1>1. /\ history[u] \in Seq(Entry) /\ history'[u] \in Seq(Entry)
      /\ Conn[w] \in Instance /\ view[Conn[w]].unhealthy \subseteq condemned
  BY Types, WorkersHave DEF LifeInv, Known
<1>2. /\ m = Len(history[u]) /\ Len(history'[u]) = m + 1
      /\ \A k \in 1 .. m : history'[u][k] = history[u][k]
      /\ history'[u][m + 1].end = "open" /\ history'[u][m + 1].transport = t
      /\ row[u].status = "open" /\ row[u].tries = m
      /\ job[w].pc = "read" /\ job[w].uuid = u /\ job[w].tries = m
      /\ t = ToSend(Conn[w], job[w].transport)
  BY DEF Claims, Free
<1>3. ASSUME m > 0, Smooth(history[u], m)
      PROVE  Adapts(n, row[u].transport, t, condemned)
  <2>1. ~StaleAt(u, m)
    <3>1. m \in 1 .. m
      BY <1>3
    <3>2. QED
      BY <1>3, <3>1 DEF Smooth, StaleAt
  <2>2. job[w].transport = row[u].transport
    BY <1>2, <2>1 DEF RouteInv, CopyLeads
  <2>3. CASE row[u].transport \in view[Conn[w]].unhealthy
    BY <1>1, <1>2, <2>2, <2>3 DEF Adapts, ToSend, After
  <2>4. CASE row[u].transport \notin view[Conn[w]].unhealthy
    BY <1>2, <2>2, <2>4 DEF Adapts, ToSend
  <2>5. QED
    BY <2>3, <2>4
<1>4. PICK h, g, r, s, broken :
         h = history[u] /\ g = history'[u] /\ r = row[u] /\ s = row'[u] /\ broken = condemned
  OBVIOUS
<1>5. /\ h \in Seq(Entry) /\ g \in Seq(Entry)
      /\ m = Len(h) /\ Len(g) = m + 1 /\ \A k \in 1 .. m : g[k] = h[k]
      /\ g[m + 1].end = "open" /\ r.status = "open"
      /\ m > 0 /\ Smooth(h, m) => Adapts(n, r.transport, g[m + 1].transport, broken)
      /\ Sweeping(h, r, n, f, broken)
  BY <1>1, <1>2, <1>3, <1>4
<1>6. Sweeping(g, s, n, f, broken)
  BY <1>5, SweepsNext
<1>7. QED
  BY <1>4, <1>6

\* A failure that permits it rotates the row when it is time to.
LEMMA FailureSweeps ==
    ASSUME LifeInv, policy.strategy = "backup",
           NEW w \in Worker, NEW u \in Letter, NEW m \in Nat, NEW e \in Ends,
           NEW after \in RowType, Finishes(w, u, m, e, after),
           NEW n \in Nat \ {0}, Transports[Conn[w]] = n,
           e = "permitted" /\ after.status = "open" =>
             after.transport = ToRetry(Conn[w], job[w].transport, job[w].tries, TRUE),
           Sweeping(history[u], row[u], n, policy.failsToNext, condemned)
    PROVE  Sweeping(history'[u], row'[u], n, policy.failsToNext, condemned)
<1>1. Conn[w] \in Instance /\ view[Conn[w]].unhealthy \subseteq condemned
  BY WorkersHave DEF LifeInv, Known
<1>2. /\ m > 0 /\ m = Len(history[u]) /\ m = Len(history'[u])
      /\ m = job[w].tries /\ history[u][m].transport = job[w].transport
      /\ \A k \in 1 .. m - 1 : history'[u][k] = history[u][k]
  BY DEF Finishes
<1>3. history'[u][m].transport = history[u][m].transport /\ history'[u][m].end = e
  BY DEF Finishes, Entry
<1>4. \A k \in 1 .. m : history'[u][k].transport = history[u][k].transport
  BY <1>2, <1>3
<1>5. row'[u].transport = after.transport /\ row'[u].status = after.status
  BY DEF Finishes, RowType
<1>6. ASSUME Smooth(history'[u], m), row'[u].status = "open"
      PROVE  Rotates(n, policy.failsToNext, m, history[u][m].transport,
                     row'[u].transport, condemned)
  <2>1. m \in 1 .. m
    BY <1>2
  <2>2. e = "permitted"
    BY <1>3, <1>6, <2>1 DEF Smooth
  <2>3. row'[u].transport = ToRetry(Conn[w], history[u][m].transport, m, TRUE)
    BY <1>2, <1>5, <1>6, <2>2
  <2>4. QED
    BY <1>1, <2>3 DEF Rotates, ToRetry, After
<1>7. PICK h, g, r, s, f, broken :
         /\ h = history[u] /\ g = history'[u] /\ r = row[u] /\ s = row'[u]
         /\ f = policy.failsToNext /\ broken = condemned
  OBVIOUS
<1>8. /\ LastMarked(h, g, m)
      /\ Smooth(g, m) /\ s.status = "open" =>
           Rotates(n, f, m, h[m].transport, s.transport, broken)
      /\ Sweeping(h, r, n, f, broken)
  BY <1>2, <1>4, <1>6, <1>7 DEF LastMarked
<1>9. Sweeping(g, s, n, f, broken)
  BY <1>8, SweepsEnd
<1>10. QED
  BY <1>7, <1>9

LEMMA SweepStep ==
    ASSUME LifeInv, RouteInv, SweepInv, [Next]_vars
    PROVE  SweepInv'
<1>1. policy' = policy /\ condemned \subseteq condemned'
  BY KnownStep DEF Next, vars, Verify, Restart, AddOther, AddToQueue, Scan, Claim, ClaimRefused,
     Sent, PartlySent, Failed, Finish, GoStale
<1> SUFFICES ASSUME policy.strategy = "backup", NEW u \in Letter, NEW i \in Instance,
                    Transports[i] > 0
             PROVE  Sweeping(history'[u], row'[u], Transports[i], policy.failsToNext, condemned')
  BY <1>1 DEF SweepInv
<1>2. PICK n \in Nat \ {0}, f \in Nat \ {0} :
         n = Transports[i] /\ f = policy.failsToNext /\ AllIndexes = 0 .. n - 1
  BY OneRing, Types DEF LifeInv
<1>3. \A k \in Instance : Transports[k] > 0 => Transports[k] = n
  BY <1>2, TransportsAssumption
<1>4. Sweeping(history[u], row[u], n, f, condemned)
  BY <1>2 DEF SweepInv
<1>5. CASE LetterStays(u)
  BY <1>1, <1>2, <1>4, <1>5, SweepingGrows DEF LetterStays
<1>6. /\ row \in [Letter -> RowType] /\ history \in [Letter -> Seq(Entry)]
      /\ history' \in [Letter -> Seq(Entry)]
  <2>1. LifeInv'
    BY LifeStep
  <2>2. history' \in [Letter -> Seq(Entry)]
    BY <2>1 DEF LifeInv, TypeOK, Entry
  <2>3. QED
    BY <2>2, Types DEF LifeInv, TypeOK
<1>7. ASSUME NEW k \in Instance, NEW v \in Letter, AddToQueue(k, v), ~LetterStays(u)
      PROVE  Sweeping(history'[u], row'[u], n, f, condemned')
  <2>1. history' = history /\ row[v].status = "none" /\ \A x \in Letter \ {v} : row'[x] = row[x]
    BY <1>6, <1>7 DEF AddToQueue
  <2>2. v = u
    BY <1>7, <2>1 DEF LetterStays
  <2>3. Len(history'[u]) = 0
    BY <2>1, <2>2 DEF LifeInv, Counted
  <2>4. QED
    BY <2>3 DEF Sweeping
<1>8. ASSUME NEW w \in Worker, Claim(w), ~LetterStays(u)
      PROVE  Sweeping(history'[u], row'[u], n, f, condemned')
  <2>1. condemned' = condemned /\ job[w] \in JobType
    BY <1>8, ClaimIs
  <2>2. PICK v \in Letter, m \in Nat, t \in AllIndexes : Claims(w, v, m, t)
    BY <1>8, ClaimIs
  <2>3. v = u
    BY <1>8, <2>2 DEF Claims
  <2>4. Transports[Conn[w]] = n
    BY <1>3, WorkersHave
  <2>5. QED
    BY <1>2, <1>4, <1>6, <2>1, <2>2, <2>3, <2>4, ClaimSweeps
<1>9. ASSUME NEW w \in Worker, NEW e \in Ends, NEW may \in BOOLEAN, NEW after,
             job[w].pc = "sending", Finish(w, e, after), ~LetterStays(u),
             LET r == row[job[w].uuid] IN
               \/ after = [r EXCEPT !.status = "sent"]
               \/ after = IF Exhausted(w) THEN GivenUp(r) ELSE r
               \/ after = IF Exhausted(w) THEN GivenUp(r)
                          ELSE [r EXCEPT !.transport =
                                  ToRetry(Conn[w], job[w].transport, job[w].tries, may)],
             e = "permitted" /\ after.status = "open" =>
               after.transport = ToRetry(Conn[w], job[w].transport, job[w].tries, TRUE)
      PROVE  Sweeping(history'[u], row'[u], n, f, condemned')
  <2>1. after \in RowType /\ condemned' = condemned
    BY <1>9, FinishedRow DEF Finish
  <2>2. row[job[w].uuid].isSending /\ row[job[w].uuid].tries = job[w].tries
    BY <1>9 DEF Finish, LetterStays
  <2>3. PICK v \in Letter, m \in Nat : Finishes(w, v, m, e, after)
    BY <1>9, <2>2, FinishIs
  <2>4. v = u
    BY <1>9, <2>3 DEF Finishes
  <2>5. Transports[Conn[w]] = n
    BY <1>3, WorkersHave
  <2>6. QED
    BY <1>2, <1>4, <1>9, <2>1, <2>3, <2>4, <2>5, FailureSweeps
<1>10. ASSUME NEW w \in Worker, Sent(w) \/ PartlySent(w), ~LetterStays(u)
       PROVE  Sweeping(history'[u], row'[u], n, f, condemned')
  <2>1. "sent" \in Ends \ {"permitted"} /\ "partial" \in Ends \ {"permitted"}
    BY DEF Ends
  <2>2. QED
    BY <1>9, <1>10, <2>1 DEF Sent, PartlySent
<1>11. ASSUME NEW w \in Worker, NEW hook \in Hooks, NEW tagged \in BOOLEAN,
              Failed(w, hook, tagged), ~LetterStays(u)
       PROVE  Sweeping(history'[u], row'[u], n, f, condemned')
  <2> DEFINE may == MayFailOver(hook, tagged)
             e == IF hook \in {"false", "throws"} \/ (hook = "none" /\ tagged)
                  THEN "vetoed" ELSE "permitted"
             r == row[job[w].uuid]
             t == ToRetry(Conn[w], job[w].transport, job[w].tries, may)
             after == IF Exhausted(w) THEN GivenUp(r) ELSE [r EXCEPT !.transport = t]
  <2>1. e \in Ends /\ may \in BOOLEAN
    BY DEF Ends, MayFailOver
  <2>2. e = "permitted" => may = TRUE
    BY DEF MayFailOver, Hooks
  <2>3. job[w].pc = "sending" /\ Finish(w, e, after)
    BY <1>11 DEF Failed
  <2>4. e = "permitted" /\ after.status = "open" =>
          after.transport = ToRetry(Conn[w], job[w].transport, job[w].tries, TRUE)
    <3>1. r \in RowType
      BY <2>3, FailedRow
    <3>2. Exhausted(w) => after.status = "failed"
      BY <3>1 DEF GivenUp, RowType
    <3>3. ~Exhausted(w) => after.transport = t
      BY <3>1 DEF RowType
    <3>4. QED
      BY <2>2, <3>2, <3>3
  <2>5. \/ after = [r EXCEPT !.status = "sent"]
        \/ after = IF Exhausted(w) THEN GivenUp(r) ELSE r
        \/ after = IF Exhausted(w) THEN GivenUp(r)
                   ELSE [r EXCEPT !.transport =
                           ToRetry(Conn[w], job[w].transport, job[w].tries, may)]
    OBVIOUS
  <2> HIDE DEF may, e, after
  <2>6. QED
    BY <1>9, <1>11, <2>1, <2>3, <2>4, <2>5
<1>12. ASSUME NEW v \in Letter, GoStale(v), ~LetterStays(u)
       PROVE  Sweeping(history'[u], row'[u], n, f, condemned')
  <2>1. /\ condemned' = condemned /\ row[v].isSending
        /\ row' = [row EXCEPT ![v] = [row[v] EXCEPT !.stale = TRUE]]
        /\ history' = [history EXCEPT ![v] = [history[v] EXCEPT ![row[v].tries].stale = TRUE]]
    BY <1>12 DEF GoStale
  <2>2. v = u
    BY <1>6, <1>12, <2>1 DEF LetterStays
  <2>3. PICK h \in Seq(Entry), g \in Seq(Entry), m \in Nat :
           h = history[u] /\ g = history'[u] /\ m = row[u].tries
    BY <1>6 DEF RowType
  <2>4. m > 0 /\ m = Len(h) /\ h \in Seq(Entry) /\ m \in 1 .. m
    BY <1>6, <2>1, <2>2, <2>3 DEF LifeInv, Counted
  <2>5. g = [h EXCEPT ![m].stale = TRUE] /\ h \in [1 .. m -> Entry]
    BY <1>6, <2>1, <2>2, <2>3, <2>4, LenProperties
  <2>6. Len(g) = m
    <3>1. "open" \in Ends
      BY DEF Ends
    <3>2. QED
      BY <2>4, <2>5, <3>1, EntryType
  <2>7. g[m].transport = h[m].transport /\ g[m].stale
    <3>1. h[m] \in Entry
      BY <2>4, <2>5
    <3>2. g[m] = [h[m] EXCEPT !.stale = TRUE]
      BY <2>4, <2>5
    <3>3. QED
      BY <3>1, <3>2 DEF Entry
  <2>8. LastMarked(h, g, m)
    BY <2>4, <2>5, <2>6, <2>7 DEF LastMarked
  <2>9. ~Smooth(g, m)
    BY <2>4, <2>7 DEF Smooth
  <2>10. QED
    BY <1>4, <2>1, <2>3, <2>8, <2>9, SweepsEnd
<1>13. CASE ~LetterStays(u)
  <2>1. CASE \/ UNCHANGED vars
             \/ \E k \in Instance : Restart(k) \/ AddOther(k)
             \/ \E k \in Instance : \E bad \in Broken : Verify(k, bad)
             \/ \E w \in Worker, x \in Letter : Scan(w, x)
             \/ \E w \in Worker : ClaimRefused(w)
    BY <1>13, <2>1 DEF vars, Restart, AddOther, Verify, Scan, ClaimRefused, LetterStays
  <2>2. QED
    BY <1>2, <1>7, <1>8, <1>10, <1>11, <1>12, <1>13, <2>1 DEF Next
<1>14. QED
  BY <1>2, <1>5, <1>13

LEMMA SweepInit == Init => SweepInv
<1> SUFFICES ASSUME Init
             PROVE  SweepInv
  OBVIOUS
<1>1. \A u \in Letter : Len(history[u]) = 0
  BY DEF Init
<1>2. QED
  BY <1>1 DEF SweepInv, Sweeping

LEMMA GivenUpSwept ==
    ASSUME LifeInv, SweepInv
    PROVE  FailoverSweeps
<1> SUFFICES ASSUME NEW u \in Letter, policy.strategy = "backup", row[u].status = "failed",
                    \A n \in Attempts(u) : history[u][n].end = "permitted" /\ ~history[u][n].stale
             PROVE  \/ AllIndexes \ condemned \subseteq Tried(u)
                    \/ Cardinality(Tried(u)) >=
                         1 + (policy.maxTries - 1) \div policy.failsToNext
  BY DEF FailoverSweeps
<1>1. PICK h \in Seq(Entry), m \in Nat \ {0} : h = history[u] /\ m = policy.maxTries
  BY Types DEF LifeInv
<1>2. m = Len(h)
  BY <1>1 DEF LifeInv, Counted
<1>3. Tried(u) = Used(h)
  BY <1>1 DEF Tried, Attempts, Used
<1>4. Smooth(h, m - 1)
  BY <1>1, <1>2 DEF Smooth, Attempts
<1>5. CASE \E i \in Instance : Transports[i] > 0
  <2>1. PICK i \in Instance : Transports[i] > 0
    BY <1>5
  <2>2. Sweeping(h, row[u], Transports[i], policy.failsToNext, condemned)
    BY <1>1, <2>1 DEF SweepInv
  <2>3. Swept(h, Transports[i], policy.failsToNext, condemned)
    BY <1>2, <1>4, <2>2 DEF Sweeping
  <2>4. AllIndexes = 0 .. Transports[i] - 1
    BY <2>1, OneRing
  <2>5. QED
    BY <1>1, <1>2, <1>3, <2>3, <2>4 DEF Swept
<1>6. CASE \A i \in Instance : ~(Transports[i] > 0)
  <2>1. \A i \in Instance : Index(i) = {}
    <3>1. \A i \in Instance : Transports[i] = 0
      BY <1>6, TransportsAssumption
    <3>2. QED
      BY <3>1 DEF Index
  <2>2. AllIndexes = {0}
    BY <2>1 DEF AllIndexes
  <2>3. 1 \in 1 .. m
    BY <1>2
  <2>4. h[1] \in Entry
    BY <1>1, <1>2, <2>3, ElementOfSeq
  <2>5. h[1].transport = 0
    BY <2>2, <2>4 DEF Entry
  <2>6. 0 \in Used(h)
    BY <1>2, <2>3, <2>5 DEF Used
  <2>7. QED
    BY <1>3, <2>2, <2>6
<1>7. QED
  BY <1>5, <1>6

\* Under the backup strategy no letter is given up that did not go around as far
\* as its tries allow, if its failures permitted it: the theorem for FailoverSweeps.
THEOREM FailoverGoesAround == Spec => []FailoverSweeps
<1>1. LifeInv /\ [Next]_vars => LifeInv'
  BY LifeStep
<1>2. LifeInv /\ RouteInv /\ [Next]_vars => RouteInv'
  BY RouteStep
<1>3. LifeInv /\ RouteInv /\ SweepInv /\ [Next]_vars => SweepInv'
  BY SweepStep
<1>4. LifeInv /\ SweepInv => FailoverSweeps
  BY GivenUpSwept
<1>5. QED
  BY LifeInit, RouteInit, SweepInit, <1>1, <1>2, <1>3, <1>4, PTL DEF Spec
=============================================================================
