------------------------ MODULE PostgresSetupProofs ------------------------
(***************************************************************************)
(* Proof about PostgresSetup: the setups of two processes exclude each      *)
(* other, for every finite set of instances, all processes and sessions,    *)
(* any mix of clients and pools and any number of faults.                   *)
(***************************************************************************)
EXTENDS PostgresSetup, FiniteSetTheorems, TLAPS

\* The setups for which a session holds the lock.
Owners(s) == {q \in Setup : setup[q].lock = {s}}

JobType == [pc : {"new", "lock", "create", "unlock", "ready", "failed"},
            left : Int, ok : BOOLEAN, lock : SUBSET Session]

Uses == Setup \cup {"nothing", "other", "closed"}

UseType == [runs : Uses, holds : Nat]

Types ==
    /\ setup \in [Setup -> JobType]
    /\ session \in [Session -> UseType]
    /\ torn \in SUBSET Process

\* The lock of the server has one holder.
OneHolder ==
    \A s, t \in Session : session[s].holds > 0 /\ session[t].holds > 0 => s = t

\* The calls of a process run on its own sessions.
OwnSessions ==
    \A s \in Session, q \in Setup : session[s].runs = q => s \in Sessions(q)

\* A session holds the lock for a setup between the lock and the unlock ...
OwnLock ==
    \A q \in Setup :
        \/ setup[q].lock = {}
        \/ /\ setup[q].pc \in {"create", "unlock"}
           /\ \E s \in Sessions(q) : setup[q].lock = {s}

\* ... in every process that lost no session with the lock on it ...
HasLock ==
    \A q \in Setup :
        setup[q].pc \in {"create", "unlock"} => setup[q].lock # {} \/ Home[q] \in torn

\* ... where it holds it at least once for each of them.
HeldForAll ==
    \A p \in Process \ torn : \A s \in Client[p] :
        session[s].holds >= Cardinality(Owners(s))

LockInv == Types /\ OneHolder /\ OwnSessions /\ OwnLock /\ HasLock /\ HeldForAll

-----------------------------------------------------------------------------
\* A setup's sessions, and whose they are.
LEMMA Constants ==
    /\ \A p \in Process : Client[p] \in SUBSET Session
    /\ \A q \in Setup : Home[q] \in Process /\ Sessions(q) \in SUBSET Session
    /\ \A p, r \in Process : p # r => Client[p] \cap Client[r] = {}
    /\ "nothing" \notin Setup /\ "other" \notin Setup /\ "closed" \notin Setup
    /\ IsFiniteSet(Setup)
BY SetupAssumption, HomeAssumption, ClientAssumption DEF Sessions

LEMMA OwnersCounted ==
    \A s : IsFiniteSet(Owners(s)) /\ Cardinality(Owners(s)) \in Nat
<1>1. \A s : IsFiniteSet(Owners(s))
  BY Constants, FS_Subset DEF Owners
<1>2. QED
  BY <1>1, FS_CardinalityType

\* A session keeps the lock often enough when it loses no hold or all owners.
LEMMA HeldStill ==
    ASSUME LockInv, Types', torn \subseteq torn',
           \A s \in Session :
              \/ Owners(s)' = {}
              \/ /\ Owners(s)' \subseteq Owners(s)
                 /\ session'[s].holds >= session[s].holds
    PROVE  HeldForAll'
<1> SUFFICES ASSUME NEW p \in Process, p \notin torn', NEW s \in Client[p]
             PROVE  session'[s].holds >= Cardinality(Owners(s)')
  BY DEF HeldForAll
<1>1. s \in Session /\ p \notin torn
  BY Constants
<1>2. session[s].holds >= Cardinality(Owners(s))
  BY <1>1 DEF LockInv, HeldForAll
<1>3. session[s].holds \in Nat /\ session'[s].holds \in Nat
  BY <1>1 DEF LockInv, Types, UseType
<1>4. CASE Owners(s)' = {}
  <2>1. Cardinality(Owners(s)') = 0
    BY <1>4, FS_EmptySet
  <2>2. QED
    BY <1>3, <2>1
<1>5. CASE /\ Owners(s)' \subseteq Owners(s)
           /\ session'[s].holds >= session[s].holds
  <2>1. Cardinality(Owners(s)') <= Cardinality(Owners(s))
    BY <1>5, OwnersCounted, FS_Subset
  <2>2. Cardinality(Owners(s)') \in Nat /\ Cardinality(Owners(s)) \in Nat
    BY <1>5, OwnersCounted, FS_Subset, FS_CardinalityType
  <2>3. QED
    BY <1>2, <1>3, <1>5, <2>1, <2>2
<1>6. QED
  BY <1>1, <1>4, <1>5

\* A session with an owner in an untorn process holds the lock.
LEMMA OwnerHolds ==
    ASSUME LockInv, NEW q \in Setup, NEW s \in Session,
           setup[q].lock = {s}, Home[q] \notin torn
    PROVE  session[s].holds > 0
<1>1. s \in Client[Home[q]] /\ Home[q] \in Process
  BY Constants DEF LockInv, OwnLock, Sessions
<1>2. session[s].holds >= Cardinality(Owners(s)) /\ session[s].holds \in Nat
  BY <1>1 DEF LockInv, HeldForAll, Types, UseType
<1>3. q \in Owners(s)
  BY DEF Owners
<1>4. Cardinality(Owners(s)) # 0 /\ Cardinality(Owners(s)) \in Nat
  BY <1>3, OwnersCounted, FS_EmptySet
<1>5. QED
  BY <1>2, <1>4

LEMMA InitLock == Init => LockInv
<1> SUFFICES ASSUME Init PROVE LockInv
  OBVIOUS
<1>1. Types
  BY StatementsAssumption DEF Init, NewSetup, Idle, Types, JobType, UseType, Uses
<1>2. OneHolder /\ OwnSessions /\ OwnLock /\ HasLock
  BY Constants DEF Init, NewSetup, Idle, OneHolder, OwnSessions, OwnLock, HasLock
<1>3. HeldForAll
  <2> SUFFICES ASSUME NEW p \in Process, NEW s \in Client[p]
               PROVE  session[s].holds >= Cardinality(Owners(s))
    BY DEF HeldForAll
  <2>1. session[s].holds = 0 /\ Owners(s) = {}
    BY Constants DEF Init, Idle, NewSetup, Owners
  <2>2. QED
    BY <2>1, FS_EmptySet
<1>4. QED
  BY <1>1, <1>2, <1>3 DEF LockInv

-----------------------------------------------------------------------------
\* The client gives its sessions to calls: no lock is touched.
LEMMA ClientLock ==
    ASSUME LockInv,
           \/ \E q \in Setup, s \in Session : Connect(q, s)
           \/ \E s \in Session : OtherQuery(s) \/ OtherDone(s)
    PROVE  LockInv'
<1> USE DEF LockInv
<1>1. PICK s \in Session, use \in Uses :
         /\ session' = [session EXCEPT ![s].runs = use]
         /\ \A q \in Setup : use = q => s \in Sessions(q)
         /\ setup' = setup /\ torn' = torn
  BY Constants DEF Connect, OtherQuery, OtherDone, Uses
<1>2. session'[s].runs = use /\ session'[s].holds = session[s].holds
  BY <1>1 DEF Types, UseType
<1>3. \A t \in Session \ {s} : session'[t] = session[t]
  BY <1>1 DEF Types
<1>4. Types'
  BY <1>1 DEF Types, UseType
<1>5. OneHolder'
  BY <1>2, <1>3 DEF OneHolder
<1>6. OwnSessions'
  BY <1>1, <1>2, <1>3 DEF OwnSessions, Sessions
<1>7. OwnLock' /\ HasLock'
  BY <1>1 DEF OwnLock, HasLock, Sessions
<1>8. HeldForAll'
  <2>1. \A t \in Session : Owners(t)' = Owners(t)
    BY <1>1 DEF Owners
  <2>2. \A t \in Session : session'[t].holds >= session[t].holds
    BY <1>2, <1>3 DEF Types, UseType
  <2>3. QED
    BY <1>1, <1>4, <2>1, <2>2, HeldStill
<1>9. QED
  BY <1>4, <1>5, <1>6, <1>7, <1>8

\* The setups that change no hold, and end no lock that was theirs to give back.
LEMMA QuietLock ==
    ASSUME LockInv, NEW q \in Setup, NEW job \in JobType,
           setup' = [setup EXCEPT ![q] = job], torn' = torn,
           session' \in [Session -> UseType],
           \A s \in Session : /\ session'[s].holds = session[s].holds
                              /\ session'[s].runs \in {session[s].runs, "nothing"},
           \/ job.lock = {}
           \/ job.lock = setup[q].lock /\ job.pc \in {"create", "unlock"},
           job.pc \in {"create", "unlock"} =>
               setup[q].pc \in {"create", "unlock"} /\ job.lock = setup[q].lock
    PROVE  LockInv'
<1> USE DEF LockInv
<1>1. setup'[q] = job /\ \A r \in Setup \ {q} : setup'[r] = setup[r]
  BY DEF Types
<1>2. Types'
  BY DEF Types
<1>3. OneHolder'
  BY DEF OneHolder
<1>4. OwnSessions'
  BY Constants DEF OwnSessions, Sessions
<1>5. OwnLock'
  BY <1>1 DEF OwnLock, Sessions
<1>6. HasLock'
  BY <1>1 DEF HasLock
<1>7. HeldForAll'
  <2>1. \A t \in Session : Owners(t)' \subseteq Owners(t)
    BY <1>1 DEF Owners
  <2>2. \A t \in Session : session'[t].holds >= session[t].holds
    BY DEF Types, UseType
  <2>3. QED
    BY <1>2, <2>1, <2>2, HeldStill
<1>8. QED
  BY <1>2, <1>3, <1>4, <1>5, <1>6, <1>7

\* What a rejected call makes of a setup.
LEMMA RejectedJob ==
    ASSUME NEW j \in JobType
    PROVE  /\ Rejected(j) \in JobType
           /\ \/ j.pc = "create" /\ Rejected(j).lock = j.lock /\ Rejected(j).pc = "unlock"
              \/ j.pc # "create" /\ Rejected(j).lock = {} /\ Rejected(j).pc = "failed"
BY DEF Rejected, JobType

LEMMA SetupLock ==
    ASSUME LockInv, NEW q \in Setup,
           \/ Begin(q) \/ ClientClosed(q)
           \/ \E s \in Session : Create(q, s) \/ CreateFails(q, s)
    PROVE  LockInv'
<1>1. setup[q] \in JobType /\ session \in [Session -> UseType] /\ setup \in [Setup -> JobType]
  BY DEF LockInv, Types
<1>2. CASE Begin(q)
  <2>1. setup[q].lock = {} /\ setup[q].pc = "new"
    BY <1>2 DEF LockInv, OwnLock, Begin
  <2>2. setup' = [setup EXCEPT ![q] = [setup[q] EXCEPT !.pc = "lock"]]
    BY <1>2 DEF Begin
  <2>3. [setup[q] EXCEPT !.pc = "lock"] \in JobType
    BY <1>1 DEF JobType
  <2>4. /\ [setup[q] EXCEPT !.pc = "lock"].lock = {}
        /\ [setup[q] EXCEPT !.pc = "lock"].pc = "lock"
    BY <1>1, <2>1 DEF JobType
  <2>5. session' = session /\ torn' = torn
    BY <1>2 DEF Begin
  <2>6. QED
    BY <1>1, <2>2, <2>3, <2>4, <2>5, QuietLock
<1>3. CASE ClientClosed(q)
  <2>1. /\ setup' = [setup EXCEPT ![q] = Rejected(setup[q])]
        /\ session' = session /\ torn' = torn
    BY <1>3 DEF ClientClosed
  <2>2. QED
    BY <1>1, <2>1, RejectedJob, QuietLock
<1>4. ASSUME NEW s \in Session, CreateFails(q, s)
      PROVE  LockInv'
  <2>1. /\ setup' = [setup EXCEPT ![q] = Rejected(setup[q])]
        /\ session' = [session EXCEPT ![s].runs = "nothing"] /\ torn' = torn
    BY <1>4 DEF CreateFails
  <2>2. /\ session' \in [Session -> UseType]
        /\ \A t \in Session : /\ session'[t].holds = session[t].holds
                              /\ session'[t].runs \in {session[t].runs, "nothing"}
    BY <1>1, <2>1 DEF UseType, Uses
  <2>3. QED
    BY <1>1, <2>1, <2>2, RejectedJob, QuietLock
<1>5. ASSUME NEW s \in Session, Create(q, s)
      PROVE  LockInv'
  <2> DEFINE pc == IF setup[q].left = 1 THEN "unlock" ELSE setup[q].pc
             job == [setup[q] EXCEPT !.left = @ - 1, !.pc = pc]
  <2>1. setup' = [setup EXCEPT ![q] = job]
    BY <1>1, <1>5 DEF Create
  <2>2. session' = [session EXCEPT ![s].runs = "nothing"] /\ torn' = torn
    BY <1>5 DEF Create
  <2>3. /\ session' \in [Session -> UseType]
        /\ \A t \in Session : /\ session'[t].holds = session[t].holds
                              /\ session'[t].runs \in {session[t].runs, "nothing"}
    BY <1>1, <2>2 DEF UseType, Uses
  <2>4. pc \in {"create", "unlock"} /\ setup[q].pc = "create"
    BY <1>5 DEF Create
  <2>5. job \in JobType /\ job.lock = setup[q].lock /\ job.pc = pc
    <3> HIDE DEF pc
    <3>1. setup[q].left - 1 \in Int
      BY <1>1 DEF JobType
    <3>2. job \in JobType
      BY <1>1, <2>4, <3>1 DEF JobType
    <3>3. job.lock = setup[q].lock /\ job.pc = pc
      BY <1>1 DEF JobType
    <3>4. QED
      BY <3>2, <3>3
  <2> HIDE DEF job, pc
  <2>6. QED
    BY <2>1, <2>2, <2>3, <2>4, <2>5, QuietLock
<1>6. QED
  BY <1>2, <1>3, <1>4, <1>5

\* The lock is granted: one more hold and one more owner.
LEMMA GrantLock ==
    ASSUME LockInv, NEW q \in Setup, NEW s \in Session, Lock(q, s)
    PROVE  LockInv'
<1> USE DEF LockInv
<1> DEFINE job == [setup[q] EXCEPT !.pc = "create", !.lock = {s}]
           use == [runs |-> "nothing", holds |-> session[s].holds + 1]
<1>1. /\ setup' = [setup EXCEPT ![q] = job]
      /\ session' = [session EXCEPT ![s] = use]
      /\ torn' = torn
      /\ session[s].runs = q /\ setup[q].pc = "lock"
      /\ \A t \in Session \ {s} : session[t].holds = 0
  BY DEF Lock, Free
<1>2. setup[q] \in JobType /\ session[s] \in UseType
  BY DEF Types
<1>3. job \in JobType /\ job.pc = "create" /\ job.lock = {s}
  BY <1>2 DEF JobType
<1>4. use \in UseType /\ use.runs = "nothing" /\ use.holds = session[s].holds + 1
  BY <1>2 DEF UseType, Uses
<1> HIDE DEF job, use
<1>5. setup'[q] = job /\ \A r \in Setup \ {q} : setup'[r] = setup[r]
  BY <1>1 DEF Types
<1>6. session'[s] = use /\ \A t \in Session \ {s} : session'[t] = session[t]
  BY <1>1 DEF Types
<1>7. s \in Sessions(q)
  BY <1>1 DEF OwnSessions
<1>8. Types'
  BY <1>1, <1>3, <1>4 DEF Types
<1>9. OneHolder'
  BY <1>1, <1>6 DEF OneHolder
<1>10. OwnSessions'
  BY <1>4, <1>6, Constants DEF OwnSessions, Sessions
<1>11. OwnLock'
  BY <1>3, <1>5, <1>7 DEF OwnLock, Sessions
<1>12. HasLock'
  BY <1>1, <1>3, <1>5 DEF HasLock
<1>13. HeldForAll'
  <2> SUFFICES ASSUME NEW p \in Process, p \notin torn, NEW t \in Client[p]
               PROVE  session'[t].holds >= Cardinality(Owners(t)')
    BY <1>1 DEF HeldForAll
  <2>1. t \in Session /\ session[t].holds >= Cardinality(Owners(t))
    BY Constants DEF HeldForAll
  <2>2. CASE t = s
    <3>1. q \notin Owners(s)
      BY <1>1 DEF OwnLock, Owners
    <3>2. Owners(s)' = Owners(s) \cup {q}
      BY <1>3, <1>5 DEF Owners
    <3>3. Cardinality(Owners(s)') = Cardinality(Owners(s)) + 1
      BY <3>1, <3>2, OwnersCounted, FS_AddElement
    <3>4. Cardinality(Owners(s)) \in Nat /\ session[s].holds \in Nat
      BY <1>2, OwnersCounted DEF UseType
    <3>5. session'[s].holds = session[s].holds + 1
      BY <1>4, <1>6
    <3>6. QED
      BY <2>1, <2>2, <3>3, <3>4, <3>5
  <2>3. CASE t # s
    <3>1. Owners(t)' = Owners(t)
      <4>1. setup'[q].lock # {t} /\ setup[q].lock # {t}
        BY <1>1, <1>3, <1>5, <2>3 DEF OwnLock
      <4>2. QED
        BY <1>5, <4>1 DEF Owners
    <3>2. session'[t].holds = session[t].holds
      BY <1>6, <2>1, <2>3
    <3>3. QED
      BY <2>1, <3>1, <3>2
  <2>4. QED
    BY <2>2, <2>3
<1>14. QED
  BY <1>8, <1>9, <1>10, <1>11, <1>12, <1>13

\* The lock is given back, by the session that holds it for this setup or by another.
LEMMA ReleaseLock ==
    ASSUME LockInv, NEW q \in Setup, NEW s \in Session, Unlock(q, s)
    PROVE  LockInv'
<1> USE DEF LockInv
<1> DEFINE job == [setup[q] EXCEPT !.pc = IF setup[q].ok THEN "ready" ELSE "failed",
                                   !.lock = {}]
           use == [runs |-> "nothing",
                   holds |-> IF session[s].holds > 0 THEN session[s].holds - 1 ELSE 0]
<1>1. /\ session' = [session EXCEPT ![s] = use]
      /\ torn' = torn
      /\ session[s].runs = q /\ setup[q].pc = "unlock"
  BY DEF Unlock
<1>2. setup[q] \in JobType /\ session[s] \in UseType /\ setup \in [Setup -> JobType]
  BY DEF Types
<1>3. setup' = [setup EXCEPT ![q] = job]
  BY <1>2 DEF Unlock
<1>4. job \in JobType /\ job.pc \in {"ready", "failed"} /\ job.lock = {}
  BY <1>2 DEF JobType
<1>5. /\ use \in UseType /\ use.runs = "nothing"
      /\ session[s].holds > 0 => use.holds = session[s].holds - 1
      /\ use.holds > 0 => session[s].holds > 0
  BY <1>2 DEF UseType, Uses
<1> HIDE DEF job, use
<1>6. setup'[q] = job /\ \A r \in Setup \ {q} : setup'[r] = setup[r]
  BY <1>2, <1>3
<1>7. session'[s] = use /\ \A t \in Session \ {s} : session'[t] = session[t]
  BY <1>1 DEF Types
<1>8. s \in Sessions(q)
  BY <1>1 DEF OwnSessions
<1>9. Types'
  BY <1>1, <1>3, <1>4, <1>5 DEF Types
<1>10. OneHolder'
  BY <1>5, <1>7 DEF OneHolder
<1>11. OwnSessions'
  BY <1>5, <1>7, Constants DEF OwnSessions, Sessions
<1>12. OwnLock'
  BY <1>4, <1>6 DEF OwnLock, Sessions
<1>13. HasLock'
  BY <1>1, <1>4, <1>6 DEF HasLock
<1>14. HeldForAll'
  <2> SUFFICES ASSUME NEW p \in Process, p \notin torn, NEW t \in Client[p]
               PROVE  session'[t].holds >= Cardinality(Owners(t)')
    BY <1>1 DEF HeldForAll
  <2>1. t \in Session /\ session[t].holds >= Cardinality(Owners(t))
    BY Constants DEF HeldForAll
  <2>2. /\ session[t].holds \in Nat /\ session'[t].holds \in Nat
        /\ Cardinality(Owners(t)) \in Nat
    BY <1>9, <2>1, OwnersCounted DEF Types, UseType
  <2>3. Owners(t)' = Owners(t) \ {q}
    BY <1>4, <1>6 DEF Owners
  <2>4. CASE t # s
    <3>1. Cardinality(Owners(t)') <= Cardinality(Owners(t)) /\ Cardinality(Owners(t)') \in Nat
      BY <2>3, OwnersCounted, FS_Subset, FS_CardinalityType
    <3>2. session'[t].holds = session[t].holds
      BY <1>7, <2>1, <2>4
    <3>3. QED
      BY <2>1, <2>2, <3>1, <3>2
  <2>5. CASE t = s /\ q \in Owners(s)
    <3>1. Cardinality(Owners(s)') = Cardinality(Owners(s)) - 1
      BY <2>3, <2>5, OwnersCounted, FS_RemoveElement
    <3>2. Cardinality(Owners(s)) # 0
      BY <2>5, OwnersCounted, FS_EmptySet
    <3>3. session[s].holds > 0
      BY <2>1, <2>2, <2>5, <3>2
    <3>4. session'[s].holds = session[s].holds - 1
      BY <1>5, <1>7, <3>3
    <3>5. QED
      BY <2>1, <2>2, <2>5, <3>1, <3>4
  <2>6. CASE t = s /\ q \notin Owners(s)
    \* The lock of q is on another session, and so it is not on this one.
    <3>1. Home[q] = p
      BY <1>8, <2>6, Constants DEF Sessions
    <3>2. PICK u \in Sessions(q) : setup[q].lock = {u}
      BY <1>1, <3>1 DEF HasLock, OwnLock
    <3>3. u # s /\ u \in Session
      BY <2>6, <3>2, Constants DEF Owners
    <3>4. session[u].holds > 0
      BY <3>1, <3>2, <3>3, OwnerHolds
    <3>5. ~(session[s].holds > 0)
      BY <3>3, <3>4 DEF OneHolder
    <3>6. Cardinality(Owners(s)) = 0
      BY <2>1, <2>2, <2>6, <3>5
    <3>7. Owners(s) = {}
      BY <3>6, OwnersCounted, FS_EmptySet
    <3>8. Cardinality(Owners(s)') = 0
      BY <2>3, <2>6, <3>7, FS_EmptySet
    <3>9. QED
      BY <2>2, <2>6, <3>8
  <2>7. QED
    BY <2>4, <2>5, <2>6
<1>15. QED
  BY <1>9, <1>10, <1>11, <1>12, <1>13, <1>14

-----------------------------------------------------------------------------
\* A session ends: the process is torn, or no setup of it counted on the session.
LEMMA SessionEndsLock ==
    ASSUME LockInv, NEW s \in Session, NEW use \in {"nothing", "closed"},
           session' = [session EXCEPT ![s] = [Idle EXCEPT !.runs = use]],
           SessionEnds(s),
           setup' \in [Setup -> JobType],
           \A q \in Setup :
              \/ setup'[q].pc = setup[q].pc /\ setup'[q].lock = setup[q].lock \ {s}
              \/ /\ setup[q].pc = "create" /\ setup'[q].pc = "unlock"
                 /\ setup'[q].lock = setup[q].lock \ {s}
              \/ setup'[q].pc = "failed" /\ setup'[q].lock = {}
    PROVE  LockInv'
<1> USE DEF LockInv
<1>1. /\ torn' = torn \cup {p \in Process : s \in Client[p] /\ session[s].holds > 0}
      /\ torn \subseteq torn'
  BY DEF SessionEnds
<1>2. session'[s].runs = use /\ session'[s].holds = 0
  BY DEF Types, Idle
<1>3. \A t \in Session \ {s} : session'[t] = session[t]
  BY DEF Types
<1>4. session' \in [Session -> UseType]
  <2>1. [Idle EXCEPT !.runs = use] \in UseType
    BY DEF Idle, UseType, Uses
  <2>2. QED
    BY <2>1 DEF Types
<1>5. Types'
  BY <1>1, <1>4 DEF Types
<1>6. OneHolder'
  BY <1>2, <1>3 DEF OneHolder
<1>7. OwnSessions'
  BY <1>2, <1>3, Constants DEF OwnSessions, Sessions
<1>8. OwnLock'
  <2> SUFFICES ASSUME NEW q \in Setup, setup'[q].lock # {}
               PROVE  /\ setup'[q].pc \in {"create", "unlock"}
                      /\ \E t \in Sessions(q) : setup'[q].lock = {t}
    BY DEF OwnLock, Sessions
  <2>1. setup'[q].lock = setup[q].lock \ {s}
    OBVIOUS
  <2>2. PICK t \in Sessions(q) : setup[q].lock = {t} /\ setup[q].pc \in {"create", "unlock"}
    BY <2>1 DEF OwnLock
  <2>3. setup'[q].lock = {t}
    BY <2>1, <2>2
  <2>4. setup'[q].pc \in {"create", "unlock"}
    BY <2>2
  <2>5. QED
    BY <2>3, <2>4
<1>9. HasLock'
  <2> SUFFICES ASSUME NEW q \in Setup, setup'[q].pc \in {"create", "unlock"},
                      Home[q] \notin torn'
               PROVE  setup'[q].lock # {}
    BY DEF HasLock
  <2>1. Home[q] \in Process /\ Home[q] \notin torn
    BY <1>1, Constants
  <2>2. setup[q].pc \in {"create", "unlock"} /\ setup'[q].lock = setup[q].lock \ {s}
    OBVIOUS
  <2>3. PICK t \in Sessions(q) : setup[q].lock = {t}
    BY <2>1, <2>2 DEF HasLock, OwnLock
  <2>4. t \in Session /\ session[t].holds > 0
    BY <2>1, <2>3, OwnerHolds, Constants
  <2>5. t # s
    BY <1>1, <2>1, <2>3, <2>4 DEF Sessions
  <2>6. QED
    BY <2>2, <2>3, <2>5
<1>10. HeldForAll'
  <2>1. Owners(s)' = {}
    BY DEF Owners
  <2>2. ASSUME NEW t \in Session \ {s}
        PROVE  Owners(t)' \subseteq Owners(t)
    <3> SUFFICES ASSUME NEW q \in Setup, setup'[q].lock = {t}
                 PROVE  setup[q].lock = {t}
      BY DEF Owners
    <3>1. setup'[q].lock = setup[q].lock \ {s}
      OBVIOUS
    <3>2. QED
      BY <3>1 DEF OwnLock
  <2>3. \A t \in Session \ {s} : session'[t].holds >= session[t].holds
    BY <1>3 DEF Types, UseType
  <2>4. QED
    BY <1>1, <1>5, <2>1, <2>2, <2>3, HeldStill
<1>11. QED
  BY <1>5, <1>6, <1>7, <1>8, <1>9, <1>10

LEMMA LossLock ==
    ASSUME LockInv, NEW s \in Session,
           CloseIdle(s) \/ \E q \in Setup : ConnectionLost(q, s)
    PROVE  LockInv'
<1>1. setup \in [Setup -> JobType]
  BY DEF LockInv, Types
<1>2. /\ Unheld(s) \in [Setup -> JobType]
      /\ \A q \in Setup : /\ Unheld(s)[q].pc = setup[q].pc
                          /\ Unheld(s)[q].lock = setup[q].lock \ {s}
  <2>1. \A q \in Setup :
          /\ [setup[q] EXCEPT !.lock = @ \ {s}] \in JobType
          /\ [setup[q] EXCEPT !.lock = @ \ {s}].pc = setup[q].pc
          /\ [setup[q] EXCEPT !.lock = @ \ {s}].lock = setup[q].lock \ {s}
    BY <1>1 DEF JobType
  <2>2. QED
    BY <2>1 DEF Unheld
<1>3. CASE CloseIdle(s)
  <2>1. session' = [session EXCEPT ![s] = Idle] /\ setup' = Unheld(s) /\ SessionEnds(s)
    BY <1>3 DEF CloseIdle
  <2>2. Idle = [Idle EXCEPT !.runs = "nothing"]
    BY DEF Idle
  <2>3. QED
    BY <1>2, <2>1, <2>2, SessionEndsLock
<1>4. ASSUME NEW q \in Setup, ConnectionLost(q, s)
      PROVE  LockInv'
  <2>1. /\ setup' = [Unheld(s) EXCEPT ![q] = Rejected(Unheld(s)[q])]
        /\ SessionEnds(s)
    BY <1>4 DEF ConnectionLost
  <2>2. PICK use \in {"nothing", "closed"} :
           session' = [session EXCEPT ![s] = [Idle EXCEPT !.runs = use]]
    BY <1>4 DEF ConnectionLost
  <2> DEFINE job == Rejected(Unheld(s)[q])
  <2>3. /\ job \in JobType
        /\ \/ /\ setup[q].pc = "create" /\ job.pc = "unlock"
              /\ job.lock = setup[q].lock \ {s}
           \/ job.pc = "failed" /\ job.lock = {}
    BY <1>2, RejectedJob
  <2> HIDE DEF job
  <2>4. setup' \in [Setup -> JobType]
    BY <1>2, <2>1, <2>3 DEF job
  <2>5. setup'[q] = job /\ \A r \in Setup \ {q} : setup'[r] = Unheld(s)[r]
    BY <1>2, <2>1 DEF job
  <2>6. QED
    BY <1>2, <2>1, <2>2, <2>3, <2>4, <2>5, SessionEndsLock
<1>5. QED
  BY <1>3, <1>4

\* A process that dies takes its sessions and its setups with it.
LEMMA CrashLock ==
    ASSUME LockInv, NEW p \in Process, Crash(p)
    PROVE  LockInv'
<1> USE DEF LockInv
<1>1. /\ session' = [s \in Session |-> IF s \in Client[p] THEN Idle ELSE session[s]]
      /\ setup' = [q \in Setup |-> IF Home[q] = p THEN NewSetup ELSE setup[q]]
      /\ torn' = torn
  BY DEF Crash
<1>2. Idle \in UseType /\ Idle.runs = "nothing" /\ Idle.holds = 0
  BY DEF Idle, UseType, Uses
<1>3. NewSetup \in JobType /\ NewSetup.pc = "new" /\ NewSetup.lock = {}
  BY StatementsAssumption DEF NewSetup, JobType
<1>4. Types'
  BY <1>1, <1>2, <1>3 DEF Types
<1>5. OneHolder'
  BY <1>1, <1>2 DEF OneHolder
<1>6. OwnSessions'
  BY <1>1, <1>2, Constants DEF OwnSessions, Sessions
<1>7. OwnLock'
  BY <1>1, <1>3 DEF OwnLock, Sessions
<1>8. HasLock'
  BY <1>1, <1>3 DEF HasLock
<1>9. HeldForAll'
  <2>1. ASSUME NEW t \in Session
        PROVE  Owners(t)' \subseteq Owners(t)
    BY <1>1, <1>3 DEF Owners
  <2>2. ASSUME NEW t \in Session, t \in Client[p]
        PROVE  Owners(t)' = {}
    <3> SUFFICES ASSUME NEW q \in Setup, setup'[q].lock = {t}
                 PROVE  FALSE
      BY DEF Owners
    <3>1. Home[q] # p /\ setup[q].lock = {t}
      BY <1>1, <1>3
    <3>2. t \in Client[Home[q]] /\ Home[q] \in Process
      BY <3>1, Constants DEF OwnLock, Sessions
    <3>3. QED
      BY <2>2, <3>1, <3>2, Constants
  <2>3. \A t \in Session : t \notin Client[p] => session'[t].holds >= session[t].holds
    BY <1>1 DEF Types, UseType
  <2>4. QED
    BY <1>1, <1>4, <2>1, <2>2, <2>3, HeldStill
<1>10. QED
  BY <1>4, <1>5, <1>6, <1>7, <1>8, <1>9

-----------------------------------------------------------------------------
LEMMA LockInductive == Spec => []LockInv
<1>1. Init => LockInv
  BY InitLock
<1>2. LockInv /\ [Next]_vars => LockInv'
  <2> SUFFICES ASSUME LockInv, [Next]_vars PROVE LockInv'
    OBVIOUS
  <2>1. CASE Next
    BY <2>1, ClientLock, SetupLock, GrantLock, ReleaseLock, LossLock, CrashLock
       DEF Next, Executes
  <2>2. CASE UNCHANGED vars
    BY <2>2 DEF vars, LockInv, Types, OneHolder, OwnSessions, OwnLock, HasLock,
                HeldForAll, Owners, Sessions
  <2>3. QED
    BY <2>1, <2>2
<1>3. QED
  BY <1>1, <1>2, PTL DEF Spec

\* Two processes never create tables at the same time, unless one of them lost a
\* session that held the lock.
THEOREM ProcessesExclude == Spec => []SetupsExclude
<1>1. LockInv => SetupsExclude
  <2> SUFFICES ASSUME LockInv, NEW q \in Setup, NEW r \in Setup,
                      setup[q].pc = "create", setup[r].pc = "create",
                      Home[q] \notin torn, Home[r] \notin torn
               PROVE  Home[q] = Home[r]
    BY DEF SetupsExclude
  <2>1. PICK s \in Sessions(q) : setup[q].lock = {s}
    BY DEF LockInv, OwnLock, HasLock
  <2>2. PICK t \in Sessions(r) : setup[r].lock = {t}
    BY DEF LockInv, OwnLock, HasLock
  <2>3. /\ s \in Session /\ session[s].holds > 0
        /\ t \in Session /\ session[t].holds > 0
    BY <2>1, <2>2, OwnerHolds, Constants
  <2>4. s = t
    BY <2>3 DEF LockInv, OneHolder
  <2>5. QED
    BY <2>1, <2>2, <2>4, Constants DEF Sessions
<1>2. QED
  BY <1>1, LockInductive, PTL
=============================================================================
