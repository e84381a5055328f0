--------------------------- MODULE PostgresSetup ---------------------------
(***************************************************************************)
(* PostgresQueue.__setup: every instance of a prefix creates the table and  *)
(* its indexes under an advisory lock, and every call of the queue waits    *)
(* for that (ready).  The lock belongs to the session that took it and can  *)
(* be taken again by it; lock, statements and unlock are separate calls of  *)
(* client.query.  A pg.Client has one session.  A pg.Pool, which            *)
(* skills/mail-time/references/adapters.md:40 recommends, runs each call on *)
(* any session that is idle, and other queries of the process use it too.   *)
(*                                                                         *)
(* Names X_... after a definition X are slips a maintainer could make in X. *)
(***************************************************************************)
EXTENDS Naturals, FiniteSets

CONSTANTS Setup,       \* the instances of one prefix
          Process,     \* node processes
          Home,        \* the process of an instance
          Session,     \* sessions of the server
          Client,      \* the sessions of the client of a process
          Pooled,      \* the processes whose client is a pg.Pool
          Statements,  \* statements under the lock
          MaxFaults    \* bound: connections lost and processes that die

ASSUME SetupAssumption ==
    IsFiniteSet(Setup) /\ {"nothing", "other", "closed"} \cap Setup = {}
ASSUME HomeAssumption == Home \in [Setup -> Process]
ASSUME ClientAssumption ==
    /\ Client \in [Process -> SUBSET Session \ {{}}]
    /\ \A p, r \in Process : p # r => Client[p] \cap Client[r] = {}
    /\ Pooled \subseteq Process
    /\ \A p \in Process \ Pooled : Cardinality(Client[p]) = 1
ASSUME StatementsAssumption == Statements \in Nat \ {0}
ASSUME BoundsAssumption == MaxFaults \in Nat

VARIABLES
    setup,    \* where the setup of each instance is
    session,  \* what each session runs, and how often it holds the lock
    torn,     \* history: processes that lost a session that held the lock
    faults    \* faults that may still happen

vars == <<setup, session, torn, faults>>

Sessions(q) == Client[Home[q]]

\* left: statements still to run;  ok: none failed
\* lock: the session that granted the lock, while it lives, for the properties
NewSetup == [pc |-> "new", left |-> Statements, ok |-> TRUE, lock |-> {}]

Idle == [runs |-> "nothing", holds |-> 0]

Init ==
    /\ setup = [q \in Setup |-> NewSetup]
    /\ session = [s \in Session |-> Idle]
    /\ torn = {}
    /\ faults = MaxFaults

Querying(q) == setup[q].pc \in {"lock", "create", "unlock"}

Waits(q) == Querying(q) /\ \A s \in Session : session[s].runs # q

-----------------------------------------------------------------------------
(* The client.                                                             *)

\* A call of client.query gets a session that is idle.
Connect(q, s) ==
    /\ Waits(q)
    /\ s \in Sessions(q) /\ session[s].runs = "nothing"
    /\ session' = [session EXCEPT ![s].runs = q]
    /\ UNCHANGED <<setup, torn, faults>>

\* Another query of the process, and its end.
OtherQuery(s) ==
    /\ session[s].runs = "nothing"
    /\ session' = [session EXCEPT ![s].runs = "other"]
    /\ UNCHANGED <<setup, torn, faults>>

OtherDone(s) ==
    /\ session[s].runs = "other"
    /\ session' = [session EXCEPT ![s].runs = "nothing"]
    /\ UNCHANGED <<setup, torn, faults>>

\* The session ends, and its locks with it.
Unheld(s) == [q \in Setup |-> [setup[q] EXCEPT !.lock = @ \ {s}]]

SessionEnds(s) ==
    torn' = torn \cup {p \in Process : s \in Client[p] /\ session[s].holds > 0}

\* A pool closes an idle connection and opens another when it needs one.
CloseIdle(s) ==
    /\ session[s].runs = "nothing" /\ session[s].holds > 0
    /\ \E p \in Pooled : s \in Client[p]
    /\ session' = [session EXCEPT ![s] = Idle]
    /\ SessionEnds(s)
    /\ setup' = Unheld(s)
    /\ UNCHANGED faults

-----------------------------------------------------------------------------
(* __setup.                                                                *)

\* __applyPrefix.
Begin(q) ==
    /\ setup[q].pc = "new"
    /\ setup' = [setup EXCEPT ![q].pc = "lock"]
    /\ UNCHANGED <<session, torn, faults>>

Free_EachItsOwnKey(s) == TRUE

\* The server grants the lock to a session if no other one holds it.
Free(s) == \A t \in Session \ {s} : session[t].holds = 0

Lock(q, s) ==
    /\ session[s].runs = q /\ setup[q].pc = "lock"
    /\ Free(s)
    /\ session' = [session EXCEPT ![s] = [runs |-> "nothing", holds |-> @.holds + 1]]
    /\ setup' = [setup EXCEPT ![q] = [@ EXCEPT !.pc = "create", !.lock = {s}]]
    /\ UNCHANGED <<torn, faults>>

Create(q, s) ==
    /\ session[s].runs = q /\ setup[q].pc = "create"
    /\ session' = [session EXCEPT ![s].runs = "nothing"]
    /\ setup' = [setup EXCEPT ![q].left = @ - 1,
                              ![q].pc = IF setup[q].left = 1 THEN "unlock" ELSE @]
    /\ UNCHANGED <<torn, faults>>

Rejected_NoFinally(j) == [j EXCEPT !.ok = FALSE, !.pc = "failed", !.lock = {}]

\* A query of __setup is rejected: after the lock the unlock comes, in `finally`.
Rejected(j) ==
    IF j.pc = "create" THEN [j EXCEPT !.ok = FALSE, !.pc = "unlock"]
    ELSE [j EXCEPT !.ok = FALSE, !.pc = "failed", !.lock = {}]

CreateFails(q, s) ==
    /\ session[s].runs = q /\ setup[q].pc = "create"
    /\ session' = [session EXCEPT ![s].runs = "nothing"]
    /\ setup' = [setup EXCEPT ![q] = Rejected(@)]
    /\ UNCHANGED <<torn, faults>>

\* pg_advisory_unlock has no effect in a session that does not hold the lock.
Unlock(q, s) ==
    /\ session[s].runs = q /\ setup[q].pc = "unlock"
    /\ session' = [session EXCEPT ![s] =
         [runs |-> "nothing", holds |-> IF @.holds > 0 THEN @.holds - 1 ELSE 0]]
    /\ setup' = [setup EXCEPT ![q].pc = IF setup[q].ok THEN "ready" ELSE "failed",
                              ![q].lock = {}]
    /\ UNCHANGED <<torn, faults>>

-----------------------------------------------------------------------------
(* Faults.                                                                 *)

\* The connection of a query fails.  A pool replaces it; a client is closed.
ConnectionLost(q, s) ==
    /\ session[s].runs = q
    /\ faults > 0 /\ faults' = faults - 1
    /\ session' = [session EXCEPT ![s] =
         [Idle EXCEPT !.runs = IF Home[q] \in Pooled THEN "nothing" ELSE "closed"]]
    /\ SessionEnds(s)
    /\ setup' = [Unheld(s) EXCEPT ![q] = Rejected(@)]

\* A client that is closed rejects the call at once.
ClientClosed(q) ==
    /\ Waits(q)
    /\ \E s \in Sessions(q) : session[s].runs = "closed"
    /\ setup' = [setup EXCEPT ![q] = Rejected(@)]
    /\ UNCHANGED <<session, torn, faults>>

Crash(p) ==
    /\ faults > 0 /\ faults' = faults - 1
    /\ \E q \in Setup : Home[q] = p /\ setup[q].pc # "new"
    /\ session' = [s \in Session |-> IF s \in Client[p] THEN Idle ELSE session[s]]
    /\ setup' = [q \in Setup |-> IF Home[q] = p THEN NewSetup ELSE setup[q]]
    /\ UNCHANGED torn

-----------------------------------------------------------------------------
Executes(q, s) == Lock(q, s) \/ Create(q, s) \/ CreateFails(q, s) \/ Unlock(q, s)

Next ==
    \/ \E q \in Setup : Begin(q) \/ ClientClosed(q)
    \/ \E q \in Setup, s \in Session :
         Connect(q, s) \/ Executes(q, s) \/ ConnectionLost(q, s)
    \/ \E s \in Session : OtherQuery(s) \/ OtherDone(s) \/ CloseIdle(s)
    \/ \E p \in Process : Crash(p)

Spec == Init /\ [][Next]_vars

\* Clients and pools give out their sessions in the order of the calls, and the
\* server its locks in the order of the requests, so that whoever could go on again
\* and again does; every query but the lock's is answered.
Fairness ==
    /\ \A q \in Setup :
         /\ SF_vars(\E s \in Session : Connect(q, s))
         /\ SF_vars(\E s \in Session : Executes(q, s))
         /\ WF_vars(ClientClosed(q))
    /\ \A s \in Session : WF_vars(OtherDone(s))

FairSpec == Spec /\ Fairness

-----------------------------------------------------------------------------
\* skills/mail-time/references/adapters.md:52: concurrent processes do not race on
\* CREATE TABLE, although calls run on changing sessions, setups fail and an unlock
\* may reach a session that another setup locked - unless a process lost a session
\* with the lock on it.  (Setups that share a pool may race: the session that holds
\* the lock grants it again.)
SetupsExclude ==
    \A q, r \in Setup :
        setup[q].pc = "create" /\ setup[r].pc = "create" =>
            Home[q] = Home[r] \/ {Home[q], Home[r]} \cap torn # {}

\* The session holds the lock for a setup that gave it back to another session.
Leaked(s) ==
    session[s].holds > Cardinality({q \in Setup : setup[q].lock = {s}})

\* Everyone waits for the lock before the queue can be used; a setup that waits for
\* ever waits for a lock that a session of a pool has kept for nobody.
SetupEnds ==
    \A q \in Setup :
        <>[]Querying(q) =>
            []<>(\E p \in Pooled : \E s \in Client[p] :
                    Leaked(s) /\ Cardinality(Client[p]) > 1)
=============================================================================
