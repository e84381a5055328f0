----------------------------- MODULE Transports -----------------------------
(***************************************************************************)
(* Which transport a letter is sent with: the choice when it is queued      *)
(* (___addToQueue), when an attempt begins (___send) and when one failed    *)
(* (___handleError), and the verification at startup that takes transports  *)
(* out of the choice (___verifyTransports).  The row in the storage carries *)
(* the index of a transport; what is known to be broken, and where the      *)
(* balancer stands, is known to each instance for itself and is lost when   *)
(* it restarts.                                                             *)
(*                                                                         *)
(* Every server has the same list of transports; an instance with           *)
(* {type: "client"} may have none.  Only what the choice depends on is kept *)
(* of the life of a row: that it is claimed with the tries it was read      *)
(* with, that a claim may go stale, and that only its holder writes the     *)
(* outcome.  SendLifecycle has the rest.  Names X_... after a definition X  *)
(* are slips a maintainer could make in X.                                  *)
(***************************************************************************)
EXTENDS Integers, Sequences, FiniteSets, FiniteSetsExt

CONSTANTS Letter,
          Instance,     \* MailTime instances of one prefix
          Transports,   \* how many transports an instance has: 0 for a client
          Worker,       \* sends in hand, over all instances
          Conn,         \* the instance of a worker
          Policies,     \* {strategy, failsToNext, maxTries} of the prefix
          Broken,       \* bound: what a verification may find broken
          MaxOthers,    \* bound: letters per instance that are not followed
          MaxFaults     \* bound: restarts and claims that go stale

Strategies == {"backup", "balancer"}

ASSUME TransportsAssumption ==
    /\ Transports \in [Instance -> Nat]
    /\ \A i, j \in Instance : Transports[i] > 0 /\ Transports[j] > 0
                              => Transports[i] = Transports[j]
ASSUME WorkerAssumption ==
    Conn \in [Worker -> {i \in Instance : Transports[i] > 0}]
ASSUME PoliciesAssumption ==
    Policies \subseteq [strategy : Strategies, failsToNext : Nat \ {0}, maxTries : Nat \ {0}]
ASSUME BrokenAssumption == \A bad \in Broken, i \in Instance :
    Transports[i] > 0 => bad \subseteq 0 .. Transports[i] - 1
ASSUME BoundsAssumption == MaxOthers \in Nat /\ MaxFaults \in Nat

VARIABLES
    policy,   \* how the prefix is configured
    view,     \* what each instance knows of its transports
    row,      \* the letters in the storage
    job,      \* the sends in hand
    history,  \* of each letter, its attempts
    condemned, \* transports some instance has found broken so far
    faults    \* faults that may still happen

vars == <<policy, view, row, job, history, condemned, faults>>

Index(i) == 0 .. Transports[i] - 1

AllIndexes == {0} \cup UNION {Index(i) : i \in Instance}

-----------------------------------------------------------------------------
(* State.                                                                  *)

\* transport: the cursor of the balancer, and the transport a letter starts
\*            with under the backup strategy
\* share:     letters the balancer put on each transport since the verification
FreshView == [verified |-> FALSE, unhealthy |-> {}, transport |-> 0,
              share |-> [t \in AllIndexes |-> 0]]

NoRow == [status |-> "none", tries |-> 0, isSending |-> FALSE, stale |-> FALSE,
          transport |-> 0]

RowType == [status : {"none", "open", "sent", "failed"}, tries : 0 .. policy.maxTries,
            isSending : BOOLEAN, stale : BOOLEAN, transport : AllIndexes]

\* read:    a scan copied the row, the claim comes next
\* sending: claimed and handed to the transport
JobType == [pc : {"read", "sending"}, uuid : Letter, tries : 0 .. policy.maxTries,
            transport : AllIndexes]

IdleJob == [pc |-> "idle"]

\* What came of an attempt: nothing yet or never, an error that forbids to go
\* on with another transport, another error, or not all recipients accepted.
Ends == {"open", "vetoed", "permitted", "partial", "sent"}

TypeOK ==
    /\ policy \in Policies
    /\ view \in [Instance -> [verified : BOOLEAN, unhealthy : SUBSET AllIndexes,
                              transport : AllIndexes, share : [AllIndexes -> Nat]]]
    /\ row \in [Letter -> RowType]
    /\ job \in [Worker -> JobType \cup {IdleJob}]
    /\ history \in [Letter -> Seq([transport : AllIndexes, end : Ends, stale : BOOLEAN])]
    /\ condemned \subseteq AllIndexes
    /\ faults \in Nat

Init ==
    /\ policy \in Policies
    /\ view = [i \in Instance |-> FreshView]
    /\ row = [u \in Letter |-> NoRow]
    /\ job = [w \in Worker |-> IdleJob]
    /\ history = [u \in Letter |-> <<>>]
    /\ condemned = {}
    /\ faults = MaxFaults

-----------------------------------------------------------------------------
(* The choice.                                                             *)

NextHealthy_NoWrap(n, unhealthy, from) ==
    IF n = 0 THEN from ELSE from + 1

NextHealthy_FromTheFirst(n, unhealthy, from) ==
    LET good == (0 .. n - 1) \ (unhealthy \cup {from})
    IN  IF good = {} THEN from ELSE Min(good)

\* ___nextHealthyTransport: of `n` transports the next healthy one after `from`,
\* around the list and `from` itself last; `from` if there is none.
NextHealthy(n, unhealthy, from) ==
    LET steps == {k \in 1 .. n : (from + k) % n \notin unhealthy}
    IN  IF steps = {} THEN from ELSE (from + Min(steps)) % n

After(i, t) == NextHealthy(Transports[i], view[i].unhealthy, t)

ToSend_AsStored(i, t) == t

\* ___send: the transport of the row, unless this instance found it broken.
ToSend(i, t) == IF t \in view[i].unhealthy THEN After(i, t) ELSE t

MayFailOver_HookThrows(hook, tagged) ==
    IF hook = "none" THEN ~tagged ELSE hook # "false"

\* ___mayFailOver: the hook overrides the tag of the error, and one that throws
\* keeps the transport.
MayFailOver(hook, tagged) ==
    IF hook = "none" THEN ~tagged ELSE hook \notin {"false", "throws"}

\* ___handleError: the transport of the next attempt.
ToRetry(i, t, tries, may) ==
    IF /\ policy.strategy = "backup" /\ Transports[i] > 1
       /\ tries % policy.failsToNext = 0 /\ may
    THEN After(i, t) ELSE t

-----------------------------------------------------------------------------
(* Instances.                                                              *)

\* ___verifyTransports, once every verify() has answered: `bad` failed.  An
\* instance whose ready() rejects before never comes here, and sends all the same.
Verify(i, bad) ==
    LET from == view[i].transport IN
    /\ Transports[i] > 0 /\ ~view[i].verified
    /\ view' = [view EXCEPT ![i] =
         [FreshView EXCEPT
            !.verified = TRUE,
            !.unhealthy = bad,
            !.transport = IF from \in bad THEN NextHealthy(Transports[i], bad, from)
                          ELSE from]]
    /\ condemned' = condemned \cup bad
    /\ UNCHANGED <<policy, row, job, history, faults>>

\* A restart forgets the view, and the sends in hand with it.
Restart(i) ==
    /\ faults > 0
    /\ view[i] # FreshView \/ \E w \in Worker : Conn[w] = i /\ job[w] # IdleJob
    /\ faults' = faults - 1
    /\ view' = [view EXCEPT ![i] = FreshView]
    /\ job' = [w \in Worker |-> IF Conn[w] = i THEN IdleJob ELSE job[w]]
    /\ UNCHANGED <<policy, condemned, row, history>>

-----------------------------------------------------------------------------
(* Letters.                                                                *)

Balances(i) == policy.strategy = "balancer" /\ Transports[i] > 0

Advanced_KeepsCursor(v, t) == [v EXCEPT !.share[t] = @ + 1]

Advanced(v, t) == [v EXCEPT !.transport = t, !.share[t] = @ + 1]

\* ___addToQueue
AddToQueue(i, u) ==
    LET v == view[i]
        t == IF Balances(i) THEN After(i, v.transport) ELSE v.transport
    IN  /\ row[u].status = "none"
        /\ row' = [row EXCEPT ![u] = [NoRow EXCEPT !.status = "open", !.transport = t]]
        /\ view' = [view EXCEPT ![i] = IF Balances(i) THEN Advanced(v, t) ELSE v]
        /\ UNCHANGED <<policy, condemned, job, history, faults>>

\* The same for a letter that is not followed any further.
AddOther(i) ==
    LET v == view[i] IN
    /\ Balances(i) /\ SumFunction(v.share) < MaxOthers
    /\ view' = [view EXCEPT ![i] = Advanced(v, After(i, v.transport))]
    /\ UNCHANGED <<policy, condemned, row, job, history, faults>>

InHand(i, u) == \E w \in Worker :
    Conn[w] = i /\ job[w] # IdleJob /\ job[w].uuid = u

Free(r) == r.status = "open" /\ (~r.isSending \/ r.stale)

\* A scan copies the row; ___dispatch passes over what the instance has in hand.
Scan(w, u) ==
    /\ job[w] = IdleJob
    /\ Free(row[u]) /\ row[u].tries < policy.maxTries
    /\ ~InHand(Conn[w], u)
    /\ job' = [job EXCEPT ![w] = [pc |-> "read", uuid |-> u, tries |-> row[u].tries,
                                  transport |-> row[u].transport]]
    /\ UNCHANGED <<policy, condemned, view, row, history, faults>>

\* ___send up to transport.sendMail, with the transport of the copy.
Claim(w) ==
    LET j == job[w]
        t == ToSend(Conn[w], j.transport)
    IN  /\ j.pc = "read"
        /\ Free(row[j.uuid]) /\ row[j.uuid].tries = j.tries
        /\ row' = [row EXCEPT ![j.uuid] = [@ EXCEPT !.isSending = TRUE, !.stale = FALSE,
                                                    !.tries = j.tries + 1]]
        /\ job' = [job EXCEPT ![w] = [j EXCEPT !.pc = "sending", !.tries = j.tries + 1,
                                               !.transport = t]]
        /\ history' = [history EXCEPT ![j.uuid] =
             Append(@, [transport |-> t, end |-> "open", stale |-> FALSE])]
        /\ UNCHANGED <<policy, condemned, view, faults>>

\* The row was taken, or has ended, since it was copied.
ClaimRefused(w) ==
    LET j == job[w] IN
    /\ j.pc = "read"
    /\ ~(Free(row[j.uuid]) /\ row[j.uuid].tries = j.tries)
    /\ job' = [job EXCEPT ![w] = IdleJob]
    /\ UNCHANGED <<policy, condemned, view, row, history, faults>>

\* The worker is through with its attempt, and the row becomes `after` if the
\* worker still holds it.
Finish(w, end, after) ==
    LET j == job[w]
        r == row[j.uuid]
    IN  /\ job' = [job EXCEPT ![w] = IdleJob]
        /\ IF r.isSending /\ r.tries = j.tries
           THEN /\ row' = [row EXCEPT ![j.uuid] =
                     [after EXCEPT !.isSending = FALSE, !.stale = FALSE]]
                /\ history' = [history EXCEPT ![j.uuid][j.tries].end = end]
           ELSE UNCHANGED <<row, history>>
        /\ UNCHANGED <<policy, condemned, view, faults>>

Exhausted(w) == job[w].tries >= policy.maxTries

GivenUp(r) == [r EXCEPT !.status = "failed"]

Sent(w) ==
    /\ job[w].pc = "sending"
    /\ Finish(w, "sent", [row[job[w].uuid] EXCEPT !.status = "sent"])

\* ___handleError: the transport answered an error, or accepted for nobody.
Failed(w, hook, tagged) ==
    LET j == job[w]
        r == row[j.uuid]
        t == ToRetry(Conn[w], j.transport, j.tries, MayFailOver(hook, tagged))
        end == IF hook \in {"false", "throws"} \/ (hook = "none" /\ tagged)
               THEN "vetoed" ELSE "permitted"
    IN  /\ j.pc = "sending"
        /\ Finish(w, end, IF Exhausted(w) THEN GivenUp(r) ELSE [r EXCEPT !.transport = t])

\* Some recipients were accepted: the release leaves the transport of the row.
PartlySent(w) ==
    LET r == row[job[w].uuid] IN
    /\ job[w].pc = "sending"
    /\ Finish(w, "partial", IF Exhausted(w) THEN GivenUp(r) ELSE r)

\* The holder has died, or its renewals fail or are used up.
GoStale(u) ==
    /\ faults > 0
    /\ row[u].isSending /\ ~row[u].stale
    /\ faults' = faults - 1
    /\ row' = [row EXCEPT ![u].stale = TRUE]
    /\ history' = [history EXCEPT ![u][row[u].tries].stale = TRUE]
    /\ UNCHANGED <<policy, condemned, view, job>>

Hooks == {"none", "true", "false", "throws"}

Next ==
    \/ \E i \in Instance : Restart(i) \/ AddOther(i)
    \/ \E i \in Instance : \E bad \in Broken : Verify(i, bad)
    \/ \E i \in Instance, u \in Letter : AddToQueue(i, u)
    \/ \E w \in Worker, u \in Letter : Scan(w, u)
    \/ \E w \in Worker : Claim(w) \/ ClaimRefused(w) \/ Sent(w) \/ PartlySent(w)
    \/ \E w \in Worker, hook \in Hooks, tagged \in BOOLEAN : Failed(w, hook, tagged)
    \/ \E u \in Letter : GoStale(u)

Spec == Init /\ [][Next]_vars

-----------------------------------------------------------------------------
\* An attempt is never made with a transport its instance has found broken while
\* it knows of another, wherever the row comes from and whenever the verification
\* ends (___send and ___verifyTransports run side by side).
UsesHealthy ==
    [][\A w \in Worker :
         job'[w].pc = "sending" /\ job[w].pc = "read" =>
           LET i == Conn[w] IN
           job'[w].transport \in view[i].unhealthy => view[i].unhealthy = Index(i)]_vars

Attempts(u) == 1 .. Len(history[u])

Tried(u) == {history[u][n].transport : n \in Attempts(u)}

\* The attempt after the n-th keeps the transport, unless an instance has found
\* the one or the other broken.
KeepsTransport(u, n) ==
    \/ history[u][n + 1].transport = history[u][n].transport
    \/ {history[u][n].transport, history[u][n + 1].transport} \cap condemned # {}

Vetoed(u) == {n \in Attempts(u) : n + 1 \in Attempts(u) /\ history[u][n].end = "vetoed"}

\* The claim of an attempt went stale, and that of the attempt before it, too.
\* Then the transport of the next attempt may be that of a copy older than the
\* veto (README.md, section 6).
StaleTwice(u, n) ==
    n > 1 /\ history[u][n].stale /\ history[u][n - 1].stale

\* After a failure whose fail-over was vetoed the next attempt is made with the
\* same transport, also by another instance that read the row before and by a
\* worker that was taken for dead, if not two in a row were.
VetoHolds ==
    \A u \in Letter : \A n \in Vetoed(u) : StaleTwice(u, n) \/ KeepsTransport(u, n)

\* Under the backup strategy a letter is given up only after it went around all
\* transports nobody found broken, or as far as failsToNext and the number of
\* tries allow - if every failure permitted to go on and no claim went stale.
FailoverSweeps ==
    \A u \in Letter :
        /\ policy.strategy = "backup"
        /\ row[u].status = "failed"
        /\ \A n \in Attempts(u) : history[u][n].end = "permitted" /\ ~history[u][n].stale
        => \/ AllIndexes \ condemned \subseteq Tried(u)
           \/ Cardinality(Tried(u)) >= 1 + (policy.maxTries - 1) \div policy.failsToNext

\* README.md:72: the balancer goes round: since it verified its transports an
\* instance has put as many letters on each healthy one, but for one letter.
BalancedShare ==
    \A i \in Instance : \A s, t \in Index(i) \ view[i].unhealthy :
        view[i].share[s] - view[i].share[t] <= 1
=============================================================================
