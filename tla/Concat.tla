------------------------------- MODULE Concat -------------------------------
(***************************************************************************)
(* Folding (concatEmails): sendMail looks for a pending letter to the same  *)
(* addressee and appends to it, while workers of any server scan, claim,    *)
(* send and complete the same letters.                                     *)
(*                                                                         *)
(* All mails go to one addressee, since getPendingTo never mixes two; they  *)
(* differ in their text and in `cc`.  A letter is named after the mail      *)
(* whose sendMail pushed it, and its mailOptions are the sequence of mails  *)
(* folded into it.  There is no clock: sendAt, concatDelay and the age of a *)
(* claim leave every delay possible.  History is kept (keepHistory); the    *)
(* life of one letter in full, renewal, cancel and clocks included, is      *)
(* SendLifecycle.                                                          *)
(***************************************************************************)
EXTENDS Integers, Sequences, FiniteSets, SequencesExt

CONSTANTS Mail,       \* calls of sendMail
          Addr,       \* addresses
          Addressee,  \* `to` of every mail
          Cc,         \* the addresses in the `cc` of a mail
          Form,       \* how its `cc` is written: "absent", "string", "array"
          Text,       \* what distinguishes the bodies of two mails
          Worker,     \* sends in progress, on any server
          MaxTries    \* maxTries

ASSUME CcAssumption ==
    /\ Addressee \in Addr
    /\ Cc \in [Mail -> SUBSET Addr]
    /\ Form \in [Mail -> {"absent", "string", "array"}]
    /\ \A m \in Mail : /\ Form[m] = "absent" => Cc[m] = {}
                       /\ Form[m] = "string" => Cardinality(Cc[m]) = 1
ASSUME MaxTriesAssumption == MaxTries \in Nat \ {0}

VARIABLES
    letter,  \* the stored letters
    job,     \* of each worker: the copy of the letter it has in hand
    call,    \* of each sendMail: where it is, the uuid it answers, and the
             \* mail that stands for this one in that letter
    got      \* history: the addresses that received the body of a mail

vars == <<letter, job, call, got>>

Recipients(m) == {Addressee} \cup Cc[m]

\* mailOptions[].accepted: an option has the field once an answer was tracked.
AcceptedType == UNION {[D -> SUBSET Addr] : D \in SUBSET Mail}

Options == {s \in Seq(Mail) : IsInjective(s)}

TypeOK ==
    /\ letter \in [Mail -> [stored : BOOLEAN, tries : 0 .. MaxTries,
                            isSending : BOOLEAN, end : {"no", "sent", "failed"},
                            options : Options, accepted : AcceptedType]]
    /\ job \in [Worker -> [pc : {"idle", "fetched", "sending"},
                           uuid : Mail \cup {"none"}, tries : 0 .. MaxTries,
                           options : Options, accepted : AcceptedType]]
    /\ call \in [Mail -> [pc : {"new", "append", "push", "done", "rejected"},
                          uuid : Mail, as : Mail]]
    /\ got \in [Mail -> SUBSET Addr]

NoAccepted == [m \in {} |-> {}]

IdleJob == [pc |-> "idle", uuid |-> "none", tries |-> 0, options |-> <<>>,
            accepted |-> NoAccepted]

Init ==
    /\ letter = [m \in Mail |-> [stored |-> FALSE, tries |-> 0, isSending |-> FALSE,
                                 end |-> "no", options |-> <<>>,
                                 accepted |-> NoAccepted]]
    /\ job = [w \in Worker |-> IdleJob]
    /\ call = [m \in Mail |-> [pc |-> "new", uuid |-> m, as |-> m]]
    /\ got = [m \in Mail |-> {}]

Open(l) == l.stored /\ l.end = "no"

-----------------------------------------------------------------------------
(* What a letter says and whom it is for.                                  *)

\* equals() on two options that carry no `accepted`.
Same(m, n) == Text[m] = Text[n] /\ Cc[m] = Cc[n] /\ Form[m] = Form[n]

\* deepMerge of the `cc` of one more option: an array is appended to an array,
\* anything else replaces what was there.
MergeCc(cc, m) ==
    IF Form[m] = "absent" THEN cc
    ELSE [form |-> Form[m],
          addrs |-> IF Form[m] = "array" /\ cc.form = "array"
                    THEN cc.addrs \cup Cc[m] ELSE Cc[m]]

Compiled(options) ==
    {Addressee} \cup FoldLeft(MergeCc, [form |-> "absent", addrs |-> {}], options).addrs

AllRecipients(options) == UNION {Recipients(m) : m \in ToSet(options)}

AcceptedSet(accepted) == UNION {accepted[m] : m \in DOMAIN accepted}

\* compiledOpts.to and .cc of the message the transport is given.
Offered(j) == Compiled(j.options) \ AcceptedSet(j.accepted)

\* ___trackAcceptedRecipients: each option's `accepted` after this answer.
Tracked(options, accepted, result) ==
    [m \in ToSet(options) |->
        (IF m \in DOMAIN accepted THEN accepted[m] ELSE {})
            \cup (result \cap Recipients(m))]

-----------------------------------------------------------------------------
(* sendMail.                                                               *)

Pending(u) == Open(letter[u]) /\ ~letter[u].isSending /\ letter[u].tries < MaxTries

\* The option of a letter that the mail repeats.
Repeats(m, u, n) ==
    n \in ToSet(letter[u].options) \ DOMAIN letter[u].accepted /\ Same(n, m)

\* getPendingTo finds a letter, and the mail is already in it.
AnswerRepeat(m, u) ==
    /\ call[m].pc = "new"
    /\ Pending(u)
    /\ \E n \in Mail :
         /\ Repeats(m, u, n)
         /\ call' = [call EXCEPT ![m] = [pc |-> "done", uuid |-> u, as |-> n]]
    /\ UNCHANGED <<letter, job, got>>

\* getPendingTo finds a letter, and the mail is not in it.
FindPending(m, u) ==
    /\ call[m].pc = "new"
    /\ Pending(u)
    /\ ~ \E n \in Mail : Repeats(m, u, n)
    /\ call' = [call EXCEPT ![m] = [@ EXCEPT !.pc = "append", !.uuid = u]]
    /\ UNCHANGED <<letter, job, got>>

\* The guard of the atomic append.
Appendable(u) == Open(letter[u]) /\ ~letter[u].isSending

Appended(m) == letter' = [letter EXCEPT ![call[m].uuid].options = Append(@, m)]

Fold_PushesToo(m) ==
    /\ call[m].pc = "append"
    /\ IF Appendable(call[m].uuid) THEN Appended(m) ELSE UNCHANGED letter
    /\ call' = [call EXCEPT ![m] = [@ EXCEPT !.pc = "push", !.uuid = m]]
    /\ UNCHANGED <<job, got>>

\* update({appendMailOption}): the answer is the uuid, or a letter of its own
\* if the letter that was found may no longer be changed.
Fold(m) ==
    /\ call[m].pc = "append"
    /\ IF Appendable(call[m].uuid)
       THEN /\ Appended(m)
            /\ call' = [call EXCEPT ![m].pc = "done"]
       ELSE /\ call' = [call EXCEPT ![m] = [@ EXCEPT !.pc = "push", !.uuid = m]]
            /\ UNCHANGED letter
    /\ UNCHANGED <<job, got>>

Pushed(m) ==
    letter' = [letter EXCEPT ![m] = [@ EXCEPT !.stored = TRUE, !.options = <<m>>]]

Pushing(m) == call[m].pc \in {"new", "push"}

\* ___addToQueue, after a refused append or because getPendingTo found no
\* letter.  It may find none at any time, as it passes over the letters that
\* are scheduled later; nothing else is read before the push.
AddToQueue(m) ==
    /\ Pushing(m)
    /\ Pushed(m)
    /\ call' = [call EXCEPT ![m].pc = "done"]
    /\ UNCHANGED <<job, got>>

\* The storage throws after it has executed the write: the caller gets no
\* uuid.  A call that throws before that is one that takes no more steps.
SendMailFails(m) ==
    /\ \/ call[m].pc = "append" /\ Appendable(call[m].uuid) /\ Appended(m)
       \/ Pushing(m) /\ Pushed(m)
    /\ call' = [call EXCEPT ![m] = [@ EXCEPT !.pc = "rejected", !.uuid = m]]
    /\ UNCHANGED <<job, got>>

-----------------------------------------------------------------------------
(* A worker.                                                               *)

Due_EvenExhausted(l) == Open(l)

Due(l) == Open(l) /\ l.tries < MaxTries

\* A scan copies a due letter; a claim that somebody holds may be stale.
Fetch(w, u) ==
    /\ job[w].pc = "idle"
    /\ Due(letter[u])
    /\ job' = [job EXCEPT ![w] =
         [pc |-> "fetched", uuid |-> u, tries |-> letter[u].tries,
          options |-> letter[u].options, accepted |-> letter[u].accepted]]
    /\ UNCHANGED <<letter, call, got>>

CanClaim(j, l) == Open(l) /\ l.tries = j.tries

\* The claim is a compare-and-set on `tries`; what is sent is the copy.
Claim(w) ==
    LET j == job[w] IN
    /\ j.pc = "fetched"
    /\ CanClaim(j, letter[j.uuid])
    /\ letter' = [letter EXCEPT ![j.uuid] = [@ EXCEPT !.isSending = TRUE,
                                                      !.tries = j.tries + 1]]
    /\ job' = [job EXCEPT ![w] = [j EXCEPT !.pc = "sending", !.tries = @ + 1]]
    /\ UNCHANGED <<call, got>>

Outcome_AnyAccepted(j, result, accepted) ==
    IF result # {} THEN "sent" ELSE IF j.tries >= MaxTries THEN "failed" ELSE "no"

\* isFullyDelivered, and the branches that follow it.
Outcome(j, result, accepted) ==
    IF result # {} /\ AllRecipients(j.options) \subseteq AcceptedSet(accepted)
    THEN "sent"
    ELSE IF j.tries >= MaxTries THEN "failed" ELSE "no"

Written_KeepsFolded(j, result, l) ==
    LET accepted == Tracked(l.options, j.accepted, result)
    IN  [l EXCEPT !.isSending = FALSE, !.end = Outcome(j, result, accepted),
                  !.accepted = accepted]

\* An attempt nobody accepted leaves mailOptions alone, unless it is the last;
\* every other completion writes the copy back.
Written(j, result, l) ==
    LET accepted == IF result = {} THEN j.accepted
                    ELSE Tracked(j.options, j.accepted, result)
    IN  IF result = {} /\ j.tries < MaxTries
        THEN [l EXCEPT !.isSending = FALSE]
        ELSE [l EXCEPT !.isSending = FALSE, !.end = Outcome(j, result, accepted),
                       !.options = j.options, !.accepted = accepted]

HoldsLease(j, l) == l.stored /\ l.isSending /\ l.tries = j.tries

\* The transport accepts the message for `result` (an error is the empty set)
\* and the completion is written if the worker still holds the lease, or is
\* lost with the worker or to the storage.  The answer and the write may be one
\* step: what happens between them reads nothing that the answer changes.
Settle(w, result) ==
    LET j == job[w] IN
    /\ j.pc = "sending"
    /\ result \subseteq Offered(j)
    /\ got' = [m \in Mail |-> IF m \in ToSet(j.options) THEN got[m] \cup result
                                                        ELSE got[m]]
    /\ \/ /\ HoldsLease(j, letter[j.uuid])
          /\ letter' = [letter EXCEPT ![j.uuid] = Written(j, result, @)]
       \/ UNCHANGED letter
    /\ job' = [job EXCEPT ![w] = IdleJob]
    /\ UNCHANGED call

\* The worker gives up where it is: its claim is refused, the storage throws
\* on the claim, or its process dies.
Abandon(w) ==
    /\ job[w].pc # "idle"
    /\ job' = [job EXCEPT ![w] = IdleJob]
    /\ UNCHANGED <<letter, call, got>>

-----------------------------------------------------------------------------
SendMail(m) ==
    \/ \E u \in Mail : AnswerRepeat(m, u)
    \/ \E u \in Mail : FindPending(m, u)
    \/ Fold(m)
    \/ AddToQueue(m)
    \/ SendMailFails(m)

Work(w) ==
    \/ \E u \in Mail : Fetch(w, u)
    \/ Claim(w)
    \/ \E result \in SUBSET Addr : Settle(w, result)
    \/ Abandon(w)

Next == (\E m \in Mail : SendMail(m)) \/ (\E w \in Worker : Work(w))

Spec == Init /\ [][Next]_vars

-----------------------------------------------------------------------------
(* Properties.                                                             *)

\* However appends, pushes, lost answers and completions interleave, a mail is
\* in at most one letter and at most once: nobody is sent it by two letters.
InOneLetter ==
    \A u, v \in Mail : \A i \in DOMAIN letter[u].options, k \in DOMAIN letter[v].options :
        letter[u].options[i] = letter[v].options[k] => u = v /\ i = k

\* What ___trackAcceptedRecipients records is true: every address in an
\* option's `accepted` received a message with the body of that option, even
\* when options were folded in between the scan, the claim and the answer.
AcceptedIsReached ==
    \A u \in Mail : \A m \in DOMAIN letter[u].accepted :
        letter[u].accepted[m] \subseteq got[m]

\* A mail whose sendMail answered with a letter of its own, or with one that
\* was pushed with the same content, reached all its recipients once that
\* letter is marked sent.
PushedMailArrives ==
    \A m \in Mail :
        LET reply == call[m] IN
        reply.pc = "done" /\ reply.as = reply.uuid /\ letter[reply.uuid].end = "sent"
            => Recipients(m) \subseteq got[reply.as]

\* The same for a mail that was folded: what sendMail's description ("add
\* email to the queue or append to existing letter") promises, and the code
\* does not keep, for a letter that a scan has already copied and for one that
\* was already accepted by the shared addressee.
FoldedMailArrives ==
    \A m \in Mail :
        LET reply == call[m] IN
        reply.pc = "done" /\ letter[reply.uuid].end = "sent"
            => Recipients(m) \subseteq got[reply.as]
=============================================================================
