---------------------------- MODULE ConcatProofs ----------------------------
(***************************************************************************)
(* Proofs about Concat, for all mails, addresses and workers, however the   *)
(* copies are written and however many attempts a letter has: a mail is in  *)
(* one letter, what is recorded as accepted was, and a pushed mail arrives. *)
(***************************************************************************)
EXTENDS Concat, TLAPS

LetterType == [stored : BOOLEAN, tries : 0 .. MaxTries, isSending : BOOLEAN,
               end : {"no", "sent", "failed"}, options : Options, accepted : AcceptedType]

JobType == [pc : {"idle", "fetched", "sending"}, uuid : Mail \cup {"none"},
            tries : 0 .. MaxTries, options : Options, accepted : AcceptedType]

CallType == [pc : {"new", "append", "push", "done", "rejected"}, uuid : Mail, as : Mail]

\* What a letter, or a copy of it that a worker has, was seen to hold.
Seen(u) ==
    {m \in Mail : \/ m \in ToSet(letter[u].options)
                  \/ \E w \in Worker : job[w].uuid = u /\ m \in ToSet(job[w].options)}

\* A copy holds the mail its letter is named after, and is below the budget
\* until it is claimed.
JobsFit ==
    \A w \in Worker :
        IF job[w].pc = "idle" THEN job[w] = IdleJob
        ELSE /\ job[w].uuid \in Mail
             /\ job[w].uuid \in ToSet(job[w].options)
             /\ job[w].pc = "fetched" => job[w].tries < MaxTries

\* So does the letter, from the push on.
LettersFit ==
    \A u \in Mail : IF letter[u].stored THEN u \in ToSet(letter[u].options)
                    ELSE letter[u] = [stored |-> FALSE, tries |-> 0, isSending |-> FALSE,
                                      end |-> "no", options |-> <<>>, accepted |-> NoAccepted]

\* Only a sendMail that is over has left its mail anywhere ...
Placed ==
    \A u \in Mail : \A m \in Seen(u) : call[m].pc \in {"done", "rejected"}

\* ... and it has left it with one letter and the copies of that letter.
OneHome ==
    \A u, v \in Mail : \A m \in Seen(u) \cap Seen(v) : u = v

HomeInv == TypeOK /\ JobsFit /\ LettersFit /\ Placed /\ OneHome

\* An address that a letter, or a copy of it, records for an option received the
\* body of that option, and that of the mail the letter is named after.
Truthful(u, accepted) ==
    \A m \in DOMAIN accepted : accepted[m] \subseteq got[m] \cap got[u]

RecordsTrue ==
    /\ \A u \in Mail : Truthful(u, letter[u].accepted)
    /\ \A w \in Worker : job[w].pc # "idle" => Truthful(job[w].uuid, job[w].accepted)

\* A letter that is marked sent has reached all whom its first mail was for.
FirstArrived ==
    \A u \in Mail : letter[u].end = "sent" => Recipients(u) \subseteq got[u]

\* The mail that stands for another is for the same addresses.
RepliesFit == \A m \in Mail : Recipients(call[m].as) = Recipients(m)

DeliveryInv == RecordsTrue /\ FirstArrived /\ RepliesFit

-----------------------------------------------------------------------------
(* Options, and what is recorded for them.                                 *)

LEMMA SetOfAppend ==
    ASSUME NEW s \in Options, NEW m \in Mail
    PROVE  ToSet(Append(s, m)) = ToSet(s) \cup {m}
<1>1. s \in Seq(Mail)
  BY DEF Options
<1>2. /\ DOMAIN s = 1 .. Len(s) /\ Len(s) \in Nat
      /\ DOMAIN Append(s, m) = 1 .. Len(s) + 1
      /\ Append(s, m)[Len(s) + 1] = m
      /\ \A i \in 1 .. Len(s) : Append(s, m)[i] = s[i]
  BY <1>1
<1>3. \A x : x \in ToSet(Append(s, m)) <=> \E i \in 1 .. Len(s) + 1 : x = Append(s, m)[i]
  BY <1>2 DEF ToSet
<1>4. \A x : x \in ToSet(s) <=> \E i \in 1 .. Len(s) : x = s[i]
  BY <1>2 DEF ToSet
<1>5. ASSUME NEW x \in ToSet(Append(s, m))
      PROVE  x \in ToSet(s) \cup {m}
  <2>1. PICK i \in 1 .. Len(s) + 1 : x = Append(s, m)[i]
    BY <1>3
  <2>2. i \in 1 .. Len(s) \/ i = Len(s) + 1
    BY <1>2
  <2>3. QED
    BY <1>2, <1>4, <2>1, <2>2
<1>6. ASSUME NEW x \in ToSet(s) \cup {m}
      PROVE  x \in ToSet(Append(s, m))
  <2>1. CASE x = m
    BY <1>2, <1>3, <2>1
  <2>2. CASE x \in ToSet(s)
    <3>1. PICK i \in 1 .. Len(s) : x = s[i]
      BY <1>4, <2>2
    <3>2. i \in 1 .. Len(s) + 1 /\ x = Append(s, m)[i]
      BY <1>2, <3>1
    <3>3. QED
      BY <1>3, <3>2
  <2>3. QED
    BY <1>6, <2>1, <2>2
<1>7. QED
  BY <1>5, <1>6

\* A mail that is not in a letter can be folded into it.
LEMMA AppendFits ==
    ASSUME NEW s \in Options, NEW m \in Mail, m \notin ToSet(s)
    PROVE  Append(s, m) \in Options
<1>1. s \in Seq(Mail) /\ IsInjective(s)
  BY DEF Options
<1>2. /\ DOMAIN s = 1 .. Len(s) /\ Len(s) \in Nat
      /\ DOMAIN Append(s, m) = 1 .. Len(s) + 1
      /\ Append(s, m)[Len(s) + 1] = m
      /\ \A i \in 1 .. Len(s) : Append(s, m)[i] = s[i]
      /\ Append(s, m) \in Seq(Mail)
  BY <1>1
<1>3. \A i \in 1 .. Len(s) : s[i] # m
  BY <1>2 DEF ToSet
<1>4. ASSUME NEW i \in 1 .. Len(s) + 1, NEW k \in 1 .. Len(s) + 1,
             Append(s, m)[i] = Append(s, m)[k]
      PROVE  i = k
  <2>1. /\ i \in 1 .. Len(s) \/ i = Len(s) + 1
        /\ k \in 1 .. Len(s) \/ k = Len(s) + 1
    BY <1>2
  <2>2. CASE i \in 1 .. Len(s) /\ k \in 1 .. Len(s)
    BY <1>1, <1>2, <1>4, <2>2 DEF IsInjective
  <2>3. CASE i = Len(s) + 1 /\ k \in 1 .. Len(s)
    BY <1>2, <1>3, <1>4, <2>3
  <2>4. CASE i \in 1 .. Len(s) /\ k = Len(s) + 1
    BY <1>2, <1>3, <1>4, <2>4
  <2>5. QED
    BY <2>1, <2>2, <2>3, <2>4
<1>5. IsInjective(Append(s, m))
  BY <1>2, <1>4 DEF IsInjective
<1>6. QED
  BY <1>2, <1>5 DEF Options

\* The options of a letter that was just pushed, and of none.
LEMMA FirstOptions ==
    /\ <<>> \in Options /\ ToSet(<<>>) = {}
    /\ \A m \in Mail : <<m>> \in Options /\ ToSet(<<m>>) = {m}
<1>1. <<>> \in Options
  BY DEF Options, IsInjective
<1>2. ToSet(<<>>) = {}
  BY DEF ToSet
<1>3. ASSUME NEW m \in Mail
      PROVE  <<m>> \in Options /\ ToSet(<<m>>) = {m}
  <2>1. DOMAIN <<m>> = {1} /\ <<m>>[1] = m /\ <<m>> \in Seq(Mail)
    OBVIOUS
  <2>2. QED
    BY <2>1 DEF Options, IsInjective, ToSet
<1>4. QED
  BY <1>1, <1>2, <1>3

LEMMA MailsOfOptions ==
    ASSUME NEW s \in Options
    PROVE  ToSet(s) \subseteq Mail
<1>1. s \in Seq(Mail)
  BY DEF Options
<1>2. \A i \in DOMAIN s : s[i] \in Mail
  BY <1>1
<1>3. QED
  BY <1>2 DEF ToSet

LEMMA AcceptedTypes ==
    /\ NoAccepted \in AcceptedType /\ DOMAIN NoAccepted = {}
    /\ \A s \in Options, accepted \in AcceptedType, result \in SUBSET Addr :
          Tracked(s, accepted, result) \in AcceptedType
<1>1. NoAccepted \in [{} -> SUBSET Addr] /\ {} \in SUBSET Mail
  BY DEF NoAccepted
<1>2. ASSUME NEW s \in Options, NEW accepted \in AcceptedType, NEW result \in SUBSET Addr
      PROVE  Tracked(s, accepted, result) \in AcceptedType
  <2>1. PICK D \in SUBSET Mail : accepted \in [D -> SUBSET Addr]
    BY DEF AcceptedType
  <2>2. \A m \in DOMAIN accepted : accepted[m] \in SUBSET Addr
    BY <2>1
  <2>3. Tracked(s, accepted, result) \in [ToSet(s) -> SUBSET Addr]
    BY <2>2 DEF Tracked
  <2>4. ToSet(s) \in SUBSET Mail
    BY MailsOfOptions
  <2>5. QED
    BY <2>3, <2>4 DEF AcceptedType
<1>3. QED
  BY <1>1, <1>2 DEF AcceptedType, NoAccepted

LEMMA AppendedTo ==
    ASSUME TypeOK, NEW m \in Mail, Appended(m), m \notin ToSet(letter[call[m].uuid].options)
    PROVE  /\ letter' \in [Mail -> LetterType]
           /\ \A v \in Mail : v # call[m].uuid => letter'[v] = letter[v]
           /\ LET l == letter[call[m].uuid]
                  r == letter'[call[m].uuid]
              IN  /\ ToSet(r.options) = ToSet(l.options) \cup {m}
                  /\ r.stored = l.stored /\ r.end = l.end /\ r.accepted = l.accepted
<1> DEFINE u == call[m].uuid
           s == letter[u].options
<1>1. letter \in [Mail -> LetterType] /\ u \in Mail
  BY DEF TypeOK, LetterType
<1>2. s \in Options /\ Append(s, m) \in Options /\ ToSet(Append(s, m)) = ToSet(s) \cup {m}
  BY <1>1, AppendFits, SetOfAppend DEF LetterType
<1>3. letter' = [letter EXCEPT ![u] = [letter[u] EXCEPT !.options = Append(s, m)]]
  BY <1>1 DEF Appended
<1> HIDE DEF u, s
<1>4. [letter[u] EXCEPT !.options = Append(s, m)] \in LetterType
  BY <1>1, <1>2 DEF LetterType
<1>5. letter'[u] = [letter[u] EXCEPT !.options = Append(s, m)]
  BY <1>1, <1>3
<1>6. /\ letter'[u].options = Append(s, m) /\ letter'[u].stored = letter[u].stored
      /\ letter'[u].end = letter[u].end /\ letter'[u].accepted = letter[u].accepted
  BY <1>1, <1>5 DEF LetterType
<1>7. QED
  BY <1>1, <1>2, <1>3, <1>4, <1>6 DEF u, s

LEMMA PushedTo ==
    ASSUME TypeOK, LettersFit, NEW m \in Mail, Pushed(m), ~letter[m].stored
    PROVE  /\ letter' \in [Mail -> LetterType]
           /\ \A v \in Mail : v # m => letter'[v] = letter[v]
           /\ ToSet(letter'[m].options) = {m} /\ letter'[m].stored
           /\ letter'[m].end = "no" /\ letter'[m].accepted = NoAccepted
<1>1. letter \in [Mail -> LetterType]
  BY DEF TypeOK, LetterType
<1>2. letter[m].end = "no" /\ letter[m].accepted = NoAccepted
  BY DEF LettersFit
<1>3. <<m>> \in Options /\ ToSet(<<m>>) = {m}
  BY FirstOptions
<1>4. letter' = [letter EXCEPT ![m] = [letter[m] EXCEPT !.stored = TRUE, !.options = <<m>>]]
  BY <1>1 DEF Pushed
<1>5. [letter[m] EXCEPT !.stored = TRUE, !.options = <<m>>] \in LetterType
  BY <1>1, <1>3 DEF LetterType
<1>6. letter'[m] = [letter[m] EXCEPT !.stored = TRUE, !.options = <<m>>]
  BY <1>1, <1>4
<1>7. /\ letter'[m].options = <<m>> /\ letter'[m].stored
      /\ letter'[m].end = letter[m].end /\ letter'[m].accepted = letter[m].accepted
  BY <1>1, <1>6 DEF LetterType
<1>8. QED
  BY <1>1, <1>2, <1>3, <1>4, <1>5, <1>7

\* What a completion makes of a letter.
LEMMA WrittenTo ==
    ASSUME NEW j \in JobType, NEW l \in LetterType, NEW result \in SUBSET Addr
    PROVE  LET r == Written(j, result, l)
           IN  /\ r \in LetterType /\ r.stored = l.stored
               /\ \/ r.options = l.options /\ r.accepted = l.accepted /\ r.end = l.end
                  \/ /\ r.options = j.options /\ r.end # "sent"
                     /\ r.accepted = j.accepted \/ r.accepted = Tracked(j.options, j.accepted, result)
                  \/ /\ r.options = j.options
                     /\ r.accepted = Tracked(j.options, j.accepted, result)
                     /\ AllRecipients(j.options) \subseteq AcceptedSet(r.accepted)
<1> DEFINE tracked == Tracked(j.options, j.accepted, result)
           kept == IF result = {} THEN j.accepted ELSE tracked
           outcome == Outcome(j, result, kept)
           back == [l EXCEPT !.isSending = FALSE]
           whole == [l EXCEPT !.isSending = FALSE, !.end = outcome,
                              !.options = j.options, !.accepted = kept]
<1>1. tracked \in AcceptedType /\ kept \in AcceptedType /\ j.options \in Options
  BY AcceptedTypes DEF JobType
<1>2. outcome \in {"no", "sent", "failed"}
  BY DEF Outcome
<1>3. outcome = "sent" => result # {} /\ AllRecipients(j.options) \subseteq AcceptedSet(kept)
  BY DEF Outcome
<1>4. Written(j, result, l) = IF result = {} /\ j.tries < MaxTries THEN back ELSE whole
  BY DEF Written
<1> HIDE DEF tracked, outcome
<1>5. CASE Written(j, result, l) = back
  <2>1. /\ back \in LetterType /\ back.stored = l.stored /\ back.options = l.options
        /\ back.accepted = l.accepted /\ back.end = l.end
    BY DEF LetterType
  <2>2. QED
    BY <1>5, <2>1
<1>6. CASE Written(j, result, l) = whole
  <2>1. /\ whole \in LetterType /\ whole.stored = l.stored /\ whole.options = j.options
        /\ whole.accepted = kept /\ whole.end = outcome
    BY <1>1, <1>2 DEF LetterType
  <2>2. kept \in {j.accepted, tracked}
    OBVIOUS
  <2> HIDE DEF kept, whole
  <2>3. outcome = "sent" => kept = tracked
    BY <1>3 DEF kept
  <2>4. QED
    BY <1>3, <1>6, <2>1, <2>2, <2>3 DEF tracked
<1>7. QED
  BY <1>4, <1>5, <1>6

-----------------------------------------------------------------------------
(* A mail has one letter.                                                  *)

LEMMA InitHome == Init => HomeInv
<1> SUFFICES ASSUME Init PROVE HomeInv
  OBVIOUS
<1>1. /\ \A u \in Mail : letter[u] = [stored |-> FALSE, tries |-> 0, isSending |-> FALSE,
                                      end |-> "no", options |-> <<>>, accepted |-> NoAccepted]
      /\ \A w \in Worker : job[w] = IdleJob
  BY DEF Init
<1>2. \A u \in Mail : Seen(u) = {}
  <2>1. IdleJob.options = <<>>
    BY DEF IdleJob
  <2>2. QED
    BY <1>1, <2>1, FirstOptions DEF Seen
<1>3. TypeOK
  <2>1. <<>> \in Options /\ NoAccepted \in AcceptedType /\ 0 \in 0 .. MaxTries
    BY FirstOptions, AcceptedTypes, MaxTriesAssumption
  <2>2. IdleJob \in JobType
    BY <2>1 DEF IdleJob, JobType
  <2>3. [stored |-> FALSE, tries |-> 0, isSending |-> FALSE, end |-> "no",
         options |-> <<>>, accepted |-> NoAccepted] \in LetterType
    BY <2>1 DEF LetterType
  <2>4. letter \in [Mail -> LetterType] /\ job \in [Worker -> JobType]
    BY <2>2, <2>3 DEF Init
  <2>5. call \in [Mail -> CallType] /\ got \in [Mail -> SUBSET Addr]
    BY DEF Init, CallType
  <2>6. QED
    BY <2>4, <2>5 DEF TypeOK, LetterType, JobType, CallType
<1>4. JobsFit /\ LettersFit
  <2>1. IdleJob.pc = "idle"
    BY DEF IdleJob
  <2>2. \A u \in Mail : ~letter[u].stored
    BY <1>1
  <2>3. JobsFit
    BY <1>1, <2>1 DEF JobsFit
  <2>4. LettersFit
    BY <1>1, <2>2, Zenon DEF LettersFit
  <2>5. QED
    BY <2>3, <2>4
<1>5. Placed /\ OneHome
  BY <1>2 DEF Placed, OneHome
<1>6. QED
  BY <1>3, <1>4, <1>5 DEF HomeInv

\* A sendMail that only answers, or only looks, moves no mail.
LEMMA NothingSeen ==
    ASSUME HomeInv, TypeOK', JobsFit', LettersFit',
           \A u \in Mail : Seen(u)' \subseteq Seen(u),
           \A m \in Mail : call[m].pc \in {"done", "rejected"} => call'[m] = call[m]
    PROVE  HomeInv'
<1>1. \A u \in Mail : Seen(u) \subseteq Mail
  BY DEF Seen
<1>2. Placed'
  BY <1>1 DEF HomeInv, Placed
<1>3. OneHome'
  BY DEF HomeInv, OneHome
<1>4. QED
  BY <1>2, <1>3 DEF HomeInv

\* One that is over has left its mail with one letter, where none was before.
LEMMA OneSeen ==
    ASSUME HomeInv, TypeOK', JobsFit', LettersFit',
           NEW m \in Mail, call[m].pc \notin {"done", "rejected"},
           call'[m].pc \in {"done", "rejected"}, NEW u \in Mail,
           Seen(u)' \subseteq Seen(u) \cup {m},
           \A v \in Mail : v # u => Seen(v)' \subseteq Seen(v),
           \A n \in Mail : n # m => call'[n] = call[n]
    PROVE  HomeInv'
<1>1. \A v \in Mail : Seen(v) \subseteq Mail /\ m \notin Seen(v)
  BY DEF HomeInv, Placed, Seen
<1>2. Placed'
  BY <1>1 DEF HomeInv, Placed
<1>3. OneHome'
  <2> SUFFICES ASSUME NEW v \in Mail, NEW x \in Mail, NEW n \in Seen(v)' \cap Seen(x)'
               PROVE  v = x
    BY DEF OneHome
  <2>1. CASE n = m
    BY <1>1, <2>1
  <2>2. CASE n # m
    <3>1. n \in Seen(v) /\ n \in Seen(x)
      BY <2>2
    <3>2. QED
      BY <3>1 DEF HomeInv, OneHome
  <2>3. QED
    BY <2>1, <2>2
<1>4. QED
  BY <1>2, <1>3 DEF HomeInv

\* A call that is not over has left its mail nowhere.
LEMMA NotYetSeen ==
    ASSUME HomeInv, NEW m \in Mail, call[m].pc \notin {"done", "rejected"}
    PROVE  /\ \A u \in Mail : m \notin ToSet(letter[u].options)
           /\ \A w \in Worker : m \notin ToSet(job[w].options)
           /\ ~letter[m].stored
<1>1. \A u \in Mail : m \notin ToSet(letter[u].options)
  BY DEF HomeInv, Placed, Seen
<1>2. \A w \in Worker : m \notin ToSet(job[w].options)
  <2> SUFFICES ASSUME NEW w \in Worker, m \in ToSet(job[w].options) PROVE FALSE
    OBVIOUS
  <2>1. CASE job[w].pc = "idle"
    BY <2>1, FirstOptions DEF HomeInv, JobsFit, IdleJob
  <2>2. CASE job[w].pc # "idle"
    <3>1. m \in Seen(job[w].uuid) /\ job[w].uuid \in Mail
      BY <2>2 DEF HomeInv, JobsFit, Seen
    <3>2. QED
      BY <3>1 DEF HomeInv, Placed
  <2>3. QED
    BY <2>1, <2>2
<1>3. letter[m].stored => m \in ToSet(letter[m].options)
  BY DEF HomeInv, LettersFit
<1>4. QED
  BY <1>1, <1>2, <1>3

LEMMA FoldHome ==
    ASSUME HomeInv, NEW m \in Mail, call[m].pc = "append", Appendable(call[m].uuid),
           Appended(m), job' = job, call' \in [Mail -> CallType], got' = got,
           call'[m].pc \in {"done", "rejected"},
           \A n \in Mail : n # m => call'[n] = call[n]
    PROVE  HomeInv'
<1>0. PICK u \in Mail : u = call[m].uuid
  BY DEF HomeInv, TypeOK
<1>1. /\ u \in Mail /\ letter[u].stored
      /\ m \notin ToSet(letter[u].options)
  BY <1>0, NotYetSeen DEF Appendable, Open
<1>2. /\ letter' \in [Mail -> LetterType]
      /\ \A v \in Mail : v # u => letter'[v] = letter[v]
      /\ ToSet(letter'[u].options) = ToSet(letter[u].options) \cup {m}
      /\ letter'[u].stored
  BY <1>0, <1>1, AppendedTo DEF HomeInv
<1>3. TypeOK'
  BY <1>2 DEF HomeInv, TypeOK, LetterType, CallType
<1>4. JobsFit' /\ LettersFit'
  BY <1>1, <1>2 DEF HomeInv, JobsFit, LettersFit
<1>5. Seen(u)' \subseteq Seen(u) \cup {m}
  BY <1>2 DEF Seen
<1>6. ASSUME NEW v \in Mail, v # u
      PROVE  Seen(v)' \subseteq Seen(v)
  BY <1>2, <1>6 DEF Seen
<1>7. call[m].pc \notin {"done", "rejected"}
  OBVIOUS
<1>8. QED
  BY <1>1, <1>3, <1>4, <1>5, <1>6, <1>7, OneSeen

LEMMA PushHome ==
    ASSUME HomeInv, NEW m \in Mail, Pushing(m), Pushed(m),
           job' = job, call' \in [Mail -> CallType], got' = got,
           call'[m].pc \in {"done", "rejected"},
           \A n \in Mail : n # m => call'[n] = call[n]
    PROVE  HomeInv'
<1>1. call[m].pc \notin {"done", "rejected"} /\ ~letter[m].stored
  BY NotYetSeen DEF Pushing
<1>2. /\ letter' \in [Mail -> LetterType]
      /\ \A v \in Mail : v # m => letter'[v] = letter[v]
      /\ ToSet(letter'[m].options) = {m} /\ letter'[m].stored
  BY <1>1, PushedTo DEF HomeInv
<1>3. TypeOK'
  BY <1>2 DEF HomeInv, TypeOK, LetterType, CallType
<1>4. JobsFit' /\ LettersFit'
  BY <1>2 DEF HomeInv, JobsFit, LettersFit
<1>5. Seen(m)' \subseteq Seen(m) \cup {m} /\ \A v \in Mail : v # m => Seen(v)' \subseteq Seen(v)
  BY <1>2 DEF Seen
<1>6. QED
  BY <1>1, <1>3, <1>4, <1>5, OneSeen

\* What becomes of a call leaves the other calls alone.
LEMMA CallBecomes ==
    ASSUME HomeInv, NEW m \in Mail, NEW c \in CallType, call' = [call EXCEPT ![m] = c]
    PROVE  /\ call' \in [Mail -> CallType] /\ call'[m] = c
           /\ \A n \in Mail : n # m => call'[n] = call[n]
<1>1. call \in [Mail -> CallType]
  BY DEF HomeInv, TypeOK, CallType
<1>2. QED
  BY <1>1

\* What the steps of sendMail make of a call.
LEMMA CallSteps ==
    ASSUME NEW c \in CallType, NEW u \in Mail
    PROVE  /\ [c EXCEPT !.pc = "done"] \in CallType
           /\ [c EXCEPT !.pc = "append", !.uuid = u] \in CallType
           /\ [c EXCEPT !.pc = "push", !.uuid = u] \in CallType
           /\ [c EXCEPT !.pc = "rejected", !.uuid = u] \in CallType
           /\ [c EXCEPT !.pc = "done"].pc = "done"
           /\ [c EXCEPT !.pc = "rejected", !.uuid = u].pc = "rejected"
BY DEF CallType

LEMMA SendMailHome ==
    ASSUME HomeInv, NEW m \in Mail, SendMail(m)
    PROVE  HomeInv'
<1>1. call \in [Mail -> CallType]
  BY DEF HomeInv, TypeOK, CallType
<1>2. /\ [call[m] EXCEPT !.pc = "done"] \in CallType
      /\ [call[m] EXCEPT !.pc = "done"].pc = "done"
      /\ [call[m] EXCEPT !.pc = "push", !.uuid = m] \in CallType
      /\ [call[m] EXCEPT !.pc = "rejected", !.uuid = m] \in CallType
      /\ [call[m] EXCEPT !.pc = "rejected", !.uuid = m].pc = "rejected"
  BY <1>1, CallSteps
<1>3. ASSUME NEW u \in Mail, AnswerRepeat(m, u) \/ FindPending(m, u)
      PROVE  HomeInv'
  <2>1. /\ letter' = letter /\ job' = job /\ got' = got /\ call[m].pc = "new"
        /\ call' \in [Mail -> CallType]
        /\ \A n \in Mail : n # m => call'[n] = call[n]
    <3>1. CASE AnswerRepeat(m, u)
      <4>1. PICK n \in Mail :
              call' = [call EXCEPT ![m] = [pc |-> "done", uuid |-> u, as |-> n]]
        BY <3>1 DEF AnswerRepeat
      <4>2. [pc |-> "done", uuid |-> u, as |-> n] \in CallType
        BY DEF CallType
      <4>3. QED
        BY <3>1, <4>1, <4>2, CallBecomes DEF AnswerRepeat
    <3>2. CASE FindPending(m, u)
      <4>1. call' = [call EXCEPT ![m] = [call[m] EXCEPT !.pc = "append", !.uuid = u]]
        BY <1>1, <3>2 DEF FindPending
      <4>2. [call[m] EXCEPT !.pc = "append", !.uuid = u] \in CallType
        BY <1>1, CallSteps
      <4>3. QED
        BY <3>2, <4>1, <4>2, CallBecomes DEF FindPending
    <3>3. QED
      BY <1>3, <3>1, <3>2
  <2>2. TypeOK'
    BY <2>1 DEF HomeInv, TypeOK, CallType
  <2>3. JobsFit' /\ LettersFit' /\ \A v \in Mail : Seen(v)' = Seen(v)
    BY <2>1 DEF HomeInv, JobsFit, LettersFit, Seen
  <2>4. QED
    BY <2>1, <2>2, <2>3, NothingSeen
<1>4. CASE Fold(m)
  <2>1. CASE Appendable(call[m].uuid)
    <3>1. /\ call[m].pc = "append" /\ Appended(m) /\ job' = job /\ got' = got
          /\ call' = [call EXCEPT ![m] = [call[m] EXCEPT !.pc = "done"]]
      BY <1>1, <1>4, <2>1 DEF Fold
    <3>2. /\ call' \in [Mail -> CallType] /\ call'[m].pc = "done"
          /\ \A n \in Mail : n # m => call'[n] = call[n]
      BY <1>1, <3>1, <1>2, CallBecomes
    <3>3. QED
      BY <2>1, <3>1, <3>2, FoldHome
  <2>2. CASE ~Appendable(call[m].uuid)
    <3>1. /\ letter' = letter /\ job' = job /\ got' = got
          /\ call[m].pc = "append"
          /\ call' = [call EXCEPT ![m] = [call[m] EXCEPT !.pc = "push", !.uuid = m]]
      BY <1>1, <1>4, <2>2 DEF Fold
    <3>2. /\ call' \in [Mail -> CallType]
          /\ \A n \in Mail : n # m => call'[n] = call[n]
      BY <1>1, <3>1, <1>2, CallBecomes
    <3>3. TypeOK'
      BY <3>1, <3>2 DEF HomeInv, TypeOK, CallType
    <3>4. JobsFit' /\ LettersFit' /\ \A v \in Mail : Seen(v)' = Seen(v)
      BY <3>1 DEF HomeInv, JobsFit, LettersFit, Seen
    <3>5. QED
      BY <3>1, <3>2, <3>3, <3>4, NothingSeen
  <2>3. QED
    BY <2>1, <2>2
<1>5. CASE AddToQueue(m)
  <2>1. /\ Pushing(m) /\ Pushed(m) /\ job' = job /\ got' = got
        /\ call' = [call EXCEPT ![m] = [call[m] EXCEPT !.pc = "done"]]
    BY <1>1, <1>5 DEF AddToQueue
  <2>2. /\ call' \in [Mail -> CallType] /\ call'[m].pc = "done"
        /\ \A n \in Mail : n # m => call'[n] = call[n]
    BY <1>1, <2>1, <1>2, CallBecomes
  <2>3. QED
    BY <2>1, <2>2, PushHome
<1>6. CASE SendMailFails(m)
  <2>1. /\ job' = job /\ got' = got
        /\ call' = [call EXCEPT ![m] = [call[m] EXCEPT !.pc = "rejected", !.uuid = m]]
        /\ \/ call[m].pc = "append" /\ Appendable(call[m].uuid) /\ Appended(m)
           \/ Pushing(m) /\ Pushed(m)
    BY <1>1, <1>6 DEF SendMailFails
  <2>2. /\ call' \in [Mail -> CallType] /\ call'[m].pc = "rejected"
        /\ \A n \in Mail : n # m => call'[n] = call[n]
    BY <1>1, <2>1, <1>2, CallBecomes
  <2>3. QED
    BY <2>1, <2>2, FoldHome, PushHome
<1>7. QED
  BY <1>3, <1>4, <1>5, <1>6 DEF SendMail

LEMMA SeenShrinks ==
    ASSUME \A v \in Mail : ToSet(letter'[v].options) \subseteq Seen(v),
           \A x \in Worker, v \in Mail :
              job'[x].uuid = v => ToSet(job'[x].options) \subseteq Seen(v)
    PROVE  \A v \in Mail : Seen(v)' \subseteq Seen(v)
BY DEF Seen

LEMMA SeenHere ==
    ASSUME HomeInv
    PROVE  /\ \A v \in Mail : ToSet(letter[v].options) \subseteq Seen(v)
           /\ \A x \in Worker, v \in Mail :
                 job[x].uuid = v => ToSet(job[x].options) \subseteq Seen(v)
<1>1. letter \in [Mail -> LetterType] /\ job \in [Worker -> JobType]
  BY DEF HomeInv, TypeOK, LetterType, JobType
<1>2. /\ \A v \in Mail : ToSet(letter[v].options) \subseteq Mail
      /\ \A x \in Worker : ToSet(job[x].options) \subseteq Mail
  BY <1>1, MailsOfOptions DEF LetterType, JobType
<1>3. QED
  BY <1>2 DEF Seen

LEMMA IdleFits ==
    /\ IdleJob \in JobType /\ IdleJob.pc = "idle" /\ ToSet(IdleJob.options) = {}
<1>1. <<>> \in Options /\ NoAccepted \in AcceptedType /\ 0 \in 0 .. MaxTries /\ ToSet(<<>>) = {}
  BY FirstOptions, AcceptedTypes, MaxTriesAssumption
<1>2. QED
  BY <1>1 DEF IdleJob, JobType

\* A worker that takes a new place in hand leaves the others theirs.
LEMMA JobBecomes ==
    ASSUME HomeInv, NEW w \in Worker, NEW j \in JobType, job' = [job EXCEPT ![w] = j]
    PROVE  /\ job' \in [Worker -> JobType] /\ job'[w] = j
           /\ \A x \in Worker : x # w => job'[x] = job[x]
<1>1. job \in [Worker -> JobType]
  BY DEF HomeInv, TypeOK, JobType
<1>2. QED
  BY <1>1

LEMMA FetchHome ==
    ASSUME HomeInv, NEW w \in Worker, NEW u \in Mail, Fetch(w, u)
    PROVE  HomeInv'
<1> DEFINE l == letter[u]
           j == [pc |-> "fetched", uuid |-> u, tries |-> l.tries,
                 options |-> l.options, accepted |-> l.accepted]
<1>1. /\ l \in LetterType /\ l.stored /\ l.tries < MaxTries
      /\ letter' = letter /\ call' = call /\ got' = got /\ job' = [job EXCEPT ![w] = j]
  BY DEF HomeInv, TypeOK, LetterType, Fetch, Due, Open
<1>2. j \in JobType
  BY <1>1 DEF LetterType, JobType
<1>3. job' \in [Worker -> JobType] /\ job'[w] = j /\ \A x \in Worker : x # w => job'[x] = job[x]
  <2> HIDE DEF j
  <2>1. QED
    BY <1>1, <1>2, JobBecomes
<1>4. /\ job'[w].pc = "fetched" /\ job'[w].uuid = u /\ job'[w].tries < MaxTries
      /\ job'[w].options = letter[u].options
  BY <1>1, <1>3
<1> HIDE DEF l, j
<1>5. TypeOK'
  BY <1>1, <1>3 DEF HomeInv, TypeOK, JobType
<1>6. JobsFit' /\ LettersFit'
  <2>1. u \in ToSet(letter[u].options)
    BY <1>1 DEF HomeInv, LettersFit, l
  <2>2. JobsFit'
    BY <1>3, <1>4, <2>1 DEF HomeInv, JobsFit
  <2>3. LettersFit'
    BY <1>1 DEF HomeInv, LettersFit
  <2>4. QED
    BY <2>2, <2>3
<1>7. \A v \in Mail : Seen(v)' \subseteq Seen(v)
  <2>1. \A v \in Mail : ToSet(letter'[v].options) \subseteq Seen(v)
    BY <1>1, SeenHere
  <2>2. ASSUME NEW x \in Worker, NEW v \in Mail, job'[x].uuid = v
        PROVE  ToSet(job'[x].options) \subseteq Seen(v)
    BY <1>3, <1>4, <2>2, SeenHere
  <2>3. QED
    BY <2>1, <2>2, SeenShrinks
<1>8. QED
  BY <1>1, <1>5, <1>6, <1>7, NothingSeen

\* What a claim makes of the letter and of the copy.
LEMMA ClaimMakes ==
    ASSUME HomeInv, NEW w \in Worker, Claim(w)
    PROVE  /\ job[w].uuid \in Mail /\ job[w].pc = "fetched"
           /\ letter' \in [Mail -> LetterType] /\ job' \in [Worker -> JobType]
           /\ call' = call /\ got' = got
           /\ \A v \in Mail : /\ letter'[v].stored = letter[v].stored
                              /\ letter'[v].options = letter[v].options
                              /\ letter'[v].accepted = letter[v].accepted
                              /\ letter'[v].end = letter[v].end
                              /\ ~letter[v].stored => letter'[v] = letter[v]
           /\ \A x \in Worker : x # w => job'[x] = job[x]
           /\ job'[w].pc = "sending" /\ job'[w].uuid = job[w].uuid
           /\ job'[w].options = job[w].options /\ job'[w].accepted = job[w].accepted
<1>1. PICK j \in JobType : j = job[w]
  BY DEF HomeInv, TypeOK, JobType
<1>2. PICK u \in Mail : u = j.uuid
  BY <1>1 DEF HomeInv, JobsFit, Claim
<1>3. PICK l \in LetterType : l = letter[u]
  BY DEF HomeInv, TypeOK, LetterType
<1>4. /\ j.pc = "fetched" /\ l.stored
      /\ letter' = [letter EXCEPT ![u] = [letter[u] EXCEPT !.isSending = TRUE,
                                                            !.tries = j.tries + 1]]
      /\ job' = [job EXCEPT ![w] = [j EXCEPT !.pc = "sending", !.tries = j.tries + 1]]
      /\ call' = call /\ got' = got
  BY <1>1, <1>2, <1>3 DEF HomeInv, TypeOK, Claim, CanClaim, Open
<1>5. j.tries + 1 \in 0 .. MaxTries
  BY <1>1, <1>4, MaxTriesAssumption DEF HomeInv, JobsFit, JobType
<1> DEFINE k == [j EXCEPT !.pc = "sending", !.tries = j.tries + 1]
           r == [l EXCEPT !.isSending = TRUE, !.tries = j.tries + 1]
<1>6. /\ k \in JobType /\ k.pc = "sending" /\ k.uuid = j.uuid
      /\ k.options = j.options /\ k.accepted = j.accepted
  BY <1>5 DEF JobType
<1>7. /\ r \in LetterType /\ r.stored = l.stored /\ r.options = l.options
      /\ r.accepted = l.accepted /\ r.end = l.end
  BY <1>5 DEF LetterType
<1>8. letter' = [letter EXCEPT ![u] = r] /\ job' = [job EXCEPT ![w] = k]
  BY <1>3, <1>4
<1>9. letter \in [Mail -> LetterType] /\ job \in [Worker -> JobType]
  BY DEF HomeInv, TypeOK, LetterType, JobType
<1> HIDE DEF k, r
<1>10. /\ letter' \in [Mail -> LetterType] /\ letter'[u] = r
       /\ \A v \in Mail : v # u => letter'[v] = letter[v]
  BY <1>7, <1>8, <1>9
<1>11. /\ job' \in [Worker -> JobType] /\ job'[w] = k
       /\ \A x \in Worker : x # w => job'[x] = job[x]
  BY <1>6, <1>8, <1>9
<1>12. \A v \in Mail : /\ letter'[v].stored = letter[v].stored
                       /\ letter'[v].options = letter[v].options
                       /\ letter'[v].accepted = letter[v].accepted
                       /\ letter'[v].end = letter[v].end
                       /\ ~letter[v].stored => letter'[v] = letter[v]
  BY <1>3, <1>4, <1>7, <1>10
<1>13. QED
  BY <1>1, <1>2, <1>4, <1>6, <1>10, <1>11, <1>12

LEMMA ClaimHome ==
    ASSUME HomeInv, NEW w \in Worker, Claim(w)
    PROVE  HomeInv'
<1>1. TypeOK'
  BY ClaimMakes DEF HomeInv, TypeOK, LetterType, JobType
<1>2. JobsFit'
  BY ClaimMakes DEF HomeInv, JobsFit
<1>3. LettersFit'
  <2> SUFFICES ASSUME NEW v \in Mail
               PROVE  IF letter'[v].stored THEN v \in ToSet(letter'[v].options)
                      ELSE letter'[v] = [stored |-> FALSE, tries |-> 0, isSending |-> FALSE,
                                         end |-> "no", options |-> <<>>, accepted |-> NoAccepted]
    BY Zenon DEF LettersFit
  <2>1. CASE letter[v].stored
    BY <2>1, ClaimMakes DEF HomeInv, LettersFit
  <2>2. CASE ~letter[v].stored
    <3>1. letter'[v] = letter[v]
      BY <2>2, ClaimMakes
    <3>2. QED
      BY <2>2, <3>1, Zenon DEF HomeInv, LettersFit
  <2>3. QED
    BY <2>1, <2>2
<1>4. \A v \in Mail : Seen(v)' \subseteq Seen(v)
  <2>1. \A v \in Mail : ToSet(letter'[v].options) \subseteq Seen(v)
    BY ClaimMakes, SeenHere
  <2>2. ASSUME NEW x \in Worker, NEW v \in Mail, job'[x].uuid = v
        PROVE  ToSet(job'[x].options) \subseteq Seen(v)
    <3>1. job'[x].uuid = job[x].uuid /\ job'[x].options = job[x].options
      BY ClaimMakes
    <3>2. QED
      BY <2>2, <3>1, SeenHere
  <2>3. QED
    BY <2>1, <2>2, SeenShrinks
<1>5. QED
  BY <1>1, <1>2, <1>3, <1>4, ClaimMakes, NothingSeen

\* What a completion makes of the letter, of the copy and of the mailboxes.
LEMMA SettleMakes ==
    ASSUME HomeInv, NEW w \in Worker, NEW result \in SUBSET Addr, Settle(w, result)
    PROVE  LET j == job[w]
               u == job[w].uuid
               tracked == Tracked(j.options, j.accepted, result)
           IN  /\ j \in JobType /\ j.pc = "sending" /\ u \in Mail /\ u \in ToSet(j.options)
               /\ letter' \in [Mail -> LetterType] /\ job' = [job EXCEPT ![w] = IdleJob]
               /\ call' = call /\ got' \in [Mail -> SUBSET Addr]
               /\ \A m \in Mail : /\ got[m] \subseteq got'[m]
                                  /\ m \in ToSet(j.options) => got'[m] = got[m] \cup result
               /\ \A v \in Mail : v # u => letter'[v] = letter[v]
               /\ letter[u].stored => letter'[u].stored
               /\ ~letter[u].stored => letter'[u] = letter[u]
               /\ \/ /\ letter'[u].options = letter[u].options
                     /\ letter'[u].accepted = letter[u].accepted
                     /\ letter'[u].end = letter[u].end
                  \/ /\ letter'[u].options = j.options /\ letter'[u].end # "sent"
                     /\ letter'[u].accepted \in {j.accepted, tracked}
                  \/ /\ letter'[u].options = j.options /\ letter'[u].accepted = tracked
                     /\ AllRecipients(j.options) \subseteq AcceptedSet(letter'[u].accepted)
<1>1. PICK j \in JobType : j = job[w]
  BY DEF HomeInv, TypeOK, JobType
<1>2. j.pc = "sending"
  BY <1>1 DEF Settle
<1>3. PICK u \in Mail : u = j.uuid /\ u \in ToSet(j.options)
  BY <1>1, <1>2 DEF HomeInv, JobsFit
<1>4. letter \in [Mail -> LetterType] /\ got \in [Mail -> SUBSET Addr]
  BY DEF HomeInv, TypeOK, LetterType
<1>5. job' = [job EXCEPT ![w] = IdleJob] /\ call' = call
  BY DEF Settle
<1>6. got' = [m \in Mail |-> IF m \in ToSet(j.options) THEN got[m] \cup result ELSE got[m]]
  BY <1>1 DEF Settle
<1>7. /\ got' \in [Mail -> SUBSET Addr]
      /\ \A m \in Mail : /\ got[m] \subseteq got'[m]
                         /\ m \in ToSet(j.options) => got'[m] = got[m] \cup result
  BY <1>4, <1>6
<1>8. \/ letter' = letter
      \/ letter[u].stored /\ letter' = [letter EXCEPT ![u] = Written(j, result, letter[u])]
  BY <1>1, <1>3, <1>4 DEF Settle, HoldsLease
<1>9. CASE letter' = letter
  BY <1>1, <1>2, <1>3, <1>4, <1>5, <1>7, <1>9
<1>10. CASE letter[u].stored /\ letter' = [letter EXCEPT ![u] = Written(j, result, letter[u])]
  <2>1. PICK r : r = Written(j, result, letter[u])
    OBVIOUS
  <2>2. letter[u] \in LetterType
    BY <1>4
  <2>3. /\ r \in LetterType /\ r.stored = letter[u].stored
        /\ \/ /\ r.options = letter[u].options /\ r.accepted = letter[u].accepted
              /\ r.end = letter[u].end
           \/ /\ r.options = j.options /\ r.end # "sent"
              /\ r.accepted = j.accepted \/ r.accepted = Tracked(j.options, j.accepted, result)
           \/ /\ r.options = j.options
              /\ r.accepted = Tracked(j.options, j.accepted, result)
              /\ AllRecipients(j.options) \subseteq AcceptedSet(r.accepted)
    BY <2>1, <2>2, WrittenTo
  <2>4. /\ letter' \in [Mail -> LetterType] /\ letter'[u] = r
        /\ \A v \in Mail : v # u => letter'[v] = letter[v]
    BY <1>4, <1>10, <2>1, <2>3
  <2>5. QED
    BY <1>1, <1>2, <1>3, <1>4, <1>5, <1>7, <1>10, <2>3, <2>4
<1>11. QED
  BY <1>8, <1>9, <1>10

LEMMA SettleHome ==
    ASSUME HomeInv, NEW w \in Worker, NEW result \in SUBSET Addr, Settle(w, result)
    PROVE  HomeInv'
<1>1. PICK j \in JobType : j = job[w]
  BY SettleMakes
<1>2. PICK u \in Mail : u = j.uuid /\ u \in ToSet(j.options)
  BY <1>1, SettleMakes
<1>3. /\ job' \in [Worker -> JobType] /\ job'[w] = IdleJob
      /\ \A x \in Worker : x # w => job'[x] = job[x]
  BY SettleMakes, IdleFits, JobBecomes
<1>4. /\ letter' \in [Mail -> LetterType] /\ call' = call /\ got' \in [Mail -> SUBSET Addr]
      /\ \A v \in Mail : v # u => letter'[v] = letter[v]
      /\ letter[u].stored => letter'[u].stored
      /\ ~letter[u].stored => letter'[u] = letter[u]
      /\ letter'[u].options \in {letter[u].options, j.options}
  BY <1>1, <1>2, SettleMakes
<1>5. TypeOK'
  BY <1>3, <1>4 DEF HomeInv, TypeOK, LetterType, JobType
<1>6. JobsFit'
  BY <1>3, IdleFits DEF HomeInv, JobsFit
<1>7. LettersFit'
  <2> SUFFICES ASSUME NEW v \in Mail
               PROVE  IF letter'[v].stored THEN v \in ToSet(letter'[v].options)
                      ELSE letter'[v] = [stored |-> FALSE, tries |-> 0, isSending |-> FALSE,
                                         end |-> "no", options |-> <<>>, accepted |-> NoAccepted]
    BY Zenon DEF LettersFit
  <2>1. CASE letter'[v] = letter[v]
    BY <2>1, Zenon DEF HomeInv, LettersFit
  <2>2. CASE letter'[v] # letter[v]
    <3>1. v = u /\ letter[u].stored /\ u \in ToSet(letter[u].options)
      BY <1>4, <2>2 DEF HomeInv, LettersFit
    <3>2. QED
      BY <1>2, <1>4, <3>1
  <2>3. QED
    BY <2>1, <2>2
<1>8. \A v \in Mail : Seen(v)' \subseteq Seen(v)
  <2>1. ASSUME NEW v \in Mail
        PROVE  ToSet(letter'[v].options) \subseteq Seen(v)
    <3>1. CASE v = u
      BY <1>1, <1>2, <1>4, <3>1, SeenHere
    <3>2. CASE v # u
      BY <1>4, <3>2, SeenHere
    <3>3. QED
      BY <3>1, <3>2
  <2>2. ASSUME NEW x \in Worker, NEW v \in Mail, job'[x].uuid = v
        PROVE  ToSet(job'[x].options) \subseteq Seen(v)
    BY <1>3, <2>2, IdleFits, SeenHere
  <2>3. QED
    BY <2>1, <2>2, SeenShrinks
<1>9. QED
  BY <1>4, <1>5, <1>6, <1>7, <1>8, NothingSeen

LEMMA AbandonHome ==
    ASSUME HomeInv, NEW w \in Worker, Abandon(w)
    PROVE  HomeInv'
<1>1. /\ letter' = letter /\ call' = call /\ got' = got
      /\ job' = [job EXCEPT ![w] = IdleJob]
  BY DEF Abandon
<1>2. /\ job' \in [Worker -> JobType] /\ job'[w] = IdleJob
      /\ \A x \in Worker : x # w => job'[x] = job[x]
  BY <1>1, IdleFits, JobBecomes
<1>3. TypeOK'
  BY <1>1, <1>2 DEF HomeInv, TypeOK, JobType
<1>4. JobsFit'
  BY <1>2, IdleFits DEF HomeInv, JobsFit
<1>5. LettersFit'
  BY <1>1 DEF HomeInv, LettersFit
<1>6. \A v \in Mail : Seen(v)' \subseteq Seen(v)
  <2>1. \A v \in Mail : ToSet(letter'[v].options) \subseteq Seen(v)
    BY <1>1, SeenHere
  <2>2. ASSUME NEW x \in Worker, NEW v \in Mail, job'[x].uuid = v
        PROVE  ToSet(job'[x].options) \subseteq Seen(v)
    BY <1>2, <2>2, IdleFits, SeenHere
  <2>3. QED
    BY <2>1, <2>2, SeenShrinks
<1>7. QED
  BY <1>1, <1>3, <1>4, <1>5, <1>6, NothingSeen

LEMMA HomeInductive == HomeInv /\ [Next]_vars => HomeInv'
<1> SUFFICES ASSUME HomeInv, [Next]_vars PROVE HomeInv'
  OBVIOUS
<1>1. ASSUME NEW m \in Mail, SendMail(m)
      PROVE  HomeInv'
  BY <1>1, SendMailHome
<1>2. ASSUME NEW w \in Worker, Work(w)
      PROVE  HomeInv'
  BY <1>2, FetchHome, ClaimHome, SettleHome, AbandonHome DEF Work
<1>3. CASE UNCHANGED vars
  <2>1. letter' = letter /\ job' = job /\ call' = call /\ got' = got
    BY <1>3 DEF vars
  <2>2. TypeOK' /\ JobsFit' /\ LettersFit' /\ \A v \in Mail : Seen(v)' = Seen(v)
    BY <2>1 DEF HomeInv, TypeOK, JobsFit, LettersFit, Seen
  <2>3. QED
    BY <2>1, <2>2, NothingSeen
<1>4. QED
  BY <1>1, <1>2, <1>3 DEF Next

LEMMA AlwaysHome == Spec => []HomeInv
<1>1. Init => HomeInv
  BY InitHome
<1>2. HomeInv /\ [Next]_vars => HomeInv'
  BY HomeInductive
<1>3. QED
  BY <1>1, <1>2, PTL DEF Spec

\* No step of sendMail or of a worker, whatever it does with letters, copies,
\* answers and mailboxes, leaves their types; a letter never lists a mail twice.
THEOREM TypesHold == Spec => []TypeOK
<1>1. HomeInv => TypeOK
  BY DEF HomeInv
<1>2. QED
  BY <1>1, AlwaysHome, PTL

\* However appends, pushes, lost answers and completions interleave, and whatever a
\* completion writes back from an old copy, a mail is in at most one letter and at
\* most once.
THEOREM OneLetter == Spec => []InOneLetter
<1>1. HomeInv => InOneLetter
  <2> SUFFICES ASSUME HomeInv, NEW u \in Mail, NEW v \in Mail,
                      NEW i \in DOMAIN letter[u].options, NEW k \in DOMAIN letter[v].options,
                      letter[u].options[i] = letter[v].options[k]
               PROVE  u = v /\ i = k
    BY DEF InOneLetter
  <2>1. letter \in [Mail -> LetterType]
    BY DEF HomeInv, TypeOK, LetterType
  <2>2. PICK m : m = letter[u].options[i]
    OBVIOUS
  <2>3. m \in ToSet(letter[u].options) /\ m \in ToSet(letter[v].options)
    BY <2>2 DEF ToSet
  <2>4. m \in Seen(u) /\ m \in Seen(v)
    BY <2>3, SeenHere
  <2>5. u = v
    BY <2>4 DEF HomeInv, OneHome
  <2>6. IsInjective(letter[u].options)
    BY <2>1 DEF LetterType, Options
  <2>7. i = k
    BY <2>5, <2>6 DEF IsInjective
  <2>8. QED
    BY <2>5, <2>7
<1>2. QED
  BY <1>1, AlwaysHome, PTL

-----------------------------------------------------------------------------
(* What is recorded is true.                                               *)

LEMMA InitDelivery == Init => DeliveryInv
<1> SUFFICES ASSUME Init PROVE DeliveryInv
  OBVIOUS
<1>1. /\ \A u \in Mail : letter[u].accepted = NoAccepted /\ letter[u].end = "no"
      /\ \A w \in Worker : job[w].pc = "idle"
      /\ \A m \in Mail : call[m].as = m
  BY DEF Init, IdleJob
<1>2. RecordsTrue
  BY <1>1, AcceptedTypes DEF RecordsTrue, Truthful
<1>3. FirstArrived /\ RepliesFit
  BY <1>1 DEF FirstArrived, RepliesFit
<1>4. QED
  BY <1>2, <1>3 DEF DeliveryInv

\* A step of sendMail leaves what is recorded of the other letters, and of the
\* letter it changes, or it pushes a letter nothing is recorded of.
LEMMA SendMailMakes ==
    ASSUME HomeInv, NEW m \in Mail, SendMail(m)
    PROVE  /\ job' = job /\ got' = got
           /\ \A u \in Mail : \/ /\ letter'[u].accepted = letter[u].accepted
                                 /\ letter'[u].end = letter[u].end
                              \/ letter'[u].accepted = NoAccepted /\ letter'[u].end = "no"
           /\ \A n \in Mail : call'[n].as = call[n].as \/ Cc[call'[n].as] = Cc[n]
<1>1. call \in [Mail -> CallType]
  BY DEF HomeInv, TypeOK, CallType
<1>2. ASSUME call[m].pc = "append", Appendable(call[m].uuid), Appended(m)
      PROVE  \A u \in Mail : /\ letter'[u].accepted = letter[u].accepted
                             /\ letter'[u].end = letter[u].end
  <2>1. call[m].uuid \in Mail
    BY <1>1 DEF CallType
  <2>2. m \notin ToSet(letter[call[m].uuid].options)
    BY <1>2, <2>1, NotYetSeen
  <2>3. QED
    BY <1>2, <2>2, AppendedTo DEF HomeInv
<1>3. ASSUME Pushing(m), Pushed(m)
      PROVE  \A u \in Mail : \/ /\ letter'[u].accepted = letter[u].accepted
                                /\ letter'[u].end = letter[u].end
                             \/ letter'[u].accepted = NoAccepted /\ letter'[u].end = "no"
  <2>1. ~letter[m].stored
    BY <1>3, NotYetSeen DEF Pushing
  <2>2. QED
    BY <1>3, <2>1, PushedTo DEF HomeInv
<1>4. ASSUME NEW pc, NEW u, call' = [call EXCEPT ![m] = [call[m] EXCEPT !.pc = pc, !.uuid = u]]
      PROVE  \A n \in Mail : call'[n].as = call[n].as
  BY <1>1, <1>4 DEF CallType
<1>5. ASSUME NEW pc, call' = [call EXCEPT ![m] = [call[m] EXCEPT !.pc = pc]]
      PROVE  \A n \in Mail : call'[n].as = call[n].as
  BY <1>1, <1>5 DEF CallType
<1>6. ASSUME NEW u \in Mail, AnswerRepeat(m, u)
      PROVE  /\ letter' = letter /\ job' = job /\ got' = got
             /\ \A n \in Mail : call'[n].as = call[n].as \/ Cc[call'[n].as] = Cc[n]
  <2>1. PICK n \in Mail : /\ Repeats(m, u, n)
                          /\ call' = [call EXCEPT ![m] = [pc |-> "done", uuid |-> u, as |-> n]]
    BY <1>6 DEF AnswerRepeat
  <2>2. Cc[n] = Cc[m]
    BY <2>1 DEF Repeats, Same
  <2>3. call'[m].as = n /\ \A x \in Mail : x # m => call'[x] = call[x]
    BY <1>1, <2>1
  <2>4. QED
    BY <1>6, <2>2, <2>3 DEF AnswerRepeat
<1>7. ASSUME NEW u \in Mail, FindPending(m, u)
      PROVE  /\ letter' = letter /\ job' = job /\ got' = got
             /\ \A n \in Mail : call'[n].as = call[n].as
  BY <1>1, <1>4, <1>7 DEF FindPending
<1>8. ASSUME Fold(m)
      PROVE  /\ letter' = letter \/ (call[m].pc = "append" /\ Appendable(call[m].uuid) /\ Appended(m))
             /\ job' = job /\ got' = got
             /\ \A n \in Mail : call'[n].as = call[n].as
  BY <1>1, <1>4, <1>5, <1>8 DEF Fold
<1>9. ASSUME AddToQueue(m)
      PROVE  /\ Pushing(m) /\ Pushed(m) /\ job' = job /\ got' = got
             /\ \A n \in Mail : call'[n].as = call[n].as
  BY <1>1, <1>5, <1>9 DEF AddToQueue
<1>10. ASSUME SendMailFails(m)
       PROVE  /\ \/ call[m].pc = "append" /\ Appendable(call[m].uuid) /\ Appended(m)
                 \/ Pushing(m) /\ Pushed(m)
              /\ job' = job /\ got' = got
              /\ \A n \in Mail : call'[n].as = call[n].as
  BY <1>1, <1>4, <1>10 DEF SendMailFails
<1>11. CASE \E u \in Mail : AnswerRepeat(m, u) \/ FindPending(m, u)
  BY <1>6, <1>7, <1>11
<1>12. CASE Fold(m)
  BY <1>2, <1>8, <1>12
<1>13. CASE AddToQueue(m) \/ SendMailFails(m)
  BY <1>2, <1>3, <1>9, <1>10, <1>13
<1>14. QED
  BY <1>11, <1>12, <1>13 DEF SendMail

LEMMA SendMailDelivery ==
    ASSUME HomeInv, DeliveryInv, NEW m \in Mail, SendMail(m)
    PROVE  DeliveryInv'
<1>1. job' = job /\ got' = got
  BY SendMailMakes
<1>2. RecordsTrue'
  <2>1. ASSUME NEW u \in Mail
        PROVE  Truthful(u, letter[u].accepted)'
    <3>1. CASE letter'[u].accepted = letter[u].accepted
      BY <1>1, <3>1 DEF DeliveryInv, RecordsTrue, Truthful
    <3>2. CASE letter'[u].accepted = NoAccepted
      BY <3>2, AcceptedTypes DEF Truthful
    <3>3. QED
      BY <3>1, <3>2, SendMailMakes
  <2>2. ASSUME NEW w \in Worker, job'[w].pc # "idle"
        PROVE  Truthful(job[w].uuid, job[w].accepted)'
    BY <1>1, <2>2 DEF DeliveryInv, RecordsTrue, Truthful
  <2>3. QED
    BY <2>1, <2>2 DEF RecordsTrue
<1>3. FirstArrived'
  BY <1>1, SendMailMakes DEF DeliveryInv, FirstArrived
<1>4. RepliesFit'
  BY SendMailMakes DEF DeliveryInv, RepliesFit, Recipients
<1>5. QED
  BY <1>2, <1>3, <1>4 DEF DeliveryInv

LEMMA FetchDelivery ==
    ASSUME HomeInv, DeliveryInv, NEW w \in Worker, NEW u \in Mail, Fetch(w, u)
    PROVE  DeliveryInv'
<1>1. job \in [Worker -> JobType]
  BY DEF HomeInv, TypeOK, JobType
<1>2. /\ letter' = letter /\ call' = call /\ got' = got
      /\ job'[w].uuid = u /\ job'[w].accepted = letter[u].accepted
      /\ \A x \in Worker : x # w => job'[x] = job[x]
  BY <1>1 DEF Fetch
<1>3. ASSUME NEW x \in Worker, job'[x].pc # "idle"
      PROVE  Truthful(job[x].uuid, job[x].accepted)'
  <2>1. CASE x = w
    BY <1>2, <2>1 DEF DeliveryInv, RecordsTrue, Truthful
  <2>2. CASE x # w
    BY <1>2, <1>3, <2>2 DEF DeliveryInv, RecordsTrue, Truthful
  <2>3. QED
    BY <2>1, <2>2
<1>4. RecordsTrue'
  BY <1>2, <1>3 DEF DeliveryInv, RecordsTrue, Truthful
<1>5. QED
  BY <1>2, <1>4 DEF DeliveryInv, FirstArrived, RepliesFit

LEMMA ClaimDelivery ==
    ASSUME HomeInv, DeliveryInv, NEW w \in Worker, Claim(w)
    PROVE  DeliveryInv'
<1>1. /\ call' = call /\ got' = got
      /\ \A v \in Mail : letter'[v].accepted = letter[v].accepted /\ letter'[v].end = letter[v].end
  BY ClaimMakes
<1>2. ASSUME NEW x \in Worker, job'[x].pc # "idle"
      PROVE  Truthful(job[x].uuid, job[x].accepted)'
  <2>1. /\ job[x].pc # "idle"
        /\ job'[x].uuid = job[x].uuid /\ job'[x].accepted = job[x].accepted
    BY <1>2, ClaimMakes
  <2>2. QED
    BY <1>1, <2>1 DEF DeliveryInv, RecordsTrue, Truthful
<1>3. RecordsTrue'
  BY <1>1, <1>2 DEF DeliveryInv, RecordsTrue, Truthful
<1>4. QED
  BY <1>1, <1>3 DEF DeliveryInv, FirstArrived, RepliesFit

LEMMA AbandonDelivery ==
    ASSUME HomeInv, DeliveryInv, NEW w \in Worker, Abandon(w)
    PROVE  DeliveryInv'
<1>1. /\ letter' = letter /\ call' = call /\ got' = got
      /\ job' = [job EXCEPT ![w] = IdleJob]
  BY DEF Abandon
<1>2. job'[w].pc = "idle" /\ \A x \in Worker : x # w => job'[x] = job[x]
  BY <1>1, IdleFits, JobBecomes
<1>3. RecordsTrue'
  BY <1>1, <1>2 DEF DeliveryInv, RecordsTrue, Truthful
<1>4. QED
  BY <1>1, <1>3 DEF DeliveryInv, FirstArrived, RepliesFit

\* An answer is recorded of mails whose bodies it was an answer to.
LEMMA SettleTracks ==
    ASSUME HomeInv, DeliveryInv, NEW w \in Worker, NEW result \in SUBSET Addr, Settle(w, result),
           NEW j, j = job[w]
    PROVE  /\ Truthful(j.uuid, j.accepted)'
           /\ Truthful(j.uuid, Tracked(j.options, j.accepted, result))'
<1>1. j \in JobType /\ j = job[w] /\ j.pc = "sending"
  BY SettleMakes
<1>2. PICK u \in Mail : u = j.uuid /\ u \in ToSet(j.options)
  BY <1>1, SettleMakes
<1>3. ToSet(j.options) \subseteq Mail /\ j.accepted \in AcceptedType
  BY <1>1, MailsOfOptions DEF JobType
<1>4. DOMAIN j.accepted \subseteq Mail
  BY <1>3 DEF AcceptedType
<1>5. \A m \in DOMAIN j.accepted : j.accepted[m] \subseteq got[m] \cap got[u]
  BY <1>1, <1>2 DEF DeliveryInv, RecordsTrue, Truthful
<1>6. \A m \in Mail : /\ got[m] \subseteq got'[m]
                      /\ m \in ToSet(j.options) => got'[m] = got[m] \cup result
  BY <1>1, SettleMakes
<1>7. \A m \in DOMAIN j.accepted : j.accepted[m] \subseteq got'[m] \cap got'[u]
  BY <1>4, <1>5, <1>6
<1> DEFINE tracked == Tracked(j.options, j.accepted, result)
<1>8. /\ DOMAIN tracked = ToSet(j.options)
      /\ \A m \in ToSet(j.options) :
            tracked[m] = (IF m \in DOMAIN j.accepted THEN j.accepted[m] ELSE {})
                            \cup (result \cap Recipients(m))
  BY DEF Tracked
<1> HIDE DEF tracked
<1>9. \A m \in DOMAIN tracked : tracked[m] \subseteq got'[m] \cap got'[u]
  <2> SUFFICES ASSUME NEW m \in ToSet(j.options), NEW a \in tracked[m]
               PROVE  a \in got'[m] /\ a \in got'[u]
    BY <1>8
  <2>1. a \in result \/ (m \in DOMAIN j.accepted /\ a \in j.accepted[m])
    BY <1>8
  <2>2. QED
    BY <1>2, <1>3, <1>6, <1>7, <2>1
<1>10. QED
  BY <1>1, <1>2, <1>7, <1>9 DEF Truthful, tracked

\* What was received stays received.
LEMMA TruthLasts ==
    ASSUME NEW u \in Mail, NEW accepted \in AcceptedType, Truthful(u, accepted),
           \A m \in Mail : got[m] \subseteq got'[m]
    PROVE  Truthful(u, accepted)'
<1>1. DOMAIN accepted \subseteq Mail
  BY DEF AcceptedType
<1>2. QED
  BY <1>1 DEF Truthful

LEMMA SettleDelivery ==
    ASSUME HomeInv, DeliveryInv, NEW w \in Worker, NEW result \in SUBSET Addr, Settle(w, result)
    PROVE  DeliveryInv'
<1>1. PICK j \in JobType : j = job[w] /\ j.pc = "sending"
  BY SettleMakes
<1>2. PICK u \in Mail : u = j.uuid /\ u \in ToSet(j.options)
  BY <1>1, SettleMakes
<1>3. PICK tracked : tracked = Tracked(j.options, j.accepted, result)
  OBVIOUS
<1>4. letter \in [Mail -> LetterType] /\ job \in [Worker -> JobType]
  BY DEF HomeInv, TypeOK, LetterType, JobType
<1>5. /\ call' = call
      /\ \A m \in Mail : got[m] \subseteq got'[m]
      /\ \A v \in Mail : v # u => letter'[v] = letter[v]
  BY <1>1, <1>2, SettleMakes
<1>6. \/ letter'[u].accepted = letter[u].accepted /\ letter'[u].end = letter[u].end
      \/ letter'[u].end # "sent" /\ letter'[u].accepted \in {j.accepted, tracked}
      \/ /\ letter'[u].accepted = tracked
         /\ AllRecipients(j.options) \subseteq AcceptedSet(letter'[u].accepted)
  BY <1>1, <1>2, <1>3, SettleMakes
<1>7. Truthful(u, j.accepted)' /\ Truthful(u, tracked)'
  BY <1>1, <1>2, <1>3, SettleTracks
<1>8. ASSUME NEW v \in Mail
      PROVE  Truthful(v, letter[v].accepted)'
  <2>1. CASE letter'[v].accepted = letter[v].accepted
    <3>1. PICK accepted \in AcceptedType : accepted = letter[v].accepted
      BY <1>4 DEF LetterType
    <3>2. Truthful(v, accepted)
      BY <3>1 DEF DeliveryInv, RecordsTrue
    <3>3. Truthful(v, accepted)'
      BY <1>5, <3>2, TruthLasts
    <3>4. QED
      BY <2>1, <3>1, <3>3 DEF Truthful
  <2>2. CASE letter'[v].accepted # letter[v].accepted
    <3>1. v = u /\ letter'[v].accepted \in {j.accepted, tracked}
      BY <1>5, <1>6, <2>2
    <3>2. QED
      BY <1>7, <3>1 DEF Truthful
  <2>3. QED
    BY <2>1, <2>2
<1>9. ASSUME NEW x \in Worker, job'[x].pc # "idle"
      PROVE  Truthful(job[x].uuid, job[x].accepted)'
  <2>1. job'[x] = job[x] /\ job[x].uuid \in Mail
    BY <1>9, SettleMakes, IdleFits, JobBecomes DEF HomeInv, JobsFit
  <2>2. PICK accepted \in AcceptedType, v \in Mail : accepted = job[x].accepted /\ v = job[x].uuid
    BY <1>4, <2>1 DEF JobType
  <2>3. Truthful(v, accepted)
    BY <1>9, <2>1, <2>2 DEF DeliveryInv, RecordsTrue
  <2>4. Truthful(v, accepted)'
    BY <1>5, <2>3, TruthLasts
  <2>5. QED
    BY <2>1, <2>2, <2>4 DEF Truthful
<1>10. ASSUME NEW v \in Mail, letter'[v].end = "sent"
       PROVE  Recipients(v) \subseteq got'[v]
  <2>1. CASE letter'[v].end = letter[v].end
    BY <1>5, <1>10, <2>1 DEF DeliveryInv, FirstArrived
  <2>2. CASE letter'[v].end # letter[v].end
    <3>1. /\ v = u
          /\ letter'[u].accepted = tracked /\ AllRecipients(j.options) \subseteq AcceptedSet(tracked)
      BY <1>5, <1>6, <1>10, <2>2
    <3>2. Recipients(u) \subseteq AllRecipients(j.options)
      BY <1>2 DEF AllRecipients
    <3>3. AcceptedSet(tracked) \subseteq got'[u]
      BY <1>7 DEF AcceptedSet, Truthful
    <3>4. QED
      BY <3>1, <3>2, <3>3
  <2>3. QED
    BY <2>1, <2>2
<1>11. RecordsTrue' /\ FirstArrived'
  BY <1>8, <1>9, <1>10 DEF RecordsTrue, FirstArrived
<1>12. QED
  BY <1>5, <1>11 DEF DeliveryInv, RepliesFit

LEMMA DeliveryInductive == HomeInv /\ DeliveryInv /\ [Next]_vars => DeliveryInv'
<1> SUFFICES ASSUME HomeInv, DeliveryInv, [Next]_vars PROVE DeliveryInv'
  OBVIOUS
<1>1. ASSUME NEW m \in Mail, SendMail(m)
      PROVE  DeliveryInv'
  BY <1>1, SendMailDelivery
<1>2. ASSUME NEW w \in Worker, Work(w)
      PROVE  DeliveryInv'
  BY <1>2, FetchDelivery, ClaimDelivery, SettleDelivery, AbandonDelivery DEF Work
<1>3. CASE UNCHANGED vars
  BY <1>3 DEF vars, DeliveryInv, RecordsTrue, Truthful, FirstArrived, RepliesFit
<1>4. QED
  BY <1>1, <1>2, <1>3 DEF Next

LEMMA AlwaysDelivery == Spec => []DeliveryInv
<1>1. Init => DeliveryInv
  BY InitDelivery
<1>2. HomeInv /\ DeliveryInv /\ [Next]_vars => DeliveryInv'
  BY DeliveryInductive
<1>3. QED
  BY <1>1, <1>2, AlwaysHome, PTL DEF Spec

\* What ___trackAcceptedRecipients records is true: every address in the `accepted`
\* of an option received a message with the body of that option, even when the
\* letter grew between the scan and the answer and when the copy is written back
\* over it.
THEOREM AcceptedReached == Spec => []AcceptedIsReached
<1>1. DeliveryInv => AcceptedIsReached
  BY DEF DeliveryInv, RecordsTrue, Truthful, AcceptedIsReached
<1>2. QED
  BY <1>1, AlwaysDelivery, PTL

\* A mail that was pushed, and one that was found again in a letter pushed with its
\* content, has reached all its recipients when the letter is marked sent.
THEOREM PushedArrives == Spec => []PushedMailArrives
<1>1. HomeInv /\ DeliveryInv => PushedMailArrives
  <2> SUFFICES ASSUME HomeInv, DeliveryInv, NEW m \in Mail, call[m].as = call[m].uuid,
                      letter[call[m].uuid].end = "sent"
               PROVE  Recipients(m) \subseteq got[call[m].as]
    BY DEF PushedMailArrives
  <2>1. call[m].uuid \in Mail
    BY DEF HomeInv, TypeOK
  <2>2. Recipients(call[m].uuid) \subseteq got[call[m].uuid]
    BY <2>1 DEF DeliveryInv, FirstArrived
  <2>3. Recipients(call[m].uuid) = Recipients(m)
    BY DEF DeliveryInv, RepliesFit
  <2>4. QED
    BY <2>2, <2>3
<1>2. QED
  BY <1>1, AlwaysHome, AlwaysDelivery, PTL
=============================================================================
