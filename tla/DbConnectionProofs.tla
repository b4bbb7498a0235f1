-------------------------- MODULE DbConnectionProofs --------------------------
(***************************************************************************)
(* Proofs about DbConnection for any threads and bounds: however the       *)
(* threads mix up their answers, nothing is left in the connection, a call *)
(* with no other beside it is exact, and a lost write has a call near it   *)
(* that raised.                                                            *)
(***************************************************************************)
EXTENDS DbConnection, FiniteSets, FiniteSetTheorems, TLAPS

\* A thread in a call has a call, and a connection once it has one to use.
InCall ==
    /\ Len(calls) <= MaxCalls
    /\ \A t \in Threads :
          /\ phase[t] # "idle" => call[t] \in DOMAIN calls
          /\ phase[t] \in Sending \cup Reading => using[t] \in DOMAIN links

(***************************************************************************)
(* What is in the open transaction of a connection is the statement of a   *)
(* thread that has still to commit it or to roll it back there.            *)
(***************************************************************************)
Owns(t, n, l) ==
    call[t] = n /\ using[t] = l /\ phase[t] \in {"result", "commit", "rollback"}

PendingOwned ==
    \A l \in DOMAIN links : \A n \in links[l].pending :
        IsWrite(n) /\ \E t \in Threads : Owns(t, n, l)

(***************************************************************************)
(* There are as many answers as threads that read, though a thread may     *)
(* take the answer of another one.                                         *)
(***************************************************************************)
Readers(l) == {t \in Threads : using[t] = l /\ phase[t] \in Reading}

AnswersAwaited ==
    \A l \in DOMAIN links :
        /\ IsFiniteSet(Readers(l))
        /\ Len(links[l].answers) = IF Usable(l) THEN Cardinality(Readers(l)) ELSE 0

Typed == ConnTypeOK /\ InCall
Inv == Typed /\ PendingOwned /\ AnswersAwaited

-----------------------------------------------------------------------------
LEMMA InitInv == Init => Inv
<1> SUFFICES ASSUME Init PROVE Inv
  OBVIOUS
<1>1. links = <<>> /\ DOMAIN links = {} /\ calls = <<>> /\ DOMAIN calls = {} /\ Len(calls) = 0
  BY DEF Init
<1>2. ConnTypeOK
  BY <1>1, BoundsAssumption DEF Init, ConnTypeOK, None, Phases
<1>3. InCall
  BY <1>1, BoundsAssumption DEF Init, InCall, Sending, Reading
<1> QED
  BY <1>1, <1>2, <1>3 DEF Inv, Typed, PendingOwned, AnswersAwaited

\* A sequence in which one element is replaced.
LEMMA Replaced ==
  ASSUME NEW S, NEW s \in Seq(S), NEW i \in DOMAIN s, NEW x \in S
  PROVE  /\ [s EXCEPT ![i] = x] \in Seq(S)
         /\ Len([s EXCEPT ![i] = x]) = Len(s)
         /\ DOMAIN [s EXCEPT ![i] = x] = DOMAIN s
         /\ [s EXCEPT ![i] = x][i] = x
         /\ \A k \in DOMAIN s \ {i} : [s EXCEPT ![i] = x][k] = s[k]
  OBVIOUS

LEMMA TypedFacts ==
  ASSUME Typed
  PROVE  /\ links \in Seq(Link) /\ calls \in Seq(CallRecord)
         /\ phase \in [Threads -> Phases]
         /\ call \in [Threads -> {None} \cup DOMAIN calls]
         /\ using \in [Threads -> {None} \cup DOMAIN links]
         /\ DOMAIN calls = 1 .. Len(calls) /\ DOMAIN links = 1 .. Len(links)
         /\ Len(calls) \in Nat /\ Len(links) \in Nat /\ Len(calls) <= MaxCalls
         /\ DOMAIN calls \subseteq CallIds
         /\ \A l \in DOMAIN links : links[l] \in Link
         /\ \A n \in DOMAIN calls : calls[n] \in CallRecord
         /\ None \notin DOMAIN calls /\ None \notin DOMAIN links
  BY BoundsAssumption DEF Typed, ConnTypeOK, InCall, CallIds, None

LEMMA LinkFields ==
  ASSUME NEW x \in Link
  PROVE  /\ x.open \in BOOLEAN /\ x.up \in BOOLEAN /\ x.in_sequence \in BOOLEAN
         /\ x.pending \in SUBSET CallIds
         /\ x.answers \in Seq(Answer) /\ Len(x.answers) \in Nat
  BY DEF Link

LEMMA FreshAndDead ==
  /\ Fresh \in Link /\ Fresh.open /\ Fresh.up
  /\ Fresh.pending = {} /\ Fresh.answers = <<>>
  /\ Dead \in Link /\ Dead.pending = {} /\ Dead.answers = <<>> /\ ~ Dead.up
<1> DEFINE none == {}
<1>1. none \in SUBSET CallIds /\ <<>> \in Seq(Answer)
  OBVIOUS
<1>2. Fresh \in Link
  BY <1>1 DEF Fresh, Link
<1>3. Dead \in Link
  BY <1>1 DEF Dead, Fresh, Link
<1> QED
  BY <1>2, <1>3 DEF Fresh, Dead

\* What a step of t may do to the calls.
CallsGoOn ==
    /\ calls' \in Seq(CallRecord)
    /\ DOMAIN calls' = DOMAIN calls /\ Len(calls') = Len(calls)
    /\ \A n \in DOMAIN calls : calls'[n].kind = calls[n].kind

LEMMA EndCalls ==
  ASSUME Typed, NEW t \in Threads, phase[t] # "idle", NEW o \in {"returned", "raised"},
         End(t, o)
  PROVE  CallsGoOn
<1> DEFINE n == call[t]
           r == [calls[n] EXCEPT !.outcome = o]
<1>1. n \in DOMAIN calls /\ calls[n] \in CallRecord
  BY TypedFacts DEF Typed, InCall
<1>2. r \in CallRecord /\ r.kind = calls[n].kind
  BY <1>1 DEF CallRecord
<1>3. calls' = [calls EXCEPT ![n] = r]
  BY DEF End
<1> HIDE DEF r
<1> QED
  BY <1>1, <1>2, <1>3, Replaced, TypedFacts DEF CallsGoOn

(***************************************************************************)
(* A step of thread t to phase p that leaves the link x in place of the    *)
(* connection it uses.                                                     *)
(***************************************************************************)
LinkStep(t, p, x) ==
    /\ phase[t] \in Sending \cup Reading
    /\ Go(t, p)
    /\ links' = [links EXCEPT ![using[t]] = x]
    /\ UNCHANGED <<conn, call, using>>
    /\ CallsGoOn
    /\ stored' \subseteq DOMAIN calls
    /\ losses' \in 0 .. MaxLosses

LEMMA LinkStepFacts ==
  ASSUME Typed, NEW t \in Threads, NEW p \in Phases, NEW x \in Link, LinkStep(t, p, x)
  PROVE  /\ using[t] \in DOMAIN links /\ call[t] \in DOMAIN calls
         /\ links' \in Seq(Link) /\ DOMAIN links' = DOMAIN links
         /\ links'[using[t]] = x
         /\ \A l \in DOMAIN links \ {using[t]} : links'[l] = links[l]
         /\ phase' \in [Threads -> Phases] /\ phase'[t] = p
         /\ \A u \in Threads \ {t} : phase'[u] = phase[u]
<1>1. using[t] \in DOMAIN links /\ call[t] \in DOMAIN calls
  BY DEF Typed, InCall, LinkStep, Sending, Reading
<1>2. /\ links' \in Seq(Link) /\ DOMAIN links' = DOMAIN links
      /\ links'[using[t]] = x
      /\ \A l \in DOMAIN links \ {using[t]} : links'[l] = links[l]
  BY <1>1, Replaced, TypedFacts DEF LinkStep
<1>3. /\ phase' \in [Threads -> Phases] /\ phase'[t] = p
      /\ \A u \in Threads \ {t} : phase'[u] = phase[u]
  BY TypedFacts DEF LinkStep, Go
<1> QED
  BY <1>1, <1>2, <1>3

LEMMA LinkStepTyped ==
  ASSUME Typed, NEW t \in Threads, NEW p \in Phases, p # "connect", NEW x \in Link,
         LinkStep(t, p, x)
  PROVE  Typed'
<1> USE LinkStepFacts
<1>1. ConnTypeOK'
  BY TypedFacts DEF Typed, ConnTypeOK, LinkStep, CallsGoOn
<1>2. InCall'
  BY TypedFacts DEF Typed, InCall, LinkStep, CallsGoOn
<1> QED
  BY <1>1, <1>2 DEF Typed

\* What t may leave in the transaction: its own statement while it has still to
\* commit it, and those that others own.
LEMMA LinkStepPending ==
  ASSUME Typed, PendingOwned,
         NEW t \in Threads, NEW p \in Phases, NEW x \in Link, LinkStep(t, p, x),
         \A n \in x.pending :
             \/ n \in links[using[t]].pending /\ ~ Owns(t, n, using[t])
             \/ n = call[t] /\ IsWrite(n) /\ p = "result"
  PROVE  PendingOwned'
<1> USE LinkStepFacts
<1> SUFFICES ASSUME NEW l \in DOMAIN links, NEW n \in links'[l].pending
             PROVE  IsWrite(n)' /\ \E u \in Threads : Owns(u, n, l)'
  BY DEF PendingOwned
<1>1. ASSUME NEW u \in Threads \ {t}, Owns(u, n, l)
      PROVE  Owns(u, n, l)'
  BY <1>1 DEF Owns, LinkStep
<1>2. ASSUME NEW u \in Threads, Owns(u, n, l), IsWrite(n)
      PROVE  IsWrite(n)'
  <2>1. n \in DOMAIN calls
    BY <1>2 DEF Owns, Typed, InCall
  <2> QED
    BY <1>2, <2>1 DEF IsWrite, LinkStep, CallsGoOn
<1>3. CASE l # using[t]
  <2>1. n \in links[l].pending
    BY <1>3
  <2>2. PICK u \in Threads : IsWrite(n) /\ Owns(u, n, l)
    BY <2>1 DEF PendingOwned
  <2>3. u # t
    BY <1>3, <2>2 DEF Owns
  <2> QED
    BY <1>1, <1>2, <2>2, <2>3
<1>4. CASE l = using[t] /\ n \in links[l].pending /\ ~ Owns(t, n, l)
  <2>1. PICK u \in Threads : IsWrite(n) /\ Owns(u, n, l)
    BY <1>4 DEF PendingOwned
  <2> QED
    BY <1>1, <1>2, <1>4, <2>1
<1>5. CASE l = using[t] /\ n = call[t] /\ IsWrite(n) /\ p = "result"
  <2>1. Owns(t, n, l)'
    BY <1>5 DEF Owns, LinkStep
  <2>2. IsWrite(n)'
    BY <1>5 DEF IsWrite, LinkStep, CallsGoOn
  <2> QED
    BY <2>1, <2>2
<1> QED
  BY <1>3, <1>4, <1>5

\* Sending adds an answer and a thread that reads, reading takes both away, and
\* a connection that has ended has no answers.
LEMMA LinkStepAnswers ==
  ASSUME Typed, AnswersAwaited,
         NEW t \in Threads, NEW p \in Phases, NEW x \in Link, LinkStep(t, p, x),
         \/ /\ phase[t] \notin Reading /\ p \in Reading
            /\ Usable(using[t]) /\ x.open /\ x.up
            /\ Len(x.answers) = Len(links[using[t]].answers) + 1
         \/ /\ phase[t] \in Reading /\ p \notin Reading
            /\ Usable(using[t]) /\ x.open /\ x.up
            /\ Len(x.answers) = Len(links[using[t]].answers) - 1
         \/ p \notin Reading /\ ~ x.up /\ x.answers = <<>>
  PROVE  AnswersAwaited'
<1>0. /\ using' = using /\ using[t] \in DOMAIN links
      /\ DOMAIN links' = DOMAIN links /\ links'[using[t]] = x
      /\ \A l \in DOMAIN links \ {using[t]} : links'[l] = links[l]
      /\ phase'[t] = p /\ \A u \in Threads \ {t} : phase'[u] = phase[u]
  BY LinkStepFacts DEF LinkStep
<1> SUFFICES ASSUME NEW l \in DOMAIN links
             PROVE  /\ IsFiniteSet(Readers(l)')
                    /\ Len(links'[l].answers) =
                          IF Usable(l)' THEN Cardinality(Readers(l)') ELSE 0
  BY <1>0 DEF AnswersAwaited
<1>1. /\ IsFiniteSet(Readers(l))
      /\ Len(links[l].answers) = IF Usable(l) THEN Cardinality(Readers(l)) ELSE 0
  BY DEF AnswersAwaited
<1>2. CASE l # using[t]
  <2>1. Readers(l)' = Readers(l)
    BY <1>0, <1>2 DEF Readers
  <2>2. Usable(l)' = Usable(l) /\ links'[l] = links[l]
    BY <1>0, <1>2 DEF Usable
  <2> QED
    BY <1>1, <2>1, <2>2
<1>3. CASE l = using[t] /\ p \in Reading
  <2>1. Readers(l)' = Readers(l) \cup {t} /\ t \notin Readers(l)
    BY <1>0, <1>3 DEF Readers
  <2>2. /\ IsFiniteSet(Readers(l)')
        /\ Cardinality(Readers(l)') = Cardinality(Readers(l)) + 1
    BY <1>1, <2>1, FS_AddElement
  <2> QED
    BY <1>0, <1>1, <1>3, <2>2 DEF Usable
<1>4. CASE l = using[t] /\ p \notin Reading
  <2>1. Readers(l)' = Readers(l) \ {t}
    BY <1>0, <1>4 DEF Readers
  <2>2. IsFiniteSet(Readers(l)')
    BY <1>1, <2>1, FS_RemoveElement
  <2>3. CASE phase[t] \in Reading /\ Usable(l) /\ x.open /\ x.up
    <3>1. t \in Readers(l)
      BY <1>4, <2>3 DEF Readers
    <3>2. Cardinality(Readers(l)') = Cardinality(Readers(l)) - 1
      BY <1>1, <2>1, <3>1, FS_RemoveElement
    <3>3. Usable(l)'
      BY <1>0, <1>4, <2>3 DEF Usable
    <3>4. Len(x.answers) = Len(links[l].answers) - 1
      BY <1>4, <2>3
    <3> QED
      BY <1>0, <1>1, <1>4, <2>2, <2>3, <3>2, <3>3, <3>4
  <2>4. CASE ~ x.up /\ x.answers = <<>>
    BY <1>0, <1>4, <2>2, <2>4 DEF Usable
  <2> QED
    BY <1>4, <2>3, <2>4
<1> QED
  BY <1>2, <1>3, <1>4

\* The two kinds of steps on a connection: sending and reading.
SendsTo(t, p, x) ==
    /\ phase[t] \notin Reading /\ p \in Reading
    /\ Usable(using[t]) /\ x.open /\ x.up
    /\ Len(x.answers) = Len(links[using[t]].answers) + 1
ReadsFrom(t, p, x) ==
    /\ phase[t] \in Reading /\ p \notin Reading
    /\ Usable(using[t]) /\ x.open /\ x.up
    /\ Len(x.answers) = Len(links[using[t]].answers) - 1

\* The answer to what t sends.
Reply(t, ok) == [call |-> call[t], ok |-> ok]

\* The link that Sent leaves.
LEMMA SentLink ==
  ASSUME Typed, NEW t \in Threads, using[t] \in DOMAIN links, call[t] \in DOMAIN calls,
         NEW q \in SUBSET CallIds, NEW ok \in BOOLEAN, Sent(t, q, ok), Usable(using[t])
  PROVE  \E x \in Link :
            /\ links' = [links EXCEPT ![using[t]] = x]
            /\ x.pending = q /\ x.open /\ x.up /\ x.in_sequence
            /\ x.answers = Append(links[using[t]].answers, Reply(t, ok))
            /\ Len(x.answers) = Len(links[using[t]].answers) + 1
<1> DEFINE y == links[using[t]]
           a == Reply(t, ok)
           s == Append(y.answers, a)
           x == [y EXCEPT !.in_sequence = TRUE, !.pending = q, !.answers = s]
<1>1. y \in Link /\ call[t] \in CallIds
  BY TypedFacts
<1>2. a \in Answer
  BY <1>1 DEF Answer, Reply
<1>3. y.answers \in Seq(Answer)
  BY <1>1, LinkFields
<1> HIDE DEF a
<1>4. s \in Seq(Answer) /\ Len(s) = Len(y.answers) + 1
  BY <1>2, <1>3
<1>5. links' = [links EXCEPT ![using[t]] = x]
  BY DEF Sent, Used, Reply, a
<1>s. s = Append(y.answers, Reply(t, ok))
  BY DEF a
<1> HIDE DEF s
<1>6. x \in Link
  BY <1>1, <1>4 DEF Link
<1>7. x.pending = q /\ x.open /\ x.up /\ x.in_sequence /\ x.answers = s
  BY <1>1 DEF Link, Usable
<1> HIDE DEF x
<1> QED
  BY <1>4, <1>5, <1>s, <1>6, <1>7

\* The link that Read leaves, and the answer it takes.
LEMMA ReadLink ==
  ASSUME Typed, NEW t \in Threads, using[t] \in DOMAIN links, Read(t)
  PROVE  /\ NextAnswer(t) \in Answer
         /\ \E x \in Link :
               /\ links' = [links EXCEPT ![using[t]] = x]
               /\ x.pending = links[using[t]].pending /\ x.open /\ x.up
               /\ x.answers = Tail(links[using[t]].answers)
               /\ Len(x.answers) = Len(links[using[t]].answers) - 1
<1> DEFINE y == links[using[t]]
           s == Tail(y.answers)
           x == [y EXCEPT !.in_sequence = FALSE, !.answers = s]
<1>1. y \in Link
  BY TypedFacts
<1>2. y.answers \in Seq(Answer) /\ y.answers # <<>>
  BY <1>1, LinkFields DEF Read, Used
<1>3. s \in Seq(Answer) /\ Len(s) = Len(y.answers) - 1 /\ Head(y.answers) \in Answer
  BY <1>2
<1>4. links' = [links EXCEPT ![using[t]] = x] /\ s = Tail(links[using[t]].answers)
  BY DEF Read, Used
<1> HIDE DEF s
<1>5. x \in Link
  BY <1>1, <1>3 DEF Link
<1>6. x.pending = y.pending /\ x.open /\ x.up /\ x.answers = s
  BY <1>1 DEF Link, Read, Used, Usable
<1> HIDE DEF x
<1> QED
  BY <1>3, <1>4, <1>5, <1>6 DEF NextAnswer, Used

LEMMA LinkStepInv ==
  ASSUME Inv, NEW t \in Threads, NEW p \in Phases, p # "connect",
         NEW x \in Link, LinkStep(t, p, x),
         \A n \in x.pending :
             \/ n \in links[using[t]].pending /\ ~ Owns(t, n, using[t])
             \/ n = call[t] /\ IsWrite(n) /\ p = "result",
         \/ SendsTo(t, p, x)
         \/ ReadsFrom(t, p, x)
         \/ p \notin Reading /\ ~ x.up /\ x.answers = <<>>
  PROVE  Inv'
<1>1. Typed'
  BY LinkStepTyped DEF Inv
<1>2. PendingOwned'
  BY LinkStepPending DEF Inv
<1>3. AnswersAwaited'
  BY LinkStepAnswers DEF Inv, SendsTo, ReadsFrom
<1> QED
  BY <1>1, <1>2, <1>3 DEF Inv

-----------------------------------------------------------------------------
(***************************************************************************)
(* Every action keeps Inv.                                                 *)
(***************************************************************************)

\* What an action that works on a connection may count on.
LEMMA WorkingFacts ==
  ASSUME Typed, NEW t \in Threads, phase[t] \in Sending \cup Reading
  PROVE  /\ using[t] \in DOMAIN links /\ call[t] \in DOMAIN calls
         /\ calls[call[t]] \in CallRecord
         /\ InTransaction(t) = links[using[t]].pending
         /\ links[using[t]].pending \in SUBSET CallIds
         /\ stored \subseteq DOMAIN calls /\ losses \in 0 .. MaxLosses
         /\ links[using[t]].pending \subseteq CallIds
<1>1. using[t] \in DOMAIN links /\ call[t] \in DOMAIN calls
  BY DEF Typed, InCall, Sending, Reading
<1>2. links[using[t]] \in Link
  BY <1>1, TypedFacts
<1> QED
  BY <1>1, <1>2, LinkFields, TypedFacts DEF Typed, ConnTypeOK, InTransaction, Used

LEMMA PhaseFacts ==
  /\ {"result", "committed", "rolled_back", "idle", "commit", "rollback"} \subseteq Phases
  /\ \A p \in {"result", "committed", "rolled_back"} : p \in Reading /\ p # "connect"
  /\ \A p \in {"idle", "commit", "rollback"} : p \notin Reading /\ p # "connect"
  /\ "execute" \notin Reading
  /\ \A p \in {"execute", "commit", "rollback", "result", "committed", "rolled_back"} :
        p \in Sending \cup Reading
  BY DEF Phases, Sending, Reading

\* A call that is not disturbed.
LEMMA CallsUnchanged == ASSUME Typed, UNCHANGED calls PROVE CallsGoOn
  BY TypedFacts DEF CallsGoOn

LEMMA ExecuteInv ==
  ASSUME Inv, NEW t \in Threads, Execute(t) PROVE Inv'
<1> DEFINE q == links[using[t]].pending
<1>1. phase[t] = "execute" /\ Usable(using[t]) /\ Go(t, "result") /\ Typed
      /\ UNCHANGED <<conn, call, using, stored, calls, losses>>
  BY DEF Execute, Inv
<1>2. phase[t] \in Sending \cup Reading
  BY <1>1, PhaseFacts
<1>3. CallsGoOn
  BY <1>1, CallsUnchanged
<1>4. \A n \in q : ~ Owns(t, n, using[t])
  BY <1>1 DEF Owns
<1>5. PICK k \in SUBSET CallIds, ok \in BOOLEAN :
         /\ Sent(t, k, ok)
         /\ \A n \in k : n \in q \/ (n = call[t] /\ IsWrite(n))
  <2> q \in SUBSET CallIds /\ call[t] \in CallIds /\ q \cup {call[t]} \in SUBSET CallIds
    BY <1>1, <1>2, WorkingFacts, TypedFacts
  <2>2. CASE Sent(t, q, TRUE)
    <3> WITNESS q \in SUBSET CallIds, TRUE \in BOOLEAN
    <3> QED
      BY <2>2
  <2>3. CASE Sent(t, q \cup {call[t]}, TRUE) /\ IsWrite(call[t])
    <3> WITNESS q \cup {call[t]} \in SUBSET CallIds, TRUE \in BOOLEAN
    <3> QED
      BY <2>3
  <2>4. CASE Sent(t, q, FALSE)
    <3> WITNESS q \in SUBSET CallIds, FALSE \in BOOLEAN
    <3> QED
      BY <2>4
  <2> QED
    BY <2>2, <2>3, <2>4 DEF Execute, InTransaction, Used, IsWrite
<1>6. PICK x \in Link :
         /\ links' = [links EXCEPT ![using[t]] = x]
         /\ x.pending = k /\ x.open /\ x.up
         /\ Len(x.answers) = Len(links[using[t]].answers) + 1
  BY <1>1, <1>2, <1>5, WorkingFacts, SentLink
<1>7. LinkStep(t, "result", x)
  BY <1>1, <1>2, <1>3, <1>6, WorkingFacts DEF LinkStep
<1>8. SendsTo(t, "result", x)
  BY <1>1, <1>6, PhaseFacts DEF SendsTo
<1>9. \A n \in x.pending :
             \/ n \in links[using[t]].pending /\ ~ Owns(t, n, using[t])
             \/ n = call[t] /\ IsWrite(n)
  BY <1>4, <1>5, <1>6
<1> HIDE DEF q
<1> QED
  BY <1>7, <1>8, <1>9, LinkStepInv, PhaseFacts

\* COMMIT and ROLLBACK empty the transaction.
LEMMA EmptiedInv ==
  ASSUME Inv, NEW t \in Threads, NEW p \in {"committed", "rolled_back"},
         phase[t] \in {"commit", "rollback"}, Usable(using[t]), Sent(t, {}, TRUE),
         Go(t, p), UNCHANGED <<conn, call, using, calls, losses>>,
         stored' \subseteq DOMAIN calls
  PROVE  Inv'
<1> DEFINE none == {}
<1>1. Typed /\ phase[t] \in Sending \cup Reading /\ phase[t] \notin Reading
  BY PhaseFacts DEF Inv
<1>2. CallsGoOn
  BY <1>1, CallsUnchanged
<1>3. none \in SUBSET CallIds /\ Sent(t, none, TRUE)
  OBVIOUS
<1> HIDE DEF none
<1>4. PICK x \in Link :
         /\ links' = [links EXCEPT ![using[t]] = x]
         /\ x.pending = none /\ x.open /\ x.up
         /\ Len(x.answers) = Len(links[using[t]].answers) + 1
  <2>1. using[t] \in DOMAIN links /\ call[t] \in DOMAIN calls
    BY <1>1, WorkingFacts
  <2>2. PICK ok \in BOOLEAN : Sent(t, none, ok)
    <3> WITNESS TRUE \in BOOLEAN
    <3> QED
      BY <1>3
  <2> QED
    BY <1>1, <1>3, <2>1, <2>2, SentLink
<1>5. LinkStep(t, p, x)
  BY <1>1, <1>2, <1>4, WorkingFacts DEF LinkStep
<1>6. SendsTo(t, p, x)
  BY <1>1, <1>4, PhaseFacts DEF SendsTo
<1>7. x.pending = {}
  BY <1>4 DEF none
<1> QED
  BY <1>5, <1>6, <1>7, LinkStepInv, PhaseFacts

LEMMA CommitInv ==
  ASSUME Inv, NEW t \in Threads, Commit(t) PROVE Inv'
<1>1. \A n \in InTransaction(t) : n \in DOMAIN calls
  <2> SUFFICES ASSUME NEW n \in InTransaction(t) PROVE n \in DOMAIN calls
    OBVIOUS
  <2>1. phase[t] \in Sending \cup Reading
    BY PhaseFacts DEF Commit
  <2>2. n \in links[using[t]].pending /\ using[t] \in DOMAIN links
    BY <2>1, WorkingFacts DEF Inv
  <2>3. PICK u \in Threads : Owns(u, n, using[t])
    BY <2>2 DEF Inv, PendingOwned
  <2> QED
    BY <2>3 DEF Owns, Inv, Typed, InCall
<1>2. stored' \subseteq DOMAIN calls
  BY <1>1 DEF Commit, Inv, Typed, ConnTypeOK
<1> QED
  BY <1>2, EmptiedInv DEF Commit

LEMMA RollbackInv ==
  ASSUME Inv, NEW t \in Threads, Rollback(t) PROVE Inv'
<1>1. stored' \subseteq DOMAIN calls
  BY DEF Rollback, Inv, Typed, ConnTypeOK
<1> QED
  BY <1>1, EmptiedInv DEF Rollback

\* Reading leaves the transaction as it is, with the statement of t still in it
\* only if t has still to commit or to roll back.
LEMMA ReadInv ==
  ASSUME Inv, NEW t \in Threads, NEW p \in {"idle", "commit", "rollback"},
         phase[t] \in {"result", "committed", "rolled_back"}, Read(t),
         Go(t, p), CallsGoOn,
         \A n \in links[using[t]].pending : ~ Owns(t, n, using[t]) \/ p # "idle"
  PROVE  Inv'
<1>1. Typed /\ phase[t] \in Reading /\ phase[t] \in Sending \cup Reading
  BY PhaseFacts DEF Inv
<1>2. /\ Usable(using[t]) /\ UNCHANGED <<conn, call, using, stored, losses>>
  BY DEF Read
<1>3. PICK x \in Link :
         /\ links' = [links EXCEPT ![using[t]] = x]
         /\ x.pending = links[using[t]].pending /\ x.open /\ x.up
         /\ Len(x.answers) = Len(links[using[t]].answers) - 1
  BY <1>1, WorkingFacts, ReadLink
<1>4. LinkStep(t, p, x)
  BY <1>1, <1>2, <1>3, WorkingFacts DEF LinkStep
<1>5. p \in Phases /\ p # "connect" /\ p \notin Reading
  BY PhaseFacts
<1>6. Typed'
  BY <1>1, <1>4, <1>5, LinkStepTyped
<1>7. AnswersAwaited'
  BY <1>1, <1>2, <1>3, <1>4, <1>5, LinkStepAnswers DEF Inv
<1>8. PendingOwned'
  <2>1. CASE p = "idle"
    BY <1>1, <1>3, <1>4, <1>5, <2>1, LinkStepPending DEF Inv
  <2>2. CASE p # "idle"
    <3> USE <1>1, <1>4, <1>5, LinkStepFacts
    <3> SUFFICES ASSUME NEW l \in DOMAIN links, NEW n \in links'[l].pending
                 PROVE  IsWrite(n)' /\ \E u \in Threads : Owns(u, n, l)'
      BY DEF PendingOwned
    <3>1. n \in links[l].pending
      BY <1>3
    <3>2. PICK u \in Threads : IsWrite(n) /\ Owns(u, n, l)
      BY <3>1 DEF Inv, PendingOwned
    <3>3. Owns(u, n, l)'
      <4>1. phase'[u] \in {"result", "commit", "rollback"}
        BY <2>2, <3>2 DEF Owns
      <4> QED
        BY <3>2, <4>1 DEF Owns, LinkStep
    <3>4. n \in DOMAIN calls
      BY <3>2 DEF Owns, Typed, InCall
    <3>5. IsWrite(n)'
      BY <3>2, <3>4 DEF IsWrite, LinkStep, CallsGoOn
    <3> QED
      BY <3>3, <3>5
  <2> QED
    BY <2>1, <2>2
<1> QED
  BY <1>6, <1>7, <1>8 DEF Inv

LEMMA ResultInv ==
  ASSUME Inv, NEW t \in Threads, Result(t) PROVE Inv'
<1> DEFINE n == call[t]
           a == NextAnswer(t)
           r == [calls[n] EXCEPT !.answer = a.call]
           o == IF a.ok THEN "returned" ELSE "raised"
           e == [r EXCEPT !.outcome = o]
<1>1. Typed /\ phase[t] = "result" /\ Read(t) /\ phase[t] \in Sending \cup Reading
  BY PhaseFacts DEF Inv, Result
<1>2. using[t] \in DOMAIN links /\ n \in DOMAIN calls /\ calls[n] \in CallRecord
  BY <1>1, WorkingFacts
<1>3. a \in Answer
  BY <1>1, <1>2, ReadLink
<1>4. a.call \in CallIds
  BY <1>3 DEF Answer
<1> HIDE DEF a
<1>5. r \in CallRecord /\ r.kind = calls[n].kind
  BY <1>2, <1>4 DEF CallRecord
<1>6. /\ [calls EXCEPT ![n] = r] \in Seq(CallRecord)
      /\ Len([calls EXCEPT ![n] = r]) = Len(calls)
      /\ DOMAIN [calls EXCEPT ![n] = r] = DOMAIN calls
      /\ [calls EXCEPT ![n] = r][n] = r
      /\ \A k \in DOMAIN calls \ {n} : [calls EXCEPT ![n] = r][k] = calls[k]
  <2> HIDE DEF r
  <2> QED
    BY <1>1, <1>2, <1>5, TypedFacts, Replaced
<1>7. CASE calls[n].kind = "write"
  <2>1. /\ Go(t, IF a.ok THEN "commit" ELSE "rollback")
        /\ calls' = [calls EXCEPT ![n] = r]
    BY <1>7 DEF Result, a
  <2>2. CallsGoOn
    <3> HIDE DEF r
    <3> QED
      BY <1>5, <1>6, <2>1 DEF CallsGoOn
  <2>3. PICK p \in {"commit", "rollback"} : Go(t, p)
    BY <2>1
  <2> QED
    BY <1>1, <2>2, <2>3, ReadInv
<1>8. CASE calls[n].kind = "read"
  <2>1. Go(t, "idle") /\ calls' = [[calls EXCEPT ![n] = r] EXCEPT ![n].outcome = o]
    BY <1>8 DEF Result, a
  <2>2. e \in CallRecord /\ e.kind = r.kind
    BY <1>5 DEF CallRecord
  <2>3. calls' = [[calls EXCEPT ![n] = r] EXCEPT ![n] = e]
    BY <1>6, <2>1
  <2>4. CallsGoOn
    <3> DEFINE c == [calls EXCEPT ![n] = r]
    <3>1. /\ c \in Seq(CallRecord) /\ Len(c) = Len(calls) /\ DOMAIN c = DOMAIN calls
          /\ c[n] = r /\ \A k \in DOMAIN calls \ {n} : c[k] = calls[k]
      BY <1>6
    <3>2. calls' = [c EXCEPT ![n] = e] /\ e \in CallRecord /\ e.kind = calls[n].kind
      BY <1>5, <2>2, <2>3
    <3> HIDE DEF c, e
    <3>3. /\ calls' \in Seq(CallRecord) /\ Len(calls') = Len(c) /\ DOMAIN calls' = DOMAIN c
          /\ calls'[n] = e /\ \A k \in DOMAIN c \ {n} : calls'[k] = c[k]
      BY <1>2, <3>1, <3>2, Replaced
    <3> QED
      BY <3>1, <3>2, <3>3 DEF CallsGoOn
  <2>5. \A m \in links[using[t]].pending : ~ Owns(t, m, using[t])
    <3>1. \A m \in links[using[t]].pending : IsWrite(m)
      BY <1>2 DEF Inv, PendingOwned
    <3> QED
      BY <1>8, <3>1 DEF Owns, IsWrite
  <2> QED
    BY <1>1, <2>1, <2>4, <2>5, ReadInv
<1> QED
  BY <1>7, <1>8 DEF Result

\* Where t commits or rolls back, nothing in the transaction is its own.
LEMMA NotOwner ==
  ASSUME NEW t \in Threads, phase[t] \in {"committed", "rolled_back"}
  PROVE  \A n, l : ~ Owns(t, n, l)
  BY DEF Owns

LEMMA CommittedInv ==
  ASSUME Inv, NEW t \in Threads, Committed(t) PROVE Inv'
<1>1. Typed /\ phase[t] = "committed" /\ Read(t)
  BY DEF Inv, Committed
<1>2. CASE End(t, "returned")
  <2>1. CallsGoOn /\ Go(t, "idle")
    BY <1>1, <1>2, EndCalls DEF End
  <2> QED
    BY <1>1, <2>1, NotOwner, ReadInv
<1>3. CASE Go(t, "rollback") /\ UNCHANGED calls
  BY <1>1, <1>3, CallsUnchanged, NotOwner, ReadInv
<1> QED
  BY <1>2, <1>3 DEF Committed

LEMMA RolledBackInv ==
  ASSUME Inv, NEW t \in Threads, RolledBack(t) PROVE Inv'
<1>1. Typed /\ phase[t] = "rolled_back" /\ Read(t) /\ End(t, "raised")
  BY DEF Inv, RolledBack
<1>2. CallsGoOn /\ Go(t, "idle")
  BY <1>1, EndCalls DEF End
<1> QED
  BY <1>1, <1>2, NotOwner, ReadInv

LEMMA ConnectionErrorInv ==
  ASSUME Inv, NEW t \in Threads, ConnectionError(t) PROVE Inv'
<1>1. /\ phase[t] \in Sending \cup Reading /\ Typed /\ End(t, "raised")
      /\ links' = [links EXCEPT ![using[t]] = Dead]
      /\ UNCHANGED <<conn, call, using, stored, losses>>
  BY DEF ConnectionError, Broken, OutOfSequence, Inv
<1>2. phase[t] # "idle"
  BY <1>1 DEF Sending, Reading
<1>3. CallsGoOn /\ Go(t, "idle")
  BY <1>1, <1>2, EndCalls DEF End
<1>4. LinkStep(t, "idle", Dead)
  BY <1>1, <1>3, WorkingFacts DEF LinkStep
<1> QED
  BY <1>4, FreshAndDead, PhaseFacts, LinkStepInv

\* A connection that nobody uses yet, or that nobody can use any more, is added
\* or put in place of one.
LEMMA LostInv ==
  ASSUME Inv, NEW l \in DOMAIN links, Lost(l) PROVE Inv'
<1> DEFINE x == [Dead EXCEPT !.open = TRUE]
<1>1. x \in Link /\ x.pending = {} /\ x.answers = <<>> /\ ~ x.up
  <2>1. Dead \in Link /\ Dead.pending = {} /\ Dead.answers = <<>> /\ ~ Dead.up
    BY FreshAndDead
  <2> QED
    BY <2>1 DEF Link
<1>2. /\ links' = [links EXCEPT ![l] = x]
      /\ UNCHANGED <<conn, phase, call, using, stored, calls>>
      /\ losses < MaxLosses /\ losses' = losses + 1
  BY DEF Lost
<1> HIDE DEF x
<1>3. /\ links' \in Seq(Link) /\ DOMAIN links' = DOMAIN links /\ links'[l] = x
      /\ \A k \in DOMAIN links \ {l} : links'[k] = links[k]
  BY <1>1, <1>2, Replaced, TypedFacts DEF Inv
<1>4. ConnTypeOK'
  BY <1>2, <1>3, BoundsAssumption DEF Inv, Typed, ConnTypeOK
<1>5. InCall'
  BY <1>2, <1>3 DEF Inv, Typed, InCall
<1>6. PendingOwned'
  <2>1. \A t, n, k : Owns(t, n, k)' <=> Owns(t, n, k)
    BY <1>2 DEF Owns
  <2>2. \A n : IsWrite(n)' <=> IsWrite(n)
    BY <1>2 DEF IsWrite
  <2> QED
    BY <1>1, <1>3, <2>1, <2>2 DEF Inv, PendingOwned
<1>7. AnswersAwaited'
  <2>1. \A k : Readers(k)' = Readers(k)
    BY <1>2 DEF Readers
  <2>2. ~ Usable(l)' /\ \A k \in DOMAIN links \ {l} : Usable(k)' = Usable(k)
    BY <1>1, <1>3 DEF Usable
  <2> QED
    BY <1>1, <1>3, <2>1, <2>2 DEF Inv, AnswersAwaited
<1> QED
  BY <1>4, <1>5, <1>6, <1>7 DEF Inv, Typed

LEMMA ConnectInv ==
  ASSUME Inv, NEW t \in Threads, Connect(t) PROVE Inv'
<1>0. PICK m \in Nat : m = Len(links) + 1
  BY TypedFacts DEF Inv
<1>1. /\ phase[t] = "connect" /\ links' = Append(links, Fresh) /\ conn' = m
      /\ using' = [using EXCEPT ![t] = m] /\ Go(t, "execute")
      /\ UNCHANGED <<call, stored, calls, losses>> /\ Typed
  BY <1>0 DEF Connect, Inv
<1>2. /\ links' \in Seq(Link) /\ DOMAIN links' = DOMAIN links \cup {m} /\ m \notin DOMAIN links
      /\ links'[m] = Fresh /\ \A l \in DOMAIN links : links'[l] = links[l]
  BY <1>0, <1>1, FreshAndDead, TypedFacts
<1>3. /\ phase' \in [Threads -> Phases] /\ phase'[t] = "execute"
      /\ using' \in [Threads -> {None} \cup DOMAIN links'] /\ using'[t] = m
      /\ \A u \in Threads \ {t} : phase'[u] = phase[u] /\ using'[u] = using[u]
  BY <1>1, <1>2, TypedFacts, PhaseFacts DEF Go, Phases, Sending
<1>4. ConnTypeOK'
  BY <1>1, <1>2, <1>3 DEF Typed, ConnTypeOK
<1>5. InCall'
  BY <1>1, <1>2, <1>3 DEF Typed, InCall
<1>6. PendingOwned'
  <2>1. \A u, n, l : u \in Threads /\ Owns(u, n, l) => Owns(u, n, l)'
    BY <1>1, <1>3 DEF Owns
  <2>2. \A n : IsWrite(n)' <=> IsWrite(n)
    BY <1>1 DEF IsWrite
  <2> QED
    BY <1>2, <2>1, <2>2, FreshAndDead DEF Inv, PendingOwned
<1>7. AnswersAwaited'
  <2>1. \A l \in DOMAIN links : Readers(l)' = Readers(l) /\ Usable(l)' = Usable(l)
    <3> SUFFICES ASSUME NEW l \in DOMAIN links
                 PROVE  Readers(l)' = Readers(l) /\ Usable(l)' = Usable(l)
      OBVIOUS
    <3>1. t \notin Readers(l) /\ t \notin Readers(l)'
      BY <1>1, <1>3, PhaseFacts DEF Readers, Reading
    <3>2. \A u \in Threads \ {t} : u \in Readers(l) <=> u \in Readers(l)'
      BY <1>3 DEF Readers
    <3>3. Readers(l) \subseteq Threads /\ Readers(l)' \subseteq Threads
      BY DEF Readers
    <3>4. Readers(l)' = Readers(l)
      BY <3>1, <3>2, <3>3
    <3> QED
      BY <1>2, <3>4 DEF Usable
  <2>2. Readers(m)' = {}
    <3> SUFFICES ASSUME NEW u \in Threads, using'[u] = m, phase'[u] \in Reading PROVE FALSE
      BY DEF Readers
    <3>1. u # t
      BY <1>3, PhaseFacts
    <3>2. using[u] \in DOMAIN links
      BY <1>3, <3>1 DEF Inv, Typed, InCall
    <3> QED
      BY <1>2, <1>3, <3>1, <3>2
  <2>3. IsFiniteSet(Readers(m)') /\ Cardinality(Readers(m)') = 0
    BY <2>2, FS_EmptySet
  <2>4. Len(links'[m].answers) = 0
    BY <1>2, FreshAndDead
  <2> QED
    BY <1>2, <2>1, <2>3, <2>4 DEF Inv, AnswersAwaited
<1> QED
  BY <1>4, <1>5, <1>6, <1>7 DEF Inv, Typed

\* A step of a thread that is neither before nor after it at work on a connection,
\* or is so for the first time, and that leaves the connections alone.
LEMMA AwayInv ==
  ASSUME Inv, Typed', NEW t \in Threads, UNCHANGED links,
         phase[t] \notin Reading, phase'[t] \notin Reading,
         phase[t] \notin {"result", "commit", "rollback"},
         \A u \in Threads \ {t} :
            phase'[u] = phase[u] /\ using'[u] = using[u] /\ call'[u] = call[u],
         \A n \in DOMAIN calls : calls'[n].kind = calls[n].kind
  PROVE  Inv'
<1>1. PendingOwned'
  <2> SUFFICES ASSUME NEW l \in DOMAIN links, NEW n \in links[l].pending
               PROVE  IsWrite(n)' /\ \E u \in Threads : Owns(u, n, l)'
    BY DEF PendingOwned
  <2>1. PICK u \in Threads : IsWrite(n) /\ Owns(u, n, l)
    BY DEF Inv, PendingOwned
  <2>2. Owns(u, n, l)'
    BY <2>1 DEF Owns
  <2>3. n \in DOMAIN calls
    BY <2>1 DEF Owns, Inv, Typed, InCall
  <2> QED
    BY <2>1, <2>2, <2>3 DEF IsWrite
<1>2. \A l : Readers(l)' = Readers(l)
  <2> SUFFICES ASSUME NEW l PROVE Readers(l)' = Readers(l)
    OBVIOUS
  <2>1. t \notin Readers(l) /\ t \notin Readers(l)'
    BY DEF Readers
  <2>2. \A u \in Threads \ {t} : u \in Readers(l) <=> u \in Readers(l)'
    BY DEF Readers
  <2>3. Readers(l) \subseteq Threads /\ Readers(l)' \subseteq Threads
    BY DEF Readers
  <2> QED
    BY <2>1, <2>2, <2>3
<1>3. AnswersAwaited'
  BY <1>2 DEF Inv, AnswersAwaited, Usable
<1> QED
  BY <1>1, <1>3 DEF Inv

LEMMA ConnectFailsInv ==
  ASSUME Inv, NEW t \in Threads, ConnectFails(t) PROVE Inv'
<1>1. /\ phase[t] = "connect" /\ End(t, "raised") /\ Typed
      /\ losses < MaxLosses /\ losses' = losses + 1
      /\ UNCHANGED <<conn, links, call, using, stored>>
  BY DEF ConnectFails, Inv
<1>2. CallsGoOn
  BY <1>1, EndCalls
<1>3. /\ phase' \in [Threads -> Phases] /\ phase'[t] = "idle"
      /\ \A u \in Threads \ {t} : phase'[u] = phase[u]
  BY <1>1, TypedFacts, PhaseFacts DEF End, Go
<1>4. Typed'
  <2>1. ConnTypeOK'
    BY <1>1, <1>2, <1>3, BoundsAssumption DEF Typed, ConnTypeOK, CallsGoOn
  <2>2. InCall'
    BY <1>1, <1>2, <1>3 DEF Typed, InCall, CallsGoOn, Sending, Reading
  <2> QED
    BY <2>1, <2>2 DEF Typed
<1>5. phase[t] \notin Reading /\ phase'[t] \notin Reading
  BY <1>1, <1>3 DEF Reading
<1> QED
  BY <1>1, <1>2, <1>3, <1>4, <1>5, AwayInv DEF CallsGoOn

LEMMA CallInv ==
  ASSUME Inv, NEW t \in Threads, NEW kind \in {"write", "read"}, Call(t, kind) PROVE Inv'
<1>0. PICK n \in Nat : n = Len(calls) + 1
  BY TypedFacts DEF Inv
<1> DEFINE none == {}
           under == UnderWay
           new == [kind |-> kind, outcome |-> "none", answer |-> None, beside |-> under]
           met(m) == [calls[m] EXCEPT !.beside = @ \cup {n}]
           old == [m \in DOMAIN calls |-> IF m \in under THEN met(m) ELSE calls[m]]
<1>1. /\ phase[t] = "idle" /\ Len(calls) < MaxCalls /\ Typed
      /\ calls' = Append(old, new) /\ call' = [call EXCEPT ![t] = n]
      /\ UNCHANGED <<conn, links, stored, losses>>
  BY <1>0 DEF Call, Inv
<1>2. under \subseteq DOMAIN calls /\ under \in SUBSET CallIds /\ n \in CallIds
  BY <1>0, <1>1, TypedFacts, BoundsAssumption DEF UnderWay, Busy, Inv, Typed, InCall, CallIds
<1> HIDE DEF under
<1>3. \A m \in DOMAIN calls : met(m) \in CallRecord /\ met(m).kind = calls[m].kind
  <2> SUFFICES ASSUME NEW m \in DOMAIN calls
               PROVE  met(m) \in CallRecord /\ met(m).kind = calls[m].kind
    OBVIOUS
  <2>1. calls[m] \in CallRecord
    BY <1>1, TypedFacts
  <2>2. calls[m].beside \cup {n} \in SUBSET CallIds
    BY <1>2, <2>1 DEF CallRecord
  <2> QED
    BY <2>1, <2>2 DEF CallRecord
<1> HIDE DEF met
<1>4. /\ old \in Seq(CallRecord) /\ Len(old) = Len(calls) /\ DOMAIN old = DOMAIN calls
      /\ \A m \in DOMAIN calls : old[m].kind = calls[m].kind
  <2>1. \A m \in DOMAIN calls : old[m] \in CallRecord /\ old[m].kind = calls[m].kind
    BY <1>1, <1>3, TypedFacts
  <2>2. old \in [1 .. Len(calls) -> CallRecord] /\ Len(calls) \in Nat
    BY <1>1, <2>1, TypedFacts
  <2> QED
    BY <1>1, <2>1, <2>2, TypedFacts
<1>5. new \in CallRecord
  BY <1>2 DEF CallRecord
<1> HIDE DEF old, new
<1>6. /\ calls' \in Seq(CallRecord) /\ DOMAIN calls' = DOMAIN calls \cup {n} /\ Len(calls') = n
      /\ \A m \in DOMAIN calls : calls'[m].kind = calls[m].kind
  <2>1. DOMAIN calls = 1 .. Len(calls) /\ Len(calls) \in Nat
    BY <1>1, TypedFacts
  <2>2. /\ calls' \in Seq(CallRecord) /\ Len(calls') = n /\ DOMAIN calls' = 1 .. n
        /\ \A m \in 1 .. Len(old) : calls'[m] = old[m]
    BY <1>0, <1>1, <1>4, <1>5
  <2> QED
    BY <1>0, <1>4, <2>1, <2>2
<1>7. /\ phase' \in [Threads -> Phases] /\ phase'[t] \in {"execute", "connect"}
      /\ using' \in [Threads -> {None} \cup DOMAIN links]
      /\ phase'[t] = "execute" => using'[t] \in DOMAIN links
      /\ \A u \in Threads \ {t} : phase'[u] = phase[u] /\ using'[u] = using[u]
  <2>1. CASE HasConnection /\ using' = [using EXCEPT ![t] = conn] /\ Go(t, "execute")
    <3>1. conn \in DOMAIN links
      BY <1>1, <2>1 DEF HasConnection, Typed, ConnTypeOK
    <3> QED
      BY <1>1, <2>1, <3>1, TypedFacts DEF Go, Phases, Sending
  <2>2. CASE Go(t, "connect") /\ UNCHANGED using
    BY <1>1, <2>2, TypedFacts DEF Go, Phases
  <2> QED
    BY <2>1, <2>2 DEF Call
<1>8. /\ call' \in [Threads -> {None} \cup DOMAIN calls'] /\ call'[t] = n
      /\ \A u \in Threads \ {t} : call'[u] = call[u]
  BY <1>1, <1>6, TypedFacts
<1>9. Typed'
  <2>1. ConnTypeOK'
    BY <1>1, <1>6, <1>7, <1>8 DEF Typed, ConnTypeOK
  <2>2. InCall'
    <3>1. Len(calls') <= MaxCalls
      BY <1>0, <1>1, <1>6, BoundsAssumption, TypedFacts
    <3>2. ASSUME NEW u \in Threads
          PROVE  /\ phase'[u] # "idle" => call'[u] \in DOMAIN calls'
                 /\ phase'[u] \in Sending \cup Reading => using'[u] \in DOMAIN links'
      <4>1. CASE u = t
        BY <1>1, <1>6, <1>7, <1>8, <4>1 DEF Sending, Reading
      <4>2. CASE u # t
        BY <1>1, <1>6, <1>7, <1>8, <4>2 DEF Typed, InCall
      <4> QED
        BY <4>1, <4>2
    <3> QED
      BY <3>1, <3>2 DEF InCall
  <2> QED
    BY <2>1, <2>2 DEF Typed
<1>10. phase[t] \notin Reading /\ phase'[t] \notin Reading
  BY <1>1, <1>7 DEF Reading
<1> QED
  BY <1>1, <1>6, <1>7, <1>8, <1>9, <1>10, AwayInv

LEMMA StutterInv == Inv /\ UNCHANGED vars => Inv'
<1> SUFFICES ASSUME Inv, UNCHANGED vars PROVE Inv'
  OBVIOUS
<1> USE DEF vars
<1>1. Typed'
  BY DEF Inv, Typed, ConnTypeOK, InCall
<1>2. PendingOwned'
  BY DEF Inv, PendingOwned, Owns, IsWrite
<1>3. AnswersAwaited'
  <2>1. \A l : Readers(l)' = Readers(l)
    BY DEF Readers
  <2> QED
    BY <2>1 DEF Inv, AnswersAwaited, Usable
<1> QED
  BY <1>1, <1>2, <1>3 DEF Inv

LEMMA NextInv == Inv /\ [Next]_vars => Inv'
<1> SUFFICES ASSUME Inv, [Next]_vars PROVE Inv'
  OBVIOUS
<1>1. ASSUME NEW t \in Threads, Step(t) PROVE Inv'
  BY <1>1, ConnectInv, ExecuteInv, CommitInv, RollbackInv, ResultInv, CommittedInv,
     RolledBackInv, ConnectionErrorInv DEF Step
<1>2. ASSUME NEW t \in Threads, ConnectFails(t) PROVE Inv'
  BY <1>2, ConnectFailsInv
<1>3. ASSUME NEW t \in Threads, NEW kind \in {"write", "read"}, Call(t, kind) PROVE Inv'
  BY <1>3, CallInv
<1>4. ASSUME NEW l \in DOMAIN links, Lost(l) PROVE Inv'
  BY <1>4, LostInv
<1>5. CASE UNCHANGED vars
  BY <1>5, StutterInv
<1> QED
  BY <1>1, <1>2, <1>3, <1>4, <1>5 DEF Next

-----------------------------------------------------------------------------
(***************************************************************************)
(* What becomes of each call.                                              *)
(*                                                                         *)
(* Company: the record of the calls that overlapped is exact enough to     *)
(* tell who may have disturbed whom.  AnswersNear: since the call whose    *)
(* answer waits to be read, there was always a call under way.             *)
(***************************************************************************)
Beside ==
    \A t, u \in Busy : t # u => call[t] # call[u] /\ call[t] \in calls[call[u]].beside
BesideLater == \A t \in Busy : \A n \in DOMAIN calls : call[t] < n => call[t] \in calls[n].beside
NotOver == \A t \in Busy : calls[call[t]].outcome = "none"
Company == Beside /\ BesideLater /\ NotOver

UnbrokenSince(n) == Unbroken(n, Len(calls))
AnswersNear ==
    \A l \in DOMAIN links : \A i \in DOMAIN links[l].answers :
        links[l].answers[i].call \in DOMAIN calls /\ UnbrokenSince(links[l].answers[i].call)

\* pymysql has a socket to a server that is gone only after a loss.
OpenUp == \A l \in DOMAIN links : links[l].open /\ ~ links[l].up => losses > 0

(***************************************************************************)
(* A thread that can only raise.  The statement of a write, once executed, *)
(* is stored, or it waits in a transaction, or its refusal waits to be     *)
(* read, or a call near it has raised or can only raise.                   *)
(***************************************************************************)
Failing(t) ==
    \/ phase[t] \in {"rollback", "rolled_back"}
    \/ phase[t] \in Sending \cup Reading /\ ~ Usable(using[t])
Fails(t) == Failing(t) \/ Raised(call[t])

Executed(n) == \A u \in Threads : call[u] = n => phase[u] \notin {"connect", "execute"}

Refusal(n) == [call |-> n, ok |-> FALSE]
Waits(n) == \E l \in DOMAIN links : n \in links[l].pending
Refused(n) ==
    \E l \in DOMAIN links : \E i \in DOMAIN links[l].answers : links[l].answers[i] = Refusal(n)
Noticed(n) ==
    \E m \in DOMAIN calls :
        /\ Near(n, m)
        /\ Raised(m) \/ \E t \in Threads : call[t] = m /\ Failing(t)

Fate(n) == n \in stored \/ Waits(n) \/ Refused(n) \/ Noticed(n)
Fates == \A n \in DOMAIN calls : IsWrite(n) /\ Executed(n) => Fate(n)

(***************************************************************************)
(* A thread whose call has been alone so far finds in the connection what  *)
(* it has put there, and nothing else.                                     *)
(***************************************************************************)
AloneAt(t) ==
    LET n == call[t]
        k == links[using[t]]
    IN  /\ calls[n].answer \in {None, n}
        /\ n \in stored <=> phase[t] = "committed"
        /\ phase[t] \in Sending \cup Reading /\ losses = 0 => Usable(using[t])
        /\ phase[t] \in Reading /\ Usable(using[t]) =>
              /\ k.in_sequence
              /\ Head(k.answers).call = n
              /\ phase[t] # "result" => Head(k.answers).ok
        /\ phase[t] = "result" /\ Usable(using[t]) /\ IsWrite(n) /\ Head(k.answers).ok =>
              n \in k.pending
        /\ phase[t] = "commit" /\ Usable(using[t]) => n \in k.pending
Alone == \A t \in Busy : calls[call[t]].beside = {} => AloneAt(t)

Exact(n) ==
    /\ calls[n].answer \in {None, n}
    /\ Returned(n) /\ IsWrite(n) => n \in stored
    /\ Raised(n) /\ losses = 0 => n \notin stored

Shared == OpenUp /\ Company /\ AnswersNear /\ Fates /\ Alone /\ AloneExact
Whole == Inv /\ Shared

LEMMA InitWhole == Init => Whole
<1> SUFFICES ASSUME Init PROVE Shared
  BY InitInv DEF Whole
<1>1. DOMAIN links = {} /\ DOMAIN calls = {} /\ \A t \in Threads : phase[t] = "idle"
  BY DEF Init
<1> QED
  BY <1>1 DEF Shared, OpenUp, Company, Beside, BesideLater, NotOver, Busy, AnswersNear,
              Fates, Alone, AloneExact

LEMMA BusyFacts ==
  ASSUME Typed, NEW t \in Threads
  PROVE  /\ t \in Busy <=> phase[t] # "idle"
         /\ phase[t] \in Sending \cup Reading => t \in Busy
         /\ t \in Busy => call[t] \in DOMAIN calls /\ call[t] \in UnderWay
  BY DEF Busy, UnderWay, Typed, InCall, Sending, Reading

\* Since the call of a thread at work began, that call itself was under way.
LEMMA BusyUnbroken ==
  ASSUME Typed, Company, NEW t \in Busy
  PROVE  Unbroken(call[t], Len(calls))
<1>1. call[t] \in DOMAIN calls /\ DOMAIN calls = 1 .. Len(calls) /\ Len(calls) \in Nat
  BY BusyFacts, TypedFacts DEF Busy
<1> SUFFICES ASSUME NEW k \in call[t] + 1 .. Len(calls)
             PROVE  \E j \in calls[k].beside : j < k
  BY DEF Unbroken
<1>2. k \in DOMAIN calls /\ call[t] < k
  BY <1>1
<1> QED
  BY <1>2 DEF Company, BesideLater

\* A call since which there was always one under way has every call under way
\* near it.
LEMMA UnbrokenNear ==
  ASSUME Typed, Company, NEW t \in Busy, NEW n \in DOMAIN calls, Unbroken(n, Len(calls))
  PROVE  Near(n, call[t])
<1>1. call[t] \in DOMAIN calls /\ DOMAIN calls = 1 .. Len(calls) /\ Len(calls) \in Nat
  BY BusyFacts, TypedFacts DEF Busy
<1>2. CASE call[t] < n
  BY <1>2 DEF Company, BesideLater, Near
<1>3. CASE n <= call[t]
  BY <1>1, <1>3 DEF Unbroken, Near
<1> QED
  BY <1>1, <1>2, <1>3

\* A call is near itself.
LEMMA NearSelf == ASSUME NEW n \in Nat PROVE Near(n, n)
  BY DEF Near, Unbroken

\* The thread that owns a statement in a transaction has every thread at work
\* near it.
LEMMA OwnerNear ==
  ASSUME Typed, Company, NEW t \in Busy, NEW u \in Threads, NEW n, NEW l, Owns(u, n, l)
  PROVE  Near(n, call[t])
<1>1. u \in Busy /\ call[u] = n /\ n \in Nat
  BY BusyFacts, TypedFacts DEF Owns, Busy
<1>2. CASE u = t
  BY <1>1, <1>2, NearSelf
<1>3. CASE u # t
  BY <1>1, <1>3 DEF Company, Beside, Near
<1> QED
  BY <1>2, <1>3

-----------------------------------------------------------------------------
(***************************************************************************)
(* A step of thread t inside its call.                                     *)
(***************************************************************************)
OwnStep(t) ==
    /\ phase[t] # "idle"
    /\ call' = call
    /\ DOMAIN calls' = DOMAIN calls /\ Len(calls') = Len(calls)
    /\ \A n \in DOMAIN calls : calls'[n].kind = calls[n].kind /\ calls'[n].beside = calls[n].beside
    /\ \A n \in DOMAIN calls \ {call[t]} : calls'[n] = calls[n]
    /\ \A u \in Threads \ {t} : phase'[u] = phase[u] /\ using'[u] = using[u]
    /\ phase'[t] # "idle" => calls'[call[t]].outcome = calls[call[t]].outcome
    /\ stored \subseteq stored'
    /\ losses \in Nat /\ losses' \in Nat /\ losses <= losses'
    /\ DOMAIN links \subseteq DOMAIN links'
    /\ \A l \in DOMAIN links : Usable(l)' => Usable(l)

LEMMA OwnStepNear ==
  ASSUME Typed, NEW t \in Threads, OwnStep(t), NEW n \in DOMAIN calls, NEW m \in DOMAIN calls
  PROVE  /\ Near(n, m)' <=> Near(n, m)
         /\ Unbroken(n, m)' <=> Unbroken(n, m)
<1>1. DOMAIN calls = 1 .. Len(calls) /\ Len(calls) \in Nat
  BY TypedFacts
<1>2. \A k \in n + 1 .. m : k \in DOMAIN calls
  BY <1>1
<1> QED
  BY <1>2 DEF OwnStep, Near, Unbroken

LEMMA OwnStepCompany ==
  ASSUME Typed, Company, NEW t \in Threads, OwnStep(t)
  PROVE  Company'
<1>1. Busy' \subseteq Busy /\ t \in Busy
  BY DEF Busy, OwnStep
<1>2. \A u \in Busy : call[u] \in DOMAIN calls
  BY BusyFacts DEF Busy
<1>3. Beside'
  BY <1>1, <1>2 DEF Beside, Company, OwnStep
<1>4. BesideLater'
  BY <1>1, <1>2 DEF BesideLater, Company, OwnStep
<1>5. NotOver'
  <2> SUFFICES ASSUME NEW u \in Busy' PROVE calls'[call[u]].outcome = "none"
    BY DEF NotOver, OwnStep
  <2>1. calls[call[u]].outcome = "none" /\ call[u] \in DOMAIN calls
    BY <1>1, <1>2 DEF Company, NotOver
  <2>2. CASE call[u] # call[t]
    BY <2>1, <2>2 DEF OwnStep
  <2>3. CASE call[u] = call[t]
    <3>1. u = t
      BY <1>1, <2>3 DEF Company, Beside
    <3> QED
      BY <2>1, <3>1 DEF OwnStep, Busy
  <2> QED
    BY <2>2, <2>3
<1> QED
  BY <1>3, <1>4, <1>5 DEF Company

\* What a step of t takes from a transaction without storing it, and a refusal
\* that it reads, make t fail.
LEMMA OwnStepFates ==
  ASSUME Inv, Company, AnswersNear, Fates, NEW t \in Threads, OwnStep(t),
         \A n \in DOMAIN calls : Waits(n) => n \in stored' \/ Waits(n)' \/ Fails(t)',
         \A n \in DOMAIN calls : Refused(n) => Refused(n)' \/ Fails(t)',
         Failing(t) => Fails(t)',
         /\ phase[t] \in {"connect", "execute"} /\ phase'[t] \notin {"connect", "execute"}
         /\ IsWrite(call[t])
         => Waits(call[t])' \/ Refused(call[t])' \/ Fails(t)'
  PROVE  Fates'
<1>0. Typed /\ t \in Busy /\ call[t] \in DOMAIN calls /\ DOMAIN calls' = DOMAIN calls
      /\ call' = call /\ DOMAIN calls \subseteq Nat
  BY BusyFacts, TypedFacts DEF OwnStep, Inv
<1>1. ASSUME NEW n \in DOMAIN calls, Near(n, call[t]), Fails(t)'
      PROVE  Noticed(n)'
  <2>1. Near(n, call[t])' /\ call'[t] = call[t]
    BY <1>0, <1>1, OwnStepNear
  <2> QED
    BY <1>0, <1>1, <2>1 DEF Noticed, Fails
<1>2. ASSUME NEW n \in DOMAIN calls, Waits(n) PROVE Fate(n)'
  <2>1. PICK l \in DOMAIN links : n \in links[l].pending
    BY <1>2 DEF Waits
  <2>2. PICK u \in Threads : Owns(u, n, l)
    BY <2>1 DEF Inv, PendingOwned
  <2>3. Near(n, call[t])
    BY <1>0, <2>2, OwnerNear
  <2> QED
    BY <1>1, <1>2, <2>3 DEF Fate
<1>3. ASSUME NEW n \in DOMAIN calls, Refused(n) PROVE Fate(n)'
  <2>1. PICK l \in DOMAIN links :
           \E i \in DOMAIN links[l].answers : links[l].answers[i] = Refusal(n)
    BY <1>3 DEF Refused
  <2>2. Unbroken(n, Len(calls))
    BY <2>1 DEF AnswersNear, Refusal, UnbrokenSince
  <2>3. Near(n, call[t])
    BY <1>0, <2>2, UnbrokenNear
  <2> QED
    BY <1>1, <1>3, <2>3 DEF Fate
<1>4. ASSUME NEW n \in DOMAIN calls, Noticed(n) PROVE Noticed(n)'
  <2>1. PICK m \in DOMAIN calls :
           /\ Near(n, m)
           /\ Raised(m) \/ \E u \in Threads : call[u] = m /\ Failing(u)
    BY <1>4 DEF Noticed
  <2>2. Near(n, m)'
    BY <1>0, <2>1, OwnStepNear
  <2>3. CASE Raised(m)
    <3>1. m # call[t]
      BY <1>0, <2>3 DEF Raised, Company, NotOver
    <3>2. Raised(m)'
      BY <2>3, <3>1 DEF Raised, OwnStep
    <3> QED
      BY <1>0, <2>2, <3>2 DEF Noticed
  <2>4. ASSUME NEW u \in Threads, call[u] = m, Failing(u) PROVE Noticed(n)'
    <3>1. CASE u = t
      BY <1>1, <2>1, <2>4, <3>1
    <3>2. CASE u # t
      <4>1. phase'[u] = phase[u] /\ using'[u] = using[u]
        BY <3>2 DEF OwnStep
      <4>2. phase[u] \in Sending \cup Reading => using[u] \in DOMAIN links
        BY <1>0 DEF Typed, InCall
      <4>3. Failing(u)'
        BY <2>4, <4>1, <4>2 DEF Failing, OwnStep
      <4> QED
        BY <1>0, <2>2, <2>4, <4>3 DEF Noticed
    <3> QED
      BY <3>1, <3>2
  <2> QED
    BY <2>1, <2>3, <2>4
<1> SUFFICES ASSUME NEW n \in DOMAIN calls, IsWrite(n)', Executed(n)' PROVE Fate(n)'
  BY <1>0 DEF Fates
<1>5. IsWrite(n)
  BY DEF IsWrite, OwnStep
<1>6. CASE Executed(n)
  <2>1. Fate(n)
    BY <1>5, <1>6 DEF Fates
  <2>2. n \in stored => n \in stored'
    BY DEF OwnStep
  <2> QED
    BY <1>2, <1>3, <1>4, <2>1, <2>2 DEF Fate
<1>7. CASE ~ Executed(n)
  <2>1. PICK u \in Threads : call[u] = n /\ phase[u] \in {"connect", "execute"}
    BY <1>7 DEF Executed
  <2>2. phase'[u] \notin {"connect", "execute"}
    BY <1>0, <2>1 DEF Executed
  <2>3. u = t
    BY <2>1, <2>2 DEF OwnStep
  <2>4. Near(n, call[t])
    BY <1>0, <2>1, <2>3, NearSelf
  <2> QED
    BY <1>0, <1>1, <1>5, <2>1, <2>2, <2>3, <2>4 DEF Fate, Waits, Refused, Refusal
<1> QED
  BY <1>6, <1>7

\* A call beside which no other was under way has the connection for itself.
LEMMA AloneFacts ==
  ASSUME Inv, Company, Alone, NEW t \in Busy, calls[call[t]].beside = {}
  PROVE  /\ Busy = {t} /\ AloneAt(t)
         /\ phase[t] \notin Reading => \A l \in DOMAIN links : links[l].answers = <<>>
<1>1. Busy = {t}
  BY DEF Company, Beside
<1>2. ASSUME phase[t] \notin Reading, NEW l \in DOMAIN links PROVE links[l].answers = <<>>
  <2>1. Readers(l) = {}
    <3> SUFFICES ASSUME NEW u \in Threads, phase[u] \in Reading PROVE FALSE
      BY DEF Readers
    <3>1. u \in Busy
      BY BusyFacts DEF Inv
    <3> QED
      BY <1>1, <1>2, <3>1
  <2>2. Len(links[l].answers) = 0
    BY <2>1, FS_EmptySet DEF Inv, AnswersAwaited
  <2>3. links[l].answers \in Seq(Answer)
    BY TypedFacts, LinkFields DEF Inv
  <2> QED
    BY <2>2, <2>3
<1> QED
  BY <1>1, <1>2 DEF Alone

\* What t does in its call touches no call that was alone, but its own.
LEMMA OwnStepAlone ==
  ASSUME Inv, Company, Alone, AloneExact, NEW t \in Threads, OwnStep(t),
         \A n \in stored' \ stored : n \in UnderWay,
         calls[call[t]].beside = {} =>
            IF phase'[t] = "idle" THEN Exact(call[t])' ELSE AloneAt(t)'
  PROVE  Alone' /\ AloneExact'
<1>0. Typed /\ t \in Busy /\ call[t] \in DOMAIN calls /\ Busy' \subseteq Busy /\ call' = call
      /\ DOMAIN calls' = DOMAIN calls
      /\ \A n \in DOMAIN calls : calls'[n].kind = calls[n].kind /\ calls'[n].beside = calls[n].beside
  BY BusyFacts DEF OwnStep, Inv, Busy
<1>1. Alone'
  <2> SUFFICES ASSUME NEW u \in Busy', calls'[call[u]].beside = {} PROVE AloneAt(u)'
    BY <1>0 DEF Alone
  <2>1. call[u] \in DOMAIN calls /\ u \in Busy
    BY <1>0, BusyFacts DEF Busy
  <2>2. calls[call[u]].beside = {}
    BY <1>0, <2>1
  <2>3. u = t
    BY <1>0, <2>1, <2>2 DEF Company, Beside
  <2>4. phase'[t] # "idle"
    BY <2>3 DEF Busy
  <2> QED
    BY <2>2, <2>3, <2>4
<1>2. AloneExact'
  <2> SUFFICES ASSUME NEW n \in DOMAIN calls, calls[n].beside = {} PROVE Exact(n)'
    BY <1>0 DEF AloneExact, Exact
  <2>1. CASE n = call[t] /\ phase'[t] = "idle"
    BY <1>0, <2>1 DEF Exact, Returned, Raised, IsWrite
  <2>2. CASE n = call[t] /\ phase'[t] # "idle"
    <3>1. AloneAt(t)'
      BY <2>2
    <3>2. calls'[n].answer \in {None, n}
      BY <1>0, <2>2, <3>1 DEF AloneAt
    <3>3. calls'[n].outcome = "none"
      BY <1>0, <2>2 DEF OwnStep, Company, NotOver
    <3> QED
      BY <3>2, <3>3 DEF Exact, Returned, Raised
  <2>3. CASE n # call[t]
    <3>1. Exact(n) /\ calls'[n] = calls[n]
      BY <2>3 DEF AloneExact, Exact, OwnStep
    <3>2. Raised(n) => n \notin UnderWay
      BY BusyFacts DEF Company, NotOver, UnderWay, Raised
    <3>3. losses' = 0 => losses = 0
      BY DEF OwnStep
    <3> QED
      BY <3>1, <3>2, <3>3 DEF Exact, Returned, Raised, IsWrite, OwnStep
  <2> QED
    BY <2>1, <2>2, <2>3
<1> QED
  BY <1>1, <1>2

\* The answers after a step of t: some of those before it, and its own.
LEMMA OwnStepAnswers ==
  ASSUME Inv, Company, AnswersNear, NEW t \in Threads, OwnStep(t),
         \A l \in DOMAIN links' : \A i \in DOMAIN links'[l].answers :
            \/ links'[l].answers[i].call = call[t]
            \/ /\ l \in DOMAIN links
               /\ \E j \in DOMAIN links[l].answers : links[l].answers[j] = links'[l].answers[i]
  PROVE  AnswersNear'
<1>0. Typed /\ t \in Busy /\ call[t] \in DOMAIN calls /\ Len(calls) \in DOMAIN calls
      /\ DOMAIN calls' = DOMAIN calls /\ Len(calls') = Len(calls)
  <2>1. Typed /\ t \in Busy /\ call[t] \in DOMAIN calls
    BY BusyFacts DEF OwnStep, Inv
  <2> QED
    BY <2>1, TypedFacts DEF OwnStep
<1> SUFFICES ASSUME NEW l \in DOMAIN links', NEW i \in DOMAIN links'[l].answers,
                    NEW n, n = links'[l].answers[i].call
             PROVE  n \in DOMAIN calls' /\ UnbrokenSince(n)'
  BY DEF AnswersNear, UnbrokenSince, Unbroken
<1>1. n \in DOMAIN calls /\ Unbroken(n, Len(calls))
  <2>1. CASE n = call[t]
    BY <1>0, <2>1, BusyUnbroken
  <2>2. ASSUME l \in DOMAIN links, NEW j \in DOMAIN links[l].answers,
               links[l].answers[j] = links'[l].answers[i]
        PROVE  n \in DOMAIN calls /\ Unbroken(n, Len(calls))
    BY <2>2 DEF AnswersNear, UnbrokenSince
  <2> QED
    BY <2>1, <2>2
<1>2. \A k \in n + 1 .. Len(calls) : k \in DOMAIN calls
  BY <1>0, <1>1, TypedFacts
<1>3. UnbrokenSince(n)'
  BY <1>0, <1>1, <1>2 DEF UnbrokenSince, Unbroken, OwnStep
<1> QED
  BY <1>0, <1>1, <1>3

LEMMA AppendElements ==
  ASSUME NEW s \in Seq(Answer), NEW a \in Answer, NEW e \in Seq(Answer), e = Append(s, a)
  PROVE  /\ \A i \in DOMAIN e : e[i] = a \/ \E j \in DOMAIN s : s[j] = e[i]
         /\ \A j \in DOMAIN s : \E i \in DOMAIN e : e[i] = s[j]
         /\ \E i \in DOMAIN e : e[i] = a
<1>1. /\ DOMAIN e = 1 .. Len(s) + 1 /\ DOMAIN s = 1 .. Len(s) /\ Len(s) \in Nat
      /\ \A j \in 1 .. Len(s) : e[j] = s[j]
      /\ e[Len(s) + 1] = a
  OBVIOUS
<1> QED
  BY <1>1

LEMMA TailElements ==
  ASSUME NEW S, NEW s \in Seq(S), s # <<>>
  PROVE  /\ Tail(s) \in Seq(S) /\ Head(s) \in S
         /\ \A i \in DOMAIN Tail(s) : \E j \in DOMAIN s : s[j] = Tail(s)[i]
         /\ \A j \in DOMAIN s : s[j] = Head(s) \/ \E i \in DOMAIN Tail(s) : Tail(s)[i] = s[j]
<1>1. /\ Tail(s) \in Seq(S) /\ Head(s) \in S /\ DOMAIN Tail(s) = 1 .. Len(s) - 1
      /\ DOMAIN s = 1 .. Len(s) /\ Len(s) \in Nat
      /\ \A i \in 1 .. Len(s) - 1 : Tail(s)[i] = s[i + 1]
      /\ Head(s) = s[1]
  OBVIOUS
<1>2. ASSUME NEW i \in DOMAIN Tail(s) PROVE \E j \in DOMAIN s : s[j] = Tail(s)[i]
  <2>1. i + 1 \in DOMAIN s /\ s[i + 1] = Tail(s)[i]
    BY <1>1
  <2> QED
    BY <2>1
<1>3. ASSUME NEW j \in DOMAIN s, s[j] # Head(s)
      PROVE  \E i \in DOMAIN Tail(s) : Tail(s)[i] = s[j]
  <2>1. j # 1
    BY <1>1, <1>3
  <2>2. j - 1 \in 1 .. Len(s) - 1 /\ j - 1 + 1 = j
    BY <1>1, <2>1
  <2>3. Tail(s)[j - 1] = s[j - 1 + 1]
    BY <1>1, <2>2
  <2> QED
    BY <1>1, <2>2, <2>3
<1> QED
  BY <1>1, <1>2, <1>3

\* A step of t in its call changes only its own record, and the outcome of that
\* only at the end.
OwnCall(t) ==
    /\ \A n \in DOMAIN calls : calls'[n].beside = calls[n].beside
    /\ \A n \in DOMAIN calls \ {call[t]} : calls'[n] = calls[n]
    /\ phase'[t] # "idle" => calls'[call[t]].outcome = calls[call[t]].outcome
    /\ stored \subseteq stored' /\ losses' = losses

(***************************************************************************)
(* The steps on a connection keep Shared.                                  *)
(***************************************************************************)
LEMMA LinkStepShared ==
  ASSUME Whole, NEW t \in Threads, NEW p \in Phases, p \notin {"connect", "execute"},
         NEW x \in Link, LinkStep(t, p, x), OwnCall(t),
         x.up => Usable(using[t]),
         x.open => x.up,
         \A i \in DOMAIN x.answers :
            \/ x.answers[i].call = call[t]
            \/ \E j \in DOMAIN links[using[t]].answers : links[using[t]].answers[j] = x.answers[i],
         \A n \in links[using[t]].pending : n \in x.pending \/ n \in stored' \/ Fails(t)',
         \A j \in DOMAIN links[using[t]].answers :
            \/ links[using[t]].answers[j].ok
            \/ \E i \in DOMAIN x.answers : x.answers[i] = links[using[t]].answers[j]
            \/ Fails(t)',
         Failing(t) => Fails(t)',
         phase[t] = "execute" /\ IsWrite(call[t]) =>
            \/ call[t] \in x.pending
            \/ \E i \in DOMAIN x.answers : x.answers[i] = Refusal(call[t])
            \/ Fails(t)',
         \A n \in stored' \ stored : n \in links[using[t]].pending,
         calls[call[t]].beside = {} =>
            IF p = "idle" THEN Exact(call[t])' ELSE AloneAt(t)'
  PROVE  Shared'
<1> DEFINE l == using[t]
<1>0. Inv /\ Typed /\ OpenUp /\ Company /\ AnswersNear /\ Fates /\ Alone /\ AloneExact
  BY DEF Whole, Shared, Inv
<1>1. /\ l \in DOMAIN links /\ call[t] \in DOMAIN calls
      /\ DOMAIN links' = DOMAIN links /\ links'[l] = x
      /\ \A k \in DOMAIN links \ {l} : links'[k] = links[k]
      /\ phase'[t] = p /\ \A u \in Threads \ {t} : phase'[u] = phase[u]
  BY <1>0, LinkStepFacts
<1>2. call' = call /\ using' = using /\ phase[t] \in Sending \cup Reading /\ CallsGoOn
  BY DEF LinkStep
<1>3. OwnStep(t)
  <2>1. phase[t] # "idle"
    BY <1>2 DEF Sending, Reading
  <2>2. losses \in Nat
    BY <1>0, BoundsAssumption DEF Typed, ConnTypeOK
  <2>3. \A k \in DOMAIN links : Usable(k)' => Usable(k)
    BY <1>1 DEF Usable
  <2> QED
    BY <1>1, <1>2, <2>1, <2>2, <2>3 DEF OwnStep, OwnCall, CallsGoOn
<1>4. OpenUp'
  BY <1>0, <1>1 DEF OpenUp, OwnCall
<1>5. Company'
  BY <1>0, <1>3, OwnStepCompany
<1>6. AnswersNear'
  <2>1. \A k \in DOMAIN links' : \A i \in DOMAIN links'[k].answers :
            \/ links'[k].answers[i].call = call[t]
            \/ /\ k \in DOMAIN links
               /\ \E j \in DOMAIN links[k].answers : links[k].answers[j] = links'[k].answers[i]
    BY <1>1
  <2> QED
    BY <1>0, <1>3, <2>1, OwnStepAnswers
<1>7. Fates'
  <2>1. ASSUME NEW n \in DOMAIN calls, Waits(n)
        PROVE  n \in stored' \/ Waits(n)' \/ Fails(t)'
    BY <1>1, <2>1 DEF Waits
  <2>2. ASSUME NEW n \in DOMAIN calls, Refused(n)
        PROVE  Refused(n)' \/ Fails(t)'
    <3>1. PICK k \in DOMAIN links :
             \E i \in DOMAIN links[k].answers : links[k].answers[i] = Refusal(n)
      BY <2>2 DEF Refused
    <3>2. ~ Refusal(n).ok
      BY DEF Refusal
    <3>3. CASE k = l
      BY <1>1, <3>1, <3>2, <3>3 DEF Refused, Refusal
    <3>4. CASE k # l
      BY <1>1, <3>1, <3>4 DEF Refused, Refusal
    <3> QED
      BY <3>3, <3>4
  <2>3. /\ phase[t] \in {"connect", "execute"} /\ phase'[t] \notin {"connect", "execute"}
        /\ IsWrite(call[t])
        => Waits(call[t])' \/ Refused(call[t])' \/ Fails(t)'
    <3>1. phase[t] # "connect"
      BY <1>2 DEF Sending, Reading
    <3>2. call[t] \in x.pending => Waits(call[t])'
      BY <1>1, <1>2 DEF Waits
    <3>3. (\E i \in DOMAIN x.answers : x.answers[i] = Refusal(call[t])) => Refused(call[t])'
      BY <1>1, <1>2 DEF Refused, Refusal
    <3> QED
      BY <3>1, <3>2, <3>3
  <2> QED
    BY <1>0, <1>3, <2>1, <2>2, <2>3, OwnStepFates
<1>8. Alone' /\ AloneExact'
  <2>1. ASSUME NEW n \in stored' \ stored PROVE n \in UnderWay
    <3>1. PICK u \in Threads : Owns(u, n, l)
      BY <1>0, <1>1 DEF Inv, PendingOwned
    <3> QED
      BY <3>1 DEF Owns, UnderWay, Busy
  <2>2. calls[call[t]].beside = {} =>
            IF phase'[t] = "idle" THEN Exact(call[t])' ELSE AloneAt(t)'
    BY <1>1
  <2> QED
    BY <1>0, <1>3, <2>1, <2>2, OwnStepAlone
<1> QED
  BY <1>4, <1>5, <1>6, <1>7, <1>8 DEF Shared

LEMMA WholeFacts ==
  ASSUME Whole
  PROVE  Inv /\ Typed /\ OpenUp /\ Company /\ AnswersNear /\ Fates /\ Alone /\ AloneExact
  BY DEF Whole, Shared, Inv

\* Sending: the answer comes to the end of those not yet read.
LEMMA SendsShared ==
  ASSUME Whole, NEW t \in Threads, NEW p \in {"result", "committed", "rolled_back"},
         phase[t] \in {"execute", "commit", "rollback"}, Usable(using[t]),
         NEW q \in SUBSET CallIds, NEW ok \in BOOLEAN, Sent(t, q, ok), Go(t, p),
         UNCHANGED <<conn, call, using, calls, losses>>,
         stored \subseteq stored', stored' \subseteq DOMAIN calls,
         phase[t] = "rollback" <=> p = "rolled_back",
         \A n \in links[using[t]].pending : n \in q \/ n \in stored' \/ p = "rolled_back",
         phase[t] = "execute" /\ IsWrite(call[t]) => call[t] \in q \/ ~ ok,
         \A n \in stored' \ stored : n \in links[using[t]].pending,
         AloneAt(t) => (call[t] \in stored' <=> p = "committed"),
         p # "result" => ok,
         p = "result" /\ ok /\ IsWrite(call[t]) => call[t] \in q
  PROVE  Shared'
<1> DEFINE l == using[t]
           s == links[l].answers
<1>0. Inv /\ Typed /\ Company /\ Alone /\ t \in Busy
  BY WholeFacts, BusyFacts
<1>1. phase[t] \in Sending \cup Reading /\ phase[t] \notin Reading /\ p \in Phases /\ p \in Reading
      /\ p \notin {"connect", "execute", "idle"}
  BY PhaseFacts
<1>2. l \in DOMAIN links /\ call[t] \in DOMAIN calls /\ s \in Seq(Answer)
  BY <1>0, <1>1, WorkingFacts, TypedFacts, LinkFields
<1>3. PICK x \in Link :
         /\ links' = [links EXCEPT ![using[t]] = x]
         /\ x.pending = q /\ x.open /\ x.up /\ x.in_sequence
         /\ x.answers = Append(s, Reply(t, ok))
  BY <1>0, <1>2, SentLink
<1>4. Reply(t, ok) \in Answer /\ Reply(t, ok).call = call[t] /\ Reply(t, ok).ok = ok
      /\ (~ ok => Reply(t, ok) = Refusal(call[t]))
  BY <1>0, <1>2, TypedFacts DEF Reply, Answer, Refusal
<1>5. CallsGoOn
  BY <1>0, CallsUnchanged
<1>6. losses \in 0 .. MaxLosses
  BY <1>0 DEF Typed, ConnTypeOK
<1>7. LinkStep(t, p, x)
  BY <1>1, <1>3, <1>5, <1>6 DEF LinkStep
<1>8. /\ phase'[t] = p /\ links'[l] = x
  BY <1>0, <1>1, <1>7, LinkStepFacts
<1>9. OwnCall(t)
  BY DEF OwnCall
<1> HIDE DEF s
<1>10. /\ \A i \in DOMAIN x.answers :
            x.answers[i] = Reply(t, ok) \/ \E j \in DOMAIN s : s[j] = x.answers[i]
       /\ \A j \in DOMAIN s : \E i \in DOMAIN x.answers : x.answers[i] = s[j]
       /\ \E i \in DOMAIN x.answers : x.answers[i] = Reply(t, ok)
       /\ s = <<>> => Head(x.answers) = Reply(t, ok)
  <2>1. PICK a \in Answer, r \in Seq(Answer), e \in Seq(Answer) :
           a = Reply(t, ok) /\ r = s /\ e = x.answers /\ e = Append(r, a)
    BY <1>2, <1>3, <1>4, LinkFields
  <2>2. e = Append(r, a)
    BY <2>1
  <2>3. /\ \A i \in DOMAIN e : e[i] = a \/ \E j \in DOMAIN r : r[j] = e[i]
        /\ \A j \in DOMAIN r : \E i \in DOMAIN e : e[i] = r[j]
        /\ \E i \in DOMAIN e : e[i] = a
    BY ONLY <2>2, AppendElements
  <2>4. r = <<>> => Head(e) = a
    BY ONLY <2>2
  <2> QED
    BY <2>1, <2>3, <2>4
<1>11. \A i \in DOMAIN x.answers :
            \/ x.answers[i].call = call[t]
            \/ \E j \in DOMAIN s : s[j] = x.answers[i]
  BY <1>4, <1>10
<1>12. p = "rolled_back" => Fails(t)'
  BY <1>8 DEF Fails, Failing
<1>13. Failing(t) => Fails(t)'
  BY <1>12 DEF Failing
<1>14. phase[t] = "execute" /\ IsWrite(call[t]) =>
            \/ call[t] \in x.pending
            \/ \E i \in DOMAIN x.answers : x.answers[i] = Refusal(call[t])
  BY <1>3, <1>4, <1>10
<1>15. ASSUME calls[call[t]].beside = {} PROVE AloneAt(t)'
  <2>1. AloneAt(t) /\ s = <<>>
    BY <1>0, <1>1, <1>2, <1>15, AloneFacts DEF s
  <2>2. Head(x.answers) = Reply(t, ok)
    BY <1>10, <2>1
  <2>3. calls[call[t]].answer \in {None, call[t]}
    BY <2>1 DEF AloneAt
  <2>4. Usable(l)'
    BY <1>3, <1>8 DEF Usable
  <2>5. p # "commit"
    OBVIOUS
  <2> QED
    BY <1>3, <1>4, <1>8, <2>1, <2>2, <2>3, <2>4, <2>5 DEF AloneAt, IsWrite
<1>16. x.pending = q /\ x.open /\ x.up
  BY <1>3
<1>17. \A n \in links[using[t]].pending : n \in x.pending \/ n \in stored' \/ Fails(t)'
  BY <1>12, <1>16
<1>18. calls[call[t]].beside = {} => IF p = "idle" THEN Exact(call[t])' ELSE AloneAt(t)'
  BY <1>1, <1>15
<1> QED
  BY <1>1, <1>7, <1>9, <1>10, <1>11, <1>13, <1>14, <1>16, <1>17, <1>18, LinkStepShared DEF s

\* Reading: the oldest answer is taken; a refusal makes the reader fail.
LEMMA ReadsShared ==
  ASSUME Whole, NEW t \in Threads, NEW p \in {"idle", "commit", "rollback"},
         phase[t] \in {"result", "committed", "rolled_back"}, Read(t), Go(t, p), CallsGoOn,
         \A n \in DOMAIN calls : calls'[n].beside = calls[n].beside,
         \A n \in DOMAIN calls \ {call[t]} : calls'[n] = calls[n],
         p # "idle" => calls'[call[t]].outcome = calls[call[t]].outcome,
         phase[t] = "rolled_back" \/ ~ NextAnswer(t).ok => p = "rollback" \/ Raised(call[t])',
         calls[call[t]].beside = {} =>
            IF p = "idle" THEN Exact(call[t])'
            ELSE /\ calls'[call[t]].answer \in {None, call[t]}
                 /\ call[t] \notin stored
                 /\ p = "commit" => call[t] \in links[using[t]].pending
  PROVE  Shared'
<1> DEFINE l == using[t]
           s == links[l].answers
<1>0. Inv /\ Typed /\ Company /\ Alone /\ t \in Busy
  BY WholeFacts, BusyFacts
<1>1. phase[t] \in Sending \cup Reading /\ p \in Phases /\ p \notin Reading
      /\ p \notin {"connect", "execute", "result", "committed"}
  BY PhaseFacts
<1>2. l \in DOMAIN links /\ call[t] \in DOMAIN calls /\ s \in Seq(Answer)
      /\ stored \subseteq DOMAIN calls /\ losses \in 0 .. MaxLosses
  BY <1>0, <1>1, WorkingFacts, TypedFacts, LinkFields
<1>3. PICK x \in Link :
         /\ links' = [links EXCEPT ![using[t]] = x]
         /\ x.pending = links[l].pending /\ x.open /\ x.up
         /\ x.answers = Tail(s)
  BY <1>0, <1>2, ReadLink
<1>4. /\ Usable(l) /\ s # <<>> /\ NextAnswer(t) = Head(s)
      /\ UNCHANGED <<conn, call, using, stored, losses>>
  BY DEF Read, Used, NextAnswer
<1>5. LinkStep(t, p, x)
  BY <1>1, <1>2, <1>3, <1>4 DEF LinkStep
<1>6. /\ phase'[t] = p /\ links'[l] = x
  BY <1>0, <1>1, <1>5, LinkStepFacts
<1>7. OwnCall(t)
  BY <1>4, <1>6 DEF OwnCall
<1> HIDE DEF s
<1>8. /\ \A i \in DOMAIN x.answers : \E j \in DOMAIN s : s[j] = x.answers[i]
      /\ \A j \in DOMAIN s : s[j] = Head(s) \/ \E i \in DOMAIN x.answers : x.answers[i] = s[j]
  BY <1>2, <1>3, <1>4, TailElements
<1>9. p = "rollback" \/ Raised(call[t])' => Fails(t)'
  BY <1>4, <1>6 DEF Fails, Failing, Raised
<1>10. Failing(t) => Fails(t)'
  <2>1. Failing(t) => phase[t] = "rolled_back"
    BY <1>4 DEF Failing
  <2> QED
    BY <1>9, <2>1
<1>11. \A j \in DOMAIN s :
            \/ s[j].ok
            \/ \E i \in DOMAIN x.answers : x.answers[i] = s[j]
            \/ Fails(t)'
  BY <1>4, <1>8, <1>9
<1>12. ASSUME calls[call[t]].beside = {}, p # "idle" PROVE AloneAt(t)'
  <2>1. Usable(l)'
    BY <1>3, <1>4, <1>6 DEF Usable
  <2> QED
    BY <1>1, <1>3, <1>4, <1>6, <1>12, <2>1 DEF AloneAt
<1>13. calls[call[t]].beside = {} => IF p = "idle" THEN Exact(call[t])' ELSE AloneAt(t)'
  BY <1>12
<1>14. phase[t] # "execute" /\ stored' = stored
  BY <1>4
<1>15. x.up /\ x.open /\ x.pending = links[l].pending /\ Usable(l)
  BY <1>3, <1>4
<1> QED
  BY <1>1, <1>5, <1>7, <1>8, <1>10, <1>11, <1>13, <1>14, <1>15, LinkStepShared DEF s

LEMMA ExecuteShared ==
  ASSUME Whole, NEW t \in Threads, Execute(t) PROVE Shared'
<1> DEFINE old == links[using[t]].pending
<1>1. /\ phase[t] = "execute" /\ Usable(using[t]) /\ Go(t, "result") /\ Inv /\ Typed
      /\ UNCHANGED <<conn, call, using, stored, calls, losses>>
  BY WholeFacts DEF Execute
<1>2. /\ old \in SUBSET CallIds /\ call[t] \in CallIds /\ stored \subseteq DOMAIN calls
      /\ InTransaction(t) = old
  BY <1>1, PhaseFacts, WorkingFacts, TypedFacts
<1>3. PICK q \in SUBSET CallIds, ok \in BOOLEAN :
         /\ Sent(t, q, ok)
         /\ old \subseteq q
         /\ IsWrite(call[t]) => call[t] \in q \/ ~ ok
  <2> old \cup {call[t]} \in SUBSET CallIds
    BY <1>2
  <2>1. CASE ~ IsWrite(call[t]) /\ Sent(t, old, TRUE)
    <3> WITNESS old \in SUBSET CallIds, TRUE \in BOOLEAN
    <3> QED
      BY <2>1
  <2>2. CASE Sent(t, old \cup {call[t]}, TRUE)
    <3> WITNESS old \cup {call[t]} \in SUBSET CallIds, TRUE \in BOOLEAN
    <3> QED
      BY <2>2
  <2>3. CASE Sent(t, old, FALSE)
    <3> WITNESS old \in SUBSET CallIds, FALSE \in BOOLEAN
    <3> QED
      BY <2>3
  <2> QED
    BY <1>2, <2>1, <2>2, <2>3 DEF Execute, IsWrite
<1>4. AloneAt(t) => call[t] \notin stored
  BY <1>1 DEF AloneAt
<1>5. \A n \in links[using[t]].pending : n \in q
  BY <1>3
<1> HIDE DEF old
<1> QED
  BY <1>1, <1>2, <1>3, <1>4, <1>5, SendsShared

LEMMA CommitShared ==
  ASSUME Whole, NEW t \in Threads, Commit(t) PROVE Shared'
<1>1. /\ phase[t] = "commit" /\ Usable(using[t]) /\ Go(t, "committed") /\ Inv /\ Typed
      /\ stored' = stored \cup links[using[t]].pending
      /\ UNCHANGED <<conn, call, using, calls, losses>>
  BY WholeFacts DEF Commit, InTransaction, Used
<1>2. stored' \subseteq DOMAIN calls
  <2>1. using[t] \in DOMAIN links /\ stored \subseteq DOMAIN calls
    BY <1>1, PhaseFacts, WorkingFacts
  <2>2. ASSUME NEW n \in links[using[t]].pending PROVE n \in DOMAIN calls
    <3>1. PICK u \in Threads : Owns(u, n, using[t])
      BY <1>1, <2>1, <2>2 DEF Inv, PendingOwned
    <3> QED
      BY <1>1, <3>1 DEF Owns, Typed, InCall
  <2> QED
    BY <1>1, <2>1, <2>2
<1>3. PICK q \in SUBSET CallIds, ok \in BOOLEAN : Sent(t, q, ok) /\ ok
  <2> DEFINE none == {}
  <2> none \in SUBSET CallIds
    OBVIOUS
  <2> WITNESS none \in SUBSET CallIds, TRUE \in BOOLEAN
  <2> QED
    BY DEF Commit
<1>4. AloneAt(t) => call[t] \in stored'
  BY <1>1 DEF AloneAt
<1> QED
  BY <1>1, <1>2, <1>3, <1>4, SendsShared

LEMMA RollbackShared ==
  ASSUME Whole, NEW t \in Threads, Rollback(t) PROVE Shared'
<1>1. /\ phase[t] = "rollback" /\ Usable(using[t]) /\ Go(t, "rolled_back") /\ Inv /\ Typed
      /\ UNCHANGED <<conn, call, using, stored, calls, losses>>
  BY WholeFacts DEF Rollback
<1>2. stored \subseteq DOMAIN calls
  BY <1>1, PhaseFacts, WorkingFacts
<1>3. PICK q \in SUBSET CallIds, ok \in BOOLEAN : Sent(t, q, ok) /\ ok
  <2> DEFINE none == {}
  <2> none \in SUBSET CallIds
    OBVIOUS
  <2> WITNESS none \in SUBSET CallIds, TRUE \in BOOLEAN
  <2> QED
    BY DEF Rollback
<1>4. AloneAt(t) => call[t] \notin stored
  BY <1>1 DEF AloneAt
<1> QED
  BY <1>1, <1>2, <1>3, <1>4, SendsShared

\* The end of the call of t.
LEMMA EndRecord ==
  ASSUME Typed, NEW t \in Threads, phase[t] # "idle", NEW o \in {"returned", "raised"},
         End(t, o)
  PROVE  /\ Go(t, "idle") /\ CallsGoOn
         /\ call[t] \in DOMAIN calls
         /\ \A n \in DOMAIN calls : calls'[n].beside = calls[n].beside
         /\ \A n \in DOMAIN calls \ {call[t]} : calls'[n] = calls[n]
         /\ calls'[call[t]].outcome = o /\ calls'[call[t]].answer = calls[call[t]].answer
<1>1. CallsGoOn /\ Go(t, "idle") /\ calls' = [calls EXCEPT ![call[t]].outcome = o]
  BY EndCalls DEF End
<1>2. call[t] \in DOMAIN calls /\ calls[call[t]] \in CallRecord
  BY TypedFacts DEF Typed, InCall
<1>3. DOMAIN calls' = DOMAIN calls
  BY <1>1 DEF CallsGoOn
<1>4. calls'[call[t]] = [calls[call[t]] EXCEPT !.outcome = o]
  BY <1>1, <1>2
<1>5. /\ calls'[call[t]].outcome = o
      /\ calls'[call[t]].answer = calls[call[t]].answer
      /\ calls'[call[t]].beside = calls[call[t]].beside
  BY <1>2, <1>4 DEF CallRecord
<1>6. \A n \in DOMAIN calls \ {call[t]} : calls'[n] = calls[n]
  BY <1>1
<1> QED
  BY <1>1, <1>2, <1>5, <1>6

LEMMA CommittedShared ==
  ASSUME Whole, NEW t \in Threads, Committed(t) PROVE Shared'
<1>1. /\ phase[t] = "committed" /\ Read(t) /\ Inv /\ Typed /\ Company /\ Alone /\ t \in Busy
      /\ call[t] \in DOMAIN calls /\ UNCHANGED <<call, losses, stored>> /\ Usable(using[t])
  BY WholeFacts, BusyFacts DEF Committed, Read
<1>2. ASSUME calls[call[t]].beside = {} PROVE AloneAt(t) /\ NextAnswer(t).ok
  <2>1. AloneAt(t)
    BY <1>1, <1>2, AloneFacts
  <2> QED
    BY <1>1, <2>1, PhaseFacts DEF AloneAt, NextAnswer, Used
<1>3. CASE NextAnswer(t).ok /\ End(t, "returned")
  <2>1. /\ Go(t, "idle") /\ CallsGoOn
        /\ \A n \in DOMAIN calls : calls'[n].beside = calls[n].beside
        /\ \A n \in DOMAIN calls \ {call[t]} : calls'[n] = calls[n]
        /\ calls'[call[t]].outcome = "returned"
        /\ calls'[call[t]].answer = calls[call[t]].answer
    BY <1>1, <1>3, EndRecord
  <2>2. calls[call[t]].beside = {} => Exact(call[t])'
    BY <1>1, <1>2, <2>1 DEF AloneAt, Exact, Raised
  <2> QED
    BY <1>1, <1>3, <2>1, <2>2, ReadsShared
<1>4. CASE ~ NextAnswer(t).ok /\ Go(t, "rollback") /\ UNCHANGED calls
  <2>1. CallsGoOn
    BY <1>1, <1>4, CallsUnchanged
  <2> QED
    BY <1>1, <1>2, <1>4, <2>1, ReadsShared
<1> QED
  BY <1>3, <1>4 DEF Committed

LEMMA RolledBackShared ==
  ASSUME Whole, NEW t \in Threads, RolledBack(t) PROVE Shared'
<1>1. /\ phase[t] = "rolled_back" /\ Read(t) /\ Inv /\ Typed /\ Company /\ Alone /\ t \in Busy
      /\ End(t, "raised") /\ UNCHANGED <<call, losses, stored>>
  BY WholeFacts, BusyFacts DEF RolledBack, Read
<1>2. /\ Go(t, "idle") /\ CallsGoOn
      /\ \A n \in DOMAIN calls : calls'[n].beside = calls[n].beside
      /\ \A n \in DOMAIN calls \ {call[t]} : calls'[n] = calls[n]
      /\ calls'[call[t]].outcome = "raised"
      /\ calls'[call[t]].answer = calls[call[t]].answer
  BY <1>1, EndRecord
<1>3. calls[call[t]].beside = {} => Exact(call[t])'
  <2> SUFFICES ASSUME calls[call[t]].beside = {} PROVE Exact(call[t])'
    OBVIOUS
  <2>1. AloneAt(t)
    BY <1>1, AloneFacts
  <2> QED
    BY <1>1, <1>2, <2>1 DEF AloneAt, Exact, Returned
<1>4. Raised(call[t])'
  BY <1>1, <1>2 DEF Raised
<1> QED
  BY <1>1, <1>2, <1>3, <1>4, ReadsShared

LEMMA ResultShared ==
  ASSUME Whole, NEW t \in Threads, Result(t) PROVE Shared'
<1> DEFINE n == call[t]
           a == NextAnswer(t)
           taken == [calls EXCEPT ![n].answer = a.call]
           o == IF a.ok THEN "returned" ELSE "raised"
<1>1. /\ phase[t] = "result" /\ Read(t) /\ Inv /\ Typed /\ Company /\ Alone /\ t \in Busy
      /\ n \in DOMAIN calls /\ UNCHANGED <<call, losses, stored>> /\ Usable(using[t])
  BY WholeFacts, BusyFacts DEF Result, Read
<1>2. using[t] \in DOMAIN links /\ calls[n] \in CallRecord
  BY <1>1, PhaseFacts, WorkingFacts
<1>3. a \in Answer
  BY <1>1, <1>2, ReadLink
<1>4. a.call \in CallIds /\ a.ok \in BOOLEAN
  BY <1>3 DEF Answer
<1>5. ASSUME calls[n].beside = {}
      PROVE  /\ a.call = n /\ n \notin stored
             /\ IsWrite(n) /\ a.ok => n \in links[using[t]].pending
  <2>1. AloneAt(t)
    BY <1>1, <1>5, AloneFacts
  <2> QED
    BY <1>1, <2>1, PhaseFacts DEF AloneAt, NextAnswer, Used
<1> HIDE DEF a
<1>6. /\ DOMAIN taken = DOMAIN calls
      /\ \A m \in DOMAIN calls \ {n} : taken[m] = calls[m]
      /\ taken[n] = [calls[n] EXCEPT !.answer = a.call]
  BY <1>1
<1>7. /\ taken[n] \in CallRecord /\ taken[n].kind = calls[n].kind
      /\ taken[n].beside = calls[n].beside /\ taken[n].outcome = calls[n].outcome
      /\ taken[n].answer = a.call
  BY <1>2, <1>4, <1>6 DEF CallRecord
<1>8. calls \in Seq(CallRecord) /\ taken \in Seq(CallRecord) /\ Len(taken) = Len(calls)
  <2>1. calls \in Seq(CallRecord)
    BY <1>1, TypedFacts
  <2>2. PICK r \in CallRecord : r = [calls[n] EXCEPT !.answer = a.call]
    BY <1>6, <1>7
  <2>3. taken = [calls EXCEPT ![n] = r]
    BY <2>2
  <2> HIDE DEF taken
  <2> QED
    BY <1>1, <2>1, <2>3, Replaced
<1> HIDE DEF taken
<1>9. CASE IsWrite(n)
  <2>1. /\ calls' = taken /\ Go(t, IF a.ok THEN "commit" ELSE "rollback")
    BY <1>9 DEF Result, IsWrite, a, taken
  <2>2. CallsGoOn
    BY <1>6, <1>7, <1>8, <2>1 DEF CallsGoOn
  <2>3. PICK p \in {"commit", "rollback"} : Go(t, p) /\ (p = "commit" <=> a.ok)
    BY <2>1
  <2>4. calls[n].beside = {} =>
           /\ calls'[n].answer \in {None, n} /\ n \notin stored
           /\ p = "commit" => n \in links[using[t]].pending
    BY <1>5, <1>7, <1>9, <2>1, <2>3
  <2>5. /\ \A m \in DOMAIN calls : calls'[m].beside = calls[m].beside
        /\ \A m \in DOMAIN calls \ {n} : calls'[m] = calls[m]
        /\ calls'[n].outcome = calls[n].outcome
    BY <1>6, <1>7, <2>1
  <2>6. ~ a.ok => p = "rollback"
    BY <2>3
  <2> QED
    BY <1>1, <2>2, <2>3, <2>4, <2>5, <2>6, ReadsShared DEF a
<1>10. CASE ~ IsWrite(n)
  <2>1. /\ Go(t, "idle") /\ calls' = [taken EXCEPT ![n].outcome = o]
    BY <1>10 DEF Result, IsWrite, a, taken
  <2>2. /\ DOMAIN calls' = DOMAIN calls
        /\ \A m \in DOMAIN calls \ {n} : calls'[m] = calls[m]
        /\ calls'[n] = [taken[n] EXCEPT !.outcome = o]
    BY <1>1, <1>6, <2>1
  <2>3. /\ calls'[n] \in CallRecord /\ calls'[n].kind = calls[n].kind
        /\ calls'[n].beside = calls[n].beside /\ calls'[n].outcome = o
        /\ calls'[n].answer = a.call
    BY <1>7, <2>2 DEF CallRecord
  <2>4. CallsGoOn
    <3>1. PICK r \in CallRecord : r = [taken[n] EXCEPT !.outcome = o]
      BY <2>2, <2>3
    <3>2. calls' = [taken EXCEPT ![n] = r]
      BY <2>1, <3>1
    <3>3. calls' \in Seq(CallRecord) /\ Len(calls') = Len(taken)
      BY <1>1, <1>6, <1>8, <3>2, Replaced
    <3> QED
      BY <1>8, <2>2, <2>3, <3>3 DEF CallsGoOn
  <2>5. calls[n].beside = {} => Exact(n)'
    BY <1>1, <1>5, <1>10, <2>3 DEF Exact, IsWrite
  <2>6. ~ a.ok => Raised(n)'
    BY <1>1, <2>3 DEF Raised
  <2>7. \A m \in DOMAIN calls : calls'[m].beside = calls[m].beside
    BY <2>2, <2>3
  <2> QED
    BY <1>1, <2>1, <2>2, <2>4, <2>5, <2>6, <2>7, ReadsShared DEF a
<1> QED
  BY <1>9, <1>10

LEMMA ConnectionErrorShared ==
  ASSUME Whole, NEW t \in Threads, ConnectionError(t) PROVE Shared'
<1>1. /\ phase[t] \in Sending \cup Reading /\ Inv /\ Typed /\ Company /\ Alone /\ End(t, "raised")
      /\ links' = [links EXCEPT ![using[t]] = Dead]
      /\ UNCHANGED <<conn, call, using, stored, losses>>
      /\ t \in Busy /\ phase[t] # "idle"
  BY WholeFacts, BusyFacts DEF ConnectionError, Broken, OutOfSequence, Sending, Reading
<1>2. /\ Go(t, "idle") /\ CallsGoOn
      /\ \A n \in DOMAIN calls : calls'[n].beside = calls[n].beside
      /\ \A n \in DOMAIN calls \ {call[t]} : calls'[n] = calls[n]
      /\ calls'[call[t]].outcome = "raised"
      /\ calls'[call[t]].answer = calls[call[t]].answer
  BY <1>1, EndRecord
<1>3. LinkStep(t, "idle", Dead)
  BY <1>1, <1>2, WorkingFacts DEF LinkStep
<1>4. phase'[t] = "idle"
  BY <1>1, <1>3, FreshAndDead, PhaseFacts, LinkStepFacts
<1>5. OwnCall(t)
  BY <1>1, <1>2, <1>4 DEF OwnCall
<1>6. Fails(t)'
  BY <1>1, <1>2 DEF Fails, Raised
<1>7. calls[call[t]].beside = {} => Exact(call[t])'
  <2> SUFFICES ASSUME calls[call[t]].beside = {} PROVE Exact(call[t])'
    OBVIOUS
  <2>1. AloneAt(t)
    BY <1>1, AloneFacts
  <2>2. losses # 0
    BY <1>1, <2>1 DEF AloneAt, ConnectionError, Broken, OutOfSequence, Used
  <2> QED
    BY <1>1, <1>2, <2>1, <2>2 DEF AloneAt, Exact, Returned
<1>8. Dead \in Link /\ ~ Dead.up /\ ~ Dead.open /\ DOMAIN Dead.answers = {}
  BY FreshAndDead DEF Dead, Fresh
<1> QED
  BY <1>1, <1>3, <1>5, <1>6, <1>7, <1>8, PhaseFacts, LinkStepShared

-----------------------------------------------------------------------------
(***************************************************************************)
(* The steps before there is a connection, and those that no call makes.   *)
(***************************************************************************)
LEMMA ConnectShared ==
  ASSUME Whole, NEW t \in Threads, Connect(t) PROVE Shared'
<1>0. PICK m \in Nat : m = Len(links) + 1
  BY WholeFacts, TypedFacts
<1>1. /\ phase[t] = "connect" /\ links' = Append(links, Fresh)
      /\ using' = [using EXCEPT ![t] = m] /\ Go(t, "execute")
      /\ UNCHANGED <<call, stored, calls, losses>>
      /\ Inv /\ Typed /\ OpenUp /\ Company /\ AnswersNear /\ Fates /\ Alone /\ AloneExact
      /\ t \in Busy
  BY <1>0, WholeFacts, BusyFacts DEF Connect
<1>2. /\ DOMAIN links' = DOMAIN links \cup {m} /\ m \notin DOMAIN links
      /\ links'[m] = Fresh /\ \A l \in DOMAIN links : links'[l] = links[l]
  BY <1>0, <1>1, FreshAndDead, TypedFacts
<1>3. /\ phase'[t] = "execute" /\ using'[t] = m
      /\ \A u \in Threads \ {t} : phase'[u] = phase[u] /\ using'[u] = using[u]
  BY <1>1, TypedFacts DEF Go
<1>4. /\ \A l \in DOMAIN links : Usable(l)' = Usable(l)
      /\ Usable(m)' /\ DOMAIN Fresh.answers = {}
  BY <1>2, FreshAndDead DEF Usable
<1>5. OwnStep(t)
  <2>1. losses \in Nat
    BY <1>1, BoundsAssumption DEF Typed, ConnTypeOK
  <2> QED
    BY <1>1, <1>2, <1>3, <1>4, <2>1 DEF OwnStep
<1>6. OpenUp'
  BY <1>1, <1>2, FreshAndDead DEF OpenUp
<1>7. Company'
  BY <1>1, <1>5, OwnStepCompany
<1>8. AnswersNear'
  <2>1. \A l \in DOMAIN links' : \A i \in DOMAIN links'[l].answers :
            /\ l \in DOMAIN links
            /\ \E j \in DOMAIN links[l].answers : links[l].answers[j] = links'[l].answers[i]
    BY <1>2, <1>4
  <2> QED
    BY <1>1, <1>5, <2>1, OwnStepAnswers
<1>9. Fates'
  <2>1. \A n : Waits(n) => Waits(n)'
    BY <1>2 DEF Waits
  <2>2. \A n : Refused(n) => Refused(n)'
    BY <1>2 DEF Refused, Refusal
  <2>3. ~ Failing(t)
    BY <1>1 DEF Failing, Sending, Reading
  <2> QED
    BY <1>1, <1>3, <1>5, <2>1, <2>2, <2>3, OwnStepFates
<1>10. Alone' /\ AloneExact'
  <2>1. ASSUME calls[call[t]].beside = {} PROVE AloneAt(t)'
    <3>1. AloneAt(t)
      BY <1>1, <2>1, AloneFacts
    <3>2. phase'[t] \notin Reading
      BY <1>3, PhaseFacts
    <3> QED
      BY <1>1, <1>3, <1>4, <3>1, <3>2 DEF AloneAt
  <2>2. calls[call[t]].beside = {} =>
            IF phase'[t] = "idle" THEN Exact(call[t])' ELSE AloneAt(t)'
    BY <1>3, <2>1
  <2> QED
    BY <1>1, <1>5, <2>2, OwnStepAlone
<1> QED
  BY <1>6, <1>7, <1>8, <1>9, <1>10 DEF Shared

LEMMA ConnectFailsShared ==
  ASSUME Whole, NEW t \in Threads, ConnectFails(t) PROVE Shared'
<1>1. /\ phase[t] = "connect" /\ End(t, "raised") /\ t \in Busy
      /\ losses' = losses + 1 /\ losses \in Nat
      /\ UNCHANGED <<conn, links, call, using, stored>>
      /\ Inv /\ Typed /\ OpenUp /\ Company /\ AnswersNear /\ Fates /\ Alone /\ AloneExact
  BY WholeFacts, BusyFacts, BoundsAssumption DEF ConnectFails, Typed, ConnTypeOK
<1>2. /\ Go(t, "idle") /\ CallsGoOn /\ call[t] \in DOMAIN calls
      /\ \A n \in DOMAIN calls : calls'[n].beside = calls[n].beside
      /\ \A n \in DOMAIN calls \ {call[t]} : calls'[n] = calls[n]
      /\ calls'[call[t]].outcome = "raised"
      /\ calls'[call[t]].answer = calls[call[t]].answer
  BY <1>1, EndRecord
<1>3. /\ phase'[t] = "idle" /\ \A u \in Threads \ {t} : phase'[u] = phase[u]
  BY <1>1, <1>2, TypedFacts DEF Go
<1>4. OwnStep(t)
  BY <1>1, <1>2, <1>3 DEF OwnStep, CallsGoOn, Usable
<1>5. OpenUp'
  BY <1>1 DEF OpenUp
<1>6. Company'
  BY <1>1, <1>4, OwnStepCompany
<1>7. AnswersNear'
  BY <1>1, <1>4, OwnStepAnswers
<1>8. Fates'
  <2>1. \A n : Waits(n) => Waits(n)'
    BY <1>1 DEF Waits
  <2>2. \A n : Refused(n) => Refused(n)'
    BY <1>1 DEF Refused, Refusal
  <2>3. Fails(t)'
    BY <1>1, <1>2 DEF Fails, Raised
  <2> QED
    BY <1>1, <1>4, <2>1, <2>2, <2>3, OwnStepFates
<1>9. Alone' /\ AloneExact'
  <2>1. ASSUME calls[call[t]].beside = {} PROVE Exact(call[t])'
    <3>1. AloneAt(t)
      BY <1>1, <2>1, AloneFacts
    <3> QED
      BY <1>1, <1>2, <3>1 DEF AloneAt, Exact, Returned
  <2>2. calls[call[t]].beside = {} =>
            IF phase'[t] = "idle" THEN Exact(call[t])' ELSE AloneAt(t)'
    BY <1>3, <2>1
  <2> QED
    BY <1>1, <1>4, <2>2, OwnStepAlone
<1> QED
  BY <1>5, <1>6, <1>7, <1>8, <1>9 DEF Shared

\* When a connection is lost, whoever has a statement in it or waits for an answer
\* can only raise.
LEMMA LostShared ==
  ASSUME Whole, NEW l \in DOMAIN links, Lost(l) PROVE Shared'
<1> DEFINE x == [Dead EXCEPT !.open = TRUE]
<1>1. /\ Usable(l) /\ losses \in Nat /\ losses' = losses + 1 /\ links' = [links EXCEPT ![l] = x]
      /\ UNCHANGED <<conn, phase, call, using, stored, calls>>
      /\ Inv /\ Typed /\ OpenUp /\ Company /\ AnswersNear /\ Fates /\ Alone /\ AloneExact
  BY WholeFacts, BoundsAssumption DEF Lost, Typed, ConnTypeOK
<1>2. x.pending = {} /\ DOMAIN x.answers = {} /\ ~ x.up
  BY DEF Dead, Fresh
<1> HIDE DEF x
<1>3. /\ DOMAIN links' = DOMAIN links /\ links'[l] = x
      /\ \A k \in DOMAIN links \ {l} : links'[k] = links[k]
  BY <1>1
<1>4. ~ Usable(l)' /\ \A k \in DOMAIN links \ {l} : Usable(k)' = Usable(k)
  BY <1>2, <1>3 DEF Usable
<1>5. OpenUp'
  BY <1>1 DEF OpenUp
<1>6. Company'
  BY <1>1 DEF Company, Beside, BesideLater, NotOver, Busy
<1>7. AnswersNear'
  <2> SUFFICES ASSUME NEW k \in DOMAIN links, NEW i \in DOMAIN links'[k].answers,
                      NEW n, n = links'[k].answers[i].call
               PROVE  n \in DOMAIN calls' /\ UnbrokenSince(n)'
    BY <1>3 DEF AnswersNear, UnbrokenSince, Unbroken
  <2>1. links'[k] = links[k]
    BY <1>2, <1>3
  <2>2. n \in DOMAIN calls /\ UnbrokenSince(n)
    BY <1>1, <2>1 DEF AnswersNear
  <2> QED
    BY <1>1, <2>2 DEF UnbrokenSince, Unbroken
<1>8. Fates'
  <2> SUFFICES ASSUME NEW n \in DOMAIN calls, IsWrite(n), Executed(n) PROVE Fate(n)'
    BY <1>1 DEF Fates, IsWrite, Executed
  <2>1. \A a, m : Near(a, m)' <=> Near(a, m)
    BY <1>1 DEF Near, Unbroken
  <2>2. ASSUME NEW u \in Threads, using[u] = l, phase[u] \in Sending \cup Reading, Near(n, call[u])
        PROVE  Noticed(n)'
    <3>1. Failing(u)'
      BY <1>1, <1>4, <2>2 DEF Failing
    <3>2. call[u] \in DOMAIN calls
      BY <1>1, <2>2, BusyFacts
    <3> QED
      BY <1>1, <2>1, <2>2, <3>1, <3>2 DEF Noticed
  <2>3. CASE n \in stored
    BY <1>1, <2>3 DEF Fate
  <2>4. CASE Waits(n)
    <3>1. PICK k \in DOMAIN links : n \in links[k].pending
      BY <2>4 DEF Waits
    <3>2. CASE k = l
      <4>1. PICK u \in Threads : Owns(u, n, l)
        BY <1>1, <3>1, <3>2 DEF Inv, PendingOwned
      <4>2. /\ call[u] = n /\ using[u] = l /\ phase[u] \in Sending \cup Reading
        BY <4>1, PhaseFacts DEF Owns
      <4>3. Near(n, n)
        BY <1>1, TypedFacts, NearSelf
      <4> QED
        BY <2>2, <4>2, <4>3 DEF Fate
    <3>3. CASE k # l
      BY <1>3, <3>1, <3>3 DEF Fate, Waits
    <3> QED
      BY <3>2, <3>3
  <2>5. CASE Refused(n)
    <3>1. PICK k \in DOMAIN links :
             \E i \in DOMAIN links[k].answers : links[k].answers[i] = Refusal(n)
      BY <2>5 DEF Refused
    <3>2. CASE k = l
      <4>1. Unbroken(n, Len(calls))
        BY <1>1, <3>1 DEF AnswersNear, UnbrokenSince, Refusal
      <4>2. Readers(l) # {}
        <5>1. links[l].answers \in Seq(Answer)
          BY <1>1, TypedFacts, LinkFields
        <5>2. Len(links[l].answers) # 0
          BY <3>1, <3>2, <5>1
        <5> QED
          BY <1>1, <5>2, FS_EmptySet DEF Inv, AnswersAwaited
      <4>3. PICK u \in Threads : using[u] = l /\ phase[u] \in Reading
        BY <4>2 DEF Readers
      <4>4. Near(n, call[u])
        BY <1>1, <4>1, <4>3, BusyFacts, UnbrokenNear
      <4> QED
        BY <2>2, <4>3, <4>4 DEF Fate
    <3>3. CASE k # l
      BY <1>3, <3>1, <3>3 DEF Fate, Refused, Refusal
    <3> QED
      BY <3>2, <3>3
  <2>6. CASE Noticed(n)
    <3>1. \A u \in Threads : Failing(u) => Failing(u)'
      BY <1>1, <1>4 DEF Failing, Typed, InCall
    <3> QED
      BY <1>1, <2>1, <2>6, <3>1 DEF Fate, Noticed, Raised
  <2> QED
    BY <1>1, <2>3, <2>4, <2>5, <2>6 DEF Fates, Fate
<1>9. Alone'
  <2> SUFFICES ASSUME NEW t \in Busy, calls[call[t]].beside = {} PROVE AloneAt(t)'
    BY <1>1 DEF Alone, Busy
  <2>1. AloneAt(t)
    BY <1>1 DEF Alone
  <2>2. \/ phase[t] \notin Sending \cup Reading
        \/ using[t] # l =>
              /\ links'[using[t]] = links[using[t]]
              /\ Usable(using[t])' <=> Usable(using[t])
    BY <1>1, <1>3, <1>4 DEF Typed, InCall, Busy
  <2>3. using[t] = l => ~ Usable(using[t])'
    BY <1>1, <1>4
  <2>4. "result" \in Sending \cup Reading /\ "commit" \in Sending \cup Reading
    BY PhaseFacts
  <2> QED
    BY <1>1, <2>1, <2>2, <2>3, <2>4 DEF AloneAt, IsWrite
<1>10. AloneExact'
  BY <1>1 DEF AloneExact, Returned, Raised, IsWrite
<1> QED
  BY <1>5, <1>6, <1>7, <1>8, <1>9, <1>10 DEF Shared

\* A call that begins is noted by those under way, and they by it.
LEMMA CallShared ==
  ASSUME Whole, NEW t \in Threads, NEW kind \in {"write", "read"}, Call(t, kind) PROVE Shared'
<1>0. PICK n \in Nat : n = Len(calls) + 1
  BY WholeFacts, TypedFacts
<1> DEFINE new == [kind |-> kind, outcome |-> "none", answer |-> None, beside |-> UnderWay]
           old == [m \in DOMAIN calls |->
                      IF m \in UnderWay
                      THEN [calls[m] EXCEPT !.beside = @ \cup {n}] ELSE calls[m]]
<1>1. /\ phase[t] = "idle" /\ call' = [call EXCEPT ![t] = n] /\ calls' = Append(old, new)
      /\ UNCHANGED <<conn, links, stored, losses>>
      /\ Inv /\ Typed /\ OpenUp /\ Company /\ AnswersNear /\ Fates /\ Alone /\ AloneExact
  BY <1>0, WholeFacts DEF Call
<1>2. /\ DOMAIN calls = 1 .. Len(calls) /\ Len(calls) \in Nat /\ n \notin DOMAIN calls
      /\ UnderWay \subseteq DOMAIN calls /\ t \notin Busy
      /\ stored \subseteq DOMAIN calls
  BY <1>0, <1>1, TypedFacts, BusyFacts DEF UnderWay, Busy, Typed, InCall, ConnTypeOK
<1>3. /\ DOMAIN calls' = DOMAIN calls \cup {n} /\ Len(calls') = n
      /\ calls'[n] = new /\ \A m \in DOMAIN calls : calls'[m] = old[m]
  <2>1. PICK S : S = {old[m] : m \in DOMAIN calls}
    OBVIOUS
  <2>2. PICK f : f = old
    OBVIOUS
  <2>3. PICK r : r = new
    OBVIOUS
  <2>4. calls' = Append(f, r) /\ f \in [1 .. Len(calls) -> S]
    BY <1>1, <1>2, <2>1, <2>2, <2>3
  <2> HIDE DEF old, new
  <2>f. f \in Seq(S) /\ Len(f) = Len(calls)
    BY <1>2, <2>4
  <2>5. /\ DOMAIN calls' = 1 .. Len(f) + 1 /\ Len(calls') = Len(f) + 1
        /\ calls'[Len(f) + 1] = r /\ \A m \in 1 .. Len(f) : calls'[m] = f[m]
    BY <2>4, <2>f
  <2> QED
    BY <1>0, <1>2, <2>2, <2>3, <2>f, <2>5
<1>4. \A m \in DOMAIN calls :
         /\ calls'[m].kind = calls[m].kind /\ calls'[m].outcome = calls[m].outcome
         /\ calls'[m].answer = calls[m].answer
         /\ calls'[m].beside = IF m \in UnderWay THEN calls[m].beside \cup {n} ELSE calls[m].beside
  <2> SUFFICES ASSUME NEW m \in DOMAIN calls
               PROVE  /\ calls'[m].kind = calls[m].kind /\ calls'[m].outcome = calls[m].outcome
                      /\ calls'[m].answer = calls[m].answer
                      /\ calls'[m].beside = IF m \in UnderWay THEN calls[m].beside \cup {n}
                                            ELSE calls[m].beside
    OBVIOUS
  <2>1. calls[m] \in CallRecord
    BY <1>1, TypedFacts
  <2>2. calls'[m] = IF m \in UnderWay THEN [calls[m] EXCEPT !.beside = @ \cup {n}] ELSE calls[m]
    BY <1>3
  <2> QED
    BY <2>1, <2>2 DEF CallRecord
<1>5. /\ calls'[n].kind = kind /\ calls'[n].outcome = "none" /\ calls'[n].answer = None
      /\ calls'[n].beside = UnderWay
  BY <1>3
<1> HIDE DEF old, new
<1>6. /\ phase'[t] \in {"execute", "connect"}
      /\ \A u \in Threads \ {t} : phase'[u] = phase[u] /\ using'[u] = using[u] /\ call'[u] = call[u]
      /\ call'[t] = n
      /\ phase'[t] = "execute" => using'[t] = conn /\ HasConnection
  <2>1. call'[t] = n /\ \A u \in Threads \ {t} : call'[u] = call[u]
    BY <1>1, TypedFacts
  <2>2. CASE HasConnection /\ using' = [using EXCEPT ![t] = conn] /\ Go(t, "execute")
    BY <1>1, <2>1, <2>2, TypedFacts DEF Go
  <2>3. CASE Go(t, "connect") /\ UNCHANGED using
    BY <1>1, <2>1, <2>3, TypedFacts DEF Go
  <2> QED
    BY <2>2, <2>3 DEF Call
<1>7. /\ Busy' = Busy \cup {t}
      /\ \A u \in Busy : u # t /\ call'[u] = call[u] /\ call[u] \in UnderWay
                         /\ call[u] \in DOMAIN calls /\ call[u] # n
  BY <1>1, <1>2, <1>6, BusyFacts DEF Busy
<1>8. OpenUp'
  BY <1>1 DEF OpenUp
<1>9. Company'
  <2>1. Beside'
    <3> SUFFICES ASSUME NEW u \in Busy', NEW v \in Busy', u # v
                 PROVE  call'[u] # call'[v] /\ call'[u] \in calls'[call'[v]].beside
      BY DEF Beside
    <3>1. CASE u = t
      BY <1>4, <1>6, <1>7, <3>1
    <3>2. CASE v = t
      BY <1>5, <1>6, <1>7, <3>2
    <3>3. CASE u # t /\ v # t
      <4>1. /\ u \in Busy /\ v \in Busy /\ call'[u] = call[u] /\ call'[v] = call[v]
            /\ call[v] \in DOMAIN calls
        BY <1>7, <3>3
      <4>2. call[u] # call[v] /\ call[u] \in calls[call[v]].beside
        BY <1>1, <4>1 DEF Company, Beside
      <4>3. calls[call[v]].beside \subseteq calls'[call[v]].beside
        BY <1>4, <4>1
      <4> QED
        BY <4>1, <4>2, <4>3
    <3> QED
      BY <3>1, <3>2, <3>3
  <2>2. BesideLater'
    <3> SUFFICES ASSUME NEW u \in Busy', NEW m \in DOMAIN calls', call'[u] < m
                 PROVE  call'[u] \in calls'[m].beside
      BY DEF BesideLater
    <3>1. u # t
      BY <1>0, <1>2, <1>3, <1>6
    <3>2. u \in Busy /\ call'[u] = call[u] /\ call[u] \in UnderWay
      BY <1>7, <3>1
    <3>3. CASE m = n
      BY <1>5, <3>2, <3>3
    <3>4. CASE m \in DOMAIN calls
      BY <1>1, <1>4, <3>2, <3>4 DEF Company, BesideLater
    <3> QED
      BY <1>3, <3>3, <3>4
  <2>3. NotOver'
    <3> SUFFICES ASSUME NEW u \in Busy' PROVE calls'[call'[u]].outcome = "none"
      BY DEF NotOver
    <3>1. CASE u = t
      BY <1>5, <1>6, <3>1
    <3>2. CASE u # t
      <4>1. u \in Busy /\ call'[u] = call[u] /\ call[u] \in DOMAIN calls
        BY <1>7, <3>2
      <4> QED
        BY <1>1, <1>4, <4>1 DEF Company, NotOver
    <3> QED
      BY <3>1, <3>2
  <2> QED
    BY <2>1, <2>2, <2>3 DEF Company
<1>10. \A a \in DOMAIN calls : \A m \in DOMAIN calls : Near(a, m) => Near(a, m)'
  <2> SUFFICES ASSUME NEW a \in DOMAIN calls, NEW m \in DOMAIN calls, Near(a, m) PROVE Near(a, m)'
    OBVIOUS
  <2>1. \A k \in a + 1 .. m : k \in DOMAIN calls
    BY <1>2
  <2> QED
    BY <1>4, <2>1 DEF Near, Unbroken
<1>11. AnswersNear'
  <2> SUFFICES ASSUME NEW l \in DOMAIN links, NEW i \in DOMAIN links[l].answers,
                      NEW a, a = links[l].answers[i].call
               PROVE  a \in DOMAIN calls' /\ UnbrokenSince(a)'
    BY <1>1 DEF AnswersNear, UnbrokenSince, Unbroken
  <2>1. a \in DOMAIN calls /\ Unbroken(a, Len(calls))
    BY <1>1 DEF AnswersNear, UnbrokenSince
  <2>2. Readers(l) # {}
    <3>1. links[l].answers \in Seq(Answer)
      BY <1>1, TypedFacts, LinkFields
    <3>2. Len(links[l].answers) # 0
      BY <3>1
    <3> QED
      BY <1>1, <3>2, FS_EmptySet DEF Inv, AnswersAwaited
  <2>3. PICK u \in Threads : phase[u] \in Reading
    BY <2>2 DEF Readers
  <2>4. call[u] \in UnderWay /\ call[u] \in DOMAIN calls
    BY <1>1, <2>3, BusyFacts
  <2>5. call[u] \in calls'[n].beside /\ call[u] < n
    BY <1>0, <1>2, <1>5, <2>4
  <2>6. ASSUME NEW k \in a + 1 .. n PROVE \E j \in calls'[k].beside : j < k
    <3>1. CASE k = n
      BY <2>5, <3>1
    <3>2. CASE k # n
      <4>1. k \in a + 1 .. Len(calls) /\ k \in DOMAIN calls
        BY <1>0, <1>2, <2>1, <2>6, <3>2
      <4>2. PICK j \in calls[k].beside : j < k
        BY <2>1, <4>1 DEF Unbroken
      <4> QED
        BY <1>4, <4>1, <4>2
    <3> QED
      BY <3>1, <3>2
  <2> QED
    BY <1>3, <2>1, <2>6 DEF UnbrokenSince, Unbroken
<1>12. Fates'
  <2> SUFFICES ASSUME NEW m \in DOMAIN calls', IsWrite(m)', Executed(m)' PROVE Fate(m)'
    BY DEF Fates
  <2>1. m # n
    BY <1>6 DEF Executed
  <2>2. m \in DOMAIN calls /\ IsWrite(m)
    BY <1>3, <1>4, <2>1 DEF IsWrite
  <2>3. Executed(m)
    <3> SUFFICES ASSUME NEW u \in Threads, call[u] = m, phase[u] \in {"connect", "execute"}
                 PROVE  FALSE
      BY DEF Executed
    <3>1. u # t
      BY <1>1
    <3> QED
      BY <1>6, <3>1 DEF Executed
  <2>4. Fate(m)
    BY <1>1, <2>2, <2>3 DEF Fates
  <2>5. Noticed(m) => Noticed(m)'
    <3>1. \A u \in Threads : Failing(u) => u # t
      BY <1>1 DEF Failing, Sending, Reading
    <3>2. \A u \in Threads : Failing(u) => Failing(u)' /\ call'[u] = call[u]
      BY <1>1, <1>6, <3>1 DEF Failing, Usable
    <3>3. \A k \in DOMAIN calls : Raised(k) => Raised(k)'
      BY <1>4 DEF Raised
    <3> QED
      BY <1>3, <1>10, <2>2, <3>2, <3>3 DEF Noticed
  <2> QED
    BY <1>1, <2>4, <2>5 DEF Fate, Waits, Refused, Refusal
<1>13. Alone'
  <2> SUFFICES ASSUME NEW u \in Busy', calls'[call'[u]].beside = {} PROVE AloneAt(u)'
    BY DEF Alone
  <2>1. u = t
    BY <1>4, <1>7
  <2>2. n \notin stored
    BY <1>2
  <2>3. phase'[t] \notin Reading /\ phase'[t] \notin {"committed", "result", "commit"}
    BY <1>6 DEF Reading
  <2>4. phase'[t] = "execute" /\ losses' = 0 => Usable(using[t])'
    BY <1>1, <1>6, TypedFacts DEF OpenUp, HasConnection, Usable, Typed, ConnTypeOK
  <2>5. phase'[t] \in Sending \cup Reading => phase'[t] = "execute"
    BY <1>6 DEF Sending, Reading
  <2>6. AloneAt(t)'
    <3>1. calls'[call'[t]].answer = None /\ call'[t] \notin stored'
      <4>1. call'[t] = n
        BY <1>6
      <4>2. calls'[n].answer = None
        BY <1>5
      <4>3. stored' = stored
        BY <1>1
      <4> QED
        BY <2>2, <4>1, <4>2, <4>3
    <3>2. phase'[t] \in Sending \cup Reading /\ losses' = 0 => Usable(using[t])'
      BY <2>4, <2>5
    <3>3. call'[t] \in stored' <=> phase'[t] = "committed"
      BY <2>3, <3>1
    <3>4. /\ phase'[t] \notin Reading
          /\ phase'[t] # "result" /\ phase'[t] # "commit"
      BY <2>3
    <3>5. calls'[call'[t]].answer \in {None, call'[t]}
      BY <3>1
    <3> QED
      BY <3>2, <3>3, <3>4, <3>5 DEF AloneAt
  <2> QED
    BY <2>1, <2>6
<1>14. AloneExact'
  <2> SUFFICES ASSUME NEW m \in DOMAIN calls', calls'[m].beside = {} PROVE Exact(m)'
    BY DEF AloneExact, Exact
  <2>1. CASE m = n
    BY <1>5, <2>1 DEF Exact, Returned, Raised
  <2>2. CASE m # n
    <3>1. m \in DOMAIN calls /\ calls[m].beside = {}
      BY <1>3, <1>4, <2>2
    <3>2. Exact(m)
      BY <1>1, <3>1 DEF AloneExact, Exact
    <3> QED
      BY <1>1, <1>4, <3>1, <3>2 DEF Exact, Returned, Raised, IsWrite
  <2> QED
    BY <2>1, <2>2
<1> QED
  BY <1>8, <1>9, <1>11, <1>12, <1>13, <1>14 DEF Shared

LEMMA StutterShared == Whole /\ UNCHANGED vars => Shared'
<1> SUFFICES ASSUME Whole, UNCHANGED vars PROVE Shared'
  OBVIOUS
<1> USE DEF vars
<1>0. OpenUp /\ Company /\ AnswersNear /\ Fates /\ Alone /\ AloneExact
  BY WholeFacts
<1>1. OpenUp' /\ Company'
  BY <1>0 DEF OpenUp, Company, Beside, BesideLater, NotOver, Busy
<1>2. AnswersNear'
  BY <1>0 DEF AnswersNear, UnbrokenSince, Unbroken
<1>3. Fates'
  <2>1. \A n, m : Near(n, m)' <=> Near(n, m)
    BY DEF Near, Unbroken
  <2>2. \A n : /\ Waits(n)' <=> Waits(n)
               /\ Refused(n)' <=> Refused(n)
               /\ Executed(n)' <=> Executed(n)
               /\ IsWrite(n)' <=> IsWrite(n)
               /\ Raised(n)' <=> Raised(n)
    BY DEF Waits, Refused, Refusal, Executed, IsWrite, Raised
  <2>3. \A t : Failing(t)' <=> Failing(t)
    BY DEF Failing, Usable
  <2>4. \A n : Noticed(n)' <=> Noticed(n)
    BY <2>1, <2>2, <2>3 DEF Noticed
  <2> QED
    BY <1>0, <2>2, <2>4 DEF Fates, Fate
<1>4. Alone' /\ AloneExact'
  BY <1>0 DEF Alone, AloneAt, AloneExact, Busy, Usable, IsWrite, Returned, Raised
<1> QED
  BY <1>1, <1>2, <1>3, <1>4 DEF Shared

LEMMA NextWhole == Whole /\ [Next]_vars => Whole'
<1> SUFFICES ASSUME Whole, [Next]_vars PROVE Whole'
  OBVIOUS
<1>1. ASSUME NEW t \in Threads, Step(t) PROVE Shared'
  BY <1>1, ConnectShared, ExecuteShared, CommitShared, RollbackShared, ResultShared,
     CommittedShared, RolledBackShared, ConnectionErrorShared DEF Step
<1>2. ASSUME NEW t \in Threads, ConnectFails(t) PROVE Shared'
  BY <1>2, ConnectFailsShared
<1>3. ASSUME NEW t \in Threads, NEW kind \in {"write", "read"}, Call(t, kind) PROVE Shared'
  BY <1>3, CallShared
<1>4. ASSUME NEW l \in DOMAIN links, Lost(l) PROVE Shared'
  BY <1>4, LostShared
<1>5. ASSUME UNCHANGED vars PROVE Shared'
  BY <1>5, StutterShared
<1>6. Inv'
  BY WholeFacts, NextInv
<1> QED
  BY <1>1, <1>2, <1>3, <1>4, <1>5, <1>6 DEF Next, Whole

-----------------------------------------------------------------------------
\* The connections, the calls and the threads keep their types, and a thread at
\* work has a call and a connection, whatever the threads do to each other.
THEOREM ConnTypeCorrect == Spec => []ConnTypeOK
<1>1. Inv => ConnTypeOK
  BY DEF Inv, Typed
<1> QED
  BY <1>1, InitInv, NextInv, PTL DEF Spec

LEMMA LeftNothing == Inv => NothingLeftOver
<1> SUFFICES ASSUME Inv, Busy = {}, NEW l \in DOMAIN links
             PROVE  links[l].pending = {} /\ links[l].answers = <<>>
  BY DEF NothingLeftOver
<1>1. \A t \in Threads : phase[t] = "idle"
  BY DEF Busy
<1>2. links[l].pending = {}
  BY <1>1 DEF Inv, PendingOwned, Owns
<1>3. Readers(l) = {}
  BY <1>1 DEF Readers, Reading
<1>4. Len(links[l].answers) = 0
  BY <1>3, FS_EmptySet DEF Inv, AnswersAwaited
<1>5. links[l].answers \in Seq(Answer)
  BY TypedFacts, LinkFields DEF Inv
<1> QED
  BY <1>2, <1>4, <1>5

\* For any number of threads and calls: when all calls of DBHandler are over, no
\* statement waits in an open transaction, and no answer waits to be taken by the
\* next call.
THEOREM ConnectionLeavesNothing == Spec => []NothingLeftOver
<1> QED
  BY LeftNothing, InitInv, NextInv, PTL DEF Spec

\* For any number of threads and calls: a call beside which no other was under way
\* takes no answer but its own, is stored if it is a write and returns, and is not
\* stored if it raises and no connection was lost.
THEOREM ConnectionExactAlone == Spec => []AloneExact
<1>1. Whole => AloneExact
  BY WholeFacts
<1> QED
  BY <1>1, InitWhole, NextWhole, PTL DEF Spec

\* For any number of threads and calls: when all calls are over, a write that
\* returned and is not stored has a call near it that raised.
THEOREM ConnectionLossNoticed == Spec => []LostNearARaise
<1>1. Whole => LostNearARaise
  <2> SUFFICES ASSUME Whole, Busy = {},
                      NEW n \in DOMAIN calls, IsWrite(n), n \notin stored
               PROVE  \E m \in DOMAIN calls : Near(n, m) /\ Raised(m)
    BY DEF LostNearARaise
  <2>1. Inv /\ Fates
    BY WholeFacts
  <2>2. \A t \in Threads : phase[t] = "idle"
    BY DEF Busy
  <2>3. Executed(n)
    BY <2>2 DEF Executed
  <2>4. \A t \in Threads : ~ Failing(t)
    BY <2>2 DEF Failing, Sending, Reading
  <2>5. ASSUME NEW l \in DOMAIN links PROVE links[l].pending = {} /\ links[l].answers = <<>>
    BY <2>1, LeftNothing DEF NothingLeftOver
  <2>6. ~ Waits(n) /\ ~ Refused(n)
    BY <2>5 DEF Waits, Refused
  <2>7. Noticed(n)
    BY <2>1, <2>3, <2>6 DEF Fates, Fate
  <2> QED
    BY <2>4, <2>7 DEF Noticed
<1> QED
  BY <1>1, InitWhole, NextWhole, PTL DEF Spec
=============================================================================
