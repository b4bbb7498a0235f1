---------------------------- MODULE DbConnection ----------------------------
(***************************************************************************)
(* DBHandler (src/src/database/db_handler.py): the one pymysql connection  *)
(* that all handler threads of the hub share, with autocommit off.         *)
(*                                                                         *)
(* A call of execute or insert ("write") sends a statement, reads its      *)
(* answer, sends COMMIT and reads the answer to that; when anything raises *)
(* it sends ROLLBACK and raises.  fetch_one and fetch_all ("read") send    *)
(* one statement and read its answer.  No lock keeps the threads apart.    *)
(*                                                                         *)
(* Of pymysql and the server, which are external, this much is modelled: a *)
(* thread that reads takes the oldest answer that has not been read,       *)
(* whoever asked for it; an answer must have the sequence number after     *)
(* that of the last packet sent or read, otherwise pymysql closes the      *)
(* connection and raises; the transaction belongs to the connection; what  *)
(* is not committed when a connection ends is undone.  Sending is one step *)
(* with what the server does, reading an answer is one step.               *)
(***************************************************************************)
EXTENDS Integers, Sequences

CONSTANTS
    Threads,      \* the handler threads of the hub
    MaxCalls,     \* bound: calls of DBHandler
    MaxLosses     \* bound: connections the server or the network fails

ASSUME BoundsAssumption == MaxCalls \in Nat /\ MaxLosses \in Nat

VARIABLES
    conn,       \* DBHandler._conn, an index of links (None: 0)
    links,      \* the connections made so far
    phase,      \* thread -> where its call is
    call,       \* thread -> its call, or its last one
    using,      \* thread -> the connection _get_connection returned to it
    stored,     \* the calls whose statement is committed
    calls,      \* history: the calls so far
    losses      \* connections that failed so far

vars == <<conn, links, phase, call, using, stored, calls, losses>>

None == 0

\* Where a thread sends something next, and where it reads an answer.
Sending == {"execute", "commit", "rollback"}
Reading == {"result", "committed", "rolled_back"}
Phases == {"idle", "connect"} \cup Sending \cup Reading

CallIds == 1 .. MaxCalls

\* An answer: for which call, and whether the server refused the statement.
Answer == [call : CallIds, ok : BOOLEAN]

\* A connection: whether pymysql has a socket for it, whether the server still
\* has the other end, whether the next answer has the expected number, the
\* statements of the open transaction, and the answers not yet read.
Link ==
    [open : BOOLEAN, up : BOOLEAN, in_sequence : BOOLEAN,
     pending : SUBSET CallIds, answers : Seq(Answer)]

\* A call: how it ended, whose answer it took for its own, and the calls that
\* were under way while it was.
CallRecord ==
    [kind : {"write", "read"}, outcome : {"none", "returned", "raised"},
     answer : {None} \cup CallIds, beside : SUBSET CallIds]

ConnTypeOK ==
    /\ conn \in {None} \cup DOMAIN links
    /\ links \in Seq(Link)
    /\ phase \in [Threads -> Phases]
    /\ call \in [Threads -> {None} \cup DOMAIN calls]
    /\ using \in [Threads -> {None} \cup DOMAIN links]
    /\ stored \subseteq DOMAIN calls
    /\ calls \in Seq(CallRecord)
    /\ losses \in 0 .. MaxLosses

Init ==
    /\ conn = None
    /\ links = <<>>
    /\ phase = [t \in Threads |-> "idle"]
    /\ call = [t \in Threads |-> None]
    /\ using = [t \in Threads |-> None]
    /\ stored = {}
    /\ calls = <<>>
    /\ losses = 0

-----------------------------------------------------------------------------
Fresh == [open |-> TRUE, up |-> TRUE, in_sequence |-> FALSE,
          pending |-> {}, answers |-> <<>>]
Dead == [Fresh EXCEPT !.open = FALSE, !.up = FALSE]

Usable(l) == links[l].open /\ links[l].up

Busy == {t \in Threads : phase[t] # "idle"}
UnderWay == {call[t] : t \in Busy}

Go(t, p) == phase' = [phase EXCEPT ![t] = p]

\* The call of t ends.
End(t, outcome) ==
    /\ Go(t, "idle")
    /\ calls' = [calls EXCEPT ![call[t]].outcome = outcome]

\* The test of _get_connection: self._conn is there and open.
HasConnection == conn # None /\ links[conn].open

\* A thread calls DBHandler.  _get_connection takes the connection that is
\* open, or goes on to make one.
Call(t, kind) ==
    /\ phase[t] = "idle"
    /\ Len(calls) < MaxCalls
    /\ LET n == Len(calls) + 1
           new == [kind |-> kind, outcome |-> "none", answer |-> None,
                   beside |-> UnderWay]
       IN  /\ calls' = Append([m \in DOMAIN calls |->
                                  IF m \in UnderWay
                                  THEN [calls[m] EXCEPT !.beside = @ \cup {n}]
                                  ELSE calls[m]], new)
           /\ call' = [call EXCEPT ![t] = n]
    /\ \/ /\ HasConnection
          /\ using' = [using EXCEPT ![t] = conn]
          /\ Go(t, "execute")
       \/ /\ ~ HasConnection
          /\ Go(t, "connect")
          /\ UNCHANGED using
    /\ UNCHANGED <<conn, links, stored, losses>>

\* Mutant: the handle is kept before there is a connection.
ConnectLater(t) ==
    /\ phase[t] = "connect"
    /\ conn' = Len(links) + 1
    /\ using' = [using EXCEPT ![t] = Len(links) + 1]
    /\ Go(t, "execute")
    /\ UNCHANGED <<links, call, stored, calls, losses>>

\* pymysql.connect; another thread may have made a connection since the test,
\* which this one replaces.
Connect(t) ==
    /\ phase[t] = "connect"
    /\ links' = Append(links, Fresh)
    /\ conn' = Len(links) + 1
    /\ using' = [using EXCEPT ![t] = Len(links) + 1]
    /\ Go(t, "execute")
    /\ UNCHANGED <<call, stored, calls, losses>>

\* It raises, before any try.
ConnectFails(t) ==
    /\ phase[t] = "connect"
    /\ losses < MaxLosses
    /\ losses' = losses + 1
    /\ End(t, "raised")
    /\ UNCHANGED <<conn, links, call, using, stored>>

-----------------------------------------------------------------------------
\* The connection t uses, and the open transaction there.
Used(t) == links[using[t]]
InTransaction(t) == Used(t).pending

\* t sends a command to the server, which leaves the transaction as "pending"
\* and answers.
Sent(t, pending, ok) ==
    links' = [links EXCEPT ![using[t]] =
                 [Used(t) EXCEPT
                     !.in_sequence = TRUE, !.pending = pending,
                     !.answers = Append(Used(t).answers, [call |-> call[t], ok |-> ok])]]

\* cursor.execute; a statement that writes may be refused by a key.
Execute(t) ==
    /\ phase[t] = "execute"
    /\ Usable(using[t])
    /\ \/ /\ calls[call[t]].kind = "read"
          /\ Sent(t, InTransaction(t), TRUE)
       \/ /\ calls[call[t]].kind = "write"
          /\ \/ Sent(t, InTransaction(t) \cup {call[t]}, TRUE)
             \/ Sent(t, InTransaction(t), FALSE)
    /\ Go(t, "result")
    /\ UNCHANGED <<conn, call, using, stored, calls, losses>>

\* Mutant: the transaction is left open.
CommitNothing(t) ==
    /\ phase[t] = "commit"
    /\ Usable(using[t])
    /\ Sent(t, InTransaction(t), TRUE)
    /\ Go(t, "committed")
    /\ UNCHANGED <<conn, call, using, stored, calls, losses>>

\* conn.commit(): everything in the transaction, whoever executed it.
Commit(t) ==
    /\ phase[t] = "commit"
    /\ Usable(using[t])
    /\ stored' = stored \cup InTransaction(t)
    /\ Sent(t, {}, TRUE)
    /\ Go(t, "committed")
    /\ UNCHANGED <<conn, call, using, calls, losses>>

\* conn.rollback(): likewise.
Rollback(t) ==
    /\ phase[t] = "rollback"
    /\ Usable(using[t])
    /\ Sent(t, {}, TRUE)
    /\ Go(t, "rolled_back")
    /\ UNCHANGED <<conn, call, using, stored, calls, losses>>

\* The answer t reads next, and that it reads it.
NextAnswer(t) == Head(Used(t).answers)
Read(t) ==
    /\ Usable(using[t])
    /\ Used(t).answers # <<>>
    /\ Used(t).in_sequence
    /\ links' = [links EXCEPT ![using[t]] =
                    [Used(t) EXCEPT !.in_sequence = FALSE,
                                    !.answers = Tail(Used(t).answers)]]
    /\ UNCHANGED <<conn, call, using, stored, losses>>

\* The answer to the statement: affected rows, lastrowid or rows.  A refusal
\* raises; the methods that fetch have no try.
Result(t) ==
    /\ phase[t] = "result"
    /\ Read(t)
    /\ LET taken == [calls EXCEPT ![call[t]].answer = NextAnswer(t).call]
       IN  \/ /\ calls[call[t]].kind = "write"
              /\ Go(t, IF NextAnswer(t).ok THEN "commit" ELSE "rollback")
              /\ calls' = taken
           \/ /\ calls[call[t]].kind = "read"
              /\ Go(t, "idle")
              /\ calls' = [taken EXCEPT ![call[t]].outcome =
                              IF NextAnswer(t).ok THEN "returned" ELSE "raised"]

Committed(t) ==
    /\ phase[t] = "committed"
    /\ Read(t)
    /\ \/ NextAnswer(t).ok /\ End(t, "returned")
       \/ ~ NextAnswer(t).ok /\ Go(t, "rollback") /\ UNCHANGED calls

RolledBack(t) ==
    /\ phase[t] = "rolled_back"
    /\ Read(t)
    /\ End(t, "raised")

Broken(t) == phase[t] \in Sending \cup Reading /\ ~ Usable(using[t])
OutOfSequence(t) ==
    /\ phase[t] \in Reading
    /\ Usable(using[t])
    /\ Used(t).answers # <<>>
    /\ ~ Used(t).in_sequence

\* Mutant: the exception is caught.
ConnectionErrorCaught(t) ==
    /\ Broken(t) \/ OutOfSequence(t)
    /\ links' = [links EXCEPT ![using[t]] = Dead]
    /\ End(t, "returned")
    /\ UNCHANGED <<conn, call, using, stored, losses>>

\* Mutant: after an unexpected number the connection is kept.
ConnectionErrorKept(t) ==
    /\ Broken(t) \/ OutOfSequence(t)
    /\ links' = IF Broken(t) THEN [links EXCEPT ![using[t]] = Dead] ELSE links
    /\ End(t, "raised")
    /\ UNCHANGED <<conn, call, using, stored, losses>>

\* Mutant: the end of a connection is not noticed.
ConnectionErrorUnseen(t) ==
    /\ OutOfSequence(t)
    /\ links' = [links EXCEPT ![using[t]] = Dead]
    /\ End(t, "raised")
    /\ UNCHANGED <<conn, call, using, stored, losses>>

\* Sending or reading fails: the connection has ended, or the number of the
\* answer is not the expected one.  pymysql closes the connection and raises,
\* and so does the rollback that follows; nothing is left of the transaction.
ConnectionError(t) ==
    /\ Broken(t) \/ OutOfSequence(t)
    /\ links' = [links EXCEPT ![using[t]] = Dead]
    /\ End(t, "raised")
    /\ UNCHANGED <<conn, call, using, stored, losses>>

\* The server or the network ends a connection; pymysql does not notice yet.
Lost(l) ==
    /\ losses < MaxLosses
    /\ Usable(l)
    /\ losses' = losses + 1
    /\ links' = [links EXCEPT ![l] = [Dead EXCEPT !.open = TRUE]]
    /\ UNCHANGED <<conn, phase, call, using, stored, calls>>

Step(t) ==
    \/ Connect(t)
    \/ Execute(t) \/ Commit(t) \/ Rollback(t)
    \/ Result(t) \/ Committed(t) \/ RolledBack(t)
    \/ ConnectionError(t)

Next ==
    \/ \E t \in Threads :
          Step(t) \/ ConnectFails(t) \/ \E kind \in {"write", "read"} : Call(t, kind)
    \/ \E l \in DOMAIN links : Lost(l)

Spec == Init /\ [][Next]_vars

\* A thread in a call is scheduled, and the server answers or the connection
\* ends.  Nobody has to call.
FairSpec == Spec /\ \A t \in Threads : WF_vars(Step(t))

-----------------------------------------------------------------------------
(***************************************************************************)
(* Properties.                                                             *)
(***************************************************************************)

IsWrite(n) == calls[n].kind = "write"
Returned(n) == calls[n].outcome = "returned"
Raised(n) == calls[n].outcome = "raised"

\* A call beside which no other was under way does what the DAOs expect of
\* execute and insert: it returns what its own statement was answered, what it
\* wrote is stored if and only if it returned, except that it may be stored
\* and raise when the connection fails.
AloneExact ==
    \A n \in DOMAIN calls :
        calls[n].beside = {} =>
            /\ calls[n].answer \in {None, n}
            /\ Returned(n) /\ IsWrite(n) => n \in stored
            /\ Raised(n) /\ losses = 0 => n \notin stored

\* From call n to call m there was no moment at which no call was under way:
\* whenever one began, an earlier one was.
Unbroken(n, m) == \A k \in n + 1 .. m : \E j \in calls[k].beside : j < k

\* Call m was under way beside call n, or began after it without such a moment.
Near(n, m) ==
    \/ m \in calls[n].beside
    \/ n <= m /\ Unbroken(n, m)

\* A write that returned and is not stored does not go unnoticed: when all
\* calls are over, one near it has raised.  Not always one beside it: the
\* refusal of its statement may be read by a call that began after it returned.
LostNearARaise ==
    Busy = {} =>
        \A n \in DOMAIN calls :
            Returned(n) /\ IsWrite(n) /\ n \notin stored =>
                \E m \in DOMAIN calls : Near(n, m) /\ Raised(m)

\* However the threads' answers were mixed up, when all calls are over no
\* statement waits in a transaction for the next commit to store it, and no
\* answer waits for the next call to take it for its own.
NothingLeftOver ==
    Busy = {} =>
        \A l \in DOMAIN links : links[l].pending = {} /\ links[l].answers = <<>>

\* Every call ends, whoever has taken the answer it waits for.
EveryCallEnds == \A t \in Threads : phase[t] # "idle" ~> phase[t] = "idle"
=============================================================================
