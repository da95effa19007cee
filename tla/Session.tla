------------------------------ MODULE Session -------------------------------
(***************************************************************************)
(* What the users of one shared MySqlConnection do over it: statements     *)
(* (executeModificationSql() and executeQuery(), DataFactory.h), which     *)
(* serialise on the connection's _queryMutex, and transaction calls        *)
(* (MySqlConnection.cpp), which do not.  Each user is a thread with a      *)
(* DataFactory that holds the connection throughout; the connection's own  *)
(* life is the module DataFactory.                                         *)
(*                                                                         *)
(* The server and libmysqlclient are external.  A command is executed by   *)
(* the server when it is sent; its answer fills the fields of the one      *)
(* MYSQL handle (error number, affected rows) that the code reads later.   *)
(***************************************************************************)
EXTENDS WidgetSql

CONSTANTS
  Clients,           \* threads, each with its own DataFactory
  NoClient,          \* nobody holds _queryMutex
  CallersSerialize   \* do the callers make a transaction call only while no
                     \* other call is under way, and conversely?

ASSUME SessionAssumption ==
  /\ NoClient \notin Clients
  /\ CallersSerialize \in BOOLEAN

VARIABLES
  up,                 \* server: the connection is alive
  autocommit,         \* server: the session's mode
  current,            \* server: the rows as the session sees them
  durable,            \* server: the committed rows
  reply,              \* what the MYSQL handle holds of the last answer
  queryMutex,         \* who holds _queryMutex
  transactionActive,  \* _transactionActive
  pc,                 \* where each client is in its call
  call,               \* what it calls
  answer,             \* history: what the server answered that call
  seen,               \* the return values it got from the library for it
  outcome,            \* how the call ended: returned or threw
  mixed               \* history: clients whose exchange another's cut into

serverVars == <<up, autocommit, current, durable>>
connVars == <<reply, queryMutex, transactionActive>>
clientVars == <<pc, call, answer, seen, outcome, mixed>>
vars == <<serverVars, connVars, clientVars>>

TransactionCalls == [kind : {"start", "commit", "rollback"}]
NoCall == [kind |-> "none"]

Errors == {"none", "duplicate", "referenced", "notNull", "lost", "outOfSync"}
Replies == [error : Errors, matched : Nat, affected : Nat, rows : SUBSET Rows]
OK == [error |-> "none", matched |-> 0, affected |-> 0, rows |-> {}]
Failed(e) == [OK EXCEPT !.error = e]

Init ==
  /\ up = TRUE
  /\ autocommit = TRUE
  /\ current = {}
  /\ durable = {}
  /\ reply = OK
  /\ queryMutex = NoClient
  /\ transactionActive = FALSE
  /\ pc = [c \in Clients |-> "idle"]
  /\ call = [c \in Clients |-> NoCall]
  /\ answer = [c \in Clients |-> OK]
  /\ seen = [c \in Clients |-> OK]
  /\ outcome = [c \in Clients |-> "none"]
  /\ mixed = {}

-----------------------------------------------------------------------------
(* The server's answer to statement s: an error, or how many rows it        *)
(* matched and changed, and a query's result.                               *)
AnswerTo(s, protected) ==
  LET refusal == Refusal(s, current, protected) IN
  IF refusal # "none" THEN Failed(refusal)
  ELSE [error |-> "none",
        matched |-> Cardinality(Targets(s, current)),
        affected |-> AffectedRows(s, current, protected),
        rows |-> IF s \in Selects THEN Targets(s, current) ELSE {}]

(* The connection breaks; the server rolls back what was not committed.     *)
LoseConnection ==
  /\ up
  /\ up' = FALSE
  /\ current' = durable
  /\ UNCHANGED <<autocommit, durable, connVars, clientVars>>

(* The clients with a command on the wire: sent and not answered, or with   *)
(* a result still to be stored.                                             *)
OnWire == {c \in Clients : pc[c] \in {"sent", "storing"}}

InTransactionCall(c) == pc[c] \in {"starting", "ending", "restoring"}

-----------------------------------------------------------------------------
(* mysql_real_query() sends a statement, and the server executes it.        *)
Transmit(c, s) ==
  /\ pc[c] = "idle"
  /\ CallersSerialize => \A d \in Clients : ~InTransactionCall(d)
  /\ queryMutex' = c
  /\ pc' = [pc EXCEPT ![c] = "sent"]
  /\ call' = [call EXCEPT ![c] = s]
  /\ mixed' = IF OnWire = {} THEN mixed ELSE mixed \cup OnWire \cup {c}
  /\ IF up
       THEN \E protected \in SUBSET Referenced :
              /\ answer' = [answer EXCEPT ![c] = AnswerTo(s, protected)]
              /\ current' = RowsAfter(s, current, protected)
              /\ durable' = IF autocommit THEN current' ELSE durable
       ELSE /\ answer' = [answer EXCEPT ![c] = Failed("lost")]
            /\ UNCHANGED <<current, durable>>
  /\ UNCHANGED <<up, autocommit, reply, transactionActive, seen, outcome>>

(* Mutant of SendStatement: the statement does not wait for _queryMutex.    *)
MutantSendStatement(c, s) == Transmit(c, s)

(* A statement call takes _queryMutex and sends its statement.              *)
SendStatement(c, s) ==
  /\ queryMutex = NoClient
  /\ Transmit(c, s)

(* What arrives of an answer: all of it, or nothing when the connection     *)
(* breaks first, or, when another command cut into the exchange, that       *)
(* command's answer or a protocol error.                                    *)
Arriving(c) ==
  IF ~up THEN {Failed("lost")}
  ELSE {answer[c]} \cup IF c \in mixed THEN {OK, Failed("outOfSync")} ELSE {}

(* mysql_real_query() returns: the handle holds the answer.  A result set   *)
(* is still to be stored.                                                   *)
ReceiveAnswer(c) ==
  /\ pc[c] = "sent"
  /\ \E r \in Arriving(c) :
       /\ reply' = r
       /\ seen' = [seen EXCEPT ![c] = [r EXCEPT !.rows = {}]]
       /\ answer' = IF up THEN answer ELSE [answer EXCEPT ![c] = r]
       /\ pc' = [pc EXCEPT ![c] =
                   IF call[c] \in Selects /\ r.error = "none"
                     THEN "storing" ELSE "answered"]
  /\ UNCHANGED <<serverVars, queryMutex, transactionActive, call, outcome,
                 mixed>>

(* mysql_store_result() fetches all rows of a SELECT, or fails.             *)
StoreResult(c) ==
  /\ pc[c] = "storing"
  /\ \E r \in Arriving(c) :
       /\ reply' = r
       /\ seen' = [seen EXCEPT ![c] = r]
       /\ answer' = IF up THEN answer ELSE [answer EXCEPT ![c] = r]
  /\ pc' = [pc EXCEPT ![c] = "answered"]
  /\ UNCHANGED <<serverVars, queryMutex, transactionActive, call, outcome,
                 mixed>>

(* processError()'s mapping of a MySQL error to an exception.               *)
ExceptionOf(e) ==
  CASE e = "duplicate"  -> "DuplicateEntry"
    [] e = "referenced" -> "DependencyViolation"
    [] OTHER            -> "ServiceUnavailable"

(* Mutant of ProcessError: the error is passed on as it is.                 *)
MutantProcessError ==
  IF reply.error = "none" THEN "silent" ELSE reply.error

(* processError() after a failure: it looks at the handle, and returns when *)
(* there is no error there: "silent", the caller never hears of the failure *)
(* (executeQuery() goes on to mysql_store_result(), which has nothing, and  *)
(* returns an empty result).                                                *)
ProcessError ==
  IF reply.error = "none" THEN "silent" ELSE ExceptionOf(reply.error)

(* How a statement call ends, from its return values and the handle.        *)
Ending(c) ==
  IF seen[c].error # "none" THEN ProcessError
  ELSE IF call[c] \in Modifications /\ reply.affected = 0
    THEN "EntryNotFound"
  ELSE "ok"

(* Mutant of EndStatement: an exception leaves _queryMutex locked.          *)
MutantEndStatement(c) ==
  /\ pc[c] = "answered"
  /\ outcome' = [outcome EXCEPT ![c] = Ending(c)]
  /\ queryMutex' = IF Ending(c) = "ok" THEN NoClient ELSE queryMutex
  /\ pc' = [pc EXCEPT ![c] = "returned"]
  /\ UNCHANGED <<serverVars, reply, transactionActive, call, answer, seen,
                 mixed>>

(* Mutant of EndStatement: the affected rows are read after unlocking, when *)
(* another client's statement may have been answered.                       *)
MutantEndStatementUnlocked(c) ==
  /\ pc[c] = "answered"
  /\ \/ /\ queryMutex = c
        /\ queryMutex' = NoClient
        /\ UNCHANGED <<outcome, pc>>
     \/ /\ queryMutex # c
        /\ outcome' = [outcome EXCEPT ![c] = Ending(c)]
        /\ pc' = [pc EXCEPT ![c] = "returned"]
        /\ UNCHANGED queryMutex
  /\ UNCHANGED <<serverVars, reply, transactionActive, call, answer, seen,
                 mixed>>

(* The call reads the error or the affected rows off the handle and         *)
(* releases _queryMutex, whether it returns or throws.                      *)
EndStatement(c) ==
  /\ pc[c] = "answered"
  /\ outcome' = [outcome EXCEPT ![c] = Ending(c)]
  /\ queryMutex' = NoClient
  /\ pc' = [pc EXCEPT ![c] = "returned"]
  /\ UNCHANGED <<serverVars, reply, transactionActive, call, answer, seen,
                 mixed>>

(* The call returns, or its exception leaves it.                            *)
Resume(c) ==
  /\ pc[c] = "returned"
  /\ pc' = [pc EXCEPT ![c] = "idle"]
  /\ call' = [call EXCEPT ![c] = NoCall]
  /\ answer' = [answer EXCEPT ![c] = OK]
  /\ seen' = [seen EXCEPT ![c] = OK]
  /\ outcome' = [outcome EXCEPT ![c] = "none"]
  /\ mixed' = mixed \ {c}
  /\ UNCHANGED <<serverVars, connVars>>

-----------------------------------------------------------------------------
(* A transaction call's command, whose result the code does not look at:    *)
(* the server executes it, or the connection is down, or the library        *)
(* refuses it because another exchange is under way.                        *)
Command(c, newMode, newDurable, newCurrent) ==
  /\ \/ /\ up
        /\ autocommit' = newMode
        /\ durable' = newDurable
        /\ current' = newCurrent
        /\ reply' = OK
     \/ /\ ~up
        /\ reply' = Failed("lost")
        /\ UNCHANGED <<autocommit, durable, current>>
     \/ /\ OnWire # {}
        /\ reply' = Failed("outOfSync")
        /\ UNCHANGED <<autocommit, durable, current>>
  /\ answer' = [answer EXCEPT ![c] = IF @ = OK THEN reply' ELSE @]
  /\ mixed' = mixed \cup OnWire
  /\ UNCHANGED up

MayCallTransaction(c) ==
  /\ pc[c] = "idle"
  /\ CallersSerialize =>
       \A d \in Clients : ~InTransactionCall(d) /\ queryMutex # d

(* Mutant of StartTransaction: the server stays in autocommit mode.         *)
MutantStartTransaction(c) ==
  /\ MayCallTransaction(c)
  /\ Command(c, autocommit, durable, current)
  /\ pc' = [pc EXCEPT ![c] = "starting"]
  /\ call' = [call EXCEPT ![c] = [kind |-> "start"]]
  /\ UNCHANGED <<queryMutex, transactionActive, seen, outcome>>

StartTransaction(c) ==
  /\ MayCallTransaction(c)
  /\ Command(c, FALSE, durable, current)
  /\ pc' = [pc EXCEPT ![c] = "starting"]
  /\ call' = [call EXCEPT ![c] = [kind |-> "start"]]
  /\ UNCHANGED <<queryMutex, transactionActive, seen, outcome>>

MarkActive(c) ==
  /\ pc[c] = "starting"
  /\ transactionActive' = TRUE
  /\ pc' = [pc EXCEPT ![c] = "returned"]
  /\ outcome' = [outcome EXCEPT ![c] = "ok"]
  /\ UNCHANGED <<serverVars, reply, queryMutex, call, answer, seen, mixed>>

(* Neither does anything when no transaction is active.                     *)
CommitTransaction(c) ==
  /\ MayCallTransaction(c)
  /\ transactionActive
  /\ Command(c, autocommit, current, current)
  /\ pc' = [pc EXCEPT ![c] = "ending"]
  /\ call' = [call EXCEPT ![c] = [kind |-> "commit"]]
  /\ UNCHANGED <<queryMutex, transactionActive, seen, outcome>>

RollbackTransaction(c) ==
  /\ MayCallTransaction(c)
  /\ transactionActive
  /\ Command(c, autocommit, durable, durable)
  /\ pc' = [pc EXCEPT ![c] = "ending"]
  /\ call' = [call EXCEPT ![c] = [kind |-> "rollback"]]
  /\ UNCHANGED <<queryMutex, transactionActive, seen, outcome>>

MarkInactive(c) ==
  /\ pc[c] = "ending"
  /\ transactionActive' = FALSE
  /\ pc' = [pc EXCEPT ![c] = "restoring"]
  /\ UNCHANGED <<serverVars, reply, queryMutex, call, answer, seen, outcome,
                 mixed>>

(* Mutant of RestoreAutocommit: the call returns in manual-commit mode.     *)
MutantRestoreAutocommit(c) ==
  /\ pc[c] = "restoring"
  /\ Command(c, autocommit, durable, current)
  /\ pc' = [pc EXCEPT ![c] = "returned"]
  /\ outcome' = [outcome EXCEPT ![c] = "ok"]
  /\ UNCHANGED <<queryMutex, transactionActive, call, seen>>

(* mysql_autocommit(1), which commits whatever is pending by then.          *)
RestoreAutocommit(c) ==
  /\ pc[c] = "restoring"
  /\ Command(c, TRUE, current, current)
  /\ pc' = [pc EXCEPT ![c] = "returned"]
  /\ outcome' = [outcome EXCEPT ![c] = "ok"]
  /\ UNCHANGED <<queryMutex, transactionActive, call, seen>>

-----------------------------------------------------------------------------
(* The steps of a call between its first and its last.                      *)
CallStep(c) ==
  \/ ReceiveAnswer(c) \/ StoreResult(c) \/ EndStatement(c)
  \/ MarkActive(c) \/ MarkInactive(c) \/ RestoreAutocommit(c)

-----------------------------------------------------------------------------
TypeOK ==
  /\ {up, autocommit, transactionActive} \subseteq BOOLEAN
  /\ current \subseteq Rows
  /\ durable \subseteq Rows
  /\ reply \in Replies
  /\ queryMutex \in Clients \cup {NoClient}
  /\ pc \in [Clients -> {"idle", "sent", "storing", "answered", "returned",
                         "starting", "ending", "restoring"}]
  /\ call \in [Clients -> Statements \cup TransactionCalls \cup {NoCall}]
  /\ answer \in [Clients -> Replies]
  /\ seen \in [Clients -> Replies]
  /\ outcome \in [Clients ->
       {"none", "ok", "silent", "EntryNotFound", "DuplicateEntry",
        "DependencyViolation", "ServiceUnavailable"}]
  /\ mixed \subseteq Clients

EndedAsAnswered(c) ==
  LET a == answer[c] IN
  IF a.error # "none" THEN outcome[c] = ExceptionOf(a.error)
  ELSE IF call[c] \in Modifications /\ a.affected = 0
    THEN outcome[c] = "EntryNotFound"
  ELSE outcome[c] = "ok" /\ seen[c].rows = a.rows

(* The statement calls of any number of clients, interleaved with each      *)
(* other, with transactions and with the loss of the connection, each end   *)
(* as the server answered that very statement: nobody is told of another's  *)
(* error, affected rows or result, and no failure goes unreported.          *)
OwnOutcome ==
  \A c \in Clients :
    pc[c] = "returned" /\ call[c] \in Statements => EndedAsAnswered(c)

(* MySqlConnection.h:64-65: DataFactory objects that share one MYSQL* do    *)
(* not run queries on it concurrently: no command goes out while another's  *)
(* exchange is under way.                                                   *)
WireExclusive == mixed = {}

(* Between transaction calls, whoever made them and in whatever order, the  *)
(* server's mode is what _transactionActive says.                           *)
AutocommitFollowsFlag ==
  up /\ (\A c \in Clients : ~InTransactionCall(c)) =>
    (autocommit <=> ~transactionActive)

(* While _transactionActive is set, nothing becomes durable except all the  *)
(* pending work at once, and only by somebody's commitTransaction().        *)
NothingDurableUntilCommit ==
  [][transactionActive /\ durable' # durable =>
       \E c \in Clients :
         /\ pc'[c] = "ending"
         /\ call'[c].kind = "commit"
         /\ durable' = current]_vars

(* Whoever holds _queryMutex lets go of it, also when the statement fails   *)
(* or the connection breaks: the other clients are never locked out.        *)
QueryMutexReleased == queryMutex # NoClient ~> queryMutex = NoClient

-----------------------------------------------------------------------------
(* What DataFactory.h:127 says of a failed statement: processError() always *)
(* throws.  (Of clients whose exchange nobody cut into.)                    *)
ProcessErrorAlwaysThrows ==
  \A c \in Clients \ mixed : outcome[c] # "silent"
=============================================================================
