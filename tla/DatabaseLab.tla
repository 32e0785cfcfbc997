------------------------------ MODULE DatabaseLab ------------------------------
(***************************************************************************)
(* The PostgreSQL demos (src/database-lab.js): withDatabaseLab creates a   *)
(* schema, runs one scenario on one or two clients of its pool, and cleans *)
(* up whatever failed.                                                     *)
(*                                                                         *)
(* A scenario is a sequence of statements, any of which may fail, because  *)
(* of a timeout or because the server is gone.  The table of each scenario *)
(* is one row: an account in hundreds, or the number of orders.            *)
(***************************************************************************)
EXTENDS Integers, Sequences, FiniteSets

CONSTANT DbScenarios  \* the scenarios to run

S(by, do, arg) == [by |-> by, do |-> do, arg |-> arg]
(* Statements without an effect the properties see; the settings made in   *)
(* configureClient and the queries of one loop count as one.               *)
Plain(n) == [i \in 1..n |-> S("first", "run", 0)]

SqlBasics == Plain(9)
IndexesAndExplain == Plain(6)
JoinsAndMaterializedViews == Plain(12)

ConstraintsAndAcid == Plain(3) \o <<
  S("first", "caught", 0),  \* the CHECK constraint; its catch goes on
  S("first", "begin", "rc"), S("first", "add", 1), S("first", "read", "inside"),
  S("first", "rollback", 0), S("first", "read", "after") >>

TransactionsAndLocks == <<
  S("first", "run", 0), S("second", "run", 0),
  S("first", "begin", "rc"), S("first", "read", "rcBefore"), S("second", "set", 11),
  S("first", "read", "rcAfter"), S("first", "rollback", 0),
  S("pool", "reset", 0),
  S("first", "begin", "rr"), S("first", "read", "rrBefore"), S("second", "set", 11),
  S("first", "read", "rrAfter"), S("first", "rollback", 0),
  S("pool", "reset", 0),
  S("first", "begin", "rc"), S("first", "lock", 0), S("second", "begin", "rc"),
  S("second", "lockLater", 0), S("second", "wait", 0), S("first", "add", -1),
  S("first", "commit", 0), S("second", "awaitLock", 0), S("second", "add", -2),
  S("second", "commit", 0), S("pool", "read", "pessimistic"),
  S("pool", "reset", 0),
  S("first", "read", "A"), S("second", "read", "B"),
  S("first", "compareAndSet", "A"), S("second", "compareAndSet", "B") >>

Scenarios == [
  sql |-> SqlBasics, acid |-> ConstraintsAndAcid, indexes |-> IndexesAndExplain,
  locks |-> TransactionsAndLocks, joins |-> JoinsAndMaterializedViews]

VARIABLES
  scenarioName, \* the scenario
  stage,        \* where withDatabaseLab is
  position,     \* the next statement of the scenario
  checkedOut,   \* clients the pool has handed out
  rolledBack,   \* clients whose final ROLLBACK was answered
  row,          \* the committed row
  tx,           \* the transaction of each session
  lockedBy,     \* the session that holds the lock of the row
  secondLock,   \* the promise of the second client's SELECT FOR UPDATE
  seen          \* what statements returned, by label

databaseVars == <<scenarioName, stage, position, checkedOut, rolledBack, row, tx,
                  lockedBy, secondLock, seen>>
server == <<row, tx, lockedBy, secondLock, seen>>

Sessions == {"first", "second", "pool"}
Nothing == [balance |-> -1, version |-> -1]
NoTx == [level |-> "none", snapshot |-> Nothing, own |-> Nothing]
Row == [balance : Int, version : Int]

DatabaseTypeOK ==
  /\ scenarioName \in DbScenarios
  /\ stage \in {"version", "schema", "table", "connect", "connectSecond", "scenario",
                "rollback", "drop", "end", "over"}
  /\ position \in 1..(Len(Scenarios[scenarioName]) + 1)
  /\ checkedOut \subseteq {"first", "second"}
  /\ rolledBack \subseteq checkedOut
  /\ row \in Row
  /\ tx \in [Sessions -> [level : {"none", "rc", "rr"}, snapshot : Row, own : Row]]
  /\ lockedBy \in Sessions \cup {"none"}
  /\ secondLock \in {"none", "waiting", "granted", "rejected"}

DatabaseInit ==
  /\ scenarioName \in DbScenarios
  /\ stage = "version"
  /\ position = 1
  /\ checkedOut = {}
  /\ rolledBack = {}
  /\ row = [balance |-> IF scenarioName = "locks" THEN 10 ELSE 0, version |-> 0]
  /\ tx = [s \in Sessions |-> NoTx]
  /\ lockedBy = "none"
  /\ secondLock = "none"
  /\ seen = [none |-> 0]

-----------------------------------------------------------------------------
(* PostgreSQL, as far as the scenarios use it.                             *)
Visible(s) ==
  IF tx[s].own # Nothing THEN tx[s].own
  ELSE IF tx[s].snapshot # Nothing THEN tx[s].snapshot ELSE row

(* A repeatable read takes its snapshot at its first statement.            *)
Observe(s) ==
  tx' = IF tx[s].level = "rr" /\ tx[s].snapshot = Nothing
        THEN [tx EXCEPT ![s].snapshot = row] ELSE tx

(* An update waits for the lock and keeps it to the end of a transaction.  *)
Write(s, new) ==
  /\ lockedBy \in {s, "none"}
  /\ IF tx[s].level = "none" THEN row' = new /\ UNCHANGED <<tx, lockedBy>>
     ELSE tx' = [tx EXCEPT ![s].own = new] /\ lockedBy' = s /\ UNCHANGED row

(* COMMIT and ROLLBACK free the lock, which a waiting session gets.        *)
EndTx(s, new) ==
  /\ row' = new
  /\ tx' = [tx EXCEPT ![s] = NoTx]
  /\ IF lockedBy = s /\ secondLock = "waiting"
     THEN lockedBy' = "second" /\ secondLock' = "granted"
     ELSE lockedBy' = (IF lockedBy = s THEN "none" ELSE lockedBy) /\ UNCHANGED secondLock

Commit(s) == EndTx(s, IF tx[s].own # Nothing THEN tx[s].own ELSE row)
Rollback(s) == EndTx(s, row)

Return(label, value) ==
  seen' = [l \in DOMAIN seen \cup {label} |-> IF l = label THEN value ELSE seen[l]]

-----------------------------------------------------------------------------
(* The statements of a scenario.                                           *)
ReadStatement(s, label) ==
  Observe(s) /\ Return(label, Visible(s)) /\ UNCHANGED <<row, lockedBy, secondLock>>

Lock(s) ==
  /\ lockedBy = "none"
  /\ lockedBy' = s
  /\ UNCHANGED <<row, tx, secondLock, seen>>

LockLater ==
  /\ IF lockedBy = "none" THEN secondLock' = "granted" /\ lockedBy' = "second"
     ELSE secondLock' = "waiting" /\ UNCHANGED lockedBy
  /\ UNCHANGED <<row, tx, seen>>

UpdateOf == [A |-> "updateA", B |-> "updateB"]
CompareAndSet(s, label) ==
  LET hit == row.version = seen[label].version IN
    /\ row' = IF hit THEN [balance |-> seen[label].balance - 1, version |-> row.version + 1]
              ELSE row
    /\ Return(UpdateOf[label], hit)
    /\ UNCHANGED <<tx, lockedBy, secondLock>>

Effect(q) ==
  \/ q.do \in {"run", "caught"} /\ UNCHANGED server
  \/ /\ q.do = "begin"
     /\ tx' = [tx EXCEPT ![q.by].level = q.arg]
     /\ UNCHANGED <<row, lockedBy, secondLock, seen>>
  \/ q.do = "read" /\ ReadStatement(q.by, q.arg)
  \/ /\ q.do \in {"set", "add"}
     /\ Write(q.by, [Visible(q.by) EXCEPT !.balance = IF q.do = "set" THEN q.arg ELSE @ + q.arg])
     /\ UNCHANGED <<secondLock, seen>>
  \/ /\ q.do = "reset"
     /\ Write(q.by, [balance |-> 10, version |-> 0])
     /\ UNCHANGED <<secondLock, seen>>
  \/ q.do = "lock" /\ Lock(q.by)
  \/ q.do = "lockLater" /\ LockLater
  \/ q.do = "wait" /\ Return("waits", secondLock # "granted") /\ UNCHANGED <<row, tx, lockedBy, secondLock>>
  \/ q.do = "awaitLock" /\ secondLock = "granted" /\ UNCHANGED server
  \/ q.do = "compareAndSet" /\ CompareAndSet(q.by, q.arg)
  \/ q.do = "commit" /\ Commit(q.by) /\ UNCHANGED seen
  \/ q.do = "rollback" /\ Rollback(q.by) /\ UNCHANGED seen

-----------------------------------------------------------------------------
(* withDatabaseLab and the beginning of a scenario: each step succeeds, or *)
(* fails, on which finally drops the schema.                               *)
Proceed(from, to) ==
  /\ stage = from
  /\ stage' \in {to, "drop"}
  /\ UNCHANGED <<scenarioName, position, checkedOut, rolledBack, server>>

Prepare ==
  \/ Proceed("version", "schema")
  \/ Proceed("schema", IF scenarioName = "locks" THEN "table" ELSE "connect")
  \/ Proceed("table", "connect")

(* pool.connect() comes before the try whose finally releases the client.  *)
Connect ==
  /\ stage = "connect"
  /\ \/ /\ stage' = IF scenarioName = "locks" THEN "connectSecond" ELSE "scenario"
        /\ checkedOut' = {"first"}
     \/ stage' = "drop" /\ UNCHANGED checkedOut
  /\ UNCHANGED <<scenarioName, position, rolledBack, server>>

ConnectSecond ==
  /\ stage = "connectSecond"
  /\ \/ stage' = "scenario" /\ checkedOut' = checkedOut \cup {"second"}
     \/ stage' = "drop" /\ UNCHANGED checkedOut
  /\ UNCHANGED <<scenarioName, position, rolledBack, server>>

(* The finally of the scenario: some release at once, others roll back.    *)
Finally ==
  IF scenarioName \in {"indexes", "joins"} THEN stage' = "drop" /\ checkedOut' = {}
  ELSE stage' = "rollback" /\ UNCHANGED checkedOut

Statements == Scenarios[scenarioName]

Execute ==
  /\ stage = "scenario"
  /\ position <= Len(Statements)
  /\ Effect(Statements[position])
  /\ position' = position + 1
  /\ UNCHANGED <<scenarioName, stage, checkedOut, rolledBack>>

(* A failed statement of a transaction leaves it open until the ROLLBACK.  *)
Fail ==
  /\ stage = "scenario"
  /\ position <= Len(Statements)
  /\ Statements[position].do \notin {"caught", "lockLater", "wait"}
  /\ Statements[position].do = "awaitLock" => secondLock = "rejected"
  /\ Finally
  /\ UNCHANGED <<scenarioName, position, rolledBack, server>>

Complete ==
  /\ stage = "scenario"
  /\ position > Len(Statements)
  /\ Finally
  /\ UNCHANGED <<scenarioName, position, rolledBack, server>>

(* lock_timeout, or the end of the connection.                             *)
LockFails ==
  /\ secondLock = "waiting"
  /\ secondLock' = "rejected"
  /\ UNCHANGED <<scenarioName, stage, position, checkedOut, rolledBack, row, tx, lockedBy, seen>>

(* rollbackQuietly: a connection handles one statement at a time; a broken *)
(* one has its transaction ended by the server.                            *)
Pending(c) == c = "second" /\ secondLock = "waiting"

RollbackQuietlyFirst(c) == \* mutant: only the first client rolls back
  /\ stage = "rollback"
  /\ c \in checkedOut \ rolledBack
  /\ ~Pending(c)
  /\ rolledBack' = rolledBack \cup {c}
  /\ IF c = "first" THEN Rollback(c) ELSE UNCHANGED <<row, tx, lockedBy, secondLock>>
  /\ UNCHANGED <<scenarioName, stage, position, checkedOut, seen>>

RollbackQuietly(c) ==
  /\ stage = "rollback"
  /\ c \in checkedOut \ rolledBack
  /\ ~Pending(c)
  /\ rolledBack' = rolledBack \cup {c}
  /\ Rollback(c)
  /\ UNCHANGED <<scenarioName, stage, position, checkedOut, seen>>

Release ==
  /\ stage = "rollback"
  /\ rolledBack = checkedOut
  /\ stage' = "drop"
  /\ checkedOut' = {}
  /\ rolledBack' = {}
  /\ UNCHANGED <<scenarioName, position, server>>

(* DROP SCHEMA needs every lock of the table; its failure is ignored.      *)
DropSchema ==
  /\ stage = "drop"
  /\ lockedBy = "none"
  /\ stage' = "end"
  /\ UNCHANGED <<scenarioName, position, checkedOut, rolledBack, server>>

(* pool.end() waits for the clients that were handed out.                  *)
PoolEnd ==
  /\ stage = "end"
  /\ checkedOut = {}
  /\ stage' = "over"
  /\ UNCHANGED <<scenarioName, position, checkedOut, rolledBack, server>>

DatabaseStep ==
  \/ Prepare \/ Connect \/ ConnectSecond \/ Execute \/ Fail \/ Complete
  \/ Release \/ DropSchema \/ PoolEnd
  \/ \E c \in {"first", "second"} : RollbackQuietly(c)

DatabaseNext == DatabaseStep \/ LockFails

(* Every statement is answered, or its timeout or connection ends it.      *)
DatabaseFairness == WF_databaseVars(DatabaseStep) /\ WF_databaseVars(LockFails)

-----------------------------------------------------------------------------
(* What the scenarios claim of isolation, row locks and versions is what    *)
(* their statements return, wherever they stop.                             *)
Returned(label) == label \in DOMAIN seen
Balance(label, value) == Returned(label) => seen[label].balance = value

IsolationAsReported ==
  /\ Balance("rcBefore", 10) /\ Balance("rcAfter", 11)
  /\ Balance("rrBefore", 10) /\ Balance("rrAfter", 10)
  /\ Returned("waits") => seen["waits"]
  /\ Balance("pessimistic", 7)
  /\ Returned("updateA") => seen["updateA"]
  /\ Returned("updateB") => ~seen["updateB"]
  /\ Balance("inside", 1) /\ Balance("after", 0)

(* No transaction is open when the schema is dropped, wherever a statement *)
(* failed: the DROP would wait for its locks.                              *)
DropNotBlocked ==
  stage = "drop" => lockedBy = "none" /\ \A s \in Sessions : tx[s] = NoTx

(* README.md:516-517, "cleanup in `finally`": when the cleanup ends the    *)
(* pool, no client is still handed out.                                    *)
CleanupReleasesClients == stage = "end" => checkedOut = {}
=============================================================================
