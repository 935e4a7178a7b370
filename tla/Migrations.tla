------------------------------ MODULE Migrations ------------------------------
(***************************************************************************)
(* _migrate of the two backends, run by every process that opens the       *)
(* database: create schema_migrations, read the highest version in it, and *)
(* for each later migration run its CREATE statements and insert its row.  *)
(* Nothing keeps two processes from doing so at once.                      *)
(*                                                                         *)
(* SQLite commits each CREATE on its own, executescript first commits what *)
(* is open, and an INSERT opens a transaction.  PostgreSQL runs everything *)
(* in one transaction; a statement that meets an object or a row of        *)
(* another's open transaction waits for its end, and fails if it commits:  *)
(* IF NOT EXISTS looks at what is committed when the statement starts.     *)
(***************************************************************************)
EXTENDS Naturals

CONSTANTS Processes,
          Latest,       \* the last version in MIGRATIONS
          Creates,      \* CREATE statements of a migration
          MaxFaults     \* bound: crashes and failed statements

ASSUME MigrationsAssumption ==
    /\ Latest \in Nat \ {0}
    /\ Creates \in Nat \ {0}
    /\ MaxFaults \in Nat

VARIABLES backend,      \* which backend the processes use
          db,           \* committed objects and version rows
          txn,          \* per process: those of its open transaction
          call,         \* per process: where it is in _migrate
          faults

vars == <<backend, db, txn, call, faults>>

\* A statement and what it makes: <<v, n>> is the n-th of migration v, the last
\* one the INSERT of its row.
VersionLog == <<0, 1>>

\* Mutant: the row is inserted ahead of the script.
RowFirst(v) == <<v, 1>>

Row(v) == <<v, Creates + 1>>

Statement == {VersionLog} \cup (1..Latest) \X (1..Creates + 1)

Rows == {Row(v) : v \in 1..Latest}

\* What migration v makes.
Made(v) == {<<v, n>> : n \in 1..Creates + 1}

\* `version' and `n': the statement the loop is at; `waited': it has been waiting
\* for another's transaction.
At(pc, version) == [pc |-> pc, version |-> version, n |-> 1, waited |-> FALSE]

Closed == At("closed", 1)

Call == [pc      : {"closed", "log", "read", "apply", "open"},
         version : 1..Latest + 1,
         n       : 1..Creates + 1,
         waited  : BOOLEAN]

TypeOK ==
    /\ backend \in {"sqlite", "postgres"}
    /\ db \subseteq Statement
    /\ txn \in [Processes -> SUBSET Statement]
    /\ call \in [Processes -> Call]
    /\ faults \in 0..MaxFaults

\* A new database, or one that an earlier release has migrated to `version'.
MigratedTo(version) ==
    IF version = 0 THEN {} ELSE {VersionLog} \cup UNION {Made(v) : v \in 1..version}

Init ==
    /\ backend \in {"sqlite", "postgres"}
    /\ \E version \in 0..Latest : db = MigratedTo(version)
    /\ txn = [p \in Processes |-> {}]
    /\ call = [p \in Processes |-> Closed]
    /\ faults = 0

-----------------------------------------------------------------------------
(* Transactions *)

Others(p) == UNION {txn[q] : q \in Processes \ {p}}

Commit(p) ==
    /\ db' = db \cup txn[p]
    /\ txn' = [txn EXCEPT ![p] = {}]

\* Mutant: the exception is swallowed, and the backend taken for open.
Swallow(p) ==
    /\ txn' = [txn EXCEPT ![p] = {}]
    /\ call' = [call EXCEPT ![p] = At("open", 1)]
    /\ UNCHANGED <<backend, db>>

\* `except Exception: rollback; raise': the constructor fails.
Raise(p) ==
    /\ txn' = [txn EXCEPT ![p] = {}]
    /\ call' = [call EXCEPT ![p] = Closed]
    /\ UNCHANGED <<backend, db>>

-----------------------------------------------------------------------------
(* _migrate *)

Open(p) ==
    /\ call[p].pc = "closed"
    /\ call' = [call EXCEPT ![p] = At("log", 1)]
    /\ UNCHANGED <<backend, db, txn, faults>>

Looping(p) == call[p].pc = "apply" /\ call[p].version <= Latest

AtStatement(p) == call[p].pc = "log" \/ Looping(p)

Current(p) == IF call[p].pc = "log" THEN VersionLog ELSE <<call[p].version, call[p].n>>

\* Mutant: the row is not the end of its migration.
FollowingTooFar(c) == [c EXCEPT !.n = @ + 1, !.waited = FALSE]

\* The call after its statement: at the next one, or past the migration's row.
Following(c) ==
    IF c.pc = "log" THEN [c EXCEPT !.pc = "read", !.waited = FALSE]
    ELSE IF c.n = Creates + 1
         THEN [c EXCEPT !.version = @ + 1, !.n = 1, !.waited = FALSE]
         ELSE [c EXCEPT !.n = @ + 1, !.waited = FALSE]

Done(p) == call' = [call EXCEPT ![p] = Following(@)]

\* executescript commits the transaction of the row before.
ScriptCommits(p) ==
    /\ backend = "sqlite"
    /\ AtStatement(p)
    /\ Current(p) \notin Rows
    /\ txn[p] # {}
    /\ Commit(p)
    /\ UNCHANGED <<backend, call, faults>>

\* CREATE ... IF NOT EXISTS, committed at once.
SqliteCreate(p) ==
    /\ backend = "sqlite"
    /\ AtStatement(p)
    /\ Current(p) \notin Rows
    /\ txn[p] = {}
    /\ Current(p) \in db \/ Others(p) = {}
    /\ db' = db \cup {Current(p)}
    /\ Done(p)
    /\ UNCHANGED <<backend, txn, faults>>

\* INSERT INTO schema_migrations opens a transaction.
SqliteInsert(p) ==
    /\ backend = "sqlite"
    /\ AtStatement(p)
    /\ Current(p) \in Rows \ db
    /\ Others(p) = {}
    /\ txn' = [txn EXCEPT ![p] = @ \cup {Current(p)}]
    /\ Done(p)
    /\ UNCHANGED <<backend, db, faults>>

\* A write finds another process's transaction open for the busy timeout.
BusyTimeout(p) ==
    /\ backend = "sqlite"
    /\ AtStatement(p)
    /\ Current(p) \notin db
    /\ Others(p) # {}
    /\ Raise(p)
    /\ UNCHANGED faults

PostgresExecute(p) ==
    /\ backend = "postgres"
    /\ AtStatement(p)
    /\ Current(p) \notin Others(p)
    /\ \/ /\ Current(p) \notin db
          /\ txn' = [txn EXCEPT ![p] = @ \cup {Current(p)}]
       \/ /\ Current(p) \in db \ Rows
          /\ ~call[p].waited
          /\ UNCHANGED txn
    /\ Done(p)
    /\ UNCHANGED <<backend, db, faults>>

PostgresWaits(p) ==
    /\ backend = "postgres"
    /\ AtStatement(p)
    /\ ~call[p].waited
    /\ Current(p) \in Others(p)
    /\ call' = [call EXCEPT ![p].waited = TRUE]
    /\ UNCHANGED <<backend, db, txn, faults>>

\* Another process has committed it since: the PRIMARY KEY of schema_migrations,
\* or the unique index of the catalog a CREATE waited on.
AlreadyThere(p) ==
    /\ AtStatement(p)
    /\ Current(p) \in db
    /\ Current(p) \in Rows \/ call[p].waited
    /\ Raise(p)
    /\ UNCHANGED faults

Versions(p) == {v \in 1..Latest : Row(v) \in db \cup txn[p]}

\* Mutant: every migration is taken for new.
ReadNothing(p) ==
    /\ call[p].pc = "read"
    /\ call' = [call EXCEPT ![p] = At("apply", 1)]
    /\ UNCHANGED <<backend, db, txn, faults>>

\* SELECT MAX(version): the loop skips the migrations up to it.
ReadVersion(p) ==
    /\ call[p].pc = "read"
    /\ \E current \in Versions(p) \cup {0} :
          /\ \A v \in Versions(p) : v <= current
          /\ call' = [call EXCEPT ![p] = At("apply", current + 1)]
    /\ UNCHANGED <<backend, db, txn, faults>>

Finish(p) ==
    /\ call[p].pc = "apply" /\ ~Looping(p)
    /\ Commit(p)
    /\ call' = [call EXCEPT ![p].pc = "open"]
    /\ UNCHANGED <<backend, faults>>

Close(p) ==
    /\ call[p].pc = "open"
    /\ call' = [call EXCEPT ![p] = Closed]
    /\ UNCHANGED <<backend, db, txn, faults>>

\* A statement or the commit fails, or the process dies: either way the open
\* transaction is gone and the process has to open the database again.
Fails(p) ==
    /\ call[p].pc # "closed"
    /\ faults < MaxFaults
    /\ Raise(p)
    /\ faults' = faults + 1

Step(p) ==
    \/ ScriptCommits(p)
    \/ SqliteCreate(p)
    \/ SqliteInsert(p)
    \/ BusyTimeout(p)
    \/ PostgresExecute(p)
    \/ PostgresWaits(p)
    \/ AlreadyThere(p)
    \/ ReadVersion(p)
    \/ Finish(p)

Next == \E p \in Processes : Open(p) \/ Step(p) \/ Close(p) \/ Fails(p)

Spec == Init /\ [][Next]_vars

\* _migrate waits only for other transactions, and a process whose constructor
\* raised is started again.
FairSpec == Spec /\ \A p \in Processes : WF_vars(Step(p)) /\ WF_vars(Open(p))

-----------------------------------------------------------------------------
(* Properties *)

Built(made) ==
    \A v \in 1..Latest : Row(v) \in made => \A u \in 1..v : Made(u) \subseteq made

\* A version row that is durable, or that a process sees in its own transaction,
\* has all its tables and all earlier versions: an interrupted script is run again
\* by the next process, and never taken for applied.
RecordedIsBuilt == Built(db) /\ \A p \in Processes : Built(db \cup txn[p])

\* test_migrations_applied, "migrate() == 0": a process that got through its
\* constructor, alone or in a race, has nothing left to apply, ever.
OpenIsMigrated ==
    \A p \in Processes : call[p].pc = "open" => \A v \in 1..Latest : Made(v) \subseteq db

\* Processes that open a database at once fail one another's constructors, but not
\* for ever: whoever keeps trying gets in.
OpensInTheEnd ==
    \A p \in Processes : call[p].pc # "open" ~> call[p].pc = "open"

\* What these rest on: the loop has left behind it what it sees as made.
LoopIsBuilt ==
    \A p \in Processes : call[p].pc = "apply" =>
        /\ \A u \in 1..Latest : u < call[p].version => Made(u) \subseteq db \cup txn[p]
        /\ \A m \in 1..Creates + 1 :
              m < call[p].n => <<call[p].version, m>> \in db \cup txn[p]

IInv ==
    /\ TypeOK
    /\ RecordedIsBuilt
    /\ LoopIsBuilt
    /\ OpenIsMigrated
=============================================================================
