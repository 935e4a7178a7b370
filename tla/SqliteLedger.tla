----------------------------- MODULE SqliteLedger -----------------------------
(***************************************************************************)
(* The ledger half of storage/sqlite_backend.py, statement by statement:   *)
(* stage_partial, acknowledge_writes_batch and recover_uncommitted.        *)
(*                                                                         *)
(* A process opens one SQLiteStorageBackend on the shared file: one        *)
(* connection, one RLock, any number of threads.  Python's sqlite3 opens a *)
(* transaction at the first INSERT or UPDATE, never at a SELECT, so a      *)
(* SELECT before the first write sees whatever is durable at that moment.  *)
(* SQLite admits one write transaction per file; a second writer waits for *)
(* the busy timeout and then raises.                                       *)
(***************************************************************************)
EXTENDS VaultTables

CONSTANTS Processes,    \* processes that have the file open
          Threads,      \* the threads of all processes
          ProcessOf,    \* [Threads -> Processes]
          Batches,      \* what clients pass to acknowledge_writes_batch
          Stagings,     \* what clients pass to stage_partial
          NoThread,     \* owner of a free lock
          MaxFaults     \* bound: crashes and I/O errors per behaviour

ASSUME SqliteLedgerAssumption ==
    /\ ProcessOf \in [Threads -> Processes]
    /\ Batches \subseteq Seq(BatchWriteItem)
    /\ Stagings \subseteq [event_id : EventId, payload : Payload]
    /\ NoThread \notin Threads
    /\ MaxFaults \in Nat

VARIABLES disk,         \* the committed contents of the database file
          conn,         \* per process: the connection's write transaction
          lock,         \* per process: self._lock
          call,         \* per thread: the method it is executing
          acked,        \* rows clients were told are acknowledged
          faults        \* crashes and I/O errors so far

vars == <<disk, conn, lock, call, acked, faults>>

NoTransaction == [open |-> FALSE, db |-> EmptyDb]

\* The locals of the method a thread is in.
IdleCall == [pc       |-> "idle",
             items    |-> << >>,         \* acknowledge_writes_batch: its argument
             next     |-> 1,             \*   the item its loop is at
             existing |-> {},            \*   the keys it knows to be claimed
             replies  |-> {},            \*   results
             pending  |-> {},            \* recover_uncommitted: rows left
             prev     |-> GENESIS_HASH]  \*   prev in _append_ledger

Call == [pc       : {"idle", "ack", "answer", "recover", "append"},
         items    : Seq(BatchWriteItem),
         next     : Nat \ {0},
         existing : SUBSET IdempotencyRow,
         replies  : SUBSET IdempotencyRow,
         pending  : SUBSET Nat,
         prev     : Digest]

TypeOK ==
    /\ disk \in Db
    /\ conn \in [Processes -> [open : BOOLEAN, db : Db]]
    /\ lock \in [Processes -> Threads \cup {NoThread}]
    /\ call \in [Threads -> Call]
    /\ acked \in SUBSET IdempotencyRow
    /\ faults \in Nat

Init ==
    /\ disk = EmptyDb
    /\ conn = [p \in Processes |-> NoTransaction]
    /\ lock = [p \in Processes |-> NoThread]
    /\ call = [t \in Threads |-> IdleCall]
    /\ acked = {}
    /\ faults = 0

-----------------------------------------------------------------------------
(* The connection. *)

\* What a statement on p's connection reads.
View(p) == IF conn[p].open THEN conn[p].db ELSE disk

\* Mutant: the database file has no writer lock.
AnyoneWrites(p) == TRUE

\* Every other connection is outside a write transaction.
CanWrite(p) == \A q \in Processes \ {p} : ~conn[q].open

Write(p, db) == conn' = [conn EXCEPT ![p] = [open |-> TRUE, db |-> db]]

Commit(p) ==
    /\ disk' = View(p)
    /\ conn' = [conn EXCEPT ![p] = NoTransaction]

Acquire(t) ==
    /\ call[t].pc = "idle"
    /\ lock[ProcessOf[t]] = NoThread
    /\ lock' = [lock EXCEPT ![ProcessOf[t]] = t]

\* Leaving the `with self._lock' block and the method.
Return(t) ==
    /\ lock' = [lock EXCEPT ![ProcessOf[t]] = NoThread]
    /\ call' = [call EXCEPT ![t] = IdleCall]

-----------------------------------------------------------------------------
(* stage_partial *)

Stage(t, s) ==
    /\ call[t].pc = "idle"
    /\ lock[ProcessOf[t]] = NoThread
    /\ CanWrite(ProcessOf[t])
    /\ disk' = StageRow(disk, s.event_id, s.payload)
    /\ UNCHANGED <<conn, lock, call, acked, faults>>

-----------------------------------------------------------------------------
(* acknowledge_writes_batch *)

Claims(rows, key) == {r \in rows : r.idempotency_key = key}

Item(t) == call[t].items[call[t].next]

\* Take the lock and SELECT the keys of the batch that are claimed already.
AckBegin(t, batch) ==
    /\ Acquire(t)
    /\ batch # << >>
    /\ call' = [call EXCEPT ![t] =
          [IdleCall EXCEPT
              !.pc = "ack",
              !.items = batch,
              !.existing = UNION {Claims(View(ProcessOf[t]).idempotency,
                                         batch[i].idempotency_key) : i \in DOMAIN batch}]]
    /\ UNCHANGED <<disk, conn, acked, faults>>

AtItem(t) == call[t].pc = "ack" /\ call[t].next <= Len(call[t].items)

\* A claimed key is answered with the event that claimed it.
AckDuplicate(t) ==
    /\ AtItem(t)
    /\ Claims(call[t].existing, Item(t).idempotency_key) # {}
    /\ call' = [call EXCEPT
          ![t].next = @ + 1,
          ![t].replies = @ \cup Claims(call[t].existing, Item(t).idempotency_key)]
    /\ UNCHANGED <<disk, conn, lock, acked, faults>>

NewItem(t) == AtItem(t) /\ Claims(call[t].existing, Item(t).idempotency_key) = {}

\* Mutant: every item is committed on its own.
AckInsertEach(t) ==
    LET p == ProcessOf[t] IN
    /\ NewItem(t)
    /\ CanWrite(p)
    /\ ~Conflict(View(p), Item(t))
    /\ disk' = WriteItem(View(p), Item(t))
    /\ call' = [call EXCEPT
          ![t].next = @ + 1,
          ![t].existing = @ \cup {RowOf(Item(t))},
          ![t].replies = @ \cup {RowOf(Item(t))}]
    /\ UNCHANGED <<conn, lock, acked, faults>>

\* The four writes of a new item.
AckInsert(t) ==
    LET p == ProcessOf[t] IN
    /\ NewItem(t)
    /\ CanWrite(p)
    /\ ~Conflict(View(p), Item(t))
    /\ Write(p, WriteItem(View(p), Item(t)))
    /\ call' = [call EXCEPT
          ![t].next = @ + 1,
          ![t].existing = @ \cup {RowOf(Item(t))},
          ![t].replies = @ \cup {RowOf(Item(t))}]
    /\ UNCHANGED <<disk, lock, acked, faults>>

\* Mutant: the results are returned without a commit.
AckWithoutCommit(t) ==
    /\ call[t].pc = "ack"
    /\ call[t].next > Len(call[t].items)
    /\ conn' = [conn EXCEPT ![ProcessOf[t]] = NoTransaction]
    /\ call' = [call EXCEPT ![t].pc = "answer"]
    /\ UNCHANGED <<disk, lock, acked, faults>>

AckCommit(t) ==
    /\ call[t].pc = "ack"
    /\ call[t].next > Len(call[t].items)
    /\ Commit(ProcessOf[t])
    /\ call' = [call EXCEPT ![t].pc = "answer"]
    /\ UNCHANGED <<lock, acked, faults>>

\* return results: only now has the client been answered.
AckAnswer(t) ==
    /\ call[t].pc = "answer"
    /\ acked' = acked \cup call[t].replies
    /\ Return(t)
    /\ UNCHANGED <<disk, conn, faults>>

-----------------------------------------------------------------------------
(* recover_uncommitted *)

\* Mutant: recovery does not take the lock.
RecoverBeginUnlocked(t) ==
    /\ call[t].pc = "idle"
    /\ call' = [call EXCEPT ![t] =
          [IdleCall EXCEPT
              !.pc = "recover",
              !.pending = Uncommitted(View(ProcessOf[t]).wal_staging)]]
    /\ UNCHANGED <<disk, conn, lock, acked, faults>>

RecoverBegin(t) ==
    /\ Acquire(t)
    /\ call' = [call EXCEPT ![t] =
          [IdleCall EXCEPT
              !.pc = "recover",
              !.pending = Uncommitted(View(ProcessOf[t]).wal_staging)]]
    /\ UNCHANGED <<disk, conn, acked, faults>>

\* The row the loop is at: rows come ORDER BY id.
RowAt(t, id) == id \in call[t].pending /\ \A j \in call[t].pending : id <= j

InLedger(t, id) ==
    LET db == View(ProcessOf[t])
    IN  db.wal_staging[id].event_id \in EventsOf(db.ledger)

\* The ledger holds the event: set the flag only.
RecoverFlag(t) ==
    LET p == ProcessOf[t] IN
    /\ call[t].pc = "recover"
    /\ CanWrite(p)
    /\ \E id \in call[t].pending :
          /\ RowAt(t, id)
          /\ InLedger(t, id)
          /\ Write(p, FlagRow(View(p), id))
          /\ call' = [call EXCEPT ![t].pending = @ \ {id}]
    /\ UNCHANGED <<disk, lock, acked, faults>>

\* Mutant: the head is read from the durable ledger, not from the transaction.
RecoverReadDurable(t) ==
    /\ call[t].pc = "recover"
    /\ \E id \in call[t].pending : RowAt(t, id) /\ ~InLedger(t, id)
    /\ call' = [call EXCEPT ![t].pc = "append", ![t].prev = last_hash(disk.ledger)]
    /\ UNCHANGED <<disk, conn, lock, acked, faults>>

\* The two SELECTs before the INSERT: the event is not in the ledger, and prev
\* is the chain's head.  For the first row no transaction is open yet.
RecoverRead(t) ==
    /\ call[t].pc = "recover"
    /\ \E id \in call[t].pending : RowAt(t, id) /\ ~InLedger(t, id)
    /\ call' = [call EXCEPT ![t].pc = "append",
                            ![t].prev = last_hash(View(ProcessOf[t]).ledger)]
    /\ UNCHANGED <<disk, conn, lock, acked, faults>>

RecoverAppend(t) ==
    LET p == ProcessOf[t] IN
    /\ call[t].pc = "append"
    /\ CanWrite(p)
    /\ \E id \in call[t].pending :
          /\ RowAt(t, id)
          /\ ~InLedger(t, id)
          /\ Write(p, PromoteRow(View(p), id, call[t].prev))
          /\ call' = [call EXCEPT ![t].pc = "recover", ![t].pending = @ \ {id}]
    /\ UNCHANGED <<disk, lock, acked, faults>>

\* Mutant: the commit and the return are inside the loop.
RecoverCommitFirst(t) ==
    /\ call[t].pc = "recover"
    /\ Commit(ProcessOf[t])
    /\ Return(t)
    /\ UNCHANGED <<acked, faults>>

RecoverCommit(t) ==
    /\ call[t].pc = "recover"
    /\ call[t].pending = {}
    /\ Commit(ProcessOf[t])
    /\ Return(t)
    /\ UNCHANGED <<acked, faults>>

-----------------------------------------------------------------------------
(* Exceptions and crashes *)

\* Mutant: the lock is not released when an exception leaves the method.
RollbackHoldingLock(t) ==
    /\ conn' = [conn EXCEPT ![ProcessOf[t]] = NoTransaction]
    /\ call' = [call EXCEPT ![t] = IdleCall]
    /\ UNCHANGED <<disk, lock, acked>>

\* `except Exception: self._conn.rollback(); raise'
Rollback(t) ==
    /\ conn' = [conn EXCEPT ![ProcessOf[t]] = NoTransaction]
    /\ Return(t)
    /\ UNCHANGED <<disk, acked>>

\* A PRIMARY KEY or UNIQUE constraint fails.
ConstraintFails(t) ==
    LET p == ProcessOf[t] IN
    /\ CanWrite(p)
    /\ \/ NewItem(t) /\ Conflict(View(p), Item(t))
       \/ /\ call[t].pc = "append"
          /\ \E id \in call[t].pending : RowAt(t, id) /\ InLedger(t, id)
    /\ Rollback(t)
    /\ UNCHANGED faults

\* The statement needs the write lock another process holds: the busy timeout.
BusyTimeout(t) ==
    /\ ~CanWrite(ProcessOf[t])
    /\ \/ NewItem(t)
       \/ call[t].pc = "append"
       \/ /\ call[t].pc = "recover"
          /\ \E id \in call[t].pending : RowAt(t, id) /\ InLedger(t, id)
    /\ Rollback(t)
    /\ UNCHANGED faults

\* Any statement, or the commit, may fail: disk full, I/O error.
StatementFails(t) ==
    /\ call[t].pc \in {"ack", "recover", "append"}
    /\ faults < MaxFaults
    /\ Rollback(t)
    /\ faults' = faults + 1

\* Process p dies and its successor opens the file: transactions that did not
\* commit are gone, and so are its callers.
Crash(p) ==
    /\ faults < MaxFaults
    /\ conn' = [conn EXCEPT ![p] = NoTransaction]
    /\ lock' = [lock EXCEPT ![p] = NoThread]
    /\ call' = [t \in Threads |-> IF ProcessOf[t] = p THEN IdleCall ELSE call[t]]
    /\ faults' = faults + 1
    /\ UNCHANGED <<disk, acked>>

-----------------------------------------------------------------------------
\* What a thread inside a method does next.
Proceed(t) ==
    \/ AckDuplicate(t)
    \/ AckInsert(t)
    \/ AckCommit(t)
    \/ AckAnswer(t)
    \/ RecoverFlag(t)
    \/ RecoverRead(t)
    \/ RecoverAppend(t)
    \/ RecoverCommit(t)
    \/ ConstraintFails(t)
    \/ BusyTimeout(t)

ThreadStep(t) ==
    \/ \E s \in Stagings : Stage(t, s)
    \/ \E batch \in Batches : AckBegin(t, batch)
    \/ RecoverBegin(t)
    \/ Proceed(t)
    \/ StatementFails(t)

Next ==
    \/ \E t \in Threads : ThreadStep(t)
    \/ \E p \in Processes : Crash(p)

Spec == Init /\ [][Next]_vars

\* A thread that entered a method runs to its end, and someone keeps calling
\* recover_uncommitted: the API's lifespan and the CLI do at every start.
FairSpec ==
    /\ Spec
    /\ \A t \in Threads : WF_vars(Proceed(t))
    /\ SF_vars(\E t \in Threads : RecoverBegin(t))

-----------------------------------------------------------------------------
(* Properties *)

\* crash-semantics.md 3, test_acknowledged_writes "zero lost": every reply ever
\* given names a durable claim of that key and an event the ledger holds, so a
\* crash or a failed batch after the reply loses nothing.
AckedDurable ==
    \A r \in acked : /\ r \in disk.idempotency
                     /\ r.event_id \in EventsOf(disk.ledger)

\* crash-semantics.md 1 to 3: in every durable state, whatever transactions were
\* cut short and whichever process committed, keys and events are one to one (a
\* retry never adds a second ledger row), a claim has its ledger entry, the ledger
\* holds exactly the events flagged committed, and what recovery promoted carries
\* the staged payload.
TablesAgree == Consistent(disk)

\* crash-semantics.md 4: the durable chain verifies, at every moment.
ChainIntact == verify_integrity(disk.ledger)

\* Append-only: no step, commit or crash ever drops or rewrites a durable
\* ledger entry, a claimed key or a committed flag.
HistoryOnlyGrows == [][Extends(disk, disk')]_vars

\* crash-semantics.md 5: when recover_uncommitted returns, nothing staged is
\* left, so a second call finds no row and returns 0.
RecoveryDrains ==
    [][ \A t \in Threads :
          RecoverCommit(t) => Uncommitted(disk'.wal_staging) = {} ]_vars

\* What the methods promise, each in one transaction.
Contract == INSTANCE VaultContract WITH db <- disk

\* The statements of the methods, interleaved, cut short and repeated, implement the
\* atomic methods while one process has the file.
ImplementsContract == Contract!Spec

\* What a transaction adds to the invariants above.  At most one connection
\* writes; its owner is a thread inside a method that holds the lock; its tables
\* extend the durable ones and already satisfy what the durable ones must; the
\* results a method has collected are claims it can see.
OneWriter == \A p, q \in Processes : conn[p].open /\ conn[q].open => p = q

LockHeld == \A t \in Threads : call[t].pc # "idle" => lock[ProcessOf[t]] = t

WriterHoldsLock ==
    \A p \in Processes : conn[p].open =>
        /\ lock[p] \in Threads
        /\ ProcessOf[lock[p]] = p
        /\ call[lock[p]].pc \in {"ack", "recover", "append"}

WriterExtendsDisk ==
    \A p \in Processes : conn[p].open => /\ Extends(disk, conn[p].db)
                                         /\ Consistent(conn[p].db)

LocalsAreSeen ==
    \A t \in Threads :
        /\ call[t].pc = "ack" =>
              call[t].existing \cup call[t].replies \subseteq View(ProcessOf[t]).idempotency
        /\ call[t].pc = "answer" => call[t].replies \subseteq disk.idempotency
        /\ call[t].pc \in {"recover", "append"} =>
              call[t].pending \subseteq DOMAIN View(ProcessOf[t]).wal_staging

IInv ==
    /\ TypeOK
    /\ OneWriter
    /\ LockHeld
    /\ WriterHoldsLock
    /\ WriterExtendsDisk
    /\ LocalsAreSeen
    /\ Consistent(disk)
    /\ acked \subseteq disk.idempotency

\* The chain, while one process has the file: what the open transaction holds
\* verifies, and the head recovery has read is still the head.
ChainInv ==
    /\ verify_integrity(disk.ledger)
    /\ \A p \in Processes : conn[p].open => verify_integrity(conn[p].db.ledger)
    /\ \A t \in Threads :
          call[t].pc = "append" => call[t].prev = last_hash(View(ProcessOf[t]).ledger)

\* Recovery, while one process has the file: what its connection sees as uncommitted
\* is in its list.
PendingIsAll ==
    \A t \in Threads : call[t].pc \in {"recover", "append"} =>
        Uncommitted(View(ProcessOf[t]).wal_staging) \subseteq call[t].pending

\* How far a method has come, while one process has the file: its connection sees
\* what the contract makes of the items, or of the staged rows, it is through with; it
\* knows the claims on the keys of its batch; its results answer the items so far.
\* `c' is its locals, `db' the durable tables, `view' what it reads.
Answers(db, batch, n) ==
    {r \in db.idempotency : \E i \in 1..n : r.idempotency_key = batch[i].idempotency_key}

AckProgress(c, db, view) ==
    LET n == c.next - 1
    IN  /\ n \in 0..Len(c.items)
        /\ view = AfterItems(db, c.items, n)
        /\ \A i \in 1..n : /\ \/ Claimed(AfterItems(db, c.items, i - 1), c.items[i])
                              \/ ~Conflict(AfterItems(db, c.items, i - 1), c.items[i])
                           /\ Claimed(view, c.items[i])
        /\ c.existing = Answers(view, c.items, Len(c.items))
        /\ c.replies = Answers(view, c.items, n)

AnswerReady(c, db) ==
    /\ \A i \in DOMAIN c.items : Claimed(db, c.items[i])
    /\ c.replies = Answers(db, c.items, Len(c.items))

RecoverProgress(c, db, view) ==
    LET LeftAfter(n) == {i \in Uncommitted(db.wal_staging) : i > n}
    IN  /\ \E n \in 0..Len(db.wal_staging) : c.pending = LeftAfter(n)
        /\ \A n \in 0..Len(db.wal_staging) :
              c.pending = LeftAfter(n) => view = AfterRows(db, n)

InContract(c, db, view) ==
    /\ c.pc \in {"ack", "answer"} => c.items \in Batches
    /\ c.pc = "ack" => AckProgress(c, db, view)
    /\ c.pc = "answer" => AnswerReady(c, db)
    /\ c.pc \in {"recover", "append"} => RecoverProgress(c, db, view)

ContractInv == \A t \in Threads : InContract(call[t], disk, View(ProcessOf[t]))

\* No caller keeps the lock: not through an exception, a busy timeout or a crash.
LockIsReleased ==
    \A p \in Processes : lock[p] # NoThread ~> lock[p] = NoThread

\* A staged event reaches the ledger in the end, whatever crashes and failed
\* batches come in between, as long as recovery keeps being run: or else waits for
\* the other process's transactions keep timing out, which SQLite does not exclude.
StagedIsPromoted ==
    \/ \A e \in EventId :
          e \in EventsOf(disk.wal_staging) ~> e \in EventsOf(disk.ledger)
    \/ []<><<\E t \in Threads : BusyTimeout(t)>>_vars
=============================================================================
