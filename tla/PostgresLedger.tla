---------------------------- MODULE PostgresLedger ----------------------------
(***************************************************************************)
(* The ledger half of storage/postgres_backend.py: any number of           *)
(* processes, each with a bounded connection pool, on one server.          *)
(*                                                                         *)
(* acknowledge_writes_batch and recover_uncommitted take the same advisory *)
(* lock as their transaction's first statement, so at most one transaction *)
(* writes keys, entries and flags.  stage_partial takes none.  Statements  *)
(* run READ COMMITTED: each sees what is committed when it starts, and the *)
(* writes of its own transaction.                                          *)
(***************************************************************************)
EXTENDS VaultTables, FiniteSets

CONSTANTS Processes,    \* processes that use the database
          Threads,      \* the threads of all processes
          ProcessOf,    \* [Threads -> Processes]
          pool_max,     \* connections of a process
          Batches,      \* what clients pass to acknowledge_writes_batch
          Stagings,     \* what clients pass to stage_partial
          NoThread,     \* holder of a free advisory lock
          MaxFaults     \* bound: crashes, failed statements and lost replies

ASSUME PostgresLedgerAssumption ==
    /\ ProcessOf \in [Threads -> Processes]
    /\ pool_max \in Nat \ {0}
    /\ Batches \subseteq Seq(BatchWriteItem)
    /\ Stagings \subseteq [event_id : EventId, payload : Payload]
    /\ NoThread \notin Threads
    /\ MaxFaults \in Nat

VARIABLES disk,         \* the committed tables
          holder,       \* the thread whose transaction has the advisory lock
          txn,          \* the tables as that transaction sees them
          call,         \* per thread: the method it is executing
          acked,        \* rows clients were told are acknowledged
          faults

vars == <<disk, holder, txn, call, acked, faults>>

\* The locals of the method a thread is in.
IdleCall == [pc       |-> "idle",
             items    |-> << >>,    \* acknowledge_writes_batch: its argument
             next     |-> 1,        \*   the item its loop is at
             existing |-> {},       \*   the keys it knows to be claimed
             replies  |-> {},       \*   results
             pending  |-> {},       \* recover_uncommitted: rows left
             staging  |-> {}]       \* stage_partial: its argument

\* At "ack_lock" and "recover_lock" the thread waits for the advisory lock, at
\* "stage" for the transaction, if any, that is inserting its row.
Call == [pc       : {"idle", "stage", "ack_lock", "recover_lock", "ack", "recover", "answer"},
         items    : Seq(BatchWriteItem),
         next     : Nat \ {0},
         existing : SUBSET IdempotencyRow,
         replies  : SUBSET IdempotencyRow,
         pending  : SUBSET Nat,
         staging  : SUBSET Stagings]

TypeOK ==
    /\ disk \in Db
    /\ holder \in Threads \cup {NoThread}
    /\ txn \in Db
    /\ call \in [Threads -> Call]
    /\ acked \in SUBSET IdempotencyRow
    /\ faults \in 0..MaxFaults

Init ==
    /\ disk = EmptyDb
    /\ holder = NoThread
    /\ txn = EmptyDb
    /\ call = [t \in Threads |-> IdleCall]
    /\ acked = {}
    /\ faults = 0

-----------------------------------------------------------------------------
(* Connections, the lock, transactions *)

\* A thread inside a method has a connection of its process's pool.
Borrowed(p) == {t \in Threads : ProcessOf[t] = p /\ call[t].pc # "idle"}

\* The pool has a connection left; otherwise the caller waits, or gives up.
CanBorrow(t) ==
    /\ call[t].pc = "idle"
    /\ Cardinality(Borrowed(ProcessOf[t])) < pool_max

Goto(t, locals) == call' = [call EXCEPT ![t] = locals]

\* pg_advisory_xact_lock.
Lock(t) == holder = NoThread /\ holder' = t

\* The end of the transaction releases the lock.
Commit == disk' = txn /\ holder' = NoThread /\ UNCHANGED txn

-----------------------------------------------------------------------------
(* stage_partial *)

\* The holder's transaction has inserted a row for the event: the INSERT waits
\* for its end.
Inserting(event_id) ==
    event_id \in EventsOf(txn.wal_staging) \ EventsOf(disk.wal_staging)

StageCall(t, s) ==
    /\ CanBorrow(t)
    /\ Goto(t, [IdleCall EXCEPT !.pc = "stage", !.staging = {s}])
    /\ UNCHANGED <<disk, holder, txn, acked, faults>>

\* Mutant: ON CONFLICT DO UPDATE SET payload.
StageUpserts(t) ==
    \E s \in call[t].staging :
        LET Upsert(wal) == [i \in DOMAIN InsertOrIgnore(wal, s.event_id, s.payload) |->
                LET row == InsertOrIgnore(wal, s.event_id, s.payload)[i]
                IN  IF row.event_id = s.event_id THEN [row EXCEPT !.payload = s.payload] ELSE row]
        IN  /\ call[t].pc = "stage"
            /\ ~Inserting(s.event_id)
            /\ disk' = [disk EXCEPT !.wal_staging = Upsert(@)]
            /\ txn' = [txn EXCEPT !.wal_staging = Upsert(@)]
            /\ Goto(t, IdleCall)
            /\ UNCHANGED <<holder, acked, faults>>

\* INSERT and commit are one step: until the commit the row can only make
\* another INSERT of the event wait.  The holder's next statement sees the row.
Stage(t) ==
    \E s \in call[t].staging :
        /\ call[t].pc = "stage"
        /\ ~Inserting(s.event_id)
        /\ disk' = StageRow(disk, s.event_id, s.payload)
        /\ txn' = StageRow(txn, s.event_id, s.payload)
        /\ Goto(t, IdleCall)
        /\ UNCHANGED <<holder, acked, faults>>

-----------------------------------------------------------------------------
(* acknowledge_writes_batch *)

AckCall(t, batch) ==
    /\ CanBorrow(t)
    /\ batch # << >>
    /\ Goto(t, [IdleCall EXCEPT !.pc = "ack_lock", !.items = batch])
    /\ UNCHANGED <<disk, holder, txn, acked, faults>>

Claims(rows, key) == {r \in rows : r.idempotency_key = key}

\* The lock, and the SELECT of the keys claimed already.
AckBegin(t) ==
    /\ call[t].pc = "ack_lock"
    /\ Lock(t)
    /\ Goto(t, [call[t] EXCEPT
                    !.pc = "ack",
                    !.existing = UNION {Claims(txn.idempotency,
                                               call[t].items[i].idempotency_key) :
                                          i \in DOMAIN call[t].items}])
    /\ UNCHANGED <<disk, txn, acked, faults>>

Item(t) == call[t].items[call[t].next]

AtItem(t) == call[t].pc = "ack" /\ call[t].next <= Len(call[t].items)

\* A claimed key is answered with the event that claimed it.
AckDuplicate(t) ==
    LET claims == Claims(call[t].existing, Item(t).idempotency_key)
    IN  /\ AtItem(t)
        /\ claims # {}
        /\ Goto(t, [call[t] EXCEPT !.next = @ + 1, !.replies = @ \cup claims])
        /\ UNCHANGED <<disk, holder, txn, acked, faults>>

NewItem(t) == AtItem(t) /\ Claims(call[t].existing, Item(t).idempotency_key) = {}

\* The writes of a new item.
AckInsert(t) ==
    /\ NewItem(t)
    /\ ~Conflict(txn, Item(t))
    /\ txn' = WriteItem(txn, Item(t))
    /\ Goto(t, [call[t] EXCEPT !.next = @ + 1,
                               !.existing = @ \cup {RowOf(Item(t))},
                               !.replies = @ \cup {RowOf(Item(t))}])
    /\ UNCHANGED <<disk, holder, acked, faults>>

AckDone(t) == call[t].pc = "ack" /\ call[t].next > Len(call[t].items)

\* Mutant: the results are returned from an open transaction.
AckWithoutCommit(t) ==
    /\ AckDone(t)
    /\ holder' = NoThread /\ txn' = disk
    /\ Goto(t, [call[t] EXCEPT !.pc = "answer"])
    /\ UNCHANGED <<disk, acked, faults>>

AckCommit(t) ==
    /\ AckDone(t)
    /\ Commit
    /\ Goto(t, [call[t] EXCEPT !.pc = "answer"])
    /\ UNCHANGED <<acked, faults>>

AckAnswer(t) ==
    /\ call[t].pc = "answer"
    /\ acked' = acked \cup call[t].replies
    /\ Goto(t, IdleCall)
    /\ UNCHANGED <<disk, holder, txn, faults>>

-----------------------------------------------------------------------------
(* recover_uncommitted *)

RecoverCall(t) ==
    /\ CanBorrow(t)
    /\ Goto(t, [IdleCall EXCEPT !.pc = "recover_lock"])
    /\ UNCHANGED <<disk, holder, txn, acked, faults>>

\* The lock, and the SELECT of the staged rows.
RecoverBegin(t) ==
    /\ call[t].pc = "recover_lock"
    /\ Lock(t)
    /\ Goto(t, [call[t] EXCEPT !.pc = "recover", !.pending = Uncommitted(txn.wal_staging)])
    /\ UNCHANGED <<disk, txn, acked, faults>>

\* The row the loop is at: rows come ORDER BY id.
RowAt(t, id) ==
    /\ call[t].pc = "recover"
    /\ id \in call[t].pending
    /\ \A j \in call[t].pending : id <= j

\* Mutant: the chain's head is read on another connection.
RecoverRowFromDisk(t) ==
    \E id \in call[t].pending :
        /\ RowAt(t, id)
        /\ txn' = IF txn.wal_staging[id].event_id \in EventsOf(txn.ledger)
                  THEN FlagRow(txn, id)
                  ELSE PromoteRow(txn, id, last_hash(disk.ledger))
        /\ Goto(t, [call[t] EXCEPT !.pending = @ \ {id}])
        /\ UNCHANGED <<disk, holder, acked, faults>>

\* A turn of the loop.  Nobody else writes what its statements read: the entries,
\* and the flag of a committed row.
RecoverRow(t) ==
    \E id \in call[t].pending :
        /\ RowAt(t, id)
        /\ txn' = IF txn.wal_staging[id].event_id \in EventsOf(txn.ledger)
                  THEN FlagRow(txn, id)
                  ELSE PromoteRow(txn, id, last_hash(txn.ledger))
        /\ Goto(t, [call[t] EXCEPT !.pending = @ \ {id}])
        /\ UNCHANGED <<disk, holder, acked, faults>>

RecoverDone(t) == call[t].pc = "recover" /\ call[t].pending = {}

\* Mutant: recovery ends its transaction by a rollback.
RecoverWithoutCommit(t) ==
    /\ RecoverDone(t)
    /\ holder' = NoThread /\ txn' = disk
    /\ Goto(t, IdleCall)
    /\ UNCHANGED <<disk, acked, faults>>

RecoverCommit(t) ==
    /\ RecoverDone(t)
    /\ Commit
    /\ Goto(t, IdleCall)
    /\ UNCHANGED <<acked, faults>>

-----------------------------------------------------------------------------
(* Failures *)

\* Mutant: a session lock, which a rollback keeps.
AbortHoldingLock(ts) ==
    /\ call' = [t \in Threads |-> IF t \in ts THEN IdleCall ELSE call[t]]
    /\ txn' = IF holder \in ts THEN disk ELSE txn
    /\ UNCHANGED <<holder, disk, acked>>

\* Threads leave their methods; the transaction of the holder is rolled back.
Abort(ts) ==
    /\ call' = [t \in Threads |-> IF t \in ts THEN IdleCall ELSE call[t]]
    /\ holder' = IF holder \in ts THEN NoThread ELSE holder
    /\ txn' = IF holder \in ts THEN disk ELSE txn
    /\ UNCHANGED <<disk, acked>>

\* A PRIMARY KEY or UNIQUE constraint fails.
ConstraintFails(t) ==
    /\ NewItem(t)
    /\ Conflict(txn, Item(t))
    /\ Abort({t})
    /\ UNCHANGED faults

Fault == faults < MaxFaults /\ faults' = faults + 1

\* A statement fails, a wait included, or the connection does.
StatementFails(t) ==
    /\ call[t].pc \in {"stage", "ack_lock", "recover_lock", "ack", "recover"}
    /\ Fault
    /\ Abort({t})

\* The server commits, and the connection breaks before commit() knows: the
\* caller gets an exception for what is durable.
CommitReplyLost(t) ==
    /\ AckDone(t) \/ RecoverDone(t)
    /\ Fault
    /\ Commit
    /\ Goto(t, IdleCall)
    /\ UNCHANGED acked

\* A process dies: the server rolls its transactions back.
Crash(p) == Fault /\ Abort({t \in Threads : ProcessOf[t] = p})

-----------------------------------------------------------------------------
\* The server lets a statement go on: it has the lock, or no row to wait for.
Granted(t) == AckBegin(t) \/ RecoverBegin(t) \/ Stage(t)

\* What a thread with the lock, or past it, does next.
Proceed(t) ==
    \/ AckDuplicate(t)
    \/ AckInsert(t)
    \/ AckCommit(t)
    \/ AckAnswer(t)
    \/ RecoverRow(t)
    \/ RecoverCommit(t)
    \/ ConstraintFails(t)

Next ==
    \/ \E t \in Threads :
          \/ \E s \in Stagings : StageCall(t, s)
          \/ \E batch \in Batches : AckCall(t, batch)
          \/ RecoverCall(t)
          \/ Granted(t)
          \/ Proceed(t)
          \/ StatementFails(t)
          \/ CommitReplyLost(t)
    \/ \E p \in Processes : Crash(p)

Spec == Init /\ [][Next]_vars

\* A method runs to its end; whoever waits for the advisory lock or for a row is
\* served after finitely many others; and someone keeps calling
\* recover_uncommitted.
FairSpec ==
    /\ Spec
    /\ \A t \in Threads : WF_vars(Proceed(t)) /\ SF_vars(Granted(t))
    /\ SF_vars(\E t \in Threads : RecoverCall(t))

-----------------------------------------------------------------------------
(* Properties *)

\* crash-semantics.md 4, and ADR 0002 "without weakening hash-chain integrity":
\* the chain verifies at every moment, whichever processes append and recover.
ChainIntact == verify_integrity(disk.ledger)

\* A reply names a durable claim and a ledgered event from then on, whether the
\* connection, the caller or another process fails afterwards.
AckedDurable ==
    \A r \in acked : r \in disk.idempotency /\ r.event_id \in EventsOf(disk.ledger)

\* crash-semantics.md 1, 2 and 3: the ledger holds exactly the flagged events,
\* every claim's event and no event twice, recovered ones as they were staged,
\* although stage_partial commits in the middle of the locked transactions.
TablesAgree == Consistent(disk)

\* `new' keeps what `old' holds.  A row that was staged while the transaction was
\* open may come behind the transaction's own: ids are drawn at the INSERT.
Keeps(old, new) ==
    /\ old.idempotency \subseteq new.idempotency
    /\ Len(old.ledger) <= Len(new.ledger)
    /\ \A i \in DOMAIN old.ledger : new.ledger[i] = old.ledger[i]
    /\ \A i \in DOMAIN old.wal_staging : \E j \in DOMAIN new.wal_staging :
          /\ new.wal_staging[j].event_id = old.wal_staging[i].event_id
          /\ new.wal_staging[j].payload = old.wal_staging[i].payload
          /\ old.wal_staging[i].committed => new.wal_staging[j].committed

\* No commit drops or rewrites an entry, a claim, a flag, or a row another
\* connection has staged since the transaction began.
HistoryOnlyGrows == [][Keeps(disk, disk')]_vars

\* What these rest on: the transaction belongs to the holder, sees all that is
\* committed, and already satisfies what the committed tables must.
HolderIsInside ==
    \A t \in Threads : call[t].pc \in {"ack", "recover"} <=> holder = t

TransactionOfHolder ==
    /\ holder = NoThread => txn = disk
    /\ Keeps(disk, txn)
    /\ Consistent(txn)
    /\ verify_integrity(txn.ledger)

LocalsAreSeen ==
    \A t \in Threads :
        /\ call[t].pc = "ack_lock" => call[t].replies = {}
        /\ call[t].pc = "ack" =>
              call[t].existing \cup call[t].replies \subseteq txn.idempotency
        /\ call[t].pc = "answer" => call[t].replies \subseteq disk.idempotency
        /\ call[t].pc = "recover" => call[t].pending \subseteq DOMAIN txn.wal_staging

IInv ==
    /\ TypeOK
    /\ HolderIsInside
    /\ TransactionOfHolder
    /\ LocalsAreSeen
    /\ Consistent(disk)
    /\ verify_integrity(disk.ledger)
    /\ acked \subseteq disk.idempotency

\* Every call that has its connection ends, also when all connections of its
\* process wait: the advisory lock and the rows of other transactions never make
\* callers wait for one another in a circle, and failures release them.
CallsEnd == \A t \in Threads : call[t].pc # "idle" ~> call[t].pc = "idle"

\* A staged event reaches the ledger, whatever fails in between, as long as
\* recovery keeps being run.
StagedIsPromoted ==
    \A e \in EventId : e \in EventsOf(disk.wal_staging) ~> e \in EventsOf(disk.ledger)
=============================================================================
