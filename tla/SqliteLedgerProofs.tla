-------------------------- MODULE SqliteLedgerProofs --------------------------
(***************************************************************************)
(* Proofs about SqliteLedger and IntegrityScan for every set of events,    *)
(* payloads, keys, processes, threads and batches, any number of faults.   *)
(***************************************************************************)
EXTENDS IntegrityScan, VaultTablesProofs

\* What a connection reads is typed, consistent, and loses nothing durable.
LEMMA ViewFacts ==
    ASSUME IInv, NEW p \in Processes
    PROVE  /\ View(p) \in Db
           /\ Consistent(View(p))
           /\ Extends(disk, View(p))
<1>1. disk \in Db /\ conn[p].db \in Db /\ conn[p].open \in BOOLEAN
  BY DEF IInv, TypeOK
<1>2. Extends(disk, disk)
  BY <1>1, ExtendsRefl
<1> QED
  BY <1>1, <1>2 DEF IInv, View, WriterExtendsDisk

\* While a thread holds its process's lock, or nobody does, every other thread
\* of that process is outside the backend's methods.
LEMMA OthersIdle ==
    ASSUME IInv, SqliteLedgerAssumption, NEW t \in Threads, NEW u \in Threads \ {t},
           ProcessOf[u] = ProcessOf[t], lock[ProcessOf[t]] \in {t, NoThread}
    PROVE  call[u].pc = "idle"
BY DEF IInv, LockHeld, SqliteLedgerAssumption

\* A write transaction belongs to a thread inside a method: a process whose lock
\* is free has none.
LEMMA FreeLockNoTransaction ==
    ASSUME IInv, SqliteLedgerAssumption, NEW p \in Processes, lock[p] = NoThread
    PROVE  ~conn[p].open
BY DEF IInv, WriterHoldsLock, SqliteLedgerAssumption

\* One thread's step, seen from outside: it changes its own locals, its own
\* process's connection and lock, and the disk only when no other process is
\* writing.  If what it leaves behind is consistent, the invariant holds.
LEMMA OwnStep ==
    ASSUME IInv, SqliteLedgerAssumption, NEW t \in Threads, NEW p \in Processes,
           p = ProcessOf[t],
           lock[p] \in {t, NoThread},
           TypeOK',
           \A q \in Processes \ {p} : conn'[q] = conn[q] /\ lock'[q] = lock[q],
           \A u \in Threads \ {t} : call'[u] = call[u],
           lock'[p] = IF call'[t].pc = "idle" THEN NoThread ELSE t,
           Consistent(disk'),
           Extends(disk, disk'),
           disk' # disk \/ conn'[p].open => CanWrite(p),
           conn'[p].open => /\ call'[t].pc \in {"ack", "recover", "append"}
                            /\ Extends(disk', conn'[p].db)
                            /\ Consistent(conn'[p].db),
           call'[t].pc = "ack" =>
              call'[t].existing \cup call'[t].replies \subseteq View(p)'.idempotency,
           call'[t].pc = "answer" => call'[t].replies \subseteq disk'.idempotency,
           call'[t].pc \in {"recover", "append"} =>
              call'[t].pending \subseteq DOMAIN View(p)'.wal_staging,
           acked' \subseteq disk'.idempotency
    PROVE  IInv'
<1>1. ASSUME NEW u \in Threads \ {t}, ProcessOf[u] = p
      PROVE  call[u].pc = "idle"
  BY <1>1, OthersIdle
<1>2. OneWriter'
  BY DEF IInv, OneWriter, CanWrite
<1>3. LockHeld'
  <2> SUFFICES ASSUME NEW u \in Threads, call'[u].pc # "idle"
               PROVE  lock'[ProcessOf[u]] = u
    BY DEF LockHeld
  <2>1. CASE u = t
    BY <2>1
  <2>2. CASE u # t
    <3>1. ProcessOf[u] # p /\ call[u].pc # "idle"
      BY <1>1, <2>2
    <3> QED
      BY <2>2, <3>1 DEF IInv, LockHeld, SqliteLedgerAssumption
  <2> QED
    BY <2>1, <2>2
<1>4. WriterHoldsLock'
  <2> SUFFICES ASSUME NEW q \in Processes, conn'[q].open
               PROVE  /\ lock'[q] \in Threads
                      /\ ProcessOf[lock'[q]] = q
                      /\ call'[lock'[q]].pc \in {"ack", "recover", "append"}
    BY DEF WriterHoldsLock
  <2>1. CASE q = p
    BY <2>1
  <2>2. CASE q # p
    BY <2>2 DEF IInv, WriterHoldsLock
  <2> QED
    BY <2>1, <2>2
<1>5. WriterExtendsDisk'
  <2> SUFFICES ASSUME NEW q \in Processes, conn'[q].open
               PROVE  Extends(disk', conn'[q].db) /\ Consistent(conn'[q].db)
    BY DEF WriterExtendsDisk
  <2>1. CASE q = p
    BY <2>1
  <2>2. CASE q # p
    <3>1. disk' = disk
      BY <2>2 DEF CanWrite
    <3> QED
      BY <2>2, <3>1 DEF IInv, WriterExtendsDisk
  <2> QED
    BY <2>1, <2>2
<1>6. LocalsAreSeen'
  <2> SUFFICES ASSUME NEW u \in Threads
               PROVE  /\ call'[u].pc = "ack" =>
                            call'[u].existing \cup call'[u].replies
                                \subseteq View(ProcessOf[u])'.idempotency
                      /\ call'[u].pc = "answer" =>
                            call'[u].replies \subseteq disk'.idempotency
                      /\ call'[u].pc \in {"recover", "append"} =>
                            call'[u].pending \subseteq DOMAIN View(ProcessOf[u])'.wal_staging
    BY DEF LocalsAreSeen
  <2>1. CASE u = t
    BY <2>1
  <2>2. CASE u # t /\ ProcessOf[u] = p
    BY <1>1, <2>2
  <2>3. CASE u # t /\ ProcessOf[u] # p
    <3> DEFINE q == ProcessOf[u]
    <3>1. q \in Processes /\ conn'[q] = conn[q] /\ call'[u] = call[u]
      BY <2>3 DEF SqliteLedgerAssumption
    <3>2. disk \in Db /\ disk' \in Db
      BY DEF IInv, TypeOK
    <3>3. /\ disk.idempotency \subseteq disk'.idempotency
          /\ DOMAIN disk.wal_staging \subseteq DOMAIN disk'.wal_staging
      BY <3>2 DEF Extends, Db
    <3>4. CASE conn[q].open
      BY <3>1, <3>3, <3>4 DEF IInv, LocalsAreSeen, View
    <3>5. CASE ~conn[q].open
      BY <3>1, <3>3, <3>5 DEF IInv, LocalsAreSeen, View
    <3> QED
      BY <3>4, <3>5
  <2> QED
    BY <2>1, <2>2, <2>3
<1> QED
  BY <1>2, <1>3, <1>4, <1>5, <1>6 DEF IInv

-----------------------------------------------------------------------------
(* One lemma per action: it keeps the invariant and loses nothing durable. *)

\* The locals of a thread outside every method.
LEMMA IdleCallFacts ==
    /\ IdleCall \in Call
    /\ IdleCall.pc = "idle"
    /\ IdleCall.replies = {}
BY DEF IdleCall, Call, GENESIS_HASH, Digest

\* The initial state satisfies the invariant.
LEMMA InitInv == SqliteLedgerAssumption /\ Init => IInv
<1> SUFFICES ASSUME SqliteLedgerAssumption, Init
             PROVE  IInv
  OBVIOUS
<1>1. EmptyDb \in Db /\ IdleCall \in Call
  BY DEF EmptyDb, Db, IdleCall, Call, GENESIS_HASH, Digest
<1>2. Consistent(EmptyDb)
  BY DEF EmptyDb, Consistent, WalCoversLedger, KeysAreLedgered, UniqueRows,
         PromotedPayloads, EventsOf, CommittedEvents
<1>3. TypeOK
  BY <1>1 DEF Init, TypeOK, NoTransaction
<1>4. \A p \in Processes : ~conn[p].open
  BY DEF Init, NoTransaction
<1>5. \A t \in Threads : call[t].pc = "idle"
  BY DEF Init, IdleCall
<1> QED
  BY <1>2, <1>3, <1>4, <1>5
     DEF Init, IInv, OneWriter, LockHeld, WriterHoldsLock, WriterExtendsDisk, LocalsAreSeen

LEMMA StageInv ==
    ASSUME IInv, SqliteLedgerAssumption, NEW t \in Threads, NEW s \in Stagings,
           Stage(t, s)
    PROVE  IInv' /\ Extends(disk, disk')
<1> DEFINE p == ProcessOf[t]
<1>1. p \in Processes /\ s.event_id \in EventId /\ s.payload \in Payload /\ disk \in Db
  BY DEF SqliteLedgerAssumption, IInv, TypeOK
<1>2. /\ disk' = StageRow(disk, s.event_id, s.payload)
      /\ disk' \in Db
      /\ Extends(disk, disk')
      /\ Consistent(disk')
  BY <1>1, StageRowFacts DEF Stage, IInv
<1>3. TypeOK'
  BY <1>2 DEF IInv, TypeOK, Stage
<1>4. ~conn[p].open /\ CanWrite(p)
  BY <1>1, FreeLockNoTransaction DEF Stage
<1>5. call'[t].pc = "idle"
  BY DEF Stage
<1>6. acked' \subseteq disk'.idempotency
  BY <1>2 DEF Stage, IInv, Extends
<1> QED
  BY <1>1, <1>2, <1>3, <1>4, <1>5, <1>6, OwnStep DEF Stage

\* Taking the lock outside any transaction, with locals that show what the
\* connection can see, keeps the invariant.
LEMMA AckBeginInv ==
    ASSUME IInv, SqliteLedgerAssumption, NEW t \in Threads, NEW batch \in Batches,
           AckBegin(t, batch)
    PROVE  IInv' /\ Extends(disk, disk')
<1> DEFINE p == ProcessOf[t]
           rows == UNION {Claims(View(p).idempotency, batch[i].idempotency_key)
                             : i \in DOMAIN batch}
           c == [IdleCall EXCEPT !.pc = "ack", !.items = batch, !.existing = rows]
<1>1. p \in Processes /\ batch \in Seq(BatchWriteItem)
  BY DEF SqliteLedgerAssumption
<1>2. View(p) \in Db /\ disk \in Db
  BY <1>1, ViewFacts DEF IInv, TypeOK
<1>3. rows \subseteq View(p).idempotency /\ rows \subseteq IdempotencyRow
  BY <1>2 DEF Claims, Db
<1> HIDE DEF rows
<1>4. /\ c \in Call
      /\ c.pc = "ack"
      /\ c.existing = rows
      /\ c.replies = {}
  BY <1>1, <1>3, IdleCallFacts DEF Call
<1>5. /\ call' = [call EXCEPT ![t] = c]
      /\ lock[p] = NoThread
      /\ lock' = [lock EXCEPT ![p] = t]
      /\ UNCHANGED <<disk, conn, acked, faults>>
  BY DEF AckBegin, Acquire, rows
<1> HIDE DEF c
<1>6. TypeOK'
  BY <1>1, <1>4, <1>5 DEF IInv, TypeOK
<1>7. /\ ~conn'[p].open
      /\ call'[t] = c
      /\ View(p)' = View(p)
      /\ lock'[p] = t
  BY <1>1, <1>5, FreeLockNoTransaction DEF IInv, TypeOK, View
<1>8. Extends(disk, disk') /\ Consistent(disk') /\ acked' \subseteq disk'.idempotency
  BY <1>2, <1>5, ExtendsRefl DEF IInv
<1> QED
  BY <1>1, <1>3, <1>4, <1>5, <1>6, <1>7, <1>8, OwnStep DEF IInv, TypeOK

LEMMA RecoverBeginInv ==
    ASSUME IInv, SqliteLedgerAssumption, NEW t \in Threads, RecoverBegin(t)
    PROVE  IInv' /\ Extends(disk, disk')
<1> DEFINE p == ProcessOf[t]
           rows == Uncommitted(View(p).wal_staging)
           c == [IdleCall EXCEPT !.pc = "recover", !.pending = rows]
<1>1. p \in Processes
  BY DEF SqliteLedgerAssumption
<1>2. View(p) \in Db /\ disk \in Db
  BY <1>1, ViewFacts DEF IInv, TypeOK
<1>3. rows \subseteq DOMAIN View(p).wal_staging /\ rows \subseteq Nat
  BY <1>2 DEF Uncommitted, Db
<1> HIDE DEF rows
<1>4. c \in Call /\ c.pc = "recover" /\ c.pending = rows
  BY <1>3, IdleCallFacts DEF Call
<1>5. /\ call' = [call EXCEPT ![t] = c]
      /\ lock[p] = NoThread
      /\ lock' = [lock EXCEPT ![p] = t]
      /\ UNCHANGED <<disk, conn, acked, faults>>
  BY DEF RecoverBegin, Acquire, rows
<1> HIDE DEF c
<1>6. TypeOK'
  BY <1>1, <1>4, <1>5 DEF IInv, TypeOK
<1>7. /\ ~conn'[p].open
      /\ call'[t] = c
      /\ View(p)' = View(p)
      /\ lock'[p] = t
  BY <1>1, <1>5, FreeLockNoTransaction DEF IInv, TypeOK, View
<1>8. Extends(disk, disk') /\ Consistent(disk') /\ acked' \subseteq disk'.idempotency
  BY <1>2, <1>5, ExtendsRefl DEF IInv
<1> QED
  BY <1>1, <1>3, <1>4, <1>5, <1>6, <1>7, <1>8, OwnStep DEF IInv, TypeOK

\* A step that changes only the locals of a thread inside a method.
LEMMA LocalStep ==
    ASSUME IInv, SqliteLedgerAssumption, NEW t \in Threads, NEW p \in Processes,
           p = ProcessOf[t],
           UNCHANGED <<disk, conn, lock, acked, faults>>,
           call[t].pc \in {"ack", "recover", "append"},
           call'[t] \in Call,
           call' = [call EXCEPT ![t] = call'[t]],
           call'[t].pc \in {"ack", "recover", "append"},
           call'[t].pc = "ack" =>
              call'[t].existing \cup call'[t].replies \subseteq View(p).idempotency,
           call'[t].pc \in {"recover", "append"} =>
              call'[t].pending \subseteq DOMAIN View(p).wal_staging
    PROVE  IInv' /\ Extends(disk, disk')
<1>1. lock[p] = t
  BY DEF IInv, LockHeld
<1>2. TypeOK'
  BY DEF IInv, TypeOK
<1>3. disk \in Db /\ View(p)' = View(p)
  BY DEF IInv, TypeOK, View
<1>4. Extends(disk, disk') /\ Consistent(disk') /\ acked' \subseteq disk'.idempotency
  BY <1>3, ExtendsRefl DEF IInv
<1>5. conn'[p].open => /\ CanWrite(p)
                       /\ Extends(disk', conn'[p].db)
                       /\ Consistent(conn'[p].db)
  BY DEF IInv, OneWriter, WriterExtendsDisk, CanWrite, TypeOK
<1>6. \A u \in Threads \ {t} : call'[u] = call[u]
  BY DEF IInv, TypeOK
<1> QED
  BY <1>1, <1>2, <1>3, <1>4, <1>5, <1>6, OwnStep

\* A duplicate item is answered from rows the connection can see.
LEMMA AckDuplicateInv ==
    ASSUME IInv, SqliteLedgerAssumption, NEW t \in Threads, AckDuplicate(t)
    PROVE  IInv' /\ Extends(disk, disk')
<1> DEFINE p == ProcessOf[t]
           rows == Claims(call[t].existing, Item(t).idempotency_key)
<1>1. p \in Processes /\ call[t] \in Call /\ call[t].pc = "ack"
  BY DEF SqliteLedgerAssumption, IInv, TypeOK, AckDuplicate, AtItem
<1>2. rows \subseteq call[t].existing
  BY DEF Claims
<1> HIDE DEF rows
<1>3. call' = [call EXCEPT ![t] = [call[t] EXCEPT !.next = @ + 1,
                                                  !.replies = @ \cup rows]]
  BY DEF AckDuplicate, rows, IInv, TypeOK
<1>4. /\ call'[t] = [call[t] EXCEPT !.next = @ + 1, !.replies = @ \cup rows]
      /\ call' = [call EXCEPT ![t] = call'[t]]
  BY <1>3 DEF IInv, TypeOK
<1>5. /\ call'[t] \in Call
      /\ call'[t].pc = "ack"
      /\ call'[t].existing = call[t].existing
      /\ call'[t].replies = call[t].replies \cup rows
  <2>1. /\ call[t].next + 1 \in Nat \ {0}
        /\ call[t].replies \cup rows \in SUBSET IdempotencyRow
    BY <1>1, <1>2 DEF Call
  <2> QED
    BY <1>1, <1>4, <2>1 DEF Call
<1>6. call[t].existing \cup call[t].replies \subseteq View(p).idempotency
  BY <1>1 DEF IInv, LocalsAreSeen
<1>7. UNCHANGED <<disk, conn, lock, acked, faults>>
  BY DEF AckDuplicate
<1> QED
  BY <1>1, <1>2, <1>4, <1>5, <1>6, <1>7, LocalStep

\* Reading the head changes only prev.
LEMMA RecoverReadInv ==
    ASSUME IInv, SqliteLedgerAssumption, NEW t \in Threads, RecoverRead(t)
    PROVE  IInv' /\ Extends(disk, disk')
<1> DEFINE p == ProcessOf[t]
           head == last_hash(View(p).ledger)
<1>1. p \in Processes /\ call[t] \in Call /\ call[t].pc = "recover"
  BY DEF SqliteLedgerAssumption, IInv, TypeOK, RecoverRead
<1>2. head \in Digest
  BY <1>1, ViewFacts, LastHashType DEF Db
<1> HIDE DEF head
<1>3. call' = [call EXCEPT ![t] = [call[t] EXCEPT !.pc = "append", !.prev = head]]
  BY DEF RecoverRead, head, IInv, TypeOK
<1>4. /\ call'[t] = [call[t] EXCEPT !.pc = "append", !.prev = head]
      /\ call' = [call EXCEPT ![t] = call'[t]]
  BY <1>3 DEF IInv, TypeOK
<1>5. /\ call'[t] \in Call
      /\ call'[t].pc = "append"
      /\ call'[t].pending = call[t].pending
  BY <1>1, <1>2, <1>4 DEF Call
<1>6. call[t].pending \subseteq DOMAIN View(p).wal_staging
  BY <1>1 DEF IInv, LocalsAreSeen
<1>7. UNCHANGED <<disk, conn, lock, acked, faults>>
  BY DEF RecoverRead
<1> QED
  BY <1>1, <1>4, <1>5, <1>6, <1>7, LocalStep

\* A write inside the transaction: the connection's new tables keep what it saw
\* and are consistent; the locals stay visible.
LEMMA WriteStep ==
    ASSUME IInv, SqliteLedgerAssumption, NEW t \in Threads, NEW p \in Processes,
           p = ProcessOf[t], NEW db \in Db,
           CanWrite(p),
           Write(p, db),
           Extends(View(p), db),
           Consistent(db),
           UNCHANGED <<disk, lock, acked, faults>>,
           call[t].pc \in {"ack", "recover", "append"},
           call'[t] \in Call,
           call' = [call EXCEPT ![t] = call'[t]],
           call'[t].pc \in {"ack", "recover"},
           call'[t].pc = "ack" =>
              call'[t].existing \cup call'[t].replies \subseteq db.idempotency,
           call'[t].pc = "recover" => call'[t].pending \subseteq DOMAIN db.wal_staging
    PROVE  IInv' /\ Extends(disk, disk')
<1>1. lock[p] = t
  BY DEF IInv, LockHeld
<1>2. conn' = [conn EXCEPT ![p] = [open |-> TRUE, db |-> db]]
  BY DEF Write
<1>3. /\ conn'[p].open
      /\ conn'[p].db = db
      /\ \A q \in Processes \ {p} : conn'[q] = conn[q]
      /\ View(p)' = db
  BY <1>2 DEF IInv, TypeOK, View
<1>4. TypeOK'
  BY <1>2 DEF IInv, TypeOK
<1>5. disk \in Db /\ View(p) \in Db /\ Extends(disk, View(p))
  BY ViewFacts DEF IInv, TypeOK
<1>6. Extends(disk', db)
  BY <1>5, ExtendsTrans
<1>7. Extends(disk, disk') /\ Consistent(disk') /\ acked' \subseteq disk'.idempotency
  BY <1>5, ExtendsRefl DEF IInv
<1>8. \A u \in Threads \ {t} : call'[u] = call[u]
  BY DEF IInv, TypeOK
<1> QED
  BY <1>1, <1>3, <1>4, <1>6, <1>7, <1>8, OwnStep

\* The item the batch loop is at is an item.
LEMMA ItemType ==
    ASSUME IInv, NEW t \in Threads, AtItem(t)
    PROVE  Item(t) \in BatchWriteItem
<1>1. call[t] \in Call
  BY DEF IInv, TypeOK
<1>2. /\ call[t].items \in Seq(BatchWriteItem)
      /\ call[t].next \in 1..Len(call[t].items)
  BY <1>1 DEF Call, AtItem
<1> QED
  BY <1>2 DEF Item

\* A new item is written whole.
LEMMA AckInsertInv ==
    ASSUME IInv, SqliteLedgerAssumption, NEW t \in Threads, AckInsert(t)
    PROVE  IInv' /\ Extends(disk, disk')
<1> DEFINE p == ProcessOf[t]
           item == Item(t)
           row == RowOf(item)
           db == WriteItem(View(p), item)
<1>1. /\ p \in Processes
      /\ call[t] \in Call
      /\ call[t].pc = "ack"
      /\ CanWrite(p)
      /\ Write(p, db)
      /\ ~Conflict(View(p), item)
      /\ UNCHANGED <<disk, lock, acked, faults>>
  BY DEF SqliteLedgerAssumption, IInv, TypeOK, AckInsert, NewItem, AtItem
<1>2. item \in BatchWriteItem
  BY ItemType DEF AckInsert, NewItem
<1>3. View(p) \in Db /\ Consistent(View(p))
  BY <1>1, ViewFacts
<1> HIDE DEF item
<1>4. /\ db \in Db
      /\ Extends(View(p), db)
      /\ Consistent(db)
      /\ db.idempotency = View(p).idempotency \cup {row}
      /\ row \in IdempotencyRow
  BY <1>1, <1>2, <1>3, WriteItemFacts
<1> HIDE DEF db, row
<1>5. call' = [call EXCEPT ![t] = [call[t] EXCEPT !.next = @ + 1,
                                                  !.existing = @ \cup {row},
                                                  !.replies = @ \cup {row}]]
  BY DEF AckInsert, row, item, IInv, TypeOK
<1>6. /\ call'[t] = [call[t] EXCEPT !.next = @ + 1,
                                    !.existing = @ \cup {row},
                                    !.replies = @ \cup {row}]
      /\ call' = [call EXCEPT ![t] = call'[t]]
  BY <1>5 DEF IInv, TypeOK
<1>7. /\ call'[t] \in Call
      /\ call'[t].pc = "ack"
      /\ call'[t].existing = call[t].existing \cup {row}
      /\ call'[t].replies = call[t].replies \cup {row}
  <2>1. /\ call[t].next + 1 \in Nat \ {0}
        /\ call[t].existing \cup {row} \in SUBSET IdempotencyRow
        /\ call[t].replies \cup {row} \in SUBSET IdempotencyRow
    BY <1>1, <1>4 DEF Call
  <2> QED
    BY <1>1, <1>6, <2>1 DEF Call
<1>8. call[t].existing \cup call[t].replies \subseteq View(p).idempotency
  BY <1>1 DEF IInv, LocalsAreSeen
<1> QED
  BY <1>1, <1>4, <1>6, <1>7, <1>8, WriteStep

\* Recovery sets the flag of a row the ledger already holds.
LEMMA RecoverFlagInv ==
    ASSUME IInv, SqliteLedgerAssumption, NEW t \in Threads, RecoverFlag(t)
    PROVE  IInv' /\ Extends(disk, disk')
<1> DEFINE p == ProcessOf[t]
<1>1. /\ p \in Processes
      /\ call[t] \in Call
      /\ call[t].pc = "recover"
      /\ CanWrite(p)
      /\ UNCHANGED <<disk, lock, acked, faults>>
  BY DEF SqliteLedgerAssumption, IInv, TypeOK, RecoverFlag
<1>2. PICK id \in call[t].pending :
          /\ InLedger(t, id)
          /\ Write(p, FlagRow(View(p), id))
          /\ call' = [call EXCEPT ![t].pending = @ \ {id}]
  BY DEF RecoverFlag
<1> DEFINE db == FlagRow(View(p), id)
<1>3. View(p) \in Db /\ Consistent(View(p))
  BY <1>1, ViewFacts
<1>4. call[t].pending \subseteq DOMAIN View(p).wal_staging
  BY <1>1 DEF IInv, LocalsAreSeen
<1>5. View(p).wal_staging[id].event_id \in EventsOf(View(p).ledger)
  BY <1>2 DEF InLedger
<1>6. db \in Db /\ Extends(View(p), db) /\ Consistent(db)
  BY <1>3, <1>4, <1>5, FlagRowFacts
<1>7. Write(p, db)
  BY <1>2
<1> HIDE DEF db
<1>8. DOMAIN View(p).wal_staging \subseteq DOMAIN db.wal_staging
  BY <1>3, <1>6 DEF Extends, Db
<1>9. /\ call'[t] = [call[t] EXCEPT !.pending = @ \ {id}]
      /\ call' = [call EXCEPT ![t] = call'[t]]
  BY <1>2 DEF IInv, TypeOK
<1>10. /\ call'[t] \in Call
       /\ call'[t].pc = "recover"
       /\ call'[t].pending \subseteq call[t].pending
  BY <1>1, <1>9 DEF Call
<1> QED
  BY <1>1, <1>4, <1>6, <1>7, <1>8, <1>9, <1>10, WriteStep

\* Recovery appends a staged row whose event the ledger does not hold.
LEMMA RecoverAppendInv ==
    ASSUME IInv, SqliteLedgerAssumption, NEW t \in Threads, RecoverAppend(t)
    PROVE  IInv' /\ Extends(disk, disk')
<1> DEFINE p == ProcessOf[t]
           prev == call[t].prev
<1>1. /\ p \in Processes
      /\ call[t] \in Call
      /\ call[t].pc = "append"
      /\ CanWrite(p)
      /\ UNCHANGED <<disk, lock, acked, faults>>
  BY DEF SqliteLedgerAssumption, IInv, TypeOK, RecoverAppend
<1>2. PICK id \in call[t].pending :
          /\ ~InLedger(t, id)
          /\ Write(p, PromoteRow(View(p), id, prev))
          /\ call' = [call EXCEPT ![t].pc = "recover", ![t].pending = @ \ {id}]
  BY DEF RecoverAppend
<1> DEFINE db == PromoteRow(View(p), id, prev)
<1>3. View(p) \in Db /\ Consistent(View(p)) /\ prev \in Digest
  BY <1>1, ViewFacts DEF Call
<1>4. call[t].pending \subseteq DOMAIN View(p).wal_staging
  BY <1>1 DEF IInv, LocalsAreSeen
<1>5. View(p).wal_staging[id].event_id \notin EventsOf(View(p).ledger)
  BY <1>2 DEF InLedger
<1>6. db \in Db /\ Extends(View(p), db) /\ Consistent(db)
  BY <1>3, <1>4, <1>5, PromoteRowFacts
<1>7. Write(p, db)
  BY <1>2
<1> HIDE DEF db
<1>8. DOMAIN View(p).wal_staging \subseteq DOMAIN db.wal_staging
  BY <1>3, <1>6 DEF Extends, Db
<1>9. /\ call'[t] = [call[t] EXCEPT !.pc = "recover", !.pending = @ \ {id}]
      /\ call' = [call EXCEPT ![t] = call'[t]]
  BY <1>2 DEF IInv, TypeOK
<1>10. /\ call'[t] \in Call
       /\ call'[t].pc = "recover"
       /\ call'[t].pending \subseteq call[t].pending
  BY <1>1, <1>9 DEF Call
<1> QED
  BY <1>1, <1>4, <1>6, <1>7, <1>8, <1>9, <1>10, WriteStep

\* Committing makes the connection's tables durable; when they differ from the
\* disk this process is the writer, so no other transaction misses the change.
LEMMA CommitFacts ==
    ASSUME IInv, NEW p \in Processes, Commit(p)
    PROVE  /\ disk' \in Db
           /\ Consistent(disk')
           /\ Extends(disk, disk')
           /\ conn' \in [Processes -> [open : BOOLEAN, db : Db]]
           /\ ~conn'[p].open
           /\ \A q \in Processes \ {p} : conn'[q] = conn[q]
           /\ disk' # disk => CanWrite(p)
           /\ View(p)' = View(p)
<1>1. /\ disk' = View(p)
      /\ conn' = [conn EXCEPT ![p] = NoTransaction]
  BY DEF Commit
<1>2. NoTransaction \in [open : BOOLEAN, db : Db] /\ ~NoTransaction.open
  BY DEF NoTransaction, EmptyDb, Db
<1> HIDE DEF NoTransaction
<1>3. /\ conn' \in [Processes -> [open : BOOLEAN, db : Db]]
      /\ ~conn'[p].open
      /\ \A q \in Processes \ {p} : conn'[q] = conn[q]
  BY <1>1, <1>2 DEF IInv, TypeOK
<1>4. disk' # disk => CanWrite(p)
  BY <1>1 DEF View, CanWrite, IInv, OneWriter
<1>5. View(p)' = View(p)
  BY <1>1, <1>3 DEF View
<1> QED
  BY <1>1, <1>3, <1>4, <1>5, ViewFacts

LEMMA AckCommitInv ==
    ASSUME IInv, SqliteLedgerAssumption, NEW t \in Threads, AckCommit(t)
    PROVE  IInv' /\ Extends(disk, disk')
<1> DEFINE p == ProcessOf[t]
<1>1. /\ p \in Processes
      /\ call[t] \in Call
      /\ call[t].pc = "ack"
      /\ Commit(p)
      /\ UNCHANGED <<lock, acked, faults>>
      /\ call' = [call EXCEPT ![t].pc = "answer"]
  BY DEF SqliteLedgerAssumption, IInv, TypeOK, AckCommit
<1>2. /\ disk' \in Db
      /\ Consistent(disk')
      /\ Extends(disk, disk')
      /\ conn' \in [Processes -> [open : BOOLEAN, db : Db]]
      /\ ~conn'[p].open
      /\ \A q \in Processes \ {p} : conn'[q] = conn[q]
      /\ disk' # disk => CanWrite(p)
      /\ disk' = View(p)
  BY <1>1, CommitFacts DEF Commit
<1>3. lock[p] = t
  BY <1>1 DEF IInv, LockHeld
<1>4. /\ call' \in [Threads -> Call]
      /\ call'[t].pc = "answer"
      /\ call'[t].replies = call[t].replies
      /\ \A u \in Threads \ {t} : call'[u] = call[u]
  <2>1. [call[t] EXCEPT !.pc = "answer"] \in Call
    BY <1>1 DEF Call
  <2> QED
    BY <1>1, <2>1 DEF IInv, TypeOK, Call
<1>5. TypeOK'
  BY <1>1, <1>2, <1>4 DEF IInv, TypeOK
<1>6. call[t].replies \subseteq View(p).idempotency
  BY <1>1 DEF IInv, LocalsAreSeen
<1>7. acked' \subseteq disk'.idempotency
  BY <1>1, <1>2 DEF IInv, Extends
<1> QED
  BY <1>1, <1>2, <1>3, <1>4, <1>5, <1>6, <1>7, OwnStep

\* Leaving a method.
LEMMA ReturnFacts ==
    ASSUME IInv, SqliteLedgerAssumption, NEW t \in Threads, NEW p \in Processes,
           p = ProcessOf[t], Return(t)
    PROVE  /\ call' \in [Threads -> Call]
           /\ call'[t].pc = "idle"
           /\ \A u \in Threads \ {t} : call'[u] = call[u]
           /\ lock' \in [Processes -> Threads \cup {NoThread}]
           /\ lock'[p] = NoThread
           /\ \A q \in Processes \ {p} : lock'[q] = lock[q]
<1>1. /\ call' = [call EXCEPT ![t] = IdleCall]
      /\ lock' = [lock EXCEPT ![p] = NoThread]
  BY DEF Return
<1> QED
  BY <1>1, IdleCallFacts DEF IInv, TypeOK

LEMMA RecoverCommitInv ==
    ASSUME IInv, SqliteLedgerAssumption, NEW t \in Threads, RecoverCommit(t)
    PROVE  IInv' /\ Extends(disk, disk')
<1> DEFINE p == ProcessOf[t]
<1>1. /\ p \in Processes
      /\ call[t].pc = "recover"
      /\ Commit(p)
      /\ Return(t)
      /\ UNCHANGED <<acked, faults>>
  BY DEF SqliteLedgerAssumption, RecoverCommit
<1>2. /\ disk' \in Db
      /\ Consistent(disk')
      /\ Extends(disk, disk')
      /\ conn' \in [Processes -> [open : BOOLEAN, db : Db]]
      /\ ~conn'[p].open
      /\ \A q \in Processes \ {p} : conn'[q] = conn[q]
      /\ disk' # disk => CanWrite(p)
  BY <1>1, CommitFacts
<1>3. lock[p] = t
  BY <1>1 DEF IInv, LockHeld
<1>4. /\ call' \in [Threads -> Call]
      /\ call'[t].pc = "idle"
      /\ \A u \in Threads \ {t} : call'[u] = call[u]
      /\ lock' \in [Processes -> Threads \cup {NoThread}]
      /\ lock'[p] = NoThread
      /\ \A q \in Processes \ {p} : lock'[q] = lock[q]
  BY <1>1, ReturnFacts
<1>5. TypeOK'
  BY <1>1, <1>2, <1>4 DEF IInv, TypeOK
<1>6. acked' \subseteq disk'.idempotency
  BY <1>1, <1>2 DEF IInv, Extends
<1> QED
  BY <1>1, <1>2, <1>3, <1>4, <1>5, <1>6, OwnStep

\* Only replies for durable claims are given.
LEMMA AckAnswerInv ==
    ASSUME IInv, SqliteLedgerAssumption, NEW t \in Threads, AckAnswer(t)
    PROVE  IInv' /\ Extends(disk, disk')
<1> DEFINE p == ProcessOf[t]
<1>1. /\ p \in Processes
      /\ call[t] \in Call
      /\ call[t].pc = "answer"
      /\ Return(t)
      /\ acked' = acked \cup call[t].replies
      /\ UNCHANGED <<disk, conn, faults>>
  BY DEF SqliteLedgerAssumption, IInv, TypeOK, AckAnswer
<1>2. lock[p] = t
  BY <1>1 DEF IInv, LockHeld
<1>3. ~conn[p].open
  BY <1>1, <1>2 DEF IInv, WriterHoldsLock
<1>4. /\ call' \in [Threads -> Call]
      /\ call'[t].pc = "idle"
      /\ \A u \in Threads \ {t} : call'[u] = call[u]
      /\ lock' \in [Processes -> Threads \cup {NoThread}]
      /\ lock'[p] = NoThread
      /\ \A q \in Processes \ {p} : lock'[q] = lock[q]
  BY <1>1, ReturnFacts
<1>5. acked' \subseteq disk'.idempotency
  BY <1>1 DEF IInv, LocalsAreSeen
<1>6. TypeOK'
  BY <1>1, <1>4 DEF IInv, TypeOK, Call
<1>7. Extends(disk, disk') /\ Consistent(disk')
  BY <1>1, ExtendsRefl DEF IInv, TypeOK
<1> QED
  BY <1>1, <1>2, <1>3, <1>4, <1>5, <1>6, <1>7, OwnStep

\* An exception rolls the transaction back: the disk is what it was.
LEMMA RollbackInv ==
    ASSUME IInv, SqliteLedgerAssumption, NEW t \in Threads,
           call[t].pc \in {"ack", "recover", "append"},
           Rollback(t), faults' \in Nat
    PROVE  IInv' /\ Extends(disk, disk')
<1> DEFINE p == ProcessOf[t]
<1>1. /\ p \in Processes
      /\ Return(t)
      /\ conn' = [conn EXCEPT ![p] = NoTransaction]
      /\ UNCHANGED <<disk, acked>>
  BY DEF SqliteLedgerAssumption, Rollback
<1>2. lock[p] = t
  BY DEF IInv, LockHeld
<1>3. NoTransaction \in [open : BOOLEAN, db : Db] /\ ~NoTransaction.open
  BY DEF NoTransaction, EmptyDb, Db
<1> HIDE DEF NoTransaction
<1>4. /\ conn' \in [Processes -> [open : BOOLEAN, db : Db]]
      /\ ~conn'[p].open
      /\ \A q \in Processes \ {p} : conn'[q] = conn[q]
  BY <1>1, <1>3 DEF IInv, TypeOK
<1>5. /\ call' \in [Threads -> Call]
      /\ call'[t].pc = "idle"
      /\ \A u \in Threads \ {t} : call'[u] = call[u]
      /\ lock' \in [Processes -> Threads \cup {NoThread}]
      /\ lock'[p] = NoThread
      /\ \A q \in Processes \ {p} : lock'[q] = lock[q]
  BY <1>1, ReturnFacts
<1>6. TypeOK'
  BY <1>1, <1>4, <1>5 DEF IInv, TypeOK
<1>7. Extends(disk, disk') /\ Consistent(disk') /\ acked' \subseteq disk'.idempotency
  BY <1>1, ExtendsRefl DEF IInv, TypeOK
<1> QED
  BY <1>1, <1>2, <1>4, <1>5, <1>6, <1>7, OwnStep

LEMMA FailureInv ==
    ASSUME IInv, SqliteLedgerAssumption, NEW t \in Threads,
           ConstraintFails(t) \/ BusyTimeout(t) \/ StatementFails(t)
    PROVE  IInv' /\ Extends(disk, disk')
<1>1. Rollback(t) /\ call[t].pc \in {"ack", "recover", "append"}
  BY DEF ConstraintFails, BusyTimeout, StatementFails, NewItem, AtItem
<1>2. faults' \in Nat
  BY DEF ConstraintFails, BusyTimeout, StatementFails, IInv, TypeOK
<1> QED
  BY <1>1, <1>2, RollbackInv

\* A crash of one process forgets its transactions and callers, nothing else.
LEMMA CrashInv ==
    ASSUME IInv, SqliteLedgerAssumption, NEW p \in Processes, Crash(p)
    PROVE  IInv' /\ Extends(disk, disk')
<1>1. NoTransaction \in [open : BOOLEAN, db : Db] /\ ~NoTransaction.open
  BY DEF NoTransaction, EmptyDb, Db
<1>2. /\ conn' = [conn EXCEPT ![p] = NoTransaction]
      /\ lock' = [lock EXCEPT ![p] = NoThread]
      /\ call' = [t \in Threads |-> IF ProcessOf[t] = p THEN IdleCall ELSE call[t]]
      /\ faults' = faults + 1
      /\ UNCHANGED <<disk, acked>>
  BY DEF Crash
<1> HIDE DEF NoTransaction
<1>3. /\ conn' \in [Processes -> [open : BOOLEAN, db : Db]]
      /\ ~conn'[p].open
      /\ \A q \in Processes \ {p} : conn'[q] = conn[q] /\ lock'[q] = lock[q]
  BY <1>1, <1>2 DEF IInv, TypeOK
<1>4. \A t \in Threads : /\ ProcessOf[t] = p => call'[t].pc = "idle"
                         /\ ProcessOf[t] # p => call'[t] = call[t]
  BY <1>2, IdleCallFacts
<1>5. TypeOK'
  BY <1>2, <1>3, IdleCallFacts DEF IInv, TypeOK
<1>6. OneWriter'
  BY <1>3 DEF IInv, OneWriter
<1>7. LockHeld'
  BY <1>3, <1>4 DEF IInv, LockHeld, SqliteLedgerAssumption
<1>8. WriterHoldsLock'
  BY <1>3, <1>4 DEF IInv, WriterHoldsLock
<1>9. WriterExtendsDisk'
  BY <1>2, <1>3 DEF IInv, WriterExtendsDisk
<1>10. LocalsAreSeen'
  <2> SUFFICES ASSUME NEW t \in Threads, ProcessOf[t] # p
               PROVE  /\ call'[t] = call[t]
                      /\ View(ProcessOf[t])' = View(ProcessOf[t])
    BY <1>2, <1>4 DEF IInv, LocalsAreSeen
  <2> QED
    BY <1>2, <1>3, <1>4 DEF View, SqliteLedgerAssumption
<1>11. Extends(disk, disk')
  BY <1>2, ExtendsRefl DEF IInv, TypeOK
<1> QED
  BY <1>2, <1>5, <1>6, <1>7, <1>8, <1>9, <1>10, <1>11 DEF IInv

\* Every step keeps the invariant and loses nothing durable.
LEMMA StepInv ==
    ASSUME SqliteLedgerAssumption, IInv, [Next]_vars
    PROVE  IInv' /\ Extends(disk, disk')
<1>1. ASSUME NEW t \in Threads, NEW s \in Stagings, Stage(t, s)
      PROVE  IInv' /\ Extends(disk, disk')
  BY <1>1, StageInv
<1>2. ASSUME NEW t \in Threads, NEW batch \in Batches, AckBegin(t, batch)
      PROVE  IInv' /\ Extends(disk, disk')
  BY <1>2, AckBeginInv
<1>3. ASSUME NEW t \in Threads, RecoverBegin(t)
      PROVE  IInv' /\ Extends(disk, disk')
  BY <1>3, RecoverBeginInv
<1>4. ASSUME NEW t \in Threads, Proceed(t)
      PROVE  IInv' /\ Extends(disk, disk')
  BY <1>4, AckDuplicateInv, AckInsertInv, AckCommitInv, AckAnswerInv, RecoverFlagInv,
     RecoverReadInv, RecoverAppendInv, RecoverCommitInv, FailureInv DEF Proceed
<1>5. ASSUME NEW t \in Threads, StatementFails(t)
      PROVE  IInv' /\ Extends(disk, disk')
  BY <1>5, FailureInv
<1>6. ASSUME NEW p \in Processes, Crash(p)
      PROVE  IInv' /\ Extends(disk, disk')
  BY <1>6, CrashInv
<1>7. CASE UNCHANGED vars
  BY <1>7, ExtendsRefl
     DEF vars, IInv, TypeOK, OneWriter, LockHeld, WriterHoldsLock, WriterExtendsDisk,
         LocalsAreSeen, View
<1> QED
  BY <1>1, <1>2, <1>3, <1>4, <1>5, <1>6, <1>7 DEF Next, ThreadStep

-----------------------------------------------------------------------------
(* The theorems. *)

\* The inductive invariant holds of every behaviour, with any number of
\* processes sharing the file.
THEOREM Invariant == Spec => []IInv
<1>1. Init => IInv
  BY InitInv, SqliteLedgerAssumption
<1>2. IInv /\ [Next]_vars => IInv'
  BY StepInv, SqliteLedgerAssumption
<1> QED
  BY <1>1, <1>2, PTL DEF Spec

\* The tables, connections, locks and locals keep their types.
THEOREM TypeCorrect == Spec => []TypeOK
<1>1. IInv => TypeOK
  BY DEF IInv
<1> QED
  BY <1>1, Invariant, PTL

\* crash-semantics.md 3: no acknowledged write is ever lost.
THEOREM AckedNeverLost == Spec => []AckedDurable
<1>1. IInv => AckedDurable
  BY DEF IInv, AckedDurable, Consistent, KeysAreLedgered
<1> QED
  BY <1>1, Invariant, PTL

\* crash-semantics.md 1, 2 and 3: keys, events, entries, flags and promoted
\* payloads agree in every durable state.
THEOREM TablesAlwaysAgree == Spec => []TablesAgree
<1>1. IInv => TablesAgree
  BY DEF IInv, TablesAgree
<1> QED
  BY <1>1, Invariant, PTL

\* The ledger, the claims and the flags are append-only, whatever crashes.
THEOREM AppendOnly == Spec => HistoryOnlyGrows
<1>1. IInv /\ [Next]_vars => [Extends(disk, disk')]_vars
  BY StepInv, SqliteLedgerAssumption
<1> QED
  BY <1>1, Invariant, PTL DEF Spec, HistoryOnlyGrows

-----------------------------------------------------------------------------
(* While a single process has the file open, the hash chain verifies in every
   durable state and inside every transaction: the lock keeps the head that
   recovery reads before its transaction opens the head until the INSERT.  With two
   processes this fails (the SqliteChainFork run). *)

SingleProcess == \A p, q \in Processes : p = q

\* The tables a connection reads have a ledger that verifies.
LEMMA ViewVerifies ==
    ASSUME ChainInv, NEW p \in Processes
    PROVE  verify_integrity(View(p).ledger)
BY DEF ChainInv, View

\* One thread's step keeps the chain if what it leaves on disk, in its
\* transaction and in prev does: all other threads are outside the methods.
LEMMA ChainStep ==
    ASSUME IInv, SqliteLedgerAssumption, SingleProcess,
           NEW t \in Threads, NEW p \in Processes, p = ProcessOf[t],
           lock[p] \in {t, NoThread},
           \A u \in Threads \ {t} : call'[u] = call[u],
           verify_integrity(disk'.ledger),
           conn'[p].open => verify_integrity(conn'[p].db.ledger),
           call'[t].pc = "append" => call'[t].prev = last_hash(View(p)'.ledger)
    PROVE  ChainInv'
<1>1. \A q \in Processes : q = p
  BY DEF SingleProcess
<1>2. ASSUME NEW u \in Threads \ {t}
      PROVE  call'[u].pc = "idle"
  <2>1. ProcessOf[u] = p
    BY <1>1 DEF SqliteLedgerAssumption
  <2> QED
    BY <2>1, OthersIdle
<1>3. \A q \in Processes : conn'[q].open => verify_integrity(conn'[q].db.ledger)
  BY <1>1
<1>4. ASSUME NEW u \in Threads, call'[u].pc = "append"
      PROVE  call'[u].prev = last_hash(View(ProcessOf[u])'.ledger)
  <2>1. u = t
    BY <1>2, <1>4
  <2> QED
    BY <1>4, <2>1
<1> QED
  BY <1>3, <1>4 DEF ChainInv

\* A step that leaves every ledger as it is and puts no thread at an INSERT of
\* recovery keeps the chain.
LEMMA QuietStep ==
    ASSUME IInv, ChainInv, SqliteLedgerAssumption, SingleProcess,
           NEW t \in Threads, NEW p \in Processes, p = ProcessOf[t],
           lock[p] \in {t, NoThread},
           \A u \in Threads \ {t} : call'[u] = call[u],
           disk'.ledger = disk.ledger,
           conn'[p].open => View(p)'.ledger = View(p).ledger,
           call'[t].pc # "append"
    PROVE  ChainInv'
<1>1. conn'[p].open => verify_integrity(conn'[p].db.ledger)
  BY ViewVerifies DEF View
<1>2. verify_integrity(disk'.ledger)
  BY DEF ChainInv
<1> QED
  BY <1>1, <1>2, ChainStep

LEMMA StageChain ==
    ASSUME IInv, ChainInv, SqliteLedgerAssumption, SingleProcess,
           NEW t \in Threads, NEW s \in Stagings, Stage(t, s)
    PROVE  ChainInv'
<1>1. ProcessOf[t] \in Processes
  BY DEF SqliteLedgerAssumption
<1>2. disk'.ledger = disk.ledger
  BY DEF Stage, StageRow, IInv, TypeOK, Db
<1>3. ~conn'[ProcessOf[t]].open
  BY <1>1, FreeLockNoTransaction DEF Stage
<1> QED
  BY <1>1, <1>2, <1>3, QuietStep DEF Stage

\* Entering a method: no transaction is open and nothing is written.
LEMMA BeginChain ==
    ASSUME IInv, ChainInv, SqliteLedgerAssumption, SingleProcess, NEW t \in Threads,
           RecoverBegin(t) \/ \E batch \in Batches : AckBegin(t, batch)
    PROVE  ChainInv'
<1> DEFINE p == ProcessOf[t]
<1>1. p \in Processes
  BY DEF SqliteLedgerAssumption
<1>2. lock[p] = NoThread /\ UNCHANGED <<disk, conn>>
  BY DEF RecoverBegin, AckBegin, Acquire
<1>3. /\ call'[t].pc \in {"ack", "recover"}
      /\ \A u \in Threads \ {t} : call'[u] = call[u]
  <2>1. CASE RecoverBegin(t)
    BY <2>1 DEF RecoverBegin, IdleCall, IInv, TypeOK
  <2>2. ASSUME NEW batch \in Batches, AckBegin(t, batch)
        PROVE  /\ call'[t].pc = "ack"
               /\ \A u \in Threads \ {t} : call'[u] = call[u]
    BY <2>2 DEF AckBegin, IdleCall, IInv, TypeOK
  <2> QED
    BY <2>1, <2>2
<1> QED
  BY <1>1, <1>2, <1>3, FreeLockNoTransaction, QuietStep

\* A thread inside a method holds the lock of its process.
LEMMA Inside ==
    ASSUME IInv, SqliteLedgerAssumption, NEW t \in Threads, call[t].pc # "idle"
    PROVE  ProcessOf[t] \in Processes /\ lock[ProcessOf[t]] = t
BY DEF IInv, LockHeld, SqliteLedgerAssumption

LEMMA AckDuplicateChain ==
    ASSUME IInv, ChainInv, SqliteLedgerAssumption, SingleProcess, NEW t \in Threads,
           AckDuplicate(t)
    PROVE  ChainInv'
<1>1. call[t].pc = "ack" /\ call[t] \in Call /\ UNCHANGED <<disk, conn>>
  BY DEF AckDuplicate, AtItem, IInv, TypeOK
<1>2. /\ call'[t].pc = call[t].pc
      /\ \A u \in Threads \ {t} : call'[u] = call[u]
  BY <1>1 DEF AckDuplicate, IInv, TypeOK, Call
<1> QED
  BY <1>1, <1>2, Inside, QuietStep DEF View

\* A batch item is chained to the head its own transaction reads.
LEMMA AckInsertChain ==
    ASSUME IInv, ChainInv, SqliteLedgerAssumption, SingleProcess, NEW t \in Threads,
           AckInsert(t)
    PROVE  ChainInv'
<1> DEFINE p == ProcessOf[t]
           db == WriteItem(View(p), Item(t))
<1>1. /\ call[t].pc = "ack"
      /\ call[t] \in Call
      /\ UNCHANGED disk
      /\ Write(p, db)
  BY DEF AckInsert, NewItem, AtItem, IInv, TypeOK
<1>2. /\ call'[t].pc = call[t].pc
      /\ \A u \in Threads \ {t} : call'[u] = call[u]
  BY <1>1 DEF AckInsert, IInv, TypeOK, Call
<1>3. p \in Processes /\ lock[p] = t
  BY <1>1, Inside
<1>4. View(p) \in Db /\ Item(t) \in BatchWriteItem
  BY <1>3, ViewFacts, ItemType DEF AckInsert, NewItem
<1>5. verify_integrity(db.ledger)
  <2>1. /\ View(p).ledger \in Seq(LedgerEntry)
        /\ Item(t).event_id \in EventId
        /\ Item(t).payload \in Payload
    BY <1>4 DEF Db, BatchWriteItem
  <2>2. db.ledger = Append(View(p).ledger, NewEntry(last_hash(View(p).ledger),
                                                    Item(t).event_id, Item(t).payload))
    BY <1>4, WriteItemFacts
  <2> QED
    BY <1>3, <2>1, <2>2, ViewVerifies, AppendKeepsIntegrity
<1> HIDE DEF db
<1>6. conn'[p].db = db
  BY <1>1, <1>3 DEF Write, IInv, TypeOK
<1>7. verify_integrity(disk'.ledger)
  BY <1>1 DEF ChainInv
<1> QED
  BY <1>1, <1>2, <1>3, <1>5, <1>6, <1>7, ChainStep

\* Committing makes durable a ledger that verifies.
LEMMA CommitChain ==
    ASSUME IInv, ChainInv, SqliteLedgerAssumption, SingleProcess, NEW t \in Threads,
           AckCommit(t) \/ RecoverCommit(t)
    PROVE  ChainInv'
<1> DEFINE p == ProcessOf[t]
<1>1. call[t].pc \in {"ack", "recover"} /\ Commit(p)
  BY DEF AckCommit, RecoverCommit
<1>2. p \in Processes /\ lock[p] = t
  BY <1>1, Inside
<1>3. /\ call'[t].pc \in {"answer", "idle"}
      /\ \A u \in Threads \ {t} : call'[u] = call[u]
  BY DEF AckCommit, RecoverCommit, Return, IdleCall, IInv, TypeOK, Call
<1>4. ~conn'[p].open
  BY <1>1, <1>2, CommitFacts
<1>5. verify_integrity(disk'.ledger)
  BY <1>1, <1>2, ViewVerifies DEF Commit
<1> QED
  BY <1>2, <1>3, <1>4, <1>5, ChainStep

LEMMA RecoverFlagChain ==
    ASSUME IInv, ChainInv, SqliteLedgerAssumption, SingleProcess, NEW t \in Threads,
           RecoverFlag(t)
    PROVE  ChainInv'
<1> DEFINE p == ProcessOf[t]
<1>1. call[t].pc = "recover" /\ call[t] \in Call /\ UNCHANGED disk
  BY DEF RecoverFlag, IInv, TypeOK
<1>2. p \in Processes /\ lock[p] = t
  BY <1>1, Inside
<1>3. PICK id \in call[t].pending :
          /\ Write(p, FlagRow(View(p), id))
          /\ call' = [call EXCEPT ![t].pending = @ \ {id}]
  BY DEF RecoverFlag
<1>4. /\ call'[t].pc = "recover"
      /\ \A u \in Threads \ {t} : call'[u] = call[u]
  BY <1>1, <1>3 DEF IInv, TypeOK, Call
<1>5. id \in DOMAIN View(p).wal_staging
  BY <1>1 DEF IInv, LocalsAreSeen
<1>6. FlagRow(View(p), id).ledger = View(p).ledger
  BY <1>2, <1>5, ViewFacts, FlagRowFacts
<1>7. conn'[p].db = FlagRow(View(p), id)
  BY <1>2, <1>3 DEF Write, IInv, TypeOK
<1>8. conn'[p].open => View(p)'.ledger = View(p).ledger
  BY <1>6, <1>7 DEF View
<1> QED
  BY <1>1, <1>2, <1>4, <1>8, QuietStep

\* prev is the head at the moment it is read.
LEMMA RecoverReadChain ==
    ASSUME IInv, ChainInv, SqliteLedgerAssumption, SingleProcess, NEW t \in Threads,
           RecoverRead(t)
    PROVE  ChainInv'
<1> DEFINE p == ProcessOf[t]
<1>1. call[t].pc = "recover" /\ call[t] \in Call /\ UNCHANGED <<disk, conn>>
  BY DEF RecoverRead, IInv, TypeOK
<1>2. p \in Processes /\ lock[p] = t
  BY <1>1, Inside
<1>3. /\ call'[t].prev = last_hash(View(p).ledger)
      /\ \A u \in Threads \ {t} : call'[u] = call[u]
  BY <1>1 DEF RecoverRead, IInv, TypeOK, Call
<1>4. View(p)' = View(p)
  BY <1>1 DEF View
<1>5. /\ verify_integrity(disk'.ledger)
      /\ conn'[p].open => verify_integrity(conn'[p].db.ledger)
  BY <1>1, <1>2 DEF ChainInv
<1> QED
  BY <1>2, <1>3, <1>4, <1>5, ChainStep

\* prev is still the head at the INSERT: nobody wrote in between.
LEMMA RecoverAppendChain ==
    ASSUME IInv, ChainInv, SqliteLedgerAssumption, SingleProcess, NEW t \in Threads,
           RecoverAppend(t)
    PROVE  ChainInv'
<1> DEFINE p == ProcessOf[t]
           prev == call[t].prev
<1>1. call[t].pc = "append" /\ call[t] \in Call /\ UNCHANGED disk
  BY DEF RecoverAppend, IInv, TypeOK
<1>2. p \in Processes /\ lock[p] = t
  BY <1>1, Inside
<1>3. prev = last_hash(View(p).ledger) /\ prev \in Digest
  BY <1>1 DEF ChainInv, Call
<1>4. PICK id \in call[t].pending :
          /\ Write(p, PromoteRow(View(p), id, prev))
          /\ call' = [call EXCEPT ![t].pc = "recover", ![t].pending = @ \ {id}]
  BY DEF RecoverAppend
<1>5. /\ call'[t].pc = "recover"
      /\ \A u \in Threads \ {t} : call'[u] = call[u]
  BY <1>1, <1>4 DEF IInv, TypeOK, Call
<1>6. id \in DOMAIN View(p).wal_staging /\ View(p) \in Db
  BY <1>1, <1>2, ViewFacts DEF IInv, LocalsAreSeen
<1> DEFINE db == PromoteRow(View(p), id, prev)
           row == View(p).wal_staging[id]
<1>7. verify_integrity(db.ledger)
  <2>1. View(p).ledger \in Seq(LedgerEntry) /\ View(p).wal_staging \in Seq(WalRow)
    BY <1>6 DEF Db
  <2>2. row \in WalRow
    BY <1>6, <2>1
  <2>3. row.event_id \in EventId /\ row.payload \in Payload
    BY <2>2 DEF WalRow
  <2>4. db.ledger = Append(View(p).ledger, NewEntry(prev, row.event_id, row.payload))
    BY <1>3, <1>6, PromoteRowFacts
  <2> QED
    BY <1>2, <1>3, <2>1, <2>3, <2>4, ViewVerifies, AppendKeepsIntegrity
<1>8. conn'[p].db = db
  BY <1>2, <1>4 DEF Write, IInv, TypeOK
<1> HIDE DEF db
<1>9. verify_integrity(disk'.ledger)
  BY <1>1 DEF ChainInv
<1> QED
  BY <1>2, <1>5, <1>7, <1>8, <1>9, ChainStep

\* Answering, rolling back: the disk is unchanged and no transaction is left.
LEMMA LeaveChain ==
    ASSUME IInv, ChainInv, SqliteLedgerAssumption, SingleProcess, NEW t \in Threads,
           \/ AckAnswer(t)
           \/ ConstraintFails(t) \/ BusyTimeout(t) \/ StatementFails(t)
    PROVE  ChainInv'
<1> DEFINE p == ProcessOf[t]
<1>1. call[t].pc # "idle" /\ Return(t) /\ UNCHANGED disk
  BY DEF AckAnswer, ConstraintFails, BusyTimeout, StatementFails, NewItem, AtItem, Rollback
<1>2. p \in Processes /\ lock[p] = t
  BY <1>1, Inside
<1>3. /\ call'[t].pc = "idle"
      /\ \A u \in Threads \ {t} : call'[u] = call[u]
  BY <1>1, <1>2, ReturnFacts
<1>4. conn'[p].open => UNCHANGED conn
  BY <1>2 DEF AckAnswer, ConstraintFails, BusyTimeout, StatementFails, Rollback,
              NoTransaction, IInv, TypeOK
<1>5. conn'[p].open => View(p)'.ledger = View(p).ledger
  BY <1>1, <1>4 DEF View
<1> QED
  BY <1>1, <1>2, <1>3, <1>5, QuietStep

LEMMA CrashChain ==
    ASSUME IInv, ChainInv, SqliteLedgerAssumption, SingleProcess,
           NEW p \in Processes, Crash(p)
    PROVE  ChainInv'
<1>1. \A q \in Processes : q = p
  BY DEF SingleProcess
<1>2. ~conn'[p].open /\ UNCHANGED disk
  BY DEF Crash, NoTransaction, IInv, TypeOK
<1>3. \A t \in Threads : call'[t].pc = "idle"
  BY <1>1 DEF Crash, IdleCall, SqliteLedgerAssumption
<1> QED
  BY <1>1, <1>2, <1>3 DEF ChainInv

\* What every step of one process preserves.
LEMMA ChainInvariant ==
    ASSUME SingleProcess
    PROVE  Spec => []ChainInv
<1>1. Init => ChainInv
  BY DEF Init, ChainInv, EmptyDb, NoTransaction, IdleCall, verify_integrity
<1>2. IInv /\ ChainInv /\ [Next]_vars => ChainInv'
  <2> SUFFICES ASSUME IInv, ChainInv, [Next]_vars
               PROVE  ChainInv'
    OBVIOUS
  <2> USE SqliteLedgerAssumption
  <2>1. ASSUME NEW t \in Threads, NEW s \in Stagings, Stage(t, s)
        PROVE  ChainInv'
    BY <2>1, StageChain
  <2>2. ASSUME NEW t \in Threads,
               RecoverBegin(t) \/ \E batch \in Batches : AckBegin(t, batch)
        PROVE  ChainInv'
    BY <2>2, BeginChain
  <2>3. ASSUME NEW t \in Threads, Proceed(t)
        PROVE  ChainInv'
    BY <2>3, AckDuplicateChain, AckInsertChain, CommitChain, LeaveChain, RecoverFlagChain,
       RecoverReadChain, RecoverAppendChain DEF Proceed
  <2>4. ASSUME NEW t \in Threads, StatementFails(t)
        PROVE  ChainInv'
    BY <2>4, LeaveChain
  <2>5. ASSUME NEW p \in Processes, Crash(p)
        PROVE  ChainInv'
    BY <2>5, CrashChain
  <2>6. CASE UNCHANGED vars
    BY <2>6 DEF vars, ChainInv, View
  <2> QED
    BY <2>1, <2>2, <2>3, <2>4, <2>5, <2>6 DEF Next, ThreadStep
<1> QED
  BY <1>1, <1>2, Invariant, PTL DEF Spec

\* crash-semantics.md 4, for one process: verify_integrity holds at every moment,
\* after any crash, failed batch, reopening and recovery.
THEOREM ChainAlwaysIntact ==
    ASSUME SingleProcess
    PROVE  Spec => []ChainIntact
<1>1. ChainInv => ChainIntact
  BY DEF ChainInv, ChainIntact
<1> QED
  BY <1>1, ChainInvariant, PTL

-----------------------------------------------------------------------------
(* verify_integrity without the lock: unless a transaction is rolled back, the
   ledger a connection sees only grows, so what a scan has fetched stays a
   beginning of it. *)

\* A write adds to what its connection sees.
LEMMA WriteGrows ==
    ASSUME IInv, SqliteLedgerAssumption, NEW t \in Threads,
           AckInsert(t) \/ RecoverFlag(t) \/ RecoverAppend(t)
    PROVE  Extends(View(ProcessOf[t]), conn'[ProcessOf[t]].db)
<1> DEFINE p == ProcessOf[t]
<1>1. p \in Processes /\ call[t] \in Call
  BY DEF SqliteLedgerAssumption, IInv, TypeOK
<1>2. View(p) \in Db
  BY <1>1, ViewFacts
<1>3. ASSUME NEW db, Write(p, db)
      PROVE  conn'[p].db = db
  BY <1>1, <1>3 DEF Write, IInv, TypeOK
<1>4. CASE AckInsert(t)
  <2>1. Item(t) \in BatchWriteItem
    BY <1>4, ItemType DEF AckInsert, NewItem
  <2>2. Write(p, WriteItem(View(p), Item(t)))
    BY <1>4 DEF AckInsert
  <2> QED
    BY <1>2, <1>3, <2>1, <2>2, WriteItemFacts
<1>5. CASE RecoverFlag(t)
  <2>1. PICK id \in call[t].pending : Write(p, FlagRow(View(p), id))
    BY <1>5 DEF RecoverFlag
  <2>2. id \in DOMAIN View(p).wal_staging
    BY <1>5 DEF RecoverFlag, IInv, LocalsAreSeen
  <2> QED
    BY <1>2, <1>3, <2>1, <2>2, FlagRowFacts
<1>6. CASE RecoverAppend(t)
  <2>1. PICK id \in call[t].pending : Write(p, PromoteRow(View(p), id, call[t].prev))
    BY <1>6 DEF RecoverAppend
  <2>2. id \in DOMAIN View(p).wal_staging /\ call[t].prev \in Digest
    BY <1>1, <1>6 DEF RecoverAppend, IInv, LocalsAreSeen, Call
  <2> QED
    BY <1>2, <1>3, <2>1, <2>2, PromoteRowFacts
<1> QED
  BY <1>4, <1>5, <1>6

\* What a thread's step does to its process's connection: it writes, it ends the
\* transaction or it leaves the connection as it is.
LEMMA ConnectionStep ==
    ASSUME IInv, SqliteLedgerAssumption, NEW t \in Threads, ThreadStep(t)
    PROVE  \/ AckInsert(t) \/ RecoverFlag(t) \/ RecoverAppend(t)
           \/ ~conn'[ProcessOf[t]].open
           \/ UNCHANGED conn
<1>1. ProcessOf[t] \in Processes
  BY DEF SqliteLedgerAssumption
<1>2. CASE AckCommit(t) \/ RecoverCommit(t)
  BY <1>1, <1>2, CommitFacts DEF AckCommit, RecoverCommit
<1>3. CASE ConstraintFails(t) \/ BusyTimeout(t) \/ StatementFails(t)
  BY <1>1, <1>3 DEF ConstraintFails, BusyTimeout, StatementFails, Rollback,
                    NoTransaction, IInv, TypeOK
<1>4. CASE \/ \E s \in Stagings : Stage(t, s)
           \/ \E batch \in Batches : AckBegin(t, batch)
           \/ RecoverBegin(t)
           \/ AckDuplicate(t) \/ AckAnswer(t) \/ RecoverRead(t)
  BY <1>4 DEF Stage, AckBegin, RecoverBegin, AckDuplicate, AckAnswer, RecoverRead
<1> QED
  BY <1>2, <1>3, <1>4 DEF ThreadStep, Proceed

\* Unless it rolls back, a step loses nothing that the connection saw.
LEMMA ViewGrows ==
    ASSUME IInv, IInv', SqliteLedgerAssumption, SingleProcess, Extends(disk, disk'),
           NEW t \in Threads, ThreadStep(t), NEW p \in Processes, ~RolledBack(p)
    PROVE  Extends(View(p), View(p)')
<1>1. p = ProcessOf[t]
  BY DEF SingleProcess, SqliteLedgerAssumption
<1>2. /\ disk \in Db /\ conn[p].db \in Db /\ conn[p].open \in BOOLEAN
      /\ disk' \in Db /\ conn'[p].db \in Db /\ conn'[p].open \in BOOLEAN
  BY DEF IInv, TypeOK
<1>3. View(p)' = IF conn'[p].open THEN conn'[p].db ELSE disk'
  BY DEF View
<1>4. CASE ~conn[p].open
  <2>1. View(p) = disk
    BY <1>4 DEF View
  <2>2. conn'[p].open => Extends(disk', conn'[p].db)
    BY DEF IInv, WriterExtendsDisk
  <2> QED
    BY <1>2, <1>3, <2>1, <2>2, ExtendsTrans
<1>5. CASE conn[p].open /\ ~conn'[p].open
  <2>1. View(p)' = View(p)
    BY <1>3, <1>5 DEF RolledBack, View
  <2> QED
    BY <1>2, <1>5, <2>1, ExtendsRefl DEF View
<1>6. CASE conn[p].open /\ conn'[p].open
  <2>1. CASE AckInsert(t) \/ RecoverFlag(t) \/ RecoverAppend(t)
    BY <1>1, <1>3, <1>6, <2>1, WriteGrows
  <2>2. CASE UNCHANGED conn
    BY <1>2, <1>3, <1>6, <2>2, ExtendsRefl DEF View
  <2> QED
    BY <1>1, <1>6, <2>1, <2>2, ConnectionStep
<1> QED
  BY <1>2, <1>4, <1>5, <1>6

\* A beginning of a ledger that verifies verifies.
LEMMA PrefixVerifies ==
    ASSUME NEW rows \in Seq(LedgerEntry), NEW ledger \in Seq(LedgerEntry),
           RowsArePrefix(rows, ledger), verify_integrity(ledger)
    PROVE  verify_integrity(rows)
<1>1. \A i \in 1..Len(rows) : i \in 1..Len(ledger) /\ rows[i] = ledger[i]
  BY DEF RowsArePrefix
<1>2. \A i \in 1..Len(rows) : i # 1 => rows[i - 1] = ledger[i - 1]
  BY <1>1
<1> QED
  BY <1>1, <1>2 DEF verify_integrity

LEMMA PrefixGrows ==
    ASSUME NEW rows \in Seq(LedgerEntry), NEW a \in Db, NEW b \in Db,
           RowsArePrefix(rows, a.ledger), Extends(a, b)
    PROVE  RowsArePrefix(rows, b.ledger)
<1>1. a.ledger \in Seq(LedgerEntry) /\ b.ledger \in Seq(LedgerEntry)
  BY DEF Db
<1> QED
  BY <1>1 DEF RowsArePrefix, Extends

\* The steps of the scan itself.
LEMMA ScanStep ==
    ASSUME IInv, ChainInv, ScanInv, NEW p \in Processes,
           ScanBegin(p) \/ ScanRow(p) \/ ScanAnswer(p)
    PROVE  ScanInv'
<1> DEFINE ledger == View(p).ledger
           rows == scan[p].rows
<1>1. /\ ledger \in Seq(LedgerEntry)
      /\ scan[p] \in Scan
      /\ rows \in Seq(LedgerEntry)
      /\ verify_integrity(ledger)
  BY ViewFacts, ViewVerifies DEF Db, ScanInv, Scan
<1>2. \A q \in Processes : View(q)' = View(q)
  BY DEF ScanBegin, ScanRow, ScanAnswer, vars, View
<1>3. SUFFICES /\ scan'[p] \in Scan
               /\ \A q \in Processes \ {p} : scan'[q] = scan[q]
               /\ scan' \in [Processes -> Scan]
               /\ Fetching(p)' /\ ~scan'[p].undone => RowsArePrefix(scan'[p].rows, ledger)
               /\ scan'[p].pc = "answered" /\ ~scan'[p].undone => verify_integrity(scan'[p].rows)
  BY <1>2 DEF ScanInv, Fetching, Answer
<1>4. CASE ScanBegin(p)
  <2> DEFINE new == [NoScan EXCEPT !.pc = "fetching"]
  <2>1. scan' = [scan EXCEPT ![p] = new]
    BY <1>4 DEF ScanBegin
  <2>2. new.pc = "fetching" /\ new.rows = << >> /\ ~new.undone /\ new \in Scan
    <3>1. << >> \in Seq(LedgerEntry)
      OBVIOUS
    <3>2. NoScan \in Scan /\ NoScan.rows = << >> /\ NoScan.undone = FALSE
      BY <3>1 DEF NoScan, Scan
    <3>3. new \in Scan
      BY <3>2 DEF Scan
    <3>4. new.pc = "fetching" /\ new.rows = NoScan.rows /\ new.undone = NoScan.undone
      BY <3>2 DEF Scan
    <3> QED
      BY <3>2, <3>3, <3>4
  <2> HIDE DEF new
  <2>3. RowsArePrefix(<< >>, ledger)
    BY <1>1 DEF RowsArePrefix
  <2> QED
    BY <2>1, <2>2, <2>3 DEF ScanInv
<1>5. CASE ScanRow(p)
  <2> DEFINE new == Append(rows, ledger[Len(rows) + 1])
  <2>1. /\ scan' = [scan EXCEPT ![p] = [scan[p] EXCEPT !.rows = new]]
        /\ Len(rows) < Len(ledger) /\ Fetching(p)
    BY <1>5 DEF ScanRow, ScanInv
  <2>2. ledger[Len(rows) + 1] \in LedgerEntry
    BY <1>1, <2>1
  <2>3. new \in Seq(LedgerEntry) /\ Len(new) = Len(rows) + 1
    BY <1>1, <2>2
  <2>4. RowsArePrefix(rows, ledger) => RowsArePrefix(new, ledger)
    BY <1>1, <2>1, <2>2 DEF RowsArePrefix
  <2> HIDE DEF new
  <2>5. scan'[p] = [scan[p] EXCEPT !.rows = new]
    BY <2>1 DEF ScanInv
  <2>6. /\ scan'[p] \in Scan /\ scan'[p].rows = new
        /\ scan'[p].pc = "fetching" /\ scan'[p].undone = scan[p].undone
    BY <1>1, <2>1, <2>3, <2>5 DEF Scan, Fetching
  <2> QED
    BY <2>1, <2>4, <2>6 DEF ScanInv
<1>6. CASE ScanAnswer(p)
  <2>1. /\ scan' = [scan EXCEPT ![p] = [scan[p] EXCEPT !.pc = "answered"]]
        /\ Fetching(p)
    BY <1>6 DEF ScanAnswer, ScanInv
  <2>2. scan'[p] = [scan[p] EXCEPT !.pc = "answered"]
    BY <2>1 DEF ScanInv
  <2>3. /\ scan'[p] \in Scan /\ scan'[p].rows = rows
        /\ scan'[p].pc = "answered" /\ scan'[p].undone = scan[p].undone
    BY <1>1, <2>2 DEF Scan
  <2>4. ~scan[p].undone => verify_integrity(rows)
    BY <1>1, <2>1, PrefixVerifies DEF ScanInv
  <2> QED
    BY <2>1, <2>3, <2>4 DEF ScanInv, Fetching
<1> QED
  BY <1>4, <1>5, <1>6

\* The steps of the writers, with the scans in progress.
LEMMA MeanwhileStep ==
    ASSUME IInv, IInv', SqliteLedgerAssumption, SingleProcess, Extends(disk, disk'),
           ScanInv, NEW t \in Threads, ThreadStep(t), Meanwhile
    PROVE  ScanInv'
<1>1. scan' = [p \in Processes |->
                  [scan[p] EXCEPT !.undone = @ \/ (Fetching(p) /\ RolledBack(p))]]
  BY DEF Meanwhile
<1>2. ASSUME NEW p \in Processes
      PROVE  /\ scan'[p] \in Scan
             /\ scan'[p].pc = scan[p].pc
             /\ scan'[p].rows = scan[p].rows
             /\ scan'[p].undone = (scan[p].undone \/ (Fetching(p) /\ RolledBack(p)))
  <2> DEFINE undone == scan[p].undone \/ (Fetching(p) /\ RolledBack(p))
  <2>1. scan'[p] = [scan[p] EXCEPT !.undone = undone] /\ undone \in BOOLEAN
    BY <1>1
  <2>2. scan[p] \in Scan
    BY DEF ScanInv
  <2> HIDE DEF undone
  <2>3. /\ scan'[p] \in Scan /\ scan'[p].undone = undone
        /\ scan'[p].pc = scan[p].pc /\ scan'[p].rows = scan[p].rows
    BY <2>1, <2>2 DEF Scan
  <2> QED
    BY <2>3 DEF undone
<1>3. scan' \in [Processes -> Scan]
  BY <1>1, <1>2
<1>4. ASSUME NEW p \in Processes, Fetching(p)', ~scan'[p].undone
      PROVE  RowsArePrefix(scan'[p].rows, View(p)'.ledger)
  <2>1. Fetching(p) /\ ~scan[p].undone /\ ~RolledBack(p)
    BY <1>2, <1>4 DEF Fetching
  <2>2. Extends(View(p), View(p)')
    BY <2>1, ViewGrows
  <2>3. View(p) \in Db /\ View(p)' \in Db
    BY ViewFacts DEF View, IInv, TypeOK
  <2>4. RowsArePrefix(scan[p].rows, View(p).ledger) /\ scan[p].rows \in Seq(LedgerEntry)
    BY <2>1 DEF ScanInv, Scan
  <2> QED
    BY <1>2, <2>2, <2>3, <2>4, PrefixGrows
<1>5. ASSUME NEW p \in Processes, scan'[p].pc = "answered", ~scan'[p].undone
      PROVE  Answer(p)'
  BY <1>2, <1>5 DEF ScanInv, Answer
<1> QED
  BY <1>3, <1>4, <1>5 DEF ScanInv

LEMMA ScanInvariant ==
    ASSUME SingleProcess
    PROVE  ScanSpec => [](IInv /\ ChainInv /\ ScanInv)
<1> USE SqliteLedgerAssumption
<1>1. ScanInit => Init /\ ScanInv
  BY DEF ScanInit, ScanInv, NoScan, Scan, Fetching
<1>2. [ScanNext]_scanVars => [Next]_vars
  BY DEF ScanNext, scanVars, Next, ScanBegin, ScanRow, ScanAnswer
<1>3. ASSUME IInv, IInv', ChainInv, ScanInv, [ScanNext]_scanVars
      PROVE  ScanInv'
  <2>1. Extends(disk, disk')
    BY <1>2, <1>3, StepInv
  <2>2. ASSUME NEW t \in Threads, ThreadStep(t), Meanwhile
        PROVE  ScanInv'
    BY <1>3, <2>1, <2>2, MeanwhileStep
  <2>3. ASSUME NEW p \in Processes, Crash(p), scan' = [scan EXCEPT ![p] = NoScan]
        PROVE  ScanInv'
    <3>1. \A q \in Processes : q = p
      BY DEF SingleProcess
    <3>2. NoScan \in Scan /\ NoScan.pc = "idle"
      BY DEF NoScan, Scan
    <3>3. scan' \in [Processes -> Scan] /\ scan'[p] = NoScan
      BY <1>3, <2>3, <3>2 DEF ScanInv
    <3> QED
      BY <3>1, <3>2, <3>3 DEF ScanInv, Fetching
  <2>4. ASSUME NEW p \in Processes, ScanBegin(p) \/ ScanRow(p) \/ ScanAnswer(p)
        PROVE  ScanInv'
    BY <1>3, <2>4, ScanStep
  <2>5. CASE UNCHANGED scanVars
    BY <1>3, <2>5 DEF scanVars, vars, ScanInv, Fetching, Answer, View
  <2> QED
    BY <1>3, <2>2, <2>3, <2>4, <2>5 DEF ScanNext
<1> QED
  BY <1>1, <1>2, <1>3, Invariant, ChainInvariant, PTL DEF Spec, ScanSpec

\* crash-semantics.md 4, for readers without the lock and one process: only a scan that
\* a rollback fell into may say that the chain is broken.
THEOREM ScansTellTheTruth ==
    ASSUME SingleProcess
    PROVE  ScanSpec => []FalseOnlyAfterRollback
<1>1. ScanInv => FalseOnlyAfterRollback
  BY DEF ScanInv, FalseOnlyAfterRollback
<1> QED
  BY <1>1, ScanInvariant, PTL

-----------------------------------------------------------------------------
(* Recovery of a single process leaves nothing staged: its list is complete when
   it is read, and nobody stages while the lock is held. *)

\* One thread's step keeps the lists complete if it keeps its own.
LEMMA PendingStep ==
    ASSUME IInv, SqliteLedgerAssumption, SingleProcess,
           NEW t \in Threads, NEW p \in Processes, p = ProcessOf[t],
           lock[p] \in {t, NoThread},
           \A u \in Threads \ {t} : call'[u] = call[u],
           call'[t].pc \in {"recover", "append"} =>
               Uncommitted(View(p)'.wal_staging) \subseteq call'[t].pending
    PROVE  PendingIsAll'
<1>1. ASSUME NEW u \in Threads \ {t}
      PROVE  call'[u].pc = "idle"
  <2>1. ProcessOf[u] = p
    BY DEF SqliteLedgerAssumption, SingleProcess
  <2> QED
    BY <2>1, OthersIdle
<1>2. ASSUME NEW u \in Threads, call'[u].pc \in {"recover", "append"}
      PROVE  Uncommitted(View(ProcessOf[u])'.wal_staging) \subseteq call'[u].pending
  <2>1. u = t
    BY <1>1, <1>2
  <2> QED
    BY <1>2, <2>1
<1> QED
  BY <1>2 DEF PendingIsAll

\* A flag is set, and the other rows stay as they are.
LEMMA FlagLeavesOthers ==
    ASSUME NEW db \in Db, NEW id \in DOMAIN db.wal_staging
    PROVE  Uncommitted(FlagRow(db, id).wal_staging) \subseteq Uncommitted(db.wal_staging) \ {id}
<1> DEFINE wal == db.wal_staging
           new == MarkCommitted(wal, wal[id].event_id)
<1>1. FlagRow(db, id).wal_staging = new
  BY DEF FlagRow, Db
<1>2. wal \in Seq(WalRow)
  BY DEF Db
<1>3. DOMAIN new = DOMAIN wal
  BY DEF MarkCommitted
<1>4. ASSUME NEW i \in DOMAIN wal, ~new[i].committed
      PROVE  ~wal[i].committed /\ i # id
  <2>1. wal[i] \in WalRow
    BY <1>2
  <2>2. new[i] = IF wal[i].event_id = wal[id].event_id
                 THEN [wal[i] EXCEPT !.committed = TRUE] ELSE wal[i]
    BY DEF MarkCommitted
  <2> QED
    BY <1>4, <2>1, <2>2 DEF WalRow
<1> QED
  BY <1>1, <1>3, <1>4 DEF Uncommitted

\* A turn of recovery's loop takes the row it writes from the list.
LEMMA RecoverTurnPending ==
    ASSUME IInv, PendingIsAll, SqliteLedgerAssumption, SingleProcess, NEW t \in Threads,
           RecoverFlag(t) \/ RecoverAppend(t)
    PROVE  PendingIsAll'
<1> DEFINE p == ProcessOf[t]
<1>1. call[t].pc \in {"recover", "append"} /\ call[t] \in Call
  BY DEF RecoverFlag, RecoverAppend, IInv, TypeOK
<1>2. p \in Processes /\ lock[p] = t
  BY <1>1, Inside
<1>3. PICK id \in call[t].pending :
          /\ View(p)'.wal_staging = FlagRow(View(p), id).wal_staging
          /\ call' = [call EXCEPT ![t].pc = "recover", ![t].pending = @ \ {id}]
  <2>1. CASE RecoverFlag(t)
    <3>1. call[t].pc = "recover"
      BY <2>1 DEF RecoverFlag
    <3>2. PICK id \in call[t].pending :
              /\ Write(p, FlagRow(View(p), id))
              /\ call' = [call EXCEPT ![t].pending = @ \ {id}]
      BY <2>1 DEF RecoverFlag
    <3>3. call' = [call EXCEPT ![t].pc = "recover", ![t].pending = @ \ {id}]
      BY <1>1, <3>1, <3>2 DEF IInv, TypeOK, Call
    <3> QED
      BY <1>2, <3>2, <3>3 DEF Write, View, IInv, TypeOK
  <2>2. CASE RecoverAppend(t)
    <3>1. PICK id \in call[t].pending :
              /\ Write(p, PromoteRow(View(p), id, call[t].prev))
              /\ call' = [call EXCEPT ![t].pc = "recover", ![t].pending = @ \ {id}]
      BY <2>2 DEF RecoverAppend
    <3>2. View(p) \in Db
      BY <1>2, ViewFacts
    <3>3. PromoteRow(View(p), id, call[t].prev).wal_staging
              = FlagRow(View(p), id).wal_staging
      BY <3>2 DEF PromoteRow, FlagRow, Db
    <3> QED
      BY <1>2, <3>1, <3>3 DEF Write, View, IInv, TypeOK
  <2> QED
    BY <2>1, <2>2
<1>4. View(p) \in Db /\ id \in DOMAIN View(p).wal_staging
  BY <1>1, <1>2, ViewFacts DEF IInv, LocalsAreSeen
<1>5. call'[t].pending = call[t].pending \ {id} /\ \A u \in Threads \ {t} : call'[u] = call[u]
  BY <1>1, <1>3 DEF IInv, TypeOK, Call
<1>6. Uncommitted(View(p)'.wal_staging) \subseteq call'[t].pending
  BY <1>1, <1>3, <1>4, <1>5, FlagLeavesOthers DEF PendingIsAll
<1> QED
  BY <1>2, <1>5, <1>6, PendingStep

\* Beginning reads the whole list; the two SELECTs of a turn change nothing.
LEMMA RecoverReadsPending ==
    ASSUME IInv, PendingIsAll, SqliteLedgerAssumption, SingleProcess, NEW t \in Threads,
           RecoverBegin(t) \/ RecoverRead(t)
    PROVE  PendingIsAll'
<1> DEFINE p == ProcessOf[t]
<1>1. p \in Processes /\ lock[p] \in {t, NoThread}
  BY Inside DEF RecoverBegin, RecoverRead, Acquire, SqliteLedgerAssumption
<1>2. View(p)' = View(p)
  BY DEF RecoverBegin, RecoverRead, View
<1>3. /\ Uncommitted(View(p).wal_staging) \subseteq call'[t].pending
      /\ \A u \in Threads \ {t} : call'[u] = call[u]
  <2>1. call \in [Threads -> Call]
    BY DEF IInv, TypeOK
  <2>2. CASE RecoverBegin(t)
    <3>1. call' = [call EXCEPT ![t] =
                      [IdleCall EXCEPT !.pc = "recover",
                                       !.pending = Uncommitted(View(p).wal_staging)]]
      BY <2>2 DEF RecoverBegin
    <3>2. call'[t].pending = Uncommitted(View(p).wal_staging)
      BY <2>1, <3>1 DEF IdleCall
    <3> QED
      BY <2>1, <3>1, <3>2
  <2>3. CASE RecoverRead(t)
    <3>1. call[t].pc = "recover"
      BY <2>3 DEF RecoverRead
    <3>2. Uncommitted(View(p).wal_staging) \subseteq call[t].pending
      BY <3>1 DEF PendingIsAll
    <3>3. call' = [call EXCEPT ![t] = [@ EXCEPT !.pc = "append",
                                               !.prev = last_hash(View(p).ledger)]]
      BY <2>1, <2>3 DEF RecoverRead
    <3>4. call'[t].pending = call[t].pending
      BY <2>1, <3>3 DEF Call
    <3> QED
      BY <2>1, <3>2, <3>3, <3>4
  <2> QED
    BY <2>2, <2>3
<1> QED
  BY <1>1, <1>2, <1>3, PendingStep

\* All other steps leave their thread outside recovery.
LEMMA OutsidePending ==
    ASSUME IInv, SqliteLedgerAssumption, SingleProcess, NEW t \in Threads,
           \/ \E s \in Stagings : Stage(t, s)
           \/ \E batch \in Batches : AckBegin(t, batch)
           \/ AckDuplicate(t) \/ AckInsert(t) \/ AckCommit(t) \/ AckAnswer(t)
           \/ RecoverCommit(t)
           \/ ConstraintFails(t) \/ BusyTimeout(t) \/ StatementFails(t)
    PROVE  PendingIsAll'
<1> DEFINE p == ProcessOf[t]
           Outside == /\ lock[p] \in {t, NoThread}
                      /\ call'[t].pc \in {"idle", "ack", "answer"}
                      /\ \A u \in Threads \ {t} : call'[u] = call[u]
<1>1. p \in Processes
  BY DEF SqliteLedgerAssumption
<1>2. ASSUME NEW s \in Stagings, Stage(t, s)
      PROVE  Outside
  BY <1>2 DEF Stage
<1>3. ASSUME NEW batch \in Batches, AckBegin(t, batch)
      PROVE  Outside
  BY <1>3 DEF AckBegin, Acquire, IdleCall, IInv, TypeOK
<1>4. ASSUME AckDuplicate(t) \/ AckInsert(t) \/ AckCommit(t)
      PROVE  Outside
  <2>1. call[t].pc = "ack" /\ call[t] \in Call
    BY <1>4 DEF AckDuplicate, AckInsert, AckCommit, NewItem, AtItem, IInv, TypeOK
  <2>2. lock[p] = t
    BY <2>1, Inside
  <2> QED
    BY <1>4, <2>1, <2>2 DEF AckDuplicate, AckInsert, AckCommit, IInv, TypeOK, Call
<1>5. ASSUME \/ AckAnswer(t) \/ RecoverCommit(t)
             \/ ConstraintFails(t) \/ BusyTimeout(t) \/ StatementFails(t)
      PROVE  Outside
  <2>1. call[t].pc # "idle" /\ Return(t)
    BY <1>5 DEF AckAnswer, RecoverCommit, ConstraintFails, BusyTimeout, StatementFails,
                NewItem, AtItem, Rollback
  <2>2. lock[p] = t
    BY <2>1, Inside
  <2> QED
    BY <1>1, <2>1, <2>2, ReturnFacts
<1>6. Outside
  BY <1>2, <1>3, <1>4, <1>5
<1> QED
  BY <1>1, <1>6, PendingStep

LEMMA PendingInvariant ==
    ASSUME SingleProcess
    PROVE  Spec => []PendingIsAll
<1>1. Init => PendingIsAll
  BY DEF Init, PendingIsAll, IdleCall
<1>2. IInv /\ PendingIsAll /\ [Next]_vars => PendingIsAll'
  <2> SUFFICES ASSUME IInv, PendingIsAll, [Next]_vars
               PROVE  PendingIsAll'
    OBVIOUS
  <2> USE SqliteLedgerAssumption
  <2>1. ASSUME NEW t \in Threads,
               \/ \E s \in Stagings : Stage(t, s)
               \/ \E batch \in Batches : AckBegin(t, batch)
               \/ StatementFails(t)
        PROVE  PendingIsAll'
    BY <2>1, OutsidePending
  <2>2. ASSUME NEW t \in Threads, RecoverBegin(t)
        PROVE  PendingIsAll'
    BY <2>2, RecoverReadsPending
  <2>3. ASSUME NEW t \in Threads, Proceed(t)
        PROVE  PendingIsAll'
    BY <2>3, OutsidePending, RecoverReadsPending, RecoverTurnPending DEF Proceed
  <2>4. ASSUME NEW p \in Processes, Crash(p)
        PROVE  PendingIsAll'
    <3>1. \A t \in Threads : call'[t].pc = "idle"
      BY <2>4 DEF Crash, IdleCall, SingleProcess
    <3> QED
      BY <3>1 DEF PendingIsAll
  <2>5. CASE UNCHANGED vars
    BY <2>5 DEF vars, PendingIsAll, View
  <2> QED
    BY <2>1, <2>2, <2>3, <2>4, <2>5 DEF Next, ThreadStep
<1> QED
  BY <1>1, <1>2, Invariant, PTL DEF Spec

\* crash-semantics.md 5, for one process: recover_uncommitted returns only when
\* nothing staged is left.
THEOREM RecoveryLeavesNothing ==
    ASSUME SingleProcess
    PROVE  Spec => RecoveryDrains
<1>1. ASSUME PendingIsAll, NEW t \in Threads, RecoverCommit(t)
      PROVE  Uncommitted(disk'.wal_staging) = {}
  <2>1. Uncommitted(View(ProcessOf[t]).wal_staging) = {}
    BY <1>1 DEF RecoverCommit, PendingIsAll
  <2> QED
    BY <1>1, <2>1 DEF RecoverCommit, Commit
<1>2. PendingIsAll =>
          \A t \in Threads : RecoverCommit(t) => Uncommitted(disk'.wal_staging) = {}
  BY <1>1
<1>3. PendingIsAll =>
          [\A t \in Threads : RecoverCommit(t) => Uncommitted(disk'.wal_staging) = {}]_vars
  BY <1>2
<1> QED
  BY <1>3, PendingInvariant, PTL DEF RecoveryDrains
-----------------------------------------------------------------------------
(* While a single process has the file open, the statements implement the contract.
   A batch and a recovery write to the connection what the contract makes of the
   durable tables item by item and row by row; the commit is the one step of it that
   the contract sees, and the reply the other.  The lock keeps the durable tables as
   they were when the method began. *)

\* The claims on the keys of a batch, one item further.
LEMMA AnswersOneMore ==
    ASSUME NEW db, NEW batch \in Seq(BatchWriteItem), NEW n \in Nat, n + 1 <= Len(batch)
    PROVE  Answers(db, batch, n + 1) =
              Answers(db, batch, n) \cup Claims(db.idempotency, batch[n + 1].idempotency_key)
<1>1. \A i : i \in 1..(n + 1) <=> i \in 1..n \/ i = n + 1
  OBVIOUS
<1> QED
  BY <1>1 DEF Answers, Claims

\* What a batch item does to the claims on its key.
LEMMA ClaimedByItem ==
    ASSUME NEW db, NEW item
    PROVE  /\ Claims(db.idempotency, item.idempotency_key) # {} <=> Claimed(db, item)
           /\ RowOf(item).idempotency_key = item.idempotency_key
BY DEF Claims, Claimed, RowOf

\* The SELECT of the claimed keys.
LEMMA AckProgressBegins ==
    ASSUME NEW db \in Db, NEW c \in Call, c.next = 1, c.replies = {},
           c.existing = UNION {Claims(db.idempotency, c.items[i].idempotency_key) :
                                  i \in DOMAIN c.items}
    PROVE  AckProgress(c, db, db)
<1>1. c.items \in Seq(BatchWriteItem)
  BY DEF Call
<1>2. AfterItems(db, c.items, 0) = db
  BY <1>1, AfterItemsSteps
<1>3. c.next - 1 = 0 /\ 0 \in 0..Len(c.items) /\ DOMAIN c.items = 1..Len(c.items)
      /\ 1..0 = {}
  BY <1>1
<1>4. c.existing = Answers(db, c.items, Len(c.items))
  BY <1>3 DEF Answers, Claims
<1>5. c.replies = Answers(db, c.items, 0)
  BY <1>3 DEF Answers
<1> QED
  BY <1>2, <1>3, <1>4, <1>5 DEF AckProgress

\* An item whose key is claimed.
LEMMA AckProgressDuplicate ==
    ASSUME NEW db \in Db, NEW view, NEW c \in Call, NEW d \in Call,
           AckProgress(c, db, view), c.next <= Len(c.items),
           NEW item, item = c.items[c.next],
           Claims(c.existing, item.idempotency_key) # {},
           d.items = c.items, d.next = c.next + 1, d.existing = c.existing,
           d.replies = c.replies \cup Claims(c.existing, item.idempotency_key)
    PROVE  AckProgress(d, db, view)
<1> DEFINE batch == c.items
           n == c.next - 1
           N == Len(batch)
<1>1. /\ batch \in Seq(BatchWriteItem) /\ N \in Nat /\ n \in Nat /\ n + 1 <= N
      /\ n + 1 = c.next /\ d.next - 1 = n + 1 /\ (n + 1) - 1 = n
      /\ n + 1 \in 1..N /\ n + 1 \in 0..N /\ item = batch[n + 1]
      /\ \A i \in 1..(n + 1) : i \in 1..n \/ i = n + 1
  BY DEF Call
<1> HIDE DEF batch, n, N
<1>2. /\ view = AfterItems(db, batch, n)
      /\ \A i \in 1..n : /\ \/ Claimed(AfterItems(db, batch, i - 1), batch[i])
                            \/ ~Conflict(AfterItems(db, batch, i - 1), batch[i])
                         /\ Claimed(view, batch[i])
      /\ c.existing = Answers(view, batch, N)
      /\ c.replies = Answers(view, batch, n)
  BY DEF AckProgress, batch, n, N
<1>3. Claims(c.existing, item.idempotency_key) = Claims(view.idempotency, item.idempotency_key)
  BY <1>1, <1>2 DEF Claims, Answers
<1>4. Claimed(view, item)
  BY <1>3, ClaimedByItem
<1>5. AfterItems(db, batch, n + 1) = view
  <2>1. AfterItems(db, batch, n + 1) = AcknowledgeItem(AfterItems(db, batch, (n + 1) - 1), batch[n + 1])
    BY <1>1, AfterItemsSteps DEF N
  <2> QED
    BY <1>1, <1>2, <1>4, <2>1 DEF AcknowledgeItem
<1>6. d.replies = Answers(view, batch, n + 1)
  BY <1>1, <1>2, <1>3, AnswersOneMore DEF N
<1>7. \A i \in 1..(n + 1) : /\ \/ Claimed(AfterItems(db, batch, i - 1), batch[i])
                               \/ ~Conflict(AfterItems(db, batch, i - 1), batch[i])
                            /\ Claimed(view, batch[i])
  BY <1>1, <1>2, <1>4
<1> QED
  BY <1>1, <1>2, <1>5, <1>6, <1>7 DEF AckProgress, batch, N

\* An item that is written.
LEMMA AckProgressInsert ==
    ASSUME NEW db \in Db, NEW view \in Db, NEW c \in Call, NEW d \in Call,
           AckProgress(c, db, view), c.next <= Len(c.items),
           NEW item \in BatchWriteItem, item = c.items[c.next],
           Claims(c.existing, item.idempotency_key) = {}, ~Conflict(view, item),
           d.items = c.items, d.next = c.next + 1,
           d.existing = c.existing \cup {RowOf(item)},
           d.replies = c.replies \cup {RowOf(item)}
    PROVE  AckProgress(d, db, WriteItem(view, item))
<1> DEFINE batch == c.items
           n == c.next - 1
           N == Len(batch)
           new == WriteItem(view, item)
<1>1. /\ batch \in Seq(BatchWriteItem) /\ N \in Nat /\ n \in Nat /\ n + 1 <= N
      /\ n + 1 = c.next /\ d.next - 1 = n + 1 /\ (n + 1) - 1 = n
      /\ n + 1 \in 1..N /\ n + 1 \in 0..N /\ item = batch[n + 1]
      /\ \A i \in 1..(n + 1) : i \in 1..n \/ i = n + 1
  BY DEF Call
<1> HIDE DEF batch, n, N
<1>2. /\ view = AfterItems(db, batch, n)
      /\ \A i \in 1..n : /\ \/ Claimed(AfterItems(db, batch, i - 1), batch[i])
                            \/ ~Conflict(AfterItems(db, batch, i - 1), batch[i])
                         /\ Claimed(view, batch[i])
      /\ c.existing = Answers(view, batch, N)
      /\ c.replies = Answers(view, batch, n)
  BY DEF AckProgress, batch, n, N
<1>3. Claims(c.existing, item.idempotency_key) = Claims(view.idempotency, item.idempotency_key)
  BY <1>1, <1>2 DEF Claims, Answers
<1>4. ~Claimed(view, item)
  BY <1>3, ClaimedByItem
<1>5. AfterItems(db, batch, n + 1) = new
  <2>1. AfterItems(db, batch, n + 1) = AcknowledgeItem(AfterItems(db, batch, (n + 1) - 1), batch[n + 1])
    BY <1>1, AfterItemsSteps DEF N
  <2> QED
    BY <1>1, <1>2, <1>4, <2>1 DEF AcknowledgeItem
<1>6. new.idempotency = view.idempotency \cup {RowOf(item)}
  BY WriteItemFacts
<1> HIDE DEF new
<1>7. Answers(new, batch, N) = Answers(view, batch, N) \cup {RowOf(item)}
  BY <1>1, <1>6, ClaimedByItem DEF Answers
<1>8. Answers(new, batch, n + 1) = Answers(view, batch, n) \cup {RowOf(item)}
  <2>1. \A r \in Answers(new, batch, n + 1) : r \in Answers(view, batch, n) \/ r = RowOf(item)
    <3> SUFFICES ASSUME NEW r \in new.idempotency, r # RowOf(item),
                        NEW i \in 1..(n + 1), r.idempotency_key = batch[i].idempotency_key
                 PROVE  r \in Answers(view, batch, n)
      BY DEF Answers
    <3>1. r \in view.idempotency
      BY <1>6
    <3>2. i # n + 1
      BY <1>1, <1>4, <3>1 DEF Claimed
    <3> QED
      BY <1>1, <3>1, <3>2 DEF Answers
  <2>2. RowOf(item) \in Answers(new, batch, n + 1)
    <3>1. n + 1 \in 1..(n + 1)
      BY <1>1
    <3> QED
      BY <1>1, <1>6, <3>1, ClaimedByItem DEF Answers
  <2>3. Answers(view, batch, n) \subseteq Answers(new, batch, n + 1)
    <3>1. 1..n \subseteq 1..(n + 1)
      BY <1>1
    <3> QED
      BY <1>6, <3>1 DEF Answers
  <2> QED
    BY <2>1, <2>2, <2>3
<1>9. ASSUME NEW i \in 1..(n + 1)
      PROVE  /\ \/ Claimed(AfterItems(db, batch, i - 1), batch[i])
                \/ ~Conflict(AfterItems(db, batch, i - 1), batch[i])
             /\ Claimed(new, batch[i])
  <2>1. CASE i \in 1..n
    BY <1>2, <1>6, <2>1 DEF Claimed
  <2>2. CASE i = n + 1
    <3>1. Claimed(new, item)
      BY <1>6, ClaimedByItem DEF Claimed
    <3> QED
      BY <1>1, <1>2, <2>2, <3>1
  <2> QED
    BY <1>1, <2>1, <2>2
<1> QED
  BY <1>1, <1>2, <1>5, <1>7, <1>8, <1>9 DEF AckProgress, batch, N, new

\* Recovery begins with every row that is not committed.
LEMMA RecoverProgressBegins ==
    ASSUME NEW db \in Db, NEW c, c.pending = Uncommitted(db.wal_staging)
    PROVE  RecoverProgress(c, db, db)
<1> DEFINE N == Len(db.wal_staging)
           U == Uncommitted(db.wal_staging)
           Left(n) == {i \in U : i > n}
<1>1. N \in Nat /\ U \subseteq 1..N /\ AfterRows(db, 0) = db
      /\ \A i \in 1..N : db.wal_staging[i].committed \/ i \in U
  <2>1. db.wal_staging \in Seq(WalRow) /\ AfterRows(db, 0) = db
    BY AfterRowsSteps DEF Db
  <2> QED
    BY <2>1 DEF Uncommitted
<1>2. 0 \in 0..N /\ Left(0) = U
  BY <1>1
<1>3. ASSUME NEW n \in 0..N, U = Left(n)
      PROVE  AfterRows(db, n) = db
  <2>1. \A i \in (0 + 1)..n : db.wal_staging[i].committed
    BY <1>1, <1>3
  <2>2. AfterRows(db, n) = AfterRows(db, 0)
    BY <1>1, <2>1, AfterRowsSkips
  <2> QED
    BY <1>1, <2>2
<1> QED
  BY <1>2, <1>3 DEF RecoverProgress

\* A turn of recovery: the first row that is left.
LEMMA RecoverProgressTurn ==
    ASSUME NEW db \in Db, NEW view, NEW c, NEW d, RecoverProgress(c, db, view),
           NEW id \in c.pending, \A j \in c.pending : id <= j,
           d.pending = c.pending \ {id}
    PROVE  /\ id \in DOMAIN db.wal_staging
           /\ RecoverProgress(d, db, RecoverStaged(view, id))
<1> DEFINE N == Len(db.wal_staging)
           U == Uncommitted(db.wal_staging)
           Left(n) == {i \in U : i > n}
<1>1. N \in Nat /\ U \subseteq 1..N /\ DOMAIN db.wal_staging = 1..N
      /\ \A i \in 1..N : i \in U <=> ~db.wal_staging[i].committed
  BY DEF Db, Uncommitted
<1>2. PICK m \in 0..N : c.pending = Left(m)
  BY DEF RecoverProgress
<1>3. id \in U /\ id \in 1..N /\ id > m
  BY <1>1, <1>2
<1>4. c.pending = Left(id - 1) /\ id - 1 \in 0..N
  BY <1>1, <1>2, <1>3
<1>5. view = AfterRows(db, id - 1)
  BY <1>4 DEF RecoverProgress
<1>6. AfterRows(db, id) = RecoverStaged(view, id)
  BY <1>1, <1>3, <1>5, AfterRowsSteps
<1>7. d.pending = Left(id) /\ id \in 0..N
  BY <1>1, <1>3, <1>4
<1>8. ASSUME NEW n \in 0..N, d.pending = Left(n)
      PROVE  AfterRows(db, n) = AfterRows(db, id)
  <2>1. id <= n
    BY <1>1, <1>3, <1>7, <1>8
  <2>2. \A i \in (id + 1)..n : db.wal_staging[i].committed
    BY <1>1, <1>3, <1>7, <1>8
  <2> QED
    BY <1>1, <1>3, <2>1, <2>2, AfterRowsSkips
<1> QED
  BY <1>1, <1>3, <1>6, <1>7, <1>8 DEF RecoverProgress

\* Recovery has nothing left.
LEMMA RecoverProgressEnds ==
    ASSUME NEW db \in Db, NEW view, NEW c, RecoverProgress(c, db, view), c.pending = {}
    PROVE  view = AfterRows(db, Len(db.wal_staging))
<1>1. Len(db.wal_staging) \in Nat /\ Uncommitted(db.wal_staging) \subseteq 1..Len(db.wal_staging)
  BY DEF Db, Uncommitted
<1>2. c.pending = {i \in Uncommitted(db.wal_staging) : i > Len(db.wal_staging)}
  BY <1>1
<1> QED
  BY <1>1, <1>2 DEF RecoverProgress

\* The contract is about the same tables.
LEMMA SameTables ==
    /\ Contract!EmptyDb = EmptyDb
    /\ \A db, e, p : Contract!StageRow(db, e, p) = StageRow(db, e, p)
    /\ \A db, item : /\ Contract!Claimed(db, item) <=> Claimed(db, item)
                     /\ Contract!Conflict(db, item) <=> Conflict(db, item)
<1>1. Contract!EmptyDb = EmptyDb
  BY DEF EmptyDb, Contract!EmptyDb
<1>2. \A db, e, p : Contract!StageRow(db, e, p) = StageRow(db, e, p)
  BY DEF StageRow, Contract!StageRow, InsertOrIgnore, Contract!InsertOrIgnore,
         EventsOf, Contract!EventsOf
<1>3. \A db, item : /\ Contract!Claimed(db, item) <=> Claimed(db, item)
                    /\ Contract!Conflict(db, item) <=> Conflict(db, item)
  BY DEF Claimed, Contract!Claimed, Conflict, Contract!Conflict, EventsOf, Contract!EventsOf
<1> QED
  BY <1>1, <1>2, <1>3

\* Its batches and its recovery are those of the tables, item by item and row by row.
LEMMA SameItems ==
    \A db, batch, n : Contract!AfterItems(db, batch, n) = AfterItems(db, batch, n)
BY DEF AfterItems, Contract!AfterItems, AcknowledgeItem, Contract!AcknowledgeItem,
       Claimed, Contract!Claimed, WriteItem, Contract!WriteItem, RowOf, Contract!RowOf,
       NewEntry, Contract!NewEntry, entry_hash, Contract!entry_hash,
       last_hash, Contract!last_hash, GENESIS_HASH, Contract!GENESIS_HASH,
       MarkCommitted, Contract!MarkCommitted, InsertOrIgnore, Contract!InsertOrIgnore,
       EventsOf, Contract!EventsOf

LEMMA SameRows ==
    \A db, n : Contract!AfterRows(db, n) = AfterRows(db, n)
BY DEF AfterRows, Contract!AfterRows, RecoverStaged, Contract!RecoverStaged,
       FlagRow, Contract!FlagRow, PromoteRow, Contract!PromoteRow,
       NewEntry, Contract!NewEntry, entry_hash, Contract!entry_hash,
       last_hash, Contract!last_hash, GENESIS_HASH, Contract!GENESIS_HASH,
       MarkCommitted, Contract!MarkCommitted,
       EventsOf, Contract!EventsOf

\* One thread's step keeps the invariant if it does for the thread: the others are
\* outside the methods.
LEMMA ContractStep ==
    ASSUME IInv, SqliteLedgerAssumption, SingleProcess,
           NEW t \in Threads, NEW p \in Processes, p = ProcessOf[t],
           lock[p] \in {t, NoThread},
           \A u \in Threads \ {t} : call'[u] = call[u],
           InContract(call'[t], disk', View(p)')
    PROVE  ContractInv'
<1>1. ASSUME NEW u \in Threads \ {t}
      PROVE  call'[u].pc = "idle"
  <2>1. ProcessOf[u] = p
    BY DEF SqliteLedgerAssumption, SingleProcess
  <2> QED
    BY <2>1, OthersIdle
<1>2. \A u \in Threads \ {t} : InContract(call'[u], disk', View(ProcessOf[u])')
  BY <1>1 DEF InContract
<1> QED
  BY <1>2 DEF ContractInv

\* Nothing the contract speaks of changes.
Silent == UNCHANGED <<disk, acked>>

LEMMA StageContract ==
    ASSUME IInv, SqliteLedgerAssumption, SingleProcess,
           NEW t \in Threads, NEW s \in Stagings, Stage(t, s)
    PROVE  ContractInv' /\ Contract!Next
<1>1. /\ call'[t].pc = "idle" /\ lock[ProcessOf[t]] = NoThread
      /\ UNCHANGED call /\ UNCHANGED acked
      /\ disk' = StageRow(disk, s.event_id, s.payload)
  BY DEF Stage
<1>2. ProcessOf[t] \in Processes
  BY DEF SqliteLedgerAssumption
<1>3. InContract(call'[t], disk', View(ProcessOf[t])')
  BY <1>1 DEF InContract
<1>4. ContractInv'
  BY <1>1, <1>2, <1>3, ContractStep
<1>5. Contract!stage_partial(s)
  BY <1>1, SameTables DEF Contract!stage_partial
<1> QED
  BY <1>4, <1>5 DEF Contract!Next

LEMMA AckBeginContract ==
    ASSUME IInv, SqliteLedgerAssumption, SingleProcess,
           NEW t \in Threads, NEW batch \in Batches, AckBegin(t, batch)
    PROVE  ContractInv' /\ Silent
<1> DEFINE p == ProcessOf[t]
           c == call'[t]
<1>1. p \in Processes /\ lock[p] = NoThread /\ UNCHANGED <<disk, conn, acked>>
  BY DEF AckBegin, Acquire, SqliteLedgerAssumption
<1>2. View(p) = disk /\ View(p)' = disk /\ disk \in Db
  BY <1>1, FreeLockNoTransaction DEF View, IInv, TypeOK
<1>3. /\ c.pc = "ack" /\ c.items = batch /\ c.next = 1 /\ c.replies = {}
      /\ c.existing = UNION {Claims(disk.idempotency, batch[i].idempotency_key) :
                                i \in DOMAIN batch}
      /\ \A u \in Threads \ {t} : call'[u] = call[u]
  BY <1>2 DEF AckBegin, IdleCall, IInv, TypeOK
<1>4. c \in Call
  <2>1. TypeOK'
    BY AckBeginInv DEF IInv
  <2> QED
    BY <2>1 DEF TypeOK
<1> HIDE DEF c
<1>5. AckProgress(c, disk, disk)
  BY <1>2, <1>3, <1>4, AckProgressBegins
<1>6. InContract(c, disk', View(p)')
  BY <1>1, <1>2, <1>3, <1>5 DEF InContract
<1> QED
  BY <1>1, <1>3, <1>6, ContractStep DEF c, Silent

LEMMA AckDuplicateContract ==
    ASSUME IInv, ContractInv, SqliteLedgerAssumption, SingleProcess,
           NEW t \in Threads, AckDuplicate(t)
    PROVE  ContractInv' /\ Silent
<1> DEFINE p == ProcessOf[t]
           c == call[t]
           d == call'[t]
           found == Claims(c.existing, Item(t).idempotency_key)
<1>1. /\ c \in Call /\ c.pc = "ack" /\ c.next <= Len(c.items) /\ disk \in Db
      /\ found # {}
      /\ UNCHANGED <<disk, conn, acked>>
  BY DEF AckDuplicate, AtItem, IInv, TypeOK
<1>2. p \in Processes /\ lock[p] = t
  BY <1>1, Inside
<1>3. View(p)' = View(p)
  BY <1>1 DEF View
<1>4. d \in Call
  <2>1. TypeOK'
    BY AckDuplicateInv DEF IInv
  <2> QED
    BY <2>1 DEF TypeOK
<1>5. /\ d.pc = "ack" /\ d.items = c.items /\ d.next = c.next + 1
      /\ d.existing = c.existing /\ d.replies = c.replies \cup found
      /\ \A u \in Threads \ {t} : call'[u] = call[u]
  BY <1>1 DEF AckDuplicate, IInv, TypeOK, Call
<1>6. AckProgress(c, disk, View(p)) /\ c.items \in Batches
  BY <1>1 DEF ContractInv, InContract
<1> HIDE DEF d
<1>7. AckProgress(d, disk, View(p))
  BY <1>1, <1>4, <1>5, <1>6, AckProgressDuplicate DEF Item
<1>8. InContract(d, disk', View(p)')
  BY <1>1, <1>3, <1>5, <1>6, <1>7 DEF InContract
<1> QED
  BY <1>1, <1>2, <1>5, <1>8, ContractStep DEF d, Silent

LEMMA AckInsertContract ==
    ASSUME IInv, ContractInv, SqliteLedgerAssumption, SingleProcess,
           NEW t \in Threads, AckInsert(t)
    PROVE  ContractInv' /\ Silent
<1> DEFINE p == ProcessOf[t]
           c == call[t]
           d == call'[t]
           item == Item(t)
<1>1. /\ c \in Call /\ c.pc = "ack" /\ c.next <= Len(c.items) /\ disk \in Db
      /\ Claims(c.existing, item.idempotency_key) = {}
      /\ ~Conflict(View(p), item)
      /\ Write(p, WriteItem(View(p), item))
      /\ UNCHANGED <<disk, acked>>
  BY DEF AckInsert, NewItem, AtItem, IInv, TypeOK
<1>2. p \in Processes /\ lock[p] = t
  BY <1>1, Inside
<1>3. View(p)' = WriteItem(View(p), item)
  BY <1>1, <1>2 DEF Write, View, IInv, TypeOK
<1>4. d \in Call
  <2>1. TypeOK'
    BY AckInsertInv DEF IInv
  <2> QED
    BY <2>1 DEF TypeOK
<1>5. /\ d.pc = "ack" /\ d.items = c.items /\ d.next = c.next + 1
      /\ d.existing = c.existing \cup {RowOf(item)} /\ d.replies = c.replies \cup {RowOf(item)}
      /\ \A u \in Threads \ {t} : call'[u] = call[u]
  BY <1>1 DEF AckInsert, IInv, TypeOK, Call
<1>6. AckProgress(c, disk, View(p)) /\ c.items \in Batches
  BY <1>1 DEF ContractInv, InContract
<1>7. View(p) \in Db /\ item \in BatchWriteItem /\ item = c.items[c.next]
  BY <1>2, ViewFacts, ItemType DEF AckInsert, NewItem, Item
<1> HIDE DEF d, item
<1>8. AckProgress(d, disk, View(p)')
  BY <1>1, <1>3, <1>4, <1>5, <1>6, <1>7, AckProgressInsert
<1>9. InContract(d, disk', View(p)')
  BY <1>1, <1>5, <1>6, <1>8 DEF InContract
<1> QED
  BY <1>1, <1>2, <1>5, <1>9, ContractStep DEF d, Silent

\* The commit is the method: its items, one after the other, on the durable tables.
LEMMA AckCommitContract ==
    ASSUME IInv, ContractInv, SqliteLedgerAssumption, SingleProcess,
           NEW t \in Threads, AckCommit(t)
    PROVE  ContractInv' /\ Contract!Next
<1> DEFINE p == ProcessOf[t]
           c == call[t]
           d == call'[t]
           batch == c.items
<1>1. /\ c \in Call /\ c.pc = "ack" /\ c.next > Len(c.items)
      /\ Commit(p) /\ UNCHANGED acked
  BY DEF AckCommit, IInv, TypeOK
<1>2. p \in Processes /\ lock[p] = t /\ disk' = View(p)
  BY <1>1, Inside DEF Commit
<1>3. /\ d.pc = "answer" /\ d.items = batch /\ d.replies = c.replies
      /\ \A u \in Threads \ {t} : call'[u] = call[u]
  BY <1>1 DEF AckCommit, IInv, TypeOK, Call
<1>4. AckProgress(c, disk, View(p)) /\ batch \in Batches
  BY <1>1 DEF ContractInv, InContract
<1>5. /\ c.next - 1 = Len(batch) /\ DOMAIN batch = 1..Len(batch)
  BY <1>1, <1>4 DEF AckProgress, Call
<1>6. /\ View(p) = AfterItems(disk, batch, Len(batch))
      /\ \A i \in DOMAIN batch : /\ \/ Claimed(AfterItems(disk, batch, i - 1), batch[i])
                                    \/ ~Conflict(AfterItems(disk, batch, i - 1), batch[i])
                                 /\ Claimed(View(p), batch[i])
      /\ c.replies = Answers(View(p), batch, Len(batch))
  BY <1>4, <1>5 DEF AckProgress
<1>7. Contract!acknowledge_writes_batch(batch)
  BY <1>1, <1>2, <1>6, SameTables, SameItems
  DEF Contract!acknowledge_writes_batch, Contract!Accepts
<1> HIDE DEF d
<1>8. InContract(d, disk', View(p)')
  BY <1>2, <1>3, <1>4, <1>6 DEF InContract, AnswerReady
<1> QED
  BY <1>2, <1>3, <1>4, <1>7, <1>8, ContractStep DEF d, Contract!Next

LEMMA AckAnswerContract ==
    ASSUME IInv, ContractInv, SqliteLedgerAssumption, SingleProcess,
           NEW t \in Threads, AckAnswer(t)
    PROVE  ContractInv' /\ Contract!Next
<1> DEFINE p == ProcessOf[t]
           batch == call[t].items
           keys == {batch[i].idempotency_key : i \in DOMAIN batch}
<1>1. /\ call[t] \in Call /\ call[t].pc = "answer" /\ Return(t) /\ UNCHANGED disk
      /\ acked' = acked \cup call[t].replies
  BY DEF AckAnswer, IInv, TypeOK
<1>2. p \in Processes /\ lock[p] = t
  BY <1>1, Inside
<1>3. call'[t].pc = "idle" /\ \A u \in Threads \ {t} : call'[u] = call[u]
  BY <1>1, <1>2, ReturnFacts
<1>4. AnswerReady(call[t], disk) /\ batch \in Batches /\ DOMAIN batch = 1..Len(batch)
  BY <1>1 DEF ContractInv, InContract, Call
<1>5. call[t].replies = {r \in disk.idempotency : r.idempotency_key \in keys}
  BY <1>4 DEF AnswerReady, Answers
<1>6. \A k \in keys : \E r \in disk.idempotency : r.idempotency_key = k
  BY <1>4 DEF AnswerReady, Claimed
<1>7. Contract!Answer(batch)
  BY <1>1, <1>5, <1>6 DEF Contract!Answer
<1>8. InContract(call'[t], disk', View(p)')
  BY <1>3 DEF InContract
<1> QED
  BY <1>2, <1>3, <1>4, <1>7, <1>8, ContractStep DEF Contract!Next

LEMMA RecoverBeginContract ==
    ASSUME IInv, SqliteLedgerAssumption, SingleProcess,
           NEW t \in Threads, RecoverBegin(t)
    PROVE  ContractInv' /\ Silent
<1> DEFINE p == ProcessOf[t]
           c == call'[t]
<1>1. p \in Processes /\ lock[p] = NoThread /\ UNCHANGED <<disk, conn, acked>>
  BY DEF RecoverBegin, Acquire, SqliteLedgerAssumption
<1>2. View(p) = disk /\ View(p)' = disk /\ disk \in Db
  BY <1>1, FreeLockNoTransaction DEF View, IInv, TypeOK
<1>3. /\ c.pc = "recover" /\ c.pending = Uncommitted(disk.wal_staging)
      /\ \A u \in Threads \ {t} : call'[u] = call[u]
  BY <1>2 DEF RecoverBegin, IdleCall, IInv, TypeOK
<1> HIDE DEF c
<1>4. RecoverProgress(c, disk, disk)
  BY <1>2, <1>3, RecoverProgressBegins
<1>5. InContract(c, disk', View(p)')
  BY <1>1, <1>2, <1>3, <1>4 DEF InContract
<1> QED
  BY <1>1, <1>3, <1>5, ContractStep DEF c, Silent

LEMMA RecoverReadContract ==
    ASSUME IInv, ContractInv, SqliteLedgerAssumption, SingleProcess,
           NEW t \in Threads, RecoverRead(t)
    PROVE  ContractInv' /\ Silent
<1> DEFINE p == ProcessOf[t]
           c == call[t]
           d == call'[t]
<1>1. c \in Call /\ c.pc = "recover" /\ UNCHANGED <<disk, conn, acked>>
  BY DEF RecoverRead, IInv, TypeOK
<1>2. p \in Processes /\ lock[p] = t /\ View(p)' = View(p)
  BY <1>1, Inside DEF View
<1>3. /\ d.pc = "append" /\ d.pending = c.pending
      /\ \A u \in Threads \ {t} : call'[u] = call[u]
  BY <1>1 DEF RecoverRead, IInv, TypeOK, Call
<1>4. RecoverProgress(c, disk, View(p))
  BY <1>1 DEF ContractInv, InContract
<1> HIDE DEF d
<1>5. RecoverProgress(d, disk, View(p))
  BY <1>3, <1>4 DEF RecoverProgress
<1>6. InContract(d, disk', View(p)')
  BY <1>1, <1>2, <1>3, <1>5 DEF InContract
<1> QED
  BY <1>1, <1>2, <1>3, <1>6, ContractStep DEF d, Silent

\* A turn of recovery does to the view what the contract does for that row.
LEMMA RecoverTurnContract ==
    ASSUME IInv, ChainInv, ContractInv, SqliteLedgerAssumption, SingleProcess,
           NEW t \in Threads, RecoverFlag(t) \/ RecoverAppend(t)
    PROVE  ContractInv' /\ Silent
<1> DEFINE p == ProcessOf[t]
           c == call[t]
           d == call'[t]
<1>1. /\ c \in Call /\ c.pc \in {"recover", "append"} /\ disk \in Db
      /\ UNCHANGED <<disk, acked>>
  BY DEF RecoverFlag, RecoverAppend, IInv, TypeOK
<1>2. p \in Processes /\ lock[p] = t
  BY <1>1, Inside
<1>3. PICK id \in c.pending :
          /\ \A j \in c.pending : id <= j
          /\ Write(p, RecoverStaged(View(p), id))
          /\ call' = [call EXCEPT ![t].pc = "recover", ![t].pending = @ \ {id}]
  <2>1. CASE RecoverFlag(t)
    <3>1. PICK id \in c.pending :
              /\ RowAt(t, id) /\ InLedger(t, id)
              /\ Write(p, FlagRow(View(p), id))
              /\ call' = [call EXCEPT ![t].pending = @ \ {id}]
      BY <2>1 DEF RecoverFlag
    <3>2. c.pc = "recover"
      BY <2>1 DEF RecoverFlag
    <3>3. call' = [call EXCEPT ![t].pc = "recover", ![t].pending = @ \ {id}]
      BY <1>1, <3>1, <3>2 DEF IInv, TypeOK, Call
    <3>4. RecoverStaged(View(p), id) = FlagRow(View(p), id)
      BY <3>1 DEF InLedger, RecoverStaged
    <3> QED
      BY <3>1, <3>3, <3>4 DEF RowAt
  <2>2. CASE RecoverAppend(t)
    <3>1. PICK id \in c.pending :
              /\ RowAt(t, id) /\ ~InLedger(t, id)
              /\ Write(p, PromoteRow(View(p), id, c.prev))
              /\ call' = [call EXCEPT ![t].pc = "recover", ![t].pending = @ \ {id}]
      BY <2>2 DEF RecoverAppend
    <3>2. c.prev = last_hash(View(p).ledger)
      BY <2>2 DEF RecoverAppend, ChainInv
    <3>3. RecoverStaged(View(p), id) = PromoteRow(View(p), id, c.prev)
      BY <3>1, <3>2 DEF InLedger, RecoverStaged
    <3> QED
      BY <3>1, <3>3 DEF RowAt
  <2> QED
    BY <2>1, <2>2
<1>4. View(p)' = RecoverStaged(View(p), id)
  BY <1>2, <1>3 DEF Write, View, IInv, TypeOK
<1>5. /\ d.pc = "recover" /\ d.pending = c.pending \ {id}
      /\ \A u \in Threads \ {t} : call'[u] = call[u]
  BY <1>1, <1>3 DEF IInv, TypeOK, Call
<1>6. RecoverProgress(c, disk, View(p))
  BY <1>1 DEF ContractInv, InContract
<1> HIDE DEF d
<1>7. RecoverProgress(d, disk, View(p)')
  BY <1>1, <1>3, <1>4, <1>5, <1>6, RecoverProgressTurn
<1>8. InContract(d, disk', View(p)')
  BY <1>1, <1>5, <1>7 DEF InContract
<1> QED
  BY <1>1, <1>2, <1>5, <1>8, ContractStep DEF d, Silent

\* The commit is the method: every staged row, in order.
LEMMA RecoverCommitContract ==
    ASSUME IInv, ContractInv, SqliteLedgerAssumption, SingleProcess,
           NEW t \in Threads, RecoverCommit(t)
    PROVE  ContractInv' /\ Contract!Next
<1> DEFINE p == ProcessOf[t]
<1>1. /\ call[t].pc = "recover" /\ call[t].pending = {} /\ disk \in Db
      /\ Commit(p) /\ Return(t) /\ UNCHANGED acked
  BY DEF RecoverCommit, IInv, TypeOK
<1>2. p \in Processes /\ lock[p] = t /\ disk' = View(p)
  BY <1>1, Inside DEF Commit
<1>3. call'[t].pc = "idle" /\ \A u \in Threads \ {t} : call'[u] = call[u]
  BY <1>1, <1>2, ReturnFacts
<1>4. RecoverProgress(call[t], disk, View(p))
  BY <1>1 DEF ContractInv, InContract
<1>5. View(p) = AfterRows(disk, Len(disk.wal_staging))
  BY <1>1, <1>4, RecoverProgressEnds
<1>6. Contract!recover_uncommitted
  BY <1>1, <1>2, <1>5, SameRows DEF Contract!recover_uncommitted
<1>7. InContract(call'[t], disk', View(p)')
  BY <1>3 DEF InContract
<1> QED
  BY <1>2, <1>3, <1>6, <1>7, ContractStep DEF Contract!Next

\* An exception: the caller gets no reply and the tables are as they were.
LEMMA FailureContract ==
    ASSUME IInv, SqliteLedgerAssumption, SingleProcess, NEW t \in Threads,
           ConstraintFails(t) \/ BusyTimeout(t) \/ StatementFails(t)
    PROVE  ContractInv' /\ Silent
<1> DEFINE p == ProcessOf[t]
<1>1. call[t].pc # "idle" /\ Rollback(t)
  BY DEF ConstraintFails, BusyTimeout, StatementFails, NewItem, AtItem
<1>2. p \in Processes /\ lock[p] = t /\ Return(t) /\ UNCHANGED <<disk, acked>>
  BY <1>1, Inside DEF Rollback
<1>3. call'[t].pc = "idle" /\ \A u \in Threads \ {t} : call'[u] = call[u]
  BY <1>1, <1>2, ReturnFacts
<1>4. InContract(call'[t], disk', View(p)')
  BY <1>3 DEF InContract
<1> QED
  BY <1>2, <1>3, <1>4, ContractStep DEF Silent

\* Every step of one process is a method of the contract, or silent.
LEMMA StepContract ==
    ASSUME IInv, ChainInv, ContractInv, SqliteLedgerAssumption, SingleProcess, [Next]_vars
    PROVE  ContractInv' /\ (Contract!Next \/ Silent)
<1>1. ASSUME NEW t \in Threads,
             \/ \E s \in Stagings : Stage(t, s)
             \/ \E batch \in Batches : AckBegin(t, batch)
             \/ RecoverBegin(t)
             \/ StatementFails(t)
      PROVE  ContractInv' /\ (Contract!Next \/ Silent)
  BY <1>1, StageContract, AckBeginContract, RecoverBeginContract, FailureContract
<1>2. ASSUME NEW t \in Threads, Proceed(t)
      PROVE  ContractInv' /\ (Contract!Next \/ Silent)
  <2>1. CASE AckDuplicate(t) \/ AckInsert(t) \/ AckCommit(t) \/ AckAnswer(t)
    BY <2>1, AckDuplicateContract, AckInsertContract, AckCommitContract, AckAnswerContract
  <2>2. CASE RecoverFlag(t) \/ RecoverRead(t) \/ RecoverAppend(t) \/ RecoverCommit(t)
    BY <2>2, RecoverTurnContract, RecoverReadContract, RecoverCommitContract
  <2>3. CASE ConstraintFails(t) \/ BusyTimeout(t)
    BY <2>3, FailureContract
  <2> QED
    BY <1>2, <2>1, <2>2, <2>3 DEF Proceed
<1>3. ASSUME NEW p \in Processes, Crash(p)
      PROVE  ContractInv' /\ Silent
  <2>1. \A t \in Threads : call'[t].pc = "idle"
    BY <1>3 DEF Crash, IdleCall, SingleProcess, SqliteLedgerAssumption
  <2>2. ContractInv'
    BY <2>1 DEF ContractInv, InContract
  <2> QED
    BY <1>3, <2>2 DEF Crash, Silent
<1>4. CASE UNCHANGED vars
  <2>1. /\ UNCHANGED <<disk, acked, call>>
        /\ \A p \in Processes : View(p)' = View(p)
    BY <1>4 DEF vars, View
  <2>2. \A t \in Threads : ProcessOf[t] \in Processes
    BY DEF SqliteLedgerAssumption
  <2> QED
    BY <2>1, <2>2 DEF ContractInv, Silent
<1> QED
  BY <1>1, <1>2, <1>3, <1>4 DEF Next, ThreadStep

\* The statements of stage_partial, acknowledge_writes_batch and recover_uncommitted,
\* with any threads, faults and crashes, implement the atomic methods that
\* crash-semantics.md and ADR 0002 promise, when one process has the file.
THEOREM StatementsImplementContract ==
    ASSUME SingleProcess
    PROVE  Spec => ImplementsContract
<1>1. Init => ContractInv
  BY DEF Init, ContractInv, InContract, IdleCall
<1>2. IInv /\ ChainInv /\ ContractInv /\ [Next]_vars =>
          ContractInv' /\ [Contract!Next]_<<disk, acked>>
  BY StepContract, SqliteLedgerAssumption DEF Silent
<1>3. Init => Contract!Init
  BY SameTables DEF Init, Contract!Init
<1> QED
  BY <1>1, <1>2, <1>3, Invariant, ChainInvariant, PTL
     DEF Spec, ImplementsContract, Contract!Spec, Contract!vars
=============================================================================
