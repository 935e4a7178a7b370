------------------------- MODULE PostgresLedgerProofs -------------------------
(***************************************************************************)
(* Proofs about PostgresLedger for every set of events, payloads, keys,    *)
(* processes and threads, every pool, every batch and any number of faults.*)
(* The chain's theorem needs no assumption on the number of processes.     *)
(***************************************************************************)
EXTENDS PostgresLedger, VaultTablesProofs

-----------------------------------------------------------------------------
(* Keeps. *)

\* What a statement group extends, it keeps.
LEMMA KeepsOfExtends ==
    ASSUME NEW a \in Db, NEW b \in Db, Extends(a, b)
    PROVE  Keeps(a, b) /\ DOMAIN a.wal_staging \subseteq DOMAIN b.wal_staging
<1>1. DOMAIN a.wal_staging \subseteq DOMAIN b.wal_staging
  BY DEF Extends, Db
<1> QED
  BY <1>1 DEF Extends, Keeps

LEMMA KeepsRefl ==
    ASSUME NEW db \in Db
    PROVE  Keeps(db, db)
BY ExtendsRefl, KeepsOfExtends

LEMMA KeepsTrans ==
    ASSUME NEW a \in Db, NEW b \in Db, NEW c \in Db, Keeps(a, b), Keeps(b, c)
    PROVE  Keeps(a, c)
<1>1. /\ Len(a.ledger) <= Len(c.ledger)
      /\ DOMAIN a.ledger \subseteq DOMAIN b.ledger
  BY DEF Keeps, Db
<1>2. \A i \in DOMAIN a.ledger : c.ledger[i] = a.ledger[i]
  BY <1>1 DEF Keeps
<1>3. ASSUME NEW i \in DOMAIN a.wal_staging
      PROVE  \E j \in DOMAIN c.wal_staging :
                /\ c.wal_staging[j].event_id = a.wal_staging[i].event_id
                /\ c.wal_staging[j].payload = a.wal_staging[i].payload
                /\ a.wal_staging[i].committed => c.wal_staging[j].committed
  <2>1. PICK k \in DOMAIN b.wal_staging :
                /\ b.wal_staging[k].event_id = a.wal_staging[i].event_id
                /\ b.wal_staging[k].payload = a.wal_staging[i].payload
                /\ a.wal_staging[i].committed => b.wal_staging[k].committed
    BY DEF Keeps
  <2>2. PICK j \in DOMAIN c.wal_staging :
                /\ c.wal_staging[j].event_id = b.wal_staging[k].event_id
                /\ c.wal_staging[j].payload = b.wal_staging[k].payload
                /\ b.wal_staging[k].committed => c.wal_staging[j].committed
    BY DEF Keeps
  <2> QED
    BY <2>1, <2>2
<1>4. a.idempotency \subseteq c.idempotency
  BY DEF Keeps
<1> QED
  BY <1>1, <1>2, <1>3, <1>4 DEF Keeps

\* A row staged under a transaction is kept by it: when the committed tables gain
\* the row, what the transaction sees gains it too, or has it already.
LEMMA KeepsStage ==
    ASSUME NEW a \in Db, NEW b \in Db, Keeps(a, b), NEW e \in EventId, NEW p \in Payload,
           e \in EventsOf(a.wal_staging) \/ e \notin EventsOf(b.wal_staging)
    PROVE  Keeps(StageRow(a, e, p), StageRow(b, e, p))
<1> DEFINE c == StageRow(a, e, p)
           d == StageRow(b, e, p)
<1>1. c \in Db /\ d \in Db /\ Extends(b, d)
  BY StageRowFacts
<1>2. CASE e \in EventsOf(a.wal_staging)
  <2>1. c = a
    BY <1>2 DEF StageRow, InsertOrIgnore, Db
  <2> QED
    BY <1>1, <2>1, KeepsOfExtends, KeepsTrans
<1>3. CASE e \notin EventsOf(a.wal_staging) /\ e \notin EventsOf(b.wal_staging)
  <2> DEFINE row == [event_id |-> e, payload |-> p, committed |-> FALSE]
  <2>1. /\ c.wal_staging = Append(a.wal_staging, row)
        /\ d.wal_staging = Append(b.wal_staging, row)
        /\ c.idempotency = a.idempotency /\ c.ledger = a.ledger
        /\ d.idempotency = b.idempotency /\ d.ledger = b.ledger
    BY <1>3 DEF StageRow, InsertOrIgnore, Db
  <2>2. a.wal_staging \in Seq(WalRow) /\ b.wal_staging \in Seq(WalRow)
    BY DEF Db
  <2> HIDE DEF row
  <2>3. /\ DOMAIN c.wal_staging = DOMAIN a.wal_staging \cup {Len(a.wal_staging) + 1}
        /\ \A i \in DOMAIN a.wal_staging : c.wal_staging[i] = a.wal_staging[i]
        /\ c.wal_staging[Len(a.wal_staging) + 1] = row
        /\ DOMAIN d.wal_staging = DOMAIN b.wal_staging \cup {Len(b.wal_staging) + 1}
        /\ \A i \in DOMAIN b.wal_staging : d.wal_staging[i] = b.wal_staging[i]
        /\ d.wal_staging[Len(b.wal_staging) + 1] = row
    BY <2>1, <2>2
  <2> HIDE DEF c, d
  <2>4. ASSUME NEW i \in DOMAIN c.wal_staging
        PROVE  \E j \in DOMAIN d.wal_staging :
                  /\ d.wal_staging[j].event_id = c.wal_staging[i].event_id
                  /\ d.wal_staging[j].payload = c.wal_staging[i].payload
                  /\ c.wal_staging[i].committed => d.wal_staging[j].committed
    <3>1. CASE i \in DOMAIN a.wal_staging
      BY <2>3, <3>1 DEF Keeps
    <3>2. CASE i = Len(a.wal_staging) + 1
      BY <2>3, <3>2
    <3> QED
      BY <2>3, <3>1, <3>2
  <2> QED
    BY <2>1, <2>4 DEF Keeps, c, d
<1> QED
  BY <1>2, <1>3

-----------------------------------------------------------------------------
(* The shapes of a step. *)

\* One thread's step.  It has the lock afterwards exactly if it is inside a
\* locked method; what it leaves in the tables must be in order.
LEMMA ThreadStep ==
    ASSUME IInv, PostgresLedgerAssumption, NEW t \in Threads,
           call' = [call EXCEPT ![t] = call'[t]], call'[t] \in Call,
           faults' \in 0..MaxFaults,
           IF call'[t].pc \in {"ack", "recover"}
           THEN holder \in {t, NoThread} /\ holder' = t
           ELSE holder' = IF holder = t THEN NoThread ELSE holder,
           disk' \in Db, Keeps(disk, disk'), Consistent(disk'),
           verify_integrity(disk'.ledger),
           txn' \in Db, Keeps(disk', txn'), Consistent(txn'),
           verify_integrity(txn'.ledger),
           holder' = NoThread => txn' = disk',
           holder \notin {t, NoThread} => txn' = txn,
           call'[t].pc = "ack_lock" => call'[t].replies = {},
           call'[t].pc = "ack" =>
              call'[t].existing \cup call'[t].replies \subseteq txn'.idempotency,
           call'[t].pc = "answer" => call'[t].replies \subseteq disk'.idempotency,
           call'[t].pc = "recover" => call'[t].pending \subseteq DOMAIN txn'.wal_staging,
           acked' \subseteq disk'.idempotency
    PROVE  IInv'
<1>1. call \in [Threads -> Call] /\ \A u \in Threads \ {t} : call'[u] = call[u]
  BY DEF IInv, TypeOK
<1>2. acked' \subseteq IdempotencyRow
  BY DEF Db
<1>3. TypeOK'
  BY <1>1, <1>2 DEF IInv, TypeOK
<1>4. HolderIsInside'
  <2> SUFFICES ASSUME NEW u \in Threads
               PROVE  call'[u].pc \in {"ack", "recover"} <=> holder' = u
    BY DEF HolderIsInside
  <2>1. call[u].pc \in {"ack", "recover"} <=> holder = u
    BY DEF IInv, HolderIsInside
  <2> QED
    BY <1>1, <2>1 DEF PostgresLedgerAssumption
<1>5. TransactionOfHolder'
  BY DEF TransactionOfHolder
<1>6. ASSUME NEW u \in Threads \ {t}
      PROVE  /\ call'[u].pc = "ack_lock" => call'[u].replies = {}
             /\ call'[u].pc = "ack" =>
                    call'[u].existing \cup call'[u].replies \subseteq txn'.idempotency
             /\ call'[u].pc = "answer" => call'[u].replies \subseteq disk'.idempotency
             /\ call'[u].pc = "recover" =>
                    call'[u].pending \subseteq DOMAIN txn'.wal_staging
  <2>1. call'[u] = call[u]
    BY <1>1
  <2>2. CASE call[u].pc \in {"ack", "recover"}
    <3>1. holder = u /\ u \notin {t, NoThread}
      BY <2>2 DEF IInv, HolderIsInside, PostgresLedgerAssumption
    <3> QED
      BY <2>1, <2>2, <3>1 DEF IInv, LocalsAreSeen
  <2>3. CASE call[u].pc \in {"ack_lock", "answer"}
    BY <2>1, <2>3 DEF IInv, LocalsAreSeen, Keeps
  <2> QED
    BY <2>1, <2>2, <2>3
<1>7. LocalsAreSeen'
  BY <1>6 DEF LocalsAreSeen
<1> QED
  BY <1>3, <1>4, <1>5, <1>7 DEF IInv

\* A step that leaves the tables and the lock alone: the thread is outside the
\* locked methods before and after.
LEMMA OutsideStep ==
    ASSUME IInv, PostgresLedgerAssumption, NEW t \in Threads,
           call' = [call EXCEPT ![t] = call'[t]], call'[t] \in Call,
           faults' \in 0..MaxFaults,
           UNCHANGED <<disk, holder, txn>>,
           call[t].pc \notin {"ack", "recover"},
           call'[t].pc \in {"idle", "stage", "ack_lock", "recover_lock"},
           call'[t].pc = "ack_lock" => call'[t].replies = {},
           acked' \subseteq disk.idempotency
    PROVE  IInv' /\ Keeps(disk, disk')
<1>1. holder # t
  BY DEF IInv, HolderIsInside
<1>2. Keeps(disk, disk')
  BY KeepsRefl DEF IInv, TypeOK
<1> QED
  BY <1>1, <1>2, ThreadStep DEF IInv, TypeOK, TransactionOfHolder

\* A step of the holder inside its transaction.
LEMMA InsideStep ==
    ASSUME IInv, PostgresLedgerAssumption, NEW t \in Threads,
           call' = [call EXCEPT ![t] = call'[t]], call'[t] \in Call,
           UNCHANGED <<disk, acked, faults>>,
           holder \in {t, NoThread}, holder' = t,
           call'[t].pc \in {"ack", "recover"},
           txn' \in Db, Extends(txn, txn'), Consistent(txn'), verify_integrity(txn'.ledger),
           call'[t].pc = "ack" =>
              call'[t].existing \cup call'[t].replies \subseteq txn'.idempotency,
           call'[t].pc = "recover" => call'[t].pending \subseteq DOMAIN txn'.wal_staging
    PROVE  IInv' /\ Keeps(disk, disk')
<1>1. disk \in Db /\ txn \in Db /\ Keeps(disk, txn)
  BY DEF IInv, TypeOK, TransactionOfHolder
<1>2. Keeps(disk, disk') /\ Keeps(disk', txn')
  BY <1>1, KeepsRefl, KeepsOfExtends, KeepsTrans
<1>3. holder' # NoThread
  BY DEF PostgresLedgerAssumption
<1> QED
  BY <1>1, <1>2, <1>3, ThreadStep DEF IInv, TypeOK

\* The holder commits and leaves the transaction.
LEMMA CommitStep ==
    ASSUME IInv, PostgresLedgerAssumption, NEW t \in Threads,
           call[t].pc \in {"ack", "recover"}, Commit,
           call' = [call EXCEPT ![t] = call'[t]], call'[t] \in Call,
           faults' \in 0..MaxFaults, UNCHANGED acked,
           call'[t].pc \in {"idle", "answer"},
           call'[t].pc = "answer" => call'[t].replies \subseteq txn.idempotency
    PROVE  IInv' /\ Keeps(disk, disk')
<1>1. holder = t
  BY DEF IInv, HolderIsInside
<1>2. disk' = txn /\ holder' = NoThread /\ txn' = txn
  BY DEF Commit
<1>3. txn \in Db /\ Keeps(disk, txn) /\ Keeps(txn, txn)
  BY KeepsRefl DEF IInv, TypeOK, TransactionOfHolder
<1>4. acked' \subseteq disk'.idempotency
  BY <1>2, <1>3 DEF IInv, Keeps
<1> QED
  BY <1>1, <1>2, <1>3, <1>4, ThreadStep DEF IInv, TransactionOfHolder

\* Threads leave their methods, and the holder among them rolls back.
LEMMA AbortStep ==
    ASSUME IInv, PostgresLedgerAssumption, NEW ts \in SUBSET Threads,
           Abort(ts), faults' \in 0..MaxFaults
    PROVE  IInv' /\ Keeps(disk, disk')
<1>1. IdleCall \in Call /\ IdleCall.pc = "idle"
  BY DEF IdleCall, Call
<1>2. /\ \A u \in Threads : call'[u] = IF u \in ts THEN IdleCall ELSE call[u]
      /\ disk' = disk /\ acked' = acked
      /\ holder' = IF holder \in ts THEN NoThread ELSE holder
      /\ txn' = IF holder \in ts THEN disk ELSE txn
  BY DEF Abort
<1>3. TypeOK'
  BY <1>1 DEF IInv, TypeOK, Abort
<1>4. HolderIsInside'
  BY <1>1, <1>2 DEF IInv, HolderIsInside, PostgresLedgerAssumption
<1>5. Keeps(disk, disk)
  BY KeepsRefl DEF IInv, TypeOK
<1>6. TransactionOfHolder'
  BY <1>2, <1>5 DEF IInv, TransactionOfHolder
<1>7. LocalsAreSeen'
  <2> SUFFICES ASSUME NEW u \in Threads
               PROVE  /\ call'[u].pc = "ack_lock" => call'[u].replies = {}
                      /\ call'[u].pc = "ack" =>
                            call'[u].existing \cup call'[u].replies \subseteq txn'.idempotency
                      /\ call'[u].pc = "answer" =>
                            call'[u].replies \subseteq disk'.idempotency
                      /\ call'[u].pc = "recover" =>
                            call'[u].pending \subseteq DOMAIN txn'.wal_staging
    BY DEF LocalsAreSeen
  <2>1. CASE u \in ts
    BY <1>1, <1>2, <2>1
  <2>2. CASE u \notin ts
    BY <1>2, <2>2 DEF IInv, LocalsAreSeen, HolderIsInside
  <2> QED
    BY <2>1, <2>2
<1> QED
  BY <1>2, <1>3, <1>4, <1>5, <1>6, <1>7 DEF IInv

-----------------------------------------------------------------------------
(* One lemma per action. *)

LEMMA InitInv == PostgresLedgerAssumption /\ Init => IInv
<1> SUFFICES ASSUME PostgresLedgerAssumption, Init
             PROVE  IInv
  OBVIOUS
<1>1. EmptyDb \in Db
  BY DEF EmptyDb, Db
<1>2. IdleCall \in Call /\ IdleCall.pc = "idle"
  BY DEF IdleCall, Call
<1>3. Consistent(EmptyDb)
  BY DEF EmptyDb, Consistent, WalCoversLedger, KeysAreLedgered, UniqueRows,
         PromotedPayloads, EventsOf, CommittedEvents
<1>4. verify_integrity(EmptyDb.ledger)
  BY DEF EmptyDb, verify_integrity
<1>5. TypeOK
  BY <1>1, <1>2 DEF Init, TypeOK, PostgresLedgerAssumption
<1>6. \A t \in Threads : call[t].pc = "idle" /\ holder # t
  BY <1>2 DEF Init, PostgresLedgerAssumption
<1>7. Keeps(disk, txn)
  BY <1>1, KeepsRefl DEF Init
<1> QED
  BY <1>3, <1>4, <1>5, <1>6, <1>7
     DEF Init, IInv, HolderIsInside, TransactionOfHolder, LocalsAreSeen

\* stage_partial commits under whatever transaction is open.
LEMMA StageInv ==
    ASSUME IInv, PostgresLedgerAssumption, NEW t \in Threads, Stage(t)
    PROVE  IInv' /\ Keeps(disk, disk')
<1>0. PICK s \in call[t].staging :
          /\ call[t].pc = "stage"
          /\ ~Inserting(s.event_id)
          /\ disk' = StageRow(disk, s.event_id, s.payload)
          /\ txn' = StageRow(txn, s.event_id, s.payload)
          /\ call' = [call EXCEPT ![t] = IdleCall]
          /\ UNCHANGED <<holder, acked, faults>>
  BY DEF Stage, Goto
<1> DEFINE e == s.event_id
           p == s.payload
<1>1. e \in EventId /\ p \in Payload /\ disk \in Db /\ txn \in Db /\ Keeps(disk, txn)
  <2>1. call[t].staging \subseteq Stagings
    BY DEF IInv, TypeOK, Call
  <2> QED
    BY <2>1 DEF PostgresLedgerAssumption, IInv, TypeOK, TransactionOfHolder
<1>2. /\ disk' = StageRow(disk, e, p) /\ txn' = StageRow(txn, e, p)
      /\ UNCHANGED <<holder, acked, faults>>
      /\ e \in EventsOf(disk.wal_staging) \/ e \notin EventsOf(txn.wal_staging)
  BY <1>0 DEF Inserting
<1> HIDE DEF e, p
<1>3. /\ disk' \in Db /\ Extends(disk, disk') /\ Consistent(disk')
      /\ txn' \in Db /\ Extends(txn, txn') /\ Consistent(txn')
  BY <1>1, <1>2, StageRowFacts DEF IInv, TransactionOfHolder
<1>4. Keeps(disk', txn')
  BY <1>1, <1>2, KeepsStage
<1>5. disk'.ledger = disk.ledger /\ txn'.ledger = txn.ledger
  BY <1>1, <1>2 DEF StageRow, Db
<1>6. IdleCall \in Call /\ IdleCall.pc = "idle"
  BY DEF IdleCall, Call
<1>7. /\ TypeOK'
      /\ \A u \in Threads : call'[u] = IF u = t THEN IdleCall ELSE call[u]
  BY <1>0, <1>2, <1>3, <1>6 DEF IInv, TypeOK
<1>8. HolderIsInside'
  BY <1>0, <1>2, <1>6, <1>7 DEF IInv, HolderIsInside
<1>9. TransactionOfHolder'
  BY <1>2, <1>3, <1>4, <1>5 DEF IInv, TransactionOfHolder
<1>10. /\ txn.idempotency \subseteq txn'.idempotency
       /\ disk.idempotency \subseteq disk'.idempotency
       /\ DOMAIN txn.wal_staging \subseteq DOMAIN txn'.wal_staging
       /\ Keeps(disk, disk')
  BY <1>1, <1>3, KeepsOfExtends DEF Extends
<1>11. LocalsAreSeen' /\ acked' \subseteq disk'.idempotency
  BY <1>2, <1>6, <1>7, <1>10 DEF IInv, LocalsAreSeen
<1> QED
  BY <1>2, <1>3, <1>5, <1>7, <1>8, <1>9, <1>10, <1>11 DEF IInv

\* A call borrows a connection: it stages its row or waits for the lock.
LEMMA CallInv ==
    ASSUME IInv, PostgresLedgerAssumption, NEW t \in Threads,
           \/ RecoverCall(t)
           \/ \E batch \in Batches : AckCall(t, batch)
           \/ \E s \in Stagings : StageCall(t, s)
    PROVE  IInv' /\ Keeps(disk, disk')
<1>0. IdleCall \in Call /\ IdleCall.replies = {}
  BY DEF IdleCall, Call
<1>1. /\ call'[t] \in Call /\ call'[t].pc \in {"stage", "ack_lock", "recover_lock"}
      /\ call'[t].replies = {}
      /\ call' = [call EXCEPT ![t] = call'[t]]
  <2> DEFINE Waits(c) == /\ c \in Call /\ c.pc \in {"stage", "ack_lock", "recover_lock"}
                         /\ c.replies = {}
                         /\ call' = [call EXCEPT ![t] = c]
  <2>1. SUFFICES \E c : Waits(c)
    BY DEF IInv, TypeOK
  <2>2. ASSUME RecoverCall(t) PROVE \E c : Waits(c)
    <3> DEFINE c == [IdleCall EXCEPT !.pc = "recover_lock"]
    <3>1. c \in Call /\ c.pc = "recover_lock" /\ c.replies = {}
      BY <1>0 DEF Call
    <3>2. call' = [call EXCEPT ![t] = c]
      BY <2>2 DEF RecoverCall, Goto
    <3> HIDE DEF c
    <3> QED
      BY <3>1, <3>2
  <2>3. ASSUME NEW batch \in Batches, AckCall(t, batch) PROVE \E c : Waits(c)
    <3> DEFINE c == [IdleCall EXCEPT !.pc = "ack_lock", !.items = batch]
    <3>0. batch \in Seq(BatchWriteItem)
      BY DEF PostgresLedgerAssumption
    <3>1. c \in Call /\ c.pc = "ack_lock" /\ c.replies = {}
      BY <1>0, <3>0 DEF Call
    <3>2. call' = [call EXCEPT ![t] = c]
      BY <2>3 DEF AckCall, Goto
    <3> HIDE DEF c
    <3> QED
      BY <3>1, <3>2
  <2>4. ASSUME NEW s \in Stagings, StageCall(t, s) PROVE \E c : Waits(c)
    <3> DEFINE c == [IdleCall EXCEPT !.pc = "stage", !.staging = {s}]
    <3>1. c \in Call /\ c.pc = "stage" /\ c.replies = {}
      BY <1>0 DEF Call
    <3>2. call' = [call EXCEPT ![t] = c]
      BY <2>4 DEF StageCall, Goto
    <3> HIDE DEF c
    <3> QED
      BY <3>1, <3>2
  <2> QED
    BY <2>2, <2>3, <2>4
<1>2. call[t].pc = "idle" /\ UNCHANGED <<disk, holder, txn, acked, faults>>
  BY DEF RecoverCall, AckCall, StageCall, CanBorrow
<1> QED
  BY <1>1, <1>2, OutsideStep DEF IInv, TypeOK

LEMMA AckBeginInv ==
    ASSUME IInv, PostgresLedgerAssumption, NEW t \in Threads, AckBegin(t)
    PROVE  IInv' /\ Keeps(disk, disk')
<1> DEFINE rows == UNION {Claims(txn.idempotency, call[t].items[i].idempotency_key) :
                             i \in DOMAIN call[t].items}
           c == [call[t] EXCEPT !.pc = "ack", !.existing = rows]
<1>1. /\ call[t] \in Call /\ txn \in Db
      /\ holder = NoThread /\ holder' = t
      /\ UNCHANGED <<disk, txn, acked, faults>>
  BY DEF IInv, TypeOK, AckBegin, Lock
<1>2. rows \subseteq txn.idempotency /\ rows \subseteq IdempotencyRow
  BY <1>1 DEF Claims, Db
<1> HIDE DEF rows
<1>3. call' = [call EXCEPT ![t] = c]
  BY DEF AckBegin, Goto, rows
<1>4. /\ c \in Call /\ c.pc = "ack" /\ c.existing = rows
      /\ c.replies = call[t].replies
  BY <1>1, <1>2 DEF Call
<1> HIDE DEF c
<1>5. call'[t] = c
  BY <1>3 DEF IInv, TypeOK
<1>6. /\ txn' \in Db /\ Extends(txn, txn') /\ Consistent(txn')
      /\ verify_integrity(txn'.ledger)
  BY <1>1, ExtendsRefl DEF IInv, TransactionOfHolder
<1>7. call'[t].existing \cup call'[t].replies \subseteq txn'.idempotency
  <2>1. call[t].replies = {}
    BY DEF AckBegin, IInv, LocalsAreSeen
  <2> QED
    BY <1>1, <1>2, <1>4, <1>5, <2>1
<1> QED
  BY <1>1, <1>3, <1>4, <1>5, <1>6, <1>7, InsideStep

LEMMA AckDuplicateInv ==
    ASSUME IInv, PostgresLedgerAssumption, NEW t \in Threads, AckDuplicate(t)
    PROVE  IInv' /\ Keeps(disk, disk')
<1> DEFINE claims == Claims(call[t].existing, Item(t).idempotency_key)
           c == [call[t] EXCEPT !.next = @ + 1, !.replies = @ \cup claims]
<1>1. /\ call[t] \in Call /\ txn \in Db
      /\ call[t].pc = "ack"
      /\ UNCHANGED <<disk, holder, txn, acked, faults>>
  BY DEF IInv, TypeOK, AckDuplicate, AtItem
<1>2. claims \subseteq call[t].existing
  BY DEF Claims
<1>3. call' = [call EXCEPT ![t] = c]
  BY DEF AckDuplicate, Goto
<1> HIDE DEF claims
<1>4. /\ c \in Call /\ c.pc = "ack" /\ c.existing = call[t].existing
      /\ c.replies = call[t].replies \cup claims
  <2>1. /\ call[t].next + 1 \in Nat \ {0}
        /\ call[t].replies \cup claims \in SUBSET IdempotencyRow
    BY <1>1, <1>2 DEF Call
  <2> QED
    BY <1>1, <2>1 DEF Call
<1> HIDE DEF c
<1>5. call'[t] = c
  BY <1>3 DEF IInv, TypeOK
<1>6. /\ txn' \in Db /\ Extends(txn, txn') /\ Consistent(txn')
      /\ verify_integrity(txn'.ledger)
  BY <1>1, ExtendsRefl DEF IInv, TransactionOfHolder
<1>7. call'[t].existing \cup call'[t].replies \subseteq txn'.idempotency
  BY <1>1, <1>2, <1>4, <1>5 DEF IInv, LocalsAreSeen
<1>8. holder = t
  BY <1>1 DEF IInv, HolderIsInside
<1> QED
  BY <1>1, <1>3, <1>4, <1>5, <1>6, <1>7, <1>8, InsideStep

LEMMA ItemType ==
    ASSUME IInv, NEW t \in Threads, AtItem(t)
    PROVE  Item(t) \in BatchWriteItem
<1>1. call[t] \in Call
  BY DEF IInv, TypeOK
<1>2. /\ call[t].items \in Seq(BatchWriteItem)
      /\ call[t].next \in 1..Len(call[t].items)
  BY <1>1 DEF Call, AtItem
<1> QED
  BY <1>2 DEF Item

\* A new item is written whole, chained to the head the transaction reads.
LEMMA AckInsertInv ==
    ASSUME IInv, PostgresLedgerAssumption, NEW t \in Threads, AckInsert(t)
    PROVE  IInv' /\ Keeps(disk, disk')
<1> DEFINE item == Item(t)
           row == RowOf(item)
           c == [call[t] EXCEPT !.next = @ + 1, !.existing = @ \cup {row},
                                !.replies = @ \cup {row}]
<1>1. /\ call[t] \in Call /\ call[t].pc = "ack"
      /\ txn \in Db /\ Consistent(txn) /\ verify_integrity(txn.ledger)
      /\ ~Conflict(txn, item)
      /\ txn' = WriteItem(txn, item)
      /\ UNCHANGED <<disk, holder, acked, faults>>
  BY DEF IInv, TypeOK, TransactionOfHolder, AckInsert, NewItem, AtItem
<1>2. item \in BatchWriteItem
  BY ItemType DEF AckInsert, NewItem
<1>3. call' = [call EXCEPT ![t] = c]
  BY DEF AckInsert, Goto
<1> HIDE DEF item
<1>4. /\ txn' \in Db /\ Extends(txn, txn') /\ Consistent(txn')
      /\ txn'.idempotency = txn.idempotency \cup {row}
      /\ row \in IdempotencyRow
  BY <1>1, <1>2, WriteItemFacts
<1>5. verify_integrity(txn'.ledger)
  <2>1. /\ txn.ledger \in Seq(LedgerEntry)
        /\ item.event_id \in EventId
        /\ item.payload \in Payload
    BY <1>1, <1>2 DEF Db, BatchWriteItem
  <2>2. txn'.ledger = Append(txn.ledger, NewEntry(last_hash(txn.ledger),
                                                  item.event_id, item.payload))
    BY <1>1, <1>2, WriteItemFacts
  <2> QED
    BY <1>1, <2>1, <2>2, AppendKeepsIntegrity
<1> HIDE DEF row
<1>6. /\ c \in Call /\ c.pc = "ack"
      /\ c.existing = call[t].existing \cup {row}
      /\ c.replies = call[t].replies \cup {row}
  <2>1. /\ call[t].next + 1 \in Nat \ {0}
        /\ call[t].existing \cup {row} \in SUBSET IdempotencyRow
        /\ call[t].replies \cup {row} \in SUBSET IdempotencyRow
    BY <1>1, <1>4 DEF Call
  <2> QED
    BY <1>1, <2>1 DEF Call
<1> HIDE DEF c
<1>7. call'[t] = c
  BY <1>3 DEF IInv, TypeOK
<1>8. call[t].existing \cup call[t].replies \subseteq txn.idempotency
  BY <1>1 DEF IInv, LocalsAreSeen
<1>9. holder = t
  BY <1>1 DEF IInv, HolderIsInside
<1> QED
  BY <1>1, <1>3, <1>4, <1>5, <1>6, <1>7, <1>8, <1>9, InsideStep

\* Both methods' commits, whether the answer of the server arrives or not.
LEMMA CommitInv ==
    ASSUME IInv, PostgresLedgerAssumption, NEW t \in Threads,
           AckCommit(t) \/ RecoverCommit(t) \/ CommitReplyLost(t)
    PROVE  IInv' /\ Keeps(disk, disk')
<1>1. call[t] \in Call /\ call[t].pc \in {"ack", "recover"} /\ Commit
  BY DEF IInv, TypeOK, AckCommit, RecoverCommit, CommitReplyLost, AckDone, RecoverDone
<1>2. faults' \in 0..MaxFaults /\ UNCHANGED acked
  BY DEF IInv, TypeOK, AckCommit, RecoverCommit, CommitReplyLost, Fault,
         PostgresLedgerAssumption
<1>3. CASE AckCommit(t)
  <2> DEFINE c == [call[t] EXCEPT !.pc = "answer"]
  <2>1. call[t].pc = "ack" /\ call' = [call EXCEPT ![t] = c]
    BY <1>3 DEF AckCommit, AckDone, Goto
  <2>2. c \in Call /\ c.pc = "answer" /\ c.replies = call[t].replies
    BY <1>1 DEF Call
  <2> HIDE DEF c
  <2>3. call'[t] = c
    BY <2>1 DEF IInv, TypeOK
  <2>4. call[t].replies \subseteq txn.idempotency
    BY <2>1 DEF IInv, LocalsAreSeen
  <2> QED
    BY <1>1, <1>2, <2>1, <2>2, <2>3, <2>4, CommitStep
<1>4. CASE RecoverCommit(t) \/ CommitReplyLost(t)
  <2>1. call' = [call EXCEPT ![t] = IdleCall]
    BY <1>4 DEF RecoverCommit, CommitReplyLost, Goto
  <2>2. call'[t] = IdleCall /\ IdleCall \in Call /\ IdleCall.pc = "idle"
    BY <2>1 DEF IInv, TypeOK, IdleCall, Call
  <2> QED
    BY <1>1, <1>2, <2>1, <2>2, CommitStep
<1> QED
  BY <1>3, <1>4

\* What the client is told has been committed.
LEMMA AckAnswerInv ==
    ASSUME IInv, PostgresLedgerAssumption, NEW t \in Threads, AckAnswer(t)
    PROVE  IInv' /\ Keeps(disk, disk')
<1>1. /\ call[t].pc = "answer"
      /\ acked' = acked \cup call[t].replies
      /\ call' = [call EXCEPT ![t] = IdleCall]
      /\ UNCHANGED <<disk, holder, txn, faults>>
  BY DEF AckAnswer, Goto
<1>2. call'[t] = IdleCall /\ IdleCall \in Call /\ IdleCall.pc = "idle"
  BY <1>1 DEF IInv, TypeOK, IdleCall, Call
<1>3. acked' \subseteq disk.idempotency
  BY <1>1 DEF IInv, LocalsAreSeen
<1> QED
  BY <1>1, <1>2, <1>3, OutsideStep DEF IInv, TypeOK

LEMMA RecoverBeginInv ==
    ASSUME IInv, PostgresLedgerAssumption, NEW t \in Threads, RecoverBegin(t)
    PROVE  IInv' /\ Keeps(disk, disk')
<1> DEFINE rows == Uncommitted(txn.wal_staging)
           c == [call[t] EXCEPT !.pc = "recover", !.pending = rows]
<1>1. /\ call[t] \in Call /\ txn \in Db
      /\ holder = NoThread /\ holder' = t
      /\ UNCHANGED <<disk, txn, acked, faults>>
  BY DEF IInv, TypeOK, RecoverBegin, Lock
<1>2. rows \subseteq DOMAIN txn.wal_staging /\ DOMAIN txn.wal_staging \subseteq Nat
  BY <1>1 DEF Uncommitted, Db
<1> HIDE DEF rows
<1>3. call' = [call EXCEPT ![t] = c]
  BY DEF RecoverBegin, Goto, rows
<1>4. c \in Call /\ c.pc = "recover" /\ c.pending = rows
  BY <1>1, <1>2 DEF Call
<1> HIDE DEF c
<1>5. call'[t] = c
  BY <1>3 DEF IInv, TypeOK
<1>6. /\ txn' \in Db /\ Extends(txn, txn') /\ Consistent(txn')
      /\ verify_integrity(txn'.ledger)
  BY <1>1, ExtendsRefl DEF IInv, TransactionOfHolder
<1> QED
  BY <1>1, <1>2, <1>3, <1>4, <1>5, <1>6, InsideStep

\* A row is flagged when the ledger has its event, and promoted otherwise.
LEMMA RecoverRowInv ==
    ASSUME IInv, PostgresLedgerAssumption, NEW t \in Threads, RecoverRow(t)
    PROVE  IInv' /\ Keeps(disk, disk')
<1>1. PICK id \in call[t].pending :
          /\ RowAt(t, id)
          /\ txn' = IF txn.wal_staging[id].event_id \in EventsOf(txn.ledger)
                    THEN FlagRow(txn, id)
                    ELSE PromoteRow(txn, id, last_hash(txn.ledger))
          /\ call' = [call EXCEPT ![t] = [call[t] EXCEPT !.pending = @ \ {id}]]
          /\ UNCHANGED <<disk, holder, acked, faults>>
  BY DEF RecoverRow, Goto
<1> DEFINE row == txn.wal_staging[id]
           c == [call[t] EXCEPT !.pending = @ \ {id}]
<1>2. /\ call[t] \in Call /\ call[t].pc = "recover"
      /\ txn \in Db /\ Consistent(txn) /\ verify_integrity(txn.ledger)
  BY <1>1 DEF IInv, TypeOK, TransactionOfHolder, RowAt
<1>3. call[t].pending \subseteq DOMAIN txn.wal_staging /\ id \in DOMAIN txn.wal_staging
  BY <1>1, <1>2 DEF IInv, LocalsAreSeen
<1>4. /\ txn' \in Db /\ Extends(txn, txn') /\ Consistent(txn')
      /\ verify_integrity(txn'.ledger)
  <2>1. CASE row.event_id \in EventsOf(txn.ledger)
    <3>1. txn' = FlagRow(txn, id)
      BY <1>1, <2>1
    <3> QED
      BY <1>2, <1>3, <2>1, <3>1, FlagRowFacts
  <2>2. CASE row.event_id \notin EventsOf(txn.ledger)
    <3>1. txn' = PromoteRow(txn, id, last_hash(txn.ledger))
      BY <1>1, <2>2
    <3>2. txn.ledger \in Seq(LedgerEntry) /\ txn.wal_staging \in Seq(WalRow)
      BY <1>2 DEF Db
    <3>3. last_hash(txn.ledger) \in Digest
      BY <3>2, LastHashType
    <3>4. row \in WalRow
      BY <1>3, <3>2
    <3>5. row.event_id \in EventId /\ row.payload \in Payload
      BY <3>4 DEF WalRow
    <3>6. /\ txn' \in Db /\ Extends(txn, txn') /\ Consistent(txn')
          /\ txn'.ledger = Append(txn.ledger, NewEntry(last_hash(txn.ledger),
                                                       row.event_id, row.payload))
      BY <1>2, <1>3, <2>2, <3>1, <3>3, PromoteRowFacts
    <3>7. verify_integrity(txn'.ledger)
      BY <1>2, <3>2, <3>5, <3>6, AppendKeepsIntegrity
    <3> QED
      BY <3>6, <3>7
  <2> QED
    BY <2>1, <2>2
<1>5. DOMAIN txn.wal_staging \subseteq DOMAIN txn'.wal_staging
  BY <1>2, <1>4, KeepsOfExtends
<1>6. /\ c \in Call /\ c.pc = "recover" /\ c.pending \subseteq call[t].pending
  BY <1>2 DEF Call
<1> HIDE DEF c
<1>7. call' = [call EXCEPT ![t] = c]
  BY <1>1 DEF c
<1>8. call'[t] = c
  BY <1>7 DEF IInv, TypeOK
<1>9. holder = t
  BY <1>2 DEF IInv, HolderIsInside
<1> QED
  BY <1>1, <1>3, <1>4, <1>5, <1>6, <1>7, <1>8, <1>9, InsideStep

\* Failures of a statement, of a constraint, of a process.
LEMMA FailureInv ==
    ASSUME IInv, PostgresLedgerAssumption, NEW ts \in SUBSET Threads, Abort(ts),
           Fault \/ UNCHANGED faults
    PROVE  IInv' /\ Keeps(disk, disk')
<1>1. faults' \in 0..MaxFaults
  BY DEF IInv, TypeOK, Fault, PostgresLedgerAssumption
<1> QED
  BY <1>1, AbortStep

LEMMA StepInv ==
    ASSUME IInv, PostgresLedgerAssumption, [Next]_vars
    PROVE  IInv' /\ Keeps(disk, disk')
<1>1. ASSUME NEW t \in Threads,
             \/ RecoverCall(t)
             \/ \E batch \in Batches : AckCall(t, batch)
             \/ \E s \in Stagings : StageCall(t, s)
      PROVE  IInv' /\ Keeps(disk, disk')
  BY <1>1, CallInv
<1>2. ASSUME NEW t \in Threads, Granted(t)
      PROVE  IInv' /\ Keeps(disk, disk')
  BY <1>2, AckBeginInv, RecoverBeginInv, StageInv DEF Granted
<1>3. ASSUME NEW t \in Threads, ConstraintFails(t) \/ StatementFails(t)
      PROVE  IInv' /\ Keeps(disk, disk')
  <2>1. Abort({t}) /\ (Fault \/ UNCHANGED faults)
    BY <1>3 DEF ConstraintFails, StatementFails
  <2> QED
    BY <2>1, FailureInv
<1>4. ASSUME NEW t \in Threads, Proceed(t)
      PROVE  IInv' /\ Keeps(disk, disk')
  BY <1>3, <1>4, AckDuplicateInv, AckInsertInv, CommitInv, AckAnswerInv, RecoverRowInv
     DEF Proceed
<1>5. ASSUME NEW t \in Threads, CommitReplyLost(t)
      PROVE  IInv' /\ Keeps(disk, disk')
  BY <1>5, CommitInv
<1>6. ASSUME NEW p \in Processes, Crash(p)
      PROVE  IInv' /\ Keeps(disk, disk')
  <2> DEFINE ts == {t \in Threads : ProcessOf[t] = p}
  <2>1. Abort(ts) /\ Fault /\ ts \in SUBSET Threads
    BY <1>6 DEF Crash
  <2> QED
    BY <2>1, FailureInv
<1>7. CASE UNCHANGED vars
  <2>1. IInv'
    BY <1>7 DEF vars, IInv, TypeOK, HolderIsInside, TransactionOfHolder, LocalsAreSeen
  <2>2. Keeps(disk, disk')
    BY <1>7, KeepsRefl DEF vars, IInv, TypeOK
  <2> QED
    BY <2>1, <2>2
<1> QED
  BY <1>1, <1>2, <1>3, <1>4, <1>5, <1>6, <1>7 DEF Next

-----------------------------------------------------------------------------
(* The theorems. *)

\* The inductive invariant holds of every behaviour, with any number of
\* processes on the server.
THEOREM Invariant == Spec => []IInv
<1>1. Init => IInv
  BY InitInv, PostgresLedgerAssumption
<1>2. IInv /\ [Next]_vars => IInv'
  BY StepInv, PostgresLedgerAssumption
<1> QED
  BY <1>1, <1>2, PTL DEF Spec

\* The tables, the lock and the locals keep their types.
THEOREM TypeCorrect == Spec => []TypeOK
<1>1. IInv => TypeOK
  BY DEF IInv
<1> QED
  BY <1>1, Invariant, PTL

\* crash-semantics.md 4, for any number of processes: the advisory lock keeps the
\* head an append or a recovery reads the head until its commit.
THEOREM ChainAlwaysIntact == Spec => []ChainIntact
<1>1. IInv => ChainIntact
  BY DEF IInv, ChainIntact
<1> QED
  BY <1>1, Invariant, PTL

\* crash-semantics.md 3: a reply names a claim and an entry that stay.
THEOREM AckedNeverLost == Spec => []AckedDurable
<1>1. IInv => AckedDurable
  BY DEF IInv, AckedDurable, Consistent, KeysAreLedgered
<1> QED
  BY <1>1, Invariant, PTL

\* crash-semantics.md 1, 2 and 3 as relations between the committed tables.
THEOREM TablesAlwaysAgree == Spec => []TablesAgree
<1>1. IInv => TablesAgree
  BY DEF IInv, TablesAgree
<1> QED
  BY <1>1, Invariant, PTL

\* No commit, rollback or crash drops or rewrites what is durable, although rows
\* are staged and committed under an open locked transaction.
THEOREM AppendOnly == Spec => HistoryOnlyGrows
<1>1. IInv /\ [Next]_vars => [Keeps(disk, disk')]_vars
  BY StepInv, PostgresLedgerAssumption
<1> QED
  BY <1>1, Invariant, PTL DEF Spec, HistoryOnlyGrows
=============================================================================
