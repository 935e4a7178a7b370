----------------------------- MODULE VaultTables -----------------------------
(***************************************************************************)
(* The three ledger tables of the vault (storage/migrations.py) and what   *)
(* one SQL statement group of the backends does to them.  A table without  *)
(* an order the code relies on is a set of rows; `ledger' and `wal_staging'*)
(* are read ORDER BY their AUTOINCREMENT column, so they are sequences.    *)
(***************************************************************************)
EXTENDS LedgerChain

CONSTANT Key            \* idempotency keys

IdempotencyRow == [idempotency_key : Key, event_id : EventId]

WalRow == [event_id : EventId, payload : Payload, committed : BOOLEAN]

BatchWriteItem ==
    [idempotency_key : Key, event_id : EventId, payload : Payload]

Db == [idempotency : SUBSET IdempotencyRow,
       ledger      : Seq(LedgerEntry),
       wal_staging : Seq(WalRow)]

EmptyDb == [idempotency |-> {}, ledger |-> << >>, wal_staging |-> << >>]

EventsOf(rows) == {rows[i].event_id : i \in DOMAIN rows}

CommittedEvents(wal) ==
    {wal[i].event_id : i \in {j \in DOMAIN wal : wal[j].committed}}

\* SELECT ... FROM wal_staging WHERE committed=0, by row id.
Uncommitted(wal) == {i \in DOMAIN wal : ~wal[i].committed}

\* INSERT OR IGNORE INTO wal_staging ... VALUES (event_id, payload, 0).
InsertOrIgnore(wal, event_id, payload) ==
    IF event_id \in EventsOf(wal)
    THEN wal
    ELSE Append(wal, [event_id  |-> event_id,
                      payload   |-> payload,
                      committed |-> FALSE])

\* UPDATE wal_staging SET committed=1 WHERE event_id=...
MarkCommitted(wal, event_id) ==
    [i \in DOMAIN wal |->
        IF wal[i].event_id = event_id
        THEN [wal[i] EXCEPT !.committed = TRUE]
        ELSE wal[i]]

RowOf(item) ==
    [idempotency_key |-> item.idempotency_key, event_id |-> item.event_id]

\* The PRIMARY KEY and UNIQUE constraints the INSERTs of one batch item meet.
Conflict(db, item) ==
    \/ \E r \in db.idempotency : \/ r.idempotency_key = item.idempotency_key
                                 \/ r.event_id = item.event_id
    \/ item.event_id \in EventsOf(db.ledger)

\* Mutant: the UPDATE of wal_staging is missing.
WriteItemUnflagged(db, item) ==
    [idempotency |-> db.idempotency \cup {RowOf(item)},
     ledger      |-> Append(db.ledger,
                            NewEntry(last_hash(db.ledger), item.event_id, item.payload)),
     wal_staging |-> InsertOrIgnore(db.wal_staging, item.event_id, item.payload)]

\* The four writes of a batch item that is not a duplicate.
WriteItem(db, item) ==
    [idempotency |-> db.idempotency \cup {RowOf(item)},
     ledger      |-> Append(db.ledger,
                            NewEntry(last_hash(db.ledger), item.event_id, item.payload)),
     wal_staging |-> MarkCommitted(
                         InsertOrIgnore(db.wal_staging, item.event_id, item.payload),
                         item.event_id)]

\* Mutant: rows are staged with committed=1.
StageRowCommitted(db, event_id, payload) ==
    [db EXCEPT !.wal_staging = MarkCommitted(InsertOrIgnore(@, event_id, payload), event_id)]

\* The INSERT of stage_partial.
StageRow(db, event_id, payload) ==
    [db EXCEPT !.wal_staging = InsertOrIgnore(@, event_id, payload)]

\* Recovery of a staged row that the ledger already holds: only the flag is set.
FlagRow(db, id) ==
    [db EXCEPT !.wal_staging = MarkCommitted(@, db.wal_staging[id].event_id)]

\* Recovery of a staged row: append it after the head `prev', then set the flag.
PromoteRow(db, id, prev) ==
    LET row == db.wal_staging[id]
    IN  [FlagRow(db, id) EXCEPT !.ledger =
            Append(@, NewEntry(prev, row.event_id, row.payload))]

-----------------------------------------------------------------------------
(* What the statements of a method come to. *)

Claimed(db, item) ==
    \E r \in db.idempotency : r.idempotency_key = item.idempotency_key

\* A batch item whose key is claimed is a duplicate and writes nothing.
AcknowledgeItem(db, item) == IF Claimed(db, item) THEN db ELSE WriteItem(db, item)

\* After the first n items of a batch.
AfterItems(db, batch, n) ==
    LET After[i \in 0..Len(batch)] ==
            IF i = 0 THEN db ELSE AcknowledgeItem(After[i - 1], batch[i])
    IN  After[n]

RecoverStaged(db, id) ==
    IF db.wal_staging[id].event_id \in EventsOf(db.ledger)
    THEN FlagRow(db, id)
    ELSE PromoteRow(db, id, last_hash(db.ledger))

\* After recovery has been through the first n rows of wal_staging: it takes the ones
\* that were not committed when it began.
AfterRows(db, n) ==
    LET After[i \in 0..Len(db.wal_staging)] ==
            IF i = 0 THEN db
            ELSE IF db.wal_staging[i].committed THEN After[i - 1]
            ELSE RecoverStaged(After[i - 1], i)
    IN  After[n]

-----------------------------------------------------------------------------
(* What the tables owe one another. *)

\* An event is in the ledger exactly when its staging row is flagged committed:
\* recovery neither misses a staged event nor appends one twice.
WalCoversLedger(db) == EventsOf(db.ledger) = CommittedEvents(db.wal_staging)

\* A claimed idempotency key stands for an event the ledger holds.
KeysAreLedgered(db) ==
    \A r \in db.idempotency : r.event_id \in EventsOf(db.ledger)

\* A key claims one event, an event has one key, one ledger entry, one staging
\* row.
UniqueRows(db) ==
    /\ \A r, s \in db.idempotency :
          (r.idempotency_key = s.idempotency_key \/ r.event_id = s.event_id) => r = s
    /\ \A i, j \in DOMAIN db.ledger :
          db.ledger[i].event_id = db.ledger[j].event_id => i = j
    /\ \A i, j \in DOMAIN db.wal_staging :
          db.wal_staging[i].event_id = db.wal_staging[j].event_id => i = j

\* An entry no key claims was promoted by recovery and carries the payload that
\* was staged, not one made up or merged at recovery time.
PromotedPayloads(db) ==
    \A i \in DOMAIN db.ledger :
        \/ \E r \in db.idempotency : r.event_id = db.ledger[i].event_id
        \/ \E j \in DOMAIN db.wal_staging :
               /\ db.wal_staging[j].event_id = db.ledger[i].event_id
               /\ db.wal_staging[j].payload = db.ledger[i].payload

Consistent(db) ==
    /\ WalCoversLedger(db)
    /\ KeysAreLedgered(db)
    /\ UniqueRows(db)
    /\ PromotedPayloads(db)

\* `new' keeps everything `old' holds: claims, ledger entries in their places,
\* staged rows and their flags.
Extends(old, new) ==
    /\ old.idempotency \subseteq new.idempotency
    /\ Len(old.ledger) <= Len(new.ledger)
    /\ \A i \in DOMAIN old.ledger : new.ledger[i] = old.ledger[i]
    /\ Len(old.wal_staging) <= Len(new.wal_staging)
    /\ \A i \in DOMAIN old.wal_staging :
          /\ new.wal_staging[i].event_id = old.wal_staging[i].event_id
          /\ new.wal_staging[i].payload = old.wal_staging[i].payload
          /\ old.wal_staging[i].committed => new.wal_staging[i].committed
=============================================================================
