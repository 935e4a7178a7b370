--------------------------- MODULE VaultTablesProofs ---------------------------
(***************************************************************************)
(* What each group of statements of VaultTables preserves, for every set   *)
(* of events, payloads and keys: types, the relations between the tables,  *)
(* and everything the tables held before.  Then what the operators of the  *)
(* community modules compute, by induction over sets of numbers, and with  *)
(* it what the calls of OpenLineage write, for every event.                *)
(***************************************************************************)
EXTENDS VaultTables, OpenLineage, SequenceTheorems, FiniteSetTheorems, TLAPS

\* Appending a row adds its event to the events of a table.
LEMMA EventsOfAppend ==
    ASSUME NEW R, NEW rows \in Seq(R), NEW row \in R
    PROVE  EventsOf(Append(rows, row)) = EventsOf(rows) \cup {row.event_id}
<1> DEFINE new == Append(rows, row)
<1>1. /\ DOMAIN new = DOMAIN rows \cup {Len(rows) + 1}
      /\ \A i \in DOMAIN rows : new[i] = rows[i]
      /\ new[Len(rows) + 1] = row
  OBVIOUS
<1> QED
  BY <1>1 DEF EventsOf

\* INSERT OR IGNORE: the event has a row afterwards, every old row is in place,
\* and no flag changed.
LEMMA InsertOrIgnoreFacts ==
    ASSUME NEW wal \in Seq(WalRow), NEW e \in EventId, NEW p \in Payload
    PROVE  LET new == InsertOrIgnore(wal, e, p) IN
           /\ new \in Seq(WalRow)
           /\ Len(wal) <= Len(new)
           /\ \A i \in DOMAIN wal : new[i] = wal[i]
           /\ \A i \in DOMAIN new \ DOMAIN wal :
                 new[i] = [event_id |-> e, payload |-> p, committed |-> FALSE]
           /\ DOMAIN wal \subseteq DOMAIN new
           /\ EventsOf(new) = EventsOf(wal) \cup {e}
           /\ CommittedEvents(new) = CommittedEvents(wal)
<1> DEFINE row == [event_id |-> e, payload |-> p, committed |-> FALSE]
           new == InsertOrIgnore(wal, e, p)
<1>1. row \in WalRow
  BY DEF WalRow
<1>2. CASE e \in EventsOf(wal)
  BY <1>2 DEF InsertOrIgnore
<1>3. CASE e \notin EventsOf(wal)
  <2>1. new = Append(wal, row)
    BY <1>3 DEF InsertOrIgnore
  <2>2. /\ new \in Seq(WalRow)
        /\ Len(new) = Len(wal) + 1
        /\ DOMAIN new = DOMAIN wal \cup {Len(wal) + 1}
        /\ \A i \in DOMAIN wal : new[i] = wal[i]
        /\ new[Len(wal) + 1] = row
    BY <1>1, <2>1
  <2>3. EventsOf(new) = EventsOf(wal) \cup {e}
    BY <2>1, <1>1, EventsOfAppend
  <2>4. CommittedEvents(new) = CommittedEvents(wal)
    BY <2>2 DEF CommittedEvents
  <2>5. \A i \in DOMAIN new \ DOMAIN wal : new[i] = row
    BY <2>2
  <2> HIDE DEF new
  <2>6. Len(wal) \in Nat
    OBVIOUS
  <2> QED
    BY <2>2, <2>3, <2>4, <2>5, <2>6 DEF new
<1> QED
  BY <1>2, <1>3

\* The UPDATE: only flags change, and only those of the event's row.
LEMMA MarkCommittedFacts ==
    ASSUME NEW wal \in Seq(WalRow), NEW e \in EventId
    PROVE  LET new == MarkCommitted(wal, e) IN
           /\ new \in Seq(WalRow)
           /\ Len(new) = Len(wal)
           /\ DOMAIN new = DOMAIN wal
           /\ \A i \in DOMAIN wal :
                 /\ new[i].event_id = wal[i].event_id
                 /\ new[i].payload = wal[i].payload
                 /\ new[i].committed <=> (wal[i].committed \/ wal[i].event_id = e)
           /\ EventsOf(new) = EventsOf(wal)
           /\ CommittedEvents(new) = CommittedEvents(wal) \cup ({e} \cap EventsOf(wal))
<1> DEFINE new == MarkCommitted(wal, e)
<1>1. \A i \in DOMAIN wal : wal[i] \in WalRow
  OBVIOUS
<1>2. /\ DOMAIN new = 1..Len(wal)
      /\ DOMAIN wal = 1..Len(wal)
      /\ Len(wal) \in Nat
  BY DEF MarkCommitted
<1>3. \A i \in DOMAIN wal :
         /\ new[i] \in WalRow
         /\ new[i].event_id = wal[i].event_id
         /\ new[i].payload = wal[i].payload
         /\ new[i].committed <=> (wal[i].committed \/ wal[i].event_id = e)
  BY <1>1 DEF MarkCommitted, WalRow
<1>4. new \in [1..Len(wal) -> WalRow]
  BY <1>2, <1>3 DEF MarkCommitted
<1>5. new \in Seq(WalRow) /\ Len(new) = Len(wal)
  BY <1>4, <1>2
<1>6. EventsOf(new) = EventsOf(wal)
  BY <1>2, <1>3 DEF EventsOf
<1>7. CommittedEvents(new) = CommittedEvents(wal) \cup ({e} \cap EventsOf(wal))
  BY <1>2, <1>3 DEF CommittedEvents, EventsOf
<1> QED
  BY <1>2, <1>3, <1>5, <1>6, <1>7

-----------------------------------------------------------------------------
\* A new entry is well typed and the ledger it is appended to keeps its type.
LEMMA NewEntryFacts ==
    ASSUME NEW ledger \in Seq(LedgerEntry), NEW prev \in Digest,
           NEW e \in EventId, NEW p \in Payload
    PROVE  LET entry == NewEntry(prev, e, p)
               new   == Append(ledger, entry) IN
           /\ entry \in LedgerEntry
           /\ entry.event_id = e
           /\ entry.payload = p
           /\ new \in Seq(LedgerEntry)
           /\ Len(new) = Len(ledger) + 1
           /\ DOMAIN new = DOMAIN ledger \cup {Len(ledger) + 1}
           /\ Len(ledger) + 1 \notin DOMAIN ledger
           /\ \A i \in DOMAIN ledger : new[i] = ledger[i]
           /\ new[Len(ledger) + 1] = entry
           /\ EventsOf(new) = EventsOf(ledger) \cup {e}
<1> DEFINE entry == NewEntry(prev, e, p)
           new == Append(ledger, entry)
<1>1. entry_hash(prev, e, p) \in Digest
  BY DEF entry_hash, Digest
<1>2. /\ entry \in LedgerEntry
      /\ entry.event_id = e
      /\ entry.payload = p
  BY <1>1 DEF NewEntry, LedgerEntry
<1>3. EventsOf(new) = EventsOf(ledger) \cup {e}
  BY <1>2, EventsOfAppend
<1> HIDE DEF entry
<1>4. /\ new \in Seq(LedgerEntry)
      /\ Len(new) = Len(ledger) + 1
      /\ DOMAIN new = DOMAIN ledger \cup {Len(ledger) + 1}
      /\ Len(ledger) + 1 \notin DOMAIN ledger
      /\ \A i \in DOMAIN ledger : new[i] = ledger[i]
      /\ new[Len(ledger) + 1] = entry
  BY <1>2
<1> HIDE DEF new
<1> QED
  BY <1>2, <1>3, <1>4 DEF new, entry

\* last_hash reads a digest.
LEMMA LastHashType ==
    ASSUME NEW ledger \in Seq(LedgerEntry)
    PROVE  last_hash(ledger) \in Digest
<1>1. GENESIS_HASH \in Digest
  BY DEF GENESIS_HASH, Digest
<1>2. CASE ledger = << >>
  BY <1>1, <1>2 DEF last_hash
<1>3. CASE ledger # << >>
  <2>1. ledger[Len(ledger)] \in LedgerEntry
    BY <1>3
  <2> QED
    BY <2>1, <1>3 DEF last_hash, LedgerEntry
<1> QED
  BY <1>2, <1>3

\* Extends is reflexive on tables.
LEMMA ExtendsRefl ==
    ASSUME NEW db \in Db
    PROVE  Extends(db, db)
BY DEF Extends, Db

\* Extends is transitive: a chain of statements loses nothing.
LEMMA ExtendsTrans ==
    ASSUME NEW a \in Db, NEW b \in Db, NEW c \in Db,
           Extends(a, b), Extends(b, c)
    PROVE  Extends(a, c)
<1>1. DOMAIN a.ledger \subseteq DOMAIN b.ledger
  BY DEF Extends, Db
<1>2. DOMAIN a.wal_staging \subseteq DOMAIN b.wal_staging
  BY DEF Extends, Db
<1>3. Len(a.ledger) <= Len(c.ledger) /\ Len(a.wal_staging) <= Len(c.wal_staging)
  BY DEF Extends, Db
<1>4. \A i \in DOMAIN a.ledger : c.ledger[i] = a.ledger[i]
  BY <1>1 DEF Extends
<1>5. \A i \in DOMAIN a.wal_staging :
          /\ c.wal_staging[i].event_id = a.wal_staging[i].event_id
          /\ c.wal_staging[i].payload = a.wal_staging[i].payload
          /\ a.wal_staging[i].committed => c.wal_staging[i].committed
  BY <1>2 DEF Extends
<1> QED
  BY <1>3, <1>4, <1>5 DEF Extends

\* INSERT OR IGNORE leaves the staging table with one row per event.
LEMMA StagedOnce ==
    ASSUME NEW wal \in Seq(WalRow), NEW e \in EventId, NEW p \in Payload,
           \A i, j \in DOMAIN wal : wal[i].event_id = wal[j].event_id => i = j
    PROVE  LET new == InsertOrIgnore(wal, e, p) IN
           \A i, j \in DOMAIN new : new[i].event_id = new[j].event_id => i = j
<1>1. CASE e \in EventsOf(wal)
  BY <1>1 DEF InsertOrIgnore
<1>2. CASE e \notin EventsOf(wal)
  <2> DEFINE row == [event_id |-> e, payload |-> p, committed |-> FALSE]
             new == Append(wal, row)
  <2>1. /\ DOMAIN new = DOMAIN wal \cup {Len(wal) + 1}
        /\ \A i \in DOMAIN wal : new[i] = wal[i]
        /\ new[Len(wal) + 1].event_id = e
    OBVIOUS
  <2>2. \A i \in DOMAIN wal : wal[i].event_id # e
    BY <1>2 DEF EventsOf
  <2>3. new = InsertOrIgnore(wal, e, p)
    BY <1>2 DEF InsertOrIgnore
  <2> HIDE DEF new
  <2> QED
    BY <2>1, <2>2, <2>3
<1> QED
  BY <1>1, <1>2

\* stage_partial's INSERT.
LEMMA StageRowFacts ==
    ASSUME NEW db \in Db, NEW e \in EventId, NEW p \in Payload
    PROVE  /\ StageRow(db, e, p) \in Db
           /\ Extends(db, StageRow(db, e, p))
           /\ Consistent(db) => Consistent(StageRow(db, e, p))
<1> DEFINE new == StageRow(db, e, p)
           wal == InsertOrIgnore(db.wal_staging, e, p)
<1>1. /\ db.wal_staging \in Seq(WalRow)
      /\ db.ledger \in Seq(LedgerEntry)
  BY DEF Db
<1>2. /\ new.idempotency = db.idempotency
      /\ new.ledger = db.ledger
      /\ new.wal_staging = wal
      /\ wal \in Seq(WalRow) => new \in Db
  BY DEF StageRow, Db
<1>3. /\ wal \in Seq(WalRow)
      /\ Len(db.wal_staging) <= Len(wal)
      /\ \A i \in DOMAIN db.wal_staging : wal[i] = db.wal_staging[i]
      /\ \A i \in DOMAIN wal \ DOMAIN db.wal_staging :
            wal[i] = [event_id |-> e, payload |-> p, committed |-> FALSE]
      /\ DOMAIN db.wal_staging \subseteq DOMAIN wal
      /\ EventsOf(wal) = EventsOf(db.wal_staging) \cup {e}
      /\ CommittedEvents(wal) = CommittedEvents(db.wal_staging)
  BY <1>1, InsertOrIgnoreFacts
<1> HIDE DEF new, wal
<1>4. Extends(db, new)
  BY <1>1, <1>2, <1>3 DEF Extends
<1>5. ASSUME Consistent(db)
      PROVE  Consistent(new)
  <2>1. WalCoversLedger(new) /\ KeysAreLedgered(new)
    BY <1>2, <1>3, <1>5 DEF Consistent, WalCoversLedger, KeysAreLedgered
  <2>2. UniqueRows(new)
    <3>1. \A i, j \in DOMAIN wal : wal[i].event_id = wal[j].event_id => i = j
      BY <1>1, <1>5, StagedOnce DEF wal, Consistent, UniqueRows
    <3> QED
      BY <1>2, <1>5, <3>1 DEF Consistent, UniqueRows
  <2>3. PromotedPayloads(new)
    BY <1>2, <1>3, <1>5 DEF Consistent, PromotedPayloads
  <2> QED
    BY <2>1, <2>2, <2>3 DEF Consistent
<1> QED
  BY <1>2, <1>3, <1>4, <1>5 DEF new

\* Recovery's UPDATE for a row whose event the ledger holds.
LEMMA FlagRowFacts ==
    ASSUME NEW db \in Db, NEW id \in DOMAIN db.wal_staging
    PROVE  LET e == db.wal_staging[id].event_id IN
           /\ FlagRow(db, id) \in Db
           /\ Extends(db, FlagRow(db, id))
           /\ FlagRow(db, id).ledger = db.ledger
           /\ Consistent(db) /\ e \in EventsOf(db.ledger) => Consistent(FlagRow(db, id))
<1> DEFINE e == db.wal_staging[id].event_id
           wal == MarkCommitted(db.wal_staging, e)
           new == FlagRow(db, id)
<1>0. /\ db.wal_staging \in Seq(WalRow)
      /\ db.ledger \in Seq(LedgerEntry)
  BY DEF Db
<1>1. /\ db.wal_staging \in Seq(WalRow)
      /\ db.ledger \in Seq(LedgerEntry)
      /\ e \in EventId
  <2>1. db.wal_staging[id] \in WalRow
    BY <1>0
  <2> QED
    BY <1>0, <2>1 DEF WalRow
<1>2. /\ new.idempotency = db.idempotency
      /\ new.ledger = db.ledger
      /\ new.wal_staging = wal
      /\ wal \in Seq(WalRow) => new \in Db
  BY DEF FlagRow, Db
<1>3. /\ wal \in Seq(WalRow)
      /\ Len(wal) = Len(db.wal_staging)
      /\ DOMAIN wal = DOMAIN db.wal_staging
      /\ \A i \in DOMAIN db.wal_staging :
            /\ wal[i].event_id = db.wal_staging[i].event_id
            /\ wal[i].payload = db.wal_staging[i].payload
            /\ wal[i].committed <=> (db.wal_staging[i].committed
                                        \/ db.wal_staging[i].event_id = e)
      /\ EventsOf(wal) = EventsOf(db.wal_staging)
      /\ CommittedEvents(wal) =
            CommittedEvents(db.wal_staging) \cup ({e} \cap EventsOf(db.wal_staging))
  BY <1>1, MarkCommittedFacts
<1>4. e \in EventsOf(db.wal_staging)
  BY DEF EventsOf
<1> HIDE DEF new, wal, e
<1>5. Extends(db, new)
  <2>1. Len(db.wal_staging) \in Nat /\ Len(db.ledger) \in Nat
    BY <1>1
  <2> QED
    BY <1>2, <1>3, <2>1 DEF Extends
<1>6. ASSUME Consistent(db), e \in EventsOf(db.ledger)
      PROVE  Consistent(new)
  <2>1. WalCoversLedger(new) /\ KeysAreLedgered(new)
    BY <1>2, <1>3, <1>6 DEF Consistent, WalCoversLedger, KeysAreLedgered
  <2>2. UniqueRows(new)
    BY <1>2, <1>3, <1>6 DEF Consistent, UniqueRows
  <2>3. PromotedPayloads(new)
    BY <1>2, <1>3, <1>6 DEF Consistent, PromotedPayloads
  <2> QED
    BY <2>1, <2>2, <2>3 DEF Consistent
<1> QED
  BY <1>2, <1>3, <1>5, <1>6 DEF new, e

\* Recovery's INSERT and UPDATE for a row whose event the ledger does not hold.
LEMMA PromoteRowFacts ==
    ASSUME NEW db \in Db, NEW id \in DOMAIN db.wal_staging, NEW prev \in Digest
    PROVE  LET row == db.wal_staging[id]
               new == PromoteRow(db, id, prev) IN
           /\ new \in Db
           /\ Extends(db, new)
           /\ new.ledger = Append(db.ledger, NewEntry(prev, row.event_id, row.payload))
           /\ Consistent(db) /\ row.event_id \notin EventsOf(db.ledger) => Consistent(new)
<1> DEFINE row == db.wal_staging[id]
           e == row.event_id
           p == row.payload
           entry == NewEntry(prev, e, p)
           ledger == Append(db.ledger, entry)
           flagged == FlagRow(db, id)
           wal == MarkCommitted(db.wal_staging, e)
           new == PromoteRow(db, id, prev)
<1>0. /\ db.wal_staging \in Seq(WalRow)
      /\ db.ledger \in Seq(LedgerEntry)
  BY DEF Db
<1>1. /\ db.wal_staging \in Seq(WalRow)
      /\ db.ledger \in Seq(LedgerEntry)
      /\ e \in EventId
      /\ p \in Payload
  <2>1. db.wal_staging[id] \in WalRow
    BY <1>0
  <2> QED
    BY <1>0, <2>1 DEF WalRow
<1>2. /\ new.idempotency = db.idempotency
      /\ new.ledger = ledger
      /\ new.wal_staging = wal
      /\ wal \in Seq(WalRow) /\ ledger \in Seq(LedgerEntry) => new \in Db
  BY DEF PromoteRow, FlagRow, Db
<1>3. /\ wal \in Seq(WalRow)
      /\ Len(wal) = Len(db.wal_staging)
      /\ DOMAIN wal = DOMAIN db.wal_staging
      /\ \A i \in DOMAIN db.wal_staging :
            /\ wal[i].event_id = db.wal_staging[i].event_id
            /\ wal[i].payload = db.wal_staging[i].payload
            /\ wal[i].committed <=> (db.wal_staging[i].committed
                                        \/ db.wal_staging[i].event_id = e)
      /\ EventsOf(wal) = EventsOf(db.wal_staging)
      /\ CommittedEvents(wal) =
            CommittedEvents(db.wal_staging) \cup ({e} \cap EventsOf(db.wal_staging))
  BY <1>1, MarkCommittedFacts
<1>4. /\ entry.event_id = e
      /\ entry.payload = p
      /\ ledger \in Seq(LedgerEntry)
      /\ Len(ledger) = Len(db.ledger) + 1
      /\ DOMAIN ledger = DOMAIN db.ledger \cup {Len(db.ledger) + 1}
      /\ Len(db.ledger) + 1 \notin DOMAIN db.ledger
      /\ \A i \in DOMAIN db.ledger : ledger[i] = db.ledger[i]
      /\ ledger[Len(db.ledger) + 1] = entry
      /\ EventsOf(ledger) = EventsOf(db.ledger) \cup {e}
  BY <1>1, NewEntryFacts
<1>5. e \in EventsOf(db.wal_staging)
  BY DEF EventsOf
<1>6. Len(db.wal_staging) \in Nat /\ Len(db.ledger) \in Nat
  BY <1>1
<1>7. id \in DOMAIN wal /\ wal[id].event_id = e /\ wal[id].payload = p
  BY <1>3
<1> HIDE DEF new, wal, entry, ledger, e, p, row
<1>8. Extends(db, new)
  BY <1>2, <1>3, <1>4, <1>6 DEF Extends
<1>9. ASSUME Consistent(db), e \notin EventsOf(db.ledger)
      PROVE  Consistent(new)
  <2>1. WalCoversLedger(new) /\ KeysAreLedgered(new)
    BY <1>2, <1>3, <1>4, <1>5, <1>9 DEF Consistent, WalCoversLedger, KeysAreLedgered
  <2>2. UniqueRows(new)
    <3>1. \A i \in DOMAIN db.ledger : db.ledger[i].event_id # e
      BY <1>9 DEF EventsOf
    <3>2. \A i, j \in DOMAIN ledger : ledger[i].event_id = ledger[j].event_id => i = j
      BY <1>4, <1>9, <3>1 DEF Consistent, UniqueRows
    <3> QED
      BY <1>2, <1>3, <1>9, <3>2 DEF Consistent, UniqueRows
  <2>3. PromotedPayloads(new)
    <3> SUFFICES ASSUME NEW i \in DOMAIN ledger
                 PROVE  \/ \E r \in db.idempotency : r.event_id = ledger[i].event_id
                        \/ \E j \in DOMAIN wal : /\ wal[j].event_id = ledger[i].event_id
                                                 /\ wal[j].payload = ledger[i].payload
      BY <1>2 DEF PromotedPayloads
    <3>1. CASE i \in DOMAIN db.ledger
      BY <1>3, <1>4, <1>9, <3>1 DEF Consistent, PromotedPayloads
    <3>2. CASE i = Len(db.ledger) + 1
      BY <1>4, <1>7, <3>2
    <3> QED
      BY <1>4, <3>1, <3>2
  <2> QED
    BY <2>1, <2>2, <2>3 DEF Consistent
<1> QED
  BY <1>2, <1>3, <1>4, <1>8, <1>9 DEF new, row, e, p, entry, ledger

\* The four writes of a batch item that meets no constraint.
LEMMA WriteItemFacts ==
    ASSUME NEW db \in Db, NEW item \in BatchWriteItem
    PROVE  LET new == WriteItem(db, item) IN
           /\ new \in Db
           /\ Extends(db, new)
           /\ new.idempotency = db.idempotency \cup {RowOf(item)}
           /\ RowOf(item) \in IdempotencyRow
           /\ new.ledger = Append(db.ledger, NewEntry(last_hash(db.ledger),
                                                      item.event_id, item.payload))
           /\ Consistent(db) /\ ~Conflict(db, item) => Consistent(new)
<1> DEFINE e == item.event_id
           p == item.payload
           row == RowOf(item)
           entry == NewEntry(last_hash(db.ledger), e, p)
           ledger == Append(db.ledger, entry)
           staged == InsertOrIgnore(db.wal_staging, e, p)
           wal == MarkCommitted(staged, e)
           new == WriteItem(db, item)
<1>1. /\ db.wal_staging \in Seq(WalRow)
      /\ db.ledger \in Seq(LedgerEntry)
      /\ db.idempotency \subseteq IdempotencyRow
      /\ e \in EventId
      /\ p \in Payload
      /\ row \in IdempotencyRow
      /\ row.event_id = e
      /\ row.idempotency_key = item.idempotency_key
  BY DEF Db, BatchWriteItem, RowOf, IdempotencyRow
<1>2. /\ new.idempotency = db.idempotency \cup {row}
      /\ new.ledger = ledger
      /\ new.wal_staging = wal
      /\ wal \in Seq(WalRow) /\ ledger \in Seq(LedgerEntry) => new \in Db
  BY <1>1 DEF WriteItem, Db
<1>3. /\ staged \in Seq(WalRow)
      /\ Len(db.wal_staging) <= Len(staged)
      /\ \A i \in DOMAIN db.wal_staging : staged[i] = db.wal_staging[i]
      /\ DOMAIN db.wal_staging \subseteq DOMAIN staged
      /\ EventsOf(staged) = EventsOf(db.wal_staging) \cup {e}
      /\ CommittedEvents(staged) = CommittedEvents(db.wal_staging)
  BY <1>1, InsertOrIgnoreFacts
<1> HIDE DEF staged
<1>4. /\ wal \in Seq(WalRow)
      /\ Len(wal) = Len(staged)
      /\ DOMAIN wal = DOMAIN staged
      /\ \A i \in DOMAIN staged :
            /\ wal[i].event_id = staged[i].event_id
            /\ wal[i].payload = staged[i].payload
            /\ wal[i].committed <=> (staged[i].committed \/ staged[i].event_id = e)
      /\ EventsOf(wal) = EventsOf(staged)
      /\ CommittedEvents(wal) = CommittedEvents(staged) \cup ({e} \cap EventsOf(staged))
  BY <1>1, <1>3, MarkCommittedFacts
<1>5. last_hash(db.ledger) \in Digest
  BY <1>1, LastHashType
<1>6. /\ entry.event_id = e
      /\ ledger \in Seq(LedgerEntry)
      /\ Len(ledger) = Len(db.ledger) + 1
      /\ DOMAIN ledger = DOMAIN db.ledger \cup {Len(db.ledger) + 1}
      /\ Len(db.ledger) + 1 \notin DOMAIN db.ledger
      /\ \A i \in DOMAIN db.ledger : ledger[i] = db.ledger[i]
      /\ ledger[Len(db.ledger) + 1] = entry
      /\ EventsOf(ledger) = EventsOf(db.ledger) \cup {e}
  BY <1>1, <1>5, NewEntryFacts
<1>7. Len(db.wal_staging) \in Nat /\ Len(db.ledger) \in Nat /\ Len(staged) \in Nat
  BY <1>1, <1>3
<1> HIDE DEF new, wal, entry, ledger, e, p, row
<1>8. Extends(db, new)
  BY <1>2, <1>3, <1>4, <1>6, <1>7 DEF Extends
<1>9. ASSUME Consistent(db), ~Conflict(db, item)
      PROVE  Consistent(new)
  <2>1. WalCoversLedger(new)
    BY <1>2, <1>3, <1>4, <1>6, <1>9 DEF Consistent, WalCoversLedger
  <2>2. KeysAreLedgered(new)
    BY <1>1, <1>2, <1>6, <1>9 DEF Consistent, KeysAreLedgered
  <2>3. UniqueRows(new)
    <3>1. /\ \A r \in db.idempotency : /\ r.idempotency_key # item.idempotency_key
                                       /\ r.event_id # e
          /\ \A i \in DOMAIN db.ledger : db.ledger[i].event_id # e
      BY <1>9 DEF Conflict, EventsOf, e
    <3>2. \A r, s \in db.idempotency \cup {row} :
             (r.idempotency_key = s.idempotency_key \/ r.event_id = s.event_id) => r = s
      BY <1>1, <1>9, <3>1 DEF Consistent, UniqueRows
    <3>3. \A i, j \in DOMAIN ledger : ledger[i].event_id = ledger[j].event_id => i = j
      BY <1>6, <1>9, <3>1 DEF Consistent, UniqueRows
    <3>4. \A i, j \in DOMAIN staged : staged[i].event_id = staged[j].event_id => i = j
      BY <1>1, <1>9, StagedOnce DEF Consistent, UniqueRows, staged
    <3>5. \A i, j \in DOMAIN wal : wal[i].event_id = wal[j].event_id => i = j
      BY <1>4, <3>4
    <3> QED
      BY <1>2, <3>2, <3>3, <3>5 DEF UniqueRows
  <2>4. PromotedPayloads(new)
    <3> SUFFICES ASSUME NEW i \in DOMAIN ledger
                 PROVE  \/ \E r \in db.idempotency \cup {row} :
                              r.event_id = ledger[i].event_id
                        \/ \E j \in DOMAIN wal : /\ wal[j].event_id = ledger[i].event_id
                                                 /\ wal[j].payload = ledger[i].payload
      BY <1>2 DEF PromotedPayloads
    <3>1. CASE i \in DOMAIN db.ledger
      <4>1. \A j \in DOMAIN db.wal_staging :
               /\ j \in DOMAIN wal
               /\ wal[j].event_id = db.wal_staging[j].event_id
               /\ wal[j].payload = db.wal_staging[j].payload
        BY <1>3, <1>4
      <4> QED
        BY <1>6, <1>9, <3>1, <4>1 DEF Consistent, PromotedPayloads
    <3>2. CASE i = Len(db.ledger) + 1
      BY <1>1, <1>6, <3>2
    <3> QED
      BY <1>6, <3>1, <3>2
  <2> QED
    BY <2>1, <2>2, <2>3, <2>4 DEF Consistent
<1> QED
  BY <1>1, <1>2, <1>4, <1>6, <1>8, <1>9 DEF new, row, e, p, entry, ledger

-----------------------------------------------------------------------------
(* The chain. *)

\* An entry chained to the head leaves a chain that verifies.
LEMMA AppendKeepsIntegrity ==
    ASSUME NEW ledger \in Seq(LedgerEntry), NEW e \in EventId, NEW p \in Payload,
           verify_integrity(ledger)
    PROVE  verify_integrity(Append(ledger, NewEntry(last_hash(ledger), e, p)))
<1> DEFINE entry == NewEntry(last_hash(ledger), e, p)
           new == Append(ledger, entry)
           n == Len(ledger) + 1
<1>1. /\ entry.event_id = e
      /\ entry.payload = p
      /\ entry.prev_hash = last_hash(ledger)
      /\ entry.entry_hash = entry_hash(entry.prev_hash, e, p)
  BY DEF NewEntry
<1>2. entry \in LedgerEntry
  BY LastHashType, NewEntryFacts
<1> HIDE DEF entry
<1>3. /\ Len(new) = n
      /\ Len(ledger) \in Nat
      /\ \A i \in 1..Len(ledger) : new[i] = ledger[i]
      /\ new[n] = entry
  BY <1>2
<1> HIDE DEF new
<1>4. last_hash(ledger) = IF n = 1 THEN GENESIS_HASH ELSE new[n - 1].entry_hash
  <2>1. CASE ledger = << >>
    BY <1>3, <2>1 DEF last_hash
  <2>2. CASE ledger # << >>
    <3>1. Len(ledger) # 0 /\ n - 1 = Len(ledger) /\ n - 1 \in 1..Len(ledger)
      BY <1>3, <2>2
    <3> QED
      BY <1>3, <2>2, <3>1 DEF last_hash
  <2> QED
    BY <2>1, <2>2
<1>5. ASSUME NEW i \in 1..n
      PROVE  /\ new[i].prev_hash = IF i = 1 THEN GENESIS_HASH ELSE new[i - 1].entry_hash
             /\ new[i].entry_hash =
                   entry_hash(new[i].prev_hash, new[i].event_id, new[i].payload)
  <2>1. CASE i = n
    BY <1>1, <1>3, <1>4, <2>1
  <2>2. CASE i # n
    <3>1. i \in 1..Len(ledger) /\ (i # 1 => i - 1 \in 1..Len(ledger))
      BY <1>3, <2>2
    <3> QED
      BY <1>3, <3>1 DEF verify_integrity
  <2> QED
    BY <2>1, <2>2
<1> QED
  BY <1>3, <1>5 DEF verify_integrity, new, entry

-----------------------------------------------------------------------------
(* Induction and recursion. *)

\* Induction over Nat, for a set instead of a predicate: the least number outside of it
\* would have a predecessor inside.
LEMMA SetInduction ==
    ASSUME NEW S, 0 \in S, \A n \in Nat : n \in S => n + 1 \in S
    PROVE  Nat \subseteq S
<1> DEFINE T == Nat \ S
<1> SUFFICES ASSUME T # {} PROVE FALSE
  OBVIOUS
<1>1. PICK x \in T : \A y \in T : ~(<<y, x>> \in OpToRel(<, Nat))
  <2>1. T \subseteq Nat
    OBVIOUS
  <2> HIDE DEF T
  <2> QED
    BY <2>1, WFMin, NatLessThanWellFounded
<1>2. x # 0 /\ x - 1 \in Nat /\ x - 1 \notin S
  OBVIOUS
<1>3. x - 1 \in T /\ <<x - 1, x>> \in OpToRel(<, Nat)
  BY <1>2 DEF OpToRel
<1> QED
  BY <1>1, <1>3

\* f lists x0 and what N steps make of it, one after the other.
Iterates(f, S, x0, N, step) ==
    /\ f \in [0..N -> S]
    /\ f[0] = x0
    /\ \A n \in 1..N : f[n] = step[n][f[n - 1]]

\* Every chain of steps from x0 has its iterates: the functions that recursive
\* definitions CHOOSE exist.
LEMMA Recursion ==
    ASSUME NEW S, NEW x0 \in S, NEW N \in Nat, NEW step \in [1..N -> [S -> S]]
    PROVE  \E f : Iterates(f, S, x0, N, step)
<1> DEFINE Upto(m) == \E f \in [0..m -> S] : /\ f[0] = x0
                                             /\ \A n \in 1..m : f[n] = step[n][f[n - 1]]
           Good == {m \in Nat : m <= N => Upto(m)}
<1>1. 0 \in Good
  <2> DEFINE g == [i \in 0..0 |-> x0]
  <2>1. g \in [0..0 -> S] /\ g[0] = x0 /\ \A n \in 1..0 : g[n] = step[n][g[n - 1]]
    OBVIOUS
  <2> HIDE DEF g
  <2>2. Upto(0)
    BY <2>1
  <2> QED
    BY <2>2
<1>2. \A m \in Nat : m \in Good => m + 1 \in Good
  <2> SUFFICES ASSUME NEW m \in Nat, m \in Good, m + 1 <= N
               PROVE  Upto(m + 1)
    <3> HIDE DEF Upto
    <3> QED
      OBVIOUS
  <2>0. Upto(m)
    <3> HIDE DEF Upto
    <3> QED
      OBVIOUS
  <2>1. PICK f \in [0..m -> S] : /\ f[0] = x0
                                 /\ \A n \in 1..m : f[n] = step[n][f[n - 1]]
    BY <2>0
  <2> DEFINE g == [i \in 0..(m + 1) |-> IF i <= m THEN f[i] ELSE step[m + 1][f[m]]]
  <2>2. step[m + 1][f[m]] \in S
    OBVIOUS
  <2>3. g \in [0..(m + 1) -> S]
    BY <2>2
  <2>4. g[0] = x0
    BY <2>1
  <2>5. ASSUME NEW n \in 1..(m + 1)
        PROVE  g[n] = step[n][g[n - 1]]
    <3>1. CASE n = m + 1
      <4>1. g[n] = step[m + 1][f[m]] /\ g[m] = f[m] /\ n - 1 = m
        BY <3>1
      <4> QED
        BY <3>1, <4>1
    <3>2. CASE n # m + 1
      <4>1. n \in 1..m /\ n - 1 \in 0..m
        BY <3>2
      <4>2. g[n] = f[n] /\ g[n - 1] = f[n - 1]
        BY <4>1
      <4> QED
        BY <2>1, <4>1, <4>2
    <3> QED
      BY <3>1, <3>2
  <2> HIDE DEF g
  <2> QED
    BY <2>3, <2>4, <2>5
<1>3. Nat \subseteq Good
  <2> HIDE DEF Good
  <2> QED
    BY <1>1, <1>2, SetInduction
<1> QED
  BY <1>3 DEF Iterates

-----------------------------------------------------------------------------
(* Sequences. *)

\* FlattenSeq, which the community modules define by a recursive function, by its
\* partial results.
LEMMA FlattenUnfolds ==
    ASSUME NEW S, NEW seqs \in Seq(Seq(S))
    PROVE  \E f \in [0..Len(seqs) -> Seq(S)] :
              /\ f[0] = << >>
              /\ \A n \in 1..Len(seqs) : f[n] = f[n - 1] \o seqs[n]
              /\ FlattenSeq(seqs) = f[Len(seqs)]
<1> DEFINE N == Len(seqs)
           step == [n \in 1..N |-> [s \in Seq(S) |-> s \o seqs[n]]]
<1>1. step \in [1..N -> [Seq(S) -> Seq(S)]]
  OBVIOUS
<1>2. << >> \in Seq(S) /\ N \in Nat
  OBVIOUS
<1>3. PICK f \in [0..N -> Seq(S)] : /\ f[0] = << >>
                                    /\ \A n \in 1..N : f[n] = step[n][f[n - 1]]
  <2>1. \E f : Iterates(f, Seq(S), << >>, N, step)
    <3> HIDE DEF step, N
    <3> QED
      BY <1>1, <1>2, Recursion
  <2> QED
    BY <2>1 DEF Iterates
<1>4. \A n \in 1..N : f[n] = f[n - 1] \o seqs[n]
  <2> TAKE n \in 1..N
  <2>1. f[n - 1] \in Seq(S)
    OBVIOUS
  <2> QED
    BY <1>3, <2>1
<1> HIDE DEF step
<1>5. 1 <= N => f[1] = seqs[1]
  <2> SUFFICES ASSUME 1 <= N PROVE f[1] = seqs[1]
    OBVIOUS
  <2>1. seqs[1] \in Seq(S) /\ 1 \in 1..N /\ 1 - 1 = 0
    OBVIOUS
  <2>2. f[1] = f[1 - 1] \o seqs[1]
    BY <1>4, <2>1
  <2>3. f[1] = << >> \o seqs[1]
    BY <1>3, <2>1, <2>2
  <2> HIDE DEF N
  <2> QED
    BY <2>1, <2>3, ConcatEmptySeq
<1> DEFINE flatten[i \in 1..Len(seqs)] ==
              IF i = 1 THEN seqs[i] ELSE flatten[i - 1] \o seqs[i]
<1>6. N # 0 => FlattenSeq(seqs) = flatten[N]
  BY DEF FlattenSeq
<1>7. flatten = [i \in 1..N |-> IF i = 1 THEN seqs[i] ELSE flatten[i - 1] \o seqs[i]]
  <2> DEFINE IsFlatten(g) == g = [i \in 1..N |->
                                      IF i = 1 THEN seqs[i] ELSE g[i - 1] \o seqs[i]]
             h == [i \in 1..N |-> f[i]]
  <2>1. ASSUME NEW i \in 1..N
        PROVE  f[i] = IF i = 1 THEN seqs[i] ELSE h[i - 1] \o seqs[i]
    <3>1. CASE i = 1
      BY <1>5, <3>1
    <3>2. CASE i # 1
      <4>1. i - 1 \in 1..N /\ h[i - 1] = f[i - 1]
        BY <3>2
      <4> HIDE DEF h
      <4> QED
        BY <1>4, <3>2, <4>1
    <3> QED
      BY <3>1, <3>2
  <2>2. IsFlatten(h)
    BY <2>1
  <2>3. flatten = CHOOSE g : IsFlatten(g)
    OBVIOUS
  <2>4. IsFlatten(flatten)
    <3> HIDE DEF IsFlatten, flatten
    <3> QED
      BY <2>2, <2>3
  <2> QED
    BY <2>4
<1> HIDE DEF flatten
<1> DEFINE Same == {m \in Nat : m + 1 <= N => flatten[m + 1] = f[m + 1]}
<1>8. 0 \in Same
  <2>1. 1 <= N => flatten[1] = seqs[1]
    BY <1>7
  <2> QED
    BY <1>5, <2>1
<1>9. \A m \in Nat : m \in Same => m + 1 \in Same
  <2> SUFFICES ASSUME NEW m \in Nat, m + 2 <= N, flatten[m + 1] = f[m + 1]
               PROVE  flatten[m + 2] = f[m + 2]
    BY <1>2
  <2>1. m + 2 \in 1..N /\ m + 2 # 1 /\ (m + 2) - 1 = m + 1
    BY <1>2
  <2> DEFINE k == m + 2
  <2>2. k \in 1..N /\ k # 1 /\ k - 1 = m + 1
    BY <2>1
  <2> HIDE DEF k, N
  <2>3. flatten[k] = flatten[k - 1] \o seqs[k]
    BY <1>7, <2>2
  <2>4. f[k] = f[k - 1] \o seqs[k]
    BY <1>4, <2>2
  <2> QED
    BY <2>2, <2>3, <2>4 DEF k
<1>10. Nat \subseteq Same
  <2> HIDE DEF Same
  <2> QED
    BY <1>8, <1>9, SetInduction
<1>11. FlattenSeq(seqs) = f[N]
  <2>1. CASE N = 0
    <3>1. seqs = << >>
      BY <2>1
    <3> QED
      BY <1>3, <2>1, <3>1 DEF FlattenSeq
  <2>2. CASE N # 0
    <3>1. N - 1 \in Nat /\ (N - 1) + 1 = N
      BY <1>2, <2>2
    <3>2. flatten[N] = f[N]
      <4>1. N - 1 \in Same
        BY <1>10, <3>1
      <4> QED
        BY <3>1, <4>1
    <3> QED
      BY <1>6, <2>2, <3>2
  <2> QED
    BY <2>1, <2>2
<1> QED
  BY <1>3, <1>4, <1>11

\* What concatenation preserves, flattening preserves.
LEMMA FlattenClosed ==
    ASSUME NEW S, NEW P \in SUBSET Seq(S), << >> \in P, \A s, t \in P : s \o t \in P,
           NEW seqs \in Seq(P)
    PROVE  FlattenSeq(seqs) \in P
<1>1. seqs \in Seq(Seq(S)) /\ Len(seqs) \in Nat
  OBVIOUS
<1>2. PICK f \in [0..Len(seqs) -> Seq(S)] :
              /\ f[0] = << >>
              /\ \A n \in 1..Len(seqs) : f[n] = f[n - 1] \o seqs[n]
              /\ FlattenSeq(seqs) = f[Len(seqs)]
  BY <1>1, FlattenUnfolds
<1> DEFINE In == {n \in Nat : n <= Len(seqs) => f[n] \in P}
<1>3. 0 \in In
  BY <1>2
<1>4. \A n \in Nat : n \in In => n + 1 \in In
  <2> SUFFICES ASSUME NEW n \in Nat, n + 1 <= Len(seqs), f[n] \in P
               PROVE  f[n + 1] \in P
    BY <1>1
  <2>1. n + 1 \in 1..Len(seqs) /\ (n + 1) - 1 = n /\ seqs[n + 1] \in P
    BY <1>1
  <2>2. f[n + 1] = f[n] \o seqs[n + 1]
    BY <1>2, <2>1
  <2> QED
    BY <2>1, <2>2
<1>5. Nat \subseteq In
  <2> HIDE DEF In
  <2> QED
    BY <1>3, <1>4, SetInduction
<1> QED
  BY <1>1, <1>2, <1>5

\* The elements of two sequences, one after the other.
LEMMA ToSetConcat ==
    ASSUME NEW S, NEW s \in Seq(S), NEW t \in Seq(S)
    PROVE  ToSet(s \o t) = ToSet(s) \cup ToSet(t)
<1> DEFINE st == s \o t
<1>1. /\ Len(st) = Len(s) + Len(t) /\ Len(s) \in Nat /\ Len(t) \in Nat
      /\ DOMAIN st = 1..(Len(s) + Len(t)) /\ DOMAIN s = 1..Len(s) /\ DOMAIN t = 1..Len(t)
      /\ \A i \in 1..(Len(s) + Len(t)) : st[i] = IF i <= Len(s) THEN s[i] ELSE t[i - Len(s)]
  BY ConcatProperties
<1> HIDE DEF st
<1>2. ASSUME NEW i \in DOMAIN st
      PROVE  st[i] \in ToSet(s) \cup ToSet(t)
  <2>1. CASE i <= Len(s)
    BY <1>1, <2>1 DEF ToSet
  <2>2. CASE ~(i <= Len(s))
    <3>1. i - Len(s) \in DOMAIN t
      BY <1>1, <2>2
    <3> QED
      BY <1>1, <2>2, <3>1 DEF ToSet
  <2> QED
    BY <2>1, <2>2
<1>3. ASSUME NEW i \in DOMAIN s
      PROVE  s[i] \in ToSet(st)
  BY <1>1 DEF ToSet
<1>4. ASSUME NEW i \in DOMAIN t
      PROVE  t[i] \in ToSet(st)
  <2>1. Len(s) + i \in DOMAIN st /\ ~(Len(s) + i <= Len(s)) /\ (Len(s) + i) - Len(s) = i
    BY <1>1
  <2>2. st[Len(s) + i] = t[i]
    BY <1>1, <2>1
  <2> QED
    BY <2>1, <2>2 DEF ToSet
<1> QED
  BY <1>2, <1>3, <1>4 DEF ToSet, st

\* A function over the positions of a sequence is a sequence.
LEMMA MappedSeq ==
    ASSUME NEW T, NEW s \in Seq(T), NEW X, NEW g,
           g = [k \in DOMAIN s |-> g[k]], \A k \in DOMAIN s : g[k] \in X
    PROVE  g \in Seq(X)
<1>1. Len(s) \in Nat /\ DOMAIN s = 1..Len(s)
  OBVIOUS
<1>2. g \in [1..Len(s) -> X]
  BY <1>1
<1> QED
  BY <1>1, <1>2

\* The elements of a flattened sequence are those of its parts.
LEMMA FlattenElements ==
    ASSUME NEW S, NEW seqs \in Seq(Seq(S))
    PROVE  /\ FlattenSeq(seqs) \in Seq(S)
           /\ ToSet(FlattenSeq(seqs)) = UNION {ToSet(seqs[k]) : k \in DOMAIN seqs}
<1>1. PICK f \in [0..Len(seqs) -> Seq(S)] :
              /\ f[0] = << >>
              /\ \A n \in 1..Len(seqs) : f[n] = f[n - 1] \o seqs[n]
              /\ FlattenSeq(seqs) = f[Len(seqs)]
  BY FlattenUnfolds
<1>2. Len(seqs) \in Nat /\ DOMAIN seqs = 1..Len(seqs)
  OBVIOUS
<1> DEFINE Of(n) == UNION {ToSet(seqs[k]) : k \in 1..n}
           In == {n \in Nat : n <= Len(seqs) => ToSet(f[n]) = Of(n)}
<1>3. 0 \in In
  BY <1>1 DEF ToSet
<1>4. \A n \in Nat : n \in In => n + 1 \in In
  <2> SUFFICES ASSUME NEW n \in Nat, n \in In, n + 1 <= Len(seqs)
               PROVE  ToSet(f[n + 1]) = Of(n + 1)
    <3> HIDE DEF Of
    <3> QED
      OBVIOUS
  <2>0. ToSet(f[n]) = Of(n)
    <3>1. n <= Len(seqs)
      BY <1>2
    <3> HIDE DEF Of
    <3> QED
      BY <3>1
  <2>1. n + 1 \in 1..Len(seqs) /\ (n + 1) - 1 = n /\ n \in 0..Len(seqs)
    BY <1>2
  <2>2. f[n + 1] = f[n] \o seqs[n + 1]
    BY <1>1, <2>1
  <2>3. ToSet(f[n + 1]) = ToSet(f[n]) \cup ToSet(seqs[n + 1])
    BY <2>1, <2>2, ToSetConcat
  <2>4. 1..(n + 1) = 1..n \cup {n + 1}
    OBVIOUS
  <2> QED
    BY <2>0, <2>3, <2>4
<1>5. Nat \subseteq In
  <2> HIDE DEF In
  <2> QED
    BY <1>3, <1>4, SetInduction
<1>6. ToSet(f[Len(seqs)]) = Of(Len(seqs))
  <2> HIDE DEF Of
  <2> QED
    BY <1>2, <1>5
<1> QED
  BY <1>1, <1>2, <1>6

\* SetToSeq lists a finite set.
LEMMA SetToSeqFacts ==
    ASSUME NEW S, IsFiniteSet(S)
    PROVE  /\ SetToSeq(S) \in Seq(S)
           /\ ToSet(SetToSeq(S)) = S
<1> DEFINE n == Cardinality(S)
<1>1. n \in Nat /\ Bijection(1..n, S) # {}
  BY FS_CardinalityType DEF ExistsBijection
<1>2. \E f \in [1..n -> S] : IsInjective(f)
  BY <1>1 DEF Bijection, Injection
<1> DEFINE f == SetToSeq(S)
<1>3. f \in [1..n -> S] /\ IsInjective(f)
  BY <1>2 DEF SetToSeq
<1> HIDE DEF f
<1>4. f \in Injection(1..n, S)
  BY <1>3 DEF Injection
<1>5. f \in Surjection(1..n, S)
  <2>1. IsFiniteSet(1..n) /\ Cardinality(1..n) = n
    BY <1>1, FS_Interval
  <2> QED
    BY <1>4, FS_Injection, <2>1
<1>6. ToSet(f) = S
  BY <1>3, <1>5 DEF Surjection, ToSet
<1>7. f \in Seq(S)
  BY <1>1, <1>3
<1> QED
  BY <1>6, <1>7 DEF f

-----------------------------------------------------------------------------
(* The calls of one event. *)

\* The edge that a field mapping goes along.
EdgeOf(r) == [table |-> "dataset_edges", src |-> r.input_dataset, dst |-> r.output_dataset]

MappingsOf(call) == {r \in ToSet(call) : r.table = "field_mappings"}

\* Every mapping of a call has its edge in an earlier one.
EdgesFirst(calls) ==
    \A j \in DOMAIN calls : \A r \in MappingsOf(calls[j]) :
        \E i \in 1..(j - 1) : EdgeOf(r) \in ToSet(calls[i])

\* Storage calls that write edges and field mappings.
LineageCalls == Seq(Seq({r \in TableRow : r.table # "run_events"}))

\* record_field_mapping writes mappings only, all along the edge of its two datasets.
LEMMA MappingRowsFacts ==
    ASSUME NEW out \in DatasetRef, NEW in \in DatasetRef,
           NEW map, DOMAIN map \subseteq Field, IsFiniteSet(DOMAIN map),
           \A f \in DOMAIN map : map[f] \in Field
    PROVE  /\ MappingCalls(out, in, map) \in LineageCalls
           /\ \A call \in ToSet(MappingCalls(out, in, map)) : \A r \in ToSet(call) :
                 r.table = "field_mappings" /\ EdgeOf(r) = EdgeRow(in, out)
<1> DEFINE R == {r \in TableRow : r.table # "run_events"}
           row == [f \in DOMAIN map |->
                     [table          |-> "field_mappings",
                      output_dataset |-> out.name, output_field |-> f,
                      input_dataset  |-> in.name,  input_field  |-> map[f]]]
           T == {row[f] : f \in DOMAIN map}
<1>1. out.name \in Dataset /\ in.name \in Dataset
  BY DEF DatasetRef
<1>2. \A r \in T : /\ r \in R
                    /\ r.table = "field_mappings"
                    /\ EdgeOf(r) = EdgeRow(in, out)
  BY <1>1 DEF TableRow, EdgeOf, EdgeRow
<1>3. IsFiniteSet(T)
  <2>1. row \in Surjection(DOMAIN map, T)
    BY DEF Surjection
  <2> HIDE DEF row, T
  <2> QED
    BY <2>1, FS_Surjection
<1>4. MappingRows(out, in, map) = SetToSeq(T)
  BY DEF MappingRows
<1> HIDE DEF T, R
<1>5. MappingRows(out, in, map) \in Seq(R) /\ ToSet(MappingRows(out, in, map)) = T
  <2>1. T \subseteq R
    BY <1>2
  <2> QED
    BY <1>3, <1>4, <2>1, SetToSeqFacts
<1>6. CASE DOMAIN map = {}
  BY <1>6 DEF MappingCalls, LineageCalls, ToSet
<1>7. CASE DOMAIN map # {}
  <2> DEFINE rows == MappingRows(out, in, map)
  <2>1. MappingCalls(out, in, map) = <<rows>>
    BY <1>7 DEF MappingCalls
  <2> HIDE DEF rows
  <2>2. <<rows>> \in Seq(Seq(R))
    BY <1>5 DEF rows
  <2>3. ToSet(<<rows>>) = {rows}
    BY DEF ToSet
  <2> QED
    BY <1>2, <1>5, <2>1, <2>2, <2>3 DEF LineageCalls, R, rows
<1> QED
  BY <1>6, <1>7

\* The field maps _record_lineage makes are finite and map fields to fields.
LEMMA MapTypes ==
    ASSUME NEW out \in DatasetRef, NEW in \in DatasetRef
    PROVE  /\ DOMAIN SameNames(out, in) \subseteq Field
           /\ IsFiniteSet(DOMAIN SameNames(out, in))
           /\ \A f \in DOMAIN SameNames(out, in) : SameNames(out, in)[f] \in Field
           /\ DOMAIN FacetMap(out) \subseteq Field
           /\ IsFiniteSet(DOMAIN FacetMap(out))
           /\ \A f \in DOMAIN FacetMap(out) : FacetMap(out)[f] \in Field
<1>1. /\ out.schema \subseteq Field /\ IsFiniteSet(out.schema)
      /\ DOMAIN out.lineage \subseteq Field /\ IsFiniteSet(DOMAIN out.lineage)
      /\ \A f \in DOMAIN out.lineage : out.lineage[f] \in Field \cup {NoField}
  BY DEF DatasetRef
<1>2. FieldsOf(out) \subseteq Field /\ IsFiniteSet(FieldsOf(out))
  BY <1>1, FS_Union DEF FieldsOf
<1>3. IsFiniteSet(DOMAIN SameNames(out, in))
  <2>1. DOMAIN SameNames(out, in) \subseteq FieldsOf(out)
    BY DEF SameNames
  <2> QED
    BY <1>2, <2>1, FS_Subset
<1>4. IsFiniteSet(DOMAIN FacetMap(out))
  <2>1. DOMAIN FacetMap(out) \subseteq DOMAIN out.lineage
    BY DEF FacetMap
  <2> QED
    BY <1>1, <2>1, FS_Subset
<1>5. /\ DOMAIN SameNames(out, in) \subseteq Field
      /\ \A f \in DOMAIN SameNames(out, in) : SameNames(out, in)[f] \in Field
  BY <1>2 DEF SameNames
<1>6. /\ DOMAIN FacetMap(out) \subseteq Field
      /\ \A f \in DOMAIN FacetMap(out) : FacetMap(out)[f] \in Field
  BY <1>1 DEF FacetMap
<1> QED
  BY <1>3, <1>4, <1>5, <1>6

\* Two sequences of calls one after the other, when what the second maps goes along
\* an edge of the first or of an earlier call of its own.
LEMMA EdgesFirstConcat ==
    ASSUME NEW S, NEW s \in Seq(S), NEW t \in Seq(S), EdgesFirst(s),
           \A j \in DOMAIN t : \A r \in MappingsOf(t[j]) :
               \/ \E c \in ToSet(s) : EdgeOf(r) \in ToSet(c)
               \/ \E i \in 1..(j - 1) : EdgeOf(r) \in ToSet(t[i])
    PROVE  EdgesFirst(s \o t)
<1> DEFINE st == s \o t
<1>1. /\ Len(s) \in Nat /\ Len(t) \in Nat
      /\ DOMAIN st = 1..(Len(s) + Len(t)) /\ DOMAIN s = 1..Len(s) /\ DOMAIN t = 1..Len(t)
      /\ \A i \in 1..(Len(s) + Len(t)) : st[i] = IF i <= Len(s) THEN s[i] ELSE t[i - Len(s)]
  BY ConcatProperties
<1> HIDE DEF st
<1> SUFFICES ASSUME NEW j \in DOMAIN st, NEW r \in MappingsOf(st[j])
             PROVE  \E i \in 1..(j - 1) : EdgeOf(r) \in ToSet(st[i])
  BY DEF EdgesFirst, st
<1>2. CASE j <= Len(s)
  <2>1. j \in DOMAIN s /\ st[j] = s[j]
    BY <1>1, <1>2
  <2>2. PICK i \in 1..(j - 1) : EdgeOf(r) \in ToSet(s[i])
    BY <2>1 DEF EdgesFirst
  <2>3. st[i] = s[i]
    BY <1>1, <1>2
  <2> QED
    BY <2>2, <2>3
<1>3. CASE ~(j <= Len(s))
  <2> DEFINE k == j - Len(s)
  <2>1. k \in DOMAIN t /\ st[j] = t[k] /\ j = Len(s) + k
    BY <1>1, <1>3
  <2> HIDE DEF k
  <2>2. CASE \E c \in ToSet(s) : EdgeOf(r) \in ToSet(c)
    <3>1. PICK i \in DOMAIN s : EdgeOf(r) \in ToSet(s[i])
      BY <2>2 DEF ToSet
    <3>2. i \in 1..(j - 1) /\ st[i] = s[i]
      BY <1>1, <1>3
    <3> QED
      BY <3>1, <3>2
  <2>3. CASE \E i \in 1..(k - 1) : EdgeOf(r) \in ToSet(t[i])
    <3>1. PICK i \in 1..(k - 1) : EdgeOf(r) \in ToSet(t[i])
      BY <2>3
    <3>2. Len(s) + i \in 1..(j - 1) /\ Len(s) + i \in 1..(Len(s) + Len(t))
      BY <1>1, <2>1
    <3>3. ~(Len(s) + i <= Len(s)) /\ (Len(s) + i) - Len(s) = i
      BY <1>1
    <3>4. st[Len(s) + i] = t[i]
      BY <1>1, <3>2, <3>3
    <3> QED
      BY <3>1, <3>2, <3>4
  <2> QED
    BY <2>1, <2>2, <2>3
<1> QED
  BY <1>2, <1>3

\* The pairs of the nested loops.
LEMMA PairsFacts ==
    ASSUME NEW event \in OpenLineageRunEvent
    PROVE  Pairs(event) \in Seq(DatasetRef \X DatasetRef)
<1> DEFINE P == DatasetRef \X DatasetRef
           row(i) == [j \in DOMAIN event.inputs |-> <<event.outputs[i], event.inputs[j]>>]
           pairs == [i \in DOMAIN event.outputs |-> row(i)]
<1>1. event.inputs \in Seq(DatasetRef) /\ event.outputs \in Seq(DatasetRef)
  BY DEF OpenLineageRunEvent
<1>2. \A i \in DOMAIN event.outputs : row(i) \in Seq(P)
  BY <1>1
<1>3. pairs \in Seq(Seq(P))
  <2> HIDE DEF row, P
  <2> QED
    BY <1>1, <1>2
<1>4. Pairs(event) = FlattenSeq(pairs)
  BY DEF Pairs
<1> HIDE DEF pairs, P
<1> QED
  BY <1>3, <1>4, FlattenElements DEF P

\* _record_lineage writes the tables of edges and of field mappings only, and each
\* mapping after its edge.
LEMMA RecordLineageFacts ==
    ASSUME NEW event \in OpenLineageRunEvent
    PROVE  /\ record_lineage(event) \in LineageCalls
           /\ EdgesFirst(record_lineage(event))
<1> DEFINE P == Pairs(event)
           out(k) == P[k][1]
           in(k) == P[k][2]
           edge(k) == EdgeRow(in(k), out(k))
           same(k) == MappingCalls(out(k), in(k), SameNames(out(k), in(k)))
           facet(k) == MappingCalls(out(k), in(k), FacetMap(out(k)))
           first == [k \in DOMAIN P |-> << <<edge(k)>> >> \o same(k)]
           second == [k \in DOMAIN P |-> facet(k)]
           R == {r \in TableRow : r.table # "run_events"}
<1>1. P \in Seq(DatasetRef \X DatasetRef)
  BY PairsFacts
<1>2. EdgesAndSameNames(event) = FlattenSeq(first) /\ field_mappings(event) = FlattenSeq(second)
  BY DEF EdgesAndSameNames, field_mappings
<1> HIDE DEF P
<1>3. ASSUME NEW k \in DOMAIN P
      PROVE  /\ edge(k) \in R /\ edge(k).table = "dataset_edges"
             /\ same(k) \in LineageCalls /\ facet(k) \in LineageCalls
             /\ \A call \in ToSet(same(k)) \cup ToSet(facet(k)) : \A r \in ToSet(call) :
                   r.table = "field_mappings" /\ EdgeOf(r) = edge(k)
  <2> DEFINE o == out(k)
             i == in(k)
  <2>1. o \in DatasetRef /\ i \in DatasetRef
    BY <1>1
  <2> HIDE DEF o, i
  <2>2. EdgeRow(i, o) \in R /\ EdgeRow(i, o).table = "dataset_edges"
    BY <2>1 DEF EdgeRow, TableRow, DatasetRef
  <2>3. /\ MappingCalls(o, i, SameNames(o, i)) \in LineageCalls
        /\ \A call \in ToSet(MappingCalls(o, i, SameNames(o, i))) : \A r \in ToSet(call) :
              r.table = "field_mappings" /\ EdgeOf(r) = EdgeRow(i, o)
    BY <2>1, MapTypes, MappingRowsFacts
  <2>4. /\ MappingCalls(o, i, FacetMap(o)) \in LineageCalls
        /\ \A call \in ToSet(MappingCalls(o, i, FacetMap(o))) : \A r \in ToSet(call) :
              r.table = "field_mappings" /\ EdgeOf(r) = EdgeRow(i, o)
    BY <2>1, MapTypes, MappingRowsFacts
  <2> QED
    BY <2>2, <2>3, <2>4 DEF o, i
<1> HIDE DEF edge, same, facet, R
<1>4. ASSUME NEW k \in DOMAIN P
      PROVE  /\ << <<edge(k)>> >> \o same(k) \in LineageCalls
             /\ EdgesFirst(<< <<edge(k)>> >> \o same(k))
             /\ <<edge(k)>> \in ToSet(<< <<edge(k)>> >> \o same(k))
  <2> DEFINE s == << <<edge(k)>> >>
  <2>1. s \in Seq(Seq(R)) /\ same(k) \in Seq(Seq(R))
    BY <1>3 DEF LineageCalls, R
  <2>2. DOMAIN s = {1} /\ s[1] = <<edge(k)>> /\ ToSet(s) = {<<edge(k)>>}
    BY DEF ToSet
  <2>3. ToSet(<<edge(k)>>) = {edge(k)}
    BY DEF ToSet
  <2> HIDE DEF s
  <2>4. EdgesFirst(s)
    BY <1>3, <2>2, <2>3 DEF EdgesFirst, MappingsOf
  <2>5. \A j \in DOMAIN same(k) : \A r \in MappingsOf(same(k)[j]) :
            \E c \in ToSet(s) : EdgeOf(r) \in ToSet(c)
    <3> TAKE j \in DOMAIN same(k)
    <3> TAKE r \in MappingsOf(same(k)[j])
    <3>1. same(k)[j] \in ToSet(same(k)) /\ r \in ToSet(same(k)[j])
      BY DEF ToSet, MappingsOf
    <3> QED
      BY <1>3, <2>2, <2>3, <3>1
  <2>6. EdgesFirst(s \o same(k))
    BY <2>1, <2>4, <2>5, EdgesFirstConcat
  <2>7. ToSet(s \o same(k)) = ToSet(s) \cup ToSet(same(k))
    BY <2>1, ToSetConcat
  <2>8. s \o same(k) \in Seq(Seq(R))
    BY <2>1
  <2> QED
    BY <2>2, <2>6, <2>7, <2>8 DEF s, LineageCalls, R
<1>5. /\ first \in Seq(Seq(Seq(R))) /\ second \in Seq(Seq(Seq(R)))
      /\ DOMAIN first = DOMAIN P /\ DOMAIN second = DOMAIN P
      /\ \A k \in DOMAIN P : first[k] = << <<edge(k)>> >> \o same(k) /\ second[k] = facet(k)
  <2>1. /\ first = [k \in DOMAIN P |-> first[k]] /\ second = [k \in DOMAIN P |-> second[k]]
        /\ \A k \in DOMAIN P : first[k] = << <<edge(k)>> >> \o same(k) /\ second[k] = facet(k)
    OBVIOUS
  <2> HIDE DEF first, second
  <2>2. \A k \in DOMAIN P : first[k] \in Seq(Seq(R)) /\ second[k] \in Seq(Seq(R))
    <3>1. LineageCalls = Seq(Seq(R))
      BY DEF LineageCalls, R
    <3> QED
      BY <1>3, <1>4, <2>1, <3>1
  <2>3. first \in Seq(Seq(Seq(R))) /\ second \in Seq(Seq(Seq(R)))
    BY <1>1, <2>1, <2>2, MappedSeq
  <2> QED
    BY <2>1, <2>3
<1> HIDE DEF first, second
<1> DEFINE E == FlattenSeq(first)
           F == FlattenSeq(second)
<1>6. /\ E \in Seq(Seq(R)) /\ F \in Seq(Seq(R))
      /\ ToSet(E) = UNION {ToSet(first[k]) : k \in DOMAIN P}
      /\ ToSet(F) = UNION {ToSet(second[k]) : k \in DOMAIN P}
  BY <1>5, FlattenElements
<1>7. EdgesFirst(E)
  <2> DEFINE Ordered == {s \in Seq(Seq(R)) : EdgesFirst(s)}
  <2>1. << >> \in Ordered
    BY DEF EdgesFirst
  <2>2. \A s, t \in Ordered : s \o t \in Ordered
    <3> SUFFICES ASSUME NEW s \in Ordered, NEW t \in Ordered
                 PROVE  s \o t \in Ordered
      OBVIOUS
    <3>1. EdgesFirst(s \o t)
      BY EdgesFirstConcat DEF EdgesFirst
    <3> QED
      BY <3>1
  <2>3. first \in Seq(Ordered)
    <3>1. first = [k \in DOMAIN P |-> first[k]]
      BY <1>5
    <3>2. \A k \in DOMAIN P : first[k] \in Ordered
      <4>1. LineageCalls = Seq(Seq(R))
        BY DEF LineageCalls, R
      <4> QED
        BY <1>4, <1>5, <4>1
    <3> HIDE DEF Ordered
    <3> QED
      BY <1>1, <3>1, <3>2, MappedSeq
  <2>4. Ordered \in SUBSET Seq(Seq(R)) /\ \A s \in Ordered : EdgesFirst(s)
    OBVIOUS
  <2> HIDE DEF Ordered
  <2>5. E \in Ordered
    BY <2>1, <2>2, <2>3, <2>4, FlattenClosed
  <2> QED
    BY <2>4, <2>5
<1> HIDE DEF E, F
<1>8. \A j \in DOMAIN F : \A r \in MappingsOf(F[j]) : \E c \in ToSet(E) : EdgeOf(r) \in ToSet(c)
  <2> TAKE j \in DOMAIN F
  <2> TAKE r \in MappingsOf(F[j])
  <2>1. F[j] \in ToSet(F) /\ r \in ToSet(F[j])
    BY DEF ToSet, MappingsOf
  <2>2. PICK k \in DOMAIN P : F[j] \in ToSet(facet(k))
    BY <1>5, <1>6, <2>1
  <2>3. EdgeOf(r) = edge(k)
    BY <1>3, <2>1, <2>2
  <2>4. <<edge(k)>> \in ToSet(E)
    BY <1>4, <1>5, <1>6
  <2>5. edge(k) \in ToSet(<<edge(k)>>)
    BY DEF ToSet
  <2> QED
    BY <2>3, <2>4, <2>5
<1>9. EdgesFirst(E \o F)
  BY <1>6, <1>7, <1>8, EdgesFirstConcat
<1>10. E \o F \in Seq(Seq(R))
  BY <1>6
<1> QED
  BY <1>2, <1>9, <1>10 DEF record_lineage, E, F, LineageCalls, R

\* The calls of one event: its run event, then its lineage.
LEMMA StorageCallsFacts ==
    ASSUME NEW event \in OpenLineageRunEvent
    PROVE  /\ StorageCalls(event) \in Seq(Seq(TableRow))
           /\ EdgesFirst(StorageCalls(event))
           /\ \A c \in DOMAIN StorageCalls(event) \ {1} :
                 \A r \in ToSet(StorageCalls(event)[c]) : r.table # "run_events"
<1> DEFINE run == << <<RunEventRow(event)>> >>
           rest == IF event.eventType = "COMPLETE" THEN record_lineage(event) ELSE << >>
           R == {r \in TableRow : r.table # "run_events"}
<1>1. RunEventRow(event) \in TableRow /\ RunEventRow(event).table = "run_events"
  BY DEF RunEventRow, TableRow, OpenLineageRunEvent
<1>2. run \in Seq(Seq(TableRow)) /\ Len(run) = 1 /\ ToSet(run[1]) = {RunEventRow(event)}
  BY <1>1 DEF ToSet
<1>3. rest \in Seq(Seq(R)) /\ EdgesFirst(rest)
  <2>1. << >> \in Seq(Seq(R)) /\ EdgesFirst(<< >>)
    BY DEF EdgesFirst
  <2> QED
    BY <2>1, RecordLineageFacts DEF LineageCalls
<1>4. StorageCalls(event) = run \o rest
  BY DEF StorageCalls
<1> HIDE DEF run, rest, R
<1>5. rest \in Seq(Seq(TableRow))
  BY <1>3 DEF R
<1>6. EdgesFirst(run)
  <2>1. DOMAIN run = {1} /\ MappingsOf(run[1]) = {}
    BY <1>1, <1>2 DEF MappingsOf
  <2> QED
    BY <2>1 DEF EdgesFirst
<1>7. EdgesFirst(run \o rest)
  <2>1. \A j \in DOMAIN rest : \A r \in MappingsOf(rest[j]) :
           \E i \in 1..(j - 1) : EdgeOf(r) \in ToSet(rest[i])
    BY <1>3 DEF EdgesFirst
  <2> QED
    BY <1>2, <1>5, <1>6, <2>1, EdgesFirstConcat
<1>8. run \o rest \in Seq(Seq(TableRow))
  BY <1>2, <1>5
<1>9. ASSUME NEW c \in DOMAIN (run \o rest) \ {1}
      PROVE  \A r \in ToSet((run \o rest)[c]) : r.table # "run_events"
  <2> DEFINE all == run \o rest
  <2>0. /\ Len(rest) \in Nat /\ DOMAIN rest = 1..Len(rest)
        /\ DOMAIN all = 1..(Len(run) + Len(rest))
        /\ \A i \in 1..(Len(run) + Len(rest)) :
              all[i] = IF i <= Len(run) THEN run[i] ELSE rest[i - Len(run)]
    <3> DEFINE T == Seq(TableRow)
    <3>1. run \in Seq(T) /\ rest \in Seq(T)
      BY <1>2, <1>5
    <3> HIDE DEF T
    <3>2. Len(rest) \in Nat /\ DOMAIN rest = 1..Len(rest) /\ Len(run) \in Nat
      BY <3>1
    <3>3. /\ Len(all) = Len(run) + Len(rest)
          /\ \A i \in 1..(Len(run) + Len(rest)) :
                all[i] = IF i <= Len(run) THEN run[i] ELSE rest[i - Len(run)]
      BY <3>1, ConcatProperties
    <3>4. DOMAIN all = 1..Len(all)
      BY <3>1, ConcatProperties, LenProperties
    <3> QED
      BY <3>2, <3>3, <3>4
  <2> HIDE DEF all
  <2>1. c - 1 \in DOMAIN rest /\ all[c] = rest[c - 1]
    <3>1. c \in 1..(1 + Len(rest)) /\ c # 1
      BY <1>2, <2>0 DEF all
    <3>2. c - 1 \in 1..Len(rest) /\ ~(c <= 1)
      BY <2>0, <3>1
    <3> QED
      BY <1>2, <2>0, <3>1, <3>2
  <2>2. rest[c - 1] \in Seq(R)
    BY <1>3, <2>1
  <2> QED
    BY <2>1, <2>2 DEF R, ToSet, all
<1> QED
  BY <1>4, <1>7, <1>8, <1>9
-----------------------------------------------------------------------------
(* Batches and recovery, from one item or row to the next. *)

\* A batch item: a duplicate changes nothing, the others write.
LEMMA AcknowledgeItemFacts ==
    ASSUME NEW db \in Db, NEW item \in BatchWriteItem
    PROVE  LET new == AcknowledgeItem(db, item) IN
           /\ new \in Db
           /\ Extends(db, new)
           /\ Claimed(new, item)
           /\ Consistent(db) /\ (Claimed(db, item) \/ ~Conflict(db, item)) => Consistent(new)
<1>1. CASE Claimed(db, item)
  BY <1>1, ExtendsRefl DEF AcknowledgeItem
<1>2. CASE ~Claimed(db, item)
  <2> DEFINE new == WriteItem(db, item)
  <2>1. /\ new \in Db /\ Extends(db, new)
        /\ new.idempotency = db.idempotency \cup {RowOf(item)}
        /\ Consistent(db) /\ ~Conflict(db, item) => Consistent(new)
    BY WriteItemFacts
  <2>2. AcknowledgeItem(db, item) = new
    BY <1>2 DEF AcknowledgeItem
  <2> HIDE DEF new
  <2>3. Claimed(new, item)
    <3>1. RowOf(item).idempotency_key = item.idempotency_key
      BY DEF RowOf
    <3>2. RowOf(item) \in new.idempotency
      BY <2>1
    <3> QED
      BY <3>1, <3>2 DEF Claimed
  <2> QED
    BY <1>2, <2>1, <2>2, <2>3
<1> QED
  BY <1>1, <1>2

\* The tables between the items of a batch.
LEMMA AfterItemsSteps ==
    ASSUME NEW db \in Db, NEW batch \in Seq(BatchWriteItem)
    PROVE  /\ AfterItems(db, batch, 0) = db
           /\ \A n \in 1..Len(batch) :
                 AfterItems(db, batch, n) = AcknowledgeItem(AfterItems(db, batch, n - 1), batch[n])
           /\ \A n \in 0..Len(batch) :
                 AfterItems(db, batch, n) \in Db /\ Extends(db, AfterItems(db, batch, n))
<1> DEFINE N == Len(batch)
           step == [n \in 1..N |-> [d \in Db |-> AcknowledgeItem(d, batch[n])]]
<1>1. N \in Nat /\ \A n \in 1..N : batch[n] \in BatchWriteItem
  OBVIOUS
<1> HIDE DEF N
<1>2. \A n \in 1..N : \A d \in Db : AcknowledgeItem(d, batch[n]) \in Db
  BY <1>1, AcknowledgeItemFacts
<1>3. PICK f : Iterates(f, Db, db, N, step)
  <2>1. step \in [1..N -> [Db -> Db]]
    BY <1>2
  <2> HIDE DEF step
  <2> QED
    BY <1>1, <2>1, Recursion
<1>4. /\ f \in [0..N -> Db] /\ f[0] = db
      /\ \A n \in 1..N : f[n] = step[n][f[n - 1]]
  BY <1>3 DEF Iterates
<1>5. \A n \in 1..N : n - 1 \in 0..N
  BY <1>1
<1>6. \A n \in 1..N : f[n] = AcknowledgeItem(f[n - 1], batch[n])
  BY <1>4, <1>5
<1> HIDE DEF step
<1> DEFINE After[i \in 0..Len(batch)] ==
              IF i = 0 THEN db ELSE AcknowledgeItem(After[i - 1], batch[i])
           IsAfter(g) == g = [i \in 0..N |->
                                IF i = 0 THEN db ELSE AcknowledgeItem(g[i - 1], batch[i])]
<1>7. \A n : AfterItems(db, batch, n) = After[n]
  BY DEF AfterItems
<1>8. IsAfter(After)
  <2>1. IsAfter(f)
    <3>1. f = [i \in 0..N |-> f[i]]
      BY <1>4
    <3>2. \A i \in 0..N : f[i] = IF i = 0 THEN db ELSE AcknowledgeItem(f[i - 1], batch[i])
      <4> TAKE i \in 0..N
      <4>1. i # 0 => i \in 1..N
        BY <1>1
      <4> QED
        BY <1>4, <1>6, <4>1
    <3> QED
      BY <3>1, <3>2
  <2>2. After = CHOOSE g : IsAfter(g)
    BY DEF N
  <2> HIDE DEF IsAfter, After
  <2> QED
    BY <2>1, <2>2
<1> HIDE DEF After
<1>9. After[0] = db /\ \A n \in 1..N : After[n] = AcknowledgeItem(After[n - 1], batch[n])
  BY <1>1, <1>8
<1> DEFINE Good == {n \in Nat : n <= N => After[n] \in Db /\ Extends(db, After[n])}
<1>10. 0 \in Good
  BY <1>9, ExtendsRefl
<1>11. \A n \in Nat : n \in Good => n + 1 \in Good
  <2> SUFFICES ASSUME NEW n \in Nat, n \in Good, n + 1 <= N
               PROVE  After[n + 1] \in Db /\ Extends(db, After[n + 1])
    OBVIOUS
  <2>1. n + 1 \in 1..N /\ (n + 1) - 1 = n /\ n <= N
    BY <1>1
  <2>2. After[n] \in Db /\ Extends(db, After[n])
    BY <2>1
  <2>3. After[n + 1] = AcknowledgeItem(After[n], batch[n + 1])
    BY <1>9, <2>1
  <2>4. AcknowledgeItem(After[n], batch[n + 1]) \in Db
        /\ Extends(After[n], AcknowledgeItem(After[n], batch[n + 1]))
    BY <1>1, <2>1, <2>2, AcknowledgeItemFacts
  <2> QED
    BY <2>2, <2>3, <2>4, ExtendsTrans
<1>12. Nat \subseteq Good
  <2> HIDE DEF Good
  <2> QED
    BY <1>10, <1>11, SetInduction
<1>13. \A n \in 0..N : After[n] \in Db /\ Extends(db, After[n])
  BY <1>1, <1>12
<1> QED
  BY <1>7, <1>9, <1>13 DEF N

\* A batch whose items are duplicates or meet no constraint.
LEMMA AfterItemsConsistent ==
    ASSUME NEW db \in Db, NEW batch \in Seq(BatchWriteItem), Consistent(db),
           \A n \in DOMAIN batch : \/ Claimed(AfterItems(db, batch, n - 1), batch[n])
                                   \/ ~Conflict(AfterItems(db, batch, n - 1), batch[n])
    PROVE  /\ Consistent(AfterItems(db, batch, Len(batch)))
           /\ \A n \in DOMAIN batch : Claimed(AfterItems(db, batch, Len(batch)), batch[n])
<1> DEFINE N == Len(batch)
           A(n) == AfterItems(db, batch, n)
<1>1. N \in Nat /\ DOMAIN batch = 1..N /\ \A n \in 1..N : batch[n] \in BatchWriteItem
  OBVIOUS
<1>2. /\ A(0) = db
      /\ \A n \in 1..N : A(n) = AcknowledgeItem(A(n - 1), batch[n])
      /\ \A n \in 0..N : A(n) \in Db
  BY AfterItemsSteps
<1>3. \A n \in 1..N : Claimed(A(n - 1), batch[n]) \/ ~Conflict(A(n - 1), batch[n])
  BY <1>1
<1> HIDE DEF N, A
<1> DEFINE Good == {n \in Nat : n <= N =>
                       Consistent(A(n)) /\ \A i \in 1..n : Claimed(A(n), batch[i])}
<1>4. 0 \in Good
  BY <1>2
<1>5. \A n \in Nat : n \in Good => n + 1 \in Good
  <2> SUFFICES ASSUME NEW n \in Nat, n \in Good, n + 1 <= N
               PROVE  /\ Consistent(A(n + 1))
                      /\ \A i \in 1..(n + 1) : Claimed(A(n + 1), batch[i])
    OBVIOUS
  <2> DEFINE k == n + 1
  <2>1. k \in 1..N /\ k - 1 = n /\ n <= N /\ n \in 0..N
    BY <1>1
  <2>2. \A i \in 1..k : i = k \/ i \in 1..n
    OBVIOUS
  <2>3. Consistent(A(n)) /\ \A i \in 1..n : Claimed(A(n), batch[i])
    BY <2>1
  <2> HIDE DEF k
  <2>4. /\ A(k) = AcknowledgeItem(A(n), batch[k])
        /\ Extends(A(n), A(k))
        /\ Claimed(A(k), batch[k]) /\ Consistent(A(k))
    <3>1. A(n) \in Db /\ A(k) = AcknowledgeItem(A(n), batch[k])
      BY <1>2, <2>1
    <3>2. Claimed(A(n), batch[k]) \/ ~Conflict(A(n), batch[k])
      BY <1>3, <2>1
    <3> QED
      BY <1>1, <2>1, <2>3, <3>1, <3>2, AcknowledgeItemFacts
  <2>5. \A i \in 1..n : Claimed(A(k), batch[i])
    BY <2>3, <2>4 DEF Claimed, Extends
  <2> QED
    BY <2>2, <2>4, <2>5 DEF k
<1>6. Nat \subseteq Good
  <2> HIDE DEF Good
  <2> QED
    BY <1>4, <1>5, SetInduction
<1>7. N \in Good
  BY <1>1, <1>6
<1> QED
  BY <1>1, <1>7 DEF N, A

\* A batch claims no event but its own.
LEMMA AfterItemsClaims ==
    ASSUME NEW db \in Db, NEW batch \in Seq(BatchWriteItem)
    PROVE  \A r \in AfterItems(db, batch, Len(batch)).idempotency :
              r \in db.idempotency \/ \E i \in DOMAIN batch : r = RowOf(batch[i])
<1> DEFINE N == Len(batch)
           A(n) == AfterItems(db, batch, n)
           Own(r) == \E i \in DOMAIN batch : r = RowOf(batch[i])
<1>1. N \in Nat /\ DOMAIN batch = 1..N /\ \A n \in 1..N : batch[n] \in BatchWriteItem
  OBVIOUS
<1>2. /\ A(0) = db
      /\ \A n \in 1..N : A(n) = AcknowledgeItem(A(n - 1), batch[n])
      /\ \A n \in 0..N : A(n) \in Db
  BY AfterItemsSteps
<1>3. \A n \in 1..N : Own(RowOf(batch[n]))
  BY <1>1
<1> HIDE DEF N, A, Own
<1> DEFINE Good == {n \in Nat : n <= N =>
                       \A r \in A(n).idempotency : r \in db.idempotency \/ Own(r)}
<1>4. 0 \in Good
  BY <1>2
<1>5. \A n \in Nat : n \in Good => n + 1 \in Good
  <2> SUFFICES ASSUME NEW n \in Nat, n \in Good, n + 1 <= N
               PROVE  \A r \in A(n + 1).idempotency : r \in db.idempotency \/ Own(r)
    OBVIOUS
  <2> DEFINE k == n + 1
  <2>1. k \in 1..N /\ k - 1 = n /\ n <= N /\ n \in 0..N
    BY <1>1
  <2>2. \A r \in A(n).idempotency : r \in db.idempotency \/ Own(r)
    BY <2>1
  <2> HIDE DEF k
  <2>3. A(n) \in Db /\ A(k) = AcknowledgeItem(A(n), batch[k]) /\ batch[k] \in BatchWriteItem
    BY <1>1, <1>2, <2>1
  <2>4. A(k).idempotency \subseteq A(n).idempotency \cup {RowOf(batch[k])}
    BY <2>3, WriteItemFacts DEF AcknowledgeItem
  <2>5. Own(RowOf(batch[k]))
    BY <1>3, <2>1
  <2> QED
    BY <2>2, <2>4, <2>5 DEF k
<1>6. Nat \subseteq Good
  <2> HIDE DEF Good
  <2> QED
    BY <1>4, <1>5, SetInduction
<1>7. N \in Good
  BY <1>1, <1>6
<1> QED
  BY <1>1, <1>7 DEF N, A, Own

\* What recovery does to one row.
LEMMA RecoverStagedFacts ==
    ASSUME NEW db \in Db, NEW id \in DOMAIN db.wal_staging
    PROVE  LET new == RecoverStaged(db, id) IN
           /\ new \in Db
           /\ Extends(db, new)
           /\ Len(new.wal_staging) = Len(db.wal_staging)
           /\ new.idempotency = db.idempotency
           /\ Consistent(db) => Consistent(new)
<1> DEFINE e == db.wal_staging[id].event_id
           flagged == FlagRow(db, id)
           promoted == PromoteRow(db, id, last_hash(db.ledger))
<1>1. db.wal_staging \in Seq(WalRow) /\ db.ledger \in Seq(LedgerEntry) /\ e \in EventId
  <2>1. db.wal_staging \in Seq(WalRow) /\ db.ledger \in Seq(LedgerEntry)
    BY DEF Db
  <2>2. db.wal_staging[id] \in WalRow
    BY <2>1
  <2> QED
    BY <2>1, <2>2 DEF WalRow
<1>2. /\ flagged.wal_staging = MarkCommitted(db.wal_staging, e)
      /\ promoted.wal_staging = MarkCommitted(db.wal_staging, e)
      /\ flagged.idempotency = db.idempotency /\ promoted.idempotency = db.idempotency
  BY DEF FlagRow, PromoteRow, Db
<1>3. Len(MarkCommitted(db.wal_staging, e)) = Len(db.wal_staging)
  BY <1>1, MarkCommittedFacts
<1>4. CASE e \in EventsOf(db.ledger)
  <2>1. RecoverStaged(db, id) = flagged
    BY <1>4 DEF RecoverStaged
  <2> HIDE DEF flagged
  <2>2. flagged \in Db /\ Extends(db, flagged) /\ (Consistent(db) => Consistent(flagged))
    BY <1>4, FlagRowFacts DEF flagged
  <2> QED
    BY <1>2, <1>3, <2>1, <2>2
<1>5. CASE e \notin EventsOf(db.ledger)
  <2>1. RecoverStaged(db, id) = promoted
    BY <1>5 DEF RecoverStaged
  <2> HIDE DEF promoted
  <2>2. promoted \in Db /\ Extends(db, promoted) /\ (Consistent(db) => Consistent(promoted))
    <3>1. last_hash(db.ledger) \in Digest
      BY <1>1, LastHashType
    <3> QED
      BY <1>5, <3>1, PromoteRowFacts DEF promoted
  <2> QED
    BY <1>2, <1>3, <2>1, <2>2
<1> QED
  BY <1>4, <1>5

\* The tables between the rows of recovery.
LEMMA AfterRowsSteps ==
    ASSUME NEW db \in Db
    PROVE  LET N == Len(db.wal_staging) IN
           /\ N \in Nat
           /\ AfterRows(db, 0) = db
           /\ \A n \in 1..N :
                 AfterRows(db, n) = IF db.wal_staging[n].committed THEN AfterRows(db, n - 1)
                                    ELSE RecoverStaged(AfterRows(db, n - 1), n)
           /\ \A n \in 0..N : /\ AfterRows(db, n) \in Db
                              /\ Extends(db, AfterRows(db, n))
                              /\ Len(AfterRows(db, n).wal_staging) = N
                              /\ AfterRows(db, n).idempotency = db.idempotency
                              /\ Consistent(db) => Consistent(AfterRows(db, n))
<1> DEFINE N == Len(db.wal_staging)
           S == {d \in Db : /\ Extends(db, d)
                            /\ Len(d.wal_staging) = N
                            /\ d.idempotency = db.idempotency
                            /\ Consistent(db) => Consistent(d)}
           step == [n \in 1..N |-> [d \in S |->
                       IF db.wal_staging[n].committed THEN d ELSE RecoverStaged(d, n)]]
<1>1. N \in Nat
  BY DEF Db
<1>2. db \in S
  BY ExtendsRefl
<1>3. ASSUME NEW d \in S, NEW n \in 1..N
      PROVE  RecoverStaged(d, n) \in S
  <2>1. n \in DOMAIN d.wal_staging
    BY DEF Db
  <2> QED
    BY <2>1, RecoverStagedFacts, ExtendsTrans
<1>4. S \subseteq Db /\ \A d \in S : /\ Extends(db, d)
                                     /\ Len(d.wal_staging) = N
                                     /\ d.idempotency = db.idempotency
                                     /\ Consistent(db) => Consistent(d)
  OBVIOUS
<1> HIDE DEF N, S
<1>5. PICK f : Iterates(f, S, db, N, step)
  <2>1. step \in [1..N -> [S -> S]]
    BY <1>3
  <2> HIDE DEF step
  <2> QED
    BY <1>1, <1>2, <2>1, Recursion
<1>6. /\ f \in [0..N -> S] /\ f[0] = db
      /\ \A n \in 1..N : f[n] = step[n][f[n - 1]]
  BY <1>5 DEF Iterates
<1>7. \A n \in 1..N : n - 1 \in 0..N
  BY <1>1
<1>8. \A n \in 1..N : f[n] = IF db.wal_staging[n].committed THEN f[n - 1]
                             ELSE RecoverStaged(f[n - 1], n)
  BY <1>6, <1>7
<1> HIDE DEF step
<1> DEFINE After[i \in 0..Len(db.wal_staging)] ==
              IF i = 0 THEN db
              ELSE IF db.wal_staging[i].committed THEN After[i - 1]
              ELSE RecoverStaged(After[i - 1], i)
           IsAfter(g) == g = [i \in 0..N |->
                                IF i = 0 THEN db
                                ELSE IF db.wal_staging[i].committed THEN g[i - 1]
                                ELSE RecoverStaged(g[i - 1], i)]
<1>9. \A n : AfterRows(db, n) = After[n]
  BY DEF AfterRows
<1>10. IsAfter(After)
  <2>1. IsAfter(f)
    <3>1. f = [i \in 0..N |-> f[i]]
      BY <1>6
    <3>2. \A i \in 0..N : f[i] = IF i = 0 THEN db
                                 ELSE IF db.wal_staging[i].committed THEN f[i - 1]
                                 ELSE RecoverStaged(f[i - 1], i)
      <4> TAKE i \in 0..N
      <4>1. i # 0 => i \in 1..N
        BY <1>1
      <4> QED
        BY <1>6, <1>8, <4>1
    <3> QED
      BY <3>1, <3>2
  <2>2. After = CHOOSE g : IsAfter(g)
    BY DEF N
  <2> HIDE DEF IsAfter, After
  <2> QED
    BY <2>1, <2>2
<1> HIDE DEF After
<1>11. /\ After[0] = db
       /\ \A n \in 1..N : After[n] = IF db.wal_staging[n].committed THEN After[n - 1]
                                     ELSE RecoverStaged(After[n - 1], n)
  BY <1>1, <1>10
<1> DEFINE Good == {n \in Nat : n <= N => After[n] \in S}
<1>12. 0 \in Good
  BY <1>2, <1>11
<1>13. \A n \in Nat : n \in Good => n + 1 \in Good
  <2> SUFFICES ASSUME NEW n \in Nat, n \in Good, n + 1 <= N
               PROVE  After[n + 1] \in S
    OBVIOUS
  <2> DEFINE k == n + 1
  <2>1. k \in 1..N /\ k - 1 = n /\ n <= N
    BY <1>1
  <2>2. After[n] \in S
    BY <2>1
  <2> HIDE DEF k
  <2>3. RecoverStaged(After[n], k) \in S
    BY <1>3, <2>1, <2>2
  <2>4. After[k] \in S
    BY <1>11, <2>1, <2>2, <2>3
  <2> QED
    BY <2>4 DEF k
<1>14. Nat \subseteq Good
  <2> HIDE DEF Good
  <2> QED
    BY <1>12, <1>13, SetInduction
<1>15. \A n \in 0..N : After[n] \in S
  BY <1>1, <1>14
<1> QED
  BY <1>1, <1>4, <1>9, <1>11, <1>15 DEF N

\* Rows that are committed already are passed over.
LEMMA AfterRowsSkips ==
    ASSUME NEW db \in Db, NEW m \in Nat, NEW n \in Nat,
           m <= n, n <= Len(db.wal_staging),
           \A i \in (m + 1)..n : db.wal_staging[i].committed
    PROVE  AfterRows(db, n) = AfterRows(db, m)
<1> DEFINE N == Len(db.wal_staging)
           A(i) == AfterRows(db, i)
<1>1. /\ N \in Nat
      /\ \A i \in 1..N : A(i) = IF db.wal_staging[i].committed THEN A(i - 1)
                                ELSE RecoverStaged(A(i - 1), i)
  BY AfterRowsSteps
<1> DEFINE Good == {i \in Nat : m + i <= n => A(m + i) = A(m)}
<1> HIDE DEF A
<1>2. 0 \in Good
  OBVIOUS
<1>3. \A i \in Nat : i \in Good => i + 1 \in Good
  <2> SUFFICES ASSUME NEW i \in Nat, i \in Good, m + (i + 1) <= n
               PROVE  A(m + (i + 1)) = A(m)
    OBVIOUS
  <2> DEFINE k == m + (i + 1)
  <2>1. k \in 1..N /\ k \in (m + 1)..n /\ k - 1 = m + i /\ m + i <= n
    BY <1>1
  <2>2. A(m + i) = A(m)
    BY <2>1
  <2> HIDE DEF k
  <2>3. A(k) = A(m)
    BY <1>1, <2>1, <2>2
  <2> QED
    BY <2>3 DEF k
<1>4. Nat \subseteq Good
  <2> HIDE DEF Good
  <2> QED
    BY <1>2, <1>3, SetInduction
<1>5. n - m \in Nat /\ m + (n - m) = n
  OBVIOUS
<1>6. n - m \in Good
  BY <1>4, <1>5
<1> QED
  BY <1>5, <1>6 DEF A
=============================================================================
