-------------------------- MODULE VaultServiceProofs --------------------------
(***************************************************************************)
(* For any requests, threads, crashes and failing calls: the in-memory     *)
(* graph never runs ahead of the database, what /openlineage writes        *)
(* belongs to events that are in the ledger, field mappings follow the     *)
(* graph, and what a client was told is new is there to stay.  Then what a verdict of the    *)
(* compliance agent, which POST /events asks for, says of two schemas.     *)
(***************************************************************************)
EXTENDS VaultService, SchemaCompat, VaultTablesProofs

-----------------------------------------------------------------------------
(* GraphIsDurable *)

\* What the graph shows is durable, and the connection has not lost it: a commit
\* publishes the connection's rows, a rollback or a restart goes back to the others.
GraphInv ==
    /\ graph \subseteq Edges(lineage)
    /\ Edges(lineage) \subseteq Edges(view)

\* INSERTs replace run events only.
LEMMA InsertKeepsEdges ==
    ASSUME NEW rows, NEW new
    PROVE  Edges(rows) \cup Edges(ToSet(new)) \subseteq Edges(InsertAll(rows, new))
<1>1. \A r \in rows : r.row.table = "dataset_edges" => r \in InsertAll(rows, new)
  BY DEF InsertAll
<1>2. ToSet(new) \subseteq InsertAll(rows, new)
  BY DEF InsertAll
<1> QED
  BY <1>1, <1>2 DEF Edges

\* A step that commits the connection's rows, and perhaps more edges, and adds to
\* the graph only what it committed.
LEMMA CommitKeepsGraph ==
    ASSUME GraphInv, NEW rows, Commit(rows),
           Edges(view) \subseteq Edges(rows), graph' \subseteq graph \cup Edges(rows)
    PROVE  GraphInv'
<1>1. view' = rows /\ lineage' = rows
  BY DEF Commit
<1>2. Edges(view)' = Edges(rows) /\ Edges(lineage)' = Edges(rows)
  BY <1>1
<1> QED
  BY <1>2 DEF GraphInv

\* A call that commits tells the graph its edges.
LEMMA StoreKeepsGraph ==
    ASSUME GraphInv, NEW t \in Threads, Store(t)
    PROVE  GraphInv'
<1> DEFINE rows == InsertAll(view, Head(thread[t].todo))
<1>1. /\ Commit(rows)
      /\ graph' = graph \cup Edges(ToSet(Head(thread[t].todo)))
  BY DEF Store
<1>2. Edges(view) \cup Edges(ToSet(Head(thread[t].todo))) \subseteq Edges(rows)
  BY InsertKeepsEdges
<1> HIDE DEF rows
<1> QED
  BY <1>1, <1>2, CommitKeepsGraph

\* Whatever a call that raised left on the connection, no edge is lost from it.
LEMMA StoreFailsKeepsGraph ==
    ASSUME GraphInv, NEW t \in Threads, StoreFails(t)
    PROVE  GraphInv'
<1> DEFINE call == Head(thread[t].todo)
<1>1. graph' = graph
  BY DEF StoreFails
<1>2. CASE UNCHANGED lineage /\ \E k \in 0..Len(call) :
                                    view' = InsertAll(view, SubSeq(call, 1, k))
  <2>1. PICK k \in 0..Len(call) : view' = InsertAll(view, SubSeq(call, 1, k))
    BY <1>2
  <2>2. Edges(view) \subseteq Edges(view)'
    <3>1. Edges(view) \subseteq Edges(InsertAll(view, SubSeq(call, 1, k)))
      BY InsertKeepsEdges
    <3> QED
      BY <2>1, <3>1
  <2>3. Edges(lineage)' = Edges(lineage)
    BY <1>2
  <2> QED
    BY <1>1, <2>2, <2>3 DEF GraphInv
<1>3. CASE Commit(InsertAll(view, call))
  BY <1>1, <1>3, InsertKeepsEdges, CommitKeepsGraph
<1> QED
  BY <1>2, <1>3 DEF StoreFails

\* A restart loads the durable edges.
LEMMA RestartKeepsGraph ==
    ASSUME GraphInv, Restart
    PROVE  GraphInv'
<1>1. view' = lineage /\ lineage' = lineage /\ graph' = Edges(lineage)
  BY DEF Restart
<1>2. Edges(view)' = Edges(lineage) /\ Edges(lineage)' = Edges(lineage)
  BY <1>1
<1> QED
  BY <1>1, <1>2 DEF GraphInv

\* No step takes the graph ahead of the tables.
LEMMA GraphStep ==
    ASSUME GraphInv, [Next]_vars
    PROVE  GraphInv'
<1>1. ASSUME NEW t \in Threads, NEW req \in Requests,
             PostOpenLineage(t, req) \/ PostEvent(t, req)
      PROVE  GraphInv'
  <2>1. Commit(view) /\ graph' = graph
    BY <1>1 DEF PostOpenLineage, PostEvent
  <2> QED
    BY <2>1, CommitKeepsGraph
<1>2. ASSUME NEW t \in Threads, NEW req \in Requests, PostFails(t, req)
      PROVE  GraphInv'
  <2>1. view' = lineage /\ lineage' = lineage /\ graph' = graph
    BY <1>2 DEF PostFails
  <2>2. Edges(view)' = Edges(lineage) /\ Edges(lineage)' = Edges(lineage)
    BY <2>1
  <2> QED
    BY <2>1, <2>2 DEF GraphInv
<1>3. ASSUME NEW t \in Threads, Store(t) \/ StoreFails(t)
      PROVE  GraphInv'
  BY <1>3, StoreKeepsGraph, StoreFailsKeepsGraph
<1>4. ASSUME UNCHANGED <<lineage, view, graph>>
      PROVE  GraphInv'
  <2>1. Edges(view)' = Edges(view) /\ Edges(lineage)' = Edges(lineage)
    BY <1>4
  <2> QED
    BY <1>4, <2>1 DEF GraphInv
<1>5. ASSUME NEW t \in Threads, Reply(t)
      PROVE  GraphInv'
  BY <1>4, <1>5 DEF Reply
<1>6. CASE UNCHANGED vars
  BY <1>4, <1>6 DEF vars
<1> QED
  BY <1>1, <1>2, <1>3, <1>5, <1>6, RestartKeepsGraph DEF Next

\* GET /lineage, /impact: an edge the in-memory graph shows is in dataset_edges,
\* committed, whatever calls failed and whoever committed or rolled back.
THEOREM GraphAlwaysDurable == Spec => []GraphIsDurable
<1>1. Init => GraphInv
  BY DEF Init, GraphInv, Edges
<1>2. GraphInv /\ [Next]_vars => GraphInv'
  BY GraphStep
<1>3. GraphInv => GraphIsDurable
  BY DEF GraphInv, GraphIsDurable
<1> QED
  BY <1>1, <1>2, <1>3, PTL DEF Spec

-----------------------------------------------------------------------------
(* The contract's tables are those of VaultTables. *)

\* A batch, item by item.
LEMMA SameItems ==
    /\ \A d, item : /\ Vault!Claimed(d, item) <=> Claimed(d, item)
                    /\ Vault!Conflict(d, item) <=> Conflict(d, item)
    /\ \A d, batch, n : Vault!AfterItems(d, batch, n) = AfterItems(d, batch, n)
<1>1. \A d, item : /\ Vault!Claimed(d, item) <=> Claimed(d, item)
                   /\ Vault!Conflict(d, item) <=> Conflict(d, item)
  BY DEF Claimed, Vault!Claimed, Conflict, Vault!Conflict, EventsOf, Vault!EventsOf
<1>2. \A d, batch, n : Vault!AfterItems(d, batch, n) = AfterItems(d, batch, n)
  BY DEF AfterItems, Vault!AfterItems, AcknowledgeItem, Vault!AcknowledgeItem,
         Claimed, Vault!Claimed, WriteItem, Vault!WriteItem, RowOf, Vault!RowOf,
         NewEntry, Vault!NewEntry, entry_hash, Vault!entry_hash,
         last_hash, Vault!last_hash, GENESIS_HASH, Vault!GENESIS_HASH,
         MarkCommitted, Vault!MarkCommitted, InsertOrIgnore, Vault!InsertOrIgnore,
         EventsOf, Vault!EventsOf
<1> QED
  BY <1>1, <1>2

\* Recovery, row by row.
LEMMA SameRows ==
    \A d, n : Vault!AfterRows(d, n) = AfterRows(d, n)
BY DEF AfterRows, Vault!AfterRows, RecoverStaged, Vault!RecoverStaged,
       FlagRow, Vault!FlagRow, PromoteRow, Vault!PromoteRow,
       NewEntry, Vault!NewEntry, entry_hash, Vault!entry_hash,
       last_hash, Vault!last_hash, GENESIS_HASH, Vault!GENESIS_HASH,
       MarkCommitted, Vault!MarkCommitted,
       EventsOf, Vault!EventsOf

-----------------------------------------------------------------------------
(* The calls a handler has left. *)

RowsOf(todo) == UNION {ToSet(todo[c]) : c \in DOMAIN todo}

\* Every mapping of a call has its edge in an earlier one.
Ordered(todo) ==
    \A j \in DOMAIN todo : \A r \in ToSet(todo[j]) :
        r.row.table = "field_mappings" => MappingEdge(r) \in EdgesBefore(todo, j)

\* Taking the first call off.
LEMMA TailFacts ==
    ASSUME NEW S, NEW todo \in Seq(Seq(S)), todo # << >>
    PROVE  /\ Tail(todo) \in Seq(Seq(S))
           /\ Head(todo) \in Seq(S)
           /\ RowsOf(todo) = ToSet(Head(todo)) \cup RowsOf(Tail(todo))
           /\ \A j \in DOMAIN Tail(todo) :
                 /\ j + 1 \in DOMAIN todo /\ Tail(todo)[j] = todo[j + 1]
                 /\ EdgesBefore(todo, j + 1) =
                       Edges(ToSet(Head(todo))) \cup EdgesBefore(Tail(todo), j)
<1> DEFINE rest == Tail(todo)
<1>1. /\ Len(todo) \in Nat \ {0} /\ DOMAIN todo = 1..Len(todo)
      /\ rest \in Seq(Seq(S)) /\ DOMAIN rest = 1..(Len(todo) - 1)
      /\ \A j \in DOMAIN rest : rest[j] = todo[j + 1]
      /\ Head(todo) = todo[1] /\ Head(todo) \in Seq(S)
  OBVIOUS
<1> HIDE DEF rest
<1>2. RowsOf(todo) \subseteq ToSet(todo[1]) \cup RowsOf(rest)
  <2> SUFFICES ASSUME NEW c \in DOMAIN todo, NEW r \in ToSet(todo[c]), c # 1
               PROVE  r \in RowsOf(rest)
    BY DEF RowsOf
  <2>1. c - 1 \in DOMAIN rest /\ (c - 1) + 1 = c
    BY <1>1
  <2>2. rest[c - 1] = todo[c]
    BY <1>1, <2>1
  <2> QED
    BY <2>1, <2>2 DEF RowsOf
<1>3. \A c \in DOMAIN rest : c + 1 \in DOMAIN todo /\ rest[c] = todo[c + 1]
  BY <1>1
<1>4. RowsOf(rest) \subseteq RowsOf(todo)
  BY <1>3 DEF RowsOf
<1>5. ToSet(todo[1]) \subseteq RowsOf(todo)
  BY <1>1 DEF RowsOf
<1>6. ASSUME NEW j \in DOMAIN rest
      PROVE  EdgesBefore(todo, j + 1) = Edges(ToSet(todo[1])) \cup EdgesBefore(rest, j)
  <2>1. ASSUME NEW i \in 1..j, i # 1
        PROVE  i - 1 \in 1..(j - 1) /\ rest[i - 1] = todo[i]
    <3>1. i - 1 \in 1..(j - 1) /\ i - 1 \in DOMAIN rest /\ (i - 1) + 1 = i
      BY <1>1, <1>6, <2>1
    <3> QED
      BY <1>1, <3>1
  <2>2. ASSUME NEW i \in 1..(j - 1)
        PROVE  i + 1 \in 1..j /\ rest[i] = todo[i + 1]
    <3> DEFINE m == Len(todo)
    <3>1. m \in Nat /\ DOMAIN rest = 1..(m - 1) /\ j \in 1..(m - 1)
      BY <1>1, <1>6
    <3> HIDE DEF m
    <3>2. i \in DOMAIN rest /\ i + 1 \in 1..j
      BY <3>1
    <3> QED
      BY <1>1, <3>2
  <2>3. 1 \in 1..j /\ (j + 1) - 1 = j
    BY <1>1, <1>6
  <2>4. EdgesBefore(todo, j + 1) = UNION {Edges(ToSet(todo[i])) : i \in 1..j}
    BY <2>3 DEF EdgesBefore
  <2>5. EdgesBefore(rest, j) = UNION {Edges(ToSet(rest[i])) : i \in 1..(j - 1)}
    BY DEF EdgesBefore
  <2>6. EdgesBefore(todo, j + 1) \subseteq Edges(ToSet(todo[1])) \cup EdgesBefore(rest, j)
    <3> SUFFICES ASSUME NEW i \in 1..j, NEW e \in Edges(ToSet(todo[i]))
                 PROVE  e \in Edges(ToSet(todo[1])) \cup EdgesBefore(rest, j)
      BY <2>4
    <3>1. CASE i = 1
      BY <3>1
    <3>2. CASE i # 1
      BY <3>2, <2>1, <2>5
    <3> QED
      BY <3>1, <3>2
  <2>7. Edges(ToSet(todo[1])) \cup EdgesBefore(rest, j) \subseteq EdgesBefore(todo, j + 1)
    BY <2>2, <2>3, <2>4, <2>5
  <2> QED
    BY <2>6, <2>7
<1> QED
  BY <1>1, <1>2, <1>3, <1>4, <1>5, <1>6 DEF rest

\* Two sequences of calls in order are in order one after the other.
LEMMA OrderedConcat ==
    ASSUME NEW S, NEW s \in Seq(S), NEW t \in Seq(S), Ordered(s), Ordered(t)
    PROVE  Ordered(s \o t)
<1> DEFINE st == s \o t
<1>1. /\ Len(s) \in Nat /\ Len(t) \in Nat
      /\ DOMAIN st = 1..(Len(s) + Len(t)) /\ DOMAIN s = 1..Len(s) /\ DOMAIN t = 1..Len(t)
      /\ \A i \in 1..(Len(s) + Len(t)) : st[i] = IF i <= Len(s) THEN s[i] ELSE t[i - Len(s)]
  BY ConcatProperties
<1> HIDE DEF st
<1> SUFFICES ASSUME NEW j \in DOMAIN st, NEW r \in ToSet(st[j]),
                    r.row.table = "field_mappings"
             PROVE  MappingEdge(r) \in EdgesBefore(st, j)
  BY DEF Ordered, st
<1>2. CASE j <= Len(s)
  <2>1. j \in DOMAIN s /\ st[j] = s[j]
    BY <1>1, <1>2
  <2>2. PICK i \in 1..(j - 1) : MappingEdge(r) \in Edges(ToSet(s[i]))
    BY <2>1 DEF Ordered, EdgesBefore
  <2>3. st[i] = s[i]
    BY <1>1, <2>1
  <2> QED
    BY <2>2, <2>3 DEF EdgesBefore
<1>3. CASE j > Len(s)
  <2> DEFINE k == j - Len(s)
  <2>1. k \in DOMAIN t /\ st[j] = t[k]
    BY <1>1, <1>3
  <2> HIDE DEF k
  <2>2. PICK i \in 1..(k - 1) : MappingEdge(r) \in Edges(ToSet(t[i]))
    BY <2>1 DEF Ordered, EdgesBefore
  <2>3. i + Len(s) \in 1..(j - 1) /\ st[i + Len(s)] = t[i]
    <3> DEFINE m == Len(s)
    <3>1. m \in Nat /\ k = j - m /\ k \in 1..Len(t) /\ j \in 1..(m + Len(t)) /\ j > m
      BY <1>1, <1>3, <2>1 DEF k
    <3> HIDE DEF m
    <3>2. /\ i + m \in 1..(j - 1) /\ i + m \in 1..(m + Len(t)) /\ ~(i + m <= m)
          /\ (i + m) - m = i
      BY <1>1, <3>1
    <3> QED
      BY <1>1, <3>2 DEF m
  <2> QED
    BY <2>2, <2>3 DEF EdgesBefore
<1> QED
  BY <1>1, <1>2, <1>3

\* The calls that follow for one event: rows in its name, one for every row of the
\* storage calls, in their order.
LEMMA CallsOfFacts ==
    ASSUME NEW endpoint \in Endpoint, NEW id \in 1..MaxIds,
           NEW calls \in Seq(Seq(TableRow)), EdgesFirst(calls)
    PROVE  LET todo == CallsOf(endpoint, id, calls) IN
           /\ todo \in Seq(Seq(LineageRow))
           /\ Ordered(todo)
           /\ \A r \in RowsOf(todo) : r.endpoint = endpoint /\ r.event_id = id
           /\ \A c \in DOMAIN calls : \A row \in ToSet(calls[c]) :
                 \E r \in RowsOf(todo) : r.event_id = id /\ r.row = row
<1> DEFINE todo == CallsOf(endpoint, id, calls)
           line(c, n) == [endpoint |-> endpoint, event_id |-> id, call |-> c, n |-> n,
                          row |-> calls[c][n]]
<1>1. /\ Len(calls) \in Nat /\ DOMAIN calls = 1..Len(calls)
      /\ todo = [c \in DOMAIN calls |-> [n \in DOMAIN calls[c] |-> line(c, n)]]
  BY DEF CallsOf
<1>2. \A c \in DOMAIN calls : /\ calls[c] \in Seq(TableRow)
                              /\ todo[c] = [n \in DOMAIN calls[c] |-> line(c, n)]
                              /\ DOMAIN todo[c] = DOMAIN calls[c]
                              /\ \A n \in DOMAIN calls[c] : todo[c][n] = line(c, n)
  BY <1>1
<1>3. \A c \in DOMAIN calls : \A n \in DOMAIN calls[c] :
         /\ line(c, n) \in LineageRow
         /\ line(c, n).endpoint = endpoint /\ line(c, n).event_id = id
         /\ line(c, n).row = calls[c][n]
  <2> SUFFICES ASSUME NEW c \in DOMAIN calls, NEW n \in DOMAIN calls[c]
               PROVE  line(c, n) \in LineageRow
    OBVIOUS
  <2>1. c \in Nat /\ n \in Nat /\ calls[c][n] \in TableRow
    BY <1>1, <1>2
  <2> QED
    BY <2>1 DEF LineageRow
<1>4. DOMAIN todo = DOMAIN calls
  BY <1>1
<1> HIDE DEF todo, line
<1>5. \A c \in DOMAIN calls : todo[c] \in Seq(LineageRow)
  <2> SUFFICES ASSUME NEW c \in DOMAIN calls
               PROVE  todo[c] \in Seq(LineageRow)
    OBVIOUS
  <2> DEFINE g == todo[c]
  <2>1. g = [n \in DOMAIN calls[c] |-> g[n]] /\ calls[c] \in Seq(TableRow)
    BY <1>2
  <2>2. \A n \in DOMAIN calls[c] : g[n] \in LineageRow
    BY <1>2, <1>3
  <2> HIDE DEF g
  <2>3. g \in Seq(LineageRow)
    BY <2>1, <2>2, MappedSeq
  <2> QED
    BY <2>3 DEF g
<1>6. todo \in Seq(Seq(LineageRow))
  <2>1. todo = [c \in DOMAIN calls |-> todo[c]]
    BY <1>1
  <2> QED
    BY <2>1, <1>5, MappedSeq
<1>7. \A r \in RowsOf(todo) : r.endpoint = endpoint /\ r.event_id = id
  BY <1>2, <1>3, <1>4 DEF RowsOf, ToSet
<1>8. \A c \in DOMAIN calls : \A row \in ToSet(calls[c]) :
         \E r \in ToSet(todo[c]) : r.event_id = id /\ r.row = row
  <2> SUFFICES ASSUME NEW c \in DOMAIN calls, NEW n \in DOMAIN calls[c]
               PROVE  \E r \in ToSet(todo[c]) : r.event_id = id /\ r.row = calls[c][n]
    BY DEF ToSet
  <2>1. line(c, n) \in ToSet(todo[c])
    BY <1>2 DEF ToSet
  <2> QED
    BY <2>1, <1>3
<1>9. Ordered(todo)
  <2> SUFFICES ASSUME NEW j \in DOMAIN todo, NEW r \in ToSet(todo[j]),
                      r.row.table = "field_mappings"
               PROVE  MappingEdge(r) \in EdgesBefore(todo, j)
    BY DEF Ordered
  <2>1. PICK n \in DOMAIN calls[j] : r = line(j, n)
    BY <1>2, <1>4 DEF ToSet
  <2>2. r.row \in MappingsOf(calls[j])
    <3>1. r.row = calls[j][n]
      BY <2>1, <1>3, <1>4
    <3> QED
      BY <3>1 DEF MappingsOf, ToSet
  <2>3. PICK i \in 1..(j - 1) : EdgeOf(r.row) \in ToSet(calls[i])
    BY <2>2, <1>4 DEF EdgesFirst
  <2>4. i \in DOMAIN calls
    BY <1>1, <1>4
  <2>5. PICK s \in ToSet(todo[i]) : s.row = EdgeOf(r.row)
    BY <1>8, <2>3, <2>4
  <2>6. s.row.table = "dataset_edges" /\ Edge(s) = MappingEdge(r)
    BY <2>5 DEF EdgeOf, Edge, MappingEdge
  <2>7. MappingEdge(r) \in Edges(ToSet(todo[i]))
    BY <2>6 DEF Edges
  <2> QED
    BY <2>7 DEF EdgesBefore
<1>10. \A c \in DOMAIN calls : \A row \in ToSet(calls[c]) :
          \E r \in RowsOf(todo) : r.event_id = id /\ r.row = row
  BY <1>4, <1>8 DEF RowsOf
<1> QED
  BY <1>6, <1>7, <1>9, <1>10 DEF todo

\* The claims are of events whose ids were drawn.
LedgerInv ==
    /\ Consistent(db)
    /\ \A r \in db.idempotency : r.event_id \in 1..ids

\* What a handler takes over when the storage has acknowledged its events, in the tables
\* `d' and with the ids `drawn'.
TakesOver(d, drawn, h) ==
    /\ h \in Handler
    /\ Ordered(h.todo)
    /\ \A r \in RowsOf(h.todo) :
          /\ r.event_id \in drawn
          /\ r.endpoint = "/openlineage" => r.event_id \in EventsOf(d.ledger)
    /\ \A a \in ToSet(h.results) : New(a) =>
          a.event_id \in drawn /\ Underway(a, RowsOf(h.todo))

\* Rows of the ledger stay.
LEMMA LedgerGrows ==
    ASSUME NEW old, NEW new, Extends(old, new), old \in Db, new \in Db
    PROVE  EventsOf(old.ledger) \subseteq EventsOf(new.ledger)
<1>1. DOMAIN old.ledger \subseteq DOMAIN new.ledger
  BY DEF Extends, Db
<1> QED
  BY <1>1 DEF Extends, EventsOf

\* The items of a request are items of a batch, each with an id of its own.
LEMMA ItemsFacts ==
    ASSUME NEW req \in Requests, ids \in Nat, ids + Len(req.events) <= MaxIds
    PROVE  /\ Items(req) \in Seq(BatchWriteItem)
           /\ req.events \in Seq(Payload) /\ req.endpoint \in Endpoint
           /\ DOMAIN Items(req) = DOMAIN req.events
           /\ \A i \in DOMAIN req.events :
                 /\ Items(req)[i].event_id = ids + i
                 /\ Items(req)[i].event_id \in (ids + 1)..(ids + Len(req.events))
                 /\ Items(req)[i].event_id \in 1..MaxIds
                 /\ Items(req)[i].payload = req.events[i]
                 /\ Items(req)[i].payload \in Payload
                 /\ Content[req.events[i]] \in OpenLineageRunEvent
<1>1. /\ req.events \in Seq(Payload) /\ req.endpoint \in Endpoint
      /\ req.key \in Key \cup {NoKey}
  BY ServiceAssumption
<1>2. Len(req.events) \in Nat /\ DOMAIN req.events = 1..Len(req.events) /\ MaxIds \in Nat
  BY <1>1, ServiceAssumption
<1>3. \A i \in DOMAIN req.events :
         /\ ids + i \in (ids + 1)..(ids + Len(req.events)) /\ ids + i \in 1..MaxIds
         /\ ids + i \in EventId
         /\ req.events[i] \in Payload /\ Content[req.events[i]] \in OpenLineageRunEvent
  BY <1>1, <1>2, ServiceAssumption
<1>4. \A i \in DOMAIN req.events : KeyOf(req, req.events[i], ids + i) \in Key
  <2> SUFFICES ASSUME NEW i \in DOMAIN req.events
               PROVE  KeyOf(req, req.events[i], ids + i) \in Key
    OBVIOUS
  <2>1. /\ <<ids + i>> \in Key
        /\ <<Content[req.events[i]].run_id, Content[req.events[i]].eventType>> \in Key
    BY <1>3, ServiceAssumption
  <2> QED
    BY <1>1, <2>1 DEF KeyOf
<1> DEFINE items == Items(req)
<1>5. /\ items = [i \in DOMAIN req.events |-> items[i]]
      /\ DOMAIN items = DOMAIN req.events
      /\ \A i \in DOMAIN req.events :
            items[i] = [idempotency_key |-> KeyOf(req, req.events[i], ids + i),
                        event_id        |-> ids + i,
                        payload         |-> req.events[i]]
  BY DEF Items
<1> HIDE DEF items
<1>6. ASSUME NEW i \in DOMAIN req.events
      PROVE  items[i] \in BatchWriteItem
  <2>1. /\ KeyOf(req, req.events[i], ids + i) \in Key
        /\ ids + i \in EventId /\ req.events[i] \in Payload
    BY <1>3, <1>4
  <2>2. items[i] = [idempotency_key |-> KeyOf(req, req.events[i], ids + i),
                    event_id        |-> ids + i,
                    payload         |-> req.events[i]]
    BY <1>5
  <2> QED
    BY <2>1, <2>2 DEF BatchWriteItem
<1>7. items \in Seq(BatchWriteItem)
  BY <1>1, <1>5, <1>6, MappedSeq
<1>8. ASSUME NEW i \in DOMAIN req.events
      PROVE  items[i].event_id = ids + i /\ items[i].payload = req.events[i]
  <2>1. items[i] = [idempotency_key |-> KeyOf(req, req.events[i], ids + i),
                    event_id        |-> ids + i,
                    payload         |-> req.events[i]]
    BY <1>5
  <2> QED
    BY <2>1
<1>9. \A i \in DOMAIN req.events :
         /\ items[i].event_id = ids + i
         /\ items[i].event_id \in (ids + 1)..(ids + Len(req.events))
         /\ items[i].event_id \in 1..MaxIds
         /\ items[i].payload = req.events[i]
         /\ items[i].payload \in Payload
         /\ Content[req.events[i]] \in OpenLineageRunEvent
  BY <1>3, <1>8
<1> QED
  BY <1>1, <1>5, <1>7, <1>9 DEF items

\* The contract's transaction: the tables stay consistent, each key of the batch is
\* claimed, by a row of old or of the batch.
LEMMA TransactionFacts ==
    ASSUME db \in Db, LedgerInv, NEW batch \in Seq(BatchWriteItem), NEW n \in Nat,
           ids \in Nat, \A i \in DOMAIN batch : batch[i].event_id \in (ids + 1)..n, ids <= n,
           Vault!acknowledge_writes_batch(batch)
    PROVE  /\ db' \in Db /\ Consistent(db') /\ Extends(db, db')
           /\ \A i \in DOMAIN batch : Claimed(db', batch[i])
           /\ \A r \in db'.idempotency : r.event_id \in 1..n
<1> DEFINE new == AfterItems(db, batch, Len(batch))
<1>1. db' = new
  BY SameItems DEF Vault!acknowledge_writes_batch
<1>2. \A i \in DOMAIN batch : \/ Claimed(AfterItems(db, batch, i - 1), batch[i])
                              \/ ~Conflict(AfterItems(db, batch, i - 1), batch[i])
  BY SameItems DEF Vault!acknowledge_writes_batch, Vault!Accepts
<1>3. Consistent(new) /\ \A i \in DOMAIN batch : Claimed(new, batch[i])
  BY <1>2, AfterItemsConsistent DEF LedgerInv
<1>4. new \in Db /\ Extends(db, new)
  BY AfterItemsSteps
<1>5. \A r \in new.idempotency : r \in db.idempotency \/ \E i \in DOMAIN batch : r = RowOf(batch[i])
  BY AfterItemsClaims
<1> HIDE DEF new
<1>6. \A r \in new.idempotency : r.event_id \in 1..n
  <2> SUFFICES ASSUME NEW r \in new.idempotency
               PROVE  r.event_id \in 1..n
    OBVIOUS
  <2>1. CASE r \in db.idempotency
    BY <2>1 DEF LedgerInv
  <2>2. ASSUME NEW i \in DOMAIN batch, r = RowOf(batch[i])
        PROVE  r.event_id \in 1..n
    <3>1. r.event_id = batch[i].event_id
      BY <2>2 DEF RowOf
    <3>2. batch[i].event_id \in (ids + 1)..n
      OBVIOUS
    <3> QED
      BY <3>1, <3>2
  <2> QED
    BY <2>1, <2>2, <1>5
<1> QED
  BY <1>1, <1>3, <1>4, <1>6

\* The reply for an item names the event that its key stands for.
LEMMA ResultFacts ==
    ASSUME NEW item \in BatchWriteItem, Claimed(db', item), Consistent(db'),
           \A r \in db'.idempotency : r.event_id \in 1..MaxIds
    PROVE  /\ ResultOf(item) \in Result
           /\ ResultOf(item).event = item.payload
           /\ New(ResultOf(item)) <=> ~ResultOf(item).duplicate
           /\ ~ResultOf(item).duplicate => /\ ResultOf(item).event_id = item.event_id
                                           /\ item.event_id \in EventsOf(db'.ledger)
<1> DEFINE claim == CHOOSE r \in db'.idempotency : r.idempotency_key = item.idempotency_key
           a == ResultOf(item)
<1>1. claim \in db'.idempotency
  BY DEF Claimed
<1>2. claim.event_id \in 1..MaxIds /\ claim.event_id \in EventsOf(db'.ledger)
  BY <1>1 DEF Consistent, KeysAreLedgered
<1>3. a = [endpoint |-> "/openlineage", event |-> item.payload, event_id |-> claim.event_id,
           duplicate |-> claim.event_id # item.event_id]
  BY DEF ResultOf
<1> HIDE DEF claim, a
<1>4. /\ a.endpoint = "/openlineage" /\ a.event = item.payload
      /\ a.event_id = claim.event_id /\ (a.duplicate <=> claim.event_id # item.event_id)
      /\ a.duplicate \in BOOLEAN
  BY <1>3
<1>5. item.payload \in Payload
  BY DEF BatchWriteItem
<1>6. a \in Result
  BY <1>2, <1>3, <1>5 DEF Result, Endpoint
<1> QED
  BY <1>2, <1>4, <1>6 DEF New, a

\* POST /openlineage, up to the reply of the storage.
LEMMA OpenLineageTakesOver ==
    ASSUME TypeOK, LedgerInv, NEW t \in Threads, NEW req \in Requests,
           PostOpenLineage(t, req)
    PROVE  /\ db' \in Db /\ LedgerInv' /\ Extends(db, db')
           /\ ids' \in ids..MaxIds
           /\ \E h \in Handler : /\ thread' = [thread EXCEPT ![t] = h]
                                 /\ TakesOver(db', (ids + 1)..ids', h)
<1> DEFINE items == Items(req)
           results == [i \in DOMAIN items |-> ResultOf(items[i])]
           calls == [i \in DOMAIN items |-> CallsFor(items[i], results[i])]
           h == [todo |-> FlattenSeq(calls), results |-> results]
           todos == {s \in Seq(Seq(LineageRow)) : Ordered(s)}
<1>1. /\ ids + Len(req.events) <= MaxIds /\ ids' = ids + Len(req.events)
      /\ Vault!acknowledge_writes_batch(items)
      /\ thread' = [thread EXCEPT ![t] = h]
  BY DEF PostOpenLineage
<1>2. ids \in Nat /\ db \in Db /\ MaxIds \in Nat
  BY ServiceAssumption DEF TypeOK
<1>3. /\ items \in Seq(BatchWriteItem)
      /\ req.events \in Seq(Payload)
      /\ DOMAIN items = DOMAIN req.events
      /\ \A i \in DOMAIN items :
            /\ items[i].event_id \in (ids + 1)..(ids + Len(req.events))
            /\ items[i].event_id \in 1..MaxIds
            /\ items[i].payload = req.events[i]
            /\ items[i].payload \in Payload
            /\ Content[items[i].payload] \in OpenLineageRunEvent
            /\ items[i] \in BatchWriteItem
  <2>1. items \in Seq(BatchWriteItem) /\ DOMAIN items = DOMAIN req.events
    BY <1>1, <1>2, ItemsFacts
  <2>2. \A i \in DOMAIN items : items[i] \in BatchWriteItem
    BY <2>1
  <2> QED
    BY <1>1, <1>2, <2>1, <2>2, ItemsFacts
<1> HIDE DEF items
<1>4. Len(req.events) \in Nat /\ ids' \in ids..MaxIds /\ ids' \in Nat /\ ids <= ids'
  BY <1>1, <1>2, <1>3
<1>5. /\ db' \in Db /\ Consistent(db') /\ Extends(db, db')
      /\ \A i \in DOMAIN items : Claimed(db', items[i])
      /\ \A r \in db'.idempotency : r.event_id \in 1..ids'
  BY <1>1, <1>2, <1>3, <1>4, TransactionFacts
<1>6. \A r \in db'.idempotency : r.event_id \in 1..MaxIds
  BY <1>4, <1>5, <1>2
<1>7. \A i \in DOMAIN items :
         /\ results[i] = ResultOf(items[i])
         /\ results[i] \in Result
         /\ results[i].event = items[i].payload
         /\ New(results[i]) <=> ~results[i].duplicate
         /\ ~results[i].duplicate => /\ results[i].event_id = items[i].event_id
                                     /\ items[i].event_id \in EventsOf(db'.ledger)
  BY <1>3, <1>5, <1>6, ResultFacts
<1>8. DOMAIN results = DOMAIN items /\ results = [i \in DOMAIN items |-> results[i]]
  OBVIOUS
<1>9. DOMAIN calls = DOMAIN items /\ calls = [i \in DOMAIN items |-> calls[i]]
      /\ \A i \in DOMAIN items : calls[i] = CallsFor(items[i], results[i])
  OBVIOUS
<1>10. h.todo = FlattenSeq(calls) /\ h.results = results
       /\ h = [todo |-> FlattenSeq(calls), results |-> results]
  OBVIOUS
<1> HIDE DEF results, calls, h
<1>11. results \in Seq(Result)
  BY <1>3, <1>7, <1>8, MappedSeq
<1>12. ASSUME NEW i \in DOMAIN items
       PROVE  /\ calls[i] \in todos
              /\ \A r \in RowsOf(calls[i]) : /\ r.event_id = items[i].event_id
                                             /\ r.event_id \in EventsOf(db'.ledger)
              /\ New(results[i]) => Underway(results[i], RowsOf(calls[i]))
  <2>1. CASE results[i].duplicate
    <3>1. calls[i] = << >>
      BY <1>9, <2>1 DEF CallsFor
    <3>2. RowsOf(calls[i]) = {} /\ Ordered(calls[i]) /\ calls[i] \in Seq(Seq(LineageRow))
      BY <3>1 DEF RowsOf, Ordered
    <3> QED
      BY <2>1, <3>2, <1>7
  <2>2. CASE ~results[i].duplicate
    <3> DEFINE storage == StorageCalls(Content[items[i].payload])
               id == items[i].event_id
    <3>1. storage \in Seq(Seq(TableRow)) /\ EdgesFirst(storage)
      BY <1>3, StorageCallsFacts
    <3>2. calls[i] = CallsOf("/openlineage", id, storage)
      BY <1>9, <2>2 DEF CallsFor
    <3>3. "/openlineage" \in Endpoint /\ id \in 1..MaxIds
      BY <1>3 DEF Endpoint
    <3>4. results[i].event_id = id /\ id \in EventsOf(db'.ledger)
          /\ storage = StorageCalls(Content[results[i].event])
      BY <1>7, <2>2
    <3> HIDE DEF storage, id
    <3>5. /\ calls[i] \in Seq(Seq(LineageRow)) /\ Ordered(calls[i])
          /\ \A r \in RowsOf(calls[i]) : r.event_id = id
          /\ \A c \in DOMAIN storage : \A row \in ToSet(storage[c]) :
                \E r \in RowsOf(calls[i]) : r.event_id = id /\ r.row = row
      BY <3>1, <3>2, <3>3, CallsOfFacts
    <3>6. Underway(results[i], RowsOf(calls[i]))
      BY <3>4, <3>5 DEF Underway
    <3> QED
      BY <3>4, <3>5, <3>6 DEF id
  <2> QED
    BY <2>1, <2>2
<1>13. calls \in Seq(todos)
  <2> HIDE DEF todos
  <2> QED
    BY <1>3, <1>9, <1>12, MappedSeq
<1>14. FlattenSeq(calls) \in todos
  <2> DEFINE S == Seq(LineageRow)
  <2>1. << >> \in todos
    BY DEF Ordered
  <2>2. ASSUME NEW s \in todos, NEW u \in todos
        PROVE  s \o u \in todos
    <3>1. s \o u \in Seq(S)
      OBVIOUS
    <3> HIDE DEF S
    <3>2. Ordered(s \o u)
      BY OrderedConcat DEF S
    <3> QED
      BY <3>1, <3>2 DEF S
  <2>3. todos \in SUBSET Seq(S)
    OBVIOUS
  <2> HIDE DEF S, todos
  <2> QED
    BY <1>13, <2>1, <2>2, <2>3, FlattenClosed
<1>15. RowsOf(h.todo) = UNION {RowsOf(calls[i]) : i \in DOMAIN items}
  <2> DEFINE S == Seq(LineageRow)
  <2>1. calls \in Seq(Seq(S))
    BY <1>13
  <2> HIDE DEF S
  <2>2. ToSet(FlattenSeq(calls)) = UNION {ToSet(calls[i]) : i \in DOMAIN calls}
    BY <2>1, FlattenElements
  <2>3. \A todo : RowsOf(todo) = UNION {ToSet(call) : call \in ToSet(todo)}
    BY DEF RowsOf, ToSet
  <2> QED
    BY <1>9, <1>10, <2>2, <2>3
<1>16. h \in Handler
  BY <1>10, <1>11, <1>14 DEF Handler
<1>17. TakesOver(db', (ids + 1)..ids', h)
  <2>1. Ordered(h.todo)
    BY <1>10, <1>14
  <2>2. \A r \in RowsOf(h.todo) : r.event_id \in (ids + 1)..ids' /\ r.event_id \in EventsOf(db'.ledger)
    BY <1>1, <1>3, <1>12, <1>15
  <2>3. ASSUME NEW a \in ToSet(h.results), New(a)
        PROVE  a.event_id \in (ids + 1)..ids' /\ Underway(a, RowsOf(h.todo))
    <3>1. PICK i \in DOMAIN items : a = results[i]
      BY <1>8, <1>10 DEF ToSet
    <3>2. a.event_id \in (ids + 1)..ids'
      BY <1>1, <1>3, <1>7, <2>3, <3>1
    <3>3. RowsOf(calls[i]) \subseteq RowsOf(h.todo)
      BY <1>15
    <3>4. Underway(a, RowsOf(calls[i]))
      BY <1>12, <2>3, <3>1
    <3> QED
      BY <3>2, <3>3, <3>4 DEF Underway
  <2> QED
    BY <1>16, <2>1, <2>2, <2>3 DEF TakesOver
<1> QED
  BY <1>1, <1>4, <1>5, <1>16, <1>17 DEF LedgerInv

\* POST /events, up to the reply of the storage.
LEMMA EventTakesOver ==
    ASSUME TypeOK, LedgerInv, NEW t \in Threads, NEW req \in Requests,
           PostEvent(t, req)
    PROVE  /\ db' \in Db /\ LedgerInv' /\ Extends(db, db')
           /\ ids' \in ids..MaxIds
           /\ \E h \in Handler : /\ thread' = [thread EXCEPT ![t] = h]
                                 /\ TakesOver(db', (ids + 1)..ids', h)
<1> DEFINE item == Items(req)[1]
           result == [endpoint  |-> "/events",
                      event     |-> item.payload,
                      event_id  |-> item.event_id,
                      duplicate |-> FALSE]
           h == [todo |-> EventCalls(item), results |-> <<result>>]
           id == item.event_id
           event == Content[item.payload]
           edge == EdgeRow(event.inputs[1], event.outputs[1])
<1>1. /\ ids < MaxIds /\ ids' = ids + 1 /\ req.endpoint = "/events"
      /\ Vault!acknowledge_writes_batch(<<item>>)
      /\ thread' = [thread EXCEPT ![t] = h]
  BY DEF PostEvent
<1>2. /\ ids \in Nat /\ db \in Db /\ MaxIds \in Nat
      /\ req.events \in Seq(Payload) /\ Len(req.events) = 1
      /\ Len(Content[req.events[1]].inputs) = 1 /\ Len(Content[req.events[1]].outputs) = 1
  BY <1>1, ServiceAssumption DEF TypeOK
<1>3. /\ item \in BatchWriteItem
      /\ id \in (ids + 1)..ids' /\ id \in 1..MaxIds
      /\ item.payload = req.events[1] /\ item.payload \in Payload
      /\ event \in OpenLineageRunEvent
  <2>1. ids + Len(req.events) <= MaxIds /\ ids' = ids + Len(req.events) /\ 1 \in DOMAIN req.events
    BY <1>1, <1>2
  <2>2. Items(req) \in Seq(BatchWriteItem) /\ 1 \in DOMAIN Items(req)
    BY <1>2, <2>1, ItemsFacts
  <2>3. item \in BatchWriteItem
    BY <2>2
  <2> QED
    BY <1>2, <2>1, <2>3, ItemsFacts
<1>4. ids' \in ids..MaxIds /\ ids' \in Nat /\ ids <= ids'
  BY <1>1, <1>2
<1>5. edge \in TableRow /\ edge.table = "dataset_edges"
  <2>1. event.inputs[1] \in DatasetRef /\ event.outputs[1] \in DatasetRef
    BY <1>2, <1>3 DEF OpenLineageRunEvent
  <2>2. event.inputs[1].name \in Dataset /\ event.outputs[1].name \in Dataset
    BY <2>1 DEF DatasetRef
  <2> QED
    BY <2>2 DEF EdgeRow, TableRow
<1>6. EventCalls(item) = CallsOf("/events", id, << <<edge>> >>)
  BY DEF EventCalls
<1>7. h.todo = EventCalls(item) /\ h.results = <<result>>
      /\ h = [todo |-> EventCalls(item), results |-> <<result>>]
  OBVIOUS
<1>8. result.endpoint = "/events" /\ result \in Result
  BY <1>3 DEF Result, Endpoint
<1> HIDE DEF item, edge, result, h
<1>9. /\ db' \in Db /\ Consistent(db') /\ Extends(db, db')
      /\ \A r \in db'.idempotency : r.event_id \in 1..ids'
  <2> DEFINE batch == <<item>>
  <2>1. batch \in Seq(BatchWriteItem) /\ \A i \in DOMAIN batch : batch[i].event_id = id
    BY <1>3
  <2> HIDE DEF batch
  <2>2. \A i \in DOMAIN batch : batch[i].event_id \in (ids + 1)..ids'
    BY <1>3, <2>1
  <2>3. Vault!acknowledge_writes_batch(batch)
    BY <1>1 DEF batch
  <2> QED
    BY <1>2, <1>4, <2>1, <2>2, <2>3, TransactionFacts
<1>10. << <<edge>> >> \in Seq(Seq(TableRow)) /\ EdgesFirst(<< <<edge>> >>)
  <2>1. << <<edge>> >> \in Seq(Seq(TableRow))
    BY <1>5
  <2>2. ASSUME NEW j \in DOMAIN << <<edge>> >>
        PROVE  MappingsOf(<< <<edge>> >>[j]) = {}
    <3>1. << <<edge>> >>[j] = <<edge>> /\ ToSet(<<edge>>) = {edge}
      BY <2>2 DEF ToSet
    <3> QED
      BY <1>5, <3>1 DEF MappingsOf
  <2> QED
    BY <2>1, <2>2 DEF EdgesFirst
<1>11. /\ h.todo \in Seq(Seq(LineageRow)) /\ Ordered(h.todo)
       /\ \A r \in RowsOf(h.todo) : r.endpoint = "/events" /\ r.event_id = id
  <2> DEFINE calls == << <<edge>> >>
  <2>1. calls \in Seq(Seq(TableRow)) /\ EdgesFirst(calls) /\ "/events" \in Endpoint
        /\ h.todo = CallsOf("/events", id, calls)
    BY <1>6, <1>7, <1>10 DEF Endpoint
  <2> HIDE DEF calls
  <2> QED
    BY <1>3, <2>1, CallsOfFacts
<1>12. h \in Handler
  <2>1. <<result>> \in Seq(Result)
    BY <1>8
  <2> QED
    BY <1>7, <1>11, <2>1 DEF Handler
<1>13. TakesOver(db', (ids + 1)..ids', h)
  <2>1. \A r \in RowsOf(h.todo) : r.event_id \in (ids + 1)..ids' /\ r.endpoint # "/openlineage"
    BY <1>3, <1>11
  <2>2. \A a \in ToSet(h.results) : ~New(a)
    <3>1. ToSet(<<result>>) = {result}
      BY DEF ToSet
    <3> QED
      BY <1>7, <1>8, <3>1 DEF New
  <2> QED
    BY <1>11, <1>12, <2>1, <2>2 DEF TakesOver
<1> QED
  BY <1>1, <1>4, <1>9, <1>12, <1>13 DEF LedgerInv

-----------------------------------------------------------------------------
(* Types *)

\* INSERTs bring in rows of their own only, and replace run events only.
LEMMA InsertAllRows ==
    ASSUME NEW rows, NEW new
    PROVE  /\ InsertAll(rows, new) \subseteq rows \cup ToSet(new)
           /\ ToSet(new) \subseteq InsertAll(rows, new)
           /\ \A r \in rows : r.row.table # "run_events" => r \in InsertAll(rows, new)
BY DEF InsertAll

\* The rows of the statements that did not raise.
LEMMA PrefixRows ==
    ASSUME NEW S, NEW s \in Seq(S), NEW k \in 0..Len(s)
    PROVE  ToSet(SubSeq(s, 1, k)) \subseteq ToSet(s)
<1> DEFINE p == SubSeq(s, 1, k)
<1>1. Len(s) \in Nat /\ DOMAIN s = 1..Len(s)
  OBVIOUS
<1>2. DOMAIN p = 1..k /\ \A i \in 1..k : p[i] = s[i] /\ i \in 1..Len(s)
  BY <1>1
<1> HIDE DEF p
<1> QED
  BY <1>1, <1>2 DEF ToSet, p

\* Recovery claims nothing.
LEMMA RestartFacts ==
    ASSUME TypeOK, LedgerInv, Restart
    PROVE  db' \in Db /\ LedgerInv' /\ Extends(db, db')
<1>1. db' = AfterRows(db, Len(db.wal_staging)) /\ ids' = ids
  BY SameRows DEF Restart, Vault!recover_uncommitted
<1>2. db \in Db
  BY DEF TypeOK
<1> DEFINE n == Len(db.wal_staging)
           d == AfterRows(db, n)
<1>3. n \in 0..n
  BY <1>2, AfterRowsSteps
<1>4. d \in Db /\ Extends(db, d) /\ d.idempotency = db.idempotency /\ Consistent(d)
  BY <1>2, <1>3, AfterRowsSteps DEF LedgerInv
<1> QED
  BY <1>1, <1>4 DEF LedgerInv

\* What a failing call leaves on the connection, or commits.
LEMMA StoreFailsRows ==
    ASSUME TypeOK, NEW t \in Threads, StoreFails(t)
    PROVE  /\ view' \cup lineage' \subseteq view \cup lineage \cup ToSet(Head(thread[t].todo))
           /\ \A r \in view : r.row.table # "run_events" => r \in view'
           /\ lineage' = lineage \/ lineage' = view'
           /\ \A r \in view \cap lineage : r.row.table # "run_events" => r \in lineage'
           /\ thread[t].todo # << >> /\ thread' = [thread EXCEPT ![t] = Idle]
           /\ UNCHANGED <<db, graph, ids, answered>> /\ faults' \in 0..MaxFaults
<1> DEFINE rows == Head(thread[t].todo)
<1>1. rows \in Seq(LineageRow) /\ thread[t].todo # << >>
  BY DEF StoreFails, TypeOK, Handler
<1>2. faults' \in 0..MaxFaults
  BY ServiceAssumption DEF StoreFails, Fail, TypeOK
<1>3. CASE UNCHANGED lineage /\ \E k \in 0..Len(rows) :
                                    view' = InsertAll(view, SubSeq(rows, 1, k))
  <2>1. PICK k \in 0..Len(rows) : view' = InsertAll(view, SubSeq(rows, 1, k))
    BY <1>3
  <2>2. ToSet(SubSeq(rows, 1, k)) \subseteq ToSet(rows)
    <3> HIDE DEF rows
    <3> QED
      BY <1>1, PrefixRows
  <2>3. /\ InsertAll(view, SubSeq(rows, 1, k)) \subseteq view \cup ToSet(SubSeq(rows, 1, k))
        /\ \A r \in view : r.row.table # "run_events" => r \in InsertAll(view, SubSeq(rows, 1, k))
    BY InsertAllRows
  <2>4. /\ view' \subseteq view \cup ToSet(rows) /\ lineage' = lineage
        /\ \A r \in view : r.row.table # "run_events" => r \in view'
    BY <1>3, <2>1, <2>2, <2>3
  <2> HIDE DEF rows
  <2> QED
    BY <1>1, <1>2, <2>4 DEF StoreFails, rows
<1>4. CASE Commit(InsertAll(view, rows))
  <2>1. /\ InsertAll(view, rows) \subseteq view \cup ToSet(rows)
        /\ \A r \in view : r.row.table # "run_events" => r \in InsertAll(view, rows)
    BY InsertAllRows
  <2>2. view' = InsertAll(view, rows) /\ lineage' = InsertAll(view, rows)
    BY <1>4 DEF Commit
  <2>3. /\ view' \subseteq view \cup ToSet(rows) /\ lineage' = view'
        /\ \A r \in view : r.row.table # "run_events" => r \in view'
    BY <2>1, <2>2
  <2> HIDE DEF rows
  <2> QED
    BY <1>1, <1>2, <2>3 DEF StoreFails, rows
<1> QED
  BY <1>3, <1>4 DEF StoreFails

\* What a call that succeeds commits.
LEMMA StoreRows ==
    ASSUME TypeOK, NEW t \in Threads, Store(t)
    PROVE  LET call == Head(thread[t].todo) IN
           /\ lineage' = view' /\ view' \subseteq view \cup ToSet(call)
           /\ ToSet(call) \subseteq view'
           /\ \A r \in view : r.row.table # "run_events" => r \in view'
           /\ graph' = graph \cup Edges(ToSet(call))
           /\ thread[t].todo # << >>
           /\ thread' = [thread EXCEPT ![t].todo = Tail(@)]
           /\ UNCHANGED <<db, ids, answered, faults>>
BY InsertAllRows DEF Store, Commit

\* The edges of rows are pairs of datasets.
LEMMA EdgesType ==
    ASSUME NEW rows \in SUBSET LineageRow
    PROVE  Edges(rows) \subseteq Dataset \X Dataset
<1> SUFFICES ASSUME NEW r \in rows, r.row.table = "dataset_edges"
             PROVE  Edge(r) \in Dataset \X Dataset
  BY DEF Edges
<1>1. r.row \in TableRow
  BY DEF LineageRow
<1>2. r.row.src \in Dataset /\ r.row.dst \in Dataset
  BY <1>1 DEF TableRow
<1> QED
  BY <1>2 DEF Edge

\* The reply of the storage, whichever endpoint was posted to.
LEMMA PostFacts ==
    ASSUME TypeOK, LedgerInv, NEW t \in Threads, NEW req \in Requests,
           PostOpenLineage(t, req) \/ PostEvent(t, req)
    PROVE  /\ db' \in Db /\ LedgerInv' /\ Extends(db, db')
           /\ ids' \in ids..MaxIds
           /\ view' = view /\ lineage' = view /\ UNCHANGED <<graph, answered, faults>>
           /\ thread[t] = Idle
           /\ \E h \in Handler : /\ thread' = [thread EXCEPT ![t] = h]
                                 /\ TakesOver(db', (ids + 1)..ids', h)
<1>1. /\ view' = view /\ lineage' = view /\ UNCHANGED <<graph, answered, faults>>
      /\ thread[t] = Idle
  BY DEF PostOpenLineage, PostEvent, Commit
<1> QED
  BY <1>1, OpenLineageTakesOver, EventTakesOver

\* A thread between two requests has nothing left to do.
LEMMA IdleFacts ==
    /\ Idle \in Handler /\ RowsOf(Idle.todo) = {} /\ ToSet(Idle.results) = {}
    /\ Idle.todo = << >> /\ DOMAIN Idle.todo = {} /\ RowsOf(<< >>) = {}
BY DEF Idle, Handler, RowsOf, ToSet

\* Every step keeps the types and the ledger tables consistent.
LEMMA TypeStep ==
    ASSUME TypeOK, LedgerInv, [Next]_vars
    PROVE  TypeOK' /\ LedgerInv'
<1>0. /\ db \in Db /\ lineage \subseteq LineageRow /\ view \subseteq LineageRow
      /\ graph \subseteq Dataset \X Dataset /\ thread \in [Threads -> Handler]
      /\ ids \in 0..MaxIds /\ answered \subseteq Result /\ faults \in 0..MaxFaults
      /\ MaxIds \in Nat /\ MaxFaults \in Nat
  BY ServiceAssumption DEF TypeOK
<1>1. ASSUME db' = db, ids' = ids
      PROVE  LedgerInv' /\ db' \in Db /\ ids' \in 0..MaxIds
  BY <1>0, <1>1 DEF LedgerInv
<1>2. ASSUME NEW t \in Threads, NEW req \in Requests,
             PostOpenLineage(t, req) \/ PostEvent(t, req)
      PROVE  TypeOK' /\ LedgerInv'
  <2>1. /\ db' \in Db /\ LedgerInv' /\ ids' \in ids..MaxIds
        /\ view' = view /\ lineage' = view /\ UNCHANGED <<graph, answered, faults>>
        /\ \E h \in Handler : thread' = [thread EXCEPT ![t] = h]
    BY <1>2, PostFacts
  <2>2. thread' \in [Threads -> Handler] /\ ids' \in 0..MaxIds
    BY <1>0, <2>1
  <2> QED
    BY <1>0, <2>1, <2>2 DEF TypeOK
<1>3. ASSUME NEW t \in Threads, NEW req \in Requests, PostFails(t, req)
      PROVE  TypeOK' /\ LedgerInv'
  <2>1. faults' \in 0..MaxFaults
    BY <1>0, <1>3 DEF PostFails, Fail
  <2>2. view' = lineage /\ UNCHANGED <<db, lineage, graph, thread, ids, answered>>
    BY <1>3 DEF PostFails
  <2> QED
    BY <1>0, <1>1, <2>1, <2>2 DEF TypeOK
<1>4. ASSUME NEW t \in Threads, thread[t].todo # << >>
      PROVE  /\ Head(thread[t].todo) \in Seq(LineageRow)
             /\ Tail(thread[t].todo) \in Seq(Seq(LineageRow))
             /\ ToSet(Head(thread[t].todo)) \subseteq LineageRow
  <2>1. thread[t].todo \in Seq(Seq(LineageRow))
    BY <1>0 DEF Handler
  <2>2. /\ Head(thread[t].todo) \in Seq(LineageRow)
        /\ Tail(thread[t].todo) \in Seq(Seq(LineageRow))
    BY <1>4, <2>1
  <2>3. \A s \in Seq(LineageRow) : ToSet(s) \subseteq LineageRow
    BY DEF ToSet
  <2> QED
    BY <2>2, <2>3
<1>5. ASSUME NEW t \in Threads, Store(t)
      PROVE  TypeOK' /\ LedgerInv'
  <2> DEFINE call == Head(thread[t].todo)
  <2>1. /\ lineage' = view' /\ view' \subseteq view \cup ToSet(call)
        /\ graph' = graph \cup Edges(ToSet(call))
        /\ thread[t].todo # << >>
        /\ thread' = [thread EXCEPT ![t].todo = Tail(@)]
        /\ UNCHANGED <<db, ids, answered, faults>>
    BY <1>5, StoreRows
  <2>2. ToSet(call) \subseteq LineageRow /\ Tail(thread[t].todo) \in Seq(Seq(LineageRow))
    BY <1>4, <2>1
  <2>3. graph' \subseteq Dataset \X Dataset
    BY <1>0, <2>1, <2>2, EdgesType
  <2>4. thread' \in [Threads -> Handler]
    <3>1. [thread[t] EXCEPT !.todo = Tail(@)] \in Handler
      BY <1>0, <2>2 DEF Handler
    <3>2. thread' = [thread EXCEPT ![t] = [thread[t] EXCEPT !.todo = Tail(@)]]
      BY <1>0, <2>1
    <3> QED
      BY <1>0, <3>1, <3>2
  <2> HIDE DEF call
  <2> QED
    BY <1>0, <1>1, <2>1, <2>2, <2>3, <2>4 DEF TypeOK
<1>6. ASSUME NEW t \in Threads, StoreFails(t)
      PROVE  TypeOK' /\ LedgerInv'
  <2>1. /\ view' \cup lineage' \subseteq view \cup lineage \cup ToSet(Head(thread[t].todo))
        /\ thread[t].todo # << >> /\ thread' = [thread EXCEPT ![t] = Idle]
        /\ UNCHANGED <<db, graph, ids, answered>> /\ faults' \in 0..MaxFaults
    BY <1>6, StoreFailsRows
  <2>2. view' \cup lineage' \subseteq LineageRow
    BY <1>0, <1>4, <2>1
  <2>3. thread' \in [Threads -> Handler]
    BY <1>0, <2>1, IdleFacts
  <2> QED
    BY <1>0, <1>1, <2>1, <2>2, <2>3 DEF TypeOK
<1>7. ASSUME NEW t \in Threads, Reply(t)
      PROVE  TypeOK' /\ LedgerInv'
  <2>1. /\ answered' = answered \cup ToSet(thread[t].results)
        /\ thread' = [thread EXCEPT ![t] = Idle]
        /\ UNCHANGED <<db, lineage, view, graph, ids, faults>>
    BY <1>7 DEF Reply
  <2>2. thread[t].results \in Seq(Result)
    BY <1>0 DEF Handler
  <2>3. ToSet(thread[t].results) \subseteq Result
    BY <2>2 DEF ToSet
  <2>4. thread' \in [Threads -> Handler]
    BY <1>0, <2>1, IdleFacts
  <2> QED
    BY <1>0, <1>1, <2>1, <2>3, <2>4 DEF TypeOK
<1>8. CASE Restart
  <2>1. db' \in Db /\ LedgerInv'
    BY <1>8, RestartFacts
  <2>2. /\ view' = lineage /\ graph' = Edges(lineage) /\ thread' = [t \in Threads |-> Idle]
        /\ UNCHANGED <<lineage, ids, answered>> /\ faults' \in 0..MaxFaults
    BY <1>0, <1>8 DEF Restart, Fail
  <2>3. graph' \subseteq Dataset \X Dataset
    BY <1>0, <2>2, EdgesType
  <2>4. thread' \in [Threads -> Handler]
    BY <2>2, IdleFacts
  <2> QED
    BY <1>0, <2>1, <2>2, <2>3, <2>4 DEF TypeOK
<1>9. CASE UNCHANGED vars
  BY <1>0, <1>1, <1>9 DEF vars, TypeOK
<1> QED
  BY <1>2, <1>3, <1>5, <1>6, <1>7, <1>8, <1>9 DEF Next

\* The empty tables are consistent.
LEMMA InitLedger == Init => TypeOK /\ LedgerInv
<1> SUFFICES ASSUME Init PROVE TypeOK /\ LedgerInv
  OBVIOUS
<1>1. /\ db = EmptyDb /\ lineage = {} /\ view = {} /\ graph = {}
      /\ thread = [t \in Threads |-> Idle] /\ ids = 0 /\ answered = {} /\ faults = 0
  BY DEF Init
<1>2. EmptyDb \in Db /\ Consistent(EmptyDb)
  BY DEF EmptyDb, Db, Consistent, WalCoversLedger, KeysAreLedgered, UniqueRows,
         PromotedPayloads, EventsOf, CommittedEvents
<1>3. EmptyDb.idempotency = {}
  BY DEF EmptyDb
<1>4. ids \in 0..MaxIds /\ faults \in 0..MaxFaults
  BY <1>1, ServiceAssumption
<1>5. TypeOK
  BY <1>1, <1>2, <1>4, IdleFacts DEF TypeOK
<1> QED
  BY <1>1, <1>2, <1>3, <1>5 DEF LedgerInv

\* The types of the service, and with them: every transaction leaves the tables
\* consistent, whatever requests come, under whatever keys.
THEOREM TypeCorrect == Spec => [](TypeOK /\ LedgerInv)
<1>1. TypeOK /\ LedgerInv /\ [Next]_vars => (TypeOK /\ LedgerInv)'
  BY TypeStep
<1> QED
  BY <1>1, InitLedger, PTL DEF Spec

-----------------------------------------------------------------------------
(* LineageIsLedgered *)

\* What was ledgered stays ledgered, and ids are not drawn twice.
LEMMA LedgeredGrows ==
    ASSUME TypeOK, LedgerInv, [Next]_vars
    PROVE  Ledgered \subseteq Ledgered' /\ ids <= ids' /\ ids \in Nat /\ ids' \in Nat
<1>0. db \in Db /\ ids \in Nat
  BY DEF TypeOK
<1>1. ASSUME db' = db, ids' = ids
      PROVE  Ledgered \subseteq Ledgered' /\ ids <= ids' /\ ids' \in Nat
  BY <1>0, <1>1 DEF Ledgered
<1>2. ASSUME Extends(db, db'), db' \in Db
      PROVE  Ledgered \subseteq Ledgered'
  BY <1>0, <1>2, LedgerGrows DEF Ledgered
<1>3. ASSUME NEW t \in Threads, NEW req \in Requests,
             PostOpenLineage(t, req) \/ PostEvent(t, req)
      PROVE  Ledgered \subseteq Ledgered' /\ ids <= ids' /\ ids' \in Nat
  <2>1. db' \in Db /\ Extends(db, db') /\ ids' \in ids..MaxIds
    BY <1>3, PostFacts
  <2> QED
    BY <1>0, <1>2, <2>1
<1>4. CASE Restart
  <2>1. db' \in Db /\ Extends(db, db') /\ ids' = ids
    BY <1>4, RestartFacts DEF Restart
  <2> QED
    BY <1>0, <1>2, <2>1
<1>5. ASSUME NEW t \in Threads, NEW req \in Requests, PostFails(t, req)
      PROVE  db' = db /\ ids' = ids
  BY <1>5 DEF PostFails
<1>6. ASSUME NEW t \in Threads, Store(t) \/ StoreFails(t) \/ Reply(t)
      PROVE  db' = db /\ ids' = ids
  BY <1>6 DEF Store, StoreFails, Reply
<1>7. CASE UNCHANGED vars
  BY <1>1, <1>7 DEF vars
<1> QED
  BY <1>0, <1>1, <1>3, <1>4, <1>5, <1>6, <1>7 DEF Next

\* What one handler's step does to the calls that are left.
LEMMA PendingChange ==
    ASSUME TypeOK, NEW t \in Threads, NEW h, thread' = [thread EXCEPT ![t] = h]
    PROVE  /\ thread'[t] = h /\ \A u \in Threads : u # t => thread'[u] = thread[u]
           /\ Pending(t)' = RowsOf(h.todo)
           /\ \A u \in Threads : u # t => Pending(u)' = Pending(u)
<1>1. thread'[t] = h /\ \A u \in Threads : u # t => thread'[u] = thread[u]
  BY DEF TypeOK
<1>2. \A u \in Threads : Pending(u)' = RowsOf(thread'[u].todo) /\ Pending(u) = RowsOf(thread[u].todo)
  BY DEF Pending, RowsOf
<1> QED
  BY <1>1, <1>2

\* Store takes the first call off its handler.
LEMMA StoreCalls ==
    ASSUME TypeOK, NEW t \in Threads, Store(t)
    PROVE  /\ thread' = [thread EXCEPT ![t] = [thread[t] EXCEPT !.todo = Tail(@)]]
           /\ thread'[t].todo = Tail(thread[t].todo)
           /\ thread'[t].results = thread[t].results
           /\ \A u \in Threads : u # t => thread'[u] = thread[u] /\ Pending(u)' = Pending(u)
           /\ Pending(t) = ToSet(Head(thread[t].todo)) \cup Pending(t)'
           /\ thread[t].todo \in Seq(Seq(LineageRow)) /\ thread[t].todo # << >>
<1>1. /\ thread[t].todo # << >> /\ thread' = [thread EXCEPT ![t].todo = Tail(@)]
      /\ thread \in [Threads -> Handler] /\ thread[t] \in Handler
  BY DEF Store, TypeOK
<1> DEFINE h == [thread[t] EXCEPT !.todo = Tail(@)]
<1>2. thread' = [thread EXCEPT ![t] = h]
  BY <1>1
<1>3. h.todo = Tail(thread[t].todo) /\ h.results = thread[t].results
  BY <1>1 DEF Handler
<1> HIDE DEF h
<1>4. /\ thread'[t] = h /\ Pending(t)' = RowsOf(h.todo)
      /\ \A u \in Threads : u # t => thread'[u] = thread[u] /\ Pending(u)' = Pending(u)
  BY <1>2, PendingChange
<1>5. thread[t].todo \in Seq(Seq(LineageRow))
  BY <1>1 DEF Handler
<1>6. RowsOf(thread[t].todo) = ToSet(Head(thread[t].todo)) \cup RowsOf(Tail(thread[t].todo))
  BY <1>1, <1>5, TailFacts
<1>7. Pending(t) = RowsOf(thread[t].todo)
  BY DEF Pending, RowsOf
<1> QED
  BY <1>1, <1>2, <1>3, <1>4, <1>5, <1>6, <1>7 DEF h

\* The rows of the first call left.
LEMMA HeadPending ==
    ASSUME TypeOK, NEW t \in Threads, thread[t].todo # << >>
    PROVE  ToSet(Head(thread[t].todo)) \subseteq Pending(t)
<1>1. thread[t].todo \in Seq(Seq(LineageRow))
  BY DEF TypeOK, Handler
<1>2. Head(thread[t].todo) = thread[t].todo[1] /\ 1 \in DOMAIN thread[t].todo
  BY <1>1
<1> QED
  BY <1>2 DEF Pending

\* Every row, wherever it is.
Rows == view \cup lineage \cup UNION {Pending(t) : t \in Threads}

\* Rows are moved, or dropped, or new ones of an event that was just acknowledged.
LEMMA RowsMove ==
    ASSUME TypeOK, LedgerInv, [Next]_vars
    PROVE  \A r \in Rows' : \/ r \in Rows
                            \/ /\ r.event_id \in (ids + 1)..ids'
                               /\ r.endpoint = "/openlineage" => r.event_id \in Ledgered'
<1>0. /\ view \cup lineage \subseteq Rows
      /\ \A u \in Threads : Pending(u) \subseteq Rows
  BY DEF Rows
<1>1. ASSUME view' \cup lineage' \subseteq Rows, \A u \in Threads : Pending(u)' \subseteq Pending(u)
      PROVE  Rows' \subseteq Rows
  <2>1. Rows' = view' \cup lineage' \cup UNION {Pending(u)' : u \in Threads}
    BY DEF Rows
  <2> QED
    BY <1>0, <1>1, <2>1
<1>2. ASSUME NEW t \in Threads, NEW req \in Requests,
             PostOpenLineage(t, req) \/ PostEvent(t, req), NEW r \in Rows'
      PROVE  \/ r \in Rows
             \/ /\ r.event_id \in (ids + 1)..ids'
                /\ r.endpoint = "/openlineage" => r.event_id \in Ledgered'
  <2>1. view' = view /\ lineage' = view
    BY <1>2, PostFacts
  <2>2. PICK h \in Handler : /\ thread' = [thread EXCEPT ![t] = h]
                             /\ TakesOver(db', (ids + 1)..ids', h)
    BY <1>2, PostFacts
  <2>3. Pending(t)' = RowsOf(h.todo) /\ \A u \in Threads : u # t => Pending(u)' = Pending(u)
    BY <2>2, PendingChange
  <2>4. Rows' = view' \cup lineage' \cup UNION {Pending(u)' : u \in Threads}
    BY DEF Rows
  <2>5. r \in Rows \/ r \in RowsOf(h.todo)
    BY <1>0, <2>1, <2>3, <2>4
  <2> QED
    BY <2>2, <2>5 DEF TakesOver, Ledgered
<1>3. ASSUME NEW t \in Threads, NEW req \in Requests, PostFails(t, req)
      PROVE  Rows' \subseteq Rows
  <2>1. view' = lineage /\ lineage' = lineage /\ thread' = thread
    BY <1>3 DEF PostFails
  <2>2. \A u \in Threads : Pending(u)' = Pending(u)
    BY <2>1 DEF Pending
  <2> QED
    BY <1>0, <1>1, <2>1, <2>2
<1>4. ASSUME NEW t \in Threads, Store(t)
      PROVE  Rows' \subseteq Rows
  <2>1. /\ lineage' = view' /\ view' \subseteq view \cup ToSet(Head(thread[t].todo))
        /\ thread[t].todo # << >>
    BY <1>4, StoreRows
  <2>2. \A u \in Threads : Pending(u)' \subseteq Pending(u)
    BY <1>4, StoreCalls
  <2> QED
    BY <1>0, <1>1, <2>1, <2>2, HeadPending
<1>5. ASSUME NEW t \in Threads, thread' = [thread EXCEPT ![t] = Idle]
      PROVE  \A u \in Threads : Pending(u)' \subseteq Pending(u)
  BY <1>5, PendingChange, IdleFacts
<1>6. ASSUME NEW t \in Threads, StoreFails(t)
      PROVE  Rows' \subseteq Rows
  <2>1. /\ view' \cup lineage' \subseteq view \cup lineage \cup ToSet(Head(thread[t].todo))
        /\ thread[t].todo # << >> /\ thread' = [thread EXCEPT ![t] = Idle]
    BY <1>6, StoreFailsRows
  <2> QED
    BY <1>0, <1>1, <1>5, <2>1, HeadPending
<1>7. ASSUME NEW t \in Threads, Reply(t)
      PROVE  Rows' \subseteq Rows
  <2>1. thread' = [thread EXCEPT ![t] = Idle] /\ view' = view /\ lineage' = lineage
    BY <1>7 DEF Reply
  <2> QED
    BY <1>0, <1>1, <1>5, <2>1
<1>8. CASE Restart
  <2>1. view' = lineage /\ lineage' = lineage /\ thread' = [t \in Threads |-> Idle]
    BY <1>8 DEF Restart
  <2>2. \A u \in Threads : Pending(u)' = {}
    <3> SUFFICES ASSUME NEW u \in Threads PROVE Pending(u)' = {}
      OBVIOUS
    <3>1. thread'[u] = Idle
      BY <2>1
    <3>2. Pending(u)' = RowsOf(thread'[u].todo)
      BY DEF Pending, RowsOf
    <3> QED
      BY <3>1, <3>2, IdleFacts
  <2>3. Rows' \subseteq Rows
    BY <1>0, <1>1, <2>1, <2>2
  <2> QED
    BY <2>3
<1>9. CASE UNCHANGED vars
  <2>1. view' = view /\ lineage' = lineage /\ thread' = thread
    BY <1>9 DEF vars
  <2>2. \A u \in Threads : Pending(u)' = Pending(u)
    BY <2>1 DEF Pending
  <2>3. Rows' \subseteq Rows
    BY <1>0, <1>1, <2>1, <2>2
  <2> QED
    BY <2>3
<1> QED
  BY <1>2, <1>3, <1>4, <1>6, <1>7, <1>8, <1>9 DEF Next

\* No step brings in a row of an event nobody knows.
LEMMA RowsKnownStep ==
    ASSUME TypeOK, LedgerInv, RowsKnown, [Next]_vars
    PROVE  RowsKnown'
<1>1. /\ Ledgered \subseteq Ledgered' /\ ids <= ids' /\ ids \in Nat /\ ids' \in Nat
  BY LedgeredGrows
<1>2. \A r \in db'.idempotency : r.event_id \in 1..ids'
  BY TypeStep DEF LedgerInv
<1>3. \A r \in Rows : r.event_id \in 1..ids /\ (r.endpoint = "/openlineage" => r.event_id \in Ledgered)
  BY DEF RowsKnown, Rows
<1>4. ASSUME NEW r \in Rows'
      PROVE  r.event_id \in 1..ids' /\ (r.endpoint = "/openlineage" => r.event_id \in Ledgered')
  <2>1. CASE r \in Rows
    BY <1>1, <1>3, <2>1
  <2>2. CASE /\ r.event_id \in (ids + 1)..ids'
             /\ r.endpoint = "/openlineage" => r.event_id \in Ledgered'
    BY <1>1, <2>2
  <2> QED
    BY <1>4, <2>1, <2>2, RowsMove
<1> QED
  BY <1>2, <1>4 DEF RowsKnown, Rows

\* An event posted to /openlineage has rows in the lineage tables only if it is in
\* the ledger.  (An event of /events may have its edge without: a duplicate adds one.)
THEOREM LineageAlwaysLedgered == Spec => []LineageIsLedgered
<1> DEFINE Inv == TypeOK /\ LedgerInv /\ RowsKnown
<1>1. Init => Inv
  <2> SUFFICES ASSUME Init PROVE RowsKnown
    BY InitLedger
  <2>1. /\ view = {} /\ lineage = {} /\ thread = [t \in Threads |-> Idle]
    BY DEF Init
  <2>2. \A t \in Threads : Pending(t) = {}
    BY <2>1, IdleFacts DEF Pending, RowsOf
  <2> QED
    BY <2>1, <2>2, InitLedger DEF RowsKnown, LedgerInv
<1>2. Inv /\ [Next]_vars => Inv'
  BY TypeStep, RowsKnownStep
<1>3. Inv => LineageIsLedgered
  BY DEF RowsKnown, LineageIsLedgered
<1> QED
  BY <1>1, <1>2, <1>3, PTL DEF Spec

-----------------------------------------------------------------------------
(* MappingsFollowGraph *)

\* A restart loads at least what the graph showed: it was durable.
LEMMA GraphGrows ==
    ASSUME GraphInv, [Next]_vars
    PROVE  graph \subseteq graph'
<1>1. ASSUME NEW t \in Threads, NEW req \in Requests,
             PostOpenLineage(t, req) \/ PostEvent(t, req) \/ PostFails(t, req)
      PROVE  graph' = graph
  BY <1>1 DEF PostOpenLineage, PostEvent, PostFails
<1>2. ASSUME NEW t \in Threads, Store(t) \/ StoreFails(t) \/ Reply(t)
      PROVE  graph \subseteq graph'
  BY <1>2 DEF Store, StoreFails, Reply
<1>3. CASE Restart
  BY <1>3 DEF Restart, GraphInv
<1>4. CASE UNCHANGED vars
  BY <1>4 DEF vars
<1> QED
  BY <1>1, <1>2, <1>3, <1>4 DEF Next

\* Every mapping of the calls left has its edge in the graph `g' or in an earlier call.
Follows(g, todo) ==
    \A j \in DOMAIN todo : \A r \in ToSet(todo[j]) :
        r.row.table = "field_mappings" => MappingEdge(r) \in g \cup EdgesBefore(todo, j)

InGraph(g, rows) == \A r \in rows : r.row.table = "field_mappings" => MappingEdge(r) \in g

\* MappingsFollow, for the rows that are there and the calls that are left.
LEMMA MappingsFollowParts ==
    MappingsFollow <=> /\ InGraph(graph, view \cup lineage)
                       /\ \A t \in Threads : Follows(graph, thread[t].todo)
BY DEF MappingsFollow, InGraph, Follows

\* The first call has no earlier one.
LEMMA HeadFollows ==
    ASSUME NEW g, NEW todo \in Seq(Seq(LineageRow)), todo # << >>, Follows(g, todo)
    PROVE  /\ InGraph(g, ToSet(Head(todo)))
           /\ Follows(g \cup Edges(ToSet(Head(todo))), Tail(todo))
<1>1. 1 \in DOMAIN todo /\ Head(todo) = todo[1]
  OBVIOUS
<1>2. EdgesBefore(todo, 1) = {}
  BY DEF EdgesBefore
<1>3. InGraph(g, ToSet(Head(todo)))
  BY <1>1, <1>2 DEF InGraph, Follows
<1>4. ASSUME NEW j \in DOMAIN Tail(todo), NEW r \in ToSet(Tail(todo)[j]),
             r.row.table = "field_mappings"
      PROVE  MappingEdge(r) \in (g \cup Edges(ToSet(Head(todo)))) \cup EdgesBefore(Tail(todo), j)
  <2>1. /\ j + 1 \in DOMAIN todo /\ Tail(todo)[j] = todo[j + 1]
        /\ EdgesBefore(todo, j + 1) =
               Edges(ToSet(Head(todo))) \cup EdgesBefore(Tail(todo), j)
    BY TailFacts
  <2>2. MappingEdge(r) \in g \cup EdgesBefore(todo, j + 1)
    BY <1>4, <2>1 DEF Follows
  <2> QED
    BY <2>1, <2>2
<1> QED
  BY <1>3, <1>4 DEF Follows

\* No step writes a mapping before its edge.
LEMMA MappingsFollowStep ==
    ASSUME TypeOK, LedgerInv, GraphInv, MappingsFollow, [Next]_vars
    PROVE  MappingsFollow'
<1>0. /\ graph \subseteq graph' /\ InGraph(graph, view \cup lineage)
      /\ \A u \in Threads : Follows(graph, thread[u].todo)
  BY GraphGrows, MappingsFollowParts
<1>1. \A todo : Follows(graph, todo) => Follows(graph', todo)
  BY <1>0 DEF Follows
<1>2. ASSUME InGraph(graph', view' \cup lineage'), \A u \in Threads : Follows(graph', thread'[u].todo)
      PROVE  MappingsFollow'
  BY <1>2 DEF MappingsFollow, InGraph, Follows
<1>3. ASSUME view' \cup lineage' \subseteq view \cup lineage
      PROVE  InGraph(graph', view' \cup lineage')
  BY <1>0, <1>3 DEF InGraph
<1>4. \A g : Follows(g, Idle.todo)
  BY IdleFacts DEF Follows
<1>5. ASSUME NEW t \in Threads, NEW h, thread' = [thread EXCEPT ![t] = h], Follows(graph', h.todo)
      PROVE  \A u \in Threads : Follows(graph', thread'[u].todo)
  <2>1. thread'[t] = h /\ \A u \in Threads : u # t => thread'[u] = thread[u]
    BY <1>5, PendingChange
  <2>2. \A u \in Threads : Follows(graph', thread[u].todo)
    BY <1>0, <1>1
  <2> QED
    BY <1>5, <2>1, <2>2
<1>6. ASSUME NEW t \in Threads, NEW req \in Requests,
             PostOpenLineage(t, req) \/ PostEvent(t, req)
      PROVE  MappingsFollow'
  <2>1. view' = view /\ lineage' = view
    BY <1>6, PostFacts
  <2>2. PICK h \in Handler : /\ thread' = [thread EXCEPT ![t] = h]
                             /\ TakesOver(db', (ids + 1)..ids', h)
    BY <1>6, PostFacts
  <2>3. Follows(graph', h.todo)
    BY <2>2 DEF TakesOver, Ordered, Follows
  <2>4. \A u \in Threads : Follows(graph', thread'[u].todo)
    BY <1>5, <2>2, <2>3
  <2>5. InGraph(graph', view' \cup lineage')
    BY <1>3, <2>1
  <2> QED
    BY <1>2, <2>4, <2>5
<1>7. ASSUME UNCHANGED thread, view' \cup lineage' \subseteq view \cup lineage
      PROVE  MappingsFollow'
  BY <1>0, <1>1, <1>2, <1>3, <1>7
<1>8. ASSUME NEW t \in Threads, NEW req \in Requests, PostFails(t, req)
      PROVE  MappingsFollow'
  BY <1>7, <1>8 DEF PostFails
<1>9. ASSUME NEW t \in Threads, thread[t].todo # << >>
      PROVE  /\ InGraph(graph, ToSet(Head(thread[t].todo)))
             /\ Follows(graph \cup Edges(ToSet(Head(thread[t].todo))), Tail(thread[t].todo))
  <2>1. thread[t].todo \in Seq(Seq(LineageRow))
    BY DEF TypeOK, Handler
  <2> QED
    BY <1>0, <1>9, <2>1, HeadFollows
<1>10. ASSUME NEW t \in Threads, Store(t)
       PROVE  MappingsFollow'
  <2> DEFINE call == Head(thread[t].todo)
  <2>1. /\ lineage' = view' /\ view' \subseteq view \cup ToSet(call)
        /\ graph' = graph \cup Edges(ToSet(call)) /\ thread[t].todo # << >>
    BY <1>10, StoreRows
  <2>2. InGraph(graph, ToSet(call)) /\ Follows(graph', Tail(thread[t].todo))
    BY <1>9, <2>1
  <2> HIDE DEF call
  <2>3. InGraph(graph', view' \cup lineage')
    BY <1>0, <2>1, <2>2 DEF InGraph
  <2>4. \A u \in Threads : Follows(graph', thread'[u].todo)
    <3>1. /\ thread'[t].todo = Tail(thread[t].todo)
          /\ \A u \in Threads : u # t => thread'[u] = thread[u]
      BY <1>10, StoreCalls
    <3>2. \A u \in Threads : Follows(graph', thread[u].todo)
      BY <1>0, <1>1
    <3> QED
      BY <2>2, <3>1, <3>2
  <2> QED
    BY <1>2, <2>3, <2>4
<1>11. ASSUME NEW t \in Threads, StoreFails(t)
       PROVE  MappingsFollow'
  <2>1. /\ view' \cup lineage' \subseteq view \cup lineage \cup ToSet(Head(thread[t].todo))
        /\ thread[t].todo # << >> /\ thread' = [thread EXCEPT ![t] = Idle]
    BY <1>11, StoreFailsRows
  <2>2. InGraph(graph, ToSet(Head(thread[t].todo)))
    BY <1>9, <2>1
  <2>3. InGraph(graph', view' \cup lineage')
    BY <1>0, <2>1, <2>2 DEF InGraph
  <2>4. \A u \in Threads : Follows(graph', thread'[u].todo)
    BY <1>4, <1>5, <2>1
  <2> QED
    BY <1>2, <2>3, <2>4
<1>12. ASSUME NEW t \in Threads, Reply(t)
       PROVE  MappingsFollow'
  <2>1. thread' = [thread EXCEPT ![t] = Idle] /\ view' = view /\ lineage' = lineage
    BY <1>12 DEF Reply
  <2>2. \A u \in Threads : Follows(graph', thread'[u].todo)
    BY <1>4, <1>5, <2>1
  <2> QED
    BY <1>2, <1>3, <2>1, <2>2
<1>13. CASE Restart
  <2>1. view' = lineage /\ lineage' = lineage /\ thread' = [t \in Threads |-> Idle]
    BY <1>13 DEF Restart
  <2>2. \A u \in Threads : Follows(graph', thread'[u].todo)
    BY <1>4, <2>1
  <2> QED
    BY <1>2, <1>3, <2>1, <2>2
<1>14. CASE UNCHANGED vars
  BY <1>7, <1>14 DEF vars
<1> QED
  BY <1>6, <1>8, <1>10, <1>11, <1>12, <1>13, <1>14 DEF Next

\* field_impact goes from one dataset to the next only along an edge that the graph has.
THEOREM MappingsAlwaysFollow == Spec => []MappingsFollowGraph
<1> DEFINE Inv == TypeOK /\ LedgerInv /\ GraphInv /\ MappingsFollow
<1>1. Init => Inv
  <2> SUFFICES ASSUME Init PROVE GraphInv /\ MappingsFollow
    BY InitLedger
  <2>1. view = {} /\ lineage = {} /\ graph = {} /\ thread = [t \in Threads |-> Idle]
    BY DEF Init
  <2>2. MappingsFollow
    BY <2>1, IdleFacts DEF MappingsFollow
  <2> QED
    BY <2>1, <2>2 DEF GraphInv, Edges
<1>2. Inv /\ [Next]_vars => Inv'
  BY TypeStep, GraphStep, MappingsFollowStep
<1>3. Inv => MappingsFollowGraph
  BY DEF MappingsFollow, MappingsFollowGraph, MappingEdge
<1> QED
  BY <1>1, <1>2, <1>3, PTL DEF Spec

-----------------------------------------------------------------------------
(* AnsweredHasLineage *)

\* What is durable is on the connection too, run events apart.
OnConnection == \A r \in lineage : r.row.table # "run_events" => r \in view

\* Such a row stays durable, whoever commits or rolls back.
LEMMA DurableStays ==
    ASSUME TypeOK, LedgerInv, OnConnection, [Next]_vars
    PROVE  /\ OnConnection'
           /\ \A r \in lineage : r.row.table # "run_events" => r \in lineage'
<1>1. ASSUME NEW t \in Threads, NEW req \in Requests,
             PostOpenLineage(t, req) \/ PostEvent(t, req)
      PROVE  view' = view /\ lineage' = view
  BY <1>1, PostFacts
<1>2. ASSUME NEW t \in Threads, NEW req \in Requests, PostFails(t, req)
      PROVE  view' = lineage /\ lineage' = lineage
  BY <1>2 DEF PostFails
<1>3. ASSUME NEW t \in Threads, Store(t)
      PROVE  lineage' = view' /\ \A r \in view : r.row.table # "run_events" => r \in view'
  BY <1>3, StoreRows
<1>4. ASSUME NEW t \in Threads, StoreFails(t)
      PROVE  /\ lineage' = lineage \/ lineage' = view'
             /\ \A r \in view : r.row.table # "run_events" => r \in view'
  BY <1>4, StoreFailsRows
<1>5. ASSUME NEW t \in Threads, Reply(t)
      PROVE  view' = view /\ lineage' = lineage
  BY <1>5 DEF Reply
<1>6. CASE Restart
  BY <1>6 DEF Restart, OnConnection
<1>7. CASE UNCHANGED vars
  BY <1>7 DEF vars, OnConnection
<1> QED
  BY <1>1, <1>2, <1>3, <1>4, <1>5, <1>6, <1>7 DEF Next, OnConnection

\* A handler's calls are left over from before, or those of events just acknowledged.
LEMMA PendingMoves ==
    ASSUME TypeOK, LedgerInv, [Next]_vars
    PROVE  \A u \in Threads : \A r \in Pending(u)' :
              r \in Pending(u) \/ r.event_id \in (ids + 1)..ids'
<1> SUFFICES ASSUME NEW u \in Threads, NEW r \in Pending(u)'
             PROVE  r \in Pending(u) \/ r.event_id \in (ids + 1)..ids'
  OBVIOUS
<1>1. ASSUME NEW t \in Threads, NEW req \in Requests,
             PostOpenLineage(t, req) \/ PostEvent(t, req)
      PROVE  r \in Pending(u) \/ r.event_id \in (ids + 1)..ids'
  <2>1. PICK h \in Handler : /\ thread' = [thread EXCEPT ![t] = h]
                             /\ TakesOver(db', (ids + 1)..ids', h)
    BY <1>1, PostFacts
  <2>2. Pending(t)' = RowsOf(h.todo) /\ (u # t => Pending(u)' = Pending(u))
    BY <2>1, PendingChange
  <2> QED
    BY <2>1, <2>2 DEF TakesOver
<1>2. ASSUME NEW t \in Threads, Store(t)
      PROVE  r \in Pending(u)
  BY <1>2, StoreCalls
<1>3. ASSUME NEW t \in Threads, StoreFails(t) \/ Reply(t)
      PROVE  r \in Pending(u)
  <2>1. thread' = [thread EXCEPT ![t] = Idle]
    BY <1>3 DEF StoreFails, Reply
  <2> QED
    BY <2>1, PendingChange, IdleFacts
<1>4. CASE Restart
  <2>1. thread'[u] = Idle
    BY <1>4 DEF Restart
  <2>2. Pending(u)' = RowsOf(thread'[u].todo)
    BY DEF Pending, RowsOf
  <2> QED
    BY <2>1, <2>2, IdleFacts
<1>5. ASSUME thread' = thread
      PROVE  r \in Pending(u)
  BY <1>5 DEF Pending
<1>6. ASSUME NEW t \in Threads, NEW req \in Requests, PostFails(t, req)
      PROVE  r \in Pending(u)
  BY <1>5, <1>6 DEF PostFails
<1>7. CASE UNCHANGED vars
  BY <1>5, <1>7 DEF vars
<1> QED
  BY <1>1, <1>2, <1>3, <1>4, <1>6, <1>7 DEF Next

\* A row reaches the tables through Store, with its edge in the graph, or through
\* the failing call of a handler.
LEMMA EdgesStay ==
    ASSUME TypeOK, LedgerInv, GraphInv, [Next]_vars, NEW a, EdgesKnown(a),
           \A u \in Threads : StoreFails(u) => \A r \in Pending(u) : r.event_id # a.event_id
    PROVE  EdgesKnown(a)'
<1> DEFINE Known(r, g) == r.event_id = a.event_id /\ r.row.table = "dataset_edges" => Edge(r) \in g
<1>0. \A r \in view \cup lineage : Known(r, graph)
  BY DEF EdgesKnown, Edges
<1>1. graph \subseteq graph'
  BY GraphGrows
<1>2. ASSUME \A r \in view' \cup lineage' : r \in view \cup lineage \/ Known(r, graph')
      PROVE  EdgesKnown(a)'
  <2>1. \A r \in view' \cup lineage' : Known(r, graph')
    BY <1>0, <1>1, <1>2
  <2> QED
    BY <2>1 DEF EdgesKnown, Edges, Edge
<1> HIDE DEF Known
<1>3. ASSUME NEW t \in Threads, NEW req \in Requests,
             PostOpenLineage(t, req) \/ PostEvent(t, req)
      PROVE  EdgesKnown(a)'
  <2>1. view' = view /\ lineage' = view
    BY <1>3, PostFacts
  <2> QED
    BY <1>2, <2>1
<1>4. ASSUME NEW t \in Threads, NEW req \in Requests, PostFails(t, req)
      PROVE  EdgesKnown(a)'
  BY <1>2, <1>4 DEF PostFails
<1>5. ASSUME NEW t \in Threads, Store(t)
      PROVE  EdgesKnown(a)'
  <2> DEFINE call == Head(thread[t].todo)
  <2>1. /\ lineage' = view' /\ view' \subseteq view \cup ToSet(call)
        /\ graph' = graph \cup Edges(ToSet(call))
    BY <1>5, StoreRows
  <2>2. \A r \in ToSet(call) : Known(r, graph')
    BY <2>1 DEF Edges, Known
  <2> HIDE DEF call
  <2> QED
    BY <1>2, <2>1, <2>2
<1>6. ASSUME NEW t \in Threads, StoreFails(t)
      PROVE  EdgesKnown(a)'
  <2>1. /\ view' \cup lineage' \subseteq view \cup lineage \cup ToSet(Head(thread[t].todo))
        /\ thread[t].todo # << >>
    BY <1>6, StoreFailsRows
  <2>2. \A r \in ToSet(Head(thread[t].todo)) : Known(r, graph')
    BY <1>6, <2>1, HeadPending DEF Known
  <2> QED
    BY <1>2, <2>1, <2>2
<1>7. ASSUME NEW t \in Threads, Reply(t)
      PROVE  EdgesKnown(a)'
  BY <1>2, <1>7 DEF Reply
<1>8. CASE Restart
  BY <1>2, <1>8 DEF Restart
<1>9. CASE UNCHANGED vars
  BY <1>2, <1>9 DEF vars
<1> QED
  BY <1>3, <1>4, <1>5, <1>6, <1>7, <1>8, <1>9 DEF Next

\* Rows that an event needs, wherever they move.
LEMMA UnderwayMoves ==
    ASSUME NEW a \in Result, NEW rows, NEW moved, Underway(a, rows),
           \A r \in rows : r.row.table # "run_events" => r \in moved
    PROVE  Underway(a, moved)
<1> SUFFICES ASSUME NEW c \in DOMAIN StorageCalls(Content[a.event]) \ {1},
                    NEW row \in ToSet(StorageCalls(Content[a.event])[c])
             PROVE  \E r \in moved : r.event_id = a.event_id /\ r.row = row
  BY DEF Underway
<1>1. Content[a.event] \in OpenLineageRunEvent
  BY ServiceAssumption DEF Result
<1>2. row.table # "run_events"
  BY <1>1, StorageCallsFacts
<1>3. PICK r \in rows : r.event_id = a.event_id /\ r.row = row
  BY DEF Underway
<1> QED
  BY <1>2, <1>3

\* The rows of a new event, durable or with the handler that may still write them,
\* are there after the step, and nobody else gets to write any.
LEMMA Kept ==
    ASSUME TypeOK, LedgerInv, GraphInv, OnConnection, [Next]_vars,
           NEW a \in Result, NEW rows, NEW moved, NEW others \in SUBSET Threads,
           a.event_id \in 1..ids, Underway(a, rows), EdgesKnown(a),
           \A u \in others : \A r \in Pending(u) : r.event_id # a.event_id,
           \A r \in rows : r.row.table # "run_events" => r \in moved,
           \A u \in Threads \ others : ~StoreFails(u)
    PROVE  /\ a.event_id \in 1..ids'
           /\ Underway(a, moved)
           /\ EdgesKnown(a)'
           /\ \A u \in others : \A r \in Pending(u)' : r.event_id # a.event_id
<1>1. ids <= ids' /\ ids \in Nat /\ ids' \in Nat
  BY LedgeredGrows
<1>2. a.event_id \in 1..ids' /\ a.event_id \notin (ids + 1)..ids'
  BY <1>1
<1>3. Underway(a, moved)
  BY UnderwayMoves
<1>4. EdgesKnown(a)'
  BY EdgesStay
<1>5. \A u \in others : \A r \in Pending(u)' : r.event_id # a.event_id
  BY <1>2, PendingMoves
<1> QED
  BY <1>2, <1>3, <1>4, <1>5

\* A handler's results are left over, with its calls, or those of events it just
\* had acknowledged.
LEMMA ResultsMove ==
    ASSUME TypeOK, LedgerInv, OnConnection, [Next]_vars,
           NEW t \in Threads, NEW a \in ToSet(thread'[t].results), New(a)
    PROVE  /\ ~StoreFails(t)
           /\ \/ /\ a \in ToSet(thread[t].results)
                 /\ \A r \in Pending(t) : r.row.table # "run_events" =>
                                             r \in Pending(t)' \cup lineage'
              \/ /\ a.event_id \in (ids + 1)..ids' /\ Underway(a, Pending(t)')
                 /\ view' \cup lineage' \subseteq view \cup lineage
                 /\ \A u \in Threads : u # t => Pending(u)' = Pending(u)
<1> DEFINE Left == /\ a \in ToSet(thread[t].results)
                   /\ \A r \in Pending(t) : r.row.table # "run_events" =>
                                               r \in Pending(t)' \cup lineage'
           Fresh == /\ a.event_id \in (ids + 1)..ids' /\ Underway(a, Pending(t)')
                    /\ view' \cup lineage' \subseteq view \cup lineage
                    /\ \A u \in Threads : u # t => Pending(u)' = Pending(u)
<1>1. thread'[t] # Idle
  BY IdleFacts
<1>2. \A u \in Threads : thread' = [thread EXCEPT ![u] = Idle] => u # t
  BY <1>1, PendingChange
<1>3. ~StoreFails(t)
  BY <1>2 DEF StoreFails
<1>4. ASSUME thread'[t] = thread[t]
      PROVE  Left
  BY <1>4 DEF Pending
<1>5. ASSUME NEW u \in Threads, NEW req \in Requests,
             PostOpenLineage(u, req) \/ PostEvent(u, req)
      PROVE  Left \/ Fresh
  <2>1. PICK h \in Handler : /\ thread' = [thread EXCEPT ![u] = h]
                             /\ TakesOver(db', (ids + 1)..ids', h)
    BY <1>5, PostFacts
  <2>2. /\ thread'[u] = h /\ Pending(u)' = RowsOf(h.todo)
        /\ \A v \in Threads : v # u => thread'[v] = thread[v] /\ Pending(v)' = Pending(v)
    BY <2>1, PendingChange
  <2>3. CASE u = t
    <3>1. a.event_id \in (ids + 1)..ids' /\ Underway(a, RowsOf(h.todo))
      BY <2>1, <2>2, <2>3 DEF TakesOver
    <3>2. view' \cup lineage' \subseteq view \cup lineage
      BY <1>5, PostFacts
    <3> QED
      BY <2>2, <2>3, <3>1, <3>2
  <2>4. CASE u # t
    BY <1>4, <2>2, <2>4
  <2> QED
    BY <2>3, <2>4
<1>6. ASSUME NEW u \in Threads, Store(u)
      PROVE  Left
  <2>1. CASE u = t
    <3>1. /\ thread'[t].results = thread[t].results
          /\ Pending(t) = ToSet(Head(thread[t].todo)) \cup Pending(t)'
      BY <1>6, <2>1, StoreCalls
    <3>2. ToSet(Head(thread[t].todo)) \subseteq lineage'
      BY <1>6, <2>1, StoreRows
    <3> QED
      BY <3>1, <3>2
  <2>2. CASE u # t
    BY <1>4, <1>6, <2>2, StoreCalls
  <2> QED
    BY <2>1, <2>2
<1>7. ASSUME NEW u \in Threads, StoreFails(u) \/ Reply(u)
      PROVE  Left
  <2>1. thread' = [thread EXCEPT ![u] = Idle]
    BY <1>7 DEF StoreFails, Reply
  <2>2. thread'[t] = thread[t]
    BY <1>2, <2>1, PendingChange
  <2> QED
    BY <1>4, <2>2
<1>8. ASSUME Restart
      PROVE  Left \/ Fresh
  <2>1. thread'[t] = Idle
    BY <1>8 DEF Restart
  <2> QED
    BY <1>1, <2>1
<1>9. ASSUME NEW u \in Threads, NEW req \in Requests, PostFails(u, req)
      PROVE  Left
  <2>1. thread' = thread
    BY <1>9 DEF PostFails
  <2> QED
    BY <1>4, <2>1
<1>10. ASSUME UNCHANGED vars
       PROVE  Left
  <2>1. thread' = thread
    BY <1>10 DEF vars
  <2> QED
    BY <1>4, <2>1
<1>11. Left \/ Fresh
  <2> HIDE DEF Left, Fresh
  <2> QED
    BY <1>5, <1>6, <1>7, <1>8, <1>9, <1>10 DEF Next
<1> QED
  BY <1>3, <1>11

\* What a client was told is what an earlier reply said, or the handler that replies.
LEMMA AnsweredMoves ==
    ASSUME TypeOK, LedgerInv, [Next]_vars, NEW a \in answered'
    PROVE  \/ a \in answered
           \/ \E t \in Threads : /\ a \in ToSet(thread[t].results)
                                 /\ Pending(t) = {} /\ ~StoreFails(t)
<1>1. ASSUME NEW t \in Threads, Reply(t)
      PROVE  \/ a \in answered
             \/ a \in ToSet(thread[t].results) /\ Pending(t) = {} /\ ~StoreFails(t)
  <2>1. /\ answered' = answered \cup ToSet(thread[t].results)
        /\ thread[t].todo = << >>
    BY <1>1 DEF Reply
  <2>2. Pending(t) = {} /\ ~StoreFails(t)
    <3>1. Pending(t) = RowsOf(thread[t].todo)
      BY DEF Pending, RowsOf
    <3> QED
      BY <2>1, <3>1, IdleFacts DEF StoreFails
  <2> QED
    BY <2>1, <2>2
<1>2. ASSUME NEW t \in Threads, NEW req \in Requests,
             PostOpenLineage(t, req) \/ PostEvent(t, req) \/ PostFails(t, req)
      PROVE  answered' = answered
  BY <1>2 DEF PostOpenLineage, PostEvent, PostFails
<1>3. ASSUME NEW t \in Threads, Store(t) \/ StoreFails(t)
      PROVE  answered' = answered
  BY <1>3 DEF Store, StoreFails
<1>4. CASE Restart
  BY <1>4 DEF Restart
<1>5. CASE UNCHANGED vars
  BY <1>5 DEF vars
<1> QED
  BY <1>1, <1>2, <1>3, <1>4, <1>5 DEF Next

\* No step breaks what the results promise.
LEMMA ResultsHoldStep ==
    ASSUME TypeOK, LedgerInv, RowsKnown, GraphInv, ResultsHold, [Next]_vars
    PROVE  ResultsHold'
<1>1. OnConnection
  BY DEF ResultsHold, OnConnection
<1>2. /\ OnConnection'
      /\ \A r \in lineage : r.row.table # "run_events" => r \in lineage'
  BY <1>1, DurableStays
<1>3. ids <= ids' /\ ids \in Nat /\ ids' \in Nat
  BY LedgeredGrows
<1>4. /\ answered \subseteq Result
      /\ \A t \in Threads : ToSet(thread[t].results) \subseteq Result
  <2>1. \A t \in Threads : thread[t].results \in Seq(Result)
    BY DEF TypeOK, Handler
  <2>2. \A s \in Seq(Result) : ToSet(s) \subseteq Result
    BY DEF ToSet
  <2> QED
    BY <2>1, <2>2 DEF TypeOK
<1>5. ASSUME NEW t \in Threads, NEW a \in ToSet(thread'[t].results), New(a)
      PROVE  /\ a.event_id \in 1..ids'
             /\ Underway(a, lineage' \cup Pending(t)')
             /\ EdgesKnown(a)'
             /\ \A u \in Threads \ {t} : \A r \in Pending(u)' : r.event_id # a.event_id
  <2>1. CASE /\ a \in ToSet(thread[t].results)
             /\ \A r \in Pending(t) : r.row.table # "run_events" =>
                                         r \in Pending(t)' \cup lineage'
    <3> DEFINE others == Threads \ {t}
               rows == lineage \cup Pending(t)
               moved == lineage' \cup Pending(t)'
    <3>1. /\ a.event_id \in 1..ids /\ Underway(a, rows) /\ EdgesKnown(a)
          /\ \A u \in others : \A r \in Pending(u) : r.event_id # a.event_id
      BY <1>5, <2>1 DEF ResultsHold
    <3>2. \A r \in rows : r.row.table # "run_events" => r \in moved
      BY <1>2, <2>1
    <3>3. \A u \in Threads \ others : ~StoreFails(u)
      BY <1>1, <1>5, ResultsMove
    <3>4. others \in SUBSET Threads /\ a \in Result
      BY <1>4, <2>1
    <3> HIDE DEF others, rows, moved
    <3>5. /\ a.event_id \in 1..ids' /\ Underway(a, moved) /\ EdgesKnown(a)'
          /\ \A u \in others : \A r \in Pending(u)' : r.event_id # a.event_id
      BY <1>1, <3>1, <3>2, <3>3, <3>4, Kept
    <3> QED
      BY <3>5 DEF others, moved
  <2>2. CASE /\ a.event_id \in (ids + 1)..ids' /\ Underway(a, Pending(t)')
             /\ view' \cup lineage' \subseteq view \cup lineage
             /\ \A u \in Threads : u # t => Pending(u)' = Pending(u)
    <3>1. a.event_id \in 1..ids' /\ a.event_id \notin 1..ids
      BY <1>3, <2>2
    <3>2. Underway(a, lineage' \cup Pending(t)')
      BY <2>2 DEF Underway
    <3>3. \A r \in view' \cup lineage' : r.event_id # a.event_id
      BY <2>2, <3>1 DEF RowsKnown
    <3>4. EdgesKnown(a)'
      BY <3>3 DEF EdgesKnown, Edges
    <3>5. \A u \in Threads \ {t} : \A r \in Pending(u)' : r.event_id # a.event_id
      BY <2>2, <3>1 DEF RowsKnown
    <3> QED
      BY <3>1, <3>2, <3>4, <3>5
  <2> QED
    BY <1>1, <1>5, <2>1, <2>2, ResultsMove
<1>6. ASSUME NEW a \in answered', New(a)
      PROVE  /\ a.event_id \in 1..ids'
             /\ Underway(a, lineage')
             /\ EdgesKnown(a)'
             /\ \A u \in Threads : \A r \in Pending(u)' : r.event_id # a.event_id
  <2> DEFINE Held(others) ==
          /\ a \in Result /\ a.event_id \in 1..ids /\ Underway(a, lineage) /\ EdgesKnown(a)
          /\ \A u \in others : \A r \in Pending(u) : r.event_id # a.event_id
          /\ \A u \in Threads \ others : ~StoreFails(u) /\ Pending(u) = {}
  <2>1. \E others \in SUBSET Threads : Held(others)
    <3>1. CASE a \in answered
      <4>1. Held(Threads)
        BY <1>4, <1>6, <3>1 DEF ResultsHold
      <4> QED
        BY <4>1
    <3>2. ASSUME NEW t \in Threads, a \in ToSet(thread[t].results),
                 Pending(t) = {}, ~StoreFails(t)
          PROVE  \E others \in SUBSET Threads : Held(others)
      <4>1. /\ a.event_id \in 1..ids /\ Underway(a, lineage \cup Pending(t)) /\ EdgesKnown(a)
            /\ \A u \in Threads \ {t} : \A r \in Pending(u) : r.event_id # a.event_id
        BY <1>6, <3>2 DEF ResultsHold
      <4>2. lineage \cup Pending(t) = lineage
        BY <3>2
      <4>3. Underway(a, lineage)
        BY <4>1, <4>2
      <4>4. Held(Threads \ {t})
        BY <1>4, <3>2, <4>1, <4>3
      <4> QED
        BY <4>4
    <3> QED
      BY <3>1, <3>2, AnsweredMoves
  <2>2. PICK others \in SUBSET Threads : Held(others)
    BY <2>1
  <2> DEFINE durable == lineage
             moved == lineage'
  <2>3. \A r \in durable : r.row.table # "run_events" => r \in moved
    BY <1>2
  <2>4. Underway(a, durable)
    BY <2>2
  <2> HIDE DEF durable, moved
  <2>5. /\ a.event_id \in 1..ids' /\ Underway(a, moved) /\ EdgesKnown(a)'
        /\ \A u \in others : \A r \in Pending(u)' : r.event_id # a.event_id
    BY <1>1, <2>2, <2>3, <2>4, Kept
  <2>6. \A u \in Threads \ others : \A r \in Pending(u)' : r.event_id # a.event_id
    <3>1. a.event_id \notin (ids + 1)..ids'
      BY <1>3, <2>2
    <3> QED
      BY <2>2, <3>1, PendingMoves
  <2> QED
    BY <2>5, <2>6 DEF moved
<1> QED
  BY <1>2, <1>5, <1>6 DEF ResultsHold, OnConnection

\* The rows of an event that was new reach a client's answer only when they are durable
\* and in the graph, and nothing takes them away again.
THEOREM AnsweredAlwaysHasLineage == Spec => []AnsweredHasLineage
<1> DEFINE Inv == TypeOK /\ LedgerInv /\ RowsKnown /\ GraphInv /\ ResultsHold
<1>1. Init => Inv
  <2> SUFFICES ASSUME Init PROVE RowsKnown /\ GraphInv /\ ResultsHold
    BY InitLedger
  <2>1. /\ view = {} /\ lineage = {} /\ graph = {} /\ answered = {}
        /\ thread = [t \in Threads |-> Idle]
    BY DEF Init
  <2>2. \A t \in Threads : thread[t] = Idle /\ Pending(t) = {}
    BY <2>1, IdleFacts DEF Pending, RowsOf
  <2>3. RowsKnown
    BY <2>1, <2>2, InitLedger DEF RowsKnown, LedgerInv
  <2>4. ResultsHold
    BY <2>1, <2>2, IdleFacts DEF ResultsHold
  <2>5. GraphInv
    BY <2>1 DEF GraphInv, Edges
  <2> QED
    BY <2>3, <2>4, <2>5
<1>2. Inv /\ [Next]_vars => Inv'
  BY TypeStep, RowsKnownStep, GraphStep, ResultsHoldStep
<1>3. Inv => AnsweredHasLineage
  <2> SUFFICES ASSUME ResultsHold, NEW a \in answered,
                      ~a.duplicate, a.endpoint = "/openlineage"
               PROVE  LET rows == {r \in lineage : r.event_id = a.event_id}
                      IN  /\ Recorded(Content[a.event], {r.row : r \in rows})
                          /\ Edges(rows) \subseteq graph
    BY DEF AnsweredHasLineage
  <2>1. Underway(a, lineage) /\ EdgesKnown(a)
    BY DEF ResultsHold, New
  <2> DEFINE rows == {r \in lineage : r.event_id = a.event_id}
  <2>2. Recorded(Content[a.event], {r.row : r \in rows})
    BY <2>1 DEF Recorded, Underway
  <2>3. Edges(rows) \subseteq graph
    BY <2>1 DEF EdgesKnown, Edges
  <2> QED
    BY <2>2, <2>3
<1> QED
  BY <1>1, <1>2, <1>3, PTL DEF Spec

-----------------------------------------------------------------------------
(* The verdicts on schemas. *)

\* The verdict on two schemas is exact: anything but "breaking" means that each old
\* field is there with its type, and "forward_compatible" that nothing changed.
THEOREM VerdictIsExact ==
    ASSUME NEW old \in Schema, NEW new \in Schema
    PROVE  /\ classify_compat(old, new) # "breaking" <=> Readable(old, new)
           /\ classify_compat(old, new) = "forward_compatible" <=> old = new
<1>1. removed(old, new) = {} <=> DOMAIN old \subseteq DOMAIN new
  BY DEF removed
<1>2. DOMAIN old \subseteq DOMAIN new =>
          (type_changes(old, new) = {} <=> \A f \in DOMAIN old : new[f] = old[f])
  BY DEF type_changes
<1>3. classify_compat(old, new) # "breaking" <=> Readable(old, new)
  BY <1>1, <1>2 DEF classify_compat, Readable
<1>4. Readable(old, new) /\ added(old, new) = {} <=> old = new
  <2>1. old = [f \in DOMAIN old |-> old[f]] /\ new = [f \in DOMAIN new |-> new[f]]
    BY DEF Schema
  <2>2. Readable(old, new) /\ added(old, new) = {} => old = new
    BY <2>1 DEF Readable, added
  <2>3. old = new => Readable(old, new) /\ added(old, new) = {}
    BY DEF Readable, added
  <2> QED
    BY <2>2, <2>3
<1>5. classify_compat(old, new) = "forward_compatible" <=>
          classify_compat(old, new) # "breaking" /\ added(old, new) = {}
  BY DEF classify_compat
<1> QED
  BY <1>3, <1>4, <1>5

\* An event the agent passes has no forbidden field in its output, and what it
\* declared as its input can be read from there, unless it declared no field at all.
THEOREM OkIsSafe ==
    ASSUME NEW input \in Schema, NEW output \in Schema, NEW compat,
           check(input, output, compat).status = "ok"
    PROVE  /\ Forbidden \cap DOMAIN output = {}
           /\ DOMAIN input # {} => Readable(input, output)
<1>1. Forbidden \cap DOMAIN output = {}
  BY DEF check
<1>2. ASSUME DOMAIN input # {}
      PROVE  classify_compat(input, output) # "breaking"
  BY <1>1, <1>2 DEF check
<1> QED
  BY <1>1, <1>2, VerdictIsExact

\* Passed one after the other, two transforms that hand a schema on leave what the
\* first one declared readable at the end of the second.
THEOREM OkComposes ==
    ASSUME NEW a \in Schema, NEW b \in Schema, NEW c \in Schema, NEW compat,
           DOMAIN a # {}, check(a, b, compat).status = "ok",
           check(b, c, compat).status = "ok"
    PROVE  Readable(a, c)
<1>1. Readable(a, b)
  BY OkIsSafe
<1>2. DOMAIN b # {}
  BY <1>1 DEF Readable
<1>3. Readable(b, c)
  BY <1>2, OkIsSafe
<1> QED
  BY <1>1, <1>3 DEF Readable
=============================================================================
