---------------------------- MODULE VaultService ----------------------------
(***************************************************************************)
(* One API process over the storage contract: the POST handlers (api/app), *)
(* OpenLineageIngestor.ingest_batch, LineageVaultEngine._persist_event and *)
(* the backend's lineage tables.  Handlers run in threads, on one          *)
(* connection; an acknowledged batch is one transaction (VaultContract),   *)
(* what follows it is a transaction per call.                              *)
(*                                                                         *)
(* The lineage methods of the backend do not roll back: the rows of a call *)
(* that raised stay on the connection, for the next commit to publish or   *)
(* the next rollback to drop.                                              *)
(***************************************************************************)
EXTENDS OpenLineage, VaultTables

CONSTANTS Threads,
          Content,      \* what an event says: [Payload -> run event]
          Requests,     \* what clients POST, any number of times
          NoKey,        \* no Idempotency-Key
          MaxIds,       \* bound: event ids drawn from uuid4
          MaxFaults     \* bound: crashes and failed statements

Endpoint == {"/openlineage", "/events"}

\* The key of an event without a header: its run and type, or the event id drawn for
\* it.  POST /events takes one event, of one input and one output.
ASSUME ServiceAssumption ==
    /\ Content \in [Payload -> OpenLineageRunEvent]
    /\ Requests \subseteq [endpoint : Endpoint, events : Seq(Payload), key : Key \cup {NoKey}]
    /\ \A req \in Requests : req.endpoint = "/events" =>
          /\ Len(req.events) = 1
          /\ Len(Content[req.events[1]].inputs) = 1 /\ Len(Content[req.events[1]].outputs) = 1
    /\ NoKey \notin Key
    /\ {<<Content[p].run_id, Content[p].eventType>> : p \in Payload} \subseteq Key
    /\ {<<i>> : i \in 1..MaxIds} \subseteq Key
    /\ MaxIds \in Nat /\ 1..MaxIds \subseteq EventId
    /\ MaxFaults \in Nat

VARIABLES db,           \* the ledger tables
          lineage,      \* durable rows of the lineage tables
          view,         \* those rows as the connection sees them
          graph,        \* the in-memory graph of dataset edges
          thread,       \* the handler each thread is in
          ids,          \* event ids drawn so far
          answered,     \* results clients have got
          faults

vars == <<db, lineage, view, graph, thread, ids, answered, faults>>

\* The ledger tables change as the contract says; what clients were told is kept
\* in `answered' here.
Vault == INSTANCE VaultContract WITH Batches <- {}, Stagings <- {}, acked <- {}

\* A row of a lineage table, and whose it is: the endpoint, the event id and the
\* place among that event's rows (the code keeps the run id only).
LineageRow == [endpoint : Endpoint, event_id : 1..MaxIds, call : Nat, n : Nat, row : TableRow]

Result == [endpoint : Endpoint, event : Payload, event_id : 1..MaxIds, duplicate : BOOLEAN]

\* `todo': the storage calls left, each a sequence of rows.
Handler == [todo : Seq(Seq(LineageRow)), results : Seq(Result)]

Idle == [todo |-> << >>, results |-> << >>]

TypeOK ==
    /\ db \in Db
    /\ lineage \subseteq LineageRow /\ view \subseteq LineageRow
    /\ graph \subseteq Dataset \X Dataset
    /\ thread \in [Threads -> Handler]
    /\ ids \in 0..MaxIds
    /\ answered \subseteq Result
    /\ faults \in 0..MaxFaults

Init ==
    /\ db = EmptyDb
    /\ lineage = {} /\ view = {} /\ graph = {}
    /\ thread = [t \in Threads |-> Idle]
    /\ ids = 0
    /\ answered = {}
    /\ faults = 0

-----------------------------------------------------------------------------
(* The lineage tables *)

Edge(r) == <<r.row.src, r.row.dst>>

Edges(rows) == {Edge(r) : r \in {s \in rows : s.row.table = "dataset_edges"}}

\* The INSERTs of a storage call.  run_events is upserted on (run_id, event_type), the
\* other tables only grow.
InsertAll(rows, new) ==
    {r \in rows : ~(r.row.table = "run_events" /\ \E s \in ToSet(new) : s.row = r.row)}
        \cup ToSet(new)

\* commit(): whatever the connection holds becomes durable.
Commit(rows) == view' = rows /\ lineage' = rows

Fail == faults < MaxFaults /\ faults' = faults + 1

-----------------------------------------------------------------------------
(* The handlers *)

KeyOf(req, event, id) ==
    IF req.key # NoKey THEN req.key
    ELSE IF req.endpoint = "/events" THEN <<id>>
    ELSE <<Content[event].run_id, Content[event].eventType>>

\* The items of a request, with fresh event ids.
Items(req) ==
    [i \in DOMAIN req.events |->
        [idempotency_key |-> KeyOf(req, req.events[i], ids + i),
         event_id        |-> ids + i,
         payload         |-> req.events[i]]]

\* What acknowledge_writes_batch answers for an item, in the state after it.
ResultOf(item) ==
    LET claim == CHOOSE r \in db'.idempotency : r.idempotency_key = item.idempotency_key
    IN  [endpoint  |-> "/openlineage",
         event     |-> item.payload,
         event_id  |-> claim.event_id,
         duplicate |-> claim.event_id # item.event_id]

\* The calls that follow for an item, each a sequence of rows.
CallsOf(endpoint, id, calls) ==
    [c \in DOMAIN calls |-> [n \in DOMAIN calls[c] |->
        [endpoint |-> endpoint, event_id |-> id, call |-> c, n |-> n, row |-> calls[c][n]]]]

\* Mutant: duplicates are recorded too.
CallsForAll(item, result) ==
    CallsOf("/openlineage", item.event_id, StorageCalls(Content[item.payload]))

\* A duplicate makes no call.
CallsFor(item, result) ==
    IF result.duplicate THEN << >>
    ELSE CallsOf("/openlineage", item.event_id, StorageCalls(Content[item.payload]))

\* add_edge of _persist_event: these events have one input and one output.
EventCalls(item) ==
    LET event == Content[item.payload]
    IN  CallsOf("/events", item.event_id, << <<EdgeRow(event.inputs[1], event.outputs[1])>> >>)

\* POST /openlineage and /openlineage/batch, up to the reply of the storage.
PostOpenLineage(t, req) ==
    /\ thread[t] = Idle
    /\ req.endpoint = "/openlineage"
    /\ ids + Len(req.events) <= MaxIds
    /\ LET items   == Items(req)
           results == [i \in DOMAIN items |-> ResultOf(items[i])]
       IN  /\ Vault!acknowledge_writes_batch(items)
           /\ thread' = [thread EXCEPT ![t] =
                 [todo    |-> FlattenSeq([i \in DOMAIN items |-> CallsFor(items[i], results[i])]),
                  results |-> results]]
    /\ ids' = ids + Len(req.events)
    /\ Commit(view)
    /\ UNCHANGED <<graph, answered, faults>>

\* POST /events: _persist_event adds its edge whatever the storage replied, and
\* the reply names the event id just drawn.
PostEvent(t, req) ==
    /\ thread[t] = Idle
    /\ req.endpoint = "/events"
    /\ ids < MaxIds
    /\ LET item == Items(req)[1]
       IN  /\ Vault!acknowledge_writes_batch(<<item>>)
           /\ thread' = [thread EXCEPT ![t] =
                 [todo    |-> EventCalls(item),
                  results |-> <<[endpoint  |-> "/events",
                                 event     |-> item.payload,
                                 event_id  |-> item.event_id,
                                 duplicate |-> FALSE]>>]]
    /\ ids' = ids + 1
    /\ Commit(view)
    /\ UNCHANGED <<graph, answered, faults>>

\* acknowledge_writes_batch raises: it has rolled the connection back.
PostFails(t, req) ==
    /\ thread[t] = Idle
    /\ Fail
    /\ view' = lineage
    /\ UNCHANGED <<db, lineage, graph, thread, ids, answered>>

\* Mutant: the graph is told before the row is durable.
StoreFailsKnown(t) ==
    /\ thread[t].todo # << >>
    /\ Fail
    /\ view' = InsertAll(view, Head(thread[t].todo))
    /\ graph' = graph \cup Edges(ToSet(Head(thread[t].todo)))
    /\ thread' = [thread EXCEPT ![t] = Idle]
    /\ UNCHANGED <<db, lineage, ids, answered>>

\* Mutant: a call that raises is logged and skipped.
StoreFailsAndGoesOn(t) ==
    /\ thread[t].todo # << >>
    /\ Fail
    /\ thread' = [thread EXCEPT ![t].todo = Tail(@)]
    /\ UNCHANGED <<db, lineage, view, graph, ids, answered>>

\* store_run_event, add_dataset_edge or record_field_mapping, under the lock.
Store(t) ==
    /\ thread[t].todo # << >>
    /\ Commit(InsertAll(view, Head(thread[t].todo)))
    /\ graph' = graph \cup Edges(ToSet(Head(thread[t].todo)))
    /\ thread' = [thread EXCEPT ![t].todo = Tail(@)]
    /\ UNCHANGED <<db, ids, answered, faults>>

\* One of its statements raises, and there is no reply.  SQLite keeps the rows so
\* far on the connection, PostgreSQL's pool rolls back (k = 0); or it is the commit
\* that raises, although it took effect.
StoreFails(t) ==
    /\ thread[t].todo # << >>
    /\ Fail
    /\ LET rows == Head(thread[t].todo)
       IN  \/ /\ \E k \in 0..Len(rows) : view' = InsertAll(view, SubSeq(rows, 1, k))
              /\ UNCHANGED lineage
           \/ Commit(InsertAll(view, rows))
    /\ thread' = [thread EXCEPT ![t] = Idle]
    /\ UNCHANGED <<db, graph, ids, answered>>

Reply(t) ==
    /\ thread[t] # Idle /\ thread[t].todo = << >>
    /\ answered' = answered \cup ToSet(thread[t].results)
    /\ thread' = [thread EXCEPT ![t] = Idle]
    /\ UNCHANGED <<db, lineage, view, graph, ids, faults>>

\* The process dies and starts again: lifespan recovers, the graph is loaded.
Restart ==
    /\ Fail
    /\ Vault!recover_uncommitted
    /\ view' = lineage /\ graph' = Edges(lineage)
    /\ thread' = [t \in Threads |-> Idle]
    /\ UNCHANGED <<lineage, ids, answered>>

Next ==
    \/ \E t \in Threads, req \in Requests :
          PostOpenLineage(t, req) \/ PostEvent(t, req) \/ PostFails(t, req)
    \/ \E t \in Threads : Store(t) \/ StoreFails(t) \/ Reply(t)
    \/ Restart

Spec == Init /\ [][Next]_vars

-----------------------------------------------------------------------------
(* Properties *)

Ledgered == EventsOf(db.ledger)

\* An event of /openlineage leaves rows in the lineage tables only when it has its
\* own ledger entry (a duplicate on /events adds its edge without one): no retry, no other event under its key and no batch that
\* was rolled back adds to the graph, whoever commits its rows.
LineageIsLedgered ==
    \A r \in view : r.endpoint = "/openlineage" => r.event_id \in Ledgered

\* Rows of `event' (all but run_events, which a later event may replace).
Recorded(event, rows) ==
    \A c \in DOMAIN StorageCalls(event) \ {1} :
        ToSet(StorageCalls(event)[c]) \subseteq rows

\* A client told that its event was new finds its lineage durable, and in the
\* graph the queries use, from then on.
AnsweredHasLineage ==
    \A a \in answered : ~a.duplicate /\ a.endpoint = "/openlineage" =>
        LET rows == {r \in lineage : r.event_id = a.event_id}
        IN  /\ Recorded(Content[a.event], {r.row : r \in rows})
            /\ Edges(rows) \subseteq graph

\* field_impact never leads to a dataset that the dataset graph does not reach
\* by the same step, even when the calls of an event were cut short.
MappingsFollowGraph ==
    \A r \in lineage : r.row.table = "field_mappings" =>
        <<r.row.input_dataset, r.row.output_dataset>> \in graph

\* Queries on the in-memory graph show durable edges only.
GraphIsDurable == graph \subseteq Edges(lineage)

\* What the invariants above rest on.  The claims name events whose ids were drawn; so
\* does every row, wherever it is, and a row of an OpenLineage event is ledgered.
Pending(t) == UNION {ToSet(thread[t].todo[c]) : c \in DOMAIN thread[t].todo}

RowsKnown ==
    /\ \A r \in db.idempotency : r.event_id \in 1..ids
    /\ \A r \in view \cup lineage \cup UNION {Pending(t) : t \in Threads} :
          /\ r.event_id \in 1..ids
          /\ r.endpoint = "/openlineage" => r.event_id \in Ledgered

\* A mapping follows the graph, on the connection too; one that a handler is to write
\* follows the graph or an edge the handler writes before it.
MappingEdge(r) == <<r.row.input_dataset, r.row.output_dataset>>

EdgesBefore(todo, j) == UNION {Edges(ToSet(todo[i])) : i \in 1..(j - 1)}

MappingsFollow ==
    /\ \A r \in view \cup lineage : r.row.table = "field_mappings" => MappingEdge(r) \in graph
    /\ \A t \in Threads : \A j \in DOMAIN thread[t].todo : \A r \in ToSet(thread[t].todo[j]) :
          r.row.table = "field_mappings" =>
              MappingEdge(r) \in graph \cup EdgesBefore(thread[t].todo, j)

\* A result for an event that was new: its rows are durable or still to be written by
\* its own handler, and only that handler still writes rows of that event.
New(a) == a.endpoint = "/openlineage" /\ ~a.duplicate

Underway(a, rows) ==
    \A c \in DOMAIN StorageCalls(Content[a.event]) \ {1} :
        \A row \in ToSet(StorageCalls(Content[a.event])[c]) :
            \E r \in rows : r.event_id = a.event_id /\ r.row = row

EdgesKnown(a) == Edges({r \in view \cup lineage : r.event_id = a.event_id}) \subseteq graph

ResultsHold ==
    /\ \A r \in lineage : r.row.table # "run_events" => r \in view
    /\ \A t \in Threads : \A a \in ToSet(thread[t].results) : New(a) =>
          /\ a.event_id \in 1..ids
          /\ Underway(a, lineage \cup Pending(t))
          /\ EdgesKnown(a)
          /\ \A u \in Threads \ {t} : \A r \in Pending(u) : r.event_id # a.event_id
    /\ \A a \in answered : New(a) =>
          /\ a.event_id \in 1..ids
          /\ Underway(a, lineage)
          /\ EdgesKnown(a)
          /\ \A u \in Threads : \A r \in Pending(u) : r.event_id # a.event_id

\* architecture.md, data flow: once an event is acknowledged and no handler is at
\* work, its edges and field mappings are recorded, retried or not.
AcknowledgedHasLineage ==
    (\A t \in Threads : thread[t] = Idle) =>
        \A a \in answered : Recorded(Content[a.event], {r.row : r \in lineage})

\* test_acknowledged_writes.py, "zero lost acknowledged writes": an acknowledged
\* event is in the ledger.
AcknowledgedIsLedgered ==
    \A a \in answered : \E i \in DOMAIN db.ledger : db.ledger[i].payload = a.event
=============================================================================
