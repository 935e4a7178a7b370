---------------------------- MODULE LineageQueries ----------------------------
(***************************************************************************)
(* The lineage queries of both backends, field_impact and dataset_impact,  *)
(* against the handlers of the same process that record lineage, statement *)
(* by statement.                                                           *)
(*                                                                         *)
(* SQLite: writers take the lock for each storage call; the query takes    *)
(* none, and runs its SELECTs on the writers' connection, whose rows need  *)
(* not be committed.  PostgreSQL: each call has a transaction of its own,  *)
(* and a lock protects the graph alone, for each read of it.  In both      *)
(* field_impact reads the graph last.                                      *)
(***************************************************************************)
EXTENDS OpenLineage

CONSTANTS Writers, Readers,     \* threads in POST handlers, and in queries
          Events,               \* run events, each new once
          Asked,                \* the fields queries ask for
          NoWriter,             \* holder of the free lock
          MaxFaults             \* bound: crashes and failed statements

ASSUME QueriesAssumption ==
    /\ Events \subseteq OpenLineageRunEvent
    /\ Asked \subseteq Dataset \X Field
    /\ NoWriter \notin Writers
    /\ MaxFaults \in Nat

VARIABLES backend,      \* what create_storage_backend made
          rows,         \* dataset_edges, field_mappings as a query's SELECT sees them
          durable,      \* those of them that are committed
          graph,        \* self._graph
          lock,         \* self._lock of the SQLite backend
          writer,       \* per writer: the storage calls left, the statements of the first done
          posted,       \* events acknowledged: their retries record nothing
          reader,       \* per reader: the locals of its query
          faults

vars == <<backend, rows, durable, graph, lock, writer, posted, reader, faults>>

LineageField == Dataset \X Field

\* A row and the event whose row it is (rows of one content are distinct rows).
Row == Events \X TableRow

Writer == [event : Events, todo : Seq(Seq(TableRow)), done : Nat]

IdleWriter == [todo |-> << >>, done |-> 0]

\* `known': what was durable when the query began (not in the code).
Reader == [pc         : {"idle", "walk", "done"},
           start      : LineageField,
           frontier   : Seq(LineageField),
           seen       : SUBSET LineageField,
           impacted   : Seq(LineageField),
           downstream : SUBSET Dataset,
           known      : SUBSET Row]

\* dataset_impact, between its two reads of the graph and after them; `known': the
\* datasets of the mappings that were durable when it began (not in the code).
DatasetReader == [pc         : {"below", "above", "answer"},
                  dataset    : Dataset,
                  downstream : SUBSET Dataset,
                  upstream   : SUBSET Dataset,
                  known      : SUBSET (Dataset \X Dataset)]

IdleReader == [pc |-> "idle"]

TypeOK ==
    /\ backend \in {"sqlite", "postgres"}
    /\ rows \subseteq Row /\ durable \subseteq Row
    /\ graph \subseteq Dataset \X Dataset
    /\ lock \in Writers \cup {NoWriter}
    /\ writer \in [Writers -> Writer \cup {IdleWriter}]
    /\ posted \subseteq Events
    /\ reader \in [Readers -> Reader \cup DatasetReader \cup {IdleReader}]
    /\ faults \in 0..MaxFaults

Init ==
    /\ backend \in {"sqlite", "postgres"}
    /\ rows = {} /\ durable = {} /\ graph = {}
    /\ lock = NoWriter
    /\ writer = [w \in Writers |-> IdleWriter]
    /\ posted = {}
    /\ reader = [r \in Readers |-> IdleReader]
    /\ faults = 0

Edges(rs) == {<<r[2].src, r[2].dst>> : r \in {s \in rs : s[2].table = "dataset_edges"}}

Mappings(rs) == {r \in rs : r[2].table = "field_mappings"}

Input(r) == <<r[2].input_dataset, r[2].input_field>>

Output(r) == <<r[2].output_dataset, r[2].output_field>>

DatasetSteps(rs) == {<<Input(m)[1], Output(m)[1]>> : m \in Mappings(rs)}

\* What one or more of `steps', a set of pairs, lead to.
Behind(steps, from) ==
    LET After[n \in 0..Cardinality(steps)] ==
            LET near == IF n = 0 THEN {from} ELSE After[n - 1]
                next == {p[2] : p \in {q \in steps : q[1] \in near}}
            IN  IF n = 0 THEN next ELSE near \cup next
    IN  After[Cardinality(steps)]

\* nx.descendants: the source is not among them.
downstream_datasets(ds) == Behind(graph, ds) \ {ds}

Reversed(steps) == {<<p[2], p[1]>> : p \in steps}

\* nx.ancestors.
upstream_datasets(ds) == Behind(Reversed(graph), ds) \ {ds}

-----------------------------------------------------------------------------
(* Writers *)

\* Before the first of the calls left.
BeforeCall(event, todo) ==
    IF todo = << >> THEN IdleWriter ELSE [event |-> event, todo |-> todo, done |-> 0]

\* _record_lineage of an event that was new.
RecordLineage(w, event) ==
    /\ writer[w] = IdleWriter
    /\ event \notin posted
    /\ posted' = posted \cup {event}
    /\ writer' = [writer EXCEPT ![w] = BeforeCall(event, record_lineage(event))]
    /\ UNCHANGED <<backend, rows, durable, graph, lock, reader, faults>>

\* The rows of the storage call the writer is in.
CallRows(w) ==
    LET call == Head(writer[w].todo)
    IN  [n \in DOMAIN call |-> <<writer[w].event, call[n]>>]

\* The next INSERT of the call.
Inserting(w) ==
    /\ writer[w].todo # << >>
    /\ writer[w].done < Len(CallRows(w))
    /\ writer' = [writer EXCEPT ![w].done = @ + 1]

\* The first INSERT is preceded by taking the lock.
SqliteInsert(w) ==
    /\ backend = "sqlite"
    /\ Inserting(w)
    /\ lock = (IF writer[w].done = 0 THEN NoWriter ELSE w)
    /\ lock' = w
    /\ rows' = rows \cup {CallRows(w)[writer'[w].done]}
    /\ UNCHANGED <<backend, durable, graph, posted, reader, faults>>

\* Only the call's own transaction sees the row.
PostgresInsert(w) ==
    /\ backend = "postgres"
    /\ Inserting(w)
    /\ UNCHANGED <<backend, rows, durable, graph, lock, posted, reader, faults>>

Inserted(w) == writer[w].todo # << >> /\ writer[w].done = Len(CallRows(w))

Committed(w) == writer[w].todo # << >> /\ writer[w].done = Len(CallRows(w)) + 1

\* commit(): all that the connection holds.
CommitCall(w) ==
    /\ Inserted(w)
    /\ rows' = rows \cup ToSet(CallRows(w))
    /\ durable' = rows'
    /\ writer' = [writer EXCEPT ![w].done = @ + 1]
    /\ UNCHANGED <<backend, graph, lock, posted, reader, faults>>

Released(w) == IF lock = w THEN NoWriter ELSE lock

\* add_edge on the graph, if the call wrote an edge, and the end of the call.
EndCall(w) ==
    /\ Committed(w)
    /\ graph' = graph \cup Edges(ToSet(CallRows(w)))
    /\ lock' = Released(w)
    /\ writer' = [writer EXCEPT ![w] = BeforeCall(@.event, Tail(@.todo))]
    /\ UNCHANGED <<backend, rows, durable, posted, reader, faults>>

Fault == faults < MaxFaults /\ faults' = faults + 1

\* A statement or the commit raises, and the rest of the event is given up.  The
\* rows stay on SQLite's connection; PostgreSQL's pool rolls them back.
CallFails(w) ==
    /\ writer[w].todo # << >> /\ ~Committed(w)
    /\ Fault
    /\ lock' = Released(w)
    /\ writer' = [writer EXCEPT ![w] = IdleWriter]
    /\ UNCHANGED <<backend, rows, durable, graph, posted, reader>>

\* A batch of the ledger half is rolled back (a repeated event is reason enough),
\* or committed, on SQLite's connection.
OtherRollback ==
    /\ lock = NoWriter
    /\ rows' = durable
    /\ UNCHANGED <<backend, durable, graph, lock, writer, posted, reader, faults>>

OtherCommit ==
    /\ lock = NoWriter
    /\ durable' = rows
    /\ UNCHANGED <<backend, rows, graph, lock, writer, posted, reader, faults>>

\* The process dies and opens the database again: _load_graph_cache.
Restart ==
    /\ Fault
    /\ rows' = durable
    /\ graph' = Edges(durable)
    /\ lock' = NoWriter
    /\ writer' = [w \in Writers |-> IdleWriter]
    /\ reader' = [r \in Readers |-> IdleReader]
    /\ UNCHANGED <<backend, durable, posted>>

-----------------------------------------------------------------------------
(* field_impact *)

Query(r, start) ==
    /\ reader[r].pc = "idle"
    /\ reader' = [reader EXCEPT ![r] =
           [pc |-> "walk", start |-> start, frontier |-> <<start>>, seen |-> {},
            impacted |-> << >>, downstream |-> {}, known |-> durable]]
    /\ UNCHANGED <<backend, rows, durable, graph, lock, writer, posted, faults>>

\* What the SELECT of one field returns.
Found(field) ==
    LET found == SetToSeq({m \in Mappings(rows) : Input(m) = field})
    IN  [i \in DOMAIN found |-> Output(found[i])]

\* Mutant: no field is skipped for having been seen.
VisitAgain(r) ==
    /\ reader[r].pc = "walk" /\ reader[r].frontier # << >>
    /\ LET q     == reader[r]
           field == Head(q.frontier)
       IN  reader' = [reader EXCEPT ![r] =
               [q EXCEPT !.frontier = Tail(@) \o Found(field),
                         !.seen     = @ \cup {field},
                         !.impacted = IF field \in q.seen THEN @ ELSE @ \o Found(field)]]
    /\ UNCHANGED <<backend, rows, durable, graph, lock, writer, posted, faults>>

\* Mutant: a field is marked as seen when it is found.
VisitMarksEarly(r) ==
    /\ reader[r].pc = "walk" /\ reader[r].frontier # << >>
    /\ LET q     == reader[r]
           field == Head(q.frontier)
       IN  reader' = [reader EXCEPT ![r] =
               IF field \in q.seen
               THEN [q EXCEPT !.frontier = Tail(@)]
               ELSE [q EXCEPT !.frontier = Tail(@) \o Found(field),
                              !.seen     = @ \cup {field} \cup ToSet(Found(field)),
                              !.impacted = @ \o Found(field)]]
    /\ UNCHANGED <<backend, rows, durable, graph, lock, writer, posted, faults>>

\* A turn of the loop: one SELECT, unless the field was seen.
Visit(r) ==
    /\ reader[r].pc = "walk" /\ reader[r].frontier # << >>
    /\ LET q     == reader[r]
           field == Head(q.frontier)
       IN  reader' = [reader EXCEPT ![r] =
               IF field \in q.seen
               THEN [q EXCEPT !.frontier = Tail(@)]
               ELSE [q EXCEPT !.frontier = Tail(@) \o Found(field),
                              !.seen     = @ \cup {field},
                              !.impacted = @ \o Found(field)]]
    /\ UNCHANGED <<backend, rows, durable, graph, lock, writer, posted, faults>>

Walked(r) == reader[r].pc = "walk" /\ reader[r].frontier = << >>

\* The graph is read when the walk is over.
ReadGraph(r) ==
    /\ Walked(r)
    /\ reader' = [reader EXCEPT ![r].pc = "done",
                                ![r].downstream = downstream_datasets(reader[r].start[1])]
    /\ UNCHANGED <<backend, rows, durable, graph, lock, writer, posted, faults>>

\* dataset_impact reads the graph twice.
DatasetQuery(r, dataset) ==
    /\ reader[r].pc = "idle"
    /\ reader' = [reader EXCEPT ![r] =
           [pc |-> "below", dataset |-> dataset, downstream |-> {}, upstream |-> {},
            known |-> DatasetSteps(durable)]]
    /\ UNCHANGED <<backend, rows, durable, graph, lock, writer, posted, faults>>

ReadBelow(r) ==
    /\ reader[r].pc = "below"
    /\ reader' = [reader EXCEPT ![r].pc = "above",
                                ![r].downstream = downstream_datasets(reader[r].dataset)]
    /\ UNCHANGED <<backend, rows, durable, graph, lock, writer, posted, faults>>

ReadAbove(r) ==
    /\ reader[r].pc = "above"
    /\ reader' = [reader EXCEPT ![r].pc = "answer",
                                ![r].upstream = upstream_datasets(reader[r].dataset)]
    /\ UNCHANGED <<backend, rows, durable, graph, lock, writer, posted, faults>>

\* networkx iterates dictionaries that a writer is adding an edge to, unless the
\* graph has a lock.
GraphChanges(r) ==
    /\ backend = "sqlite"
    /\ Walked(r) \/ reader[r].pc \in {"below", "above"}
    /\ \E w \in Writers : Committed(w) /\ ~(Edges(ToSet(CallRows(w))) \subseteq graph)
    /\ reader' = [reader EXCEPT ![r] = IdleReader]
    /\ UNCHANGED <<backend, rows, durable, graph, lock, writer, posted, faults>>

Return(r) ==
    /\ reader[r].pc \in {"done", "answer"}
    /\ reader' = [reader EXCEPT ![r] = IdleReader]
    /\ UNCHANGED <<backend, rows, durable, graph, lock, writer, posted, faults>>

Step(r) ==
    \/ Visit(r) \/ ReadGraph(r)
    \/ ReadBelow(r) \/ ReadAbove(r)
    \/ GraphChanges(r) \/ Return(r)

Next ==
    \/ \E w \in Writers :
          \/ \E event \in Events : RecordLineage(w, event)
          \/ SqliteInsert(w) \/ PostgresInsert(w)
          \/ CommitCall(w) \/ EndCall(w) \/ CallFails(w)
    \/ OtherRollback \/ OtherCommit \/ Restart
    \/ \E r \in Readers, start \in Asked : Query(r, start) \/ DatasetQuery(r, start[1])
    \/ \E r \in Readers : Step(r)

Spec == Init /\ [][Next]_vars

\* A query's thread waits for nothing.
FairSpec == Spec /\ \A r \in Readers : WF_vars(Step(r))

-----------------------------------------------------------------------------
(* Properties *)

FieldSteps(rs) == {<<Input(m), Output(m)>> : m \in Mappings(rs)}

\* An answer lists every field that durable mappings lead to, over cycles and
\* diamonds and although mappings are added, and uncommitted ones dropped, while
\* the query walks.
ImpactIsComplete ==
    \A r \in Readers : reader[r].pc = "done" =>
        Behind(FieldSteps(reader[r].known), reader[r].start)
            \subseteq ToSet(reader[r].impacted)

\* The two halves of a field's answer agree: a listed field belongs to the dataset
\* that was asked for or to one listed downstream of it, also when the mapping that
\* leads there is new or is rolled back later.
ListedIsDownstream(q) ==
    \A i \in DOMAIN q.impacted : q.impacted[i][1] \in q.downstream \cup {q.start[1]}

\* A dataset's answer has every dataset that durable mappings lead to or come from.
CoversMappings(q) ==
    /\ Behind(q.known, q.dataset) \subseteq q.downstream \cup {q.dataset}
    /\ Behind(Reversed(q.known), q.dataset) \subseteq q.upstream \cup {q.dataset}

\* What queries say of fields, from the tables, never goes beyond what they say of
\* datasets, from the graph: not while lineage is written, after calls that raised,
\* or after a restart.
ImpactIsDownstream ==
    \A r \in Readers :
        /\ reader[r].pc = "done" => ListedIsDownstream(reader[r])
        /\ reader[r].pc = "answer" => CoversMappings(reader[r])

\* What the invariants above rest on.  The graph shows durable edges, and has the
\* edge of every mapping that a SELECT may see; a call that committed is durable, and
\* a mapping that is still to be written has its edge in the graph or in an earlier call.
TablesHold ==
    /\ IsFiniteSet(rows) /\ IsFiniteSet(graph)
    /\ durable \subseteq rows
    /\ graph \subseteq Edges(durable)
    /\ DatasetSteps(rows) \subseteq graph

Follows(g, todo) ==
    \A j \in DOMAIN todo : \A r \in ToSet(todo[j]) : r.table = "field_mappings" =>
        \/ <<r.input_dataset, r.output_dataset>> \in g
        \/ \E i \in 1..(j - 1) : \E e \in ToSet(todo[i]) :
              /\ e.table = "dataset_edges"
              /\ e.src = r.input_dataset /\ e.dst = r.output_dataset

CallsHold ==
    \A w \in Writers :
        /\ Committed(w) => ToSet(CallRows(w)) \subseteq durable
        /\ Follows(graph, writer[w].todo)

\* Every field found is visited in the end, a field visited has what durable mappings
\* make of it among those found, and all of them lie downstream of the one asked for.
WalkHolds(q, committed, g) ==
    /\ q.known \subseteq committed
    /\ {q.start} \cup ToSet(q.impacted) \subseteq q.seen \cup ToSet(q.frontier)
    /\ \A m \in Mappings(q.known) : Input(m) \in q.seen => Output(m) \in ToSet(q.impacted)
    /\ \A field \in ToSet(q.frontier) \cup ToSet(q.impacted) :
          field[1] \in {q.start[1]} \cup Behind(g, q.start[1])

CoversBelow(q) == Behind(q.known, q.dataset) \subseteq q.downstream \cup {q.dataset}

ReaderHolds(q, committed, g) ==
    /\ q.pc \in {"walk", "done"} => WalkHolds(q, committed, g)
    /\ q.pc = "done" => q.frontier = << >> /\ ListedIsDownstream(q)
    /\ q.pc \in {"below", "above"} => q.known \subseteq g
    /\ q.pc = "above" => CoversBelow(q)
    /\ q.pc = "answer" => CoversMappings(q)

ReadersHold == \A r \in Readers : ReaderHolds(reader[r], durable, graph)

\* A query ends, on cyclic lineage too.
QueriesEnd == \A r \in Readers : reader[r].pc # "idle" ~> reader[r].pc = "idle"
=============================================================================
