----------------------------- MODULE OpenLineage -----------------------------
(***************************************************************************)
(* What one OpenLineage run event makes _record_lineage write              *)
(* (openlineage/ingest.py and models.py), as a sequence of calls of the    *)
(* storage interface, each a sequence of rows.  The order of the rows of   *)
(* one field map is the order of a dict, and is left to SetToSeq.          *)
(***************************************************************************)
EXTENDS SequencesExt

CONSTANTS RunId,
          Dataset,      \* qualified names
          Field,
          NoField       \* a columnLineage field without inputFields

\* A dataset of an event, of finitely many fields.  `schema': the names of the schema
\* facet; `lineage': for each field of the columnLineage facet, its first input field.
DatasetRef ==
    {ds \in [name    : Dataset,
             schema  : SUBSET Field,
             lineage : UNION {[fs -> Field \cup {NoField}] : fs \in SUBSET Field}] :
        IsFiniteSet(ds.schema) /\ IsFiniteSet(DOMAIN ds.lineage)}

OpenLineageRunEvent == [run_id    : RunId,
                        eventType : STRING,
                        inputs    : Seq(DatasetRef),
                        outputs   : Seq(DatasetRef)]

\* The fields of _parse_dataset: those of both facets.
FieldsOf(ds) == ds.schema \cup DOMAIN ds.lineage

EdgeRow(src, dst) == [table |-> "dataset_edges", src |-> src.name, dst |-> dst.name]

\* The rows of one record_field_mapping call.
MappingRows(out, in, field_map) ==
    SetToSeq({[table          |-> "field_mappings",
               output_dataset |-> out.name, output_field |-> f,
               input_dataset  |-> in.name,  input_field  |-> field_map[f]] :
                 f \in DOMAIN field_map})

\* An empty field map makes no call.
MappingCalls(out, in, field_map) ==
    IF DOMAIN field_map = {} THEN << >> ELSE <<MappingRows(out, in, field_map)>>

SameNames(out, in) == [f \in FieldsOf(out) \cap FieldsOf(in) |-> f]

\* Mutant: fields without inputFields are kept.
FacetMapAll(out) == out.lineage

FacetMap(out) ==
    [f \in {g \in DOMAIN out.lineage : out.lineage[g] # NoField} |-> out.lineage[f]]

\* Every pair of the nested loops `for out in outputs: for in in inputs'.
Pairs(event) ==
    FlattenSeq([i \in DOMAIN event.outputs |->
        [j \in DOMAIN event.inputs |-> <<event.outputs[i], event.inputs[j]>>]])

\* Mutant: the edge is written once its field mappings are.
EdgesLast(event) ==
    FlattenSeq([k \in DOMAIN Pairs(event) |->
        LET out == Pairs(event)[k][1]
            in  == Pairs(event)[k][2]
        IN  MappingCalls(out, in, SameNames(out, in)) \o << <<EdgeRow(in, out)>> >>])

\* An edge per pair, with the fields of the same name; then the facets' maps.
EdgesAndSameNames(event) ==
    FlattenSeq([k \in DOMAIN Pairs(event) |->
        LET out == Pairs(event)[k][1]
            in  == Pairs(event)[k][2]
        IN  << <<EdgeRow(in, out)>> >> \o MappingCalls(out, in, SameNames(out, in))])

field_mappings(event) ==
    FlattenSeq([k \in DOMAIN Pairs(event) |->
        LET out == Pairs(event)[k][1]
            in  == Pairs(event)[k][2]
        IN  MappingCalls(out, in, FacetMap(out))])

\* The calls of _record_lineage.
record_lineage(event) == EdgesAndSameNames(event) \o field_mappings(event)

\* The rows of the lineage tables.
TableRow ==
    [table : {"run_events"}, run_id : RunId, event_type : STRING]
    \cup [table : {"dataset_edges"}, src : Dataset, dst : Dataset]
    \cup [table : {"field_mappings"}, output_dataset : Dataset, output_field : Field,
          input_dataset : Dataset, input_field : Field]

RunEventRow(event) ==
    [table |-> "run_events", run_id |-> event.run_id, event_type |-> event.eventType]

\* The calls ingest_batch makes for an event that is not a duplicate.
StorageCalls(event) ==
    << <<RunEventRow(event)>> >> \o
        (IF event.eventType = "COMPLETE" THEN record_lineage(event) ELSE << >>)
=============================================================================
