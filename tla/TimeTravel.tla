------------------------------ MODULE TimeTravel ------------------------------
(***************************************************************************)
(* GET /snapshot over the state of VaultService: TimeTravelEngine.snapshot *)
(* (timetravel/query.py) with the edges_at of the backend.                 *)
(*                                                                         *)
(* A time is aware of its time zone or naive, and Python refuses to        *)
(* compare the two.  Of the times themselves nothing else is kept: the     *)
(* snapshot is asked for a time after all that was stored.  Edges carry    *)
(* aware times; of the ledger's payloads only those of /events have a      *)
(* `timestamp', and the others count as the naive 1970-01-01.              *)
(***************************************************************************)
EXTENDS VaultService

CONSTANT NoAnswer       \* the handler raised: HTTP 500

Zone == {"aware", "naive"}

\* The payloads /events persists; POST /openlineage makes others.
Stamped == UNION {ToSet(req.events) : req \in {r \in Requests : r.endpoint = "/events"}}

TimestampZone(payload) == IF payload \in Stamped THEN "aware" ELSE "naive"

EdgeRows == {r \in view : r.row.table = "dataset_edges"}

edges_at(zone) ==
    IF EdgeRows = {} \/ zone = "aware" THEN EdgeRows ELSE NoAnswer

\* The ledger entries, if each can be compared.
events_at(zone) ==
    IF \A i \in DOMAIN db.ledger : TimestampZone(db.ledger[i].payload) = zone
    THEN ToSet(db.ledger)
    ELSE NoAnswer

\* `output_dataset', which only the payloads of /events have.
OutputIn(payload, dataset) ==
    payload \in Stamped => Content[payload].outputs[1].name = dataset

snapshot(dataset, zone) ==
    IF NoAnswer \in {edges_at(zone), events_at(zone)} THEN NoAnswer
    ELSE [edges  |-> {r \in edges_at(zone) : dataset \in {r.row.src, r.row.dst}},
          events |-> {e \in events_at(zone) : OutputIn(e.payload, dataset)}]

-----------------------------------------------------------------------------
\* test_api.py, "snapshot at incident time": whatever was ingested, a snapshot of
\* a dataset is answered for one way of writing the time.
SnapshotAnswers ==
    \A dataset \in Dataset : \E zone \in Zone : snapshot(dataset, zone) # NoAnswer
=============================================================================
