---------------------------- MODULE MCVaultService ----------------------------
(***************************************************************************)
(* Small instances of VaultService.  Event e1 leads from A to B and e2     *)
(* back, so that the graph has a cycle; e3 has started and not completed;  *)
(* e4 is what POST /events persists.                                       *)
(***************************************************************************)
EXTENDS TimeTravel

CONSTANTS A, B, f, g, r1, r2, e1, e2, e3, e4, k

Ref(name, schema, map) == [name |-> name, schema |-> schema, lineage |-> map]

NoFacet == [x \in {} |-> NoField]

MCContent ==
    e1 :> [run_id |-> r1, eventType |-> "COMPLETE",
           inputs |-> <<Ref(A, {f}, NoFacet)>>,
           outputs |-> <<Ref(B, {f}, g :> f)>>] @@
    e2 :> [run_id |-> r2, eventType |-> "COMPLETE",
           inputs |-> <<Ref(B, {g}, NoFacet)>>,
           outputs |-> <<Ref(A, {f}, f :> g @@ g :> NoField)>>] @@
    e3 :> [run_id |-> r2, eventType |-> "START",
           inputs |-> <<Ref(A, {f}, NoFacet)>>,
           outputs |-> <<Ref(B, {f}, NoFacet)>>] @@
    e4 :> [run_id |-> r1, eventType |-> "",
           inputs |-> <<Ref(A, {f}, NoFacet)>>,
           outputs |-> <<Ref(B, {f}, NoFacet)>>]

ThreadSymmetry == Permutations(Threads)

MCEventId == 1..MaxIds

MCKey == {k} \cup {<<i>> : i \in MCEventId} \cup ({r1, r2} \X {"COMPLETE", "START", ""})

Post(endpoint, events, key) == [endpoint |-> endpoint, events |-> events, key |-> key]

Batch(events, key) == Post("/openlineage", events, key)

\* One event, a batch that holds it too, a batch under a header key, and /events.
MixedRequests ==
    {Batch(<<e1>>, NoKey), Batch(<<e3, e2>>, NoKey), Batch(<<e2, e1>>, k),
     Post("/events", <<e4>>, NoKey)}

SingleRequests == {Batch(<<e1>>, NoKey), Batch(<<e2>>, NoKey)}

KeyedBatches == {Batch(<<e1, e2>>, k), Batch(<<e3>>, NoKey)}

OneOfEach == {Batch(<<e1>>, NoKey), Batch(<<e3>>, NoKey), Post("/events", <<e4>>, NoKey)}

\* The verdicts of SchemaCompat on all schemas of two fields and two types.
Schemas == INSTANCE SchemaCompat WITH Name <- Field, Type <- {A, B}, Forbidden <- {g}

ASSUME VerdictsAreExact ==
    \A old, new \in Schemas!Schema :
        LET level == Schemas!classify_compat(old, new)
        IN  /\ level # "breaking" <=> Schemas!Readable(old, new)
            /\ level = "forward_compatible" <=> old = new

ASSUME OkIsSafe ==
    \A input, output \in Schemas!Schema, compat \in {"backward_compatible", "breaking"} :
        Schemas!check(input, output, compat).status = "ok" =>
            /\ g \notin DOMAIN output
            /\ DOMAIN input # {} => Schemas!Readable(input, output)
=============================================================================
