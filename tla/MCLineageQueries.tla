--------------------------- MODULE MCLineageQueries ---------------------------
(***************************************************************************)
(* A small instance of LineageQueries: lineage from A to B, and from B to  *)
(* C and back to A.                                                        *)
(***************************************************************************)
EXTENDS LineageQueries

CONSTANTS A, B, C, f, g, r1, r2

Ref(name, schema, map) == [name |-> name, schema |-> schema, lineage |-> map]

NoFacet == [x \in {} |-> NoField]

Complete(run, in, outs) ==
    [run_id |-> run, eventType |-> "COMPLETE", inputs |-> <<in>>, outputs |-> outs]

\* f of A becomes f and g of B; f of B becomes f of C, and g of B becomes f of A.
\* The facet of C names no input of g.
MCEvents ==
    { Complete(r1, Ref(A, {f}, NoFacet), <<Ref(B, {f}, g :> f)>>),
      Complete(r2, Ref(B, {f}, NoFacet),
               <<Ref(C, {f}, g :> NoField), Ref(A, {}, f :> g)>>) }

MCAsked == {<<A, f>>}
=============================================================================
