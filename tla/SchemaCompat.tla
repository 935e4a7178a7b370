----------------------------- MODULE SchemaCompat -----------------------------
(***************************************************************************)
(* The rules of schema/engine.py and compliance/agent.py, and what their   *)
(* verdicts mean.  A schema is a function from field names to types.       *)
(***************************************************************************)
CONSTANTS Name,         \* field names
          Type,
          Forbidden     \* names the agent refuses: ssn, raw_pan, password

Schema == UNION {[fields -> Type] : fields \in SUBSET Name}

removed(old, new) == DOMAIN old \ DOMAIN new

added(old, new) == DOMAIN new \ DOMAIN old

type_changes(old, new) == {f \in DOMAIN old \cap DOMAIN new : old[f] # new[f]}

classify_compat(old, new) ==
    IF removed(old, new) # {} \/ type_changes(old, new) # {} THEN "breaking"
    ELSE IF added(old, new) # {} THEN "backward_compatible" ELSE "forward_compatible"

\* ComplianceAgent.check.  A forbidden field comes first, and leaves the event's
\* own `compat'; an input schema without fields is compatible with anything.
check(input, output, compat) ==
    IF Forbidden \cap DOMAIN output # {}
    THEN [status |-> "quarantined", compat |-> compat]
    ELSE LET level == IF DOMAIN input = {} THEN "forward_compatible"
                      ELSE classify_compat(input, output)
         IN  [status |-> IF level = "breaking" THEN "violation" ELSE "ok", compat |-> level]

-----------------------------------------------------------------------------
\* What a reader of the old schema relies on: every field, with its type.
Readable(old, new) ==
    /\ DOMAIN old \subseteq DOMAIN new
    /\ \A f \in DOMAIN old : new[f] = old[f]
=============================================================================
