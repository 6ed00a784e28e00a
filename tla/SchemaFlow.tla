------------------------------ MODULE SchemaFlow ------------------------------
(***************************************************************************)
(* The schema that validate works out for every task, beside the rows that *)
(* execute_task computes.  Both go through the tasks in the normalized     *)
(* order and neither looks ahead, so one step here is the turn of one task *)
(* in both loops: its guard is what validate asks of the task.  A row is   *)
(* the set of its fields.  Types are left out; they only refuse more.      *)
(***************************************************************************)
EXTENDS Naturals, Sequences, FiniteSets, SequencesExt

CONSTANTS
  Names,     \* field names
  Right,     \* Right[k]: the name "right_" \o k; a bound: not of every name
  Params,    \* the fields that parameters name
  Maps,      \* the mappings of transform.map: functions from names to names
  Sources,
  Schema,    \* [Sources -> SUBSET Names]: schema_fields; {} if none is registered
  Found,     \* [Sources -> SUBSET SUBSET Names]: the kinds of row a source may have
  Targets,   \* what schema_fields of a destination may be
  MaxTasks   \* bound

\* Sources are as they are registered.  (Whether they are is for quality rules.)
ASSUME FoundAssumption == \A s \in Sources : Schema[s] # {} => Found[s] = {Schema[s]}

\* The names that can be renamed are finitely many.
ASSUME RightAssumption == IsFiniteSet(DOMAIN Right)

VARIABLES
  read,      \* spec.sources
  tasks,     \* Seq([cap, fields, rows, trust]): schemas["task:..."], and outputs as a set
  raised,    \* the input whose rows lacked a field that a capability wanted, or 0
  wanted,    \* the keys, if that was an upsert,
  stored     \* and the rows that its destination held

vars == <<read, tasks, raised, wanted, stored>>

Init == read = {} /\ tasks = <<>> /\ raised = 0 /\ wanted = {} /\ stored = {}

Room == raised = 0 /\ Len(tasks) < MaxTasks
Done == DOMAIN tasks
Fields(u) == tasks[u].fields
Rows(u) == tasks[u].rows
Trust(u) == tasks[u].trust

\* The turn of a task that gets through.  trust is how much of the inferred schema
\* its rows can be relied on to have: "exact" all, "within" nothing else, or "none".
Take(cap, fields, rows, trust) ==
  /\ tasks' = Append(tasks, [cap |-> cap, fields |-> fields, rows |-> rows, trust |-> trust])
  /\ UNCHANGED <<raised, wanted, stored>>

Raise(u) == raised' = u /\ UNCHANGED <<tasks, wanted, stored>>

\* Fault: parameters are not looked up.
NamedUnchecked(u, names) == names \subseteq Names

\* validate: every field a parameter names is in the input's schema, if that is known.
Named(u, names) == Fields(u) # {} => names \subseteq Fields(u)

\* row[k] for all rows
Have(u, names) == \A row \in Rows(u) : names \subseteq row

Ingest(s) ==
  /\ Room /\ read' = read \cup {s}
  /\ \E rows \in SUBSET Found[s] : Take("ingest", Schema[s], rows, "exact")

\* transform.filter, by r.get, and quality.check: some rows pass.
Select(u, f) ==
  /\ Named(u, {f})
  /\ \E rows \in SUBSET Rows(u) : Take("select", Fields(u), rows, Trust(u))

Deduplicate(u, keys) ==
  /\ Named(u, keys)
  /\ IF ~Have(u, keys) THEN Raise(u)
     ELSE \E rows \in SUBSET Rows(u) :
            (Rows(u) # {} => rows # {}) /\ Take("select", Fields(u), rows, Trust(u))

\* transform.normalize gives every row all the fields, if only with None.
Normalize(u, names) ==
  /\ Named(u, names)
  /\ Take("normalize", Fields(u), {row \cup names : row \in Rows(u)}, Trust(u))

\* transform.map and transform.schema_mapping
Map(u, m) ==
  /\ DOMAIN m \subseteq Fields(u) /\ IsInjective(m)
  /\ IF ~Have(u, DOMAIN m) THEN Raise(u)
     ELSE Take("map", Range(m), {Range(m) : row \in Rows(u)}, "exact")

Aggregate(u, groups, f, output) ==
  /\ Named(u, groups \cup {f})
  /\ IF ~Have(u, groups \cup {f}) THEN Raise(u)
     ELSE Take("aggregate", groups \cup {output},
               {groups \cup {output} : row \in Rows(u)}, "exact")

-------------------------------------------------------------------------------
\* Fault: a shared key is renamed as well.
JoinedAll(left, right, lk, rk) ==
  left \cup {IF k \notin left THEN k ELSE Right[k] : k \in right}

\* validate: current.update(...)
Joined(left, right, lk, rk) ==
  left \cup {IF k \notin left \/ (k = rk /\ rk = lk) THEN k ELSE Right[k] : k \in right}

\* execute_task: the right row's columns come in its order, and the row grows meanwhile.
WithColumn(row, k, lk, rk) ==
  row \cup {IF k \notin row \/ (k = rk /\ rk = lk) THEN k ELSE Right[k]}

Merged(left, order, lk, rk) ==
  LET row[n \in 0 .. Len(order)] ==
        IF n = 0 THEN left ELSE WithColumn(row[n - 1], order[n], lk, rk)
  IN row[Len(order)]

\* Some renamed column has the name of another.
Clash(left, right, lk, rk) ==
  \E k \in right : k \in left /\ ~(k = rk /\ rk = lk) /\ Right[k] \in left \cup right

JoinTrust(u, v, lk, rk, how) ==
  IF "none" \in {Trust(u), Trust(v)} \/ Clash(Fields(u), Fields(v), lk, rk) THEN "none"
  ELSE IF how = "left" \/ {Trust(u), Trust(v)} # {"exact"} THEN "within" ELSE "exact"

Renamable(names) == names \subseteq DOMAIN Right

\* The orders in which a row may have its columns.
Orders == [names \in SUBSET DOMAIN Right |-> SetToSeqs(names)]

\* transform.join and enrich.lookup: any of the rows that matches can make; in a left
\* join a row may stay alone, and something remains.
Join(cap, u, v, lk, rk, how) ==
  /\ lk \in Fields(u) /\ rk \in Fields(v)
  /\ \A row \in Rows(u) \cup Rows(v) \cup {Fields(u), Fields(v)} : Renamable(row)
  /\ LET pairs == {Merged(l, q, lk, rk) : l \in Rows(u), q \in UNION {Orders[r] : r \in Rows(v)}}
         alone == IF how = "left" THEN Rows(u) ELSE {}
     IN \E rows \in SUBSET (pairs \cup alone) :
          /\ how = "left" /\ Rows(u) # {} => rows # {}
          /\ Take(cap, Joined(Fields(u), Fields(v), lk, rk), rows, JoinTrust(u, v, lk, rk, how))

\* transform.union, and ops.checkpoint of as many inputs as it expects: the schema is
\* the first input's, the rows are everybody's.
Union(u, v) ==
  /\ Take("union", Fields(u), Rows(u) \cup Rows(v),
          IF Fields(v) = Fields(u) /\ {Trust(u), Trust(v)} = {"exact"} THEN "exact"
          ELSE IF Fields(v) \in (SUBSET Fields(u)) \ {{}} /\ "none" \notin {Trust(u), Trust(v)}
                 THEN "within" ELSE "none")

\* validate: the schemas of an output and its destination agree, if both are known.
Accepts(fields, target) == target # {} /\ fields # {} => target = fields

\* The rows that a destination may hold: as it is registered, or any.
Held(target) == IF target # {} THEN {{}, {target}} ELSE {{}} \cup {{row} : row \in SUBSET Params}

\* The merge of an upsert looks the keys up in the rows of the file, if there is one,
\* and in the new ones.  validate asks that there are keys, and not what they are.
Unkeyed(u, keys, old) == ~Have(u, keys) \/ \E row \in old : ~(keys \subseteq row)

\* The write of a CSV file: a field without a column raises, a missing one is empty.
\* keys are those of an upsert into a file that exists, or {}.
Output(u, target, keys, old) ==
  /\ Accepts(Fields(u), target)
  /\ IF Unkeyed(u, keys, old)
       THEN raised' = u /\ wanted' = keys /\ stored' = old /\ UNCHANGED tasks
     ELSE IF target # {} /\ ~(UNION Rows(u) \subseteq target) THEN Raise(u)
     ELSE Take("output", Fields(u), Rows(u), Trust(u))

Work ==
  /\ Room /\ UNCHANGED read
  /\ \E u \in Done :
       \/ \E f \in Params : Select(u, f)
       \/ \E names \in SUBSET Params \ {{}} : Deduplicate(u, names) \/ Normalize(u, names)
       \/ \E m \in Maps : Map(u, m)
       \/ \E groups \in SUBSET Params \ {{}}, f, output \in Params : Aggregate(u, groups, f, output)
       \/ \E target \in Targets, keys \in SUBSET Params :
            \E old \in Held(target) : Output(u, target, keys, old)
       \/ \E v \in Done : Union(u, v)
       \/ \E v \in Done, lk, rk \in Params, how \in {"inner", "left"},
             cap \in {"join", "lookup"} : Join(cap, u, v, lk, rk, how)

Next == Work \/ \E s \in Sources : Ingest(s)

Spec == Init /\ [][Next]_vars

-------------------------------------------------------------------------------
\* Fault: a mapping does not count as a change of shape.
MayOmitAfterMap ==
  Cardinality(read) = 1 /\ \A t \in Done : tasks[t].cap \notin {"join", "aggregate"}

\* validate: a schema rule may leave its schema out,
MayOmitSchema ==
  Cardinality(read) = 1 /\ \A t \in Done : tasks[t].cap \notin {"join", "aggregate", "map"}

\* and quality.check then takes the source's.
OmittedSchema == Schema[CHOOSE s \in read : TRUE]

-------------------------------------------------------------------------------
\* The schema that validate infers is the one the rows have: exactly, but that a left
\* join leaves rows without a match short of the right fields; and but for unions of
\* different schemas and for renamed columns that meet another of the name.
FieldsAsInferred ==
  \A t \in Done : Fields(t) # {} =>
    /\ Trust(t) = "exact" => Rows(t) \subseteq {Fields(t)}
    /\ Trust(t) = "within" => \A row \in Rows(t) : row \subseteq Fields(t)

\* In a valid pipeline no task looks for a field its rows do not have, and no file is
\* given a field it has no column for, unless its input's schema was unknown, or was
\* not to be relied on for one of the three reasons above; or the task was an upsert
\* with a key that is no field of its input, or of a row its destination held: that
\* there are keys is all that validate asks.
NeverRaises ==
  raised # 0 =>
    \/ Fields(raised) = {} \/ Trust(raised) # "exact"
    \/ \E row \in {Fields(raised)} \cup stored : ~(wanted \subseteq row)

\* Where a schema rule may leave its schema out, the source's schema is that of all
\* rows, and no good row is rejected; but in two cases that validate does not see: no
\* schema is registered for the source, and every row with a field is rejected, or
\* enrich.lookup, which validate does not count among the capabilities that change
\* the shape, changed it.
SchemaRuleFits ==
  MayOmitSchema =>
    \/ \A t \in Done : Rows(t) \subseteq {OmittedSchema}
    \/ OmittedSchema = {}
    \/ \E t \in Done : tasks[t].cap = "lookup"
===============================================================================
