------------------------------ MODULE Validation -------------------------------
(***************************************************************************)
(* What validate and the policy ask of a specification before it may run,  *)
(* and what execute_task and storage refuse when it does: two lists of     *)
(* conditions on the same assets, kept in different files.  (What validate *)
(* asks of fields is in SchemaFlow, of the graph in Planner.)              *)
(*                                                                         *)
(* A catalog maps identifiers to assets: [type, ops, aliases, external,    *)
(* table], the last whether a table and a schema are registered.  A        *)
(* specification is a record: sources; dests, a function to modes; keyed,  *)
(* whether upserts have keys; reads and writes, the ingestion and output   *)
(* tasks as pairs <<kind of capability, asset>>; notices, the assets of    *)
(* ops.notification; rules [kind, sound, asset]; notes [asset, on];        *)
(* policies, a set of words; stops, whether a task is to notify_and_stop.  *)
(***************************************************************************)
EXTENDS FiniteSets

CONSTANT None  \* no asset

Fields == {"sources", "dests", "keyed", "reads", "writes", "steps", "rules", "notes",
           "notices", "stops", "policies", "when"}

FileTypes == {"csv", "json", "jsonl", "parquet"}
StoredTypes == FileTypes \cup {"sqlite"}
\* The implemented ingest.<kind>@1 and output.<kind>@1 of the registry.
Ingestions == FileTypes \cup {"filesystem", "sql", "http"}
Outputs == FileTypes \cup {"filesystem", "sql"}
Rules == {"not_null", "unique", "range", "schema", "row_count", "freshness"}

\* catalog.get(id), with the operation among those allowed.
Allows(cat, a, op) == a \in DOMAIN cat /\ op \in cat[a].ops

\* The capability is the one for assets of that type.
Suits(cat, kind, a) ==
  \/ kind = IF cat[a].type = "sqlite" THEN "sql" ELSE cat[a].type
  \/ kind = "filesystem" /\ cat[a].type \in FileTypes

SourcesPass(spec, cat) ==
  /\ spec.sources # {} /\ \A a \in spec.sources : Allows(cat, a, "read")
  /\ spec.sources = {r[2] : r \in spec.reads}
  /\ \A r \in spec.reads :
       r[1] \in Ingestions /\ r[2] \in DOMAIN cat /\ Suits(cat, r[1], r[2])

DestinationsPass(spec, cat) ==
  /\ \A a \in DOMAIN spec.dests :
       /\ Allows(cat, a, "write")
       /\ spec.dests[a] = "rebuild" => Allows(cat, a, "delete")
       /\ spec.dests[a] = "upsert" => spec.keyed
  /\ DOMAIN spec.dests = {w[2] : w \in spec.writes}
  /\ Cardinality(spec.writes) = Cardinality(DOMAIN spec.dests)
  /\ \A w \in spec.writes :
       w[1] \in Outputs /\ w[2] \in DOMAIN cat /\ Suits(cat, w[1], w[2])

\* Faults: the permission to quarantine is not looked at; nor whether it is external.
RulesPassUnpermitted(spec, cat) ==
  \A r \in spec.rules :
    /\ r.sound /\ r.kind \in Rules
    /\ r.asset # None => r.asset \in DOMAIN cat /\ ~cat[r.asset].external
RulesPassExternal(spec, cat) ==
  \A r \in spec.rules :
    /\ r.sound /\ r.kind \in Rules
    /\ r.asset # None => Allows(cat, r.asset, "write")

\* sound: the parameters meet the contract and the thresholds of the kind.
RulesPass(spec, cat) ==
  \A r \in spec.rules :
    /\ r.sound /\ r.kind \in Rules
    /\ r.asset # None => Allows(cat, r.asset, "write") /\ ~cat[r.asset].external

NotesPass(spec, cat) ==
  /\ \A n \in spec.notes :
       Allows(cat, n.asset, "notify") /\ cat[n.asset].type = "notification"
  /\ spec.stops => \E n \in spec.notes : n.on = "failure"

External(spec, cat) ==
  \E a \in DOMAIN spec.dests : a \in DOMAIN cat /\ cat[a].external

\* evaluate: a decision FAIL.
Denied(spec, cat) ==
  \/ {"production", "require_owner"} \cap spec.policies # {} /\ "owner" \notin spec.policies
  \/ "idempotent" \in spec.policies /\ \E a \in DOMAIN spec.dests : spec.dests[a] = "append"
  \/ "deny_external_write" \in spec.policies /\ External(spec, cat)

\* evaluate: a decision REQUIRES_APPROVAL.
RequiresApproval(spec, cat) ==
  \/ {"production", "evolution", "require_approval"} \cap spec.policies # {}
  \/ \E a \in DOMAIN spec.dests : spec.dests[a] = "rebuild"
  \/ External(spec, cat)

Valid(spec, cat) ==
  /\ SourcesPass(spec, cat) /\ DestinationsPass(spec, cat)
  /\ RulesPass(spec, cat) /\ NotesPass(spec, cat)
  /\ ~Denied(spec, cat)

-------------------------------------------------------------------------------
\* storage.read of one asset
ReadRefused(cat, a) ==
  \/ ~Allows(cat, a, "read") \/ cat[a].type \notin StoredTypes
  \/ cat[a].type = "sqlite" /\ ~cat[a].table

\* storage.write of one asset; an upsert without keys is refused if there is a file
WriteRefused(cat, a, mode, keyed) ==
  \/ ~Allows(cat, a, "write") \/ cat[a].type \notin StoredTypes
  \/ mode = "rebuild" /\ ~Allows(cat, a, "delete")
  \/ mode = "upsert" /\ ~keyed
  \/ cat[a].type = "sqlite" /\ ~cat[a].table

\* The look-ups that a run makes, each with the asset that refuses it: those of
\* execute_task's ingestion, quality.check, output and ops.notification, of _notify.
Refusals(spec, cat) ==
  {<<"read", a>> : a \in {r[2] : r \in {r \in spec.reads : ReadRefused(cat, r[2])}}}
  \cup {<<"write", a>> : a \in {w[2] : w \in {w \in spec.writes :
          w[2] \notin DOMAIN spec.dests
          \/ WriteRefused(cat, w[2], spec.dests[w[2]], spec.keyed)}}}
  \cup {<<"quarantine", r.asset>> : r \in {r \in spec.rules :
          r.asset # None /\ WriteRefused(cat, r.asset, "replace", FALSE)}}
  \cup {<<"rule", r.kind>> : r \in {r \in spec.rules : r.kind \notin Rules}}
  \cup {<<"notice", a>> : a \in {a \in spec.notices :
          ~Allows(cat, a, "notify") \/ cat[a].type # "notification"}}
  \cup {<<"event", n.asset>> : n \in {n \in spec.notes : n.asset \notin DOMAIN cat}}

\* Everything a run writes, with the mode.
Effects(spec) ==
  {<<w[2], spec.dests[w[2]]>> : w \in {w \in spec.writes : w[2] \in DOMAIN spec.dests}}
  \cup {<<r.asset, "replace">> : r \in {r \in spec.rules : r.asset # None}}
===============================================================================
