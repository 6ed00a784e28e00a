-------------------------- MODULE MCSharedDestination -------------------------
(* A feed that Airflow appends to "orders", a correction of it by upsert, run by  *)
(* hand, and an audit that Airflow appends to a table in the same database file.  *)
(* A report is replaced by hand, in a file of its own.                            *)
EXTENDS SharedDestination

CONSTANTS NullKey, Nested

Files == INSTANCE StoredTable WITH NoTable <- Absent, RowCeiling <- 3

MCPipelines == {"feed", "correct", "audit", "report"}
MCAsset == [p \in MCPipelines |->
  CASE p = "audit" -> "audits" [] p = "report" -> "reports" [] OTHER -> "orders"]
MCDatabases == {{"orders", "audits"}}

Row(k, v) == [key |-> k, val |-> v]
a0 == Row("a", 0)
a1 == Row("a", 1)
b0 == Row("b", 0)
n0 == Row(NullKey, 0)
c0 == Row("c", Nested)
MCValues == UNION {[1 .. n -> {a0, a1, b0, n0, c0}] : n \in 0 .. 3}
MCUnfit == {made \in MCValues : \E i \in DOMAIN made : made[i] = c0}
MCBatches == [p \in MCPipelines |->
  CASE p = "feed" -> {<<a0>>, <<b0, n0>>}
    [] p = "correct" -> {<<a1>>}
    [] p = "audit" -> {<<b0>>, <<c0>>}
    [] p = "report" -> {<<a0>>}]
MCStarts == [p \in MCPipelines |-> IF p = "feed" THEN 2 ELSE 1]
MCBefore == [a \in {"orders", "audits", "reports"} |-> Absent]
MCStore(p, old, handed) ==
  Files!Written(CASE p = "report" -> "replace" [] p = "correct" -> "upsert" [] OTHER -> "append",
                old, handed)
===============================================================================
