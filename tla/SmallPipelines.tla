--------------------------- MODULE SmallPipelines ----------------------------
(* Small pipelines, with what their capabilities compute, for the runs of      *)
(* AirflowWorker and LocalRunner: a chain with a quality gate, and a diamond   *)
(* of two sources with an edge that carries no data.                           *)
EXTENDS Integers, Sequences

CONSTANTS NoValue, NullKey,
          Mode,   \* destination mode of the task "write"
          First   \* what its destination holds before the run

Files == INSTANCE StoredTable WITH NoTable <- NoValue, RowCeiling <- 3

Row(k, v) == [key |-> k, val |-> v]
a0 == Row("a", 0)
a1 == Row("a", 1)
n0 == Row(NullKey, 0)
MCValues == UNION {[1 .. n -> {a0, a1, n0}] : n \in 0 .. 3}

\* A gate that quarantines the rows without a key, raises an event for them, and
\* needs a row to check.
HasKey(row) == row.key # NullKey
MCRejects(t, ins) ==
  IF t # "check" \/ ins["read"] = NoValue THEN NoValue
  ELSE SelectSeq(ins["read"], LAMBDA row : ~HasKey(row))

\* Time in half days, and the value of a row as its time: source.window is the day
\* before, and a row is fresh for two half days, by a second rule of the gate.
MCWindow(t, rows, now) ==
  SelectSeq(rows, LAMBDA row : row.val \div 2 = (now \div 2) - 1)
Fresh(row, now) == now - row.val \in 0 .. 2
MCRejectsAt(t, ins, now) ==
  IF t # "check" \/ ins["read"] = NoValue THEN NoValue
  ELSE SelectSeq(ins["read"], LAMBDA row : ~(HasKey(row) /\ Fresh(row, now)))
MCAlarms(t, ins) ==
  t = "check" /\ ins["read"] # NoValue /\ Files!HasNullKey(ins["read"])

\* The capabilities: the gate, a union under a row limit, and the pass-through
\* of an output and of a checkpoint.
MCApply(t, ins) ==
  IF \E u \in DOMAIN ins : ins[u] = NoValue THEN NoValue
  ELSE CASE t = "check" ->
              IF ins["read"] = <<>> THEN NoValue ELSE SelectSeq(ins["read"], HasKey)
         [] t = "union" ->
              IF Len(ins["r1"]) + Len(ins["r2"]) > 3 THEN NoValue
                ELSE ins["r1"] \o ins["r2"]
         [] t \in {"write", "audit"} -> ins[CHOOSE u \in DOMAIN ins : TRUE]
         [] OTHER -> <<>>

MCApplyAt(t, ins, now) ==
  IF t = "check" /\ ins["read"] \notin {NoValue, <<>>}
    THEN SelectSeq(ins["read"], LAMBDA row : HasKey(row) /\ Fresh(row, now))
    ELSE MCApply(t, ins)

\* The output's own limit is lower than that of the tasks before it.
MCFits(t, table) == t = "write" => Len(table) <= 2

MCStore(t, before, table) == Files!Written(Mode, before, table)

MCBase == [t \in {"write"} |-> First]

\* read -> check -> write
ChainTasks == {"read", "check", "write"}
ChainInputs == [t \in ChainTasks |->
  CASE t = "read" -> {} [] t = "check" -> {"read"} [] t = "write" -> {"check"}]
ChainOrder == <<"read", "check", "write">>

\* r1, r2 -> union -> write, and an audit of r1's rows that waits for the write
DiamondTasks == {"r1", "r2", "union", "write", "audit"}
DiamondInputs == [t \in DiamondTasks |->
  CASE t \in {"r1", "r2"} -> {} [] t = "union" -> {"r1", "r2"}
    [] t = "write" -> {"union"} [] t = "audit" -> {"r1"}]
DiamondDeps == [DiamondInputs EXCEPT !["audit"] = {"r1", "write"}]
DiamondOrder == <<"r1", "r2", "union", "write", "audit">>

OldRows == <<a0>>
LateRows == <<a1>>
DayTables == {<<a0, n0>>, <<a1, a0, a0>>}
GateTables == {<<a1, n0>>, <<a1, a1>>}
LongTables == {<<a0>>, <<a1, a1>>}
===============================================================================
