---------------------------- MODULE MCQualityGate -----------------------------
(* Two gates.  One quarantines keys seen before, then rows without a key, then  *)
(* allows half of the rows to be stale; one counts rows and checks their range  *)
(* and schema.                                                                  *)
EXTENDS QualityGate

CONSTANTS BadKeys, BadDuplicates, BadValues  \* the assets of the three rules

MCAssets == {BadKeys, BadDuplicates, BadValues}

Row(key, val, born) == [key |-> key, val |-> val, born |-> born, fits |-> val # Null]

Quarantined(kind, low, high, asset) ==
  [kind |-> kind, action |-> "quarantine", asset |-> asset, rate |-> 0, low |-> low, high |-> high]
Failing(kind, low, high, rate) ==
  [kind |-> kind, action |-> "fail", rate |-> rate, low |-> low, high |-> high]

MCRulesOf == [g \in {"q_orders", "q_stock"} |->
  IF g = "q_orders"
    THEN << Quarantined("unique", 0, 0, BadDuplicates), Quarantined("not_null", 0, 0, BadKeys),
            Failing("freshness", 0, 2, 50) >>
    ELSE << Failing("row_count", 1, 2, 0), Quarantined("range", 0, 5, BadValues),
            Failing("schema", 0, 0, 50) >>]

\* Rows born at 1 are stale at 4, those born at 5 of the future, those at 2 just fresh.
OrderRows == {Row("a", 0, 2), Row("a", 1, 1), Row(Null, 0, 5)}
StockRows == {Row("a", 5, 2), Row("a", 6, 2), Row("a", Null, 2)}

Upto(rows, n) == UNION {[1 .. k -> rows] : k \in 0 .. n}
MCTables == [g \in {"q_orders", "q_stock"} |->
  IF g = "q_orders" THEN Upto(OrderRows, 3) ELSE Upto(StockRows, 2)]
===============================================================================
