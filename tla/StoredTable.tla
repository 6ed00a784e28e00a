----------------------------- MODULE StoredTable ------------------------------
(***************************************************************************)
(* The contents storage.write puts in place, as a function of the mode, of *)
(* what the file or SQL table held, and of the rows handed to it.  A row   *)
(* has a key (the columns an upsert matches on) and a value.               *)
(***************************************************************************)
EXTENDS Integers, Sequences, SequencesExt

CONSTANTS
  NoTable,    \* the path does not exist, or the write raises
  NullKey,    \* a key column that is None
  RowCeiling  \* the 1000000 rows of rows_checked in write

Modes == {"replace", "append", "upsert", "rebuild"}

\* A Python dict keyed by the rows' keys: a key keeps the place of its first row
\* and the value of its last.
Merged(rows) ==
  LET put(merged, row) ==
        IF \E i \in DOMAIN merged : merged[i].key = row.key
          THEN [i \in DOMAIN merged |->
                  IF merged[i].key = row.key THEN row ELSE merged[i]]
          ELSE Append(merged, row)
  IN FoldLeft(put, <<>>, rows)

HasNullKey(rows) == \E i \in DOMAIN rows : rows[i].key = NullKey

\* Only an existing file is merged with: the first append or upsert writes the
\* rows as they come, duplicate and null keys included.  What was written is read back
\* as it was: that CSV drops types and empty strings is left out.
Combined(mode, old, rows) ==
  CASE mode \in {"replace", "rebuild"} \/ old = NoTable -> rows
    [] mode = "append" /\ old # NoTable -> old \o rows
    [] mode = "upsert" /\ old # NoTable ->
         IF HasNullKey(old \o rows) THEN NoTable ELSE Merged(old \o rows)

Written(mode, old, rows) ==
  LET new == Combined(mode, old, rows) IN
  IF new = NoTable \/ Len(new) > RowCeiling THEN NoTable ELSE new
===============================================================================
