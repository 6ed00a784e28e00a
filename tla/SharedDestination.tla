--------------------------- MODULE SharedDestination ---------------------------
(***************************************************************************)
(* storage.write where others write as well.  A pipeline is run again and  *)
(* again, by Airflow, which has one run of it active (max_active_runs=1)   *)
(* and one attempt of its output at a time, or by hand, where nothing      *)
(* counts the runs; and pipelines can have destinations in common.  Every  *)
(* attempt is a process that reads what is there, merges its rows into it  *)
(* in memory, and puts the result in place; no lock spans the three.       *)
(* SQLite locks the database for the last, and makes its file before that. *)
(***************************************************************************)
EXTENDS Integers, Sequences

CONSTANTS
  Pipelines,
  Scheduled,      \* the pipelines whose runs Airflow starts
  Asset,          \* [Pipelines -> assets]: the destination
  Merging,        \* the pipelines whose mode is append or upsert
  Databases,      \* the sets of assets that are tables of one SQLite file
  Present,        \* the databases whose files are there at first
  Store(_, _, _), \* Store(p, old, rows): the table p puts in place, or Absent: it raises
  Absent,         \* no such file or table
  Values,         \* tables of rows
  Unfit,          \* the tables that no SQLite table can hold: an INSERT raises
  Batches,        \* [Pipelines -> SUBSET Values]: the rows an attempt may come with
  Before,         \* [assets -> Values \cup {Absent}]: the destinations at first
  MaxStarts       \* bound, [Pipelines -> Nat]: the attempts of each

Assets == {Asset[p] : p \in Pipelines}
Writers == UNION {{p} \X (1 .. MaxStarts[p]) : p \in Pipelines}
Table == Values \cup {Absent}

ASSUME WritersAssumption ==
  /\ MaxStarts \in [Pipelines -> Nat] /\ Scheduled \subseteq Pipelines /\ Merging \subseteq Pipelines
  /\ Absent \notin Values /\ Before \in [Assets -> Table]
  /\ Batches \in [Pipelines -> SUBSET Values]
  /\ \A p \in Pipelines, old \in Table, rows \in Values : Store(p, old, rows) \in Table
  /\ Present \subseteq Databases /\ \A d, e \in Databases : d \cap e # {} => d = e
  /\ \A d \in Databases, a \in Assets : a \in d /\ Before[a] # Absent => d \in Present

\* What is replaced does not matter to who does not merge with it.
ASSUME ReplaceAssumption ==
  \A p \in Pipelines \ Merging, old \in Table, rows \in Values :
    Store(p, old, rows) = Store(p, Absent, rows)

VARIABLES
  starts,   \* [Pipelines -> Nat]: how many attempts were started
  current,  \* [Pipelines -> Nat]: the attempt Airflow waits for, or 0
  pc,       \* [Writers -> Steps]: where each process is in write
  rows,     \* [Writers -> Table]: the rows it was handed
  seen,     \* [Writers -> Table]: what it read of the destination
  table,    \* [Assets -> Table]: the destinations
  files,    \* the databases whose files are there
  log,      \* history, [Assets -> Seq(Writers)]: who put something in place
  kept,     \* history, [Assets -> Table]: what the deliveries make, one after the other
  outlived, \* history: the pipelines a process of which Airflow gave up alive
  met,      \* history: the assets where two processes were between read and write
  cut       \* history: the databases where a process ended within a transaction

vars == <<starts, current, pc, rows, seen, table, files, log, kept, outlived, met, cut>>

Steps == {"none", "ready", "looked", "writing", "wrote", "raised", "dead"}
Live == {"ready", "looked", "writing"}

\* The database that a is a table of, if any; path.exists()
Database(a) == {d \in Databases : a \in d}
FileExists(a) == IF Database(a) = {} THEN table[a] # Absent ELSE Database(a) \subseteq files

\* The database is held: by a writer, or against its commit by a reader.
Held(w) ==
  \E v \in Writers \ {w} :
    /\ Database(Asset[v[1]]) = Database(Asset[w[1]]) /\ Database(Asset[w[1]]) # {}
    /\ pc[v] = "writing" \/ (pc[w] = "writing" /\ pc[v] = "ready" /\ v[1] \in Merging)

Init ==
  /\ starts = [p \in Pipelines |-> 0] /\ current = [p \in Pipelines |-> 0]
  /\ pc = [w \in Writers |-> "none"]
  /\ rows = [w \in Writers |-> Absent] /\ seen = [w \in Writers |-> Absent]
  /\ table = Before /\ kept = Before
  /\ files = Present
  /\ log = [a \in Assets |-> <<>>] /\ outlived = {} /\ met = {} /\ cut = {}

-------------------------------------------------------------------------------
\* Fault: Airflow starts a run whether or not there is one.
StartAnyway(p) ==
  LET w == <<p, starts[p] + 1>> IN
  /\ starts[p] < MaxStarts[p] /\ starts' = [starts EXCEPT ![p] = @ + 1]
  /\ current' = [current EXCEPT ![p] = starts[p] + 1]
  /\ pc' = [pc EXCEPT ![w] = "ready"]
  /\ \E batch \in Batches[p] : rows' = [rows EXCEPT ![w] = batch]
  /\ UNCHANGED <<seen, table, files, log, kept, outlived, met, cut>>

\* An attempt of p comes to its output: the first of a run, or a retry.
Start(p) ==
  LET w == <<p, starts[p] + 1>> IN
  /\ starts[p] < MaxStarts[p] /\ starts' = [starts EXCEPT ![p] = @ + 1]
  /\ p \in Scheduled => current[p] = 0
  /\ current' = [current EXCEPT ![p] = IF p \in Scheduled THEN starts[p] + 1 ELSE 0]
  /\ pc' = [pc EXCEPT ![w] = "ready"]
  /\ \E batch \in Batches[p] : rows' = [rows EXCEPT ![w] = batch]
  /\ UNCHANGED <<seen, table, files, log, kept, outlived, met, cut>>

\* Airflow stops waiting: the attempt has ended, or its heartbeats have, or the run
\* was timed out.  The last two do not end a process that is cut off.
Release(p) ==
  /\ current[p] # 0 /\ current' = [current EXCEPT ![p] = 0]
  /\ outlived' = IF pc[<<p, current[p]>>] \in Live THEN outlived \cup {p} ELSE outlived
  /\ UNCHANGED <<starts, pc, rows, seen, table, files, log, kept, met, cut>>

Exit(w, step) ==
  /\ pc' = [pc EXCEPT ![w] = step]
  /\ rows' = [rows EXCEPT ![w] = Absent] /\ seen' = [seen EXCEPT ![w] = Absent]

\* A process ends with nothing put in place: a transaction is rolled back, and the
\* file that was made for it stays.
End(w, step) ==
  /\ Exit(w, step)
  /\ cut' = IF pc[w] = "writing" THEN cut \cup Database(Asset[w[1]]) ELSE cut
  /\ UNCHANGED <<starts, current, table, files, log, kept, outlived, met>>

Between(a) == {w \in Writers : pc[w] \in {"looked", "writing"} /\ Asset[w[1]] = a}

\* What w has read of its destination is old.
Looked(w, old) ==
  LET a == Asset[w[1]] IN
  /\ pc' = [pc EXCEPT ![w] = "looked"] /\ seen' = [seen EXCEPT ![w] = old]
  /\ met' = IF Between(a) # {} THEN met \cup {a} ELSE met
  /\ UNCHANGED <<starts, current, rows, table, files, log, kept, outlived, cut>>

\* Faults: the old contents are not looked for; they are expected to be there.
LookAway(w) == pc[w] = "ready" /\ Looked(w, Absent)
LookHard(w) ==
  LET old == table[Asset[w[1]]] IN
  /\ pc[w] = "ready"
  /\ IF w[1] \in Merging /\ old = Absent THEN End(w, "raised")
       ELSE Looked(w, IF w[1] \in Merging THEN old ELSE Absent)

\* path.exists() and read: append and upsert take what is there.  A database file
\* without the table cannot be read.
Look(w) ==
  LET a == Asset[w[1]]  merges == w[1] \in Merging /\ FileExists(a) IN
  /\ pc[w] = "ready"
  /\ IF merges /\ table[a] = Absent THEN End(w, "raised")
       ELSE Looked(w, IF merges THEN table[a] ELSE Absent)

New(w) == Store(w[1], seen[w], rows[w])

\* sqlite3.connect makes the file, and BEGIN IMMEDIATE waits for the other writers.
Connect(w) ==
  LET a == Asset[w[1]] IN
  /\ pc[w] = "looked" /\ New(w) # Absent /\ Database(a) # {} /\ ~Held(w)
  /\ pc' = [pc EXCEPT ![w] = "writing"] /\ files' = files \cup Database(a)
  /\ UNCHANGED <<starts, current, rows, seen, table, log, kept, outlived, met, cut>>

\* Who waits for longer than SQLite's timeout, to read, to begin or to commit, raises.
Timeout(w) ==
  /\ pc[w] \in Live /\ (pc[w] = "ready" => w[1] \in Merging)
  /\ Held(w) /\ End(w, "raised")

\* The rows do not go with those that were read, or there are too many, or an INSERT
\* cannot take them.
Refuse(w) ==
  /\ \/ pc[w] = "looked" /\ New(w) = Absent
     \/ pc[w] = "writing" /\ New(w) \in Unfit
  /\ End(w, "raised")

Done(w, a, new) ==
  /\ Exit(w, "wrote")
  /\ table' = [table EXCEPT ![a] = new]
  /\ log' = [log EXCEPT ![a] = Append(@, <<w, rows[w]>>)]
  /\ kept' = [kept EXCEPT ![a] = Store(w[1], @, rows[w])]
  /\ UNCHANGED <<starts, current, files, outlived, met, cut>>

\* A file is written as soon as the rows are merged, a table within the transaction.
Writes(w) ==
  IF Database(Asset[w[1]]) = {} THEN pc[w] = "looked" /\ New(w) # Absent
  ELSE pc[w] = "writing" /\ New(w) \notin Unfit

\* Fault: the file is emptied before it is written.
PutTorn(w) ==
  Writes(w) /\ (Done(w, Asset[w[1]], New(w)) \/ Done(w, Asset[w[1]], Absent))

\* The merged rows go into place at once: a temporary file renamed over the path, or
\* the commit of the table dropped, created and filled.
Put(w) == Writes(w) /\ Done(w, Asset[w[1]], New(w))

\* The process dies, or the time limit ends it.
Crash(w) == pc[w] \in Live /\ End(w, "dead")

Next ==
  \/ \E p \in Pipelines : Start(p) \/ Release(p)
  \/ \E w \in Writers :
       Look(w) \/ Connect(w) \/ Timeout(w) \/ Refuse(w) \/ Put(w) \/ Crash(w)

Spec == Init /\ [][Next]_vars

-------------------------------------------------------------------------------
TypeOK ==
  /\ starts \in [Pipelines -> Nat] /\ current \in [Pipelines -> Nat]
  /\ \A p \in Pipelines : current[p] <= starts[p] /\ starts[p] <= MaxStarts[p]
  /\ pc \in [Writers -> Steps] /\ rows \in [Writers -> Table] /\ seen \in [Writers -> Table]
  /\ table \in [Assets -> Table] /\ kept \in [Assets -> Table]
  /\ log \in [Assets -> Seq(Writers \X Table)]
  /\ outlived \subseteq Scheduled /\ met \subseteq Assets
  /\ files \subseteq Databases /\ cut \subseteq Databases

\* The table that the deliveries numbered in S make of what was there at first.
Outcome(a, S) ==
  LET made[n \in 0 .. Len(log[a])] ==
        IF n = 0 THEN Before[a]
        ELSE IF n \in S THEN Store(log[a][n][1][1], made[n - 1], log[a][n][2])
        ELSE made[n - 1]
  IN made[Len(log[a])]

\* Whoever writes at the same time, and dies or is given up in the midst of it, a
\* destination is made of whole deliveries, each once, in the order in which they
\* were put in place; the last is among them (read, merge, atomic_write).
Whole ==
  \A a \in Assets :
    \E S \in SUBSET DOMAIN log[a] :
      /\ log[a] # <<>> => Len(log[a]) \in S
      /\ table[a] = Outcome(a, S)

\* No delivery is lost or overwritten by older rows unless two processes were in
\* write, between reading and replacing one destination, at the same time.
NoneLost == \A a \in Assets \ met : table[a] = kept[a]

\* And that needs two pipelines with one destination, a run started by hand, or a
\* process that outlived what Airflow believed of it: max_active_runs=1 serializes
\* everything else, so that what is older is in place before what is newer.
SerialUnlessOutlived ==
  /\ \A a \in met :
       \/ \E p, q \in Pipelines : p # q /\ Asset[p] = a /\ Asset[q] = a
       \/ \E p \in Pipelines : Asset[p] = a /\ p \notin Scheduled \ outlived
  /\ \A a \in Assets : \A i, j \in DOMAIN log[a] :
       LET v == log[a][i][1]  w == log[a][j][1] IN
       i < j /\ v[1] = w[1] /\ v[1] \in Scheduled \ outlived => v[2] < w[2]

\* A table that is missing from a database that is there: as it was at first, or as
\* a writer of another of its tables made it, or one that ended before its commit.
MissingTable(w) ==
  /\ w[1] \in Merging /\ table[Asset[w[1]]] = Absent
  /\ \E d \in Database(Asset[w[1]]) :
       d \in Present \cup cut \/ \E b \in d \cap Assets : log[b] # <<>>

\* A writer is refused only when its rows cannot go with those that are there now, or
\* cannot be stored; when two processes met at its destination, or the database is
\* held; or, where merging with nothing is no fault everywhere else, when its table
\* is missing from a database that is there (the branch on path.exists()): then even
\* alone, and ever again, after one first write that was cut off.
RefusedForCause ==
  [][\A w \in Writers :
       pc[w] \in Live /\ pc'[w] = "raised" /\ Asset[w[1]] \notin met =>
         \/ Store(w[1], table[Asset[w[1]]], rows[w]) \in Unfit \cup {Absent}
         \/ Held(w) \/ MissingTable(w)]_vars
===============================================================================
