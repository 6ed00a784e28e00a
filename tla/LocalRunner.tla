----------------------------- MODULE LocalRunner ------------------------------
(***************************************************************************)
(* runtime.run_pipeline: the whole pipeline in one process, one attempt    *)
(* per task in the normalized order, and its record under .nlpipe/runs.    *)
(* Its user may run the pipeline again, however the last run ended.  A call*)
(* refused by require_valid or check_approval changes nothing and is no    *)
(* step.  One policy for each event of Policies stands for all of them.    *)
(***************************************************************************)
EXTENDS Integers, Sequences, FiniteSets

CONSTANTS
  Tasks, Ingest, Outputs, Once, Inputs, Deps,  \* as in DagExecution
  Values, NoValue, Apply(_, _, _), Fits(_, _), Store(_, _, _), Base,
  Clocks,         \* the instants of the wall clock: of freshness rules and of windows
  Rejects(_, _, _),  \* Rejects(t, ins, now): the rows a gate quarantines, or NoValue
  Window(_, _, _),   \* Window(t, rows, now): what t takes of its source, or NoValue
  SourceTables,
  Order,          \* the tasks in the order of the normalized specification
  Policies,       \* the events, of "success" and "failure", that somebody wants
  MaxRuns,        \* bound: how often the pipeline is run
  Disturbances    \* which of "source", "crash", "io", "late" happen

Table == Values \cup {NoValue}
Runs == 1 .. MaxRuns

ASSUME TaskAssumption ==
  /\ Ingest \subseteq Tasks /\ Outputs \subseteq Tasks /\ Once \subseteq Outputs
  /\ Ingest \cap Outputs = {}
  /\ Inputs \in [Tasks -> SUBSET Tasks] /\ Deps \in [Tasks -> SUBSET Tasks]
  /\ \A t \in Tasks : Inputs[t] \subseteq Deps[t]

\* What normalize ends with: every task once, after the tasks it depends on.
ASSUME OrderAssumption ==
  /\ Order \in Seq(Tasks) /\ Order # <<>>
  /\ \A t \in Tasks : \E i \in DOMAIN Order : Order[i] = t
  /\ \A i, j \in DOMAIN Order : Order[i] = Order[j] => i = j
  /\ \A i, j \in DOMAIN Order : Order[j] \in Deps[Order[i]] => j < i

ASSUME DataAssumption ==
  /\ NoValue \notin Values /\ SourceTables \subseteq Values
  /\ Base \in [Outputs -> Table] /\ MaxRuns \in Nat
  /\ \A t \in Tasks, now \in Clocks : \A ins \in [Inputs[t] -> Table] :
       Apply(t, ins, now) \in Table /\ Rejects(t, ins, now) \in Table
  /\ \A t \in Ingest, now \in Clocks, s \in SourceTables : Window(t, s, now) \in Table
  /\ \A t \in Outputs, was \in Table, given \in Values : Store(t, was, given) \in Table

\* What makes a write repeatable: a second write of the same rows changes nothing.
\* Not an assumption, since a first upsert is an example of the contrary.
Repeatable ==
  \A t \in Once, now \in Clocks : \A ins \in [Inputs[t] -> Table] :
    LET given == Apply(t, ins, now)
        new == Store(t, Base[t], given)
    IN given # NoValue /\ new # NoValue => Store(t, new, given) = new

\* The instants that no window and no rule tells apart.
Alike == {c \in Clocks \X Clocks :
  /\ \A t \in Tasks : \A ins \in [Inputs[t] -> Table] : Apply(t, ins, c[1]) = Apply(t, ins, c[2])
  /\ \A t \in Ingest, s \in SourceTables : Window(t, s, c[1]) = Window(t, s, c[2])}

VARIABLES
  pc, at,      \* where run_pipeline is, and the index of its task
  runs,        \* how many runs were begun: the id of the latest
  table,       \* [Tasks -> Table]: `outputs`
  status,      \* [Tasks -> Statuses]: run.tasks
  verdict,     \* run.status
  old, rows,   \* locals of write and of execute_task
  dest,        \* [Outputs -> Table]: the destination assets
  quarantine,  \* [Tasks -> Table]: the quarantine assets
  events,      \* SUBSET (Runs \X {"success", "failure"}): files in the outboxes
  record,      \* [Runs -> Records \cup {NoRecord}]: .nlpipe/runs/<pipeline>/<run>.json
  source,      \* [Ingest -> SourceTables]: the source assets
  now,         \* the wall clock as the latest run read it, once, or the first will
  before,      \* history: the destinations when the latest run began
  moved        \* history: whether a source changed, or a run began at a time unlike

memory == <<at, table, status, verdict, old, rows>>
disk == <<dest, quarantine, events, record>>
world == <<source, now, before, moved>>
vars == <<pc, runs, memory, disk, world>>

Statuses == {"none", "success", "failed", "skipped"}
Verdicts == {"running", "success", "failed"}
NoTables == [u \in Tasks |-> NoValue]
NoRecord == [verdict |-> "none"]
Records == [verdict : {"success", "failed"}, tasks : [Tasks -> Statuses], handed : [Tasks -> Table]]
Given(f, t) == [u \in Inputs[t] |-> f[u]]
Ended == {"idle", "returned", "escaped", "dead"}
Task == Order[at]
Result(t) == IF t \in Ingest THEN Window(t, source[t], now) ELSE Apply(t, Given(table, t), now)
Rejected(t) == Rejects(t, Given(table, t), now)

Init ==
  /\ pc = "idle" /\ at = 1 /\ runs = 0 /\ verdict = "running"
  /\ table = NoTables /\ status = [t \in Tasks |-> "none"]
  /\ old = NoValue /\ rows = NoValue
  /\ dest = Base /\ before = Base /\ quarantine = NoTables
  /\ events = {} /\ record = [r \in Runs |-> NoRecord]
  /\ source \in [Ingest -> SourceTables] /\ now \in Clocks /\ moved = FALSE

-------------------------------------------------------------------------------
\* A run takes the time once; a later one takes another, whatever the clock says.
Begin ==
  /\ pc \in Ended /\ runs < MaxRuns
  /\ pc' = "task" /\ runs' = runs + 1 /\ at' = 1 /\ verdict' = "running"
  /\ table' = NoTables /\ status' = [t \in Tasks |-> "none"]
  /\ old' = NoValue /\ rows' = NoValue /\ before' = dest
  /\ now' \in IF runs = 0 THEN {now} ELSE Clocks
  /\ moved' = (moved \/ <<now, now'>> \notin Alike)
  /\ UNCHANGED <<disk, source>>

\* except Exception: the task and the run have failed.
Fail ==
  /\ pc' = "failing" /\ verdict' = "failed"
  /\ status' = [status EXCEPT ![Task] = "failed"]
  /\ old' = NoValue /\ rows' = NoValue
  /\ UNCHANGED <<at, runs, table, world>>

\* execute_task up to the write of an output; a gate replaces its quarantine.
Compute ==
  /\ pc = "task"
  /\ quarantine' = [quarantine EXCEPT ![Task] =
                     IF Rejected(Task) = NoValue THEN @ ELSE Rejected(Task)]
  /\ UNCHANGED <<dest, events, record>>
  /\ IF Result(Task) = NoValue THEN Fail
       ELSE /\ rows' = Result(Task)
            /\ old' = IF Task \in Outputs THEN dest[Task] ELSE NoValue
            /\ pc' = IF Task \in Outputs THEN "write" ELSE "check"
            /\ UNCHANGED <<at, runs, table, status, verdict, world>>

\* Fault: the old contents are gone before the new ones are in place.
WriteTorn ==
  /\ pc = "write" /\ UNCHANGED <<quarantine, events, record>>
  /\ \/ dest' = [dest EXCEPT ![Task] = NoValue] /\ Fail
     \/ /\ dest' = [dest EXCEPT ![Task] = Store(Task, old, rows)] /\ pc' = "check"
        /\ UNCHANGED <<runs, memory, world>>

\* storage.write: a temporary file, or a transaction, put in place at once.
WriteOutput ==
  /\ pc = "write" /\ UNCHANGED <<quarantine, events, record>>
  /\ LET new == Store(Task, old, rows) IN
     IF new = NoValue THEN Fail /\ UNCHANGED dest
       ELSE /\ dest' = [dest EXCEPT ![Task] = new] /\ pc' = "check"
            /\ UNCHANGED <<runs, memory, world>>

\* rows_checked, then the time limits: both after the task has had its effects.
Accept ==
  /\ pc = "check"
  /\ IF ~Fits(Task, rows) THEN Fail /\ UNCHANGED disk
     ELSE \/ "late" \in Disturbances /\ Fail /\ UNCHANGED disk
          \/ /\ status' = [status EXCEPT ![Task] = "success"]
             /\ table' = [table EXCEPT ![Task] = rows]
             /\ at' = at + 1
             /\ pc' = IF at = Len(Order) THEN "succeed" ELSE "task"
             /\ old' = NoValue /\ rows' = NoValue
             /\ UNCHANGED <<runs, verdict, disk, world>>

\* An I/O error in the task, after the quarantine was replaced or before.
Fault ==
  /\ "io" \in Disturbances /\ pc \in {"task", "write"} /\ Fail
  /\ \/ UNCHANGED quarantine
     \/ /\ pc = "task" /\ Rejected(Task) # NoValue
        /\ quarantine' = [quarantine EXCEPT ![Task] = Rejected(Task)]
  /\ UNCHANGED <<dest, events, record>>

\* The events go out before the record, outside the try: an error escapes, when
\* some of them may be out.
Tell(event) ==
  \/ /\ events' = IF event \in Policies THEN events \cup {<<runs, event>>} ELSE events
     /\ pc' = "finish"
  \/ /\ "io" \in Disturbances /\ event \in Policies
     /\ pc' = "escaped"
     /\ events' \in {events, events \cup {<<runs, event>>}}

NotifyFailure ==
  /\ pc = "failing" /\ Tell("failure")
  /\ UNCHANGED <<runs, memory, dest, quarantine, record, world>>

\* Fault: the success events go out inside the try.
NotifyInside ==
  /\ pc = "succeed" /\ Tell("success")
  /\ verdict' = IF pc' = "escaped" THEN "failed" ELSE "success"
  /\ UNCHANGED <<at, runs, table, status, old, rows, dest, quarantine, world>>
  /\ record' = IF pc' = "escaped"
                 THEN [record EXCEPT ![runs] =
                        [verdict |-> "failed", tasks |-> status, handed |-> table]]
                 ELSE record

NotifySuccess ==
  /\ pc = "succeed" /\ verdict' = "success" /\ Tell("success")
  /\ UNCHANGED <<at, runs, table, status, old, rows, dest, quarantine, record, world>>

Skipped == [t \in Tasks |-> IF status[t] = "none" THEN "skipped" ELSE status[t]]

\* Fault: what was not reached is not reported.
FinishShort ==
  /\ pc = "finish" /\ pc' = "returned"
  /\ record' = [record EXCEPT ![runs] =
                 [verdict |-> verdict, tasks |-> status, handed |-> table]]
  /\ UNCHANGED <<runs, memory, dest, quarantine, events, world>>

\* Skipped tasks, lineage, and the record, whose write can fail.
Finish ==
  /\ pc = "finish" /\ status' = Skipped
  /\ \/ /\ record' = [record EXCEPT ![runs] =
                       [verdict |-> verdict, tasks |-> Skipped, handed |-> table]]
        /\ pc' = "returned"
     \/ "io" \in Disturbances /\ pc' = "escaped" /\ UNCHANGED record
  /\ UNCHANGED <<at, runs, table, verdict, old, rows, dest, quarantine, events, world>>

\* The process dies; its memory is of no more consequence.
Crash ==
  /\ "crash" \in Disturbances /\ pc \notin Ended /\ pc' = "dead"
  /\ UNCHANGED <<runs, memory, disk, world>>

ChangeSource ==
  /\ "source" \in Disturbances
  /\ \E t \in Ingest : \E s \in SourceTables \ {source[t]} :
       source' = [source EXCEPT ![t] = s]
  /\ moved' = TRUE /\ UNCHANGED <<pc, runs, memory, disk, now, before>>

Next ==
  \/ Begin \/ Compute \/ WriteOutput \/ Accept \/ Fault
  \/ NotifyFailure \/ NotifySuccess \/ Finish \/ Crash \/ ChangeSource

Spec == Init /\ [][Next]_vars

-------------------------------------------------------------------------------
TypeOK ==
  /\ pc \in Ended \cup {"task", "write", "check", "failing", "succeed", "finish"}
  /\ at \in 1 .. Len(Order) + 1 /\ runs \in 0 .. MaxRuns /\ verdict \in Verdicts
  /\ table \in [Tasks -> Table] /\ status \in [Tasks -> Statuses]
  /\ old \in Table /\ rows \in Table
  /\ dest \in [Outputs -> Table] /\ before \in [Outputs -> Table]
  /\ quarantine \in [Tasks -> Table] /\ source \in [Ingest -> SourceTables]
  /\ now \in Clocks /\ moved \in BOOLEAN /\ events \subseteq Runs \X {"success", "failure"}
  /\ record \in [Runs -> {NoRecord} \cup Records]

\* A record tells the run's story consistently: it succeeded when every task did;
\* else one task failed, everything before it in the order succeeded and nothing
\* after it ran, whatever exception ended it (run_pipeline's except and for-else).
RecordTruth ==
  \A r \in Runs : record[r] # NoRecord =>
    LET said == record[r].tasks IN
    \/ record[r].verdict = "success" /\ \A t \in Tasks : said[t] = "success"
    \/ /\ record[r].verdict = "failed"
       /\ \E i \in DOMAIN Order :
            \A j \in DOMAIN Order :
              said[Order[j]] = IF j < i THEN "success" ELSE IF j = i THEN "failed" ELSE "skipped"

\* The record of the latest run is true of the disk: a delivery for each output
\* it calls successful, none for those it skipped, and at most one for the failed
\* one, which may have written before its limits were looked at.
RecordMatchesDisk ==
  pc = "returned" => \A t \in Outputs :
    LET said == record[runs].tasks[t]
        delivered == Store(t, before[t], Apply(t, Given(record[runs].handed, t), now))
    IN /\ said = "success" => dest[t] = delivered
       /\ said = "skipped" => dest[t] = before[t]
       /\ said = "failed" => dest[t] \in {before[t], delivered}

\* The outbox never contradicts the record: no run has both events, and a success
\* event is never followed by the record of a failure (the event goes out first).
EventsAgree ==
  \A r \in Runs :
    /\ ~({<<r, "success">>, <<r, "failure">>} \subseteq events)
    /\ <<r, "success">> \in events => record[r].verdict \in {"success", "none"}
    /\ <<r, "failure">> \in events => record[r].verdict \in {"failed", "none"}

\* Running again until it works delivers once: whatever the runs before it got to
\* (a write and then a late task, a crash after the write), a successful run leaves
\* an idempotent destination as one delivery of its rows.  Only if all the runs went
\* by one time, as well as over one source: run_pipeline reads the clock, and where a
\* previous_day window or a freshness rule tells the runs apart, an upsert leaves the
\* rows of both days, and a run whose rows are fewer takes nothing back.
RerunConverges ==
  pc = "returned" /\ verdict = "success" /\ ~moved =>
    \A t \in Once : dest[t] = Store(t, Base[t], Apply(t, Given(table, t), now))

\* Every run keeps the promise of DagExecution towards what was there when it began,
\* in the midst of whatever the runs before it left.
Verdict(t) ==
  CASE status[t] = "success" -> "done"
    [] status[t] \in {"failed", "skipped"} -> "failed"
    [] OTHER -> "waiting"

Promise == INSTANCE DagExecution WITH
  verdict <- [t \in Tasks |-> Verdict(t)], value <- table, dest <- dest, base <- before

KeepsPromise == Promise!RerunSpec
===============================================================================
