----------------------------- MODULE DagExecution -----------------------------
(***************************************************************************)
(* What one run of a pipeline promises, whoever executes it: the generated *)
(* Airflow DAG (AirflowWorker) or the local reference runner (LocalRunner).*)
(* A task completes once, after the tasks it depends on, with the rows its *)
(* capability computes, at the run's one instant, from exactly the rows    *)
(* those tasks completed with;                                             *)
(* and the destination of an idempotent output is either untouched or      *)
(* holds ONE delivery of that output's rows, however often it was tried.   *)
(***************************************************************************)
CONSTANTS
  Tasks,          \* ids of the normalized specification's tasks
  Ingest,         \* the tasks that read a source asset
  Outputs,        \* the tasks that write a destination asset
  Once,           \* the outputs whose write may be repeated without effect
  Inputs,         \* [Tasks -> SUBSET Tasks]: the task: references among the inputs
  Deps,           \* [Tasks -> SUBSET Tasks]: the dependencies, inputs included
  Values,         \* tables of rows
  NoValue,        \* no table: not computed, absent, or the capability raises
  Clocks,         \* the instants that a run may go by
  Apply(_, _, _), \* Apply(t, ins, now): the rows t computes from its input tables
  Fits(_, _),     \* Fits(t, rows): rows pass the final row and byte limits of t
  Store(_, _, _), \* Store(t, old, rows): the destination of t after its write
  Base            \* [Outputs -> Values \cup {NoValue}]: the destinations at first

VARIABLES
  verdict,        \* [Tasks -> {"waiting", "done", "failed"}]
  value,          \* [Tasks -> Values \cup {NoValue}]: the rows a task completed with
  dest,           \* [Outputs -> Values \cup {NoValue}]: what the destinations hold
  base,           \* what they held before the run
  now             \* the instant of the run: one, for all of its tasks

vars == <<verdict, value, dest, base, now>>

\* The tables t is given: what its inputs completed with.
Given(t) == [u \in Inputs[t] |-> value[u]]

DepsDone(t) == \A d \in Deps[t] : verdict[d] = "done"

Init ==
  /\ verdict = [t \in Tasks |-> "waiting"]
  /\ value = [t \in Tasks |-> NoValue]
  /\ dest = Base /\ base = Base /\ now \in Clocks

\* An output task delivers.  The worker may be one that was given up: a failed
\* task can have delivered, or still deliver, but never anything else.  Nothing
\* is promised of a destination whose write is not idempotent.
Deliver(t) ==
  /\ t \in Outputs /\ DepsDone(t)
  /\ Apply(t, Given(t), now) # NoValue
  /\ \E old \in Values \cup {NoValue} :
       LET new == Store(t, old, Apply(t, Given(t), now)) IN
       /\ t \in Once => old = base[t]
       /\ new # NoValue /\ dest' = [dest EXCEPT ![t] = new]
  /\ UNCHANGED <<verdict, value, base, now>>

\* A task completes; only a source may be read as anything.  An idempotent
\* output completes only when its destination holds its delivery.
Complete(t) ==
  /\ verdict[t] = "waiting" /\ DepsDone(t)
  /\ verdict' = [verdict EXCEPT ![t] = "done"]
  /\ \E rows \in Values :
       /\ Fits(t, rows)
       /\ t \notin Ingest => rows = Apply(t, Given(t), now)
       /\ t \in Once => dest[t] = Store(t, base[t], rows)
       /\ value' = [value EXCEPT ![t] = rows]
  /\ UNCHANGED <<dest, base, now>>

\* Tasks are given up, one or many; what they delivered stays delivered.
GiveUp(S) ==
  /\ S # {} /\ \A t \in S : verdict[t] = "waiting"
  /\ verdict' = [t \in Tasks |-> IF t \in S THEN "failed" ELSE verdict[t]]
  /\ UNCHANGED <<value, dest, base, now>>

Next ==
  \/ \E t \in Tasks : Deliver(t) \/ Complete(t)
  \/ \E S \in SUBSET Tasks : GiveUp(S)

Spec == Init /\ [][Next]_vars

\* Whoever started the run starts another, on what this one left, at some other time.
Rerun ==
  /\ verdict' = [t \in Tasks |-> "waiting"]
  /\ value' = [t \in Tasks |-> NoValue]
  /\ base' = dest /\ now' \in Clocks /\ UNCHANGED dest

RerunSpec == Init /\ [][Next \/ Rerun]_vars
===============================================================================
