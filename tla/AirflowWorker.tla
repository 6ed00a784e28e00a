---------------------------- MODULE AirflowWorker ----------------------------
(***************************************************************************)
(* One DAG run of a compiled pipeline.  Airflow (external) starts, retries,*)
(* loses and gives up attempts; every attempt is one call of               *)
(* runtime.airflow_execute in a worker process, which shares the data root *)
(* with every other attempt, also with those Airflow believes dead.  Rows  *)
(* travel as files, references to them ({path, sha256, rows}) as XComs: a  *)
(* reference is modelled by the table whose hash it carries.               *)
(* Every task that writes an asset of its own is an output here: the output*)
(* tasks, and ops.notification, whose asset holds a row count.  The rules  *)
(* of one quality gate and their loop are in QualityGate.                  *)
(***************************************************************************)
EXTENDS Integers, FiniteSets

CONSTANTS
  Tasks, Ingest, Outputs, Once, Inputs, Deps,  \* as in DagExecution
  Values, NoValue, Apply(_, _), Fits(_, _), Store(_, _, _), Base,
  Rejects(_, _),  \* Rejects(t, ins): the rows the gate t quarantines, NoValue for none
  Alarms(_, _),   \* Alarms(t, ins): a rate of the gate t passes a policy's threshold
  SourceTables,   \* the tables a source asset may hold while the run lasts
  Retries,        \* [Tasks -> Nat]: task.retries, or the pipeline's policy
  MaxRetries,     \* the largest of them (the schema allows 0..10)
  Concurrency,    \* max_active_tasks
  Disturbances    \* which of "source", "authority", "crash", "lost", "timeout" happen

Tries == 1 .. MaxRetries + 1
Attempts == Tasks \X Tries
Table == Values \cup {NoValue}

ASSUME TaskAssumption ==
  /\ Ingest \subseteq Tasks /\ Outputs \subseteq Tasks /\ Once \subseteq Outputs
  /\ Ingest \cap Outputs = {}
  /\ Inputs \in [Tasks -> SUBSET Tasks] /\ Deps \in [Tasks -> SUBSET Tasks]
  /\ \A t \in Tasks : Inputs[t] \subseteq Deps[t]

\* No circles: of any tasks, there is one that none of the others depends on.
ASSUME AcyclicAssumption ==
  \A S \in SUBSET Tasks : S # {} => \E t \in S : \A u \in S : t \notin Deps[u]

ASSUME LimitAssumption ==
  /\ MaxRetries \in Nat /\ Concurrency \in Nat \ {0}
  /\ Retries \in [Tasks -> 0 .. MaxRetries]

ASSUME DataAssumption ==
  /\ NoValue \notin Values /\ SourceTables \subseteq Values
  /\ Base \in [Outputs -> Table]
  /\ \A t \in Tasks : \A ins \in [Inputs[t] -> Table] : Apply(t, ins) \in Table
  /\ \A t \in Tasks : \A ins \in [Inputs[t] -> Table] :
       Rejects(t, ins) \in Table /\ Alarms(t, ins) \in BOOLEAN
  /\ \A t \in Outputs, before \in Table, table \in Values :
       Store(t, before, table) \in Table

\* What makes a write repeatable: a second write of the same rows changes nothing.
ASSUME OnceAssumption ==
  \A t \in Once : \A ins \in [Inputs[t] -> Table] :
    LET table == Apply(t, ins)
        new == Store(t, Base[t], table)
    IN table # NoValue /\ new # NoValue => Store(t, new, table) = new

VARIABLES
  run,        \* state of the DAG run: "running", "success", "failed"
  ti,         \* [Tasks -> TaskStates]: Airflow's task instances
  try,        \* [Tasks -> 0..MaxRetries+1]: number of the latest attempt
  xcom,       \* [Tasks -> Table]: the reference returned by the task
  pc,         \* [Attempts -> Steps]: where each worker process is
  got,        \* [Attempts -> [Tasks -> Table]]: its `inputs`
  old,        \* [Attempts -> Table]: the destination as write() read it
  rows,       \* [Attempts -> Table]: its `rows`
  file,       \* [Tasks -> Table]: .nlpipe/artifacts/<pipeline>/<run>/<task>.json
  evidence,   \* [Tasks -> [Tasks -> Table]]: <task>.quality.json, by the tables judged
  dest,       \* [Outputs -> Table]: the destination assets
  quarantine, \* [Tasks -> Table]: what this run put in a gate's quarantine asset
  alarms,     \* the attempts whose quality event is in the outbox
  source,     \* [Ingest -> SourceTables]: the source assets
  catalogSame,  \* digest(catalog) = CATALOG_HASH
  approvalLive, \* check_approval would pass now
  outbox        \* what the callback of the run left in the outbox

air == <<run, ti, try, xcom>>
worker == <<pc, got, old, rows>>
disk == <<file, evidence, dest>>
gate == <<quarantine, alarms>>
world == <<source, catalogSame, approvalLive>>
vars == <<air, worker, disk, gate, world, outbox>>

TaskStates == {"none", "running", "up_for_retry", "success", "failed",
               "upstream_failed", "skipped"}
Final == {"success", "failed", "upstream_failed", "skipped"}
Steps == {"none", "admit", "inputs", "write", "checked", "artifact", "evidence",
          "return", "returned", "raised", "dead"}
Active == {"admit", "inputs", "write", "checked", "artifact", "evidence", "return"}

NoTables == [u \in Tasks |-> NoValue]
Given(f, t) == [u \in Inputs[t] |-> f[u]]
Current(a) == run = "running" /\ ti[a[1]] = "running" /\ try[a[1]] = a[2]

Init ==
  /\ run = "running" /\ outbox = "none"
  /\ ti = [t \in Tasks |-> "none"] /\ try = [t \in Tasks |-> 0]
  /\ xcom = NoTables
  /\ pc = [a \in Attempts |-> "none"] /\ got = [a \in Attempts |-> NoTables]
  /\ old = [a \in Attempts |-> NoValue] /\ rows = [a \in Attempts |-> NoValue]
  /\ file = NoTables /\ evidence = [t \in Tasks |-> NoTables]
  /\ dest = Base /\ quarantine = NoTables /\ alarms = {}
  /\ source \in [Ingest -> SourceTables]
  /\ catalogSame \in IF "authority" \in Disturbances THEN BOOLEAN ELSE {TRUE}
  /\ approvalLive \in IF "authority" \in Disturbances THEN BOOLEAN ELSE {TRUE}

-------------------------------------------------------------------------------
\* Airflow: the scheduler, as the generated DAG configures it.

\* Faults that runs must detect are written beside what they would replace:
\* failed tasks restarted; edges drawn for data inputs alone; trigger rule
\* all_done for the other edges.
StartFailed(t) ==
  /\ run = "running" /\ ti[t] \in {"none", "up_for_retry", "failed"}
  /\ \A d \in Deps[t] : ti[d] = "success"
  /\ ti' = [ti EXCEPT ![t] = "running"] /\ try' = [try EXCEPT ![t] = @ + 1]
  /\ pc' = [pc EXCEPT ![<<t, try[t] + 1>>] = "admit"]
  /\ UNCHANGED <<run, xcom, got, old, rows, disk, world, gate, outbox>>

StartWhen(t, ready) ==
  /\ run = "running" /\ ti[t] \in {"none", "up_for_retry"} /\ try[t] <= Retries[t]
  /\ ready /\ Cardinality({u \in Tasks : ti[u] = "running"}) < Concurrency
  /\ ti' = [ti EXCEPT ![t] = "running"] /\ try' = [try EXCEPT ![t] = @ + 1]
  /\ pc' = [pc EXCEPT ![<<t, try[t] + 1>>] = "admit"]
  /\ UNCHANGED <<run, xcom, got, old, rows, disk, world, gate, outbox>>
StartOnInputs(t) == StartWhen(t, \A d \in Inputs[t] : ti[d] = "success")
StartOnAllDone(t) ==
  StartWhen(t, \A d \in Deps[t] :
    ti[d] = "success" \/ (d \notin Inputs[t] /\ ti[d] \in Final))

\* An attempt starts when every task upstream of t succeeded (`>>`, and the
\* trigger rule all_success) and fewer than max_active_tasks are running.
Start(t) ==
  /\ run = "running" /\ ti[t] \in {"none", "up_for_retry"}
  /\ try[t] <= Retries[t]
  /\ \A d \in Deps[t] : ti[d] = "success"
  /\ Cardinality({u \in Tasks : ti[u] = "running"}) < Concurrency
  /\ ti' = [ti EXCEPT ![t] = "running"]
  /\ try' = [try EXCEPT ![t] = @ + 1]
  /\ pc' = [pc EXCEPT ![<<t, try[t] + 1>>] = "admit"]
  /\ UNCHANGED <<run, xcom, got, old, rows, disk, world, gate, outbox>>

\* Fault: an attempt too many is promised, and Airflow never makes it.
AfterFailureOnceMore(t) == IF try[t] <= Retries[t] + 1 THEN "up_for_retry" ELSE "failed"

\* What becomes of a task instance whose current attempt failed.
AfterFailure(t) == IF try[t] <= Retries[t] THEN "up_for_retry" ELSE "failed"

\* The heartbeats of the current attempt stop.  Its process may be dead, or cut
\* off and still at work on the shared storage.
GiveUp(t) ==
  /\ run = "running" /\ ti[t] = "running"
  /\ "lost" \in Disturbances \/ pc[<<t, try[t]>>] = "dead"
  /\ ti' = [ti EXCEPT ![t] = AfterFailure(t)]
  /\ UNCHANGED <<run, try, xcom, worker, disk, world, gate, outbox>>

UpstreamFailed(t) ==
  /\ run = "running" /\ ti[t] = "none"
  /\ \E d \in Deps[t] : ti[d] \in {"failed", "upstream_failed"}
  /\ ti' = [ti EXCEPT ![t] = "upstream_failed"]
  /\ UNCHANGED <<run, try, xcom, worker, disk, world, gate, outbox>>

\* The run ends when every task has; Airflow judges it by its leaves.
Leaves == {t \in Tasks : \A u \in Tasks : t \notin Deps[u]}
FinishRun ==
  /\ run = "running" /\ \A t \in Tasks : ti[t] \in Final
  /\ run' = IF \A t \in Leaves : ti[t] = "success" THEN "success" ELSE "failed"
  /\ UNCHANGED <<ti, try, xcom, worker, disk, world, gate, outbox>>

\* dagrun_timeout: what has not finished is skipped, and its processes are told
\* to stop; nothing waits for them.
RunTimeout ==
  /\ "timeout" \in Disturbances /\ run = "running"
  /\ run' = "failed"
  /\ ti' = [t \in Tasks |-> IF ti[t] \in Final THEN ti[t] ELSE "skipped"]
  /\ UNCHANGED <<try, xcom, worker, disk, world, gate, outbox>>

\* on_success_callback / on_failure_callback, called once: airflow_notify, which
\* refuses to run under another catalog, and whose write may fail.
Notify ==
  /\ run # "running" /\ outbox = "none"
  /\ \/ outbox' = "lost"
     \/ catalogSame /\ outbox' = IF run = "success" THEN "success" ELSE "failure"
  /\ UNCHANGED <<air, worker, disk, gate, world>>

-------------------------------------------------------------------------------
\* The worker: airflow_execute, one action per step that others can see.

At(a, step) == pc[a] = step
Goto(a, step) == pc' = [pc EXCEPT ![a] = step]

\* The process ends, and its memory with it.
Exit(a, step) ==
  /\ Goto(a, step)
  /\ got' = [got EXCEPT ![a] = NoTables]
  /\ old' = [old EXCEPT ![a] = NoValue] /\ rows' = [rows EXCEPT ![a] = NoValue]

\* An exception leaves airflow_execute.  Airflow hears of it only from the
\* attempt it is waiting for.
Raise(a) ==
  /\ Exit(a, "raised")
  /\ ti' = IF Current(a) THEN [ti EXCEPT ![a[1]] = AfterFailure(a[1])] ELSE ti
  /\ UNCHANGED <<run, try, xcom, disk, world, outbox>>

\* Catalog digest, require_valid and check_approval, on every attempt.
Admit(a) ==
  /\ At(a, "admit") /\ UNCHANGED gate
  /\ IF catalogSame /\ approvalLive
       THEN Goto(a, "inputs") /\ UNCHANGED <<air, got, old, rows, disk, world, outbox>>
       ELSE Raise(a)

\* Fault: the hash is not compared.
ReadAnyArtifact(a, u) ==
  /\ At(a, "inputs") /\ u \in Inputs[a[1]] /\ got[a][u] = NoValue
  /\ got' = [got EXCEPT ![a][u] = file[u]]
  /\ UNCHANGED <<air, pc, old, rows, disk, world, gate, outbox>>

\* read_artifact: the file must have the hash that the reference carries.
ReadArtifact(a, u) ==
  /\ At(a, "inputs") /\ u \in Inputs[a[1]] /\ got[a][u] = NoValue /\ UNCHANGED gate
  /\ IF file[u] = xcom[u]
       THEN /\ got' = [got EXCEPT ![a][u] = file[u]]
            /\ UNCHANGED <<air, pc, old, rows, disk, world, outbox>>
       ELSE Raise(a)

HasInputs(a) == At(a, "inputs") /\ \A u \in Inputs[a[1]] : got[a][u] # NoValue

\* A quality gate puts its event in the outbox, a new file for every attempt.
Alarm(a) ==
  /\ HasInputs(a) /\ Alarms(a[1], Given(got[a], a[1]))
  /\ a \notin alarms /\ alarms' = alarms \cup {a}
  /\ UNCHANGED <<air, worker, disk, quarantine, world, outbox>>

\* execute_task, up to the write of an output: the gate's quarantine is replaced,
\* then come the capability's rows, or the exception it raises (a failed quality
\* rule, a join over the limit, a bad row).
Compute(a) ==
  LET t == a[1]
      ins == Given(got[a], t)
      result == IF t \in Ingest THEN source[t] ELSE Apply(t, ins)
  IN
  /\ HasInputs(a) /\ (Alarms(t, ins) => a \in alarms)
  /\ quarantine' = [quarantine EXCEPT ![t] =
                      IF Rejects(t, ins) = NoValue THEN @ ELSE Rejects(t, ins)]
  /\ UNCHANGED alarms
  /\ IF result = NoValue THEN Raise(a)
       ELSE /\ rows' = [rows EXCEPT ![a] = result]
            /\ old' = IF t \in Outputs THEN [old EXCEPT ![a] = dest[t]] ELSE old
            /\ Goto(a, IF t \in Outputs THEN "write" ELSE "checked")
            /\ UNCHANGED <<air, got, disk, world, outbox>>

\* Fault: the old contents are gone before the new ones are in place.
WriteTorn(a) ==
  LET t == a[1]  new == Store(t, old[a], rows[a]) IN
  /\ At(a, "write") /\ UNCHANGED gate
  /\ Goto(a, "checked")
  /\ \E contents \in {new, NoValue} : dest' = [dest EXCEPT ![t] = contents]
  /\ UNCHANGED <<air, got, old, rows, file, evidence, world, outbox>>

\* storage.write: computed from what was read before, and put in place at once.
WriteOutput(a) ==
  LET t == a[1]  new == Store(t, old[a], rows[a]) IN
  /\ At(a, "write") /\ UNCHANGED gate
  /\ IF new = NoValue THEN Raise(a)
       ELSE /\ dest' = [dest EXCEPT ![t] = new]
            /\ Goto(a, "checked")
            /\ UNCHANGED <<air, got, old, rows, file, evidence, world, outbox>>

\* Fault: the capability's rows are returned without rows_checked.
CheckNoRows(a) ==
  /\ At(a, "checked") /\ Goto(a, "artifact")
  /\ UNCHANGED <<air, got, old, rows, disk, world, gate, outbox>>

\* The last line of execute_task: the limits, when the write is already done.
CheckRows(a) ==
  /\ At(a, "checked") /\ UNCHANGED gate
  /\ IF Fits(a[1], rows[a])
       THEN Goto(a, "artifact") /\ UNCHANGED <<air, got, old, rows, disk, world, outbox>>
       ELSE Raise(a)

\* Fault: no quality.json.
PutArtifactOnly(a) ==
  /\ At(a, "artifact") /\ Goto(a, "return")
  /\ file' = [file EXCEPT ![a[1]] = rows[a]]
  /\ UNCHANGED <<air, got, old, rows, evidence, dest, world, gate, outbox>>

PutArtifact(a) ==
  /\ At(a, "artifact")
  /\ file' = [file EXCEPT ![a[1]] = rows[a]]
  /\ Goto(a, "evidence")
  /\ UNCHANGED <<air, got, old, rows, evidence, dest, world, gate, outbox>>

PutEvidence(a) ==
  /\ At(a, "evidence")
  /\ evidence' = [evidence EXCEPT ![a[1]] = got[a]]
  /\ Goto(a, "return")
  /\ UNCHANGED <<air, got, old, rows, file, dest, world, gate, outbox>>

\* Fault: a reference is taken from whatever attempt returns one.
ReturnAnyway(a) ==
  /\ At(a, "return") /\ Exit(a, "returned")
  /\ xcom' = [xcom EXCEPT ![a[1]] = rows[a]] /\ ti' = [ti EXCEPT ![a[1]] = "success"]
  /\ UNCHANGED <<run, try, disk, world, gate, outbox>>

\* The reference is returned: Airflow keeps it, unless it gave the attempt up.
Return(a) ==
  /\ At(a, "return") /\ Exit(a, "returned")
  /\ IF Current(a)
       THEN /\ xcom' = [xcom EXCEPT ![a[1]] = rows[a]]
            /\ ti' = [ti EXCEPT ![a[1]] = "success"]
       ELSE UNCHANGED <<xcom, ti>>
  /\ UNCHANGED <<run, try, disk, world, gate, outbox>>

\* An I/O error or the execution timeout, anywhere.
Fault(a) == pc[a] \in Active /\ Raise(a) /\ UNCHANGED gate

\* The process dies without a word.
Crash(a) ==
  /\ "crash" \in Disturbances /\ pc[a] \in Active
  /\ Exit(a, "dead")
  /\ UNCHANGED <<air, disk, world, gate, outbox>>

Work(a) ==
  \/ Admit(a) \/ (\E u \in Tasks : ReadArtifact(a, u)) \/ Alarm(a) \/ Compute(a)
  \/ WriteOutput(a) \/ CheckRows(a) \/ PutArtifact(a) \/ PutEvidence(a) \/ Return(a)

-------------------------------------------------------------------------------
\* The world outside the run.

\* A source asset is replaced while the run lasts.
ChangeSource(t) ==
  /\ "source" \in Disturbances
  /\ \E s \in SourceTables \ {source[t]} : source' = [source EXCEPT ![t] = s]
  /\ UNCHANGED <<air, worker, disk, catalogSame, approvalLive, gate, outbox>>

\* The catalog is edited or restored; an approval expires or is renewed.
ChangeAuthority ==
  /\ "authority" \in Disturbances
  /\ \/ catalogSame' = ~catalogSame /\ UNCHANGED approvalLive
     \/ approvalLive' = ~approvalLive /\ UNCHANGED catalogSame
  /\ UNCHANGED <<air, worker, disk, source, gate, outbox>>

Airflow ==
  \/ \E t \in Tasks : Start(t) \/ GiveUp(t) \/ UpstreamFailed(t)
  \/ FinishRun \/ RunTimeout \/ Notify

Next ==
  \/ Airflow
  \/ \E a \in Attempts : Work(a) \/ Fault(a) \/ Crash(a)
  \/ (\E t \in Ingest : ChangeSource(t)) \/ ChangeAuthority

Spec == Init /\ [][Next]_vars

\* The scheduler keeps scheduling, misses the heartbeats of the dead, and closes
\* the run; a live worker process keeps going.  Nothing makes the world change.
FairSpec ==
  /\ Spec
  /\ WF_vars(FinishRun)
  /\ \A t \in Tasks :
       /\ WF_vars(Start(t)) /\ WF_vars(UpstreamFailed(t))
       /\ WF_vars(ti[t] = "running" /\ pc[<<t, try[t]>>] = "dead" /\ GiveUp(t))
  /\ \A a \in Attempts : WF_vars(Work(a))

-------------------------------------------------------------------------------
TypeOK ==
  /\ run \in {"running", "success", "failed"}
  /\ ti \in [Tasks -> TaskStates] /\ try \in [Tasks -> 0 .. MaxRetries + 1]
  /\ xcom \in [Tasks -> Table]
  /\ pc \in [Attempts -> Steps] /\ got \in [Attempts -> [Tasks -> Table]]
  /\ old \in [Attempts -> Table] /\ rows \in [Attempts -> Table]
  /\ file \in [Tasks -> Table] /\ evidence \in [Tasks -> [Tasks -> Table]]
  /\ dest \in [Outputs -> Table] /\ source \in [Ingest -> SourceTables]
  /\ catalogSame \in BOOLEAN /\ approvalLive \in BOOLEAN
  /\ outbox \in {"none", "lost", "success", "failure"}
  /\ quarantine \in [Tasks -> Table] /\ alarms \subseteq Attempts

\* Every table a task handed on was computed from the very tables its inputs
\* handed on, although attempts are repeated, cut-off attempts overwrite the
\* artifact files they share, and sources change in between (read_artifact's
\* hash comparison, airflow_execute).
Provenance ==
  \A t \in Tasks \ Ingest :
    ti[t] = "success" => xcom[t] = Apply(t, Given(xcom, t))

\* A worker process is at work on a task only after everything the task depends
\* on has succeeded, data input or not (the >> edges of compile_airflow), and a
\* destination is touched only then.
UpstreamFirst ==
  /\ \A a \in Attempts : pc[a] # "none" => \A d \in Deps[a[1]] : ti[d] = "success"
  /\ \A t \in Outputs :
       dest[t] # Base[t] => \A d \in Deps[t] : ti[d] = "success"

\* Retries, attempts that outlive their failure and crashes after the write never
\* deliver twice: an idempotent destination is untouched or holds one delivery
\* of the final input, and holds it when the task is reported successful.
EffectOnce ==
  \A t \in Once :
    LET table == Apply(t, Given(xcom, t)) IN
    dest[t] # Base[t] \/ ti[t] = "success" =>
      table # NoValue /\ dest[t] = Store(t, Base[t], table)

\* What a consumer will find under a successful task's reference is what the
\* reference names: read_artifact refuses only rows re-read from a source that
\* changed, by an attempt Airflow had given up.
ArtifactStable ==
  \A t \in Tasks :
    ti[t] = "success" /\ (t \notin Ingest \/ ~({"lost", "source"} \subseteq Disturbances))
      => file[t] = xcom[t]

\* A successful task has its quality evidence on disk, and it is about the
\* tables the task was given (artifact, quality.json and XCom are three writes).
EvidenceBound ==
  \A t \in Tasks :
    ti[t] = "success" =>
      evidence[t] = [u \in Tasks |-> IF u \in Inputs[t] THEN xcom[u] ELSE NoValue]

\* The quarantine asset of a gate is about the tables the gate was given in this
\* run, also when the gate then failed or is being repeated; and a gate that let
\* rows pass has said what it had to say.
QuarantineBound ==
  \A t \in Tasks :
    LET ins == Given(xcom, t) IN
    /\ quarantine[t] # NoValue => quarantine[t] = Rejects(t, ins)
    /\ ti[t] = "success" /\ Alarms(t, ins) => <<t, try[t]>> \in alarms
    /\ ti[t] = "success" /\ Rejects(t, ins) # NoValue => quarantine[t] # NoValue

\* Airflow judges a run by its leaves; with the edges compile_airflow draws, a
\* run called successful has no task that failed or was skipped, and a success
\* event in the outbox is about such a run.
SuccessIsTotal ==
  run = "success" \/ outbox = "success" => \A t \in Tasks : ti[t] = "success"

\* Success is final: no late attempt changes a reference consumers may hold.
SuccessIsFinal ==
  [][\A t \in Tasks : ti[t] = "success" => ti'[t] = "success" /\ xcom'[t] = xcom[t]]_vars

\* The run ends, whatever dies, is lost or refuses: attempts are bounded and
\* every refusal is a failure.
RunEnds == <>(run # "running")

\* The promise of DagExecution, kept by the worker.
Verdict(t) ==
  CASE ti[t] = "success" -> "done"
    [] ti[t] \in {"failed", "upstream_failed", "skipped"} -> "failed"
    [] OTHER -> "waiting"

\* All attempts of a run go by the end of its data interval.
AtIntervalEnd(t, ins, now) == Apply(t, ins)

Promise == INSTANCE DagExecution WITH
  verdict <- [t \in Tasks |-> Verdict(t)], value <- xcom, dest <- dest, base <- Base,
  Clocks <- {"interval_end"}, now <- "interval_end", Apply <- AtIntervalEnd

KeepsPromise == Promise!Spec
===============================================================================
