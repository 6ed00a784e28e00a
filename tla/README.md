# nlpipe in TLA+

`nlpipe` (package `src/src/nlpipe`) turns a request into a typed pipeline
specification, normalizes and validates it, compiles it to an Apache Airflow DAG
or runs it itself, and guards deployment and execution with signed approvals.
This directory models the parts of it that have behaviour: what is executed, in
which order, with which effects on shared files, and what is left behind when
something fails, is repeated, or is edited at the same time.

* [The system](#the-system)
* [Plan](#plan)
* [Modules](#modules)
* [Runs](#runs)
* [Fairness](#fairness)
* [Proofs](#proofs)
* [Disagreements found](#disagreements-found)
* [What is not modelled](#what-is-not-modelled)

## The system

| Component | State | Operations | What makes it correct |
|---|---|---|---|
| Planner (`planner/`) | none; a specification becomes its normal form | `normalize`, `order` | gates cannot be gone round, the draft's order is kept, the result is a normal form |
| Validation, policy (`validation/`, `policy/`) | none | `validate`, `require_valid`, `evaluate` | what is valid runs: the look-ups of a run are not refused, its fields are there, and what may do harm needs an approval |
| Compiler (`compiler/`) | none; a specification becomes a Python DAG | `compile_airflow` | Airflow executes what was reviewed: edges, retries, limits, callbacks |
| Deployment (`deployment/`) | approval file, DAG, manifest | `sign`, `check_approval`, `deploy` | nothing acts or is installed without an approval of exactly that |
| Airflow worker (`runtime/`) | artifacts, quality evidence, XCom references, destinations, quarantine assets, outbox | `airflow_execute`, `airflow_notify` | retries, lost attempts and crashes leave one computation and one delivery |
| Local runner (`runtime/`) | the tables of a run, its record, its events | `run_pipeline` | the record is true; running again converges |
| Quality gate (`runtime/`) | results, rejected rows | `check_rows`, `quality.check` | no row is lost, what passes meets the rules, moved rows are accounted for |
| Storage (`runtime/storage.py`) | files and SQL tables under the data root | `read`, `write`, `artifact`, `read_artifact`, `rows_checked` | a write is all or nothing, and of the mode asked for; writers of one destination lose nothing of each other |
| Observability (`observability/`) | run records, proposals | `from_airflow`, `propose_retry`, `diagnose` | a proposal is about a failure of what it changes |
| Command line (`cli/`) | the files above | `create`, `compile`, `run`, `approve`, `deploy`, `observe`, `repair`, ... | the library's promises survive that the files change between reads; a specification and its DAG stay a pair |
| Catalog, capabilities, IR | constant tables, data models, files | look-ups, digests, `load`, `save` | a file is read whole or refused |
| Intent (`intent/`) | none; a request becomes a specification | `interpret`, `ControlledProvider.generate` | an answer gives what was asked, or there is a question |
| Evaluation, explanation | none | text | – |

They interact through calls (planner by validation, validation by everything
that executes), and through files: the worker processes of one Airflow run share
the data root; the commands share the specification, the catalog and the
approval with the people who edit them; the DAG folder is shared with Airflow.
There are no threads and no locks of the program's own.  What is hard is
therefore at these files, and in the order of effects and checks:

* an attempt that Airflow has given up may live on, and writes the same artifact,
  quarantine asset and destination as its successor;
* a task has its effects before its last checks (row limits, time limits), so a
  failed task may have delivered, and is retried;
* artifact, evidence and returned reference are three writes; DAG and manifest are
  two; an event goes out before the record of its run;
* the catalog, the specification and the approval are read one after the other,
  and again on every attempt, while they change or expire;
* normalization is done again by everybody who is handed a normalized
  specification, and all digests are of its result;
* append and upsert read, merge and replace, without a lock that spans the three, next
  to whoever else writes the destination or another table of its database; and
  SQLite makes its file before the transaction that puts the table into it;
* a run reads the clock once and an attempt once, and freshness rules and
  `previous_day` windows depend on it, so that two runs over one source may differ;
* `create` tests for its two files and then writes them, one not atomically;
* the conditions of validation and the refusals of execution are two lists, kept in
  different files.

`PROJECT.json` lists these hazards one by one, at their lines.

## Plan

Done in this order, the most important behaviour first:

1. `DagExecution`, the promise of a run; `StoredTable`; `AirflowWorker`, the
   implementation with all its races; its proofs.
2. `LocalRunner`, the other implementation of the same promise, with reruns.
3. `QualityGate`, the loop `AirflowWorker` takes for one step.
4. `Planner`, which makes the graph both runners rely on (`OrderAssumption`,
   `TaskAssumption`).
5. `Lifecycle`, around them: approvals, deployment, admission, repair; its proofs.
6. `SchemaFlow`: the schemas that validation infers, beside the rows.

7. `SharedDestination`: several runs and pipelines on one destination or database
   file; the process that outlives its run under `max_active_runs=1`; its proofs.
8. `Validation` (with the policy), `ControlledLanguage`, and `Authoring` over both:
   from a request to a specification and its DAG in a directory that others use; its
   proofs.

9. Theorems about `LocalRunner`, the files of `AirflowWorker`, and `Planner`.
10. Theorems about `QualityGate`, `SchemaFlow`, the writes of `SharedDestination`, the
    normal form and the refusals of `Planner`, and the answers of `Authoring`: every
    invariant that a passing run checks now has its theorem.

Left: the values that capabilities compute (`RowOperations`: deduplicate, filter,
aggregate and join against set-based definitions).

## Modules

| Module | Models | Correspondence |
|---|---|---|
| `DagExecution` | the abstract promise of one run | `Complete`: a task succeeds once, after its dependencies, with rows computed from exactly what they completed with. `Deliver`: an output writes one delivery of those rows. `GiveUp`: tasks fail or are skipped. `Rerun`: another run begins on what this one left. |
| `StoredTable` | `storage.write` as a function | `Combined` by mode, `Merged` for upserts, `Written` with the row ceiling. |
| `AirflowWorker` | one Airflow run | `ti`, `try`, `xcom`, `run` are Airflow's; `pc`, `got`, `old`, `rows` are one process per attempt; `file`, `evidence`, `dest`, `quarantine`, `alarms`, `outbox` are the disk. Every action of a worker ends at a write, a read or a check that others can see: `Admit`, `ReadArtifact`, `Alarm`, `Compute`, `WriteOutput`, `CheckRows`, `PutArtifact`, `PutEvidence`, `Return`; an exception is `Raise`, wherever it comes from. |
| `AirflowWorkerProofs`, `LocalRunnerProofs`, `QualityGateProofs`, `PlannerProofs`, `LifecycleProofs`, `SchemaFlowProofs`, `SharedDestinationProofs`, `AuthoringProofs` | theorems | see [Proofs](#proofs) |
| `LocalRunner` | `run_pipeline`, run again and again | `now` is the time it takes once per run; `pc` is the place in the function: `task`, `write`, `check`, `failing` or `succeed`, `finish`; then it `returned` a record, `escaped` with an exception, or is `dead`. |
| `QualityGate` | `check_rows` and `quality.check` | one action per branch of the loop over rules: `Judge`, then `Quarantine`, `Allow` or `Fail`; `Pass` at its end. |
| `Planner` | `normalize` and `order` | one action per statement of `normalize` (`AddEdges`, one `AddGate` per target, `AddReads`) and one `Round` per turn of the loop in `order`; `Again` does it a second time; `Revise` is `create --previous`, which strips the gates first. |
| `Lifecycle` | approve, deploy, admission, run, observe, repair | one action per command, but for `deploy`, whose reads and writes are separate, and the worker's admission, which reads the catalog and then the approval. |
| `SchemaFlow` | `validate`'s schemas, and `execute_task` on fields | one action per capability, its guard what `validate` asks of the fields; `fields` is the inferred schema, `rows` the kinds of row the task really has, `stored` those its destination held when an upsert looks its keys (`wanted`) up, `trust` how far the first can be relied on. |
| `SharedDestination` | `storage.write` among other writers | one process per attempt of an output: `Start` (within `max_active_runs=1`, for pipelines that Airflow schedules), `Look` (`path.exists()` and the read), `Put` (merge and replace; for a table of a database it commits, or an INSERT fails), `Release` (Airflow stops waiting, rightly or not), `Crash`. For a database, `Connect` comes before `Put`: it makes the file, if there is none (`files`), and takes SQLite's lock, for which `Timeout` does not wait for ever; `Refuse` raises before anything is touched. `log`, `kept`, `met`, `outlived` and `cut` are history. |
| `Validation` | `validate` and `evaluate` on assets; the refusals of `read`, `write`, `execute_task` | operators on a specification and a catalog: `Valid`, `RequiresApproval`; `Refusals`, `Effects`. |
| `ControlledLanguage` | `ControlledProvider.generate`, `Catalog.resolve`, `interpret` | operators on a request, which is what the patterns find in its text; `CreationTests` and the others are the questions, in the order in which the code asks them. |
| `Authoring` | `create` and `compile` | one action per step that others can see: `Ask`, `TestPath`, `Open` and `Fill` (`save`), `PutDag`; `LoadSpec`, `PutCompiled`, `PutTest`. |
| `SmallPipelines`, `MC...` | values for the constants | two pipelines with what their capabilities compute; tables, rules, drafts, catalogs, requests and directories. |

Data are abstract: a table is a value of the constant `Values`, a capability the
operator `Apply(t, inputs)`, with `NoValue` where it raises.  A reference that
travels by XCom, `{path, sha256, rows}`, is modelled by the table whose hash it
carries, so that comparing hashes is comparing tables.  A digest of a
specification or a catalog is modelled by the thing itself.  An approval is a
member of the set of those that were signed; the HMAC is not modelled.

In some modules there is, directly before a definition, a faulty variant of it
(its comment begins with *Fault*).  No specification uses these: each is what a
plausible slip in the code would make of the definition, and substituting it
must make the property fail that `PROJECT.json` names beside it under `mutants`.

## Runs

All are exhaustive over the instance their configuration gives.

| Run | Instance and bounds | What it shows |
|---|---|---|
| `airflow_orphans` | read → check → write (upsert), one retry of the reader and of the gate; sources of two kinds of table, one with a row to quarantine, one with equal keys; attempts may be lost alive, the run may be timed out, sources may change (203 000 states) | `Provenance`, `ArtifactStable`, `EvidenceBound`, `QuarantineBound`, and the promise of `DagExecution`. One retry gives two live attempts of a task, enough for each of them to overtake the other at every step; a third adds an attempt that is like one of the two. |
| `airflow_diamond` | two sources, union, write (upsert, one retry), and an audit ordered after the write by a dependency alone; crashes, lost attempts, catalog edits, approvals that expire and are renewed; the union may have four rows, the output two (50 000 states) | `UpstreamFirst`, `SuccessIsTotal`, `EffectOnce` with an output before and after whose write a process may die or be given up, and `RunEnds`, without the help of `dagrun_timeout` |
| `local_reruns` | the chain, upsert, three runs, each at any of three times half a day apart, with I/O errors, late tasks, crashes and sources that change; a `previous_day` window on the source and a freshness rule at the gate tell the times apart (197 000 states) | `RecordTruth`, `RecordMatchesDisk`, `EventsAgree`, `RerunConverges`, and the promise of `DagExecution` for each run towards what it found: the third run meets what two failed ones left. `RerunConverges` leaves out runs over changed sources and runs that the time tells apart (disagreement 13). |
| `local_first_upsert` | the chain, destination not there yet, two runs, no faults | violates `RerunConverges`, see below |
| `quality_gates` | two gates, three rules each, two attempts; all tables of up to three rows out of three (keys that repeat, no key, stale, fresh and future rows), up to two out of three for the second (in, out of range, wrong type); empty tables included (1.7 million states) | `NothingLost`, `DownstreamClean`, `EvidenceAccounts`. A row count stands before a rule that takes rows away, so that a count met by what came in is not met by what passes (disagreement 14). Three rows are what it takes for a repeated key that is not beside its first. |
| `quality_shared_asset` | the same, with one quarantine asset for two rules | violates `NothingLost` |
| `planner_normal_form` | 28 800 drafts: three tasks, reads in all directions, cycles, unknown names, an edge or a dependency without data, any targets, and no gate, the right gate, or three wrong ones already there; each normalized again, or revised (255 000 states) | `DraftRespected`, `NoBypass`, `NormalForm`, `RefusedForCause` |
| `planner_stacked_gates` | drafts with a rule about the rows an existing gate passes | violates `NoBypass` |
| `schema_flow` | every pipeline of four tasks over a source registered with two fields and one registered with none; names to which "right_" was put up to twice; outputs by upsert, with any of the two parameters for keys, into a file that holds rows or none (1.2 million states) | `FieldsAsInferred`, `NeverRaises`, `SchemaRuleFits`. Three tasks already show each of the exceptions (disagreements 5 and 6); the fourth is the one that relies on them. |
| `lifecycle` | a pipeline drafted or normalized, with retries of 0 or 1 (the limit of 10 is 1 here), three catalogs (no approval needed, needed, nothing valid), approvals of one unit of time in two, at most two approvals and six commands or edits (2.8 million states) | `ActsAuthorised`, `InstalledAuthorised`, `ManifestProves`, `RefusesForCause`, `ProposalGrounded`, `RepairAnswers`. Six commands hold: approve, deploy, a failed run, repair, adopting the proposal, and one edit at any place. |
| `shared_destination` | a feed of two attempts and an audit of one, under Airflow, appending to two tables of one database file that is not there yet, a correction by hand that upserts into the first, and a report in a file of its own; rows with equal keys, without a key, and one that no column takes; crashes at every step, the lock timing out (577 000 states) | `Whole`, `NoneLost`, `SerialUnlessOutlived`, `RefusedForCause`. Two scheduled attempts of a pipeline give one that outlives its successor's start; the correction is the writer nobody counts; the first write, cut off, leaves the file without the table for everybody after it; the ceiling of three rows is met. |
| `authoring` | two creates, one of them possibly a revision, and a compile, over names that share a DAG or not, in a directory that may hold a DAG or a torn file; and, alone, some 7 600 requests (every pair of twenty words, over six choices of assets and three schedules) and answers of a model in which each part goes wrong (420 000 states) | `PairAgrees`, `DagsWhole`, `AnswersWhole`, `ValidRuns`, `GuardedEffects`. Questions are asked one at a time, so pairs of words reach each of them, and each that hides another. |

Bounds are constants: `MaxRetries`, `MaxRuns`, `MaxStarts`, `MaxTries`, `MaxClock`, `MaxCommands`, `MaxTasks`,
`MaxSigned`; `RowCeiling` stands for the million rows of `write` and is 3.
`CHECK_DEADLOCK FALSE` is given where the system stops: a run that has ended with
its callback called, a user who has used up `MaxRuns` or `MaxCommands`.

What bounds hide: more than two live attempts of one task, gates whose rules are
about each other beyond three, chains of more than two stacked gates.

## Fairness

Only `airflow_diamond` needs any.  `FairSpec` has weak fairness of

* starting a task that may start, and of marking one whose upstream failed: the
  scheduler's loop comes by again and again, and nothing but the end of the run
  takes the possibility away;
* noticing that the process of the current attempt is dead (missed heartbeats);
* ending a run all of whose tasks have ended;
* the next step of a live worker process: `airflow_execute` does not wait for
  anything.

There is none for losing, crashing, timing out, editing or renewing: those may
never happen.  Concurrency slots could starve a task under weak fairness only if
others were started for ever, which the bound on attempts excludes.

## Proofs

Everything here holds for every value of the constants that meets the assumptions
named, which TLC evaluates on the instances of the runs.  What a theorem needs
beyond them, because some instance rightly violates it, is a hypothesis of its own
(`Repeatable`, `Unstacked`, `Unshared`).

### One run under Airflow

`AirflowWorkerProofs` proves, for every pipeline, every number of retries, all
tables and every choice of disturbances, from the assumptions of `AirflowWorker`:

| Theorem | States |
|---|---|
| `TypeCorrect` | `Spec => []TypeOK` |
| `ProvenanceHolds` | `Spec => []Provenance` |
| `UpstreamFirstHolds` | `Spec => []UpstreamFirst` |
| `EffectOnceHolds` | `Spec => []EffectOnce` |
| `SuccessIsFinalHolds` | `Spec => SuccessIsFinal` |
| `Refinement` | `Spec => KeepsPromise` |

and, on top of these, of what the attempts share:

| Theorem | States |
|---|---|
| `ArtifactStableHolds` | `Spec => []ArtifactStable` |
| `EvidenceBoundHolds` | `Spec => []EvidenceBound` |
| `QuarantineBoundHolds` | `Spec => []QuarantineBound` |
| `SuccessIsTotalHolds` | `Spec => []SuccessIsTotal` |

The assumptions are `TaskAssumption` (inputs are among the dependencies: what
`normalize` ends with), `AcyclicAssumption` (no cycle; only `SuccessIsTotalHolds`
needs it), `LimitAssumption`, `DataAssumption` (operators stay within
their types) and `OnceAssumption`: writing the same rows a second time changes
nothing, for the outputs in `Once`.  `StoredTable` satisfies it for replace,
rebuild, and for an upsert into an existing file; TLC evaluates it in every run
of `MCAirflowWorker`.  It is false of append, and of the first upsert.

The argument.  None of the properties is inductive: they speak of successful
tasks, and a step that breaks them is taken by a process long started.  `IInv`
adds what is true of every process, current or given up: it was started after
everything upstream had succeeded; whatever tables it has read are the ones its
inputs' references name, because of the hash comparison; the rows it holds were
computed from those; and what it read of the destination before its write is
the base or one delivery already.  Success is final, so these facts are about
references that do not change any more, which is why the order of the proofs is
typing, success is final, upstream first, provenance, effects.  Every step of
Airflow leaves processes alone but for `Start`; every step of a process is either
private, or writes what the invariant says it may.  For the refinement the same
facts show that a `Return` of the current attempt is a `Complete` of the promise,
a `WriteOutput` is a `Deliver` or no change, and everything else is a `GiveUp` or
leaves the promise's variables alone.

For the files, `FilesInv` adds what attempts leave behind them: evidence and
quarantine are written from final inputs, whoever writes them, so that a late writer
writes what is there (`Evident`, `Gated`); and an artifact of a successful task is
replaced by equal rows (`Kept`), for one of three reasons: the rows are computed, from
inputs that are final; or they are read from a source that does not change
(`Sourced`); or nobody but the latest attempt is alive (`Lone`).  `ArtifactStable`
leaves out just the case that none of the three covers.  That leaves tell of the whole
run is a statement about graphs: of the tasks that did not succeed, acyclicity gives
one on which no other of them depends; no successful task does either, by
`UpstreamFirst`; so it is a leaf, and the run is not called successful.

### Runs of the local runner

`LocalRunnerProofs` proves, for every pipeline and every number of runs:

| Theorem | States |
|---|---|
| `TypeCorrect` | `Spec => []TypeOK` |
| `RecordTruthHolds` | `Spec => []RecordTruth` |
| `RecordMatchesDiskHolds` | `Spec => []RecordMatchesDisk` |
| `EventsAgreeHolds` | `Spec => []EventsAgree` |
| `Refinement` | `Spec => KeepsPromise` |
| `RerunConvergesHolds` | `Spec => []RerunConverges`, if `Repeatable` |

The assumptions are `TaskAssumption`, `OrderAssumption` (every task has one place,
behind what it depends on; what `order` ends with) and `DataAssumption`.  `Repeatable`
is a hypothesis, since the first upsert (disagreement 1) violates it.

The argument.  `Where` ties the place in the function to the tasks: those before `at`
have succeeded, the others have not begun, or the one at `at` has failed.  `Disk` says
of each destination that it is as the run found it or holds the delivery of this
run's rows; the inputs of a task are settled when it begins and stay so
(`InputsSettled`).  `Recorded` and `Announced` say that only what the run
knew is written down or told.  Convergence spans runs, and their rows were
forgotten with them.  What remains is that all runs over unchanged sources, at times that
no capability and no rule tells apart (`Alike`), compute the same (`OneWay`): were there a task whose tables differ, take the first in the
order; its inputs agree, hence so does it.  So every delivery to an idempotent
destination is of the same rows, over its base or over itself.

### The gate

`QualityGateProofs` proves, for all tables, rules and numbers of attempts:

| Theorem | States |
|---|---|
| `NothingLostHolds` | `Spec => []NothingLost`, if `Unshared` |
| `EvidenceAccountsHolds` | `Spec => []EvidenceAccounts`, if `Unshared` |
| `DownstreamCleanHolds` | `Spec => []DownstreamClean` |

from `GateAssumption` (types: the steps, their rules and what they name).  `Unshared` says
that every quarantine asset belongs to one rule of one step; disagreement 2 is what
happens without it, and only to the first two.

The argument.  A loop over rules is an invariant over those already judged: what is left
of the table meets them (`Judged`), since taking rows away cannot break a rule that holds
of each row, nor make a key repeat.  A row
count is judged of the rows that came in, so what it says of those that pass is shown
from how many they are (`CountKept`): no more than came in, and as many, unless a
rule took some; every row of the original is still in hand, or
in the asset of a rule that has been judged (`Place`); and the record tells
how many (`Told`).  Rows are a sequence: that what is kept and what is rejected are
together what there was, that both have lengths, and that a part of a table is a table,
are lemmas about the enumeration `Ascending` (`RowsFacts`, `RuleFacts`), proved by a
least counterexample.

### Inferred schemas

`SchemaFlowProofs` proves, for every source, pipeline length and set of capabilities'
parameters:

| Theorem | States |
|---|---|
| `FieldsAsInferredHolds` | `Spec => []FieldsAsInferred` |
| `NeverRaisesHolds` | `Spec => []NeverRaises` |
| `SchemaRuleFitsHolds` | `Spec => []SchemaRuleFits` |

from the module's assumptions about constants (`RightAssumption`: the right side
of a join has finitely many fields).  `NeverRaises` has one exception that is not about
inference, an upsert's key that a row lacks (disagreement 12), and `SchemaRuleFits` two:
a source with no registered schema, and a lookup (disagreement 5).  That an upsert whose
keys are in every row leaves only rows with these keys is `UpsertKeeps`.  The three need each other: that the fields are as
inferred is what makes a step not raise, and that no step raised is what gives the next
one its rows.  The invariant adds that all tasks over one source share its schema until
a change of shape (`OneSchema`).  The proof's core is the join: the fields that
`validate` computes for it as a set are those that the loop over columns, with its
renaming, gives one by one (`MergedIsJoined`), which again is by a least counterexample.

### The planner

`PlannerProofs` proves, for every set of drafts and names:

| Theorem | States |
|---|---|
| `NoBypassHolds` | `Spec => []NoBypass`, if `Unstacked` |
| `DraftRespectedHolds` | `Spec => []DraftRespected`, if `Unstacked` |
| `NormalFormHolds` | `Spec => []NormalForm`, if `Unstacked` |
| `RefusedForCauseHolds` | `Spec => []RefusedForCause`, which itself is about drafts without gates |

The assumptions are `NamesAssumption` and `DraftsAssumption` (types) and
`GateAssumption` (two targets have two gates: `q_` is a prefix).  `Unstacked` says that
no rule is about the rows of a gate; disagreement 3 is what happens without it.  That
`Sorted` lists each name of a set, and no other, is proved (`SortedFacts`): a name's
place is the number of names up to it.

The argument.  A target that has been looked at has its gate and no other consumer
(`Gated`), and leading the consumers of the next target neither brings one back nor
touches the gate's input, because no target is a gate and no two gates are one.  What
the draft puts before a task is still waited for, itself or as its gate, through
every step (`Kept`); what a revision strips is remembered as the target whose gate it
was, which is still to be looked at.  `order` places a task behind all it waits for
(`Placed`), so that what waits for itself is never placed, and a gate and its target
are both in front of the consumer.

For the refusals, every name that a task of a gateless draft waits for is one that the
draft put there, or the gate of one (`Traced`).  So no gate collides, no name is missing
that the draft knew, and tasks that wait for each other in `order` do so in the draft
too (`StuckIsCyclic`, `OnlyCycles`): a set in which each waits for another, led back
through the gates, still is one.

For the normal form, the second time starts from tasks that were returned: they are
placed, hence without cycles (`PlacedAcyclic`), and no target has a consumer but its
gate.  A revision turns the consumers back (`Turned`), and leading the next target
undoes it for that target alone (`LedIsTurned`), so that in the end the tasks are what
they were, but for gates made anew.  `order` then goes through the same rounds
(`FollowsRound`), since a round is determined by the tasks and what is placed; and it
cannot be stuck, since what is stuck holds a cycle.

### Approval, deployment, repair

`LifecycleProofs` proves, for every set of designs and catalogs, every life of an
approval and every bound:

| Theorem | States |
|---|---|
| `TypeCorrect` | `Spec => []TypeOK` |
| `ActsAuthorisedHolds` | `Spec => []ActsAuthorised` |
| `InstalledAuthorisedHolds` | `Spec => []InstalledAuthorised` |
| `ManifestProvesHolds` | `Spec => []ManifestProves` |
| `RefusesForCauseHolds` | `Spec => RefusesForCause` |
| `ProposalGroundedHolds` | `Spec => ProposalGrounded` |
| `RepairAnswersHolds` | `Spec => RepairAnswers` |

The assumptions are `LimitsAssumption` (the bounds are naturals) and
`NormalAssumption`: normalizing is idempotent, and a specification is judged like
its normal form.  The second half is how `validate` begins
(`validation/__init__.py:37`).  The first is `NormalForm` of `Planner`, which is proved
for all drafts that are `Unstacked`; it fails for drafts with stacked gates (disagreement 3), and for
those the theorems say nothing.

The argument.  The files change under everybody who reads them, so the invariant
is about what each process has in hand: a deploy past `Check` holds a pair and the
approval that covered it (`JobAgreed`), hence so do the DAG and the manifest it
writes, whatever is in the files by then; a worker holds what was once in the
folder, and once admitted remembers a time at which an approval lived
(`WorkerAgreed`).  Approvals are never unsigned, which carries all of it over every
other step.  For proposals, the record of a local run is of a normal specification
(`RecordAgreed`), so equality of the digests makes the base the one that ran.

### Shared destinations

`SharedDestinationProofs` proves, for all pipelines, destinations, databases, modes and
numbers of attempts:

| Theorem | States |
|---|---|
| `NoneLostHolds` | `Spec => []NoneLost` |
| `SerialUnlessOutlivedHolds` | `Spec => []SerialUnlessOutlived` |
| `RefusedForCauseHolds` | `Spec => RefusedForCause` |

and

| Theorem | States |
|---|---|
| `WholeHolds` | `Spec => []Whole` |

from `WritersAssumption` (types) and `ReplaceAssumption` (what does not merge does not
look at the old contents).  The invariant says that where no two writers met, there is
at most one between its look and its write (`Alone`), and what it saw is what is there
(`Fresh`); that the attempt of a scheduled pipeline that is alive is the one Airflow
waits for, unless one outlived its run (`Awaited`), hence those that met have an excuse
(`Excused`); and that attempts are numbered as they start, so that those in the log
came before those alive (`Logged`, `InOrder`).  For refusals it accounts for every
database file (`Filed`, `Accounted`): it was there at first, or a table of it was put in
place, or a process is between `Connect` and its commit, or one ended there.

`Whole` speaks of contents that a chain of writes gives, which `StoredTable` and the
module define by a recursive function of the number of writes.  What the function gives
is reasoned about by the least number for which a claim fails (`WFMin`), the one form of
induction within reach: two chains with the same writes give the same (`ChainUnique`), a
write more gives the next (`ChainGrows`), and what was made of a prefix of the log can
still be made of it (`StillMade`).  The invariant then says of the destination, and of
what every process has seen of it, that writes in the log make it.

### From a request to files

`AuthoringProofs` proves, for every catalog, request, answer of a model, set of paths
and set of commands:

| Theorem | States |
|---|---|
| `PairAgreesHolds` | `Spec => []PairAgrees` |
| `DagsWholeHolds` | `Spec => []DagsWhole` |
| `ValidRunsHolds` | `Spec => []ValidRuns` |
| `GuardedEffectsHolds` | `Spec => []GuardedEffects` |
| `AnswersWholeHolds` | `Spec => []AnswersWhole` |

from `CatalogAssumption` (finitely many assets, of the known types), `PathsAssumption`,
`JobsAssumption` (types; a DAG and its test are two files; a model's answer was parsed)
and `DisksAssumption` (DAGs that are there are whole, and what is a specification has
the fields of one).
For the first two the invariant follows what a command has written: a command that
writes keeps writing until it is done, a create among them had found its paths free
(`Looked`), so whoever else writes one of its paths meets it there (`StillMet`,
`OthersMeet`).  `ValidRuns` and `GuardedEffects` are about `validate` alone: everything
handed on is valid (`Judged`), and each look-up of a run is implied, case by case, by a
condition of `Valid` (`ReadsAllowed`, `WritesAllowed`, `QuarantinesAllowed`).  `AnswersWhole` goes
through the questions: an answer is ready only if none was asked (`CreationAsked`,
`ModificationAsked`), and what is then created or modified gives each word that is not
dropped (`CreatedGives`, `ModifiedGives`); with it goes that whatever lies in a file as
a specification, or is answered, is one (`Parsed`), since a revision starts from it.

### Only model-checked

`RunEnds` is liveness under fairness, which is out of the prover's reach, and stays with
TLC.  So do the hypotheses of the theorems above at their edge: what happens to rules
with one asset, stacked gates and first upserts is shown by the three runs that expect
a violation.

## Disagreements found

1. **The first upsert is not merged** (`storage.py:139`).  Keys are looked at only if
   the path exists.  A source with two rows of one key is stored as it is by the
   first run and merged by the second: upsert is not idempotent, although the
   policy recommends it for that (`policy/__init__.py:81`, `LIMITATIONS.md:23`).
2. **Two rules with one quarantine asset lose rows** (`runtime/__init__.py:255`).  Each
   rule replaces the asset, even by no rows at all; validation counts only tasks'
   outputs as writers.
3. **A rule about a gate's rows can be gone round** (`planner/__init__.py:44`).  With a
   rule on `read` and one on the existing gate `q_read`, the consumers of `read` end
   up behind the first gate and beside the second.  (Normalizing the result again
   repairs it, so that signing, compiling and the worker see different graphs.)

The others have no run of their own: they are exceptions that the named property had to
make to hold, or were met in writing the definition named.

4. **Repair refuses drafts** (`cli/__init__.py:269`; `RepairAnswers`).  The commands of
   the manual (`USER_MANUAL.md:215-218`) take `examples/orders.yaml`, which has a rule
   and no gate; the records carry the digest of the normalized specification.  `observe`
   refuses the same file if the state lists the gate's task.
5. **A lookup does not count as a change of shape** (`validation/__init__.py:240`;
   `SchemaRuleFits`).  After `enrich.lookup` a schema rule may still fall back to the
   source's schema, although it adds columns as a join does; every row is then rejected
   (`USER_MANUAL.md:182` asks for an explicit schema there).  Nor does `validate` ask for
   an explicit schema where none is registered for the source: the rule falls back to
   no columns at all, and rejects every row (`runtime/__init__.py:249-250`, `:67`).
6. **Inferred fields that rows do not have** (`validation/__init__.py:157-169`; `Trust`).
   Rows without a match come out of a left join without the right fields, so that a later
   `map`, `deduplicate` or `aggregate` of these raises; a union has the schema of its
   first input; and a column renamed to `right_x` next to another `right_x` replaces
   it, or is renamed again, depending on the order of columns.
7. **A new table in an existing database file** (`storage.py:139-144`; `MissingTable`).
   Append and upsert look for the file and then read the table, which raises, where
   with any other destination the first write makes it.  A first write that dies, or
   fails on a row that SQLite cannot store, has made the file already
   (`storage.py:196`): from then on each append or upsert is refused, alone and again
   and again, until somebody replaces the table or removes the file.
8. **Words that are dropped** (`controlled.py:1`, "unsupported requests ask questions";
   `Droppable`).  A rule after the first, an alert at creation, a join without a second
   source, append beside delete, and, in a modification, everything but one change, are
   left out without a question.  An alias that is also another asset's identifier gives
   both assets as sources (`Named`); an ambiguous name of a destination is written to all
   that it matches, where the manual says that ambiguity produces a question.
9. **What validates and cannot run** (`Unforeseen`).  SQLite assets without a table, HTTP
   sources without the administrator's consent, quarantine assets of a type that cannot
   be written, and the asset of `ops.notification` pass `validate` and are refused by the
   run, after the tasks before have had their effects.
10. **`--out x.py`** (`cli/__init__.py:73-78`; `PairAgrees`).  `create` writes the DAG over
    the specification it has just saved.  Two creates of one name that race, or a compile
    over the DAG that a create has just tested for, replace each other's files (`Met`).
11. **A revision forgets** (`intent/controlled.py:106-116`; `Anew`).  Gates are stripped and
    made anew, without whatever else they were to wait for.  A revision by "quarantine"
    gives every rule the one quarantine asset, which leads to disagreement 2.
12. **Upsert keys are not checked against the fields** (`validation/__init__.py:80`;
    `NeverRaises`).  A destination must have keys, but any: one that is not a field of
    the rows, or of those that the file holds, validates and raises `KeyError` in the
    run (`storage.py:149`).  Not in the first, for the reason of disagreement 1.
13. **Another day, other rows** (`runtime/__init__.py:290`, `:77-85`, `:140-154`;
    `RerunConverges`).  A run reads the clock.  Run again later over the same source, a
    freshness rule or a `previous_day` window passes other rows, and an upsert leaves
    the rows of both: what the earlier run delivered is not taken back.
14. **A minimum is asked of the rows that come in** (`runtime/__init__.py:86-94`, `:259`;
    `DownstreamClean`).  Rows are dropped after all rules were judged.  A `row_count` is
    met by rows that a rule beside it sends to quarantine, and fewer than its minimum go
    downstream; as a quarantine rule, it lets an empty table through.

## What is not modelled

* Pure I/O: formats and decoding of `storage.read`, path confinement, the transport and
  the prompts of the HTTP provider, environment variables.
* Pure text: the patterns of the controlled language (a request is what they find), times
  and time zones of a schedule, the text of DAGs and explanations, the regular
  expressions for secrets and attacks, the scripts.
* Constant tables and data types: the JSON schemas of capabilities, pydantic's checks of
  single fields, `diff`.
* Sequential loops without shared state: the evaluation harness, and the values that
  capabilities compute from rows (their fields are in `SchemaFlow`).
* `status` and `ask`, which only print what was recorded (`latest` hides a run without a
  record), and what `from_airflow` takes for the digest of the DAG that ran, which is the
  one hazard without a property.
* The round trip of a table through its file (`storage.py:84-97`, `:162-170`): an empty
  string, a type or a column that CSV does not keep.  `StoredTable` merges with the rows
  as they were written.
* SQLite but in `SharedDestination`: `AirflowWorker` and `LocalRunner` take a destination
  to exist if it has contents, and nobody's lock stands in their way.  In
  `SharedDestination` only writers look at a database, and no task that reads from it.
* Of `validate`, conditions that are not on assets, such as the number of a
  task's inputs (`validation/__init__.py:93`); of `interpret`, that the previous
  specification is scanned for secrets and attacks (`intent/__init__.py:301-304`).
  In both the model accepts more than the code.
* Names within names: the code finds a destination's alias anywhere in the text
  (`controlled.py:175`), the model goes by the names that were mentioned.
* `ops.notification`, as an effect: its file has the run's name, and no run here has one
  as an output, so that `EffectOnce` says nothing of it.
* Of `save` and a torn file: a mixture of two texts that happens to parse.
* Assets with only one of a table and a schema.

Airflow is external: modelled are the rules that the generated DAG relies on
(`all_success`, retries, heartbeats, leaves, time limits), not its scheduler.
