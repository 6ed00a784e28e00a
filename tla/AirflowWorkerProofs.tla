------------------------ MODULE AirflowWorkerProofs --------------------------
(***************************************************************************)
(* Theorems about AirflowWorker, for every pipeline, retry policy, set of  *)
(* disturbances and contents of the assets.                                *)
(***************************************************************************)
EXTENDS AirflowWorker, TLAPS

\* The steps of an attempt that has its rows.
Computed == {"write", "checked", "artifact", "evidence", "return"}

\* An attempt past the computation holds a table: the write of an output is never
\* given anything else.
RowsHeld == \A a \in Attempts : pc[a] \in Computed => rows[a] \in Values

\* A process that ends leaves its local variables in their types.
LEMMA ExitType ==
  ASSUME TypeOK, NEW a \in Attempts, NEW step \in Steps, Exit(a, step)
  PROVE  /\ pc' \in [Attempts -> Steps] /\ got' \in [Attempts -> [Tasks -> Table]]
         /\ old' \in [Attempts -> Table] /\ rows' \in [Attempts -> Table]
BY DEF Exit, Goto, TypeOK, NoTables, Table

\* Raising, the way most actions can end, keeps every variable in its type.
LEMMA RaiseType ==
  ASSUME TypeOK, NEW a \in Attempts, Raise(a),
         quarantine' \in [Tasks -> Table], alarms' \subseteq Attempts
  PROVE  TypeOK'
<1>1. a[1] \in Tasks
  BY DEF Attempts
<1>2. AfterFailure(a[1]) \in TaskStates
  BY DEF AfterFailure, TaskStates
<1>3. ti' \in [Tasks -> TaskStates]
  BY <1>1, <1>2 DEF Raise, TypeOK
<1>4. "raised" \in Steps
  BY DEF Steps
<1>5. QED
  BY <1>3, <1>4, ExitType DEF Raise, TypeOK, disk, world

\* No step gives an attempt that has its rows anything but a table.
LEMMA RowsStep ==
  ASSUME TypeOK, RowsHeld, Next
  PROVE  RowsHeld'
<1>1. ASSUME NEW t \in Tasks, Start(t) PROVE RowsHeld'
  BY <1>1 DEF Start, RowsHeld, Computed, TypeOK
<1>2. ASSUME UNCHANGED <<pc, rows>> PROVE RowsHeld'
  BY <1>2 DEF RowsHeld
<1>3. ASSUME NEW a \in Attempts, NEW step \in Steps \ Computed, Exit(a, step)
      PROVE  RowsHeld'
  BY <1>3 DEF Exit, Goto, RowsHeld, Computed, TypeOK
<1>4. ASSUME NEW a \in Attempts, Raise(a) PROVE RowsHeld'
  BY <1>4, <1>3 DEF Raise, Steps, Computed
<1>5. ASSUME NEW a \in Attempts, NEW step \in Steps, Goto(a, step), rows' = rows,
             step \in Computed => pc[a] \in Computed
      PROVE  RowsHeld'
  BY <1>5 DEF Goto, RowsHeld, TypeOK
<1>6. ASSUME NEW a \in Attempts, Work(a) PROVE RowsHeld'
  <2>1. CASE Admit(a)
    BY <2>1, <1>4, <1>5 DEF Admit, Steps, Computed
  <2>2. ASSUME NEW u \in Tasks, ReadArtifact(a, u) PROVE RowsHeld'
    BY <2>2, <1>2, <1>4 DEF ReadArtifact
  <2>3. CASE Compute(a)
    <3> DEFINE result == IF a[1] \in Ingest THEN source[a[1]]
                         ELSE Apply(a[1], Given(got[a], a[1]))
    <3>1. result \in Table
      <4>1. a[1] \in Tasks
        BY DEF Attempts
      <4>2. Given(got[a], a[1]) \in [Inputs[a[1]] -> Table]
        BY <4>1, TaskAssumption DEF Given, TypeOK
      <4>3. QED
        BY <4>1, <4>2, DataAssumption DEF TypeOK, Table
    <3>2. CASE result = NoValue
      BY <2>3, <3>2, <1>4 DEF Compute
    <3>3. CASE result # NoValue
      <4>1. rows' = [rows EXCEPT ![a] = result] /\ result \in Values
        BY <2>3, <3>1, <3>3 DEF Compute, Table
      <4>2. \A b \in Attempts : b # a => pc'[b] = pc[b]
        BY <2>3, <3>3 DEF Compute, Goto, TypeOK
      <4>3. QED
        BY <4>1, <4>2 DEF RowsHeld, TypeOK
    <3>4. QED
      BY <3>2, <3>3
  <2>4. CASE WriteOutput(a)
    BY <2>4, <1>4, <1>5 DEF WriteOutput, At, Steps, Computed
  <2>5. CASE CheckRows(a)
    BY <2>5, <1>4, <1>5 DEF CheckRows, At, Steps, Computed
  <2>6. CASE PutArtifact(a)
    BY <2>6, <1>5 DEF PutArtifact, At, Steps, Computed
  <2>7. CASE PutEvidence(a)
    BY <2>7, <1>5 DEF PutEvidence, At, Steps, Computed
  <2>8. CASE Return(a)
    BY <2>8, <1>3 DEF Return, Steps, Computed
  <2>9. CASE Alarm(a)
    BY <2>9, <1>2 DEF Alarm, worker
  <2>10. QED
    BY <1>6, <2>1, <2>2, <2>3, <2>4, <2>5, <2>6, <2>7, <2>8, <2>9 DEF Work
<1>7. ASSUME NEW a \in Attempts, Fault(a) \/ Crash(a) PROVE RowsHeld'
  BY <1>7, <1>3, <1>4 DEF Fault, Crash, Steps, Computed
<1>8. QED
  BY <1>1, <1>2, <1>6, <1>7 DEF Next, Airflow, GiveUp, UpstreamFailed, FinishRun,
     RunTimeout, Notify, ChangeSource, ChangeAuthority, worker

\* The type invariant is inductive only together with RowsHeld: what an output
\* writes is a table because the attempt computed one.
LEMMA TypeInvariant == Spec => [](TypeOK /\ RowsHeld)
<1>1. Init => TypeOK /\ RowsHeld
  <2> SUFFICES ASSUME Init PROVE TypeOK /\ RowsHeld
    OBVIOUS
  <2>1. /\ run \in {"running", "success", "failed"} /\ ti \in [Tasks -> TaskStates]
        /\ outbox \in {"none", "lost", "success", "failure"}
        /\ pc \in [Attempts -> Steps]
    BY DEF Init, TaskStates, Steps
  <2>2. try \in [Tasks -> 0 .. MaxRetries + 1]
    BY LimitAssumption DEF Init
  <2>3. NoTables \in [Tasks -> Table] /\ NoValue \in Table
    BY DEF NoTables, Table
  <2>4. /\ xcom \in [Tasks -> Table] /\ got \in [Attempts -> [Tasks -> Table]]
        /\ old \in [Attempts -> Table] /\ rows \in [Attempts -> Table]
        /\ file \in [Tasks -> Table] /\ evidence \in [Tasks -> [Tasks -> Table]]
        /\ quarantine \in [Tasks -> Table] /\ alarms \subseteq Attempts
    BY <2>3 DEF Init
  <2>5. dest \in [Outputs -> Table] /\ source \in [Ingest -> SourceTables]
    BY DataAssumption DEF Init
  <2>6. catalogSame \in BOOLEAN /\ approvalLive \in BOOLEAN
    BY DEF Init
  <2>7. RowsHeld
    BY DEF Init, RowsHeld, Computed
  <2>8. QED
    BY <2>1, <2>2, <2>4, <2>5, <2>6, <2>7 DEF TypeOK
<1>2. TypeOK /\ RowsHeld /\ [Next]_vars => TypeOK'
  <2> SUFFICES ASSUME TypeOK, RowsHeld, [Next]_vars PROVE TypeOK'
    OBVIOUS
  <2>1. ASSUME NEW t \in Tasks, Start(t) PROVE TypeOK'
    <3>1. try' \in [Tasks -> 0 .. MaxRetries + 1]
      <4>1. try[t] \in 0 .. MaxRetries + 1 /\ Retries[t] \in 0 .. MaxRetries
        BY LimitAssumption DEF TypeOK
      <4>2. try[t] + 1 \in 0 .. MaxRetries + 1
        BY <2>1, <4>1, LimitAssumption DEF Start
      <4>3. QED
        BY <2>1, <4>2 DEF Start, TypeOK
    <3>2. ti' \in [Tasks -> TaskStates] /\ pc' \in [Attempts -> Steps]
      BY <2>1 DEF Start, TypeOK, TaskStates, Steps
    <3>3. QED
      BY <2>1, <3>1, <3>2 DEF Start, TypeOK, disk, gate, world
  <2>2. ASSUME NEW t \in Tasks, GiveUp(t) PROVE TypeOK'
    BY <2>2 DEF GiveUp, AfterFailure, TypeOK, TaskStates, worker, disk, gate, world
  <2>3. ASSUME NEW t \in Tasks, UpstreamFailed(t) PROVE TypeOK'
    BY <2>3 DEF UpstreamFailed, TypeOK, TaskStates, worker, disk, gate, world
  <2>4. CASE FinishRun
    BY <2>4 DEF FinishRun, TypeOK, worker, disk, gate, world
  <2>5. CASE RunTimeout
    BY <2>5 DEF RunTimeout, TypeOK, TaskStates, worker, disk, gate, world
  <2>6. CASE Notify
    BY <2>6 DEF Notify, TypeOK, air, worker, disk, gate, world
  <2>7. ASSUME NEW a \in Attempts, Work(a) PROVE TypeOK'
    <3>0. a[1] \in Tasks
      BY DEF Attempts
    <3>1. CASE Admit(a)
      BY <3>1, RaiseType DEF Admit, Goto, TypeOK, Steps, air, disk, gate, world
    <3>2. ASSUME NEW u \in Tasks, ReadArtifact(a, u) PROVE TypeOK'
      <4>1. CASE file[u] # xcom[u]
        BY <3>2, <4>1, RaiseType DEF ReadArtifact, TypeOK, gate
      <4>2. CASE file[u] = xcom[u]
        <5>1. got' = [got EXCEPT ![a][u] = file[u]]
          BY <3>2, <4>2 DEF ReadArtifact
        <5>2. got' \in [Attempts -> [Tasks -> Table]]
          BY <5>1 DEF TypeOK
        <5>3. QED
          BY <3>2, <4>2, <5>2 DEF ReadArtifact, TypeOK, air, disk, gate, world
      <4>3. QED
        BY <4>1, <4>2
    <3>3. CASE Compute(a)
      <4> DEFINE result == IF a[1] \in Ingest THEN source[a[1]]
                           ELSE Apply(a[1], Given(got[a], a[1]))
      <4>1. Given(got[a], a[1]) \in [Inputs[a[1]] -> Table]
        BY <3>0, TaskAssumption DEF Given, TypeOK
      <4>2. result \in Table
        BY <3>0, <4>1, DataAssumption DEF TypeOK, Table
      <4>g. quarantine' \in [Tasks -> Table] /\ alarms' \subseteq Attempts
        BY <3>0, <3>3, <4>1, DataAssumption DEF Compute, TypeOK
      <4>3. CASE result = NoValue
        BY <3>3, <4>g, <4>3, RaiseType DEF Compute
      <4>4. CASE result # NoValue
        <5>1. /\ rows' = [rows EXCEPT ![a] = result]
              /\ old' = IF a[1] \in Outputs THEN [old EXCEPT ![a] = dest[a[1]]] ELSE old
              /\ pc' = [pc EXCEPT ![a] = IF a[1] \in Outputs THEN "write" ELSE "checked"]
              /\ UNCHANGED <<air, got, disk, world, outbox, alarms>>
          BY <3>3, <4>4 DEF Compute, Goto
        <5>2. rows' \in [Attempts -> Table] /\ old' \in [Attempts -> Table]
          BY <4>2, <5>1 DEF TypeOK
        <5>3. pc' \in [Attempts -> Steps]
          BY <5>1 DEF TypeOK, Steps
        <5>4. QED
          BY <4>g, <5>1, <5>2, <5>3 DEF TypeOK, air, disk, world
      <4>5. QED
        BY <4>3, <4>4
    <3>4. CASE WriteOutput(a)
      <4> DEFINE new == Store(a[1], old[a], rows[a])
      <4>1. CASE new = NoValue
        BY <3>4, <4>1, RaiseType DEF WriteOutput, TypeOK, gate
      <4>2. CASE new # NoValue
        <5>1. /\ dest' = [dest EXCEPT ![a[1]] = new]
              /\ pc' = [pc EXCEPT ![a] = "checked"]
              /\ UNCHANGED <<air, got, old, rows, file, evidence, gate, world, outbox>>
          BY <3>4, <4>2 DEF WriteOutput, Goto
        <5>2. rows[a] \in Values
          BY <3>4 DEF WriteOutput, At, RowsHeld, Computed, TypeOK
        <5>3. a[1] \in Outputs => new \in Table
          BY <5>2, DataAssumption DEF TypeOK
        <5>4. dest' \in [Outputs -> Table]
          BY <5>1, <5>3 DEF TypeOK
        <5>5. pc' \in [Attempts -> Steps]
          BY <5>1 DEF TypeOK, Steps
        <5>6. QED
          BY <5>1, <5>4, <5>5 DEF TypeOK, air, gate, world
      <4>3. QED
        BY <4>1, <4>2
    <3>5. CASE CheckRows(a)
      BY <3>5, RaiseType DEF CheckRows, Goto, TypeOK, Steps, air, disk, gate, world
    <3>6. CASE PutArtifact(a)
      BY <3>0, <3>6 DEF PutArtifact, Goto, TypeOK, Steps, air, gate, world
    <3>7. CASE PutEvidence(a)
      BY <3>0, <3>7 DEF PutEvidence, Goto, TypeOK, Steps, air, gate, world
    <3>8. CASE Return(a)
      <4>1. Exit(a, "returned")
        BY <3>8 DEF Return
      <4>2. xcom' \in [Tasks -> Table] /\ ti' \in [Tasks -> TaskStates]
        <5>1. rows[a] \in Table /\ "success" \in TaskStates
          BY DEF TypeOK, TaskStates
        <5>2. CASE Current(a)
          BY <3>0, <3>8, <5>1, <5>2 DEF Return, TypeOK
        <5>3. CASE ~Current(a)
          BY <3>8, <5>3 DEF Return, TypeOK
        <5>4. QED
          BY <5>2, <5>3
      <4>3. QED
        BY <3>8, <4>1, <4>2, ExitType DEF Return, TypeOK, Steps, disk, gate, world
    <3>9. CASE Alarm(a)
      <4>1. UNCHANGED <<air, worker, disk, quarantine, world, outbox>>
        BY <3>9 DEF Alarm
      <4>2. alarms' \subseteq Attempts
        BY <3>9 DEF Alarm, TypeOK
      <4>3. QED
        BY <4>1, <4>2 DEF TypeOK, air, worker, disk, world
    <3>10. QED
      BY <2>7, <3>1, <3>2, <3>3, <3>4, <3>5, <3>6, <3>7, <3>8, <3>9 DEF Work
  <2>8. ASSUME NEW a \in Attempts, Fault(a) PROVE TypeOK'
    BY <2>8, RaiseType DEF Fault, TypeOK, gate
  <2>9. ASSUME NEW a \in Attempts, Crash(a) PROVE TypeOK'
    BY <2>9 DEF Crash, Exit, Goto, TypeOK, Steps, NoTables, Table, air, disk, gate, world
  <2>10. ASSUME NEW t \in Ingest, ChangeSource(t) PROVE TypeOK'
    BY <2>10 DEF ChangeSource, TypeOK, air, worker, disk, gate
  <2>11. CASE ChangeAuthority
    BY <2>11 DEF ChangeAuthority, TypeOK, air, worker, disk, gate
  <2>12. CASE UNCHANGED vars
    BY <2>12 DEF TypeOK, vars, air, worker, disk, gate, world
  <2>13. QED
    BY <2>1, <2>2, <2>3, <2>4, <2>5, <2>6, <2>7, <2>8, <2>9, <2>10, <2>11, <2>12
       DEF Next, Airflow
<1>3. TypeOK /\ RowsHeld /\ [Next]_vars => RowsHeld'
  BY RowsStep DEF RowsHeld, vars, worker
<1>4. QED
  BY <1>1, <1>2, <1>3, PTL DEF Spec

\* Every variable keeps its type: the state of the run, of its workers and of the
\* shared disk never leaves what the code can represent.
THEOREM TypeCorrect == Spec => []TypeOK
  BY TypeInvariant, PTL

-------------------------------------------------------------------------------
\* The inductive invariant.

Judged == {"artifact", "evidence", "return"}
Upstream(t) == \A d \in Deps[t] : ti[d] = "success"
Due(t) == Apply(t, Given(xcom, t))

\* A reference exists exactly for the tasks that succeeded.
Handed == \A t \in Tasks : ti[t] = "success" <=> xcom[t] # NoValue

\* An attempt exists only below successful tasks; what it has read is what the
\* references of its inputs name.
StartedFor(a) ==
  /\ pc[a] # "none" => Upstream(a[1])
  /\ \A u \in Tasks : got[a][u] # NoValue => u \in Inputs[a[1]] /\ got[a][u] = xcom[u]
  /\ got[a] # NoTables => pc[a] # "none"

\* An attempt that has its rows computed them from the final inputs.
DerivedFor(a) ==
  /\ pc[a] \in Computed =>
       /\ \A u \in Inputs[a[1]] : got[a][u] = xcom[u]
       /\ a[1] \notin Ingest => rows[a] = Due(a[1])
  /\ pc[a] \in Judged => Fits(a[1], rows[a])

\* A destination that holds its one delivery.
Landed(t) ==
  /\ Upstream(t) /\ Due(t) # NoValue
  /\ dest[t] = Store(t, Base[t], Due(t)) /\ dest[t] # NoValue

DeliveredFor(a) ==
  a[1] \in Once =>
    /\ pc[a] = "write" => old[a] = Base[a[1]] \/ (Landed(a[1]) /\ old[a] = dest[a[1]])
    /\ pc[a] \in Computed \ {"write"} => Landed(a[1])

\* No destination is touched before its upstream tasks have succeeded, and an
\* idempotent one only by its delivery.
Touched ==
  /\ \A t \in Outputs : dest[t] # Base[t] => Upstream(t)
  /\ \A t \in Once : dest[t] # Base[t] \/ ti[t] = "success" => Landed(t)

\* A successful task has successful upstream, and handed on what that gives.
Settled ==
  \A t \in Tasks : ti[t] = "success" =>
    Upstream(t) /\ (t \notin Ingest => xcom[t] = Due(t))

AttemptInv ==
  \A a \in Attempts : StartedFor(a) /\ DerivedFor(a) /\ DeliveredFor(a)

IInv == TypeOK /\ RowsHeld /\ Handed /\ AttemptInv /\ Settled /\ Touched

-------------------------------------------------------------------------------
\* What the process of an attempt does.
Acts(a) == Work(a) \/ Fault(a) \/ Crash(a)

\* A worker process changes no other's memory.
LEMMA Frame ==
  ASSUME TypeOK, NEW a \in Attempts, Acts(a), NEW b \in Attempts, b # a
  PROVE  /\ pc'[b] = pc[b] /\ got'[b] = got[b]
         /\ old'[b] = old[b] /\ rows'[b] = rows[b]
<1>1. ASSUME NEW step \in Steps, Exit(a, step)
      PROVE  /\ pc'[b] = pc[b] /\ got'[b] = got[b]
             /\ old'[b] = old[b] /\ rows'[b] = rows[b]
  BY <1>1 DEF Exit, Goto, TypeOK
<1>2. CASE Raise(a)
  BY <1>1, <1>2 DEF Raise, Steps
<1>3. CASE Crash(a)
  BY <1>1, <1>3 DEF Crash, Steps
<1>4. CASE Work(a)
  <2>1. CASE Admit(a)
    BY <2>1, <1>2 DEF Admit, Goto, TypeOK
  <2>2. ASSUME NEW u \in Tasks, ReadArtifact(a, u)
        PROVE  /\ pc'[b] = pc[b] /\ got'[b] = got[b]
               /\ old'[b] = old[b] /\ rows'[b] = rows[b]
    BY <2>2, <1>2 DEF ReadArtifact, TypeOK
  <2>3. CASE Compute(a)
    BY <2>3, <1>2 DEF Compute, Goto, TypeOK
  <2>4. CASE WriteOutput(a)
    BY <2>4, <1>2 DEF WriteOutput, Goto, TypeOK
  <2>5. CASE CheckRows(a)
    BY <2>5, <1>2 DEF CheckRows, Goto, TypeOK
  <2>6. CASE PutArtifact(a) \/ PutEvidence(a) \/ Alarm(a)
    BY <2>6 DEF PutArtifact, PutEvidence, Alarm, worker, Goto, TypeOK
  <2>7. CASE Return(a)
    BY <2>7, <1>1 DEF Return, Steps
  <2>8. QED
    BY <1>4, <2>1, <2>2, <2>3, <2>4, <2>5, <2>6, <2>7 DEF Work
<1>5. QED
  BY <1>2, <1>3, <1>4 DEF Acts, Fault

\* The steps of Airflow and of the world leave the workers and the disk alone,
\* but for the attempt that Start creates.
LEMMA Outside ==
  ASSUME Next
  PROVE  \/ \E a \in Attempts : Acts(a)
         \/ \E t \in Tasks : Start(t)
         \/ UNCHANGED <<worker, disk, xcom>>
BY DEF Next, Airflow, Acts, GiveUp, UpstreamFailed, FinishRun, RunTimeout, Notify,
       ChangeSource, ChangeAuthority, air

\* What Airflow does to a task instance and to its reference is nothing, once the
\* task has succeeded.
LEMMA FinalStep ==
  ASSUME TypeOK, Next, NEW t \in Tasks, ti[t] = "success"
  PROVE  ti'[t] = "success" /\ xcom'[t] = xcom[t]
<1>1. ASSUME NEW a \in Attempts, Raise(a) PROVE ti'[t] = "success" /\ xcom'[t] = xcom[t]
  BY <1>1 DEF Raise, Current, TypeOK
<1>2. ASSUME NEW a \in Attempts, Work(a) PROVE ti'[t] = "success" /\ xcom'[t] = xcom[t]
  <2>1. CASE Return(a)
    BY <2>1 DEF Return, Current, TypeOK
  <2>2. CASE ~Return(a)
    BY <1>1, <1>2, <2>2 DEF Work, Admit, ReadArtifact, Compute, WriteOutput, CheckRows,
       PutArtifact, PutEvidence, Alarm, air
  <2>3. QED
    BY <2>1, <2>2
<1>3. ASSUME NEW u \in Tasks, Start(u) \/ GiveUp(u) \/ UpstreamFailed(u)
      PROVE  ti'[t] = "success" /\ xcom'[t] = xcom[t]
  BY <1>3 DEF Start, GiveUp, UpstreamFailed, TypeOK
<1>4. CASE RunTimeout
  BY <1>4 DEF RunTimeout, Final
<1>5. QED
  BY <1>1, <1>2, <1>3, <1>4 DEF Next, Airflow, FinishRun, Notify, Fault, Crash,
     ChangeSource, ChangeAuthority, air

\* Hence the inputs of anything started are settled.
LEMMA Stable ==
  ASSUME TypeOK, Next, NEW t \in Tasks, Upstream(t)
  PROVE  /\ Upstream(t)' /\ Due(t)' = Due(t)
         /\ \A u \in Inputs[t] : xcom'[u] = xcom[u]
<1>1. Deps[t] \subseteq Tasks /\ Inputs[t] \subseteq Deps[t]
  BY TaskAssumption
<1>2. \A d \in Deps[t] : ti'[d] = "success" /\ xcom'[d] = xcom[d]
  BY <1>1, FinalStep DEF Upstream
<1>3. Given(xcom', t) = Given(xcom, t)
  BY <1>1, <1>2 DEF Given
<1>4. QED
  BY <1>1, <1>2, <1>3 DEF Upstream, Due

\* Init establishes the invariant.
LEMMA InvInit == ASSUME TypeOK, Init PROVE IInv
<1>1. RowsHeld
  BY DEF Init, RowsHeld, Computed
<1>2. Handed /\ Settled
  BY DEF Init, Handed, Settled, NoTables
<1>3. Touched
  <2>1. Once \subseteq Tasks /\ Outputs \subseteq Tasks
    BY TaskAssumption
  <2>2. QED
    BY <2>1 DEF Init, Touched
<1>4. AttemptInv
  BY DEF Init, AttemptInv, StartedFor, DerivedFor, DeliveredFor, NoTables, Computed, Judged
<1>5. QED
  BY <1>1, <1>2, <1>3, <1>4 DEF IInv

\* References appear with success only.
LEMMA HandedStep ==
  ASSUME IInv, TypeOK', Next
  PROVE  Handed'
<1> USE DEF IInv
<1>1. ASSUME NEW a \in Attempts, Return(a) PROVE Handed'
  <2>1. CASE Current(a)
    <3>1. rows[a] \in Values
      BY <1>1 DEF Return, At, RowsHeld, Computed
    <3>2. QED
      BY <1>1, <2>1, <3>1, DataAssumption DEF Return, Handed, TypeOK
  <2>2. CASE ~Current(a)
    BY <1>1, <2>2 DEF Return, Handed
  <2>3. QED
    BY <2>1, <2>2
<1>2. ASSUME xcom' = xcom,
             \A t \in Tasks : ti'[t] = "success" <=> ti[t] = "success"
      PROVE  Handed'
  BY <1>2 DEF Handed
<1>3. ASSUME NEW a \in Attempts, Raise(a) PROVE Handed'
  BY <1>3, <1>2 DEF Raise, Current, AfterFailure, TypeOK
<1>4. ASSUME NEW a \in Attempts, Work(a) PROVE Handed'
  BY <1>1, <1>2, <1>3, <1>4 DEF Work, Admit, ReadArtifact, Compute, WriteOutput, CheckRows,
     PutArtifact, PutEvidence, Alarm, air
<1>5. ASSUME NEW t \in Tasks, Start(t) \/ GiveUp(t) \/ UpstreamFailed(t) PROVE Handed'
  BY <1>5, <1>2 DEF Start, GiveUp, AfterFailure, UpstreamFailed, TypeOK
<1>6. CASE RunTimeout
  BY <1>6, <1>2 DEF RunTimeout, Final
<1>7. QED
  BY <1>2, <1>3, <1>4, <1>5, <1>6 DEF Next, Airflow, FinishRun, Notify, Fault, Crash,
     ChangeSource, ChangeAuthority, air

\* What an attempt has read stays what the references name.
LEMMA StartedStep ==
  ASSUME IInv, Next, NEW b \in Attempts
  PROVE  StartedFor(b)'
<1> USE DEF IInv
<1>0. b[1] \in Tasks /\ StartedFor(b)
  BY DEF Attempts, AttemptInv
<1>1. ASSUME pc[b] # "none" PROVE /\ Upstream(b[1])'
                                  /\ \A u \in Inputs[b[1]] : xcom'[u] = xcom[u]
  BY <1>0, <1>1, Stable DEF StartedFor
<1>2. ASSUME pc'[b] = pc[b], got'[b] = got[b] PROVE StartedFor(b)'
  <2>1. CASE got[b] = NoTables
    BY <1>0, <1>1, <1>2, <2>1 DEF StartedFor, NoTables
  <2>2. CASE got[b] # NoTables
    BY <1>0, <1>1, <1>2, <2>2 DEF StartedFor
  <2>3. QED
    BY <2>1, <2>2
<1>3. ASSUME NEW step \in Steps, Exit(b, step), pc[b] # "none" PROVE StartedFor(b)'
  BY <1>1, <1>3 DEF Exit, StartedFor, NoTables, TypeOK
<1>4. ASSUME pc[b] # "none", pc'[b] # "none", got'[b] = got[b] PROVE StartedFor(b)'
  BY <1>0, <1>1, <1>4 DEF StartedFor
<1>5. ASSUME Raise(b), pc[b] # "none" PROVE StartedFor(b)'
  BY <1>3, <1>5 DEF Raise, Steps
<1>6. CASE Acts(b)
  <2>1. CASE Admit(b)
    BY <2>1, <1>4, <1>5 DEF Admit, At, Goto, TypeOK
  <2>2. ASSUME NEW u \in Tasks, ReadArtifact(b, u) PROVE StartedFor(b)'
    <3>1. CASE file[u] # xcom[u]
      BY <2>2, <3>1, <1>5 DEF ReadArtifact, At
    <3>2. CASE file[u] = xcom[u]
      <4>1. /\ pc[b] # "none" /\ u \in Inputs[b[1]]
            /\ got' = [got EXCEPT ![b][u] = xcom[u]] /\ pc' = pc
        BY <2>2, <3>2 DEF ReadArtifact, At
      <4>2. got'[b] = [got[b] EXCEPT ![u] = xcom[u]]
        BY <4>1 DEF TypeOK
      <4>3. \A v \in Tasks : got'[b][v] # NoValue =>
              v \in Inputs[b[1]] /\ got'[b][v] = xcom[v]
        BY <1>0, <4>1, <4>2 DEF StartedFor, TypeOK
      <4>4. QED
        BY <1>1, <4>1, <4>3 DEF StartedFor
    <3>3. QED
      BY <3>1, <3>2
  <2>3. CASE Compute(b)
    BY <2>3, <1>4, <1>5 DEF Compute, HasInputs, At, Goto, TypeOK
  <2>4. CASE WriteOutput(b)
    BY <2>4, <1>4, <1>5 DEF WriteOutput, At, Goto, TypeOK
  <2>5. CASE CheckRows(b)
    BY <2>5, <1>4, <1>5 DEF CheckRows, At, Goto, TypeOK
  <2>6. CASE PutArtifact(b) \/ PutEvidence(b) \/ Alarm(b)
    BY <2>6, <1>2, <1>4 DEF PutArtifact, PutEvidence, Alarm, worker, HasInputs, At, Goto,
       TypeOK
  <2>7. CASE Return(b)
    BY <2>7, <1>3 DEF Return, At, Steps
  <2>8. CASE Fault(b)
    BY <2>8, <1>5 DEF Fault, Active
  <2>9. CASE Crash(b)
    BY <2>9, <1>3 DEF Crash, Active, Steps
  <2>10. QED
    BY <1>6, <2>1, <2>2, <2>3, <2>4, <2>5, <2>6, <2>7, <2>8, <2>9 DEF Acts, Work
<1>7. ASSUME NEW t \in Tasks, Start(t) PROVE StartedFor(b)'
  <2>1. CASE b = <<t, try[t] + 1>>
    <3>1. Upstream(b[1])
      BY <1>7, <2>1 DEF Start, Upstream
    <3>2. Upstream(b[1])' /\ \A u \in Inputs[b[1]] : xcom'[u] = xcom[u]
      BY <1>0, <3>1, Stable
    <3>3. got'[b] = got[b] /\ pc'[b] # "none"
      BY <1>7, <2>1 DEF Start, TypeOK
    <3>4. QED
      BY <1>0, <3>2, <3>3 DEF StartedFor
  <2>2. CASE b # <<t, try[t] + 1>>
    BY <1>7, <2>2, <1>2 DEF Start, TypeOK
  <2>3. QED
    BY <2>1, <2>2
<1>8. ASSUME NEW a \in Attempts, Acts(a), a # b PROVE StartedFor(b)'
  BY <1>8, <1>2, Frame
<1>9. QED
  BY <1>2, <1>6, <1>7, <1>8, Outside DEF worker

\* An attempt that has its rows has them from the final inputs, and still does
\* after any step.
LEMMA DerivedStep ==
  ASSUME IInv, Next, NEW b \in Attempts
  PROVE  DerivedFor(b)'
<1> USE DEF IInv
<1>0. b[1] \in Tasks /\ StartedFor(b) /\ DerivedFor(b)
  BY DEF Attempts, AttemptInv
<1>1. ASSUME pc[b] # "none" PROVE /\ Due(b[1])' = Due(b[1])
                                  /\ \A u \in Inputs[b[1]] : xcom'[u] = xcom[u]
  BY <1>0, <1>1, Stable DEF StartedFor
<1>2. ASSUME got'[b] = got[b], rows'[b] = rows[b],
             pc'[b] \in Computed => pc[b] \in Computed,
             pc'[b] \in Judged => pc[b] \in Judged \/ Fits(b[1], rows[b])
      PROVE  DerivedFor(b)'
  BY <1>0, <1>1, <1>2 DEF DerivedFor, Computed
<1>3. ASSUME pc'[b] \notin Computed PROVE DerivedFor(b)'
  BY <1>3 DEF DerivedFor, Computed, Judged
<1>4. ASSUME NEW step \in Steps \ Computed, Exit(b, step) \/ Goto(b, step)
      PROVE  DerivedFor(b)'
  BY <1>4, <1>3 DEF Exit, Goto, TypeOK
<1>5. ASSUME Raise(b) PROVE DerivedFor(b)'
  BY <1>5, <1>4 DEF Raise, Steps, Computed
<1>6. CASE Acts(b)
  <2>1. CASE Admit(b)
    BY <2>1, <1>4, <1>5 DEF Admit, Steps, Computed
  <2>2. ASSUME NEW u \in Tasks, ReadArtifact(b, u) PROVE DerivedFor(b)'
    BY <2>2, <1>3, <1>5 DEF ReadArtifact, At, Computed
  <2>3. CASE Compute(b)
    <3> DEFINE result == IF b[1] \in Ingest THEN source[b[1]]
                         ELSE Apply(b[1], Given(got[b], b[1]))
    <3>1. CASE result = NoValue
      BY <2>3, <3>1, <1>5 DEF Compute
    <3>2. CASE result # NoValue
      <4>1. \A u \in Inputs[b[1]] : u \in Tasks /\ got[b][u] = xcom[u]
        BY <2>3, <1>0, TaskAssumption DEF Compute, HasInputs, StartedFor
      <4>2. Given(got[b], b[1]) = Given(xcom, b[1])
        BY <4>1 DEF Given
      <4>3. rows'[b] = result /\ got' = got /\ xcom' = xcom
        BY <2>3, <3>2 DEF Compute, TypeOK, air
      <4>4. pc'[b] \notin Judged
        BY <2>3, <3>2 DEF Compute, Goto, TypeOK, Judged
      <4>5. b[1] \notin Ingest => rows'[b] = Due(b[1])'
        BY <4>2, <4>3 DEF Due
      <4>6. QED
        BY <4>1, <4>3, <4>4, <4>5 DEF DerivedFor
    <3>3. QED
      BY <3>1, <3>2
  <2>4. CASE WriteOutput(b)
    BY <2>4, <1>2, <1>5 DEF WriteOutput, At, Goto, TypeOK, Computed, Judged
  <2>5. CASE CheckRows(b)
    BY <2>5, <1>2, <1>5 DEF CheckRows, At, Goto, TypeOK, Computed, Judged
  <2>6. CASE PutArtifact(b) \/ PutEvidence(b) \/ Alarm(b)
    BY <2>6, <1>2 DEF PutArtifact, PutEvidence, Alarm, worker, At, Goto, TypeOK, Computed, Judged
  <2>7. CASE Return(b)
    BY <2>7, <1>4 DEF Return, Steps, Computed
  <2>8. CASE Fault(b) \/ Crash(b)
    BY <2>8, <1>4, <1>5 DEF Fault, Crash, Steps, Computed
  <2>9. QED
    BY <1>6, <2>1, <2>2, <2>3, <2>4, <2>5, <2>6, <2>7, <2>8 DEF Acts, Work
<1>7. ASSUME NEW t \in Tasks, Start(t) PROVE DerivedFor(b)'
  <2>1. CASE b = <<t, try[t] + 1>>
    BY <1>7, <2>1, <1>3 DEF Start, TypeOK, Computed
  <2>2. CASE b # <<t, try[t] + 1>>
    BY <1>7, <2>2, <1>2 DEF Start, TypeOK
  <2>3. QED
    BY <2>1, <2>2
<1>8. ASSUME NEW a \in Attempts, Acts(a), a # b PROVE DerivedFor(b)'
  BY <1>8, <1>2, Frame
<1>9. QED
  BY <1>2, <1>6, <1>7, <1>8, Outside DEF worker

\* A write to an idempotent destination is its one delivery, first or repeated.
LEMMA WriteLands ==
  ASSUME IInv, NEW a \in Attempts, a[1] \in Once, WriteOutput(a), ~Raise(a)
  PROVE  /\ Upstream(a[1]) /\ Due(a[1]) # NoValue /\ UNCHANGED <<ti, xcom>>
         /\ dest' = [dest EXCEPT ![a[1]] = Store(a[1], Base[a[1]], Due(a[1]))]
         /\ Store(a[1], Base[a[1]], Due(a[1])) # NoValue
<1> USE DEF IInv
<1> DEFINE t == a[1]  new == Store(t, old[a], rows[a])
<1>1. /\ t \in Tasks /\ t \notin Ingest /\ t \in Once
      /\ StartedFor(a) /\ DerivedFor(a) /\ DeliveredFor(a)
  BY TaskAssumption DEF Attempts, AttemptInv
<1>2. /\ pc[a] = "write" /\ new # NoValue /\ dest' = [dest EXCEPT ![t] = new]
      /\ UNCHANGED <<ti, xcom>>
  BY DEF WriteOutput, At, air
<1>3. Upstream(t) /\ rows[a] = Due(t) /\ rows[a] \in Values
  BY <1>1, <1>2 DEF StartedFor, DerivedFor, RowsHeld, Computed
<1>4. CASE old[a] = Base[t]
  BY <1>2, <1>3, <1>4, DataAssumption
<1>5. CASE Landed(t) /\ old[a] = dest[t]
  <2>1. Given(xcom, t) \in [Inputs[t] -> Table]
    BY <1>1, TaskAssumption DEF Given, TypeOK
  <2>2. dest[t] = Store(t, Base[t], Due(t)) /\ Due(t) # NoValue /\ dest[t] # NoValue
    BY <1>5 DEF Landed
  <2>3. Store(t, dest[t], Due(t)) = dest[t]
    BY <1>1, <2>1, <2>2, OnceAssumption DEF Due
  <2>4. new = dest[t]
    BY <1>3, <1>5, <2>3
  <2>5. QED
    BY <1>2, <1>3, <2>2, <2>4
<1>6. QED
  BY <1>1, <1>2, <1>4, <1>5 DEF DeliveredFor

\* A delivery, once there, stays: nobody else writes the destination.
LEMMA LandedStep ==
  ASSUME IInv, Next, NEW t \in Once, Landed(t)
  PROVE  Landed(t)' /\ dest'[t] = dest[t]
<1> USE DEF IInv
<1>1. t \in Tasks /\ t \in Outputs
  BY TaskAssumption
<1>2. Upstream(t)' /\ Due(t)' = Due(t)
  BY <1>1, Stable DEF Landed
<1>3. ASSUME dest'[t] = dest[t] PROVE Landed(t)' /\ dest'[t] = dest[t]
  BY <1>2, <1>3 DEF Landed
<1>4. ASSUME NEW a \in Attempts, WriteOutput(a) PROVE dest'[t] = dest[t]
  <2>1. CASE Raise(a)
    BY <2>1 DEF Raise, disk, gate
  <2>2. CASE ~Raise(a) /\ a[1] # t
    BY <1>1, <1>4, <2>2 DEF WriteOutput, TypeOK
  <2>3. CASE ~Raise(a) /\ a[1] = t
    BY <1>1, <1>4, <2>3, WriteLands DEF Landed, TypeOK
  <2>4. QED
    BY <2>1, <2>2, <2>3
<1>5. ASSUME NEW a \in Attempts, Acts(a), ~WriteOutput(a) PROVE dest' = dest
  BY <1>5 DEF Acts, Work, Fault, Crash, Raise, Admit, ReadArtifact, Compute, CheckRows,
     PutArtifact, PutEvidence, Alarm, Return, disk
<1>6. QED
  BY <1>3, <1>4, <1>5, Outside DEF Start, Acts, Work, disk, gate

\* An attempt of an idempotent output past its write has delivered; before it, what
\* it read of the destination is the original or the delivery of another attempt.
LEMMA DeliveredStep ==
  ASSUME IInv, Next, NEW b \in Attempts
  PROVE  DeliveredFor(b)'
<1> USE DEF IInv
<1> DEFINE t == b[1]
<1> SUFFICES ASSUME t \in Once PROVE DeliveredFor(b)'
  BY DEF DeliveredFor
<1>0. /\ t \in Tasks /\ t \in Outputs /\ DeliveredFor(b) /\ StartedFor(b)
      /\ t \notin Ingest
  BY TaskAssumption DEF Attempts, AttemptInv
<1>1. Landed(t) => Landed(t)' /\ dest'[t] = dest[t]
  BY LandedStep
<1>2. ASSUME old'[b] = old[b], pc'[b] = "write" => pc[b] = "write",
             pc'[b] \in Computed \ {"write"} => pc[b] \in Computed \ {"write"}
      PROVE  DeliveredFor(b)'
  BY <1>0, <1>1, <1>2 DEF DeliveredFor
<1>3. ASSUME pc'[b] \notin Computed PROVE DeliveredFor(b)'
  BY <1>3 DEF DeliveredFor, Computed
<1>4. ASSUME NEW step \in Steps \ Computed, Exit(b, step) \/ Goto(b, step)
      PROVE  DeliveredFor(b)'
  BY <1>4, <1>3 DEF Exit, Goto, TypeOK
<1>5. ASSUME Raise(b) PROVE DeliveredFor(b)'
  BY <1>5, <1>4 DEF Raise, Steps, Computed
<1>6. CASE Acts(b)
  <2>1. CASE Admit(b)
    BY <2>1, <1>4, <1>5 DEF Admit, Steps, Computed
  <2>2. ASSUME NEW u \in Tasks, ReadArtifact(b, u) PROVE DeliveredFor(b)'
    BY <2>2, <1>3, <1>5 DEF ReadArtifact, At, Computed
  <2>3. CASE Compute(b)
    <3>1. CASE Raise(b)
      BY <3>1, <1>5
    <3>2. CASE ~Raise(b)
      <4>1. pc'[b] = "write" /\ old'[b] = dest[t] /\ UNCHANGED dest
        BY <1>0, <2>3, <3>2 DEF Compute, Goto, TypeOK, disk, gate
      <4>2. dest[t] = Base[t] \/ Landed(t)
        BY DEF Touched
      <4>3. QED
        BY <1>1, <4>1, <4>2 DEF DeliveredFor, Computed
    <3>3. QED
      BY <3>1, <3>2
  <2>4. CASE WriteOutput(b)
    <3>1. CASE Raise(b)
      BY <3>1, <1>5
    <3>2. CASE ~Raise(b)
      <4>1. /\ Upstream(t) /\ Due(t) # NoValue /\ UNCHANGED <<ti, xcom>>
            /\ dest'[t] = Store(t, Base[t], Due(t)) /\ dest'[t] # NoValue
        BY <1>0, <2>4, <3>2, WriteLands DEF TypeOK
      <4>2. Upstream(t)' /\ Due(t)' = Due(t)
        BY <1>0, <4>1, Stable
      <4>3. Landed(t)' /\ pc'[b] = "checked"
        BY <2>4, <3>2, <4>1, <4>2 DEF Landed, WriteOutput, Goto, TypeOK
      <4>4. QED
        BY <4>3 DEF DeliveredFor
    <3>3. QED
      BY <3>1, <3>2
  <2>5. CASE CheckRows(b)
    BY <2>5, <1>2, <1>5 DEF CheckRows, At, Goto, TypeOK, Computed
  <2>6. CASE PutArtifact(b) \/ PutEvidence(b) \/ Alarm(b)
    BY <2>6, <1>2 DEF PutArtifact, PutEvidence, Alarm, worker, At, Goto, TypeOK, Computed
  <2>7. CASE Return(b)
    BY <2>7, <1>4 DEF Return, Steps, Computed
  <2>8. CASE Fault(b) \/ Crash(b)
    BY <2>8, <1>4, <1>5 DEF Fault, Crash, Steps, Computed
  <2>9. QED
    BY <1>6, <2>1, <2>2, <2>3, <2>4, <2>5, <2>6, <2>7, <2>8 DEF Acts, Work
<1>7. ASSUME NEW u \in Tasks, Start(u) PROVE DeliveredFor(b)'
  <2>1. CASE b = <<u, try[u] + 1>>
    BY <1>7, <2>1, <1>3 DEF Start, TypeOK, Computed
  <2>2. CASE b # <<u, try[u] + 1>>
    BY <1>7, <2>2, <1>2 DEF Start, TypeOK
  <2>3. QED
    BY <2>1, <2>2
<1>8. ASSUME NEW a \in Attempts, Acts(a), a # b PROVE DeliveredFor(b)'
  BY <1>8, <1>2, Frame
<1>9. QED
  BY <1>2, <1>6, <1>7, <1>8, Outside DEF worker

\* A destination changes only below its successful upstream, and an output
\* succeeds only with its delivery.
LEMMA TouchedStep ==
  ASSUME IInv, Next
  PROVE  Touched'
<1> USE DEF IInv
<1>1. ASSUME NEW a \in Attempts, WriteOutput(a), ~Raise(a) PROVE Touched'
  <2>1. /\ a[1] \in Tasks /\ UNCHANGED <<ti, xcom>> /\ Upstream(a[1])
        /\ dest' = [dest EXCEPT ![a[1]] = Store(a[1], old[a], rows[a])]
    BY <1>1 DEF Attempts, AttemptInv, StartedFor, WriteOutput, At, air
  <2>2. \A t \in Outputs : dest'[t] # Base[t] => Upstream(t)'
    BY <2>1 DEF Touched, Upstream, TypeOK
  <2>3. ASSUME NEW t \in Once PROVE dest'[t] # Base[t] \/ ti'[t] = "success" => Landed(t)'
    <3>0. t \in Tasks /\ t \in Outputs
      BY TaskAssumption
    <3>1. CASE t = a[1]
      <4>1. /\ Due(t) # NoValue
            /\ dest'[t] = Store(t, Base[t], Due(t)) /\ dest'[t] # NoValue
        BY <1>1, <3>0, <3>1, WriteLands DEF TypeOK
      <4>2. Upstream(t)' /\ Due(t)' = Due(t)
        BY <2>1, <3>1, Stable
      <4>3. QED
        BY <4>1, <4>2 DEF Landed
    <3>2. CASE t # a[1]
      <4>1. dest'[t] = dest[t] /\ ti'[t] = ti[t]
        BY <2>1, <3>0, <3>2 DEF TypeOK
      <4>2. QED
        BY <4>1, LandedStep DEF Touched
    <3>3. QED
      BY <3>1, <3>2
  <2>4. QED
    BY <2>2, <2>3 DEF Touched
<1>2. ASSUME dest' = dest,
             \A t \in Once : ti'[t] = "success" => ti[t] = "success" \/ Landed(t)
      PROVE  Touched'
  <2>1. ASSUME NEW t \in Outputs, dest'[t] # Base[t] PROVE Upstream(t)'
    BY <1>2, <2>1, Stable, TaskAssumption DEF Touched
  <2>2. ASSUME NEW t \in Once, dest'[t] # Base[t] \/ ti'[t] = "success" PROVE Landed(t)'
    BY <1>2, <2>2, LandedStep DEF Touched
  <2>3. QED
    BY <2>1, <2>2 DEF Touched
<1>3. ASSUME NEW a \in Attempts, Raise(a) PROVE Touched'
  BY <1>3, <1>2, TaskAssumption DEF Raise, AfterFailure, disk, gate, TypeOK
<1>4. ASSUME NEW a \in Attempts, Return(a) PROVE Touched'
  <2>1. a[1] \in Once => Landed(a[1])
    BY <1>4 DEF Return, At, AttemptInv, DeliveredFor, Computed
  <2>2. \A t \in Tasks : ti'[t] = "success" => ti[t] = "success" \/ t = a[1]
    BY <1>4 DEF Return, TypeOK
  <2>3. QED
    BY <1>2, <1>4, <2>1, <2>2, TaskAssumption DEF Return, disk, gate
<1>5. ASSUME NEW a \in Attempts, Work(a), ~WriteOutput(a), ~Return(a), ~Raise(a)
      PROVE  Touched'
  BY <1>2, <1>5 DEF Work, Admit, ReadArtifact, Compute, CheckRows, PutArtifact,
     PutEvidence, Alarm, air, disk
<1>6. ASSUME NEW t \in Tasks, Start(t) \/ GiveUp(t) \/ UpstreamFailed(t) PROVE Touched'
  BY <1>6, <1>2, TaskAssumption
     DEF Start, GiveUp, AfterFailure, UpstreamFailed, TypeOK, disk, gate
<1>7. CASE RunTimeout
  BY <1>7, <1>2, TaskAssumption DEF RunTimeout, Final, disk, gate
<1>8. CASE FinishRun \/ Notify \/ ChangeAuthority \/ (\E t \in Ingest : ChangeSource(t))
  BY <1>8, <1>2 DEF FinishRun, Notify, ChangeSource, ChangeAuthority, air, disk, gate
<1>9. ASSUME NEW a \in Attempts, Crash(a) PROVE Touched'
  BY <1>9, <1>2 DEF Crash, air, disk, gate
<1>10. QED
  BY <1>1, <1>3, <1>4, <1>5, <1>6, <1>7, <1>8, <1>9 DEF Next, Airflow, Fault

\* A task becomes successful only when its current attempt returns.
LEMMA OnlyReturn ==
  ASSUME TypeOK, Next, NEW t \in Tasks, ti[t] # "success", ti'[t] = "success"
  PROVE  \E a \in Attempts : Return(a) /\ Current(a) /\ a[1] = t
<1>1. ASSUME NEW a \in Attempts, Raise(a) PROVE FALSE
  BY <1>1 DEF Raise, AfterFailure, TypeOK
<1>2. ASSUME NEW a \in Attempts, Work(a) PROVE Return(a)
  BY <1>1, <1>2 DEF Work, Admit, ReadArtifact, Compute, WriteOutput, CheckRows,
     PutArtifact, PutEvidence, Alarm, air
<1>3. ASSUME NEW a \in Attempts, Return(a) PROVE Current(a) /\ a[1] = t
  BY <1>3 DEF Return, TypeOK
<1>4. ASSUME NEW u \in Tasks, Start(u) \/ GiveUp(u) \/ UpstreamFailed(u) PROVE FALSE
  BY <1>4 DEF Start, GiveUp, AfterFailure, UpstreamFailed, TypeOK
<1>5. CASE RunTimeout
  BY <1>5 DEF RunTimeout
<1>6. QED
  BY <1>1, <1>2, <1>3, <1>4, <1>5 DEF Next, Airflow, FinishRun, Notify, Fault, Crash,
     ChangeSource, ChangeAuthority, air

\* Success hands on what the final inputs give.
LEMMA SettledStep ==
  ASSUME IInv, Next
  PROVE  Settled'
<1> USE DEF IInv
<1> SUFFICES ASSUME NEW t \in Tasks, ti'[t] = "success"
             PROVE  Upstream(t)' /\ (t \notin Ingest => xcom'[t] = Due(t)')
  BY DEF Settled
<1>1. CASE ti[t] = "success"
  BY <1>1, Stable, FinalStep DEF Settled
<1>2. CASE ti[t] # "success"
  <2>1. PICK a \in Attempts : Return(a) /\ Current(a) /\ a[1] = t
    BY <1>2, OnlyReturn
  <2>2. pc[a] = "return" /\ xcom'[t] = rows[a]
    BY <2>1 DEF Return, At, TypeOK
  <2>3. Upstream(t) /\ (t \notin Ingest => rows[a] = Due(t))
    BY <2>1, <2>2 DEF AttemptInv, StartedFor, DerivedFor, Computed
  <2>4. QED
    BY <2>2, <2>3, Stable
<1>3. QED
  BY <1>1, <1>2

-------------------------------------------------------------------------------
LEMMA Inductive == Spec => []IInv
<1>1. Spec => []TypeOK
  BY TypeCorrect
<1>2. TypeOK /\ Init => IInv
  BY InvInit
<1>3. IInv /\ TypeOK' /\ [Next]_vars => IInv'
  <2> SUFFICES ASSUME IInv, TypeOK', [Next]_vars PROVE IInv'
    OBVIOUS
  <2>1. CASE Next
    <3>1. RowsHeld'
      BY <2>1, RowsStep DEF IInv
    <3>2. Handed' /\ Touched' /\ Settled'
      BY <2>1, HandedStep, TouchedStep, SettledStep
    <3>3. AttemptInv'
      BY <2>1, StartedStep, DerivedStep, DeliveredStep DEF AttemptInv
    <3>4. QED
      BY <3>1, <3>2, <3>3 DEF IInv
  <2>2. CASE UNCHANGED vars
    BY <2>2 DEF vars, air, worker, disk, gate, IInv, TypeOK, RowsHeld, Handed, AttemptInv,
       StartedFor, DerivedFor, DeliveredFor, Touched, Settled, Landed, Upstream, Due
  <2>3. QED
    BY <2>1, <2>2
<1>4. QED
  BY <1>1, <1>2, <1>3, PTL DEF Spec

\* Every table a task handed on was computed from the very tables its inputs
\* handed on, for every pipeline and under every disturbance.
THEOREM ProvenanceHolds == Spec => []Provenance
<1>1. IInv => Provenance
  BY DEF IInv, Settled, Provenance, Due
<1>2. QED
  BY <1>1, Inductive, PTL

\* Nothing runs and no destination is touched before everything upstream succeeded.
THEOREM UpstreamFirstHolds == Spec => []UpstreamFirst
<1>1. IInv => UpstreamFirst
  BY DEF IInv, AttemptInv, StartedFor, Touched, Upstream, UpstreamFirst
<1>2. QED
  BY <1>1, Inductive, PTL

\* Retries, lost and crashed attempts never deliver twice to an idempotent
\* destination, and a successful output has delivered.
THEOREM EffectOnceHolds == Spec => []EffectOnce
<1>1. IInv => EffectOnce
  BY DEF IInv, Touched, Landed, Due, EffectOnce
<1>2. QED
  BY <1>1, Inductive, PTL

\* No late attempt changes the state or the reference of a successful task.
THEOREM SuccessIsFinalHolds == Spec => SuccessIsFinal
<1>1. TypeOK /\ [Next]_vars =>
        [\A t \in Tasks : ti[t] = "success" => ti'[t] = "success" /\ xcom'[t] = xcom[t]]_vars
  BY FinalStep
<1>2. QED
  BY <1>1, TypeCorrect, PTL DEF Spec, SuccessIsFinal

-------------------------------------------------------------------------------
\* The worker implements DagExecution.

\* Airflow gives tasks up, or nothing the promise speaks of changes.
LEMMA GiveUpMaps ==
  ASSUME xcom' = xcom, dest' = dest,
         \A t \in Tasks : Verdict(t)' = Verdict(t)
                          \/ (Verdict(t) = "waiting" /\ Verdict(t)' = "failed")
  PROVE  [Promise!Next]_(Promise!vars)
<1> DEFINE S == {t \in Tasks : Verdict(t)' # Verdict(t)}
<1>1. CASE S = {}
  BY <1>1 DEF Promise!vars
<1>2. CASE S # {}
  <2>1. \A t \in S : t \in Tasks /\ Verdict(t) = "waiting"
    OBVIOUS
  <2>2. [t \in Tasks |-> Verdict(t)]'
          = [t \in Tasks |-> IF t \in S THEN "failed" ELSE Verdict(t)]
    OBVIOUS
  <2>3. Promise!GiveUp(S)
    BY <1>2, <2>1, <2>2 DEF Promise!GiveUp
  <2>4. QED
    BY <2>3 DEF Promise!Next
<1>3. QED
  BY <1>1, <1>2

\* A write that succeeds is a delivery.
LEMMA WriteMaps ==
  ASSUME IInv, NEW a \in Attempts, WriteOutput(a), ~Raise(a), a[1] \in Outputs
  PROVE  Promise!Deliver(a[1])
<1> USE DEF IInv
<1> DEFINE t == a[1]  new == Store(t, old[a], rows[a])
<1>1. /\ pc[a] = "write" /\ new # NoValue /\ dest' = [dest EXCEPT ![t] = new]
      /\ UNCHANGED <<ti, xcom>>
  BY DEF WriteOutput, At, air
<1>2. /\ t \in Tasks /\ t \notin Ingest /\ StartedFor(a) /\ DerivedFor(a)
  BY TaskAssumption DEF Attempts, AttemptInv
<1>3. Upstream(t) /\ rows[a] = Due(t) /\ rows[a] \in Values
  BY <1>1, <1>2 DEF StartedFor, DerivedFor, RowsHeld, Computed
<1>4. Due(t) = Apply(t, Promise!Given(t)) /\ Due(t) # NoValue
  BY <1>3, DataAssumption DEF Due, Given, Promise!Given
<1>5. Promise!DepsDone(t)
  BY <1>2, <1>3, TaskAssumption DEF Upstream, Promise!DepsDone, Verdict
<1>6. PICK before \in Values \cup {NoValue} :
        /\ t \in Once => before = Base[t]
        /\ Store(t, before, Due(t)) # NoValue
        /\ dest' = [dest EXCEPT ![t] = Store(t, before, Due(t))]
  <2>1. CASE t \in Once
    BY <2>1, WriteLands, DataAssumption DEF Table
  <2>2. CASE t \notin Once
    BY <1>1, <1>3, <2>2 DEF TypeOK, Table
  <2>3. QED
    BY <2>1, <2>2
<1>7. UNCHANGED <<[u \in Tasks |-> Verdict(u)], xcom>>
  BY <1>1 DEF Verdict
<1>8. QED
  BY <1>4, <1>5, <1>6, <1>7 DEF Promise!Deliver, AtIntervalEnd

\* A return that Airflow accepts completes the task.
LEMMA ReturnMaps ==
  ASSUME IInv, NEW a \in Attempts, Return(a), Current(a)
  PROVE  Promise!Complete(a[1])
<1> USE DEF IInv
<1> DEFINE t == a[1]
<1>1. /\ t \in Tasks /\ StartedFor(a) /\ DerivedFor(a) /\ DeliveredFor(a)
  BY DEF Attempts, AttemptInv
<1>2. /\ pc[a] = "return" /\ ti[t] = "running" /\ dest' = dest
      /\ ti' = [ti EXCEPT ![t] = "success"] /\ xcom' = [xcom EXCEPT ![t] = rows[a]]
  BY DEF Return, At, Current, disk, gate
<1>3. /\ Upstream(t) /\ rows[a] \in Values /\ Fits(t, rows[a])
      /\ t \notin Ingest => rows[a] = Due(t)
  BY <1>1, <1>2 DEF StartedFor, DerivedFor, RowsHeld, Computed, Judged
<1>4. Due(t) = Apply(t, Promise!Given(t))
  BY DEF Due, Given, Promise!Given
<1>5. t \in Once => dest[t] = Store(t, Base[t], rows[a])
  BY <1>1, <1>2, <1>3, TaskAssumption DEF DeliveredFor, Landed, Computed
<1>6. Promise!DepsDone(t)
  BY <1>1, <1>3, TaskAssumption DEF Upstream, Promise!DepsDone, Verdict
<1>7. [u \in Tasks |-> Verdict(u)]' = [[u \in Tasks |-> Verdict(u)] EXCEPT ![t] = "done"]
  BY <1>1, <1>2 DEF Verdict, TypeOK
<1>8. Verdict(t) = "waiting"
  BY <1>2 DEF Verdict
<1>9. QED
  BY <1>1, <1>2, <1>3, <1>4, <1>5, <1>6, <1>7, <1>8 DEF Promise!Complete, AtIntervalEnd

\* Every step of the run is a step of the promise, or changes nothing it speaks of.
LEMMA StepMaps ==
  ASSUME IInv, Next
  PROVE  [Promise!Next]_(Promise!vars)
<1> USE DEF IInv
<1>1. ASSUME UNCHANGED <<ti, xcom, dest>> PROVE [Promise!Next]_(Promise!vars)
  BY <1>1, GiveUpMaps DEF Verdict
<1>2. ASSUME NEW a \in Attempts, Raise(a) PROVE [Promise!Next]_(Promise!vars)
  BY <1>2, GiveUpMaps DEF Raise, Current, AfterFailure, Verdict, TypeOK, disk, gate
<1>3. ASSUME NEW a \in Attempts, WriteOutput(a), ~Raise(a)
      PROVE  [Promise!Next]_(Promise!vars)
  <2>1. a[1] \in Tasks
    BY DEF Attempts
  <2>2. CASE a[1] \in Outputs
    BY <1>3, <2>1, <2>2, WriteMaps DEF Promise!Next
  <2>3. CASE a[1] \notin Outputs
    BY <1>1, <1>3, <2>3 DEF WriteOutput, TypeOK, air
  <2>4. QED
    BY <2>2, <2>3
<1>4. ASSUME NEW a \in Attempts, Return(a) PROVE [Promise!Next]_(Promise!vars)
  <2>1. a[1] \in Tasks
    BY DEF Attempts
  <2>2. CASE Current(a)
    BY <1>4, <2>1, <2>2, ReturnMaps DEF Promise!Next
  <2>3. CASE ~Current(a)
    BY <1>1, <1>4, <2>3 DEF Return, disk, gate
  <2>4. QED
    BY <2>2, <2>3
<1>5. ASSUME NEW a \in Attempts, Work(a), ~WriteOutput(a), ~Return(a), ~Raise(a)
      PROVE  [Promise!Next]_(Promise!vars)
  BY <1>1, <1>5 DEF Work, Admit, ReadArtifact, Compute, CheckRows, PutArtifact,
     PutEvidence, Alarm, air, disk
<1>6. ASSUME NEW t \in Tasks, Start(t) \/ GiveUp(t) \/ UpstreamFailed(t)
      PROVE  [Promise!Next]_(Promise!vars)
  BY <1>6, GiveUpMaps
     DEF Start, GiveUp, AfterFailure, UpstreamFailed, Verdict, TypeOK, disk, gate
<1>7. CASE RunTimeout
  BY <1>7, GiveUpMaps DEF RunTimeout, Final, Verdict, TypeOK, disk, gate
<1>8. ASSUME NEW a \in Attempts, Crash(a) PROVE [Promise!Next]_(Promise!vars)
  BY <1>1, <1>8 DEF Crash, air, disk, gate
<1>9. CASE FinishRun \/ Notify \/ ChangeAuthority \/ (\E t \in Ingest : ChangeSource(t))
  BY <1>1, <1>9 DEF FinishRun, Notify, ChangeSource, ChangeAuthority, air, disk, gate
<1>10. QED
  BY <1>2, <1>3, <1>4, <1>5, <1>6, <1>7, <1>8, <1>9 DEF Next, Airflow, Fault

\* Whatever is retried, lost, killed or refused, the run keeps the promise of
\* DagExecution: every task completes at most once, from the final rows of its
\* inputs, and an idempotent destination sees at most one delivery.
THEOREM Refinement == Spec => KeepsPromise
<1>1. Init => Promise!Init
  BY DEF Init, Promise!Init, Verdict, NoTables
<1>2. IInv /\ [Next]_vars => [Promise!Next]_(Promise!vars)
  <2> SUFFICES ASSUME IInv, [Next]_vars PROVE [Promise!Next]_(Promise!vars)
    OBVIOUS
  <2>1. CASE Next
    BY <2>1, StepMaps
  <2>2. CASE UNCHANGED vars
    BY <2>2, GiveUpMaps DEF vars, air, disk, gate, Verdict
  <2>3. QED
    BY <2>1, <2>2
<1>3. QED
  BY <1>1, <1>2, Inductive, PTL DEF Spec, KeepsPromise, Promise!Spec

-------------------------------------------------------------------------------
(***************************************************************************)
(* What attempts share besides their destinations: artifacts, evidence,    *)
(* quarantine and events; and what the end of the run says of its tasks.   *)
(***************************************************************************)

\* The evidence a task should leave: the tables its inputs handed on.
Reads(t) == [u \in Tasks |-> IF u \in Inputs[t] THEN xcom[u] ELSE NoValue]

\* What a task quarantines and says of its final inputs.
Rejected(t) == Rejects(t, Given(xcom, t))
Alarming(t) == Alarms(t, Given(xcom, t))

Evident ==
  /\ \A t \in Tasks : ti[t] = "success" => evidence[t] = Reads(t)
  /\ \A a \in Attempts : pc[a] = "return" => evidence[a[1]] = Reads(a[1])

\* A quarantine asset is about the final inputs; whoever is past the gate has put
\* it there, and has said what there was to say.
Set(t) == Rejected(t) # NoValue => quarantine[t] # NoValue
Gated ==
  /\ \A t \in Tasks : quarantine[t] # NoValue => Upstream(t) /\ quarantine[t] = Rejected(t)
  /\ \A a \in Attempts : pc[a] \in Computed => Set(a[1]) /\ (Alarming(a[1]) => a \in alarms)
  /\ \A t \in Tasks : ti[t] = "success" =>
       Set(t) /\ (Alarming(t) => <<t, try[t]>> \in alarms)

\* Where sources do not change, everybody reads the same from them.
Sourced ==
  "source" \notin Disturbances => \A t \in Ingest :
    /\ \A a \in Attempts : a[1] = t /\ pc[a] \in Computed => rows[a] = source[t]
    /\ ti[t] = "success" => xcom[t] = source[t]

\* Where attempts are given up only when they are dead, only the latest is alive,
\* and none once the task has succeeded.
Lone ==
  "lost" \notin Disturbances => \A a \in Attempts : pc[a] \in Active =>
    try[a[1]] = a[2] /\ ti[a[1]] \in {"running", "skipped"}

\* A task whose attempts cannot disagree on its rows.
Agreed(t) == t \notin Ingest \/ ~({"lost", "source"} \subseteq Disturbances)
Kept ==
  /\ \A t \in Tasks : ti[t] = "success" /\ Agreed(t) => file[t] = xcom[t]
  /\ \A a \in Attempts :
       pc[a] \in {"evidence", "return"} /\ Agreed(a[1]) => file[a[1]] = rows[a]

FilesInv == Evident /\ Gated /\ Sourced /\ Lone /\ Kept

-------------------------------------------------------------------------------
\* How an attempt gets to where it is.
LEMMA Entered ==
  ASSUME TypeOK, Next, NEW a \in Attempts
  PROVE  /\ pc'[a] = "return" =>
              (pc[a] = "return" /\ rows'[a] = rows[a]) \/ PutEvidence(a)
         /\ pc'[a] = "evidence" =>
              (pc[a] = "evidence" /\ rows'[a] = rows[a]) \/ PutArtifact(a)
         /\ pc'[a] \in Computed =>
              (pc[a] \in Computed /\ rows'[a] = rows[a]) \/ (Compute(a) /\ ~Raise(a))
         /\ pc'[a] \in Active =>
              pc[a] \in Active \/ \E t \in Tasks : Start(t) /\ a = <<t, try[t] + 1>>
<1> DEFINE Goal ==
         /\ pc'[a] = "return" =>
              (pc[a] = "return" /\ rows'[a] = rows[a]) \/ PutEvidence(a)
         /\ pc'[a] = "evidence" =>
              (pc[a] = "evidence" /\ rows'[a] = rows[a]) \/ PutArtifact(a)
         /\ pc'[a] \in Computed =>
              (pc[a] \in Computed /\ rows'[a] = rows[a]) \/ (Compute(a) /\ ~Raise(a))
         /\ pc'[a] \in Active =>
              pc[a] \in Active \/ \E t \in Tasks : Start(t) /\ a = <<t, try[t] + 1>>
<1>1. ASSUME pc'[a] = pc[a], rows'[a] = rows[a] PROVE Goal
  BY <1>1
<1>2. ASSUME NEW step \in {"returned", "raised", "dead"}, Exit(a, step) PROVE Goal
  BY <1>2 DEF Exit, Goto, TypeOK, Computed, Active
<1>3. ASSUME Raise(a) PROVE Goal
  BY <1>2, <1>3 DEF Raise
<1>4. CASE Acts(a)
  <2>1. CASE Admit(a)
    BY <2>1, <1>3 DEF Admit, At, Goto, TypeOK, Computed, Active
  <2>2. ASSUME NEW u \in Tasks, ReadArtifact(a, u) PROVE Goal
    BY <2>2, <1>1, <1>3 DEF ReadArtifact
  <2>3. CASE Compute(a)
    <3>1. CASE Raise(a)
      BY <3>1, <1>3
    <3>2. CASE ~Raise(a)
      BY <2>3, <3>2 DEF Compute, HasInputs, At, Goto, TypeOK, Computed, Active
    <3>3. QED
      BY <3>1, <3>2
  <2>4. CASE WriteOutput(a)
    BY <2>4, <1>3 DEF WriteOutput, At, Goto, TypeOK, Computed, Active
  <2>5. CASE CheckRows(a)
    BY <2>5, <1>3 DEF CheckRows, At, Goto, TypeOK, Computed, Active
  <2>6. CASE PutArtifact(a)
    BY <2>6 DEF PutArtifact, At, Goto, TypeOK, Computed, Active
  <2>7. CASE PutEvidence(a)
    BY <2>7 DEF PutEvidence, At, Goto, TypeOK, Computed, Active
  <2>8. CASE Alarm(a)
    BY <2>8, <1>1 DEF Alarm, worker
  <2>9. CASE Return(a) \/ Crash(a)
    BY <2>9, <1>2 DEF Return, Crash
  <2>10. CASE Fault(a)
    BY <2>10, <1>3 DEF Fault
  <2>11. QED
    BY <1>4, <2>1, <2>2, <2>3, <2>4, <2>5, <2>6, <2>7, <2>8, <2>9, <2>10 DEF Acts, Work
<1>5. ASSUME NEW t \in Tasks, Start(t) PROVE Goal
  <2>1. CASE a = <<t, try[t] + 1>>
    BY <1>5, <2>1 DEF Start, TypeOK, Computed
  <2>2. CASE a # <<t, try[t] + 1>>
    BY <1>5, <2>2, <1>1 DEF Start, TypeOK
  <2>3. QED
    BY <2>1, <2>2
<1>6. ASSUME NEW b \in Attempts, Acts(b), b # a PROVE Goal
  BY <1>6, <1>1, Frame
<1>7. Goal
  BY <1>1, <1>4, <1>5, <1>6, Outside DEF worker
<1>8. QED
  BY <1>7

\* Who writes the artifact and the evidence.
LEMMA Writers ==
  ASSUME Next
  PROVE  /\ file' = file \/ \E b \in Attempts : PutArtifact(b)
         /\ evidence' = evidence \/ \E b \in Attempts : PutEvidence(b)
BY DEF Next, Airflow, Start, GiveUp, UpstreamFailed, FinishRun, RunTimeout, Notify,
   ChangeSource, ChangeAuthority, Fault, Crash, Raise, Work, Admit, ReadArtifact, Alarm,
   Compute, WriteOutput, CheckRows, PutArtifact, PutEvidence, Return, disk

\* Who touches quarantine and events: a gate, from the final inputs.
LEMMA Gates ==
  ASSUME Next
  PROVE  UNCHANGED gate \/ \E b \in Attempts : Alarm(b) \/ Compute(b)
BY DEF Next, Airflow, Start, GiveUp, UpstreamFailed, FinishRun, RunTimeout, Notify,
   ChangeSource, ChangeAuthority, Fault, Crash, Work, Admit, ReadArtifact,
   WriteOutput, CheckRows, PutArtifact, PutEvidence, Return

\* What was computed from the final inputs is still computed from them later.
LEMMA FromInputs ==
  ASSUME TypeOK, Next, NEW t \in Tasks, Upstream(t)
  PROVE  /\ Reads(t)' = Reads(t) /\ Rejected(t)' = Rejected(t)
         /\ Alarming(t)' = Alarming(t) /\ Upstream(t)'
<1>1. Upstream(t)' /\ \A u \in Inputs[t] : xcom'[u] = xcom[u]
  BY Stable
<1>2. Given(xcom', t) = Given(xcom, t)
  BY <1>1 DEF Given
<1>3. QED
  BY <1>1, <1>2 DEF Reads, Rejected, Alarming

\* An attempt that has its rows holds the final inputs, and nothing else.
LEMMA HoldsInputs ==
  ASSUME IInv, NEW a \in Attempts, pc[a] \in Computed
  PROVE  got[a] = Reads(a[1]) /\ Upstream(a[1]) /\ a[1] \in Tasks
<1>1. /\ a[1] \in Tasks /\ StartedFor(a) /\ DerivedFor(a) /\ pc[a] # "none"
  BY DEF IInv, AttemptInv, Attempts, Computed
<1>2. got[a] \in [Tasks -> Table]
  BY DEF IInv, TypeOK
<1>3. \A u \in Tasks : got[a][u] = IF u \in Inputs[a[1]] THEN xcom[u] ELSE NoValue
  BY <1>1 DEF StartedFor, DerivedFor
<1>4. QED
  BY <1>1, <1>2, <1>3 DEF Reads, StartedFor

LEMMA EvidentStep ==
  ASSUME IInv, Evident, Next
  PROVE  Evident'
<1> USE DEF IInv
<1>1. ASSUME NEW t \in Tasks, Upstream(t), evidence[t] = Reads(t)
      PROVE  evidence'[t] = Reads(t)'
  <2>1. Reads(t)' = Reads(t)
    BY <1>1, FromInputs
  <2>2. ASSUME NEW b \in Attempts, PutEvidence(b) PROVE evidence'[t] = Reads(t)
    <3>1. pc[b] \in Computed /\ evidence' = [evidence EXCEPT ![b[1]] = got[b]]
      BY <2>2 DEF PutEvidence, At, Computed
    <3>2. got[b] = Reads(b[1])
      BY <3>1, HoldsInputs
    <3>3. QED
      BY <1>1, <3>1, <3>2 DEF TypeOK
  <2>3. QED
    BY <1>1, <2>1, <2>2, Writers
<1>2. ASSUME NEW t \in Tasks, ti'[t] = "success" PROVE evidence'[t] = Reads(t)'
  <2>1. CASE ti[t] = "success"
    BY <2>1, <1>1 DEF Evident, Settled
  <2>2. CASE ti[t] # "success"
    <3>1. PICK a \in Attempts : Return(a) /\ a[1] = t
      BY <1>2, <2>2, OnlyReturn
    <3>2. pc[a] = "return" /\ pc[a] \in Computed
      BY <3>1 DEF Return, At, Computed
    <3>3. QED
      BY <3>1, <3>2, <1>1, HoldsInputs DEF Evident
  <2>3. QED
    BY <2>1, <2>2
<1>3. ASSUME NEW a \in Attempts, pc'[a] = "return" PROVE evidence'[a[1]] = Reads(a[1])'
  <2>1. CASE pc[a] = "return"
    BY <2>1, <1>1, HoldsInputs DEF Evident, Computed
  <2>2. CASE PutEvidence(a)
    <3>1. pc[a] \in Computed /\ evidence' = [evidence EXCEPT ![a[1]] = got[a]]
      BY <2>2 DEF PutEvidence, At, Computed
    <3>2. got[a] = Reads(a[1]) /\ Upstream(a[1]) /\ a[1] \in Tasks
      BY <3>1, HoldsInputs
    <3>3. QED
      BY <3>1, <3>2, FromInputs DEF TypeOK
  <2>3. QED
    BY <1>3, <2>1, <2>2, Entered
<1>4. QED
  BY <1>2, <1>3 DEF Evident

\* A gate that computes, passes or raises, has judged the final inputs.
LEMMA GateJudges ==
  ASSUME IInv, NEW b \in Attempts, Compute(b)
  PROVE  /\ b[1] \in Tasks /\ Upstream(b[1]) /\ alarms' = alarms
         /\ quarantine' = [quarantine EXCEPT ![b[1]] =
                            IF Rejected(b[1]) = NoValue THEN @ ELSE Rejected(b[1])]
         /\ Alarming(b[1]) => b \in alarms
<1>1. b[1] \in Tasks /\ StartedFor(b) /\ pc[b] # "none"
  BY DEF IInv, AttemptInv, Attempts, Compute, HasInputs, At
<1>2. \A u \in Inputs[b[1]] : u \in Tasks /\ got[b][u] = xcom[u]
  BY <1>1, TaskAssumption DEF Compute, HasInputs, StartedFor
<1>3. Given(got[b], b[1]) = Given(xcom, b[1])
  BY <1>2 DEF Given
<1>4. QED
  BY <1>1, <1>3 DEF Compute, Rejected, Alarming, StartedFor

LEMMA GatedStep ==
  ASSUME IInv, Gated, Next
  PROVE  Gated'
<1> USE DEF IInv
<1>1. ASSUME NEW t \in Tasks
      PROVE  /\ quarantine'[t] # NoValue => Upstream(t)' /\ quarantine'[t] = Rejected(t)'
             /\ quarantine[t] # NoValue => quarantine'[t] # NoValue
  <2>1. CASE quarantine' = quarantine
    BY <2>1, FromInputs DEF Gated
  <2>2. ASSUME NEW b \in Attempts, Compute(b)
        PROVE  /\ quarantine'[t] # NoValue => Upstream(t)' /\ quarantine'[t] = Rejected(t)'
               /\ quarantine[t] # NoValue => quarantine'[t] # NoValue
    <3>1. CASE b[1] = t /\ Rejected(t) # NoValue
      <4>1. quarantine'[t] = Rejected(t) /\ Upstream(t)
        BY <2>2, <3>1, GateJudges DEF TypeOK
      <4>2. QED
        BY <3>1, <4>1, FromInputs
    <3>2. CASE ~(b[1] = t /\ Rejected(t) # NoValue)
      <4>1. quarantine'[t] = quarantine[t]
        BY <2>2, <3>2, GateJudges DEF TypeOK
      <4>2. QED
        BY <4>1, FromInputs DEF Gated
    <3>3. QED
      BY <3>1, <3>2
  <2>3. QED
    BY <2>1, <2>2, Gates DEF Alarm, gate
<1>2. alarms \subseteq alarms'
  BY Gates, GateJudges DEF Alarm, gate
<1>3. ASSUME NEW t \in Tasks, Upstream(t), Set(t) PROVE Set(t)'
  BY <1>1, <1>3, FromInputs DEF Set
<1>4. ASSUME NEW a \in Attempts, pc'[a] \in Computed
      PROVE  Set(a[1])' /\ (Alarming(a[1])' => a \in alarms')
  <2>1. CASE pc[a] \in Computed
    BY <2>1, <1>2, <1>3, HoldsInputs, FromInputs DEF Gated
  <2>2. CASE Compute(a)
    <3>1. a[1] \in Tasks /\ Upstream(a[1]) /\ (Alarming(a[1]) => a \in alarms)
      BY <2>2, GateJudges
    <3>2. Rejected(a[1]) # NoValue => quarantine'[a[1]] = Rejected(a[1])
      BY <2>2, GateJudges DEF TypeOK
    <3>3. QED
      BY <3>1, <3>2, <1>2, FromInputs DEF Set
  <2>3. QED
    BY <1>4, <2>1, <2>2, Entered
<1>5. ASSUME NEW t \in Tasks, ti'[t] = "success"
      PROVE  Set(t)' /\ (Alarming(t)' => <<t, try'[t]>> \in alarms')
  <2>1. CASE ti[t] = "success"
    <3>1. try'[t] = try[t]
      BY <2>1 DEF Next, Airflow, Start, GiveUp, UpstreamFailed, FinishRun, RunTimeout,
         Notify, ChangeSource, ChangeAuthority, Fault, Crash, Raise, Work, Admit,
         ReadArtifact, Alarm, Compute, WriteOutput, CheckRows, PutArtifact, PutEvidence,
         Return, air, TypeOK
    <3>2. QED
      BY <2>1, <3>1, <1>2, <1>3, FromInputs DEF Gated, Settled
  <2>2. CASE ti[t] # "success"
    <3>1. PICK a \in Attempts : Return(a) /\ Current(a) /\ a[1] = t
      BY <1>5, <2>2, OnlyReturn
    <3>2. pc[a] \in Computed /\ a = <<t, try[t]>> /\ try' = try
      BY <3>1 DEF Return, At, Computed, Current, Attempts
    <3>3. QED
      BY <3>1, <3>2, <1>2, <1>3, HoldsInputs, FromInputs DEF Gated
  <2>3. QED
    BY <2>1, <2>2
<1>6. QED
  BY <1>1, <1>4, <1>5 DEF Gated

LEMMA SourcedStep ==
  ASSUME IInv, Sourced, Next
  PROVE  Sourced'
<1> USE DEF IInv
<1> SUFFICES ASSUME "source" \notin Disturbances, NEW t \in Ingest
             PROVE  /\ \A a \in Attempts :
                         a[1] = t /\ pc'[a] \in Computed => rows'[a] = source'[t]
                    /\ ti'[t] = "success" => xcom'[t] = source'[t]
  BY DEF Sourced
<1>0. t \in Tasks
  BY TaskAssumption
<1>1. source' = source
  BY DEF Next, Airflow, Start, GiveUp, UpstreamFailed, FinishRun, RunTimeout,
     Notify, ChangeSource, ChangeAuthority, Fault, Crash, Raise, Work, Admit,
     ReadArtifact, Alarm, Compute, WriteOutput, CheckRows, PutArtifact, PutEvidence,
     Return, world
<1>2. ASSUME NEW a \in Attempts, a[1] = t, pc'[a] \in Computed PROVE rows'[a] = source[t]
  <2>1. CASE pc[a] \in Computed /\ rows'[a] = rows[a]
    BY <1>2, <2>1 DEF Sourced
  <2>2. CASE Compute(a) /\ ~Raise(a)
    BY <1>2, <2>2 DEF Compute, TypeOK
  <2>3. QED
    BY <1>2, <2>1, <2>2, Entered
<1>3. ASSUME ti'[t] = "success" PROVE xcom'[t] = source[t]
  <2>1. CASE ti[t] = "success"
    BY <1>0, <2>1, FinalStep DEF Sourced
  <2>2. CASE ti[t] # "success"
    <3>1. PICK a \in Attempts : Return(a) /\ Current(a) /\ a[1] = t
      BY <1>0, <1>3, <2>2, OnlyReturn
    <3>2. pc[a] \in Computed /\ xcom'[t] = rows[a]
      BY <1>0, <3>1 DEF Return, At, Computed, TypeOK
    <3>3. QED
      BY <3>1, <3>2 DEF Sourced
  <2>3. QED
    BY <2>1, <2>2
<1>4. QED
  BY <1>1, <1>2, <1>3

LEMMA LoneStep ==
  ASSUME IInv, Lone, Next
  PROVE  Lone'
<1> USE DEF IInv
<1> SUFFICES ASSUME "lost" \notin Disturbances, NEW a \in Attempts, pc'[a] \in Active
             PROVE  try'[a[1]] = a[2] /\ ti'[a[1]] \in {"running", "skipped"}
  BY DEF Lone
<1> DEFINE t == a[1]
<1>0. t \in Tasks /\ a = <<t, a[2]>>
  BY DEF Attempts
<1>1. ASSUME NEW u \in Tasks, Start(u), a = <<u, try[u] + 1>>
      PROVE  try'[t] = a[2] /\ ti'[t] \in {"running", "skipped"}
  BY <1>1 DEF Start, TypeOK
<1>2. CASE pc[a] \in Active
  <2>1. try[t] = a[2] /\ ti[t] \in {"running", "skipped"}
    BY <1>2 DEF Lone
  <2>2. ASSUME NEW u \in Tasks, Start(u) PROVE UNCHANGED <<try[t], ti[t]>>
    BY <1>0, <2>1, <2>2 DEF Start, TypeOK
  <2>3. ASSUME NEW u \in Tasks, GiveUp(u) PROVE UNCHANGED <<try[t], ti[t]>>
    BY <1>0, <1>2, <2>1, <2>3 DEF GiveUp, TypeOK, Active
  <2>4. ASSUME NEW u \in Tasks, UpstreamFailed(u) PROVE UNCHANGED <<try[t], ti[t]>>
    BY <1>0, <2>1, <2>4 DEF UpstreamFailed, TypeOK
  <2>5. ASSUME RunTimeout PROVE try'[t] = a[2] /\ ti'[t] \in {"running", "skipped"}
    BY <1>0, <2>1, <2>5 DEF RunTimeout
  <2>6. ASSUME NEW b \in Attempts, Raise(b) \/ Return(b) PROVE UNCHANGED <<try[t], ti[t]>>
    <3>1. pc'[b] \notin Active
      BY <2>6 DEF Raise, Return, Exit, Goto, TypeOK, Active
    <3>2. CASE Current(b) /\ b[1] = t
      <4>1. b = a
        BY <1>0, <2>1, <3>2 DEF Current, Attempts
      <4>2. QED
        BY <3>1, <4>1
    <3>3. CASE ~(Current(b) /\ b[1] = t)
      <4>1. try' = try
        BY <2>6 DEF Raise, Return
      <4>2. CASE Raise(b)
        BY <1>0, <3>3, <4>1, <4>2 DEF Raise, TypeOK
      <4>3. CASE Return(b)
        BY <1>0, <3>3, <4>1, <4>3 DEF Return, TypeOK
      <4>4. QED
        BY <2>6, <4>2, <4>3
    <3>4. QED
      BY <3>2, <3>3
  <2>7. CASE \E b \in Attempts : Work(b) /\ ~Raise(b) /\ ~Return(b)
    BY <2>1, <2>7 DEF Work, Admit, ReadArtifact, Alarm, Compute, WriteOutput, CheckRows,
       PutArtifact, PutEvidence, air
  <2>8. CASE FinishRun \/ Notify \/ ChangeAuthority \/ (\E u \in Ingest : ChangeSource(u))
             \/ (\E b \in Attempts : Crash(b))
    BY <2>1, <2>8 DEF FinishRun, Notify, ChangeAuthority, ChangeSource, Crash, air
  <2>9. QED
    BY <2>1, <2>2, <2>3, <2>4, <2>5, <2>6, <2>7, <2>8 DEF Next, Airflow, Fault
<1>3. QED
  BY <1>1, <1>2, Entered

\* A task's artifact is written with the same rows again, if it is written again.
LEMMA SameRows ==
  ASSUME IInv, Sourced, Lone, NEW b \in Attempts, PutArtifact(b), Agreed(b[1])
  PROVE  /\ ti[b[1]] = "success" => rows[b] = xcom[b[1]]
         /\ \A a \in Attempts :
              a[1] = b[1] /\ pc[a] \in {"evidence", "return"} => rows[a] = rows[b]
<1> USE DEF IInv
<1> DEFINE t == b[1]
<1>0. /\ t \in Tasks /\ pc[b] = "artifact" /\ pc[b] \in Computed /\ pc[b] \in Active
      /\ DerivedFor(b)
  BY DEF Attempts, PutArtifact, At, Computed, Active, AttemptInv
<1>1. CASE t \notin Ingest
  <2>1. rows[b] = Due(t)
    BY <1>0, <1>1 DEF DerivedFor
  <2>2. ti[t] = "success" => xcom[t] = Due(t)
    BY <1>0, <1>1 DEF Settled
  <2>3. \A a \in Attempts : a[1] = t /\ pc[a] \in {"evidence", "return"} => rows[a] = Due(t)
    BY <1>1 DEF AttemptInv, DerivedFor, Computed
  <2>4. QED
    BY <2>1, <2>2, <2>3
<1>2. CASE t \in Ingest /\ "source" \notin Disturbances
  BY <1>0, <1>2 DEF Sourced, Computed
<1>3. CASE "lost" \notin Disturbances
  <2>1. try[t] = b[2] /\ ti[t] # "success"
    BY <1>0, <1>3 DEF Lone
  <2>2. ASSUME NEW a \in Attempts, a[1] = t, pc[a] \in {"evidence", "return"}
        PROVE  rows[a] = rows[b]
    <3>1. try[t] = a[2]
      BY <1>3, <2>2 DEF Lone, Active
    <3>2. a = <<a[1], a[2]>> /\ b = <<b[1], b[2]>>
      BY DEF Attempts
    <3>3. a = b
      BY <2>1, <2>2, <3>1, <3>2
    <3>4. QED
      BY <3>3
  <2>3. QED
    BY <2>1, <2>2
<1>4. QED
  BY <1>1, <1>2, <1>3 DEF Agreed

LEMMA KeptStep ==
  ASSUME IInv, Sourced, Lone, Kept, Next
  PROVE  Kept'
<1> USE DEF IInv
<1>1. ASSUME NEW t \in Tasks, Agreed(t), ti'[t] = "success" PROVE file'[t] = xcom'[t]
  <2>1. CASE ti[t] = "success"
    <3>1. file[t] = xcom[t] /\ xcom'[t] = xcom[t]
      BY <1>1, <2>1, FinalStep DEF Kept
    <3>2. ASSUME NEW b \in Attempts, PutArtifact(b) PROVE file'[t] = xcom[t]
      <4>1. file' = [file EXCEPT ![b[1]] = rows[b]]
        BY <3>2 DEF PutArtifact
      <4>2. CASE b[1] = t
        BY <1>1, <2>1, <3>2, <4>1, <4>2, SameRows DEF TypeOK
      <4>3. CASE b[1] # t
        BY <3>1, <4>1, <4>3 DEF TypeOK
      <4>4. QED
        BY <4>2, <4>3
    <3>3. QED
      BY <3>1, <3>2, Writers
  <2>2. CASE ti[t] # "success"
    <3>1. PICK a \in Attempts : Return(a) /\ Current(a) /\ a[1] = t
      BY <1>1, <2>2, OnlyReturn
    <3>2. pc[a] = "return" /\ xcom'[t] = rows[a] /\ file' = file
      BY <3>1 DEF Return, At, TypeOK, disk
    <3>3. QED
      BY <1>1, <3>1, <3>2 DEF Kept
  <2>3. QED
    BY <2>1, <2>2
<1>2. ASSUME NEW a \in Attempts, Agreed(a[1]), pc'[a] \in {"evidence", "return"}
      PROVE  file'[a[1]] = rows'[a]
  <2> DEFINE t == a[1]
  <2>0. t \in Tasks
    BY DEF Attempts
  <2>1. CASE PutArtifact(a)
    BY <2>0, <2>1 DEF PutArtifact, TypeOK
  <2>2. CASE PutEvidence(a)
    BY <1>2, <2>2 DEF PutEvidence, At, Kept
  <2>3. CASE pc[a] \in {"evidence", "return"} /\ rows'[a] = rows[a]
    <3>1. file[t] = rows[a]
      BY <1>2, <2>3 DEF Kept
    <3>2. ASSUME NEW b \in Attempts, PutArtifact(b) PROVE file'[t] = rows[a]
      <4>1. file' = [file EXCEPT ![b[1]] = rows[b]]
        BY <3>2 DEF PutArtifact
      <4>2. CASE b[1] = t
        BY <1>2, <2>0, <2>3, <3>2, <4>1, <4>2, SameRows DEF TypeOK
      <4>3. CASE b[1] # t
        BY <3>1, <4>1, <4>3 DEF TypeOK
      <4>4. QED
        BY <4>2, <4>3
    <3>3. QED
      BY <2>3, <3>1, <3>2, Writers
  <2>4. QED
    BY <1>2, <2>1, <2>2, <2>3, Entered
<1>3. QED
  BY <1>1, <1>2 DEF Kept, Agreed

LEMMA FilesInductive == Spec => [](IInv /\ FilesInv)
<1>1. Init => FilesInv
  <2> SUFFICES ASSUME Init PROVE FilesInv
    OBVIOUS
  <2>1. \A t \in Tasks : ti[t] = "none" /\ quarantine[t] = NoValue
    BY DEF Init, NoTables
  <2>2. \A a \in Attempts : pc[a] = "none"
    BY DEF Init
  <2>3. QED
    BY <2>1, <2>2, TaskAssumption
       DEF FilesInv, Evident, Gated, Sourced, Lone, Kept, Computed, Active
<1>2. IInv /\ FilesInv /\ [Next]_vars => FilesInv'
  <2> SUFFICES ASSUME IInv, FilesInv, [Next]_vars PROVE FilesInv'
    OBVIOUS
  <2>1. CASE Next
    BY <2>1, EvidentStep, GatedStep, SourcedStep, LoneStep, KeptStep DEF FilesInv
  <2>2. CASE UNCHANGED vars
    BY <2>2 DEF vars, air, worker, disk, gate, world, FilesInv, Evident, Gated, Set, Sourced,
       Lone, Kept, Reads, Rejected, Alarming, Upstream
  <2>3. QED
    BY <2>1, <2>2
<1>3. QED
  BY <1>1, <1>2, Inductive, PTL DEF Spec

\* A successful task's artifact is what its reference names, whoever else has
\* written it, unless it was re-read from a source that changed.
THEOREM ArtifactStableHolds == Spec => []ArtifactStable
<1>1. FilesInv => ArtifactStable
  BY DEF FilesInv, Kept, Agreed, ArtifactStable
<1>2. QED
  BY <1>1, FilesInductive, PTL

\* The quality evidence of a successful task is about the tables it was given.
THEOREM EvidenceBoundHolds == Spec => []EvidenceBound
<1>1. FilesInv => EvidenceBound
  BY DEF FilesInv, Evident, Reads, EvidenceBound
<1>2. QED
  BY <1>1, FilesInductive, PTL

\* Quarantine assets are about the tables their gates were given in this run, and
\* no gate has let rows pass before it said and set aside what it had to.
THEOREM QuarantineBoundHolds == Spec => []QuarantineBound
<1>1. FilesInv => QuarantineBound
  BY DEF FilesInv, Gated, Set, Rejected, Alarming, QuarantineBound
<1>2. QED
  BY <1>1, FilesInductive, PTL

-------------------------------------------------------------------------------
\* When all leaves have succeeded, everything has: of the tasks that have not, one
\* would be upstream of none of the others, hence a leaf or upstream of a success.
LEMMA LeavesTell ==
  ASSUME Settled, \A t \in Leaves : ti[t] = "success"
  PROVE  \A t \in Tasks : ti[t] = "success"
<1> DEFINE S == {t \in Tasks : ti[t] # "success"}
<1>1. SUFFICES ASSUME S # {} PROVE FALSE
  OBVIOUS
<1>2. PICK t \in S : \A u \in S : t \notin Deps[u]
  BY <1>1, AcyclicAssumption
<1>3. PICK u \in Tasks : t \in Deps[u]
  BY <1>2 DEF Leaves
<1>4. ti[u] = "success"
  BY <1>2, <1>3
<1>5. ti[t] = "success"
  BY <1>3, <1>4 DEF Settled, Upstream
<1>6. QED
  BY <1>2, <1>5

\* A run called successful, or announced as such, has no task that did anything
\* but succeed.
THEOREM SuccessIsTotalHolds == Spec => []SuccessIsTotal
<1>1. Init => SuccessIsTotal
  BY DEF Init, SuccessIsTotal
<1>2. IInv /\ SuccessIsTotal /\ [Next]_vars => SuccessIsTotal'
  <2> SUFFICES ASSUME IInv, SuccessIsTotal, [Next]_vars,
                      run' = "success" \/ outbox' = "success"
               PROVE  \A t \in Tasks : ti'[t] = "success"
    BY DEF SuccessIsTotal
  <2>1. CASE UNCHANGED vars
    BY <2>1 DEF vars, air, SuccessIsTotal
  <2>2. CASE Next /\ (run = "success" \/ outbox = "success")
    BY <2>2, FinalStep DEF SuccessIsTotal, IInv
  <2>3. CASE Next /\ run # "success" /\ outbox # "success"
    <3>1. FinishRun \/ Notify
      BY <2>3 DEF Next, Airflow, Start, GiveUp, UpstreamFailed, RunTimeout, ChangeSource,
         ChangeAuthority, Fault, Crash, Raise, Work, Admit, ReadArtifact, Alarm, Compute,
         WriteOutput, CheckRows, PutArtifact, PutEvidence, Return, air
    <3>2. CASE FinishRun
      BY <2>3, <3>2, LeavesTell DEF FinishRun, IInv
    <3>3. CASE Notify
      BY <2>3, <3>3 DEF Notify, air
    <3>4. QED
      BY <3>1, <3>2, <3>3
  <2>4. QED
    BY <2>1, <2>2, <2>3
<1>3. QED
  BY <1>1, <1>2, Inductive, PTL DEF Spec

===============================================================================
