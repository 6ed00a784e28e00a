-------------------------- MODULE LocalRunnerProofs ---------------------------
(***************************************************************************)
(* Theorems about LocalRunner, for every pipeline, any number of runs and  *)
(* every disturbance.                                                      *)
(***************************************************************************)
EXTENDS LocalRunner, TLAPS, WellFoundedInduction

Busy == {"task", "write", "check"}
Places == DOMAIN Order

\* The tasks before the present one have succeeded, it and those after it have not
\* begun; or it is the one that failed.
Progress == \A i \in Places : status[Order[i]] = IF i < at THEN "success" ELSE "none"
Stopped ==
  /\ at \in Places
  /\ \A i \in Places : status[Order[i]] =
       IF i < at THEN "success" ELSE IF i = at THEN "failed" ELSE "none"

\* Where run_pipeline is says how far the run has come.
Where ==
  /\ pc \in Busy => at \in Places /\ Progress /\ verdict = "running"
  /\ pc = "failing" => Stopped /\ verdict = "failed"
  /\ pc = "succeed" => at = Len(Order) + 1 /\ Progress /\ verdict = "running"
  /\ pc = "finish" =>
       \/ verdict = "failed" /\ Stopped
       \/ verdict = "success" /\ at = Len(Order) + 1 /\ Progress
  /\ pc # "idle" => runs \in Runs

\* What a task holds: rows that it computed, and for an output what it read before
\* it writes, or has left where it wrote.
Due(t) == Apply(t, Given(table, t), now)
Delivered(t) == Store(t, before[t], Due(t))
Holding ==
  /\ pc \in {"write", "check"} =>
       rows \in Values /\ (Task \notin Ingest => rows = Due(Task))
  /\ pc = "write" => Task \in Outputs /\ old = before[Task] /\ dest[Task] = before[Task]
  /\ pc = "check" /\ Task \in Outputs => dest[Task] = Delivered(Task)

\* A destination is as the run found it, or holds the delivery of this run.
Disk ==
  \A t \in Outputs :
    /\ status[t] = "success" => dest[t] = Delivered(t)
    /\ status[t] \in {"none", "skipped"} /\ pc # "dead" /\ ~(pc = "check" /\ t = Task) =>
         dest[t] = before[t]
    /\ status[t] = "failed" => dest[t] \in {before[t], Delivered(t)}

\* The record of the latest run is what the run knew, and nothing is recorded or
\* announced of runs to come.
Recorded ==
  /\ \A r \in Runs : r > runs => record[r] = NoRecord
  /\ runs \in Runs /\ record[runs] # NoRecord => pc \in Ended /\ record[runs].verdict = verdict
  /\ pc = "returned" =>
       record[runs] = [verdict |-> verdict, tasks |-> status, handed |-> table]

Announced ==
  /\ \A e \in events : e[1] <= runs
  /\ <<runs, "success">> \in events => verdict = "success"
  /\ <<runs, "failure">> \in events => verdict = "failed"

IInv == TypeOK /\ Where /\ Holding /\ Disk /\ Recorded /\ Announced

-------------------------------------------------------------------------------
\* The order, as the assumptions give it.
LEMMA OrderFacts ==
  /\ Len(Order) \in Nat \ {0} /\ Places = 1 .. Len(Order)
  /\ \A i \in Places : Order[i] \in Tasks
  /\ \A i \in Places : \A u \in Deps[Order[i]] : \E j \in Places : j < i /\ Order[j] = u
<1>1. Len(Order) \in Nat /\ Places = 1 .. Len(Order) /\ \A i \in Places : Order[i] \in Tasks
  BY OrderAssumption DEF Places
<1>2. Len(Order) # 0
  BY OrderAssumption
<1>3. ASSUME NEW i \in Places, NEW u \in Deps[Order[i]]
      PROVE  \E j \in Places : j < i /\ Order[j] = u
  <2>1. u \in Tasks
    BY <1>1, TaskAssumption
  <2>2. PICK j \in Places : Order[j] = u
    BY <2>1, OrderAssumption DEF Places
  <2>3. QED
    BY <2>2, OrderAssumption DEF Places
<1>4. QED
  BY <1>1, <1>2, <1>3

\* Of any places, one is the first.
LEMMA LeastPlace ==
  ASSUME NEW T \in SUBSET Places, T # {}
  PROVE  \E n \in T : \A m \in T : ~(m < n)
<1> DEFINE R == {ss \in Nat \X Nat : ss[1] < ss[2]}
<1>1. IsWellFoundedOn(OpToRel(<, Nat), Nat)
  BY NatLessThanWellFounded
<1>2. OpToRel(<, Nat) = R
  BY DEF OpToRel
<1>3. IsWellFoundedOn(R, Nat)
  BY <1>1, <1>2
<1>4. T \subseteq Nat
  BY OrderFacts
<1> HIDE DEF R
<1>5. PICK n \in T : \A m \in T : ~(<<m, n>> \in R)
  BY <1>3, <1>4, WFMin
<1>6. \A m \in T : ~(m < n)
  BY <1>4, <1>5 DEF R
<1>7. QED
  BY <1>6

\* No circles: of any tasks, the first in the order is fed by none of the others.
LEMMA Acyclic ==
  ASSUME NEW S \in SUBSET Tasks, S # {}
  PROVE  \E t \in S : Inputs[t] \cap S = {}
<1> DEFINE T == {i \in Places : Order[i] \in S}
<1>1. T # {}
  BY OrderAssumption DEF Places
<1>2. PICK n \in T : \A m \in T : ~(m < n)
  BY <1>1, LeastPlace
<1>3. ASSUME NEW u \in Inputs[Order[n]], u \in S PROVE FALSE
  <2>1. n \in Places /\ Order[n] \in Tasks
    BY OrderFacts
  <2>2. u \in Deps[Order[n]]
    BY <1>3, <2>1, TaskAssumption
  <2>3. PICK j \in Places : j < n /\ Order[j] = u
    BY <2>1, <2>2, OrderFacts
  <2>4. QED
    BY <1>2, <1>3, <2>3
<1>4. QED
  BY <1>2, <1>3

\* What a task computes is a table, or nothing.
LEMMA ResultType ==
  ASSUME TypeOK, NEW t \in Tasks
  PROVE  Result(t) \in Table /\ Rejected(t) \in Table
<1>1. Given(table, t) \in [Inputs[t] -> Table]
  BY TaskAssumption DEF Given, TypeOK
<1>2. QED
  BY <1>1, DataAssumption DEF Result, Rejected, TypeOK, Table

\* Failing keeps every variable it speaks of in its type.
LEMMA FailType ==
  ASSUME TypeOK, Fail, Task \in Tasks, dest' \in [Outputs -> Table],
         quarantine' \in [Tasks -> Table], UNCHANGED <<events, record>>
  PROVE  TypeOK'
BY DEF Fail, TypeOK, world, Verdicts, Statuses, Table, Ended

LEMMA TypeStep ==
  ASSUME TypeOK, Where, Holding, [Next]_vars
  PROVE  TypeOK'
<1> USE DEF memory, disk, world
<1>0. pc \in Busy => Task \in Tasks /\ at \in 1 .. Len(Order)
  BY OrderFacts DEF Where, Task
<1>1. CASE Begin
  BY <1>1, DataAssumption, OrderFacts DEF Begin, TypeOK, NoTables, Table, Runs, Statuses, Verdicts
<1>2. CASE Compute
  <2>1. Task \in Tasks
    BY <1>0, <1>2 DEF Compute, Busy
  <2>2. quarantine' \in [Tasks -> Table]
    BY <1>2, <2>1, ResultType DEF Compute, TypeOK
  <2>3. CASE Result(Task) = NoValue
    BY <1>2, <2>1, <2>2, <2>3, FailType DEF Compute, TypeOK
  <2>4. CASE Result(Task) # NoValue
    <3>1. rows' \in Table /\ old' \in Table
      BY <1>2, <2>1, <2>4, ResultType DEF Compute, TypeOK, Table
    <3>2. pc' \in {"write", "check"} /\ UNCHANGED <<at, runs, table, status, verdict, world,
                                                   dest, events, record>>
      BY <1>2, <2>4 DEF Compute
    <3>3. QED
      BY <2>2, <3>1, <3>2 DEF TypeOK
  <2>5. QED
    BY <2>3, <2>4
<1>3. CASE WriteOutput
  <2> DEFINE new == Store(Task, old, rows)
  <2>1. Task \in Tasks /\ Task \in Outputs /\ rows \in Values /\ old \in Table
    BY <1>0, <1>3 DEF WriteOutput, Busy, Holding, TypeOK
  <2>2. new \in Table
    BY <2>1, DataAssumption
  <2>3. CASE new = NoValue
    BY <1>3, <2>1, <2>3, FailType DEF WriteOutput, TypeOK
  <2>4. CASE new # NoValue
    BY <1>3, <2>2, <2>4 DEF WriteOutput, TypeOK
  <2>5. QED
    BY <2>3, <2>4
<1>4. CASE Accept
  <2>1. Task \in Tasks /\ at \in 1 .. Len(Order)
    BY <1>0, <1>4 DEF Accept, Busy
  <2>2. CASE Fail
    BY <1>4, <2>1, <2>2, FailType DEF Accept, TypeOK, Fail
  <2>3. CASE ~Fail
    <3>1. /\ status' = [status EXCEPT ![Task] = "success"]
          /\ table' = [table EXCEPT ![Task] = rows]
          /\ at' = at + 1 /\ pc' \in {"succeed", "task"}
          /\ old' = NoValue /\ rows' = NoValue
          /\ UNCHANGED <<runs, verdict, disk, world>>
      BY <1>4, <2>3 DEF Accept
    <3>2. at' \in 1 .. Len(Order) + 1
      BY <2>1, <3>1, OrderFacts
    <3>3. QED
      BY <2>1, <3>1, <3>2 DEF TypeOK, Statuses, Table
  <2>4. QED
    BY <2>2, <2>3
<1>5. CASE Fault
  <2>1. Task \in Tasks
    BY <1>0, <1>5 DEF Fault, Busy
  <2>2. quarantine' \in [Tasks -> Table]
    BY <1>5, <2>1, ResultType DEF Fault, TypeOK
  <2>3. QED
    BY <1>5, <2>1, <2>2, FailType DEF Fault, TypeOK
<1>6. ASSUME NEW event \in {"success", "failure"}, Tell(event), pc # "idle"
      PROVE  events' \subseteq Runs \X {"success", "failure"} /\ pc' \in {"finish", "escaped"}
  BY <1>6 DEF Tell, TypeOK, Where
<1>7. CASE NotifyFailure
  BY <1>6, <1>7 DEF NotifyFailure, TypeOK, Ended
<1>8. CASE NotifySuccess
  BY <1>6, <1>8 DEF NotifySuccess, TypeOK, Ended, Verdicts
<1>9. CASE Finish
  <2>1. Skipped \in [Tasks -> Statuses]
    BY DEF Skipped, TypeOK, Statuses
  <2>2. [verdict |-> verdict, tasks |-> Skipped, handed |-> table] \in Records
    BY <1>9, <2>1 DEF Finish, Where, Records, TypeOK
  <2>3. record' \in [Runs -> {NoRecord} \cup Records]
    BY <1>9, <2>2 DEF Finish, TypeOK
  <2>4. QED
    BY <1>9, <2>1, <2>3 DEF Finish, TypeOK, Ended
<1>10. CASE Crash
  BY <1>10 DEF Crash, TypeOK, Ended
<1>11. CASE ChangeSource
  BY <1>11 DEF ChangeSource, TypeOK
<1>12. CASE UNCHANGED vars
  BY <1>12 DEF vars, TypeOK
<1>13. QED
  BY <1>1, <1>2, <1>3, <1>4, <1>5, <1>7, <1>8, <1>9, <1>10, <1>11, <1>12 DEF Next

-------------------------------------------------------------------------------
\* A failing task stops the run where it is.
LEMMA FailStops ==
  ASSUME TypeOK, Where, pc \in Busy, Fail
  PROVE  Where'
<1>1. at \in Places /\ Progress /\ Task \in Tasks /\ runs \in Runs
  BY OrderFacts DEF Where, Task, Busy
<1>2. /\ pc' = "failing" /\ verdict' = "failed" /\ at' = at /\ runs' = runs
      /\ status' = [status EXCEPT ![Order[at]] = "failed"]
  BY DEF Fail, Task
<1>3. \A i \in Places : status'[Order[i]] =
        IF i < at THEN "success" ELSE IF i = at THEN "failed" ELSE "none"
  <2> TAKE i \in Places
  <2>1. Order[i] \in Tasks /\ i \in Int /\ at \in Int
    BY <1>1, OrderFacts
  <2>2. CASE i = at
    BY <1>1, <1>2, <2>1, <2>2 DEF TypeOK
  <2>3. CASE i # at
    <3>1. Order[i] # Order[at]
      BY <1>1, <2>3, OrderAssumption DEF Places
    <3>2. status'[Order[i]] = status[Order[i]]
      BY <1>2, <2>1, <3>1 DEF TypeOK
    <3>3. QED
      BY <1>1, <2>1, <2>3, <3>2 DEF Progress
  <2>4. QED
    BY <2>2, <2>3
<1>4. Stopped'
  BY <1>1, <1>2, <1>3 DEF Stopped
<1>5. QED
  BY <1>1, <1>2, <1>4 DEF Where, Busy

LEMMA WhereStep ==
  ASSUME TypeOK, Where, [Next]_vars
  PROVE  Where'
<1> USE DEF memory, disk, world
<1>1. CASE Begin
  <2>1. /\ pc' = "task" /\ at' = 1 /\ verdict' = "running" /\ runs' \in Runs
        /\ status' = [t \in Tasks |-> "none"]
    BY <1>1, DataAssumption DEF Begin, TypeOK, Runs
  <2>2. at' \in Places /\ Progress'
    BY <2>1, OrderFacts DEF Progress
  <2>3. QED
    BY <2>1, <2>2 DEF Where, Busy
<1>2. CASE Compute
  <2>1. CASE Fail
    BY <1>2, <2>1, FailStops DEF Compute, Busy
  <2>2. CASE ~Fail
    BY <1>2, <2>2 DEF Compute, Where, Busy, Progress
  <2>3. QED
    BY <2>1, <2>2
<1>3. CASE WriteOutput
  <2>1. CASE Fail
    BY <1>3, <2>1, FailStops DEF WriteOutput, Busy
  <2>2. CASE ~Fail
    BY <1>3, <2>2 DEF WriteOutput, Where, Busy, Progress
  <2>3. QED
    BY <2>1, <2>2
<1>4. CASE Accept
  <2>1. CASE Fail
    BY <1>4, <2>1, FailStops DEF Accept, Busy
  <2>2. CASE ~Fail
    <3>1. /\ status' = [status EXCEPT ![Order[at]] = "success"] /\ at' = at + 1
          /\ pc' = (IF at = Len(Order) THEN "succeed" ELSE "task")
          /\ runs' = runs /\ verdict' = verdict
      BY <1>4, <2>2 DEF Accept, Task
    <3>2. at \in Places /\ Progress /\ verdict = "running" /\ runs \in Runs
      BY <1>4 DEF Accept, Where, Busy
    <3>3. \A i \in Places : status'[Order[i]] = IF i < at + 1 THEN "success" ELSE "none"
      <4> TAKE i \in Places
      <4>1. Order[i] \in Tasks /\ Order[at] \in Tasks /\ i \in Int /\ at \in Int
        BY <3>2, OrderFacts
      <4>2. CASE i = at
        BY <3>1, <4>1, <4>2 DEF TypeOK
      <4>3. CASE i # at
        <5>1. Order[i] # Order[at]
          BY <3>2, <4>3, OrderAssumption DEF Places
        <5>2. status'[Order[i]] = status[Order[i]]
          BY <3>1, <4>1, <5>1 DEF TypeOK
        <5>3. QED
          BY <3>2, <4>1, <4>3, <5>2 DEF Progress
      <4>4. QED
        BY <4>2, <4>3
    <3>4. Progress'
      BY <3>1, <3>3 DEF Progress
    <3>5. CASE at = Len(Order)
      BY <3>1, <3>2, <3>4, <3>5 DEF Where, Busy
    <3>6. CASE at # Len(Order)
      <4>1. at' \in Places
        BY <3>1, <3>2, <3>6, OrderFacts
      <4>2. QED
        BY <3>1, <3>2, <3>4, <3>6, <4>1 DEF Where, Busy
    <3>7. QED
      BY <3>5, <3>6
  <2>3. QED
    BY <2>1, <2>2
<1>5. CASE Fault
  BY <1>5, FailStops DEF Fault, Busy
<1>6. CASE NotifyFailure
  BY <1>6 DEF NotifyFailure, Tell, Where, Busy, Stopped, Progress
<1>7. CASE NotifySuccess
  BY <1>7 DEF NotifySuccess, Tell, Where, Busy, Stopped, Progress
<1>8. CASE Finish
  BY <1>8 DEF Finish, Where, Busy
<1>9. CASE Crash
  BY <1>9 DEF Crash, Where, Busy, Ended
<1>10. CASE ChangeSource
  BY <1>10 DEF ChangeSource, Where, Progress, Stopped
<1>11. CASE UNCHANGED vars
  BY <1>11 DEF vars, Where, Progress, Stopped
<1>12. QED
  BY <1>1, <1>2, <1>3, <1>4, <1>5, <1>6, <1>7, <1>8, <1>9, <1>10, <1>11 DEF Next

-------------------------------------------------------------------------------
\* While a task is at work it has not been judged, and it is the one of its place.
LEMMA AtWork ==
  ASSUME TypeOK, Where, pc \in Busy
  PROVE  /\ at \in Places /\ Task \in Tasks /\ status[Task] = "none"
         /\ \A u \in Inputs[Task] : u # Task /\ status[u] = "success"
         /\ \A u \in Deps[Task] : status[u] = "success"
<1>1. at \in Places /\ Progress /\ Task \in Tasks
  BY OrderFacts DEF Where, Task
<1>2. at \in Int /\ status[Task] = "none"
  BY <1>1, OrderFacts DEF Progress, Task
<1>3. ASSUME NEW u \in Deps[Task] PROVE status[u] = "success"
  <2>1. PICK j \in Places : j < at /\ Order[j] = u
    BY <1>1, <1>3, OrderFacts DEF Task
  <2>2. QED
    BY <1>1, <2>1 DEF Progress
<1>4. Inputs[Task] \subseteq Deps[Task]
  BY <1>1, TaskAssumption
<1>5. QED
  BY <1>1, <1>2, <1>3, <1>4

\* What a task that succeeded was given does not depend on the one at work.
LEMMA InputsSettled ==
  ASSUME TypeOK, Where, pc \in Busy, NEW t \in Tasks, status[t] # "none",
         NEW given, table' = [table EXCEPT ![Task] = given]
  PROVE  Given(table', t) = Given(table, t)
<1>1. PICK i \in Places : Order[i] = t
  BY OrderAssumption DEF Places
<1>2. at \in Places /\ i < at
  BY <1>1 DEF Where, Progress
<1>3. ASSUME NEW u \in Inputs[t] PROVE u # Task
  <2>1. u \in Deps[Order[i]]
    BY <1>1, <1>3, TaskAssumption
  <2>2. PICK j \in Places : j < i /\ Order[j] = u
    BY <2>1, OrderFacts
  <2>3. j # at
    BY <1>2, <2>2, OrderFacts
  <2>4. QED
    BY <1>2, <2>2, <2>3, OrderAssumption DEF Places, Task
<1>4. \A u \in Inputs[t] : table'[u] = table[u]
  BY <1>3, TaskAssumption DEF TypeOK
<1>5. QED
  BY <1>4 DEF Given

\* A failing task leaves its destination as it was, or delivered.
LEMMA FailDisk ==
  ASSUME TypeOK, Where, Holding, Disk, pc \in Busy, Fail, dest' = dest
  PROVE  Disk' /\ Holding'
<1>1. /\ pc' = "failing" /\ at' = at /\ table' = table /\ before' = before /\ now' = now
      /\ status' = [status EXCEPT ![Task] = "failed"] /\ Task' = Task
  BY DEF Fail, world, Task
<1>2. Task \in Tasks /\ status[Task] = "none"
  BY AtWork
<1>3. Task \in Outputs => dest[Task] \in {before[Task], Delivered(Task)}
  BY <1>2 DEF Disk, Holding, Busy
<1>4. \A t \in Tasks : Delivered(t)' = Delivered(t)
  BY <1>1 DEF Delivered, Due, Given
<1>5. ASSUME NEW t \in Outputs
      PROVE  /\ status'[t] = "success" => dest'[t] = Delivered(t)'
             /\ status'[t] \in {"none", "skipped"} => dest'[t] = before'[t]
             /\ status'[t] = "failed" => dest'[t] \in {before'[t], Delivered(t)'}
  <2>1. t \in Tasks
    BY TaskAssumption
  <2>2. CASE t = Task
    BY <1>1, <1>2, <1>3, <1>4, <2>1, <2>2 DEF TypeOK
  <2>3. CASE t # Task
    BY <1>1, <1>4, <2>1, <2>3 DEF Disk, TypeOK, Busy
  <2>4. QED
    BY <2>2, <2>3
<1>6. QED
  BY <1>1, <1>5 DEF Disk, Holding

LEMMA DiskStep ==
  ASSUME TypeOK, Where, Holding, Disk, [Next]_vars
  PROVE  Disk' /\ Holding'
<1> USE DEF memory, disk, world
<1>0. Outputs \subseteq Tasks
  BY TaskAssumption
<1>1. CASE Begin
  BY <1>0, <1>1 DEF Begin, Disk, Holding
<1>2. CASE Compute
  <2>1. CASE Fail
    BY <1>2, <2>1, FailDisk DEF Compute, Busy
  <2>2. CASE ~Fail
    <3>1. /\ Task \in Tasks /\ status[Task] = "none" /\ pc = "task"
          /\ Result(Task) \in Table /\ Result(Task) # NoValue
      BY <1>2, <2>2, AtWork, ResultType DEF Compute, Busy
    <3>2. /\ rows' = Result(Task)
          /\ old' = (IF Task \in Outputs THEN dest[Task] ELSE NoValue)
          /\ pc' = (IF Task \in Outputs THEN "write" ELSE "check")
          /\ UNCHANGED <<at, table, status, dest, before, now>>
      BY <1>2, <2>2, <3>1 DEF Compute
    <3>3. Task' = Task /\ Due(Task)' = Due(Task) /\ \A t \in Tasks : Delivered(t)' = Delivered(t)
      BY <3>2 DEF Task, Delivered, Due, Given
    <3>4. Task \in Outputs => dest[Task] = before[Task]
      BY <3>1 DEF Disk
    <3>5. rows' \in Values /\ (Task \notin Ingest => rows' = Due(Task))
      BY <3>1, <3>2 DEF Result, Due, Table
    <3>6. Holding'
      BY <3>2, <3>3, <3>4, <3>5 DEF Holding
    <3>7. Disk'
      BY <1>0, <3>1, <3>2, <3>3 DEF Disk
    <3>8. QED
      BY <3>6, <3>7
  <2>3. QED
    BY <2>1, <2>2
<1>3. CASE WriteOutput
  <2>1. CASE Fail /\ dest' = dest
    BY <1>3, <2>1, FailDisk DEF WriteOutput, Busy
  <2>2. CASE ~(Fail /\ dest' = dest)
    <3>1. /\ Task \in Outputs /\ status[Task] = "none" /\ pc = "write"
          /\ Store(Task, old, rows) = Delivered(Task) /\ Task \notin Ingest
          /\ rows \in Values /\ rows = Due(Task)
      BY <1>3, AtWork, TaskAssumption DEF WriteOutput, Busy, Holding, Delivered
    <3>2. /\ dest' = [dest EXCEPT ![Task] = Delivered(Task)] /\ pc' = "check"
          /\ UNCHANGED <<at, table, status, before, now, rows>>
      BY <1>3, <2>2, <3>1 DEF WriteOutput
    <3>3. Task' = Task /\ \A t \in Tasks : Due(t)' = Due(t) /\ Delivered(t)' = Delivered(t)
      BY <3>2 DEF Task, Delivered, Due, Given
    <3>4. dest'[Task] = Delivered(Task)
      BY <3>1, <3>2 DEF TypeOK
    <3>5. Holding'
      BY <1>0, <3>1, <3>2, <3>3, <3>4 DEF Holding
    <3>6. \A t \in Outputs : t # Task => dest'[t] = dest[t]
      BY <3>2 DEF TypeOK
    <3>7. Disk'
      BY <1>0, <3>1, <3>2, <3>3, <3>6 DEF Disk
    <3>8. QED
      BY <3>5, <3>7
  <2>3. QED
    BY <2>1, <2>2
<1>4. CASE Accept
  <2>1. CASE Fail
    BY <1>4, <2>1, FailDisk DEF Accept, Busy
  <2>2. CASE ~Fail
    <3>1. /\ status' = [status EXCEPT ![Task] = "success"]
          /\ table' = [table EXCEPT ![Task] = rows]
          /\ pc' \in {"succeed", "task"} /\ UNCHANGED <<dest, before, now>>
      BY <1>4, <2>2 DEF Accept
    <3>2. /\ pc = "check" /\ pc \in Busy /\ Task \in Tasks /\ status[Task] = "none"
          /\ \A u \in Inputs[Task] : u # Task
      BY <1>4, AtWork DEF Accept, Busy
    <3>3. ASSUME NEW t \in Tasks, t = Task \/ status[t] # "none"
          PROVE  Delivered(t)' = Delivered(t)
      <4>1. Given(table', t) = Given(table, t)
        <5>1. CASE t = Task
          BY <3>1, <3>2, <5>1, TaskAssumption DEF Given, TypeOK
        <5>2. CASE status[t] # "none"
          BY <3>1, <3>2, <5>2, InputsSettled
        <5>3. QED
          BY <3>3, <5>1, <5>2
      <4>2. QED
        BY <3>1, <4>1 DEF Delivered, Due
    <3>4. ASSUME NEW t \in Outputs
          PROVE  /\ status'[t] = "success" => dest'[t] = Delivered(t)'
                 /\ status'[t] \in {"none", "skipped"} => dest'[t] = before'[t]
                 /\ status'[t] = "failed" => dest'[t] \in {before'[t], Delivered(t)'}
      <4>1. CASE t = Task
        BY <1>0, <3>1, <3>2, <3>3, <4>1 DEF Holding, TypeOK
      <4>2. CASE t # Task
        <5>1. status'[t] = status[t]
          BY <1>0, <3>1, <4>2 DEF TypeOK
        <5>2. QED
          BY <1>0, <3>1, <3>2, <3>3, <4>2, <5>1 DEF Disk
      <4>3. QED
        BY <4>1, <4>2
    <3>5. QED
      BY <3>1, <3>4 DEF Disk, Holding
  <2>3. QED
    BY <2>1, <2>2
<1>5. CASE Fault
  BY <1>5, FailDisk DEF Fault, Busy
<1>6. CASE NotifyFailure \/ NotifySuccess
  <2>1. /\ pc \in {"failing", "succeed"} /\ pc' \in {"finish", "escaped"}
        /\ UNCHANGED <<at, table, status, dest, before, now>>
    BY <1>6 DEF NotifyFailure, NotifySuccess, Tell
  <2>2. QED
    BY <2>1 DEF Disk, Holding, Delivered, Due, Given, Task
<1>7. CASE Finish
  <2>1. /\ pc = "finish" /\ pc' \in {"returned", "escaped"} /\ status' = Skipped
        /\ UNCHANGED <<at, table, dest, before, now>>
    BY <1>7 DEF Finish
  <2>2. \A t \in Tasks : status'[t] = IF status[t] = "none" THEN "skipped" ELSE status[t]
    BY <2>1 DEF Skipped
  <2>3. QED
    BY <1>0, <2>1, <2>2 DEF Disk, Holding, Delivered, Due, Given, Task
<1>8. CASE Crash
  BY <1>8 DEF Crash, Disk, Holding, Delivered, Due, Given, Task
<1>9. CASE ChangeSource
  BY <1>9 DEF ChangeSource, Disk, Holding, Delivered, Due, Given, Task
<1>10. CASE UNCHANGED vars
  BY <1>10 DEF vars, Disk, Holding, Delivered, Due, Given, Task
<1>11. QED
  BY <1>1, <1>2, <1>3, <1>4, <1>5, <1>6, <1>7, <1>8, <1>9, <1>10 DEF Next

\* Only the end of a run records, and only its own.
LEMMA RecordedStep ==
  ASSUME TypeOK, Where, Recorded, [Next]_vars
  PROVE  Recorded'
<1> USE DEF memory, disk, world
<1>0. runs \in Nat
  BY DEF TypeOK
<1>1. CASE Begin
  <2>1. pc' = "task" /\ runs' = runs + 1 /\ record' = record
    BY <1>1 DEF Begin
  <2>2. runs' \in Runs => record'[runs'] = NoRecord
    BY <1>0, <2>1 DEF Recorded
  <2>3. \A r \in Runs : r > runs' => record'[r] = NoRecord
    BY <1>0, <2>1 DEF Recorded, Runs
  <2>4. QED
    BY <2>1, <2>2, <2>3 DEF Recorded
<1>2. ASSUME UNCHANGED <<runs, record>>, pc \notin Ended, pc' # "returned" PROVE Recorded'
  BY <1>2 DEF Recorded
<1>3. CASE Compute \/ WriteOutput \/ Accept \/ Fault \/ NotifyFailure \/ NotifySuccess \/ Crash
  BY <1>2, <1>3 DEF Compute, WriteOutput, Accept, Fault, NotifyFailure, NotifySuccess, Crash,
     Tell, Fail, Ended
<1>4. CASE Finish
  <2>1. pc = "finish" /\ UNCHANGED <<runs, verdict, table>> /\ status' = Skipped /\ runs \in Runs
    BY <1>4 DEF Finish, Where
  <2>2. CASE record' = record /\ pc' = "escaped"
    BY <1>2, <2>1, <2>2 DEF Ended
  <2>3. CASE /\ record' = [record EXCEPT ![runs] =
                  [verdict |-> verdict, tasks |-> Skipped, handed |-> table]]
             /\ pc' = "returned"
    <3>1. record'[runs] = [verdict |-> verdict, tasks |-> Skipped, handed |-> table]
      BY <2>1, <2>3 DEF TypeOK
    <3>2. \A r \in Runs : r > runs => record'[r] = record[r]
      BY <1>0, <2>3 DEF TypeOK, Runs
    <3>3. QED
      BY <2>1, <2>3, <3>1, <3>2 DEF Recorded, Ended
  <2>4. QED
    BY <1>4, <2>2, <2>3 DEF Finish
<1>5. CASE ChangeSource \/ UNCHANGED vars
  BY <1>5 DEF ChangeSource, vars, Recorded
<1>6. QED
  BY <1>1, <1>3, <1>4, <1>5 DEF Next

\* A run has announced only what it will record.
LEMMA AnnouncedStep ==
  ASSUME TypeOK, Where, Announced, [Next]_vars
  PROVE  Announced'
<1> USE DEF memory, disk, world
<1>0. runs \in Nat /\ \A e \in events : e[1] \in Int
  BY DEF TypeOK, Runs
<1>1. CASE Begin
  <2>1. runs' = runs + 1 /\ events' = events
    BY <1>1 DEF Begin
  <2>2. ASSUME NEW name \in {"success", "failure"} PROVE <<runs + 1, name>> \notin events
    <3>1. <<runs + 1, name>>[1] = runs + 1
      OBVIOUS
    <3>2. QED
      BY <1>0, <3>1 DEF Announced
  <2>3. QED
    BY <1>0, <2>1, <2>2 DEF Announced
<1>2. ASSUME UNCHANGED <<runs, events>>, verdict' = verdict \/ verdict = "running"
      PROVE  Announced'
  BY <1>2 DEF Announced
<1>3. CASE Compute \/ WriteOutput \/ Accept \/ Fault
  BY <1>2, <1>3 DEF Compute, WriteOutput, Accept, Fault, Fail, Where, Busy
<1>4. CASE NotifyFailure
  <2>1. verdict = "failed" /\ UNCHANGED <<runs, verdict>> /\ events' \subseteq events \cup {<<runs, "failure">>}
    BY <1>4 DEF NotifyFailure, Tell, Where
  <2>2. QED
    BY <1>0, <2>1 DEF Announced
<1>5. CASE NotifySuccess
  <2>1. /\ verdict = "running" /\ verdict' = "success" /\ runs' = runs
        /\ events' \subseteq events \cup {<<runs, "success">>}
    BY <1>5 DEF NotifySuccess, Tell, Where
  <2>2. QED
    BY <1>0, <2>1 DEF Announced
<1>6. CASE Finish \/ Crash \/ ChangeSource \/ UNCHANGED vars
  BY <1>2, <1>6 DEF Finish, Crash, ChangeSource, vars
<1>7. QED
  BY <1>1, <1>3, <1>4, <1>5, <1>6 DEF Next

LEMMA Inductive == Spec => []IInv
<1>1. Init => IInv
  <2> SUFFICES ASSUME Init PROVE IInv
    OBVIOUS
  <2>1. TypeOK
    <3>1. NoValue \in Table /\ NoTables \in [Tasks -> Table]
      BY DEF Table, NoTables
    <3>2. at \in 1 .. Len(Order) + 1 /\ runs \in 0 .. MaxRuns
      BY DataAssumption, OrderFacts DEF Init
    <3>3. dest \in [Outputs -> Table] /\ before \in [Outputs -> Table]
      BY DataAssumption DEF Init
    <3>4. record \in [Runs -> {NoRecord} \cup Records]
      BY DEF Init
    <3>5. status \in [Tasks -> Statuses] /\ verdict \in Verdicts /\ pc \in Ended
      BY DEF Init, Statuses, Verdicts, Ended
    <3>6. QED
      BY <3>1, <3>2, <3>3, <3>4, <3>5 DEF Init, TypeOK
  <2>2. Where /\ Holding
    BY DEF Init, Where, Holding, Busy
  <2>3. Disk
    BY TaskAssumption DEF Init, Disk
  <2>4. Recorded /\ Announced
    BY DEF Init, Recorded, Announced, Runs
  <2>5. QED
    BY <2>1, <2>2, <2>3, <2>4 DEF IInv
<1>2. IInv /\ [Next]_vars => IInv'
  BY TypeStep, WhereStep, DiskStep, RecordedStep, AnnouncedStep DEF IInv
<1>3. QED
  BY <1>1, <1>2, PTL DEF Spec

\* Every variable of the runner and of its disk keeps its type.
THEOREM TypeCorrect == Spec => []TypeOK
<1>1. IInv => TypeOK
  BY DEF IInv
<1>2. QED
  BY <1>1, Inductive, PTL

\* The record of the latest run is true of the disk: deliveries where it says so,
\* nothing where it says skipped, and at most the delivery where it failed.
THEOREM RecordMatchesDiskHolds == Spec => []RecordMatchesDisk
<1>1. IInv => RecordMatchesDisk
  <2> SUFFICES ASSUME IInv, pc = "returned", NEW t \in Outputs
               PROVE  LET said == record[runs].tasks[t]
                          delivered == Store(t, before[t], Apply(t, Given(record[runs].handed, t), now))
                      IN /\ said = "success" => dest[t] = delivered
                         /\ said = "skipped" => dest[t] = before[t]
                         /\ said = "failed" => dest[t] \in {before[t], delivered}
    BY DEF RecordMatchesDisk
  <2>1. record[runs].tasks = status /\ record[runs].handed = table
    BY DEF IInv, Recorded
  <2>2. QED
    BY <2>1 DEF IInv, Disk, Delivered, Due
<1>2. QED
  BY <1>1, Inductive, PTL

\* No run is announced as what its record denies.
THEOREM EventsAgreeHolds == Spec => []EventsAgree
<1>1. Init => EventsAgree
  BY DEF Init, EventsAgree, NoRecord
<1>2. IInv /\ IInv' /\ EventsAgree /\ [Next]_vars => EventsAgree'
  <2> SUFFICES ASSUME IInv, IInv', EventsAgree, [Next]_vars, NEW r \in Runs
               PROVE  /\ ~({<<r, "success">>, <<r, "failure">>} \subseteq events')
                      /\ <<r, "success">> \in events' =>
                           record'[r].verdict \in {"success", "none"}
                      /\ <<r, "failure">> \in events' =>
                           record'[r].verdict \in {"failed", "none"}
    BY DEF EventsAgree
  <2>1. NoRecord.verdict = "none"
    BY DEF NoRecord
  <2>2. CASE r = runs'
    BY <2>1, <2>2 DEF IInv, Recorded, Announced
  <2>3. CASE r # runs'
    <3>1. r # runs => record'[r] = record[r] /\ \A name \in {"success", "failure"} :
                        <<r, name>> \in events' <=> <<r, name>> \in events
      BY DEF Next, Begin, Compute, WriteOutput, Accept, Fault, Fail, NotifyFailure,
         NotifySuccess, Tell, Finish, Crash, ChangeSource, vars, memory, disk, world,
         IInv, TypeOK
    <3>2. r = runs => UNCHANGED <<record, events>>
      BY <2>3 DEF Next, Begin, Compute, WriteOutput, Accept, Fault, Fail, NotifyFailure,
         NotifySuccess, Tell, Finish, Crash, ChangeSource, vars, memory, disk, world
    <3>3. QED
      BY <3>1, <3>2 DEF EventsAgree
  <2>4. QED
    BY <2>2, <2>3
<1>3. QED
  BY <1>1, <1>2, Inductive, PTL DEF Spec

\* A record tells of all tasks, or of one that failed, with everything before it
\* done and nothing after it.
THEOREM RecordTruthHolds == Spec => []RecordTruth
<1>1. Init => RecordTruth
  BY DEF Init, RecordTruth
<1>2. IInv /\ RecordTruth /\ [Next]_vars => RecordTruth'
  <2> SUFFICES ASSUME IInv, RecordTruth, [Next]_vars PROVE RecordTruth'
    OBVIOUS
  <2>1. CASE record' = record
    BY <2>1 DEF RecordTruth
  <2>2. CASE record' # record
    <3>1. /\ pc = "finish" /\ runs \in Runs
          /\ record' = [record EXCEPT ![runs] =
               [verdict |-> verdict, tasks |-> Skipped, handed |-> table]]
      BY <2>2 DEF Next, Begin, Compute, WriteOutput, Accept, Fault, Fail, NotifyFailure,
         NotifySuccess, Tell, Finish, Crash, ChangeSource, vars, memory, disk, world,
         IInv, Where
    <3>2. \A i \in Places : /\ Order[i] \in Tasks /\ i \in Int /\ at \in Int
                            /\ Skipped[Order[i]] = IF status[Order[i]] = "none"
                                 THEN "skipped" ELSE status[Order[i]]
      BY OrderFacts DEF Skipped, IInv, TypeOK
    <3>3. CASE verdict = "success" /\ at = Len(Order) + 1 /\ Progress
      <4>1. \A t \in Tasks : Skipped[t] = "success"
        BY <3>2, <3>3, OrderFacts, OrderAssumption DEF Progress, Places
      <4>2. QED
        BY <3>1, <3>3, <4>1 DEF RecordTruth, IInv, TypeOK
    <3>4. CASE verdict = "failed" /\ Stopped
      <4>1. \A j \in Places : Skipped[Order[j]] =
              IF j < at THEN "success" ELSE IF j = at THEN "failed" ELSE "skipped"
        BY <3>2, <3>4 DEF Stopped
      <4>2. at \in DOMAIN Order
        BY <3>4 DEF Stopped, Places
      <4>3. QED
        BY <3>1, <3>4, <4>1, <4>2 DEF RecordTruth, Places, IInv, TypeOK
    <3>5. QED
      BY <3>1, <3>3, <3>4 DEF IInv, Where
  <2>3. QED
    BY <2>1, <2>2
<1>3. QED
  BY <1>1, <1>2, Inductive, PTL DEF Spec

-------------------------------------------------------------------------------
\* The runner implements DagExecution, run after run: tasks are given up, or
\* nothing the promise speaks of changes.
LEMMA GiveUpMaps ==
  ASSUME UNCHANGED <<table, dest, before, now>>,
         \A t \in Tasks : Verdict(t)' = Verdict(t)
                          \/ (Verdict(t) = "waiting" /\ Verdict(t)' = "failed")
  PROVE  [Promise!Next]_(Promise!vars)
<1> DEFINE S == {t \in Tasks : Verdict(t)' # Verdict(t)}
<1>1. CASE S = {}
  BY <1>1 DEF Promise!vars
<1>2. CASE S # {}
  <2>1. \A t \in S : t \in Tasks /\ Verdict(t) = "waiting"
    OBVIOUS
  <2>2. [t \in Tasks |-> Verdict(t)]'
          = [t \in Tasks |-> IF t \in S THEN "failed" ELSE Verdict(t)]
    OBVIOUS
  <2>3. Promise!GiveUp(S)
    BY <1>2, <2>1, <2>2 DEF Promise!GiveUp
  <2>4. QED
    BY <2>3 DEF Promise!Next
<1>3. QED
  BY <1>1, <1>2

\* A task that fails is given up.
LEMMA FailMaps ==
  ASSUME IInv, pc \in Busy, Fail, dest' = dest
  PROVE  [Promise!Next]_(Promise!vars)
<1>1. Task \in Tasks /\ status[Task] = "none" /\ status \in [Tasks -> Statuses]
  BY AtWork DEF IInv, TypeOK
<1>2. /\ status' = [status EXCEPT ![Task] = "failed"] /\ UNCHANGED <<table, dest, before, now>>
  BY DEF Fail, world
<1>3. QED
  BY <1>1, <1>2, GiveUpMaps DEF Verdict

\* A write is a delivery, of what is due and on what the run found.
LEMMA WriteMaps ==
  ASSUME IInv, WriteOutput, ~(Fail /\ dest' = dest)
  PROVE  Promise!Deliver(Task)
<1> USE DEF IInv, memory, disk, world
<1>1. /\ Task \in Outputs /\ Task \in Tasks /\ rows \in Values /\ rows = Due(Task)
      /\ old = before[Task] /\ \A u \in Deps[Task] : status[u] = "success"
  BY AtWork, TaskAssumption DEF WriteOutput, Busy, Holding
<1>2. /\ Store(Task, old, rows) # NoValue
      /\ dest' = [dest EXCEPT ![Task] = Store(Task, old, rows)]
      /\ UNCHANGED <<status, table, before, now>>
  BY DEF WriteOutput
<1>3. Due(Task) = Apply(Task, Promise!Given(Task), now) /\ Due(Task) # NoValue
  BY <1>1, DataAssumption DEF Due, Given, Promise!Given
<1>4. Promise!DepsDone(Task)
  BY <1>1, TaskAssumption DEF Promise!DepsDone, Verdict
<1>5. old \in Values \cup {NoValue}
  BY DEF TypeOK, Table
<1>6. UNCHANGED <<[t \in Tasks |-> Verdict(t)], table, before, now>>
  BY <1>2 DEF Verdict
<1>7. QED
  BY <1>1, <1>2, <1>3, <1>4, <1>5, <1>6 DEF Promise!Deliver

\* A task that is accepted completes.
LEMMA AcceptMaps ==
  ASSUME IInv, Accept, ~Fail
  PROVE  Promise!Complete(Task)
<1> USE DEF IInv, memory, disk, world
<1>1. /\ Task \in Tasks /\ rows \in Values /\ (Task \notin Ingest => rows = Due(Task))
      /\ status[Task] = "none" /\ \A u \in Deps[Task] : status[u] = "success"
  BY AtWork DEF Accept, Busy, Holding
<1>2. Task \in Once => dest[Task] = Store(Task, before[Task], rows)
  BY <1>1, TaskAssumption DEF Accept, Holding, Delivered
<1>3. /\ Fits(Task, rows) /\ status' = [status EXCEPT ![Task] = "success"]
      /\ table' = [table EXCEPT ![Task] = rows] /\ UNCHANGED <<dest, before, now>>
  BY DEF Accept
<1>4. Due(Task) = Apply(Task, Promise!Given(Task), now)
  BY DEF Due, Given, Promise!Given
<1>5. Promise!DepsDone(Task)
  BY <1>1, TaskAssumption DEF Promise!DepsDone, Verdict
<1>6. [t \in Tasks |-> Verdict(t)]' = [[t \in Tasks |-> Verdict(t)] EXCEPT ![Task] = "done"]
  BY <1>1, <1>3 DEF Verdict, TypeOK
<1>7. Verdict(Task) = "waiting"
  BY <1>1 DEF Verdict
<1>8. QED
  BY <1>1, <1>2, <1>3, <1>4, <1>5, <1>6, <1>7 DEF Promise!Complete

LEMMA StepMaps ==
  ASSUME IInv, [Next]_vars
  PROVE  [Promise!Next \/ Promise!Rerun]_(Promise!vars)
<1> USE DEF memory, disk, world
<1>1. ASSUME UNCHANGED <<status, table, dest, before, now>> PROVE [Promise!Next]_(Promise!vars)
  BY <1>1, GiveUpMaps DEF Verdict
<1>2. CASE Begin
  <2>1. /\ status' = [t \in Tasks |-> "none"] /\ table' = [t \in Tasks |-> NoValue]
        /\ before' = dest /\ dest' = dest /\ now' \in Clocks
    BY <1>2 DEF Begin, NoTables, IInv, TypeOK
  <2>2. [t \in Tasks |-> Verdict(t)]' = [t \in Tasks |-> "waiting"]
    BY <2>1 DEF Verdict
  <2>3. Promise!Rerun
    BY <2>1, <2>2 DEF Promise!Rerun
  <2>4. QED
    BY <2>3
<1>3. CASE Compute
  <2>1. CASE Fail
    BY <1>3, <2>1, FailMaps DEF Compute, Busy
  <2>2. CASE ~Fail
    BY <1>1, <1>3, <2>2 DEF Compute
  <2>3. QED
    BY <2>1, <2>2
<1>4. CASE WriteOutput
  <2>1. CASE Fail /\ dest' = dest
    BY <1>4, <2>1, FailMaps DEF WriteOutput, Busy
  <2>2. CASE ~(Fail /\ dest' = dest)
    BY <1>4, <2>2, WriteMaps, AtWork DEF WriteOutput, Busy, IInv, Promise!Next
  <2>3. QED
    BY <2>1, <2>2
<1>5. CASE Accept
  <2>1. CASE Fail
    BY <1>5, <2>1, FailMaps DEF Accept, Busy
  <2>2. CASE ~Fail
    BY <1>5, <2>2, AcceptMaps, AtWork DEF Accept, Busy, IInv, Promise!Next
  <2>3. QED
    BY <2>1, <2>2
<1>6. CASE Fault
  BY <1>6, FailMaps DEF Fault, Busy
<1>7. CASE Finish
  <2>1. status' = Skipped /\ UNCHANGED <<table, dest, before, now>>
    BY <1>7 DEF Finish
  <2>2. \A t \in Tasks : status'[t] = IF status[t] = "none" THEN "skipped" ELSE status[t]
    BY <2>1 DEF Skipped
  <2>3. QED
    BY <2>1, <2>2, GiveUpMaps DEF Verdict
<1>8. CASE NotifyFailure \/ NotifySuccess \/ Crash \/ ChangeSource \/ UNCHANGED vars
  BY <1>1, <1>8 DEF NotifyFailure, NotifySuccess, Crash, ChangeSource, vars
<1>9. QED
  BY <1>2, <1>3, <1>4, <1>5, <1>6, <1>7, <1>8 DEF Next

\* Every run, after whatever the runs before it left, keeps the promise of
\* DagExecution towards what it found; for every kind of destination.
THEOREM Refinement == Spec => KeepsPromise
<1>1. Init => Promise!Init
  BY DEF Init, Promise!Init, Verdict, NoTables
<1>2. IInv /\ [Next]_vars => [Promise!Next \/ Promise!Rerun]_(Promise!vars)
  BY StepMaps
<1>3. QED
  BY <1>1, <1>2, Inductive, PTL DEF Spec, KeepsPromise, Promise!RerunSpec

-------------------------------------------------------------------------------
\* Running again converges, where a write may be repeated.

Succeeded == {t \in Tasks : status[t] = "success"}

\* The tables that tasks have when they are all computed from the present sources.
Computed(g, D) ==
  /\ D \subseteq Tasks /\ g \in [Tasks -> Table]
  /\ \A u \in D : Inputs[u] \subseteq D
  /\ \A u \in D : g[u] = IF u \in Ingest THEN Window(u, source[u], now)
                       ELSE Apply(u, Given(g, u), now)

\* A destination that holds one delivery of what its task is due from these tables.
OneDelivery(t, g, D) ==
  /\ Computed(g, D) /\ Inputs[t] \subseteq D
  /\ Apply(t, Given(g, t), now) # NoValue /\ dest[t] # NoValue
  /\ dest[t] = Store(t, Base[t], Apply(t, Given(g, t), now))

Written(t) == status[t] = "success" \/ (pc = "check" /\ t = Task)

Converging ==
  ~moved =>
    /\ Computed(table, Succeeded)
    /\ pc \in {"write", "check"} /\ Task \in Ingest => rows = Window(Task, source[Task], now)
    /\ \A t \in Once : dest[t] # Base[t] =>
         \E g \in [Tasks -> Table] : \E D \in SUBSET Tasks : OneDelivery(t, g, D)
    /\ \A t \in Once : Written(t) => OneDelivery(t, table, Succeeded)

\* What is computed from the sources is so in one way only.
LEMMA OneWay ==
  ASSUME NEW g, NEW D, NEW h, NEW E, Computed(g, D), Computed(h, E), NEW t \in Tasks,
         Inputs[t] \subseteq D, Inputs[t] \subseteq E
  PROVE  Given(g, t) = Given(h, t)
<1> DEFINE S == {u \in D \cap E : g[u] # h[u]}
<1>1. ASSUME S # {} PROVE FALSE
  <2>1. S \in SUBSET Tasks
    BY DEF Computed
  <2>2. PICK u \in S : Inputs[u] \cap S = {}
    BY <1>1, <2>1, Acyclic
  <2>3. \A v \in Inputs[u] : g[v] = h[v]
    BY <2>2 DEF Computed
  <2>4. Given(g, u) = Given(h, u)
    BY <2>3 DEF Given
  <2>5. g[u] = h[u]
    BY <2>2, <2>4 DEF Computed
  <2>6. QED
    BY <2>2, <2>5
<1>2. \A u \in Inputs[t] : g[u] = h[u]
  BY <1>1
<1>3. QED
  BY <1>2 DEF Given

\* The task at work adds to what is computed, when it is accepted.
LEMMA AcceptComputes ==
  ASSUME TypeOK, Where, Holding, ~moved, Computed(table, Succeeded), Accept, ~Fail,
         Task \in Ingest => rows = Window(Task, source[Task], now)
  PROVE  /\ Computed(table', Succeeded') /\ Succeeded' = Succeeded \cup {Task}
         /\ \A t \in Tasks : t \in Succeeded \cup {Task} => Given(table', t) = Given(table, t)
<1>1. /\ pc = "check" /\ pc \in Busy /\ table' = [table EXCEPT ![Task] = rows]
      /\ status' = [status EXCEPT ![Task] = "success"] /\ rows \in Values
      /\ Task \notin Ingest => rows = Due(Task)
  BY DEF Accept, Busy, Holding
<1>2. /\ Task \in Tasks /\ Task \notin Succeeded /\ Inputs[Task] \subseteq Succeeded
  BY <1>1, AtWork, TaskAssumption DEF Succeeded
<1>3. Succeeded' = Succeeded \cup {Task}
  BY <1>1, <1>2 DEF Succeeded, TypeOK
<1>4. \A u \in Tasks : table'[u] = IF u = Task THEN rows ELSE table[u]
  BY <1>1 DEF TypeOK
<1>5. ASSUME NEW t \in Succeeded \cup {Task} PROVE Inputs[t] \subseteq Succeeded
  BY <1>2, <1>5 DEF Computed
<1>6. ASSUME NEW t \in Succeeded \cup {Task} PROVE Given(table', t) = Given(table, t)
  <2>1. \A u \in Inputs[t] : u \in Tasks /\ u # Task
    BY <1>2, <1>5 DEF Succeeded
  <2>2. QED
    BY <1>4, <2>1 DEF Given
<1>7. source' = source /\ now' = now /\ table' \in [Tasks -> Table]
  BY <1>1, <1>2 DEF Accept, Fail, world, TypeOK, Table
<1>8. ASSUME NEW u \in Succeeded \cup {Task}
      PROVE  table'[u] = IF u \in Ingest THEN Window(u, source'[u], now')
                           ELSE Apply(u, Given(table', u), now')
  <2>1. CASE u = Task
    BY <1>1, <1>2, <1>4, <1>6, <1>7, <2>1 DEF Due
  <2>2. CASE u # Task
    BY <1>4, <1>6, <1>7, <2>2 DEF Computed, Succeeded
  <2>3. QED
    BY <2>1, <2>2
<1>9. QED
  BY <1>2, <1>3, <1>5, <1>6, <1>7, <1>8 DEF Computed, Succeeded

\* A repeated delivery is the first.
LEMMA WriteConverges ==
  ASSUME Repeatable, IInv, ~moved, Converging, WriteOutput, ~(Fail /\ dest' = dest),
         Task \in Once
  PROVE  OneDelivery(Task, table, Succeeded)'
<1> USE DEF IInv, memory, disk, world
<1>1. /\ Task \in Tasks /\ Task \in Outputs /\ old = dest[Task] /\ rows \in Values
      /\ rows = Due(Task) /\ Inputs[Task] \subseteq Succeeded
  BY AtWork, TaskAssumption DEF WriteOutput, Busy, Holding, Succeeded
<1>2. /\ Store(Task, old, rows) # NoValue
      /\ dest' = [dest EXCEPT ![Task] = Store(Task, old, rows)]
      /\ UNCHANGED <<at, status, table, source, now>>
  BY DEF WriteOutput
<1>3. Due(Task) # NoValue
  BY <1>1, DataAssumption
<1>4. Computed(table, Succeeded)
  BY DEF Converging
<1>5. Store(Task, old, rows) = Store(Task, Base[Task], Due(Task))
  <2>1. CASE dest[Task] = Base[Task]
    BY <1>1, <2>1
  <2>2. CASE dest[Task] # Base[Task]
    <3>1. PICK g \in [Tasks -> Table], D \in SUBSET Tasks : OneDelivery(Task, g, D)
      BY <2>2 DEF Converging
    <3>2. Given(g, Task) = Given(table, Task)
      BY <1>1, <1>4, <3>1, OneWay DEF OneDelivery
    <3>3. Given(table, Task) \in [Inputs[Task] -> Table]
      BY <1>1, TaskAssumption DEF Given, TypeOK
    <3>4. /\ dest[Task] = Store(Task, Base[Task], Due(Task)) /\ dest[Task] # NoValue
      BY <3>1, <3>2 DEF OneDelivery, Due
    <3>5. Store(Task, dest[Task], Due(Task)) = dest[Task]
      <4>1. now \in Clocks
        BY DEF TypeOK
      <4>2. QED
        BY <1>3, <3>3, <3>4, <4>1 DEF Repeatable, Due
    <3>6. QED
      BY <1>1, <3>4, <3>5
  <2>3. QED
    BY <2>1, <2>2
<1>6. dest'[Task] = Store(Task, Base[Task], Due(Task)) /\ dest'[Task] # NoValue
  BY <1>1, <1>2, <1>5 DEF TypeOK
<1>7. Task' = Task /\ Succeeded' = Succeeded
  BY <1>2 DEF Task, Succeeded
<1>8. QED
  BY <1>1, <1>2, <1>3, <1>4, <1>6, <1>7 DEF OneDelivery, Computed, Due, Given

\* Steps that compute nothing and write nothing lose nothing.
LEMMA QuietConverges ==
  ASSUME Converging, UNCHANGED <<table, source, now, dest, moved>>, Succeeded' = Succeeded,
         pc' \notin {"write", "check"}
  PROVE  Converging'
<1> SUFFICES ASSUME ~moved PROVE Converging'
  BY DEF Converging
<1>1. \A g, D : Computed(g, D)' = Computed(g, D)
  BY DEF Computed
<1>2. \A t, g, D : OneDelivery(t, g, D)' = OneDelivery(t, g, D)
  BY <1>1 DEF OneDelivery
<1>3. \A t \in Once : Written(t)' => Written(t)
  BY TaskAssumption DEF Written, Succeeded
<1>4. Computed(table, Succeeded)' /\ \A t \in Once :
        OneDelivery(t, table, Succeeded)' = OneDelivery(t, table, Succeeded)
  BY DEF Converging, Computed, OneDelivery
<1>5. QED
  BY <1>2, <1>3, <1>4 DEF Converging

LEMMA ConvergingStep ==
  ASSUME Repeatable, IInv, Converging, [Next]_vars
  PROVE  Converging'
<1> USE DEF IInv, memory, disk, world
<1>0. CASE ChangeSource
  BY <1>0 DEF ChangeSource, Converging
<1>1. CASE UNCHANGED vars
  BY <1>1 DEF vars, Converging, Computed, OneDelivery, Written, Succeeded, Task
<1>2. CASE Fail /\ dest' = dest /\ pc \in Busy
  <2>1. Task \in Tasks /\ status[Task] = "none" /\ status' = [status EXCEPT ![Task] = "failed"]
    BY <1>2, AtWork DEF Fail
  <2>2. Succeeded' = Succeeded
    BY <2>1 DEF Succeeded, TypeOK
  <2>3. QED
    BY <1>2, <2>2, QuietConverges DEF Fail
<1>3. CASE Begin
  <2> SUFFICES ASSUME ~moved' PROVE Converging'
    BY DEF Converging
  <2>1. /\ pc' = "task" /\ table' = NoTables /\ Succeeded' = {} /\ ~moved
        /\ <<now, now'>> \in Alike /\ UNCHANGED <<source, dest>>
    BY <1>3 DEF Begin, Succeeded
  <2>2. ASSUME NEW t \in Tasks, NEW ins \in [Inputs[t] -> Table]
        PROVE  Apply(t, ins, now') = Apply(t, ins, now)
    BY <2>1 DEF Alike
  <2>3. ASSUME NEW t \in Ingest PROVE Window(t, source'[t], now') = Window(t, source[t], now)
    BY <2>1, <2>3 DEF Alike, TypeOK
  <2>4. ASSUME NEW g \in [Tasks -> Table], NEW t \in Tasks
        PROVE  Apply(t, Given(g, t), now') = Apply(t, Given(g, t), now)
    BY <2>2, TaskAssumption DEF Given
  <2>5. ASSUME NEW g, NEW D, Computed(g, D) PROVE Computed(g, D)'
    <3>1. g \in [Tasks -> Table] /\ D \subseteq Tasks
      BY <2>5 DEF Computed
    <3>2. \A u \in D : g[u] = IF u \in Ingest THEN Window(u, source'[u], now')
                              ELSE Apply(u, Given(g, u), now')
      BY <2>3, <2>4, <2>5, <3>1 DEF Computed
    <3>3. QED
      BY <2>5, <3>2 DEF Computed
  <2>6. ASSUME NEW t \in Once, NEW g, NEW D, OneDelivery(t, g, D) PROVE OneDelivery(t, g, D)'
    <3>1. g \in [Tasks -> Table] /\ t \in Tasks
      BY <2>6, TaskAssumption DEF OneDelivery, Computed
    <3>2. Apply(t, Given(g, t), now') = Apply(t, Given(g, t), now)
      BY <2>4, <3>1
    <3>3. QED
      BY <2>1, <2>5, <2>6, <3>2 DEF OneDelivery
  <2>7. \A t \in Once : ~Written(t)'
    BY <1>3, TaskAssumption DEF Begin, Written
  <2>8. Computed(table, Succeeded)'
    BY <2>1 DEF Computed, NoTables, Table
  <2>9. QED
    BY <2>1, <2>6, <2>7, <2>8 DEF Converging
<1>4. CASE Compute /\ ~Fail
  <2>1. /\ Task \in Tasks /\ pc = "task" /\ rows' = Result(Task)
        /\ pc' = (IF Task \in Outputs THEN "write" ELSE "check")
        /\ UNCHANGED <<at, table, status, dest, source, now, moved>>
    BY <1>4, AtWork DEF Compute, Busy
  <2>2. Task' = Task /\ Succeeded' = Succeeded
    BY <2>1 DEF Task, Succeeded
  <2>3. \A g, D : Computed(g, D)' = Computed(g, D)
    BY <2>1 DEF Computed
  <2>4. \A t, g, D : OneDelivery(t, g, D)' = OneDelivery(t, g, D)
    BY <2>1, <2>3 DEF OneDelivery
  <2>5. \A t \in Once : Written(t)' => Written(t)
    BY <2>1, <2>2, TaskAssumption DEF Written
  <2>6. Task \in Ingest => rows' = Window(Task, source[Task], now)
    BY <2>1 DEF Result
  <2>7. Computed(table, Succeeded)' = Computed(table, Succeeded)
    BY <2>1, <2>2 DEF Computed
  <2>8. \A t \in Once : OneDelivery(t, table, Succeeded)' = OneDelivery(t, table, Succeeded)
    BY <2>1, <2>2, <2>7 DEF OneDelivery
  <2>9. QED
    BY <2>1, <2>2, <2>4, <2>5, <2>6, <2>7, <2>8 DEF Converging
<1>5. CASE WriteOutput /\ ~(Fail /\ dest' = dest)
  <2> SUFFICES ASSUME ~moved PROVE Converging'
    BY <1>5 DEF WriteOutput, Converging
  <2>1. /\ Task \in Outputs /\ Task \notin Ingest /\ pc' = "check"
        /\ dest' = [dest EXCEPT ![Task] = Store(Task, old, rows)]
        /\ UNCHANGED <<at, table, status, rows, source, now, moved>>
    BY <1>5, TaskAssumption DEF WriteOutput, Holding
  <2>2. Task' = Task /\ Succeeded' = Succeeded
    BY <2>1 DEF Task, Succeeded
  <2>3. \A g, D : Computed(g, D)' = Computed(g, D)
    BY <2>1 DEF Computed
  <2>4. ASSUME NEW t \in Once, t # Task
        PROVE  dest'[t] = dest[t] /\ \A g, D : OneDelivery(t, g, D)' = OneDelivery(t, g, D)
    <3>1. dest'[t] = dest[t]
      BY <2>1, <2>4, TaskAssumption DEF TypeOK
    <3>2. QED
      BY <2>1, <2>3, <3>1 DEF OneDelivery
  <2>5. Task \in Once => OneDelivery(Task, table, Succeeded)'
    BY <1>5, WriteConverges
  <2>6. Computed(table, Succeeded)'
    BY <2>1, <2>2 DEF Converging, Computed
  <2>7. ASSUME NEW t \in Once, Written(t)' PROVE OneDelivery(t, table, Succeeded)'
    <3>1. CASE t = Task
      BY <2>2, <2>5, <3>1 DEF OneDelivery
    <3>2. CASE t # Task
      <4>1. OneDelivery(t, table, Succeeded)
        BY <2>1, <2>2, <2>7, <3>2 DEF Written, Converging
      <4>2. dest'[t] = dest[t]
        BY <2>4, <3>2
      <4>3. QED
        BY <2>1, <2>2, <4>1, <4>2 DEF OneDelivery, Computed
    <3>3. QED
      BY <3>1, <3>2
  <2>8. ASSUME NEW t \in Once, dest'[t] # Base[t]
        PROVE  \E g \in [Tasks -> Table] : \E D \in SUBSET Tasks : OneDelivery(t, g, D)'
    <3>1. CASE t = Task
      <4>1. OneDelivery(t, table, Succeeded)' /\ table' = table /\ Succeeded' = Succeeded
        BY <2>1, <2>2, <2>5, <3>1
      <4>2. table \in [Tasks -> Table] /\ Succeeded \in SUBSET Tasks
        BY DEF TypeOK, Succeeded
      <4>3. ASSUME NEW g, NEW D, g = table, D = Succeeded PROVE OneDelivery(t, g, D)'
        BY <4>1, <4>3 DEF OneDelivery, Computed
      <4>4. QED
        BY <4>2, <4>3
    <3>2. CASE t # Task
      BY <2>4, <2>8, <3>2 DEF Converging
    <3>3. QED
      BY <3>1, <3>2
  <2>9. QED
    BY <2>1, <2>2, <2>6, <2>7, <2>8 DEF Converging
<1>6. CASE Accept /\ ~Fail
  <2> SUFFICES ASSUME ~moved PROVE Converging'
    BY <1>6 DEF Accept, Converging
  <2>1. /\ pc = "check" /\ pc \in Busy /\ pc' \notin {"write", "check"}
        /\ status' = [status EXCEPT ![Task] = "success"]
        /\ UNCHANGED <<dest, source, now, moved>>
    BY <1>6 DEF Accept, Busy
  <2>2. /\ Computed(table', Succeeded') /\ Succeeded' = Succeeded \cup {Task}
        /\ \A t \in Tasks : t \in Succeeded \cup {Task} => Given(table', t) = Given(table, t)
    BY <1>6, <2>1, AcceptComputes DEF Converging
  <2>3. \A t, g, D : OneDelivery(t, g, D)' = OneDelivery(t, g, D)
    BY <2>1 DEF OneDelivery, Computed
  <2>4. Computed(table, Succeeded)'
    BY <2>1, <2>2 DEF Computed
  <2>5. ASSUME NEW t \in Once, Written(t)' PROVE OneDelivery(t, table, Succeeded)'
    <3>1. t \in Tasks /\ Task \in Tasks
      BY <2>1, AtWork, TaskAssumption
    <3>2. t = Task \/ status[t] = "success"
      BY <2>1, <2>5, <3>1 DEF Written, TypeOK
    <3>3. OneDelivery(t, table, Succeeded)
      BY <2>1, <3>2 DEF Written, Converging
    <3>4. Given(table', t) = Given(table, t)
      BY <2>2, <3>1, <3>2 DEF Succeeded
    <3>5. QED
      BY <2>1, <2>2, <2>4, <3>3, <3>4 DEF OneDelivery
  <2>6. QED
    BY <2>1, <2>3, <2>4, <2>5 DEF Converging
<1>7. CASE NotifyFailure \/ NotifySuccess \/ Finish \/ Crash
  <2>1. pc' \notin {"write", "check"} /\ UNCHANGED <<table, source, now, dest, moved>>
    BY <1>7 DEF NotifyFailure, NotifySuccess, Tell, Finish, Crash
  <2>2. Succeeded' = Succeeded
    BY <1>7 DEF NotifyFailure, NotifySuccess, Finish, Crash, Succeeded, Skipped
  <2>3. QED
    BY <2>1, <2>2, QuietConverges
<1>8. CASE Fault \/ (Compute /\ Fail) \/ (Accept /\ Fail) \/ (WriteOutput /\ Fail /\ dest' = dest)
  BY <1>2, <1>8 DEF Fault, Compute, Accept, WriteOutput, Busy
<1>9. QED
  BY <1>0, <1>1, <1>3, <1>4, <1>5, <1>6, <1>7, <1>8 DEF Next

\* Running again until it works delivers once, where a write may be repeated and the
\* sources are left alone: whatever the runs before it wrote was the same.
THEOREM RerunConvergesHolds ==
  ASSUME Repeatable
  PROVE  Spec => []RerunConverges
<1>1. Init => Converging
  BY TaskAssumption
     DEF Init, Converging, Computed, Succeeded, Written, NoTables, Table
<1>2. IInv /\ Converging /\ [Next]_vars => Converging'
  BY ConvergingStep
<1>3. IInv /\ Converging /\ RecordTruth => RerunConverges
  <2> SUFFICES ASSUME IInv, Converging, RecordTruth, pc = "returned",
                      verdict = "success", ~moved, NEW t \in Once
               PROVE  dest[t] = Store(t, Base[t], Apply(t, Given(table, t), now))
    BY DEF RerunConverges
  <2>1. /\ runs \in Runs /\ record[runs].verdict = "success" /\ record[runs].tasks = status
        /\ record[runs] # NoRecord
    BY DEF IInv, Where, Recorded, NoRecord
  <2>2. status[t] = "success"
    BY <2>1, TaskAssumption DEF RecordTruth
  <2>3. QED
    BY <2>2 DEF Converging, Written, OneDelivery
<1>4. QED
  BY <1>1, <1>2, <1>3, Inductive, RecordTruthHolds, PTL DEF Spec

===============================================================================
