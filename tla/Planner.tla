------------------------------- MODULE Planner --------------------------------
(***************************************************************************)
(* planner.normalize, and order, which it ends with: a draft of a pipeline *)
(* becomes the graph that is validated, signed, compiled and run.  Every   *)
(* consumer of a task with quality rules is led through a gate for them,   *)
(* and the tasks are put in an order.  The compiler and the worker         *)
(* normalize what is normalized already, and create --previous strips the  *)
(* gates and normalizes again, so it is done twice here.                   *)
(***************************************************************************)
EXTENDS Integers, Sequences, FiniteSets, Functions

CONSTANTS
  Names,    \* the task ids, in alphabetical order
  Gate,     \* [ids -> ids]: q_<id>; outside Names when it is too long
  Drafts    \* the drafts: [task, targets, edges]

\* A task has inputs (its task: references), deps, and kind: "gate" for one with
\* the capability quality.check@1.  A gate has the targets whose rules it lists;
\* the rules of a target stand or fall together and are not told apart.
Ids == Range(Names)
ASSUME NamesAssumption == Names \in Seq(Ids)

Task == [kind : {"plain", "gate"}, inputs : SUBSET Ids, deps : SUBSET Ids, rules : SUBSET Ids]
IsGraph(tasks) == DOMAIN tasks \subseteq Ids /\ tasks \in [DOMAIN tasks -> Task]

\* A draft is a graph of tasks; its edges and its rules name what they like.
ASSUME DraftsAssumption ==
  \A d \in Drafts :
    IsGraph(d.task) /\ d.targets \subseteq Ids /\ d.edges \subseteq Ids \X Ids

\* Two targets have two gates.
ASSUME GateAssumption ==
  \A t, u \in Ids : Gate[t] \in Ids /\ Gate[t] = Gate[u] => t = u

VARIABLES
  draft,      \* what normalize was first given
  task,       \* by_id: [SUBSET Ids -> [kind, inputs, deps, rules]]
  edges,      \* result.dependencies: pairs <<upstream, downstream>>
  phase,      \* where normalize is
  todo,       \* the targets not yet looked at
  sequence,   \* order: the ids placed
  first       \* [task, sequence, by]: what was first normalized, and why it is again, or "none"

vars == <<draft, task, edges, phase, todo, sequence, first>>

Targets == draft.targets
Gates == {Gate[t] : t \in Targets}
Place(name) == CHOOSE i \in DOMAIN Names : Names[i] = name
Rank(n, names) == Cardinality({m \in names : Place(m) <= Place(n)})
Sorted(names) == [i \in 1 .. Cardinality(names) |-> CHOOSE n \in names : Rank(n, names) = i]
Least(names) == Head(Sorted(names))

Init ==
  /\ draft \in Drafts
  /\ task = draft.task /\ edges = draft.edges /\ todo = draft.targets
  /\ phase = "edges" /\ sequence = <<>>
  /\ first = [task |-> draft.task, sequence |-> <<>>, by |-> "none"]

Refuse == phase' = "refused" /\ UNCHANGED <<task, edges, todo, sequence, first>>

\* The pipeline's edges become dependencies of the tasks; every target is a task.
AddEdges ==
  /\ phase = "edges" /\ UNCHANGED draft
  /\ IF (UNION {{e[1], e[2]} : e \in edges}) \cup Targets \subseteq DOMAIN task
       THEN /\ task' = [t \in DOMAIN task |-> [task[t] EXCEPT
                         !.deps = @ \cup {e[1] : e \in {d \in edges : d[2] = t}}]]
            /\ edges' = {} /\ phase' = "gates" /\ UNCHANGED <<todo, sequence, first>>
       ELSE Refuse

\* Faults: the gate is led through itself; who merely waits for the target is not led.
LeadAll(tasks, t) ==
  LET led(names) == {IF n = t THEN Gate[t] ELSE n : n \in names} IN
  [u \in DOMAIN tasks |-> IF u = t THEN tasks[u]
     ELSE [tasks[u] EXCEPT !.inputs = led(@), !.deps = led(@)]]
LeadInputs(tasks, t) ==
  LET led(names) == {IF n = t THEN Gate[t] ELSE n : n \in names} IN
  [u \in DOMAIN tasks |-> IF u \in {t, Gate[t]} THEN tasks[u]
     ELSE [tasks[u] EXCEPT !.inputs = led(@)]]

\* Whoever uses t uses its gate instead, but for t and the gate.
Lead(tasks, t) ==
  LET led(names) == {IF n = t THEN Gate[t] ELSE n : n \in names} IN
  [u \in DOMAIN tasks |->
     IF u \in {t, Gate[t]} THEN tasks[u]
       ELSE [tasks[u] EXCEPT !.inputs = led(@), !.deps = led(@)]]

NewGate(t) == [kind |-> "gate", inputs |-> {t}, deps |-> {t}, rules |-> {t}]

\* Fault: a gate that is there is a collision, whatever it checks.
Stale(t) == TRUE

\* An existing gate must read t and list its rules, and nothing else.
Collides(t) ==
  \/ task[Gate[t]].kind # "gate"
  \/ task[Gate[t]].inputs # {t}
  \/ task[Gate[t]].rules # {t}

\* One gate for the next target.
AddGate ==
  LET t == Least(todo)
      there == Gate[t] \in DOMAIN task
  IN
  /\ phase = "gates" /\ todo # {} /\ UNCHANGED draft
  /\ IF Gate[t] \notin Ids \/ (there /\ Collides(t)) THEN Refuse
       ELSE /\ task' = Lead([u \in DOMAIN task \cup {Gate[t]} |->
                               IF u \in DOMAIN task THEN task[u] ELSE NewGate(t)], t)
            /\ todo' = todo \ {t}
            /\ UNCHANGED <<phase, edges, sequence, first>>

\* Fault: what a task waits for is what it reads.
ReadsOnly ==
  /\ phase = "gates" /\ todo = {} /\ phase' = "order"
  /\ task' = [u \in DOMAIN task |-> [task[u] EXCEPT !.deps = task[u].inputs]]
  /\ UNCHANGED <<draft, edges, todo, sequence, first>>

\* The inputs are dependencies, and must all be tasks by now.
AddReads ==
  /\ phase = "gates" /\ todo = {} /\ UNCHANGED draft
  /\ LET all == [u \in DOMAIN task |-> [task[u] EXCEPT !.deps = @ \cup task[u].inputs]]
     IN IF \A u \in DOMAIN task : all[u].deps \subseteq DOMAIN task
          THEN task' = all /\ phase' = "order" /\ UNCHANGED <<edges, todo, sequence, first>>
          ELSE Refuse

\* TopologicalSorter: the tasks that wait for nothing more.
Ready == {u \in DOMAIN task \ Range(sequence) : task[u].deps \subseteq Range(sequence)}

\* One round of order: nothing ready means a cycle.
Round ==
  /\ phase = "order" /\ Range(sequence) # DOMAIN task /\ UNCHANGED draft
  /\ IF Ready = {} THEN Refuse
       ELSE sequence' = sequence \o Sorted(Ready) /\ UNCHANGED <<task, edges, phase, todo, first>>

Return ==
  /\ phase = "order" /\ Range(sequence) = DOMAIN task
  /\ phase' = "done" /\ UNCHANGED <<draft, task, edges, todo, sequence, first>>

\* compile_airflow, airflow_execute: the result is validated, and so normalized, again.
Again ==
  /\ phase = "done" /\ first.by = "none"
  /\ first' = [task |-> task, sequence |-> sequence, by |-> "again"]
  /\ phase' = "edges" /\ todo' = Targets /\ sequence' = <<>>
  /\ UNCHANGED <<draft, task, edges>>

\* ControlledProvider.generate with a previous specification: whoever was led to a
\* gate is led back to its target, and the gates go, before the change is normalized.
Revise ==
  LET back(names) == {IF n \in Gates THEN CHOOSE t \in Targets : Gate[t] = n ELSE n : n \in names}
  IN
  /\ phase = "done" /\ first.by = "none"
  /\ first' = [task |-> task, sequence |-> sequence, by |-> "revision"]
  /\ task' = [u \in DOMAIN task \ Gates |-> [task[u] EXCEPT !.inputs = back(@), !.deps = back(@)]]
  /\ phase' = "edges" /\ todo' = Targets /\ sequence' = <<>>
  /\ UNCHANGED <<draft, edges>>

Next == AddEdges \/ AddGate \/ AddReads \/ Round \/ Return \/ Again \/ Revise

Spec == Init /\ [][Next]_vars

-------------------------------------------------------------------------------
Before(u, v) ==
  \E i, j \in DOMAIN sequence : sequence[i] = u /\ sequence[j] = v /\ i < j

\* u must come before v by what the draft says.
Precedes(u, v) ==
  /\ v \in DOMAIN draft.task
  /\ u \in draft.task[v].inputs \cup draft.task[v].deps \/ <<u, v>> \in draft.edges

\* A revision makes the gate v anew, and forgets what else it was to wait for.
Anew(v) == first.by = "revision" /\ \E t \in Targets : v = Gate[t]

\* Whatever the draft puts before a task, by data, dependency or edge, comes before
\* it, and so does the gate of that: nothing starts on rows that are still judged,
\* not even what never reads them (AddEdges, Lead, order).  But for Anew.
DraftRespected ==
  phase = "done" =>
    \A u, v \in DOMAIN task : Precedes(u, v) /\ (Anew(v) => Gate[u] = v) =>
      /\ Before(u, v)
      /\ u \in Targets /\ v # Gate[u] => Before(u, Gate[u]) /\ Before(Gate[u], v)

\* No consumer of a task with quality rules goes round the gate, and the gate
\* judges that task's rows by that task's rules (the q_TASK barrier).
NoBypass ==
  phase = "done" =>
    \A t \in Targets :
      /\ Gate[t] \in DOMAIN task
      /\ task[Gate[t]].inputs = {t} /\ t \in task[Gate[t]].rules
      /\ \A u \in DOMAIN task \ {Gate[t]} : t \notin task[u].inputs \cup task[u].deps

\* Normalizing twice is normalizing once, and so is stripping the gates and normalizing:
\* the tasks that are signed, compiled, and looked up by the worker are the same, and
\* in the same order, and a revision changes nothing but what it was asked to.
NormalForm ==
  first.by # "none" =>
    /\ phase # "refused"
    /\ phase = "done" =>
         /\ DOMAIN task = DOMAIN first.task
         /\ \A u \in DOMAIN task :
              \/ task[u] = first.task[u]
              \/ Anew(u) /\ \E t \in Targets : Gate[t] = u /\ task[u] = NewGate(t)
         /\ task = first.task => sequence = first.sequence

Cyclic(waits) ==
  \E S \in SUBSET DOMAIN waits : S # {} /\ \A u \in S : S \cap waits[u] # {}

\* A draft in which no task has the name of a gate is refused only for a fault of its own: an
\* unknown name, a gate's name that is too long, or a cycle.  Gates add none.
RefusedForCause ==
  phase = "refused" /\ DOMAIN draft.task \cap Gates = {} =>
    LET own == DOMAIN draft.task
        waits == [v \in own |-> {u \in Ids : Precedes(u, v)}]
        known == own \cup Gates
    IN \/ ~(Targets \subseteq own) \/ \E t \in Targets : Gate[t] \notin Ids
       \/ \E e \in draft.edges : ~({e[1], e[2]} \subseteq own)
       \/ \E v \in own : ~(waits[v] \subseteq known)
       \/ Cyclic([u \in known |->
                    IF u \in own THEN waits[u] ELSE {t \in Targets : Gate[t] = u}])
===============================================================================
