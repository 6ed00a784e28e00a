---------------------------- MODULE PlannerProofs -----------------------------
(* For every draft none of whose rules is about the rows of a gate: what normalize *)
(* returns has a gate before every consumer, keeps the order of the draft, and is  *)
(* a normal form.  For every draft without gates: what it refuses, it refuses for  *)
(* a fault of the draft.                                                           *)
EXTENDS Planner, FiniteSetTheorems, WellFoundedInduction, TLAPS

\* No rule is about the rows that a gate lets pass: in any draft, in the one at hand.
Unstacked == \A d \in Drafts : \A t, u \in d.targets : Gate[t] # u
Stackless == \A t, u \in Targets : Gate[t] # u

Phases == {"edges", "gates", "order", "done", "refused"}
Typed ==
  /\ draft \in Drafts /\ IsGraph(task) /\ edges \subseteq Ids \X Ids
  /\ phase \in Phases /\ todo \subseteq Targets /\ sequence \in Seq(Ids)
  /\ first.by \in {"none", "again", "revision"}

\* What a task waits for in the end.
Reads(v) == task[v].inputs \cup task[v].deps

\* How far normalize has come.
Come ==
  /\ phase = "edges" => todo = Targets
  /\ phase \in {"edges", "gates"} => sequence = <<>>
  /\ phase \in {"order", "done"} =>
       /\ todo = {}
       /\ \A u \in DOMAIN task :
            task[u].inputs \subseteq task[u].deps /\ task[u].deps \subseteq DOMAIN task
  /\ phase \notin {"edges", "refused"} => edges = {} /\ Targets \subseteq DOMAIN task
  /\ first.by # "none" => edges = {}
  /\ first.by # "revision" => DOMAIN draft.task \subseteq DOMAIN task

\* A target that has been looked at has its gate, and nobody else waits for it.
Gated ==
  phase # "refused" => \A t \in Targets \ todo :
    /\ Gate[t] \in Ids /\ Gate[t] \in DOMAIN task
    /\ task[Gate[t]].kind = "gate" /\ task[Gate[t]].inputs = {t} /\ task[Gate[t]].rules = {t}
    /\ \A u \in DOMAIN task \ {t, Gate[t]} : t \notin Reads(u)

\* Whoever is placed comes after whatever it waits for.
After(i) ==
  /\ sequence[i] \in DOMAIN task /\ sequence[i] \notin task[sequence[i]].deps
  /\ \A n \in task[sequence[i]].deps : \E j \in DOMAIN sequence : j < i /\ sequence[j] = n
Placed ==
  /\ phase \in {"order", "done"} => \A i \in DOMAIN sequence : After(i)
  /\ phase = "done" => Range(sequence) = DOMAIN task

\* What the draft puts before a task is waited for still: itself, its gate, an edge not
\* yet looked at, or the target whose gate it was before a revision stripped it.
Waits(u, v) ==
  \/ u \in Reads(v)
  \/ u \in Targets /\ Gate[u] \in Reads(v)
  \/ phase = "edges" /\ <<u, v>> \in edges
  \/ /\ first.by = "revision"
     /\ \E x \in Targets : u = Gate[x] /\ x \in Reads(v) /\ (x \in todo \/ v = x)
Kept ==
  phase # "refused" => \A u \in Ids, v \in DOMAIN task :
    Precedes(u, v) /\ (Anew(v) => Gate[u] = v) => Waits(u, v)

IInv == Typed /\ Come /\ Placed /\ (Stackless => Gated /\ Kept)

-------------------------------------------------------------------------------
\* Of any natural numbers, one is the least.
LEMMA LeastNumber ==
  ASSUME NEW T \in SUBSET Nat, T # {}
  PROVE  \E n \in T : \A m \in T : ~(m < n)
<1> DEFINE R == {ss \in Nat \X Nat : ss[1] < ss[2]}
<1>1. IsWellFoundedOn(OpToRel(<, Nat), Nat)
  BY NatLessThanWellFounded
<1>2. OpToRel(<, Nat) = R
  BY DEF OpToRel
<1>3. IsWellFoundedOn(R, Nat)
  BY <1>1, <1>2
<1> HIDE DEF R
<1>4. PICK n \in T : \A m \in T : ~(<<m, n>> \in R)
  BY <1>3, WFMin
<1> QED BY <1>4 DEF R

\* Sorting neither invents names nor loses any.
LEMMA SortedFacts ==
  ASSUME NEW names \in SUBSET Ids
  PROVE  /\ Cardinality(names) \in Nat
         /\ Sorted(names) \in [1 .. Cardinality(names) -> names]
         /\ Sorted(names) \in Seq(Ids) /\ Range(Sorted(names)) = names
<1> DEFINE k == Cardinality(names)
           upto(n) == {m \in names : Place(m) <= Place(n)}
           rank == [n \in names |-> Rank(n, names)]
<1>1. \A n \in names : Place(n) \in Nat /\ Names[Place(n)] = n
  BY NamesAssumption DEF Place, Ids, Range
<1>2. IsFiniteSet(names)
  <2>1. DOMAIN Names = 1 .. Len(Names) /\ Len(Names) \in Nat
    BY NamesAssumption
  <2>2. IsFiniteSet(DOMAIN Names)
    BY <2>1, FS_Interval
  <2>3. Names \in Surjection(DOMAIN Names, Ids)
    BY NamesAssumption DEF Surjection, Ids, Range
  <2> QED BY <2>2, <2>3, FS_Surjection, FS_Subset
<1>3. k \in Nat /\ IsFiniteSet(1 .. k) /\ Cardinality(1 .. k) = k
  <2>1. k \in Nat
    BY <1>2, FS_CardinalityType
  <2> QED BY <2>1, FS_Interval
<1>4. ASSUME NEW n \in names
      PROVE IsFiniteSet(upto(n)) /\ Cardinality(upto(n)) \in 1 .. k
  <2>1. upto(n) \subseteq names /\ {n} \subseteq upto(n)
    BY <1>1, <1>4
  <2>2. IsFiniteSet(upto(n)) /\ Cardinality(upto(n)) <= k
    BY <1>2, <2>1, FS_Subset
  <2>3. Cardinality(upto(n)) \in Nat /\ upto(n) # {}
    BY <2>1, <2>2, FS_CardinalityType
  <2>4. Cardinality(upto(n)) # 0
    BY <2>2, <2>3, FS_EmptySet
  <2> QED BY <1>3, <2>2, <2>3, <2>4
<1>5. ASSUME NEW m \in names, NEW n \in names, Place(m) < Place(n)
      PROVE Cardinality(upto(m)) # Cardinality(upto(n))
  <2>1. upto(m) \subseteq upto(n) /\ n \in upto(n) /\ n \notin upto(m)
    BY <1>1, <1>5
  <2> QED BY <1>4, <2>1, FS_Subset
<1>6. \A m, n \in names : m # n => Cardinality(upto(m)) # Cardinality(upto(n))
  BY <1>1, <1>5
<1>7. \A n \in names : rank[n] = Cardinality(upto(n))
  BY DEF Rank
<1> HIDE DEF k, upto, rank
<1>8. rank \in [names -> 1 .. k]
  BY <1>4, <1>7 DEF rank
<1>9. rank \in Injection(names, 1 .. k)
  BY <1>6, <1>7, <1>8 DEF Injection, IsInjective
<1>10. \A i \in 1 .. k : \E n \in names : rank[n] = i
  <2>1. rank \in Surjection(names, 1 .. k)
    BY <1>3, <1>9, FS_Injection DEF k
  <2> QED BY <2>1 DEF Surjection
<1>11. /\ DOMAIN Sorted(names) = 1 .. k
       /\ \A i \in 1 .. k : Sorted(names)[i] \in names /\ rank[Sorted(names)[i]] = i
  BY <1>10 DEF Sorted, k, rank
<1>12. Sorted(names) \in [1 .. k -> names]
  BY <1>11 DEF Sorted, k
<1>13. \A n \in names : \E i \in 1 .. k : Sorted(names)[i] = n
  <2> SUFFICES ASSUME NEW n \in names PROVE \E i \in 1 .. k : Sorted(names)[i] = n
    OBVIOUS
  <2>1. rank[n] \in 1 .. k
    BY <1>8
  <2>2. Sorted(names)[rank[n]] \in names /\ rank[Sorted(names)[rank[n]]] = rank[n]
    BY <1>11, <2>1
  <2>3. Sorted(names)[rank[n]] = n
    BY <1>6, <1>7, <2>2
  <2> QED BY <2>1, <2>3
<1> HIDE DEF Sorted
<1>14. Range(Sorted(names)) = names
  BY <1>12, <1>13 DEF Range
<1>15. Sorted(names) \in Seq(Ids)
  BY <1>3, <1>12
<1> QED BY <1>3, <1>12, <1>14, <1>15 DEF k

\* A draft is what it is assumed to be.
LEMMA DraftParts ==
  ASSUME Typed
  PROVE  Targets \subseteq Ids /\ \A t, u \in Targets :
           Gate[t] \in Ids /\ Gate[t] = Gate[u] => t = u
BY DraftsAssumption, GateAssumption DEF Typed, Targets

\* A task with other dependencies is a task.
LEMMA Delayed ==
  ASSUME NEW r \in Task, NEW waits \in SUBSET Ids, NEW s, s = [r EXCEPT !.deps = waits]
  PROVE  s \in Task /\ s.inputs = r.inputs /\ s.deps = waits
         /\ s.rules = r.rules /\ s.kind = r.kind
BY DEF Task

LEMMA TaskParts ==
  ASSUME Typed, NEW u \in DOMAIN task
  PROVE  /\ u \in Ids /\ task[u] \in Task
         /\ task[u].inputs \subseteq Ids /\ task[u].deps \subseteq Ids /\ Reads(u) \subseteq Ids
BY DEF Typed, IsGraph, Task, Reads

\* The four ways in which a graph changes, task by task.
Drawn(u) == {e[1] : e \in {d \in edges : d[2] = u}}
LEMMA EdgesChange ==
  ASSUME Typed, AddEdges, phase' # "refused"
  PROVE  /\ DOMAIN task' = DOMAIN task /\ IsGraph(task)' /\ Targets \subseteq DOMAIN task
         /\ \A u \in DOMAIN task : /\ task'[u] = [task[u] EXCEPT !.deps = @ \cup Drawn(u)]
                                   /\ Reads(u)' = Reads(u) \cup Drawn(u)
<1>1. /\ task' = [t \in DOMAIN task |-> [task[t] EXCEPT !.deps = @ \cup Drawn(t)]]
      /\ Targets \subseteq DOMAIN task
  BY DEF AddEdges, Refuse, Drawn
<1>2. ASSUME NEW u \in DOMAIN task
      PROVE /\ task'[u] \in Task /\ task'[u].inputs = task[u].inputs
            /\ task'[u].deps = task[u].deps \cup Drawn(u)
            /\ task'[u] = [task[u] EXCEPT !.deps = @ \cup Drawn(u)]
  <2>1. Drawn(u) \subseteq Ids
    BY DEF Typed, Drawn
  <2>2. task[u] \in Task /\ task[u].deps \cup Drawn(u) \in SUBSET Ids
    BY <2>1, TaskParts
  <2>3. task'[u] = [task[u] EXCEPT !.deps = task[u].deps \cup Drawn(u)]
    BY <1>1
  <2> HIDE DEF Drawn
  <2> QED BY <2>2, <2>3, Delayed
<1>3. DOMAIN task' = DOMAIN task /\ task' \in [DOMAIN task' -> Task]
  BY <1>1, <1>2
<1> QED BY <1>1, <1>2, <1>3 DEF IsGraph, Typed, Reads

LEMMA ReadsChange ==
  ASSUME Typed, AddReads, phase' # "refused"
  PROVE  /\ DOMAIN task' = DOMAIN task /\ IsGraph(task)'
         /\ \A u \in DOMAIN task : /\ task'[u] = [task[u] EXCEPT !.deps = Reads(u)]
                                   /\ task'[u].inputs = task[u].inputs
                                   /\ task'[u].deps = Reads(u)
                                   /\ task'[u].kind = task[u].kind
                                   /\ task'[u].rules = task[u].rules
         /\ \A u \in DOMAIN task : Reads(u) \subseteq DOMAIN task
<1>1. /\ task' = [u \in DOMAIN task |-> [task[u] EXCEPT !.deps = @ \cup task[u].inputs]]
      /\ \A u \in DOMAIN task : [task[u] EXCEPT !.deps = @ \cup task[u].inputs].deps
                                  \subseteq DOMAIN task
  BY DEF AddReads, Refuse
<1>2. ASSUME NEW u \in DOMAIN task
      PROVE /\ task'[u] \in Task /\ task'[u].inputs = task[u].inputs
            /\ task'[u].deps = Reads(u) /\ task'[u].rules = task[u].rules
            /\ task'[u] = [task[u] EXCEPT !.deps = Reads(u)] /\ task'[u].kind = task[u].kind
            /\ Reads(u) \subseteq DOMAIN task
  <2>1. task[u] \in Task /\ task[u].deps \cup task[u].inputs \in SUBSET Ids
    BY TaskParts
  <2>2. task'[u] = [task[u] EXCEPT !.deps = task[u].deps \cup task[u].inputs]
    BY <1>1
  <2>3. Reads(u) = task[u].deps \cup task[u].inputs
    BY DEF Reads
  <2>4. task'[u].deps \subseteq DOMAIN task
    BY <1>1
  <2> QED BY <2>1, <2>2, <2>3, <2>4, Delayed
<1>3. DOMAIN task' = DOMAIN task /\ task' \in [DOMAIN task' -> Task]
  BY <1>1, <1>2
<1> QED BY <1>2, <1>3 DEF IsGraph, Typed

LEMMA GateParts ==
  \A t : /\ NewGate(t).kind = "gate" /\ NewGate(t).rules = {t}
         /\ NewGate(t).inputs = {t} /\ NewGate(t).deps = {t}
BY DEF NewGate

\* The next target is one of those left.
LEMMA LeastOfSome ==
  ASSUME NEW names \in SUBSET Ids, names # {}
  PROVE  Least(names) \in names
<1>1. Sorted(names) \in Seq(Ids) /\ Range(Sorted(names)) = names
  BY SortedFacts
<1>2. Sorted(names) # <<>>
  BY <1>1 DEF Range
<1>3. Head(Sorted(names)) = Sorted(names)[1] /\ 1 \in DOMAIN Sorted(names)
  BY <1>1, <1>2
<1> QED BY <1>1, <1>3 DEF Least, Range

\* One target: who waited for it waits for its gate, but for itself and the gate.
Led(names, t) == {IF n = t THEN Gate[t] ELSE n : n \in names}
Gating(t) ==
  /\ t \in todo /\ todo' = todo \ {t} /\ Gate[t] \in Ids
  /\ DOMAIN task' = DOMAIN task \cup {Gate[t]} /\ IsGraph(task)'
  /\ task'[Gate[t]].kind = "gate" /\ task'[Gate[t]].inputs = {t} /\ task'[Gate[t]].rules = {t}
  /\ \A u \in DOMAIN task \cap {t, Gate[t]} : task'[u] = task[u]
  /\ Gate[t] \notin DOMAIN task => task'[Gate[t]] = NewGate(t)
  /\ \A u \in DOMAIN task \ {t, Gate[t]} :
       /\ task'[u].inputs = Led(task[u].inputs, t) /\ task'[u].deps = Led(task[u].deps, t)
       /\ task'[u].kind = task[u].kind /\ task'[u].rules = task[u].rules
LEMMA GateChange ==
  ASSUME Typed, AddGate, phase' # "refused"
  PROVE  \E t \in todo : Gating(t)
<1> DEFINE t == Least(todo)
           all == [u \in DOMAIN task \cup {Gate[t]} |->
                    IF u \in DOMAIN task THEN task[u] ELSE NewGate(t)]
<1>1. /\ todo # {} /\ todo' = todo \ {t} /\ Gate[t] \in Ids
      /\ ~(Gate[t] \in DOMAIN task /\ Collides(t)) /\ task' = Lead(all, t)
  BY DEF AddGate, Refuse
<1>2. t \in todo /\ t \in Ids
  <2>1. todo \subseteq Ids
    BY DraftParts DEF Typed
  <2> QED BY <1>1, <2>1, LeastOfSome
<1> HIDE DEF t
<1>3. /\ DOMAIN all = DOMAIN task \cup {Gate[t]}
      /\ \A u \in DOMAIN task : all[u] = task[u]
      /\ Gate[t] \notin DOMAIN task => all[Gate[t]] = NewGate(t)
  OBVIOUS
<1>4. \A u \in DOMAIN all : u \in Ids /\ all[u] \in Task
  <2>1. NewGate(t) \in Task
    BY <1>2 DEF NewGate, Task
  <2> QED BY <2>1, <1>1, <1>3, TaskParts
<1> HIDE DEF all
<1>5. /\ DOMAIN task' = DOMAIN all
      /\ \A u \in DOMAIN all \cap {t, Gate[t]} : task'[u] = all[u]
      /\ \A u \in DOMAIN all \ {t, Gate[t]} :
           task'[u] = [all[u] EXCEPT !.inputs = Led(@, t), !.deps = Led(@, t)]
  <2>1. task' = [u \in DOMAIN all |->
                  IF u \in {t, Gate[t]} THEN all[u]
                    ELSE [all[u] EXCEPT !.inputs = Led(@, t), !.deps = Led(@, t)]]
    BY <1>1 DEF Lead, Led
  <2> QED BY <2>1
<1>6. ASSUME NEW names \in SUBSET Ids PROVE Led(names, t) \in SUBSET Ids
  BY <1>1, <1>6 DEF Led
<1>7. ASSUME NEW u \in DOMAIN all \ {t, Gate[t]}
      PROVE /\ task'[u] \in Task /\ task'[u].inputs = Led(all[u].inputs, t)
            /\ task'[u].deps = Led(all[u].deps, t) /\ task'[u].rules = all[u].rules
            /\ task'[u].kind = all[u].kind
  <2>1. all[u] \in Task /\ all[u].inputs \in SUBSET Ids /\ all[u].deps \in SUBSET Ids
    BY <1>4 DEF Task
  <2>2. Led(all[u].inputs, t) \in SUBSET Ids /\ Led(all[u].deps, t) \in SUBSET Ids
    BY <2>1, <1>6
  <2>3. task'[u] = [all[u] EXCEPT !.inputs = Led(all[u].inputs, t), !.deps = Led(all[u].deps, t)]
    BY <1>5
  <2> QED BY <2>1, <2>2, <2>3 DEF Task
<1>8. IsGraph(task)'
  <2>1. \A u \in DOMAIN all : task'[u] \in Task
    BY <1>4, <1>5, <1>7
  <2>2. task' = [u \in DOMAIN all |-> task'[u]]
    BY <1>1, <1>5 DEF Lead
  <2> QED BY <2>1, <2>2, <1>4 DEF IsGraph
<1>9. /\ Gate[t] \in DOMAIN all /\ all[Gate[t]].kind = "gate"
      /\ all[Gate[t]].inputs = {t} /\ all[Gate[t]].rules = {t}
  BY <1>1, <1>3 DEF Collides, NewGate
<1>10. \A u \in DOMAIN task : u \in DOMAIN all /\ all[u] = task[u]
  BY <1>3
<1>11. \A u \in DOMAIN task \ {t, Gate[t]} :
         /\ task'[u].inputs = Led(task[u].inputs, t) /\ task'[u].deps = Led(task[u].deps, t)
         /\ task'[u].kind = task[u].kind /\ task'[u].rules = task[u].rules
  BY <1>7, <1>10
<1>12. /\ \A u \in DOMAIN task \cap {t, Gate[t]} : task'[u] = task[u]
       /\ task'[Gate[t]] = all[Gate[t]]
  BY <1>5, <1>9, <1>10
<1>13. DOMAIN task' = DOMAIN task \cup {Gate[t]}
  BY <1>3, <1>5
<1> QED BY <1>1, <1>2, <1>3, <1>8, <1>9, <1>11, <1>12, <1>13 DEF Gating

\* A revision strips the gates, and who waited for one waits for its target.
Back(names) ==
  {IF n \in Gates THEN CHOOSE t \in Targets : Gate[t] = n ELSE n : n \in names}
LEMMA RevisionChange ==
  ASSUME Typed, Revise
  PROVE  /\ DOMAIN task' = DOMAIN task \ Gates /\ IsGraph(task)'
         /\ \A u \in DOMAIN task' :
              /\ task'[u] = [task[u] EXCEPT !.inputs = Back(@), !.deps = Back(@)]
              /\ Reads(u)' = Back(Reads(u))
<1>1. task' = [u \in DOMAIN task \ Gates |->
                [task[u] EXCEPT !.inputs = Back(@), !.deps = Back(@)]]
  BY DEF Revise, Gates, Back
<1>2. ASSUME NEW names \in SUBSET Ids PROVE Back(names) \in SUBSET Ids
  BY <1>2, DraftParts DEF Back, Gates
<1>3. ASSUME NEW u \in DOMAIN task \ Gates
      PROVE /\ task'[u] \in Task /\ Reads(u)' = Back(Reads(u))
            /\ task'[u] = [task[u] EXCEPT !.inputs = Back(@), !.deps = Back(@)]
  <2>1. task[u] \in Task /\ task[u].inputs \in SUBSET Ids /\ task[u].deps \in SUBSET Ids
    BY TaskParts
  <2>2. Back(task[u].inputs) \in SUBSET Ids /\ Back(task[u].deps) \in SUBSET Ids
    BY <2>1, <1>2
  <2>3. task'[u] = [task[u] EXCEPT !.inputs = Back(task[u].inputs), !.deps = Back(task[u].deps)]
    BY <1>1
  <2>4. /\ task'[u] \in Task /\ task'[u].inputs = Back(task[u].inputs)
        /\ task'[u].deps = Back(task[u].deps)
    BY <2>1, <2>2, <2>3 DEF Task
  <2>5. Back(Reads(u)) = Back(task[u].inputs) \cup Back(task[u].deps)
    BY DEF Back, Reads
  <2> QED BY <2>3, <2>4, <2>5 DEF Reads
<1>4. DOMAIN task' = DOMAIN task \ Gates /\ task' \in [DOMAIN task' -> Task]
  BY <1>1, <1>3
<1> QED BY <1>3, <1>4 DEF IsGraph, Typed

-------------------------------------------------------------------------------
\* A round of order appends tasks, and they are ready.
LEMMA RoundAppends ==
  ASSUME Typed, Round, phase' # "refused"
  PROVE  \E more \in Seq(Ids) :
           /\ sequence' = sequence \o more /\ sequence' \in Seq(Ids)
           /\ \A i \in DOMAIN more : more[i] \in Ready
<1>1. sequence' = sequence \o Sorted(Ready)
  BY DEF Round, Refuse
<1>2. Ready \subseteq Ids
  BY DEF Ready, Typed, IsGraph
<1>3. Sorted(Ready) \in Seq(Ids) /\ Range(Sorted(Ready)) = Ready
  BY <1>2, SortedFacts
<1>4. \A i \in DOMAIN Sorted(Ready) : Sorted(Ready)[i] \in Ready
  BY <1>3 DEF Range
<1>5. sequence \o Sorted(Ready) \in Seq(Ids)
  BY <1>3 DEF Typed
<1> HIDE DEF Sorted
<1> QED BY <1>1, <1>3, <1>4, <1>5

\* Refusing changes nothing but the phase.
LEMMA Refused ==
  ASSUME Next, phase' = "refused"
  PROVE  UNCHANGED <<draft, task, edges, todo, sequence, first>>
<1>1. CASE AddEdges
  BY <1>1 DEF AddEdges, Refuse
<1>2. CASE AddGate
  BY <1>2 DEF AddGate, Refuse
<1>3. CASE AddReads
  BY <1>3 DEF AddReads, Refuse
<1>4. CASE Round
  BY <1>4 DEF Round, Refuse
<1>5. CASE Return \/ Again \/ Revise
  BY <1>5 DEF Return, Again, Revise
<1> QED BY <1>1, <1>2, <1>3, <1>4, <1>5 DEF Next

\* Where normalize is before and after each step, and which variables stay.
LEMMA Frame ==
  ASSUME Next, phase' # "refused"
  PROVE  /\ draft' = draft
         /\ \/ AddEdges /\ phase = "edges" /\ phase' = "gates"
               /\ UNCHANGED <<todo, sequence, first>> /\ edges' = {}
            \/ AddGate /\ phase = "gates" /\ UNCHANGED <<phase, edges, sequence, first>>
            \/ AddReads /\ phase = "gates" /\ phase' = "order" /\ todo = {}
               /\ UNCHANGED <<edges, todo, sequence, first>>
            \/ Round /\ phase = "order" /\ UNCHANGED <<task, edges, phase, todo, first>>
            \/ Return /\ phase = "order" /\ phase' = "done"
               /\ UNCHANGED <<task, edges, todo, sequence, first>>
               /\ Range(sequence) = DOMAIN task
            \/ Again /\ phase = "done" /\ phase' = "edges" /\ todo' = Targets
               /\ sequence' = <<>> /\ first.by = "none" /\ first'.by = "again"
               /\ UNCHANGED <<task, edges>>
            \/ Revise /\ phase = "done" /\ phase' = "edges" /\ todo' = Targets
               /\ sequence' = <<>> /\ first.by = "none" /\ first'.by = "revision"
               /\ UNCHANGED edges
<1>1. CASE AddEdges
  BY <1>1 DEF AddEdges, Refuse
<1>2. CASE AddGate
  BY <1>2 DEF AddGate, Refuse
<1>3. CASE AddReads
  BY <1>3 DEF AddReads, Refuse
<1>4. CASE Round
  BY <1>4 DEF Round, Refuse
<1>5. CASE Return
  BY <1>5 DEF Return
<1>6. CASE Again
  BY <1>6 DEF Again
<1>7. CASE Revise
  BY <1>7 DEF Revise
<1> QED BY <1>1, <1>2, <1>3, <1>4, <1>5, <1>6, <1>7 DEF Next

LEMMA TypedStep == ASSUME Typed, Next PROVE Typed'
<1>1. CASE phase' = "refused"
  BY <1>1, Refused DEF Typed, Phases, IsGraph, Targets
<1>2. CASE phase' # "refused"
  <2>1. draft' \in Drafts /\ Targets' = Targets
    BY <1>2, Frame DEF Typed, Targets
  <2>2. IsGraph(task)' /\ todo' \subseteq Targets
    <3>1. CASE AddGate
      BY <1>2, <3>1, GateChange DEF Gating, Typed
    <3>2. CASE Revise
      BY <3>2, RevisionChange DEF Revise
    <3>3. CASE ~(AddGate \/ Revise)
      BY <1>2, <3>3, Frame, EdgesChange, ReadsChange DEF Typed, IsGraph
    <3> QED BY <3>1, <3>2, <3>3
  <2>3. edges' \subseteq Ids \X Ids /\ phase' \in Phases
    BY <1>2, Frame DEF Typed, Phases
  <2>4. first'.by \in {"none", "again", "revision"}
    BY <1>2, Frame DEF Typed
  <2>5. sequence' \in Seq(Ids)
    <3>1. CASE Round
      BY <1>2, <3>1, RoundAppends
    <3>2. CASE Again \/ Revise
      <4>1. sequence' = <<>>
        BY <3>2 DEF Again, Revise
      <4> QED BY <4>1
    <3>3. CASE ~(Round \/ Again \/ Revise)
      <4>1. sequence' = sequence
        BY <1>2, <3>3, Frame
      <4> QED BY <4>1 DEF Typed
    <3> QED BY <3>1, <3>2, <3>3
  <2> QED BY <2>1, <2>2, <2>3, <2>4, <2>5 DEF Typed
<1> QED BY <1>1, <1>2

LEMMA ComeStep == ASSUME Typed, Come, Next PROVE Come'
<1>1. CASE phase' = "refused"
  BY <1>1, Refused DEF Come
<1>2. CASE phase' # "refused"
  <2>1. Targets' = Targets /\ draft' = draft
    BY <1>2, Frame DEF Targets
  <2>2. CASE AddEdges
    BY <1>2, <2>1, <2>2, EdgesChange, Frame DEF AddEdges, Refuse, Come
  <2>3. CASE AddGate
    <3>1. DOMAIN task \subseteq DOMAIN task'
      BY <1>2, <2>3, GateChange DEF Gating
    <3> QED BY <1>2, <2>1, <2>3, <3>1 DEF AddGate, Refuse, Come
  <2>4. CASE AddReads
    <3>1. \A u \in DOMAIN task' :
            task'[u].inputs \subseteq task'[u].deps /\ task'[u].deps \subseteq DOMAIN task'
      BY <1>2, <2>4, ReadsChange DEF Reads
    <3> QED BY <1>2, <2>1, <2>4, <3>1, ReadsChange DEF AddReads, Refuse, Come
  <2>5. CASE Round \/ Return
    BY <1>2, <2>1, <2>5 DEF Round, Return, Refuse, Come
  <2>6. CASE Again
    BY <2>1, <2>6 DEF Again, Come
  <2>7. CASE Revise
    BY <2>1, <2>7 DEF Revise, Come
  <2> QED BY <2>2, <2>3, <2>4, <2>5, <2>6, <2>7 DEF Next
<1> QED BY <1>1, <1>2

LEMMA GatedStep ==
  ASSUME Stackless, Typed, Come, Gated, Next
  PROVE  Gated'
<1> SUFFICES ASSUME phase' # "refused", NEW s \in (Targets \ todo)'
             PROVE /\ Gate[s] \in Ids /\ Gate[s] \in DOMAIN task'
                   /\ task'[Gate[s]].kind = "gate" /\ task'[Gate[s]].inputs = {s}
                   /\ task'[Gate[s]].rules = {s}
                   /\ \A u \in DOMAIN task' \ {s, Gate[s]} : s \notin Reads(u)'
  BY DEF Gated
<1>1. Targets' = Targets /\ s \in Targets /\ s \in Ids
  BY Frame, DraftParts DEF Targets
<1>2. phase # "refused"
  BY Frame
<1>3. CASE AddEdges \/ Again \/ Revise
  BY <1>1, <1>3, Frame DEF Come, AddEdges, Again, Revise, Refuse
<1>4. CASE AddGate
  <2>1. PICK t \in todo : Gating(t)
    BY <1>4, GateChange
  <2> USE DEF Gating
  <2>2. t \in Targets /\ t \in Ids
    BY DraftParts DEF Typed
  <2>3. CASE s = t
    <3>1. ASSUME NEW u \in DOMAIN task' \ {t, Gate[t]} PROVE t \notin Reads(u)'
      <4>1. Reads(u)' = Led(task[u].inputs, t) \cup Led(task[u].deps, t)
        BY <2>1, <3>1 DEF Reads
      <4> QED BY <4>1, <2>2 DEF Led, Stackless
    <3> QED BY <2>1, <2>3, <3>1
  <2>4. CASE s # t
    <3>1. /\ s \in Targets \ todo
          /\ Gate[s] \in Ids /\ Gate[s] \in DOMAIN task
          /\ task[Gate[s]].kind = "gate" /\ task[Gate[s]].inputs = {s} /\ task[Gate[s]].rules = {s}
          /\ \A u \in DOMAIN task \ {s, Gate[s]} : s \notin Reads(u)
      BY <1>1, <1>2, <2>1, <2>4 DEF Gated
    <3>2. Gate[s] # t /\ Gate[s] # Gate[t] /\ Gate[t] # s
      BY <1>1, <2>2, <2>4, <3>1, DraftParts DEF Stackless
    <3>3. /\ task'[Gate[s]].kind = "gate" /\ task'[Gate[s]].inputs = {s}
          /\ task'[Gate[s]].rules = {s}
      BY <2>1, <2>4, <3>1, <3>2 DEF Led
    <3>4. ASSUME NEW u \in DOMAIN task' \ {s, Gate[s]} PROVE s \notin Reads(u)'
      <4>1. CASE u = Gate[t] /\ Gate[t] \notin DOMAIN task
        BY <2>1, <2>4, <4>1 DEF Reads, NewGate
      <4>2. CASE u \in DOMAIN task \cap {t, Gate[t]}
        BY <2>1, <3>1, <3>4, <4>2 DEF Reads
      <4>3. CASE u \in DOMAIN task \ {t, Gate[t]}
        <5>1. s \notin task[u].inputs /\ s \notin task[u].deps
          BY <3>1, <3>4, <4>3 DEF Reads
        <5>2. s \notin Led(task[u].inputs, t) /\ s \notin Led(task[u].deps, t)
          BY <5>1, <3>2 DEF Led
        <5> QED BY <2>1, <4>3, <5>2 DEF Reads
      <4> QED BY <2>1, <3>4, <4>1, <4>2, <4>3
    <3> QED BY <2>1, <3>1, <3>2, <3>3, <3>4
  <2> QED BY <2>3, <2>4
<1>5. CASE AddReads
  <2>1. s \in Targets \ todo
    BY <1>1, <1>5 DEF AddReads, Refuse
  <2>2. \A u \in DOMAIN task : Reads(u)' = Reads(u)
    BY <1>5, ReadsChange DEF Reads
  <2> QED BY <1>2, <1>5, <2>1, <2>2, ReadsChange DEF Gated
<1>6. CASE Round \/ Return
  <2>1. s \in Targets \ todo /\ task' = task
    BY <1>1, <1>6 DEF Round, Return, Refuse
  <2> QED BY <1>2, <2>1 DEF Gated, Reads
<1> QED BY <1>3, <1>4, <1>5, <1>6 DEF Next

LEMMA PlacedStep ==
  ASSUME Typed, Come, Placed, Next
  PROVE  Placed'
<1>1. CASE phase' \in {"edges", "gates", "refused"}
  BY <1>1 DEF Placed
<1>2. CASE AddReads /\ phase' # "refused"
  <2>1. sequence' = <<>> /\ phase' = "order"
    BY <1>2 DEF AddReads, Refuse, Come
  <2> QED BY <2>1 DEF Placed
<1>3. CASE Round /\ phase' # "refused"
  <2>1. task' = task /\ phase = "order" /\ phase' = "order"
    BY <1>3 DEF Round, Refuse
  <2>2. PICK more \in Seq(Ids) :
          /\ sequence' = sequence \o more /\ sequence' \in Seq(Ids)
          /\ \A i \in DOMAIN more : more[i] \in Ready
    BY <1>3, RoundAppends
  <2>3. sequence \in Seq(Ids) /\ DOMAIN sequence = 1 .. Len(sequence) /\ Len(sequence) \in Nat
    BY DEF Typed
  <2>4. /\ DOMAIN sequence \subseteq DOMAIN sequence'
        /\ \A j \in DOMAIN sequence : sequence'[j] = sequence[j]
    BY <2>2, <2>3
  <2>5. ASSUME NEW i \in DOMAIN sequence' PROVE After(i)'
    <3>1. CASE i \in DOMAIN sequence
      <4>1. After(i)
        BY <2>1, <3>1 DEF Placed
      <4> QED BY <2>1, <2>4, <3>1, <4>1 DEF After
    <3>2. CASE i \notin DOMAIN sequence
      <4>1. i - Len(sequence) \in DOMAIN more /\ sequence'[i] = more[i - Len(sequence)]
        BY <2>2, <2>3, <2>5, <3>2
      <4>2. sequence'[i] \in Ready
        BY <2>2, <4>1
      <4>3. /\ sequence'[i] \in DOMAIN task \ Range(sequence)
            /\ task[sequence'[i]].deps \subseteq Range(sequence)
        BY <4>2 DEF Ready
      <4>4. \A j \in DOMAIN sequence : j < i
        BY <2>2, <2>3, <2>5, <3>2
      <4>5. \A n \in Range(sequence) : \E j \in DOMAIN sequence' : j < i /\ sequence'[j] = n
        BY <2>4, <4>4 DEF Range
      <4> QED BY <2>1, <4>3, <4>5 DEF After
    <3> QED BY <3>1, <3>2
  <2> QED BY <2>1, <2>5 DEF Placed
<1>4. CASE Return
  <2>1. task' = task /\ sequence' = sequence /\ phase = "order" /\ Range(sequence) = DOMAIN task
    BY <1>4 DEF Return
  <2> QED BY <2>1 DEF Placed, After, Range
<1>5. CASE AddEdges \/ AddGate \/ Again \/ Revise
  <2>1. phase' \in {"edges", "gates", "refused"}
    BY <1>5 DEF AddEdges, AddGate, Again, Revise, Refuse
  <2> QED BY <1>1, <2>1
<1> QED BY <1>1, <1>2, <1>3, <1>4, <1>5 DEF Next

\* Leading through a gate loses nothing that is waited for.
LEMMA GateKeeps ==
  ASSUME Stackless, Typed, Come, Kept, AddGate, phase' # "refused"
  PROVE  Kept'
<1>1. PICK t \in todo : Gating(t)
  BY GateChange
<1> USE DEF Gating
<1>2. /\ draft' = draft /\ first' = first /\ phase = "gates" /\ phase' = "gates"
      /\ Targets' = Targets /\ t \in Targets /\ t \in Ids
  BY DraftParts DEF AddGate, Refuse, Typed, Targets
<1>3. \A x, y \in Targets : Gate[x] # y
  BY DEF Stackless
<1>4. SUFFICES ASSUME NEW u \in Ids, NEW v \in DOMAIN task',
                      Precedes(u, v)', Anew(v)' => Gate[u] = v
               PROVE Waits(u, v)'
  BY DEF Kept
<1>5. Precedes(u, v) /\ (Anew(v) => Gate[u] = v)
  BY <1>2, <1>4 DEF Precedes, Anew, Targets
<1>6. CASE v = Gate[t]
  <2>1. CASE first.by = "revision"
    <3>1. Gate[u] = v
      BY <1>2, <1>5, <1>6, <2>1 DEF Anew
    <3>2. u = t
      BY <1>1, <1>2, <1>6, <3>1, GateAssumption
    <3> QED BY <1>1, <1>6, <3>2 DEF Waits, Reads, Gating
  <2>2. CASE first.by # "revision"
    <3>1. v \in DOMAIN task /\ task'[v] = task[v]
      BY <1>1, <1>5, <1>6, <2>2 DEF Come, Precedes
    <3>2. Waits(u, v)
      BY <1>2, <1>5, <3>1 DEF Kept
    <3> QED BY <1>2, <2>2, <3>1, <3>2 DEF Waits, Reads
  <2> QED BY <2>1, <2>2
<1>7. CASE v # Gate[t]
  <2>1. v \in DOMAIN task /\ Waits(u, v)
    BY <1>1, <1>2, <1>5, <1>7 DEF Kept
  <2>2. CASE v = t
    <3>1. Reads(v)' = Reads(v)
      BY <1>1, <2>1, <2>2 DEF Reads
    <3> QED BY <1>1, <1>2, <2>1, <2>2, <3>1 DEF Waits
  <2>3. CASE v # t
    <3>1. Reads(v)' = Led(Reads(v), t)
      BY <1>1, <1>7, <2>1, <2>3 DEF Reads, Led
    <3>2. \A n \in Reads(v) : IF n = t THEN Gate[t] \in Reads(v)' ELSE n \in Reads(v)'
      BY <3>1 DEF Led
    <3>3. CASE u \in Reads(v)
      BY <1>2, <3>2, <3>3 DEF Waits
    <3>4. CASE u \in Targets /\ Gate[u] \in Reads(v)
      BY <1>2, <1>3, <3>2, <3>4 DEF Waits
    <3>5. CASE first.by = "revision"
               /\ \E x \in Targets : u = Gate[x] /\ x \in Reads(v) /\ (x \in todo \/ v = x)
      BY <1>1, <1>2, <3>2, <3>5 DEF Waits
    <3> QED BY <1>2, <2>1, <3>3, <3>4, <3>5 DEF Waits
  <2> QED BY <2>2, <2>3
<1> QED BY <1>6, <1>7

\* Nor does stripping the gates.
LEMMA RevisionKeeps ==
  ASSUME Typed, Come, Gated, Kept, Revise
  PROVE  Kept'
<1>1. /\ draft' = draft /\ first.by = "none" /\ first'.by = "revision" /\ phase = "done"
      /\ phase' = "edges" /\ todo' = Targets /\ Targets' = Targets
      /\ DOMAIN task' = DOMAIN task \ Gates
      /\ \A u \in DOMAIN task' : Reads(u)' = Back(Reads(u))
  BY RevisionChange DEF Revise, Targets
<1>2. SUFFICES ASSUME NEW u \in Ids, NEW v \in DOMAIN task', Precedes(u, v)'
               PROVE Waits(u, v)'
  BY DEF Kept
<1>3. Waits(u, v)
  BY <1>1, <1>2 DEF Kept, Precedes, Anew
<1>4. \A n \in Reads(v) : IF n \in Gates THEN (CHOOSE t \in Targets : Gate[t] = n) \in Reads(v)'
                                         ELSE n \in Reads(v)'
  BY <1>1 DEF Back
<1>5. CASE u \in Reads(v) \ Gates
  BY <1>4, <1>5 DEF Waits
<1>6. CASE u \in Reads(v) \cap Gates
  <2>1. PICK x : x = CHOOSE t \in Targets : Gate[t] = u
    OBVIOUS
  <2>2. x \in Targets /\ Gate[x] = u
    BY <1>6, <2>1 DEF Gates
  <2> QED BY <1>1, <1>4, <1>6, <2>1, <2>2 DEF Waits
<1>7. CASE u \in Targets /\ Gate[u] \in Reads(v)
  <2>1. PICK x : x = CHOOSE t \in Targets : Gate[t] = Gate[u]
    OBVIOUS
  <2>2. x \in Targets /\ Gate[x] = Gate[u]
    BY <1>7, <2>1
  <2>3. Gate[u] \in Ids /\ Gate[u] \in Gates
    BY <1>1, <1>7 DEF Gated, Come, Gates
  <2>4. x = u
    BY <1>7, <2>2, <2>3, DraftParts, GateAssumption
  <2> QED BY <1>4, <1>7, <2>1, <2>3, <2>4 DEF Waits
<1> QED BY <1>1, <1>3, <1>5, <1>6, <1>7 DEF Waits

LEMMA KeptStep ==
  ASSUME Stackless, Typed, Come, Gated, Kept, Next
  PROVE  Kept'
<1> SUFFICES ASSUME phase' # "refused" PROVE Kept'
  BY DEF Kept
<1>1. phase # "refused" /\ Targets' = Targets /\ draft' = draft
  BY Frame DEF Targets
<1>2. CASE AddEdges
  <2>1. first' = first /\ todo' = todo /\ phase = "edges"
    BY <1>2 DEF AddEdges, Refuse
  <2>2. SUFFICES ASSUME NEW u \in Ids, NEW v \in DOMAIN task, Waits(u, v) PROVE Waits(u, v)'
    BY <1>1, <1>2, <2>1, EdgesChange DEF Kept, Precedes, Anew
  <2>3. Reads(v)' = Reads(v) \cup Drawn(v)
    BY <1>2, EdgesChange
  <2>4. <<u, v>> \in edges => u \in Drawn(v)
    BY DEF Drawn
  <2> QED BY <1>1, <2>1, <2>2, <2>3, <2>4 DEF Waits
<1>3. CASE AddGate
  BY <1>3, GateKeeps
<1>4. CASE AddReads
  <2>1. first' = first /\ todo' = todo /\ phase = "gates"
    BY <1>4 DEF AddReads, Refuse
  <2>2. DOMAIN task' = DOMAIN task /\ \A v \in DOMAIN task : Reads(v)' = Reads(v)
    BY <1>4, ReadsChange DEF Reads
  <2> QED BY <1>1, <2>1, <2>2 DEF Kept, Precedes, Anew, Waits
<1>5. CASE Round \/ Return
  <2>1. first' = first /\ todo' = todo /\ task' = task /\ phase \notin {"edges", "refused"}
    BY <1>5 DEF Round, Return, Refuse
  <2> QED BY <1>1, <2>1 DEF Kept, Precedes, Anew, Waits, Reads
<1>6. CASE Again
  <2>1. /\ task' = task /\ todo' = Targets /\ first.by = "none" /\ first'.by = "again"
        /\ phase = "done"
    BY <1>6 DEF Again
  <2> QED BY <1>1, <2>1 DEF Kept, Precedes, Anew, Waits, Reads
<1>7. CASE Revise
  BY <1>7, RevisionKeeps
<1> QED BY <1>2, <1>3, <1>4, <1>5, <1>6, <1>7 DEF Next

LEMMA InitIInv == Init => IInv
<1> SUFFICES ASSUME Init PROVE IInv
  OBVIOUS
<1> USE DEF Init
<1>1. Typed
  BY DraftsAssumption DEF Typed, Phases, Targets
<1>2. Come /\ Gated /\ Placed
  BY DEF Come, Gated, Placed, Targets
<1>3. Kept
  BY DEF Kept, Precedes, Waits, Reads
<1> QED BY <1>1, <1>2, <1>3 DEF IInv

LEMMA Inductive == Spec => []IInv
<1>1. IInv /\ [Next]_vars => IInv'
  <2>1. CASE Next
    <3>1. draft' = draft
      BY <2>1 DEF Next, AddEdges, AddGate, AddReads, Round, Return, Again, Revise
    <3>2. Stackless' = Stackless
      BY <3>1 DEF Stackless, Targets
    <3> QED BY <2>1, <3>2, TypedStep, ComeStep, GatedStep, PlacedStep, KeptStep DEF IInv
  <2>2. CASE UNCHANGED vars
    BY <2>2 DEF vars, IInv, Typed, IsGraph, Come, Gated, Placed, After, Kept, Precedes, Anew,
      Waits, Reads, Targets, Gates, Stackless
  <2> QED BY <2>1, <2>2
<1> QED BY InitIInv, <1>1, PTL DEF Spec

\* What is assumed of all drafts is so of the one at hand.
LEMMA NoneStacked == Unstacked /\ IInv => Stackless /\ Gated /\ Kept
BY DEF IInv, Typed, Unstacked, Stackless, Targets

-------------------------------------------------------------------------------
\* No consumer of a task with rules goes round its gate, however the names sort and
\* whatever was there before (normalize's q_TASK barriers).
THEOREM NoBypassHolds ==
  ASSUME Unstacked
  PROVE  Spec => []NoBypass
<1>1. IInv => NoBypass
  <2> SUFFICES ASSUME IInv, Gated, phase = "done", NEW t \in Targets
               PROVE /\ Gate[t] \in DOMAIN task
                     /\ task[Gate[t]].inputs = {t} /\ t \in task[Gate[t]].rules
                     /\ \A u \in DOMAIN task \ {Gate[t]} : t \notin Reads(u)
    BY NoneStacked DEF NoBypass, Reads
  <2>1. /\ Gate[t] \in DOMAIN task
        /\ task[Gate[t]].inputs = {t} /\ t \in task[Gate[t]].rules
        /\ \A u \in DOMAIN task \ {t, Gate[t]} : t \notin Reads(u)
    BY DEF IInv, Gated, Come
  <2>2. ASSUME t \in DOMAIN task PROVE t \notin Reads(t)
    <3>1. PICK i \in DOMAIN sequence : sequence[i] = t
      BY <2>2 DEF IInv, Placed, Range
    <3>2. t \notin task[t].deps
      BY <3>1 DEF IInv, Placed, After
    <3> QED BY <2>2, <3>2 DEF IInv, Come, Reads
  <2> QED BY <2>1, <2>2
<1> QED BY <1>1, Inductive, PTL

\* What the draft puts before a task comes before it, and so does the gate of that,
\* however often the result is normalized again or revised (AddEdges, Lead, order).
THEOREM DraftRespectedHolds ==
  ASSUME Unstacked
  PROVE  Spec => []DraftRespected
<1>1. IInv => DraftRespected
  <2> SUFFICES ASSUME IInv, Gated, Kept, phase = "done", NEW u \in DOMAIN task, NEW v \in DOMAIN task,
                      Precedes(u, v), Anew(v) => Gate[u] = v
               PROVE /\ Before(u, v)
                     /\ u \in Targets /\ v # Gate[u] => Before(u, Gate[u]) /\ Before(Gate[u], v)
    BY NoneStacked DEF DraftRespected
  <2>1. /\ u \in Ids /\ sequence \in Seq(Ids) /\ todo = {}
        /\ \A w \in DOMAIN task : task[w].inputs \subseteq task[w].deps
        /\ \A i \in DOMAIN sequence : After(i)
        /\ Range(sequence) = DOMAIN task
    BY DEF IInv, Typed, IsGraph, Come, Placed
  <2>2. ASSUME NEW w \in DOMAIN task
        PROVE /\ w \notin Reads(w)
              /\ \E i \in DOMAIN sequence :
                   /\ sequence[i] = w
                   /\ \A n \in Reads(w) : \E j \in DOMAIN sequence : j < i /\ sequence[j] = n
    <3>1. PICK i \in DOMAIN sequence : sequence[i] = w
      BY <2>1, <2>2 DEF Range
    <3>2. Reads(w) = task[w].deps
      BY <2>1, <2>2 DEF Reads
    <3> QED BY <2>1, <3>1, <3>2 DEF After
  <2>3. ASSUME u \in Reads(v) PROVE Before(u, v)
    BY <2>2, <2>3 DEF Before
  <2>4. ASSUME u \in Targets
        PROVE /\ Gate[u] \in DOMAIN task /\ u \in Reads(Gate[u])
              /\ \A w \in DOMAIN task \ {u, Gate[u]} : u \notin Reads(w)
    BY <2>1, <2>4 DEF IInv, Gated, Reads
  <2>5. ASSUME u \in Targets, Gate[u] \in Reads(v)
        PROVE Before(u, v) /\ Before(u, Gate[u]) /\ Before(Gate[u], v)
    <3>1. PICK i \in DOMAIN sequence : sequence[i] = v
            /\ \A n \in Reads(v) : \E j \in DOMAIN sequence : j < i /\ sequence[j] = n
      BY <2>2
    <3>2. PICK j \in DOMAIN sequence : j < i /\ sequence[j] = Gate[u]
      BY <2>5, <3>1
    <3>3. PICK k \in DOMAIN sequence : k < j /\ sequence[k] = u
      <4>1. u \in task[Gate[u]].deps
        BY <2>1, <2>4, <2>5 DEF Reads
      <4> QED BY <2>1, <3>2, <4>1 DEF After
    <3>4. i \in Nat /\ j \in Nat /\ k \in Nat
      BY <2>1
    <3> QED BY <3>1, <3>2, <3>3, <3>4 DEF Before
  <2>6. Waits(u, v)
    BY <2>1 DEF IInv, Kept
  <2>7. CASE u \in Reads(v)
    BY <2>2, <2>3, <2>4, <2>7
  <2>8. CASE u \in Targets /\ Gate[u] \in Reads(v)
    BY <2>5, <2>8
  <2>9. ~ \E x \in Targets : u = Gate[x] /\ x \in Reads(v) /\ (x \in todo \/ v = x)
    BY <2>1, <2>2
  <2> QED BY <2>6, <2>7, <2>8, <2>9 DEF Waits
<1> QED BY <1>1, Inductive, PTL

-------------------------------------------------------------------------------
\* A draft whose parts are all there: its names are known, and none is a gate's.
Own == DOMAIN draft.task
Wanted(v) == {u \in Ids : Precedes(u, v)}
Plausible ==
  /\ Own \cap Gates = {} /\ Targets \subseteq Own /\ (\A t \in Targets : Gate[t] \in Ids)
  /\ draft.edges \subseteq Own \X Own
  /\ \A v \in Own : Wanted(v) \subseteq Own \cup Gates

\* What such a draft asks its tasks, and the gates it gets, to wait for.
Asked == [u \in Own \cup Gates |->
            IF u \in Own THEN Wanted(u) ELSE {t \in Targets : Gate[t] = u}]

\* Whatever a task of the draft waits for comes from the draft: as it is, or led through
\* its gate, or, after a revision, as the target of a gate that the draft names.
Traces(d, v) ==
  \/ d \in Wanted(v)
  \/ \E n \in Wanted(v) \cap Targets : d = Gate[n]
  \/ d \in Targets /\ Gate[d] \in Wanted(v)
Traced ==
  Plausible =>
    /\ phase = "refused" => Cyclic(Asked)
    /\ phase # "refused" =>
         /\ Own \subseteq DOMAIN task /\ DOMAIN task \subseteq Own \cup Gates
         /\ edges \subseteq draft.edges
         /\ \A t \in Targets : Gate[t] \in DOMAIN task => task[Gate[t]] = NewGate(t)
         /\ \A v \in Own : \A d \in Reads(v) : Traces(d, v)

\* Where nothing is ready and something is left, the draft goes round in a circle.
LEMMA StuckIsCyclic ==
  ASSUME IInv, Traced, Plausible, Round, Ready = {}
  PROVE  Cyclic(Asked)
<1> DEFINE S == DOMAIN task \ Range(sequence)
<1>1. /\ phase = "order" /\ todo = {} /\ Range(sequence) # DOMAIN task
      /\ Typed /\ Stackless /\ Gated
      /\ \A u \in DOMAIN task : task[u].inputs \subseteq task[u].deps /\ task[u].deps \subseteq DOMAIN task
      /\ \A i \in DOMAIN sequence : After(i)
  BY DEF Round, IInv, Come, Placed, Plausible, Stackless, Gates
<1>2. /\ Own \subseteq DOMAIN task /\ DOMAIN task \subseteq Own \cup Gates
      /\ \A t \in Targets : Gate[t] \in DOMAIN task /\ task[Gate[t]] = NewGate(t)
      /\ \A v \in Own : \A d \in Reads(v) : Traces(d, v)
  BY <1>1 DEF Traced, Gated
<1>3. Range(sequence) \subseteq DOMAIN task
  BY <1>1 DEF After, Range
<1>4. S # {} /\ S \subseteq Own \cup Gates
  BY <1>1, <1>2, <1>3
<1>5. \A u \in S : \E d \in S : d \in task[u].deps
  BY <1>1 DEF Ready
<1>6. ASSUME NEW t \in Targets, Gate[t] \in S
      PROVE t \in S
  <2>1. task[Gate[t]].deps = {t}
    BY <1>2, GateParts
  <2> QED BY <1>5, <1>6, <2>1
<1>7. ASSUME NEW t \in Targets, t \in S
      PROVE Gate[t] \in S
  <2>1. task[Gate[t]].deps = {t} /\ Gate[t] \in DOMAIN task
    BY <1>2, GateParts
  <2>2. ASSUME NEW i \in DOMAIN sequence, sequence[i] = Gate[t] PROVE FALSE
    <3>1. \E j \in DOMAIN sequence : sequence[j] = t
      BY <1>1, <2>1, <2>2 DEF After
    <3> QED BY <1>7, <3>1 DEF Range
  <2> QED BY <2>1, <2>2 DEF Range
<1>8. ASSUME NEW u \in S PROVE S \cap Asked[u] # {}
  <2>1. CASE u \in Own
    <3>1. Asked[u] = Wanted(u)
      BY <2>1 DEF Asked
    <3>2. PICK d \in S : d \in task[u].deps
      BY <1>5
    <3>3. Traces(d, u) /\ d \in Reads(u)
      BY <1>2, <2>1, <3>2 DEF Reads
    <3>4. CASE d \in Wanted(u)
      BY <3>1, <3>2, <3>4
    <3>5. CASE \E n \in Wanted(u) \cap Targets : d = Gate[n]
      BY <1>6, <3>1, <3>2, <3>5
    <3>6. CASE d \in Targets /\ Gate[d] \in Wanted(u)
      BY <1>7, <3>1, <3>2, <3>6
    <3> QED BY <3>3, <3>4, <3>5, <3>6 DEF Traces
  <2>2. CASE u \notin Own
    <3>1. PICK t \in Targets : u = Gate[t]
      BY <1>4, <2>2 DEF Gates
    <3>2. t \in Asked[u]
      BY <2>2, <3>1 DEF Asked, Gates
    <3> QED BY <1>6, <3>1, <3>2
  <2> QED BY <2>1, <2>2
<1>9. S \in SUBSET DOMAIN Asked
  BY <1>4 DEF Asked
<1> QED BY <1>4, <1>8, <1>9 DEF Cyclic

\* Nothing else is a reason to refuse such a draft.
LEMMA OnlyCycles ==
  ASSUME IInv, Traced, Plausible, Next, phase' = "refused"
  PROVE  Cyclic(Asked)
<1>1. CASE AddEdges
  <2>1. phase = "edges" /\ Refuse
    BY <1>1 DEF AddEdges
  <2>2. Own \subseteq DOMAIN task /\ edges \subseteq Own \X Own /\ Targets \subseteq Own
    BY <2>1 DEF Traced, Plausible
  <2>3. (UNION {{e[1], e[2]} : e \in edges}) \cup Targets \subseteq DOMAIN task
    BY <2>2
  <2> QED BY <1>1, <2>3 DEF AddEdges
<1>2. CASE AddGate
  <2> DEFINE t == Least(todo)
  <2>1. phase = "gates" /\ todo # {} /\ (Gate[t] \notin Ids \/ (Gate[t] \in DOMAIN task /\ Collides(t)))
    BY <1>2 DEF AddGate
  <2>2. t \in Targets
    <3>1. Typed /\ todo \subseteq Ids
      BY DraftParts DEF IInv, Typed
    <3> QED BY <2>1, <3>1, LeastOfSome DEF Typed
  <2> HIDE DEF t
  <2>3. Gate[t] \in Ids /\ (Gate[t] \in DOMAIN task => task[Gate[t]] = NewGate(t))
    BY <2>1, <2>2 DEF Plausible, Traced
  <2> QED BY <2>1, <2>3 DEF Collides, NewGate
<1>3. CASE AddReads
  <2>1. phase = "gates" /\ todo = {}
    BY <1>3 DEF AddReads
  <2>2. /\ Own \subseteq DOMAIN task /\ DOMAIN task \subseteq Own \cup Gates
        /\ \A t \in Targets : Gate[t] \in DOMAIN task => task[Gate[t]] = NewGate(t)
        /\ \A v \in Own : \A d \in Reads(v) : Traces(d, v)
    BY <2>1 DEF Traced
  <2>3. \A t \in Targets : Gate[t] \in DOMAIN task
    <3>1. Stackless
      BY DEF Plausible, Stackless, Gates
    <3> QED BY <2>1, <3>1 DEF IInv, Gated
  <2>4. ASSUME NEW u \in DOMAIN task PROVE Reads(u) \subseteq DOMAIN task
    <3>1. CASE u \in Own
      <4>1. \A d \in Reads(u) : d \in Own \cup Gates
        BY <2>2, <3>1 DEF Traces, Plausible, Gates
      <4> QED BY <2>2, <2>3, <4>1 DEF Gates
    <3>2. CASE u \notin Own
      <4>1. PICK t \in Targets : u = Gate[t]
        BY <2>2, <3>2 DEF Gates
      <4>2. Reads(u) = {t}
        BY <2>2, <4>1, GateParts DEF Reads
      <4> QED BY <2>2, <4>2 DEF Plausible
    <3> QED BY <3>1, <3>2
  <2>5. \A u \in DOMAIN task :
          [x \in DOMAIN task |-> [task[x] EXCEPT !.deps = @ \cup task[x].inputs]][u].deps
            \subseteq DOMAIN task
    <3> SUFFICES ASSUME NEW u \in DOMAIN task
                 PROVE [task[u] EXCEPT !.deps = @ \cup task[u].inputs].deps \subseteq DOMAIN task
      OBVIOUS
    <3>1. task[u] \in Task
      BY TaskParts DEF IInv
    <3>2. [task[u] EXCEPT !.deps = @ \cup task[u].inputs].deps = Reads(u)
      BY <3>1 DEF Task, Reads
    <3> QED BY <2>4, <3>2
  <2> QED BY <1>3, <2>1, <2>5 DEF AddReads
<1>4. CASE Round
  BY <1>4, StuckIsCyclic DEF Round
<1>5. CASE Return \/ Again \/ Revise
  BY <1>5 DEF Return, Again, Revise
<1> QED BY <1>1, <1>2, <1>3, <1>4, <1>5 DEF Next

\* Nothing of this changes while the draft stays.
LEMMA SameDraft ==
  ASSUME draft' = draft
  PROVE  /\ Targets' = Targets /\ Gates' = Gates /\ Own' = Own /\ Asked' = Asked
         /\ Plausible' = Plausible /\ \A d, v : Traces(d, v)' = Traces(d, v)
<1>1. Targets' = Targets /\ Gates' = Gates /\ Own' = Own /\ \A v : Wanted(v)' = Wanted(v)
  BY DEF Targets, Gates, Own, Wanted, Precedes
<1> QED BY <1>1 DEF Asked, Plausible, Traces

LEMMA TracedStep ==
  ASSUME IInv, Traced, Next
  PROVE  Traced'
<1>1. draft' = draft /\ phase # "refused"
  BY DEF Next, AddEdges, AddGate, AddReads, Round, Return, Again, Revise
<1>2. /\ Targets' = Targets /\ Gates' = Gates /\ Own' = Own /\ Asked' = Asked
      /\ Plausible' = Plausible /\ \A d, v : Traces(d, v)' = Traces(d, v)
  BY <1>1, SameDraft
<1> SUFFICES ASSUME Plausible, phase' # "refused"
             PROVE /\ Own \subseteq DOMAIN task' /\ DOMAIN task' \subseteq Own \cup Gates
                   /\ edges' \subseteq draft.edges
                   /\ \A t \in Targets : Gate[t] \in DOMAIN task' => task'[Gate[t]] = NewGate(t)
                   /\ \A v \in Own : \A d \in Reads(v)' : Traces(d, v)
  <2>1. Plausible /\ phase' = "refused" => Cyclic(Asked)'
    BY <1>2, OnlyCycles DEF Cyclic
  <2> QED BY <1>1, <1>2, <2>1 DEF Traced
<1>3. /\ Own \subseteq DOMAIN task /\ DOMAIN task \subseteq Own \cup Gates
      /\ edges \subseteq draft.edges
      /\ \A t \in Targets : Gate[t] \in DOMAIN task => task[Gate[t]] = NewGate(t)
      /\ \A v \in Own : \A d \in Reads(v) : Traces(d, v)
  BY <1>1 DEF Traced
<1>4. /\ Typed /\ Targets \subseteq Own /\ Own \cap Gates = {} /\ draft.edges \subseteq Own \X Own
      /\ \A t \in Targets : Gate[t] \in Ids /\ Gate[t] \in Gates
      /\ \A t, u \in Targets : Gate[t] = Gate[u] => t = u
      /\ Own \subseteq Ids /\ \A t, u \in Targets : Gate[t] # u
  <2>1. Typed /\ Own \subseteq Ids
    BY DraftsAssumption DEF IInv, Typed, IsGraph, Own
  <2> QED BY <2>1, DraftParts DEF Plausible, Gates
<1>5. CASE AddEdges
  <2>1. edges' = {} /\ DOMAIN task' = DOMAIN task
    BY <1>4, <1>5, EdgesChange DEF AddEdges, Refuse
  <2>2. ASSUME NEW t \in Targets, Gate[t] \in DOMAIN task PROVE task'[Gate[t]] = NewGate(t)
    <3>1. Drawn(Gate[t]) = {}
      BY <1>3, <1>4 DEF Drawn
    <3>2. task'[Gate[t]] = [NewGate(t) EXCEPT !.deps = @ \cup {}]
      BY <1>3, <1>4, <1>5, <2>2, <3>1, EdgesChange
    <3> QED BY <3>2 DEF NewGate
  <2>3. ASSUME NEW v \in Own, NEW d \in Reads(v)' PROVE Traces(d, v)
    <3>1. d \in Reads(v) \/ d \in Drawn(v)
      BY <1>3, <1>4, <1>5, <2>3, EdgesChange
    <3>2. d \in Drawn(v) => d \in Wanted(v)
      BY <1>3, <1>4 DEF Drawn, Wanted, Precedes, Own
    <3> QED BY <1>3, <3>1, <3>2 DEF Traces
  <2> QED BY <1>3, <2>1, <2>2, <2>3
<1>6. CASE AddGate
  <2>1. PICK t \in todo : Gating(t)
    BY <1>4, <1>6, GateChange
  <2> USE DEF Gating
  <2>2. t \in Targets /\ edges' = edges
    BY <1>4, <1>6, <2>1 DEF AddGate, Refuse, Typed
  <2>3. ASSUME NEW s \in Targets, Gate[s] \in DOMAIN task' PROVE task'[Gate[s]] = NewGate(s)
    <3>1. CASE s = t
      BY <1>3, <2>1, <2>3, <3>1
    <3>2. CASE s # t
      <4>1. Gate[s] \in DOMAIN task \ {t, Gate[t]} /\ task[Gate[s]] = NewGate(s)
        BY <1>3, <1>4, <2>1, <2>2, <2>3, <3>2
      <4>2. /\ task'[Gate[s]].kind = "gate" /\ task'[Gate[s]].rules = {s}
            /\ task'[Gate[s]].inputs = Led({s}, t) /\ task'[Gate[s]].deps = Led({s}, t)
        <5>1. /\ task[Gate[s]].kind = "gate" /\ task[Gate[s]].rules = {s}
              /\ task[Gate[s]].inputs = {s} /\ task[Gate[s]].deps = {s}
          BY <4>1, GateParts
        <5> QED BY <2>1, <4>1, <5>1
      <4>3. Led({s}, t) = {s}
        BY <3>2 DEF Led
      <4>4. task'[Gate[s]] \in Task
        BY <2>1, <4>1 DEF IsGraph
      <4> QED BY <4>2, <4>3, <4>4 DEF NewGate, Task
    <3> QED BY <3>1, <3>2
  <2>4. ASSUME NEW v \in Own, NEW d \in Reads(v)' PROVE Traces(d, v)
    <3>1. v \in DOMAIN task /\ v # Gate[t]
      BY <1>3, <1>4, <2>2
    <3>2. d \in Reads(v) \/ (t \in Reads(v) /\ d = Gate[t])
      <4>1. CASE v = t
        BY <2>1, <2>4, <3>1, <4>1 DEF Reads
      <4>2. CASE v # t
        BY <2>1, <2>4, <3>1, <4>2 DEF Reads, Led
      <4> QED BY <4>1, <4>2
    <3>3. ASSUME t \in Reads(v), d = Gate[t] PROVE Traces(d, v)
      <4>1. Traces(t, v)
        BY <1>3, <3>3
      <4> QED BY <1>4, <2>2, <3>3, <4>1 DEF Traces
    <3> QED BY <1>3, <3>2, <3>3
  <2>5. Own \subseteq DOMAIN task' /\ DOMAIN task' \subseteq Own \cup Gates
    BY <1>3, <1>4, <2>1, <2>2
  <2> QED BY <1>3, <2>2, <2>3, <2>4, <2>5
<1>7. CASE AddReads
  <2>1. edges' = edges /\ DOMAIN task' = DOMAIN task
    BY <1>4, <1>7, ReadsChange DEF AddReads, Refuse
  <2>2. \A u \in DOMAIN task : Reads(u)' = Reads(u)
    BY <1>4, <1>7, ReadsChange DEF Reads
  <2>3. ASSUME NEW t \in Targets, Gate[t] \in DOMAIN task PROVE task'[Gate[t]] = NewGate(t)
    <3>1. task[Gate[t]] = NewGate(t)
      BY <1>3, <2>3
    <3>2. Reads(Gate[t]) = {t}
      BY <3>1, GateParts DEF Reads
    <3>3. task'[Gate[t]] = [NewGate(t) EXCEPT !.deps = {t}]
      BY <1>4, <1>7, <2>3, <3>1, <3>2, ReadsChange
    <3> QED BY <3>3 DEF NewGate
  <2> QED BY <1>3, <2>1, <2>2, <2>3
<1>8. CASE Round \/ Return \/ Again
  <2>1. task' = task /\ edges' = edges
    BY <1>8 DEF Round, Return, Again, Refuse
  <2> QED BY <1>3, <2>1 DEF Reads
<1>9. CASE Revise
  <2>1. edges' = edges /\ DOMAIN task' = DOMAIN task \ Gates
    BY <1>4, <1>9, RevisionChange DEF Revise
  <2>2. ASSUME NEW v \in Own, NEW d \in Reads(v)' PROVE Traces(d, v)
    <3>1. v \in DOMAIN task' /\ Reads(v)' = Back(Reads(v))
      BY <1>3, <1>4, <1>9, <2>1, <2>2, RevisionChange
    <3>2. PICK n \in Reads(v) : d = IF n \in Gates THEN CHOOSE t \in Targets : Gate[t] = n ELSE n
      BY <2>2, <3>1 DEF Back
    <3>3. Traces(n, v)
      BY <1>3
    <3>4. CASE n \in Gates
      <4>1. d \in Targets /\ Gate[d] = n
        BY <3>2, <3>4 DEF Gates
      <4>2. n \notin Targets
        BY <1>4, <3>4
      <4>3. ASSUME NEW m \in Wanted(v) \cap Targets, n = Gate[m] PROVE d \in Wanted(v)
        BY <1>4, <4>1, <4>3
      <4> QED BY <3>3, <4>1, <4>2, <4>3 DEF Traces
    <3> QED BY <3>2, <3>3, <3>4
  <2> QED BY <1>3, <1>4, <2>1, <2>2
<1> QED BY <1>5, <1>6, <1>7, <1>8, <1>9 DEF Next

LEMMA InitTraced == Init => Traced
<1> SUFFICES ASSUME Init, Plausible PROVE Traced
  BY DEF Traced
<1>1. \A v \in Own : \A d \in Reads(v) : d \in Wanted(v)
  BY DraftsAssumption DEF Init, Own, Reads, Wanted, Precedes, IsGraph, Task
<1> QED BY <1>1 DEF Init, Traced, Traces, Own, Plausible, Gates, Targets

\* A draft in which no task has a gate's name is refused only for a fault of its own,
\* whether it is normalized, normalized again or revised: gates add no cycle (order),
\* no collision (AddGate) and no name that is missing (AddReads).
THEOREM RefusedForCauseHolds == Spec => []RefusedForCause
<1>1. IInv /\ Traced /\ [Next]_vars => Traced'
  <2>1. CASE UNCHANGED vars
    <3>1. draft' = draft /\ task' = task /\ phase' = phase /\ edges' = edges
      BY <2>1 DEF vars
    <3>2. \A v : Reads(v)' = Reads(v)
      BY <3>1 DEF Reads
    <3>3. Cyclic(Asked)' = Cyclic(Asked)
      BY <3>1, SameDraft DEF Cyclic
    <3> QED BY <3>1, <3>2, <3>3, SameDraft DEF Traced
  <2> QED BY <2>1, TracedStep
<1>2. IInv /\ Traced => RefusedForCause
  <2> SUFFICES ASSUME IInv, Traced, phase = "refused", Own \cap Gates = {},
                      Targets \subseteq Own, \A t \in Targets : Gate[t] \in Ids,
                      \A e \in draft.edges : {e[1], e[2]} \subseteq Own,
                      \A v \in Own : Wanted(v) \subseteq Own \cup Gates
               PROVE Cyclic(Asked)
    <3>1. Asked = [u \in Own \cup Gates |->
                    IF u \in Own THEN [v \in Own |-> {w \in Ids : Precedes(w, v)}][u]
                      ELSE {t \in Targets : Gate[t] = u}]
      BY DEF Asked, Wanted
    <3>2. \A v \in Own : [w \in Own |-> {u \in Ids : Precedes(u, w)}][v] = Wanted(v)
      BY DEF Wanted
    <3> QED BY <3>1, <3>2 DEF RefusedForCause, Own
  <2>1. draft.edges \subseteq Ids \X Ids
    BY DraftsAssumption DEF IInv, Typed
  <2>2. draft.edges \subseteq Own \X Own
    BY <2>1
  <2> QED BY <2>2 DEF Traced, Plausible
<1> QED BY <1>1, <1>2, Inductive, InitTraced, PTL DEF Spec

-------------------------------------------------------------------------------
\* The order of a graph, round by round: at each bound the tasks that are ready come
\* next, sorted, up to the next bound.
Upto(seq, n) == {seq[i] : i \in 1 .. n}
Wanting(T, placed) == {u \in DOMAIN T \ placed : T[u].deps \subseteq placed}
Bounds(T, seq, B) ==
  /\ B \subseteq 0 .. Len(seq) /\ 0 \in B /\ Len(seq) \in B
  /\ \A b \in B : b < Len(seq) =>
       /\ Wanting(T, Upto(seq, b)) # {}
       /\ b + Len(Sorted(Wanting(T, Upto(seq, b)))) \in B
       /\ \A i \in 1 .. Len(Sorted(Wanting(T, Upto(seq, b)))) :
            seq[b + i] = Sorted(Wanting(T, Upto(seq, b)))[i]
Ordered == phase \in {"order", "done"} => \E B : Bounds(task, sequence, B)

\* What normalize returns, of a draft without stacked gates.
Acyclic(T) == \A S \in SUBSET DOMAIN T : S # {} => \E u \in S : T[u].deps \cap S = {}
Normal(T, seq) ==
  /\ IsGraph(T) /\ Targets \subseteq DOMAIN T /\ Acyclic(T)
  /\ \A u \in DOMAIN T : T[u].inputs \subseteq T[u].deps /\ T[u].deps \subseteq DOMAIN T
  /\ \A t \in Targets :
       /\ Gate[t] \in Ids /\ Gate[t] \in DOMAIN T
       /\ T[Gate[t]].kind = "gate" /\ T[Gate[t]].inputs = {t} /\ T[Gate[t]].rules = {t}
       /\ \A u \in DOMAIN T \ {Gate[t]} : t \notin T[u].deps
       /\ Gate[t] \notin T[t].deps
  /\ seq \in Seq(Ids) /\ Range(seq) = DOMAIN T /\ \E B : Bounds(T, seq, B)

\* A task of the first result as a revision turns it: who waited for a gate waits for its
\* target, until that is looked at again.
Turn(n) == IF n \in {Gate[t] : t \in todo} THEN CHOOSE t \in Targets : Gate[t] = n ELSE n
Turned(names) == {Turn(n) : n \in names}
Returned(r) == [r EXCEPT !.inputs = Turned(@), !.deps = Turned(@)]

\* Normalizing again changes nothing on the way; a revision makes the same gates anew.
Stays ==
  /\ first.by = "again" => task = first.task
  /\ first.by = "revision" =>
       /\ DOMAIN task = (DOMAIN first.task \ Gates) \cup {Gate[t] : t \in Targets \ todo}
       /\ \A t \in Targets \ todo : task[Gate[t]] = NewGate(t)
       /\ \A u \in DOMAIN first.task \ Gates : task[u] = Returned(first.task[u])

\* And the same tasks are placed in the same rounds.
Follows ==
  \E B : /\ Bounds(first.task, first.sequence, B) /\ Len(sequence) \in B
         /\ \A i \in 1 .. Len(sequence) : sequence[i] = first.sequence[i]
Repeats ==
  first.by # "none" =>
    /\ phase # "refused" /\ Normal(first.task, first.sequence) /\ Stays
    /\ phase \in {"order", "done"} /\ task = first.task => Follows

NInv == IInv /\ Ordered /\ (Stackless => Repeats)

\* A round more.
LEMMA RoundBounds ==
  ASSUME Typed, Round, phase' # "refused", NEW B, Bounds(task, sequence, B)
  PROVE  Bounds(task, sequence', B \cup {Len(sequence')})
<1> DEFINE more == Sorted(Ready)
           k == Len(sequence)
           C == B \cup {Len(sequence')}
<1>1. sequence' = sequence \o more /\ Ready # {}
  BY DEF Round, Refuse
<1>2. more \in Seq(Ids)
  <2>1. Ready \subseteq Ids
    BY DEF Ready, Typed, IsGraph
  <2> QED BY <2>1, SortedFacts
<1>3. sequence \in Seq(Ids) /\ k \in Nat /\ Len(more) \in Nat
  BY <1>2 DEF Typed
<1> HIDE DEF more
<1>4. /\ Len(sequence') = k + Len(more)
      /\ \A i \in 1 .. k : sequence'[i] = sequence[i]
      /\ \A i \in 1 .. Len(more) : sequence'[k + i] = more[i]
  BY <1>1, <1>2, <1>3
<1> HIDE DEF k
<1>5. B \subseteq 0 .. k /\ 0 \in B /\ k \in B
  BY DEF Bounds, k
<1>6. \A b \in B : Upto(sequence', b) = Upto(sequence, b)
  BY <1>3, <1>4, <1>5 DEF Upto
<1>7. Wanting(task, Upto(sequence, k)) = Ready
  <2>1. Upto(sequence, k) = Range(sequence)
    BY <1>3 DEF Upto, Range, k
  <2> QED BY <2>1 DEF Wanting, Ready
<1>8. ASSUME NEW b \in C, b < Len(sequence')
      PROVE /\ Wanting(task, Upto(sequence', b)) # {}
            /\ b + Len(Sorted(Wanting(task, Upto(sequence', b)))) \in C
            /\ \A i \in 1 .. Len(Sorted(Wanting(task, Upto(sequence', b)))) :
                 sequence'[b + i] = Sorted(Wanting(task, Upto(sequence', b)))[i]
  <2>1. b \in B /\ b \in 0 .. k
    BY <1>3, <1>4, <1>5, <1>8
  <2>2. Upto(sequence', b) = Upto(sequence, b)
    BY <1>6, <2>1
  <2>3. CASE b = k
    BY <1>1, <1>4, <1>7, <2>2, <2>3 DEF more
  <2>4. CASE b # k
    <3> DEFINE next == Sorted(Wanting(task, Upto(sequence, b)))
    <3>1. /\ Wanting(task, Upto(sequence, b)) # {} /\ b + Len(next) \in B
          /\ \A i \in 1 .. Len(next) : sequence[b + i] = next[i]
      BY <1>3, <2>1, <2>4 DEF Bounds, k
    <3>2. Len(next) \in Nat
      <4>1. Wanting(task, Upto(sequence, b)) \in SUBSET Ids
        BY DEF Wanting, Typed, IsGraph
      <4>2. next \in Seq(Ids)
        BY <4>1, SortedFacts
      <4> HIDE DEF next
      <4> QED BY <4>2
    <3> HIDE DEF next
    <3>3. \A i \in 1 .. Len(next) : b + i \in 1 .. k
      BY <1>3, <1>5, <2>1, <3>1, <3>2
    <3>4. \A i \in 1 .. Len(next) : sequence'[b + i] = next[i]
      BY <1>4, <3>1, <3>3
    <3> QED BY <2>2, <3>1, <3>4 DEF next
  <2> QED BY <2>3, <2>4
<1>9. C \subseteq 0 .. Len(sequence')
  <2>1. Len(sequence') \in Nat /\ k <= Len(sequence')
    BY <1>3, <1>4
  <2>2. \A b \in B : b \in Nat /\ b <= k
    BY <1>3, <1>5
  <2>3. \A b \in B : b \in 0 .. Len(sequence')
    BY <1>3, <2>1, <2>2
  <2> QED BY <2>1, <2>3
<1>10. 0 \in C /\ Len(sequence') \in C
  BY <1>5
<1> HIDE DEF C
<1>11. Bounds(task, sequence', C)
  BY <1>8, <1>9, <1>10 DEF Bounds
<1> QED BY <1>11 DEF C

LEMMA OrderedStep ==
  ASSUME IInv, Ordered, Next
  PROVE  Ordered'
<1> SUFFICES ASSUME phase' \in {"order", "done"} PROVE \E B : Bounds(task', sequence', B)
  BY DEF Ordered
<1>1. CASE AddReads
  <2>1. sequence' = <<>>
    BY <1>1 DEF AddReads, Refuse, IInv, Come
  <2>2. Bounds(task', <<>>, {0})
    BY DEF Bounds
  <2> QED BY <2>1, <2>2
<1>2. CASE Round
  BY <1>2, RoundBounds DEF Ordered, Round, Refuse, IInv
<1>3. CASE Return
  BY <1>3 DEF Return, Ordered
<1>4. CASE AddEdges \/ AddGate \/ Again \/ Revise
  BY <1>4 DEF AddEdges, AddGate, Again, Revise, Refuse
<1> QED BY <1>1, <1>2, <1>3, <1>4 DEF Next

\* When all are placed, every set of tasks has one that waits for none of the others.
LEMMA PlacedAcyclic ==
  ASSUME IInv, phase = "done"
  PROVE  Acyclic(task)
<1> SUFFICES ASSUME NEW S \in SUBSET DOMAIN task, S # {}
             PROVE \E u \in S : task[u].deps \cap S = {}
  BY DEF Acyclic
<1> DEFINE P == {i \in DOMAIN sequence : sequence[i] \in S}
<1>1. /\ sequence \in Seq(Ids) /\ Range(sequence) = DOMAIN task
      /\ \A i \in DOMAIN sequence : After(i)
  BY DEF IInv, Typed, Placed
<1>2. P \in SUBSET Nat /\ P # {}
  BY <1>1 DEF Range
<1>3. PICK i \in P : \A j \in P : ~(j < i)
  BY <1>2, LeastNumber
<1>4. task[sequence[i]].deps \cap S = {}
  BY <1>1, <1>3 DEF After
<1> QED BY <1>3, <1>4

LEMMA DoneIsNormal ==
  ASSUME NInv, Stackless, phase = "done"
  PROVE  Normal(task, sequence)
<1>1. /\ Typed /\ todo = {} /\ Gated /\ Acyclic(task) /\ Targets \subseteq DOMAIN task
      /\ \A u \in DOMAIN task :
           task[u].inputs \subseteq task[u].deps /\ task[u].deps \subseteq DOMAIN task
      /\ Range(sequence) = DOMAIN task /\ \E B : Bounds(task, sequence, B)
  BY PlacedAcyclic DEF NInv, IInv, Come, Placed, Ordered
<1>2. ASSUME NEW t \in Targets
      PROVE /\ Gate[t] \in Ids /\ Gate[t] \in DOMAIN task
            /\ task[Gate[t]].kind = "gate" /\ task[Gate[t]].inputs = {t}
            /\ task[Gate[t]].rules = {t}
            /\ \A u \in DOMAIN task \ {Gate[t]} : t \notin task[u].deps
            /\ Gate[t] \notin task[t].deps
  <2>1. /\ Gate[t] \in Ids /\ Gate[t] \in DOMAIN task
        /\ task[Gate[t]].kind = "gate" /\ task[Gate[t]].inputs = {t}
        /\ task[Gate[t]].rules = {t} /\ t \in task[Gate[t]].deps
        /\ \A u \in DOMAIN task \ {t, Gate[t]} : t \notin Reads(u)
    BY <1>1, <1>2 DEF Gated
  <2>2. t \notin task[t].deps
    <3>1. {t} \in SUBSET DOMAIN task
      BY <1>1
    <3> QED BY <1>1, <3>1 DEF Acyclic
  <2>3. Gate[t] \notin task[t].deps
    <3>1. {t, Gate[t]} \in SUBSET DOMAIN task
      BY <1>1, <2>1
    <3> QED BY <1>1, <2>1, <3>1 DEF Acyclic
  <2> QED BY <2>1, <2>2, <2>3 DEF Reads
<1> QED BY <1>1, <1>2 DEF Normal, Typed

\* Two graphs with the same tasks are the same.
LEMMA SameGraph ==
  ASSUME NEW S, NEW T, IsGraph(S), IsGraph(T), DOMAIN S = DOMAIN T,
         \A u \in DOMAIN S : S[u] = T[u]
  PROVE  S = T
BY DEF IsGraph

\* What is known the second time round.
LEMMA SecondFacts ==
  ASSUME NInv, Stackless, first.by # "none"
  PROVE  /\ Typed /\ Come /\ Gated /\ Stays /\ phase # "refused" /\ edges = {}
         /\ Normal(first.task, first.sequence) /\ IsGraph(task) /\ IsGraph(first.task)
         /\ Targets \subseteq DOMAIN first.task /\ Targets \cap Gates = {}
         /\ \A t \in Targets : Gate[t] \in Gates /\ t \in Ids /\ Gate[t] \in DOMAIN first.task
         /\ \A t, u \in Targets : Gate[t] = Gate[u] => t = u
         /\ first.by \in {"again", "revision"}
<1>1. /\ Typed /\ Come /\ Gated /\ Stays /\ phase # "refused"
      /\ Normal(first.task, first.sequence)
  BY DEF NInv, IInv, Repeats
<1>2. edges = {} /\ IsGraph(task) /\ first.by \in {"again", "revision"}
  BY <1>1 DEF Come, Typed
<1>3. /\ IsGraph(first.task) /\ Targets \subseteq DOMAIN first.task
      /\ \A t \in Targets : Gate[t] \in Ids /\ Gate[t] \in DOMAIN first.task
  BY <1>1 DEF Normal
<1>4. /\ \A t \in Targets : Gate[t] \in Gates /\ t \in Ids
      /\ \A t, u \in Targets : Gate[t] = Gate[u] => t = u
  BY <1>1, <1>3, DraftParts DEF Gates
<1>5. Targets \cap Gates = {}
  BY DEF Stackless, Gates
<1> QED BY <1>1, <1>2, <1>3, <1>4, <1>5

\* When all targets have been looked at again, only gates that a revision made anew may
\* differ, and they wait for no more than before.
LEMMA SecondTasks ==
  ASSUME NInv, Stackless, first.by # "none", todo = {}
  PROVE  /\ DOMAIN task = DOMAIN first.task
         /\ \A u \in DOMAIN task :
              /\ \/ task[u] = first.task[u]
                 \/ first.by = "revision" /\ \E t \in Targets : Gate[t] = u /\ task[u] = NewGate(t)
              /\ task[u].inputs \subseteq first.task[u].deps
              /\ task[u].deps \subseteq first.task[u].deps
<1>1. /\ Stays /\ Normal(first.task, first.sequence) /\ first.by \in {"again", "revision"}
      /\ \A t \in Targets : Gate[t] \in Gates /\ Gate[t] \in DOMAIN first.task
      /\ IsGraph(first.task)
  BY SecondFacts
<1>2. \A u \in DOMAIN first.task : first.task[u].inputs \subseteq first.task[u].deps
  BY <1>1 DEF Normal
<1>3. CASE first.by = "again"
  BY <1>1, <1>2, <1>3 DEF Stays
<1>4. CASE first.by = "revision"
  <2>1. /\ DOMAIN task = (DOMAIN first.task \ Gates) \cup Gates
        /\ \A t \in Targets : task[Gate[t]] = NewGate(t)
        /\ \A u \in DOMAIN first.task \ Gates : task[u] = Returned(first.task[u])
    BY <1>1, <1>4 DEF Stays, Gates
  <2>2. DOMAIN task = DOMAIN first.task
    BY <1>1, <2>1 DEF Gates
  <2>3. ASSUME NEW u \in DOMAIN task, u \notin Gates PROVE task[u] = first.task[u]
    <3>1. \A names : Turned(names) = names
      BY DEF Turned, Turn
    <3>2. first.task[u] \in Task
      BY <1>1, <2>2, <2>3 DEF IsGraph
    <3>3. Returned(first.task[u]) = first.task[u]
      BY <3>1, <3>2 DEF Returned, Task
    <3> QED BY <2>1, <2>2, <2>3, <3>3
  <2>4. ASSUME NEW t \in Targets
        PROVE /\ task[Gate[t]] = NewGate(t)
              /\ task[Gate[t]].inputs \subseteq first.task[Gate[t]].deps
              /\ task[Gate[t]].deps \subseteq first.task[Gate[t]].deps
    <3>1. task[Gate[t]] = NewGate(t)
      BY <2>1
    <3>2. task[Gate[t]].inputs = {t} /\ task[Gate[t]].deps = {t}
      BY <3>1, GateParts
    <3>3. first.task[Gate[t]].inputs = {t} /\ Gate[t] \in DOMAIN first.task
      BY <1>1 DEF Normal
    <3> QED BY <1>2, <3>1, <3>2, <3>3
  <2> QED BY <1>2, <1>4, <2>2, <2>3, <2>4 DEF Gates
<1> QED BY <1>1, <1>3, <1>4

\* The second time nothing is refused.
LEMMA SecondAccepted ==
  ASSUME NInv, Stackless, first.by # "none", Next
  PROVE  phase' # "refused"
<1> SUFFICES ASSUME phase' = "refused" PROVE FALSE
  OBVIOUS
<1>1. /\ Typed /\ Come /\ Gated /\ Stays /\ phase # "refused" /\ edges = {}
      /\ Normal(first.task, first.sequence) /\ IsGraph(task) /\ IsGraph(first.task)
      /\ Targets \subseteq DOMAIN first.task /\ Targets \cap Gates = {}
      /\ \A t \in Targets : Gate[t] \in Gates /\ t \in Ids /\ Gate[t] \in DOMAIN first.task
      /\ \A t, u \in Targets : Gate[t] = Gate[u] => t = u
      /\ first.by \in {"again", "revision"}
  BY SecondFacts
<1>2. Targets \subseteq DOMAIN task
  BY <1>1 DEF Stays
<1>3. CASE AddEdges
  <2>1. (UNION {{e[1], e[2]} : e \in edges}) \cup Targets \subseteq DOMAIN task
    BY <1>1, <1>2
  <2> QED BY <1>3, <2>1 DEF AddEdges
<1>4. CASE AddGate
  <2> DEFINE t == Least(todo)
  <2>1. phase = "gates" /\ todo # {} /\ (Gate[t] \notin Ids \/ (Gate[t] \in DOMAIN task /\ Collides(t)))
    BY <1>4 DEF AddGate
  <2>2. t \in todo /\ t \in Targets
    <3>1. todo \subseteq Ids
      BY <1>1, DraftParts DEF Typed
    <3> QED BY <1>1, <2>1, <3>1, LeastOfSome DEF Typed
  <2> HIDE DEF t
  <2>3. /\ Gate[t] \in Ids /\ Gate[t] \in DOMAIN first.task /\ first.task[Gate[t]].kind = "gate"
        /\ first.task[Gate[t]].inputs = {t} /\ first.task[Gate[t]].rules = {t}
    BY <1>1, <2>2 DEF Normal
  <2>4. CASE first.by = "again"
    BY <1>1, <2>1, <2>3, <2>4 DEF Stays, Collides
  <2>5. CASE first.by = "revision"
    BY <1>1, <2>1, <2>2, <2>3, <2>5 DEF Stays
  <2> QED BY <1>1, <2>4, <2>5
<1>5. CASE AddReads
  <2>1. phase = "gates" /\ todo = {}
    BY <1>5 DEF AddReads
  <2>2. \A u \in DOMAIN task : Reads(u) \subseteq DOMAIN task
    BY <1>1, <2>1, SecondTasks DEF Normal, Reads
  <2>3. \A u \in DOMAIN task :
          [x \in DOMAIN task |-> [task[x] EXCEPT !.deps = @ \cup task[x].inputs]][u].deps
            \subseteq DOMAIN task
    <3> SUFFICES ASSUME NEW u \in DOMAIN task
                 PROVE [task[u] EXCEPT !.deps = @ \cup task[u].inputs].deps \subseteq DOMAIN task
      OBVIOUS
    <3>1. task[u] \in Task
      BY <1>1 DEF IsGraph
    <3>2. [task[u] EXCEPT !.deps = @ \cup task[u].inputs].deps = Reads(u)
      BY <3>1 DEF Task, Reads
    <3> QED BY <2>2, <3>2
  <2> QED BY <1>5, <2>1, <2>3 DEF AddReads
<1>6. CASE Round
  <2> DEFINE S == DOMAIN task \ Range(sequence)
  <2>1. phase = "order" /\ todo = {} /\ Range(sequence) # DOMAIN task /\ Ready = {}
    BY <1>1, <1>6 DEF Round, Come
  <2>2. S # {}
    <3>1. Range(sequence) \subseteq DOMAIN task
      BY <2>1 DEF NInv, IInv, Placed, After, Range
    <3> QED BY <2>1, <3>1
  <2>3. PICK u \in S : first.task[u].deps \cap S = {}
    <3>1. S \in SUBSET DOMAIN first.task
      BY <2>1, SecondTasks
    <3> QED BY <1>1, <2>2, <3>1 DEF Normal, Acyclic
  <2>4. task[u].deps \subseteq Range(sequence)
    BY <1>1, <2>1, <2>3, SecondTasks DEF Come
  <2> QED BY <2>1, <2>4 DEF Ready
<1>7. CASE Return \/ Again \/ Revise
  BY <1>7 DEF Return, Again, Revise
<1> QED BY <1>3, <1>4, <1>5, <1>6, <1>7 DEF Next

\* Leading the consumers of a target through its gate undoes what the revision did there.
LEMMA LedIsTurned ==
  ASSUME NEW t \in todo, todo' = todo \ {t}, Targets' = Targets, todo \subseteq Targets,
         \A x, y \in Targets : Gate[x] = Gate[y] => x = y, Targets \cap Gates = {},
         NEW names
  PROVE  /\ t \notin names => Led(Turned(names), t) = Turned(names)'
         /\ Gate[t] \notin names => Turned(names) = Turned(names)'
<1>1. ASSUME NEW n PROVE n = Gate[t] => Turn(n) = t /\ Turn(n)' = n
  BY <1>1 DEF Turn
<1>2. ASSUME NEW x \in todo \ {t} PROVE Turn(Gate[x]) = x /\ Turn(Gate[x])' = x
  BY <1>2 DEF Turn
<1>3. ASSUME NEW n, \A x \in todo : n # Gate[x] PROVE Turn(n) = n /\ Turn(n)' = n
  BY <1>3 DEF Turn
<1>4. ASSUME NEW n, n # Gate[t] PROVE Turn(n)' = Turn(n)
  <2>1. CASE \E x \in todo : n = Gate[x]
    BY <1>2, <1>4, <2>1
  <2>2. CASE \A x \in todo : n # Gate[x]
    BY <1>3, <2>2
  <2> QED BY <2>1, <2>2
<1>5. ASSUME NEW n, n # t
      PROVE (IF Turn(n) = t THEN Gate[t] ELSE Turn(n)) = Turn(n)'
  <2>1. CASE n = Gate[t]
    BY <1>1, <2>1
  <2>2. CASE \E x \in todo \ {t} : n = Gate[x]
    BY <1>2, <2>2
  <2>3. CASE \A x \in todo : n # Gate[x]
    BY <1>3, <1>5, <2>3
  <2> QED BY <2>1, <2>2, <2>3
<1>6. ASSUME t \notin names PROVE Led(Turned(names), t) = Turned(names)'
  <2>1. Led(Turned(names), t) = {IF Turn(n) = t THEN Gate[t] ELSE Turn(n) : n \in names}
    BY DEF Led, Turned
  <2>2. \A n \in names : (IF Turn(n) = t THEN Gate[t] ELSE Turn(n)) = Turn(n)'
    BY <1>5, <1>6
  <2>3. Turned(names)' = {Turn(n)' : n \in names}
    BY DEF Turned
  <2> HIDE DEF Turn
  <2> QED BY <2>1, <2>2, <2>3
<1>7. ASSUME Gate[t] \notin names PROVE Turned(names) = Turned(names)'
  <2>1. \A n \in names : Turn(n)' = Turn(n)
    BY <1>4, <1>7
  <2>2. Turned(names)' = {Turn(n)' : n \in names}
    BY DEF Turned
  <2> QED BY <2>1, <2>2 DEF Turned
<1> QED BY <1>6, <1>7

\* One gate of the second time.
LEMMA StaysGate ==
  ASSUME NInv, Stackless, first.by # "none", AddGate, phase' # "refused"
  PROVE  Stays'
<1>1. /\ Typed /\ Gated /\ Stays /\ Normal(first.task, first.sequence)
      /\ IsGraph(task) /\ IsGraph(first.task)
      /\ Targets \subseteq DOMAIN first.task /\ Targets \cap Gates = {}
      /\ \A t \in Targets : Gate[t] \in Gates /\ t \in Ids /\ Gate[t] \in DOMAIN first.task
      /\ \A t, u \in Targets : Gate[t] = Gate[u] => t = u
      /\ todo \subseteq Targets
  BY SecondFacts DEF Typed
<1>2. PICK t \in todo : Gating(t)
  BY <1>1, GateChange
<1>3. /\ draft' = draft /\ first' = first /\ Targets' = Targets /\ Gates' = Gates
      /\ todo' = todo \ {t} /\ t \in Targets /\ IsGraph(task)'
  BY <1>1, <1>2 DEF AddGate, Refuse, Targets, Gates, Gating
<1>4. \A u \in DOMAIN first.task :
        /\ first.task[u] \in Task
        /\ u # Gate[t] => t \notin first.task[u].inputs /\ t \notin first.task[u].deps
  BY <1>1, <1>3 DEF Normal, IsGraph
<1>5. Gate[t] \notin first.task[t].inputs /\ Gate[t] \notin first.task[t].deps
  BY <1>1, <1>3 DEF Normal
<1>6. ASSUME first.by = "again" PROVE task' = first.task
  <2>1. task = first.task /\ DOMAIN task' = DOMAIN task
    BY <1>1, <1>2, <1>3, <1>6 DEF Stays, Gating
  <2>2. ASSUME NEW u \in DOMAIN task PROVE task'[u] = task[u]
    <3>1. CASE u \in {t, Gate[t]}
      BY <1>2, <2>2, <3>1 DEF Gating
    <3>2. CASE u \notin {t, Gate[t]}
      <4>1. /\ task'[u].inputs = Led(task[u].inputs, t) /\ task'[u].deps = Led(task[u].deps, t)
            /\ task'[u].kind = task[u].kind /\ task'[u].rules = task[u].rules
        BY <1>2, <2>2, <3>2 DEF Gating
      <4>2. Led(task[u].inputs, t) = task[u].inputs /\ Led(task[u].deps, t) = task[u].deps
        BY <1>4, <2>1, <2>2, <3>2 DEF Led
      <4>3. task'[u] \in Task /\ task[u] \in Task
        BY <1>1, <1>3, <2>1, <2>2 DEF IsGraph
      <4> QED BY <4>1, <4>2, <4>3 DEF Task
    <3> QED BY <3>1, <3>2
  <2> QED BY <1>1, <1>3, <2>1, <2>2, SameGraph
<1>7. ASSUME first.by = "revision"
      PROVE /\ DOMAIN task' = (DOMAIN first.task \ Gates) \cup {Gate[s] : s \in Targets \ todo'}
            /\ \A s \in Targets \ todo' : task'[Gate[s]] = NewGate(s)
            /\ \A u \in DOMAIN first.task \ Gates : task'[u] = Returned(first.task[u])'
  <2>1. /\ DOMAIN task = (DOMAIN first.task \ Gates) \cup {Gate[s] : s \in Targets \ todo}
        /\ \A s \in Targets \ todo : task[Gate[s]] = NewGate(s)
        /\ \A u \in DOMAIN first.task \ Gates : task[u] = Returned(first.task[u])
    BY <1>1, <1>7 DEF Stays
  <2>2. DOMAIN task' = (DOMAIN first.task \ Gates) \cup {Gate[s] : s \in Targets \ todo'}
    <3>1. {Gate[s] : s \in Targets \ todo'} = {Gate[s] : s \in Targets \ todo} \cup {Gate[t]}
      BY <1>2, <1>3
    <3> QED BY <1>2, <2>1, <3>1 DEF Gating
  <2>3. Gate[t] \notin DOMAIN task
    BY <1>1, <1>2, <1>3, <2>1
  <2>4. ASSUME NEW s \in Targets \ todo' PROVE task'[Gate[s]] = NewGate(s)
    <3>1. CASE s = t
      BY <1>2, <2>3, <3>1 DEF Gating
    <3>2. CASE s # t
      <4>1. /\ s \in Targets \ todo /\ Gate[s] \in DOMAIN task \ {t, Gate[t]}
            /\ task[Gate[s]] = NewGate(s)
        BY <1>1, <1>3, <2>1, <2>4, <3>2
      <4>2. /\ task[Gate[s]].kind = "gate" /\ task[Gate[s]].rules = {s}
            /\ task[Gate[s]].inputs = {s} /\ task[Gate[s]].deps = {s}
        BY <4>1, GateParts
      <4>3. /\ task'[Gate[s]].kind = "gate" /\ task'[Gate[s]].rules = {s}
            /\ task'[Gate[s]].inputs = Led({s}, t) /\ task'[Gate[s]].deps = Led({s}, t)
        BY <1>2, <4>1, <4>2 DEF Gating
      <4>4. Led({s}, t) = {s}
        BY <3>2 DEF Led
      <4>5. task'[Gate[s]] \in Task
        BY <1>2, <1>3, <4>1 DEF IsGraph, Gating
      <4> QED BY <4>3, <4>4, <4>5 DEF NewGate, Task
    <3> QED BY <3>1, <3>2
  <2>5. ASSUME NEW u \in DOMAIN first.task \ Gates PROVE task'[u] = Returned(first.task[u])'
    <3>1. /\ task[u] = Returned(first.task[u]) /\ first.task[u] \in Task /\ u \in DOMAIN task
          /\ u # Gate[t]
      BY <1>1, <1>3, <1>4, <2>1
    <3>2. /\ task[u].inputs = Turned(first.task[u].inputs) /\ task[u].deps = Turned(first.task[u].deps)
          /\ task[u].kind = first.task[u].kind /\ task[u].rules = first.task[u].rules
      BY <3>1 DEF Returned, Task
    <3>3. /\ task'[u].inputs = Turned(first.task[u].inputs)'
          /\ task'[u].deps = Turned(first.task[u].deps)'
          /\ task'[u].kind = first.task[u].kind /\ task'[u].rules = first.task[u].rules
      <4>1. \A names : /\ t \notin names => Led(Turned(names), t) = Turned(names)'
                       /\ Gate[t] \notin names => Turned(names) = Turned(names)'
        BY <1>1, <1>3, LedIsTurned
      <4>2. /\ Turned(first.task[u].inputs)' = {Turn(n)' : n \in first.task[u].inputs}
            /\ Turned(first.task[u].deps)' = {Turn(n)' : n \in first.task[u].deps}
            /\ \A names : Turned(names)' = {Turn(n)' : n \in names}
        BY <1>3 DEF Turned
      <4> HIDE DEF Turned, Turn
      <4>3. CASE u = t
        <5>1. task'[u] = task[u]
          BY <1>2, <3>1, <4>3 DEF Gating
        <5>2. /\ Turned(first.task[u].inputs) = Turned(first.task[u].inputs)'
              /\ Turned(first.task[u].deps) = Turned(first.task[u].deps)'
          BY <1>5, <4>1, <4>2, <4>3
        <5> QED BY <3>2, <5>1, <5>2
      <4>4. CASE u # t
        <5>1. /\ task'[u].inputs = Led(task[u].inputs, t) /\ task'[u].deps = Led(task[u].deps, t)
              /\ task'[u].kind = task[u].kind /\ task'[u].rules = task[u].rules
          BY <1>2, <3>1, <4>4 DEF Gating
        <5>2. /\ Led(Turned(first.task[u].inputs), t) = Turned(first.task[u].inputs)'
              /\ Led(Turned(first.task[u].deps), t) = Turned(first.task[u].deps)'
          BY <1>4, <3>1, <4>1, <4>2
        <5> QED BY <3>2, <5>1, <5>2
      <4> QED BY <4>3, <4>4
    <3>4. task'[u] \in Task
      BY <1>2, <1>3, <3>1 DEF IsGraph, Gating
    <3>5. Returned(first.task[u])' = [first.task[u] EXCEPT
            !.inputs = Turned(first.task[u].inputs)', !.deps = Turned(first.task[u].deps)']
      BY <1>3 DEF Returned
    <3>6. PICK r, d, i : r = first.task[u] /\ d = Turned(first.task[u].deps)'
                         /\ i = Turned(first.task[u].inputs)'
      OBVIOUS
    <3>7. PICK s : s = task'[u]
      OBVIOUS
    <3>8. /\ r \in Task /\ s \in Task
          /\ s.kind = r.kind /\ s.rules = r.rules /\ s.inputs = i /\ s.deps = d
      BY <3>1, <3>3, <3>4, <3>6, <3>7
    <3>9. s = [r EXCEPT !.inputs = i, !.deps = d]
      BY <3>8 DEF Task
    <3> QED BY <3>5, <3>6, <3>7, <3>9
  <2> QED BY <2>2, <2>4, <2>5
<1> QED BY <1>3, <1>6, <1>7 DEF Stays

\* What else there is in a second normalization changes no task, or begins one.
LEMMA StaysElse ==
  ASSUME NInv, Stackless, first.by # "none", ~AddGate, Next, phase' # "refused"
  PROVE  Stays'
<1>1. /\ Typed /\ Come /\ Stays /\ edges = {} /\ IsGraph(task)
      /\ Normal(first.task, first.sequence)
  BY SecondFacts
<1>2. first' = first /\ todo' = todo /\ Gates' = Gates /\ Targets' = Targets
  BY Frame DEF Gates, Targets
<1>3. task' = task
  <2>1. CASE AddEdges
    <3>1. /\ DOMAIN task' = DOMAIN task /\ IsGraph(task)'
          /\ \A u \in DOMAIN task : task'[u] = [task[u] EXCEPT !.deps = @ \cup Drawn(u)]
      BY <1>1, <2>1, EdgesChange
    <3>2. \A u : Drawn(u) = {}
      BY <1>1 DEF Drawn
    <3>3. \A u \in DOMAIN task : task'[u] = [task[u] EXCEPT !.deps = @ \cup {}]
      BY <3>1, <3>2
    <3>4. \A u \in DOMAIN task : task'[u] = task[u]
      BY <1>1, <3>3 DEF IsGraph, Task
    <3> QED BY <1>1, <3>1, <3>4, SameGraph
  <2>2. CASE AddReads
    <3>1. /\ DOMAIN task' = DOMAIN task /\ IsGraph(task)' /\ todo = {}
          /\ \A u \in DOMAIN task : task'[u] = [task[u] EXCEPT !.deps = Reads(u)]
      BY <1>1, <2>2, ReadsChange DEF AddReads
    <3>2. ASSUME NEW u \in DOMAIN task PROVE task[u].inputs \subseteq task[u].deps
      <4>1. CASE task[u] = first.task[u]
        BY <3>1, <4>1, <1>1, SecondTasks DEF Normal
      <4>2. CASE \E t \in Targets : task[u] = NewGate(t)
        BY <4>2, GateParts
      <4> QED BY <3>1, <4>1, <4>2, SecondTasks
    <3>3. \A u \in DOMAIN task : Reads(u) = task[u].deps
      BY <3>2 DEF Reads
    <3>4. \A u \in DOMAIN task : task'[u] = [task[u] EXCEPT !.deps = task[u].deps]
      BY <3>1, <3>3
    <3>5. \A u \in DOMAIN task : task'[u] = task[u]
      BY <1>1, <3>4 DEF IsGraph, Task
    <3> QED BY <1>1, <3>1, <3>5, SameGraph
  <2>3. CASE Round \/ Return
    BY <2>3 DEF Round, Return, Refuse
  <2>4. CASE Again \/ Revise
    BY <2>4 DEF Again, Revise
  <2> QED BY <2>1, <2>2, <2>3, <2>4 DEF Next
<1>4. \A r : Returned(r)' = Returned(r)
  BY <1>2 DEF Returned, Turned, Turn
<1> HIDE DEF Returned
<1> QED BY <1>1, <1>2, <1>3, <1>4 DEF Stays

\* The rounds of a second normalization are those of the first.
LEMMA FollowsRound ==
  ASSUME NInv, Stackless, first.by # "none", Round, phase' # "refused",
         task = first.task, Follows
  PROVE  Follows'
<1>1. /\ Typed /\ Normal(first.task, first.sequence) /\ first' = first
      /\ sequence' = sequence \o Sorted(Ready) /\ Range(sequence) # DOMAIN task
  BY SecondFacts DEF Round, Refuse
<1>2. PICK B : /\ Bounds(first.task, first.sequence, B) /\ Len(sequence) \in B
               /\ \A i \in 1 .. Len(sequence) : sequence[i] = first.sequence[i]
  BY DEF Follows
<1> DEFINE k == Len(sequence)
           more == Sorted(Ready)
<1>3. /\ sequence \in Seq(Ids) /\ first.sequence \in Seq(Ids) /\ k \in Nat
      /\ Len(first.sequence) \in Nat /\ k <= Len(first.sequence)
  BY <1>1, <1>2 DEF Typed, Normal, Bounds
<1>4. more \in Seq(Ids) /\ Len(more) \in Nat
  <2>1. Ready \subseteq Ids
    BY <1>1 DEF Ready, Typed, IsGraph
  <2>2. Sorted(Ready) \in Seq(Ids)
    BY <2>1, SortedFacts
  <2> QED BY <2>2
<1> HIDE DEF more
<1>5. Upto(first.sequence, k) = Range(sequence)
  <2>1. Range(sequence) = {sequence[i] : i \in 1 .. k}
    BY <1>3 DEF Range
  <2> QED BY <1>2, <2>1 DEF Upto
<1>6. k # Len(first.sequence)
  <2> SUFFICES ASSUME k = Len(first.sequence) PROVE FALSE
    OBVIOUS
  <2>1. Upto(first.sequence, k) = Range(first.sequence)
    BY <1>3 DEF Upto, Range
  <2> QED BY <1>1, <1>5, <2>1 DEF Normal
<1>7. Wanting(first.task, Upto(first.sequence, k)) = Ready
  BY <1>5 DEF Wanting, Ready
<1>8. /\ k + Len(more) \in B
      /\ \A i \in 1 .. Len(more) : first.sequence[k + i] = more[i]
  <2>1. k \in B /\ k < Len(first.sequence)
    BY <1>2, <1>3, <1>6
  <2> DEFINE next == Sorted(Wanting(first.task, Upto(first.sequence, k)))
  <2>2. k + Len(next) \in B /\ \A i \in 1 .. Len(next) : first.sequence[k + i] = next[i]
    BY <1>2, <2>1 DEF Bounds
  <2>3. next = more
    BY <1>7 DEF more
  <2> HIDE DEF next
  <2> QED BY <2>2, <2>3
<1>9. Len(sequence') = k + Len(more)
  BY <1>1, <1>3, <1>4 DEF more
<1>10. ASSUME NEW i \in 1 .. Len(sequence') PROVE sequence'[i] = first.sequence[i]
  <2>1. CASE i \in 1 .. k
    <3>1. sequence'[i] = sequence[i]
      BY <1>1, <1>3, <1>4, <2>1 DEF more
    <3> QED BY <1>2, <2>1, <3>1
  <2>2. CASE i \notin 1 .. k
    <3>1. i - k \in 1 .. Len(more) /\ sequence'[i] = more[i - k] /\ k + (i - k) = i
      BY <1>1, <1>3, <1>4, <1>9, <1>10, <2>2 DEF more
    <3>2. first.sequence[k + (i - k)] = more[i - k]
      BY <1>8, <3>1
    <3> QED BY <3>1, <3>2
  <2> QED BY <2>1, <2>2
<1> HIDE DEF k
<1>11. Bounds(first'.task, first'.sequence, B) /\ Len(sequence') \in B
  BY <1>1, <1>2, <1>8, <1>9
<1>12. \A i \in 1 .. Len(sequence') : sequence'[i] = first'.sequence[i]
  BY <1>1, <1>10
<1> QED BY <1>11, <1>12 DEF Follows

LEMMA RepeatsStep ==
  ASSUME NInv, Stackless, Next
  PROVE  Repeats'
<1>1. Repeats /\ IInv /\ Ordered
  BY DEF NInv
<1>2. draft' = draft
  BY DEF Next, AddEdges, AddGate, AddReads, Round, Return, Again, Revise
<1>3. \A T, seq : Normal(T, seq)' = Normal(T, seq)
  BY <1>2 DEF Normal, Targets
<1>4. CASE Again \/ Revise
  <2>1. /\ phase = "done" /\ phase' = "edges" /\ first.by = "none"
        /\ first'.task = task /\ first'.sequence = sequence
        /\ todo' = Targets /\ Targets' = Targets /\ Gates' = Gates
    <3>1. Targets' = Targets /\ Gates' = Gates
      BY <1>2 DEF Targets, Gates
    <3>2. CASE Again
      BY <3>1, <3>2 DEF Again
    <3>3. CASE Revise
      BY <3>1, <3>3 DEF Revise
    <3> QED BY <1>4, <3>2, <3>3
  <2>2. Normal(first.task, first.sequence)'
    BY <1>3, <2>1, DoneIsNormal
  <2>3. CASE Again
    BY <2>1, <2>2, <2>3 DEF Again, Repeats, Stays
  <2>4. CASE Revise
    <3>1. Typed /\ first'.by = "revision"
      BY <1>1, <2>4 DEF IInv, Revise
    <3>2. /\ DOMAIN task' = DOMAIN task \ Gates
          /\ \A u \in DOMAIN task' :
               task'[u] = [task[u] EXCEPT !.inputs = Back(@), !.deps = Back(@)]
      BY <2>4, <3>1, RevisionChange
    <3>3. \A names : Turned(names)' = Back(names)
      BY <2>1 DEF Turned, Turn, Back, Gates
    <3>4. ASSUME NEW u \in DOMAIN task \ Gates PROVE task'[u] = Returned(first.task[u])'
      <4>1. PICK r : r = task[u]
        OBVIOUS
      <4>2. Turned(r.inputs)' = Back(r.inputs) /\ Turned(r.deps)' = Back(r.deps)
        BY <3>3
      <4> HIDE DEF Turned, Back
      <4>3. Returned(r)' = [r EXCEPT !.inputs = Back(r.inputs), !.deps = Back(r.deps)]
        BY <4>2 DEF Returned
      <4>4. task'[u] = [r EXCEPT !.inputs = Back(r.inputs), !.deps = Back(r.deps)]
        BY <3>2, <3>4, <4>1
      <4> HIDE DEF Returned
      <4>5. Returned(first.task[u])' = Returned(r)'
        BY <2>1, <4>1 DEF Returned
      <4> QED BY <4>3, <4>4, <4>5
    <3>5. Stays'
      BY <2>1, <3>1, <3>2, <3>4 DEF Stays
    <3> QED BY <2>1, <2>2, <3>5 DEF Repeats
  <2> QED BY <1>4, <2>3, <2>4
<1>5. CASE ~(Again \/ Revise)
  <2>1. first' = first
    BY <1>5 DEF Next, AddEdges, AddGate, AddReads, Round, Return, Refuse
  <2> SUFFICES ASSUME first.by # "none" PROVE Repeats'
    BY <2>1 DEF Repeats
  <2>2. phase' # "refused"
    BY SecondAccepted
  <2>3. Stays'
    BY <2>2, StaysGate, StaysElse
  <2>4. Normal(first.task, first.sequence)'
    BY <1>1, <1>3, <2>1 DEF Repeats
  <2>5. ASSUME phase' \in {"order", "done"}, task' = first.task PROVE Follows'
    <3>1. CASE AddReads
      <4>1. sequence' = <<>>
        BY <1>1, <2>2, <3>1 DEF IInv, Come, AddReads, Refuse
      <4>2. PICK B : Bounds(first.task, first.sequence, B)
        BY <1>1 DEF Repeats, Normal
      <4>3. Len(sequence') \in B /\ \A i \in 1 .. Len(sequence') : sequence'[i] = first.sequence[i]
        BY <4>1, <4>2 DEF Bounds
      <4> QED BY <2>1, <4>2, <4>3 DEF Follows
    <3>2. CASE Round
      <4>1. task = first.task /\ phase = "order"
        BY <2>5, <3>2 DEF Round, Refuse
      <4> QED BY <1>1, <2>2, <3>2, <4>1, FollowsRound DEF Repeats
    <3>3. CASE Return
      <4>1. task = first.task /\ phase = "order" /\ sequence' = sequence
        BY <2>5, <3>3 DEF Return
      <4> QED BY <1>1, <2>1, <4>1 DEF Repeats, Follows
    <3>4. CASE AddEdges \/ AddGate
      BY <2>5, <3>4 DEF AddEdges, AddGate, Refuse
    <3> QED BY <1>5, <3>1, <3>2, <3>3, <3>4 DEF Next
  <2> QED BY <2>1, <2>2, <2>3, <2>4, <2>5 DEF Repeats
<1> QED BY <1>4, <1>5

LEMMA NormalInvariant == Spec => []NInv
<1>1. Init /\ IInv => NInv
  BY DEF Init, NInv, Ordered, Repeats
<1>2. NInv /\ IInv' /\ [Next]_vars => NInv'
  <2> SUFFICES ASSUME NInv, IInv', [Next]_vars PROVE Ordered' /\ (Stackless' => Repeats')
    BY DEF NInv
  <2>1. CASE Next
    <3>1. draft' = draft
      BY <2>1 DEF Next, AddEdges, AddGate, AddReads, Round, Return, Again, Revise
    <3>2. Stackless' = Stackless
      BY <3>1 DEF Stackless, Targets
    <3> QED BY <2>1, <3>2, OrderedStep, RepeatsStep DEF NInv
  <2>2. CASE UNCHANGED vars
    <3>1. /\ draft' = draft /\ task' = task /\ phase' = phase /\ todo' = todo
          /\ sequence' = sequence /\ first' = first
      BY <2>2 DEF vars
    <3>2. Targets' = Targets /\ Gates' = Gates /\ Stackless' = Stackless
      BY <3>1 DEF Targets, Gates, Stackless
    <3>3. /\ \A T, seq : Normal(T, seq)' = Normal(T, seq)
          /\ \A r : Returned(r)' = Returned(r)
      BY <3>1, <3>2 DEF Normal, Returned, Turned, Turn
    <3>4. Stays' = Stays /\ Follows' = Follows /\ Ordered' = Ordered
      <4> HIDE DEF Returned
      <4>1. \A u : Returned(first.task[u])' = Returned(first.task[u])
        BY <3>1, <3>3 DEF Returned, Turned, Turn
      <4> QED BY <3>1, <3>2, <4>1 DEF Stays, Follows, Ordered
    <3>5. Normal(first.task, first.sequence)' = Normal(first.task, first.sequence)
      BY <3>1, <3>3
    <3> QED BY <3>1, <3>2, <3>4, <3>5 DEF NInv, Repeats
  <2> QED BY <2>1, <2>2
<1> QED BY <1>1, <1>2, Inductive, PTL DEF Spec

\* Normalizing again what is normalized changes neither a task nor the order, and nor does
\* a revision, but for the gates it makes anew; neither is refused (compile_airflow,
\* airflow_execute and create --previous all start from what was signed).
THEOREM NormalFormHolds ==
  ASSUME Unstacked
  PROVE  Spec => []NormalForm
<1>1. NInv => NormalForm
  <2> SUFFICES ASSUME NInv, first.by # "none" PROVE
        /\ phase # "refused"
        /\ phase = "done" =>
             /\ DOMAIN task = DOMAIN first.task
             /\ \A u \in DOMAIN task :
                  \/ task[u] = first.task[u]
                  \/ Anew(u) /\ \E t \in Targets : Gate[t] = u /\ task[u] = NewGate(t)
             /\ task = first.task => sequence = first.sequence
    BY DEF NormalForm
  <2>1. Stackless /\ Repeats /\ IInv
    BY NoneStacked DEF NInv
  <2>2. phase # "refused"
    BY <2>1 DEF Repeats
  <2>3. ASSUME phase = "done"
        PROVE /\ DOMAIN task = DOMAIN first.task
              /\ \A u \in DOMAIN task :
                   \/ task[u] = first.task[u]
                   \/ Anew(u) /\ \E t \in Targets : Gate[t] = u /\ task[u] = NewGate(t)
    <3>1. todo = {}
      BY <2>1, <2>3 DEF IInv, Come
    <3> QED BY <2>1, <3>1, SecondTasks DEF Anew
  <2>4. ASSUME phase = "done", task = first.task PROVE sequence = first.sequence
    <3>1. /\ sequence \in Seq(Ids) /\ first.sequence \in Seq(Ids)
          /\ Range(sequence) = DOMAIN first.task /\ Follows
      BY <2>1, <2>4 DEF IInv, Typed, Placed, Repeats, Normal
    <3>2. PICK B : /\ Bounds(first.task, first.sequence, B) /\ Len(sequence) \in B
                   /\ \A i \in 1 .. Len(sequence) : sequence[i] = first.sequence[i]
      BY <3>1 DEF Follows
    <3>3. Len(sequence) \in Nat /\ Len(first.sequence) \in Nat /\ Len(sequence) <= Len(first.sequence)
      BY <3>1, <3>2 DEF Bounds
    <3>4. Upto(first.sequence, Len(sequence)) = DOMAIN first.task
      <4>1. Range(sequence) = {sequence[i] : i \in 1 .. Len(sequence)}
        BY <3>1 DEF Range
      <4> QED BY <3>1, <3>2, <4>1 DEF Upto
    <3>5. Wanting(first.task, Upto(first.sequence, Len(sequence))) = {}
      BY <3>4 DEF Wanting
    <3>6. Len(sequence) = Len(first.sequence)
      BY <3>2, <3>3, <3>5 DEF Bounds
    <3> QED BY <3>1, <3>2, <3>6
  <2> QED BY <2>2, <2>3, <2>4
<1> QED BY <1>1, NormalInvariant, PTL

===============================================================================
