-------------------------- MODULE SchemaFlowProofs ----------------------------
(***************************************************************************)
(* Theorems about SchemaFlow, for any sources, mappings and joins, and     *)
(* pipelines of any length.                                                *)
(***************************************************************************)
EXTENDS SchemaFlow, TLAPS, FiniteSetTheorems, WellFoundedInduction

Trusts == {"exact", "within", "none"}

Typed ==
  /\ tasks \in Seq(Range(tasks))
  /\ \A t \in Done : Trust(t) \in Trusts
  /\ IsFiniteSet(read)

\* As long as no capability changes the shape and one source is read, the schema of
\* every task is that source's, and so are its rows.
Shaping == {"join", "aggregate", "map", "lookup"}
Plain == \A t \in Done : tasks[t].cap \notin Shaping
OneSchema ==
  Plain => \A t \in Done : \A s \in Sources : read \subseteq {s} /\ Schema[s] # {} =>
    Fields(t) = Schema[s] /\ Rows(t) \subseteq {Schema[s]}

\* What FieldsAsInferred and OneSchema ask of one task.
Fit(fields, rows, trust) == fields # {} =>
  /\ trust = "exact" => rows \subseteq {fields}
  /\ trust = "within" => \A row \in rows : row \subseteq fields
Same(fields, rows, sources) == \A s \in Sources : sources \subseteq {s} /\ Schema[s] # {} =>
  fields = Schema[s] /\ rows \subseteq {Schema[s]}

IInv == Typed /\ read \subseteq Sources /\ FieldsAsInferred /\ NeverRaises /\ OneSchema

-------------------------------------------------------------------------------
\* Of any natural numbers, one is the least.
LEMMA Least ==
  ASSUME NEW T \in SUBSET Nat, T # {}
  PROVE  \E n \in T : \A m \in T : ~(m < n)
<1> DEFINE R == {ss \in Nat \X Nat : ss[1] < ss[2]}
<1>1. IsWellFoundedOn(OpToRel(<, Nat), Nat)
  BY NatLessThanWellFounded
<1>2. OpToRel(<, Nat) = R
  BY DEF OpToRel
<1>3. IsWellFoundedOn(R, Nat)
  BY <1>1, <1>2
<1> HIDE DEF R
<1>4. PICK n \in T : \A m \in T : ~(<<m, n>> \in R)
  BY <1>3, WFMin
<1>5. QED
  BY <1>4 DEF R

\* A row that has got as far as column n.
Grown(row, left, order, lk, rk, n) ==
  row = [m \in 0 .. n |-> IF m = 0 THEN left ELSE WithColumn(row[m - 1], order[m], lk, rk)]

\* A row can get any far.
LEMMA Growing ==
  ASSUME NEW left, NEW order, NEW lk, NEW rk, NEW n \in Nat
  PROVE  \E row : Grown(row, left, order, lk, rk, n)
<1> DEFINE T == {m \in Nat : ~\E row : Grown(row, left, order, lk, rk, m)}
<1> SUFFICES ASSUME T # {} PROVE FALSE
  OBVIOUS
<1>1. PICK m \in T : \A k \in T : ~(k < m)
  BY Least
<1>2. m # 0
  <2> SUFFICES ASSUME m = 0 PROVE FALSE
    OBVIOUS
  <2>1. Grown([k \in 0 .. 0 |-> left], left, order, lk, rk, 0)
    BY DEF Grown
  <2>2. QED
    BY <2>1
<1>3. m - 1 \in Nat /\ m - 1 \notin T
  BY <1>1, <1>2
<1>4. PICK row : Grown(row, left, order, lk, rk, m - 1)
  BY <1>3
<1> DEFINE more == [k \in 0 .. m |->
                      IF k = m THEN WithColumn(row[m - 1], order[m], lk, rk) ELSE row[k]]
<1>5. \A k \in 0 .. m - 1 :
        row[k] = IF k = 0 THEN left ELSE WithColumn(row[k - 1], order[k], lk, rk)
  BY <1>4 DEF Grown
<1>6. ASSUME NEW k \in 0 .. m
      PROVE  more[k] = IF k = 0 THEN left ELSE WithColumn(more[k - 1], order[k], lk, rk)
  <2>1. CASE k = 0
    <3>1. 0 \in 0 .. m - 1
      BY <1>2
    <3>2. row[0] = left
      BY <1>5, <3>1
    <3>3. QED
      BY <1>2, <2>1, <3>2
  <2>2. CASE k = m
    <3>1. more[k] = WithColumn(row[m - 1], order[m], lk, rk) /\ more[m - 1] = row[m - 1]
      BY <1>2, <2>2
    <3>2. QED
      BY <1>2, <2>2, <3>1
  <2>3. CASE k # 0 /\ k # m
    <3>1. k \in 0 .. m - 1 /\ more[k] = row[k] /\ more[k - 1] = row[k - 1]
      BY <2>3
    <3>2. QED
      BY <1>5, <2>3, <3>1
  <2>4. QED
    BY <2>1, <2>2, <2>3
<1>7. Grown(more, left, order, lk, rk, m)
  BY <1>6 DEF Grown
<1>8. QED
  BY <1>1, <1>7

\* Merging goes column by column.
LEMMA MergedFacts ==
  ASSUME NEW left, NEW order, NEW lk, NEW rk, Len(order) \in Nat
  PROVE  \E row : /\ row[0] = left /\ Merged(left, order, lk, rk) = row[Len(order)]
                  /\ \A n \in 1 .. Len(order) :
                       row[n] = WithColumn(row[n - 1], order[n], lk, rk)
<1> DEFINE N == Len(order)
           row == CHOOSE row : Grown(row, left, order, lk, rk, N)
<1>1. Grown(row, left, order, lk, rk, N)
  BY Growing
<1>2. Merged(left, order, lk, rk) = row[N]
  BY DEF Merged, Grown
<1> HIDE DEF row
<1>3. \A n \in 0 .. N :
        row[n] = IF n = 0 THEN left ELSE WithColumn(row[n - 1], order[n], lk, rk)
  BY <1>1 DEF Grown
<1>4. row[0] = left
  <2>1. 0 \in 0 .. N
    OBVIOUS
  <2>2. QED
    BY <1>3, <2>1
<1>5. \A n \in 1 .. N : row[n] = WithColumn(row[n - 1], order[n], lk, rk)
  BY <1>3
<1>6. QED
  BY <1>2, <1>4, <1>5

\* Without a clash, what is renamed does not depend on the order of the columns.
LEMMA MergedIsJoined ==
  ASSUME NEW left, NEW right, NEW order, NEW lk, NEW rk,
         Len(order) \in Nat, \A i \in 1 .. Len(order) : order[i] \in right,
         \A k \in right : \E i \in 1 .. Len(order) : order[i] = k,
         \A i, j \in 1 .. Len(order) : i # j => order[i] # order[j],
         ~Clash(left, right, lk, rk)
  PROVE  Merged(left, order, lk, rk) = Joined(left, right, lk, rk)
<1> DEFINE N == Len(order)
           Column(k) == IF k \notin left \/ (k = rk /\ rk = lk) THEN k ELSE Right[k]
           Upto(n) == left \cup {Column(order[i]) : i \in 1 .. n}
<1>1. PICK row : /\ row[0] = left /\ Merged(left, order, lk, rk) = row[N]
                 /\ \A n \in 1 .. N : row[n] = WithColumn(row[n - 1], order[n], lk, rk)
  BY MergedFacts
<1>2. ASSUME NEW n \in 1 .. N, row[n - 1] = Upto(n - 1) PROVE row[n] = Upto(n)
  <2> DEFINE k == order[n]
  <2>1. k \in right
    OBVIOUS
  <2>2. ASSUME k \notin left, k \in row[n - 1] PROVE FALSE
    <3>1. PICK i \in 1 .. n - 1 : k = Column(order[i])
      BY <1>2, <2>2
    <3>2. i \in 1 .. N /\ i # n /\ order[i] # k /\ order[i] \in right
      BY <3>1
    <3>3. order[i] \in left /\ ~(order[i] = rk /\ rk = lk) /\ Right[order[i]] = k
      BY <3>1, <3>2
    <3>4. QED
      BY <2>1, <3>2, <3>3 DEF Clash
  <2>3. k \in left => k \in row[n - 1]
    BY <1>2
  <2>4. row[n] = row[n - 1] \cup {Column(k)}
    BY <1>1, <2>2, <2>3 DEF WithColumn
  <2>5. 1 .. n = (1 .. n - 1) \cup {n}
    OBVIOUS
  <2>6. Upto(n) = Upto(n - 1) \cup {Column(k)}
    BY <2>5
  <2>7. QED
    BY <1>2, <2>4, <2>6
<1>3. \A n \in 0 .. N : row[n] = Upto(n)
  <2> DEFINE T == {m \in 0 .. N : row[m] # Upto(m)}
  <2> SUFFICES ASSUME T # {} PROVE FALSE
    OBVIOUS
  <2>0. T \in SUBSET Nat
    OBVIOUS
  <2> HIDE DEF T
  <2>1. PICK m \in T : \A k \in T : ~(k < m)
    BY <2>0, Least
  <2> USE DEF T
  <2>2. m # 0
    BY <1>1
  <2>3. m \in 1 .. N /\ m - 1 \in 0 .. N /\ m - 1 \notin T
    BY <2>1, <2>2
  <2>4. row[m - 1] = Upto(m - 1)
    BY <2>3
  <2>5. row[m] = Upto(m)
    BY <1>2, <2>3, <2>4
  <2>6. QED
    BY <2>1, <2>5
<1>4. row[N] = Upto(N)
  BY <1>3
<1>5. {order[i] : i \in 1 .. N} = right
  OBVIOUS
<1>6. {Column(order[i]) : i \in 1 .. N} = {Column(k) : k \in right}
  BY <1>5
<1>7. QED
  BY <1>1, <1>4, <1>6 DEF Joined
\* The orders of a row's columns are sequences of all of them, each once.
LEMMA OrderFacts ==
  ASSUME NEW names \in SUBSET DOMAIN Right, NEW order \in Orders[names]
  PROVE  /\ Len(order) \in Nat /\ \A i \in 1 .. Len(order) : order[i] \in names
         /\ \A k \in names : \E i \in 1 .. Len(order) : order[i] = k
         /\ \A i, j \in 1 .. Len(order) : i # j => order[i] # order[j]
<1> DEFINE n == Cardinality(names)
<1>1. IsFiniteSet(names) /\ n \in Nat
  BY RightAssumption, FS_Subset, FS_CardinalityType
<1>2. order \in [1 .. n -> names] /\ \A i, j \in 1 .. n : i # j => order[i] # order[j]
  BY DEF Orders, SetToSeqs
<1>3. order \in Injection(1 .. n, names)
  BY <1>2 DEF Injection, IsInjective
<1>4. Cardinality(1 .. n) = n
  BY <1>1, FS_Interval
<1>5. order \in Surjection(1 .. n, names)
  BY <1>1, <1>3, <1>4, FS_Injection
<1>6. \A k \in names : \E i \in 1 .. n : order[i] = k
  BY <1>5 DEF Surjection
<1> HIDE DEF n
<1>7. Len(order) = n
  BY <1>1, <1>2
<1>8. QED
  BY <1>1, <1>2, <1>6, <1>7

-------------------------------------------------------------------------------
\* A task more, and all the others as they were.
LEMMA TakeFacts ==
  ASSUME tasks \in Seq(Range(tasks)), NEW cap, NEW fields, NEW rows, NEW trust,
         Take(cap, fields, rows, trust)
  PROVE  \E n : /\ n \notin Done /\ Done' = Done \cup {n}
                /\ tasks' \in Seq(Range(tasks'))
                /\ \A t \in Done : tasks'[t] = tasks[t]
                /\ tasks'[n] = [cap |-> cap, fields |-> fields, rows |-> rows, trust |-> trust]
<1> DEFINE task == [cap |-> cap, fields |-> fields, rows |-> rows, trust |-> trust]
           n == Len(tasks) + 1
<1>1. tasks' = Append(tasks, task)
  BY DEF Take
<1> HIDE DEF task
<1>2. Len(tasks) \in Nat /\ DOMAIN tasks = 1 .. Len(tasks)
  OBVIOUS
<1>3. tasks \in Seq(Range(tasks) \cup {task}) /\ task \in Range(tasks) \cup {task}
  <2>1. \A i \in 1 .. Len(tasks) : tasks[i] \in Range(tasks) \cup {task}
    BY <1>2 DEF Range
  <2>2. tasks = [i \in 1 .. Len(tasks) |-> tasks[i]]
    BY <1>2
  <2>3. QED
    BY <1>2, <2>1, <2>2
<1>4. Len(tasks') = n /\ DOMAIN tasks' = 1 .. n /\ tasks'[n] = task
      /\ \A i \in 1 .. Len(tasks) : tasks'[i] = tasks[i]
  BY <1>1, <1>2, <1>3
<1>5. tasks' \in Seq(Range(tasks'))
  <2>1. \A i \in 1 .. n : tasks'[i] \in Range(tasks')
    BY <1>4 DEF Range
  <2>2. tasks' = [i \in 1 .. n |-> tasks'[i]]
    <3>1. tasks' \in Seq(Range(tasks) \cup {task})
      BY <1>1, <1>3
    <3>2. QED
      BY <3>1, <1>4
  <2>3. QED
    BY <1>2, <2>1, <2>2
<1>6. n \notin Done /\ Done' = Done \cup {n}
  BY <1>2, <1>4 DEF Done
<1>7. QED
  BY <1>2, <1>4, <1>5, <1>6 DEF Done, task

\* A task whose schema fits its rows may be added.
LEMMA TakeKeeps ==
  ASSUME IInv, Room, NEW cap, NEW fields, NEW rows, NEW trust \in Trusts,
         Take(cap, fields, rows, trust), Fit(fields, rows, trust),
         read \subseteq read', IsFiniteSet(read'), read' \subseteq Sources,
         Plain /\ cap \notin Shaping => Same(fields, rows, read')
  PROVE  IInv'
<1>1. PICK n : /\ n \notin Done /\ Done' = Done \cup {n}
               /\ tasks' \in Seq(Range(tasks'))
               /\ \A t \in Done : tasks'[t] = tasks[t]
               /\ tasks'[n] = [cap |-> cap, fields |-> fields, rows |-> rows, trust |-> trust]
  BY TakeFacts DEF IInv, Typed
<1>2. \A t \in Done : Fields(t)' = Fields(t) /\ Rows(t)' = Rows(t) /\ Trust(t)' = Trust(t)
  BY <1>1 DEF Fields, Rows, Trust
<1>3. Fields(n)' = fields /\ Rows(n)' = rows /\ Trust(n)' = trust /\ tasks'[n].cap = cap
  BY <1>1 DEF Fields, Rows, Trust
<1>4. Typed'
  BY <1>1, <1>2, <1>3 DEF IInv, Typed
<1>5. FieldsAsInferred'
  BY <1>1, <1>2, <1>3 DEF IInv, FieldsAsInferred, Fit
<1>6. NeverRaises'
  BY DEF Take, Room, NeverRaises
<1>7. OneSchema'
  <2> SUFFICES ASSUME Plain', NEW t \in Done', NEW s \in Sources, read' \subseteq {s}, Schema[s] # {}
               PROVE  Fields(t)' = Schema[s] /\ Rows(t)' \subseteq {Schema[s]}
    BY DEF OneSchema
  <2>1. Plain /\ cap \notin Shaping
    BY <1>1, <1>3 DEF Plain
  <2>2. CASE t = n
    BY <1>3, <2>1, <2>2 DEF Same
  <2>3. CASE t \in Done
    BY <1>2, <2>1, <2>3 DEF IInv, OneSchema
  <2>4. QED
    BY <1>1, <2>2, <2>3
<1>8. QED
  BY <1>4, <1>5, <1>6, <1>7 DEF IInv

\* An exception is no surprise where the rows were not known.
LEMMA RaiseKeeps ==
  ASSUME IInv, NEW u \in Done, Raise(u), UNCHANGED read, Fields(u) = {} \/ Trust(u) # "exact"
  PROVE  IInv'
BY DEF IInv, Raise, Typed, Done, Fields, Rows, Trust, FieldsAsInferred, NeverRaises,
       OneSchema, Plain

\* Neither is one of an upsert's keys that its input or its destination lacks.
LEMMA UpsertKeeps ==
  ASSUME IInv, NEW u \in Done, UNCHANGED <<read, tasks>>, raised' = u,
         \/ Fields(u) = {} \/ Trust(u) # "exact"
         \/ \E row \in {Fields(u)} \cup stored' : ~(wanted' \subseteq row)
  PROVE  IInv'
BY DEF IInv, Typed, Done, Fields, Rows, Trust, FieldsAsInferred, NeverRaises, OneSchema, Plain

\* What the invariant says of an input, and of what is made of it.
LEMMA InputFacts ==
  ASSUME IInv, NEW u \in Done
  PROVE  /\ Trust(u) \in Trusts /\ Fit(Fields(u), Rows(u), Trust(u))
         /\ Plain => Same(Fields(u), Rows(u), read)
BY DEF IInv, Typed, FieldsAsInferred, Fit, OneSchema, Same

\* Rows that are known have the fields that validate found.
LEMMA Known ==
  ASSUME IInv, NEW u \in Done, NEW names, Fields(u) # {} => names \subseteq Fields(u), ~Have(u, names)
  PROVE  Fields(u) = {} \/ Trust(u) # "exact"
BY InputFacts DEF Fit, Have

\* Operations that leave the shape, if the schema is known.
LEMMA SameShape ==
  ASSUME IInv, Room, UNCHANGED read, NEW u \in Done, NEW cap, NEW rows,
         \A row \in rows : row \in Rows(u) \/ \E r \in Rows(u) : \E names :
           row = r \cup names /\ (Fields(u) # {} => names \subseteq Fields(u)),
         Take(cap, Fields(u), rows, Trust(u))
  PROVE  IInv'
<1>1. Fit(Fields(u), rows, Trust(u))
  BY InputFacts DEF Fit
<1>2. Plain => Same(Fields(u), rows, read)
  BY InputFacts DEF Same
<1>3. QED
  BY <1>1, <1>2, InputFacts, TakeKeeps DEF IInv, Typed

-------------------------------------------------------------------------------
LEMMA IngestStep ==
  ASSUME IInv, NEW s \in Sources, Ingest(s)
  PROVE  IInv'
<1>1. PICK rows \in SUBSET Found[s] : Take("ingest", Schema[s], rows, "exact")
  BY DEF Ingest
<1>2. Room /\ read' = read \cup {s}
  BY DEF Ingest
<1>3. IsFiniteSet(read')
  BY <1>2, FS_AddElement DEF IInv, Typed
<1>4. Schema[s] # {} => rows \subseteq {Schema[s]}
  BY <1>1, FoundAssumption
<1>5. Fit(Schema[s], rows, "exact")
  BY <1>4 DEF Fit
<1>6. Same(Schema[s], rows, read')
  BY <1>2, <1>4 DEF Same
<1>7. "exact" \in Trusts
  BY DEF Trusts
<1>8. read \subseteq read' /\ read' \subseteq Sources
  BY <1>2 DEF IInv
<1>9. QED
  BY <1>1, <1>2, <1>3, <1>5, <1>6, <1>7, <1>8, TakeKeeps

\* The capabilities with one input.
LEMMA OneInputStep ==
  ASSUME IInv, Room, UNCHANGED read, NEW u \in Done,
         \/ \E f \in Params : Select(u, f)
         \/ \E names \in SUBSET Params \ {{}} : Deduplicate(u, names) \/ Normalize(u, names)
         \/ \E m \in Maps : Map(u, m)
         \/ \E groups \in SUBSET Params \ {{}}, f, output \in Params : Aggregate(u, groups, f, output)
         \/ \E target \in Targets, keys \in SUBSET Params :
              \E old \in Held(target) : Output(u, target, keys, old)
  PROVE  IInv'
<1>0. "exact" \in Trusts /\ IsFiniteSet(read') /\ read' \subseteq Sources /\ read \subseteq read'
  BY DEF Trusts, IInv, Typed
<1>1. ASSUME NEW f \in Params, Select(u, f) PROVE IInv'
  BY <1>1, SameShape DEF Select
<1>2. ASSUME NEW names \in SUBSET Params, Deduplicate(u, names) PROVE IInv'
  <2>1. CASE ~Have(u, names)
    BY <1>2, <2>1, Known, RaiseKeeps DEF Deduplicate, Named
  <2>2. CASE Have(u, names)
    BY <1>2, <2>2, SameShape DEF Deduplicate
  <2>3. QED
    BY <2>1, <2>2
<1>3. ASSUME NEW names \in SUBSET Params, Normalize(u, names) PROVE IInv'
  BY <1>3, SameShape DEF Normalize, Named
<1>4. ASSUME NEW m \in Maps, Map(u, m) PROVE IInv'
  <2>1. CASE ~Have(u, DOMAIN m)
    BY <1>4, <2>1, Known, RaiseKeeps DEF Map
  <2>2. CASE Have(u, DOMAIN m)
    <3>1. Take("map", Range(m), {Range(m) : row \in Rows(u)}, "exact")
      BY <1>4, <2>2 DEF Map
    <3>2. Fit(Range(m), {Range(m) : row \in Rows(u)}, "exact")
      BY DEF Fit
    <3>3. "map" \in Shaping
      BY DEF Shaping
    <3>4. QED
      BY <1>0, <3>1, <3>2, <3>3, TakeKeeps
  <2>3. QED
    BY <2>1, <2>2
<1>5. ASSUME NEW groups \in SUBSET Params, NEW f \in Params, NEW output \in Params,
             Aggregate(u, groups, f, output)
      PROVE IInv'
  <2>1. CASE ~Have(u, groups \cup {f})
    BY <1>5, <2>1, Known, RaiseKeeps DEF Aggregate, Named
  <2>2. CASE Have(u, groups \cup {f})
    <3> DEFINE shape == groups \cup {output}
    <3>1. Take("aggregate", shape, {shape : row \in Rows(u)}, "exact")
      BY <1>5, <2>2 DEF Aggregate
    <3>2. Fit(shape, {shape : row \in Rows(u)}, "exact")
      BY DEF Fit
    <3>3. "aggregate" \in Shaping
      BY DEF Shaping
    <3>4. QED
      BY <1>0, <3>1, <3>2, <3>3, TakeKeeps
  <2>3. QED
    BY <2>1, <2>2
<1>6. ASSUME NEW target \in Targets, NEW keys \in SUBSET Params, NEW old \in Held(target),
             Output(u, target, keys, old)
      PROVE IInv'
  <2>0. CASE Unkeyed(u, keys, old)
    <3>1. raised' = u /\ wanted' = keys /\ stored' = old /\ UNCHANGED tasks
      BY <1>6, <2>0 DEF Output
    <3>2. ASSUME ~Have(u, keys), Fields(u) # {}, Trust(u) = "exact"
          PROVE  ~(keys \subseteq Fields(u))
      BY <3>2, InputFacts DEF Fit, Have
    <3>3. \/ Fields(u) = {} \/ Trust(u) # "exact"
          \/ \E row \in {Fields(u)} \cup old : ~(keys \subseteq row)
      BY <2>0, <3>2 DEF Unkeyed
    <3>4. QED
      BY <3>1, <3>3, UpsertKeeps
  <2>1. CASE ~Unkeyed(u, keys, old) /\ target # {} /\ ~(UNION Rows(u) \subseteq target)
    <3>1. Fields(u) = {} \/ Trust(u) # "exact"
      BY <1>6, <2>1, InputFacts DEF Output, Accepts, Fit
    <3>2. QED
      BY <1>6, <2>1, <3>1, RaiseKeeps DEF Output
  <2>2. CASE ~Unkeyed(u, keys, old) /\ ~(target # {} /\ ~(UNION Rows(u) \subseteq target))
    BY <1>6, <2>2, SameShape DEF Output
  <2>3. QED
    BY <2>0, <2>1, <2>2
<1>7. QED
  BY <1>1, <1>2, <1>3, <1>4, <1>5, <1>6

LEMMA UnionStep ==
  ASSUME IInv, Room, UNCHANGED read, NEW u \in Done, NEW v \in Done, Union(u, v)
  PROVE  IInv'
<1> DEFINE rows == Rows(u) \cup Rows(v)
           trust == IF Fields(v) = Fields(u) /\ {Trust(u), Trust(v)} = {"exact"} THEN "exact"
                    ELSE IF /\ Fields(v) \in (SUBSET Fields(u)) \ {{}}
                            /\ "none" \notin {Trust(u), Trust(v)}
                           THEN "within" ELSE "none"
<1>1. Take("union", Fields(u), rows, trust)
  BY DEF Union
<1>2. trust \in Trusts
  BY DEF Trusts
<1>3. Fit(Fields(u), rows, trust)
  <2>1. trust = "exact" => Trust(u) = "exact" /\ Trust(v) = "exact" /\ Fields(v) = Fields(u)
    OBVIOUS
  <2>2. trust = "within" =>
          /\ Trust(u) \in {"exact", "within"} /\ Trust(v) \in {"exact", "within"}
          /\ Fields(v) \subseteq Fields(u) /\ Fields(v) # {}
    BY InputFacts DEF Trusts
  <2> HIDE DEF trust
  <2>3. QED
    BY <2>1, <2>2, InputFacts DEF Fit
<1>4. Plain => Same(Fields(u), rows, read')
  BY InputFacts DEF Same
<1>5. IsFiniteSet(read') /\ read' \subseteq Sources /\ read \subseteq read'
  BY DEF IInv, Typed
<1> HIDE DEF trust, rows
<1>6. QED
  BY <1>1, <1>2, <1>3, <1>4, <1>5, TakeKeeps
\* What two rows make, where their columns do not clash.
LEMMA PairFits ==
  ASSUME NEW l, NEW r, Renamable(r), NEW q \in Orders[r], NEW lk, NEW rk, ~Clash(l, r, lk, rk)
  PROVE  Merged(l, q, lk, rk) = Joined(l, r, lk, rk)
BY OrderFacts, MergedIsJoined DEF Renamable

LEMMA JoinStep ==
  ASSUME IInv, Room, UNCHANGED read, NEW u \in Done, NEW v \in Done, NEW lk, NEW rk,
         NEW how \in {"inner", "left"}, NEW cap \in {"join", "lookup"},
         Join(cap, u, v, lk, rk, how)
  PROVE  IInv'
<1> DEFINE pairs == {Merged(l, q, lk, rk) :
                       l \in Rows(u), q \in UNION {Orders[r] : r \in Rows(v)}}
           alone == IF how = "left" THEN Rows(u) ELSE {}
           fields == Joined(Fields(u), Fields(v), lk, rk)
           trust == JoinTrust(u, v, lk, rk, how)
<1>1. PICK rows \in SUBSET (pairs \cup alone) : Take(cap, fields, rows, trust)
  BY DEF Join
<1>2. Fields(u) # {} /\ Fields(v) # {} /\ \A r \in Rows(v) : Renamable(r)
  BY DEF Join
<1>3. trust \in Trusts
  BY DEF JoinTrust, Trusts
<1>4. ASSUME trust \in {"exact", "within"}
      PROVE  /\ ~Clash(Fields(u), Fields(v), lk, rk)
             /\ \A row \in Rows(u) : row \subseteq Fields(u)
             /\ \A row \in Rows(v) : row \subseteq Fields(v)
  <2>1. /\ ~Clash(Fields(u), Fields(v), lk, rk)
        /\ Trust(u) \in {"exact", "within"} /\ Trust(v) \in {"exact", "within"}
    BY <1>4, InputFacts DEF JoinTrust, Trusts
  <2>2. QED
    BY <1>2, <2>1, InputFacts DEF Fit
<1>5. ASSUME trust = "exact"
      PROVE  how = "inner" /\ Rows(u) \subseteq {Fields(u)} /\ Rows(v) \subseteq {Fields(v)}
  <2>1. how = "inner" /\ {Trust(u), Trust(v)} = {"exact"}
    BY <1>5 DEF JoinTrust
  <2>2. Trust(u) = "exact" /\ Trust(v) = "exact"
    BY <2>1
  <2>3. QED
    BY <1>2, <2>1, <2>2, InputFacts DEF Fit
<1>6. Fields(u) \subseteq fields
  BY DEF Joined
<1> HIDE DEF trust, fields
<1>7. ASSUME trust \in {"exact", "within"}, NEW row \in rows
      PROVE  row \subseteq fields /\ (trust = "exact" => row = fields)
  <2>1. CASE row \in alone
    BY <1>4, <1>5, <1>6, <1>7, <2>1
  <2>2. CASE row \in pairs
    <3>1. PICK l \in Rows(u), q \in UNION {Orders[r] : r \in Rows(v)} : row = Merged(l, q, lk, rk)
      BY <2>2
    <3>2. PICK r \in Rows(v) : q \in Orders[r]
      OBVIOUS
    <3>3. Renamable(r) /\ l \subseteq Fields(u) /\ r \subseteq Fields(v)
          /\ ~Clash(Fields(u), Fields(v), lk, rk)
      BY <1>2, <1>4, <1>7
    <3>4. /\ Joined(l, r, lk, rk) \subseteq fields
          /\ l = Fields(u) /\ r = Fields(v) => Joined(l, r, lk, rk) = fields
      BY <3>3 DEF fields, Joined
    <3>5. trust = "exact" => l = Fields(u) /\ r = Fields(v)
      BY <1>5
    <3>6. ~Clash(l, r, lk, rk)
      BY <3>3 DEF Clash
    <3>7. row = Joined(l, r, lk, rk)
      BY <3>1, <3>2, <3>3, <3>6, PairFits
    <3>8. QED
      BY <3>4, <3>5, <3>7
  <2>3. QED
    BY <2>1, <2>2
<1>8. Fit(fields, rows, trust)
  BY <1>7 DEF Fit
<1>9. cap \in Shaping
  BY DEF Shaping
<1>10. IsFiniteSet(read') /\ read' \subseteq Sources /\ read \subseteq read'
  BY DEF IInv, Typed
<1>11. QED
  BY <1>1, <1>3, <1>8, <1>9, <1>10, TakeKeeps

LEMMA Invariant == Spec => []IInv
<1>1. Init => IInv
  BY FS_EmptySet DEF Init, IInv, Typed, FieldsAsInferred, NeverRaises, OneSchema, Done, Range
<1>2. IInv /\ [Next]_vars => IInv'
  <2> SUFFICES ASSUME IInv, [Next]_vars PROVE IInv'
    OBVIOUS
  <2>1. ASSUME NEW s \in Sources, Ingest(s) PROVE IInv'
    BY <2>1, IngestStep
  <2>2. CASE Work
    <3>1. Room /\ UNCHANGED read
      BY <2>2 DEF Work
    <3>2. PICK u \in Done :
            \/ \E f \in Params : Select(u, f)
            \/ \E names \in SUBSET Params \ {{}} : Deduplicate(u, names) \/ Normalize(u, names)
            \/ \E m \in Maps : Map(u, m)
            \/ \E groups \in SUBSET Params \ {{}}, f, output \in Params :
                 Aggregate(u, groups, f, output)
            \/ \E target \in Targets, keys \in SUBSET Params :
                 \E old \in Held(target) : Output(u, target, keys, old)
            \/ \E v \in Done : Union(u, v)
            \/ \E v \in Done, lk, rk \in Params, how \in {"inner", "left"},
                  cap \in {"join", "lookup"} : Join(cap, u, v, lk, rk, how)
      BY <2>2 DEF Work
    <3>3. ASSUME NEW v \in Done, Union(u, v) PROVE IInv'
      BY <3>1, <3>3, UnionStep
    <3>4. ASSUME NEW v \in Done, NEW lk \in Params, NEW rk \in Params,
                 NEW how \in {"inner", "left"}, NEW cap \in {"join", "lookup"},
                 Join(cap, u, v, lk, rk, how)
          PROVE  IInv'
      BY <3>1, <3>4, JoinStep
    <3>5. QED
      BY <3>1, <3>2, <3>3, <3>4, OneInputStep
  <2>3. CASE UNCHANGED vars
    BY <2>3 DEF vars, IInv, Typed, FieldsAsInferred, NeverRaises, OneSchema, Plain, Done,
                Fields, Rows, Trust
  <2>4. QED
    BY <2>1, <2>2, <2>3 DEF Next
<1>3. QED
  BY <1>1, <1>2, PTL DEF Spec

-------------------------------------------------------------------------------
\* The schema that validate infers is the one the rows have.
THEOREM FieldsAsInferredHolds == Spec => []FieldsAsInferred
BY Invariant, PTL DEF IInv

\* No task looks for a field its rows lack, where the schema could be relied on, but
\* an upsert for a key that is no field of its input or of what is merged with it.
THEOREM NeverRaisesHolds == Spec => []NeverRaises
BY Invariant, PTL DEF IInv

\* Where a schema rule may leave its schema out, every row has the source's, if that
\* is registered and no lookup changed the rows.
THEOREM SchemaRuleFitsHolds == Spec => []SchemaRuleFits
<1>1. IInv => SchemaRuleFits
  <2> SUFFICES ASSUME IInv, MayOmitSchema, OmittedSchema # {},
                      ~\E t \in Done : tasks[t].cap = "lookup", NEW t \in Done
               PROVE  Rows(t) \subseteq {OmittedSchema}
    BY DEF SchemaRuleFits
  <2>1. Cardinality(read) = 1 /\ IsFiniteSet(read)
    BY DEF MayOmitSchema, IInv, Typed
  <2>2. PICK s : read = {s}
    BY <2>1, FS_Singleton
  <2>3. s \in Sources /\ OmittedSchema = Schema[s]
    BY <2>2 DEF IInv, OmittedSchema
  <2>4. Plain
    BY DEF MayOmitSchema, Plain, Shaping
  <2>5. QED
    BY <2>2, <2>3, <2>4 DEF IInv, OneSchema
<1>2. QED
  BY <1>1, Invariant, PTL
===============================================================================
