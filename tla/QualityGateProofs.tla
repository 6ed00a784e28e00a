-------------------------- MODULE QualityGateProofs ---------------------------
(***************************************************************************)
(* Theorems about QualityGate, for any gates, rules and tables, and any    *)
(* number of attempts.  What quarantine assets hold is a matter of one     *)
(* rule only where no two rules share an asset (`Unshared`); with a shared *)
(* one NothingLost is false, as the run quality_shared_asset shows.        *)
(***************************************************************************)
EXTENDS QualityGate, TLAPS, FiniteSetTheorems, WellFoundedInduction

Quarantines(g, r) == RulesOf[g][r].action = "quarantine"
Found(g, r) == Invalid(RulesOf[g][r], table[g])
Held(g, r) == Rows(table[g], Found(g, r))
Loud(g, r) == RateAbove(RulesOf[g][r], table[g], Threshold)

\* Every quarantine asset belongs to one rule.
Unshared ==
  \A g, h \in Gates : \A r \in DOMAIN RulesOf[g], q \in DOMAIN RulesOf[h] :
    Quarantines(g, r) /\ Quarantines(h, q) /\ RulesOf[g][r].asset = RulesOf[h][q].asset =>
      g = h /\ r = q

Running == {"judge", "act", "passed"}

Typed ==
  /\ \A g \in Gates : table[g] \in Tables[g]
  /\ pc \in [Gates -> {"idle", "raised"} \cup Running]
  /\ at \in [Gates -> Nat] /\ try \in [Gates -> 0 .. MaxTries]
  /\ DOMAIN invalid = Gates /\ DOMAIN reject = Gates
  /\ results \in [Gates -> Seq(Nat)]
  /\ DOMAIN stored = Assets

\* Where an attempt is, and what the rule it is at has found.
Place ==
  \A g \in Gates : pc[g] \in Running =>
    /\ try[g] \in 1 .. MaxTries /\ at[g] \in 1 .. Len(RulesOf[g]) + 1
    /\ pc[g] = "act" => at[g] \in DOMAIN RulesOf[g] /\ invalid[g] = Found(g, at[g])
    /\ pc[g] = "passed" => at[g] = Len(RulesOf[g]) + 1
    /\ Len(results[g]) = IF pc[g] = "act" THEN at[g] ELSE at[g] - 1

\* Every rule judged is in the results and, if it is loud, in the outbox.
Told ==
  \A g \in Gates : pc[g] \in Running =>
    \A r \in 1 .. Len(results[g]) :
      /\ results[g][r] = Cardinality(Found(g, r))
      /\ Loud(g, r) => <<g, try[g], r>> \in events

\* The rules behind let the table pass, or took out the rows they refuse, and
\* nothing else is taken out.
Judged ==
  \A g \in Gates : pc[g] \in Running =>
    /\ \A r \in 1 .. at[g] - 1 :
         IF Quarantines(g, r) THEN Found(g, r) \subseteq reject[g]
         ELSE Passed(RulesOf[g][r], table[g])
    /\ \A i \in reject[g] : \E r \in 1 .. at[g] - 1 : Quarantines(g, r) /\ i \in Found(g, r)

\* A quarantine asset is empty or what its rule refuses, and that once the rule is
\* behind; and then somebody was told.
Stocked ==
  \A g \in Gates : \A r \in DOMAIN RulesOf[g] : Quarantines(g, r) =>
    /\ stored[RulesOf[g][r].asset] \in {<<>>, Held(g, r)}
    /\ pc[g] \in Running /\ r < at[g] => stored[RulesOf[g][r].asset] = Held(g, r)
    /\ stored[RulesOf[g][r].asset] # <<>> /\ Loud(g, r) =>
         \E n \in 1 .. MaxTries : <<g, n, r>> \in events

GateInv == Typed /\ Place /\ Told /\ Judged
IInv == GateInv /\ Stocked

-------------------------------------------------------------------------------
\* Of any natural numbers, one is the least.
LEMMA Least ==
  ASSUME NEW T \in SUBSET Nat, T # {}
  PROVE  \E n \in T : \A m \in T : ~(m < n)
<1> DEFINE R == {ss \in Nat \X Nat : ss[1] < ss[2]}
<1>1. IsWellFoundedOn(OpToRel(<, Nat), Nat)
  BY NatLessThanWellFounded
<1>2. OpToRel(<, Nat) = R
  BY DEF OpToRel
<1>3. IsWellFoundedOn(R, Nat)
  BY <1>1, <1>2
<1> HIDE DEF R
<1>4. PICK n \in T : \A m \in T : ~(<<m, n>> \in R)
  BY <1>3, WFMin
<1>5. QED
  BY <1>4 DEF R

\* Indices of a table are as many as its rows at most.
LEMMA Countable ==
  ASSUME NEW n \in Nat, NEW S \in SUBSET (1 .. n)
  PROVE  IsFiniteSet(S) /\ Cardinality(S) \in Nat /\ Cardinality(S) <= n
<1>1. IsFiniteSet(1 .. n) /\ Cardinality(1 .. n) = n
  BY FS_Interval
<1>2. IsFiniteSet(S) /\ Cardinality(S) <= n
  BY <1>1, FS_Subset
<1>3. QED
  BY <1>2, FS_CardinalityType

\* What it is to list indices in their order.
Lists(f, S) ==
  /\ f \in [1 .. Cardinality(S) -> S] /\ Range(f) = S
  /\ \A m, n \in DOMAIN f : m < n => f[m] < f[n]

\* A list with a greater index at its end is a list.
LEMMA Extended ==
  ASSUME NEW n \in Nat, NEW S \in SUBSET (1 .. n), NEW f, Lists(f, S)
  PROVE  \E h : Lists(h, S \cup {n + 1})
<1> DEFINE k == Cardinality(S)
           T == S \cup {n + 1}
           h == [i \in 1 .. k + 1 |-> IF i = k + 1 THEN n + 1 ELSE f[i]]
<1>1. IsFiniteSet(S) /\ k \in Nat
  BY Countable
<1>2. Cardinality(T) = k + 1
  <2>1. n + 1 \notin S
    OBVIOUS
  <2>2. QED
    BY <1>1, <2>1, FS_AddElement
<1> HIDE DEF k
<1>3. f \in [1 .. k -> S] /\ Range(f) = S /\ \A i, j \in 1 .. k : i < j => f[i] < f[j]
  BY DEF Lists, k
<1>4. h \in [1 .. k + 1 -> T]
  BY <1>1, <1>3
<1>5. Range(h) = T
  <2>1. ASSUME NEW x \in T PROVE \E i \in 1 .. k + 1 : h[i] = x
    <3>1. CASE x = n + 1
      BY <3>1, <1>1
    <3>2. CASE x \in S
      <4>1. PICK i \in 1 .. k : f[i] = x
        BY <3>2, <1>3 DEF Range
      <4>2. i \in 1 .. k + 1 /\ h[i] = x
        BY <4>1, <1>1
      <4>3. QED
        BY <4>2
    <3>3. QED
      BY <3>1, <3>2
  <2>2. QED
    BY <2>1, <1>4 DEF Range
<1>6. ASSUME NEW i \in 1 .. k + 1, NEW j \in 1 .. k + 1, i < j PROVE h[i] < h[j]
  <2>1. i \in 1 .. k
    BY <1>1, <1>6
  <2> f[i] \in 1 .. n
    BY <1>3, <2>1
  <2>2. CASE j = k + 1
    BY <2>1, <2>2, <1>1
  <2>3. CASE j # k + 1
    BY <2>1, <2>3, <1>1, <1>3, <1>6
  <2>4. QED
    BY <2>2, <2>3
<1>7. Lists(h, T)
  BY <1>2, <1>4, <1>5, <1>6 DEF Lists
<1>8. QED
  BY <1>7

\* Whatever the indices of a table, they can be listed.
LEMMA Listable ==
  ASSUME NEW n \in Nat, NEW S \in SUBSET (1 .. n)
  PROVE  \E f : Lists(f, S)
<1> DEFINE T == {m \in Nat : \E U \in SUBSET (1 .. m) : ~\E f : Lists(f, U)}
<1> SUFFICES ASSUME T # {} PROVE FALSE
  OBVIOUS
<1>1. PICK m \in T : \A k \in T : ~(k < m)
  BY Least
<1>2. PICK U \in SUBSET (1 .. m) : ~\E f : Lists(f, U)
  BY <1>1
<1>3. m # 0
  <2> SUFFICES ASSUME m = 0 PROVE FALSE
    OBVIOUS
  <2>1. U = {} /\ Cardinality(U) = 0
    <3>1. 1 .. m = {}
      OBVIOUS
    <3>2. QED
      BY <3>1, FS_EmptySet
  <2>2. Lists([i \in 1 .. 0 |-> i], U)
    BY <2>1 DEF Lists, Range
  <2>3. QED
    BY <1>2, <2>2
<1>4. m - 1 \in Nat /\ m - 1 \notin T
  BY <1>1, <1>3
<1>5. CASE m \in U
  <2>1. U \ {m} \in SUBSET (1 .. m - 1)
    BY <1>1
  <2>2. PICK f : Lists(f, U \ {m})
    BY <1>4, <2>1
  <2>3. \E h : Lists(h, (U \ {m}) \cup {(m - 1) + 1})
    BY <1>4, <2>1, <2>2, Extended
  <2>4. (U \ {m}) \cup {(m - 1) + 1} = U
    BY <1>5, <1>1
  <2>5. QED
    BY <1>2, <2>3, <2>4
<1>6. CASE m \notin U
  <2>1. U \in SUBSET (1 .. m - 1)
    BY <1>1, <1>6
  <2>2. QED
    BY <1>2, <1>4, <2>1
<1>7. QED
  BY <1>5, <1>6

\* The rows of a table at some indices: as many as these, each of them, in order.
LEMMA RowsFacts ==
  ASSUME NEW n \in Nat, NEW S \in SUBSET (1 .. n), NEW rows
  PROVE  /\ Cardinality(S) \in Nat /\ Ascending(S) \in [1 .. Cardinality(S) -> S]
         /\ \A i, j \in 1 .. Cardinality(S) : i < j => Ascending(S)[i] < Ascending(S)[j]
         /\ \A i \in S : \E j \in 1 .. Cardinality(S) : Ascending(S)[j] = i
         /\ DOMAIN Rows(rows, S) = 1 .. Cardinality(S)
         /\ Len(Rows(rows, S)) = Cardinality(S)
         /\ \A j \in 1 .. Cardinality(S) : Rows(rows, S)[j] = rows[Ascending(S)[j]]
<1>1. Cardinality(S) \in Nat
  BY Countable
<1>2. \E f : Lists(f, S)
  BY Listable
<1>3. Lists(Ascending(S), S)
  <2>1. \E f \in [1 .. Cardinality(S) -> S] :
          Range(f) = S /\ \A m, k \in DOMAIN f : m < k => f[m] < f[k]
    BY <1>2 DEF Lists
  <2>2. QED
    BY <2>1 DEF Ascending, Lists
<1>4. DOMAIN Ascending(S) = 1 .. Cardinality(S)
  BY <1>3 DEF Lists
<1>5. \A i \in S : \E j \in 1 .. Cardinality(S) : Ascending(S)[j] = i
  BY <1>3, <1>4 DEF Lists, Range
<1>6. DOMAIN Rows(rows, S) = 1 .. Cardinality(S)
  BY DEF Rows
<1>7. Len(Rows(rows, S)) = Cardinality(S)
  BY <1>1 DEF Rows
<1>8. QED
  BY <1>1, <1>3, <1>4, <1>5, <1>6, <1>7 DEF Lists, Rows

-------------------------------------------------------------------------------
\* The rules of a gate, as the assumption gives them.
LEMMA RuleFacts ==
  ASSUME NEW g \in Gates
  PROVE  /\ Len(RulesOf[g]) \in Nat /\ DOMAIN RulesOf[g] = 1 .. Len(RulesOf[g])
         /\ \A r \in DOMAIN RulesOf[g] :
              /\ RulesOf[g][r].kind \in Kinds /\ RulesOf[g][r].rate \in Nat
              /\ ~Quarantines(g, r) => RulesOf[g][r].action = "fail"
              /\ Quarantines(g, r) => RulesOf[g][r].action # "fail" /\ RulesOf[g][r].asset \in Assets
<1>1. RulesOf[g] \in Seq(Range(RulesOf[g]))
  BY GateAssumption
<1>2. Len(RulesOf[g]) \in Nat /\ DOMAIN RulesOf[g] = 1 .. Len(RulesOf[g])
  BY <1>1
<1>3. QED
  BY <1>2, GateAssumption DEF Quarantines

\* A table has its rows at 1 .. Len, and what a rule finds is among them.
LEMMA TableFacts ==
  ASSUME Typed, NEW g \in Gates
  PROVE  /\ Len(table[g]) \in Nat /\ DOMAIN table[g] = 1 .. Len(table[g])
         /\ \A r : Found(g, r) \subseteq 1 .. Len(table[g]) /\ Cardinality(Found(g, r)) \in Nat
<1>1. table[g] \in Seq(Range(table[g]))
  BY GateAssumption DEF Typed
<1>2. Len(table[g]) \in Nat /\ DOMAIN table[g] = 1 .. Len(table[g])
  BY <1>1
<1>3. \A r : Found(g, r) \subseteq 1 .. Len(table[g])
  BY <1>2 DEF Found, Invalid
<1>4. \A r : Cardinality(Found(g, r)) \in Nat
  BY <1>2, <1>3, Countable
<1>5. QED
  BY <1>2, <1>3, <1>4

LEMMA GateInitial == Init => GateInv
BY GateAssumption DEF Init, GateInv, Typed, Place, Told, Judged, Running

LEMMA TypedStep ==
  ASSUME GateInv, NEW g \in Gates,
         Begin(g) \/ Judge(g) \/ Quarantine(g) \/ Allow(g) \/ Fail(g) \/ Pass(g) \/ Fault(g)
  PROVE  Typed'
<1> USE DEF GateInv, Typed, Running
<1>1. CASE Begin(g)
  BY <1>1, GateAssumption DEF Begin
<1>2. CASE Judge(g)
  <2>1. at[g] \in DOMAIN RulesOf[g] /\ Rule(g) = RulesOf[g][at[g]]
    BY <1>2, RuleFacts DEF Judge, Done, Place, Rule
  <2>2. Invalid(Rule(g), table[g]) = Found(g, at[g])
    BY <2>1 DEF Found
  <2>3. Cardinality(Invalid(Rule(g), table[g])) \in Nat
    BY <2>2, TableFacts
  <2>4. results' \in [Gates -> Seq(Nat)]
    BY <1>2, <2>3 DEF Judge
  <2>5. QED
    BY <1>2, <2>4 DEF Judge
<1>3. CASE Quarantine(g)
  BY <1>3 DEF Quarantine
<1>4. CASE Allow(g)
  BY <1>4 DEF Allow
<1>5. CASE Fail(g)
  BY <1>5 DEF Fail
<1>6. CASE Pass(g)
  BY <1>6 DEF Pass
<1>7. CASE Fault(g)
  BY <1>7 DEF Fault
<1>8. QED
  BY <1>1, <1>2, <1>3, <1>4, <1>5, <1>6, <1>7

\* The rule an attempt is at, and what is found by it, in the names used here.
LEMMA AtRule ==
  ASSUME Typed, Place, NEW g \in Gates, pc[g] = "act" \/ (pc[g] = "judge" /\ ~Done(g))
  PROVE  /\ at[g] \in DOMAIN RulesOf[g] /\ at[g] \in 1 .. Len(RulesOf[g])
         /\ Rule(g) = RulesOf[g][at[g]]
         /\ Invalid(Rule(g), table[g]) = Found(g, at[g])
         /\ RateAbove(Rule(g), table[g], Threshold) = Loud(g, at[g])
         /\ Rows(table[g], Found(g, at[g])) = Held(g, at[g])
BY RuleFacts DEF Done, Place, Rule, Found, Loud, Held, Running, Typed

\* One gate's step leaves what others found and told.
LEMMA PlaceStep ==
  ASSUME GateInv, NEW g \in Gates,
         Begin(g) \/ Judge(g) \/ Quarantine(g) \/ Allow(g) \/ Fail(g) \/ Pass(g) \/ Fault(g)
  PROVE  Place'
<1> USE DEF GateInv, Typed, Running
<1>0. table' = table /\ \A h, r : Found(h, r)' = Found(h, r)
  BY DEF Begin, Judge, Quarantine, Allow, Fail, Pass, Fault, Found
<1>r. \A h \in Gates : Len(RulesOf[h]) \in Nat /\ DOMAIN RulesOf[h] = 1 .. Len(RulesOf[h])
  BY RuleFacts
<1>1. CASE Begin(g)
  BY <1>0, <1>1, <1>r, GateAssumption DEF Begin, Place
<1>2. CASE Judge(g)
  <2>1. at[g] \in DOMAIN RulesOf[g] /\ invalid'[g] = Found(g, at[g])
    BY <1>2, AtRule DEF Judge
  <2>2. Cardinality(Invalid(Rule(g), table[g])) \in Nat
    BY <1>2, AtRule, TableFacts DEF Judge
  <2>3. Len(results'[g]) = at[g] /\ \A h \in Gates \ {g} : results'[h] = results[h]
    BY <1>2, <2>2 DEF Judge, Place
  <2>4. \A h \in Gates \ {g} : pc'[h] = pc[h] /\ invalid'[h] = invalid[h]
    BY <1>2 DEF Judge
  <2>5. pc'[g] = "act" /\ at' = at /\ try' = try
    BY <1>2 DEF Judge
  <2>6. QED
    BY <1>0, <1>2, <2>1, <2>3, <2>4, <2>5 DEF Place, Judge
<1>3. CASE Quarantine(g)
  BY <1>0, <1>3, <1>r DEF Quarantine, Place
<1>4. CASE Allow(g)
  BY <1>0, <1>4, <1>r DEF Allow, Place
<1>5. CASE Fail(g)
  BY <1>0, <1>5 DEF Fail, Place
<1>6. CASE Pass(g)
  BY <1>0, <1>6, <1>r DEF Pass, Place, Done
<1>7. CASE Fault(g)
  BY <1>0, <1>7 DEF Fault, Place
<1>8. QED
  BY <1>1, <1>2, <1>3, <1>4, <1>5, <1>6, <1>7

LEMMA ToldStep ==
  ASSUME GateInv, NEW g \in Gates,
         Begin(g) \/ Judge(g) \/ Quarantine(g) \/ Allow(g) \/ Fail(g) \/ Pass(g) \/ Fault(g)
  PROVE  Told'
<1> USE DEF GateInv, Typed, Running
<1>0. \A h, r : Found(h, r)' = Found(h, r) /\ Loud(h, r)' = Loud(h, r)
  BY DEF Begin, Judge, Quarantine, Allow, Fail, Pass, Fault, Found, Loud
<1>1. CASE Begin(g)
  BY <1>0, <1>1 DEF Begin, Told
<1>2. CASE Judge(g)
  <2> DEFINE n == Cardinality(Found(g, at[g]))
  <2>1. n \in Nat /\ results' = [results EXCEPT ![g] = Append(@, n)]
    BY <1>2, AtRule, TableFacts DEF Judge
  <2>2. Len(results[g]) = at[g] - 1 /\ at[g] \in Nat
    BY <1>2 DEF Judge, Place
  <2>3. Loud(g, at[g]) => <<g, try[g], at[g]>> \in events'
    BY <1>2, AtRule DEF Judge
  <2>4. events \subseteq events' /\ try' = try /\ pc' = [pc EXCEPT ![g] = "act"]
    BY <1>2 DEF Judge
  <2>5. \A h \in Gates \ {g} : results'[h] = results[h] /\ pc'[h] = pc[h]
    BY <2>1, <2>4
  <2> HIDE DEF n
  <2>6. \A r \in 1 .. Len(results'[g]) :
          IF r = at[g] THEN results'[g][r] = n
          ELSE r \in 1 .. Len(results[g]) /\ results'[g][r] = results[g][r]
    BY <2>1, <2>2
  <2>7. pc[g] = "judge"
    BY <1>2 DEF Judge
  <2>8. SUFFICES ASSUME NEW h \in Gates, pc'[h] \in Running, NEW r \in 1 .. Len(results'[h])
                 PROVE  /\ results'[h][r] = Cardinality(Found(h, r))
                        /\ Loud(h, r) => <<h, try[h], r>> \in events'
    BY <1>0, <2>4 DEF Told
  <2>9. CASE h = g
    BY <2>3, <2>4, <2>6, <2>7, <2>8, <2>9 DEF Told, n
  <2>10. CASE h # g
    BY <2>4, <2>5, <2>8, <2>10 DEF Told
  <2>11. QED
    BY <2>9, <2>10
<1>3. CASE Quarantine(g)
  BY <1>0, <1>3 DEF Quarantine, Told
<1>4. CASE Allow(g)
  BY <1>0, <1>4 DEF Allow, Told
<1>5. CASE Fail(g)
  BY <1>0, <1>5 DEF Fail, Told
<1>6. CASE Pass(g)
  BY <1>0, <1>6 DEF Pass, Told
<1>7. CASE Fault(g)
  BY <1>0, <1>7 DEF Fault, Told
<1>8. QED
  BY <1>1, <1>2, <1>3, <1>4, <1>5, <1>6, <1>7

LEMMA JudgedStep ==
  ASSUME GateInv, NEW g \in Gates,
         Begin(g) \/ Judge(g) \/ Quarantine(g) \/ Allow(g) \/ Fail(g) \/ Pass(g) \/ Fault(g)
  PROVE  Judged'
<1> USE DEF GateInv, Typed, Running
<1>0. table' = table /\ \A h, r : Found(h, r)' = Found(h, r)
  BY DEF Begin, Judge, Quarantine, Allow, Fail, Pass, Fault, Found
<1>1. CASE Begin(g)
  BY <1>0, <1>1 DEF Begin, Judged
<1>2. CASE Judge(g)
  BY <1>0, <1>2 DEF Judge, Judged
<1>3. CASE Quarantine(g)
  <2> Rule(g) = RulesOf[g][at[g]]
    BY DEF Rule
  <2>1. Quarantines(g, at[g]) /\ invalid[g] = Found(g, at[g])
    BY <1>3 DEF Quarantine, Quarantines, Place
  <2>2. reject'[g] = reject[g] \cup Found(g, at[g]) /\ at'[g] = at[g] + 1 /\ at[g] \in Nat \ {0}
    BY <1>3, <2>1 DEF Quarantine, Place
  <2>3. \A h \in Gates \ {g} : reject'[h] = reject[h] /\ at'[h] = at[h] /\ pc'[h] = pc[h]
    BY <1>3 DEF Quarantine
  <2>4. pc[g] = "act"
    BY <1>3 DEF Quarantine
  <2>5. \A r \in 1 .. at'[g] - 1 : r = at[g] \/ r \in 1 .. at[g] - 1
    BY <2>2
  <2>6. 1 .. at[g] - 1 \subseteq 1 .. at'[g] - 1 /\ at[g] \in 1 .. at'[g] - 1
    BY <2>2
  <2>7. QED
    BY <1>0, <2>1, <2>2, <2>3, <2>4, <2>5, <2>6 DEF Judged
<1>4. CASE Allow(g)
  <2> Rule(g) = RulesOf[g][at[g]]
    BY DEF Rule
  <2>1. ~Quarantines(g, at[g]) /\ Passed(RulesOf[g][at[g]], table[g])
    BY <1>4 DEF Allow, Quarantines
  <2>2. at'[g] = at[g] + 1 /\ at[g] \in Nat \ {0} /\ pc[g] = "act" /\ reject' = reject
    BY <1>4 DEF Allow, Place
  <2>3. \A h \in Gates \ {g} : at'[h] = at[h] /\ pc'[h] = pc[h]
    BY <1>4 DEF Allow
  <2>4. \A r \in 1 .. at'[g] - 1 : r = at[g] \/ r \in 1 .. at[g] - 1
    BY <2>2
  <2>5. 1 .. at[g] - 1 \subseteq 1 .. at'[g] - 1
    BY <2>2
  <2>6. QED
    BY <1>0, <2>1, <2>2, <2>3, <2>4, <2>5 DEF Judged
<1>5. CASE Fail(g)
  BY <1>0, <1>5 DEF Fail, Judged
<1>6. CASE Pass(g)
  BY <1>0, <1>6 DEF Pass, Judged
<1>7. CASE Fault(g)
  BY <1>0, <1>7 DEF Fault, Judged
<1>8. QED
  BY <1>1, <1>2, <1>3, <1>4, <1>5, <1>6, <1>7
LEMMA GateInvariant == Spec => []GateInv
<1>1. GateInv /\ [Next]_vars => GateInv'
  <2> SUFFICES ASSUME GateInv, [Next]_vars PROVE GateInv'
    OBVIOUS
  <2>1. CASE Next
    <3>1. PICK g \in Gates :
            Begin(g) \/ Judge(g) \/ Quarantine(g) \/ Allow(g) \/ Fail(g) \/ Pass(g) \/ Fault(g)
      BY <2>1 DEF Next
    <3>2. QED
      BY <3>1, TypedStep, PlaceStep, ToldStep, JudgedStep DEF GateInv
  <2>2. CASE UNCHANGED vars
    BY <2>2 DEF vars, attempt, GateInv, Typed, Place, Told, Judged, Found, Loud
  <2>3. QED
    BY <2>1, <2>2
<1>2. QED
  BY GateInitial, <1>1, PTL DEF Spec

-------------------------------------------------------------------------------
LEMMA StockedStep ==
  ASSUME Unshared, GateInv, Stocked, NEW g \in Gates,
         Begin(g) \/ Judge(g) \/ Quarantine(g) \/ Allow(g) \/ Fail(g) \/ Pass(g) \/ Fault(g)
  PROVE  Stocked'
<1> USE DEF GateInv, Running
<1>0. /\ table' = table /\ events \subseteq events'
      /\ \A h, r : Held(h, r)' = Held(h, r) /\ Loud(h, r)' = Loud(h, r)
  BY DEF Begin, Judge, Quarantine, Allow, Fail, Pass, Fault, Found, Held, Loud
<1>1. CASE Begin(g)
  <2>1. stored' = stored /\ at'[g] = 1
        /\ \A h \in Gates \ {g} : pc'[h] = pc[h] /\ at'[h] = at[h]
    BY <1>1 DEF Begin, Typed
  <2>2. \A h \in Gates : \A r \in DOMAIN RulesOf[h] :
          pc'[h] \in Running /\ r < at'[h] => pc[h] \in Running /\ r < at[h]
    BY <2>1, RuleFacts
  <2>3. QED
    BY <1>0, <2>1, <2>2 DEF Stocked
<1>2. CASE Quarantine(g)
  <2> DEFINE a == RulesOf[g][at[g]].asset
  <2>1. /\ at[g] \in DOMAIN RulesOf[g] /\ Quarantines(g, at[g]) /\ a \in Assets
        /\ invalid[g] = Found(g, at[g]) /\ pc[g] = "act" /\ at[g] \in Nat \ {0}
    <3>1. pc[g] = "act" /\ Rule(g).action = "quarantine" /\ Rule(g) = RulesOf[g][at[g]]
      BY <1>2 DEF Quarantine, Rule
    <3>2. at[g] \in DOMAIN RulesOf[g] /\ invalid[g] = Found(g, at[g]) /\ at[g] \in Nat \ {0}
      BY <3>1 DEF Place
    <3>3. QED
      BY <3>1, <3>2, RuleFacts DEF Quarantines
  <2>2. stored' = [stored EXCEPT ![a] = Held(g, at[g])]
    BY <1>2, <2>1 DEF Quarantine, Rule, Held
  <2>3. at'[g] = at[g] + 1 /\ \A h \in Gates \ {g} : at'[h] = at[h] /\ pc'[h] = pc[h]
    BY <1>2 DEF Quarantine, Typed
  <2>4. SUFFICES ASSUME NEW h \in Gates, NEW r \in DOMAIN RulesOf[h], Quarantines(h, r)
                 PROVE  /\ stored'[RulesOf[h][r].asset] \in {<<>>, Held(h, r)}
                        /\ pc'[h] \in Running /\ r < at'[h] =>
                             stored'[RulesOf[h][r].asset] = Held(h, r)
                        /\ stored'[RulesOf[h][r].asset] # <<>> /\ Loud(h, r) =>
                             \E n \in 1 .. MaxTries : <<h, n, r>> \in events
    BY <1>0 DEF Stocked
  <2>5. CASE h = g /\ r = at[g]
    <3>1. stored'[a] = Held(g, at[g])
      BY <2>1, <2>2 DEF Typed
    <3>2. Loud(g, at[g]) => <<g, try[g], at[g]>> \in events
      BY <2>1 DEF Told, Place
    <3>3. try[g] \in 1 .. MaxTries
      BY <2>1 DEF Place
    <3>4. QED
      BY <2>5, <3>1, <3>2, <3>3
  <2>6. CASE ~(h = g /\ r = at[g])
    <3>1. RulesOf[h][r].asset # a
      BY <2>1, <2>4, <2>6 DEF Unshared
    <3>2. stored'[RulesOf[h][r].asset] = stored[RulesOf[h][r].asset]
      BY <2>2, <3>1, <2>4, RuleFacts DEF Typed
    <3>3. r \in Nat
      BY <2>4, RuleFacts
    <3>4. pc'[h] \in Running /\ r < at'[h] => pc[h] \in Running /\ r < at[h]
      BY <2>1, <2>3, <2>6, <3>3
    <3>5. QED
      BY <2>4, <3>2, <3>4 DEF Stocked
  <2>7. QED
    BY <2>5, <2>6
<1>3. CASE Judge(g) \/ Fail(g) \/ Pass(g) \/ Fault(g)
  <2>1. /\ stored' = stored /\ at' = at
        /\ \A h \in Gates : pc'[h] \in Running => pc[h] \in Running
    BY <1>3 DEF Judge, Fail, Pass, Fault, Typed
  <2>2. QED
    BY <1>0, <2>1 DEF Stocked
<1>4. CASE Allow(g)
  <2>1. /\ stored' = stored /\ at'[g] = at[g] + 1 /\ at[g] \in Nat /\ pc[g] = "act"
        /\ \A h \in Gates \ {g} : pc'[h] = pc[h] /\ at'[h] = at[h]
    BY <1>4 DEF Allow, Typed
  <2>2. ~Quarantines(g, at[g])
    BY <1>4 DEF Allow, Quarantines, Rule
  <2>3. \A h \in Gates : \A r \in DOMAIN RulesOf[h] :
          Quarantines(h, r) /\ pc'[h] \in Running /\ r < at'[h] => pc[h] \in Running /\ r < at[h]
    BY <2>1, <2>2, RuleFacts
  <2>4. QED
    BY <1>0, <2>1, <2>3 DEF Stocked
<1>5. QED
  BY <1>1, <1>2, <1>3, <1>4

LEMMA Invariant == Unshared => (Spec => []IInv)
<1> SUFFICES ASSUME Unshared PROVE Spec => []IInv
  OBVIOUS
<1>1. Init => Stocked
  BY RuleFacts DEF Init, Stocked, Running
<1>2. GateInv /\ Stocked /\ [Next]_vars => Stocked'
  <2> SUFFICES ASSUME GateInv, Stocked, [Next]_vars PROVE Stocked'
    OBVIOUS
  <2>1. CASE Next
    BY <2>1, StockedStep DEF Next
  <2>2. CASE UNCHANGED vars
    BY <2>2 DEF vars, attempt, Stocked, Held, Found, Loud
  <2>3. QED
    BY <2>1, <2>2
<1>3. QED
  BY GateInvariant, <1>1, <1>2, PTL DEF Spec, IInv
-------------------------------------------------------------------------------
\* No row is lost: what a gate takes out lies in the asset of a rule that refused it.
THEOREM NothingLostHolds == Unshared => (Spec => []NothingLost)
<1>1. IInv => NothingLost
  <2> SUFFICES ASSUME IInv, NEW g \in Gates, pc[g] = "passed", NEW i \in DOMAIN table[g],
                      i \in reject[g]
               PROVE  \E r \in DOMAIN RulesOf[g] :
                        /\ RulesOf[g][r].action = "quarantine"
                        /\ i \in Invalid(RulesOf[g][r], table[g])
                        /\ \E n \in DOMAIN stored[RulesOf[g][r].asset] :
                             stored[RulesOf[g][r].asset][n] = table[g][i]
    BY DEF NothingLost
  <2>1. at[g] = Len(RulesOf[g]) + 1
    BY DEF IInv, GateInv, Place, Running
  <2>2. PICK r \in 1 .. at[g] - 1 : Quarantines(g, r) /\ i \in Found(g, r)
    BY DEF IInv, GateInv, Judged, Running
  <2>3. r \in DOMAIN RulesOf[g] /\ r < at[g]
    BY <2>1, <2>2, RuleFacts
  <2>4. stored[RulesOf[g][r].asset] = Held(g, r)
    BY <2>2, <2>3 DEF IInv, Stocked, Running
  <2>5. Found(g, r) \subseteq 1 .. Len(table[g]) /\ Len(table[g]) \in Nat
    BY TableFacts DEF IInv, GateInv
  <2> DEFINE S == Found(g, r)
  <2>6. \E n \in DOMAIN Held(g, r) : Held(g, r)[n] = table[g][i]
    <3>1. S \in SUBSET (1 .. Len(table[g])) /\ Len(table[g]) \in Nat /\ i \in S
      BY <2>2, <2>5
    <3> HIDE DEF S
    <3>2. \A j \in S : \E n \in 1 .. Cardinality(S) : Ascending(S)[n] = j
      BY <3>1, RowsFacts
    <3>3. /\ DOMAIN Rows(table[g], S) = 1 .. Cardinality(S)
          /\ \A n \in 1 .. Cardinality(S) : Rows(table[g], S)[n] = table[g][Ascending(S)[n]]
      BY DEF Rows
    <3>4. QED
      BY <3>1, <3>2, <3>3 DEF Held, S
  <2>7. QED
    BY <2>2, <2>3, <2>4, <2>6 DEF Quarantines, Found
<1>2. QED
  BY <1>1, Invariant, PTL

\* The evidence accounts for the rows, of this attempt and of those that moved rows.
THEOREM EvidenceAccountsHolds == Unshared => (Spec => []EvidenceAccounts)
<1>1. IInv => EvidenceAccounts
  <2> SUFFICES ASSUME IInv, NEW g \in Gates, NEW r \in DOMAIN RulesOf[g]
               PROVE  /\ pc[g] = "passed" =>
                           /\ Len(results[g]) = Len(RulesOf[g])
                           /\ Quarantines(g, r) => Len(stored[RulesOf[g][r].asset]) = results[g][r]
                           /\ Loud(g, r) => <<g, try[g], r>> \in events
                      /\ Quarantines(g, r) /\ stored[RulesOf[g][r].asset] # <<>> /\ Loud(g, r) =>
                           \E n \in 1 .. MaxTries : <<g, n, r>> \in events
    BY DEF EvidenceAccounts, Quarantines, Loud
  <2>1. Quarantines(g, r) /\ stored[RulesOf[g][r].asset] # <<>> /\ Loud(g, r) =>
          \E n \in 1 .. MaxTries : <<g, n, r>> \in events
    BY DEF IInv, Stocked
  <2>2. ASSUME pc[g] = "passed"
        PROVE  /\ Len(results[g]) = Len(RulesOf[g]) /\ r < at[g]
               /\ results[g][r] = Cardinality(Found(g, r))
               /\ Loud(g, r) => <<g, try[g], r>> \in events
    <3>1. Len(results[g]) = Len(RulesOf[g]) /\ at[g] = Len(RulesOf[g]) + 1
      BY <2>2, RuleFacts DEF IInv, GateInv, Place, Running
    <3>2. r \in 1 .. Len(results[g]) /\ r < at[g]
      BY <3>1, RuleFacts
    <3>3. QED
      BY <2>2, <3>1, <3>2 DEF IInv, GateInv, Told, Running
  <2>3. ASSUME pc[g] = "passed", Quarantines(g, r)
        PROVE  Len(stored[RulesOf[g][r].asset]) = results[g][r]
    <3>1. stored[RulesOf[g][r].asset] = Held(g, r)
      BY <2>2, <2>3 DEF IInv, Stocked, Running
    <3>2. Len(Held(g, r)) = Cardinality(Found(g, r))
      BY TableFacts, RowsFacts DEF Held, IInv, GateInv
    <3>3. QED
      BY <2>2, <2>3, <3>1, <3>2
  <2>4. QED
    BY <2>1, <2>2, <2>3
<1>2. QED
  BY <1>1, Invariant, PTL

\* What is refused among the rows that pass was refused among those that came in.
LEMMA RefusedWasFound ==
  ASSUME GateInv, NEW g \in Gates, NEW r \in DOMAIN RulesOf[g],
         NEW n \in Refused(g, RulesOf[g][r])
  PROVE  Ascending(DOMAIN table[g] \ reject[g])[n] \in Found(g, r)
<1> DEFINE rule == RulesOf[g][r]
           S == DOMAIN table[g] \ reject[g]
           i == Ascending(S)[n]
<1>1. S \in SUBSET (1 .. Len(table[g])) /\ Len(table[g]) \in Nat /\ DOMAIN table[g] = 1 .. Len(table[g])
  BY TableFacts DEF GateInv
<1> Kept(g) = Rows(table[g], S)
  BY DEF Kept
<1> HIDE DEF S
<1>a. /\ Cardinality(S) \in Nat /\ Ascending(S) \in [1 .. Cardinality(S) -> S]
      /\ \A j, k \in 1 .. Cardinality(S) : j < k => Ascending(S)[j] < Ascending(S)[k]
  BY <1>1, RowsFacts
<1>b. DOMAIN Kept(g) = 1 .. Cardinality(S)
  BY DEF Rows
<1>c. \A j \in 1 .. Cardinality(S) : Kept(g)[j] = table[g][Ascending(S)[j]]
  BY DEF Rows
<1>0. /\ Cardinality(S) \in Nat /\ Ascending(S) \in [1 .. Cardinality(S) -> S]
      /\ DOMAIN Kept(g) = 1 .. Cardinality(S)
      /\ \A j \in 1 .. Cardinality(S) : Kept(g)[j] = table[g][Ascending(S)[j]]
      /\ \A j, k \in 1 .. Cardinality(S) : j < k => Ascending(S)[j] < Ascending(S)[k]
  BY <1>a, <1>b, <1>c
<1>2. /\ n \in 1 .. Cardinality(S)
      /\ i \in S /\ i \in DOMAIN table[g] /\ i \in 1 .. Len(table[g])
      /\ Kept(g)[n] = table[g][i]
  BY <1>0, <1>1 DEF Refused
<1>3. \A k \in 1 .. n - 1 : /\ Ascending(S)[k] \in 1 .. i - 1
                            /\ Kept(g)[k] = table[g][Ascending(S)[k]]
  <2> SUFFICES ASSUME NEW k \in 1 .. n - 1
               PROVE  /\ Ascending(S)[k] \in 1 .. i - 1
                      /\ Kept(g)[k] = table[g][Ascending(S)[k]]
    OBVIOUS
  <2>1. k \in 1 .. Cardinality(S) /\ k < n
    BY <1>0, <1>2
  <2>2. Ascending(S)[k] \in S /\ Ascending(S)[k] < i /\ Kept(g)[k] = table[g][Ascending(S)[k]]
    BY <1>0, <1>2, <2>1
  <2>3. Ascending(S)[k] \in 1 .. Len(table[g]) /\ i \in 1 .. Len(table[g])
    BY <1>1, <1>2, <2>2
  <2>4. \A a, b \in 1 .. Len(table[g]) : a < b => a \in 1 .. b - 1
    BY <1>1
  <2>5. QED
    BY <2>2, <2>3, <2>4
<1> HIDE DEF i
<1> SUFFICES ~Good(rule, table[g], i)
  BY <1>2 DEF Found, Invalid, i, S
<1>4. rule.kind \in Kinds
  BY RuleFacts
<1>5. CASE rule.kind = "unique"
  BY <1>2, <1>3, <1>5 DEF Good, Refused
<1>6. CASE rule.kind = "row_count"
  BY <1>6 DEF Refused
<1>7. CASE rule.kind \notin {"unique", "row_count"}
  BY <1>2, <1>4, <1>7 DEF Good, Kinds, Refused
<1>8. QED
  BY <1>5, <1>6, <1>7

\* No more rows pass than a row_count allows, and fewer only as DownstreamClean says.
LEMMA CountKept ==
  ASSUME GateInv, NEW g \in Gates, pc[g] = "passed", NEW r \in DOMAIN RulesOf[g],
         RulesOf[g][r].kind = "row_count"
  PROVE  /\ Len(Kept(g)) <= RulesOf[g][r].high
         /\ Len(Kept(g)) < RulesOf[g][r].low =>
              Takes(g) \/ (table[g] = <<>> /\ RulesOf[g][r].action = "quarantine")
<1> DEFINE rule == RulesOf[g][r]
           all == Len(table[g])
           S == DOMAIN table[g] \ reject[g]
           kept == Cardinality(S)
<1>1. all \in Nat /\ DOMAIN table[g] = 1 .. all /\ S \in SUBSET (1 .. all)
  BY TableFacts DEF GateInv
<1>2. Len(Kept(g)) = kept /\ kept \in Nat /\ kept <= all
  BY <1>1, RowsFacts, Countable DEF Kept
<1>3. rule.low \in Nat /\ rule.high \in Nat
  BY GateAssumption
<1>4. at[g] = Len(RulesOf[g]) + 1 /\ r \in 1 .. at[g] - 1
      /\ DOMAIN RulesOf[g] = 1 .. at[g] - 1
  BY RuleFacts DEF GateInv, Place, Running
<1>5. ASSUME kept # all PROVE Takes(g)
  <2>1. S # 1 .. all
    <3>1. Cardinality(1 .. all) = all
      BY <1>1, FS_Interval
    <3>2. QED
      BY <1>5, <3>1
  <2>2. PICK i \in reject[g] : TRUE
    BY <1>1, <2>1
  <2>3. PICK q \in 1 .. at[g] - 1 : Quarantines(g, q) /\ i \in Found(g, q)
    BY <2>2 DEF GateInv, Judged, Running
  <2>4. QED
    BY <1>4, <2>3 DEF Takes, Quarantines, Found
<1> HIDE DEF S, kept
<1>6. CASE all \in rule.low .. rule.high
  BY <1>1, <1>2, <1>3, <1>5, <1>6
<1>7. CASE all \notin rule.low .. rule.high
  <2>1. ~Passed(rule, table[g])
    BY <1>7 DEF Passed, CountOk
  <2>2. Quarantines(g, r) /\ Found(g, r) \subseteq reject[g]
    BY <1>4, <2>1 DEF GateInv, Judged, Running
  <2>3. Found(g, r) = 1 .. all
    BY <1>1, <1>7 DEF Found, Invalid, Good
  <2>4. S = {} /\ kept = 0
    BY <1>1, <2>2, <2>3, FS_EmptySet DEF S, kept
  <2>5. CASE all = 0
    <3>1. table[g] = <<>>
      <4>1. table[g] \in Seq(Range(table[g]))
        BY GateAssumption DEF GateInv, Typed
      <4>2. QED
        BY <2>5, <4>1
    <3>2. QED
      BY <1>2, <1>3, <2>2, <2>4, <3>1 DEF Quarantines
  <2>6. CASE all # 0
    <3>1. 1 \in Found(g, r)
      BY <1>1, <2>3, <2>6
    <3>2. Takes(g)
      BY <2>2, <3>1 DEF Takes, Quarantines, Found
    <3>3. QED
      BY <1>2, <1>3, <2>4, <3>2
  <2>7. QED
    BY <2>5, <2>6
<1>8. QED
  BY <1>6, <1>7

\* What passes meets the rules, although it was another table that was judged; but for
\* the minimum of a row_count, which the rows that are taken out can break.
THEOREM DownstreamCleanHolds == Spec => []DownstreamClean
<1>1. GateInv => DownstreamClean
  <2> SUFFICES ASSUME GateInv, NEW g \in Gates, pc[g] = "passed", NEW r \in DOMAIN RulesOf[g]
               PROVE  100 * Cardinality(Refused(g, RulesOf[g][r])) <=
                        (IF RulesOf[g][r].action = "fail"
                           THEN RulesOf[g][r].rate * Len(table[g]) ELSE 0)
    BY CountKept DEF DownstreamClean
  <2> DEFINE rule == RulesOf[g][r]
             refused == Refused(g, rule)
             S == DOMAIN table[g] \ reject[g]
             f == [n \in refused |-> Ascending(S)[n]]
             size == Cardinality(refused)
             all == Len(table[g])
  <2>1. all \in Nat /\ DOMAIN table[g] = 1 .. all /\ S \in SUBSET (1 .. all)
        /\ Found(g, r) \in SUBSET (1 .. all)
    BY TableFacts DEF GateInv
  <2>2. /\ DOMAIN Kept(g) = 1 .. Cardinality(S) /\ Cardinality(S) \in Nat
        /\ \A i, j \in 1 .. Cardinality(S) : i < j => Ascending(S)[i] < Ascending(S)[j]
        /\ Ascending(S) \in [1 .. Cardinality(S) -> S]
    BY <2>1, RowsFacts DEF Kept
  <2>3. \A n \in refused : Ascending(S)[n] \in Found(g, r)
    BY RefusedWasFound
  <2>4. refused \in SUBSET (1 .. Cardinality(S))
    BY <2>2 DEF Refused
  <2>5. at[g] = Len(RulesOf[g]) + 1 /\ r \in 1 .. at[g] - 1
    BY RuleFacts DEF GateInv, Place, Running
  <2> HIDE DEF refused, S
  <2>6. f \in Injection(refused, Found(g, r))
    <3>1. ASSUME NEW m \in refused, NEW n \in refused, m # n PROVE f[m] # f[n]
      <4>1. m \in 1 .. Cardinality(S) /\ n \in 1 .. Cardinality(S)
        BY <2>4
      <4>2. Ascending(S)[m] \in 1 .. all /\ Ascending(S)[n] \in 1 .. all
        BY <2>1, <2>2, <4>1
      <4>3. m < n \/ n < m
        BY <2>2, <3>1, <4>1
      <4>4. QED
        BY <2>2, <4>1, <4>2, <4>3
    <3>2. QED
      BY <2>3, <3>1 DEF Injection, IsInjective
  <2>7. IsFiniteSet(Found(g, r)) /\ Cardinality(Found(g, r)) \in Nat
    BY <2>1, Countable
  <2>8. size <= Cardinality(Found(g, r)) /\ size \in Nat
    BY <2>2, <2>4, <2>6, <2>7, Countable, FS_Injection
  <2>9. CASE Quarantines(g, r)
    <3>1. Found(g, r) \subseteq reject[g]
      BY <2>5, <2>9 DEF GateInv, Judged, Running
    <3>2. \A n \in refused : Ascending(S)[n] \in S
      BY <2>2, <2>4
    <3>3. refused = {}
      BY <2>3, <3>1, <3>2 DEF S
    <3>4. size = 0
      BY <3>3, FS_EmptySet
    <3>5. QED
      BY <2>9, <3>4, RuleFacts DEF refused
  <2>10. CASE ~Quarantines(g, r)
    <3>1. rule.action = "fail" /\ rule.rate \in Nat
      BY <2>10, RuleFacts
    <3>2. ~RateAbove(rule, table[g], rule.rate)
      BY <2>5, <2>10 DEF GateInv, Judged, Running, Passed
    <3>3. CASE table[g] = <<>>
      <4>1. all = 0 /\ S = {} /\ refused = {}
        <5>1. all = 0
          BY <3>3
        <5>2. S = {}
          BY <2>1, <5>1
        <5>3. refused = {}
          BY <2>3, <2>1, <5>1
        <5>4. QED
          BY <5>1, <5>2, <5>3
      <4>2. size = 0
        BY <4>1, FS_EmptySet
      <4>3. QED
        BY <3>1, <4>1, <4>2 DEF refused
    <3>4. CASE table[g] # <<>>
      <4>1. ~(100 * Cardinality(Found(g, r)) > rule.rate * all)
        BY <3>2, <3>4 DEF RateAbove, Found
      <4>2. rule.rate * all \in Nat
        BY <2>1, <3>1
      <4>3. 100 * size <= rule.rate * all
        BY <4>1, <4>2, <2>7, <2>8
      <4>4. QED
        BY <3>1, <4>3 DEF refused
    <3>5. QED
      BY <3>3, <3>4
  <2>11. QED
    BY <2>9, <2>10
<1>2. QED
  BY <1>1, GateInvariant, PTL
===============================================================================
