----------------------------- MODULE QualityGate ------------------------------
(***************************************************************************)
(* The quality gates of one run: runtime.check_rows, and the quality.check *)
(* branch of execute_task, which judges a table by the rules bound to it,  *)
(* one after the other.  Gates run side by side in their workers, and each *)
(* may be attempted again; `now` is the end of the data interval, the same *)
(* for all.  AirflowWorker has what surrounds a gate, and takes the loop   *)
(* below for a single step.                                                *)
(***************************************************************************)
EXTENDS Integers, Sequences, FiniteSets, Functions

CONSTANTS
  Gates,       \* the generated tasks q_<target>
  RulesOf,     \* [Gates -> Seq(rules)]: the rules of the target, by their ids
  Tables,      \* [Gates -> sets of tables]: what the target may hand on
  Assets,      \* the quarantine assets
  Null,        \* None, or a value that is not of the field's type
  Threshold,   \* percent: the threshold of the policy on "quality"
  Now,         \* interval_end
  MaxTries     \* attempts of each gate

Kinds == {"not_null", "unique", "range", "schema", "freshness", "row_count"}

\* Tables are lists of rows; a rule is what ir.py and validate let one be.
ASSUME GateAssumption ==
  /\ MaxTries \in Nat /\ Threshold \in Nat
  /\ \A g \in Gates :
       /\ \A rows \in Tables[g] : rows \in Seq(Range(rows))
       /\ RulesOf[g] \in Seq(Range(RulesOf[g]))
       /\ \A r \in DOMAIN RulesOf[g] :
            LET rule == RulesOf[g][r] IN
            /\ rule.kind \in Kinds /\ rule.rate \in Nat
            /\ rule.kind = "row_count" => rule.low \in Nat /\ rule.high \in Nat
            /\ \/ rule.action = "fail"
               \/ rule.action = "quarantine" /\ rule.asset \in Assets

VARIABLES
  table,       \* [Gates -> tables]: the rows a gate is given
  pc, at,      \* [Gates -> ...]: where its attempt is, and the rule it is at
  try,         \* [Gates -> Nat]: the attempts begun
  invalid,     \* [Gates -> SUBSET Nat]: what check_rows returned
  reject,      \* [Gates -> SUBSET Nat]: the rows to drop
  results,     \* [Gates -> Seq(Nat)]: quality_results, by their counts of invalid rows
  stored,      \* [Assets -> tables]: the quarantine assets
  events       \* the outbox: <<gate, attempt, rule>> of every quality event

attempt == <<pc, at, try, invalid, reject, results>>
vars == <<table, attempt, stored, events>>

\* Fault: duplicates are looked for among neighbours.
GoodBesideNext(rule, rows, i) ==
  IF rule.kind = "unique"
    THEN rows[i].key # Null /\ (i = 1 \/ rows[i - 1].key # rows[i].key)
    ELSE rule.kind # "not_null" \/ rows[i].key # Null

\* check_rows: whether row i is good.
Good(rule, rows, i) ==
  LET row == rows[i] IN
  CASE rule.kind = "not_null" -> row.key # Null
    [] rule.kind = "unique" ->
         row.key # Null /\ \A j \in 1 .. i - 1 : rows[j].key # row.key
    [] rule.kind = "range" -> row.val # Null /\ row.val \in rule.low .. rule.high
    [] rule.kind = "schema" -> row.fits
    [] rule.kind = "freshness" -> row.born # Null /\ Now - row.born \in 0 .. rule.high
    [] rule.kind = "row_count" -> Len(rows) \in rule.low .. rule.high

Invalid(rule, rows) == {i \in DOMAIN rows : ~Good(rule, rows, i)}

CountOk(rule, rows) == rule.kind = "row_count" => Len(rows) \in rule.low .. rule.high

\* invalid_rate > percent: of no rows the rate is all or nothing.
RateAbove(rule, rows, percent) ==
  LET total == IF rows = <<>> THEN 1 ELSE Len(rows)
      bad == IF rows # <<>> THEN Cardinality(Invalid(rule, rows))
             ELSE IF CountOk(rule, rows) THEN 0 ELSE 1
  IN 100 * bad > percent * total

Passed(rule, rows) == CountOk(rule, rows) /\ ~RateAbove(rule, rows, rule.rate)

\* Indices in their order, and the rows they name.
Ascending(indices) ==
  CHOOSE f \in [1 .. Cardinality(indices) -> indices] :
    Range(f) = indices /\ \A m, n \in DOMAIN f : m < n => f[m] < f[n]

Rows(rows, indices) ==
  [n \in 1 .. Cardinality(indices) |-> rows[Ascending(indices)[n]]]

Rule(g) == RulesOf[g][at[g]]
Done(g) == at[g] > Len(RulesOf[g])

Init ==
  /\ table \in {f \in [Gates -> UNION {Tables[g] : g \in Gates}] :
                  \A g \in Gates : f[g] \in Tables[g]}
  /\ pc = [g \in Gates |-> "idle"] /\ at = [g \in Gates |-> 1]
  /\ try = [g \in Gates |-> 0]
  /\ invalid = [g \in Gates |-> {}] /\ reject = [g \in Gates |-> {}]
  /\ results = [g \in Gates |-> <<>>]
  /\ stored = [a \in Assets |-> <<>>] /\ events = {}

-------------------------------------------------------------------------------
\* A first attempt, or one more: with nothing of the attempts before it.
Begin(g) ==
  /\ pc[g] \in {"idle", "raised"} /\ try[g] < MaxTries
  /\ pc' = [pc EXCEPT ![g] = "judge"] /\ try' = [try EXCEPT ![g] = @ + 1]
  /\ at' = [at EXCEPT ![g] = 1]
  /\ invalid' = [invalid EXCEPT ![g] = {}] /\ reject' = [reject EXCEPT ![g] = {}]
  /\ results' = [results EXCEPT ![g] = <<>>]
  /\ UNCHANGED <<table, stored, events>>

\* Fault: only of rules that fail is there an event.
JudgeQuietly(g) ==
  LET found == Invalid(Rule(g), table[g]) IN
  /\ pc[g] = "judge" /\ ~Done(g)
  /\ invalid' = [invalid EXCEPT ![g] = found]
  /\ results' = [results EXCEPT ![g] = Append(@, Cardinality(found))]
  /\ events' = IF Passed(Rule(g), table[g]) THEN events
                 ELSE events \cup {<<g, try[g], at[g]>>}
  /\ pc' = [pc EXCEPT ![g] = "act"]
  /\ UNCHANGED <<table, at, try, reject, stored>>

\* check_rows, the result, and its event if the rate passes the threshold.
Judge(g) ==
  LET found == Invalid(Rule(g), table[g]) IN
  /\ pc[g] = "judge" /\ ~Done(g)
  /\ invalid' = [invalid EXCEPT ![g] = found]
  /\ results' = [results EXCEPT ![g] = Append(@, Cardinality(found))]
  /\ events' = IF RateAbove(Rule(g), table[g], Threshold)
                 THEN events \cup {<<g, try[g], at[g]>>} ELSE events
  /\ pc' = [pc EXCEPT ![g] = "act"]
  /\ UNCHANGED <<table, at, try, reject, stored>>

\* Fault: rows are dropped, whether or not they could be written.
QuarantineAnyway(g) ==
  /\ pc[g] = "act" /\ Rule(g).action = "quarantine"
  /\ \/ UNCHANGED stored
     \/ stored' = [stored EXCEPT ![Rule(g).asset] = Rows(table[g], invalid[g])]
  /\ reject' = [reject EXCEPT ![g] = @ \cup invalid[g]]
  /\ at' = [at EXCEPT ![g] = @ + 1] /\ pc' = [pc EXCEPT ![g] = "judge"]
  /\ UNCHANGED <<table, try, invalid, results, events>>

\* The quarantine asset is replaced by the invalid rows, which are dropped.
Quarantine(g) ==
  /\ pc[g] = "act" /\ Rule(g).action = "quarantine"
  /\ stored' = [stored EXCEPT ![Rule(g).asset] = Rows(table[g], invalid[g])]
  /\ reject' = [reject EXCEPT ![g] = @ \cup invalid[g]]
  /\ at' = [at EXCEPT ![g] = @ + 1] /\ pc' = [pc EXCEPT ![g] = "judge"]
  /\ UNCHANGED <<table, try, invalid, results, events>>

\* A rule of the action "fail" lets every row pass, or none.
Allow(g) ==
  /\ pc[g] = "act" /\ Rule(g).action = "fail" /\ Passed(Rule(g), table[g])
  /\ at' = [at EXCEPT ![g] = @ + 1] /\ pc' = [pc EXCEPT ![g] = "judge"]
  /\ UNCHANGED <<table, try, invalid, reject, results, stored, events>>

Fail(g) ==
  /\ pc[g] = "act" /\ Rule(g).action = "fail" /\ ~Passed(Rule(g), table[g])
  /\ pc' = [pc EXCEPT ![g] = "raised"]
  /\ UNCHANGED <<table, at, try, invalid, reject, results, stored, events>>

\* The rows that no rule rejected go downstream.
Pass(g) ==
  /\ pc[g] = "judge" /\ Done(g)
  /\ pc' = [pc EXCEPT ![g] = "passed"]
  /\ UNCHANGED <<table, at, try, invalid, reject, results, stored, events>>

\* The process dies, or an event or a quarantine asset cannot be written.
Fault(g) ==
  /\ pc[g] \in {"judge", "act"}
  /\ pc' = [pc EXCEPT ![g] = "raised"]
  /\ UNCHANGED <<table, at, try, invalid, reject, results, stored, events>>

Next ==
  \E g \in Gates :
    \/ Begin(g) \/ Judge(g) \/ Quarantine(g) \/ Allow(g) \/ Fail(g) \/ Pass(g) \/ Fault(g)

Spec == Init /\ [][Next]_vars

-------------------------------------------------------------------------------
Kept(g) == Rows(table[g], DOMAIN table[g] \ reject[g])

\* No row is lost: when a gate passes, every row it was given goes downstream or
\* lies in the quarantine asset of a rule that found it invalid, although rules
\* and gates replace assets and attempts end anywhere (quality.check, write).
NothingLost ==
  \A g \in Gates : pc[g] = "passed" =>
    \A i \in DOMAIN table[g] :
      \/ i \notin reject[g]
      \/ \E r \in DOMAIN RulesOf[g] :
           LET rule == RulesOf[g][r] IN
           /\ rule.action = "quarantine" /\ i \in Invalid(rule, table[g])
           /\ \E n \in DOMAIN stored[rule.asset] : stored[rule.asset][n] = table[g][i]

\* What passes a gate, and the rows of it that a rule about single rows refuses.
Refused(g, rule) ==
  {n \in DOMAIN Kept(g) : ~
     CASE rule.kind = "unique" ->
            /\ Kept(g)[n].key # Null
            /\ \A k \in 1 .. n - 1 : Kept(g)[k].key # Kept(g)[n].key
       [] rule.kind = "row_count" -> TRUE
       [] OTHER -> Good(rule, Kept(g), n)}

\* Rows of the gate's table go to quarantine.
Takes(g) ==
  \E q \in DOMAIN RulesOf[g] :
    RulesOf[g][q].action = "quarantine" /\ Invalid(RulesOf[g][q], table[g]) # {}

\* What goes downstream meets the rules of the gate, as a claim about the rows that
\* pass and not those that were judged: there is no row that a quarantine rule would
\* refuse; of a failing rule, no more than its rate allows of the rows that came in;
\* and no more rows than a row_count allows.  Its minimum is judged before the rows
\* are dropped (check_rows is always given the incoming rows), so fewer may pass,
\* where rows were quarantined, or of no rows, which only a failing rule can stop.
DownstreamClean ==
  \A g \in Gates : pc[g] = "passed" =>
    \A r \in DOMAIN RulesOf[g] :
      LET rule == RulesOf[g][r] IN
      /\ 100 * Cardinality(Refused(g, rule)) <=
           (IF rule.action = "fail" THEN rule.rate * Len(table[g]) ELSE 0)
      /\ rule.kind = "row_count" =>
           /\ Len(Kept(g)) <= rule.high
           /\ Len(Kept(g)) < rule.low =>
                Takes(g) \/ (table[g] = <<>> /\ rule.action = "quarantine")

\* The evidence accounts for the rows: when a gate passes there is a result for
\* each rule, a quarantine asset holds as many rows as its result counts, and of
\* every rate above the threshold this attempt has told; and before rows were
\* moved out of sight, somebody was told (results, _notify, then write).
EvidenceAccounts ==
  \A g \in Gates : \A r \in DOMAIN RulesOf[g] :
    LET rule == RulesOf[g][r]
        loud == RateAbove(rule, table[g], Threshold)
    IN /\ pc[g] = "passed" =>
            /\ Len(results[g]) = Len(RulesOf[g])
            /\ rule.action = "quarantine" => Len(stored[rule.asset]) = results[g][r]
            /\ loud => <<g, try[g], r>> \in events
       /\ rule.action = "quarantine" /\ stored[rule.asset] # <<>> /\ loud =>
            \E n \in 1 .. MaxTries : <<g, n, r>> \in events
===============================================================================
