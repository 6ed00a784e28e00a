-------------------------- MODULE ControlledLanguage ---------------------------
(***************************************************************************)
(* The offline frontend, ControlledProvider.generate, and interpret, which *)
(* every provider's answer goes through.  A request is what the patterns   *)
(* find in its text: names, the identifiers and aliases it mentions;       *)
(* words, the operations it speaks of; params, those of them whose         *)
(* parameters it gives; when, the schedule.  An answer is a specification, *)
(* questions, or a rejection.                                              *)
(***************************************************************************)
EXTENDS Validation, Integers, Sequences

CONSTANT NoSpec

Steps == {"deduplicate", "normalize", "aggregate"}
Checks == {"not_null", "unique", "schema"}
\* Everything the patterns look for, but names and schedules.
Words == Steps \cup Checks \cup
  {"exotic", "conflict", "unsupported", "unsafe", "yesterday", "production", "validate",
   "join", "combine", "quarantine", "alert", "append", "delete", "ad-hoc"}

Ready(spec) == [status |-> "ready", spec |-> spec, asks |-> {}]
Question(field) == [status |-> "needs_clarification", spec |-> NoSpec, asks |-> {field}]
Rejected == [status |-> "rejected", spec |-> NoSpec, asks |-> {}]

\* Catalog.resolve: identifiers come before aliases.
Resolve(cat, name) ==
  IF name \in DOMAIN cat THEN {name} ELSE {a \in DOMAIN cat : name \in cat[a].aliases}

Mentioned(req, cat) == {a \in DOMAIN cat : ({a} \cup cat[a].aliases) \cap req.names # {}}
SourcesOf(req, cat) ==
  {a \in Mentioned(req, cat) : Allows(cat, a, "read") /\ ~Allows(cat, a, "write")}
DestinationsOf(req, cat) ==
  {a \in Mentioned(req, cat) : Allows(cat, a, "write") /\ a # "quarantine"}

Many(req, cat) == Cardinality(SourcesOf(req, cat)) > 1

Ambiguous(req, cat) ==
  \E a \in SourcesOf(req, cat) : \E name \in cat[a].aliases \cap req.names :
    Cardinality(Resolve(cat, name)) > 1

\* A test asks for a field or for nothing; of a sequence, those that ask, and the first of them.
When(condition, field) == IF condition THEN field ELSE "nothing"
Asking(tests) == {i \in DOMAIN tests : tests[i] # "nothing"}
FirstAsked(tests) == tests[CHOOSE i \in Asking(tests) : \A j \in Asking(tests) : i <= j]

Has(req, word) == word \in req.words
Lacks(req, word) == Has(req, word) /\ word \notin req.params

\* Before it is looked at whether there is a previous specification.
GeneralTests(req) == <<
  When(Has(req, "exotic"), "capability"), When(Has(req, "conflict"), "schedule"),
  When(Has(req, "unsupported"), "adapter"), When(req.when = "vague", "schedule") >>

\* Fault: a rule without thresholds is let through.
CreationTestsLax(req, cat) == <<
  When(Ambiguous(req, cat), "source"), When(SourcesOf(req, cat) = {}, "source"),
  When(DestinationsOf(req, cat) = {} /\ ~Has(req, "join") /\ ~Has(req, "ad-hoc"), "destination"),
  When(Has(req, "production"), "owner") >>

CreationTests(req, cat) == <<
  When(Ambiguous(req, cat), "source"), When(SourcesOf(req, cat) = {}, "source"),
  When(DestinationsOf(req, cat) = {} /\ ~Has(req, "join") /\ ~Has(req, "ad-hoc"), "destination"),
  When(Has(req, "yesterday"), "time window"),
  When(Many(req, cat) /\ Lacks(req, "join"), "join keys"),
  When(Many(req, cat) /\ {"join", "combine"} \cap req.words = {}, "source"),
  When(Lacks(req, "deduplicate"), "deduplication key"),
  When(Lacks(req, "normalize"), "normalization"), When(Lacks(req, "aggregate"), "aggregation"),
  When({"quarantine", "validate"} \cap req.words # {} /\ Checks \cap req.words = {},
       "quality rule"),
  When(Has(req, "production"), "owner") >>

Kind(cat, a) == IF cat[a].type = "sqlite" THEN "sql" ELSE cat[a].type

\* One sound rule at most: the first of not_null, unique and schema.
RuleFor(kind, asset) == [kind |-> kind, sound |-> TRUE, asset |-> asset]
RulesOf(req) ==
  IF Has(req, "not_null")
    THEN {RuleFor("not_null", IF Has(req, "quarantine") THEN "quarantine" ELSE None)}
  ELSE IF Has(req, "unique") THEN {RuleFor("unique", None)}
  ELSE IF Has(req, "schema") THEN {RuleFor("schema", None)}
  ELSE {}

ModeOf(req) ==
  IF Has(req, "delete") THEN "rebuild" ELSE IF Has(req, "append") THEN "append" ELSE "replace"

Created(req, cat) ==
  LET sources == SourcesOf(req, cat)
      dests == DestinationsOf(req, cat)
  IN [sources |-> sources, dests |-> [a \in dests |-> ModeOf(req)], keyed |-> FALSE,
      reads |-> {<<Kind(cat, a), a>> : a \in sources},
      writes |-> {<<Kind(cat, a), a>> : a \in dests},
      steps |-> (Steps \cap req.words) \cup
                IF ~Many(req, cat) THEN {}
                ELSE IF Has(req, "join") THEN {"join"} ELSE {"combine"},
      rules |-> RulesOf(req), notes |-> {}, notices |-> {}, stops |-> FALSE,
      policies |-> IF Has(req, "append") THEN {} ELSE {"idempotent"},
      when |-> req.when]

NotificationAssets(cat) == {a \in DOMAIN cat : cat[a].type = "notification"}

\* The one change that a modification makes, of the three there are.
Change(req) ==
  IF req.when # "" THEN "schedule"
  ELSE IF Has(req, "quarantine") THEN "quarantine"
  ELSE IF Has(req, "alert") THEN "alert" ELSE "none"

ModificationTests(req, cat, old) == <<
  When(Change(req) = "quarantine" /\ old.rules = {}, "quality rule"),
  When(Change(req) = "quarantine" /\ Cardinality(Resolve(cat, "quarantine")) # 1,
       "quarantine destination"),
  When(Change(req) = "alert" /\ Cardinality(NotificationAssets(cat)) # 1,
       "notification destination"),
  When(Change(req) = "none", "modification") >>

Modified(req, cat, old) ==
  LET change == Change(req) IN
  [old EXCEPT
     !.when = IF change = "schedule" THEN req.when ELSE @,
     !.rules = IF change # "quarantine" THEN @ ELSE
       {[kind |-> r.kind, sound |-> r.sound,
         asset |-> CHOOSE a \in Resolve(cat, "quarantine") : TRUE] : r \in @},
     !.notes = IF change # "alert" THEN @ ELSE
       {[asset |-> a, on |-> "quality"] : a \in NotificationAssets(cat)}]

Tests(req, cat, old) ==
  IF Asking(GeneralTests(req)) # {} THEN GeneralTests(req)
  ELSE IF old = NoSpec THEN CreationTests(req, cat) ELSE ModificationTests(req, cat, old)

Generate(req, cat, old) ==
  IF Asking(Tests(req, cat, old)) # {} THEN Question(FirstAsked(Tests(req, cat, old)))
  ELSE Ready(IF old = NoSpec THEN Created(req, cat) ELSE Modified(req, cat, old))

\* What interpret makes of any answer, right or wrong.
Settled(raw, cat) ==
  CASE raw.status = "ready" ->
         IF raw.spec # NoSpec /\ raw.asks = {} /\ Valid(raw.spec, cat) THEN raw ELSE Rejected
    [] raw.status = "needs_clarification" ->
         IF raw.asks # {} THEN [raw EXCEPT !.spec = NoSpec] ELSE Rejected
    [] OTHER -> [raw EXCEPT !.spec = NoSpec]

\* screen_prompt, of the request and of the answer
Interpret(req, cat, old) ==
  IF Has(req, "unsafe") THEN Rejected ELSE Settled(Generate(req, cat, old), cat)
===============================================================================
