----------------------------- MODULE MCAuthoring ------------------------------
(* Two creates and a compile at once over few paths, or one create alone with any *)
(* of many requests, or of many answers of a model.                               *)
EXTENDS Authoring

A(type, ops, aliases, external, table) ==
  [type |-> type, ops |-> ops, aliases |-> aliases, external |-> external, table |-> table]

\* Assets of which each can go wrong in its own way.
MCCatalog == [
  orders |-> A("csv", {"read"}, {"sales", "ledger"}, FALSE, FALSE),
  returns |-> A("json", {"read"}, {"sales", "refunds"}, FALSE, FALSE),
  ledger |-> A("sqlite", {"read"}, {}, FALSE, TRUE),
  scratch |-> A("sqlite", {"read", "write"}, {}, FALSE, FALSE),
  feed |-> A("http", {"read"}, {}, FALSE, FALSE),
  analytics |-> A("jsonl", {"write", "delete"}, {"out"}, FALSE, FALSE),
  partner |-> A("csv", {"write"}, {"out"}, TRUE, FALSE),
  warehouse |-> A("postgresql", {"write"}, {}, FALSE, FALSE),
  quarantine |-> A("jsonl", {"write"}, {}, FALSE, FALSE),
  ops |-> A("notification", {"notify"}, {}, FALSE, FALSE)]

\* Sets of records are written as such: TLC takes them one by one.
Requests ==
  [names : {{"orders", "analytics"}, {"orders", "refunds", "analytics"}, {"sales", "analytics"},
            {"ledger", "out"}, {"scratch", "feed", "partner"}, {"orders"}},
   words : {{w, v} : w, v \in Words} \cup {{}},
   params : {{}, {"join", "deduplicate", "normalize", "aggregate"}},
   when : {"", "daily", "vague"}]
Asks(names, words, when) == [names |-> names, words |-> words, params |-> {}, when |-> when]

Base == [sources |-> {"orders"}, dests |-> [a \in {"analytics"} |-> "replace"], keyed |-> FALSE,
         reads |-> {<<"csv", "orders">>}, writes |-> {<<"jsonl", "analytics">>}, steps |-> {},
         rules |-> {}, notes |-> {}, notices |-> {}, stops |-> FALSE,
         policies |-> {"idempotent"}, when |-> ""]
Rule(kind, sound, asset) == [kind |-> kind, sound |-> sound, asset |-> asset]
Draft == [Base EXCEPT !.rules = {Rule("not_null", TRUE, None), Rule("range", TRUE, None)}]

\* Answers of a model: the assets and adapters of its tasks; its rules and policies;
\* its events.
Modes == {"replace", "append", "upsert", "rebuild"}
Answers(sources, dests, keyed, reads, writes, rules, notes, notices, stops, policies) ==
  [sources : sources, dests : dests, keyed : keyed, reads : reads, writes : writes,
   steps : {{}}, rules : rules, notes : notes, notices : notices, stops : stops,
   policies : policies, when : {""}]
Reading ==
  Answers({{"orders"}, {"scratch"}, {"feed"}}, {Base.dests}, {FALSE},
    {{<<kind, a>>} : kind \in {"csv", "sql", "filesystem", "http", "kafka"},
                     a \in {"orders", "ledger", "scratch", "feed", "nowhere"}},
    {Base.writes}, {{}}, {{}}, {{}}, {FALSE}, {{}})
Delivering(d) ==
  Answers({{"orders"}}, [{d} -> Modes], BOOLEAN, {Base.reads},
    {{<<kind, a>>} : kind \in {"jsonl", "csv", "sql", "filesystem", "postgresql"},
                     a \in {"analytics", "partner", "scratch", "warehouse", "orders"}},
    {{}}, {{}}, {{}}, {FALSE}, {{}, {"idempotent"}, {"deny_external_write"}})
Governed ==
  Answers({{"orders"}}, {Base.dests}, {FALSE}, {Base.reads}, {Base.writes},
    {{Rule(kind, sound, asset)} : kind \in {"not_null", "distribution"}, sound \in BOOLEAN,
                                  asset \in DOMAIN MCCatalog \cup {None, "nowhere"}},
    {{}}, {{}}, {FALSE},
    {{}, {"idempotent"}, {"production"}, {"production", "owner"}, {"require_approval"}})
Informed ==
  Answers({{"orders"}}, {Base.dests}, {FALSE}, {Base.reads}, {Base.writes}, {{}},
    {{}} \cup {{[asset |-> a, on |-> on]} : a \in {"ops", "orders", "nowhere"},
                                           on \in {"quality", "failure"}},
    {{}, {"ops"}, {"orders"}, {"nowhere"}}, BOOLEAN, {{}})

Suffix == [first_yaml |-> "first_py", first_json |-> "first_py", first_py |-> "first_py",
           second_yaml |-> "second_py", second_py |-> "second_py", draft_yaml |-> "draft_py",
           draft_py |-> "draft_py", test_py |-> "test_py", test2_py |-> "test2_py"]
MCPaths == DOMAIN Suffix
MCDag(p) == Suffix[p]
MCTest(p) == IF p = "first_py" THEN "test_py" ELSE "test2_py"

\* Nothing but a draft, or a DAG that somebody put there, or a text cut short.
Disk(p, content) == [q \in MCPaths |->
  IF q = "draft_yaml" THEN Holds("spec", Draft) ELSE IF q = p THEN content ELSE Absent]
MCDisks == {Disk("draft_py", Absent), Disk("first_py", Holds("dag", Base)),
            Disk("second_yaml", Torn)}

Job(kind, out, from, req) ==
  [kind : kind, out : out, from : from, req : req, raw : {NoSpec}]
Nothing == Asks({}, {}, "")
NoJob == Job({"none"}, {"first_yaml"}, {None}, {Nothing})
Outs == {"first_yaml", "first_json", "first_py", "second_yaml"}
Compiles ==
  Job({"compile"}, {"first_py", "second_py"}, {"first_yaml", "draft_yaml"}, {Nothing})

MCCommands == {"ann", "ben", "cy"}
Together ==
  [ann : Job({"create"}, Outs, {None}, {Asks({"orders", "analytics"}, {"not_null"}, "")}),
   ben : Job({"create"}, Outs, {None, "first_yaml"}, {Asks({"orders", "analytics"}, {}, "daily")}),
   cy : Compiles \cup NoJob]
Alone(jobs) == [ann : jobs, ben : NoJob, cy : NoJob]
Given(raws) ==
  Alone([kind : {"create"}, out : {"first_yaml"}, from : {None}, req : {Nothing}, raw : raws])
MCJobs ==
  Together
  \cup Alone(Job({"create"}, {"first_yaml"}, {None, "draft_yaml"}, Requests))
  \cup Given(Reading) \cup Given(Delivering("analytics")) \cup Given(Delivering("partner"))
  \cup Given(Delivering("scratch")) \cup Given(Governed) \cup Given(Informed)
===============================================================================
