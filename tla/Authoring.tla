------------------------------ MODULE Authoring -------------------------------
(***************************************************************************)
(* nlpipe create and nlpipe compile, run by several people in one          *)
(* directory.  create writes a specification and, beside it, the DAG of it,*)
(* after a test that neither is there; compile writes a DAG and its test.  *)
(* Nothing locks the directory, save opens the file for writing before it  *)
(* has the text in it, and any command may die at any step.                *)
(***************************************************************************)
EXTENDS ControlledLanguage

CONSTANTS
  Commands,   \* identifiers of the commands that are run
  Paths,
  Dag(_),     \* out.with_suffix(".py")
  Test(_),    \* out.with_name("test_" + out.stem + ".py")
  Catalog,
  Disks,      \* what the directory may hold at the beginning
  Jobs        \* the commands that may be run together: functions of Commands

\* The types that an asset may be of.
AssetTypes == StoredTypes \cup {"http", "postgresql", "object_storage", "notification"}
ASSUME CatalogAssumption ==
  /\ IsFiniteSet(DOMAIN Catalog) /\ None \notin DOMAIN Catalog \cup {"quarantine"}
  /\ \A a \in DOMAIN Catalog : Catalog[a].type \in AssetTypes
ASSUME PathsAssumption == \A p \in Paths : {Dag(p), Test(p)} \subseteq Paths

\* A DAG and its test are two files; a model's answer is parsed as a specification.
ASSUME JobsAssumption ==
  \A j \in Jobs : DOMAIN j = Commands /\ \A c \in Commands :
    /\ j[c].kind \in {"create", "compile", "none"} /\ j[c].out \in Paths
    /\ j[c].from \in Paths \cup {None}
    /\ j[c].kind = "compile" => Test(j[c].out) # j[c].out
    /\ j[c].req.words \subseteq Words
    /\ j[c].raw # NoSpec => DOMAIN j[c].raw = Fields

\* The DAGs that are there at the beginning are whole, and the specifications are some.
ASSUME DisksAssumption ==
  \A disk \in Disks : DOMAIN disk = Paths /\ \A p \in Paths :
    /\ p = Dag(p) => \/ disk[p].kind \in {"absent", "test"}
                     \/ disk[p].kind = "dag" /\ Valid(disk[p].spec, Catalog)
    /\ disk[p].kind = "spec" => disk[p].spec # NoSpec /\ DOMAIN disk[p].spec = Fields

VARIABLES
  job,     \* [kind, out, from, req, raw]; kind is "create", "compile" or "none", from is
           \* the previous specification or the one to compile, raw a model's answer, or
           \* NoSpec where the controlled language answers
  files,   \* what every path holds
  pc,      \* where each command is
  answer,  \* what interpret returned, or what was loaded to be compiled
  stood    \* history: the paths that were there when the command tested for its own

vars == <<job, files, pc, answer, stood>>

Absent == [kind |-> "absent", spec |-> NoSpec]
Empty == [kind |-> "empty", spec |-> NoSpec]   \* opened for writing
Torn == [kind |-> "torn", spec |-> NoSpec]     \* texts of two commands, or a piece
Holds(kind, spec) == [kind |-> kind, spec |-> spec]

There(p) == files[p].kind # "absent"
Out(c) == job[c].out

Init ==
  /\ job \in Jobs /\ files \in Disks
  /\ pc = [c \in Commands |-> IF job[c].kind = "none" THEN "ended" ELSE "load"]
  /\ answer = [c \in Commands |-> Rejected]
  /\ stood = [c \in Commands |-> {}]

Goto(c, step) == pc' = [pc EXCEPT ![c] = step]
At(c, kind, step) == job[c].kind = kind /\ pc[c] = step
Write(p, content) == files' = [files EXCEPT ![p] = content]

\* load: a file that is not there, half there, or no specification, is refused.
Loads(p) == p # None /\ files[p].kind = "spec"

\* create: the previous specification is read and the request interpreted.  Only a
\* ready answer goes on to the files.
Ask(c) ==
  /\ At(c, "create", "load")
  /\ IF job[c].from # None /\ ~Loads(job[c].from)
       THEN Goto(c, "refused") /\ UNCHANGED answer
       ELSE LET old == IF job[c].from = None THEN NoSpec ELSE files[job[c].from].spec
                result == IF job[c].raw = NoSpec THEN Interpret(job[c].req, Catalog, old)
                          ELSE Settled(Ready(job[c].raw), Catalog)
            IN /\ answer' = [answer EXCEPT ![c] = result]
               /\ Goto(c, IF result.status = "ready" THEN "test" ELSE "ended")
  /\ UNCHANGED <<job, files, stood>>

\* Fault: it is enough that the specification is new.
TestPathOnly(c) ==
  /\ At(c, "create", "test")
  /\ stood' = [stood EXCEPT ![c] = {p \in Paths : There(p)}]
  /\ Goto(c, IF There(Out(c)) THEN "refused" ELSE "open")
  /\ UNCHANGED <<job, files, answer>>

\* Neither the specification nor its DAG may be there.
TestPath(c) ==
  /\ At(c, "create", "test")
  /\ stood' = [stood EXCEPT ![c] = {p \in Paths : There(p)}]
  /\ Goto(c, IF There(Out(c)) \/ There(Dag(Out(c))) THEN "refused" ELSE "open")
  /\ UNCHANGED <<job, files, answer>>

\* save, that is, write_text: the file is opened, and emptied,
Open(c) ==
  /\ At(c, "create", "open") /\ Write(Out(c), Empty) /\ Goto(c, "text")
  /\ UNCHANGED <<job, answer, stood>>

\* and filled; over the text of another that opened it too, a mixture may be left.
Fill(c) ==
  /\ At(c, "create", "text")
  /\ \/ Write(Out(c), Holds("spec", answer[c].spec))
     \/ files[Out(c)] # Empty /\ Write(Out(c), Torn)
  /\ Goto(c, "dag")
  /\ UNCHANGED <<job, answer, stood>>

\* Fault: the DAG is written as the specification is.
PutDagInPlace(c) ==
  /\ At(c, "create", "dag")
  /\ IF files[Dag(Out(c))] = Empty
       THEN Write(Dag(Out(c)), Holds("dag", answer[c].spec)) /\ Goto(c, "done")
       ELSE Write(Dag(Out(c)), Empty) /\ UNCHANGED pc
  /\ UNCHANGED <<job, answer, stood>>

\* The DAG is put in place at once.
PutDag(c) ==
  /\ At(c, "create", "dag")
  /\ Write(Dag(Out(c)), Holds("dag", answer[c].spec)) /\ Goto(c, "done")
  /\ UNCHANGED <<job, answer, stood>>

\* compile: the specification is read, and validated;
LoadSpec(c) ==
  /\ At(c, "compile", "load")
  /\ IF Loads(job[c].from) /\ Valid(files[job[c].from].spec, Catalog)
       THEN /\ answer' = [answer EXCEPT ![c] = Ready(files[job[c].from].spec)]
            /\ stood' = [stood EXCEPT ![c] = {p \in Paths : There(p)}]
            /\ Goto(c, "dag")
       ELSE Goto(c, "refused") /\ UNCHANGED <<answer, stood>>
  /\ UNCHANGED <<job, files>>

\* the DAG replaces what was there,
PutCompiled(c) ==
  /\ At(c, "compile", "dag")
  /\ Write(Out(c), Holds("dag", answer[c].spec)) /\ Goto(c, "test")
  /\ UNCHANGED <<job, answer, stood>>

\* and so does its test.
PutTest(c) ==
  /\ At(c, "compile", "test")
  /\ Write(Test(Out(c)), Holds("test", answer[c].spec)) /\ Goto(c, "done")
  /\ UNCHANGED <<job, answer, stood>>

\* An I/O error, or the end of the process; a text may be cut short.
Fault(c) ==
  /\ pc[c] \in {"open", "text", "dag"} \/ At(c, "compile", "test")
  /\ Goto(c, "failed")
  /\ \/ UNCHANGED files
     \/ pc[c] = "text" /\ Write(Out(c), Torn)
  /\ UNCHANGED <<job, answer, stood>>

Next == \E c \in Commands :
  \/ Ask(c) \/ TestPath(c) \/ Open(c) \/ Fill(c) \/ PutDag(c)
  \/ LoadSpec(c) \/ PutCompiled(c) \/ PutTest(c) \/ Fault(c)

Spec == Init /\ [][Next]_vars

-------------------------------------------------------------------------------
\* What a command writes, and whether it has come so far that it may.
Writes(c) ==
  IF job[c].kind = "create" THEN {Out(c), Dag(Out(c))} ELSE {Out(c), Test(Out(c))}
Writing(c) == pc[c] \in {"open", "text", "dag", "done", "failed"} \/ At(c, "compile", "test")
Product(c, p) ==
  IF job[c].kind = "compile" THEN Holds(IF p = Out(c) THEN "dag" ELSE "test", answer[c].spec)
  ELSE Holds(IF p = Out(c) THEN "spec" ELSE "dag", answer[c].spec)

\* Two commands met at p: it was not there when either of them looked, or one of
\* them compiles to it, and does not look.
Met(c, d, p) ==
  /\ Writing(c) /\ Writing(d) /\ p \in Writes(c) \cap Writes(d)
  /\ "compile" \in {job[c].kind, job[d].kind} \/ p \notin stood[c] \cup stood[d]

\* What create reported as VALIDATED stays: a specification and the DAG of that very
\* specification, whatever else is created afterwards beside it, cut short or refused;
\* and what compile wrote stays a DAG and the test of it.  (USER_MANUAL: "an accidental
\* rerun cannot replace a reviewed pipeline".)  Not so where two commands met at a
\* path, since test and write are separate steps, nor for an output named .py, where
\* the DAG takes the place of its specification.
PairAgrees ==
  \A c \in Commands : \A p \in Writes(c) :
    pc[c] = "done" =>
      \/ files[p] = Product(c, p)
      \/ \E d \in Commands \ {c} : Met(c, d, p)
      \/ job[c].kind = "create" /\ Dag(Out(c)) = Out(c)

\* Whoever reads a DAG meanwhile, Airflow above all, finds it whole and of a valid
\* specification, unless somebody creates a specification under its name.
DagsWhole ==
  \A p \in Paths : p = Dag(p) /\ There(p) =>
    \/ files[p].kind = "test"
    \/ files[p].kind = "dag" /\ Valid(files[p].spec, Catalog)
    \/ \E c \in Commands : job[c].kind = "create" /\ Out(c) = p

\* Whether a specification gives what a word of the request asks for; the last are
\* answered by a question or not at all.
Gives(spec, word) ==
  /\ word \in Checks => \E r \in spec.rules : r.kind = word
  /\ word = "quarantine" => \E r \in spec.rules : r.asset # None
  /\ word = "alert" => spec.notes # {}
  /\ word = "append" => \A a \in DOMAIN spec.dests : spec.dests[a] = "append"
  /\ word = "delete" => \A a \in DOMAIN spec.dests : spec.dests[a] = "rebuild"
  /\ word \in Steps \cup {"join", "combine"} => word \in spec.steps
  /\ word \notin {"exotic", "conflict", "unsupported", "unsafe", "yesterday", "production"}

\* The words that the controlled language drops without a question.
Droppable(c) ==
  LET req == job[c].req IN
  IF job[c].from # None
    THEN req.words \ (IF Change(req) = "schedule" THEN {} ELSE {Change(req)})
  ELSE {"alert"} \* there is no notification at creation
    \cup (IF Has(req, "not_null") THEN {"unique", "schema"} ELSE {"quarantine"})
    \cup (IF Has(req, "unique") THEN {"schema"} ELSE {})
    \cup (IF ~Many(req, Catalog) THEN {"join", "combine"} ELSE {})
    \cup (IF Has(req, "join") THEN {"combine"} ELSE {})
    \cup (IF Has(req, "delete") THEN {"append"} ELSE {})

\* A name of the request stands for this asset alone, or is both an alias and the
\* identifier of another asset, where the code takes the two.
Named(req, a) ==
  \E name \in req.names :
    Resolve(Catalog, name) = {a} \/ (name \in Catalog[a].aliases /\ name \in DOMAIN Catalog)

Controlled(c) == job[c].kind = "create" /\ job[c].raw = NoSpec /\ answer[c].status = "ready"

\* A ready answer of the controlled language gives everything the request asks for,
\* and reads nothing whose name is ambiguous: "unsupported requests ask questions"
\* (controlled.py:1).  Excepted are the words it drops; see Droppable.
AnswersWhole ==
  \A c \in Commands : Controlled(c) =>
    LET req == job[c].req  spec == answer[c].spec IN
    /\ \A word \in req.words \ Droppable(c) : Gives(spec, word)
    /\ req.when # "" => spec.when = req.when
    /\ job[c].from = None => \A a \in spec.sources : Named(req, a)

\* Refusals that validate does not foresee: SQL assets without a table or a schema,
\* HTTP without the administrator's consent, a quarantine asset of a type that cannot
\* be written, the asset of an ops.notification.
Unforeseen(refusal) ==
  LET op == refusal[1]  asset == Catalog[refusal[2]] IN
  \/ op = "notice"
  \/ op \in {"read", "write", "quarantine"} /\ asset.type = "sqlite" /\ ~asset.table
  \/ op = "read" /\ asset.type = "http"
  \/ op = "quarantine" /\ asset.type \notin StoredTypes

Answered(c) == answer[c].status = "ready"

\* What interpret hands on, whoever answered, runs: none of the look-ups that
\* execute_task and storage make is refused, but for those validate does not foresee.
ValidRuns ==
  \A c \in Commands : Answered(c) =>
    \A refusal \in Refusals(answer[c].spec, Catalog) : Unforeseen(refusal)

\* What may run without an approval writes, with its outputs and its quarantines,
\* only where the catalog permits it, never outside, and destroys no table to
\* rebuild it.
GuardedEffects ==
  \A c \in Commands : Answered(c) /\ ~RequiresApproval(answer[c].spec, Catalog) =>
    \A effect \in Effects(answer[c].spec) :
      /\ Allows(Catalog, effect[1], "write") /\ ~Catalog[effect[1]].external
      /\ effect[2] # "rebuild"
===============================================================================
