------------------------------ MODULE Lifecycle -------------------------------
(***************************************************************************)
(* From the reviewed specification to its runs and back: approve, deploy,  *)
(* the admission of a worker, run, observe and repair.  The specification, *)
(* the catalog, the approval, the DAG with its manifest, the run record and*)
(* the proposal are files, each read when a command needs it, while people *)
(* go on editing them.  A digest is modelled by what it is the digest of.  *)
(* A specification fixes its environment, so binding both adds nothing.    *)
(***************************************************************************)
EXTENDS Integers, FiniteSets

CONSTANTS
  Designs,         \* what a specification says but for its retries
  Normal(_),       \* Normal(d): the normalized design
  RetryLimit,      \* the 10 of propose_retry and of the schema
  Catalogs,
  Valid(_, _),     \* Valid(s, c): validate finds no error
  Sensitive(_, _), \* Sensitive(s, c): a decision of policy is REQUIRES_APPROVAL
  Life,            \* how long an approval lasts
  None,            \* no such file
  MaxClock, MaxCommands, MaxSigned  \* bounds: the time, what people do, and approvals

Specs == [design : Designs, retries : 0 .. RetryLimit]
Norm(s) == [s EXCEPT !.design = Normal(@)]

ASSUME LimitsAssumption ==
  RetryLimit \in Nat /\ Life \in Nat /\ MaxClock \in Nat /\ MaxCommands \in Nat

\* Normalizing a normalized design changes nothing (Planner's NormalForm), and validate
\* normalizes what it is given before it judges it.
ASSUME NormalAssumption ==
  /\ \A d \in Designs : Normal(d) \in Designs /\ Normal(Normal(d)) = Normal(d)
  /\ \A s \in Specs, c \in Catalogs :
       /\ Valid(s, c) <=> Valid(Norm(s), c)
       /\ Sensitive(s, c) <=> Sensitive(Norm(s), c)

VARIABLES
  spec, catalog, approval,  \* the files the commands are given
  clock,
  signed,      \* history: the approvals that were ever signed
  job,         \* the deploy command under way: [pc, spec, approval, catalog]
  dag,         \* <pipeline>.py: [spec, catalog] as compiled, or None
  manifest,    \* <pipeline>.manifest.json: [dag, approval], or None
  worker,      \* a task attempt: [pc, spec, catalog, time]
  record,      \* a PipelineRun in a file: [hash, status], and [ran, by] as history
  proposal,    \* the RepairProposal: [base, proposed], or None
  refused,     \* whether the latest repair was refused
  commands     \* how many commands and edits there were

files == <<spec, catalog, approval>>
loop == <<record, proposal, refused>>
vars == <<files, clock, signed, job, dag, manifest, worker, loop, commands>>

NoJob == [pc |-> "none"]
Idle == [pc |-> "idle"]

Init ==
  /\ spec \in Specs /\ catalog \in Catalogs /\ approval = None
  /\ clock = 0 /\ signed = {} /\ job = NoJob /\ dag = None /\ manifest = None
  /\ worker = Idle /\ record = None /\ proposal = None /\ refused = FALSE
  /\ commands = 0

Command == commands < MaxCommands /\ commands' = commands + 1

\* Fault: an approval is good for ever.
AdmitsForever(s, c, a, time) ==
  /\ Valid(s, c)
  /\ Sensitive(s, c) =>
       a # None /\ a.spec = Norm(s) /\ a.catalog = c /\ a.issued <= time

\* check_approval
Admits(s, c, a, time) ==
  /\ Valid(s, c)
  /\ Sensitive(s, c) =>
       /\ a # None /\ a.spec = Norm(s) /\ a.catalog = c
       /\ a.issued <= time /\ time < a.expires

-------------------------------------------------------------------------------
Tick ==
  /\ clock < MaxClock /\ clock' = clock + 1
  /\ UNCHANGED <<files, signed, job, dag, manifest, worker, loop, commands>>

EditSpec ==
  /\ Command /\ spec' \in Specs \ {spec}
  /\ UNCHANGED <<catalog, approval, clock, signed, job, dag, manifest, worker, loop>>

EditCatalog ==
  /\ Command /\ catalog' \in Catalogs \ {catalog}
  /\ UNCHANGED <<spec, approval, clock, signed, job, dag, manifest, worker, loop>>

\* nlpipe approve: somebody signs what the files hold; the old file is replaced.
Approve ==
  LET given == [spec |-> Norm(spec), catalog |-> catalog,
                issued |-> clock, expires |-> clock + Life]
  IN /\ Command /\ Valid(spec, catalog)
     /\ Cardinality(signed \cup {given}) <= MaxSigned
     /\ signed' = signed \cup {given} /\ approval' = given
     /\ UNCHANGED <<spec, catalog, clock, job, dag, manifest, worker, loop>>

\* nlpipe deploy: the specification and the approval are read,
Deploy ==
  /\ Command /\ job = NoJob
  /\ job' = [pc |-> "check", spec |-> spec, approval |-> approval]
  /\ UNCHANGED <<files, clock, signed, dag, manifest, worker, loop>>

\* Fault: the catalog is read again for the DAG.
CheckThenRead ==
  /\ job.pc = "check" /\ Admits(job.spec, catalog, job.approval, clock)
  /\ \E c \in Catalogs : Valid(job.spec, c) /\
       job' = [pc |-> "dag", spec |-> job.spec, approval |-> job.approval, catalog |-> c]
  /\ UNCHANGED <<files, clock, signed, dag, manifest, worker, loop, commands>>

\* then the catalog; check_approval, verify, and compile_airflow of what was read;
Check ==
  /\ job.pc = "check"
  /\ IF Admits(job.spec, catalog, job.approval, clock)
       THEN job' = [pc |-> "dag", spec |-> job.spec, approval |-> job.approval,
                    catalog |-> catalog]
       ELSE job' = NoJob
  /\ UNCHANGED <<files, clock, signed, dag, manifest, worker, loop, commands>>

Compiled == [spec |-> Norm(job.spec), catalog |-> job.catalog]

\* the DAG is put in the folder,
PutDag ==
  /\ job.pc = "dag" /\ dag' = Compiled /\ job' = [job EXCEPT !.pc = "manifest"]
  /\ UNCHANGED <<files, clock, signed, manifest, worker, loop, commands>>

\* Fault: the evidence is the approval file of the moment.
PutManifestNow ==
  /\ job.pc = "manifest"
  /\ manifest' = [dag |-> Compiled, approval |-> approval]
  /\ job' = NoJob
  /\ UNCHANGED <<files, clock, signed, dag, worker, loop, commands>>

\* and the manifest beside it.
PutManifest ==
  /\ job.pc = "manifest"
  /\ manifest' = [dag |-> Compiled, approval |-> job.approval]
  /\ job' = NoJob
  /\ UNCHANGED <<files, clock, signed, dag, worker, loop, commands>>

\* verify fails, a write fails, or the process dies.
Abandon ==
  /\ job # NoJob /\ job' = NoJob
  /\ UNCHANGED <<files, clock, signed, dag, manifest, worker, loop, commands>>

-------------------------------------------------------------------------------
\* Airflow starts a task of the DAG in the folder: airflow_execute,
Start ==
  /\ worker.pc \in {"idle", "refused"} /\ dag # None
  /\ worker' = [pc |-> "catalog", spec |-> dag.spec, catalog |-> dag.catalog]
  /\ UNCHANGED <<files, clock, signed, job, dag, manifest, loop, commands>>

Refuse == worker' = [pc |-> "refused", spec |-> worker.spec, catalog |-> worker.catalog]

\* which reads the catalog and compares digests,
ReadCatalog ==
  /\ worker.pc = "catalog"
  /\ IF catalog = worker.catalog THEN worker' = [worker EXCEPT !.pc = "approval"]
       ELSE Refuse
  /\ UNCHANGED <<files, clock, signed, job, dag, manifest, loop, commands>>

\* Fault: the worker wants an approval whether or not anything is sensitive.
ReadApprovalAlways ==
  /\ worker.pc = "approval"
  /\ IF approval # None /\ Admits(worker.spec, worker.catalog, approval, clock)
       THEN worker' = [pc |-> "acting", spec |-> worker.spec, catalog |-> worker.catalog,
                       time |-> clock]
       ELSE Refuse
  /\ UNCHANGED <<files, clock, signed, job, dag, manifest, loop, commands>>

\* and then reads and checks the approval, before the task does anything.
ReadApproval ==
  /\ worker.pc = "approval"
  /\ IF Admits(worker.spec, worker.catalog, approval, clock)
       THEN worker' = [pc |-> "acting", spec |-> worker.spec, catalog |-> worker.catalog,
                       time |-> clock]
       ELSE Refuse
  /\ UNCHANGED <<files, clock, signed, job, dag, manifest, loop, commands>>

Stop ==
  /\ worker.pc = "acting" /\ worker' = Idle
  /\ UNCHANGED <<files, clock, signed, job, dag, manifest, loop, commands>>

-------------------------------------------------------------------------------
\* Fault: the record is of the specification as it is in the file.
RunUnnormalized ==
  /\ Command /\ Admits(spec, catalog, approval, clock)
  /\ \E status \in {"success", "failed"} :
       record' = [hash |-> spec, status |-> status, ran |-> Norm(spec), by |-> "local"]
  /\ UNCHANGED <<files, clock, signed, job, dag, manifest, worker, proposal, refused>>

\* nlpipe run: see LocalRunner.  The record is of the normalized specification.
RunLocally ==
  /\ Command /\ Admits(spec, catalog, approval, clock)
  /\ \E status \in {"success", "failed"} :
       record' = [hash |-> Norm(spec), status |-> status, ran |-> Norm(spec), by |-> "local"]
  /\ UNCHANGED <<files, clock, signed, job, dag, manifest, worker, proposal, refused>>

\* Airflow's state of a run, with its task instances or without; from_airflow
\* knows the tasks of the file it is given, and takes the run for a run of that.
Observe ==
  /\ Command /\ dag # None
  /\ \E status \in {"success", "failed", "running"}, instances \in BOOLEAN :
       /\ instances => spec.design = Normal(spec.design)
       /\ record' = [hash |-> spec, status |-> status, ran |-> dag.spec, by |-> "airflow"]
  /\ UNCHANGED <<files, clock, signed, job, dag, manifest, worker, proposal, refused>>

\* Fault: any failed run of the pipeline will do.
AnswersAny == record.status = "failed" /\ record.hash.design = spec.design

\* propose_retry: the evidence must be of this very file, and of a failure.
Answers == record.status = "failed" /\ record.hash = spec

\* nlpipe repair
Repair ==
  /\ Command /\ record # None
  /\ refused' = ~Answers
  /\ proposal' = IF ~Answers THEN proposal
       ELSE [base |-> spec,
             proposed |-> [spec EXCEPT !.retries = IF @ < RetryLimit THEN @ + 1 ELSE RetryLimit]]
  /\ UNCHANGED <<files, clock, signed, job, dag, manifest, worker, record>>

\* Somebody takes the proposal for the specification.
Adopt ==
  /\ Command /\ proposal # None /\ spec' = proposal.proposed
  /\ UNCHANGED <<catalog, approval, clock, signed, job, dag, manifest, worker, loop>>

People ==
  \/ EditSpec \/ EditCatalog \/ Approve \/ Deploy \/ RunLocally \/ Observe \/ Repair \/ Adopt
Programs ==
  \/ Check \/ PutDag \/ PutManifest \/ Abandon
  \/ Start \/ ReadCatalog \/ ReadApproval \/ Stop

Next == Tick \/ People \/ Programs

Spec == Init /\ [][Next]_vars

-------------------------------------------------------------------------------
Approvals == [spec : Specs, catalog : Catalogs, issued : 0 .. MaxClock,
              expires : 0 .. MaxClock + Life]
Artifacts == [spec : Specs, catalog : Catalogs]
Jobs ==
  {NoJob} \cup [pc : {"check"}, spec : Specs, approval : signed \cup {None}]
    \cup [pc : {"dag", "manifest"}, spec : Specs, approval : signed \cup {None},
          catalog : Catalogs]
Attempts ==
  {Idle} \cup [pc : {"catalog", "approval", "refused"}, spec : Specs, catalog : Catalogs]
    \cup [pc : {"acting"}, spec : Specs, catalog : Catalogs, time : 0 .. MaxClock]
Records == [hash : Specs, status : {"success", "failed", "running"}, ran : Specs,
            by : {"local", "airflow"}]

TypeOK ==
  /\ spec \in Specs /\ catalog \in Catalogs /\ approval \in signed \cup {None}
  /\ clock \in 0 .. MaxClock /\ signed \subseteq Approvals
  /\ job \in Jobs /\ dag \in Artifacts \cup {None} /\ worker \in Attempts
  /\ manifest \in [dag : Artifacts, approval : signed \cup {None}] \cup {None}
  /\ record \in Records \cup {None}
  /\ proposal \in [base : Specs, proposed : Specs] \cup {None}
  /\ refused \in BOOLEAN /\ commands \in 0 .. MaxCommands

\* An approval somebody signed for exactly this specification and this catalog.
Covers(a, s, c) == a \in signed /\ a.spec = Norm(s) /\ a.catalog = c

\* A task acts only on a normalized specification that is valid with the catalog it
\* names and, where that is sensitive, under an approval of exactly the two, signed
\* by somebody and alive when the task was admitted; whoever edits, approves, repairs
\* or deploys meanwhile.
ActsAuthorised ==
  worker.pc = "acting" =>
    /\ Valid(worker.spec, worker.catalog) /\ worker.spec = Norm(worker.spec)
    /\ Sensitive(worker.spec, worker.catalog) =>
         \E a \in signed :
           /\ Covers(a, worker.spec, worker.catalog)
           /\ a.issued <= worker.time /\ worker.time < a.issued + Life

\* What lies in the DAG folder was valid and approved as a pair with its catalog,
\* although the two are read one after the other and may be edited in between.
InstalledAuthorised ==
  dag # None =>
    /\ Valid(dag.spec, dag.catalog)
    /\ Sensitive(dag.spec, dag.catalog) => \E a \in signed : Covers(a, dag.spec, dag.catalog)

\* The manifest's evidence proves the artifact the manifest names, even when it is
\* not the artifact in the folder any more.
ManifestProves ==
  manifest # None /\ Sensitive(manifest.dag.spec, manifest.dag.catalog) =>
    manifest.approval # None /\ Covers(manifest.approval, manifest.dag.spec, manifest.dag.catalog)

\* A worker refuses only for a reason outside the DAG:
\* the catalog is another, or no living approval covers it.  The spec embedded in
\* the DAG is normal, and normalizing it again does not estrange its approval.
RefusesForCause ==
  [][worker'.pc = "refused" /\ worker.pc # "refused" =>
       \/ catalog # worker.catalog
       \/ Sensitive(worker.spec, worker.catalog) /\ ~\E a \in {approval} \ {None} :
            /\ a.spec = worker.spec /\ a.catalog = worker.catalog
            /\ clock \in a.issued .. a.expires - 1]_vars

\* A proposal out of a local run is about a failure of what it would change, and
\* stays within the limit, in whatever order runs, edits and repairs come.
ProposalGrounded ==
  [][proposal' # proposal /\ record.by = "local" =>
       /\ record.status = "failed" /\ record.ran = Norm(proposal'.base)
       /\ proposal'.proposed.retries \in proposal'.base.retries .. RetryLimit]_vars

\* repair answers a failed local run with a proposal whenever what ran is what lies in
\* the file, whatever was done in between; but for a file that holds a draft, which is
\* compared as it is with the digest of its normal form.
RepairAnswers ==
  [][Repair /\ refused' =>
       \/ record.by # "local" \/ record.status # "failed" \/ record.ran # Norm(spec)
       \/ spec # Norm(spec)]_vars
===============================================================================
