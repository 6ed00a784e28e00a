--------------------------- MODULE LifecycleProofs ----------------------------
(***************************************************************************)
(* Theorems about Lifecycle, for every set of designs and catalogs and     *)
(* every length of life of an approval.                                    *)
(***************************************************************************)
EXTENDS Lifecycle, TLAPS

\* What check_approval leaves behind: the pair is valid and, if it has to be, covered.
Agreed(s, c, a) == Valid(s, c) /\ (Sensitive(s, c) => a # None /\ Covers(a, s, c))

\* An approval expires when it was said to.
SignedLives == \A a \in signed : a.expires = a.issued + Life

\* A deploy past its check holds a pair that was approved together.
JobAgreed == job.pc \in {"dag", "manifest"} => Agreed(job.spec, job.catalog, job.approval)

\* The artifact in the folder is normal and authorised.
DagAgreed ==
  dag # None =>
    dag.spec = Norm(dag.spec) /\ \E a \in signed \cup {None} : Agreed(dag.spec, dag.catalog, a)

\* A worker holds an artifact that was in the folder, and acts as it was admitted to.
WorkerAgreed ==
  /\ worker.pc # "idle" =>
       worker.spec = Norm(worker.spec) /\ Valid(worker.spec, worker.catalog)
  /\ worker.pc = "acting" /\ Sensitive(worker.spec, worker.catalog) =>
       \E a \in signed :
         /\ Covers(a, worker.spec, worker.catalog)
         /\ a.issued <= worker.time /\ worker.time < a.expires

\* The record of a local run says what ran.
RecordAgreed ==
  record # None /\ record.by = "local" =>
    record.ran = record.hash /\ record.hash = Norm(record.hash)

IInv ==
  /\ TypeOK /\ SignedLives /\ JobAgreed /\ DagAgreed /\ WorkerAgreed /\ ManifestProves
  /\ RecordAgreed

\* Normalizing stays within the specifications and is done when it was done once.
LEMMA NormFacts ==
  ASSUME NEW s \in Specs
  PROVE  Norm(s) \in Specs /\ Norm(Norm(s)) = Norm(s)
BY NormalAssumption DEF Norm, Specs

\* A specification and its normal form are judged alike.
LEMMA JudgedAlike ==
  ASSUME NEW s \in Specs, NEW c \in Catalogs, NEW a, Agreed(s, c, a)
  PROVE  Agreed(Norm(s), c, a)
BY NormalAssumption, NormFacts DEF Agreed, Covers

\* check_approval leaves an agreed pair behind.
LEMMA AdmitsAgrees ==
  ASSUME NEW s \in Specs, NEW c \in Catalogs, NEW a \in signed \cup {None}, NEW time,
         Admits(s, c, a, time)
  PROVE  Agreed(s, c, a)
BY DEF Admits, Agreed, Covers

\* Signing more takes nothing from what was signed.
LEMMA AgreedStays ==
  ASSUME NEW s, NEW c, NEW a, Agreed(s, c, a), signed \subseteq signed'
  PROVE  Agreed(s, c, a)'
BY DEF Agreed, Covers

\* Approvals are signed, and nothing unsigns them.
LEMMA SignedGrows ==
  ASSUME TypeOK, [Next]_vars
  PROVE  signed \subseteq signed'
BY DEF Next, People, Programs, vars, files, loop, Tick, EditSpec, EditCatalog, Approve,
       Deploy, RunLocally, Observe, Repair, Adopt, Check, PutDag, PutManifest, Abandon,
       Start, ReadCatalog, ReadApproval, Stop

\* One step keeps the types.
LEMMA TypeStep ==
  ASSUME TypeOK, [Next]_vars
  PROVE  TypeOK'
<1> USE LimitsAssumption
<1> USE DEF TypeOK, Artifacts, files, loop
<1>1. CASE Tick
  BY <1>1 DEF Tick, Jobs, Attempts
<1>c. ASSUME Command PROVE commands' \in 0 .. MaxCommands
  BY <1>c DEF Command
<1>2. CASE EditSpec
  BY <1>2, <1>c DEF EditSpec, Jobs, Attempts
<1>3. CASE EditCatalog
  BY <1>3, <1>c DEF EditCatalog, Jobs, Attempts
<1>4. CASE Approve
  <2> DEFINE given == [spec |-> Norm(spec), catalog |-> catalog,
                       issued |-> clock, expires |-> clock + Life]
  <2>1. given \in Approvals
    BY NormFacts DEF Approvals
  <2>2. signed' = signed \cup {given} /\ approval' = given
    BY <1>4 DEF Approve
  <2>3. job' \in Jobs' /\ worker' \in Attempts'
    BY <1>4, <2>2 DEF Approve, Jobs, Attempts
  <2>4. manifest' \in [dag : Artifacts, approval : signed' \cup {None}] \cup {None}
    BY <1>4, <2>2 DEF Approve
  <2>5. QED
    BY <1>4, <1>c, <2>1, <2>2, <2>3, <2>4 DEF Approve
<1>5. CASE Deploy
  BY <1>5, <1>c DEF Deploy, Jobs, Attempts
<1>6. CASE RunLocally
  BY <1>6, <1>c, NormFacts DEF RunLocally, Jobs, Attempts, Records
<1>7. CASE Observe
  BY <1>7, <1>c DEF Observe, Jobs, Attempts, Records
<1>8. CASE Repair
  <2>1. [spec EXCEPT !.retries = IF @ < RetryLimit THEN @ + 1 ELSE RetryLimit] \in Specs
    BY DEF Specs
  <2>2. QED
    BY <1>8, <1>c, <2>1 DEF Repair, Answers, Jobs, Attempts
<1>9. CASE Adopt
  <2>1. proposal.proposed \in Specs
    BY <1>9 DEF Adopt
  <2>2. QED
    BY <1>9, <1>c, <2>1 DEF Adopt, Jobs, Attempts
<1>10. CASE Check
  <2>1. job.pc = "check" => job \in [pc : {"check"}, spec : Specs, approval : signed \cup {None}]
    BY DEF Jobs, NoJob
  <2>2. job' \in Jobs'
    BY <1>10, <2>1 DEF Check, Jobs
  <2>3. QED
    BY <1>10, <2>2 DEF Check, Attempts
<1>11. CASE PutDag
  <2>1. job \in [pc : {"dag", "manifest"}, spec : Specs, approval : signed \cup {None},
                 catalog : Catalogs]
    BY <1>11 DEF PutDag, Jobs, NoJob
  <2>2. Compiled \in Artifacts
    BY <2>1, NormFacts DEF Compiled
  <2>3. job' \in Jobs'
    BY <1>11, <2>1 DEF PutDag, Jobs
  <2>4. QED
    BY <1>11, <2>2, <2>3 DEF PutDag, Attempts
<1>12. CASE PutManifest
  BY <1>12, NormFacts DEF PutManifest, Compiled, Jobs, Attempts, NoJob
<1>13. CASE Abandon
  BY <1>13 DEF Abandon, Jobs, Attempts
<1>14. CASE Start
  BY <1>14 DEF Start, Jobs, Attempts, Idle
<1>15. CASE ReadCatalog
  BY <1>15 DEF ReadCatalog, Refuse, Jobs, Attempts, Idle
<1>16. CASE ReadApproval
  BY <1>16 DEF ReadApproval, Refuse, Jobs, Attempts, Idle
<1>17. CASE Stop
  BY <1>17 DEF Stop, Jobs, Attempts
<1>18. CASE UNCHANGED vars
  BY <1>18 DEF vars, Jobs, Attempts
<1>19. QED
  BY <1>1, <1>2, <1>3, <1>4, <1>5, <1>6, <1>7, <1>8, <1>9, <1>10, <1>11, <1>12, <1>13,
     <1>14, <1>15, <1>16, <1>17, <1>18 DEF Next, People, Programs

-------------------------------------------------------------------------------
\* One step keeps what a deploy holds: Check admits it, and the rest leaves it alone.
LEMMA JobStep ==
  ASSUME TypeOK, JobAgreed, Next
  PROVE  JobAgreed'
<1>1. signed \subseteq signed'
  BY SignedGrows
<1>2. CASE UNCHANGED job
  BY <1>1, <1>2, AgreedStays DEF JobAgreed
<1>3. CASE Check
  <2>1. job \in [pc : {"check"}, spec : Specs, approval : signed \cup {None}]
    BY <1>3 DEF Check, TypeOK, Jobs, NoJob
  <2>2. CASE Admits(job.spec, catalog, job.approval, clock)
    <3>1. Agreed(job.spec, catalog, job.approval)
      BY <2>1, <2>2, AdmitsAgrees DEF TypeOK
    <3>2. job'.spec = job.spec /\ job'.catalog = catalog /\ job'.approval = job.approval
      BY <1>3, <2>2 DEF Check
    <3>3. QED
      BY <1>1, <3>1, <3>2 DEF JobAgreed, Agreed, Covers
  <2>3. CASE ~Admits(job.spec, catalog, job.approval, clock)
    BY <1>3, <2>3 DEF Check, JobAgreed, NoJob
  <2>4. QED
    BY <2>2, <2>3
<1>4. CASE PutDag
  <2>1. job \in [pc : {"dag", "manifest"}, spec : Specs, approval : signed \cup {None},
                 catalog : Catalogs]
    BY <1>4 DEF PutDag, TypeOK, Jobs, NoJob
  <2>2. job'.spec = job.spec /\ job'.catalog = job.catalog /\ job'.approval = job.approval
    BY <1>4, <2>1 DEF PutDag
  <2>3. QED
    BY <1>1, <1>4, <2>1, <2>2 DEF PutDag, JobAgreed, Agreed, Covers
<1>5. CASE Deploy \/ PutManifest \/ Abandon
  BY <1>5 DEF Deploy, PutManifest, Abandon, JobAgreed, NoJob
<1>6. QED
  BY <1>2, <1>3, <1>4, <1>5 DEF Next, People, Programs, Tick, EditSpec, EditCatalog,
     Approve, RunLocally, Observe, Repair, Adopt, Start, ReadCatalog, ReadApproval, Stop

\* What is compiled from an agreed pair is agreed, and normal.
LEMMA CompiledAgrees ==
  ASSUME TypeOK, JobAgreed, job.pc \in {"dag", "manifest"}
  PROVE  /\ job.approval \in signed \cup {None}
         /\ Compiled.spec = Norm(Compiled.spec)
         /\ Agreed(Compiled.spec, Compiled.catalog, job.approval)
<1>1. job \in [pc : {"dag", "manifest"}, spec : Specs, approval : signed \cup {None},
               catalog : Catalogs]
  BY DEF TypeOK, Jobs, NoJob
<1>2. Agreed(job.spec, job.catalog, job.approval)
  BY DEF JobAgreed
<1>3. QED
  BY <1>1, <1>2, NormFacts, JudgedAlike DEF Compiled

\* One step keeps the folder authorised: only a deploy puts anything into it.
LEMMA DagStep ==
  ASSUME TypeOK, JobAgreed, DagAgreed, Next
  PROVE  DagAgreed'
<1>1. signed \subseteq signed'
  BY SignedGrows
<1>2. CASE UNCHANGED dag
  BY <1>1, <1>2, AgreedStays DEF DagAgreed
<1>3. CASE PutDag
  <2>1. dag' = Compiled
    BY <1>3 DEF PutDag
  <2>2. /\ job.approval \in signed \cup {None}
        /\ Compiled.spec = Norm(Compiled.spec)
        /\ Agreed(Compiled.spec, Compiled.catalog, job.approval)
    BY <1>3, CompiledAgrees DEF PutDag
  <2>3. QED
    BY <1>1, <2>1, <2>2 DEF DagAgreed, Agreed, Covers, Norm
<1>4. QED
  BY <1>2, <1>3 DEF Next, People, Programs, Tick, EditSpec, EditCatalog, Approve, Deploy,
     RunLocally, Observe, Repair, Adopt, Check, PutManifest, Abandon, Start, ReadCatalog,
     ReadApproval, Stop

\* One step keeps the manifest a proof: its evidence is what the deploy was checked with.
LEMMA ManifestStep ==
  ASSUME TypeOK, JobAgreed, ManifestProves, Next
  PROVE  ManifestProves'
<1>1. signed \subseteq signed'
  BY SignedGrows
<1>2. CASE UNCHANGED manifest
  BY <1>1, <1>2 DEF ManifestProves, Covers
<1>3. CASE PutManifest
  <2>1. manifest' = [dag |-> Compiled, approval |-> job.approval]
    BY <1>3 DEF PutManifest
  <2>2. Agreed(Compiled.spec, Compiled.catalog, job.approval)
    BY <1>3, CompiledAgrees DEF PutManifest
  <2>3. QED
    BY <1>1, <2>1, <2>2 DEF ManifestProves, Agreed, Covers
<1>4. QED
  BY <1>2, <1>3 DEF Next, People, Programs, Tick, EditSpec, EditCatalog, Approve, Deploy,
     RunLocally, Observe, Repair, Adopt, Check, PutDag, Abandon, Start, ReadCatalog,
     ReadApproval, Stop

\* One step keeps a worker within what it was admitted to, whatever becomes of the
\* folder, the catalog and the approval after it has read them.
LEMMA WorkerStep ==
  ASSUME TypeOK, SignedLives, DagAgreed, WorkerAgreed, Next
  PROVE  WorkerAgreed'
<1>1. signed \subseteq signed'
  BY SignedGrows
<1>2. CASE UNCHANGED worker
  BY <1>1, <1>2 DEF WorkerAgreed, Covers
<1>3. CASE Start
  BY <1>3 DEF Start, DagAgreed, Agreed, WorkerAgreed
<1>4. CASE ReadCatalog
  <2>1. worker \in [pc : {"catalog"}, spec : Specs, catalog : Catalogs]
    BY <1>4 DEF ReadCatalog, TypeOK, Attempts, Idle
  <2>2. /\ worker'.spec = worker.spec /\ worker'.catalog = worker.catalog
        /\ worker'.pc \in {"approval", "refused"}
    BY <1>4, <2>1 DEF ReadCatalog, Refuse
  <2>3. QED
    BY <2>1, <2>2 DEF WorkerAgreed
<1>5. CASE ReadApproval
  <2>1. worker \in [pc : {"approval"}, spec : Specs, catalog : Catalogs]
    BY <1>5 DEF ReadApproval, TypeOK, Attempts, Idle
  <2>2. worker'.spec = worker.spec /\ worker'.catalog = worker.catalog
    BY <1>5 DEF ReadApproval, Refuse
  <2>3. CASE Admits(worker.spec, worker.catalog, approval, clock)
    <3>1. worker'.time = clock
      BY <1>5, <2>3 DEF ReadApproval
    <3>2. Sensitive(worker.spec, worker.catalog) =>
            /\ approval \in signed /\ Covers(approval, worker.spec, worker.catalog)
            /\ approval.issued <= clock /\ clock < approval.expires
      BY <2>3 DEF Admits, TypeOK, Covers
    <3>3. QED
      BY <1>1, <2>1, <2>2, <3>1, <3>2 DEF WorkerAgreed, Covers
  <2>4. CASE ~Admits(worker.spec, worker.catalog, approval, clock)
    BY <1>5, <2>1, <2>2, <2>4 DEF ReadApproval, Refuse, WorkerAgreed
  <2>5. QED
    BY <2>3, <2>4
<1>6. CASE Stop
  BY <1>6 DEF Stop, Idle, WorkerAgreed
<1>7. QED
  BY <1>2, <1>3, <1>4, <1>5, <1>6 DEF Next, People, Programs, Tick, EditSpec, EditCatalog,
     Approve, Deploy, RunLocally, Observe, Repair, Adopt, Check, PutDag, PutManifest, Abandon

\* One step keeps the local record true of what ran.
LEMMA RecordStep ==
  ASSUME TypeOK, RecordAgreed, Next
  PROVE  RecordAgreed'
<1>1. CASE UNCHANGED record
  BY <1>1 DEF RecordAgreed
<1>2. CASE RunLocally
  BY <1>2, NormFacts DEF RunLocally, RecordAgreed, TypeOK
<1>3. CASE Observe
  BY <1>3 DEF Observe, RecordAgreed
<1>4. QED
  BY <1>1, <1>2, <1>3 DEF Next, People, Programs, Tick, EditSpec, EditCatalog, Approve,
     Deploy, Repair, Adopt, Check, PutDag, PutManifest, Abandon, Start, ReadCatalog,
     ReadApproval, Stop, loop

\* One step signs nothing but approvals that live as long as they should.
LEMMA SignedStep ==
  ASSUME SignedLives, Next
  PROVE  SignedLives'
BY DEF SignedLives, Next, People, Programs, Tick, EditSpec, EditCatalog, Approve, Deploy,
       RunLocally, Observe, Repair, Adopt, Check, PutDag, PutManifest, Abandon, Start,
       ReadCatalog, ReadApproval, Stop

\* The invariant holds at the start.
LEMMA InitIInv ==
  ASSUME Init
  PROVE  IInv
<1>1. TypeOK
  <2>1. job \in Jobs /\ worker \in Attempts
    BY DEF Init, Jobs, Attempts
  <2>2. signed \subseteq Approvals /\ refused \in BOOLEAN
    BY DEF Init
  <2>3. clock \in 0 .. MaxClock /\ commands \in 0 .. MaxCommands
    BY LimitsAssumption DEF Init
  <2>4. spec \in Specs /\ catalog \in Catalogs
    BY DEF Init
  <2>5. /\ approval = None /\ dag = None /\ manifest = None
        /\ record = None /\ proposal = None
    BY DEF Init
  <2>6. QED
    BY <2>1, <2>2, <2>3, <2>4, <2>5 DEF TypeOK
<1>2. QED
  BY <1>1 DEF Init, IInv, SignedLives, JobAgreed, DagAgreed, WorkerAgreed, ManifestProves,
     RecordAgreed, NoJob, Idle

\* The invariant is inductive.
LEMMA StepIInv ==
  ASSUME IInv, [Next]_vars
  PROVE  IInv'
<1>1. CASE Next
  BY <1>1, TypeStep, SignedStep, JobStep, DagStep, WorkerStep, ManifestStep, RecordStep
     DEF IInv
<1>2. CASE UNCHANGED vars
  <2>1. TypeOK'
    BY TypeStep DEF IInv
  <2>2. QED
    BY <1>2, <2>1 DEF IInv, vars, files, loop, SignedLives, JobAgreed, DagAgreed,
       WorkerAgreed, ManifestProves, RecordAgreed, Agreed, Covers, Norm
<1>3. QED
  BY <1>1, <1>2

LEMMA Invariant == Spec => []IInv
BY InitIInv, StepIInv, PTL DEF Spec

-------------------------------------------------------------------------------
\* Every variable keeps its type.
THEOREM TypeCorrect == Spec => []TypeOK
BY Invariant, PTL DEF IInv

\* A task acts only on a valid normalized pair and, where it is sensitive, under a
\* signed approval of exactly that, alive when airflow_execute admitted the task.
THEOREM ActsAuthorisedHolds == Spec => []ActsAuthorised
<1>1. IInv => ActsAuthorised
  <2> SUFFICES ASSUME IInv, worker.pc = "acting" PROVE ActsAuthorised
    BY DEF ActsAuthorised
  <2>1. worker.spec = Norm(worker.spec) /\ Valid(worker.spec, worker.catalog)
    BY DEF IInv, WorkerAgreed
  <2>2. Sensitive(worker.spec, worker.catalog) =>
          \E a \in signed :
            /\ Covers(a, worker.spec, worker.catalog)
            /\ a.issued <= worker.time /\ worker.time < a.issued + Life
    BY DEF IInv, WorkerAgreed, SignedLives
  <2>3. QED
    BY <2>1, <2>2 DEF ActsAuthorised
<1>2. QED
  BY <1>1, Invariant, PTL

\* What deploy puts into the folder was valid and approved together with its catalog.
THEOREM InstalledAuthorisedHolds == Spec => []InstalledAuthorised
<1>1. IInv => InstalledAuthorised
  BY DEF IInv, TypeOK, DagAgreed, Agreed, InstalledAuthorised, Covers
<1>2. QED
  BY <1>1, Invariant, PTL

\* The manifest beside the DAG names the approval its DAG was checked with.
THEOREM ManifestProvesHolds == Spec => []ManifestProves
BY Invariant, PTL DEF IInv

\* airflow_execute refuses only when the catalog is another or no living approval covers.
THEOREM RefusesForCauseHolds == Spec => RefusesForCause
<1> DEFINE Cause ==
      \/ catalog # worker.catalog
      \/ Sensitive(worker.spec, worker.catalog) /\ ~\E a \in {approval} \ {None} :
           /\ a.spec = worker.spec /\ a.catalog = worker.catalog
           /\ clock \in a.issued .. a.expires - 1
<1>1. ASSUME IInv, [Next]_vars, worker'.pc = "refused", worker.pc # "refused"
      PROVE  Cause
  <2>1. CASE ReadCatalog
    <3>1. CASE catalog = worker.catalog
      <4>1. worker \in [pc : {"catalog"}, spec : Specs, catalog : Catalogs]
        BY <2>1 , <1>1 DEF ReadCatalog, IInv, TypeOK, Attempts, Idle
      <4>2. worker'.pc = "approval"
        BY <2>1, <3>1, <4>1 DEF ReadCatalog
      <4>3. QED
        BY <1>1, <4>2
    <3>2. QED
      BY <3>1
  <2>2. CASE ReadApproval
    <3>1. ~Admits(worker.spec, worker.catalog, approval, clock)
      BY <1>1, <2>2 DEF ReadApproval
    <3>2. worker.spec = Norm(worker.spec) /\ Valid(worker.spec, worker.catalog)
      BY <1>1, <2>2 DEF ReadApproval, IInv, WorkerAgreed
    <3>3. approval # None => approval \in Approvals
      BY <1>1 DEF IInv, TypeOK
    <3>4. ASSUME approval # None, clock \in approval.issued .. approval.expires - 1
          PROVE  approval.issued <= clock /\ clock < approval.expires
      BY <1>1, <3>3, <3>4, LimitsAssumption DEF IInv, TypeOK, Approvals
    <3>5. QED
      BY <3>1, <3>2, <3>4 DEF Admits
  <2>3. CASE Start \/ Stop
    BY <1>1, <2>3 DEF Start, Stop, Idle
  <2>4. CASE UNCHANGED worker
    BY <1>1, <2>4
  <2>5. QED
    BY <1>1, <2>1, <2>2, <2>3, <2>4 DEF Next, People, Programs, vars, Tick, EditSpec,
       EditCatalog, Approve, Deploy, RunLocally, Observe, Repair, Adopt, Check, PutDag,
       PutManifest, Abandon
<1>2. IInv /\ [Next]_vars =>
        [worker'.pc = "refused" /\ worker.pc # "refused" => Cause]_vars
  BY <1>1
<1>3. QED
  BY <1>2, Invariant, PTL DEF Spec, RefusesForCause

\* What repair proposes after a local run answers a failure of its base, within the limit.
THEOREM ProposalGroundedHolds == Spec => ProposalGrounded
<1>1. ASSUME IInv, [Next]_vars, proposal' # proposal, record.by = "local"
      PROVE  /\ record.status = "failed" /\ record.ran = Norm(proposal'.base)
             /\ proposal'.proposed.retries \in proposal'.base.retries .. RetryLimit
  <2>1. Repair
    BY <1>1 DEF Next, People, Programs, vars, loop, Tick, EditSpec, EditCatalog, Approve,
       Deploy, RunLocally, Observe, Adopt, Check, PutDag, PutManifest, Abandon, Start,
       ReadCatalog, ReadApproval, Stop
  <2>2. /\ record # None /\ record.status = "failed" /\ record.hash = spec
        /\ proposal' = [base |-> spec, proposed |->
             [spec EXCEPT !.retries = IF @ < RetryLimit THEN @ + 1 ELSE RetryLimit]]
    BY <1>1, <2>1 DEF Repair, Answers
  <2>3. record.ran = Norm(spec)
    BY <1>1, <2>2 DEF IInv, RecordAgreed
  <2>4. spec \in Specs
    BY <1>1 DEF IInv, TypeOK
  <2>5. proposal'.proposed.retries \in spec.retries .. RetryLimit
    BY <2>2, <2>4, LimitsAssumption DEF Specs
  <2>6. QED
    BY <2>2, <2>3, <2>5
<1>2. IInv /\ [Next]_vars =>
        [proposal' # proposal /\ record.by = "local" =>
           /\ record.status = "failed" /\ record.ran = Norm(proposal'.base)
           /\ proposal'.proposed.retries \in proposal'.base.retries .. RetryLimit]_vars
  BY <1>1
<1>3. QED
  BY <1>2, Invariant, PTL DEF Spec, ProposalGrounded

\* After a failed local run, repair refuses only because something else ran than what
\* lies in the file, or because the file holds a draft.
THEOREM RepairAnswersHolds == Spec => RepairAnswers
<1>1. ASSUME IInv, Repair, refused'
      PROVE  \/ record.by # "local" \/ record.status # "failed" \/ record.ran # Norm(spec)
             \/ spec # Norm(spec)
  <2>1. record # None /\ ~(record.status = "failed" /\ record.hash = spec)
    BY <1>1 DEF Repair, Answers
  <2>2. record.by = "local" => record.ran = record.hash
    BY <1>1, <2>1 DEF IInv, RecordAgreed
  <2>3. QED
    BY <2>1, <2>2
<1>2. IInv /\ [Next]_vars =>
        [Repair /\ refused' =>
           \/ record.by # "local" \/ record.status # "failed" \/ record.ran # Norm(spec)
           \/ spec # Norm(spec)]_vars
  BY <1>1
<1>3. QED
  BY <1>2, Invariant, PTL DEF Spec, RepairAnswers
===============================================================================
