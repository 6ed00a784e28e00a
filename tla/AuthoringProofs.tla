---------------------------- MODULE AuthoringProofs ----------------------------
(* For every catalog, request, answer of a model, set of paths and number of      *)
(* commands: what is handed on is valid, what is valid runs, and what commands    *)
(* leave in the directory is theirs unless they met.                              *)
EXTENDS Authoring, FiniteSetTheorems, TLAPS

Kinds == {"create", "compile", "none"}
Places ==
  {"load", "test", "open", "text", "dag", "done", "failed", "refused", "ended"}

\* The functions have their domains, and a command is where its kind can be.
Formed ==
  /\ DOMAIN files = Paths /\ DOMAIN pc = Commands
  /\ DOMAIN answer = Commands /\ DOMAIN stood = Commands
  /\ \A c \in Commands :
       /\ job[c].kind \in Kinds /\ job[c].out \in Paths /\ pc[c] \in Places
       /\ pc[c] \in {"open", "text"} => job[c].kind = "create"
       /\ job[c].kind = "none" => pc[c] = "ended"
       /\ job[c].kind = "compile" => Test(job[c].out) # job[c].out

\* Only what is ready is written, and what is ready is valid.
Committed ==
  \A c \in Commands : pc[c] \notin {"load", "refused", "ended"} => Answered(c)
Judged == \A c \in Commands : Answered(c) => Valid(answer[c].spec, Catalog)

\* A create that writes has looked, and found nothing.
Looked ==
  \A c \in Commands : job[c].kind = "create" /\ Writing(c) => Writes(c) \cap stood[c] = {}

\* The file that save has emptied is still so, and what a command has put in place
\* is still there, unless another met it.
MetAt(c, p) == \E d \in Commands \ {c} : Met(c, d, p)
Opened ==
  \A c \in Commands, p \in Paths :
    pc[c] = "text" /\ p = Out(c) => files[p] = Empty \/ MetAt(c, p)

Put(c, p) ==
  IF job[c].kind = "create"
    THEN \/ p = Out(c) /\ pc[c] \in {"dag", "done"} /\ Dag(Out(c)) # Out(c)
         \/ p = Dag(Out(c)) /\ pc[c] = "done" /\ Dag(Out(c)) # Out(c)
  ELSE \/ p = Out(c) /\ pc[c] \in {"test", "done"}
       \/ p = Test(Out(c)) /\ pc[c] = "done"
Delivered ==
  \A c \in Commands, p \in Paths : Put(c, p) => files[p] = Product(c, p) \/ MetAt(c, p)

IInv ==
  /\ Formed /\ Committed /\ Judged /\ Looked /\ Opened /\ Delivered /\ DagsWhole

-------------------------------------------------------------------------------
\* What interpret calls ready is valid, whatever the request or the model said.
LEMMA InterpretValid ==
  ASSUME NEW req, NEW old, Interpret(req, Catalog, old).status = "ready"
  PROVE  Valid(Interpret(req, Catalog, old).spec, Catalog)
<1>1. PICK raw : /\ Interpret(req, Catalog, old) = Settled(raw, Catalog)
                 /\ \/ \E spec : raw = Ready(spec)
                    \/ \E field : raw = Question(field)
  BY DEF Interpret, Generate, Rejected
<1>2. CASE \E spec : raw = Ready(spec)
  BY <1>1, <1>2 DEF Settled, Ready, Rejected
<1>3. CASE \E field : raw = Question(field)
  BY <1>1, <1>3 DEF Settled, Question, Rejected
<1> QED BY <1>1, <1>2, <1>3

LEMMA SettledValid ==
  ASSUME NEW spec, Settled(Ready(spec), Catalog).status = "ready"
  PROVE  Valid(Settled(Ready(spec), Catalog).spec, Catalog)
BY DEF Settled, Ready, Rejected

\* A step of a command leaves every other where it is, and changes at most one file,
\* one that it writes; a command that writes has its answer and what it saw.
LEMMA Frame ==
  ASSUME Formed, NEW d \in Commands,
         \/ Ask(d) \/ TestPath(d) \/ Open(d) \/ Fill(d) \/ PutDag(d)
         \/ LoadSpec(d) \/ PutCompiled(d) \/ PutTest(d) \/ Fault(d)
  PROVE  /\ job' = job
         /\ DOMAIN files' = Paths /\ DOMAIN pc' = Commands
         /\ DOMAIN answer' = Commands /\ DOMAIN stood' = Commands
         /\ \A c \in Commands \ {d} :
              pc'[c] = pc[c] /\ answer'[c] = answer[c] /\ stood'[c] = stood[c]
         /\ \/ files' = files
            \/ /\ Writing(d) /\ Writing(d)'
               /\ \A p \in Paths \ Writes(d) : files'[p] = files[p]
         /\ Writing(d) => /\ Writing(d)' /\ stood'[d] = stood[d] /\ answer'[d] = answer[d]
<1> USE PathsAssumption DEF Formed, Goto, Write, At, Out, Writes, Writing, Kinds
<1>1. CASE Ask(d) \/ TestPath(d) \/ LoadSpec(d)
  BY <1>1 DEF Ask, TestPath, LoadSpec
<1>2. CASE Open(d) \/ Fill(d)
  BY <1>2 DEF Open, Fill
<1>3. CASE PutDag(d) \/ PutCompiled(d) \/ PutTest(d)
  BY <1>3 DEF PutDag, PutCompiled, PutTest
<1>4. CASE Fault(d)
  BY <1>4 DEF Fault
<1> QED BY <1>1, <1>2, <1>3, <1>4

\* Two that write one path met there: of two creates, each had found nothing there.
Meets ==
  \A c \in Commands : \A d \in Commands \ {c} : \A p \in Writes(c) \cap Writes(d) :
    Writing(c) /\ Writing(d) => MetAt(c, p)

LEMMA Meeting == Formed /\ Looked => Meets
<1> SUFFICES ASSUME Formed, Looked, NEW c \in Commands, NEW d \in Commands \ {c},
               NEW p \in Writes(c) \cap Writes(d), Writing(c), Writing(d)
             PROVE MetAt(c, p)
  BY DEF Meets
<1>1. CASE "compile" \in {job[c].kind, job[d].kind}
  BY <1>1 DEF MetAt, Met
<1>2. CASE job[c].kind = "create" /\ job[d].kind = "create"
  BY <1>2 DEF MetAt, Met, Looked
<1>3. job[c].kind # "none" /\ job[d].kind # "none"
  BY DEF Formed, Writing, At
<1> QED BY <1>1, <1>2, <1>3 DEF Formed, Kinds

\* What met, stays so.
LEMMA StillMet ==
  ASSUME Formed, Next, NEW c \in Commands, NEW p, MetAt(c, p), Writing(c)
  PROVE  MetAt(c, p)'
<1>1. PICK e \in Commands \ {c} : Met(c, e, p)
  BY DEF MetAt
<1>2. PICK d \in Commands :
        \/ Ask(d) \/ TestPath(d) \/ Open(d) \/ Fill(d) \/ PutDag(d)
        \/ LoadSpec(d) \/ PutCompiled(d) \/ PutTest(d) \/ Fault(d)
  BY DEF Next
<1>3. job' = job
  BY <1>2, Frame
<1>4. ASSUME NEW b \in Commands, Writing(b) PROVE Writing(b)' /\ stood'[b] = stood[b]
  <2>1. CASE b = d
    BY <1>2, <1>4, <2>1, Frame
  <2>2. CASE b # d
    BY <1>2, <1>3, <1>4, <2>2, Frame DEF Writing, At
  <2> QED BY <2>1, <2>2
<1>5. Met(c, e, p)'
  BY <1>1, <1>3, <1>4 DEF Met, Writes, Out
<1> QED BY <1>5 DEF MetAt

LEMMA InitIInv == Init => IInv
<1> SUFFICES ASSUME Init PROVE IInv
  OBVIOUS
<1> USE JobsAssumption, DisksAssumption DEF Init
<1>1. Formed
  BY DEF Formed, Kinds, Places
<1>2. \A c \in Commands : ~Answered(c) /\ ~Writing(c) /\ pc[c] \in {"load", "ended"}
  BY DEF Answered, Rejected, Writing, At
<1>3. Committed /\ Judged /\ Looked /\ Opened /\ Delivered
  BY <1>2 DEF Committed, Judged, Looked, Opened, Delivered, Put
<1>4. DagsWhole
  BY DEF DagsWhole, There
<1> QED BY <1>1, <1>3, <1>4 DEF IInv

LEMMA NextFormed == IInv /\ Next => Formed'
<1> SUFFICES ASSUME IInv, NEW d \in Commands,
               \/ Ask(d) \/ TestPath(d) \/ Open(d) \/ Fill(d) \/ PutDag(d)
               \/ LoadSpec(d) \/ PutCompiled(d) \/ PutTest(d) \/ Fault(d)
             PROVE Formed'
  BY DEF Next
<1>1. Formed
  BY DEF IInv
<1>2. /\ pc'[d] \in Places
      /\ pc'[d] \in {"open", "text"} => job[d].kind = "create"
      /\ job[d].kind # "none"
  BY <1>1 DEF Formed, Places, Ask, TestPath, Open, Fill, PutDag, LoadSpec, PutCompiled,
    PutTest, Fault, Goto, At
<1> QED BY <1>1, <1>2, Frame DEF Formed

LEMMA NextAnswers == IInv /\ Next => Committed' /\ Judged'
<1> SUFFICES ASSUME IInv, NEW d \in Commands,
               \/ Ask(d) \/ TestPath(d) \/ Open(d) \/ Fill(d) \/ PutDag(d)
               \/ LoadSpec(d) \/ PutCompiled(d) \/ PutTest(d) \/ Fault(d)
             PROVE Committed' /\ Judged'
  BY DEF Next
<1> USE DEF Answered
<1>1. Formed /\ Committed /\ Judged
  BY DEF IInv
<1>2. CASE Ask(d)
  <2>1. answer'[d].status = "ready" => Valid(answer'[d].spec, Catalog)
    BY <1>1, <1>2, InterpretValid, SettledValid DEF Ask, Formed, Judged
  <2>2. pc'[d] \notin {"load", "refused", "ended"} => answer'[d].status = "ready"
    BY <1>1, <1>2 DEF Ask, Formed, Goto
  <2> QED BY <1>1, <1>2, <2>1, <2>2, Frame DEF Committed, Judged
<1>3. CASE LoadSpec(d)
  <2>1. answer'[d].status = "ready" => Valid(answer'[d].spec, Catalog)
    BY <1>1, <1>3 DEF LoadSpec, Formed, Judged, Ready
  <2>2. pc'[d] \notin {"load", "refused", "ended"} => answer'[d].status = "ready"
    BY <1>1, <1>3 DEF LoadSpec, Formed, Goto, Ready
  <2> QED BY <1>1, <1>3, <2>1, <2>2, Frame DEF Committed, Judged
<1>4. CASE TestPath(d) \/ Open(d) \/ Fill(d) \/ PutDag(d) \/ PutCompiled(d) \/ PutTest(d) \/ Fault(d)
  <2>1. answer' = answer /\ pc[d] \notin {"load", "refused", "ended"}
    BY <1>4 DEF TestPath, Open, Fill, PutDag, PutCompiled, PutTest, Fault, At
  <2> QED BY <1>1, <1>4, <2>1, Frame DEF Committed, Judged
<1> QED BY <1>2, <1>3, <1>4

LEMMA NextLooked == IInv /\ Next => Looked'
<1> SUFFICES ASSUME IInv, NEW d \in Commands,
               \/ Ask(d) \/ TestPath(d) \/ Open(d) \/ Fill(d) \/ PutDag(d)
               \/ LoadSpec(d) \/ PutCompiled(d) \/ PutTest(d) \/ Fault(d),
               NEW c \in Commands, job'[c].kind = "create", Writing(c)'
             PROVE (Writes(c) \cap stood[c] = {})'
  BY DEF Next, Looked
<1>1. Formed /\ Looked /\ job' = job /\ Writes(c)' = Writes(c)
  BY Frame DEF IInv, Writes, Out
<1>2. CASE Writing(c)
  BY <1>1, <1>2, Frame DEF Looked
<1>3. CASE ~Writing(c)
  <2>1. c = d
    BY <1>1, <1>3, Frame DEF Writing, At
  <2>2. TestPath(d) /\ pc'[d] = "open"
    BY <1>1, <1>3, <2>1 DEF Formed, Writing, Ask, TestPath, Open, Fill, PutDag, LoadSpec,
      PutCompiled, PutTest, Fault, Goto, At
  <2> QED BY <1>1, <2>1, <2>2 DEF TestPath, Formed, Goto, Writes, Out
<1> QED BY <1>2, <1>3

\* What another does to a file that c has written is a meeting.
LEMMA OthersMeet ==
  ASSUME IInv, Meets', NEW d \in Commands,
         \/ Ask(d) \/ TestPath(d) \/ Open(d) \/ Fill(d) \/ PutDag(d)
         \/ LoadSpec(d) \/ PutCompiled(d) \/ PutTest(d) \/ Fault(d),
         NEW c \in Commands \ {d}, Writing(c), NEW p \in Writes(c) \cap Paths
  PROVE  files'[p] = files[p] \/ MetAt(c, p)'
<1>1. Formed /\ job' = job
  BY Frame DEF IInv
<1>2. Writing(c)' /\ Writes(c)' = Writes(c) /\ Writes(d)' = Writes(d)
  BY <1>1, Frame DEF Writing, At, Writes, Out
<1>3. CASE files'[p] # files[p]
  <2>1. Writing(d)' /\ p \in Writes(d)
    BY <1>1, <1>3, Frame
  <2>2. p \in Writes(c)' \cap Writes(d)'
    BY <1>2, <2>1
  <2> QED BY <1>2, <2>1, <2>2 DEF Meets
<1> QED BY <1>3

\* What c itself does: it finds the file empty that it has emptied, and what it puts
\* in place is its product, or a mixture with the text of another that met it.
LEMMA OwnOpened ==
  ASSUME IInv, NEW d \in Commands,
         \/ Ask(d) \/ TestPath(d) \/ Open(d) \/ Fill(d) \/ PutDag(d)
         \/ LoadSpec(d) \/ PutCompiled(d) \/ PutTest(d) \/ Fault(d),
         pc'[d] = "text"
  PROVE  files'[Out(d)] = Empty
<1>1. Formed
  BY DEF IInv
<1>2. Open(d)
  BY <1>1 DEF Formed, Ask, TestPath, Open, Fill, PutDag, LoadSpec, PutCompiled, PutTest,
    Fault, Goto, At
<1> QED BY <1>1, <1>2 DEF Formed, Open, Write, Out

LEMMA OwnDelivered ==
  ASSUME IInv, NEW d \in Commands,
         \/ Ask(d) \/ TestPath(d) \/ Open(d) \/ Fill(d) \/ PutDag(d)
         \/ LoadSpec(d) \/ PutCompiled(d) \/ PutTest(d) \/ Fault(d),
         NEW p \in Paths, Put(d, p)'
  PROVE  files'[p] = Product(d, p)' \/ (Writing(d) /\ MetAt(d, p))
<1>1. Formed /\ Opened /\ Delivered /\ job' = job
  BY Frame DEF IInv
<1>2. Out(d)' = Out(d) /\ Out(d) \in Paths
  BY <1>1 DEF Out, Formed
<1>3. CASE Fill(d)
  <2>1. /\ p = Out(d) /\ job[d].kind = "create" /\ Writing(d) /\ answer' = answer
    BY <1>1, <1>2, <1>3 DEF Put, Fill, Formed, Goto, At, Writing
  <2>2. CASE files'[Out(d)] = Holds("spec", answer[d].spec)
    BY <1>1, <1>2, <2>1, <2>2 DEF Product
  <2>3. CASE files[Out(d)] # Empty
    BY <1>1, <1>3, <2>1, <2>3 DEF Opened, Fill, At
  <2> QED BY <1>1, <1>2, <1>3, <2>1, <2>2, <2>3 DEF Fill, Write, Formed
<1>4. CASE PutDag(d)
  <2>1. /\ job[d].kind = "create" /\ Writing(d) /\ answer' = answer /\ Dag(Out(d)) # Out(d)
        /\ files' = [files EXCEPT ![Dag(Out(d))] = Holds("dag", answer[d].spec)]
        /\ p = Out(d) \/ p = Dag(Out(d))
    BY <1>1, <1>2, <1>4 DEF Put, PutDag, Formed, Goto, At, Writing, Write
  <2>2. Product(d, p)' = Product(d, p)
    BY <1>1, <1>2, <2>1 DEF Product
  <2>3. CASE p = Out(d)
    <3>1. Put(d, p)
      BY <1>4, <2>1, <2>3 DEF Put, PutDag, At
    <3> QED BY <1>1, <2>1, <2>2, <2>3, <3>1, PathsAssumption DEF Delivered, Formed
  <2>4. CASE p = Dag(Out(d))
    BY <1>1, <2>1, <2>2, <2>4 DEF Product, Formed
  <2> QED BY <2>1, <2>3, <2>4
<1>5. CASE PutCompiled(d)
  BY <1>1, <1>2, <1>5 DEF Put, PutCompiled, Formed, Goto, At, Write, Product
<1>6. CASE PutTest(d)
  <2>1. /\ job[d].kind = "compile" /\ Writing(d) /\ answer' = answer /\ Test(Out(d)) # Out(d)
        /\ files' = [files EXCEPT ![Test(Out(d))] = Holds("test", answer[d].spec)]
        /\ p = Out(d) \/ p = Test(Out(d))
    BY <1>1, <1>2, <1>6 DEF Put, PutTest, Formed, Goto, At, Writing, Write, Out
  <2>2. Product(d, p)' = Product(d, p)
    BY <1>1, <1>2, <2>1 DEF Product
  <2>3. CASE p = Out(d)
    <3>1. Put(d, p)
      BY <1>6, <2>1, <2>3 DEF Put, PutTest, At
    <3> QED BY <1>1, <2>1, <2>2, <2>3, <3>1 DEF Delivered, Formed
  <2>4. CASE p = Test(Out(d))
    BY <1>1, <2>1, <2>2, <2>4 DEF Product, Formed
  <2> QED BY <2>1, <2>3, <2>4
<1>7. CASE Ask(d) \/ TestPath(d) \/ Open(d) \/ LoadSpec(d) \/ Fault(d)
  BY <1>1, <1>7 DEF Put, Ask, TestPath, Open, LoadSpec, Fault, Formed, Goto, At
<1> QED BY <1>3, <1>4, <1>5, <1>6, <1>7

LEMMA NextFiles == IInv /\ Next /\ Meets' => Opened' /\ Delivered'
<1> SUFFICES ASSUME IInv, Next, Meets', NEW d \in Commands,
               \/ Ask(d) \/ TestPath(d) \/ Open(d) \/ Fill(d) \/ PutDag(d)
               \/ LoadSpec(d) \/ PutCompiled(d) \/ PutTest(d) \/ Fault(d),
               NEW c \in Commands
             PROVE \A p \in Paths :
                     /\ pc'[c] = "text" /\ p = Out(c)' => (files[p] = Empty \/ MetAt(c, p))'
                     /\ Put(c, p)' => (files[p] = Product(c, p) \/ MetAt(c, p))'
  BY DEF Next, Opened, Delivered
<1>1. Formed /\ Opened /\ Delivered /\ job' = job /\ Out(c)' = Out(c)
  BY Frame DEF IInv, Out
<1>2. CASE c = d
  <2>1. \A p \in Paths : pc'[c] = "text" /\ p = Out(c)' => (files[p] = Empty)'
    BY <1>1, <1>2, OwnOpened DEF Empty
  <2>2. ASSUME NEW p \in Paths, Put(c, p)'
        PROVE (files[p] = Product(c, p) \/ MetAt(c, p))'
    BY <1>1, <1>2, <2>2, OwnDelivered, StillMet
  <2> QED BY <2>1, <2>2
<1>3. CASE c # d
  <2>1. pc'[c] = pc[c] /\ answer'[c] = answer[c]
    BY <1>1, <1>3, Frame
  <2>2. ASSUME NEW p \in Paths, pc'[c] = "text", p = Out(c)'
        PROVE (files[p] = Empty \/ MetAt(c, p))'
    <3>1. Writing(c) /\ p \in Writes(c)
      BY <1>1, <2>1, <2>2 DEF Writing, Writes, Formed, Out
    <3>2. files'[p] = files[p] \/ MetAt(c, p)'
      BY <1>3, <3>1, OthersMeet
    <3>3. MetAt(c, p) => MetAt(c, p)'
      BY <1>1, <3>1, StillMet
    <3> QED BY <1>1, <2>1, <2>2, <3>2, <3>3 DEF Opened, Empty
  <2>3. ASSUME NEW p \in Paths, Put(c, p)'
        PROVE (files[p] = Product(c, p) \/ MetAt(c, p))'
    <3>1. Put(c, p) /\ Product(c, p)' = Product(c, p)
      BY <1>1, <2>1, <2>3 DEF Put, Product
    <3>2. Writing(c) /\ p \in Writes(c) \cap Paths
      BY <1>1, <3>1 DEF Put, Writing, Writes, Formed, Kinds, At
    <3>3. files'[p] = files[p] \/ MetAt(c, p)'
      BY <1>3, <3>2, OthersMeet
    <3>4. MetAt(c, p) => MetAt(c, p)'
      BY <1>1, <3>2, StillMet
    <3> QED BY <1>1, <3>1, <3>3, <3>4 DEF Delivered
  <2> QED BY <2>2, <2>3
<1> QED BY <1>2, <1>3

LEMMA NextDags == IInv /\ Next => DagsWhole'
<1> SUFFICES ASSUME IInv, NEW d \in Commands,
               \/ Ask(d) \/ TestPath(d) \/ Open(d) \/ Fill(d) \/ PutDag(d)
               \/ LoadSpec(d) \/ PutCompiled(d) \/ PutTest(d) \/ Fault(d),
               NEW p \in Paths, p = Dag(p), There(p)'
             PROVE \/ files'[p].kind = "test"
                   \/ files'[p].kind = "dag" /\ Valid(files'[p].spec, Catalog)
                   \/ \E c \in Commands : job'[c].kind = "create" /\ Out(c)' = p
  BY DEF Next, DagsWhole
<1>1. Formed /\ Committed /\ Judged /\ DagsWhole /\ job' = job
  BY Frame DEF IInv
<1>2. \A c \in Commands : Out(c)' = Out(c) /\ Out(c) \in Paths
  BY <1>1 DEF Out, Formed
<1>3. CASE files'[p] = files[p]
  BY <1>1, <1>2, <1>3 DEF DagsWhole, There
<1>4. CASE files'[p] # files[p]
  <2>1. CASE Open(d) \/ Fill(d) \/ (Fault(d) /\ pc[d] = "text")
    BY <1>1, <1>2, <1>4, <2>1 DEF Open, Fill, Fault, Write, At, Formed
  <2>2. CASE PutDag(d) \/ PutCompiled(d) \/ PutTest(d)
    <3>1. Valid(answer[d].spec, Catalog)
      BY <1>1, <2>2 DEF Committed, Judged, PutDag, PutCompiled, PutTest, At
    <3> QED BY <1>1, <1>4, <2>2, <3>1 DEF PutDag, PutCompiled, PutTest, Write, Holds, Formed
  <2>3. CASE Ask(d) \/ TestPath(d) \/ LoadSpec(d) \/ (Fault(d) /\ pc[d] # "text")
    BY <1>4, <2>3 DEF Ask, TestPath, LoadSpec, Fault
  <2> QED BY <2>1, <2>2, <2>3
<1> QED BY <1>3, <1>4

LEMMA Unchanged == IInv /\ UNCHANGED vars => IInv'
<1> SUFFICES ASSUME IInv, UNCHANGED vars PROVE IInv'
  OBVIOUS
<1> USE DEF IInv, vars
<1>1. Formed' /\ Committed' /\ Judged'
  BY DEF Formed, Committed, Judged, Answered
<1>2. Looked' /\ DagsWhole'
  BY DEF Looked, DagsWhole, Writing, Writes, At, Out, There
<1>3. Opened' /\ Delivered'
  BY DEF Opened, Delivered, Put, MetAt, Met, Writing, Writes, At, Out, Product
<1> QED BY <1>1, <1>2, <1>3

LEMMA Invariance == Spec => []IInv
<1>1. IInv /\ [Next]_vars => IInv'
  <2>1. IInv /\ Next => Formed' /\ Committed' /\ Judged' /\ Looked' /\ DagsWhole'
    BY NextFormed, NextAnswers, NextLooked, NextDags
  <2>2. (Formed /\ Looked => Meets)'
    BY Meeting, PTL
  <2>3. IInv /\ Next => Opened' /\ Delivered'
    BY <2>1, <2>2, NextFiles
  <2> QED BY <2>1, <2>3, Unchanged DEF IInv
<1> QED BY <1>1, InitIInv, PTL DEF Spec

-------------------------------------------------------------------------------
\* What create reported stays a pair, and what compile wrote a DAG and its test, whatever
\* else is created, compiled or cut short in the directory, unless another met it there.
THEOREM PairAgreesHolds == Spec => []PairAgrees
<1>1. IInv => PairAgrees
  <2> SUFFICES ASSUME IInv, NEW c \in Commands, NEW p \in Writes(c), pc[c] = "done",
                      ~(job[c].kind = "create" /\ Dag(Out(c)) = Out(c))
               PROVE files[p] = Product(c, p) \/ \E d \in Commands \ {c} : Met(c, d, p)
    BY DEF PairAgrees
  <2>1. p \in Paths /\ Put(c, p)
    BY PathsAssumption DEF IInv, Formed, Kinds, Writes, Put, Out
  <2> QED BY <2>1 DEF IInv, Delivered, MetAt
<1> QED BY <1>1, Invariance, PTL

\* A DAG is whole at every moment, and of a valid specification.
THEOREM DagsWholeHolds == Spec => []DagsWhole
BY Invariance, PTL DEF IInv

\* The look-ups of a run, one kind after the other, against what validate asked.
LEMMA ReadsAllowed ==
  ASSUME NEW spec, Valid(spec, Catalog), NEW r \in spec.reads, ReadRefused(Catalog, r[2])
  PROVE  Unforeseen(<<"read", r[2]>>)
<1>1. /\ r[1] \in Ingestions /\ r[2] \in DOMAIN Catalog /\ Suits(Catalog, r[1], r[2])
      /\ r[2] \in spec.sources /\ Allows(Catalog, r[2], "read")
  BY DEF Valid, SourcesPass
<1>2. Catalog[r[2]].type \in AssetTypes
  BY <1>1, CatalogAssumption
<1> QED BY <1>1, <1>2 DEF ReadRefused, Unforeseen, Suits, Ingestions, AssetTypes,
  StoredTypes, FileTypes

LEMMA WritesAllowed ==
  ASSUME NEW spec, Valid(spec, Catalog), NEW w \in spec.writes,
         \/ w[2] \notin DOMAIN spec.dests
         \/ WriteRefused(Catalog, w[2], spec.dests[w[2]], spec.keyed)
  PROVE  Unforeseen(<<"write", w[2]>>)
<1>1. /\ w[1] \in Outputs /\ w[2] \in DOMAIN Catalog /\ Suits(Catalog, w[1], w[2])
      /\ w[2] \in DOMAIN spec.dests /\ Allows(Catalog, w[2], "write")
      /\ spec.dests[w[2]] = "rebuild" => Allows(Catalog, w[2], "delete")
      /\ spec.dests[w[2]] = "upsert" => spec.keyed
  BY DEF Valid, DestinationsPass
<1>2. Catalog[w[2]].type \in AssetTypes
  BY <1>1, CatalogAssumption
<1> QED BY <1>1, <1>2 DEF WriteRefused, Unforeseen, Suits, Outputs, AssetTypes,
  StoredTypes, FileTypes

LEMMA QuarantinesAllowed ==
  ASSUME NEW spec, Valid(spec, Catalog), NEW r \in spec.rules, r.asset # None,
         WriteRefused(Catalog, r.asset, "replace", FALSE)
  PROVE  Unforeseen(<<"quarantine", r.asset>>)
BY DEF Valid, RulesPass, WriteRefused, Unforeseen

LEMMA RefusalsForeseen ==
  ASSUME NEW spec, Valid(spec, Catalog), NEW refusal \in Refusals(spec, Catalog)
  PROVE  Unforeseen(refusal)
<1>1. CASE \E r \in spec.reads : ReadRefused(Catalog, r[2]) /\ refusal = <<"read", r[2]>>
  BY <1>1, ReadsAllowed
<1>2. CASE \E w \in spec.writes :
             /\ \/ w[2] \notin DOMAIN spec.dests
                \/ WriteRefused(Catalog, w[2], spec.dests[w[2]], spec.keyed)
             /\ refusal = <<"write", w[2]>>
  BY <1>2, WritesAllowed
<1>3. CASE \E r \in spec.rules : /\ r.asset # None
                                 /\ WriteRefused(Catalog, r.asset, "replace", FALSE)
                                 /\ refusal = <<"quarantine", r.asset>>
  BY <1>3, QuarantinesAllowed
<1>4. CASE \E a \in spec.notices : refusal = <<"notice", a>>
  BY <1>4 DEF Unforeseen
<1>5. \A r \in spec.rules : r.kind \in Rules
  BY DEF Valid, RulesPass
<1>6. \A n \in spec.notes : n.asset \in DOMAIN Catalog
  BY DEF Valid, NotesPass, Allows
<1> QED BY <1>1, <1>2, <1>3, <1>4, <1>5, <1>6 DEF Refusals

\* What interpret hands on runs, and nothing that validate foresees refuses it.
THEOREM ValidRunsHolds == Spec => []ValidRuns
<1>1. IInv => ValidRuns
  BY RefusalsForeseen DEF IInv, Judged, ValidRuns
<1> QED BY <1>1, Invariance, PTL

\* What may run without an approval writes only where the catalog permits it, inside,
\* and destroys no table to rebuild it.
THEOREM GuardedEffectsHolds == Spec => []GuardedEffects
<1>1. ASSUME NEW spec, Valid(spec, Catalog), ~RequiresApproval(spec, Catalog),
             NEW effect \in Effects(spec)
      PROVE /\ Allows(Catalog, effect[1], "write") /\ ~Catalog[effect[1]].external
            /\ effect[2] # "rebuild"
  <2>1. CASE \E w \in spec.writes :
               w[2] \in DOMAIN spec.dests /\ effect = <<w[2], spec.dests[w[2]]>>
    BY <1>1, <2>1 DEF Valid, DestinationsPass, RequiresApproval, External, Allows
  <2>2. CASE \E r \in spec.rules : r.asset # None /\ effect = <<r.asset, "replace">>
    BY <1>1, <2>2 DEF Valid, RulesPass
  <2> QED BY <1>1, <2>1, <2>2 DEF Effects
<1>2. IInv => GuardedEffects
  BY <1>1 DEF IInv, Judged, GuardedEffects
<1> QED BY <1>2, Invariance, PTL
-------------------------------------------------------------------------------
\* A sequence of tests asks nothing when none of them does.
LEMMA GeneralAsked ==
  ASSUME NEW req
  PROVE  Asking(GeneralTests(req)) = {} =>
         /\ ~Has(req, "exotic") /\ ~Has(req, "conflict") /\ ~Has(req, "unsupported")
         /\ req.when # "vague"
<1> DEFINE tests == GeneralTests(req)
<1>1. DOMAIN tests = 1 .. 4
  BY DEF GeneralTests
<1>2. Asking(tests) = {} => \A i \in 1 .. 4 : tests[i] = "nothing"
  BY <1>1 DEF Asking
<1>3. /\ tests[1] = When(Has(req, "exotic"), "capability")
      /\ tests[2] = When(Has(req, "conflict"), "schedule")
      /\ tests[3] = When(Has(req, "unsupported"), "adapter")
      /\ tests[4] = When(req.when = "vague", "schedule")
  BY DEF GeneralTests
<1> QED BY <1>2, <1>3 DEF When

LEMMA CreationAsked ==
  ASSUME NEW req, NEW cat
  PROVE  Asking(CreationTests(req, cat)) = {} =>
         ~Ambiguous(req, cat) /\ ~Has(req, "yesterday") /\ ~Has(req, "production")
<1> DEFINE tests == CreationTests(req, cat)
<1>1. DOMAIN tests = 1 .. 11
  BY DEF CreationTests
<1>2. Asking(tests) = {} => \A i \in 1 .. 11 : tests[i] = "nothing"
  BY <1>1 DEF Asking
<1>3. tests[1] = When(Ambiguous(req, cat), "source")
  BY DEF CreationTests
<1>4. tests[4] = When(Has(req, "yesterday"), "time window")
  BY DEF CreationTests
<1>5. tests[11] = When(Has(req, "production"), "owner")
  BY DEF CreationTests
<1>6. tests[1] = "nothing" => ~Ambiguous(req, cat)
  BY <1>3 DEF When
<1>7. tests[4] = "nothing" => ~Has(req, "yesterday")
  BY <1>4 DEF When
<1>8. tests[11] = "nothing" => ~Has(req, "production")
  BY <1>5 DEF When
<1> QED BY <1>2, <1>6, <1>7, <1>8

LEMMA ModificationAsked ==
  ASSUME NEW req, NEW cat, NEW old
  PROVE  Asking(ModificationTests(req, cat, old)) = {} =>
         /\ Change(req) # "none"
         /\ Change(req) = "quarantine" =>
              old.rules # {} /\ Cardinality(Resolve(cat, "quarantine")) = 1
         /\ Change(req) = "alert" => Cardinality(NotificationAssets(cat)) = 1
<1> DEFINE tests == ModificationTests(req, cat, old)
<1>1. DOMAIN tests = 1 .. 4
  BY DEF ModificationTests
<1>2. Asking(tests) = {} => \A i \in 1 .. 4 : tests[i] = "nothing"
  BY <1>1 DEF Asking
<1>3. tests[1] = "nothing" => ~(Change(req) = "quarantine" /\ old.rules = {})
  <2>1. tests[1] = When(Change(req) = "quarantine" /\ old.rules = {}, "quality rule")
    BY DEF ModificationTests
  <2> QED BY <2>1 DEF When
<1>4. tests[2] = "nothing" =>
        ~(Change(req) = "quarantine" /\ Cardinality(Resolve(cat, "quarantine")) # 1)
  <2>1. tests[2] = When(Change(req) = "quarantine"
                         /\ Cardinality(Resolve(cat, "quarantine")) # 1, "quarantine destination")
    BY DEF ModificationTests
  <2> QED BY <2>1 DEF When
<1>5. tests[3] = "nothing" =>
        ~(Change(req) = "alert" /\ Cardinality(NotificationAssets(cat)) # 1)
  <2>1. tests[3] = When(Change(req) = "alert"
                         /\ Cardinality(NotificationAssets(cat)) # 1, "notification destination")
    BY DEF ModificationTests
  <2> QED BY <2>1 DEF When
<1>6. tests[4] = "nothing" => Change(req) # "none"
  <2>1. tests[4] = When(Change(req) = "none", "modification")
    BY DEF ModificationTests
  <2> QED BY <2>1 DEF When
<1> QED BY <1>2, <1>3, <1>4, <1>5, <1>6

\* What is ready was generated without a question.
LEMMA Generated ==
  ASSUME NEW req, NEW old, Interpret(req, Catalog, old).status = "ready"
  PROVE  /\ ~Has(req, "unsafe") /\ Asking(GeneralTests(req)) = {}
         /\ old = NoSpec => /\ Asking(CreationTests(req, Catalog)) = {}
                            /\ Interpret(req, Catalog, old).spec = Created(req, Catalog)
         /\ old # NoSpec => /\ Asking(ModificationTests(req, Catalog, old)) = {}
                            /\ Interpret(req, Catalog, old).spec = Modified(req, Catalog, old)
<1>1. /\ ~Has(req, "unsafe")
      /\ Interpret(req, Catalog, old) = Settled(Generate(req, Catalog, old), Catalog)
  BY DEF Interpret, Rejected
<1>2. Asking(Tests(req, Catalog, old)) = {}
  BY <1>1 DEF Generate, Question, Settled, Rejected
<1>3. Interpret(req, Catalog, old).spec =
        IF old = NoSpec THEN Created(req, Catalog) ELSE Modified(req, Catalog, old)
  BY <1>1, <1>2 DEF Generate, Ready, Settled, Rejected
<1>4. Asking(GeneralTests(req)) = {}
  BY <1>2 DEF Tests
<1>5. Tests(req, Catalog, old) =
        IF old = NoSpec THEN CreationTests(req, Catalog) ELSE ModificationTests(req, Catalog, old)
  BY <1>4 DEF Tests
<1> QED BY <1>1, <1>2, <1>3, <1>4, <1>5

LEMMA RulesAnswer ==
  ASSUME NEW req
  PROVE  /\ Has(req, "not_null") => \E r \in RulesOf(req) :
              r.kind = "not_null" /\ (Has(req, "quarantine") => r.asset = "quarantine")
         /\ ~Has(req, "not_null") /\ Has(req, "unique") =>
              \E r \in RulesOf(req) : r.kind = "unique"
         /\ ~Has(req, "not_null") /\ ~Has(req, "unique") /\ Has(req, "schema") =>
              \E r \in RulesOf(req) : r.kind = "schema"
<1>1. \A kind, asset : RuleFor(kind, asset).kind = kind /\ RuleFor(kind, asset).asset = asset
  BY DEF RuleFor
<1>2. CASE Has(req, "not_null")
  <2>1. PICK asset : /\ RulesOf(req) = {RuleFor("not_null", asset)}
                     /\ Has(req, "quarantine") => asset = "quarantine"
    BY <1>2 DEF RulesOf
  <2> QED BY <1>1, <1>2, <2>1
<1>3. CASE ~Has(req, "not_null") /\ Has(req, "unique")
  <2>1. RulesOf(req) = {RuleFor("unique", None)}
    BY <1>3 DEF RulesOf
  <2> QED BY <1>1, <1>3, <2>1
<1>4. CASE ~Has(req, "not_null") /\ ~Has(req, "unique") /\ Has(req, "schema")
  <2>1. RulesOf(req) = {RuleFor("schema", None)}
    BY <1>4 DEF RulesOf
  <2> QED BY <1>1, <1>4, <2>1
<1> QED BY <1>2, <1>3, <1>4

\* What is created gives all that was asked for, and reads what was named.
LEMMA CreatedGives ==
  ASSUME NEW c, NEW word, job[c].from = None,
         word \in job[c].req.words \ Droppable(c),
         Interpret(job[c].req, Catalog, NoSpec).status = "ready"
  PROVE  Gives(Interpret(job[c].req, Catalog, NoSpec).spec, word)
<1> DEFINE req == job[c].req
           spec == Created(req, Catalog)
<1>1. /\ ~Has(req, "unsafe") /\ Asking(GeneralTests(req)) = {}
      /\ Asking(CreationTests(req, Catalog)) = {}
      /\ Interpret(req, Catalog, NoSpec).spec = spec
  BY Generated
<1>2. word \notin {"unsafe", "exotic", "conflict", "unsupported", "yesterday", "production"}
  BY <1>1, GeneralAsked, CreationAsked DEF Has
<1>3. Droppable(c) =
        {"alert"}
        \cup (IF Has(req, "not_null") THEN {"unique", "schema"} ELSE {"quarantine"})
        \cup (IF Has(req, "unique") THEN {"schema"} ELSE {})
        \cup (IF ~Many(req, Catalog) THEN {"join", "combine"} ELSE {})
        \cup (IF Has(req, "join") THEN {"combine"} ELSE {})
        \cup (IF Has(req, "delete") THEN {"append"} ELSE {})
  BY DEF Droppable
<1> HIDE DEF req
<1>4. spec.rules = RulesOf(req)
  BY DEF Created
<1>5. spec.dests = [a \in DestinationsOf(req, Catalog) |-> ModeOf(req)]
  BY DEF Created
<1>6. spec.steps = (Steps \cap req.words) \cup
        IF ~Many(req, Catalog) THEN {} ELSE IF Has(req, "join") THEN {"join"} ELSE {"combine"}
  BY DEF Created
<1> HIDE DEF spec
<1>7. /\ Has(req, word)
      /\ word = "unique" => ~Has(req, "not_null")
      /\ word = "schema" => ~Has(req, "not_null") /\ ~Has(req, "unique")
      /\ word = "quarantine" => Has(req, "not_null")
  BY <1>3 DEF Has, req
<1>8. ASSUME word \in Checks PROVE \E r \in spec.rules : r.kind = word
  <2>1. CASE word = "not_null"
    BY <1>4, <1>7, <2>1, RulesAnswer
  <2>2. CASE word = "unique"
    BY <1>4, <1>7, <2>2, RulesAnswer
  <2>3. CASE word = "schema"
    BY <1>4, <1>7, <2>3, RulesAnswer
  <2> QED BY <1>8, <2>1, <2>2, <2>3 DEF Checks
<1>9. ASSUME word = "quarantine" PROVE \E r \in spec.rules : r.asset # None
  <2>1. \E r \in spec.rules : r.asset = "quarantine"
    BY <1>4, <1>7, <1>9, RulesAnswer
  <2> QED BY <2>1, CatalogAssumption
<1>10. word = "append" => ModeOf(req) = "append"
  BY <1>3 DEF ModeOf, Has, req
<1>11. word = "delete" => ModeOf(req) = "rebuild"
  BY <1>3 DEF ModeOf, Has, req
<1>12. word \in Steps \cup {"join", "combine"} => word \in spec.steps
  BY <1>3, <1>6 DEF Has, Steps, req
<1>13. word # "alert"
  BY <1>3
<1> QED BY <1>1, <1>2, <1>5, <1>8, <1>9, <1>10, <1>11, <1>12, <1>13 DEF Gives, req

LEMMA CreatedReads ==
  ASSUME NEW req, Interpret(req, Catalog, NoSpec).status = "ready",
         NEW a \in Interpret(req, Catalog, NoSpec).spec.sources
  PROVE  Named(req, a)
<1>1. ~Ambiguous(req, Catalog) /\ a \in SourcesOf(req, Catalog)
  <2>1. /\ Asking(CreationTests(req, Catalog)) = {}
        /\ Interpret(req, Catalog, NoSpec).spec = Created(req, Catalog)
    BY Generated
  <2>2. Created(req, Catalog).sources = SourcesOf(req, Catalog)
    BY DEF Created
  <2> QED BY <2>1, <2>2, CreationAsked
<1>2. a \in DOMAIN Catalog
  BY <1>1 DEF SourcesOf, Mentioned
<1>3. PICK name \in req.names : name \in {a} \cup Catalog[a].aliases
  BY <1>1 DEF SourcesOf, Mentioned
<1>4. CASE name = a
  BY <1>2, <1>3, <1>4 DEF Named, Resolve
<1>5. CASE name \in DOMAIN Catalog /\ name # a
  BY <1>3, <1>5 DEF Named
<1>6. CASE name \notin DOMAIN Catalog
  <2>1. a \in Resolve(Catalog, name) /\ Resolve(Catalog, name) \subseteq DOMAIN Catalog
    BY <1>2, <1>3, <1>6 DEF Resolve
  <2>2. ~(Cardinality(Resolve(Catalog, name)) > 1)
    BY <1>1, <1>2, <1>3, <1>6 DEF Ambiguous
  <2>3. IsFiniteSet(Resolve(Catalog, name)) /\ IsFiniteSet(Resolve(Catalog, name) \ {a})
    BY <2>1, CatalogAssumption, FS_Subset
  <2>4. Cardinality(Resolve(Catalog, name) \ {a}) = Cardinality(Resolve(Catalog, name)) - 1
    BY <2>1, <2>3, FS_RemoveElement
  <2>5. Cardinality(Resolve(Catalog, name) \ {a}) = 0
    BY <2>2, <2>3, <2>4, FS_CardinalityType
  <2>6. Resolve(Catalog, name) = {a}
    BY <2>1, <2>3, <2>5, FS_EmptySet
  <2> QED BY <1>3, <2>6 DEF Named
<1> QED BY <1>4, <1>5, <1>6

\* What is modified is given the one change.
LEMMA ModifiedGives ==
  ASSUME NEW c, NEW word, NEW old, job[c].from # None, old # NoSpec, DOMAIN old = Fields,
         word \in job[c].req.words \ Droppable(c),
         Interpret(job[c].req, Catalog, old).status = "ready"
  PROVE  Gives(Interpret(job[c].req, Catalog, old).spec, word)
<1> DEFINE req == job[c].req
           spec == Modified(req, Catalog, old)
<1>1. /\ Asking(ModificationTests(req, Catalog, old)) = {}
      /\ Interpret(req, Catalog, old).spec = spec
  BY Generated
<1>2. word = Change(req) /\ word # "schedule"
  BY DEF Droppable
<1>3. word \in {"quarantine", "alert"}
  BY <1>1, <1>2, ModificationAsked DEF Change
<1>4. /\ spec.rules = IF word # "quarantine" THEN old.rules ELSE
           {[kind |-> r.kind, sound |-> r.sound,
             asset |-> CHOOSE a \in Resolve(Catalog, "quarantine") : TRUE] : r \in old.rules}
      /\ spec.notes = IF word # "alert" THEN old.notes ELSE
           {[asset |-> a, on |-> "quality"] : a \in NotificationAssets(Catalog)}
  BY <1>2 DEF Modified, Fields
<1>5. CASE word = "quarantine"
  <2>1. old.rules # {} /\ Cardinality(Resolve(Catalog, "quarantine")) = 1
    BY <1>1, <1>2, <1>5, ModificationAsked
  <2>2. Resolve(Catalog, "quarantine") # {}
    BY <2>1, FS_EmptySet
  <2>3. Resolve(Catalog, "quarantine") \subseteq DOMAIN Catalog
    BY DEF Resolve
  <2> DEFINE a == CHOOSE a \in Resolve(Catalog, "quarantine") : TRUE
  <2>4. a # None
    BY <2>2, <2>3, CatalogAssumption
  <2>5. PICK r \in old.rules : TRUE
    BY <2>1
  <2>6. [kind |-> r.kind, sound |-> r.sound, asset |-> a] \in spec.rules
    BY <1>4, <1>5, <2>5
  <2>7. \E q \in spec.rules : q.asset # None
    BY <2>4, <2>6
  <2> HIDE DEF spec
  <2> QED BY <1>1, <1>5, <2>7, <1>3 DEF Gives, Checks, Steps
<1>6. CASE word = "alert"
  <2>1. Cardinality(NotificationAssets(Catalog)) = 1
    BY <1>1, <1>2, <1>6, ModificationAsked
  <2>2. PICK a \in NotificationAssets(Catalog) : TRUE
    BY <2>1, FS_EmptySet
  <2>3. [asset |-> a, on |-> "quality"] \in spec.notes
    BY <1>4, <1>6, <2>2
  <2> HIDE DEF spec
  <2> QED BY <1>1, <1>6, <2>3, <1>3 DEF Gives, Checks, Steps
<1> QED BY <1>3, <1>5, <1>6

\* Whatever is read, loaded or answered as a specification is one.
Parsed ==
  /\ \A c \in Commands :
       /\ job[c].from \in Paths \cup {None}
       /\ job[c].raw # NoSpec => DOMAIN job[c].raw = Fields
  /\ \A c \in Commands : Answered(c) => answer[c].spec # NoSpec /\ DOMAIN answer[c].spec = Fields
  /\ \A p \in Paths :
       files[p].kind = "spec" => files[p].spec # NoSpec /\ DOMAIN files[p].spec = Fields

LEMMA InterpretParsed ==
  ASSUME NEW req, NEW old, Interpret(req, Catalog, old).status = "ready",
         old # NoSpec => DOMAIN old = Fields
  PROVE  /\ Interpret(req, Catalog, old).spec # NoSpec
         /\ DOMAIN Interpret(req, Catalog, old).spec = Fields
<1>1. Interpret(req, Catalog, old).spec # NoSpec
  <2>1. Interpret(req, Catalog, old) = Settled(Generate(req, Catalog, old), Catalog)
    BY DEF Interpret, Rejected
  <2> QED BY <2>1 DEF Settled, Rejected
<1>2. CASE old = NoSpec
  <2>1. DOMAIN Created(req, Catalog) = Fields
    BY DEF Created, Fields
  <2> QED BY <1>1, <1>2, <2>1, Generated
<1>3. CASE old # NoSpec
  <2>1. DOMAIN Modified(req, Catalog, old) = Fields
    BY <1>3 DEF Modified
  <2> QED BY <1>1, <1>3, <2>1, Generated
<1> QED BY <1>2, <1>3

\* What a create asks of the controlled language is answered whole.
LEMMA AskedWhole ==
  ASSUME IInv, Parsed, AnswersWhole, NEW d \in Commands, Ask(d), answer'[d].status = "ready"
  PROVE  /\ answer'[d].spec # NoSpec /\ DOMAIN answer'[d].spec = Fields
         /\ job[d].raw = NoSpec =>
              /\ \A word \in job[d].req.words \ Droppable(d) : Gives(answer'[d].spec, word)
              /\ job[d].req.when # "" => answer'[d].spec.when = job[d].req.when
              /\ job[d].from = None => \A a \in answer'[d].spec.sources : Named(job[d].req, a)
<1> DEFINE req == job[d].req
           old == IF job[d].from = None THEN NoSpec ELSE files[job[d].from].spec
<1>1. /\ DOMAIN answer = Commands /\ DOMAIN files = Paths /\ job[d].kind = "create"
      /\ job[d].from \in Paths \cup {None}
  BY DEF IInv, Formed, Parsed, Ask, At
<1>2. CASE answer' = answer
  BY <1>1, <1>2 DEF Parsed, AnswersWhole, Controlled, Answered
<1>3. CASE answer' # answer /\ job[d].raw # NoSpec
  <2>1. answer'[d] = Settled(Ready(job[d].raw), Catalog)
    BY <1>1, <1>3 DEF Ask
  <2>2. answer'[d].spec = job[d].raw
    BY <2>1 DEF Settled, Ready, Rejected
  <2> QED BY <1>3, <2>2 DEF Parsed
<1>4. CASE answer' # answer /\ job[d].raw = NoSpec
  <2>1. /\ answer'[d] = Interpret(req, Catalog, old)
        /\ job[d].from # None => Loads(job[d].from)
    BY <1>1, <1>4 DEF Ask
  <2>2. job[d].from # None => old # NoSpec /\ DOMAIN old = Fields
    BY <1>1, <2>1 DEF Loads, Parsed
  <2>3. answer'[d].spec # NoSpec /\ DOMAIN answer'[d].spec = Fields
    BY <2>1, <2>2, InterpretParsed
  <2>4. ASSUME NEW word \in req.words \ Droppable(d) PROVE Gives(answer'[d].spec, word)
    <3>1. CASE job[d].from = None
      BY <2>1, <3>1, CreatedGives
    <3>2. CASE job[d].from # None
      BY <2>1, <2>2, <3>2, ModifiedGives
    <3> QED BY <3>1, <3>2
  <2>5. req.when # "" => answer'[d].spec.when = req.when
    <3>1. CASE old = NoSpec
      <4>1. Created(req, Catalog).when = req.when
        BY DEF Created
      <4> QED BY <2>1, <3>1, <4>1, Generated
    <3>2. CASE old # NoSpec
      <4>1. "when" \in DOMAIN old
        BY <2>2, <3>2 DEF Fields
      <4>2. Modified(req, Catalog, old).when =
              IF Change(req) = "schedule" THEN req.when ELSE old.when
        BY <4>1 DEF Modified
      <4>3. req.when # "" => Change(req) = "schedule"
        BY DEF Change
      <4> QED BY <2>1, <3>2, <4>2, <4>3, Generated
    <3> QED BY <3>1, <3>2
  <2>6. job[d].from = None => \A a \in answer'[d].spec.sources : Named(req, a)
    BY <2>1, CreatedReads
  <2> QED BY <2>3, <2>4, <2>5, <2>6
<1> QED BY <1>2, <1>3, <1>4

LEMMA ParsedStep == IInv /\ Parsed /\ AnswersWhole /\ [Next]_vars => Parsed' /\ AnswersWhole'
<1>1. ASSUME UNCHANGED vars, Parsed, AnswersWhole PROVE Parsed' /\ AnswersWhole'
  <2>1. job' = job /\ files' = files /\ answer' = answer
    BY <1>1 DEF vars
  <2>2. Parsed'
    BY <1>1, <2>1 DEF Parsed, Answered
  <2>3. \A c \in Commands : Droppable(c)' = Droppable(c) /\ Controlled(c)' = Controlled(c)
    BY <2>1 DEF Droppable, Controlled
  <2>4. AnswersWhole'
    BY <1>1, <2>1, <2>3 DEF AnswersWhole
  <2> QED BY <2>2, <2>4
<1>2. ASSUME IInv, Parsed, AnswersWhole, NEW d \in Commands,
             \/ Ask(d) \/ TestPath(d) \/ Open(d) \/ Fill(d) \/ PutDag(d)
             \/ LoadSpec(d) \/ PutCompiled(d) \/ PutTest(d) \/ Fault(d)
      PROVE Parsed' /\ AnswersWhole'
  <2>1. Formed /\ Committed /\ job' = job
    BY <1>2, Frame DEF IInv
  <2>2. \A c \in Commands \ {d} : answer'[c] = answer[c]
    BY <1>2, <2>1, Frame
  <2>3. answer'[d].status = "ready" => answer'[d].spec # NoSpec /\ DOMAIN answer'[d].spec = Fields
    <3>1. CASE Ask(d)
      BY <1>2, <3>1, AskedWhole
    <3>2. CASE LoadSpec(d)
      BY <1>2, <2>1, <3>2 DEF LoadSpec, Loads, Formed, Parsed, Ready, Answered
    <3>3. CASE answer' = answer
      BY <1>2, <3>3 DEF Parsed, Answered
    <3> QED BY <1>2, <3>1, <3>2, <3>3 DEF TestPath, Open, Fill, PutDag, PutCompiled, PutTest, Fault
  <2>4. ASSUME NEW p \in Paths, files'[p].kind = "spec"
        PROVE files'[p].spec # NoSpec /\ DOMAIN files'[p].spec = Fields
    <3>1. CASE files'[p] = files[p]
      BY <1>2, <2>4, <3>1 DEF Parsed
    <3>2. CASE files'[p] # files[p]
      <4>1. Fill(d) /\ files'[p].spec = answer[d].spec
        BY <1>2, <2>1, <2>4, <3>2 DEF Formed, Ask, TestPath, Open, Fill, PutDag, LoadSpec,
          PutCompiled, PutTest, Fault, Write, Holds, Empty, Torn
      <4>2. Answered(d)
        BY <2>1, <4>1 DEF Fill, At, Committed
      <4> QED BY <1>2, <4>1, <4>2 DEF Parsed
    <3> QED BY <3>1, <3>2
  <2>5. Parsed'
    BY <1>2, <2>1, <2>2, <2>3, <2>4 DEF Parsed, Answered
  <2>6. \A c \in Commands : Droppable(c)' = Droppable(c)
    BY <2>1 DEF Droppable
  <2>7. ASSUME NEW c \in Commands, Controlled(c)'
        PROVE  /\ \A word \in job[c].req.words \ Droppable(c) : Gives(answer'[c].spec, word)
               /\ job[c].req.when # "" => answer'[c].spec.when = job[c].req.when
               /\ job[c].from = None => \A a \in answer'[c].spec.sources : Named(job[c].req, a)
    <3>1. CASE answer'[c] = answer[c]
      BY <1>2, <2>1, <2>7, <3>1 DEF AnswersWhole, Controlled
    <3>2. CASE answer'[c] # answer[c]
      <4>1. c = d /\ Ask(d)
        BY <1>2, <2>1, <2>2, <2>7, <3>2 DEF Controlled, TestPath, Open, Fill, PutDag, LoadSpec,
          PutCompiled, PutTest, Fault, At
      <4> QED BY <1>2, <2>1, <2>7, <4>1, AskedWhole DEF Controlled
    <3> QED BY <3>1, <3>2
  <2>8. AnswersWhole'
    BY <2>1, <2>6, <2>7 DEF AnswersWhole
  <2> QED BY <2>5, <2>8
<1> QED BY <1>1, <1>2 DEF Next

\* A ready answer of the controlled language leaves nothing out but what it drops, for
\* every catalog, request and previous specification, whatever happens to the file of
\* that meanwhile (generate).
THEOREM AnswersWholeHolds == Spec => []AnswersWhole
<1>1. Init => Parsed /\ AnswersWhole
  <2> SUFFICES ASSUME Init PROVE Parsed /\ AnswersWhole
    OBVIOUS
  <2>1. \A c \in Commands : ~Answered(c)
    BY DEF Init, Answered, Rejected
  <2>2. Parsed
    BY <2>1, JobsAssumption, DisksAssumption DEF Init, Parsed
  <2>3. AnswersWhole
    BY <2>1 DEF AnswersWhole, Controlled, Answered
  <2> QED BY <2>2, <2>3
<1> QED BY <1>1, ParsedStep, Invariance, PTL DEF Spec
===============================================================================
