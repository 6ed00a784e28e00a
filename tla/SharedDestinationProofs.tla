------------------------ MODULE SharedDestinationProofs ------------------------
(* For every set of pipelines, destinations, databases and modes: what is lost of  *)
(* a shared destination is lost to processes that met in write, and those are not  *)
(* of one scheduled pipeline unless one of them outlived its run.                  *)
EXTENDS SharedDestination, TLAPS, WellFoundedInduction

\* A process in write has its rows, was counted when it started, and is the one
\* Airflow waits for, if Airflow never gave one of its pipeline up alive.
Handed == \A w \in Writers : pc[w] \in Live => rows[w] \in Values
Counted == \A w \in Writers : pc[w] # "none" => w[2] <= starts[w[1]]
Awaited ==
  /\ \A w \in Writers :
       pc[w] \in Live /\ w[1] \in Scheduled \ outlived => w[2] = current[w[1]]
  /\ \A p \in Pipelines : current[p] # 0 => p \in Scheduled

\* Where no two met, there is at most one between, and it has seen what is there.
Alone == \A a \in Assets \ met : \A v, w \in Between(a) : v = w
Fresh ==
  \A w \in Writers :
    pc[w] \in {"looked", "writing"} /\ w[1] \in Merging /\ Asset[w[1]] \notin met =>
      seen[w] = table[Asset[w[1]]]

\* A table is in a file, and who writes one has the file; and every file was there, or
\* somebody wrote a table of it, is about to, or was cut off.
Filed ==
  /\ \A a \in Assets : table[a] # Absent => FileExists(a)
  /\ \A w \in Writers : pc[w] = "writing" => Database(Asset[w[1]]) \subseteq files
Writing(d) == \E w \in Writers : pc[w] = "writing" /\ d \in Database(Asset[w[1]])
Accounted ==
  \A d \in files :
    d \in Present \cup cut \/ (\E b \in d \cap Assets : log[b] # <<>>) \/ Writing(d)

\* Those that met have their excuse.
Excused ==
  \A a \in met :
    \/ \E p, q \in Pipelines : p # q /\ Asset[p] = a /\ Asset[q] = a
    \/ \E p \in Pipelines : Asset[p] = a /\ p \notin Scheduled \ outlived

\* Who has put something in place is done, and was before everybody who is not.
Logged ==
  \A a \in Assets : \A i \in DOMAIN log[a] :
    LET v == log[a][i][1] IN
    /\ pc[v] = "wrote"
    /\ \A w \in Writers :
         pc[w] \in Live /\ w[1] = v[1] /\ v[1] \in Scheduled \ outlived => v[2] < w[2]
InOrder ==
  \A a \in Assets : \A i, j \in DOMAIN log[a] :
    LET v == log[a][i][1]  w == log[a][j][1] IN
    i < j /\ v[1] = w[1] /\ v[1] \in Scheduled \ outlived => v[2] < w[2]

IInv ==
  /\ TypeOK /\ Handed /\ Counted /\ Awaited
  /\ Alone /\ Fresh /\ NoneLost /\ Excused /\ Logged /\ InOrder
  /\ Filed /\ Accounted

-------------------------------------------------------------------------------
\* A writer is a pipeline and a number, and has one of the destinations.
LEMMA WriterParts ==
  ASSUME NEW w \in Writers
  PROVE  /\ w[1] \in Pipelines /\ w[2] \in 1 .. MaxStarts[w[1]] /\ w = <<w[1], w[2]>>
         /\ Asset[w[1]] \in Assets
BY DEF Writers, Assets

LEMMA WriterOf ==
  ASSUME NEW p \in Pipelines, NEW n \in 1 .. MaxStarts[p]
  PROVE  <<p, n>> \in Writers
BY DEF Writers

LEMMA LogParts ==
  ASSUME TypeOK, NEW a \in Assets, NEW i \in DOMAIN log[a]
  PROVE  log[a][i] \in Writers \X Table /\ log[a][i][1] \in Writers
<1>1. log[a] \in Seq(Writers \X Table)
  BY DEF TypeOK
<1> QED BY <1>1

\* A write makes a table or raises.
LEMMA StoreType ==
  ASSUME NEW p \in Pipelines, NEW old \in Table, NEW handed \in Values
  PROVE  Store(p, old, handed) \in Table
BY WritersAssumption

LEMMA InitIInv == Init => IInv
<1> SUFFICES ASSUME Init PROVE IInv
  OBVIOUS
<1> USE WritersAssumption DEF Init
<1>1. TypeOK
  BY DEF TypeOK, Steps, Table
<1>2. Handed /\ Counted /\ Awaited /\ Fresh
  BY DEF Handed, Counted, Awaited, Fresh, Live
<1>3. Alone /\ NoneLost /\ Excused /\ Logged /\ InOrder
  BY DEF Alone, Between, NoneLost, Excused, Logged, InOrder
<1>4. Filed
  <2> SUFFICES ASSUME NEW a \in Assets, Before[a] # Absent, Database(a) # {}
               PROVE  Database(a) \subseteq Present
    BY DEF Filed, FileExists
  <2> QED BY DEF Database
<1>5. Accounted
  BY DEF Accounted
<1> QED BY <1>1, <1>2, <1>3, <1>4, <1>5 DEF IInv

\* Starting: the new process has the highest number of its pipeline.
LEMMA StartKeeps ==
  ASSUME IInv, NEW p \in Pipelines, Start(p)
  PROVE  IInv'
<1> DEFINE x == <<p, starts[p] + 1>>
<1>0. MaxStarts \in [Pipelines -> Nat] /\ Batches[p] \subseteq Values
  BY WritersAssumption
<1>1. /\ starts[p] \in Nat /\ starts[p] < MaxStarts[p] /\ MaxStarts[p] \in Nat
      /\ starts' = [starts EXCEPT ![p] = starts[p] + 1]
      /\ current' = [current EXCEPT ![p] = IF p \in Scheduled THEN starts[p] + 1 ELSE 0]
      /\ p \in Scheduled => current[p] = 0
  BY <1>0 DEF IInv, TypeOK, Start
<1>2. starts[p] + 1 \in 1 .. MaxStarts[p]
  BY <1>1
<1>3. x \in Writers /\ x[1] = p /\ x[2] = starts[p] + 1
  BY <1>2, WriterOf
<1>4. pc[x] = "none"
  BY <1>1, <1>3 DEF IInv, Counted
<1>5. \A w \in Writers : w # x => pc'[w] = pc[w] /\ rows'[w] = rows[w]
  BY <1>3 DEF IInv, TypeOK, Start
<1>6. pc'[x] = "ready" /\ rows'[x] \in Values
  <2>1. PICK batch \in Batches[p] : rows' = [rows EXCEPT ![x] = batch]
    BY DEF Start
  <2>2. pc' = [pc EXCEPT ![x] = "ready"]
    BY DEF Start
  <2> QED BY <2>1, <2>2, <1>0, <1>3 DEF IInv, TypeOK
<1>7. TypeOK'
  <2>1. rows' \in [Writers -> Table]
    <3>1. PICK batch \in Batches[p] : rows' = [rows EXCEPT ![x] = batch]
      BY DEF Start
    <3>2. batch \in Table
      BY <3>1, WritersAssumption DEF Table
    <3> QED BY <3>1, <3>2 DEF IInv, TypeOK
  <2>2. starts' \in [Pipelines -> Nat] /\ current' \in [Pipelines -> Nat]
    BY <1>1 DEF IInv, TypeOK
  <2>3. \A q \in Pipelines : current'[q] <= starts'[q] /\ starts'[q] <= MaxStarts[q]
    BY <1>1 DEF IInv, TypeOK
  <2>4. pc' \in [Writers -> Steps]
    BY DEF IInv, TypeOK, Start, Steps
  <2> QED BY <2>1, <2>2, <2>3, <2>4 DEF IInv, TypeOK, Start
<1>8. Handed'
  BY <1>5, <1>6 DEF IInv, Handed
<1>9. Counted'
  <2> SUFFICES ASSUME NEW w \in Writers, pc'[w] # "none" PROVE w[2] <= starts'[w[1]]
    BY DEF Counted
  <2>1. w[1] \in Pipelines /\ w[2] \in Nat
    BY WriterParts, WritersAssumption
  <2>2. CASE w = x
    BY <2>2, <1>1, <1>3 DEF IInv, TypeOK
  <2>3. CASE w # x
    BY <2>1, <2>3, <1>1, <1>5 DEF IInv, TypeOK, Counted
  <2> QED BY <2>2, <2>3
<1>10. Awaited'
  <2>1. ASSUME NEW w \in Writers, pc'[w] \in Live, w[1] \in Scheduled \ outlived
        PROVE  w[2] = current'[w[1]]
    <3>1. CASE w = x
      BY <3>1, <2>1, <1>1, <1>3 DEF IInv, TypeOK
    <3>2. CASE w # x
      <4>1. w[2] = current[w[1]] /\ w[2] > 0 /\ w[1] \in Pipelines
        BY <3>2, <2>1, <1>5, WriterParts, WritersAssumption DEF IInv, Awaited
      <4>2. w[1] # p
        BY <4>1, <2>1, <1>1
      <4> QED BY <4>1, <4>2, <1>1 DEF IInv, TypeOK
    <3> QED BY <3>1, <3>2
  <2>2. ASSUME NEW q \in Pipelines, current'[q] # 0 PROVE q \in Scheduled
    BY <2>2, <1>1 DEF IInv, TypeOK, Awaited
  <2> QED BY <2>1, <2>2 DEF Awaited, Start
<1>11. Alone' /\ Fresh' /\ NoneLost' /\ Excused' /\ InOrder'
  BY <1>4, <1>5, <1>6 DEF IInv, Alone, Between, Fresh, NoneLost, Excused, InOrder, Start
<1>12. Logged'
  <2>1. ASSUME NEW a \in Assets, NEW i \in DOMAIN log[a], NEW v, v = log[a][i][1]
        PROVE  /\ pc'[v] = "wrote"
               /\ \A w \in Writers :
                    pc'[w] \in Live /\ w[1] = v[1] /\ v[1] \in Scheduled \ outlived
                      => v[2] < w[2]
    <3>1. v \in Writers /\ pc[v] = "wrote" /\ v # x
      BY <1>4, <2>1, LogParts DEF IInv, Logged
    <3>2. v[2] <= starts[v[1]] /\ v[2] \in Nat
      BY <3>1, WriterParts, WritersAssumption DEF IInv, Counted
    <3>3. ASSUME NEW w \in Writers, pc'[w] \in Live, w[1] = v[1], v[1] \in Scheduled \ outlived
          PROVE  v[2] < w[2]
      <4>1. CASE w = x
        BY <4>1, <3>2, <3>3, <1>1, <1>3
      <4>2. CASE w # x
        BY <4>2, <2>1, <3>3, <1>5 DEF IInv, Logged
      <4> QED BY <4>1, <4>2
    <3> QED BY <3>1, <3>3, <1>5
  <2> QED BY <2>1 DEF Logged, Start
<1>13. Filed' /\ Accounted'
  <2>1. \A w \in Writers : pc'[w] = "writing" <=> pc[w] = "writing"
    BY <1>4, <1>5, <1>6
  <2> QED BY <2>1 DEF IInv, Filed, Accounted, Writing, FileExists, Start
<1> QED BY <1>7, <1>8, <1>9, <1>10, <1>11, <1>12, <1>13 DEF IInv

\* Airflow stops waiting for an attempt that ended, or takes a live one for dead,
\* and then its pipeline counts as outlived.
LEMMA ReleaseKeeps ==
  ASSUME IInv, NEW p \in Pipelines, Release(p)
  PROVE  IInv'
<1>1. outlived \subseteq outlived' /\ p \in Scheduled
      /\ current' = [current EXCEPT ![p] = 0]
  BY DEF Release, IInv, Awaited
<1>2. TypeOK'
  <2>1. outlived' \subseteq Scheduled
    BY <1>1 DEF Release, IInv, TypeOK
  <2>2. current' \in [Pipelines -> Nat]
    BY <1>1 DEF IInv, TypeOK
  <2>3. \A q \in Pipelines : current'[q] <= starts[q]
    BY <1>1 DEF IInv, TypeOK
  <2> QED BY <2>1, <2>2, <2>3 DEF Release, IInv, TypeOK
<1>3. Awaited'
  <2>1. ASSUME NEW w \in Writers, pc[w] \in Live, w[1] \in Scheduled \ outlived'
        PROVE  w[2] = current'[w[1]]
    <3>1. w[2] = current[w[1]] /\ w[1] \in Pipelines /\ w = <<w[1], w[2]>>
      BY <2>1, <1>1, WriterParts DEF IInv, Awaited
    <3>2. w[1] # p
      BY <3>1, <2>1 DEF Release
    <3> QED BY <3>1, <3>2, <1>1 DEF IInv, TypeOK
  <2>2. ASSUME NEW q \in Pipelines, current'[q] # 0 PROVE q \in Scheduled
    BY <2>2, <1>1 DEF IInv, TypeOK, Awaited
  <2> QED BY <2>1, <2>2 DEF Awaited, Release
<1>4. Handed' /\ Counted' /\ Alone' /\ Fresh' /\ NoneLost'
  BY DEF Release, IInv, Handed, Counted, Alone, Between, Fresh, NoneLost
<1>5. Excused' /\ InOrder' /\ Logged'
  BY <1>1 DEF Release, IInv, Excused, InOrder, Logged
<1>6. Filed' /\ Accounted'
  BY DEF Release, IInv, Filed, Accounted, Writing, FileExists
<1> QED BY <1>2, <1>3, <1>4, <1>5, <1>6 DEF IInv

\* A process leaves write without having put anything in place.
LEMMA EndKeeps ==
  ASSUME IInv, NEW w \in Writers, pc[w] \in Live,
         NEW step \in {"raised", "dead"}, End(w, step)
  PROVE  IInv'
<1>0. /\ Exit(w, step) /\ UNCHANGED <<starts, current, table, files, log, kept, outlived, met>>
      /\ cut' = IF pc[w] = "writing" THEN cut \cup Database(Asset[w[1]]) ELSE cut
  BY DEF End
<1>1. /\ pc' \in [Writers -> Steps] /\ pc'[w] = step /\ step \notin Live
      /\ \A v \in Writers : v # w => pc'[v] = pc[v] /\ rows'[v] = rows[v] /\ seen'[v] = seen[v]
  BY <1>0 DEF Exit, IInv, TypeOK, Steps, Live
<1>2. TypeOK'
  <2>1. rows' \in [Writers -> Table] /\ seen' \in [Writers -> Table]
    BY <1>0 DEF Exit, IInv, TypeOK, Table
  <2>2. cut' \subseteq Databases
    BY <1>0 DEF Database, IInv, TypeOK
  <2> QED BY <1>0, <1>1, <2>1, <2>2 DEF IInv, TypeOK
<1>3. Handed' /\ Counted' /\ Awaited' /\ NoneLost' /\ Excused' /\ InOrder'
  BY <1>0, <1>1 DEF IInv, Handed, Counted, Awaited, NoneLost, Excused, InOrder, Live
<1>4. Alone' /\ Fresh'
  BY <1>0, <1>1 DEF IInv, Alone, Fresh, Between, Live
<1>5. Logged'
  <2> SUFFICES ASSUME NEW a \in Assets, NEW i \in DOMAIN log[a]
               PROVE  /\ pc'[log[a][i][1]] = "wrote"
                      /\ \A v \in Writers :
                           /\ pc'[v] \in Live /\ v[1] = log[a][i][1][1]
                           /\ log[a][i][1][1] \in Scheduled \ outlived
                           => log[a][i][1][2] < v[2]
    BY <1>0 DEF Logged
  <2>1. log[a][i][1] \in Writers /\ pc[log[a][i][1]] = "wrote"
    BY LogParts DEF IInv, Logged
  <2>2. log[a][i][1] # w
    BY <2>1 DEF Live
  <2> QED BY <2>1, <2>2, <1>1 DEF IInv, Logged
<1>6. Filed'
  BY <1>0, <1>1 DEF IInv, Filed, FileExists, Live
<1>7. Accounted'
  <2> SUFFICES ASSUME NEW d \in files, d \notin Present \cup cut',
                      ~\E b \in d \cap Assets : log[b] # <<>>
               PROVE  Writing(d)'
    BY <1>0 DEF Accounted
  <2>1. PICK v \in Writers : pc[v] = "writing" /\ d \in Database(Asset[v[1]])
    BY <1>0 DEF IInv, Accounted, Writing
  <2>2. v # w
    BY <1>0, <2>1
  <2> QED BY <1>1, <2>1, <2>2 DEF Writing, Database
<1> QED BY <1>2, <1>3, <1>4, <1>5, <1>6, <1>7 DEF IInv

\* Reading: where nobody else is between, the reader is alone there and has seen what
\* is there; where somebody is, the asset is one where two met, with an excuse.
LEMMA LookKeeps ==
  ASSUME IInv, NEW w \in Writers, Look(w)
  PROVE  IInv'
<1> DEFINE p == w[1]  a == Asset[w[1]]
           merges == p \in Merging /\ FileExists(a)
<1>1. p \in Pipelines /\ a \in Assets /\ w = <<p, w[2]>> /\ pc[w] \in Live
  BY WriterParts DEF Look, Live
<1>2. CASE merges /\ table[a] = Absent
  <2>1. End(w, "raised")
    BY <1>2 DEF Look
  <2> QED BY <2>1, <1>1, EndKeeps
<1>3. CASE ~(merges /\ table[a] = Absent)
  <2>1. /\ pc' = [pc EXCEPT ![w] = "looked"]
        /\ seen' = [seen EXCEPT ![w] = IF merges THEN table[a] ELSE Absent]
        /\ met' = IF Between(a) # {} THEN met \cup {a} ELSE met
        /\ UNCHANGED <<starts, current, rows, table, files, log, kept, outlived, cut>>
    BY <1>3 DEF Look, Looked
  <2>2. p \in Merging => seen'[w] = table[a]
    <3>1. ~FileExists(a) => table[a] = Absent
      BY <1>1 DEF IInv, Filed
    <3> QED BY <2>1, <3>1 DEF IInv, TypeOK
  <2>3. /\ pc'[w] = "looked" /\ \A v \in Writers : v # w => pc'[v] = pc[v] /\ seen'[v] = seen[v]
        /\ pc[w] = "ready" /\ met \subseteq met' /\ met' \subseteq met \cup {a}
    BY <2>1 DEF IInv, TypeOK, Look
  <2>4. TypeOK'
    BY <2>1, <1>1 DEF IInv, TypeOK, Steps, Table
  <2>5. Handed' /\ Counted' /\ Awaited' /\ NoneLost' /\ InOrder'
    BY <2>1, <2>3 DEF IInv, Handed, Counted, Awaited, NoneLost, InOrder, Live
  <2>6. Alone'
    <3> SUFFICES ASSUME NEW b \in Assets \ met', NEW u \in Between(b)', NEW v \in Between(b)'
                 PROVE  u = v
      BY DEF Alone
    <3>1. CASE b = a
      <4>1. Between(a) = {}
        BY <3>1, <2>1
      <4> QED BY <4>1, <3>1, <2>3 DEF Between
    <3>2. CASE b # a
      BY <3>2, <2>3, <1>1 DEF Between, IInv, Alone
    <3> QED BY <3>1, <3>2
  <2>7. Fresh'
    BY <2>1, <2>2, <2>3 DEF IInv, Fresh
  <2>8. Excused'
    <3>1. ASSUME Between(a) # {}
          PROVE  \/ \E q, r \in Pipelines : q # r /\ Asset[q] = a /\ Asset[r] = a
                 \/ \E q \in Pipelines : Asset[q] = a /\ q \notin Scheduled \ outlived
      <4>1. PICK v \in Writers : pc[v] \in {"looked", "writing"} /\ Asset[v[1]] = a
        BY <3>1 DEF Between
      <4>2. v # w /\ v[1] \in Pipelines /\ v = <<v[1], v[2]>>
        BY <4>1, <2>3, WriterParts
      <4>3. CASE v[1] = p
        <5>1. v[2] # w[2]
          BY <4>2, <4>3, <1>1
        <5>2. p \notin Scheduled \ outlived
          BY <5>1, <4>1, <4>3, <1>1 DEF IInv, Awaited, Live
        <5> QED BY <5>2, <1>1
      <4>4. CASE v[1] # p
        BY <4>1, <4>2, <4>4, <1>1
      <4> QED BY <4>3, <4>4
    <3> QED BY <2>1, <3>1 DEF IInv, Excused
  <2>9. Logged'
    <3> SUFFICES ASSUME NEW b \in Assets, NEW i \in DOMAIN log[b]
                 PROVE  /\ pc'[log[b][i][1]] = "wrote"
                        /\ \A v \in Writers :
                             /\ pc'[v] \in Live /\ v[1] = log[b][i][1][1]
                             /\ log[b][i][1][1] \in Scheduled \ outlived
                             => log[b][i][1][2] < v[2]
      BY <2>1 DEF Logged
    <3>1. log[b][i][1] \in Writers /\ pc[log[b][i][1]] = "wrote" /\ log[b][i][1] # w
      BY LogParts, <2>3 DEF IInv, Logged
    <3>2. \A v \in Writers : pc'[v] \in Live => pc[v] \in Live
      BY <2>3, <1>1
    <3> QED BY <3>1, <3>2, <2>3 DEF IInv, Logged
  <2>10. Filed' /\ Accounted'
    <3>1. \A v \in Writers : pc'[v] = "writing" <=> pc[v] = "writing"
      BY <2>3
    <3> QED BY <2>1, <3>1 DEF IInv, Filed, Accounted, Writing, FileExists
  <2> QED BY <2>4, <2>5, <2>6, <2>7, <2>8, <2>9, <2>10 DEF IInv
<1> QED BY <1>2, <1>3

\* Connecting: the file is there, and the process is still between.
LEMMA ConnectKeeps ==
  ASSUME IInv, NEW w \in Writers, Connect(w)
  PROVE  IInv'
<1> DEFINE a == Asset[w[1]]
<1>1. /\ pc[w] = "looked" /\ pc' = [pc EXCEPT ![w] = "writing"]
      /\ files' = files \cup Database(a)
      /\ UNCHANGED <<starts, current, rows, seen, table, log, kept, outlived, met, cut>>
  BY DEF Connect
<1>2. pc'[w] = "writing" /\ \A v \in Writers : v # w => pc'[v] = pc[v]
  BY <1>1 DEF IInv, TypeOK
<1>3. TypeOK'
  <2>1. files' \subseteq Databases
    BY <1>1 DEF Database, IInv, TypeOK
  <2>2. pc' \in [Writers -> Steps]
    BY <1>1 DEF IInv, TypeOK, Steps
  <2> QED BY <1>1, <2>1, <2>2 DEF IInv, TypeOK
<1>4. \A v \in Writers : /\ pc'[v] \in Live <=> pc[v] \in Live
                         /\ pc'[v] \in {"looked", "writing"} <=> pc[v] \in {"looked", "writing"}
                         /\ pc'[v] \in {"none", "wrote"} => pc[v] = pc'[v]
  BY <1>1, <1>2 DEF Live
<1>5. Handed' /\ Counted' /\ Awaited' /\ NoneLost' /\ Excused' /\ InOrder'
  BY <1>1, <1>2, <1>4 DEF IInv, Handed, Counted, Awaited, NoneLost, Excused, InOrder, Live
<1>6. Alone' /\ Fresh'
  BY <1>1, <1>4 DEF IInv, Alone, Fresh, Between
<1>7. Logged'
  <2> SUFFICES ASSUME NEW b \in Assets, NEW i \in DOMAIN log[b]
               PROVE  /\ pc'[log[b][i][1]] = "wrote"
                      /\ \A v \in Writers :
                           /\ pc'[v] \in Live /\ v[1] = log[b][i][1][1]
                           /\ log[b][i][1][1] \in Scheduled \ outlived
                           => log[b][i][1][2] < v[2]
    BY <1>1 DEF Logged
  <2>1. log[b][i][1] \in Writers /\ pc[log[b][i][1]] = "wrote" /\ log[b][i][1] # w
    BY <1>1, LogParts DEF IInv, Logged
  <2> QED BY <1>2, <1>4, <2>1 DEF IInv, Logged
<1>8. Filed'
  <2>1. ASSUME NEW b \in Assets, table'[b] # Absent PROVE FileExists(b)'
    BY <1>1, <2>1 DEF IInv, Filed, FileExists
  <2>2. ASSUME NEW v \in Writers, pc'[v] = "writing"
        PROVE  Database(Asset[v[1]]) \subseteq files'
    BY <1>1, <1>2, <2>2 DEF IInv, Filed
  <2> QED BY <2>1, <2>2 DEF Filed
<1>9. Accounted'
  <2> SUFFICES ASSUME NEW d \in files', d \notin Present \cup cut,
                      ~\E b \in d \cap Assets : log[b] # <<>>
               PROVE  Writing(d)'
    BY <1>1 DEF Accounted
  <2>1. CASE d \in Database(a)
    BY <1>2, <2>1 DEF Writing
  <2>2. CASE d \in files
    <3>1. PICK v \in Writers : pc[v] = "writing" /\ d \in Database(Asset[v[1]])
      BY <2>2 DEF IInv, Accounted, Writing
    <3> QED BY <1>1, <1>2, <3>1 DEF Writing
  <2> QED BY <1>1, <2>1, <2>2
<1> QED BY <1>3, <1>5, <1>6, <1>7, <1>8, <1>9 DEF IInv

\* What a process alone makes is what the deliveries make one after the other.
LEMMA PutAlone ==
  ASSUME IInv, NEW w \in Writers, pc[w] \in {"looked", "writing"}, Asset[w[1]] \notin met
  PROVE  New(w) = Store(w[1], table[Asset[w[1]]], rows[w])
<1>1. /\ w[1] \in Pipelines /\ seen[w] \in Table /\ rows[w] \in Values
      /\ table[Asset[w[1]]] \in Table
  BY WriterParts DEF IInv, TypeOK, Handed, Live
<1>2. CASE w[1] \in Merging
  BY <1>2 DEF IInv, Fresh, New
<1>3. CASE w[1] \notin Merging
  BY <1>1, <1>3, ReplaceAssumption DEF New
<1> QED BY <1>2, <1>3

\* Putting in place: the last delivery is on top of all others, unless two met there.
LEMMA PutKeeps ==
  ASSUME IInv, NEW w \in Writers, Put(w)
  PROVE  IInv'
<1> DEFINE p == w[1]  a == Asset[w[1]]  new == Store(w[1], seen[w], rows[w])
<1>1. /\ p \in Pipelines /\ a \in Assets /\ pc[w] \in Live
      /\ IF Database(a) = {} THEN pc[w] = "looked" ELSE pc[w] = "writing"
      /\ pc[w] \in {"looked", "writing"}
  BY WriterParts DEF Put, Writes, Live
<1>2. QED
  <2>1. /\ Exit(w, "wrote") /\ table' = [table EXCEPT ![a] = new]
        /\ log' = [log EXCEPT ![a] = Append(log[a], <<w, rows[w]>>)]
        /\ kept' = [kept EXCEPT ![a] = Store(p, kept[a], rows[w])]
        /\ UNCHANGED <<starts, current, files, outlived, met, cut>>
    BY DEF Put, Done, New
  <2>2. /\ pc' \in [Writers -> Steps] /\ pc'[w] = "wrote"
        /\ \A v \in Writers : v # w => pc'[v] = pc[v] /\ rows'[v] = rows[v] /\ seen'[v] = seen[v]
    BY <2>1 DEF Exit, IInv, TypeOK, Steps
  <2>3. rows[w] \in Values /\ new \in Table /\ Store(p, kept[a], rows[w]) \in Table
    <3>1. rows[w] \in Values /\ seen[w] \in Table /\ kept[a] \in Table
      BY <1>1 DEF IInv, TypeOK, Handed
    <3> QED BY <3>1, <1>1, StoreType
  <2>4. log[a] \in Seq(Writers \X Table) /\ <<w, rows[w]>> \in Writers \X Table
    BY <1>1, <2>3 DEF IInv, TypeOK, Table
  <2>5. TypeOK'
    <3>1. log' \in [Assets -> Seq(Writers \X Table)]
      <4>1. Append(log[a], <<w, rows[w]>>) \in Seq(Writers \X Table)
        BY <2>4
      <4> HIDE DEF a
      <4>2. log \in [Assets -> Seq(Writers \X Table)]
        BY DEF IInv, TypeOK
      <4> QED BY <4>1, <4>2, <2>1
    <3>2. rows' \in [Writers -> Table] /\ seen' \in [Writers -> Table]
      BY <2>1 DEF Exit, IInv, TypeOK, Table
    <3> QED BY <3>1, <3>2, <2>1, <2>2, <2>3 DEF IInv, TypeOK
  <2>6. Handed' /\ Counted' /\ Awaited' /\ Excused'
    BY <2>1, <2>2, <1>1 DEF IInv, Handed, Counted, Awaited, Excused, Live
  <2>7. Alone'
    BY <2>1, <2>2 DEF IInv, Alone, Between
  <2>8. Fresh'
    <3> SUFFICES ASSUME NEW v \in Writers, pc'[v] \in {"looked", "writing"},
                        v[1] \in Merging, Asset[v[1]] \notin met
                 PROVE  seen'[v] = table'[Asset[v[1]]]
      BY <2>1 DEF Fresh
    <3>1. v # w /\ pc[v] \in {"looked", "writing"} /\ Asset[v[1]] \in Assets
      BY <2>2, WriterParts
    <3>2. Asset[v[1]] # a
      BY <3>1, <1>1 DEF IInv, Alone, Between
    <3> QED BY <3>1, <3>2, <2>1, <2>2 DEF IInv, Fresh, TypeOK
  <2>9. NoneLost'
    <3> SUFFICES ASSUME NEW b \in Assets \ met PROVE table'[b] = kept'[b]
      BY <2>1 DEF NoneLost
    <3>1. table[b] = kept[b] /\ table \in [Assets -> Table] /\ kept \in [Assets -> Table]
      BY DEF IInv, NoneLost, TypeOK
    <3>2. CASE b = a
      <4>1. new = Store(p, table[a], rows[w])
        BY <3>2, <1>1, PutAlone DEF New
      <4> QED BY <4>1, <3>1, <3>2, <2>1
    <3>3. CASE b # a
      BY <3>1, <3>3, <2>1
    <3> QED BY <3>2, <3>3
  <2>10. \A b \in Assets : \A i \in DOMAIN log'[b] :
           \/ i \in DOMAIN log[b] /\ log'[b][i] = log[b][i]
           \/ b = a /\ i = Len(log[a]) + 1 /\ log'[b][i] = <<w, rows[w]>>
    BY <2>1, <2>4 DEF IInv, TypeOK
  <2>11. Logged'
    <3> SUFFICES ASSUME NEW b \in Assets, NEW i \in DOMAIN log'[b]
                 PROVE  /\ pc'[log'[b][i][1]] = "wrote"
                        /\ \A v \in Writers :
                             /\ pc'[v] \in Live /\ v[1] = log'[b][i][1][1]
                             /\ log'[b][i][1][1] \in Scheduled \ outlived
                             => log'[b][i][1][2] < v[2]
      BY <2>1 DEF Logged
    <3>1. CASE i \in DOMAIN log[b] /\ log'[b][i] = log[b][i]
      <4>1. log[b][i][1] \in Writers /\ pc[log[b][i][1]] = "wrote" /\ log[b][i][1] # w
        BY <3>1, <1>1, LogParts DEF IInv, Logged
      <4>2. \A v \in Writers : pc'[v] \in Live => pc[v] \in Live
        BY <2>2, <1>1
      <4> QED BY <3>1, <4>1, <4>2, <2>2 DEF IInv, Logged
    <3>2. CASE log'[b][i] = <<w, rows[w]>>
      <4>1. ASSUME NEW v \in Writers, pc'[v] \in Live, v[1] = p, p \in Scheduled \ outlived
            PROVE  FALSE
        <5>1. v # w /\ pc[v] \in Live
          BY <4>1, <2>2 DEF Live
        <5>2. v[2] = current[p] /\ w[2] = current[p]
          BY <5>1, <4>1, <1>1 DEF IInv, Awaited
        <5> QED BY <5>1, <5>2, <4>1, WriterParts
      <4> QED BY <3>2, <4>1, <2>2
    <3> QED BY <3>1, <3>2, <2>10
  <2>12. InOrder'
    <3> SUFFICES ASSUME NEW b \in Assets, NEW i \in DOMAIN log'[b], NEW j \in DOMAIN log'[b],
                        i < j, log'[b][i][1][1] = log'[b][j][1][1],
                        log'[b][i][1][1] \in Scheduled \ outlived
                 PROVE  log'[b][i][1][2] < log'[b][j][1][2]
      BY <2>1 DEF InOrder
    <3>1. log[b] \in Seq(Writers \X Table) /\ DOMAIN log[b] = 1 .. Len(log[b])
      BY DEF IInv, TypeOK
    <3>2. CASE j \in DOMAIN log[b] /\ log'[b][j] = log[b][j]
      <4>1. i \in DOMAIN log[b] /\ log'[b][i] = log[b][i]
        BY <3>1, <3>2, <2>10
      <4> QED BY <3>2, <4>1 DEF IInv, InOrder
    <3>3. CASE b = a /\ j = Len(log[a]) + 1 /\ log'[b][j] = <<w, rows[w]>>
      <4>1. i \in DOMAIN log[b] /\ log'[b][i] = log[b][i]
        BY <3>1, <3>3, <2>10
      <4> QED BY <3>3, <4>1, <1>1 DEF IInv, Logged
    <3> QED BY <3>2, <3>3, <2>10
  <2>13. Filed'
    <3>1. ASSUME NEW b \in Assets, table'[b] # Absent PROVE FileExists(b)'
      <4>1. CASE Database(b) = {}
        BY <3>1, <4>1 DEF FileExists
      <4>2. CASE Database(b) # {} /\ b = a
        BY <1>1, <2>1, <4>2 DEF IInv, Filed, FileExists
      <4>3. CASE Database(b) # {} /\ b # a
        BY <2>1, <3>1, <4>3 DEF IInv, Filed, FileExists, TypeOK
      <4> QED BY <4>1, <4>2, <4>3
    <3>2. ASSUME NEW v \in Writers, pc'[v] = "writing"
          PROVE  Database(Asset[v[1]]) \subseteq files'
      BY <2>1, <2>2, <3>2 DEF IInv, Filed
    <3> QED BY <3>1, <3>2 DEF Filed
  <2>14. Accounted'
    <3> SUFFICES ASSUME NEW d \in files, d \notin Present \cup cut,
                        ~\E b \in d \cap Assets : log'[b] # <<>>
                 PROVE  Writing(d)'
      BY <2>1 DEF Accounted
    <3>1. log'[a] # <<>> /\ \A b \in Assets : b # a => log'[b] = log[b]
      <4>1. log'[a] = Append(log[a], <<w, rows[w]>>)
        BY <1>1, <2>1 DEF IInv, TypeOK
      <4>2. log'[a] # <<>>
        BY <2>4, <4>1
      <4> QED BY <2>1, <4>2 DEF IInv, TypeOK
    <3>2. a \notin d
      BY <1>1, <3>1
    <3>3. PICK v \in Writers : pc[v] = "writing" /\ d \in Database(Asset[v[1]])
      BY <3>1, <3>2 DEF IInv, Accounted, Writing
    <3>4. v # w
      BY <3>2, <3>3 DEF Database
    <3> QED BY <2>2, <3>3, <3>4 DEF Writing
  <2> QED BY <2>5, <2>6, <2>7, <2>8, <2>9, <2>11, <2>12, <2>13, <2>14 DEF IInv

LEMMA NextIInv == IInv /\ [Next]_vars => IInv'
<1> SUFFICES ASSUME IInv, [Next]_vars PROVE IInv'
  OBVIOUS
<1>1. CASE UNCHANGED vars
  <2>1. TypeOK' /\ Handed' /\ Counted' /\ Awaited' /\ Alone' /\ Fresh' /\ NoneLost'
    BY <1>1 DEF vars, IInv, TypeOK, Handed, Counted, Awaited, Alone, Between, Fresh, NoneLost
  <2>2. Excused' /\ Logged' /\ InOrder' /\ Filed' /\ Accounted'
    BY <1>1 DEF vars, IInv, Excused, Logged, InOrder, Filed, FileExists, Accounted, Writing
  <2> QED BY <2>1, <2>2 DEF IInv
<1>2. ASSUME NEW p \in Pipelines, Start(p) PROVE IInv'
  BY <1>2, StartKeeps
<1>3. ASSUME NEW p \in Pipelines, Release(p) PROVE IInv'
  BY <1>3, ReleaseKeeps
<1>4. ASSUME NEW w \in Writers, Look(w) PROVE IInv'
  BY <1>4, LookKeeps
<1>5. ASSUME NEW w \in Writers, Put(w) PROVE IInv'
  BY <1>5, PutKeeps
<1>6. ASSUME NEW w \in Writers, Timeout(w) \/ Refuse(w) \/ Crash(w) PROVE IInv'
  BY <1>6, EndKeeps DEF Timeout, Refuse, Crash, Live
<1>7. ASSUME NEW w \in Writers, Connect(w) PROVE IInv'
  BY <1>7, ConnectKeeps
<1> QED BY <1>1, <1>2, <1>3, <1>4, <1>5, <1>6, <1>7 DEF Next

LEMMA Invariance == Spec => []IInv
BY InitIInv, NextIInv, PTL DEF Spec

-------------------------------------------------------------------------------
\* No delivery is lost, or put beneath older ones, where no two processes were in
\* write, between reading and replacing, at the same time (storage.write).
THEOREM NoneLostHolds == Spec => []NoneLost
<1>1. IInv => NoneLost
  BY DEF IInv
<1> QED BY <1>1, Invariance, PTL

\* Those that met are not of one scheduled pipeline that never outlived its run, and
\* such a pipeline's deliveries are in place in the order of its attempts
\* (max_active_runs=1 of compile_airflow).
THEOREM SerialUnlessOutlivedHolds == Spec => []SerialUnlessOutlived
<1>1. IInv => SerialUnlessOutlived
  BY DEF IInv, Excused, InOrder, SerialUnlessOutlived
<1> QED BY <1>1, Invariance, PTL

\* A database has its tables for itself.
LEMMA SameDatabase ==
  ASSUME NEW a, NEW b, NEW d \in Database(a), d \in Database(b)
  PROVE  Database(a) = Database(b)
BY WritersAssumption DEF Database

\* A writer without company is refused only by what is there now, by a database that
\* is held, or by a table that is missing from a database, whose file was there, or
\* was made with another table or by a writer that was cut off.
THEOREM RefusedForCauseHolds == Spec => RefusedForCause
<1>1. ASSUME IInv, [Next]_vars, NEW w \in Writers,
             pc[w] \in Live, pc'[w] = "raised", Asset[w[1]] \notin met
      PROVE  \/ Store(w[1], table[Asset[w[1]]], rows[w]) \in Unfit \cup {Absent}
             \/ Held(w) \/ MissingTable(w)
  <2>1. pc'[w] # pc[w] /\ w[1] \in Pipelines /\ Asset[w[1]] \in Assets /\ pc \in [Writers -> Steps]
    BY <1>1, WriterParts DEF Live, IInv, TypeOK
  <2>2. CASE Look(w)
    <3> DEFINE a == Asset[w[1]]
    <3>1. pc[w] = "ready" /\ w[1] \in Merging /\ FileExists(a) /\ table[a] = Absent
      BY <2>1, <2>2, <1>1 DEF Look, Looked
    <3>2. PICK d \in Database(a) : d \in files
      BY <3>1 DEF FileExists
    <3>3. CASE d \in Present \cup cut \/ \E b \in d \cap Assets : log[b] # <<>>
      BY <3>1, <3>2, <3>3 DEF MissingTable
    <3>4. CASE Writing(d)
      <4>1. PICK v \in Writers : pc[v] = "writing" /\ d \in Database(Asset[v[1]])
        BY <3>4 DEF Writing
      <4>2. Database(Asset[v[1]]) = Database(a) /\ Database(a) # {} /\ v # w
        BY <3>1, <3>2, <4>1, SameDatabase
      <4> QED BY <4>1, <4>2 DEF Held
    <3> QED BY <1>1, <3>2, <3>3, <3>4 DEF IInv, Accounted
  <2>3. CASE Refuse(w)
    <3>1. pc[w] \in {"looked", "writing"} /\ New(w) \in Unfit \cup {Absent}
      BY <2>3 DEF Refuse
    <3> QED BY <3>1, <1>1, PutAlone
  <2>4. CASE Timeout(w)
    BY <2>4 DEF Timeout
  <2>5. CASE Put(w) \/ Crash(w) \/ Connect(w)
    BY <2>1, <2>5, <1>1 DEF Put, Done, Crash, End, Exit, Connect
  <2>6. ASSUME NEW v \in Writers, v # w,
               Look(v) \/ Connect(v) \/ Timeout(v) \/ Refuse(v) \/ Put(v) \/ Crash(v)
        PROVE  FALSE
    BY <2>1, <2>6 DEF Look, Looked, Connect, Timeout, Refuse, Put, Crash, End, Done, Exit
  <2>7. ASSUME NEW p \in Pipelines, Start(p) PROVE FALSE
    BY <2>1, <2>7, <1>1 DEF Start
  <2>8. ASSUME NEW p \in Pipelines, Release(p) PROVE FALSE
    BY <2>1, <2>8 DEF Release
  <2> QED BY <1>1, <2>1, <2>2, <2>3, <2>4, <2>5, <2>6, <2>7, <2>8 DEF Next, vars
<1>2. IInv /\ [Next]_vars =>
        [\A w \in Writers :
           pc[w] \in Live /\ pc'[w] = "raised" /\ Asset[w[1]] \notin met =>
             \/ Store(w[1], table[Asset[w[1]]], rows[w]) \in Unfit \cup {Absent}
             \/ Held(w) \/ MissingTable(w)]_vars
  BY <1>1
<1> QED BY <1>2, Invariance, PTL DEF Spec, RefusedForCause
-------------------------------------------------------------------------------
\* What a destination is made of.  f goes along the log and takes in the deliveries
\* numbered in S: the function that Outcome computes.
Chained(f, base, entries, S) ==
  f = [n \in 0 .. Len(entries) |->
         IF n = 0 THEN base
         ELSE IF n \in S THEN Store(entries[n][1][1], f[n - 1], entries[n][2])
         ELSE f[n - 1]]
Makes(entries, base, S, made) == \E f : Chained(f, base, entries, S) /\ f[Len(entries)] = made

\* Every destination is made of some deliveries, the last one among them, and so is
\* what a process has seen that merges its rows into it; this may be an older state.
Made ==
  \A a \in Assets : \E S \in SUBSET DOMAIN log[a] :
    (log[a] # <<>> => Len(log[a]) \in S) /\ Makes(log[a], Before[a], S, table[a])
SeenMade ==
  \A w \in Writers : pc[w] \in {"looked", "writing"} /\ w[1] \in Merging =>
    \E S \in SUBSET DOMAIN log[Asset[w[1]]] :
      Makes(log[Asset[w[1]]], Before[Asset[w[1]]], S, seen[w])

\* Of any natural numbers, one is the least.
LEMMA Least ==
  ASSUME NEW T \in SUBSET Nat, T # {}
  PROVE  \E n \in T : \A m \in T : ~(m < n)
<1> DEFINE R == {ss \in Nat \X Nat : ss[1] < ss[2]}
<1>1. IsWellFoundedOn(OpToRel(<, Nat), Nat)
  BY NatLessThanWellFounded
<1>2. OpToRel(<, Nat) = R
  BY DEF OpToRel
<1>3. IsWellFoundedOn(R, Nat)
  BY <1>1, <1>2
<1> HIDE DEF R
<1>4. PICK n \in T : \A m \in T : ~(<<m, n>> \in R)
  BY <1>3, WFMin
<1>5. QED
  BY <1>4 DEF R

\* The deliveries taken in determine the table.
LEMMA ChainUnique ==
  ASSUME NEW base, NEW entries, Len(entries) \in Nat, NEW S, NEW f, NEW g,
         Chained(f, base, entries, S), Chained(g, base, entries, S)
  PROVE  f[Len(entries)] = g[Len(entries)]
<1> DEFINE N == Len(entries)
           T == {n \in 0 .. N : f[n] # g[n]}
<1> SUFFICES ASSUME T # {} PROVE FALSE
  OBVIOUS
<1>1. T \in SUBSET Nat
  OBVIOUS
<1> HIDE DEF T
<1>2. PICK n \in T : \A m \in T : ~(m < n)
  BY <1>1, Least
<1> USE DEF T
<1>3. n # 0
  BY DEF Chained
<1>4. n - 1 \in 0 .. N /\ n - 1 \notin T
  BY <1>2, <1>3
<1>5. f[n - 1] = g[n - 1]
  BY <1>4
<1>6. f[n] = IF n \in S THEN Store(entries[n][1][1], f[n - 1], entries[n][2]) ELSE f[n - 1]
  BY <1>3 DEF Chained
<1>7. g[n] = IF n \in S THEN Store(entries[n][1][1], g[n - 1], entries[n][2]) ELSE g[n - 1]
  BY <1>3 DEF Chained
<1>8. QED
  BY <1>5, <1>6, <1>7

\* A delivery more, which is not taken in, or is.
LEMMA ChainGrows ==
  ASSUME NEW entries \in Seq(Writers \X Table), NEW e \in Writers \X Table, NEW base,
         NEW S \in SUBSET DOMAIN entries, NEW made, Makes(entries, base, S, made)
  PROVE  /\ Makes(Append(entries, e), base, S, made)
         /\ Makes(Append(entries, e), base, S \cup {Len(entries) + 1},
                  Store(e[1][1], made, e[2]))
<1> DEFINE N == Len(entries)
           more == Append(entries, e)
<1>1. PICK f : Chained(f, base, entries, S) /\ f[N] = made
  BY DEF Makes
<1>2. N \in Nat /\ DOMAIN entries = 1 .. N
  OBVIOUS
<1>3. Len(more) = N + 1 /\ more[N + 1] = e /\ \A n \in 1 .. N : more[n] = entries[n]
  BY <1>2
<1> HIDE DEF more, N
<1>4. \A n \in 0 .. N :
        f[n] = IF n = 0 THEN base
               ELSE IF n \in S THEN Store(entries[n][1][1], f[n - 1], entries[n][2])
               ELSE f[n - 1]
  BY <1>1 DEF Chained, N
<1>5. ASSUME NEW T \in SUBSET (1 .. N + 1), NEW last, T \cap (1 .. N) = S,
             last = IF N + 1 \in T THEN Store(e[1][1], made, e[2]) ELSE made
      PROVE  Makes(more, base, T, last)
  <2> DEFINE g == [n \in 0 .. N + 1 |-> IF n = N + 1 THEN last ELSE f[n]]
  <2>1. ASSUME NEW n \in 0 .. N + 1
        PROVE  g[n] = IF n = 0 THEN base
                      ELSE IF n \in T THEN Store(more[n][1][1], g[n - 1], more[n][2])
                      ELSE g[n - 1]
    <3>1. CASE n = 0
      <4>1. 0 \in 0 .. N /\ g[0] = f[0]
        BY <1>2
      <4>2. QED
        BY <1>4, <3>1, <4>1
    <3>2. CASE n = N + 1
      <4>1. n - 1 = N /\ n # 0
        BY <1>2, <3>2
      <4> N \in 0 .. N + 1 /\ N + 1 \in 0 .. N + 1 /\ N # N + 1
        BY <1>2
      <4>2. g[N] = f[N] /\ g[N + 1] = last
        OBVIOUS
      <4>3. QED
        BY <1>1, <1>3, <1>5, <3>2, <4>1, <4>2
    <3>3. CASE n \in 1 .. N
      <4>1. g[n] = f[n] /\ g[n - 1] = f[n - 1] /\ n # 0 /\ more[n] = entries[n] /\ n \in 0 .. N
        BY <1>2, <1>3, <3>3
      <4>2. n \in T <=> n \in S
        BY <1>5, <3>3
      <4>3. QED
        BY <1>4, <4>1, <4>2
    <3>4. QED
      BY <1>2, <3>1, <3>2, <3>3
  <2>2. Chained(g, base, more, T)
    BY <1>3, <2>1 DEF Chained
  <2>3. g[Len(more)] = last
    BY <1>2, <1>3
  <2> HIDE DEF g
  <2>4. QED
    BY <2>2, <2>3 DEF Makes
<1>6. Makes(more, base, S, made)
  <2>1. S \in SUBSET (1 .. N + 1) /\ S \cap (1 .. N) = S /\ N + 1 \notin S
    BY <1>2
  <2>2. QED
    BY <1>5, <2>1
<1>7. Makes(more, base, S \cup {N + 1}, Store(e[1][1], made, e[2]))
  <2> DEFINE T == S \cup {N + 1}
  <2>1. T \in SUBSET (1 .. N + 1) /\ T \cap (1 .. N) = S /\ N + 1 \in T
    BY <1>2
  <2> HIDE DEF T
  <2>2. Makes(more, base, T, Store(e[1][1], made, e[2]))
    BY <1>5, <2>1
  <2>3. QED
    BY <2>2 DEF T
<1>8. QED
  BY <1>6, <1>7 DEF more, N
\* A writer that is not the one who logs has seen what it has seen.
LEMMA StillMade ==
  ASSUME TypeOK, TypeOK', NEW a \in Assets, NEW e \in Writers \X Table,
         log'[a] = log[a] \/ log'[a] = Append(log[a], e),
         NEW made, \E S \in SUBSET DOMAIN log[a] : Makes(log[a], Before[a], S, made)
  PROVE  \E S \in SUBSET DOMAIN log'[a] : Makes(log'[a], Before[a], S, made)
<1>1. PICK S \in SUBSET DOMAIN log[a] : Makes(log[a], Before[a], S, made)
  OBVIOUS
<1>2. log[a] \in Seq(Writers \X Table)
  BY DEF TypeOK
<1>3. CASE log'[a] = Append(log[a], e)
  <2>1. Makes(Append(log[a], e), Before[a], S, made)
    BY <1>1, <1>2, ChainGrows
  <2>2. S \in SUBSET DOMAIN Append(log[a], e)
    BY <1>2
  <2>3. QED
    BY <1>3, <2>1, <2>2
<1>4. QED
  BY <1>1, <1>3

LEMMA MadeStep ==
  ASSUME IInv, IInv', Made, SeenMade, Next
  PROVE  Made' /\ SeenMade'
<1> USE DEF IInv
<1>1. CASE UNCHANGED <<table, log>> /\ \A w \in Writers : pc'[w] \in {"looked", "writing"} =>
             \/ pc[w] \in {"looked", "writing"} /\ seen'[w] = seen[w]
             \/ w[1] \in Merging => seen'[w] = table[Asset[w[1]]]
  <2>1. Made'
    BY <1>1 DEF Made
  <2>2. ASSUME NEW w \in Writers, pc'[w] \in {"looked", "writing"}, w[1] \in Merging
        PROVE  \E S \in SUBSET DOMAIN log'[Asset[w[1]]] :
                 Makes(log'[Asset[w[1]]], Before[Asset[w[1]]], S, seen'[w])
    <3>1. CASE pc[w] \in {"looked", "writing"} /\ seen'[w] = seen[w]
      BY <1>1, <2>2, <3>1 DEF SeenMade
    <3>2. CASE seen'[w] = table[Asset[w[1]]]
      BY <1>1, <3>2, WriterParts DEF Made
    <3>3. QED
      BY <1>1, <2>2, <3>1, <3>2
  <2>3. QED
    BY <2>1, <2>2 DEF SeenMade
<1>2. ASSUME NEW w \in Writers, Put(w), seen[w] \in Table PROVE  Made' /\ SeenMade'
  <2> DEFINE b == Asset[w[1]]
             e == <<w, rows[w]>>
             new == Store(w[1], seen[w], rows[w])
  <2>1. /\ b \in Assets /\ w[1] \in Pipelines /\ pc[w] \in {"looked", "writing"}
        /\ rows[w] \in Values /\ rows[w] \in Table /\ table[b] \in Table
        /\ log[b] \in Seq(Writers \X Table)
    BY <1>2, WriterParts DEF Put, Writes, Handed, Live, TypeOK, Table
  <2>2. /\ table' = [table EXCEPT ![b] = new] /\ log' = [log EXCEPT ![b] = Append(@, e)]
        /\ \A v \in Writers \ {w} : pc'[v] = pc[v] /\ seen'[v] = seen[v]
        /\ pc'[w] = "wrote"
    BY <1>2 DEF Put, Done, New, Exit, TypeOK
  <2>3. e \in Writers \X Table
    BY <2>1
  <2>4. \E S \in SUBSET DOMAIN log[b] :
          \E made : Makes(log[b], Before[b], S, made) /\ new = Store(w[1], made, rows[w])
    <3>1. CASE w[1] \in Merging
      BY <2>1, <3>1 DEF SeenMade
    <3>2. CASE w[1] \notin Merging
      <4>1. new = Store(w[1], table[b], rows[w])
        <5>1. new = Store(w[1], Absent, rows[w])
          BY <1>2, <2>1, <3>2, ReplaceAssumption
        <5>2. Store(w[1], table[b], rows[w]) = Store(w[1], Absent, rows[w])
          BY <2>1, <3>2, ReplaceAssumption
        <5>3. QED
          BY <5>1, <5>2
      <4>2. QED
        BY <2>1, <4>1 DEF Made
    <3>3. QED
      BY <3>1, <3>2
  <2> HIDE DEF new, e, b
  <2>5. PICK S, made :
          /\ S \in SUBSET DOMAIN log[b]
          /\ Makes(log[b], Before[b], S, made) /\ new = Store(w[1], made, rows[w])
    BY <2>4
  <2>6. log'[b] = Append(log[b], e) /\ table'[b] = new
    BY <2>1, <2>2 DEF TypeOK
  <2>7. \A a \in Assets \ {b} : log'[a] = log[a] /\ table'[a] = table[a]
    BY <2>2 DEF TypeOK
  <2>8. Makes(log'[b], Before[b], S \cup {Len(log[b]) + 1}, table'[b])
    <3>1. e[1][1] = w[1] /\ e[2] = rows[w]
      BY DEF e
    <3>2. Makes(Append(log[b], e), Before[b], S \cup {Len(log[b]) + 1},
                Store(e[1][1], made, e[2]))
      BY <2>1, <2>3, <2>5, ChainGrows
    <3>3. QED
      BY <2>5, <2>6, <3>1, <3>2
  <2>9. S \cup {Len(log[b]) + 1} \in SUBSET DOMAIN log'[b] /\ Len(log'[b]) = Len(log[b]) + 1
    BY <2>1, <2>3, <2>5, <2>6
  <2>10. Made'
    <3> SUFFICES ASSUME NEW a \in Assets
                 PROVE  \E U \in SUBSET DOMAIN log'[a] :
                          /\ log'[a] # <<>> => Len(log'[a]) \in U
                          /\ Makes(log'[a], Before[a], U, table'[a])
      BY DEF Made
    <3>1. CASE a = b
      BY <2>8, <2>9, <3>1
    <3>2. CASE a # b
      BY <2>7, <3>2 DEF Made
    <3>3. QED
      BY <3>1, <3>2
  <2>11. SeenMade'
    <3> SUFFICES ASSUME NEW v \in Writers, pc'[v] \in {"looked", "writing"}, v[1] \in Merging
                 PROVE  \E U \in SUBSET DOMAIN log'[Asset[v[1]]] :
                          Makes(log'[Asset[v[1]]], Before[Asset[v[1]]], U, seen'[v])
      BY DEF SeenMade
    <3>1. pc[v] \in {"looked", "writing"} /\ seen'[v] = seen[v] /\ Asset[v[1]] \in Assets
      BY <2>2, WriterParts
    <3>2. \E U \in SUBSET DOMAIN log[Asset[v[1]]] :
            Makes(log[Asset[v[1]]], Before[Asset[v[1]]], U, seen[v])
      BY <3>1 DEF SeenMade
    <3>3. log'[Asset[v[1]]] = log[Asset[v[1]]] \/ log'[Asset[v[1]]] = Append(log[Asset[v[1]]], e)
      BY <2>6, <2>7, <3>1
    <3>4. QED
      BY <2>3, <3>1, <3>2, <3>3, StillMade
  <2>12. QED
    BY <2>10, <2>11
<1>3. ASSUME NEW p \in Pipelines, Start(p) PROVE Made' /\ SeenMade'
  <2>1. \A w \in Writers : pc'[w] \in {"looked", "writing"} => pc[w] \in {"looked", "writing"}
    BY <1>3 DEF Start, TypeOK
  <2>2. QED
    BY <1>1, <1>3, <2>1 DEF Start
<1>4. ASSUME NEW p \in Pipelines, Release(p) PROVE Made' /\ SeenMade'
  BY <1>1, <1>4 DEF Release
<1>5. ASSUME NEW w \in Writers, Look(w) PROVE Made' /\ SeenMade'
  <2>1. \A v \in Writers \ {w} : pc'[v] \in {"looked", "writing"} => pc[v] \in {"looked", "writing"} /\ seen'[v] = seen[v]
    BY <1>5 DEF Look, Looked, End, Exit, TypeOK
  <2>2. pc'[w] \in {"looked", "writing"} => (w[1] \in Merging => seen'[w] = table[Asset[w[1]]])
    BY <1>5, WriterParts DEF Look, Looked, End, Exit, TypeOK, Filed
  <2>3. UNCHANGED <<table, log>>
    BY <1>5 DEF Look, Looked, End
  <2>4. QED
    BY <1>1, <2>1, <2>2, <2>3
<1>6. ASSUME NEW w \in Writers, Exit(w, "raised") \/ Exit(w, "dead"), UNCHANGED <<table, log>>
      PROVE Made' /\ SeenMade'
  <2>1. \A v \in Writers : pc'[v] \in {"looked", "writing"} => pc[v] \in {"looked", "writing"} /\ seen'[v] = seen[v]
    BY <1>6 DEF Exit, TypeOK
  <2>2. QED
    BY <1>1, <1>6, <2>1
<1>7. ASSUME NEW w \in Writers, Put(w) PROVE Made' /\ SeenMade'
  <2>1. seen[w] \in Table
    BY DEF TypeOK
  <2>2. QED
    BY <1>2, <1>7, <2>1
<1>8. ASSUME NEW w \in Writers, Timeout(w) \/ Refuse(w) \/ Crash(w) PROVE Made' /\ SeenMade'
  BY <1>6, <1>8 DEF Timeout, Refuse, Crash, End
<1>9. ASSUME NEW w \in Writers, Connect(w) PROVE Made' /\ SeenMade'
  <2>1. \A v \in Writers : pc'[v] \in {"looked", "writing"} =>
          pc[v] \in {"looked", "writing"} /\ seen'[v] = seen[v]
    BY <1>9 DEF Connect, TypeOK
  <2>2. QED
    BY <1>1, <1>9, <2>1 DEF Connect
<1>10. QED
  BY <1>3, <1>4, <1>5, <1>7, <1>8, <1>9 DEF Next

LEMMA MadeInvariant == Spec => [](Made /\ SeenMade)
<1>1. Init => Made /\ SeenMade
  <2> SUFFICES ASSUME Init PROVE Made /\ SeenMade
    OBVIOUS
  <2>1. SeenMade
    BY DEF Init, SeenMade
  <2>2. ASSUME NEW a \in Assets PROVE Makes(<<>>, Before[a], {}, Before[a])
    <3> DEFINE f == [n \in 0 .. 0 |-> Before[a]]
    <3>1. Chained(f, Before[a], <<>>, {}) /\ f[0] = Before[a]
      BY DEF Chained
    <3> HIDE DEF f
    <3>2. QED
      BY <3>1 DEF Makes
  <2>3. Made
    BY <2>2 DEF Init, Made
  <2>4. QED
    BY <2>1, <2>3
<1>2. IInv /\ IInv' /\ Made /\ SeenMade /\ [Next]_vars => (Made /\ SeenMade)'
  <2>1. CASE UNCHANGED vars
    BY <2>1 DEF vars, Made, SeenMade
  <2>2. QED
    BY <2>1, MadeStep
<1>3. QED
  BY Invariance, <1>1, <1>2, PTL DEF Spec

\* Whoever meets in write, and dies or is given up there, leaves whole deliveries.
THEOREM WholeHolds == Spec => []Whole
<1>1. IInv /\ Made => Whole
  <2> SUFFICES ASSUME IInv, Made, NEW a \in Assets
               PROVE  \E S \in SUBSET DOMAIN log[a] :
                        /\ log[a] # <<>> => Len(log[a]) \in S
                        /\ table[a] = Outcome(a, S)
    BY DEF Whole
  <2>1. PICK S \in SUBSET DOMAIN log[a] :
          (log[a] # <<>> => Len(log[a]) \in S) /\ Makes(log[a], Before[a], S, table[a])
    BY DEF Made
  <2>2. PICK f : Chained(f, Before[a], log[a], S) /\ f[Len(log[a])] = table[a]
    BY <2>1 DEF Makes
  <2> DEFINE g == CHOOSE g : Chained(g, Before[a], log[a], S)
  <2>3. Chained(g, Before[a], log[a], S)
    BY <2>2
  <2>4. Outcome(a, S) = g[Len(log[a])]
    BY DEF Outcome, Chained
  <2> HIDE DEF g
  <2>5. Len(log[a]) \in Nat
    BY DEF IInv, TypeOK
  <2>6. f[Len(log[a])] = g[Len(log[a])]
    BY <2>2, <2>3, <2>5, ChainUnique
  <2>7. QED
    BY <2>1, <2>2, <2>4, <2>6
<1>2. QED
  BY <1>1, Invariance, MadeInvariant, PTL
===============================================================================
