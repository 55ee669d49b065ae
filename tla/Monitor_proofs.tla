---------------------------- MODULE Monitor_proofs ----------------------------
EXTENDS Monitor, FiniteSetTheorems, TLAPS

-----------------------------------------------------------------------------
(* The order of the rows                                                   *)

\* A finite set with a strict total order has a listing in that order: each element stands
\* at the place that counts the elements up to it.
LEMMA OrderedListing ==
  ASSUME NEW I, IsFiniteSet(I), NEW before \in SUBSET (I \X I),
         \A a \in I : <<a, a>> \notin before,
         \A a, b, c \in I : <<a, b>> \in before /\ <<b, c>> \in before => <<a, c>> \in before,
         \A a, b \in I : a = b \/ <<a, b>> \in before \/ <<b, a>> \in before
  PROVE  \E g \in [1..Cardinality(I) -> I] :
            /\ \A i, k \in 1..Cardinality(I) : i # k => g[i] # g[k]
            /\ \A i, k \in 1..Cardinality(I) : i < k => <<g[i], g[k]>> \in before
<1> DEFINE N == Cardinality(I)
           UpTo(a) == {b \in I : b = a \/ <<b, a>> \in before}
           place == [a \in I |-> Cardinality(UpTo(a))]
<1>1. N \in Nat
  BY FS_CardinalityType
<1>2. \A a \in I : IsFiniteSet(UpTo(a)) /\ Cardinality(UpTo(a)) \in 1..N
  <2> SUFFICES ASSUME NEW a \in I
               PROVE  IsFiniteSet(UpTo(a)) /\ Cardinality(UpTo(a)) \in 1..N
    OBVIOUS
  <2>1. UpTo(a) \in SUBSET I /\ a \in UpTo(a)
    OBVIOUS
  <2> HIDE DEF UpTo
  <2>2. IsFiniteSet(UpTo(a)) /\ Cardinality(UpTo(a)) <= N
    BY <2>1, FS_Subset
  <2>3. Cardinality(UpTo(a)) \in Nat /\ Cardinality(UpTo(a)) # 0
    BY <2>1, <2>2, FS_CardinalityType, FS_EmptySet
  <2> QED
    BY <1>1, <2>2, <2>3
<1>3. \A a, b \in I : <<a, b>> \in before => place[a] < place[b]
  <2> SUFFICES ASSUME NEW a \in I, NEW b \in I, <<a, b>> \in before
               PROVE  Cardinality(UpTo(a)) < Cardinality(UpTo(b))
    OBVIOUS
  <2>1. UpTo(a) \in SUBSET UpTo(b)
    OBVIOUS
  <2>2. b \in UpTo(b) /\ b \notin UpTo(a)
    OBVIOUS
  <2> HIDE DEF UpTo
  <2>3. Cardinality(UpTo(a)) <= Cardinality(UpTo(b)) /\ UpTo(a) # UpTo(b)
    BY <1>2, <2>1, <2>2, FS_Subset
  <2>4. Cardinality(UpTo(a)) # Cardinality(UpTo(b))
    BY <1>2, <2>1, <2>3, FS_Subset
  <2> QED
    BY <1>1, <1>2, <2>3, <2>4
<1>4. place \in Injection(I, 1..N)
  <2>1. place \in [I -> 1..N]
    BY <1>2
  <2>2. \A a \in I : place[a] \in Nat
    BY <1>2, <1>1
  <2> HIDE DEF place
  <2>3. ASSUME NEW a \in I, NEW b \in I, place[a] = place[b] PROVE a = b
    <3>1. place[a] \in Nat /\ place[b] \in Nat /\ ~(place[a] < place[b]) /\ ~(place[b] < place[a])
      BY <2>2, <2>3
    <3>2. <<a, b>> \notin before /\ <<b, a>> \notin before
      BY <1>3, <3>1
    <3> QED
      BY <3>2
  <2> QED
    BY <2>1, <2>3 DEF Injection, IsInjective
<1>5. place \in Surjection(I, 1..N)
  <2>1. IsFiniteSet(1..N) /\ Cardinality(1..N) = N
    BY <1>1, FS_Interval
  <2> HIDE DEF place
  <2> QED
    BY <1>4, <2>1, FS_Injection
<1> DEFINE g == [i \in 1..N |-> CHOOSE a \in I : place[a] = i]
<1>6. \A i \in 1..N : g[i] \in I /\ place[g[i]] = i
  <2> HIDE DEF place
  <2> QED
    BY <1>5 DEF Surjection
<1>7. g \in [1..N -> I]
  BY <1>6
<1> HIDE DEF g
<1>8. \A i, k \in 1..N : i # k => g[i] # g[k]
  BY <1>6
<1>9. ASSUME NEW i \in 1..N, NEW k \in 1..N, i < k PROVE <<g[i], g[k]>> \in before
  <2>1. g[i] # g[k] /\ g[i] \in I /\ g[k] \in I
    <3>1. i # k
      BY <1>1, <1>9
    <3> QED
      BY <1>6, <1>8, <3>1
  <2>2. <<g[k], g[i]>> \in before => place[g[k]] < place[g[i]]
    BY <1>3, <2>1
  <2>3. <<g[k], g[i]>> \notin before
    <3> HIDE DEF place
    <3> QED
      BY <1>6, <1>9, <2>2
  <2> QED
    BY <2>1, <2>3
<1> QED
  BY <1>7, <1>8, <1>9

\* The logs and the queue have their types.
LogsTyped ==
  /\ queue \in [Jobs -> QueueStates] /\ dir \in [Jobs -> BOOLEAN]
  /\ rest \in [Jobs -> Seq(Kinds)] /\ log \in [Jobs -> Seq(Kinds)]
  /\ answer \in [jobs : [Jobs -> QueueStates], odd : BOOLEAN, all : BOOLEAN]

\* The greatest element of a set of positions.
LEMMA GreatestOf ==
  ASSUME NEW n \in Nat, NEW T \in SUBSET (1..n), T # {}
  PROVE  Max(T) \in T /\ \A t \in T : t <= Max(T)
<1> DEFINE before == {p \in T \X T : p[1] < p[2]}
           N == Cardinality(T)
<1>1. IsFiniteSet(T)
  <2>1. IsFiniteSet(1..n)
    BY FS_Interval
  <2> QED
    BY <2>1, FS_Subset
<1>2. N \in Nat /\ N # 0
  BY <1>1, FS_CardinalityType, FS_EmptySet
<1>3. \E g \in [1..N -> T] :
            /\ \A i, k \in 1..N : i # k => g[i] # g[k]
            /\ \A i, k \in 1..N : i < k => <<g[i], g[k]>> \in before
  <2>1. before \in SUBSET (T \X T) /\ \A a, b \in T : <<a, b>> \in before <=> a < b
    OBVIOUS
  <2> HIDE DEF before
  <2>2. /\ \A a \in T : <<a, a>> \notin before
        /\ \A a, b, c \in T : <<a, b>> \in before /\ <<b, c>> \in before => <<a, c>> \in before
        /\ \A a, b \in T : a = b \/ <<a, b>> \in before \/ <<b, a>> \in before
    BY <2>1
  <2> QED
    BY <1>1, <2>1, <2>2, OrderedListing
<1>4. PICK g \in [1..N -> T] :
            /\ \A i, k \in 1..N : i # k => g[i] # g[k]
            /\ \A i, k \in 1..N : i < k => g[i] < g[k]
  BY <1>3
<1> HIDE DEF before
<1>5. IsFiniteSet(1..N) /\ Cardinality(1..N) = N
  BY <1>2, FS_Interval
<1>6. g \in Surjection(1..N, T)
  <2>1. g \in Injection(1..N, T)
    BY <1>4 DEF Injection, IsInjective
  <2> HIDE DEF N
  <2> QED
    BY <1>1, <1>5, <2>1, FS_Injection DEF N
<1>7. g[N] \in T /\ \A t \in T : t <= g[N]
  <2> SUFFICES ASSUME NEW t \in T PROVE g[N] \in T /\ t <= g[N]
    BY <1>2, <1>4
  <2>1. PICK i \in 1..N : g[i] = t
    BY <1>6 DEF Surjection
  <2>2. N \in 1..N /\ g[N] \in T
    BY <1>2, <1>4
  <2>3. i = N \/ g[i] < g[N]
    BY <1>2, <1>4, <2>2
  <2>4. t \in Int /\ g[N] \in Int
    <3>1. \A x \in T : x \in Int
      OBVIOUS
    <3> QED
      BY <2>2, <3>1
  <2> QED
    BY <2>1, <2>2, <2>3, <2>4
<1> QED
  <2>1. \A t \in T : t \in Int
    OBVIOUS
  <2>2. \E x \in T : \A t \in T : x >= t
    <3>1. \A t \in T : g[N] >= t
      BY <1>7, <2>1
    <3> QED
      BY <1>7, <3>1
  <2>3. Max(T) \in T /\ \A t \in T : Max(T) >= t
    BY <2>2, Zenon DEF Max
  <2> QED
    BY <2>1, <2>3

-----------------------------------------------------------------------------
(* What the dashboard makes of a job, and the list it publishes            *)

LEMMA TailTyped ==
  ASSUME NEW l \in Seq(Kinds)
  PROVE  LogTail(l) \in Seq(Kinds)
<1> DEFINE floods == {i \in 1..Len(l) : l[i] = "flood"}
           at == IF floods # {} THEN Max(floods) ELSE 0
           from == AtLeast(1, at)
<1>1. LogTail(l) = SubSeq(l, from, Len(l))
  BY DEF LogTail, SelectLastInSeq
<1>2. at \in 0..Len(l)
  <2>1. Len(l) \in Nat /\ floods \in SUBSET (1..Len(l))
    OBVIOUS
  <2>2. CASE floods # {}
    <3>1. Max(floods) \in floods
      <4> HIDE DEF floods
      <4> QED
        BY <2>1, <2>2, GreatestOf
    <3> QED
      BY <2>1, <2>2, <3>1
  <2>3. CASE floods = {}
    BY <2>1, <2>3
  <2> QED
    BY <2>2, <2>3
<1>3. from \in Nat /\ from >= 1
  <2> HIDE DEF at
  <2> QED
    BY <1>2 DEF AtLeast
<1> HIDE DEF from
<1>4. \A i \in from..Len(l) : l[i] \in Kinds
  BY <1>3
<1>5. SubSeq(l, from, Len(l)) \in Seq(Kinds)
  BY <1>3, <1>4
<1> QED
  BY <1>1, <1>5

LEMMA StageTyped ==
  ASSUME NEW l \in Seq(Kinds)
  PROVE  DetectStage(l) \in Stages \ {"killed", "timeout"}
<1> DEFINE progress == {i \in DOMAIN l : l[i] \in DOMAIN InProgress}
<1>1. progress # {} => InProgress[l[Max(progress)]] \in InProgressStages
  <2> SUFFICES ASSUME progress # {} PROVE InProgress[l[Max(progress)]] \in InProgressStages
    OBVIOUS
  <2>1. Len(l) \in Nat /\ progress \in SUBSET (1..Len(l))
    OBVIOUS
  <2>2. Max(progress) \in progress
    <3> HIDE DEF progress
    <3> QED
      BY <2>1, GreatestOf
  <2>3. l[Max(progress)] \in DOMAIN InProgress
    BY <2>2
  <2> HIDE DEF progress
  <2> QED
    BY <2>3 DEF InProgressStages, Range
<1> DEFINE step == IF progress = {} THEN "unknown" ELSE InProgress[l[Max(progress)]]
<1>2. step \in InProgressStages \cup {"unknown"}
  BY <1>1
<1>3. InProgressStages = {"benchmarking", "awaiting workers", "frontend", "workers", "head ready",
                          "infra", "starting"}
  <2>1. DOMAIN InProgress = {"healthy", "polling", "frontend", "workers", "ready", "infra", "orchestrator"}
    BY DEF InProgress
  <2>2. InProgressStages = {InProgress[k] : k \in {"healthy", "polling", "frontend", "workers", "ready",
                                                 "infra", "orchestrator"}}
    BY <2>1 DEF InProgressStages, Range
  <2>3. InProgressStages = {InProgress.healthy, InProgress.polling, InProgress.frontend,
                            InProgress.workers, InProgress.ready, InProgress.infra,
                            InProgress.orchestrator}
    BY <2>2
  <2> QED
    BY <2>3 DEF InProgress
<1>4. DetectStage(l) = step \/ DetectStage(l) \in {"completed", "failed", "finalizing"}
  <2>1. DetectStage(l) = CASE Contains(l, "done")   -> "completed"
          [] Contains(l, "failed") /\ ~Contains(l, "done") -> "failed"
          [] Contains(l, "cleanup") /\ ~Contains(l, "done") /\ ~Contains(l, "failed")
                                   -> "finalizing"
          [] OTHER -> step
    BY DEF DetectStage
  <2> HIDE DEF step
  <2> QED
    BY <2>1
<1> HIDE DEF step
<1> QED
  BY <1>2, <1>3, <1>4 DEF Stages

LEMMA RowTyped ==
  ASSUME LogsTyped, NEW j \in Jobs, NEW listed \in QueueStates
  PROVE  /\ GatherJobInfo(j, listed) \in RowType
         /\ GatherJobInfo(j, listed).job = j
         /\ (GatherJobInfo(j, listed).slurm \in ActiveStates <=> listed \in ActiveStates)
<1>1. DetectStage(LogTail(log[j])) \in Stages
  BY TailTyped, StageTyped DEF LogsTyped
<1>2. StageOf(j, listed) \in Stages
  BY <1>1 DEF StageOf, Stages
<1>3. MetricsOf(j, StageOf(j, listed)) \in {"none", "rollup", "partial", "live"}
  <2> DEFINE st == StageOf(j, listed)
  <2> HIDE DEF st
  <2>1. MetricsOf(j, st) \in {"none", "rollup", "partial", "live"}
    BY DEF MetricsOf
  <2> QED
    BY <2>1 DEF st
<1> DEFINE stage == StageOf(j, listed)
           metrics == MetricsOf(j, stage)
           slurm == IF listed = "gone" THEN "ENDED" ELSE listed
<1>4. GatherJobInfo(j, listed) = [job |-> j, slurm |-> slurm, stage |-> stage, metrics |-> metrics]
  BY DEF GatherJobInfo
<1>5. slurm \in LiveStates \cup {"TIMEOUT", "ENDED"} /\ (slurm \in ActiveStates <=> listed \in ActiveStates)
  BY DEF QueueStates, ActiveStates, LiveStates
<1>6. stage \in Stages /\ metrics \in {"none", "rollup", "partial", "live"}
  BY <1>2, <1>3
<1> HIDE DEF stage, metrics, slurm
<1> QED
  BY <1>4, <1>5, <1>6 DEF RowType

\* The list the fetch thread publishes has one row for each job, whatever the order.
LEMMA ListOfRows ==
  ASSUME LogsTyped, NEW which \in SUBSET Jobs, NEW listed \in [Jobs -> QueueStates],
         NEW list, list = Rows(which, listed)
  PROVE  /\ list \in Seq(RowType) /\ Len(list) <= Cardinality(Jobs)
         /\ \A i, k \in DOMAIN list : list[i].job = list[k].job => i = k
         /\ {list[i].job : i \in DOMAIN list} = which
         /\ \A i \in DOMAIN list : /\ list[i].job \in which
                                  /\ (list[i].slurm \in ActiveStates
                                        <=> listed[list[i].job] \in ActiveStates)
<1> DEFINE info(j) == GatherJobInfo(j, listed[j])
           infos == {info(j) : j \in which}
           N == Cardinality(infos)
           before == {p \in infos \X infos : SortsBefore(p[1], p[2])}
<1>1. \A j \in which : /\ info(j) \in RowType /\ info(j).job = j
                      /\ (info(j).slurm \in ActiveStates <=> listed[j] \in ActiveStates)
  BY RowTyped
<1> HIDE DEF info
<1>2. /\ infos \in SUBSET RowType
      /\ \A a \in infos : /\ a.job \in which /\ a = info(a.job)
                          /\ (a.slurm \in ActiveStates <=> listed[a.job] \in ActiveStates)
      /\ \A a, b \in infos : a.job = b.job => a = b
      /\ {a.job : a \in infos} = which
  <2>1. infos \in SUBSET RowType
    BY <1>1
  <2>2. \A a \in infos : /\ a.job \in which /\ a = info(a.job)
                        /\ (a.slurm \in ActiveStates <=> listed[a.job] \in ActiveStates)
    BY <1>1
  <2>3. \A j \in which : info(j) \in infos
    OBVIOUS
  <2> HIDE DEF infos
  <2>4. {a.job : a \in infos} = which
    BY <1>1, <2>2, <2>3
  <2> QED
    BY <2>1, <2>2, <2>4
<1>3. IsFiniteSet(infos) /\ N <= Cardinality(Jobs) /\ N \in Nat
  <2> DEFINE jobOf == [a \in infos |-> a.job]
  <2>1. jobOf \in Injection(infos, Jobs)
    <3>1. jobOf \in [infos -> Jobs]
      BY <1>2
    <3>2. \A a, b \in DOMAIN jobOf : jobOf[a] = jobOf[b] => a = b
      BY <1>2
    <3> HIDE DEF jobOf
    <3> QED
      BY <3>1, <3>2 DEF Injection, IsInjective
  <2> HIDE DEF jobOf, infos
  <2>2. IsFiniteSet(infos) /\ Cardinality(infos) <= Cardinality(Jobs)
    BY <2>1, FS_Injection, JobsAssumption
  <2> QED
    BY <2>2, FS_CardinalityType
<1> HIDE DEF infos
<1>4. /\ before \in SUBSET (infos \X infos)
      /\ \A a, b \in infos : <<a, b>> \in before <=> SortsBefore(a, b)
  OBVIOUS
<1>5. \A a \in infos : /\ SlurmOrder[a.slurm] \in Nat /\ DoneOrder(a.stage) \in Nat /\ a.job \in Nat
  <2> SUFFICES ASSUME NEW a \in infos
               PROVE  /\ SlurmOrder[a.slurm] \in Nat /\ DoneOrder(a.stage) \in Nat /\ a.job \in Nat
    OBVIOUS
  <2>1. a \in RowType
    BY <1>2
  <2>2. a.slurm \in {"PENDING", "RUNNING", "COMPLETING", "SUSPENDED", "TIMEOUT", "ENDED"} /\ a.job \in Nat
    BY <2>1, JobsAssumption DEF RowType, ActiveStates, LiveStates
  <2>3. SlurmOrder[a.slurm] \in Nat
    BY <2>2 DEF SlurmOrder
  <2>4. DoneOrder(a.stage) \in Nat
    BY DEF DoneOrder
  <2> QED
    BY <2>2, <2>3, <2>4
<1> DEFINE slurm(a) == SlurmOrder[a.slurm]
           done(a) == DoneOrder(a.stage)
<1>6. \A a, b \in infos : SortsBefore(a, b) <=>
                            (\/ slurm(a) < slurm(b)
                             \/ slurm(a) = slurm(b) /\ done(a) < done(b)
                             \/ slurm(a) = slurm(b) /\ done(a) = done(b) /\ a.job > b.job)
  <2> TAKE a, b \in infos
  <2> QED
    BY DEF SortsBefore
<1>7. \A a \in infos : slurm(a) \in Nat /\ done(a) \in Nat /\ a.job \in Nat
  BY <1>5
<1> HIDE DEF slurm, done, before
<1>8. \A a \in infos : <<a, a>> \notin before
  BY <1>4, <1>6, <1>7
<1>9. \A a, b, c \in infos : <<a, b>> \in before /\ <<b, c>> \in before => <<a, c>> \in before
  <2> SUFFICES ASSUME NEW a \in infos, NEW b \in infos, NEW c \in infos,
                      SortsBefore(a, b), SortsBefore(b, c)
               PROVE  SortsBefore(a, c)
    BY <1>4
  <2>1. /\ slurm(a) \in Nat /\ slurm(b) \in Nat /\ slurm(c) \in Nat
        /\ done(a) \in Nat /\ done(b) \in Nat /\ done(c) \in Nat
        /\ a.job \in Nat /\ b.job \in Nat /\ c.job \in Nat
    BY <1>7
  <2> QED
    BY <1>6, <2>1
<1>10. \A a, b \in infos : a = b \/ <<a, b>> \in before \/ <<b, a>> \in before
  <2> SUFFICES ASSUME NEW a \in infos, NEW b \in infos, a.job # b.job
               PROVE  SortsBefore(a, b) \/ SortsBefore(b, a)
    BY <1>2, <1>4
  <2>1. /\ slurm(a) \in Nat /\ slurm(b) \in Nat /\ done(a) \in Nat /\ done(b) \in Nat
        /\ a.job \in Nat /\ b.job \in Nat
    BY <1>7
  <2> QED
    BY <1>6, <2>1
<1>11. \E g \in [1..N -> infos] :
            /\ \A i, k \in 1..N : i # k => g[i] # g[k]
            /\ \A i, k \in 1..N : i < k => <<g[i], g[k]>> \in before
  BY <1>3, <1>4, <1>8, <1>9, <1>10, OrderedListing
<1>12. \E g \in SetToSeqs(infos) : IsSorted(g, SortsBefore)
  <2>1. PICK g \in [1..N -> infos] :
            /\ \A i, k \in 1..N : i # k => g[i] # g[k]
            /\ \A i, k \in 1..N : i < k => <<g[i], g[k]>> \in before
    BY <1>11
  <2>2. g \in SetToSeqs(infos)
    BY <2>1 DEF SetToSeqs
  <2>3. g \in Seq(infos) /\ Len(g) = N
    BY <1>3
  <2>4. \A i, k \in 1..Len(g) : i < k => SortsBefore(g[i], g[k])
    BY <1>4, <2>1, <2>3
  <2>5. IsSorted(g, SortsBefore)
    BY <2>4 DEF IsSorted
  <2> QED
    BY <2>2, <2>5
<1>13. list = CHOOSE g \in SetToSeqs(infos) : IsSorted(g, SortsBefore)
  BY DEF Rows, infos, info
<1>14. list \in SetToSeqs(infos)
  <2> DEFINE sorted(g) == IsSorted(g, SortsBefore)
  <2>1. \E g \in SetToSeqs(infos) : sorted(g)
    BY <1>12
  <2>2. list = CHOOSE g \in SetToSeqs(infos) : sorted(g)
    BY <1>13
  <2> HIDE DEF sorted
  <2> QED
    BY <2>1, <2>2
<1>15. list \in [1..N -> infos] /\ \A i, k \in 1..N : i # k => list[i] # list[k]
  BY <1>14 DEF SetToSeqs
<1>16. list \in Seq(RowType) /\ Len(list) = N /\ DOMAIN list = 1..N
  BY <1>2, <1>3, <1>15
<1>17. {list[i] : i \in 1..N} = infos
  <2>1. list \in Injection(1..N, infos)
    BY <1>15 DEF Injection, IsInjective
  <2>2. IsFiniteSet(1..N) /\ Cardinality(1..N) = N
    BY <1>3, FS_Interval
  <2>3. list \in Surjection(1..N, infos)
    BY <1>3, <2>1, <2>2, FS_Injection
  <2> QED
    BY <1>15, <2>3 DEF Surjection
<1> HIDE DEF N
<1>18. \A i, k \in DOMAIN list : list[i].job = list[k].job => i = k
  BY <1>2, <1>15, <1>16
<1>19. \A i \in DOMAIN list : /\ list[i].job \in which
                             /\ (list[i].slurm \in ActiveStates <=> listed[list[i].job] \in ActiveStates)
  BY <1>2, <1>15, <1>16
<1>20. {list[i].job : i \in DOMAIN list} = which
  BY <1>2, <1>16, <1>17
<1> QED
  BY <1>3, <1>16, <1>18, <1>19, <1>20

-----------------------------------------------------------------------------
(* The viewport                                                            *)

RowsTyped ==
  /\ rows \in Seq(RowType) /\ Len(rows) <= Cardinality(Jobs)
  /\ \A i, k \in DOMAIN rows : rows[i].job = rows[k].job => i = k

\* A row's lines follow those of the rows above it.
LEMMA BottomGrows ==
  ASSUME RowsTyped
  PROVE  /\ Bottom(0) = 0
         /\ \A i \in 0..Len(rows) : Bottom(i) \in Nat
         /\ \A i \in 1..Len(rows) : /\ Height[rows[i].job] \in Nat \ {0}
                                   /\ Bottom(i) = Bottom(i - 1) + Height[rows[i].job]
         /\ \A i, k \in 0..Len(rows) : i <= k => Bottom(i) <= Bottom(k)
<1> DEFINE n == Len(rows)
           H(k) == Height[rows[k].job]
           block(k) == {k} \X (1..H(k))
           upTo(i) == UNION {block(k) : k \in 1..i}
<1>1. n \in Nat /\ \A k \in 1..n : H(k) \in Nat \ {0}
  <2>1. n \in Nat /\ \A k \in 1..n : rows[k] \in RowType
    BY DEF RowsTyped
  <2>2. \A row \in RowType : row.job \in Jobs
    BY DEF RowType
  <2>3. \A k \in 1..n : H(k) \in Nat \ {0}
    BY <2>1, <2>2, JobsAssumption
  <2> QED
    BY <2>1, <2>3
<1>2. \A i : Bottom(i) = Cardinality(upTo(i))
  BY DEF Bottom
<1> HIDE DEF H, n
<1>3. \A k \in 1..n : IsFiniteSet(block(k)) /\ Cardinality(block(k)) = H(k)
  <2> TAKE k \in 1..n
  <2>1. IsFiniteSet({k}) /\ Cardinality({k}) = 1
    BY FS_Singleton
  <2>2. IsFiniteSet(1..H(k)) /\ Cardinality(1..H(k)) = H(k)
    BY <1>1, FS_Interval
  <2>3. IsFiniteSet(block(k)) /\ Cardinality(block(k)) = 1 * H(k)
    BY <2>1, <2>2, FS_Product
  <2> QED
    BY <1>1, <2>3
<1>4. \A i \in 0..n : IsFiniteSet(upTo(i))
  <2> TAKE i \in 0..n
  <2> DEFINE blocks == {block(k) : k \in 1..i}
             blockOf == [k \in 1..i |-> block(k)]
  <2>1. blockOf \in Surjection(1..i, blocks)
    BY DEF Surjection
  <2>2. IsFiniteSet(1..i)
    BY <1>1, FS_Interval
  <2>3. \A b \in blocks : IsFiniteSet(b)
    <3>1. 1..i \subseteq 1..n
      BY <1>1
    <3> QED
      BY <1>3, <3>1
  <2> HIDE DEF blocks, blockOf, block
  <2>4. IsFiniteSet(blocks)
    BY <2>1, <2>2, FS_Surjection
  <2>5. IsFiniteSet(UNION blocks)
    BY <2>3, <2>4, FS_UNION
  <2> QED
    BY <2>5 DEF blocks
<1>5. Bottom(0) = 0
  <2>1. upTo(0) = {}
    OBVIOUS
  <2> HIDE DEF upTo
  <2> QED
    BY <1>2, <2>1, FS_EmptySet
<1>6. \A i \in 0..n : Bottom(i) \in Nat
  <2> HIDE DEF upTo
  <2> QED
    BY <1>2, <1>4, FS_CardinalityType
<1>7. \A i \in 1..n : Bottom(i) = Bottom(i - 1) + H(i)
  <2> TAKE i \in 1..n
  <2>0. i \in Nat /\ i - 1 \in 0..n /\ i \in 0..n /\ i \in 1..n
    BY <1>1
  <2>1. 1..i = (1..(i - 1)) \cup {i} /\ i \notin 1..(i - 1)
    BY <2>0
  <2>2. upTo(i) = upTo(i - 1) \cup block(i)
    <3> HIDE DEF block
    <3> QED
      BY <2>1
  <2>3. upTo(i - 1) \cap block(i) = {}
    BY <2>1
  <2> HIDE DEF upTo, block
  <2>4. IsFiniteSet(upTo(i - 1)) /\ IsFiniteSet(block(i)) /\ Cardinality(block(i)) = H(i)
    BY <1>3, <1>4, <2>0
  <2>5. Cardinality(upTo(i)) = Cardinality(upTo(i - 1)) + Cardinality(block(i)) - 0
    BY <2>2, <2>3, <2>4, FS_Union, FS_EmptySet
  <2>6. H(i) \in Nat /\ Bottom(i - 1) \in Nat
    BY <1>1, <1>6, <2>0
  <2> QED
    BY <1>2, <2>4, <2>5, <2>6
<1>8. \A i, k \in 0..n : i <= k => Bottom(i) <= Bottom(k)
  <2> SUFFICES ASSUME NEW i \in 0..n, NEW k \in 0..n, i <= k
               PROVE  Bottom(i) <= Bottom(k)
    OBVIOUS
  <2>1. 1..i \subseteq 1..k
    BY <1>1
  <2>2. upTo(i) \in SUBSET upTo(k)
    <3> HIDE DEF block
    <3> QED
      BY <2>1
  <2> HIDE DEF upTo
  <2> QED
    BY <1>2, <1>4, <2>2, FS_Subset
<1> QED
  BY <1>1, <1>5, <1>6, <1>7, <1>8 DEF H, n

\* Some row holds the first line on the screen.
LEMMA FirstRowIs ==
  ASSUME RowsTyped, NEW o \in Nat, o < Bottom(Len(rows))
  PROVE  \E i \in DOMAIN rows : Bottom(i) > o /\ Bottom(i - 1) <= o
<1> DEFINE n == Len(rows)
           below == {i \in 1..n : Bottom(i) > o}
           mirror == {m \in 1..n : n + 1 - m \in below}
<1>1. n \in Nat /\ DOMAIN rows = 1..n
  BY DEF RowsTyped
<1>2. Bottom(0) = 0 /\ \A i \in 0..n : Bottom(i) \in Nat
  BY BottomGrows
<1> HIDE DEF n
<1>3. n \in below
  <2>1. n # 0
    BY <1>2 DEF n
  <2>2. Bottom(n) > o
    BY <1>1, <1>2 DEF n
  <2> QED
    BY <1>1, <2>1, <2>2
<1>4. 1 \in mirror /\ mirror \in SUBSET (1..n)
  <2>1. n \in 1..n /\ n + 1 - 1 = n
    BY <1>1, <1>3
  <2> HIDE DEF below
  <2> QED
    BY <1>1, <1>3, <2>1
<1>5. Max(mirror) \in mirror /\ \A m \in mirror : m <= Max(mirror)
  <2> HIDE DEF mirror
  <2> QED
    BY <1>1, <1>4, GreatestOf
<1> DEFINE i == n + 1 - Max(mirror)
<1>6. Max(mirror) \in 1..n /\ i \in below
  BY <1>5
<1>7. i \in 1..n /\ Bottom(i) > o
  BY <1>6
<1>8. Bottom(i - 1) <= o
  <2>1. CASE i = 1
    BY <1>2, <2>1
  <2>2. CASE i # 1
    <3>1. i - 1 \in 1..n /\ i - 1 \in 0..n /\ Max(mirror) + 1 \in 1..n /\ n + 1 - (Max(mirror) + 1) = i - 1
      BY <1>1, <1>6, <1>7, <2>2
    <3>2. Max(mirror) + 1 \notin mirror
      <4> HIDE DEF mirror
      <4> QED
        BY <1>5, <1>6
    <3>3. i - 1 \notin below
      <4> HIDE DEF below
      <4> QED
        BY <3>1, <3>2
    <3>4. ~(Bottom(i - 1) > o)
      BY <3>1, <3>3
    <3>5. Bottom(i - 1) \in Nat
      BY <1>2, <3>1
    <3> HIDE DEF i
    <3> QED
      BY <3>4, <3>5
  <2> QED
    BY <2>1, <2>2
<1> HIDE DEF i
<1> QED
  BY <1>1, <1>7, <1>8

LEMMA CursorTyped ==
  ASSUME RowsTyped, rows # <<>>, sel \in Nat
  PROVE  Cursor \in 1..Len(rows)
<1>1. Len(rows) \in Nat /\ Len(rows) # 0
  BY DEF RowsTyped
<1> QED
  BY <1>1 DEF Cursor, AtLeast, AtMost

\* The offset keeps the cursor's row at the top of the screen or its last line on it.
LEMMA OffsetFollows ==
  ASSUME RowsTyped, rows # <<>>, sel \in Nat, scroll \in Nat
  PROVE  /\ Offset \in Nat /\ Offset <= Bottom(Cursor - 1)
         /\ Offset = Bottom(Cursor - 1) \/ Bottom(Cursor) <= Offset + Lines
<1> DEFINE top == Bottom(Cursor - 1)
           bottom == Bottom(Cursor)
           total == Bottom(Len(rows))
           follow == IF top < scroll THEN top
                     ELSE IF bottom <= scroll + Lines THEN scroll
                     ELSE IF bottom - top >= Lines THEN top ELSE bottom - Lines
           cap == AtLeast(0, total - Lines)
<1>1. top \in Nat /\ bottom \in Nat /\ total \in Nat /\ top < bottom /\ bottom <= total
  <2>1. Cursor \in 1..Len(rows) /\ Len(rows) \in Nat
    BY CursorTyped DEF RowsTyped
  <2> DEFINE c == Cursor
             n == Len(rows)
  <2>2. c \in 1..n /\ n \in Nat
    BY <2>1
  <2> HIDE DEF c, n
  <2>3. c - 1 \in 0..n /\ c \in 0..n /\ n \in 0..n /\ c <= n
    BY <2>2
  <2>4. /\ \A i \in 0..n : Bottom(i) \in Nat
        /\ \A i \in 1..n : /\ Height[rows[i].job] \in Nat \ {0}
                           /\ Bottom(i) = Bottom(i - 1) + Height[rows[i].job]
        /\ \A i, k \in 0..n : i <= k => Bottom(i) <= Bottom(k)
    BY BottomGrows DEF n
  <2>5. Bottom(c - 1) \in Nat /\ Bottom(c) \in Nat /\ Bottom(n) \in Nat /\ Bottom(c) <= Bottom(n)
    BY <2>3, <2>4
  <2>6. Height[rows[c].job] \in Nat \ {0} /\ Bottom(c) = Bottom(c - 1) + Height[rows[c].job]
    BY <2>2, <2>4
  <2>7. Bottom(c - 1) < Bottom(c)
    BY <2>5, <2>6
  <2> QED
    BY <2>5, <2>7 DEF c, n
<1>2. Offset = AtLeast(0, AtMost(follow, cap))
  BY DEF Offset
<1> HIDE DEF top, bottom, total
<1>3. Lines \in Nat \ {0}
  BY JobsAssumption
<1>4. /\ Offset \in Nat /\ Offset <= top
      /\ Offset = top \/ bottom <= Offset + Lines
  BY <1>1, <1>2, <1>3 DEF AtLeast, AtMost
<1> QED
  BY <1>4 DEF top, bottom

\* _compute_viewport: a drawn screen has the cursor on it.
LEMMA CursorDrawn ==
  ASSUME RowsTyped, rows # <<>>, sel \in Nat, scroll \in Nat
  PROVE  Table = "table"
<1> DEFINE n == Len(rows)
           c == Cursor
           o == Offset
           f == FirstRow
           H(k) == Height[rows[k].job]
<1>1. c \in 1..n /\ n \in Nat /\ DOMAIN rows = 1..n
  BY CursorTyped DEF RowsTyped
<1>2. /\ \A i \in 0..n : Bottom(i) \in Nat
      /\ \A i \in 1..n : H(i) \in Nat \ {0} /\ Bottom(i) = Bottom(i - 1) + H(i)
      /\ \A i, k \in 0..n : i <= k => Bottom(i) <= Bottom(k)
  BY BottomGrows
<1>3. o \in Nat /\ o <= Bottom(c - 1) /\ (o = Bottom(c - 1) \/ Bottom(c) <= o + Lines)
  BY OffsetFollows
<1>4. Table = IF Bottom(c - 1) < Bottom(f - 1) + Lines \/ H(f) > H(c) THEN "table" ELSE "cursor lost"
  BY DEF Table
<1>5. f = CHOOSE i \in DOMAIN rows : Bottom(i) > o /\ Bottom(i - 1) <= o
  BY DEF FirstRow
<1> HIDE DEF c, o, H
<1>6. o < Bottom(n)
  <2>1. c - 1 \in 0..n /\ c \in 0..n /\ n \in 0..n /\ c <= n
    BY <1>1
  <2>2. Bottom(c - 1) < Bottom(c) /\ Bottom(c) <= Bottom(n)
    <3>1. Bottom(c - 1) \in Nat /\ H(c) \in Nat \ {0} /\ Bottom(c) = Bottom(c - 1) + H(c)
      BY <1>1, <1>2, <2>1
    <3> QED
      BY <1>2, <2>1, <3>1
  <2>3. Bottom(c - 1) \in Nat /\ Bottom(c) \in Nat /\ Bottom(n) \in Nat
    BY <1>2, <2>1
  <2> HIDE DEF n
  <2> QED
    BY <1>3, <2>2, <2>3
<1>7. f \in DOMAIN rows /\ Bottom(f) > o /\ Bottom(f - 1) <= o
  <2>1. \E i \in DOMAIN rows : Bottom(i) > o /\ Bottom(i - 1) <= o
    BY <1>3, <1>6, FirstRowIs
  <2> DEFINE holds(i) == Bottom(i) > o /\ Bottom(i - 1) <= o
  <2>2. \E i \in DOMAIN rows : holds(i)
    BY <2>1
  <2>3. f = CHOOSE i \in DOMAIN rows : holds(i)
    BY <1>5
  <2> HIDE DEF holds, f
  <2>4. f \in DOMAIN rows /\ holds(f)
    BY <2>2, <2>3
  <2> QED
    BY <2>4 DEF holds
<1> HIDE DEF f, n
<1>8. Lines \in Nat \ {0}
  BY JobsAssumption
<1>9. /\ f \in 1..n /\ f - 1 \in 0..n /\ f \in 0..n
      /\ c - 1 \in 0..n /\ c \in 0..n
  BY <1>1, <1>7
<1>10. /\ Bottom(f - 1) \in Nat /\ Bottom(c - 1) \in Nat /\ H(f) \in Nat \ {0} /\ H(c) \in Nat \ {0}
       /\ Bottom(f) = Bottom(f - 1) + H(f) /\ Bottom(c) = Bottom(c - 1) + H(c)
  BY <1>1, <1>2, <1>9
<1>11. CASE Bottom(c) <= o + Lines
  <2>1. Bottom(c - 1) < Bottom(f - 1) + Lines \/ H(f) > H(c)
    BY <1>3, <1>7, <1>8, <1>10, <1>11
  <2> QED
    BY <1>4, <2>1
<1>12. CASE o = Bottom(c - 1)
  <2>1. ~(f < c)
    <3>1. f < c => Bottom(f) <= Bottom(c - 1)
      BY <1>1, <1>2, <1>9
    <3> QED
      BY <1>7, <1>10, <1>12, <3>1
  <2>2. Bottom(c - 1) <= Bottom(f - 1)
    BY <1>1, <1>2, <1>9, <2>1
  <2>3. Bottom(c - 1) < Bottom(f - 1) + Lines
    BY <1>8, <1>10, <2>2
  <2> QED
    BY <1>4, <2>3
<1> QED
  BY <1>3, <1>11, <1>12

-----------------------------------------------------------------------------
(* The invariant                                                           *)

\* Neither the queue nor the answer in hand lists the job.
Over(j) == queue[j] = "gone" /\ answer.jobs[j] = "gone"

\* A job that was not taken for over too early is over before it is deleted: when its
\* output is gone, when the question to delete it is on the screen, and when its row says so.
DeletedAreOver ==
  /\ \A j \in Jobs \ misled : ~dir[j] => Over(j)
  /\ \A i \in DOMAIN rows :
        rows[i].slurm \notin ActiveStates /\ rows[i].job \notin misled => Over(rows[i].job)
  /\ prompt.kind = "delete" /\ prompt.job \notin misled => Over(prompt.job)

\* What a list has shown is tracked while the dashboard lives, and saved when it does not.
ShownAreTracked ==
  /\ \A j \in tracked \ misled : dir[j]
  /\ live => known \ misled \subseteq tracked
  /\ ~live => known \ misled \subseteq saved /\ \A j \in saved \ misled : dir[j]

\* The ids the fetch thread gathers still hold the tracked ones.
GatherIsCurrent ==
  fetch = "look" =>
      tracked \subseteq ids /\ \A j \in Jobs \ misled : answer.jobs[j] # "gone" => j \in tracked

ListIsComplete == ~loading /\ ~oddSeen => known \ misled \subseteq Shown

MonitorTyped == TypeOK /\ LogsTyped /\ RowsTyped

MonitorInv ==
  /\ MonitorTyped /\ DeletedAreOver /\ ShownAreTracked /\ GatherIsCurrent /\ ListIsComplete
  /\ CursorFollowed

LEMMA RowsOfType ==
  ASSUME RowsTyped
  PROVE  rows \in Seq(RowType) /\ IsInjective([i \in DOMAIN rows |-> rows[i].job])
BY DEF RowsTyped, IsInjective

LEMMA EmptyRows ==
  ASSUME NEW list, list = <<>>
  PROVE  /\ list \in Seq(RowType) /\ Len(list) <= Cardinality(Jobs)
         /\ \A i, k \in DOMAIN list : list[i].job = list[k].job => i = k
         /\ DOMAIN list = {}
<1>1. Cardinality(Jobs) \in Nat
  BY JobsAssumption, FS_CardinalityType
<1>2. list \in Seq(RowType) /\ Len(list) = 0 /\ DOMAIN list = {}
  OBVIOUS
<1> QED
  BY <1>1, <1>2

LEMMA NoAnswerTyped ==
  /\ EmptyQueue \in [Jobs -> QueueStates]
  /\ NoAnswer \in [jobs : [Jobs -> QueueStates], odd : BOOLEAN, all : BOOLEAN]
  /\ \A j \in Jobs : NoAnswer.jobs[j] = "gone"
BY DEF EmptyQueue, NoAnswer, QueueStates

LEMMA InitEstablishes == Init => MonitorInv
<1> SUFFICES ASSUME Init PROVE MonitorInv
  OBVIOUS
<1>1. LogsTyped
  <2>1. queue \in [Jobs -> QueueStates] /\ dir \in [Jobs -> BOOLEAN]
    BY DEF Init, QueueStates
  <2>2. PICK life \in {f \in [Jobs -> UNION Range(Lives)] : \A j \in Jobs : f[j] \in Lives[j]} :
          /\ rest = [j \in Jobs |-> IF j \in OldJobs THEN <<>> ELSE life[j]]
          /\ log = [j \in Jobs |-> IF j \in OldJobs THEN life[j] ELSE <<>>]
    BY DEF Init
  <2>3. \A j \in Jobs : life[j] \in Seq(Kinds)
    BY LivesAssumption
  <2>4. <<>> \in Seq(Kinds)
    OBVIOUS
  <2>5. rest \in [Jobs -> Seq(Kinds)] /\ log \in [Jobs -> Seq(Kinds)]
    BY <2>2, <2>3, <2>4
  <2>6. answer \in [jobs : [Jobs -> QueueStates], odd : BOOLEAN, all : BOOLEAN]
    BY NoAnswerTyped DEF Init
  <2> QED
    BY <2>1, <2>5, <2>6 DEF LogsTyped
<1>2. RowsTyped /\ DOMAIN rows = {}
  BY EmptyRows DEF Init, RowsTyped
<1>3. TypeOK
  <2>1. answer.jobs \in [Jobs -> QueueStates] /\ queue \in [Jobs -> QueueStates] /\ dir \in [Jobs -> BOOLEAN]
    BY <1>1 DEF LogsTyped
  <2>2. troubles \in 0..MaxTroubles /\ scroll \in Nat
    BY JobsAssumption DEF Init
  <2>3. sel \in 0..AtLeast(1, Cardinality(Jobs))
    BY JobsAssumption, FS_CardinalityType DEF Init, AtLeast
  <2>4. prompt \in Prompts
    BY DEF Init, Prompts
  <2>5. {loading, live, all, oddSeen} \subseteq BOOLEAN
    BY JobsAssumption DEF Init
  <2>6. /\ fetch \in {"ask", "track", "look", "wait"} /\ ids \subseteq Jobs /\ tracked \subseteq Jobs
        /\ saved \subseteq Jobs /\ known \subseteq Jobs /\ misled \subseteq Jobs
    BY DEF Init
  <2> QED
    BY <1>2, <2>1, <2>2, <2>3, <2>4, <2>5, <2>6, RowsOfType DEF TypeOK
<1>4. DeletedAreOver
  <2>1. prompt.kind # "delete" /\ \A j \in Jobs : dir[j]
    BY DEF Init, NoPrompt
  <2> QED
    BY <1>2, <2>1 DEF DeletedAreOver
<1>5. ShownAreTracked /\ GatherIsCurrent /\ ListIsComplete /\ CursorFollowed
  BY DEF Init, ShownAreTracked, GatherIsCurrent, ListIsComplete, CursorFollowed
<1> QED
  BY <1>1, <1>2, <1>3, <1>4, <1>5 DEF MonitorInv, MonitorTyped

-----------------------------------------------------------------------------
(* The jobs and the screen                                                 *)

\* The jobs move, keys move the cursor or put a question away: nothing the list, the
\* tracked ids and the history relate is changed, and a job that has gone stays gone.
LEMMA Frame ==
  ASSUME MonitorInv, LogsTyped', dir' = dir,
         \A j \in Jobs : queue[j] = "gone" => queue'[j] = "gone",
         UNCHANGED <<answer, ids, sharedVars, live, saved, history>>,
         fetch' \in {fetch, "ask"}, troubles' = troubles,
         sel' \in 0..AtLeast(1, Cardinality(Jobs)), scroll' \in Nat, all' \in BOOLEAN,
         prompt' \in {prompt, NoPrompt}, CursorFollowed'
  PROVE  MonitorInv'
<1> USE DEF sharedVars, history
<1>1. RowsTyped'
  BY DEF MonitorInv, MonitorTyped, RowsTyped
<1>2. TypeOK'
  <2>1. (rows \in Seq(RowType) /\ IsInjective([i \in DOMAIN rows |-> rows[i].job]))'
    BY DEF MonitorInv, MonitorTyped, TypeOK
  <2>2. answer'.jobs \in [Jobs -> QueueStates] /\ queue' \in [Jobs -> QueueStates] /\ dir' \in [Jobs -> BOOLEAN]
    BY DEF LogsTyped
  <2>3. prompt' \in Prompts
    BY DEF MonitorInv, MonitorTyped, TypeOK, Prompts
  <2>4. {loading', live', all', oddSeen'} \subseteq BOOLEAN
    BY DEF MonitorInv, MonitorTyped, TypeOK
  <2>5. /\ fetch' \in {"ask", "track", "look", "wait"} /\ ids' \subseteq Jobs /\ tracked' \subseteq Jobs
        /\ saved' \subseteq Jobs /\ known' \subseteq Jobs /\ misled' \subseteq Jobs
        /\ troubles' \in 0..MaxTroubles
    BY DEF MonitorInv, MonitorTyped, TypeOK
  <2> QED
    BY <2>1, <2>2, <2>3, <2>4, <2>5 DEF TypeOK
<1> DEFINE over(j) == queue'[j] = "gone" /\ answer'.jobs[j] = "gone"
<1>3. \A j \in Jobs : Over(j) => over(j)
  BY DEF Over
<1>4. DeletedAreOver'
  <2>1. \A j \in Jobs \ misled' : ~dir'[j] => over(j)
    BY <1>3 DEF MonitorInv, DeletedAreOver
  <2>2. ASSUME NEW i \in DOMAIN rows, rows[i].slurm \notin ActiveStates, rows[i].job \notin misled
        PROVE  over(rows[i].job)
    <3>1. rows[i].job \in Jobs
      <4>1. rows[i] \in RowType
        BY DEF MonitorInv, MonitorTyped, RowsTyped
      <4> QED
        BY <4>1 DEF RowType
    <3>2. Over(rows[i].job)
      BY <2>2 DEF MonitorInv, DeletedAreOver
    <3> QED
      BY <1>3, <3>1, <3>2
  <2>3. ASSUME prompt'.kind = "delete", prompt'.job \notin misled' PROVE over(prompt'.job)
    <3>1. prompt' = prompt
      BY <2>3 DEF NoPrompt
    <3>2. prompt.job \in Jobs
      BY <2>3, <3>1 DEF MonitorInv, MonitorTyped, TypeOK, Prompts, NoPrompt
    <3>3. Over(prompt.job)
      BY <2>3, <3>1 DEF MonitorInv, DeletedAreOver
    <3>4. over(prompt.job)
      BY <1>3, <3>2, <3>3
    <3> QED
      BY <3>1, <3>4
  <2>4. rows' = rows /\ misled' = misled
    OBVIOUS
  <2> QED
    BY <2>1, <2>2, <2>3, <2>4 DEF DeletedAreOver, Over
<1>5. ShownAreTracked'
  BY DEF MonitorInv, ShownAreTracked
<1>6. GatherIsCurrent'
  BY DEF MonitorInv, GatherIsCurrent
<1>7. ListIsComplete'
  BY DEF MonitorInv, ListIsComplete, Shown
<1> QED
  BY <1>1, <1>2, <1>4, <1>5, <1>6, <1>7 DEF MonitorInv, MonitorTyped

\* A job that is cut short writes at most the line of its cleanup.
LEMMA CutShortTyped ==
  ASSUME LogsTyped, NEW j \in Jobs, NEW as \in QueueStates, CutShort(j, as)
  PROVE  /\ queue' = [queue EXCEPT ![j] = as]
         /\ queue' \in [Jobs -> QueueStates]
         /\ rest' \in [Jobs -> Seq(Kinds)] /\ log' \in [Jobs -> Seq(Kinds)]
<1>1. queue' = [queue EXCEPT ![j] = as] /\ queue' \in [Jobs -> QueueStates]
  BY DEF LogsTyped, CutShort
<1>2. rest' \in [Jobs -> Seq(Kinds)]
  <2>1. <<>> \in Seq(Kinds)
    OBVIOUS
  <2> QED
    BY <2>1 DEF LogsTyped, CutShort
<1>3. log' \in [Jobs -> Seq(Kinds)]
  <2>1. Append(log[j], "cleanup") \in Seq(Kinds)
    BY DEF LogsTyped, Kinds
  <2>2. log' = log \/ log' = [log EXCEPT ![j] = Append(log[j], "cleanup")]
    BY DEF CutShort
  <2> QED
    BY <2>1, <2>2 DEF LogsTyped
<1> QED
  BY <1>1, <1>2, <1>3

LEMMA JobsMove ==
  ASSUME LogsTyped, \E j \in Jobs : Starts(j) \/ Waits(j) \/ Writes(j) \/ Finishes(j) \/ TimesOut(j) \/ Leaves(j)
  PROVE  /\ queue' \in [Jobs -> QueueStates] /\ dir' = dir
         /\ rest' \in [Jobs -> Seq(Kinds)] /\ log' \in [Jobs -> Seq(Kinds)]
         /\ \A j \in Jobs : queue[j] = "gone" => queue'[j] = "gone"
<1>1. PICK j \in Jobs : Starts(j) \/ Waits(j) \/ Writes(j) \/ Finishes(j) \/ TimesOut(j) \/ Leaves(j)
  OBVIOUS
<1>2. CASE Starts(j)
  BY <1>2 DEF Starts, LogsTyped, QueueStates
<1>3. CASE Writes(j)
  <2>1. rest[j] \in Seq(Kinds) /\ rest[j] # <<>> /\ log[j] \in Seq(Kinds)
    BY <1>3 DEF Writes, LogsTyped
  <2>2. Append(log[j], Head(rest[j])) \in Seq(Kinds) /\ Tail(rest[j]) \in Seq(Kinds)
    BY <2>1
  <2> QED
    BY <1>3, <2>2 DEF Writes, LogsTyped
<1>4. CASE Finishes(j)
  BY <1>4 DEF Finishes, LogsTyped, QueueStates
<1>5. CASE TimesOut(j)
  <2>1. CutShort(j, "TIMEOUT") /\ dir' = dir /\ queue[j] = "RUNNING"
    BY <1>5 DEF TimesOut
  <2>2. "TIMEOUT" \in QueueStates
    BY DEF QueueStates
  <2>3. /\ queue' = [queue EXCEPT ![j] = "TIMEOUT"] /\ queue' \in [Jobs -> QueueStates]
        /\ rest' \in [Jobs -> Seq(Kinds)] /\ log' \in [Jobs -> Seq(Kinds)]
    BY <2>1, <2>2, CutShortTyped
  <2> QED
    BY <2>1, <2>3 DEF LogsTyped
<1>6. CASE Waits(j)
  BY <1>6 DEF Waits, LogsTyped, QueueStates
<1>7. CASE Leaves(j)
  BY <1>7 DEF Leaves, LogsTyped, QueueStates
<1> QED
  BY <1>1, <1>2, <1>3, <1>4, <1>5, <1>6, <1>7

LEMMA SlurmKeeps ==
  ASSUME MonitorInv, Slurm
  PROVE  MonitorInv'
<1>1. LogsTyped
  BY DEF MonitorInv, MonitorTyped
<1>2. /\ queue' \in [Jobs -> QueueStates] /\ dir' = dir
      /\ rest' \in [Jobs -> Seq(Kinds)] /\ log' \in [Jobs -> Seq(Kinds)]
      /\ \A j \in Jobs : queue[j] = "gone" => queue'[j] = "gone"
  BY <1>1, JobsMove DEF Slurm
<1>3. UNCHANGED <<fetchVars, sharedVars, uiVars, history>>
  BY DEF Slurm
<1>4. LogsTyped'
  BY <1>1, <1>2, <1>3 DEF LogsTyped, fetchVars
<1>5. /\ sel \in 0..AtLeast(1, Cardinality(Jobs)) /\ scroll \in Nat /\ all \in BOOLEAN /\ CursorFollowed
  BY DEF MonitorInv, MonitorTyped, TypeOK
<1> QED
  BY <1>2, <1>3, <1>4, <1>5, Frame DEF fetchVars, uiVars, CursorFollowed

LEMMA LogsKept ==
  ASSUME MonitorInv, UNCHANGED jobVars, UNCHANGED answer
  PROVE  LogsTyped' /\ dir' = dir /\ \A j \in Jobs : queue[j] = "gone" => queue'[j] = "gone"
BY DEF MonitorInv, MonitorTyped, LogsTyped, jobVars

LEMMA WakeKeeps ==
  ASSUME MonitorInv, Wake
  PROVE  MonitorInv'
<1>1. LogsTyped' /\ dir' = dir /\ \A j \in Jobs : queue[j] = "gone" => queue'[j] = "gone"
  BY LogsKept DEF Wake
<1>2. /\ sel \in 0..AtLeast(1, Cardinality(Jobs)) /\ scroll \in Nat /\ all \in BOOLEAN /\ CursorFollowed
  BY DEF MonitorInv, MonitorTyped, TypeOK
<1>3. /\ fetch' = "ask" /\ UNCHANGED <<answer, ids, troubles, sharedVars, uiVars, history>>
  BY DEF Wake
<1> QED
  BY <1>1, <1>2, <1>3, Frame DEF uiVars, CursorFollowed

LEMMA JobsCounted == Cardinality(Jobs) \in Nat
BY JobsAssumption, FS_CardinalityType

LEMMA RenderKeeps ==
  ASSUME MonitorInv, Render
  PROVE  MonitorInv'
<1>1. LogsTyped' /\ dir' = dir /\ \A j \in Jobs : queue[j] = "gone" => queue'[j] = "gone"
  BY LogsKept DEF Render, fetchVars
<1>2. /\ sel \in 0..AtLeast(1, Cardinality(Jobs)) /\ scroll \in Nat /\ all \in BOOLEAN /\ RowsTyped
  BY DEF MonitorInv, MonitorTyped, TypeOK
<1>3. sel \in Nat
  BY <1>2, JobsCounted DEF AtLeast
<1>4. /\ UNCHANGED <<fetchVars, sharedVars, live, all, prompt, saved, history>>
  BY DEF Render
<1>5. sel' \in 0..AtLeast(1, Cardinality(Jobs)) /\ scroll' \in Nat /\ CursorFollowed'
  <2>1. CASE rows # <<>>
    <3>1. screen' = Table /\ sel' = Cursor /\ scroll' = Offset
      BY <2>1 DEF Render
    <3>2. Table = "table" /\ Cursor \in 1..Len(rows) /\ Offset \in Nat
      BY <1>2, <1>3, <2>1, CursorDrawn, CursorTyped, OffsetFollows
    <3>3. Len(rows) <= Cardinality(Jobs) /\ Len(rows) \in Nat
      BY <1>2 DEF RowsTyped
    <3>4. Cursor \in 0..AtLeast(1, Cardinality(Jobs))
      BY <3>2, <3>3, JobsCounted DEF AtLeast
    <3> QED
      BY <3>1, <3>2, <3>4 DEF CursorFollowed
  <2>2. CASE rows = <<>>
    <3>1. screen' = "blank" /\ ((sel' = sel /\ scroll' = scroll) \/ (sel' = 1 /\ scroll' = 0))
      <4>1. IF rows # <<>>
              THEN screen' = Table /\ sel' = Cursor /\ scroll' = Offset
              ELSE /\ screen' = "blank"
                   /\ IF loading THEN UNCHANGED <<sel, scroll>> ELSE sel' = 1 /\ scroll' = 0
        BY DEF Render
      <4>2. screen' = "blank" /\ IF loading THEN UNCHANGED <<sel, scroll>> ELSE sel' = 1 /\ scroll' = 0
        BY <2>2, <4>1
      <4> QED
        BY <4>2
    <3> QED
      BY <1>2, <3>1, JobsCounted DEF CursorFollowed, AtLeast
  <2> QED
    BY <2>1, <2>2
<1> QED
  BY <1>1, <1>2, <1>4, <1>5, Frame DEF fetchVars

LEMMA MoveKeeps ==
  ASSUME MonitorInv, Move
  PROVE  MonitorInv'
<1>1. LogsTyped' /\ dir' = dir /\ \A j \in Jobs : queue[j] = "gone" => queue'[j] = "gone"
  BY LogsKept DEF Move, fetchVars
<1>2. /\ sel \in 0..AtLeast(1, Cardinality(Jobs)) /\ scroll \in Nat /\ all \in BOOLEAN /\ RowsTyped
      /\ CursorFollowed
  BY DEF MonitorInv, MonitorTyped, TypeOK
<1>3. UNCHANGED <<fetchVars, sharedVars, live, all, scroll, prompt, screen, saved, history>>
  BY DEF Move
<1>4. sel' = AtLeast(1, sel - 1) \/ sel' = AtMost(Len(rows), sel + 1)
  BY DEF Move
<1>5. Len(rows) <= Cardinality(Jobs) /\ Len(rows) \in Nat
  BY <1>2 DEF RowsTyped
<1>6. sel' \in 0..AtLeast(1, Cardinality(Jobs))
  BY <1>2, <1>4, <1>5, JobsCounted DEF AtLeast, AtMost
<1> QED
  BY <1>1, <1>2, <1>3, <1>6, Frame DEF fetchVars, CursorFollowed

LEMMA ToggleAllKeeps ==
  ASSUME MonitorInv, ToggleAll
  PROVE  MonitorInv'
<1>1. LogsTyped' /\ dir' = dir /\ \A j \in Jobs : queue[j] = "gone" => queue'[j] = "gone"
  BY LogsKept DEF ToggleAll, fetchVars
<1>2. all \in BOOLEAN /\ CursorFollowed
  BY DEF MonitorInv, MonitorTyped, TypeOK
<1>3. /\ UNCHANGED <<fetchVars, sharedVars, live, prompt, screen, saved, history>>
      /\ sel' = 1 /\ scroll' = 0 /\ all' = ~all
  BY DEF ToggleAll
<1>4. sel' \in 0..AtLeast(1, Cardinality(Jobs))
  BY <1>3, JobsCounted DEF AtLeast
<1> QED
  BY <1>1, <1>2, <1>3, <1>4, Frame DEF fetchVars, CursorFollowed

LEMMA DeclineKeeps ==
  ASSUME MonitorInv, Decline
  PROVE  MonitorInv'
<1>1. LogsTyped' /\ dir' = dir /\ \A j \in Jobs : queue[j] = "gone" => queue'[j] = "gone"
  BY LogsKept DEF Decline, fetchVars
<1>2. /\ sel \in 0..AtLeast(1, Cardinality(Jobs)) /\ scroll \in Nat /\ all \in BOOLEAN /\ CursorFollowed
  BY DEF MonitorInv, MonitorTyped, TypeOK
<1>3. /\ UNCHANGED <<fetchVars, sharedVars, live, all, sel, scroll, screen, saved, history>>
      /\ prompt' = NoPrompt
  BY DEF Decline
<1> QED
  BY <1>1, <1>2, <1>3, Frame DEF fetchVars, CursorFollowed

LEMMA PromptNames ==
  ASSUME MonitorInv, prompt.kind \in {"cancel", "delete"}
  PROVE  prompt.job \in Jobs /\ prompt = [kind |-> prompt.kind, job |-> prompt.job]
BY DEF MonitorInv, MonitorTyped, TypeOK, Prompts, NoPrompt

LEMMA ConfirmCancelKeeps ==
  ASSUME MonitorInv, ConfirmCancel
  PROVE  MonitorInv'
<1>1. LogsTyped /\ prompt.job \in Jobs
  BY PromptNames DEF MonitorInv, MonitorTyped, ConfirmCancel
<1>2. /\ UNCHANGED <<dir, fetchVars, sharedVars, live, all, sel, scroll, screen, saved, history>>
      /\ prompt' = NoPrompt
  BY DEF ConfirmCancel
<1>3. /\ queue' \in [Jobs -> QueueStates]
      /\ rest' \in [Jobs -> Seq(Kinds)] /\ log' \in [Jobs -> Seq(Kinds)]
      /\ \A j \in Jobs : queue[j] = "gone" => queue'[j] = "gone"
  <2>1. CASE UNCHANGED <<queue, rest, log>>
    BY <1>1, <2>1 DEF LogsTyped
  <2>2. CASE queue[prompt.job] = "PENDING" /\ CutShort(prompt.job, "gone")
    <3>1. /\ queue' = [queue EXCEPT ![prompt.job] = "gone"] /\ queue' \in [Jobs -> QueueStates]
          /\ rest' \in [Jobs -> Seq(Kinds)] /\ log' \in [Jobs -> Seq(Kinds)]
      BY <1>1, <2>2, CutShortTyped DEF QueueStates
    <3> QED
      BY <1>1, <3>1 DEF LogsTyped
  <2>3. CASE queue[prompt.job] \in {"RUNNING", "SUSPENDED"} /\ CutShort(prompt.job, "COMPLETING")
    <3>1. /\ queue' = [queue EXCEPT ![prompt.job] = "COMPLETING"] /\ queue' \in [Jobs -> QueueStates]
          /\ rest' \in [Jobs -> Seq(Kinds)] /\ log' \in [Jobs -> Seq(Kinds)]
      BY <1>1, <2>3, CutShortTyped DEF QueueStates
    <3> QED
      BY <1>1, <2>3, <3>1 DEF LogsTyped
  <2> QED
    BY <2>1, <2>2, <2>3 DEF ConfirmCancel
<1>4. LogsTyped'
  BY <1>1, <1>2, <1>3 DEF LogsTyped, fetchVars
<1>5. /\ sel \in 0..AtLeast(1, Cardinality(Jobs)) /\ scroll \in Nat /\ all \in BOOLEAN /\ CursorFollowed
  BY DEF MonitorInv, MonitorTyped, TypeOK
<1> QED
  BY <1>2, <1>3, <1>4, <1>5, Frame DEF fetchVars, CursorFollowed

-----------------------------------------------------------------------------
(* The fetch thread                                                        *)

\* The types a step keeps that leaves the rows and the jobs alone.
LEMMA TypesKept ==
  ASSUME MonitorInv, UNCHANGED <<queue, rest, log, rows>>, dir' \in [Jobs -> BOOLEAN],
         answer' \in [jobs : [Jobs -> QueueStates], odd : BOOLEAN, all : BOOLEAN],
         fetch' \in {"ask", "track", "look", "wait"}, troubles' \in 0..MaxTroubles,
         ids' \subseteq Jobs, tracked' \subseteq Jobs, saved' \subseteq Jobs,
         known' \subseteq Jobs, misled' \subseteq Jobs,
         sel' \in 0..AtLeast(1, Cardinality(Jobs)), scroll' \in Nat, prompt' \in Prompts,
         loading' \in BOOLEAN, live' \in BOOLEAN, all' \in BOOLEAN, oddSeen' \in BOOLEAN
  PROVE  MonitorTyped'
<1>1. LogsTyped'
  BY DEF MonitorInv, MonitorTyped, LogsTyped
<1>2. RowsTyped'
  BY DEF MonitorInv, MonitorTyped, RowsTyped
<1>3. (rows \in Seq(RowType) /\ IsInjective([i \in DOMAIN rows |-> rows[i].job]))'
  BY DEF MonitorInv, MonitorTyped, TypeOK
<1>4. TypeOK'
  BY <1>1, <1>3 DEF TypeOK, LogsTyped
<1> QED
  BY <1>1, <1>2, <1>4 DEF MonitorTyped

LEMMA Types ==
  ASSUME MonitorInv
  PROVE  /\ queue \in [Jobs -> QueueStates] /\ dir \in [Jobs -> BOOLEAN]
         /\ answer \in [jobs : [Jobs -> QueueStates], odd : BOOLEAN, all : BOOLEAN]
         /\ fetch \in {"ask", "track", "look", "wait"} /\ troubles \in 0..MaxTroubles
         /\ ids \subseteq Jobs /\ tracked \subseteq Jobs /\ saved \subseteq Jobs
         /\ known \subseteq Jobs /\ misled \subseteq Jobs
         /\ sel \in 0..AtLeast(1, Cardinality(Jobs)) /\ scroll \in Nat /\ prompt \in Prompts
         /\ loading \in BOOLEAN /\ live \in BOOLEAN /\ all \in BOOLEAN /\ oddSeen \in BOOLEAN
BY DEF MonitorInv, MonitorTyped, TypeOK, LogsTyped

LEMMA RowJob ==
  ASSUME RowsTyped, NEW i \in DOMAIN rows
  PROVE  rows[i].job \in Jobs
<1>1. rows[i] \in RowType
  BY DEF RowsTyped
<1> QED
  BY <1>1 DEF RowType

\* What squeue answers lists no job that is over.
LEMMA AskSqueueKeeps ==
  ASSUME MonitorInv, AskSqueue
  PROVE  MonitorInv'
<1>1. UNCHANGED <<jobVars, ids, sharedVars, uiVars, history>> /\ fetch' = "track"
  BY DEF AskSqueue
<1>2. answer' \in {Answer(queue, FALSE), Answer(EmptyQueue, FALSE), Answer(queue, TRUE)}
  BY DEF AskSqueue
<1>3. /\ answer' \in [jobs : [Jobs -> QueueStates], odd : BOOLEAN, all : BOOLEAN]
      /\ \A j \in Jobs : queue[j] = "gone" => answer'.jobs[j] = "gone"
  <2>1. /\ queue \in [Jobs -> QueueStates] /\ EmptyQueue \in [Jobs -> QueueStates] /\ all \in BOOLEAN
        /\ \A j \in Jobs : EmptyQueue[j] = "gone"
    BY Types, NoAnswerTyped DEF EmptyQueue
  <2>2. ASSUME NEW q \in [Jobs -> QueueStates], \A j \in Jobs : queue[j] = "gone" => q[j] = "gone",
               NEW odd \in BOOLEAN, answer' = Answer(q, odd)
        PROVE  /\ answer' \in [jobs : [Jobs -> QueueStates], odd : BOOLEAN, all : BOOLEAN]
               /\ \A j \in Jobs : queue[j] = "gone" => answer'.jobs[j] = "gone"
    <3>1. answer' = [jobs |-> q, odd |-> odd, all |-> all]
      BY <2>2 DEF Answer
    <3> QED
      BY <2>1, <2>2, <3>1
  <2> QED
    BY <1>2, <2>1, <2>2
<1>4. troubles' \in 0..MaxTroubles
  <2>1. troubles \in 0..MaxTroubles /\ MaxTroubles \in Nat
    BY Types, JobsAssumption
  <2>2. troubles' = troubles \/ (troubles < MaxTroubles /\ troubles' = troubles + 1)
    BY DEF AskSqueue
  <2> QED
    BY <2>1, <2>2
<1>5. MonitorTyped'
  BY <1>1, <1>3, <1>4, Types, TypesKept DEF jobVars, sharedVars, uiVars, history
<1>6. DeletedAreOver'
  <2>1. \A j \in Jobs : Over(j) => queue'[j] = "gone" /\ answer'.jobs[j] = "gone"
    BY <1>1, <1>3 DEF Over, jobVars
  <2>2. /\ queue' = queue /\ dir' = dir /\ rows' = rows /\ prompt' = prompt /\ misled' = misled
    BY <1>1 DEF jobVars, sharedVars, uiVars, history
  <2>3. \A i \in DOMAIN rows : rows[i].job \in Jobs
    BY RowJob DEF MonitorInv, MonitorTyped
  <2>4. prompt.kind = "delete" => prompt.job \in Jobs
    BY PromptNames
  <2>5. /\ \A j \in Jobs \ misled : ~dir[j] => Over(j)
        /\ \A i \in DOMAIN rows :
              rows[i].slurm \notin ActiveStates /\ rows[i].job \notin misled => Over(rows[i].job)
        /\ prompt.kind = "delete" /\ prompt.job \notin misled => Over(prompt.job)
    BY DEF MonitorInv, DeletedAreOver
  <2>6. \A j \in Jobs \ misled' : ~dir'[j] => Over(j)'
    BY <2>1, <2>2, <2>5 DEF Over
  <2>7. \A i \in DOMAIN rows' :
           rows'[i].slurm \notin ActiveStates /\ rows'[i].job \notin misled'
             => queue'[rows'[i].job] = "gone" /\ answer'.jobs[rows'[i].job] = "gone"
    BY <2>1, <2>2, <2>3, <2>5
  <2>8. prompt'.kind = "delete" /\ prompt'.job \notin misled'
          => queue'[prompt'.job] = "gone" /\ answer'.jobs[prompt'.job] = "gone"
    BY <2>1, <2>2, <2>4, <2>5
  <2> QED
    BY <2>6, <2>7, <2>8 DEF DeletedAreOver, Over
<1>7. ShownAreTracked'
  BY <1>1 DEF MonitorInv, ShownAreTracked, jobVars, sharedVars, uiVars, history
<1>8. GatherIsCurrent'
  BY <1>1 DEF GatherIsCurrent
<1>9. ListIsComplete' /\ CursorFollowed'
  BY <1>1 DEF MonitorInv, ListIsComplete, Shown, CursorFollowed, sharedVars, uiVars, history
<1> QED
  BY <1>5, <1>6, <1>7, <1>8, <1>9 DEF MonitorInv

\* A step that leaves the jobs, the list, the question and the history alone, and answers
\* at most nothing, keeps what is over.
LEMMA OverKept ==
  ASSUME MonitorInv, UNCHANGED <<queue, dir, rows, prompt, misled>>,
         answer' = answer \/ answer' = NoAnswer
  PROVE  DeletedAreOver'
<1>1. \A j \in Jobs : Over(j) => queue'[j] = "gone" /\ answer'.jobs[j] = "gone"
  BY NoAnswerTyped DEF Over
<1>2. \A i \in DOMAIN rows : rows[i].job \in Jobs
  BY RowJob DEF MonitorInv, MonitorTyped
<1>3. prompt.kind = "delete" => prompt.job \in Jobs
  BY PromptNames
<1>4. /\ \A j \in Jobs \ misled : ~dir[j] => Over(j)
      /\ \A i \in DOMAIN rows :
            rows[i].slurm \notin ActiveStates /\ rows[i].job \notin misled => Over(rows[i].job)
      /\ prompt.kind = "delete" /\ prompt.job \notin misled => Over(prompt.job)
  BY DEF MonitorInv, DeletedAreOver
<1>5. \A j \in Jobs \ misled' : ~dir'[j] => queue'[j] = "gone" /\ answer'.jobs[j] = "gone"
  BY <1>1, <1>4
<1>6. \A i \in DOMAIN rows' :
         rows'[i].slurm \notin ActiveStates /\ rows'[i].job \notin misled'
           => queue'[rows'[i].job] = "gone" /\ answer'.jobs[rows'[i].job] = "gone"
  BY <1>1, <1>2, <1>4
<1>7. prompt'.kind = "delete" /\ prompt'.job \notin misled'
        => queue'[prompt'.job] = "gone" /\ answer'.jobs[prompt'.job] = "gone"
  BY <1>1, <1>3, <1>4
<1> QED
  BY <1>5, <1>6, <1>7 DEF DeletedAreOver, Over

\* A deleted job that squeue still lists would be tracked again: it is one that was taken
\* for over too early.
LEMMA TrackKeeps ==
  ASSUME MonitorInv, Track, live
  PROVE  MonitorInv'
<1>1. /\ UNCHANGED <<jobVars, answer, troubles, rows, loading, uiVars, history>>
      /\ fetch' = "look" /\ oddSeen' = (oddSeen \/ answer.odd)
      /\ tracked' = tracked \cup {j \in Jobs : answer.jobs[j] # "gone"}
      /\ ids' = tracked' \cup (IF answer.all THEN {j \in Jobs : dir[j]} ELSE {})
  BY DEF Track
<1>2. tracked' \subseteq Jobs /\ ids' \subseteq Jobs /\ oddSeen' \in BOOLEAN
  BY <1>1, Types
<1>3. MonitorTyped'
  BY <1>1, <1>2, Types, TypesKept DEF jobVars, uiVars, history
<1>4. DeletedAreOver'
  BY <1>1, OverKept DEF jobVars, uiVars, history
<1>5. ShownAreTracked'
  <2>1. \A j \in tracked' \ misled : dir[j]
    <3>1. ASSUME NEW j \in Jobs \ misled, answer.jobs[j] # "gone" PROVE dir[j]
      BY <3>1 DEF MonitorInv, DeletedAreOver, Over
    <3> QED
      BY <1>1, <3>1 DEF MonitorInv, ShownAreTracked
  <2>2. known \ misled \subseteq tracked'
    BY <1>1 DEF MonitorInv, ShownAreTracked
  <2>3. /\ misled' = misled /\ known' = known /\ dir' = dir /\ live' = live
    BY <1>1 DEF jobVars, uiVars, history
  <2> QED
    BY <2>1, <2>2, <2>3 DEF ShownAreTracked
<1>6. GatherIsCurrent'
  BY <1>1 DEF GatherIsCurrent
<1>7. ListIsComplete' /\ CursorFollowed'
  BY <1>1 DEF MonitorInv, ListIsComplete, Shown, CursorFollowed, uiVars, history
<1> QED
  BY <1>3, <1>4, <1>5, <1>6, <1>7 DEF MonitorInv

\* The list published has every job that was shown and is not taken for over too early.
LEMMA PublishKeeps ==
  ASSUME MonitorInv, Publish, live
  PROVE  MonitorInv'
<1>1. /\ fetch = "look" /\ fetch' = "wait" /\ loading' = FALSE
      /\ answer' = NoAnswer /\ ids' = {}
      /\ UNCHANGED <<jobVars, troubles, tracked, oddSeen, uiVars>>
  BY DEF Publish
<1>2. /\ queue' = queue /\ dir' = dir /\ rest' = rest /\ log' = log /\ prompt' = prompt /\ saved' = saved
      /\ live' = live /\ screen' = screen
      /\ sel' = sel /\ scroll' = scroll /\ all' = all
  BY <1>1 DEF jobVars, uiVars
<1>3. GatherIsCurrent'
  BY <1>1 DEF GatherIsCurrent
<1>4. CursorFollowed'
  BY <1>2 DEF MonitorInv, CursorFollowed
<1>5. CASE oddSeen
  <2>1. rows' = rows /\ known' = known /\ misled' = misled
    BY <1>5 DEF Publish, history
  <2>2. MonitorTyped'
    BY <1>1, <1>2, <2>1, Types, TypesKept, NoAnswerTyped
  <2>3. DeletedAreOver'
    BY <1>1, <1>2, <2>1, OverKept
  <2>4. ShownAreTracked' /\ ListIsComplete'
    BY <1>1, <1>2, <1>5, <2>1 DEF MonitorInv, ShownAreTracked, ListIsComplete
  <2> QED
    BY <1>3, <1>4, <2>2, <2>3, <2>4 DEF MonitorInv
<1>6. CASE ~oddSeen
  <2>1. /\ rows' = Rows(ids, answer.jobs)
        /\ known' = known \cup {j \in ids : answer.jobs[j] \in ActiveStates}
        /\ misled' = misled \cup {j \in ids : /\ answer.jobs[j] \notin ActiveStates
                                            /\ {answer.jobs[j], queue[j]} # {"gone"}}
    BY <1>6 DEF Publish
  <2>2. LogsTyped /\ ids \in SUBSET Jobs /\ answer.jobs \in [Jobs -> QueueStates]
    BY Types DEF MonitorInv, MonitorTyped
  <2>3. /\ rows' \in Seq(RowType) /\ Len(rows') <= Cardinality(Jobs)
        /\ \A i, k \in DOMAIN rows' : rows'[i].job = rows'[k].job => i = k
        /\ {rows'[i].job : i \in DOMAIN rows'} = ids
        /\ \A i \in DOMAIN rows' : /\ rows'[i].job \in ids
                                  /\ (rows'[i].slurm \in ActiveStates
                                       <=> answer.jobs[rows'[i].job] \in ActiveStates)
    <3> DEFINE listed == answer.jobs
               which == ids
    <3>1. PICK list : list = Rows(which, listed)
      OBVIOUS
    <3>2. rows' = list
      BY <2>1, <3>1
    <3>3. which \in SUBSET Jobs /\ listed \in [Jobs -> QueueStates]
      BY <2>2
    <3> HIDE DEF which, listed
    <3>4. /\ list \in Seq(RowType) /\ Len(list) <= Cardinality(Jobs)
          /\ \A i, k \in DOMAIN list : list[i].job = list[k].job => i = k
          /\ {list[i].job : i \in DOMAIN list} = which
          /\ \A i \in DOMAIN list : /\ list[i].job \in which
                                   /\ (list[i].slurm \in ActiveStates
                                        <=> listed[list[i].job] \in ActiveStates)
      BY <2>2, <3>1, <3>3, ListOfRows
    <3> QED
      BY <3>2, <3>4 DEF which, listed
  <2>4. RowsTyped'
    BY <2>3 DEF RowsTyped
  <2>5. known' \subseteq Jobs /\ misled' \subseteq Jobs
    BY <2>1, Types
  <2>6. LogsTyped'
    BY <1>1, <1>2, <2>2, NoAnswerTyped DEF LogsTyped
  <2>7. (rows \in Seq(RowType) /\ IsInjective([i \in DOMAIN rows |-> rows[i].job]))'
    BY <2>4 DEF RowsTyped, IsInjective
  <2>8. TypeOK'
    <3>1. /\ queue' \in [Jobs -> QueueStates] /\ dir' \in [Jobs -> BOOLEAN]
          /\ answer'.jobs \in [Jobs -> QueueStates]
      BY <2>6 DEF LogsTyped
    <3>2. /\ fetch' \in {"ask", "track", "look", "wait"} /\ troubles' \in 0..MaxTroubles
          /\ ids' \subseteq Jobs /\ tracked' \subseteq Jobs /\ saved' \subseteq Jobs
          /\ sel' \in 0..AtLeast(1, Cardinality(Jobs)) /\ scroll' \in Nat /\ prompt' \in Prompts
          /\ {loading', live', all', oddSeen'} \subseteq BOOLEAN
      BY <1>1, <1>2, Types
    <3> QED
      BY <2>5, <2>7, <3>1, <3>2 DEF TypeOK
  <2>9. DeletedAreOver'
    <3>1. ASSUME NEW j \in Jobs \ misled', ~dir'[j]
          PROVE  queue'[j] = "gone" /\ answer'.jobs[j] = "gone"
      <4>1. Over(j)
        BY <1>2, <2>1, <3>1 DEF MonitorInv, DeletedAreOver
      <4> QED
        BY <1>1, <1>2, <4>1, NoAnswerTyped DEF Over
    <3>2. ASSUME NEW i \in DOMAIN rows', rows'[i].slurm \notin ActiveStates, rows'[i].job \notin misled'
          PROVE  queue'[rows'[i].job] = "gone" /\ answer'.jobs[rows'[i].job] = "gone"
      <4>1. rows'[i].job \in ids /\ answer.jobs[rows'[i].job] \notin ActiveStates /\ rows'[i].job \in Jobs
        BY <2>2, <2>3, <3>2
      <4>2. {answer.jobs[rows'[i].job], queue[rows'[i].job]} = {"gone"}
        BY <2>1, <3>2, <4>1
      <4>3. queue[rows'[i].job] = "gone"
        BY <4>2
      <4> QED
        BY <1>1, <1>2, <4>1, <4>3, NoAnswerTyped
    <3>3. ASSUME prompt'.kind = "delete", prompt'.job \notin misled'
          PROVE  queue'[prompt'.job] = "gone" /\ answer'.jobs[prompt'.job] = "gone"
      <4>1. prompt.kind = "delete" /\ prompt.job \notin misled /\ prompt'.job = prompt.job
        BY <1>2, <2>1, <3>3
      <4>2. prompt.job \in Jobs /\ Over(prompt.job)
        BY <4>1, PromptNames DEF MonitorInv, DeletedAreOver
      <4> QED
        BY <1>1, <1>2, <4>1, <4>2, NoAnswerTyped DEF Over
    <3> QED
      BY <3>1, <3>2, <3>3 DEF DeletedAreOver, Over
  <2>10. known' \ misled' \subseteq tracked
    <3>1. ASSUME NEW j \in ids, answer.jobs[j] \in ActiveStates, j \notin misled PROVE j \in tracked
      <4>1. answer.jobs[j] # "gone" /\ j \in Jobs
        BY <2>2, <3>1 DEF ActiveStates
      <4> QED
        BY <1>1, <3>1, <4>1 DEF MonitorInv, GatherIsCurrent
    <3>2. known \ misled \subseteq tracked
      BY DEF MonitorInv, ShownAreTracked
    <3> QED
      BY <2>1, <3>1, <3>2
  <2>11. ShownAreTracked'
    <3>1. \A j \in tracked \ misled' : dir[j]
      BY <2>1 DEF MonitorInv, ShownAreTracked
    <3> QED
      BY <1>1, <1>2, <2>10, <3>1 DEF ShownAreTracked
  <2>12. ListIsComplete'
    <3>1. tracked \subseteq ids
      BY <1>1 DEF MonitorInv, GatherIsCurrent
    <3>2. Shown' = ids
      BY <2>3 DEF Shown
    <3> QED
      BY <2>10, <3>1, <3>2 DEF ListIsComplete
  <2> QED
    BY <1>3, <1>4, <2>4, <2>6, <2>8, <2>9, <2>11, <2>12 DEF MonitorInv, MonitorTyped
<1>7. oddSeen \in BOOLEAN
  BY Types
<1> QED
  BY <1>5, <1>6, <1>7

-----------------------------------------------------------------------------
(* The questions and the sessions                                          *)

\* The question to delete a job stands for a row that shows it as over.
LEMMA AskKeeps ==
  ASSUME MonitorInv, Ask
  PROVE  MonitorInv'
<1>1. /\ UNCHANGED <<jobVars, fetchVars, sharedVars, live, all, sel, scroll, screen, saved, history>>
      /\ sel \in DOMAIN rows
      /\ prompt' = [kind |-> IF rows[sel].slurm \in ActiveStates THEN "cancel" ELSE "delete",
                    job |-> rows[sel].job]
  BY DEF Ask, OnRow
<1>2. rows[sel].job \in Jobs
  BY <1>1, RowJob DEF MonitorInv, MonitorTyped
<1>3. prompt' \in Prompts
  BY <1>1, <1>2 DEF Prompts
<1>4. MonitorTyped'
  BY <1>1, <1>3, Types, TypesKept DEF jobVars, fetchVars, sharedVars, history
<1>5. DeletedAreOver'
  <2>1. /\ queue' = queue /\ dir' = dir /\ answer' = answer /\ rows' = rows /\ misled' = misled
    BY <1>1 DEF jobVars, fetchVars, sharedVars, history
  <2>2. /\ \A j \in Jobs \ misled : ~dir[j] => Over(j)
        /\ \A i \in DOMAIN rows :
              rows[i].slurm \notin ActiveStates /\ rows[i].job \notin misled => Over(rows[i].job)
    BY DEF MonitorInv, DeletedAreOver
  <2>3. prompt'.kind = "delete" => prompt'.job = rows[sel].job /\ rows[sel].slurm \notin ActiveStates
    BY <1>1
  <2>4. \A j \in Jobs : Over(j) => queue'[j] = "gone" /\ answer'.jobs[j] = "gone"
    BY <2>1 DEF Over
  <2>5. prompt'.kind = "delete" /\ prompt'.job \notin misled'
          => queue'[prompt'.job] = "gone" /\ answer'.jobs[prompt'.job] = "gone"
    BY <1>1, <1>2, <2>1, <2>2, <2>3, <2>4
  <2> QED
    BY <2>1, <2>2, <2>5 DEF DeletedAreOver, Over
<1>6. ShownAreTracked' /\ GatherIsCurrent' /\ ListIsComplete' /\ CursorFollowed'
  BY <1>1 DEF MonitorInv, ShownAreTracked, GatherIsCurrent, ListIsComplete, Shown, CursorFollowed,
              jobVars, fetchVars, sharedVars, history
<1> QED
  BY <1>4, <1>5, <1>6 DEF MonitorInv

\* A job that is deleted is over, or was taken for over: no answer in hand brings it back.
LEMMA ConfirmDeleteKeeps ==
  ASSUME MonitorInv, ConfirmDelete, live
  PROVE  MonitorInv'
<1>1. /\ UNCHANGED <<queue, rest, log, fetchVars, oddSeen, rows, loading, live, all, scroll,
                     screen, saved, misled>>
      /\ prompt.kind = "delete" /\ prompt' = NoPrompt
      /\ dir' = [dir EXCEPT ![prompt.job] = FALSE]
      /\ tracked' = tracked \ {prompt.job} /\ known' = known \ {prompt.job}
      /\ sel' = AtLeast(1, sel - 1)
  BY DEF ConfirmDelete
<1>2. prompt.job \in Jobs
  BY <1>1, PromptNames
<1>3. /\ dir' \in [Jobs -> BOOLEAN] /\ tracked' \subseteq Jobs /\ known' \subseteq Jobs /\ prompt' \in Prompts
  BY <1>1, Types DEF Prompts
<1>4. sel' \in 0..AtLeast(1, Cardinality(Jobs))
  BY <1>1, Types, JobsCounted DEF AtLeast
<1>5. MonitorTyped'
  BY <1>1, <1>3, <1>4, Types, TypesKept DEF fetchVars
<1>6. /\ \A j \in Jobs \ misled : ~dir[j] => Over(j)
      /\ \A i \in DOMAIN rows :
            rows[i].slurm \notin ActiveStates /\ rows[i].job \notin misled => Over(rows[i].job)
      /\ prompt.job \notin misled => Over(prompt.job)
  BY <1>1 DEF MonitorInv, DeletedAreOver
<1>7. \A j \in Jobs : j # prompt.job => dir'[j] = dir[j]
  BY <1>1, <1>2, Types
<1>8. DeletedAreOver'
  <2>1. /\ queue' = queue /\ answer' = answer /\ rows' = rows /\ misled' = misled
    BY <1>1 DEF fetchVars
  <2>2. \A j \in Jobs \ misled : ~dir'[j] => Over(j)
    BY <1>6, <1>7
  <2>3. prompt'.kind # "delete"
    BY <1>1 DEF NoPrompt
  <2> QED
    BY <1>6, <2>1, <2>2, <2>3 DEF DeletedAreOver, Over
<1>9. ShownAreTracked'
  BY <1>1, <1>3, <1>7, Types DEF MonitorInv, ShownAreTracked
<1>10. GatherIsCurrent'
  <2>1. fetch' = fetch /\ ids' = ids /\ answer' = answer
    BY <1>1 DEF fetchVars
  <2>2. ASSUME NEW j \in Jobs \ misled, answer.jobs[j] # "gone" PROVE j # prompt.job
    BY <1>6, <2>2 DEF Over
  <2> QED
    BY <1>1, <2>1, <2>2 DEF MonitorInv, GatherIsCurrent
<1>11. ListIsComplete' /\ CursorFollowed'
  BY <1>1 DEF MonitorInv, ListIsComplete, Shown, CursorFollowed
<1> QED
  BY <1>5, <1>8, <1>9, <1>10, <1>11 DEF MonitorInv

LEMMA QuitKeeps ==
  ASSUME MonitorInv, Quit
  PROVE  MonitorInv'
<1>1. /\ UNCHANGED <<jobVars, fetchVars, sharedVars, all, sel, scroll, prompt, screen, history>>
      /\ live /\ live' = FALSE /\ saved' = tracked
  BY DEF Quit, SaveSession, Key
<1>2. MonitorTyped'
  BY <1>1, Types, TypesKept DEF jobVars, fetchVars, sharedVars, history
<1>3. DeletedAreOver'
  BY <1>1, OverKept DEF jobVars, fetchVars, sharedVars, history
<1>4. ShownAreTracked' /\ GatherIsCurrent' /\ ListIsComplete' /\ CursorFollowed'
  BY <1>1 DEF MonitorInv, ShownAreTracked, GatherIsCurrent, ListIsComplete, Shown, CursorFollowed,
              jobVars, fetchVars, sharedVars, history
<1> QED
  BY <1>2, <1>3, <1>4 DEF MonitorInv

LEMMA ResumeKeeps ==
  ASSUME MonitorInv, Resume
  PROVE  MonitorInv'
<1>1. /\ UNCHANGED <<jobVars, troubles, oddSeen, saved, history>>
      /\ ~live /\ live' = TRUE /\ tracked' = saved /\ rows' = <<>> /\ loading' = TRUE
      /\ fetch' = "ask" /\ answer' = NoAnswer /\ ids' = {} /\ all' = ShowAll
      /\ sel' = 1 /\ scroll' = 0 /\ prompt' = NoPrompt /\ screen' = "blank"
  BY DEF Resume, LoadSession
<1>2. /\ queue' = queue /\ dir' = dir /\ rest' = rest /\ log' = log /\ known' = known /\ misled' = misled
  BY <1>1 DEF jobVars, history
<1>3. /\ rows' \in Seq(RowType) /\ Len(rows') <= Cardinality(Jobs)
      /\ \A i, k \in DOMAIN rows' : rows'[i].job = rows'[k].job => i = k
      /\ DOMAIN rows' = {}
  BY <1>1, EmptyRows
<1>4. RowsTyped'
  BY <1>3 DEF RowsTyped
<1>5. (rows \in Seq(RowType) /\ IsInjective([i \in DOMAIN rows |-> rows[i].job]))'
  BY <1>4 DEF RowsTyped, IsInjective
<1>6. LogsTyped'
  BY <1>1, <1>2, NoAnswerTyped DEF MonitorInv, MonitorTyped, LogsTyped
<1>7. TypeOK'
  <2>1. /\ queue' \in [Jobs -> QueueStates] /\ dir' \in [Jobs -> BOOLEAN]
        /\ answer'.jobs \in [Jobs -> QueueStates]
    BY <1>6 DEF LogsTyped
  <2>2. sel' \in 0..AtLeast(1, Cardinality(Jobs)) /\ scroll' \in Nat /\ prompt' \in Prompts
    BY <1>1, JobsCounted DEF AtLeast, Prompts
  <2>3. /\ fetch' \in {"ask", "track", "look", "wait"} /\ troubles' \in 0..MaxTroubles
        /\ ids' \subseteq Jobs /\ tracked' \subseteq Jobs /\ saved' \subseteq Jobs
        /\ known' \subseteq Jobs /\ misled' \subseteq Jobs
        /\ {loading', live', all', oddSeen'} \subseteq BOOLEAN
    BY <1>1, <1>2, Types, JobsAssumption
  <2> QED
    BY <1>5, <2>1, <2>2, <2>3 DEF TypeOK
<1>8. DeletedAreOver'
  <2>1. \A j \in Jobs \ misled' : ~dir'[j] => queue'[j] = "gone" /\ answer'.jobs[j] = "gone"
    BY <1>1, <1>2, NoAnswerTyped DEF MonitorInv, DeletedAreOver, Over
  <2>2. prompt'.kind # "delete"
    BY <1>1 DEF NoPrompt
  <2> QED
    BY <1>3, <2>1, <2>2 DEF DeletedAreOver, Over
<1>9. ShownAreTracked'
  BY <1>1, <1>2 DEF MonitorInv, ShownAreTracked
<1>10. GatherIsCurrent' /\ ListIsComplete' /\ CursorFollowed'
  BY <1>1 DEF GatherIsCurrent, ListIsComplete, CursorFollowed
<1> QED
  BY <1>4, <1>6, <1>7, <1>8, <1>9, <1>10 DEF MonitorInv, MonitorTyped

LEMMA StutterKeeps ==
  ASSUME MonitorInv, UNCHANGED vars
  PROVE  MonitorInv'
<1>1. LogsTyped' /\ dir' = dir /\ \A j \in Jobs : queue[j] = "gone" => queue'[j] = "gone"
  BY LogsKept DEF vars, fetchVars
<1>2. /\ sel \in 0..AtLeast(1, Cardinality(Jobs)) /\ scroll \in Nat /\ all \in BOOLEAN /\ CursorFollowed
  BY Types DEF MonitorInv
<1> QED
  BY <1>1, <1>2, Frame DEF vars, fetchVars, uiVars, CursorFollowed

LEMMA StepKeeps == MonitorInv /\ [Next]_vars => MonitorInv'
<1> SUFFICES ASSUME MonitorInv, [Next]_vars PROVE MonitorInv'
  OBVIOUS
<1>1. CASE Slurm
  BY <1>1, SlurmKeeps
<1>2. CASE Fetch
  <2>1. live /\ (AskSqueue \/ Track \/ Publish \/ Wake)
    BY <1>2 DEF Fetch
  <2> QED
    BY <2>1, AskSqueueKeeps, TrackKeeps, PublishKeeps, WakeKeeps
<1>3. CASE Main
  <2>1. ConfirmDelete => live
    BY DEF ConfirmDelete, Key
  <2> QED
    BY <1>3, <2>1, RenderKeeps, MoveKeeps, ToggleAllKeeps, AskKeeps, DeclineKeeps,
       ConfirmCancelKeeps, ConfirmDeleteKeeps, QuitKeeps, ResumeKeeps DEF Main
<1>4. CASE UNCHANGED vars
  BY <1>4, StutterKeeps
<1> QED
  BY <1>1, <1>2, <1>3, <1>4 DEF Next

\* The inductive invariant of jobs, fetch thread, screen, keys and sessions.
THEOREM MonitorInvariant == Spec => []MonitorInv
<1>1. Init => MonitorInv
  BY InitEstablishes
<1>2. MonitorInv /\ [Next]_vars => MonitorInv'
  BY StepKeeps
<1> QED
  BY <1>1, <1>2, PTL DEF Spec

\* For any jobs, heights, screen, number of keys, sessions and failed calls of squeue: the
\* list published is well formed, it has every job it ever showed as active until the user
\* deletes it, and the screen has the cursor's row on it.
THEOREM DashboardIsSound == Spec => []DashboardSound
<1>1. MonitorInv => DashboardSound
  <2> SUFFICES ASSUME MonitorInv PROVE DashboardSound
    OBVIOUS
  <2>1. TypeOK /\ CursorFollowed
    BY DEF MonitorInv, MonitorTyped
  <2>2. TrackingExact
    BY DEF MonitorInv, ListIsComplete, ShownAreTracked, TrackingExact
  <2> QED
    BY <2>1, <2>2 DEF DashboardSound
<1> QED
  BY <1>1, MonitorInvariant, PTL

-----------------------------------------------------------------------------
(* What a confirmed key does                                               *)

\* Output is deleted by no other step.
LEMMA OnlyDeleteDeletes == Next => dir' = dir \/ ConfirmDelete
<1> SUFFICES ASSUME Next PROVE dir' = dir \/ ConfirmDelete
  OBVIOUS
<1>1. CASE Slurm
  BY <1>1 DEF Slurm, Starts, Waits, Writes, Finishes, TimesOut, Leaves
<1>2. CASE Fetch
  BY <1>2 DEF Fetch, AskSqueue, Track, Publish, Wake, jobVars
<1>3. CASE Render \/ Move \/ ToggleAll \/ Ask \/ Decline
  BY <1>3 DEF Render, Move, ToggleAll, Ask, Decline, jobVars
<1>4. CASE ConfirmCancel \/ Quit \/ Resume
  BY <1>4 DEF ConfirmCancel, Quit, Resume, jobVars
<1> QED
  BY <1>1, <1>2, <1>3, <1>4 DEF Next, Main

LEMMA DeletesThePrompt ==
  ASSUME MonitorInv, [Next]_vars, NEW j \in Jobs, dir[j], ~dir'[j]
  PROVE  prompt.kind = "delete" /\ prompt.job = j /\ prompt = [kind |-> "delete", job |-> j]
<1>1. dir' # dir
  OBVIOUS
<1>2. ConfirmDelete
  <2>1. vars' = vars => dir' = dir
    BY DEF vars, jobVars
  <2> QED
    BY <1>1, <2>1, OnlyDeleteDeletes
<1>3. prompt.kind = "delete" /\ dir' = [dir EXCEPT ![prompt.job] = FALSE]
  BY <1>2 DEF ConfirmDelete
<1>4. prompt.job = j
  BY <1>3, Types
<1> QED
  BY <1>3, <1>4, PromptNames

LEMMA CancelsThePrompt ==
  ASSUME MonitorInv, NEW j \in Jobs, ConfirmCancel, queue'[j] # queue[j]
  PROVE  prompt = [kind |-> "cancel", job |-> j]
<1>1. prompt.kind = "cancel"
  BY DEF ConfirmCancel
<1>2. queue' = queue \/ \E as \in QueueStates : queue' = [queue EXCEPT ![prompt.job] = as]
  BY DEF ConfirmCancel, CutShort, QueueStates
<1>3. prompt.job = j
  BY <1>2, Types
<1> QED
  BY <1>1, <1>3, PromptNames

\* A job is cancelled or its output deleted only by the key that answers the question that
\* names it, and a job whose output is deleted is over, or was taken for over by a list
\* published while squeue failed or listed it (_execute), for any jobs and number of keys.
THEOREM ConfirmedIsSound == Spec => ConfirmedSound
<1>1. MonitorInv /\ [Next]_vars =>
        [\A j \in Jobs :
            /\ dir[j] /\ ~dir'[j] => prompt = [kind |-> "delete", job |-> j]
            /\ ConfirmCancel /\ queue'[j] # queue[j] => prompt = [kind |-> "cancel", job |-> j]]_vars
  BY DeletesThePrompt, CancelsThePrompt
<1>2. MonitorInv /\ [Next]_vars =>
        [\A j \in Jobs : dir[j] /\ ~dir'[j] => queue[j] \notin LiveStates \/ j \in misled]_vars
  <2> SUFFICES ASSUME MonitorInv, [Next]_vars, NEW j \in Jobs, dir[j], ~dir'[j], j \notin misled
               PROVE  queue[j] \notin LiveStates
    OBVIOUS
  <2>1. prompt.kind = "delete" /\ prompt.job = j
    BY DeletesThePrompt
  <2>2. Over(j)
    BY <2>1 DEF MonitorInv, DeletedAreOver
  <2> QED
    BY <2>2 DEF Over, LiveStates, ActiveStates
<1>3. Spec => ConfirmedAsShown
  BY <1>1, MonitorInvariant, PTL DEF Spec, ConfirmedAsShown
<1>4. Spec => DeletesOnlyEnded
  BY <1>2, MonitorInvariant, PTL DEF Spec, DeletesOnlyEnded
<1> QED
  BY <1>3, <1>4 DEF ConfirmedSound
===============================================================================
