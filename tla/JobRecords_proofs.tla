-------------------------- MODULE JobRecords_proofs --------------------------
(* What is recorded, reported and uploaded of a job agrees.                   *)
EXTENDS JobRecords, FiniteSetTheorems, TLAPS

-----------------------------------------------------------------------------
(* The invariant                                                           *)

Steps == Reports \cup
    {"queued", "snapshot", "metadata", "replace", "lock", "infra", "launch", "front", "waiting", "verify",
     "serving", "running", "evaluating", "cleanup", "copy", "rollup", "lock2", "compare", "metrics",
     "ruter", "dashboard", "upload", "uploading", "analysis", "analyzing", "over"}

Places == {"off", "open", "over"}

\* The shape of the state.
Shape ==
    /\ job \in Jobs /\ pc \in Steps
    /\ code \in {0, 1} /\ trouble \in 0..job.max_trouble
    /\ post \in 0..Len(Endpoints(job))
    /\ IF pc \in Reports THEN put \in 0..Len(Endpoints(job)) ELSE put = 0
    /\ sent \in Seq([step : Reports, status : DOMAIN Rank])
    /\ capturing \in [DOMAIN job.processes -> Places]
    /\ \A w \in DOMAIN prints : prints[w].kind = "whole" <=> prints[w].print # None

\* What post-processing waits for.
Tools == {"running", "exited"}
Uploads == {"installing", "parsing", "syncing", "syncing raw", "exit 0", "exit 20", "exit 11"}
Children ==
    /\ child \in {"none"} \cup Tools \cup Uploads
    /\ child \in Tools => pc \in {"rollup", "metrics", "analyzing"}
    /\ child \in Uploads => pc = "uploading"

\* srtctl is behind its last writing of the metadata when somebody can read them.
Metadata ==
    /\ files \in [config : BOOLEAN, metadata : {"absent", "torn", "whole", "with_cpus"}]
    /\ files.metadata \in {"whole", "with_cpus"} => sub \notin {"config", "metadata", "dump"}
    /\ pc = "replace" => files.metadata \in {"whole", "with_cpus"}

\* No status reported so far ranks higher than the step allows.
Level(step) ==
    CASE step \in {"queued", "snapshot", "metadata", "replace", "started", "lock", "head", "infra",
                   "workers"} -> 1
      [] step \in {"launch", "frontend"} -> 2
      [] step \in {"front", "waiting", "verify", "ready", "serving", "benchmark", "eval_only"} -> 3
      [] step \in {"running", "post_eval", "evaluating"} -> 4
      [] OTHER -> 5

AfterCleanup == {"cleanup", "copy", "rollup", "lock2", "compare", "metrics", "ruter", "dashboard", "upload",
            "uploading", "artifacts", "analysis", "analyzing", "final", "over"}
Failing == {"unhealthy", "blocked", "raised"}

Stated == {n \in DOMAIN sent : sent[n].step # "artifacts"}

Levels ==
    /\ pc \in Failing => code = 1
    /\ \A n \in Stated :
         /\ Rank[sent[n].status] <= Level(pc)
         /\ sent[n].status = "failed" => code = 1 /\ pc \in AfterCleanup

\* A message has the address of the logs only if there is one, and the last has what there is.
Meant(m) ==
    /\ Told(m) => url # None
    /\ m.code # None => m.url = url /\ pc \in {"final", "over"}

Messages ==
    /\ \A e \in DOMAIN seen : \A m \in seen[e] : Meant(m)
    /\ \A r \in late : Meant(r[2])

\* The address is known when all that is in the directory has been uploaded.
Uploaded ==
    /\ logs \subseteq LogNames
    /\ child \in {"exit 0", "exit 20"} => s3 = logs
    /\ url # None => s3 = logs /\ pc \in {"artifacts", "analysis", "analyzing", "final", "over"}

\* Fingerprints are written while workers run, and no more once they have been looked at.
AllOver == \A p \in DOMAIN capturing : capturing[p] = "over"
Compared == {"metrics", "ruter", "dashboard", "upload", "uploading", "artifacts", "analysis", "analyzing",
             "final", "over"}

Looked ==
    /\ \A p \in DOMAIN capturing : capturing[p] = "open" => WorkersRun \/ pc = "launch"
    /\ pc = "verify" => AllOver
    /\ checks # None => AllOver /\ checks = verify_identity(job.identity, Collected)
    /\ issues # None => /\ pc \in Compared
                        /\ job.previous # None /\ issues = ReproductionIssues(job.previous, Collected)

RecordsInv == /\ Shape /\ Children /\ Metadata /\ StatusForward /\ Levels /\ Messages /\ Uploaded
              /\ Looked /\ VerifiedIsRecorded

-----------------------------------------------------------------------------
(* The operators                                                           *)

LEMMA EndpointCount ==
    ASSUME NEW j \in Jobs
    PROVE  Len(Endpoints(j)) \in Nat
<1> DEFINE all == Urls(j.reporting)
           first == {i \in DOMAIN all : \A k \in 1..(i - 1) : all[k] # all[i]}
<1>1. \E n \in Nat : DOMAIN all = 1..n
  <2> DEFINE r == j.reporting
             own == IF r.endpoint = None THEN <<>> ELSE <<rstrip(r.endpoint)>>
             more == [i \in DOMAIN r.endpoints |-> rstrip(r.endpoints[i])]
  <2>1. r.endpoint \in {None} \cup Url /\ r.endpoints \in Seq(Url)
    BY JobsAssumption
  <2>2. own \in Seq(STRING)
    <3>1. CASE r.endpoint = None
      BY <3>1
    <3>2. CASE r.endpoint # None
      <4>1. rstrip(r.endpoint) \in STRING
        BY <2>1, <3>2 DEF rstrip, Url
      <4>2. own = <<rstrip(r.endpoint)>>
        BY <3>2
      <4> QED
        BY <4>1, <4>2
    <3> QED
      BY <3>1, <3>2
  <2>3. more \in Seq(STRING)
    <3>1. \A i \in DOMAIN r.endpoints : rstrip(r.endpoints[i]) \in STRING
      <4>1. \A i \in DOMAIN r.endpoints : r.endpoints[i] \in Url
        BY <2>1
      <4> QED
        BY <4>1 DEF rstrip, Url
    <3>2. Len(r.endpoints) \in Nat /\ DOMAIN r.endpoints = 1..Len(r.endpoints)
      BY <2>1
    <3> QED
      BY <3>1, <3>2
  <2>4. own \o more \in Seq(STRING)
    BY <2>2, <2>3
  <2>5. all = own \o more
    BY DEF Urls
  <2> HIDE DEF own, more, all
  <2> QED
    BY <2>4, <2>5
<1>2. IsFiniteSet(first)
  <2>1. PICK n \in Nat : DOMAIN all = 1..n
    BY <1>1
  <2>2. IsFiniteSet(1..n)
    BY <2>1, FS_Interval
  <2>3. first \subseteq 1..n
    BY <2>1
  <2> QED
    BY <2>2, <2>3, FS_Subset
<1>3. Cardinality(first) \in Nat
  BY <1>2, FS_CardinalityType
<1>4. Endpoints(j) = [n \in 1..Cardinality(first) |->
                        all[CHOOSE i \in first : Cardinality({k \in first : k <= i}) = n]]
  BY DEF Endpoints
<1> HIDE DEF all, first
<1> QED
  BY <1>3, <1>4

LEMMA Ranks ==
    /\ DOMAIN Rank = {"starting", "workers", "frontend", "benchmark", "completed", "failed"}
    /\ Rank["starting"] = 1 /\ Rank["workers"] = 2 /\ Rank["frontend"] = 3
    /\ Rank["benchmark"] = 4 /\ Rank["completed"] = 5 /\ Rank["failed"] = 5
BY DEF Rank

LEMMA Prepared ==
    /\ AfterPreparing("copy") = "rollup" /\ AfterPreparing("rollup") = "lock2"
    /\ AfterPreparing("lock2") = "compare" /\ AfterPreparing("compare") = "metrics"
    /\ AfterPreparing("metrics") = "ruter" /\ AfterPreparing("ruter") = "dashboard"
    /\ AfterPreparing("dashboard") = "upload"
<1> DEFINE Place(step) == CHOOSE i \in DOMAIN Preparation : Preparation[i] = step
<1>1. DOMAIN Preparation = 1..8
  BY DEF Preparation
<1>2. /\ Preparation[1] = "copy" /\ Preparation[2] = "rollup" /\ Preparation[3] = "lock2"
      /\ Preparation[4] = "compare" /\ Preparation[5] = "metrics" /\ Preparation[6] = "ruter"
      /\ Preparation[7] = "dashboard" /\ Preparation[8] = "upload"
  BY DEF Preparation
<1>3. \A n \in 1..8 : Place(Preparation[n]) = n
  <2> SUFFICES ASSUME NEW n \in 1..8 PROVE Place(Preparation[n]) = n
    OBVIOUS
  <2>1. \A i \in 1..8 : Preparation[i] = Preparation[n] => i = n
    BY <1>2
  <2> QED
    BY <1>1, <2>1
<1>4. \A step : AfterPreparing(step) = Preparation[Place(step) + 1]
  BY DEF AfterPreparing
<1>5. \A n \in 1..7 : AfterPreparing(Preparation[n]) = Preparation[n + 1]
  <2> SUFFICES ASSUME NEW n \in 1..7 PROVE AfterPreparing(Preparation[n]) = Preparation[n + 1]
    OBVIOUS
  <2>1. Place(Preparation[n]) = n
    BY <1>3
  <2> HIDE DEF Place
  <2> QED
    BY <1>4, <2>1
<1> HIDE DEF Place
<1>6. /\ Preparation[1 + 1] = "rollup" /\ Preparation[2 + 1] = "lock2" /\ Preparation[3 + 1] = "compare"
      /\ Preparation[4 + 1] = "metrics" /\ Preparation[5 + 1] = "ruter" /\ Preparation[6 + 1] = "dashboard"
      /\ Preparation[7 + 1] = "upload"
  BY <1>2
<1> QED
  BY <1>2, <1>5, <1>6

\* The steps with which something is reported, and what follows them.
LEMMA Afterwards ==
    ASSUME NEW step \in Reports
    PROVE  /\ AfterReport(step) \in Steps \ Reports
           /\ Report(step).status \in DOMAIN Rank
BY Ranks DEF Reports, AfterReport, Steps, Report, Message

-----------------------------------------------------------------------------
(* What an action may change                                               *)

LEMMA SubmitFrame ==
    ASSUME Submit
    PROVE  /\ UNCHANGED <<job, pc, put, sent, capturing, prints, checks, snapshot, lock, issues,
                          logs, child, s3, url, code>>
           /\ trouble' = trouble \/ Trouble
BY DEF Submit, submitStays, workerVars, recordVars, uploadVars, WriteConfig, OpenMetadata, DumpMetadata,
       CreateJobRecord, Request, Submitted, SubmitFails

LEMMA ArrivesFrame ==
    ASSUME Arrives
    PROVE  UNCHANGED <<job, sub, post, files, pc, put, sent, capturing, prints, checks, snapshot, lock,
                       issues, logs, child, s3, url, code, trouble>>
BY DEF Arrives, submitVars, workerVars, recordVars, uploadVars

LEMMA PutFrame ==
    ASSUME Put
    PROVE  /\ UNCHANGED <<job, sub, post, files, pc, sent, capturing, prints, checks, snapshot, lock,
                          issues, logs, child, s3, url, code>>
           /\ trouble' = trouble \/ Trouble
BY DEF Put, Request, submitVars, workerVars, recordVars, uploadVars

LEMMA ReportedFrame ==
    ASSUME Reported
    PROVE  UNCHANGED <<job, sub, post, files, seen, late, capturing, prints, checks, snapshot, lock,
                       issues, logs, child, s3, url, code, trouble>>
BY DEF Reported, submitVars, workerVars, recordVars, uploadVars

LEMMA StartingFrame ==
    ASSUME Starting
    PROVE  /\ UNCHANGED <<job, sub, post, put, sent, seen, late, capturing, prints, checks, issues,
                          child, s3, url, code>>
           /\ trouble' = trouble \/ Trouble
BY DEF Starting, Boot, Snapshot, ReadMetadata, ReplaceMetadata, InitialLock, WriteLock, jobStays,
       submitVars, apiVars, workerVars, recordVars, uploadVars

LEMMA CapturingFrame ==
    ASSUME Capturing
    PROVE  /\ UNCHANGED <<job, sub, post, files, pc, put, sent, seen, late, checks, snapshot, lock,
                          issues, logs, child, s3, url, code>>
           /\ trouble' = trouble \/ Trouble
BY DEF Capturing, OpenPrint, WritePrint, CaptureFails, workerStays,
       submitVars, apiVars, recordVars, uploadVars

LEMMA StagingFrame ==
    ASSUME Staging
    PROVE  /\ UNCHANGED <<job, sub, post, files, put, sent, seen, late, capturing, prints, snapshot, lock,
                          issues, logs, child, s3, url>>
           /\ trouble' = trouble \/ Trouble
BY DEF Staging, StartHead, LaunchWorkers, StartFrontend, StageRaises, Healthy, Unhealthy, Verify, Served,
       Ran, Evaluated, Stage, Goes, jobStays, submitVars, apiVars, workerVars, recordVars, uploadVars

LEMMA EndingFrame ==
    ASSUME Ending
    PROVE  /\ UNCHANGED <<job, sub, post, files, put, sent, seen, late, prints, checks, snapshot>>
           /\ trouble' = trouble \/ Trouble
BY DEF Ending, Cleanup, Prepare, RunTool, ToolOver, FinalLock, WriteLock, Compare, Upload, UploadOver,
       UploadTimesOut, Analyze, AnalysisOver, preparing, jobStays, submitVars, apiVars, workerVars,
       recordVars, uploadVars

LEMMA ContainersFrame ==
    ASSUME Containers
    PROVE  /\ UNCHANGED <<job, sub, post, files, pc, put, sent, seen, late, capturing, prints, checks,
                          snapshot, lock, issues, url, code>>
           /\ trouble' = trouble \/ Trouble
BY DEF Containers, ToolEnds, Install, Parse, Sync, AnalystEnds, containerStays, preparing, submitVars,
       apiVars, workerVars, recordVars

\* Where the job goes from where it is.
LEMMA Moves ==
    ASSUME Shape, Next
    PROVE  /\ job' = job /\ trouble' \in 0..job.max_trouble
           /\ pc' = pc \/ Reported \/ Starting \/ Staging \/ Ending
           /\ pc' # pc => pc \notin Reports \/ Reported
<1>1. job' = job /\ (trouble' = trouble \/ Trouble)
  BY SubmitFrame, ArrivesFrame, PutFrame, ReportedFrame, StartingFrame, CapturingFrame, StagingFrame,
     EndingFrame, ContainersFrame DEF Next
<1>2. trouble' \in 0..job.max_trouble
  <2>1. job.max_trouble \in Nat
    BY JobsAssumption DEF Shape
  <2> QED
    BY <1>1, <2>1 DEF Shape, Trouble
<1>3. pc' = pc \/ Reported \/ Starting \/ Staging \/ Ending
  BY SubmitFrame, ArrivesFrame, PutFrame, CapturingFrame, ContainersFrame DEF Next
<1>4. Starting => pc \notin Reports
  BY DEF Starting, Boot, Snapshot, ReadMetadata, ReplaceMetadata, InitialLock, Reports
<1>5. Staging => pc \notin Reports
  BY DEF Staging, StartHead, LaunchWorkers, StartFrontend, StageRaises, Healthy, Unhealthy, Verify,
         Served, Ran, Evaluated, Stage, Reports
<1>6. Ending => pc \notin Reports
  BY DEF Ending, Cleanup, Prepare, RunTool, ToolOver, FinalLock, Compare, Upload, UploadOver,
         UploadTimesOut, Analyze, AnalysisOver, Reports
<1> QED
  BY <1>1, <1>2, <1>3, <1>4, <1>5, <1>6

LEMMA StartingMoves ==
    ASSUME Starting
    PROVE  \/ pc = "queued" /\ pc' \in {"snapshot", "over"}
           \/ pc = "snapshot" /\ pc' \in {"metadata", "started"}
           \/ pc = "metadata" /\ pc' \in {"replace", "started"} /\ (pc' = "replace" => files.metadata = "whole")
           \/ pc = "replace" /\ pc' = "started"
           \/ pc = "lock" /\ pc' \in {"head", "workers"}
BY DEF Starting, Boot, Snapshot, ReadMetadata, ReplaceMetadata, InitialLock

LEMMA StagingMoves ==
    ASSUME Staging, code \in {0, 1}
    PROVE  /\ \/ pc = "infra" /\ pc' \in {"workers", "raised"}
              \/ pc = "launch" /\ pc' \in {"frontend", "raised"}
              \/ pc = "front" /\ pc' \in {"eval_only", "waiting", "blocked", "raised"}
              \/ pc = "waiting" /\ pc' \in {"verify", "unhealthy"}
              \/ pc = "verify" /\ pc' \in {"ready", "benchmark"}
              \/ pc = "serving" /\ pc' = "cleanup"
              \/ pc = "running" /\ pc' \in {"post_eval", "cleanup", "raised"}
              \/ pc = "evaluating" /\ pc' \in {"cleanup", "raised"}
           /\ pc' \in {"unhealthy", "blocked", "raised"} => code' = 1
           /\ code' \in {0, 1}
BY DEF Staging, StartHead, LaunchWorkers, StartFrontend, StageRaises, Healthy, Unhealthy, Verify, Served,
       Ran, Evaluated, Stage, Goes

LEMMA EndingMoves ==
    ASSUME Ending, code \in {0, 1}
    PROVE  /\ \/ pc = "cleanup" /\ pc' = "copy"
              \/ pc \in {"copy", "rollup", "lock2", "compare", "metrics", "ruter", "dashboard"}
                   /\ pc' \in {pc, AfterPreparing(pc)}
              \/ pc = "upload" /\ pc' \in {"uploading", "analysis"}
              \/ pc = "uploading" /\ pc' \in {"artifacts", "analysis"}
              \/ pc = "analysis" /\ pc' \in {"analyzing", "final"}
              \/ pc = "analyzing" /\ pc' = "final"
           /\ code' = code \/ code' = 1
           /\ code' \in {0, 1}
BY DEF Ending, Cleanup, Prepare, RunTool, ToolOver, FinalLock, Compare, Upload, UploadOver,
       UploadTimesOut, Analyze, AnalysisOver, preparing

LEMMA ReportedMoves ==
    ASSUME Reported
    PROVE  /\ pc \in Reports /\ pc' = AfterReport(pc)
           /\ sent' = Append(sent, [step |-> pc, status |-> Report(pc).status])
BY DEF Reported

-----------------------------------------------------------------------------
(* The shape                                                               *)

LEMMA ShapeInit ==
    ASSUME Init
    PROVE  Shape /\ Children
<1>1. job \in Jobs /\ job.max_trouble \in Nat /\ Len(Endpoints(job)) \in Nat
  BY JobsAssumption, EndpointCount DEF Init
<1>2. capturing \in [DOMAIN job.processes -> Places]
  BY DEF Init, Places
<1>3. \A w \in DOMAIN prints : prints[w].kind = "whole" <=> prints[w].print # None
  BY DEF Init, NoPrint
<1>4. pc \in Steps \ Reports
  BY DEF Init, Steps, Reports
<1>5. sent = <<>> /\ sent \in Seq([step : Reports, status : DOMAIN Rank])
  BY DEF Init
<1>6. code = 1 /\ trouble = 0 /\ post = 0 /\ put = 0 /\ child = "none"
  BY DEF Init
<1>7. child \notin Tools \cup Uploads
  BY <1>6 DEF Tools, Uploads
<1>8. Children
  BY <1>6, <1>7 DEF Children
<1>9. IF pc \in Reports THEN put \in 0..Len(Endpoints(job)) ELSE put = 0
  BY <1>4, <1>6
<1> QED
  BY <1>1, <1>2, <1>3, <1>4, <1>5, <1>6, <1>8, <1>9 DEF Shape

LEMMA StepsShape ==
    ASSUME Shape, Next
    PROVE  pc' \in Steps /\ code' \in {0, 1}
<1>1. code \in {0, 1} /\ pc \in Steps
  BY DEF Shape
<1>2. CASE Reported
  BY <1>1, <1>2, ReportedMoves, Afterwards, ReportedFrame
<1>3. CASE Starting
  BY <1>1, <1>3, StartingMoves, StartingFrame DEF Steps, Reports
<1>4. CASE Staging
  BY <1>1, <1>4, StagingMoves DEF Steps, Reports
<1>5. CASE Ending
  BY <1>1, <1>5, EndingMoves, Prepared DEF Steps, Reports
<1>6. CASE Submit \/ Arrives \/ Put \/ Capturing \/ Containers
  BY <1>1, <1>6, SubmitFrame, ArrivesFrame, PutFrame, CapturingFrame, ContainersFrame
<1> QED
  BY <1>2, <1>3, <1>4, <1>5, <1>6 DEF Next

LEMMA ReportsShape ==
    ASSUME Shape, Next
    PROVE  /\ post' \in 0..Len(Endpoints(job'))
           /\ IF pc' \in Reports THEN put' \in 0..Len(Endpoints(job')) ELSE put' = 0
<1>1. Len(Endpoints(job)) \in Nat
  BY EndpointCount DEF Shape
<1>2. job' = job /\ Endpoints(job') = Endpoints(job)
  BY Moves
<1>3. post' \in 0..Len(Endpoints(job))
  <2>1. CASE Submit
    BY <1>1, <2>1 DEF Shape, Submit, WriteConfig, OpenMetadata, DumpMetadata, CreateJobRecord, Submitted,
                      SubmitFails
  <2>2. CASE ~Submit
    BY <2>2, ArrivesFrame, PutFrame, ReportedFrame, StartingFrame, CapturingFrame, StagingFrame,
       EndingFrame, ContainersFrame DEF Next, Shape
  <2> QED
    BY <2>1, <2>2
<1>4. IF pc' \in Reports THEN put' \in 0..Len(Endpoints(job)) ELSE put' = 0
  <2>1. CASE Put
    BY <1>1, <2>1, PutFrame DEF Shape, Put
  <2>2. CASE Reported
    <3>1. put' = 0 /\ pc' \notin Reports
      BY <2>2, ReportedMoves, Afterwards DEF Reported
    <3> QED
      BY <3>1
  <2>3. CASE ~Put /\ ~Reported
    <3>1. put' = put
      BY <2>3, SubmitFrame, ArrivesFrame, StartingFrame, CapturingFrame, StagingFrame, EndingFrame,
         ContainersFrame DEF Next
    <3>2. pc' = pc \/ (put = 0 /\ pc' # pc)
      BY <2>3, Moves DEF Shape
    <3> QED
      BY <1>1, <3>1, <3>2 DEF Shape
  <2> QED
    BY <2>1, <2>2, <2>3
<1> QED
  BY <1>2, <1>3, <1>4

LEMMA SentShape ==
    ASSUME Shape, Next
    PROVE  sent' \in Seq([step : Reports, status : DOMAIN Rank])
<1>1. CASE Reported
  <2> DEFINE Entries == [step : Reports, status : DOMAIN Rank]
             new == [step |-> pc, status |-> Report(pc).status]
  <2>1. new \in Entries
    BY <1>1, ReportedMoves, Afterwards
  <2>2. sent \in Seq(Entries) /\ sent' = Append(sent, new)
    BY <1>1, ReportedMoves DEF Shape
  <2> HIDE DEF new, Entries
  <2>3. sent' \in Seq(Entries)
    BY <2>1, <2>2
  <2> QED
    BY <2>3 DEF Entries
<1>2. CASE ~Reported
  BY <1>2, SubmitFrame, ArrivesFrame, PutFrame, StartingFrame, CapturingFrame, StagingFrame, EndingFrame,
     ContainersFrame DEF Next, Shape
<1> QED
  BY <1>1, <1>2

LEMMA CapturingShape ==
    ASSUME Shape, Next
    PROVE  capturing' \in [DOMAIN job.processes -> Places]
<1>1. CASE Capturing
  BY <1>1 DEF Shape, Capturing, OpenPrint, WritePrint, CaptureFails, Places
<1>2. CASE Ending
  <2>1. capturing' = capturing \/ capturing' = [p \in DOMAIN capturing |-> "over"]
    BY <1>2 DEF Ending, Cleanup, Prepare, RunTool, ToolOver, FinalLock, Compare, Upload, UploadOver,
                UploadTimesOut, Analyze, AnalysisOver, preparing, workerVars
  <2> QED
    BY <2>1 DEF Shape, Places
<1>3. CASE ~Capturing /\ ~Ending
  BY <1>3, SubmitFrame, ArrivesFrame, PutFrame, ReportedFrame, StartingFrame, StagingFrame,
     ContainersFrame DEF Next, Shape
<1> QED
  BY <1>1, <1>2, <1>3

LEMMA PrintsShape ==
    ASSUME Shape, Next
    PROVE  \A w \in DOMAIN prints' : prints'[w].kind = "whole" <=> prints'[w].print # None
<1>1. CASE Capturing
  <2> DEFINE torn == [kind |-> "torn", print |-> None]
  <2>1. PICK p \in DOMAIN job.processes : OpenPrint(p) \/ WritePrint(p) \/ CaptureFails(p)
    BY <1>1 DEF Capturing
  <2>2. \A failed \in SUBSET Probes : ScriptCapture(MachineOf(p), failed) # None
    BY NoneAssumption DEF Shape, MachineOf
  <2>3. {{}} \cup {{probe} : probe \in Probes} \subseteq SUBSET Probes
    OBVIOUS
  <2>4. CASE OpenPrint(p)
    BY <2>4 DEF OpenPrint, Shape
  <2>5. CASE WritePrint(p)
    <3>1. PICK failed \in SUBSET Probes :
              \/ prints' = [prints EXCEPT ![WorkerOf(p)] = [kind |-> "whole", print |-> ScriptCapture(MachineOf(p), failed)]]
              \/ prints' = [prints EXCEPT ![WorkerOf(p)] = torn]
      BY <2>3, <2>5 DEF WritePrint
    <3> QED
      BY <2>2, <3>1 DEF Shape
  <2>6. CASE CaptureFails(p)
    BY <2>6 DEF CaptureFails, Shape
  <2> QED
    BY <2>1, <2>4, <2>5, <2>6
<1>2. CASE ~Capturing
  BY <1>2, SubmitFrame, ArrivesFrame, PutFrame, ReportedFrame, StartingFrame, StagingFrame, EndingFrame,
     ContainersFrame DEF Next, Shape
<1> QED
  BY <1>1, <1>2

LEMMA ShapeStep ==
    ASSUME Shape, Next
    PROVE  Shape'
BY Moves, StepsShape, ReportsShape, SentShape, CapturingShape, PrintsShape DEF Shape

-----------------------------------------------------------------------------
(* What post-processing waits for, and the metadata                        *)

LEMMA ChildrenStep ==
    ASSUME Shape, Children, Next
    PROVE  Children'
<1> USE DEF Tools, Uploads
<1>1. CASE Ending
  <2>1. CASE RunTool
    BY <2>1, Prepared DEF RunTool, Children
  <2>2. CASE ToolOver
    BY <2>2 DEF ToolOver, Children
  <2>3. CASE Upload
    BY <2>3 DEF Upload, Children
  <2>4. CASE UploadOver \/ UploadTimesOut
    BY <2>4 DEF UploadOver, UploadTimesOut, Children
  <2>5. CASE Analyze
    BY <2>5 DEF Analyze, Children
  <2>6. CASE AnalysisOver
    BY <2>6 DEF AnalysisOver, Children
  <2>7. CASE Cleanup \/ Prepare \/ FinalLock \/ Compare
    <3>1. child' = child /\ pc \notin {"rollup", "metrics", "analyzing", "uploading"}
      BY <2>7 DEF Cleanup, Prepare, FinalLock, Compare, uploadVars
    <3> QED
      BY <3>1 DEF Children
  <2> QED
    BY <1>1, <2>1, <2>2, <2>3, <2>4, <2>5, <2>6, <2>7 DEF Ending
<1>2. CASE Containers
  <2>1. pc' = pc
    BY <1>2, ContainersFrame
  <2>2. \/ child \in Tools /\ child' \in Tools
        \/ child \in Uploads /\ child' \in Uploads
    BY <1>2 DEF Containers, ToolEnds, Install, Parse, Sync, AnalystEnds
  <2> QED
    BY <2>1, <2>2 DEF Children
<1>3. CASE Starting \/ Staging \/ Reported
  <2>1. child' = child
    BY <1>3, StartingFrame, StagingFrame, ReportedFrame
  <2>2. pc \notin {"rollup", "metrics", "analyzing", "uploading"}
    BY <1>3, StartingMoves, StagingMoves, ReportedMoves DEF Reports, Shape
  <2> QED
    BY <2>1, <2>2 DEF Children
<1>4. CASE Submit \/ Arrives \/ Put \/ Capturing
  BY <1>4, SubmitFrame, ArrivesFrame, PutFrame, CapturingFrame DEF Children
<1> QED
  BY <1>1, <1>2, <1>3, <1>4 DEF Next

LEMMA MetadataInit ==
    ASSUME Init
    PROVE  Metadata
BY DEF Init, Metadata

LEMMA MetadataStep ==
    ASSUME Shape, Metadata, Next
    PROVE  Metadata' /\ (files.metadata = "with_cpus" => files'.metadata = "with_cpus")
<1>1. CASE Submit
  <2>1. pc' = pc
    BY <1>1, SubmitFrame
  <2>2. CASE WriteConfig
    <3>1. files'.metadata = files.metadata
      BY <2>2 DEF WriteConfig
    <3> QED
      BY <2>1, <2>2, <3>1 DEF WriteConfig, Metadata
  <2>3. CASE OpenMetadata \/ DumpMetadata
    <3>1. files.metadata \notin {"whole", "with_cpus"} /\ pc # "replace"
      BY <2>3 DEF OpenMetadata, DumpMetadata, Metadata
    <3> QED
      BY <2>1, <2>3, <3>1 DEF OpenMetadata, DumpMetadata, Metadata
  <2>4. CASE CreateJobRecord \/ Submitted \/ SubmitFails
    BY <2>1, <2>4 DEF CreateJobRecord, Submitted, SubmitFails, Metadata
  <2> QED
    BY <1>1, <2>2, <2>3, <2>4 DEF Submit
<1>2. CASE Starting
  <2>1. sub' = sub
    BY <1>2, StartingFrame
  <2>2. CASE ReplaceMetadata
    BY <2>1, <2>2 DEF ReplaceMetadata, Metadata
  <2>3. CASE ~ReplaceMetadata
    <3>1. files' = files
      BY <1>2, <2>3 DEF Starting, Boot, Snapshot, ReadMetadata, InitialLock
    <3>2. pc' = "replace" => files.metadata = "whole"
      BY <1>2, StartingMoves
    <3> QED
      BY <2>1, <3>1, <3>2 DEF Metadata
  <2> QED
    BY <2>2, <2>3
<1>3. CASE Staging \/ Ending \/ Reported
  <2>1. UNCHANGED <<sub, files>>
    BY <1>3, StagingFrame, EndingFrame, ReportedFrame
  <2>2. pc' # "replace"
    <3>1. CASE Reported
      BY <3>1, ReportedMoves DEF Reports, AfterReport
    <3>2. CASE Staging
      BY <3>2, StagingMoves DEF Shape
    <3>3. CASE Ending
      BY <3>3, EndingMoves, Prepared DEF Shape
    <3> QED
      BY <1>3, <3>1, <3>2, <3>3
  <2> QED
    BY <2>1, <2>2 DEF Metadata
<1>4. CASE Arrives \/ Put \/ Capturing \/ Containers
  BY <1>4, ArrivesFrame, PutFrame, CapturingFrame, ContainersFrame DEF Metadata
<1> QED
  BY <1>1, <1>2, <1>3, <1>4 DEF Next

-----------------------------------------------------------------------------
(* The reports                                                             *)

LEMMA ReportedStatus ==
    ASSUME NEW step \in Reports, step # "artifacts"
    PROVE  /\ step \notin {"final"} \cup Failing => Report(step).status # "failed"
           /\ step \in Failing => Report(step).status = "failed"
           /\ step = "final" /\ code = 1 => Report(step).status = "failed"
           /\ Rank[Report(step).status] \in Nat
           /\ Rank[Report(step).status] <= Level(AfterReport(step))
           /\ step \notin Failing \cup {"final"} => Level(step) <= Rank[Report(step).status]
           /\ step \in Failing \cup {"final"} => Rank[Report(step).status] = 5
<1> USE DEF Failing
<1>1. CASE step \in {"started", "head"}
  <2>1. Report(step).status = "starting" /\ AfterReport(step) \in {"lock", "infra"}
    BY <1>1 DEF Report, Message, AfterReport
  <2> QED
    BY <1>1, <2>1, Ranks DEF Level
<1>2. CASE step = "workers"
  <2>1. Report(step).status = "workers" /\ AfterReport(step) = "launch"
    BY <1>2 DEF Report, Message, AfterReport
  <2> QED
    BY <1>2, <2>1, Ranks DEF Level
<1>3. CASE step \in {"frontend", "ready"}
  <2>1. Report(step).status = "frontend" /\ AfterReport(step) \in {"front", "serving"}
    BY <1>3 DEF Report, Message, AfterReport
  <2> QED
    BY <1>3, <2>1, Ranks DEF Level
<1>4. CASE step \in {"benchmark", "eval_only", "post_eval"}
  <2>1. Report(step).status = "benchmark" /\ AfterReport(step) \in {"running", "evaluating"}
    BY <1>4 DEF Report, Message, AfterReport
  <2> QED
    BY <1>4, <2>1, Ranks DEF Level
<1>5. CASE step \in Failing
  <2>1. Report(step).status = "failed" /\ AfterReport(step) = "cleanup"
    BY <1>5 DEF Report, Message, AfterReport
  <2> QED
    BY <1>5, <2>1, Ranks DEF Level
<1>6. CASE step = "final"
  <2>1. /\ Report(step).status \in {"completed", "failed"} /\ AfterReport(step) = "over"
        /\ code = 1 => Report(step).status = "failed"
    BY <1>6 DEF Report, Message, AfterReport
  <2> QED
    BY <1>6, <2>1, Ranks DEF Level
<1> QED
  BY <1>1, <1>2, <1>3, <1>4, <1>5, <1>6 DEF Reports

\* The bound never falls.
LEMMA LevelGrows ==
    ASSUME Shape, Next
    PROVE  /\ Level(pc) \in 1..5 /\ Level(pc') \in 1..5
           /\ Level(pc) <= Level(pc')
<1>1. code \in {0, 1} /\ pc \in Steps /\ pc' \in Steps
  BY StepsShape DEF Shape
<1>2. \A step \in Steps : Level(step) \in 1..5
  BY DEF Level
<1>3. CASE Reported
  BY <1>3, ReportedMoves DEF Reports, AfterReport, Level
<1>4. CASE Starting
  BY <1>4, StartingMoves DEF Level
<1>5. CASE Staging
  BY <1>1, <1>5, StagingMoves DEF Level
<1>6. CASE Ending
  BY <1>1, <1>6, EndingMoves, Prepared DEF Level
<1>7. CASE pc' = pc
  BY <1>2, <1>7, <1>1
<1> QED
  BY <1>1, <1>2, <1>3, <1>4, <1>5, <1>6, <1>7, Moves

LEMMA FailureStays ==
    ASSUME Shape, Next
    PROVE  /\ code = 1 /\ pc \in AfterCleanup \cup Failing => code' = 1
           /\ pc \in AfterCleanup => pc' \in AfterCleanup
           /\ pc' \in Failing => code' = 1 \/ pc' = pc
<1>1. code \in {0, 1} /\ pc \in Steps
  BY DEF Shape
<1>2. CASE Reported
  BY <1>2, ReportedMoves, ReportedFrame DEF Reports, AfterReport, AfterCleanup, Failing
<1>3. CASE Starting
  BY <1>3, StartingMoves, StartingFrame DEF AfterCleanup, Failing
<1>4. CASE Staging
  BY <1>1, <1>4, StagingMoves DEF AfterCleanup, Failing
<1>5. CASE Ending
  BY <1>1, <1>5, EndingMoves, Prepared DEF AfterCleanup, Failing
<1>6. CASE Submit \/ Arrives \/ Put \/ Capturing \/ Containers
  BY <1>6, SubmitFrame, ArrivesFrame, PutFrame, CapturingFrame, ContainersFrame
<1> QED
  BY <1>2, <1>3, <1>4, <1>5, <1>6 DEF Next

LEMMA LevelsInit ==
    ASSUME Init
    PROVE  StatusForward /\ Levels
<1>1. sent = <<>> /\ pc = "queued"
  BY DEF Init
<1>2. DOMAIN sent = {}
  BY <1>1
<1> QED
  BY <1>1, <1>2 DEF StatusForward, InOrder, Levels, Stated, Failing

LEMMA LevelsStep ==
    ASSUME Shape, StatusForward, Levels, Next
    PROVE  StatusForward' /\ Levels'
<1> DEFINE Below(status, step) == Rank[status] <= Level(step)
<1>1. /\ Level(pc) \in 1..5 /\ Level(pc') \in 1..5 /\ Level(pc) <= Level(pc')
      /\ Len(sent) \in Nat /\ DOMAIN sent = 1..Len(sent)
      /\ \A n \in DOMAIN sent : sent[n].step \in Reports /\ sent[n].status \in DOMAIN Rank
  <2> DEFINE Entries == [step : Reports, status : DOMAIN Rank]
  <2>1. sent \in Seq(Entries)
    BY DEF Shape
  <2>2. \A entry \in Entries : entry.step \in Reports /\ entry.status \in DOMAIN Rank
    OBVIOUS
  <2> HIDE DEF Entries
  <2>3. Len(sent) \in Nat /\ DOMAIN sent = 1..Len(sent) /\ \A n \in DOMAIN sent : sent[n] \in Entries
    BY <2>1
  <2> QED
    BY LevelGrows, <2>2, <2>3
<1>2. \A status \in DOMAIN Rank : Rank[status] \in 1..5
  BY Ranks
<1>3. pc' \in Failing => code' = 1
  BY FailureStays DEF Levels, Failing
<1>4. \A n \in Stated : /\ Rank[sent[n].status] <= Level(pc')
                        /\ sent[n].status = "failed" => code' = 1 /\ pc' \in AfterCleanup
  <2> SUFFICES ASSUME NEW n \in Stated
               PROVE  /\ Rank[sent[n].status] <= Level(pc')
                      /\ sent[n].status = "failed" => code' = 1 /\ pc' \in AfterCleanup
    OBVIOUS
  <2>1. n \in DOMAIN sent
    BY DEF Stated
  <2>2. Rank[sent[n].status] \in 1..5 /\ Rank[sent[n].status] <= Level(pc)
    BY <1>1, <1>2, <2>1 DEF Levels
  <2>3. Rank[sent[n].status] <= Level(pc')
    BY <1>1, <2>2
  <2>4. sent[n].status = "failed" => code' = 1 /\ pc' \in AfterCleanup
    BY FailureStays DEF Levels
  <2> QED
    BY <2>3, <2>4
<1>5. CASE ~Reported
  <2>1. sent' = sent
    BY <1>5, SubmitFrame, ArrivesFrame, PutFrame, StartingFrame, CapturingFrame, StagingFrame,
       EndingFrame, ContainersFrame DEF Next
  <2> QED
    BY <1>3, <1>4, <2>1 DEF StatusForward, InOrder, Levels, Stated
<1>6. CASE Reported
  <2> DEFINE new == [step |-> pc, status |-> Report(pc).status]
  <2>1. /\ pc \in Reports /\ pc' = AfterReport(pc) /\ sent' = Append(sent, new) /\ code' = code
    BY <1>6, ReportedMoves, ReportedFrame
  <2>2. new.step = pc /\ new.status = Report(pc).status
    OBVIOUS
  <2> HIDE DEF new
  <2>3. /\ DOMAIN sent' = 1..(Len(sent) + 1) /\ sent'[Len(sent) + 1] = new
        /\ \A n \in 1..Len(sent) : sent'[n] = sent[n]
    BY <1>1, <2>1 DEF Shape
  <2> DEFINE fresh == IF pc = "artifacts" THEN {} ELSE {Len(sent) + 1}
  <2>4. Stated' = Stated \cup fresh
    BY <1>1, <2>2, <2>3 DEF Stated
  <2>5. Stated \subseteq 1..Len(sent)
    BY <1>1 DEF Stated
  <2>6. ASSUME pc # "artifacts"
        PROVE  /\ Rank[new.status] \in 1..5 /\ Rank[new.status] <= Level(pc')
               /\ new.status = "failed" => code = 1 \/ pc = "final"
               /\ \A m \in Stated : /\ Rank[sent[m].status] <= Rank[new.status]
                                    /\ sent[m].status = "failed" => new.status = "failed"
    <3>1. /\ Rank[new.status] \in 1..5 /\ Rank[new.status] <= Level(pc')
      BY <1>2, <2>1, <2>2, <2>6, ReportedStatus, Afterwards
    <3>2. new.status = "failed" => code = 1 \/ pc = "final"
      BY <2>1, <2>2, <2>6, ReportedStatus DEF Levels
    <3>3. \A m \in Stated : Rank[sent[m].status] \in 1..5 /\ Rank[sent[m].status] <= Level(pc)
      BY <1>1, <1>2, <2>5 DEF Levels
    <3>4. Rank[new.status] = 5 \/ Level(pc) <= Rank[new.status]
      BY <2>1, <2>2, <2>6, ReportedStatus
    <3>5. \A m \in Stated : Rank[sent[m].status] <= Rank[new.status]
      BY <1>1, <3>1, <3>3, <3>4
    <3>6. pc \in AfterCleanup => pc = "final"
      BY <2>1, <2>6 DEF Reports, AfterCleanup
    <3>7. \A m \in Stated : sent[m].status = "failed" => new.status = "failed"
      BY <2>1, <2>2, <2>6, <3>6, ReportedStatus DEF Levels
    <3> QED
      BY <3>1, <3>2, <3>5, <3>7
  <2>7. Levels'
    <3>1. \A n \in Stated : sent'[n] = sent[n]
      BY <2>3, <2>5
    <3>2. ASSUME pc # "artifacts", new.status = "failed"
          PROVE  code' = 1 /\ pc' \in AfterCleanup
      <4>1. pc \in Failing \cup {"final"}
        BY <2>1, <2>2, <3>2, ReportedStatus
      <4>2. pc' \in AfterCleanup
        BY <2>1, <4>1 DEF AfterReport, AfterCleanup, Failing
      <4>3. pc = "final" => code = 1
        BY <2>2, <3>2 DEF Report, Message, Shape
      <4> QED
        BY <2>1, <2>6, <3>2, <4>1, <4>2, <4>3
    <3> QED
      BY <1>3, <1>4, <2>3, <2>4, <2>6, <3>1, <3>2 DEF Levels
  <2>8. StatusForward'
    <3> SUFFICES ASSUME NEW m \in Stated', NEW n \in Stated', m < n
                 PROVE  /\ Rank[sent'[m].status] <= Rank[sent'[n].status]
                        /\ sent'[m].status = "failed" => sent'[n].status = "failed"
      BY DEF StatusForward, InOrder, Stated
    <3>1. m \in Stated /\ sent'[m] = sent[m]
      BY <1>1, <2>3, <2>4, <2>5
    <3>2. CASE n \in Stated
      <4>1. sent'[n] = sent[n]
        BY <2>3, <2>5, <3>2
      <4> QED
        BY <3>1, <3>2, <4>1 DEF StatusForward, InOrder, Stated
    <3>3. CASE n \notin Stated
      <4>1. pc # "artifacts" /\ sent'[n] = new
        BY <2>3, <2>4, <3>3
      <4> QED
        BY <2>6, <3>1, <4>1
    <3> QED
      BY <3>2, <3>3
  <2> QED
    BY <2>7, <2>8
<1> QED
  BY <1>5, <1>6

-----------------------------------------------------------------------------
(* The upload, and what the status servers are told of it                  *)

AfterUpload == {"artifacts", "analysis", "analyzing", "final", "over"}

\* The address, once known, stays, and so does the end.
LEMMA AddressStays ==
    ASSUME Shape, Uploaded, Next
    PROVE  /\ url # None => url' = url
           /\ url' # url => pc = "uploading" /\ child \in {"exit 0", "exit 20"} /\ pc' = "artifacts"
           /\ pc \in AfterUpload => pc' \in AfterUpload
           /\ pc \in {"final", "over"} => pc' \in {"final", "over"} /\ url' = url
<1>1. url' # url => pc = "uploading" /\ child \in {"exit 0", "exit 20"} /\ pc' = "artifacts"
  <2>1. CASE Ending
    BY <2>1 DEF Ending, Cleanup, Prepare, RunTool, ToolOver, FinalLock, Compare, Upload, UploadOver,
                UploadTimesOut, Analyze, AnalysisOver, uploadVars
  <2>2. CASE ~Ending
    BY <2>2, SubmitFrame, ArrivesFrame, PutFrame, ReportedFrame, StartingFrame, CapturingFrame,
       StagingFrame, ContainersFrame DEF Next
  <2> QED
    BY <2>1, <2>2
<1> USE DEF AfterUpload
<1>2. /\ pc \in AfterUpload => pc' \in AfterUpload
      /\ pc \in {"final", "over"} => pc' \in {"final", "over"}
  <2>1. CASE Reported
    BY <2>1, ReportedMoves DEF Reports, AfterReport
  <2>2. CASE Starting
    BY <2>2, StartingMoves
  <2>3. CASE Staging
    BY <2>3, StagingMoves DEF Shape
  <2>4. CASE Ending
    BY <2>4, EndingMoves DEF Shape
  <2> QED
    BY <2>1, <2>2, <2>3, <2>4, Moves
<1> QED
  BY <1>1, <1>2 DEF Uploaded

LEMMA MessagesInit ==
    ASSUME Init
    PROVE  Messages /\ Uploaded
<1>1. late = {} /\ \A e \in DOMAIN seen : seen[e] = {}
  BY DEF Init
<1>2. url = None /\ child = "none" /\ logs = {}
  BY DEF Init
<1> QED
  BY <1>1, <1>2 DEF Messages, Uploaded

LEMMA UploadedStep ==
    ASSUME Shape, Children, Uploaded, Next
    PROVE  Uploaded'
<1> USE DEF Tools, Uploads
<1>1. CASE Containers
  <2>1. UNCHANGED <<pc, url>>
    BY <1>1, ContainersFrame
  <2>2. CASE ToolEnds
    <3>1. pc \notin AfterUpload /\ child' = "exited" /\ logs' \subseteq LogNames
      BY <2>2 DEF ToolEnds, Uploaded, LogNames, AfterUpload
    <3> QED
      BY <2>1, <3>1 DEF Uploaded, AfterUpload
  <2>3. CASE Install \/ Parse \/ Sync
    <3>1. pc = "uploading" /\ url = None
      BY <2>3 DEF Install, Parse, Sync, Children, Uploaded
    <3>2. logs' \subseteq LogNames
      BY <2>3 DEF Install, Parse, Sync, Uploaded, LogNames
    <3>3. child' \in {"exit 0", "exit 20"} => s3' = logs'
      BY <2>3 DEF Install, Parse, Sync
    <3> QED
      BY <2>1, <3>1, <3>2, <3>3 DEF Uploaded
  <2>4. CASE AnalystEnds
    BY <2>1, <2>4 DEF AnalystEnds, Uploaded
  <2> QED
    BY <1>1, <2>2, <2>3, <2>4 DEF Containers
<1>2. CASE Ending
  <2>1. CASE Cleanup \/ FinalLock
    <3>1. UNCHANGED <<logs, child, s3, url>> /\ pc \notin AfterUpload
      BY <2>1 DEF Cleanup, FinalLock, uploadVars, AfterUpload
    <3> QED
      BY <3>1 DEF Uploaded, AfterUpload
  <2>2. CASE Prepare \/ Compare
    <3>1. child' = child /\ child \notin Uploads /\ logs' \subseteq LogNames
      BY <2>2 DEF Prepare, Compare, Children, Uploaded, LogNames
    <3>2. url' = url /\ pc \notin AfterUpload
      BY <2>2 DEF Prepare, Compare, AfterUpload
    <3> QED
      BY <3>1, <3>2 DEF Uploaded, AfterUpload
  <2>3. CASE RunTool \/ ToolOver \/ Upload
    <3>1. child' \in {child, "none", "running", "installing"} /\ child \notin {"exit 0", "exit 20"}
      BY <2>3 DEF RunTool, ToolOver, Upload, Children
    <3>2. UNCHANGED <<logs, s3, url>> /\ pc \notin AfterUpload
      BY <2>3 DEF RunTool, ToolOver, Upload, AfterUpload
    <3> QED
      BY <3>1, <3>2 DEF Uploaded, AfterUpload
  <2>4. CASE UploadOver
    BY <2>4 DEF UploadOver, Uploaded
  <2>5. CASE UploadTimesOut
    BY <2>5 DEF UploadTimesOut, Uploaded
  <2>6. CASE Analyze
    <3>1. child \notin Uploads
      BY <2>6 DEF Analyze, Children
    <3> QED
      BY <2>6, <3>1 DEF Analyze, Uploaded
  <2>7. CASE AnalysisOver
    BY <2>7 DEF AnalysisOver, Uploaded
  <2> QED
    BY <1>2, <2>1, <2>2, <2>3, <2>4, <2>5, <2>6, <2>7 DEF Ending
<1>3. CASE Starting
  <2>1. UNCHANGED <<child, s3, url>> /\ logs' \subseteq LogNames
    <3>1. logs' \in {logs, logs \cup {"snapshot"}}
      BY <1>3 DEF Starting, Boot, Snapshot, ReadMetadata, ReplaceMetadata, InitialLock, uploadVars
    <3> QED
      BY <1>3, <3>1, StartingFrame DEF Uploaded, LogNames
  <2>2. pc \notin AfterUpload \cup {"uploading"}
    BY <1>3, StartingMoves DEF AfterUpload
  <2> QED
    BY <2>1, <2>2 DEF Uploaded, AfterUpload, Children
<1>4. CASE Submit \/ Arrives \/ Put \/ Reported \/ Capturing \/ Staging
  <2>1. UNCHANGED <<logs, child, s3, url>>
    BY <1>4, SubmitFrame, ArrivesFrame, PutFrame, ReportedFrame, CapturingFrame, StagingFrame
  <2> QED
    BY <2>1, AddressStays DEF Uploaded, AfterUpload
<1> QED
  BY <1>1, <1>2, <1>3, <1>4 DEF Next

LEMMA MessagesStep ==
    ASSUME Shape, Uploaded, Messages, Next
    PROVE  Messages'
<1>1. \A m : Meant(m) => Meant(m)'
  BY AddressStays DEF Meant, Told
<1>2. ASSUME seen' = seen, late' = late
      PROVE  Messages'
  BY <1>1, <1>2 DEF Messages
<1>3. ASSUME NEW e, NEW m, Meant(m)', Request(e, m)
      PROVE  Messages'
  <2>1. \A x \in DOMAIN seen' : x \in DOMAIN seen /\ seen'[x] \subseteq seen[x] \cup {m}
    BY <1>3 DEF Request
  <2>2. late' \subseteq late \cup {<<e, m>>}
    BY <1>3 DEF Request
  <2> QED
    BY <1>1, <1>3, <2>1, <2>2 DEF Messages
<1>4. CASE Submit
  <2>1. CASE CreateJobRecord
    <3> DEFINE m == Message("submitted", None, None)
    <3>1. m.url = None /\ m.code = None
      BY DEF Message
    <3>2. Meant(m)'
      BY <3>1 DEF Meant, Told
    <3>3. Request(Endpoints(job)[post + 1], m)
      BY <2>1 DEF CreateJobRecord
    <3> QED
      BY <1>3, <3>2, <3>3
  <2>2. CASE ~CreateJobRecord
    BY <1>2, <1>4, <2>2 DEF Submit, WriteConfig, OpenMetadata, DumpMetadata, Submitted, SubmitFails
  <2> QED
    BY <2>1, <2>2
<1>5. CASE Put
  <2>1. /\ Report(pc).url # None => url # None
        /\ Report(pc).code # None => Report(pc).url = url /\ pc = "final"
    BY <1>5 DEF Put, Reports, Report, Message
  <2>2. Meant(Report(pc))
    BY <2>1 DEF Meant, Told
  <2>3. PICK m : m = Report(pc)
    OBVIOUS
  <2>4. Meant(m)'
    BY <1>1, <2>2, <2>3
  <2>5. Request(Endpoints(job)[put + 1], m)
    BY <1>5, <2>3 DEF Put
  <2> QED
    BY <1>3, <2>4, <2>5
<1>6. CASE Arrives
  <2>1. PICK r \in late : /\ seen' = [seen EXCEPT ![r[1]] = @ \cup {r[2]}]
                          /\ late' = late \ {r}
    BY <1>6 DEF Arrives
  <2>2. \A x \in DOMAIN seen' : x \in DOMAIN seen /\ seen'[x] \subseteq seen[x] \cup {r[2]}
    BY <2>1
  <2> QED
    BY <1>1, <2>1, <2>2 DEF Messages
<1>7. CASE Reported \/ Starting \/ Capturing \/ Staging \/ Ending \/ Containers
  BY <1>2, <1>7, ReportedFrame, StartingFrame, CapturingFrame, StagingFrame, EndingFrame, ContainersFrame
<1> QED
  BY <1>4, <1>5, <1>6, <1>7 DEF Next

-----------------------------------------------------------------------------
(* The fingerprints, and what is made of them                              *)

Captures == WorkersRun \/ pc = "launch"

LEMMA WorkersMove ==
    ASSUME Shape, Next
    PROVE  /\ Captures => Captures' \/ Cleanup
           /\ pc' = "verify" => pc = "verify" \/ Healthy
           /\ pc \in Compared => pc' \in Compared
           /\ Captures => pc \notin Compared
<1> USE DEF Captures, WorkersRun, Compared
<1>1. CASE Reported
  BY <1>1, ReportedMoves DEF Reports, AfterReport
<1>2. CASE Starting
  BY <1>2, StartingMoves
<1>3. CASE Staging
  <2>1. pc' = "verify" => Healthy
    BY <1>3 DEF Staging, StartHead, LaunchWorkers, StartFrontend, StageRaises, Unhealthy, Verify,
                Served, Ran, Evaluated, Stage, Goes
  <2> QED
    BY <1>3, <2>1, StagingMoves DEF Shape
<1>4. CASE Ending
  <2>1. pc = "cleanup" => Cleanup
    BY <1>4 DEF Ending, Prepare, RunTool, ToolOver, FinalLock, Compare, Upload, UploadOver,
                UploadTimesOut, Analyze, AnalysisOver
  <2> QED
    BY <1>4, <2>1, EndingMoves, Prepared DEF Shape
<1>5. CASE pc' = pc
  BY <1>5
<1> QED
  BY <1>1, <1>2, <1>3, <1>4, <1>5, Moves

\* What the workers wrote is looked at only when none of them writes any more.
LEMMA CapturingRuns ==
    ASSUME Shape, Looked, Capturing
    PROVE  ~AllOver /\ Captures
<1>1. PICK p \in DOMAIN job.processes : OpenPrint(p) \/ WritePrint(p) \/ CaptureFails(p)
  BY DEF Capturing
<1>2. p \in DOMAIN capturing
  BY DEF Shape
<1>3. capturing[p] \in {"off", "open"}
  BY <1>1 DEF OpenPrint, WritePrint, CaptureFails
<1>4. Captures
  BY <1>1, <1>2 DEF OpenPrint, WritePrint, CaptureFails, Looked, Captures
<1> QED
  BY <1>2, <1>3, <1>4 DEF AllOver

LEMMA LookedInit ==
    ASSUME Init
    PROVE  Looked /\ VerifiedIsRecorded
<1>1. capturing = [p \in DOMAIN job.processes |-> "off"] /\ pc = "queued"
  BY DEF Init
<1>2. checks = None /\ issues = None /\ lock = None
  BY DEF Init
<1> QED
  BY <1>1, <1>2 DEF Looked, VerifiedIsRecorded

LEMMA LookedStep ==
    ASSUME Shape, Looked, Next
    PROVE  Looked'
<1>0. job' = job
  BY Moves
<1>1. CASE Capturing
  <2>1. /\ UNCHANGED <<pc, checks, issues>> /\ Captures /\ ~AllOver
    BY <1>1, CapturingRuns, CapturingFrame
  <2>2. checks = None /\ issues = None /\ pc # "verify"
    BY <2>1, WorkersMove DEF Looked
  <2>3. Captures'
    BY <2>1 DEF Captures, WorkersRun
  <2> QED
    BY <2>1, <2>2, <2>3 DEF Looked, Captures
<1>2. CASE Cleanup
  <2>1. pc = "cleanup" /\ pc' = "copy" /\ UNCHANGED <<prints, checks, issues>>
    BY <1>2 DEF Cleanup, recordVars
  <2>2. capturing' = [p \in DOMAIN capturing |-> "over"]
    BY <1>2 DEF Cleanup
  <2>3. AllOver'
    BY <2>2 DEF AllOver
  <2>4. issues = None
    BY <2>1 DEF Looked, Compared
  <2>5. Collected' = Collected
    BY <2>1 DEF Collected
  <2>6. \A p \in DOMAIN capturing' : capturing'[p] = "over"
    BY <2>2
  <2> QED
    BY <1>0, <2>1, <2>3, <2>4, <2>5, <2>6 DEF Looked
<1>3. CASE ~Capturing /\ ~Cleanup
  <2>1. UNCHANGED <<capturing, prints>>
    <3>1. Ending => UNCHANGED capturing
      BY <1>3 DEF Ending, Prepare, RunTool, ToolOver, FinalLock, Compare, Upload, UploadOver,
                  UploadTimesOut, Analyze, AnalysisOver, preparing, workerVars
    <3> QED
      BY <1>3, <3>1, SubmitFrame, ArrivesFrame, PutFrame, ReportedFrame, StartingFrame, StagingFrame,
         EndingFrame, ContainersFrame DEF Next
  <2>2. Collected' = Collected /\ (AllOver => AllOver')
    BY <2>1 DEF Collected, AllOver
  <2>3. \A p \in DOMAIN capturing' : capturing'[p] = "open" => Captures'
    BY <1>3, <2>1, WorkersMove DEF Looked, Captures
  <2>4. pc' = "verify" => AllOver'
    <3>1. Healthy => AllOver
      BY DEF Healthy, Serving, AllOver, Shape
    <3> QED
      BY <2>2, <3>1, WorkersMove DEF Looked
  <2>5. checks' # None => AllOver' /\ checks' = verify_identity(job'.identity, Collected')
    <3>1. CASE Verify
      <4>1. checks' = verify_identity(job.identity, Collected) /\ pc = "verify"
        BY <3>1 DEF Verify
      <4> QED
        BY <1>0, <2>2, <4>1 DEF Looked
    <3>2. CASE ~Verify
      <4>1. checks' = checks
        <5>1. Staging => checks' = checks
          BY <3>2 DEF Staging, StartHead, LaunchWorkers, StartFrontend, StageRaises, Healthy, Unhealthy,
                      Served, Ran, Evaluated, Stage, Goes, recordVars
        <5> QED
          BY <1>3, <5>1, SubmitFrame, ArrivesFrame, PutFrame, ReportedFrame, StartingFrame, EndingFrame,
             ContainersFrame DEF Next
      <4> QED
        BY <1>0, <2>2, <4>1 DEF Looked
    <3> QED
      BY <3>1, <3>2
  <2>6. issues' # None => /\ pc' \in Compared /\ job'.previous # None
                          /\ issues' = ReproductionIssues(job'.previous, Collected')
    <3>1. CASE Compare
      <4>1. pc' = "metrics"
        BY <3>1, Prepared DEF Compare
      <4>2. issues' # None => job.previous # None /\ issues' = ReproductionIssues(job.previous, Collected)
        BY <3>1 DEF Compare
      <4> QED
        BY <1>0, <2>2, <4>1, <4>2 DEF Compared
    <3>2. CASE ~Compare
      <4>1. issues' = issues
        <5>1. Ending => issues' = issues
          BY <3>2 DEF Ending, Cleanup, Prepare, RunTool, ToolOver, FinalLock, Upload, UploadOver,
                      UploadTimesOut, Analyze, AnalysisOver, recordVars
        <5> QED
          BY <1>3, <5>1, SubmitFrame, ArrivesFrame, PutFrame, ReportedFrame, StartingFrame, StagingFrame,
             ContainersFrame DEF Next
      <4> QED
        BY <1>0, <2>2, <4>1, WorkersMove DEF Looked
    <3> QED
      BY <3>1, <3>2
  <2> QED
    BY <2>3, <2>4, <2>5, <2>6 DEF Looked, Captures
<1> QED
  BY <1>1, <1>2, <1>3

LEMMA LockStep ==
    ASSUME Shape, Looked, VerifiedIsRecorded, Next
    PROVE  VerifiedIsRecorded'
<1>0. job' = job
  BY Moves
<1>1. ASSUME NEW verification, lock' = LockSection(verification),
             verification # {} => verification = verify_identity(job.identity, Collected)
      PROVE  VerifiedIsRecorded'
  <2>1. lock'.verification = Verification(verification) /\ lock'.fingerprints = Collected
    BY <1>1 DEF LockSection
  <2>2. Verification(verification) # None => Verification(verification) = verify_identity(job.identity, Collected)
    BY <1>1 DEF Verification
  <2> QED
    BY <1>0, <2>1, <2>2 DEF VerifiedIsRecorded
<1>2. CASE lock' = lock
  BY <1>0, <1>2 DEF VerifiedIsRecorded
<1>3. CASE InitialLock
  <2>1. lock' = LockSection({}) \/ lock' = lock
    BY <1>3 DEF InitialLock, WriteLock
  <2> QED
    BY <1>1, <1>2, <2>1
<1>4. CASE FinalLock
  <2>1. PICK verification : verification = IF checks = None THEN {} ELSE checks
    OBVIOUS
  <2>2. lock' = LockSection(verification) \/ lock' = lock
    BY <1>4, <2>1 DEF FinalLock, WriteLock
  <2>3. verification # {} => verification = verify_identity(job.identity, Collected)
    BY <2>1 DEF Looked
  <2> QED
    BY <1>1, <1>2, <2>2, <2>3
<1>5. CASE ~InitialLock /\ ~FinalLock
  <2>1. Starting => lock' = lock
    BY <1>5 DEF Starting, Boot, Snapshot, ReadMetadata, ReplaceMetadata, recordVars
  <2>2. Ending => lock' = lock
    BY <1>5 DEF Ending, Cleanup, Prepare, RunTool, ToolOver, Compare, Upload, UploadOver,
                UploadTimesOut, Analyze, AnalysisOver, recordVars
  <2> QED
    BY <1>2, <1>5, <2>1, <2>2, SubmitFrame, ArrivesFrame, PutFrame, ReportedFrame, CapturingFrame,
       StagingFrame, ContainersFrame DEF Next
<1> QED
  BY <1>3, <1>4, <1>5

-----------------------------------------------------------------------------
(* The invariant holds                                                     *)

LEMMA RecordsStutter ==
    ASSUME RecordsInv, UNCHANGED vars
    PROVE  RecordsInv'
<1>1. UNCHANGED <<job, sub, post, files, pc, put, sent, seen, late, capturing, prints, checks, snapshot,
                  lock, issues, logs, child, s3, url, code, trouble>>
  BY DEF vars
<1>2. Shape' /\ Children' /\ Metadata'
  BY <1>1 DEF RecordsInv, Shape, Children, Metadata
<1>3. StatusForward' /\ Levels'
  BY <1>1 DEF RecordsInv, StatusForward, InOrder, Levels, Stated
<1>4. Messages' /\ Uploaded'
  BY <1>1 DEF RecordsInv, Messages, Meant, Told, Uploaded
<1>5. Looked' /\ VerifiedIsRecorded'
  BY <1>1 DEF RecordsInv, Looked, WorkersRun, AllOver, Collected, VerifiedIsRecorded
<1> QED
  BY <1>2, <1>3, <1>4, <1>5 DEF RecordsInv

\* The invariant of reports, records and upload.
THEOREM RecordsInvariance == Spec => []RecordsInv
<1>1. Init => RecordsInv
  BY ShapeInit, MetadataInit, LevelsInit, MessagesInit, LookedInit DEF RecordsInv
<1>2. ASSUME RecordsInv, [Next]_vars PROVE RecordsInv'
  <2>1. CASE Next
    BY <1>2, <2>1, ShapeStep, ChildrenStep, MetadataStep, LevelsStep, MessagesStep, UploadedStep,
       LookedStep, LockStep DEF RecordsInv
  <2>2. CASE UNCHANGED vars
    BY <1>2, <2>2, RecordsStutter
  <2> QED
    BY <1>2, <2>1, <2>2
<1> QED
  BY <1>1, <1>2, PTL DEF Spec

-----------------------------------------------------------------------------
(* What follows from it                                                    *)

LEMMA LogsWhole ==
    ASSUME RecordsInv
    PROVE  LogsAreThere
<1>1. url # None => Whole
  <2>1. None \notin {logs} /\ logs # Part
    BY NoneAssumption DEF RecordsInv, Uploaded, Part, LogNames
  <2> QED
    BY <2>1 DEF RecordsInv, Uploaded, Whole
<1> QED
  BY <1>1 DEF RecordsInv, Messages, Meant, Told, LogsAreThere

LEMMA RecordsTyped ==
    ASSUME RecordsInv
    PROVE  TypeOK
<1>1. \A n \in DOMAIN sent : sent[n].step \in Reports /\ sent[n].status \in DOMAIN Rank
  <2> DEFINE Entries == [step : Reports, status : DOMAIN Rank]
  <2>1. sent \in Seq(Entries)
    BY DEF RecordsInv, Shape
  <2>2. \A entry \in Entries : entry.step \in Reports /\ entry.status \in DOMAIN Rank
    OBVIOUS
  <2> HIDE DEF Entries
  <2>3. \A n \in DOMAIN sent : sent[n] \in Entries
    BY <2>1
  <2> QED
    BY <2>2, <2>3
<1>2. child # "none" => pc \in {"rollup", "metrics", "uploading", "analyzing"}
  BY DEF RecordsInv, Children
<1> QED
  BY <1>1, <1>2 DEF RecordsInv, Shape, TypeOK

\* No issue of a worker is no difference of it.
LEMMA IssuesShowDiff ==
    ASSUME NEW a, NEW b, WorkerIssues(a, b) = {}, NEW c \in Diff(a, b)
    PROVE  SameRelease(c)
<1>1. \A s \in Scalars : Short(s, a.scalars[s]) = Short(s, b.scalars[s])
  BY DEF WorkerIssues, FieldIssues
<1>2. a.gpu.driver = b.gpu.driver
  BY DEF WorkerIssues, FieldIssues
<1>3. Packages(a) = Packages(b)
  BY DEF WorkerIssues, PackageIssues
<1>4. PICK s \in Scalars : c = Change(s, a.scalars[s], b.scalars[s]) /\ a.scalars[s] # b.scalars[s]
  <2>1. Driver(a) = Driver(b)
    BY <1>2 DEF Driver
  <2> QED
    BY <1>3, <2>1 DEF Diff
<1>5. c.field = s /\ c.before = a.scalars[s] /\ c.after = b.scalars[s]
  BY <1>4 DEF Change
<1>6. s = "cuda_version"
  BY <1>1, <1>4 DEF Short
<1> QED
  BY <1>1, <1>5, <1>6 DEF SameRelease

\* Without issues, no worker has one.
LEMMA NoIssues ==
    ASSUME NEW before, NEW after, None # {}, ReproductionIssues(before, after) = {}
    PROVE  /\ DOMAIN before = DOMAIN after
           /\ \A w \in DOMAIN after : WorkerIssues(before[w], after[w]) = {}
<1>1. ~(before = NoFun \/ after = NoFun)
  BY DEF ReproductionIssues
<1> DEFINE each == {WorkerIssues(before[w], after[w]) : w \in DOMAIN before \cap DOMAIN after}
           workers == IF DOMAIN before = DOMAIN after THEN {} ELSE {"workers"}
<1>2. (UNION each) \cup workers = {}
  BY <1>1 DEF ReproductionIssues
<1>3. workers = {}
  <2> HIDE DEF each, workers
  <2> QED
    BY <1>2
<1>4. DOMAIN before = DOMAIN after
  BY <1>3
<1>5. \A x \in each : x = {}
  <2> HIDE DEF each, workers
  <2> QED
    BY <1>2
<1> QED
  BY <1>4, <1>5

LEMMA ReportsAgree ==
    ASSUME RecordsInv
    PROVE  ReportAgreesWithDiff
<1> SUFFICES ASSUME issues = {}
             PROVE  /\ DOMAIN Collected = DOMAIN job.previous
                    /\ \A w \in DOMAIN Collected : \A c \in Diff(job.previous[w], Collected[w]) : SameRelease(c)
  BY DEF ReportAgreesWithDiff
<1> DEFINE before == job.previous
           after == Collected
<1>1. None # {}
  BY NoneAssumption
<1>2. issues = ReproductionIssues(before, after)
  BY <1>1 DEF RecordsInv, Looked
<1> HIDE DEF before, after
<1>3. DOMAIN before = DOMAIN after
  BY <1>1, <1>2, NoIssues
<1>4. \A w \in DOMAIN after : WorkerIssues(before[w], after[w]) = {}
  BY <1>1, <1>2, NoIssues
<1>5. \A w \in DOMAIN after : \A c \in Diff(before[w], after[w]) : SameRelease(c)
  BY <1>4, IssuesShowDiff
<1> QED
  BY <1>3, <1>5 DEF before, after

\* A machine and what was captured on it differ in the CUDA line only.
LEMMA SameMachineDiff ==
    ASSUME NEW machine, None \notin {<<"line", machine.cuda_version>>, <<"token", machine.cuda_version>>}
    PROVE  Check(ScriptCapture(machine, {}), capture_fingerprint(machine, {}))
             \subseteq {[field |-> "cuda_version", status |-> "mismatch"]}
<1> DEFINE script == ScriptCapture(machine, {})
           now == capture_fingerprint(machine, {})
           line == <<"line", machine.cuda_version>>
           token == <<"token", machine.cuda_version>>
<1>1. \A s \in Scalars \ {"cuda_version"} : script.scalars[s] = now.scalars[s]
  BY DEF ScriptCapture, capture_fingerprint, Capture
<1>2. script.scalars["cuda_version"] = line /\ now.scalars["cuda_version"] = token
  BY DEF ScriptCapture, capture_fingerprint, Capture, Scalars
<1>3. script.gpu = now.gpu /\ script.packages = now.packages
  BY DEF ScriptCapture, capture_fingerprint, Capture
<1> HIDE DEF script, now
<1>4. Driver(script) = Driver(now) /\ Packages(script) = Packages(now)
  BY <1>3 DEF Driver, Packages
<1>5. \A c \in Diff(script, now) : c = Change("cuda_version", line, token)
  BY <1>1, <1>2, <1>4 DEF Diff
<1>6. CheckStatus(Change("cuda_version", line, token)) = "mismatch"
  BY DEF CheckStatus, Change, Unavailable
<1> QED
  <2>1. \A x \in Check(script, now) : x = [field |-> "cuda_version", status |-> "mismatch"]
    BY <1>5, <1>6 DEF Check, Change
  <2> QED
    BY <2>1 DEF script, now

LEMMA MachinesMatch ==
    ASSUME RecordsInv
    PROVE  SameMachineMatches
<1> SUFFICES ASSUME lock # None, NEW p \in DOMAIN job.processes,
                    lock.fingerprints[WorkerOf(p)] = ScriptCapture(MachineOf(p), {})
             PROVE  Check(lock.fingerprints[WorkerOf(p)], capture_fingerprint(MachineOf(p), {}))
                      \subseteq {[field |-> "cuda_version", status |-> "mismatch"]}
  BY DEF SameMachineMatches
<1>1. job \in Jobs
  BY DEF RecordsInv, Shape
<1>2. None \notin {<<"line", MachineOf(p).cuda_version>>, <<"token", MachineOf(p).cuda_version>>}
  BY <1>1, NoneAssumption DEF MachineOf
<1> QED
  BY <1>2, SameMachineDiff

-----------------------------------------------------------------------------
(* The theorems                                                            *)

\* Statuses are reported in order, a failure is what the job ends with, and an address is
\* given only of a complete upload, for any endpoints, lost and late requests.
THEOREM ReportsAreSound == Spec => []ReportsSound
<1>1. RecordsInv => ReportsSound
  BY LogsWhole DEF RecordsInv, ReportsSound
<1> QED
  BY <1>1, RecordsInvariance, PTL

\* Verification, reproduction report and fingerprints of a job agree, for any machines,
\* workers and interleaving of their captures.
THEOREM RecordsAreSound == Spec => []RecordsSound
<1>1. RecordsInv => RecordsSound
  BY RecordsTyped, ReportsAgree, MachinesMatch DEF RecordsInv, RecordsSound
<1> QED
  BY <1>1, RecordsInvariance, PTL

\* srtctl never overwrites the CPU numbers a job has put into its metadata.
THEOREM CpusAreKept == Spec => CpusKept
<1>1. ASSUME RecordsInv, [Next]_vars
      PROVE  [files.metadata = "with_cpus" => files'.metadata = "with_cpus"]_files
  <2>1. CASE Next
    BY <1>1, <2>1, MetadataStep DEF RecordsInv
  <2>2. CASE UNCHANGED vars
    BY <2>2 DEF vars
  <2> QED
    BY <1>1, <2>1, <2>2
<1> QED
  BY <1>1, RecordsInvariance, PTL DEF Spec, CpusKept
=============================================================================
