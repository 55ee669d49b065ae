------------------------------- MODULE Monitor -------------------------------
(***************************************************************************)
(* srtctl monitor (cli/monitor.py), the terminal dashboard of a user's     *)
(* jobs.  A daemon thread asks squeue, reads the jobs' directories and     *)
(* publishes a sorted list; the main thread reads keys, draws the list and *)
(* cancels jobs or deletes their output.  The two share the list and the   *)
(* set of tracked ids; the jobs move on meanwhile.                         *)
(***************************************************************************)
EXTENDS Integers, FiniteSets, SequencesExt

CONSTANTS Jobs,         \* the user's job ids, numbers
          Lives,        \* what each job may write, from its start to its end
          OldJobs,      \* jobs over before the dashboard starts
          Height,       \* lines a job takes in the table
          Lines,        \* lines of the table on the screen
          ShowAll,      \* --all
          MaxTroubles,  \* bound: squeue calls that fail, or list an id that is no number
          MaxKeys,      \* bound: keys pressed
          MaxResumes    \* bound: sessions after the first

\* What the orchestrator writes, in its order: lines of the sweep log, and the files
\* "result" and "rollup".  "error" is "Error during sweep" with its traceback; "flood"
\* stands for more lines than the dashboard reads.
Follows(a, b) ==
    \/ a = "orchestrator" /\ b \in {"infra", "workers", "error"}
    \/ a = "infra" /\ b \in {"ready", "error"}
    \/ a = "ready" /\ b \in {"workers", "error"}
    \/ a = "workers" /\ b \in {"frontend", "error"}
    \/ a = "frontend" /\ b \in {"polling", "error", "cleanup"}
    \/ a = "polling" /\ b \in {"healthy", "error", "cleanup"}
    \/ a = "healthy" /\ b \in {"result", "done", "failed", "error"}
    \/ a = "result" /\ b \in {"result", "done", "failed"}
    \/ a \in {"done", "failed", "error"} /\ b = "cleanup"
    \/ a = "cleanup" /\ b \in {"flood", "rollup"}
    \/ a = "flood" /\ b = "rollup"

ASSUME JobsAssumption ==
    /\ Jobs \subseteq Nat /\ IsFiniteSet(Jobs) /\ OldJobs \subseteq Jobs
    /\ Height \in [Jobs -> Nat \ {0}] /\ Lines \in Nat \ {0}
    /\ ShowAll \in BOOLEAN
    /\ {MaxTroubles, MaxKeys, MaxResumes} \subseteq Nat

\* What the dashboard looks for in a sweep log and beside it.
Kinds == {"orchestrator", "infra", "ready", "workers", "frontend", "polling", "healthy",
          "result", "done", "failed", "error", "cleanup", "flood", "rollup"}

ASSUME LivesAssumption ==
    /\ Lives \in [Jobs -> SUBSET Seq(Kinds)]
    /\ \A j \in Jobs : \A l \in Lives[j] :
           /\ l # <<>> /\ l[1] = "orchestrator"
           /\ \A i \in 1..(Len(l) - 1) : Follows(l[i], l[i + 1])

VARIABLES
    \* the jobs
    queue,     \* a job's state in squeue; "gone": not listed
    rest, log, \* what it will write and what it has written
    dir,       \* outputs/<job> is there
    \* the fetch thread
    fetch, answer, ids, troubles,
    \* shared
    tracked,   \* seen_job_ids
    oddSeen,   \* an id that is no number (12+0, 12_[1-3]) is among them
    rows,      \* _cached_jobs
    loading,   \* _is_loading
    \* the main thread
    live,      \* the dashboard runs
    all,       \* show_all_jobs
    sel, scroll,
    prompt,    \* the question on the screen: cancel or delete which job
    screen,    \* the list drawn last
    keys,
    saved, sessions,
    \* history
    known,     \* jobs a published list showed as active and the user has not deleted
    misled     \* jobs a published list did not show as active while squeue listed them: as
               \* TIMEOUT, in a state the dashboard does not know, or because squeue had failed

jobVars == <<queue, rest, log, dir>>
fetchVars == <<fetch, answer, ids, troubles>>
sharedVars == <<tracked, oddSeen, rows, loading>>
uiVars == <<live, all, sel, scroll, prompt, screen, keys, saved, sessions>>
history == <<known, misled>>
vars == <<jobVars, fetchVars, sharedVars, uiVars, history>>

-----------------------------------------------------------------------------
(* What the dashboard makes of a job.                                      *)

\* "SUSPENDED" stands for the states of a live job that the dashboard does not know: a job
\* whose nodes boot (CONFIGURING) or one that is stopped for a while.
QueueStates == {"PENDING", "RUNNING", "SUSPENDED", "COMPLETING", "TIMEOUT", "gone"}
ActiveStates == {"PENDING", "RUNNING", "COMPLETING"}
LiveStates == ActiveStates \cup {"SUSPENDED"}
Answer(listed, withOdd) == [jobs |-> listed, odd |-> withOdd, all |-> all]
EmptyQueue == [j \in Jobs |-> "gone"]
NoAnswer == [jobs |-> EmptyQueue, odd |-> FALSE, all |-> FALSE]
None == 0

AtMost(a, b) == IF a < b THEN a ELSE b
AtLeast(a, b) == IF a > b THEN a ELSE b

\* The last line that matches a pattern tells the stage.
InProgress == [healthy |-> "benchmarking", polling |-> "awaiting workers",
               frontend |-> "frontend", workers |-> "workers", ready |-> "head ready",
               infra |-> "infra", orchestrator |-> "starting"]
InProgressStages == Range(InProgress)

\* The end of the file: nothing before the last flood.
LogTail(l) ==
    SubSeq(l, AtLeast(1, SelectLastInSeq(l, LAMBDA k : k = "flood")), Len(l))

\* "Error during sweep" is not "Error during sweep:" and matches nothing.
DetectStage(l) ==
    LET progress == {i \in DOMAIN l : l[i] \in DOMAIN InProgress}
    IN  CASE Contains(l, "done")   -> "completed"
          [] Contains(l, "failed") /\ ~Contains(l, "done") -> "failed"
          [] Contains(l, "cleanup") /\ ~Contains(l, "done") /\ ~Contains(l, "failed")
                                   -> "finalizing"
          [] OTHER -> IF progress = {} THEN "unknown" ELSE InProgress[l[Max(progress)]]

\* Mutant: a job that vanished in the middle of a stage is left in it.
StageOf_neverKilled(j, listed) ==
    IF ~dir[j] THEN "unknown"
    ELSE IF listed = "TIMEOUT" THEN "timeout" ELSE DetectStage(LogTail(log[j]))

StageOf(j, listed) ==
    IF ~dir[j] THEN "unknown"
    ELSE IF listed = "TIMEOUT" THEN "timeout"
    ELSE LET stage == DetectStage(LogTail(log[j]))
         IN  IF listed = "gone" /\ stage \in InProgressStages THEN "killed" ELSE stage

RollupRuns(j) == Contains(log[j], "rollup") /\ Contains(log[j], "result")
PartialRuns(j) == Contains(log[j], "result")
LiveMetrics(j) == Contains(log[j], "healthy")

\* benchmark-rollup.json, else the result files there are, else lines of benchmark.out.
MetricsOf(j, stage) ==
    IF ~dir[j] \/ stage \notin {"benchmarking", "completed", "finalizing", "killed", "failed"} THEN "none"
    ELSE IF RollupRuns(j) THEN "rollup"
    ELSE IF PartialRuns(j) THEN "partial"
    ELSE IF LiveMetrics(j) THEN "live" ELSE "none"

GatherJobInfo(j, listed) ==
    LET stage == StageOf(j, listed)
    IN  [job |-> j, slurm |-> IF listed = "gone" THEN "ENDED" ELSE listed, stage |-> stage,
         metrics |-> MetricsOf(j, stage)]

\* 3 is the order of every state that has none.
SlurmOrder == [RUNNING |-> 0, PENDING |-> 1, COMPLETING |-> 2, SUSPENDED |-> 3,
               TIMEOUT |-> 3, ENDED |-> 3]
DoneOrder(stage) == CASE stage = "completed" -> 0 [] stage = "finalizing" -> 1
                      [] stage = "failed" -> 2 [] OTHER -> 3

\* Active jobs first, then by how they ended, then the newest.
SortsBefore(a, b) ==
    LET slurm(r) == SlurmOrder[r.slurm]
        done(r)  == DoneOrder(r.stage)
    IN  \/ slurm(a) < slurm(b)
        \/ slurm(a) = slurm(b) /\ done(a) < done(b)
        \/ slurm(a) = slurm(b) /\ done(a) = done(b) /\ a.job > b.job

Rows(which, listed) ==
    CHOOSE list \in SetToSeqs({GatherJobInfo(j, listed[j]) : j \in which}) :
        IsSorted(list, SortsBefore)
Shown == {rows[i].job : i \in DOMAIN rows}

-----------------------------------------------------------------------------
(* The jobs.                                                               *)

Starts(j) ==
    /\ queue[j] \in {"PENDING", "SUSPENDED"}
    /\ queue' = [queue EXCEPT ![j] = "RUNNING"]
    /\ UNCHANGED <<rest, log, dir>>

\* Its nodes boot, or its processes are stopped until it is resumed.
Waits(j) ==
    /\ queue[j] \in {"PENDING", "RUNNING"}
    /\ queue' = [queue EXCEPT ![j] = "SUSPENDED"]
    /\ UNCHANGED <<rest, log, dir>>

Writes(j) ==
    /\ queue[j] = "RUNNING" /\ rest[j] # <<>>
    /\ log' = [log EXCEPT ![j] = Append(@, Head(rest[j]))]
    /\ rest' = [rest EXCEPT ![j] = Tail(@)]
    /\ UNCHANGED <<queue, dir>>

Finishes(j) ==
    /\ queue[j] = "RUNNING" /\ rest[j] = <<>>
    /\ queue' = [queue EXCEPT ![j] = "COMPLETING"]
    /\ UNCHANGED <<rest, log, dir>>

\* Stopped from outside, before or after the orchestrator's finally.
CutShort(j, as) ==
    /\ queue' = [queue EXCEPT ![j] = as]
    /\ rest' = [rest EXCEPT ![j] = <<>>]
    /\ \/ UNCHANGED log
       \/ /\ queue[j] = "RUNNING" /\ log[j] # <<>> /\ ~Contains(log[j], "cleanup")
          /\ log' = [log EXCEPT ![j] = Append(@, "cleanup")]

TimesOut(j) ==
    /\ queue[j] = "RUNNING" /\ rest[j] # <<>>
    /\ CutShort(j, "TIMEOUT")
    /\ UNCHANGED <<dir>>

Leaves(j) ==
    /\ queue[j] \in {"COMPLETING", "TIMEOUT"}
    /\ queue' = [queue EXCEPT ![j] = "gone"]
    /\ UNCHANGED <<rest, log, dir>>

Slurm ==
    /\ \E j \in Jobs :
          Starts(j) \/ Waits(j) \/ Writes(j) \/ Finishes(j) \/ TimesOut(j) \/ Leaves(j)
    /\ UNCHANGED <<fetchVars, sharedVars, uiVars, history>>

-----------------------------------------------------------------------------
(* The fetch thread.                                                       *)

\* Whether all jobs are listed is read before squeue is asked.  A squeue that fails or does
\* not answer within 15 s counts as an empty queue.
AskSqueue ==
    /\ fetch = "ask" /\ fetch' = "track"
    /\ \/ answer' = Answer(queue, FALSE) /\ UNCHANGED troubles
       \/ /\ troubles < MaxTroubles /\ troubles' = troubles + 1
          /\ answer' \in {Answer(EmptyQueue, FALSE), Answer(queue, TRUE)}
    /\ UNCHANGED <<jobVars, ids, sharedVars, uiVars, history>>

\* The answer may be older than what the main thread has discarded meanwhile.
Track ==
    /\ fetch = "track" /\ fetch' = "look"
    /\ tracked' = tracked \cup {j \in Jobs : answer.jobs[j] # "gone"}
    /\ oddSeen' = (oddSeen \/ answer.odd)
    /\ ids' = tracked' \cup (IF answer.all THEN {j \in Jobs : dir[j]} ELSE {})
    /\ UNCHANGED <<jobVars, answer, troubles, rows, loading, uiVars, history>>

\* int() of an id that is no number raises: the list published before stays.
Publish ==
    /\ fetch = "look" /\ fetch' = "wait"
    /\ rows' = IF oddSeen THEN rows ELSE Rows(ids, answer.jobs)
    /\ loading' = FALSE
    /\ answer' = NoAnswer /\ ids' = {}
    /\ IF oddSeen THEN UNCHANGED history
       ELSE /\ known' = known \cup {j \in ids : answer.jobs[j] \in ActiveStates}
            /\ misled' = misled \cup {j \in ids : /\ answer.jobs[j] \notin ActiveStates
                                               /\ {answer.jobs[j], queue[j]} # {"gone"}}
    /\ UNCHANGED <<jobVars, troubles, tracked, oddSeen, uiVars>>

\* After the interval, or at once if a key has set the event and it was not yet cleared: one
\* set while the thread was gathering is lost.
Wake ==
    /\ fetch = "wait" /\ fetch' = "ask"
    /\ UNCHANGED <<jobVars, answer, ids, troubles, sharedVars, uiVars, history>>

Fetch == live /\ (AskSqueue \/ Track \/ Publish \/ Wake)

-----------------------------------------------------------------------------
(* The screen.                                                             *)

\* The lines of the first i rows.
Bottom(i) == Cardinality(UNION {{k} \X (1..Height[rows[k].job]) : k \in 1..i})

\* _compute_viewport: the cursor clamped to the list, the offset that follows it, and the
\* first row drawn.
Cursor == AtLeast(1, AtMost(sel, Len(rows)))

Offset ==
    LET top == Bottom(Cursor - 1)
        bottom == Bottom(Cursor)
        follow == IF top < scroll THEN top
                  ELSE IF bottom <= scroll + Lines THEN scroll
                  ELSE IF bottom - top >= Lines THEN top ELSE bottom - Lines
    IN  AtLeast(0, AtMost(follow, AtLeast(0, Bottom(Len(rows)) - Lines)))

FirstRow == CHOOSE i \in DOMAIN rows : Bottom(i) > Offset /\ Bottom(i - 1) <= Offset

NoPrompt == [kind |-> "none", job |-> None]

\* Rows are drawn whole from the first on, while the offset may lie inside it: is the first
\* line of the cursor's row drawn, if no taller row is drawn first?
Table ==
    IF \/ Bottom(Cursor - 1) < Bottom(FirstRow - 1) + Lines
       \/ Height[rows[FirstRow].job] > Height[rows[Cursor].job]
    THEN "table" ELSE "cursor lost"

\* While the first list is loading the cursor stays as it is.
Render ==
    /\ live
    /\ IF rows # <<>>
         THEN screen' = Table /\ sel' = Cursor /\ scroll' = Offset
         ELSE /\ screen' = "blank"
              /\ IF loading THEN UNCHANGED <<sel, scroll>> ELSE sel' = 1 /\ scroll' = 0
    /\ UNCHANGED <<jobVars, fetchVars, sharedVars, live, all, prompt, keys, saved, sessions,
                   history>>

-----------------------------------------------------------------------------
(* The keys.  After each the screen is drawn, with the question if there   *)
(* is one, before the next is read.                                        *)

Key ==
    /\ live /\ keys < MaxKeys
    /\ keys' = keys + 1

Browsing == prompt = NoPrompt
OnRow == sel \in DOMAIN rows

Move ==
    /\ Key /\ Browsing
    /\ \/ sel' = AtLeast(1, sel - 1)
       \/ sel' = AtMost(Len(rows), sel + 1)
    /\ UNCHANGED <<jobVars, fetchVars, sharedVars, live, all, scroll, prompt, screen,
                   saved, sessions, history>>

ToggleAll ==
    /\ Key /\ Browsing
    /\ all' = ~all /\ scroll' = 0 /\ sel' = 1
    /\ UNCHANGED <<jobVars, fetchVars, sharedVars, live, prompt,
                   screen, saved, sessions, history>>

\* d: the row the cursor is on in the list published last, not in the one drawn last.
Ask ==
    /\ Key /\ Browsing /\ OnRow
    /\ prompt' = [kind |-> IF rows[sel].slurm \in ActiveStates THEN "cancel" ELSE "delete",
                  job |-> rows[sel].job]
    /\ UNCHANGED <<jobVars, fetchVars, sharedVars, live, all, sel, scroll, screen,
                   saved, sessions, history>>

Decline ==
    /\ Key /\ prompt # NoPrompt
    /\ prompt' = NoPrompt
    /\ UNCHANGED <<jobVars, fetchVars, sharedVars, live, all, sel, scroll, screen,
                   saved, sessions, history>>

\* scancel, whose failure is ignored.
ConfirmCancel ==
    /\ Key /\ prompt.kind = "cancel"
    /\ \/ UNCHANGED <<queue, rest, log>>
       \/ queue[prompt.job] = "PENDING" /\ CutShort(prompt.job, "gone")
       \/ queue[prompt.job] \in {"RUNNING", "SUSPENDED"} /\ CutShort(prompt.job, "COMPLETING")
    /\ prompt' = NoPrompt
    /\ UNCHANGED <<dir, fetchVars, sharedVars, live, all, sel, scroll,
                   screen, saved, sessions, history>>

\* Mutant: the deleted job stays tracked.
ConfirmDelete_keepsTracked ==
    /\ Key /\ prompt.kind = "delete"
    /\ dir' = [dir EXCEPT ![prompt.job] = FALSE]
    /\ tracked' = tracked
    /\ sel' = AtLeast(1, sel - 1)
    /\ prompt' = NoPrompt
    /\ known' = known \ {prompt.job}
    /\ UNCHANGED <<queue, rest, log, fetchVars, oddSeen, rows, loading, live, all, scroll,
                   screen, saved, sessions, misled>>

\* Mutant: what is deleted is the row the cursor is on now.
ConfirmDelete_row ==
    /\ Key /\ prompt.kind = "delete"
    /\ OnRow /\ dir' = [dir EXCEPT ![rows[sel].job] = FALSE]
    /\ tracked' = tracked \ {prompt.job}
    /\ sel' = AtLeast(1, sel - 1)
    /\ prompt' = NoPrompt
    /\ known' = known \ {prompt.job}
    /\ UNCHANGED <<queue, rest, log, fetchVars, oddSeen, rows, loading, live, all, scroll,
                   screen, saved, sessions, misled>>

\* The state of the job is not looked at again.
ConfirmDelete ==
    /\ Key /\ prompt.kind = "delete"
    /\ dir' = [dir EXCEPT ![prompt.job] = FALSE]
    /\ tracked' = tracked \ {prompt.job}
    /\ sel' = AtLeast(1, sel - 1)
    /\ prompt' = NoPrompt
    /\ known' = known \ {prompt.job}
    /\ UNCHANGED <<queue, rest, log, fetchVars, oddSeen, rows, loading, live, all, scroll,
                   screen, saved, sessions, misled>>

SaveSession == saved' = tracked
LoadSession == tracked' = saved

\* q or Ctrl-C: the tracked ids are saved under the session's key.
Quit ==
    /\ Key /\ prompt = NoPrompt
    /\ live' = FALSE /\ SaveSession
    /\ UNCHANGED <<jobVars, fetchVars, sharedVars, all, sel, scroll, prompt, screen,
                   sessions, history>>

\* monitor --resume KEY.
Resume ==
    /\ ~live /\ sessions < MaxResumes
    /\ live' = TRUE /\ sessions' = sessions + 1
    /\ LoadSession
    /\ rows' = <<>> /\ loading' = TRUE
    /\ fetch' = "ask" /\ answer' = NoAnswer /\ ids' = {}
    /\ all' = ShowAll
    /\ sel' = 1 /\ scroll' = 0 /\ prompt' = NoPrompt
    /\ screen' = "blank"
    /\ UNCHANGED <<jobVars, troubles, oddSeen, keys, saved, history>>

Main ==
    \/ Render \/ Move \/ ToggleAll \/ Ask \/ Decline
    \/ ConfirmCancel \/ ConfirmDelete \/ Quit \/ Resume

-----------------------------------------------------------------------------
Init ==
    /\ queue = [j \in Jobs |-> IF j \in OldJobs THEN "gone" ELSE "PENDING"]
    /\ \E life \in {f \in [Jobs -> UNION Range(Lives)] : \A j \in Jobs : f[j] \in Lives[j]} :
          /\ rest = [j \in Jobs |-> IF j \in OldJobs THEN <<>> ELSE life[j]]
          /\ log = [j \in Jobs |-> IF j \in OldJobs THEN life[j] ELSE <<>>]
    /\ dir = [j \in Jobs |-> TRUE]
    /\ fetch = "ask" /\ answer = NoAnswer /\ ids = {} /\ troubles = 0
    /\ tracked = {} /\ oddSeen = FALSE /\ rows = <<>> /\ loading = TRUE
    /\ live = TRUE /\ all = ShowAll /\ sel = 1 /\ scroll = 0
    /\ prompt = NoPrompt
    /\ screen = "blank"
    /\ keys = 0 /\ saved = {} /\ sessions = 0
    /\ known = {} /\ misled = {}

Next == Slurm \/ Fetch \/ Main

\* A step of the fetch thread: in every phase one is enabled while the dashboard is live.
FetchMoves ==
    live /\ fetch' = [ask |-> "track", track |-> "look", look |-> "wait", wait |-> "ask"][fetch]

\* The fetch thread is never blocked for good: squeue has a timeout and so has its wait.
Spec == Init /\ [][Next]_vars /\ WF_fetch(FetchMoves)

-----------------------------------------------------------------------------
(* Properties.                                                             *)

Stages == InProgressStages \cup {"completed", "finalizing", "failed", "killed", "timeout", "unknown"}
RowType == [job : Jobs, slurm : LiveStates \cup {"TIMEOUT", "ENDED"}, stage : Stages,
            metrics : {"none", "rollup", "partial", "live"}]
Prompts == {NoPrompt} \cup [kind : {"cancel", "delete"}, job : Jobs]

TypeOK ==
    /\ queue \in [Jobs -> QueueStates] /\ dir \in [Jobs -> BOOLEAN]
    /\ fetch \in {"ask", "track", "look", "wait"}
    /\ answer.jobs \in [Jobs -> QueueStates] /\ troubles \in 0..MaxTroubles
    /\ ids \subseteq Jobs /\ tracked \subseteq Jobs /\ saved \subseteq Jobs
    /\ known \subseteq Jobs /\ misled \subseteq Jobs
    /\ rows \in Seq(RowType) /\ IsInjective([i \in DOMAIN rows |-> rows[i].job])
    /\ sel \in 0..AtLeast(1, Cardinality(Jobs)) /\ scroll \in Nat
    /\ prompt \in Prompts
    /\ {loading, live, all, oddSeen} \subseteq BOOLEAN

\* A job the list has once shown as active stays on it, whatever ends, is toggled or
\* resumed, until the user deletes it; a deleted job is not tracked again.  Both may fail
\* for a job that was offered for deletion too early (_gather_all, _load_session).
TrackingExact ==
    /\ ~loading /\ ~oddSeen => known \ misled \subseteq Shown
    /\ {j \in tracked : ~dir[j]} \subseteq misled

\* The row under the cursor is on the screen, if no row taller than it is drawn first
\* (_compute_viewport).
CursorFollowed == screen # "cursor lost"

DashboardSound == TypeOK /\ TrackingExact /\ CursorFollowed

\* A job is cancelled or loses its output only when the screen names it in the question the
\* key answers, however the list was sorted since the question was asked (_execute).
ConfirmedAsShown ==
    [][\A j \in Jobs :
          /\ dir[j] /\ ~dir'[j] => prompt = [kind |-> "delete", job |-> j]
          /\ ConfirmCancel /\ queue'[j] # queue[j] => prompt = [kind |-> "cancel", job |-> j]]_vars

\* Output is deleted of a job that is over, of one that a failed squeue hid, or of one that
\* a published list had in a state the dashboard does not know, and of no other, whatever
\* the job does between the list, the question and the answer (_squeue_jobs, _ACTIVE_STATES).
DeletesOnlyEnded ==
    [][\A j \in Jobs : dir[j] /\ ~dir'[j] => queue[j] \notin LiveStates \/ j \in misled]_vars

\* A confirmed key does what was asked, to a job the list did not show as active.
ConfirmedSound == ConfirmedAsShown /\ DeletesOnlyEnded

\* Once the queue is empty the list comes to show every tracked job as over and no other: a
\* key pressed while it gathers or a failed squeue delays that by an interval (_fetch_loop).
\* An id that is no number stops the list for good.
UpToDate(j) ==
    /\ j \in Shown <=> \/ j \in tracked
                       \/ all /\ dir[j]
    /\ \A i \in DOMAIN rows :
          rows[i].job = j => rows[i].slurm = "ENDED" /\ rows[i].stage \notin InProgressStages

ListCatchesUp ==
    (\A j \in Jobs : queue[j] = "gone")
      ~> ((~loading /\ \A j \in Jobs : UpToDate(j)) \/ ~live \/ oddSeen)
=============================================================================
