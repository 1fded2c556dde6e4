----------------------------- MODULE BenchSweep ----------------------------
(***************************************************************************)
(* The benchmark sweep (run_all.py with runner_common.py): sessions that   *)
(* can be interrupted anywhere and are started again, each of which reads  *)
(* the keys that already have a row in runs.csv, runs the other jobs one   *)
(* after the other and appends a row for every job that succeeds.          *)
(*                                                                         *)
(* A job is one point of the parameter grid (dataset, variant, mode and    *)
(* search parameters), a thread count and a trial.  TapeANN jobs report on *)
(* standard output; DiskANN jobs report through a result file (module      *)
(* AtomicSave) whose name has no thread count in it.                       *)
(***************************************************************************)
EXTENDS Integers, Sequences, FiniteSets, FiniteSetsExt, SequencesExt

CONSTANTS
  GridPoints,      \* points of the parameter grid, in order
  SweepPoints,     \* THREAD_SWEEP_PARAMS, in order
  TapePoints,      \* the points of TapeANN variants
  ThreadsDefault,  \* THREADS_DEFAULT, in order
  ThreadsSweep,    \* THREADS_SWEEP, in order
  ThreadsAsked,    \* values of --threads that a user may give
  Trials,          \* --trials
  Limits,          \* values of --limit, 0 for none
  None,
  MaxCrashes,      \* bound: interrupted sessions
  MaxFailures,     \* bound: jobs that fail
  MaxRows          \* bound: no session starts with more rows than this

\* iter_jobs: for every point, for every trial, for every thread count.
IterJobs(points, threads) ==
  FlattenSeq([p \in 1 .. Len(points) |->
    FlattenSeq([t \in 1 .. Trials |->
      [n \in 1 .. Len(threads) |->
        [point |-> points[p], trial |-> t, threads |-> threads[n]]]])])

GridJobs == IterJobs(GridPoints, ThreadsDefault)
SweepJobs == IterJobs(SweepPoints, ThreadsSweep)

\* Fault: the key leaves out the thread count.
KeyNoThreads(j) == <<j.point, j.trial>>

\* make_resume_key: every column that tells two jobs apart.
Key(j) == j

\* The name of a DiskANN result file.
ResultPath(j) == <<j.point, j.trial>>

Jobs == ToSet(GridJobs) \cup ToSet(SweepJobs)
         \cup UNION {ToSet(IterJobs(SweepPoints, th)) : th \in ThreadsAsked}

Paths == {ResultPath(j) : j \in Jobs}

VARIABLES
  result, temp,   \* result files of DiskANN jobs, see AtomicSave
  csv,            \* runs.csv: does it exist, does it have a header, its rows
  phase,          \* what the session is doing, "idle" between sessions
  jobs,           \* all_jobs
  done,           \* keys loaded from runs.csv when the session started
  next,           \* next job to look at
  left,           \* jobs that --limit still allows, 0 for no limit
  row,            \* the row of the job just run
  write_header,
  crashes, failures

INSTANCE AtomicSave

session == <<jobs, done, left>>
loop == <<next, row, write_header>>
bounds == <<crashes, failures>>
vars == <<result, temp, csv, phase, session, loop, bounds>>

Idle ==
  /\ phase = "idle"
  /\ jobs = << >> /\ done = {} /\ left = 0
  /\ next = 1 /\ row = None /\ write_header = FALSE

Init ==
  /\ SaveInit
  /\ csv = [exists |-> FALSE, header |-> FALSE, rows |-> << >>]
  /\ Idle
  /\ crashes = 0 /\ failures = 0

\* Fault: the last row is not read.
DoneKeysButLast == {csv.rows[n].key : n \in 1 .. Len(csv.rows) - 1}

\* load_done_keys.  Without a header the reader takes the first row for one
\* and finds no key column in the others.
DoneKeys ==
  IF csv.exists /\ csv.header THEN {csv.rows[n].key : n \in 1 .. Len(csv.rows)} ELSE {}

BeginSession(all, limit) ==
  /\ phase = "idle"
  /\ Len(csv.rows) <= MaxRows
  /\ phase' = "pick"
  /\ jobs' = all
  /\ done' = DoneKeys
  /\ left' = limit
  /\ next' = 1
  /\ UNCHANGED <<result, temp, csv, row, write_header, crashes, failures>>

\* The default run: the parameter grid, then the thread sweep.
StartFull(limit) == BeginSession(GridJobs \o SweepJobs, limit)

\* --thread-sweep.
StartSweep(threads, limit) ==
  LET args == IF threads = None THEN ThreadsDefault ELSE threads
  IN  BeginSession(IterJobs(SweepPoints, IF args = ThreadsDefault THEN ThreadsSweep ELSE args), limit)

\* Jobs that the session still has to run: pending, cut off by --limit.
Pending == {n \in next .. Len(jobs) : Key(jobs[n]) \notin done}

Job == jobs[next]

\* The loop of _execute_jobs comes to the next pending job.
PickJob ==
  /\ phase = "pick"
  /\ Pending # {}
  /\ next' = Min(Pending)
  /\ phase' = "run"
  /\ UNCHANGED <<result, temp, csv, session, row, write_header, bounds>>

\* After a job, with or without a row.  pending[:limit] ends the loop.
NextJob ==
  /\ next' = IF left = 1 THEN Len(jobs) + 1 ELSE next + 1
  /\ left' = IF left > 0 THEN left - 1 ELSE 0
  /\ phase' = "pick"

\* The binary is missing, fails, or prints nothing that can be parsed.
JobFails ==
  /\ phase = "run"
  /\ failures < MaxFailures
  /\ failures' = failures + 1
  /\ NextJob
  /\ UNCHANGED <<result, temp, csv, jobs, done, row, write_header, crashes>>

\* run_tape_one with exit code 0 and a CSV line.
TapeReports ==
  /\ phase = "run"
  /\ Job.point \in TapePoints
  /\ row' = [key |-> Key(Job), from |-> Job]
  /\ phase' = "append"
  /\ UNCHANGED <<result, temp, csv, session, next, write_header, bounds>>

\* Fault: a save that finds the temporary file there reports success.
DiskRefusedQuietly ==
  /\ phase = "run"
  /\ Job.point \notin TapePoints
  /\ SaveRefused(ResultPath(Job))
  /\ phase' = "parse"
  /\ UNCHANGED <<csv, session, loop, bounds>>

\* The DiskANN search is over and its result is saved, in two steps.
DiskRefused ==
  /\ phase = "run"
  /\ Job.point \notin TapePoints
  /\ SaveRefused(ResultPath(Job))
  /\ NextJob
  /\ UNCHANGED <<csv, jobs, done, row, write_header, bounds>>

DiskCreates ==
  /\ phase = "run"
  /\ Job.point \notin TapePoints
  /\ SaveCreate(ResultPath(Job))
  /\ phase' = "save"
  /\ UNCHANGED <<csv, session, loop, bounds>>

\* The serialisation fails (no space left): exit code 1, the file stays.
DiskSaveFails ==
  /\ phase = "save"
  /\ failures < MaxFailures
  /\ failures' = failures + 1
  /\ NextJob
  /\ UNCHANGED <<result, temp, csv, jobs, done, row, write_header, crashes>>

DiskRenames ==
  /\ phase = "save"
  /\ SaveRename(ResultPath(Job), Job)
  /\ phase' = "parse"
  /\ UNCHANGED <<csv, session, loop, bounds>>

\* run_diskann_one with exit code 0: _parse_diskann_result reads the file.
DiskReports ==
  /\ phase = "parse"
  /\ result[ResultPath(Job)] # None
  /\ row' = [key |-> Key(Job), from |-> result[ResultPath(Job)]]
  /\ phase' = "append"
  /\ UNCHANGED <<result, temp, csv, session, next, write_header, bounds>>

\* append_run_row: look for the file, create it, write when it is closed.
OpenCsv ==
  /\ phase = "append"
  /\ write_header' = ~csv.exists
  /\ csv' = [csv EXCEPT !.exists = TRUE]
  /\ phase' = "flush"
  /\ UNCHANGED <<result, temp, session, next, row, bounds>>

FlushCsv ==
  /\ phase = "flush"
  /\ csv' = [csv EXCEPT !.header = @ \/ write_header, !.rows = Append(@, row)]
  /\ NextJob
  /\ row' = None
  /\ write_header' = FALSE
  /\ UNCHANGED <<result, temp, jobs, done, bounds>>

ToIdle ==
  /\ phase' = "idle"
  /\ jobs' = << >> /\ done' = {} /\ left' = 0
  /\ next' = 1 /\ row' = None /\ write_header' = FALSE

\* Nothing pending: the analysis runs, and the session is over.
EndSession ==
  /\ phase = "pick"
  /\ Pending = {}
  /\ ToIdle
  /\ UNCHANGED <<result, temp, csv, bounds>>

\* The session and the binary it runs are killed; the files stay.
Crash ==
  /\ phase # "idle"
  /\ crashes < MaxCrashes
  /\ crashes' = crashes + 1
  /\ ToIdle
  /\ UNCHANGED <<result, temp, csv, failures>>

Step ==
  \/ PickJob \/ TapeReports
  \/ DiskRefused \/ DiskCreates \/ DiskRenames \/ DiskReports
  \/ OpenCsv \/ FlushCsv
  \/ EndSession

Next ==
  \/ \E limit \in Limits : StartFull(limit)
  \/ \E limit \in Limits : \E th \in ThreadsAsked \cup {None} : StartSweep(th, limit)
  \/ Step
  \/ JobFails \/ DiskSaveFails
  \/ Crash

Spec == Init /\ [][Next]_vars

\* A session that is not interrupted goes on, and the user comes back to the
\* full sweep, whatever other sessions are run in between.
Fairness ==
  /\ WF_vars(Step)
  /\ SF_vars(StartFull(0))

FairSpec == Spec /\ Fairness
----------------------------------------------------------------------------
Rows(k) == {n \in 1 .. Len(csv.rows) : csv.rows[n].key = k}

Copies(k) == {n \in 1 .. Len(GridJobs \o SweepJobs) : Key((GridJobs \o SweepJobs)[n]) = k}

\* The metrics of a row were measured by the run of that row's own job.  A
\* result file outlives its run, and jobs that differ only in their thread
\* count share it.
RowsOwn == \A n \in 1 .. Len(csv.rows) : csv.rows[n].key = Key(csv.rows[n].from)

\* However often sessions are interrupted and started again, a key has no more
\* rows than the sweep lists it, as long as runs.csv has its header.
RowsBounded ==
  csv.header => \A k \in Jobs : Cardinality(Rows(k)) <= Max({1, Cardinality(Copies(k))})

Headless == csv.exists /\ ~csv.header

AllJobsHaveRows ==
  \A j \in ToSet(GridJobs \o SweepJobs) :
    \/ \E n \in 1 .. Len(csv.rows) : csv.rows[n].from = j
    \/ ResultPath(j) \in temp

\* Sessions that are started again get every job a row in the end, except the
\* jobs whose result file has a temporary file left beside it, unless runs.csv
\* has been left without a header.
EventuallyComplete == <>[]Headless \/ <>[]AllJobsHaveRows

\* "Emits one row per trial" (run_all.py).
OneRowPerTrial == \A k \in Jobs : Cardinality(Rows(k)) <= 1

\* "Resumable: re-running skips any (algo, dataset, variant, mode,
\* ram_cap_bytes, params, threads, trial) that already has a row" (run_all.py).
ResumeSkips ==
  [][phase = "idle" /\ phase' = "pick" =>
       \A n \in Pending' : Rows(Key(jobs'[n])) = {}]_vars
============================================================================
