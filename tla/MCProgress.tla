----------------------------- MODULE MCProgress ----------------------------
(***************************************************************************)
(* The TapeANN engine and the scripts around it, each on its own, under    *)
(* the fairness of each: a behaviour runs one of them, and the variables   *)
(* of the others keep a value that stands for nothing.                     *)
(*                                                                         *)
(* The engine runs twice: on the page cache, with a warm-up and a ring as  *)
(* small as the batch, and with reads that fail or come back short and     *)
(* waits that are interrupted, in variables of its own.                    *)
(***************************************************************************)
EXTENDS TapeSearch, PrepParams, PollerParams

VARIABLES
  part,       \* which program runs
  fSq, fInflight, fCqRing, fCqHead, fCqTail, fPc, fRound, fTarget, fBuffer, fRemaining,
  fNext, fEnd, fScanned, fTotal,
  phase, crashes, result, temp, csv, jobs, done, next, left, row, write_header, failures,
  raw, size, header, do, written, base, gtTape, gtDisk,
  life, parent, io, poller, todo, sample, max, stopped, main, late, total

faultyVars == <<fSq, fInflight, fCqRing, fCqHead, fCqTail, fPc, fRound, fTarget, fBuffer,
                fRemaining, fNext, fEnd, fScanned, fTotal>>
sweepVars == <<result, temp, csv, jobs, done, next, left, row, write_header, failures>>
prepVars == <<raw, size, header, do, written, base, gtTape, gtDisk>>
pollerVars == <<life, parent, io, poller, todo, sample, max, stopped, main, late, total>>
sessionVars == <<phase, crashes, sweepVars>>
scriptVars == <<phase, crashes, prepVars>>
allVars == <<part, vars, faultyVars, phase, crashes, sweepVars, prepVars, pollerVars>>

Two == CHOOSE S \in SUBSET Stored : Cardinality(S) = 2
Faulty == INSTANCE TapeSearch WITH
  Clusters <- Two, Stored <- Two, SqEntries <- 4, NumQueries <- 1,
  ReadFaults <- TRUE, Interruptible <- TRUE,
  sq <- fSq, inflight <- fInflight, cqRing <- fCqRing, cqHead <- fCqHead, cqTail <- fCqTail,
  pc <- fPc, round <- fRound, target <- fTarget, buffer <- fBuffer, remaining <- fRemaining,
  bNext <- fNext, bEnd <- fEnd, scanned <- fScanned, total_ios <- fTotal

\* One DiskANN point, one TapeANN point; the thread sweep repeats the first.
Sweep == INSTANCE BenchSweep WITH
  GridPoints <- <<"d1", "t1">>, SweepPoints <- <<"d1">>, TapePoints <- {"t1"},
  ThreadsDefault <- <<1>>, ThreadsSweep <- <<1, 2>>, ThreadsAsked <- {<<1>>, <<2>>},
  Trials <- 1, Limits <- {0, 1}, MaxFailures <- 1, MaxRows <- 5

Prep == INSTANCE DataPrep

Measured == INSTANCE IoPoller

NoFiles == phase = 0 /\ crashes = 0
NoSweep ==
  /\ result = 0 /\ temp = 0 /\ csv = 0 /\ jobs = 0 /\ done = 0 /\ next = 0 /\ left = 0
  /\ row = 0 /\ write_header = 0 /\ failures = 0
NoPrep ==
  /\ raw = 0 /\ size = 0 /\ header = 0 /\ do = 0 /\ written = 0 /\ base = 0
  /\ gtTape = 0 /\ gtDisk = 0
NoPoller ==
  /\ life = 0 /\ parent = 0 /\ io = 0 /\ poller = 0 /\ todo = 0 /\ sample = 0 /\ max = 0
  /\ stopped = 0 /\ main = 0 /\ late = 0 /\ total = 0

ProgressInit ==
  /\ Init /\ Faulty!Init
  /\ \/ part \in {"cache", "faulty"} /\ NoFiles /\ NoSweep /\ NoPrep /\ NoPoller
     \/ part = "sweep" /\ Sweep!Init /\ NoPrep /\ NoPoller
     \/ part = "prep" /\ Prep!Init /\ NoSweep /\ NoPoller
     \/ part = "measured" /\ Measured!Init /\ NoFiles /\ NoSweep /\ NoPrep

CacheStep ==
  /\ part = "cache" /\ Next
  /\ UNCHANGED <<part, faultyVars, phase, crashes, sweepVars, prepVars, pollerVars>>

FaultyStep ==
  /\ part = "faulty" /\ Faulty!Next
  /\ UNCHANGED <<part, vars, phase, crashes, sweepVars, prepVars, pollerVars>>

\* The bounds on sessions and rows end a sweep.
SweepStep ==
  /\ part = "sweep" /\ (Sweep!Next \/ UNCHANGED <<phase, crashes, sweepVars>>)
  /\ UNCHANGED <<part, vars, faultyVars, prepVars, pollerVars>>

PrepStep ==
  /\ part = "prep" /\ Prep!Next
  /\ UNCHANGED <<part, vars, faultyVars, sweepVars, pollerVars>>

MeasuredStep ==
  /\ part = "measured" /\ Measured!Next
  /\ UNCHANGED <<part, vars, faultyVars, phase, crashes, sweepVars, prepVars>>

ProgressNext == CacheStep \/ FaultyStep \/ SweepStep \/ PrepStep \/ MeasuredStep

\* The fairness of each program, as its own specification states it.
PartsFairness ==
  /\ WF_faultyVars(part = "faulty" /\ Faulty!Program)
  /\ WF_faultyVars(part = "faulty" /\ Faulty!KernelConsume)
  /\ WF_faultyVars(part = "faulty" /\ Faulty!KernelCompleteAny)
  /\ WF_sessionVars(part = "sweep" /\ Sweep!Step)
  /\ SF_sessionVars(part = "sweep" /\ Sweep!StartFull(0))
  /\ WF_scriptVars(part = "prep" /\ Prep!DownloadChunk)
  /\ WF_scriptVars(part = "prep" /\ phase # "idle" /\ Prep!Convert)
  /\ WF_scriptVars(part = "prep" /\ phase # "idle" /\ Prep!Gt)
  /\ SF_scriptVars(part = "prep" /\ Prep!DownloadStart)
  /\ SF_scriptVars(part = "prep" /\ Prep!ConvertStart)
  /\ SF_scriptVars(part = "prep" /\ Prep!GtStart)
  /\ WF_pollerVars(part = "measured" /\ Measured!Command)
  /\ WF_pollerVars(part = "measured" /\ Measured!Poller)
  /\ WF_pollerVars(part = "measured" /\ Measured!Measure)

ProgressSpec == ProgressInit /\ [][ProgressNext]_allVars /\ PartsFairness
----------------------------------------------------------------------------
(* TapeSearch *)

\* Every run ends, whatever reads fail: no query waits for a completion that
\* never comes.
EventuallyAnswered == part = "faulty" => Faulty!EventuallyDone
----------------------------------------------------------------------------
(* BenchSweep *)

\* The metrics of a row were measured by the run of that row's own job.
RowsOwn == part = "sweep" => Sweep!RowsOwn

\* However often sessions are interrupted and started again, a key has no more
\* rows than the sweep lists it, as long as runs.csv has its header.
RowsBounded == part = "sweep" => Sweep!RowsBounded

\* Sessions that are started again get every job a row in the end, except where
\* a temporary file or a file without its header is left.
EventuallyComplete ==
  <>[](part = "sweep" => Sweep!Headless) \/ <>[](part = "sweep" => Sweep!AllJobsHaveRows)
----------------------------------------------------------------------------
(* DataPrep *)

\* A conversion never truncates or rewrites an output that is complete.
CompleteKept == [][part = "prep" => Prep!KeepsComplete]_allVars

\* Whatever was killed where, running the scripts again ends with all outputs
\* and both ground truths complete.
EventuallyPrepared == <>[](part = "prep" => Prep!Prepared)
----------------------------------------------------------------------------
(* IoPoller *)

\* run_measured ends: neither thread waits for the other for ever.
EventuallyEnds == <>(part = "measured" => Measured!Ended)
============================================================================
