------------------------------ MODULE IoPoller -----------------------------
(***************************************************************************)
(* How run_measured counts what a benchmark reads (runner_common.py).  The *)
(* command is a tree of processes (sudo, time, the binary); a thread looks *)
(* at /proc now and then, and keeps the largest count seen for each        *)
(* process.  When the output pipes are closed and the command is reaped    *)
(* the thread is asked to stop, it is given half a second, and the counts  *)
(* are added up whether it has stopped or not.                             *)
(*                                                                         *)
(* One number stands for read_bytes and syscr, which are sampled together. *)
(***************************************************************************)
EXTENDS PollerParams, FiniteSets, FiniteSetsExt

VARIABLES
  life,     \* of each process: "unborn", "running", "zombie" or "gone"
  parent,
  io,       \* its counter in /proc
  poller,   \* "scan", "sample" or "dead"
  todo,     \* processes still to be sampled in this tick
  sample,   \* what was read for one of them and is not recorded yet
  max,      \* _max, None for a process without an entry
  stopped,  \* _stop_event
  main,     \* where run_measured is
  late,     \* did join run into its timeout?
  total

processes == <<life, parent, io>>
thread == <<poller, todo, sample, max>>
measure == <<stopped, main, late, total>>
vars == <<processes, thread, measure>>

Init ==
  /\ life = [p \in Pids |-> IF p = Root THEN "running" ELSE "unborn"]
  /\ parent = [p \in Pids |-> None]
  /\ io = [p \in Pids |-> 0]
  /\ poller = "scan" /\ todo = {} /\ sample = None
  /\ max = [p \in Pids |-> None]
  /\ stopped = FALSE /\ main = "communicate" /\ late = FALSE /\ total = 0

\* The command.  A wrapper waits for its child, so that no process exits
\* before the ones it has started; a zombie can still be looked at.
Fork(p, q) ==
  /\ life[p] = "running" /\ life[q] = "unborn"
  /\ life' = [life EXCEPT ![q] = "running"]
  /\ parent' = [parent EXCEPT ![q] = p]
  /\ UNCHANGED <<io, thread, measure>>

DoIo(p) ==
  /\ life[p] = "running"
  /\ io[p] < MaxIo
  /\ io' = [io EXCEPT ![p] = @ + 1]
  /\ UNCHANGED <<life, parent, thread, measure>>

Exit(p) ==
  /\ life[p] = "running"
  /\ \A q \in Pids : parent[q] = p => life[q] = "gone"
  /\ life' = [life EXCEPT ![p] = "zombie"]
  /\ UNCHANGED <<parent, io, thread, measure>>

Reap(p) ==
  /\ life[p] = "zombie"
  /\ p # Root
  /\ life' = [life EXCEPT ![p] = "gone"]
  /\ UNCHANGED <<parent, io, thread, measure>>

InProc(p) == life[p] \in {"running", "zombie"}

\* One step of the walk in _descendants.
Grow(found) == found \cup {p \in Pids : InProc(p) /\ parent[p] \in found}

\* _descendants: the root, whether it is still there or not, and every process
\* whose chain of parents leads to it.  No chain is longer than there are
\* processes.
Descendants ==
  LET walk[n \in 0 .. Cardinality(Pids)] == IF n = 0 THEN {Root} ELSE Grow(walk[n - 1])
  IN  walk[Cardinality(Pids)]

\* Fault: the stop event is not looked at.
ScanOn ==
  /\ poller = "scan"
  /\ poller' = "sample"
  /\ todo' = Descendants
  /\ UNCHANGED <<processes, sample, max, measure>>

\* A tick: stop if asked to, otherwise list the processes.
Scan ==
  /\ poller = "scan"
  /\ poller' = IF stopped THEN "dead" ELSE "sample"
  /\ todo' = IF stopped THEN {} ELSE Descendants
  /\ UNCHANGED <<processes, sample, max, measure>>

\* /proc/<pid>/io is read ...
ReadSample(p) ==
  /\ poller = "sample" /\ sample = None
  /\ p \in todo /\ InProc(p)
  /\ sample' = [pid |-> p, io |-> io[p]]
  /\ todo' = todo \ {p}
  /\ UNCHANGED <<processes, poller, max, measure>>

\* ... or is there no longer, or belongs to another user ...
SampleGone(p) ==
  /\ poller = "sample" /\ sample = None
  /\ p \in todo
  /\ todo' = todo \ {p}
  /\ UNCHANGED <<processes, poller, sample, max, measure>>

\* Fault: samples are added up.
LargerSum(prev, n) == IF prev = None THEN n ELSE prev + n

Larger(prev, n) == IF prev = None THEN n ELSE Max({prev, n})

\* ... and the larger value is kept.
Record ==
  /\ sample # None
  /\ max' = [max EXCEPT ![sample.pid] = Larger(@, sample.io)]
  /\ sample' = None
  /\ UNCHANGED <<processes, poller, todo, measure>>

\* The wait between two ticks, which the stop event cuts short.
EndTick ==
  /\ poller = "sample" /\ sample = None /\ todo = {}
  /\ poller' = "scan"
  /\ UNCHANGED <<processes, todo, sample, max, measure>>

\* communicate() returns: no process holds the pipes, and the root is reaped.
Communicate ==
  /\ main = "communicate"
  /\ \A p \in Pids : life[p] # "running"
  /\ life' = [life EXCEPT ![Root] = "gone"]
  /\ main' = "stop"
  /\ UNCHANGED <<parent, io, thread, stopped, late, total>>

Stop ==
  /\ main = "stop"
  /\ stopped' = TRUE
  /\ main' = "join"
  /\ UNCHANGED <<processes, thread, late, total>>

Join ==
  /\ main = "join"
  /\ poller = "dead"
  /\ main' = "sum"
  /\ UNCHANGED <<processes, thread, stopped, late, total>>

JoinTimesOut ==
  /\ main = "join"
  /\ poller # "dead"
  /\ late' = TRUE
  /\ main' = "sum"
  /\ UNCHANGED <<processes, thread, stopped, total>>

Counted(m) == {p \in Pids : m[p] # None}

Total(m) == MapThenSumSet(LAMBDA p : m[p], Counted(m))

Sum ==
  /\ main = "sum"
  /\ total' = Total(max)
  /\ main' = "done"
  /\ UNCHANGED <<processes, thread, stopped, late>>

\* The thread is still there and enters a new process while the values are
\* being added up: the iteration raises, and so does run_measured.
SumRaises ==
  /\ main = "sum"
  /\ sample # None
  /\ max[sample.pid] = None
  /\ max' = [max EXCEPT ![sample.pid] = sample.io]
  /\ sample' = None
  /\ main' = "raised"
  /\ UNCHANGED <<processes, poller, todo, stopped, late, total>>

Command == \E p \in Pids : (\E q \in Pids : Fork(p, q)) \/ DoIo(p) \/ Exit(p) \/ Reap(p)

Poller == Scan \/ (\E p \in Pids : ReadSample(p) \/ SampleGone(p)) \/ Record \/ EndTick

Measure == Communicate \/ Stop \/ Join \/ JoinTimesOut \/ Sum \/ SumRaises

Over == main \in {"done", "raised"} /\ poller = "dead" /\ UNCHANGED vars

Next == Command \/ Poller \/ Measure \/ Over

Spec == Init /\ [][Next]_vars

\* The benchmark ends, the interpreter runs both threads.
FairSpec == Spec /\ WF_vars(Command) /\ WF_vars(Poller) /\ WF_vars(Measure)
----------------------------------------------------------------------------
Actual == MapThenSumSet(LAMBDA p : io[p], Pids)

\* The reported figure never exceeds what was really read, although the same
\* counter is sampled again and again; a thread that ended in time has left no
\* sample out; and only one that ran into the half-second limit makes
\* run_measured fail, for a dictionary that changes under it.
TotalSound ==
  /\ total <= Actual
  /\ main = "done" /\ ~late => total = Total(max) /\ sample = None /\ poller = "dead"
  /\ main = "raised" => late

Ended == main \in {"done", "raised"} /\ poller = "dead"

\* run_measured ends: neither thread waits for the other for ever.
EventuallyEnds == <>Ended
============================================================================
