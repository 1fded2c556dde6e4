---------------------------- MODULE MCBenchSweep ---------------------------
(***************************************************************************)
(* Small sweeps: one DiskANN point, one TapeANN point.                     *)
(***************************************************************************)
EXTENDS BenchSweep

CONSTANTS d1, d2, t1

MCGridPoints == <<d1, t1>>
MCSweepPoints == <<d1>>
MCOtherSweepPoints == <<d2>>
MCOne == <<1>>
MCTwo == <<1, 2>>
============================================================================
