------------------------------ MODULE DataPrep -----------------------------
(***************************************************************************)
(* Data preparation (bench/prep): download_data.sh fetches the base        *)
(* vectors, bvecs_to_bins.py converts them into three files at once, and   *)
(* compute_gt.py writes the ground truth for both systems.  Each script    *)
(* can be killed anywhere and run again; the first two skip an output      *)
(* whose size is right.                                                    *)
(*                                                                         *)
(* Files are counted in chunks.  The two DiskANN files start with a header *)
(* that holds the number of vectors; it is written as zero first and       *)
(* overwritten after the last chunk, so it does not change the size.       *)
(***************************************************************************)
EXTENDS PrepParams, Sequences, FiniteSets

Outputs == {"tape", "fbin", "u8bin"}

Headed == {"fbin", "u8bin"}

\* The order in which a chunk is written to the outputs, and the headers.
Order == <<"tape", "fbin", "u8bin">>

Absent == -1

Placeholder == 0

VARIABLES
  phase,     \* what is running, "idle" if nothing is
  raw,       \* chunks of the downloaded file
  size,      \* chunks of each output, or Absent
  header,    \* vector count in the header of each DiskANN file
  do,        \* do_tape, do_fbin, do_u8bin
  written,
  base,      \* chunks that compute_gt.py has loaded
  gtTape,    \* base chunks that ground_truth.bin was computed from
  gtDisk,    \* base chunks that gt100.diskann.bin was computed from
  crashes

data == <<size, header>>
gt == <<base, gtTape, gtDisk>>
vars == <<phase, raw, data, do, written, gt, crashes>>

Init ==
  /\ phase = "idle"
  /\ raw = Absent
  /\ size = [o \in Outputs |-> Absent]
  /\ header = [o \in Headed |-> Placeholder]
  /\ do = {} /\ written = 0
  /\ base = 0 /\ gtTape = 0 /\ gtDisk = 0
  /\ crashes = 0

\* download_data.sh, unless the file has its full size: the redirection
\* truncates the file and the decompressed data comes in chunk by chunk.
DownloadStart ==
  /\ phase = "idle"
  /\ raw # Chunks
  /\ phase' = "download"
  /\ raw' = 0
  /\ UNCHANGED <<data, do, written, gt, crashes>>

DownloadChunk ==
  /\ phase = "download"
  /\ raw < Chunks
  /\ raw' = raw + 1
  /\ phase' = IF raw' = Chunks THEN "idle" ELSE "download"
  /\ UNCHANGED <<data, do, written, gt, crashes>>

\* Fault: a file that is not empty is taken for complete.
IsCompleteIfThere(o) == size[o] > 0

\* _is_complete, and the size test of the headerless tape file.
IsComplete(o) == size[o] = raw

\* Fault: one incomplete output makes the script write all of them.
ConvertStartAll ==
  /\ phase = "idle"
  /\ raw > 0
  /\ \E o \in Outputs : ~IsComplete(o)
  /\ do' = Outputs
  /\ phase' = "convert"
  /\ size' = [o \in Outputs |-> 0]
  /\ header' = [o \in Headed |-> Placeholder]
  /\ written' = 0
  /\ UNCHANGED <<raw, gt, crashes>>

\* bvecs_to_bins.py opens, and so truncates, the outputs that are not complete.
ConvertStart ==
  /\ phase = "idle"
  /\ raw > 0
  /\ do' = {o \in Outputs : ~IsComplete(o)}
  /\ do' # {}
  /\ phase' = "convert"
  /\ size' = [o \in Outputs |-> IF o \in do' THEN 0 ELSE size[o]]
  /\ header' = [o \in Headed |-> IF o \in do' THEN Placeholder ELSE header[o]]
  /\ written' = 0
  /\ UNCHANGED <<raw, gt, crashes>>

\* The outputs that the current chunk has not been written to.
Behind == {o \in do : size[o] = written}

First(S) == Order[CHOOSE i \in DOMAIN Order : Order[i] \in S /\ \A j \in 1 .. i - 1 : Order[j] \notin S]

\* The chunk is written to one file after the other.
ConvertWrite ==
  /\ phase = "convert"
  /\ written < raw
  /\ Behind # {}
  /\ size' = [size EXCEPT ![First(Behind)] = @ + 1]
  /\ UNCHANGED <<phase, raw, header, do, written, gt, crashes>>

ConvertNextChunk ==
  /\ phase = "convert"
  /\ written < raw
  /\ Behind = {}
  /\ written' = written + 1
  /\ phase' = IF written' = raw THEN "header" ELSE "convert"
  /\ UNCHANGED <<raw, data, do, gt, crashes>>

\* The headers are filled in, and the script ends.
HeadersDue == {o \in do \cap Headed : header[o] # written}

ConvertHeader ==
  /\ phase = "header"
  /\ HeadersDue # {}
  /\ header' = [header EXCEPT ![First(HeadersDue)] = written]
  /\ UNCHANGED <<phase, raw, size, do, written, gt, crashes>>

ConvertEnd ==
  /\ phase = "header"
  /\ HeadersDue = {}
  /\ phase' = "idle"
  /\ do' = {} /\ written' = 0
  /\ UNCHANGED <<raw, data, gt, crashes>>

\* compute_gt.py loads what there is of the tape file.
GtStart ==
  /\ phase = "idle"
  /\ size["tape"] > 0
  /\ phase' = "gt_tape"
  /\ base' = size["tape"]
  /\ UNCHANGED <<raw, data, do, written, gtTape, gtDisk, crashes>>

GtWriteTape ==
  /\ phase = "gt_tape"
  /\ gtTape' = base
  /\ phase' = "gt_disk"
  /\ UNCHANGED <<raw, data, do, written, base, gtDisk, crashes>>

GtWriteDisk ==
  /\ phase = "gt_disk"
  /\ gtDisk' = base
  /\ base' = 0
  /\ phase' = "idle"
  /\ UNCHANGED <<raw, data, do, written, gtTape, crashes>>

\* The running script is killed.
Crash ==
  /\ phase # "idle"
  /\ crashes < MaxCrashes
  /\ crashes' = crashes + 1
  /\ phase' = "idle"
  /\ do' = {} /\ written' = 0 /\ base' = 0
  /\ UNCHANGED <<raw, data, gtTape, gtDisk>>

Download == DownloadStart \/ DownloadChunk
Convert == ConvertStart \/ ConvertWrite \/ ConvertNextChunk \/ ConvertHeader \/ ConvertEnd
Gt == GtStart \/ GtWriteTape \/ GtWriteDisk

Next == Download \/ Convert \/ Gt \/ Crash

Spec == Init /\ [][Next]_vars

\* A script that runs goes on, and the user runs the first two again until
\* they have nothing left to do, and the third after that.
Fairness ==
  /\ WF_vars(DownloadChunk)
  /\ WF_vars(Convert /\ phase # "idle")
  /\ WF_vars(Gt /\ phase # "idle")
  /\ SF_vars(DownloadStart)
  /\ SF_vars(ConvertStart)
  /\ SF_vars(GtStart)

FairSpec == Spec /\ Fairness
----------------------------------------------------------------------------
\* A conversion never truncates or rewrites the vectors of an output that is
\* complete, whichever of the other outputs it has to make again.
KeepsComplete ==
  \A o \in Outputs : raw > 0 /\ IsComplete(o) /\ raw' = raw => size'[o] = size[o]

CompleteKept == [][KeepsComplete]_vars

Prepared ==
  /\ \A o \in Outputs : size[o] = Chunks
  /\ gtTape = Chunks /\ gtDisk = Chunks

\* Whatever was killed where, running the scripts again ends with every output
\* holding all the vectors, and both systems scoring against a ground truth of
\* all of them: a file left by an interrupted run, or made from an incomplete
\* download, is not taken for a complete one.
EventuallyPrepared == <>[]Prepared

\* "Idempotent: any output whose size matches n*d*sizeof(dtype)+8 is skipped"
\* (bvecs_to_bins.py): what is skipped is what a full conversion would write.
Idempotent ==
  phase = "idle" /\ raw > 0 => \A o \in Headed : IsComplete(o) => header[o] = raw
============================================================================
