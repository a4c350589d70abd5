---------------------------- MODULE MCAlgorithms ----------------------------
(***************************************************************************)
(* The sequential algorithms side by side: a behaviour runs one of them    *)
(* and leaves the others at rest.                                          *)
(***************************************************************************)
EXTENDS ChunkRanges, ClockSweep, ReadRange, RowWindows

VARIABLE algorithm

\* Every small file and request, blocks of two bytes.
MCFileSizes == 0 .. 6
MCOffsets == 0 .. 4
MCLengths == 1 .. 6
MCAddresses == 0 .. 1

RangesAtRest == ranges = <<>>
SweepAtRest == /\ start = 0 /\ admission = "declared" /\ hand = 0 /\ referenced = <<>>
               /\ step = 0 /\ victim = Sweeping
ReadAtRest == /\ size = 0 /\ recorded = 0 /\ phase = "done"
              /\ request = [offset |-> 0, length |-> 1, address |-> 0, access |-> "buffered"]
              /\ total = 0 /\ tail = 0 /\ dst = <<>> /\ status = "ok"
              /\ issued = Nothing /\ result = None
WindowAtRest == options = 0 /\ arm = 0 /\ row = -1

Init ==
  \/ algorithm = "ranges" /\ RangesInit /\ SweepAtRest /\ ReadAtRest /\ WindowAtRest
  \/ algorithm = "sweep" /\ SweepInit /\ RangesAtRest /\ ReadAtRest /\ WindowAtRest
  \/ algorithm = "read" /\ ReadInit /\ RangesAtRest /\ SweepAtRest /\ WindowAtRest
  \/ algorithm = "windows" /\ WindowInit /\ RangesAtRest /\ SweepAtRest /\ ReadAtRest

Next ==
  /\ \/ algorithm = "ranges" /\ RangesNext /\ UNCHANGED <<sweepVars, readVars, windowVars>>
     \/ algorithm = "sweep" /\ SweepNext /\ UNCHANGED <<ranges, readVars, windowVars>>
     \/ algorithm = "read" /\ ReadNext /\ UNCHANGED <<ranges, sweepVars, windowVars>>
     \/ algorithm = "windows" /\ WindowNext /\ UNCHANGED <<ranges, sweepVars, readVars>>
  /\ UNCHANGED algorithm

Spec == Init /\ [][Next]_<<algorithm, ranges, sweepVars, readVars, windowVars>>

FairSpec == Spec /\ ReadFairness

=============================================================================
