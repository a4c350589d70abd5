--------------------------- MODULE MCTransferSet ---------------------------
(***************************************************************************)
(* Instances of TransferSet for TLC.                                       *)
(***************************************************************************)
EXTENDS TransferSet, TLC

From(offset, length, destination) ==
  [source |-> [offset |-> offset, length |-> length], destination |-> destination]

\* Ranges side by side, the same start, the same end, one inside the other in either
\* order, and a destination whose end is past the largest word.
MCSubmissions == {From(0, 2, 0), From(1, 2, 1), From(2, 1, 2), From(0, 3, 0), From(0, 2, 7)}

\* Two side by side and one across both.
MCThreeRanges == {From(0, 2, 0), From(2, 1, 2), From(0, 3, 0)}

\* A whole fill, a short one, a failed one.
MCFillResults == {[status |-> "ok", bytes |-> n] : n \in 1 .. 3}
                   \union {[status |-> "io_error", bytes |-> 0]}
MCTwoByteResults == {[status |-> "ok", bytes |-> 2], [status |-> "io_error", bytes |-> 0]}

MCSymmetry == Permutations(Threads)

=============================================================================
