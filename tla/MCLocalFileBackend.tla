------------------------- MODULE MCLocalFileBackend -------------------------
(***************************************************************************)
(* Instances of LocalFileBackend for TLC.                                  *)
(***************************************************************************)
EXTENDS LocalFileBackend, TLC

CONSTANTS s1, s2,     \* two sources
          q1, q2      \* a request for the first; a misaligned one for the second

\* Every request but q2 names the first source.
MCSourceOf == [q \in Requests |-> IF q = q2 THEN s2 ELSE s1]

MCBuffered == {[source |-> s1, access |-> "buffered"]}
MCBothFiles == {[source |-> s1, access |-> "buffered"], [source |-> s2, access |-> "uncached"]}

\* All of the two bytes asked for, one of them, a failed read.
MCFillResults == {[status |-> "ok", bytes |-> 2], [status |-> "ok", bytes |-> 1],
                  [status |-> "io_error", bytes |-> 0]}
MCWholeReads == {[status |-> "ok", bytes |-> 2]}

MCSymmetry == Permutations(Workers) \union Permutations(Handles) \union Permutations(Admins)

=============================================================================
