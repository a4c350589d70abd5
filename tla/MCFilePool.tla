----------------------------- MODULE MCFilePool -----------------------------
(***************************************************************************)
(* FilePool on a small instance.                                           *)
(***************************************************************************)
EXTENDS FilePool, TLC

\* Chunks of one unit, always read in full: a fill fails here when it is cancelled.
MCChunkLength == [c \in Chunks |-> 1]
MCWholeReads == {[status |-> "ok", bytes |-> 1]}

\* One chunk at a time.
MCBatches == {<<c>> : c \in Chunks}

=============================================================================
