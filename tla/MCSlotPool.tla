----------------------------- MODULE MCSlotPool -----------------------------
(***************************************************************************)
(* SlotPool on small instances: model values for threads and chunks, the   *)
(* answers a backend can give, and the symmetries of the model values.     *)
(***************************************************************************)
EXTENDS SlotPool, TLC

CONSTANT LastChunk   \* the last chunk of the source

\* Two units a chunk, one in the tail.
MCChunkLength == [c \in Chunks |-> IF c = LastChunk THEN 1 ELSE 2]

\* In full, or not.
MCShortResults == {[status |-> "ok", bytes |-> 2], [status |-> "ok", bytes |-> 1]}

\* One unit at a time: the last chunk arrives whole, any other short.
MCOneUnit == {[status |-> "ok", bytes |-> 1]}

\* Every batch.
MCAllBatches == UNION {[1 .. n -> Chunks] : n \in 1 .. MaxBatch}

\* One chunk, or two full ones and the last: with two slots three different chunks are more
\* than the pool holds, and two chunks one of which is asked for twice just fit.
MCPastThePool ==
  {<<c>> : c \in Chunks}
    \union {<<c, d, LastChunk>> : c \in Chunks \ {LastChunk}, d \in Chunks \ {LastChunk}}

\* A chunk and the last one, or the chunk twice.
MCTailBatches == {<<c, d>> : c \in Chunks \ {LastChunk}, d \in Chunks}

\* Threads are interchangeable, and so are the chunks of full length.
MCSymmetry == Permutations(Threads) \union Permutations(Chunks \ {LastChunk})

=============================================================================
