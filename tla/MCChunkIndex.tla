---------------------------- MODULE MCChunkIndex ----------------------------
EXTENDS ChunkIndex, TLC

\* Every way the hash can place the chunks.  Turning the table round changes nothing,
\* so some chunk may as well be at home in place 0.
MCHomes == {f \in [Chunks -> Places] : \E c \in Chunks : f[c] = 0}

MCSymmetry == Permutations(Chunks) \union Permutations(Slots)

=============================================================================
