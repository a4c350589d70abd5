------------------------------ MODULE ChunkMap ------------------------------
(***************************************************************************)
(* What the chunk index promises: a partial map from chunks to slots, one  *)
(* chunk a slot.  SlotPool.tla uses the index as this map.                 *)
(***************************************************************************)
CONSTANTS Chunks, Slots, None
VARIABLE map

Init == map = [c \in Chunks |-> None]

Put(c, s) ==
  /\ map[c] = None
  /\ \A d \in Chunks : map[d] # s
  /\ map' = [map EXCEPT ![c] = s]

Remove(c) ==
  /\ map[c] # None
  /\ map' = [map EXCEPT ![c] = None]

Next == \E c \in Chunks : Remove(c) \/ \E s \in Slots : Put(c, s)

Spec == Init /\ [][Next]_map

=============================================================================
