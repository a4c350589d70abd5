----------------------------- MODULE ChunkIndex -----------------------------
(***************************************************************************)
(* The chunk index of slot_pool.hpp: open addressing with linear probing   *)
(* and backward-shift deletion, in a table of at least twice as many       *)
(* places as there are slots.  A place holds a slot; its chunk is looked   *)
(* up in the slot.  The erase loop is a step per place it looks at; it     *)
(* runs under the pool's mutex, so nothing is looked up half way.          *)
(***************************************************************************)
EXTENDS Integers, FiniteSets

CONSTANTS
  Chunks,     \* the chunks of the source
  Slots,      \* the slots of the pool
  Size,       \* index_.size(): bit_ceil(2 * num_slots)
  Homes,      \* the index_home functions to consider
  None        \* NONE

Places == 0 .. Size - 1

ASSUME IndexAssumption ==
  /\ IsFiniteSet(Slots) /\ None \notin Slots
  /\ Size \in Nat \ {0} /\ 2 * Cardinality(Slots) <= Size
  /\ Homes \subseteq [Chunks -> Places]

VARIABLES
  home,       \* index_home, whatever the hash makes of it
  table,      \* index_
  chunkOf,    \* slots_[s].chunk
  phase,      \* "idle", or "shift": inside index_erase
  hole, pos   \* its locals

vars == <<home, table, chunkOf, phase, hole, pos>>

Init ==
  /\ home \in Homes
  /\ table = [p \in Places |-> None]
  /\ chunkOf = [s \in Slots |-> None]
  /\ phase = "idle" /\ hole = 0 /\ pos = 0

Probe(c, k) == (home[c] + k) % Size

\* The places index_find looks at end at the chunk or at an empty place.
Stops(c, k) == \/ table[Probe(c, k)] = None
               \/ chunkOf[table[Probe(c, k)]] = c

FindPlace(c) ==
  Probe(c, CHOOSE k \in Places : Stops(c, k) /\ \A j \in 0 .. k - 1 : ~Stops(c, j))

index_find(c) == table[FindPlace(c)]

\* The first empty place from home on.
InsertPlace(c) ==
  Probe(c, CHOOSE k \in Places : /\ table[Probe(c, k)] = None
                                 /\ \A j \in 0 .. k - 1 : table[Probe(c, j)] # None)

\* start_fill on a slot that is in no place: it gets the chunk and is entered.
index_insert(c, s) ==
  /\ phase = "idle"
  /\ index_find(c) = None
  /\ \A p \in Places : table[p] # s
  /\ chunkOf' = [chunkOf EXCEPT ![s] = c]
  /\ table' = [table EXCEPT ![InsertPlace(c)] = s]
  /\ UNCHANGED <<home, phase, hole, pos>>

NextPlace(p) == (p + 1) % Size

\* make_free or a failed fill: the chunk's place becomes the hole.
EraseBegin(c) ==
  /\ phase = "idle"
  /\ index_find(c) # None
  /\ phase' = "shift"
  /\ hole' = FindPlace(c)
  /\ pos' = NextPlace(FindPlace(c))
  /\ UNCHANGED <<home, table, chunkOf>>

\* The entry at pos moves into the hole unless its home lies cyclically after the
\* hole and no further than pos.
Fault_StrictlyFurther ==
  (pos - home[chunkOf[table[pos]]]) % Size > (pos - hole) % Size
Moves == (pos - home[chunkOf[table[pos]]]) % Size >= (pos - hole) % Size

EraseShift ==
  /\ phase = "shift" /\ table[pos] # None
  /\ IF Moves THEN table' = [table EXCEPT ![hole] = table[pos]] /\ hole' = pos
              ELSE UNCHANGED <<table, hole>>
  /\ pos' = NextPlace(pos)
  /\ UNCHANGED <<home, chunkOf, phase>>

EraseEnd ==
  /\ phase = "shift" /\ table[pos] = None
  /\ table' = [table EXCEPT ![hole] = None]
  /\ phase' = "idle" /\ hole' = 0 /\ pos' = 0
  /\ UNCHANGED <<home, chunkOf>>

Next ==
  \/ \E c \in Chunks : EraseBegin(c) \/ \E s \in Slots : index_insert(c, s)
  \/ EraseShift \/ EraseEnd

Spec == Init /\ [][Next]_vars

-----------------------------------------------------------------------------
(***************************************************************************)
(* Properties.                                                             *)
(***************************************************************************)

\* The places that count: during an erase the hole still shows what it held.
Entries == {p \in Places : table[p] # None /\ ~(phase = "shift" /\ p = hole)}

\* The map the table stands for: what a lookup returns between operations, and what
\* is entered while an erase is shifting (nobody looks then).
Holding(c) == {p \in Entries : chunkOf[table[p]] = c}
Map == [c \in Chunks |-> IF phase = "idle" THEN index_find(c)
                         ELSE IF Holding(c) = {} THEN None
                         ELSE table[CHOOSE p \in Holding(c) : TRUE]]

Abstract == INSTANCE ChunkMap WITH map <- Map

\* The index behaves as a map: an insert is found at once, an erase forgets its chunk
\* and shifting makes no other chunk unfindable, however the hash places them.
ImplementsMap == Abstract!Spec

=============================================================================
