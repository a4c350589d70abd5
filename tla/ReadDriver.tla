----------------------------- MODULE ReadDriver -----------------------------
(***************************************************************************)
(* main's measuring loop in read_shootout.cpp: round after round it opens  *)
(* a strategy, asks it for one row per miss into a ring of slots, hashes   *)
(* what it got, closes the strategy and checks the hashes.  A row is       *)
(* NumPieces pieces; RowWindows has the arithmetic.  Every miss asks for a *)
(* row of its own, so a row is named by its miss.                          *)
(***************************************************************************)
EXTENDS Integers

CONSTANTS
  KSlots,      \* kSlots
  Misses,      \* min(misses, rows)
  NumPieces,   \* the pieces a strategy reads a row in
  Rounds,      \* how many strategies are run, one after the other
  None         \* nothing: bytes of no row

ASSUME DriverAssumption == /\ {KSlots, Misses, NumPieces, Rounds} \subseteq Nat \ {0}
                           /\ None \notin Nat

VARIABLES
  arm,         \* the strategy that runs
  round,       \* how many have been run
  miss,        \* i: the miss being served
  phase,       \* main: "opening" a strategy, "ready" for a miss, "reading" it, holding
               \* what it "got", "closing", "verifying", "exited" through fail(), "done"
  contents     \* the piece of the file each piece of the slots shows, None if torn

driverVars == <<arm, round, miss, phase>>

Pieces == 1 .. NumPieces
Source(m, p) == m * NumPieces + p - 1
Destination(m, p) == (m % KSlots) * NumPieces + p - 1
SlotBytes == 0 .. KSlots * NumPieces - 1

DriverInit ==
  /\ arm = "inline" /\ round = 0 /\ miss = 0 /\ phase = "opening"
  /\ contents = [b \in SlotBytes |-> None]

NextRound ==
  /\ round' = round + 1 /\ miss' = 0
  /\ phase' = IF round + 1 = Rounds THEN "done" ELSE "opening"
  /\ UNCHANGED arm

Open(a) ==
  /\ phase = "opening" /\ phase' = "ready"
  /\ arm' = a
  /\ UNCHANGED <<round, miss>>

\* This host cannot run the strategy; or the file cannot be evicted, and main fails.
Skip == phase = "opening" /\ NextRound
CannotEvict == phase = "opening" /\ phase' = "exited" /\ UNCHANGED <<arm, round, miss>>

Ask(a) ==
  /\ phase = "ready" /\ arm = a /\ miss < Misses
  /\ phase' = "reading"
  /\ UNCHANGED <<arm, round, miss>>

\* read returns the row, or nullptr and main fails.
Return(ok) ==
  /\ phase = "reading"
  /\ phase' = IF ok THEN "got" ELSE "exited"
  /\ UNCHANGED <<arm, round, miss>>

\* The bytes are hashed before the next miss may reuse a slot.
Sample ==
  /\ phase = "got" /\ phase' = "ready"
  /\ miss' = miss + 1
  /\ UNCHANGED <<arm, round>>

Close(a) ==
  /\ phase = "ready" /\ arm = a /\ miss = Misses
  /\ phase' = "closing"
  /\ UNCHANGED <<arm, round, miss>>

Closed == phase = "closing" /\ phase' = "verifying" /\ UNCHANGED <<arm, round, miss>>

\* close() of a strategy with nobody to wait for.
CloseAtOnce(a) ==
  /\ phase = "ready" /\ arm = a /\ miss = Misses
  /\ phase' = "verifying"
  /\ UNCHANGED <<arm, round, miss>>

\* The rows hashed are read again another way.  RowsStay says that they agree; the
\* second read may fail.
Verify ==
  /\ phase = "verifying"
  /\ NextRound \/ (phase' = "exited" /\ UNCHANGED <<arm, round, miss>>)

Over == phase \in {"done", "exited"} /\ UNCHANGED driverVars

\* Where piece q of a row goes, and what its slot holds once a reader has started on it
\* and once the reader has stopped, with everything or with too little.
At(q) == Destination(q.miss, q.part)
Torn(q, bytes) == [bytes EXCEPT ![At(q)] = None]
Landed(q, whole, bytes) ==
  [bytes EXCEPT ![At(q)] = IF whole THEN Source(q.miss, q.part) ELSE None]

\* NaiveFread, InlineRead: the calling thread reads the row itself.
InlineRead(whole) ==
  /\ phase = "ready" /\ arm = "inline" /\ miss < Misses
  /\ contents' = [b \in SlotBytes |->
       IF \E p \in Pieces : b = Destination(miss, p)
       THEN IF whole THEN Source(miss, 1) + (b % NumPieces) ELSE None
       ELSE contents[b]]
  /\ phase' = IF whole THEN "got" ELSE "exited"
  /\ UNCHANGED <<arm, round, miss>>

=============================================================================
