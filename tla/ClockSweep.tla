----------------------------- MODULE ClockSweep -----------------------------
(***************************************************************************)
(* claim_victim of slot_pool.hpp as the loop the code runs: one turn per   *)
(* slot under the hand, ageing reference bits as it goes, the turns        *)
(* counted in words that wrap.  SlotPool models the same sweep by the slot *)
(* it ends on; SweepExact says the two agree from every pool.              *)
(***************************************************************************)
EXTENDS Integers

CONSTANTS
  NumSlots,   \* config.num_slots
  StepMod     \* the words that count turns (2^32 in the code)

\* create: num_slots is neither 0 nor as large as the sentinel NONE.
ASSUME NumSlotsAssumption == StepMod \in Nat /\ NumSlots \in 1 .. StepMod - 2

VARIABLES
  start,      \* the pool and the hand when the sweep begins
  admission,  \* the class of the request
  hand,       \* clock_hand_
  referenced, \* the reference bit of each slot
  step,       \* turns made
  victim      \* the slot returned, NONE, or Sweeping before that

sweepVars == <<start, admission, hand, referenced, step, victim>>

PoolSlots == 0 .. NumSlots - 1
NONE == -1
Sweeping == -2

\* What the sweep tells apart in a slot; a failed slot is one still pinned.
SlotView ==
  [pins : {0}, state : {"free", "filling"}, referenced : {FALSE}]
    \union [pins : {0, 1}, state : {"ready"}, referenced : BOOLEAN]
    \union [pins : {1}, state : {"filling", "failed"}, referenced : {FALSE}]

SweepInit ==
  /\ start \in [slots : [PoolSlots -> SlotView], hand : PoolSlots]
  /\ admission \in {"declared", "speculative"}
  /\ hand = start.hand
  /\ referenced = [s \in PoolSlots |-> start.slots[s].referenced]
  /\ step = 0 /\ victim = Sweeping

Fault_OneRevolution(class) == NumSlots

steps(class) == IF class = "declared" THEN (2 * NumSlots) % StepMod ELSE NumSlots

Candidate == start.slots[hand]

\* One turn of the loop: skip the slot, clear its bit, or return it.
Turn ==
  /\ victim = Sweeping /\ step < steps(admission)
  /\ step' = step + 1
  /\ hand' = IF hand + 1 = NumSlots THEN 0 ELSE hand + 1
  /\ \/ /\ \/ Candidate.pins # 0
           \/ Candidate.state \notin {"free", "ready"}
        /\ UNCHANGED <<referenced, victim>>
     \/ /\ Candidate.pins = 0 /\ Candidate.state = "ready" /\ referenced[hand]
        /\ referenced' = [referenced EXCEPT ![hand] = (admission = "speculative")]
        /\ UNCHANGED victim
     \/ /\ Candidate.pins = 0
        /\ \/ Candidate.state = "free"
           \/ Candidate.state = "ready" /\ ~referenced[hand]
        /\ referenced' = [referenced EXCEPT ![hand] = FALSE]   \* make_free
        /\ victim' = hand
  /\ UNCHANGED <<start, admission>>

GiveUp ==
  /\ victim = Sweeping /\ step >= steps(admission)
  /\ victim' = NONE
  /\ UNCHANGED <<start, admission, hand, referenced, step>>

SweepNext == Turn \/ GiveUp
SweepSpec == SweepInit /\ [][SweepNext]_sweepVars

-----------------------------------------------------------------------------
(***************************************************************************)
(* Properties.                                                             *)
(***************************************************************************)

\* SlotPool in the state the sweep begins in; the sweep reads slots and clockHand only.
P == INSTANCE SlotPool WITH
       Threads <- {}, Chunks <- {}, ChunkLength <- <<>>, MaxBatch <- 1, MaxTickets <- 1,
       GenMod <- StepMod, Batches <- {}, Usage <- {}, FillResults <- {},
       MaxDuplicates <- 0, None <- "none",
       slots <- start.slots, clockHand <- start.hand,
       index <- <<>>, records <- <<>>, inFlight <- 0, pinsTotal <- 0, ticketsHeld <- 0,
       mutex <- "none", call <- <<>>, leases <- {}, tickets <- {}, requests <- {},
       late <- {}, bytes <- <<>>

\* The loop ends on the slot SlotPool's claim_victim names, with the hand just past it
\* and with exactly the reference bits cleared that SlotPool clears.  A sweep that finds
\* nothing changes nothing: its whole revolutions bring the hand back, and no unpinned
\* ready slot is left that it could have aged in vain.
SweepExact ==
  /\ victim \in PoolSlots =>
       \E k \in P!SweepSteps(admission) :
         /\ P!claim_victim(admission, k)
         /\ victim = P!SlotAt(k) /\ hand = P!SlotAt(k + 1)
         /\ \A s \in PoolSlots \ {victim} :
              referenced[s] = P!SweptSlots(admission, k, Candidate)[s].referenced
  /\ victim = NONE =>
       /\ P!NoVictim(admission)
       /\ hand = start.hand
       /\ \A s \in PoolSlots : referenced[s] = start.slots[s].referenced

\* transfer.hpp on pool_exhausted, the answer to a declared request whose sweep ends
\* without a slot: "Every slot is pinned or filling; no reclaimable victim".
ExhaustedMeansNoVictim ==
  victim = NONE /\ admission = "declared" =>
    \A s \in PoolSlots : start.slots[s].pins # 0 \/ start.slots[s].state = "filling"

=============================================================================
