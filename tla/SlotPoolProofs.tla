--------------------------- MODULE SlotPoolProofs ---------------------------
(***************************************************************************)
(* Proofs about SlotPool, for every number of threads, slots, chunks,      *)
(* tickets and duplicates: its types, and that every lease shows the bytes *)
(* of its chunk, with the facts that rests on: pins are exactly the leases, *)
(* fills are exactly the requests, the index is exactly the filling and    *)
(* ready slots.                                                            *)
(***************************************************************************)
EXTENDS SlotPool, FiniteSetTheorems, TLAPS

-----------------------------------------------------------------------------
(***************************************************************************)
(* The types of what the operators build.                                  *)
(***************************************************************************)

\* A sweep visits slots only.
LEMMA SlotAtType ==
  ASSUME clockHand \in Slots, NEW k \in Nat
  PROVE  SlotAt(k) \in Slots
BY SizeAssumption DEF SlotAt, Slots

\* Generations wrap inside their range (start_fill, prefetch).
LEMMA NextGenType ==
  ASSUME NEW g \in Generations
  PROVE  NextGen(g) \in Generations
BY SizeAssumption DEF NextGen, Generations

\* A batch is a non-empty sequence of chunks within the limit.
LEMMA BatchType ==
  ASSUME NEW b \in Batches
  PROVE  /\ b \in Seq(Chunks)
         /\ Len(b) \in 1 .. MaxBatch
         /\ \A i \in 1 .. Len(b) : b[i] \in Chunks
<1>1. PICK n \in 1 .. MaxBatch : b \in [1 .. n -> Chunks]
  BY InputAssumption
<1>2. b \in Seq(Chunks) /\ Len(b) = n
  BY <1>1
<1> QED
  BY <1>1, <1>2

\* start_fill leaves a slot of the right shape.
LEMMA StartedSlotType ==
  ASSUME NEW old \in Slot, NEW c \in Chunks
  PROVE  StartedSlot(old, c) \in Slot
BY NextGenType DEF StartedSlot, Slot, SlotState, Status

\* So does make_free.
LEMMA MakeFreeType ==
  ASSUME NEW old \in Slot
  PROVE  make_free(old) \in Slot
BY DEF make_free, Slot, SlotState, Status

\* And a pin.
LEMMA PinnedSlotType ==
  ASSUME NEW old \in Slot
  PROVE  PinnedSlot(old) \in Slot
<1> DEFINE counted == [old EXCEPT !.pins = @ + 1]
<1>1. counted \in Slot
  BY DEF Slot
<1>2. PinnedSlot(old) = [counted EXCEPT !.referenced = TRUE, !.hintUnconsumed = FALSE]
  BY DEF PinnedSlot, Slot
<1> QED
  BY <1>1, <1>2 DEF Slot

\* And an unpin.
LEMMA UnpinnedSlotType ==
  ASSUME NEW old \in Slot
  PROVE  UnpinnedSlot(old) \in Slot
<1> DEFINE s == [old EXCEPT !.pins = @ - 1]
<1>1. s \in Slot
  BY DEF Slot
<1> QED
  BY <1>1, MakeFreeType DEF UnpinnedSlot

\* And the end of a fill.
LEMMA LandedSlotType ==
  ASSUME NEW old \in Slot, NEW status \in Status
  PROVE  LandedSlot(old, status) \in Slot
<1> DEFINE failed == [old EXCEPT !.state = "failed", !.failure = status,
                                 !.hintUnconsumed = FALSE, !.waiters = {}]
<1>1. failed \in Slot
  BY DEF Slot, SlotState
<1>2. [old EXCEPT !.state = "ready", !.waiters = {}] \in Slot
  BY DEF Slot, SlotState
<1> QED
  BY <1>1, <1>2, MakeFreeType DEF LandedSlot

\* A sweep that ends on a slot leaves every slot of the right shape.
LEMMA SweptSlotsType ==
  ASSUME slots \in [Slots -> Slot], NEW a, NEW k, NEW new \in Slot
  PROVE  SweptSlots(a, k, new) \in [Slots -> Slot]
<1>1. \A s \in Slots : [slots[s] EXCEPT !.referenced = FALSE] \in Slot
  BY DEF Slot
<1> QED
  BY <1>1 DEF SweptSlots

\* A call is idle, or one of the records the entry points build.
LEMMA IdleType == Idle \in Call
BY SizeAssumption DEF Idle, Call, Ops, Pcs, AdmissionClass, Status, Records

LEMMA NewCallType ==
  ASSUME NEW op \in Ops, NEW pc \in Pcs, NEW b \in Batches \union {<<>>},
         NEW a \in AdmissionClass, NEW r \in Records, NEW d \in BOOLEAN
  PROVE  [Idle EXCEPT !.op = op, !.pc = pc, !.batch = b, !.admission = a,
                      !.record = r, !.deadline = d] \in Call
BY IdleType DEF Call

\* What a step may do to the call of one thread.
LEMMA CallUpdateType ==
  ASSUME call \in [Threads -> Call], NEW t \in Threads
  PROVE  /\ [call EXCEPT ![t] = Idle] \in [Threads -> Call]
         /\ \A pc \in Pcs : [call EXCEPT ![t].pc = pc] \in [Threads -> Call]
         /\ \A f \in Status : [call EXCEPT ![t] = [@ EXCEPT !.pc = "unwind", !.failure = f]]
                                \in [Threads -> Call]
         /\ \A op \in Ops : Handling(t, op) =>
              /\ ThisChunk(t) \in Chunks
              /\ call[t].done + 1 \in 1 .. MaxBatch
              /\ [call EXCEPT ![t].done = @ + 1] \in [Threads -> Call]
<1>1. [call EXCEPT ![t] = Idle] \in [Threads -> Call]
  BY IdleType
<1>2. \A pc \in Pcs : [call EXCEPT ![t].pc = pc] \in [Threads -> Call]
  BY DEF Call
<1>3. \A f \in Status : [call EXCEPT ![t] = [@ EXCEPT !.pc = "unwind", !.failure = f]]
                         \in [Threads -> Call]
  BY DEF Call, Pcs
<1>4. ASSUME NEW op \in Ops, Handling(t, op)
      PROVE  /\ ThisChunk(t) \in Chunks
             /\ call[t].done + 1 \in 1 .. MaxBatch
             /\ [call EXCEPT ![t].done = @ + 1] \in [Threads -> Call]
  <2>1. call[t].done \in 0 .. MaxBatch /\ call[t].batch \in Batches \union {<<>>}
    BY DEF Call
  <2>2. call[t].batch \in Batches
    BY <1>4, <2>1 DEF Handling
  <2> DEFINE b == call[t].batch
  <2> HIDE DEF b
  <2>a. /\ Len(b) \in 1 .. MaxBatch
        /\ \A i \in 1 .. Len(b) : b[i] \in Chunks
    BY <2>2, BatchType DEF b
  <2>b. call[t].done + 1 \in 1 .. Len(b)
    BY <1>4, <2>1, <2>a, SizeAssumption DEF Handling, b
  <2>3. ThisChunk(t) \in Chunks /\ call[t].done + 1 \in 1 .. MaxBatch
    BY <2>a, <2>b, SizeAssumption DEF ThisChunk, b
  <2>4. [call EXCEPT ![t].done = @ + 1] \in [Threads -> Call]
    BY <2>1, <2>3 DEF Call
  <2> QED
    BY <2>3, <2>4
<1> QED
  BY <1>1, <1>2, <1>3, <1>4

\* A record keeps its shape when it is settled, recycled or given an outcome.
LEMMA RecycledType ==
  ASSUME NEW old \in TicketRecord
  PROVE  Recycled(old) \in TicketRecord
<1>1. <<>> \in Seq(Status)
  OBVIOUS
<1>2. [old EXCEPT !.inUse = FALSE, !.batch = <<>>, !.outcome = <<>>] \in TicketRecord
  BY <1>1 DEF TicketRecord
<1> QED
  BY <1>2 DEF Recycled

LEMMA SettledRecordType ==
  ASSUME records \in [Records -> TicketRecord], NEW r \in Records, NEW E,
         NEW status \in Status
  PROVE  SettledRecord(r, E, status) \in TicketRecord
<1> DEFINE old == records[r]
           mine == {i \in 1 .. MaxBatch : <<r, i>> \in E}
           out == [i \in DOMAIN old.outcome |-> IF i \in mine THEN status
                                                              ELSE old.outcome[i]]
           new == [old EXCEPT !.outcome = out, !.pending = @ - Cardinality(mine)]
<1>1. old \in TicketRecord /\ old.outcome \in Seq(Status)
  BY DEF TicketRecord
<1>2. out \in Seq(Status)
  <2>1. PICK n \in Nat : old.outcome \in [1 .. n -> Status]
    BY <1>1
  <2>2. out \in [1 .. n -> Status]
    BY <2>1
  <2>3. \A f \in [1 .. n -> Status] : f \in Seq(Status)
    OBVIOUS
  <2> QED
    BY <2>2, <2>3
<1>3. Cardinality(mine) \in Nat
  <2>1. IsFiniteSet(1 .. MaxBatch)
    BY FS_Interval, SizeAssumption
  <2>2. mine \subseteq 1 .. MaxBatch
    OBVIOUS
  <2> QED
    BY <2>1, <2>2, FS_Subset, FS_CardinalityType
<1>4. new \in TicketRecord
  <2> DEFINE n == old.pending - Cardinality(mine)
  <2>1. n \in Int
    BY <1>1, <1>3 DEF TicketRecord
  <2> HIDE DEF out, n
  <2>2. [old EXCEPT !.outcome = out, !.pending = n] \in TicketRecord
    BY <1>1, <1>2, <2>1 DEF TicketRecord
  <2> QED
    BY <2>2 DEF n
<1>5. SettledRecord(r, E, status) = Recycled(new)
  BY DEF SettledRecord
<1> QED
  BY <1>4, <1>5, RecycledType

LEMMA WithOutcomeType ==
  ASSUME NEW old \in TicketRecord, NEW o \in Status
  PROVE  WithOutcome(old, o) \in TicketRecord
<1> DEFINE out == Append(old.outcome, o)
           n == IF o = "pending" THEN old.pending + 1 ELSE old.pending
<1>1. out \in Seq(Status) /\ n \in Int
  BY DEF TicketRecord
<1> HIDE DEF out, n
<1>2. [old EXCEPT !.outcome = out, !.pending = n] \in TicketRecord
  BY <1>1 DEF TicketRecord
<1> QED
  BY <1>2 DEF WithOutcome, out, n

LEMMA SetOutcomeType ==
  ASSUME records \in [Records -> TicketRecord], NEW t \in Threads,
         NEW o \in Status, SetOutcome(t, o)
  PROVE  records' \in [Records -> TicketRecord]
BY WithOutcomeType DEF SetOutcome

\* The part of the state that submit decides, accepted or refused.
LEMMA AcceptedType ==
  ASSUME TypeOK, NEW k \in Nat, NEW c \in Chunks, SubmitAccepted(k, c)
  PROVE  /\ index' \in [Chunks -> Slots \union {None}]
         /\ clockHand' \in Slots
         /\ inFlight' \in Int
         /\ requests' \subseteq Request
         /\ late' \subseteq Token
         /\ bytes' \in [Slots -> Chunks \union {None}]
<1>1. SlotAt(k) \in Slots /\ SlotAt(k + 1) \in Slots
  BY SlotAtType DEF TypeOK
<1>2. NextGen(slots[SlotAt(k)].generation) \in Generations
  BY <1>1, NextGenType DEF TypeOK, Slot
<1>3. [slot |-> SlotAt(k), generation |-> NextGen(slots[SlotAt(k)].generation),
       chunk |-> c] \in Request
  BY <1>1, <1>2 DEF Request
<1>4. index' \in [Chunks -> Slots \union {None}]
  BY <1>1 DEF SubmitAccepted, TypeOK
<1> QED
  BY <1>1, <1>3, <1>4 DEF SubmitAccepted, TypeOK

LEMMA RefusedType ==
  ASSUME TypeOK, NEW a, NEW k \in Nat, NEW c \in Chunks, SubmitRefused(a, k, c)
  PROVE  /\ slots' \in [Slots -> Slot]
         /\ index' \in [Chunks -> Slots \union {None}]
         /\ clockHand' \in Slots
         /\ UNCHANGED <<inFlight, requests, late, bytes>>
<1>1. SlotAt(k) \in Slots /\ SlotAt(k + 1) \in Slots
  BY SlotAtType DEF TypeOK
<1>2. make_free(StartedSlot(slots[SlotAt(k)], c)) \in Slot
  BY <1>1, StartedSlotType, MakeFreeType DEF TypeOK
<1>3. slots' \in [Slots -> Slot]
  BY <1>2, SweptSlotsType DEF SubmitRefused, TypeOK
<1> QED
  BY <1>1, <1>3 DEF SubmitRefused, TypeOK

\* A new lease and the slot it pins.
LEMMA MakeLeaseType ==
  ASSUME TypeOK, NEW t \in Threads, NEW s \in Slots, NEW g \in Generations,
         make_lease(t, s, g), NEW op \in Ops, Handling(t, op)
  PROVE  pinsTotal' \in Int /\ leases' \subseteq Lease
<1>1. ThisChunk(t) \in Chunks /\ call[t].done + 1 \in 1 .. MaxBatch
  BY CallUpdateType DEF TypeOK
<1>2. [owner |-> t, pos |-> call[t].done + 1, slot |-> s, generation |-> g,
       chunk |-> ThisChunk(t)] \in Lease
  BY <1>1 DEF Lease
<1> QED
  BY <1>2 DEF make_lease, TypeOK

\* The end of a lease.
LEMMA UnpinType ==
  ASSUME TypeOK, NEW l \in leases, unpin_locked(l)
  PROVE  slots' \in [Slots -> Slot] /\ pinsTotal' \in Int /\ leases' \subseteq Lease
<1>1. l.slot \in Slots
  BY DEF TypeOK, Lease
<1>2. UnpinnedSlot(slots[l.slot]) \in Slot
  BY <1>1, UnpinnedSlotType DEF TypeOK
<1> QED
  BY <1>1, <1>2 DEF unpin_locked, TypeOK

\* What may be delivered: a result that settles the fill.
Answer(res) == res \in FillResult /\ res.status # "pending"

LEMMA ResultsAnswer == \A res \in FillResults : Answer(res)
BY ResultAssumption DEF Answer

\* classify_fill reports a status.
LEMMA ClassifyType ==
  ASSUME NEW res, Answer(res), NEW n
  PROVE  classify_fill(res, n) \in Status
BY DEF Answer, classify_fill, FillResult, Status

LEMMA LandType ==
  ASSUME TypeOK, NEW token \in Token, NEW res, Answer(res), Land(token, res)
  PROVE  /\ slots' \in [Slots -> Slot]
         /\ index' \in [Chunks -> Slots \union {None}]
         /\ records' \in [Records -> TicketRecord]
         /\ inFlight' \in Int
         /\ call' \in [Threads -> Call]
<1> DEFINE s == slots[token.slot]
           status == classify_fill(res, ChunkLength[s.chunk])
<1>1. token.slot \in Slots /\ s \in Slot
  BY DEF TypeOK, Token
<1>2. status \in Status
  BY ClassifyType
<1> HIDE DEF status
<1>3. /\ slots' = [slots EXCEPT ![token.slot] = LandedSlot(s, status)]
      /\ index' = IF status = "ok" THEN index ELSE [index EXCEPT ![s.chunk] = None]
      /\ records' = [r \in Records |-> SettledRecord(r, s.waiters, status)]
      /\ inFlight' = inFlight - 1
      /\ notify_all
  BY DEF Land, status
<1>4. slots' \in [Slots -> Slot]
  BY <1>1, <1>2, <1>3, LandedSlotType DEF TypeOK
<1>5. records' \in [Records -> TicketRecord]
  BY <1>2, <1>3, SettledRecordType DEF TypeOK
<1>6. call' \in [Threads -> Call]
  <2>1. \A t \in Threads : [call[t] EXCEPT !.pc = "acquire"] \in Call
    BY DEF TypeOK, Call, Pcs
  <2> QED
    BY <1>3, <2>1 DEF notify_all, TypeOK
<1>7. index' \in [Chunks -> Slots \union {None}]
  BY <1>3 DEF TypeOK
<1>8. inFlight' \in Int
  BY <1>3 DEF TypeOK
<1> QED
  BY <1>4, <1>5, <1>6, <1>7, <1>8

-----------------------------------------------------------------------------
(***************************************************************************)
(* Type correctness.                                                       *)
(***************************************************************************)

LEMMA TypeInit == Init => TypeOK
<1> SUFFICES ASSUME Init PROVE TypeOK
  OBVIOUS
<1>1. InitialSlot \in Slot
  BY SizeAssumption DEF InitialSlot, Slot, SlotState, Status, Generations
<1>2. InitialRecord \in TicketRecord
  <2>1. <<>> \in Seq(Status)
    OBVIOUS
  <2> QED
    BY <2>1, SizeAssumption DEF InitialRecord, TicketRecord, Generations
<1>3. 0 \in Slots
  BY SizeAssumption DEF Slots
<1> QED
  BY <1>1, <1>2, <1>3, IdleType DEF Init, TypeOK

\* What each kind of step preserves: the steps of a call with the mutex held.
LEMMA TypeStep ==
  ASSUME TypeOK, NEW t \in Threads, Step(t)
  PROVE  TypeOK'
<1> USE DEF TypeOK
<1>a. \A k \in SweepSteps("declared") : k \in Nat
  BY SizeAssumption DEF SweepSteps
<1>b. "prefetch" \in Ops /\ "resolve" \in Ops /\ "try_resolve" \in Ops
  BY DEF Ops
<1>c. \A op \in Ops : Handling(t, op) =>
        /\ ThisChunk(t) \in Chunks
        /\ [call EXCEPT ![t].done = @ + 1] \in [Threads -> Call]
  BY CallUpdateType
<1>1. CASE PrefetchResident(t)
  <2>1. records' \in [Records -> TicketRecord]
    BY <1>1, SetOutcomeType DEF PrefetchResident, Status
  <2> QED
    BY <1>1, <1>b, <1>c, <2>1 DEF PrefetchResident, StepDone
<1>2. CASE PrefetchJoin(t)
  <2>1. records' \in [Records -> TicketRecord]
    BY <1>2, SetOutcomeType DEF PrefetchJoin, Status
  <2>2. Entry(t) \in Records \X (1 .. MaxBatch)
    BY <1>2, <1>b, CallUpdateType DEF PrefetchJoin, Entry, Call
  <2> DEFINE s == index[ThisChunk(t)]
             w == slots[s].waiters \union {Entry(t)}
  <2>3. s \in Slots /\ slots[s] \in Slot
    BY <1>2, <1>b, <1>c DEF PrefetchJoin
  <2>4. w \in SUBSET (Records \X (1 .. MaxBatch))
    BY <2>2, <2>3 DEF Slot
  <2>5. slots' = [slots EXCEPT ![s] = [slots[s] EXCEPT !.waiters = w]]
    BY <1>2, <2>3 DEF PrefetchJoin
  <2> HIDE DEF w, s
  <2>6. [slots[s] EXCEPT !.waiters = w] \in Slot
    BY <2>3, <2>4 DEF Slot
  <2>7. slots' \in [Slots -> Slot]
    BY <2>5, <2>6
  <2> QED
    BY <1>2, <1>b, <1>c, <2>1, <2>7 DEF PrefetchJoin, StepDone
<1>3. CASE PrefetchDeclined(t)
  <2>1. records' \in [Records -> TicketRecord]
    BY <1>3, SetOutcomeType DEF PrefetchDeclined, Status
  <2> QED
    BY <1>3, <1>b, <1>c, <2>1 DEF PrefetchDeclined, StepDone
<1>4. ASSUME NEW k \in SweepSteps("declared"), PrefetchFill(t, k)
      PROVE  TypeOK'
  <2>1. records' \in [Records -> TicketRecord]
    BY <1>4, SetOutcomeType DEF PrefetchFill, Status
  <2>2. k \in Nat /\ ThisChunk(t) \in Chunks /\ SlotAt(k) \in Slots
    BY <1>4, <1>a, <1>b, <1>c, SlotAtType DEF PrefetchFill
  <2>3. Entry(t) \in Records \X (1 .. MaxBatch)
    BY <1>4, <1>b, CallUpdateType DEF PrefetchFill, Entry, Call
  <2> DEFINE old == StartedSlot(slots[SlotAt(k)], ThisChunk(t))
             new == [old EXCEPT !.hintUnconsumed = TRUE, !.waiters = {Entry(t)}]
  <2>4. old \in Slot
    BY <2>2, StartedSlotType
  <2> HIDE DEF old
  <2>5. new \in Slot
    BY <2>3, <2>4 DEF Slot
  <2>6. slots' = SweptSlots(call[t].admission, k, new)
    BY <1>4 DEF PrefetchFill, old
  <2> HIDE DEF new
  <2>7. slots' \in [Slots -> Slot]
    BY <2>5, <2>6, SweptSlotsType
  <2>8. /\ index' \in [Chunks -> Slots \union {None}]
        /\ clockHand' \in Slots
        /\ inFlight' \in Int
        /\ requests' \subseteq Request
        /\ late' \subseteq Token
        /\ bytes' \in [Slots -> Chunks \union {None}]
    BY <1>4, <2>2, AcceptedType DEF PrefetchFill
  <2> QED
    BY <1>4, <1>b, <1>c, <2>1, <2>7, <2>8 DEF PrefetchFill, StepDone
<1>5. ASSUME NEW k \in SweepSteps("declared"), PrefetchRefused(t, k)
      PROVE  TypeOK'
  <2>1. records' \in [Records -> TicketRecord]
    BY <1>5, SetOutcomeType DEF PrefetchRefused, Status
  <2>2. k \in Nat /\ ThisChunk(t) \in Chunks
    BY <1>5, <1>a, <1>b, <1>c DEF PrefetchRefused
  <2>3. /\ slots' \in [Slots -> Slot]
        /\ index' \in [Chunks -> Slots \union {None}]
        /\ clockHand' \in Slots
        /\ UNCHANGED <<inFlight, requests, late, bytes>>
    BY <1>5, <2>2, RefusedType DEF PrefetchRefused
  <2> QED
    BY <1>5, <1>b, <1>c, <2>1, <2>3 DEF PrefetchRefused, StepDone
<1>6. CASE PrefetchReturn(t)
  <2>1. [owner |-> t, record |-> call[t].record,
         generation |-> records[call[t].record].generation] \in Ticket
    BY DEF Ticket, Call, TicketRecord
  <2> QED
    BY <1>6, <2>1, CallUpdateType DEF PrefetchReturn, poolVars
<1>7. CASE PinIndexed(t)
  <2>1. PICK op \in Ops : Handling(t, op)
    BY <1>7, <1>b DEF PinIndexed
  <2> DEFINE s == index[ThisChunk(t)]
  <2>2. s \in Slots
    BY <1>7, <1>c, <2>1 DEF PinIndexed
  <2>3. PinnedSlot(slots[s]) \in Slot
    BY <2>2, PinnedSlotType
  <2>4. slots' \in [Slots -> Slot]
    BY <1>7, <2>3 DEF PinIndexed
  <2>5. slots[s].generation \in Generations
    BY <2>2 DEF Slot
  <2>6. make_lease(t, s, slots[s].generation)
    BY <1>7 DEF PinIndexed
  <2> HIDE DEF s
  <2>7. pinsTotal' \in Int /\ leases' \subseteq Lease
    BY <2>1, <2>2, <2>5, <2>6, MakeLeaseType
  <2> QED
    BY <1>7, <1>c, <2>1, <2>4, <2>7 DEF PinIndexed, StepDone
<1>8. CASE ResolveExhausted(t)
  BY <1>8, CallUpdateType DEF ResolveExhausted, StopWith, poolVars, Status
<1>9. ASSUME NEW k \in SweepSteps("declared"), ResolveFill(t, k)
      PROVE  TypeOK'
  <2>1. k \in Nat /\ ThisChunk(t) \in Chunks /\ SlotAt(k) \in Slots
    BY <1>9, <1>a, <1>b, <1>c, SlotAtType DEF ResolveFill
  <2> DEFINE started == StartedSlot(slots[SlotAt(k)], ThisChunk(t))
  <2>2. started \in Slot
    BY <2>1, StartedSlotType
  <2>3. /\ slots' = SweptSlots("declared", k, PinnedSlot(started))
        /\ make_lease(t, SlotAt(k), started.generation)
    BY <1>9 DEF ResolveFill
  <2> HIDE DEF started
  <2>4. PinnedSlot(started) \in Slot /\ started.generation \in Generations
    BY <2>2, PinnedSlotType DEF Slot
  <2>5. slots' \in [Slots -> Slot]
    BY <2>3, <2>4, SweptSlotsType
  <2>6. pinsTotal' \in Int /\ leases' \subseteq Lease
    BY <1>9, <1>b, <2>1, <2>3, <2>4, MakeLeaseType DEF ResolveFill
  <2>7. /\ index' \in [Chunks -> Slots \union {None}]
        /\ clockHand' \in Slots
        /\ inFlight' \in Int
        /\ requests' \subseteq Request
        /\ late' \subseteq Token
        /\ bytes' \in [Slots -> Chunks \union {None}]
    BY <1>9, <2>1, AcceptedType DEF ResolveFill
  <2> QED
    BY <1>9, <1>b, <1>c, <2>5, <2>6, <2>7 DEF ResolveFill, StepDone
<1>10. ASSUME NEW k \in SweepSteps("declared"), ResolveRefused(t, k)
       PROVE  TypeOK'
  <2>2. k \in Nat /\ ThisChunk(t) \in Chunks
    BY <1>10, <1>a, <1>b, <1>c DEF ResolveRefused
  <2>3. /\ slots' \in [Slots -> Slot]
        /\ index' \in [Chunks -> Slots \union {None}]
        /\ clockHand' \in Slots
        /\ UNCHANGED <<inFlight, requests, late, bytes>>
    BY <1>10, <2>2, RefusedType DEF ResolveRefused
  <2> QED
    BY <1>10, <2>3, CallUpdateType DEF ResolveRefused, StopWith, Status
<1>11. ASSUME NEW l \in leases, Unwind(t, l)
       PROVE  TypeOK'
  BY <1>11, UnpinType DEF Unwind, unpin_locked
<1>12. CASE UnwindReturn(t)
  BY <1>12, CallUpdateType DEF UnwindReturn, poolVars
<1>13. CASE Sleep(t)
  BY <1>13, CallUpdateType DEF Sleep, poolVars, Pcs
<1>14. CASE Return(t)
  BY <1>14, CallUpdateType DEF Return, poolVars
<1>15. CASE ResolveFailed(t)
  <2>1. PICK l \in FirstFailed(t) : StopWith(t, slots[l.slot].failure)
    BY <1>15 DEF ResolveFailed
  <2>2. slots[l.slot].failure \in Status
    BY <2>1 DEF FirstFailed, OutSpan, Lease, Slot
  <2> QED
    BY <1>15, <2>1, <2>2, CallUpdateType DEF ResolveFailed, StopWith, poolVars
<1>16. CASE TryResolveReturn(t)
  BY <1>16, CallUpdateType DEF TryResolveReturn, poolVars
<1> QED
  BY <1>1, <1>2, <1>3, <1>4, <1>5, <1>6, <1>7, <1>8, <1>9, <1>10, <1>11, <1>12,
     <1>13, <1>14, <1>15, <1>16 DEF Step

\* Steps that first get the mutex.
LEMMA TypeLockStep ==
  ASSUME TypeOK, NEW t \in Threads, LockStep(t)
  PROVE  TypeOK'
<1> USE DEF TypeOK
<1>1. ASSUME NEW l \in leases, ReleaseAll(t, l)
      PROVE  TypeOK'
  BY <1>1, UnpinType DEF ReleaseAll, unpin_locked
<1>2. CASE ResolveLock(t)
  BY <1>2, CallUpdateType DEF ResolveLock, poolVars, Pcs
<1>3. CASE TryResolveLock(t)
  <2>1. call' \in [Threads -> Call]
    <3>1. "locked" \in Pcs
      BY DEF Pcs
    <3>2. /\ [call EXCEPT ![t] = Idle] \in [Threads -> Call]
          /\ [call EXCEPT ![t].pc = "locked"] \in [Threads -> Call]
      BY <3>1, CallUpdateType
    <3> QED
      BY <1>3, <3>2 DEF TryResolveLock
  <2>2. mutex' \in Threads \union {None}
    BY <1>3 DEF TryResolveLock
  <2> QED
    BY <1>3, <2>1, <2>2 DEF TryResolveLock, poolVars
<1>4. CASE Acquire(t)
  BY <1>4, CallUpdateType DEF Acquire, poolVars, Pcs
<1> QED
  BY <1>1, <1>2, <1>3, <1>4 DEF LockStep

\* What a thread begins between calls.
LEMMA TypeBegin ==
  ASSUME TypeOK, NEW t \in Threads, Begin(t)
  PROVE  TypeOK'
<1> USE DEF TypeOK
<1>1. ASSUME NEW b \in Batches, NEW a \in AdmissionClass, Prefetch(t, b, a)
      PROVE  TypeOK'
  <2>1. PICK r \in Records :
          /\ records' = [records EXCEPT ![r] =
               [generation |-> NextGen(records[r].generation), batch |-> b,
                outcome |-> <<>>, pending |-> 0, held |-> TRUE, inUse |-> TRUE]]
          /\ call' = [call EXCEPT ![t] =
               [Idle EXCEPT !.op = "prefetch", !.pc = "locked", !.batch = b,
                            !.admission = a, !.record = r]]
    BY <1>1 DEF Prefetch
  <2>2. [generation |-> NextGen(records[r].generation), batch |-> b,
         outcome |-> <<>>, pending |-> 0, held |-> TRUE, inUse |-> TRUE]
           \in TicketRecord
    <3>1. NextGen(records[r].generation) \in Generations
      BY NextGenType DEF TicketRecord
    <3>2. <<>> \in Seq(Status)
      OBVIOUS
    <3> QED
      BY <3>1, <3>2 DEF TicketRecord
  <2>3. [Idle EXCEPT !.op = "prefetch", !.pc = "locked", !.batch = b,
                     !.admission = a, !.record = r] \in Call
    BY IdleType DEF Call, Ops, Pcs
  <2>4. records' \in [Records -> TicketRecord] /\ call' \in [Threads -> Call]
    BY <2>1, <2>2, <2>3
  <2> QED
    BY <1>1, <2>4 DEF Prefetch
<1>2. ASSUME NEW b \in Batches, NEW op \in {"resolve", "try_resolve"}, Resolve(t, op, b)
      PROVE  TypeOK'
  <2>1. [Idle EXCEPT !.op = op, !.pc = "release", !.batch = b] \in Call
    BY IdleType DEF Call, Ops, Pcs
  <2> QED
    BY <1>2, <2>1 DEF Resolve, poolVars
<1>3. ASSUME NEW k \in tickets, NEW d \in BOOLEAN, Wait(t, k, d)
      PROVE  TypeOK'
  <2>1. [Idle EXCEPT !.op = "wait", !.pc = "locked", !.record = k.record,
                     !.deadline = d] \in Call
    BY IdleType DEF Call, Ops, Pcs, Ticket
  <2> QED
    BY <1>3, <2>1 DEF Wait, poolVars
<1>4. ASSUME NEW k \in tickets, DiscardTicket(t, k)
      PROVE  TypeOK'
  <2>1. k.record \in Records
    BY DEF Ticket
  <2> DEFINE old == records[k.record]
  <2>a. old \in TicketRecord
    BY <2>1
  <2> HIDE DEF old
  <2>b. [old EXCEPT !.held = FALSE] \in TicketRecord
    BY <2>a DEF TicketRecord
  <2>2. [records[k.record] EXCEPT !.held = FALSE] \in TicketRecord
    BY <2>b DEF old
  <2>3. Recycled([records[k.record] EXCEPT !.held = FALSE]) \in TicketRecord
    BY <2>2, RecycledType
  <2>4. records' \in [Records -> TicketRecord]
    BY <1>4, <2>1, <2>3 DEF DiscardTicket
  <2> QED
    BY <1>4, <2>4 DEF DiscardTicket
<1>5. ASSUME NEW l \in leases, ReleaseLease(t, l)
      PROVE  TypeOK'
  BY <1>5, UnpinType DEF ReleaseLease, unpin_locked
<1>6. ASSUME NEW d \in BOOLEAN, Drain(t, d)
      PROVE  TypeOK'
  <2>1. [Idle EXCEPT !.op = "drain", !.pc = "locked", !.deadline = d] \in Call
    BY IdleType DEF Call, Ops, Pcs
  <2> QED
    BY <1>6, <2>1 DEF Drain, poolVars
<1>7. ASSUME NEW c \in SUBSET Chunks, WontNeed(t, c)
      PROVE  TypeOK'
  <2>1. \A s \in Slots : [slots[s] EXCEPT !.referenced = FALSE] \in Slot
    BY DEF Slot
  <2>2. slots' \in [Slots -> Slot]
    BY <1>7, <2>1 DEF WontNeed
  <2> QED
    BY <1>7, <2>2 DEF WontNeed
<1> QED
  BY <1>1, <1>2, <1>3, <1>4, <1>5, <1>6, <1>7 DEF Begin

\* What the backend delivers.
LEMMA OnCompleteType ==
  ASSUME TypeOK, NEW token \in Token, NEW res, Answer(res), on_complete(token, res)
  PROVE  /\ slots' \in [Slots -> Slot]
         /\ index' \in [Chunks -> Slots \union {None}]
         /\ records' \in [Records -> TicketRecord]
         /\ clockHand' \in Slots
         /\ inFlight' \in Int /\ pinsTotal' \in Int /\ ticketsHeld' \in Int
         /\ call' \in [Threads -> Call]
         /\ UNCHANGED <<mutex, leases, tickets>>
<1> USE DEF TypeOK
<1>1. CASE UNCHANGED <<poolVars, call>>
  BY <1>1 DEF poolVars, on_complete
<1>2. CASE Land(token, res)
  <2>1. UNCHANGED <<clockHand, pinsTotal, ticketsHeld>>
    BY <1>2 DEF Land
  <2> QED
    BY <1>2, <2>1, LandType DEF on_complete
<1> QED
  BY <1>1, <1>2 DEF on_complete

LEMMA CompleteType ==
  ASSUME TypeOK, NEW q \in requests, NEW res, Answer(res), Complete(q, res)
  PROVE  TypeOK'
<1>1. TokenOf(q) \in Token /\ q.slot \in Slots /\ q.chunk \in Chunks
  BY DEF TypeOK, Request, Token, TokenOf
<1>2. on_complete(TokenOf(q), res)
  BY DEF Complete
<1>3. bytes' \in [Slots -> Chunks \union {None}]
  BY <1>1 DEF Complete, TypeOK
<1>4. late' \subseteq Token /\ requests' \subseteq Request
  BY <1>1 DEF Complete, TypeOK
<1> QED
  BY <1>1, <1>2, <1>3, <1>4, OnCompleteType DEF TypeOK

LEMMA TypeBackend ==
  ASSUME TypeOK, Backend
  PROVE  TypeOK'
<1>1. ASSUME NEW q \in requests, NEW res \in FillResults, Complete(q, res)
      PROVE  TypeOK'
  BY <1>1, ResultsAnswer, CompleteType
<1>2. ASSUME NEW token \in late, NEW res \in FillResults, Redeliver(token, res)
      PROVE  TypeOK'
  <2>1. token \in Token /\ on_complete(token, res)
    BY <1>2 DEF Redeliver, TypeOK
  <2>2. late' \subseteq Token /\ UNCHANGED <<requests, bytes>>
    BY <1>2 DEF Redeliver, TypeOK
  <2> QED
    BY <2>1, <2>2, ResultsAnswer, OnCompleteType DEF TypeOK
<1> QED
  BY <1>1, <1>2 DEF Backend

\* Every step of the specification keeps the types.
LEMMA TypeNext == TypeOK /\ [Next]_vars => TypeOK'
<1> SUFFICES ASSUME TypeOK, [Next]_vars PROVE TypeOK'
  OBVIOUS
<1>1. ASSUME NEW t \in Threads, SpuriousWake(t)
      PROVE  TypeOK'
  BY <1>1, CallUpdateType DEF SpuriousWake, poolVars, Pcs, TypeOK
<1>2. ASSUME NEW t \in Threads, Timeout(t)
      PROVE  TypeOK'
  BY <1>2, CallUpdateType DEF Timeout, poolVars, TypeOK
<1>3. CASE UNCHANGED vars
  BY <1>3 DEF vars, poolVars, TypeOK
<1> QED
  BY <1>1, <1>2, <1>3, TypeStep, TypeLockStep, TypeBegin, TypeBackend DEF Next

\* The pool, its records and its callers keep their types in every reachable
\* state of every instance.
THEOREM TypeCorrect == Spec => []TypeOK
BY TypeInit, TypeNext, PTL DEF Spec

-----------------------------------------------------------------------------
(***************************************************************************)
(* Counting pins.                                                          *)
(***************************************************************************)

\* The leases of a slot are finitely many when all leases are.
LEMMA PinningFinite ==
  ASSUME IsFiniteSet(leases), NEW s
  PROVE  IsFiniteSet(Pinning(s)) /\ Cardinality(Pinning(s)) \in Nat
<1>1. Pinning(s) \subseteq leases
  BY DEF Pinning
<1> QED
  BY <1>1, FS_Subset, FS_CardinalityType

\* A slot with no pins has no lease.
LEMMA NoPinsNoLease ==
  ASSUME IsFiniteSet(leases), PinsExact, NEW s \in Slots, slots[s].pins = 0
  PROVE  \A l \in leases : l.slot # s
<1>1. Cardinality(Pinning(s)) = 0
  BY DEF PinsExact
<1>2. Pinning(s) = {}
  BY <1>1, PinningFinite, FS_EmptySet
<1> QED
  BY <1>2 DEF Pinning

\* A new lease adds a pin to its slot and to no other.
LEMMA PinAdd ==
  ASSUME IsFiniteSet(leases), NEW l, l \notin leases, leases' = leases \union {l}
  PROVE  /\ IsFiniteSet(leases')
         /\ Cardinality(leases') = Cardinality(leases) + 1
         /\ \A s : Cardinality(Pinning(s))' =
              IF l.slot = s THEN Cardinality(Pinning(s)) + 1
                            ELSE Cardinality(Pinning(s))
<1>1. IsFiniteSet(leases') /\ Cardinality(leases') = Cardinality(leases) + 1
  BY FS_AddElement
<1>2. ASSUME NEW s
      PROVE  Cardinality(Pinning(s))' = IF l.slot = s THEN Cardinality(Pinning(s)) + 1
                                                      ELSE Cardinality(Pinning(s))
  <2>1. CASE l.slot = s
    <3>1. Pinning(s)' = Pinning(s) \union {l} /\ l \notin Pinning(s)
      BY <2>1 DEF Pinning
    <3> QED
      BY <2>1, <3>1, PinningFinite, FS_AddElement
  <2>2. CASE l.slot # s
    <3>1. Pinning(s)' = Pinning(s)
      BY <2>2 DEF Pinning
    <3> QED
      BY <2>2, <3>1
  <2> QED
    BY <2>1, <2>2
<1> QED
  BY <1>1, <1>2

\* The end of a lease takes one away.
LEMMA PinRemove ==
  ASSUME IsFiniteSet(leases), NEW l \in leases, leases' = leases \ {l}
  PROVE  /\ IsFiniteSet(leases')
         /\ Cardinality(leases') = Cardinality(leases) - 1
         /\ \A s : Cardinality(Pinning(s))' =
              IF l.slot = s THEN Cardinality(Pinning(s)) - 1
                            ELSE Cardinality(Pinning(s))
<1>1. IsFiniteSet(leases') /\ Cardinality(leases') = Cardinality(leases) - 1
  BY FS_RemoveElement
<1>2. ASSUME NEW s
      PROVE  Cardinality(Pinning(s))' = IF l.slot = s THEN Cardinality(Pinning(s)) - 1
                                                      ELSE Cardinality(Pinning(s))
  <2>1. CASE l.slot = s
    <3>1. Pinning(s)' = Pinning(s) \ {l} /\ l \in Pinning(s)
      BY <2>1 DEF Pinning
    <3> QED
      BY <2>1, <3>1, PinningFinite, FS_RemoveElement
  <2>2. CASE l.slot # s
    <3>1. Pinning(s)' = Pinning(s)
      BY <2>2 DEF Pinning
    <3> QED
      BY <2>2, <3>1
  <2> QED
    BY <2>1, <2>2
<1> QED
  BY <1>1, <1>2

-----------------------------------------------------------------------------
(***************************************************************************)
(* The pool half of the invariant.                                         *)
(***************************************************************************)

\* What the invariant reads of slot s is left alone.
Kept(s) == /\ slots'[s].chunk = slots[s].chunk
           /\ slots'[s].generation = slots[s].generation
           /\ slots'[s].pins = slots[s].pins
           /\ slots'[s].state = slots[s].state

outside == <<index, leases, requests, late, bytes, inFlight, pinsTotal>>

\* A step that touches neither keeps the pool half.
LEMMA KeepPool ==
  ASSUME TypeOK, PoolInv, UNCHANGED outside, \A s \in Slots : Kept(s)
  PROVE  PoolInv'
<1> USE DEF Kept, outside
<1>1. IsFiniteSet(leases)' /\ IsFiniteSet(requests)'
  BY DEF PoolInv
<1>2. PinsExact'
  BY DEF PoolInv, PinsExact, Pinning
<1>3. LeaseCurrent'
  BY DEF PoolInv, LeaseCurrent, TypeOK, Lease
<1>4. IndexConsistent'
  BY DEF PoolInv, IndexConsistent
<1>5. FillsMatchRequests'
  BY DEF PoolInv, FillsMatchRequests, TypeOK, Request
<1>6. ReadyBytes' /\ FailedPinned'
  BY DEF PoolInv, ReadyBytes, FailedPinned
<1>7. LateIsOld'
  BY DEF PoolInv, LateIsOld, TypeOK, Token
<1> QED
  BY <1>1, <1>2, <1>3, <1>4, <1>5, <1>6, <1>7 DEF PoolInv

\* A lease ends.
LEMMA UnpinPool ==
  ASSUME TypeOK, PoolInv, NEW l \in leases, unpin_locked(l)
  PROVE  /\ PoolInv'
         /\ \A s \in Slots : /\ slots[s].state = "ready" => slots'[s].state = "ready"
                             /\ slots[s].state # "failed" => slots'[s].state = slots[s].state
<1> DEFINE v == l.slot
<1>1. v \in Slots /\ slots[v] \in Slot /\ leases' = leases \ {l}
  BY DEF TypeOK, Lease, unpin_locked
<1>2. UNCHANGED <<index, requests, late, bytes, inFlight>> /\ pinsTotal' = pinsTotal - 1
  BY DEF unpin_locked
<1>3. \A s \in Slots \ {v} : Kept(s)
  BY <1>1 DEF unpin_locked, Kept, TypeOK
<1>4. \/ /\ slots[v].state = "failed" /\ slots[v].pins = 1
         /\ slots'[v].state = "free" /\ slots'[v].chunk = None
         /\ slots'[v].pins = 0 /\ slots'[v].generation = slots[v].generation
      \/ /\ slots[v].state = "failed" => slots[v].pins # 1
         /\ slots'[v].state = slots[v].state /\ slots'[v].chunk = slots[v].chunk
         /\ slots'[v].pins = slots[v].pins - 1
         /\ slots'[v].generation = slots[v].generation
  BY <1>1 DEF unpin_locked, UnpinnedSlot, make_free, TypeOK, Slot
<1> HIDE DEF v
<1>5. IsFiniteSet(leases') /\ PinsExact'
  <2>1. /\ IsFiniteSet(leases')
        /\ Cardinality(leases') = Cardinality(leases) - 1
        /\ \A s : Cardinality(Pinning(s))' =
              IF v = s THEN Cardinality(Pinning(s)) - 1 ELSE Cardinality(Pinning(s))
    BY <1>1, PinRemove DEF PoolInv, v
  <2>2. ASSUME NEW s \in Slots
        PROVE  slots'[s].pins = Cardinality(Pinning(s))'
    BY <1>3, <1>4, <2>1 DEF PoolInv, PinsExact, Kept
  <2> QED
    BY <1>2, <2>1, <2>2 DEF PoolInv, PinsExact
<1>6. LeaseCurrent'
  <2> SUFFICES ASSUME NEW m \in leases'
               PROVE  /\ slots'[m.slot].generation = m.generation
                      /\ slots'[m.slot].chunk = m.chunk
                      /\ slots'[m.slot].state # "free"
    BY DEF LeaseCurrent
  <2>1. m \in leases /\ m # l /\ m.slot \in Slots
    BY <1>1 DEF TypeOK, Lease
  <2>2. CASE m.slot # v
    BY <1>3, <2>1, <2>2 DEF PoolInv, LeaseCurrent, Kept
  <2>3. CASE m.slot = v
    <3>1. slots'[v].pins # 0
      <4>1. slots'[v].pins = Cardinality(Pinning(v))'
        BY <1>1, <1>5 DEF PinsExact
      <4>2. m \in Pinning(v)'
        BY <2>3 DEF Pinning
      <4>3. IsFiniteSet(Pinning(v)')
        <5>1. Pinning(v)' \subseteq leases'
          BY DEF Pinning
        <5> QED
          BY <1>5, <5>1, FS_Subset
      <4> QED
        BY <4>1, <4>2, <4>3, FS_EmptySet
    <3> QED
      BY <1>4, <2>1, <2>3, <3>1 DEF PoolInv, LeaseCurrent
  <2> QED
    BY <2>2, <2>3
<1>7. IndexConsistent'
  BY <1>2, <1>3, <1>4, ChunkAssumption DEF PoolInv, IndexConsistent, Kept
<1>8. IsFiniteSet(requests)' /\ FillsMatchRequests'
  BY <1>2, <1>3, <1>4 DEF PoolInv, FillsMatchRequests, Kept, TypeOK, Request
<1>9. ReadyBytes'
  BY <1>2, <1>3, <1>4 DEF PoolInv, ReadyBytes, Kept
<1>10. FailedPinned'
  <2>1. slots[v].pins \in Int
    BY <1>1 DEF Slot
  <2> QED
    BY <1>3, <1>4, <2>1 DEF PoolInv, FailedPinned, Kept
<1>11. LateIsOld'
  BY <1>2, <1>3, <1>4 DEF PoolInv, LateIsOld, Kept, TypeOK, Token
<1>12. \A s \in Slots : /\ slots[s].state = "ready" => slots'[s].state = "ready"
                        /\ slots[s].state # "failed" => slots'[s].state = slots[s].state
  BY <1>3, <1>4 DEF Kept
<1> QED
  BY <1>5, <1>6, <1>7, <1>8, <1>9, <1>10, <1>11, <1>12 DEF PoolInv

\* A resident or filling slot is pinned once more.
LEMMA PinPool ==
  ASSUME TypeOK, PoolInv, NEW v \in Slots, NEW l \in Lease, l \notin leases,
         l.slot = v, l.generation = slots[v].generation, l.chunk = slots[v].chunk,
         slots[v].state \in {"filling", "ready"},
         slots' = [slots EXCEPT ![v] = PinnedSlot(@)],
         leases' = leases \union {l}, pinsTotal' = pinsTotal + 1,
         UNCHANGED <<index, requests, late, bytes, inFlight>>
  PROVE  /\ PoolInv'
         /\ \A s \in Slots : slots'[s].state = slots[s].state
<1>1. \A s \in Slots \ {v} : Kept(s)
  BY DEF Kept, TypeOK
<1>2. /\ slots'[v].state = slots[v].state /\ slots'[v].chunk = slots[v].chunk
      /\ slots'[v].generation = slots[v].generation
      /\ slots'[v].pins = slots[v].pins + 1 /\ slots[v].pins \in Int
  BY DEF PinnedSlot, TypeOK, Slot
<1>3. /\ IsFiniteSet(leases')
      /\ Cardinality(leases') = Cardinality(leases) + 1
      /\ \A s : Cardinality(Pinning(s))' =
            IF v = s THEN Cardinality(Pinning(s)) + 1 ELSE Cardinality(Pinning(s))
  BY PinAdd DEF PoolInv
<1>4. PinsExact'
  <2>1. ASSUME NEW s \in Slots
        PROVE  slots'[s].pins = Cardinality(Pinning(s))'
    BY <1>1, <1>2, <1>3 DEF PoolInv, PinsExact, Kept
  <2> QED
    BY <1>3, <2>1 DEF PoolInv, PinsExact
<1>5. LeaseCurrent'
  BY <1>1, <1>2 DEF PoolInv, LeaseCurrent, Kept, TypeOK, Lease
<1>6. IndexConsistent'
  BY <1>1, <1>2 DEF PoolInv, IndexConsistent, Kept
<1>7. IsFiniteSet(requests)' /\ FillsMatchRequests'
  BY <1>1, <1>2 DEF PoolInv, FillsMatchRequests, Kept, TypeOK, Request
<1>8. ReadyBytes' /\ FailedPinned'
  BY <1>1, <1>2 DEF PoolInv, ReadyBytes, FailedPinned, Kept
<1>9. LateIsOld'
  BY <1>1, <1>2 DEF PoolInv, LateIsOld, Kept, TypeOK, Token
<1>10. \A s \in Slots : slots'[s].state = slots[s].state
  BY <1>1, <1>2 DEF Kept
<1> QED
  BY <1>3, <1>4, <1>5, <1>6, <1>7, <1>8, <1>9, <1>10 DEF PoolInv

\* The victim of a sweep is unpinned and free or ready, so no lease refers to it
\* and no request writes to it; the slots the sweep only ages are kept.
LEMMA VictimFacts ==
  ASSUME TypeOK, PoolInv, NEW a, NEW k \in Nat, claim_victim(a, k), NEW new,
         slots' = SweptSlots(a, k, new)
  PROVE  /\ SlotAt(k) \in Slots
         /\ slots[SlotAt(k)].pins = 0
         /\ slots[SlotAt(k)].state \in {"free", "ready"}
         /\ \A l \in leases : l.slot # SlotAt(k)
         /\ \A q \in requests : q.slot # SlotAt(k)
         /\ slots'[SlotAt(k)] = new
         /\ \A s \in Slots \ {SlotAt(k)} : Kept(s)
<1>1. SlotAt(k) \in Slots
  BY SlotAtType DEF TypeOK
<1>2. slots[SlotAt(k)].pins = 0 /\ slots[SlotAt(k)].state \in {"free", "ready"}
  BY DEF claim_victim, Takes
<1>3. \A l \in leases : l.slot # SlotAt(k)
  BY <1>1, <1>2, NoPinsNoLease DEF PoolInv
<1>4. \A q \in requests : q.slot # SlotAt(k)
  BY <1>2 DEF PoolInv, FillsMatchRequests
<1>5. slots'[SlotAt(k)] = new
  BY <1>1 DEF SweptSlots
<1>6. ASSUME NEW s \in Slots \ {SlotAt(k)}
      PROVE  Kept(s)
  <2>1. slots'[s] = slots[s] \/ slots'[s] = [slots[s] EXCEPT !.referenced = FALSE]
    BY DEF SweptSlots
  <2> QED
    BY <2>1 DEF Kept, TypeOK, Slot
<1> QED
  BY <1>1, <1>2, <1>3, <1>4, <1>5, <1>6

\* A refused fill leaves its slot free and the evicted chunk out of the index.
LEMMA RefusedPool ==
  ASSUME TypeOK, PoolInv, NEW a, NEW k \in Nat, NEW c \in Chunks,
         claim_victim(a, k), SubmitRefused(a, k, c), UNCHANGED <<leases, pinsTotal>>
  PROVE  /\ PoolInv'
         /\ \A l \in leases : Kept(l.slot)
<1> DEFINE v == SlotAt(k)
           new == make_free(StartedSlot(slots[v], c))
<1>1. /\ v \in Slots /\ slots[v].pins = 0 /\ slots[v].state \in {"free", "ready"}
      /\ \A l \in leases : l.slot # v
      /\ \A q \in requests : q.slot # v
      /\ slots'[v] = new
      /\ \A s \in Slots \ {v} : Kept(s)
  BY VictimFacts DEF SubmitRefused
<1>2. new.state = "free" /\ new.pins = 0 /\ new.chunk = None
  BY <1>1 DEF make_free, StartedSlot, TypeOK, Slot
<1>3. /\ index' = [d \in Chunks |-> IF d \in Evicted(k) THEN None ELSE index[d]]
      /\ UNCHANGED <<inFlight, requests, late, bytes>>
  BY DEF SubmitRefused
<1>4. \A d \in Chunks : d \in Evicted(k) <=> index[d] = v
  BY DEF Evicted
<1> HIDE DEF new, v
<1>5. IsFiniteSet(leases)' /\ PinsExact'
  <2>1. ASSUME NEW s \in Slots
        PROVE  slots'[s].pins = Cardinality(Pinning(s))
    BY <1>1, <1>2 DEF PoolInv, PinsExact, Kept
  <2> QED
    BY <2>1 DEF PoolInv, PinsExact, Pinning
<1>6. LeaseCurrent'
  BY <1>1 DEF PoolInv, LeaseCurrent, Kept, TypeOK, Lease
<1>7. IndexConsistent'
  <2> SUFFICES ASSUME NEW d \in Chunks, NEW s \in Slots
               PROVE  index'[d] = s <=> /\ slots'[s].chunk = d
                                        /\ slots'[s].state \in {"filling", "ready"}
    BY DEF IndexConsistent
  <2>1. None \notin Slots /\ None \notin Chunks
    BY ChunkAssumption DEF Slots
  <2>2. CASE s = v
    BY <1>1, <1>2, <1>3, <1>4, <2>1, <2>2
  <2>3. CASE s # v
    BY <1>1, <1>3, <1>4, <2>1, <2>3 DEF PoolInv, IndexConsistent, Kept
  <2> QED
    BY <2>2, <2>3
<1>8. IsFiniteSet(requests)' /\ FillsMatchRequests'
  BY <1>1, <1>2, <1>3 DEF PoolInv, FillsMatchRequests, Kept, TypeOK, Request
<1>9. ReadyBytes' /\ FailedPinned'
  BY <1>1, <1>2, <1>3 DEF PoolInv, ReadyBytes, FailedPinned, Kept
<1>10. LateIsOld'
  BY <1>1, <1>2, <1>3 DEF PoolInv, LateIsOld, Kept, TypeOK, Token
<1>11. \A l \in leases : Kept(l.slot)
  BY <1>1 DEF TypeOK, Lease
<1> QED
  BY <1>5, <1>6, <1>7, <1>8, <1>9, <1>10, <1>11 DEF PoolInv

\* An accepted fill: the victim becomes the fill of a chunk that had no slot,
\* unpinned (prefetch) or pinned by one new lease (resolve).
LEMMA FillPool ==
  ASSUME TypeOK, PoolInv, NEW a, NEW k \in Nat, NEW c \in Chunks, NEW new \in Slot,
         claim_victim(a, k), index[c] = None, SubmitAccepted(k, c),
         slots' = SweptSlots(a, k, new),
         new.chunk = c, new.state = "filling",
         new.generation = NextGen(slots[SlotAt(k)].generation),
         \/ new.pins = 0 /\ UNCHANGED <<leases, pinsTotal>>
         \/ /\ new.pins = 1 /\ pinsTotal' = pinsTotal + 1
            /\ \E l \in Lease : /\ l \notin leases /\ leases' = leases \union {l}
                                /\ l.slot = SlotAt(k) /\ l.chunk = c
                                /\ l.generation = new.generation
  PROVE  /\ PoolInv'
         /\ \A l \in leases : Kept(l.slot)
         /\ slots'[SlotAt(k)] = new
<1> DEFINE v == SlotAt(k)
           g == new.generation
           q0 == [slot |-> v, generation |-> g, chunk |-> c]
<1>1. /\ v \in Slots /\ slots[v].pins = 0 /\ slots[v].state \in {"free", "ready"}
      /\ \A l \in leases : l.slot # v
      /\ \A q \in requests : q.slot # v
      /\ slots'[v] = new
      /\ \A s \in Slots \ {v} : Kept(s)
  BY VictimFacts
<1>2. /\ index' = [d \in Chunks |-> IF d = c THEN v
                                    ELSE IF d \in Evicted(k) THEN None ELSE index[d]]
      /\ inFlight' = inFlight + 1
      /\ requests' = requests \union {q0}
      /\ late' = late \ {[slot |-> v, generation |-> g]}
      /\ bytes' = [bytes EXCEPT ![v] = None]
  BY DEF SubmitAccepted
<1>3. \A d \in Chunks : d \in Evicted(k) <=> index[d] = v
  BY DEF Evicted
<1>4. q0.slot = v /\ q0.generation = g /\ q0.chunk = c /\ q0 \notin requests
  BY <1>1
<1>a. \/ new.pins = 0 /\ UNCHANGED <<leases, pinsTotal>>
      \/ /\ new.pins = 1 /\ pinsTotal' = pinsTotal + 1
         /\ \E l \in Lease : /\ l \notin leases /\ leases' = leases \union {l}
                             /\ l.slot = v /\ l.chunk = c /\ l.generation = g
  OBVIOUS
<1> HIDE DEF v, q0
<1>5. IsFiniteSet(leases') /\ PinsExact' /\ LeaseCurrent'
  <2>1. CASE new.pins = 0 /\ UNCHANGED <<leases, pinsTotal>>
    <3>1. ASSUME NEW s \in Slots
          PROVE  slots'[s].pins = Cardinality(Pinning(s))
      BY <1>1, <2>1 DEF PoolInv, PinsExact, Kept
    <3>2. PinsExact'
      BY <2>1, <3>1 DEF PoolInv, PinsExact, Pinning
    <3>3. LeaseCurrent'
      BY <1>1, <2>1 DEF PoolInv, LeaseCurrent, Kept, TypeOK, Lease
    <3> QED
      BY <2>1, <3>2, <3>3 DEF PoolInv
  <2>2. ASSUME new.pins = 1, pinsTotal' = pinsTotal + 1, NEW l \in Lease,
               l \notin leases, leases' = leases \union {l},
               l.slot = v, l.chunk = c, l.generation = g
        PROVE  IsFiniteSet(leases') /\ PinsExact' /\ LeaseCurrent'
    <3>1. /\ IsFiniteSet(leases')
          /\ Cardinality(leases') = Cardinality(leases) + 1
          /\ \A s : Cardinality(Pinning(s))' =
                IF v = s THEN Cardinality(Pinning(s)) + 1 ELSE Cardinality(Pinning(s))
      BY <2>2, PinAdd DEF PoolInv
    <3>2. ASSUME NEW s \in Slots
          PROVE  slots'[s].pins = Cardinality(Pinning(s))'
      BY <1>1, <2>2, <3>1 DEF PoolInv, PinsExact, Kept
    <3>3. PinsExact'
      BY <2>2, <3>1, <3>2 DEF PoolInv, PinsExact
    <3>4. LeaseCurrent'
      BY <1>1, <2>2 DEF PoolInv, LeaseCurrent, Kept, TypeOK, Lease
    <3> QED
      BY <3>1, <3>3, <3>4
  <2> QED
    BY <1>a, <2>1, <2>2
<1>6. IndexConsistent'
  <2> SUFFICES ASSUME NEW d \in Chunks, NEW s \in Slots
               PROVE  index'[d] = s <=> /\ slots'[s].chunk = d
                                        /\ slots'[s].state \in {"filling", "ready"}
    BY DEF IndexConsistent
  <2>1. None \notin Slots
    BY ChunkAssumption DEF Slots
  <2>2. CASE s = v
    BY <1>1, <1>2, <1>3, <2>1, <2>2
  <2>3. CASE s # v
    BY <1>1, <1>2, <1>3, <2>1, <2>3 DEF PoolInv, IndexConsistent, Kept
  <2> QED
    BY <2>2, <2>3
<1>7. IsFiniteSet(requests') /\ Cardinality(requests') = Cardinality(requests) + 1
  BY <1>2, <1>4, FS_AddElement DEF PoolInv
<1>8. FillsMatchRequests'
  <2>1. \A q \in requests' : /\ slots'[q.slot].state = "filling"
                             /\ slots'[q.slot].generation = q.generation
                             /\ slots'[q.slot].chunk = q.chunk
    BY <1>1, <1>2, <1>4 DEF PoolInv, FillsMatchRequests, Kept, TypeOK, Request
  <2>2. \A s \in Slots : slots'[s].state = "filling" => \E q \in requests' : q.slot = s
    BY <1>1, <1>2, <1>4 DEF PoolInv, FillsMatchRequests, Kept
  <2>3. inFlight' = Cardinality(requests')
    BY <1>2, <1>7 DEF PoolInv, FillsMatchRequests
  <2> QED
    BY <2>1, <2>2, <2>3 DEF FillsMatchRequests
<1>9. ReadyBytes' /\ FailedPinned'
  BY <1>1, <1>2 DEF PoolInv, ReadyBytes, FailedPinned, Kept, TypeOK
<1>10. LateIsOld'
  <2> SUFFICES ASSUME NEW x \in late', slots'[x.slot].state = "filling"
               PROVE  slots'[x.slot].generation # x.generation
    BY DEF LateIsOld
  <2>1. x \in late /\ x \in Token /\ x.slot \in Slots
    BY <1>2 DEF TypeOK, Token
  <2>2. CASE x.slot = v
    <3>1. x # [slot |-> v, generation |-> g]
      BY <1>2
    <3> QED
      BY <1>1, <2>1, <2>2, <3>1 DEF Token
  <2>3. CASE x.slot # v
    BY <1>1, <2>1, <2>3 DEF PoolInv, LateIsOld, Kept
  <2> QED
    BY <2>2, <2>3
<1>11. \A l \in leases : Kept(l.slot)
  BY <1>1 DEF TypeOK, Lease
<1> QED
  BY <1>1, <1>5, <1>6, <1>7, <1>8, <1>9, <1>10, <1>11 DEF PoolInv, v

\* The first answer to a request is not stale, and ends its fill: the slot is
\* ready with the whole chunk in it, or failed while pinned, or free.
LEMMA CompletePool ==
  ASSUME TypeOK, PoolInv, NEW q \in requests, NEW res, Answer(res), Complete(q, res)
  PROVE  /\ PoolInv'
         /\ slots[q.slot].state = "filling"
         /\ \A s \in Slots \ {q.slot} : Kept(s)
         /\ notify_all
<1> DEFINE v == q.slot
           old == slots[v]
           token == TokenOf(q)
           status == classify_fill(res, ChunkLength[old.chunk])
<1>1. /\ v \in Slots /\ q.chunk \in Chunks /\ old \in Slot /\ q \in Request
      /\ token.slot = v /\ token.generation = q.generation /\ token \in Token
  BY DEF TypeOK, Request, TokenOf, Token
<1>2. old.state = "filling" /\ old.generation = q.generation /\ old.chunk = q.chunk
  BY DEF PoolInv, FillsMatchRequests
<1>3. Land(token, res) /\ UNCHANGED <<leases, pinsTotal>>
  BY <1>1, <1>2 DEF Complete, on_complete, Stale, Land
<1>4. /\ slots' = [slots EXCEPT ![v] = LandedSlot(old, status)]
      /\ index' = IF status = "ok" THEN index ELSE [index EXCEPT ![old.chunk] = None]
      /\ inFlight' = inFlight - 1
      /\ notify_all
  BY <1>1, <1>3 DEF Land
<1>5. /\ requests' = requests \ {q}
      /\ bytes' = [bytes EXCEPT ![v] =
           IF res.status = "ok" /\ res.bytes = ChunkLength[q.chunk] THEN q.chunk ELSE None]
      /\ late' \subseteq late \union {token}
  BY DEF Complete
<1>6. status = "ok" <=> res.status = "ok" /\ res.bytes = ChunkLength[q.chunk]
  BY <1>2 DEF classify_fill
<1>7. \A s \in Slots \ {v} : Kept(s)
  BY <1>4 DEF Kept, TypeOK
<1> HIDE DEF status, token
<1>8. /\ slots'[v].state # "filling" /\ slots'[v].generation = old.generation
      /\ slots'[v].pins = old.pins
      /\ \/ /\ status = "ok" /\ slots'[v].state = "ready" /\ slots'[v].chunk = old.chunk
         \/ /\ status # "ok" /\ slots'[v].state = "failed" /\ slots'[v].chunk = old.chunk
            /\ old.pins # 0
         \/ /\ status # "ok" /\ slots'[v].state = "free" /\ slots'[v].chunk = None
            /\ old.pins = 0
  BY <1>1, <1>4 DEF LandedSlot, make_free, TypeOK, Slot
<1>9. \A p \in requests : p.slot = v => p = q
  <2> SUFFICES ASSUME NEW p \in requests, p.slot = v PROVE p = q
    OBVIOUS
  <2>1. p.generation = q.generation /\ p.chunk = q.chunk /\ p \in Request
    BY <1>2 DEF PoolInv, FillsMatchRequests, TypeOK
  <2> QED
    BY <1>1, <2>1 DEF Request
<1> HIDE DEF v
<1>10. IsFiniteSet(leases)' /\ PinsExact'
  <2>1. ASSUME NEW s \in Slots
        PROVE  slots'[s].pins = Cardinality(Pinning(s))
    BY <1>7, <1>8 DEF PoolInv, PinsExact, Kept
  <2> QED
    BY <1>3, <2>1 DEF PoolInv, PinsExact, Pinning
<1>11. LeaseCurrent'
  <2> SUFFICES ASSUME NEW l \in leases
               PROVE  /\ slots'[l.slot].generation = l.generation
                      /\ slots'[l.slot].chunk = l.chunk
                      /\ slots'[l.slot].state # "free"
    BY <1>3 DEF LeaseCurrent
  <2>1. l.slot \in Slots
    BY DEF TypeOK, Lease
  <2>2. CASE l.slot # v
    BY <1>7, <2>1, <2>2 DEF PoolInv, LeaseCurrent, Kept
  <2>3. CASE l.slot = v
    <3>1. old.pins # 0
      BY <1>1, <2>3, NoPinsNoLease DEF PoolInv
    <3> QED
      BY <1>8, <2>3, <3>1 DEF PoolInv, LeaseCurrent
  <2> QED
    BY <2>2, <2>3
<1>12. IndexConsistent'
  <2> SUFFICES ASSUME NEW d \in Chunks, NEW s \in Slots
               PROVE  index'[d] = s <=> /\ slots'[s].chunk = d
                                        /\ slots'[s].state \in {"filling", "ready"}
    BY DEF IndexConsistent
  <2>1. None \notin Slots /\ None \notin Chunks
    BY ChunkAssumption DEF Slots
  <2>2. index[old.chunk] = v /\ old.chunk \in Chunks
    BY <1>1, <1>2 DEF PoolInv, IndexConsistent
  <2>3. index \in [Chunks -> Slots \union {None}]
    BY DEF TypeOK
  <2>4. CASE status = "ok"
    BY <1>2, <1>4, <1>7, <1>8, <2>4 DEF PoolInv, IndexConsistent, Kept
  <2>5. CASE status # "ok"
    <3>1. index'[d] = IF d = old.chunk THEN None ELSE index[d]
      BY <1>4, <2>3, <2>5
    <3>2. CASE s = v
      BY <1>8, <2>1, <2>2, <2>5, <3>1, <3>2 DEF PoolInv, IndexConsistent
    <3>3. CASE s # v
      BY <1>1, <1>7, <2>1, <2>2, <3>1, <3>3 DEF PoolInv, IndexConsistent, Kept
    <3> QED
      BY <3>2, <3>3
  <2> QED
    BY <2>4, <2>5
<1>13. IsFiniteSet(requests') /\ Cardinality(requests') = Cardinality(requests) - 1
  BY <1>5, FS_RemoveElement DEF PoolInv
<1>14. FillsMatchRequests'
  <2>1. \A p \in requests' : /\ p.slot \in Slots \ {v}
                             /\ slots'[p.slot].state = "filling"
                             /\ slots'[p.slot].generation = p.generation
                             /\ slots'[p.slot].chunk = p.chunk
    BY <1>5, <1>7, <1>9 DEF PoolInv, FillsMatchRequests, Kept, TypeOK, Request
  <2>2. \A s \in Slots : slots'[s].state = "filling" => \E p \in requests' : p.slot = s
    BY <1>5, <1>7, <1>8 DEF PoolInv, FillsMatchRequests, Kept, v
  <2>3. inFlight' = Cardinality(requests')
    BY <1>4, <1>13 DEF PoolInv, FillsMatchRequests
  <2> QED
    BY <2>1, <2>2, <2>3 DEF FillsMatchRequests
<1>15. ReadyBytes'
  <2>1. slots'[v].state = "ready" => bytes'[v] = slots'[v].chunk
    BY <1>1, <1>2, <1>5, <1>6, <1>8 DEF TypeOK
  <2>2. \A s \in Slots \ {v} : slots'[s].state = "ready" => bytes'[s] = slots'[s].chunk
    BY <1>5, <1>7 DEF PoolInv, ReadyBytes, Kept, TypeOK
  <2> QED
    BY <2>1, <2>2 DEF ReadyBytes
<1>16. FailedPinned'
  BY <1>7, <1>8 DEF PoolInv, FailedPinned, Kept
<1>17. LateIsOld'
  <2> SUFFICES ASSUME NEW x \in late', slots'[x.slot].state = "filling"
               PROVE  slots'[x.slot].generation # x.generation
    BY DEF LateIsOld
  <2>1. x.slot # v
    BY <1>8
  <2>2. x \in late /\ x.slot \in Slots
    BY <1>1, <1>5, <2>1 DEF TypeOK, Token
  <2> QED
    BY <1>7, <2>1, <2>2 DEF PoolInv, LateIsOld, Kept
<1>18. slots[q.slot].state = "filling" /\ \A s \in Slots \ {q.slot} : Kept(s)
  BY <1>2, <1>7 DEF v
<1> QED
  BY <1>4, <1>10, <1>11, <1>12, <1>13, <1>14, <1>15, <1>16, <1>17, <1>18 DEF PoolInv

\* A repeated answer is stale.
LEMMA RedeliverPool ==
  ASSUME TypeOK, PoolInv, NEW token \in late, NEW res \in FillResults,
         Redeliver(token, res)
  PROVE  /\ UNCHANGED <<poolVars, call, mutex, leases, tickets, requests, bytes>>
         /\ PoolInv'
<1>1. Stale(token)
  BY DEF PoolInv, LateIsOld, Stale
<1>2. /\ UNCHANGED <<poolVars, call, mutex, leases, tickets, requests, bytes>>
      /\ late' \subseteq late
  BY <1>1 DEF Redeliver, on_complete
<1> QED
  BY <1>2 DEF PoolInv, poolVars, PinsExact, Pinning, LeaseCurrent, IndexConsistent,
              FillsMatchRequests, ReadyBytes, FailedPinned, LateIsOld

-----------------------------------------------------------------------------
(***************************************************************************)
(* The half about the calls under way.                                     *)
(***************************************************************************)

\* Nobody but t is inside the mutex.
OthersOutside(t) == \A u \in Threads \ {t} : call[u].pc \notin {"locked", "unwind"}

\* A thread inside is alone, and so is one that finds the mutex free.
LEMMA InsideIsAlone ==
  ASSUME \A u \in Threads : CallInv(u), NEW t \in Threads,
         call[t].pc \in {"locked", "unwind"} \/ mutex = None
  PROVE  OthersOutside(t)
BY ChunkAssumption DEF CallInv, OthersOutside

\* The other threads' half survives a step of t that either t takes alone or
\* that changes nothing but calls.
LEMMA OthersKeep ==
  ASSUME TypeOK, \A u \in Threads : CallInv(u), NEW t \in Threads,
         \A u \in Threads \ {t} : call'[u] = call[u],
         OthersOutside(t) \/ UNCHANGED <<slots, index, mutex>>,
         \A l \in leases' : l \in leases \/ l.owner = t,
         \A s \in Slots : (\E l \in leases : l.slot = s) =>
            (slots[s].state = "ready" => slots'[s].state = "ready")
  PROVE  \A u \in Threads \ {t} : CallInv(u)'
<1> SUFFICES ASSUME NEW u \in Threads \ {t} PROVE CallInv(u)'
  OBVIOUS
<1>1. CallInv(u) /\ call'[u] = call[u] /\ call[u] \in Call
  BY DEF TypeOK
<1>2. OutSpan(u)' \subseteq OutSpan(u)
  BY <1>1 DEF OutSpan
<1>3. \A l \in leases' : l.owner = u => (l \in OutSpan(u)' <=> l \in OutSpan(u))
  BY <1>1 DEF OutSpan
<1>4. call'[u].pc \in {"locked", "unwind"} => mutex' = u
  BY <1>1 DEF CallInv, OthersOutside
<1>5. call'[u].op = "try_resolve" /\ call'[u].pc = "locked" => AllReady(call[u].batch)'
  BY <1>1 DEF CallInv, OthersOutside, AllReady
<1>6. \A l \in leases' : /\ l.owner = u
                         /\ InProgress(u)' => l \notin OutSpan(u)'
                         => slots'[l.slot].state = "ready"
  <2> SUFFICES ASSUME NEW l \in leases', l.owner = u, InProgress(u)' => l \notin OutSpan(u)'
               PROVE  slots'[l.slot].state = "ready"
    OBVIOUS
  <2>1. l \in leases /\ l.slot \in Slots
    BY DEF TypeOK, Lease
  <2>2. slots[l.slot].state = "ready"
    BY <1>1, <1>3, <2>1 DEF CallInv, InProgress
  <2> QED
    BY <2>1, <2>2
<1>7. call'[u].op \in {"resolve", "try_resolve"} /\ call'[u].pc # "release" =>
         \A l \in OutSpan(u)' : l.pos <= call'[u].done
  BY <1>1, <1>2 DEF CallInv
<1> QED
  BY <1>1, <1>4, <1>5, <1>6, <1>7 DEF CallInv

\* A step of t that leaves slots and leases alone and ends its call, or starts
\* one, or keeps it where it is in the loop.
LEMMA CallOnly ==
  ASSUME LeaseInv, NEW t \in Threads, UNCHANGED <<slots, index, leases>>,
         call' \in [Threads -> Call],
         \A u \in Threads \ {t} : call'[u] = call[u],
         OthersOutside(t) \/ UNCHANGED mutex,
         CallInv(t)'
  PROVE  \A u \in Threads : CallInv(u)'
<1>1. \A u \in Threads \ {t} : CallInv(u)'
  BY OthersKeep DEF LeaseInv
<1> QED
  BY <1>1

\* The steps that change no slot.
LEMMA QuietStep ==
  ASSUME LeaseInv, TypeOK', NEW t \in Threads,
         \/ PrefetchResident(t) \/ PrefetchDeclined(t) \/ PrefetchReturn(t)
         \/ ResolveExhausted(t) \/ UnwindReturn(t) \/ Sleep(t) \/ Return(t)
         \/ ResolveFailed(t) \/ TryResolveReturn(t)
         \/ ResolveLock(t) \/ TryResolveLock(t) \/ Acquire(t)
         \/ SpuriousWake(t) \/ Timeout(t)
  PROVE  LeaseInv'
<1>1. UNCHANGED outside /\ UNCHANGED slots
  BY DEF PrefetchResident, PrefetchDeclined, PrefetchReturn, ResolveExhausted,
         UnwindReturn, Sleep, Return, ResolveFailed, TryResolveReturn, ResolveLock,
         TryResolveLock, Acquire, SpuriousWake, Timeout, poolVars, outside
<1>2. PoolInv'
  BY <1>1, KeepPool DEF LeaseInv, Kept
<1> SUFFICES \A u \in Threads : CallInv(u)'
  BY <1>2 DEF LeaseInv
<1>3. OthersOutside(t) \/ UNCHANGED mutex
  <2>1. call[t].pc \in {"locked", "unwind"} \/ mutex = None \/ UNCHANGED mutex
    BY DEF PrefetchResident, PrefetchDeclined, PrefetchReturn, ResolveExhausted,
           UnwindReturn, Sleep, Return, ResolveFailed, TryResolveReturn, ResolveLock,
           TryResolveLock, Acquire, SpuriousWake, Timeout, Handling, AtWait
  <2> QED
    BY <2>1, InsideIsAlone DEF LeaseInv
<1>4. call \in [Threads -> Call] /\ call' \in [Threads -> Call] /\ CallInv(t)
  BY DEF TypeOK, LeaseInv
<1>5. \A u \in Threads \ {t} : call'[u] = call[u]
  BY <1>4 DEF PrefetchResident, PrefetchDeclined, PrefetchReturn, ResolveExhausted,
         UnwindReturn, Sleep, Return, ResolveFailed, TryResolveReturn, ResolveLock,
         TryResolveLock, Acquire, SpuriousWake, Timeout, StepDone, StopWith
<1> SUFFICES CallInv(t)'
  BY <1>1, <1>3, <1>4, <1>5, CallOnly DEF outside
<1> USE DEF outside
<1>6. CASE PrefetchResident(t) \/ PrefetchDeclined(t)
  <2>1. /\ call'[t] = [call[t] EXCEPT !.done = @ + 1] /\ call[t].op = "prefetch"
        /\ UNCHANGED mutex
    BY <1>4, <1>6 DEF PrefetchResident, PrefetchDeclined, StepDone, Handling
  <2> QED
    BY <1>1, <1>4, <2>1 DEF CallInv, InProgress, OutSpan, Call
<1>7. CASE PrefetchReturn(t) \/ TryResolveReturn(t) \/ Timeout(t)
  <2>1. call'[t] = Idle
    BY <1>4, <1>7 DEF PrefetchReturn, TryResolveReturn, Timeout
  <2>2. ~InProgress(t)
    BY <1>7 DEF PrefetchReturn, TryResolveReturn, Timeout, InProgress
  <2> QED
    BY <1>1, <1>4, <2>1, <2>2 DEF CallInv, InProgress, OutSpan, Idle
<1>8. CASE UnwindReturn(t)
  <2>1. call'[t] = Idle /\ OutSpan(t) = {}
    BY <1>4, <1>8 DEF UnwindReturn
  <2> QED
    BY <1>1, <1>4, <2>1 DEF CallInv, InProgress, OutSpan, Idle
<1>9. CASE Return(t)
  <2>1. /\ call'[t] = Idle /\ call[t].op \in {"resolve", "wait", "drain"}
        /\ Satisfied(t) /\ \A l \in OutSpan(t) : slots[l.slot].state # "failed"
    BY <1>4, <1>9 DEF Return, AtWait
  <2>2. ASSUME NEW l \in leases, l.owner = t
        PROVE  slots[l.slot].state = "ready"
    <3>1. CASE InProgress(t) /\ l \in OutSpan(t)
      <4>1. slots[l.slot].state \in SlotState
        BY DEF LeaseInv, TypeOK, Lease, Slot
      <4>2. slots[l.slot].state # "filling"
        BY <2>1, <3>1 DEF Satisfied, InProgress
      <4>3. slots[l.slot].state # "free"
        BY DEF LeaseInv, PoolInv, LeaseCurrent
      <4> QED
        BY <2>1, <3>1, <4>1, <4>2, <4>3 DEF SlotState
    <3>2. CASE ~(InProgress(t) /\ l \in OutSpan(t))
      BY <1>4, <2>2, <3>2 DEF CallInv
    <3> QED
      BY <3>1, <3>2
  <2> QED
    BY <1>1, <1>4, <2>1, <2>2 DEF CallInv, InProgress, OutSpan, Idle
<1>10. CASE ResolveExhausted(t) \/ ResolveFailed(t)
  <2>1. PICK f : call'[t] = [call[t] EXCEPT !.pc = "unwind", !.failure = f]
    BY <1>4, <1>10 DEF ResolveExhausted, ResolveFailed, StopWith
  <2>2. /\ call[t].op \in {"resolve", "wait", "drain"} /\ call[t].pc = "locked"
        /\ UNCHANGED mutex
    BY <1>10 DEF ResolveExhausted, ResolveFailed, Handling, AtWait
  <2> QED
    BY <1>1, <1>4, <2>1, <2>2 DEF CallInv, InProgress, OutSpan, Call
<1>11. CASE Sleep(t) \/ Acquire(t) \/ SpuriousWake(t)
  <2>1. /\ call[t].pc \in {"locked", "acquire", "asleep"}
        /\ call[t].op # "try_resolve"
    BY <1>4, <1>11 DEF Sleep, Acquire, SpuriousWake, AtWait, CallInv
  <2>2. \/ call'[t] = [call[t] EXCEPT !.pc = "asleep"]
        \/ call'[t] = [call[t] EXCEPT !.pc = "acquire"]
        \/ call'[t] = [call[t] EXCEPT !.pc = "locked"] /\ mutex' = t
    BY <1>4, <1>11 DEF Sleep, Acquire, SpuriousWake
  <2> QED
    BY <1>1, <1>4, <2>1, <2>2 DEF CallInv, InProgress, OutSpan, Call
<1>12. CASE ResolveLock(t)
  <2>1. /\ call'[t] = [call[t] EXCEPT !.pc = "locked"] /\ mutex' = t
        /\ call[t].op = "resolve" /\ call[t].pc = "release" /\ OutSpan(t) = {}
    BY <1>4, <1>12 DEF ResolveLock
  <2> QED
    BY <1>1, <1>4, <2>1 DEF CallInv, InProgress, OutSpan, Call
<1>13. CASE TryResolveLock(t)
  <2>1. call[t].op = "try_resolve" /\ call[t].pc = "release" /\ OutSpan(t) = {}
    BY <1>13 DEF TryResolveLock
  <2>2. CASE AllReady(call[t].batch)
    <3>1. call'[t] = [call[t] EXCEPT !.pc = "locked"] /\ mutex' = t
      BY <1>4, <1>13, <2>2 DEF TryResolveLock
    <3>2. AllReady(call[t].batch)'
      BY <1>1, <1>4, <2>2, <3>1 DEF AllReady, Call
    <3> QED
      BY <1>1, <1>4, <2>1, <3>1, <3>2 DEF CallInv, InProgress, OutSpan, Call
  <2>3. CASE ~AllReady(call[t].batch)
    <3>1. call'[t] = Idle
      BY <1>4, <1>13, <2>3 DEF TryResolveLock
    <3> QED
      BY <1>1, <1>4, <2>1, <3>1 DEF CallInv, InProgress, OutSpan, Idle
  <2> QED
    BY <2>2, <2>3
<1> QED
  BY <1>6, <1>7, <1>8, <1>9, <1>10, <1>11, <1>12, <1>13

\* The steps that begin a call or change only tickets and reference bits.
LEMMA BeginStep ==
  ASSUME LeaseInv, TypeOK', NEW t \in Threads,
         \/ \E b \in Batches, a \in AdmissionClass : Prefetch(t, b, a)
         \/ \E b \in Batches, op \in {"resolve", "try_resolve"} : Resolve(t, op, b)
         \/ \E k \in tickets : (\E d \in BOOLEAN : Wait(t, k, d)) \/ DiscardTicket(t, k)
         \/ \E d \in BOOLEAN : Drain(t, d)
         \/ \E c \in SUBSET Chunks : WontNeed(t, c)
  PROVE  LeaseInv'
<1>1. UNCHANGED outside
  BY DEF Prefetch, Resolve, Wait, DiscardTicket, Drain, WontNeed, poolVars, outside
<1>2. \A s \in Slots : Kept(s)
  <2>1. ASSUME NEW s \in Slots
        PROVE  slots'[s] = slots[s] \/ slots'[s] = [slots[s] EXCEPT !.referenced = FALSE]
    BY DEF Prefetch, Resolve, Wait, DiscardTicket, Drain, WontNeed, poolVars
  <2> QED
    BY <2>1 DEF Kept, LeaseInv, TypeOK, Slot
<1>3. PoolInv'
  BY <1>1, <1>2, KeepPool DEF LeaseInv
<1>4. call \in [Threads -> Call] /\ call' \in [Threads -> Call] /\ CallInv(t)
  BY DEF TypeOK, LeaseInv
<1>5. /\ \A u \in Threads \ {t} : call'[u] = call[u]
      /\ call[t].pc = "idle"
      /\ mutex = None \/ UNCHANGED <<slots, mutex>>
      /\ mutex' # mutex => mutex' = t
  BY <1>4 DEF Prefetch, Resolve, Wait, DiscardTicket, Drain, WontNeed, poolVars
<1>6. OthersOutside(t) \/ UNCHANGED <<slots, index, mutex>>
  BY <1>1, <1>5, InsideIsAlone DEF LeaseInv, outside
<1>7. \A u \in Threads \ {t} : CallInv(u)'
  <2>1. \A l \in leases' : l \in leases
    BY <1>1 DEF outside
  <2>2. \A s \in Slots : slots[s].state = "ready" => slots'[s].state = "ready"
    BY <1>2 DEF Kept
  <2> QED
    BY <1>5, <1>6, <2>1, <2>2, OthersKeep DEF LeaseInv
<1>8. \A l \in leases' : l.owner = t => slots'[l.slot].state = "ready"
  <2>1. ~InProgress(t)
    BY <1>4, <1>5 DEF CallInv, InProgress
  <2> QED
    BY <1>1, <1>2, <1>4, <2>1 DEF CallInv, outside, Kept, LeaseInv, TypeOK, Lease
<1>9. /\ call'[t].pc = "idle" => call'[t].op = "none"
      /\ call'[t].pc \in {"locked", "unwind"} => mutex' = t
      /\ call'[t].op \in {"resolve", "try_resolve"} => call'[t].pc = "release"
  <2>1. \/ call'[t] = call[t]
        \/ /\ call'[t].op \in {"prefetch", "wait", "drain"} /\ call'[t].pc = "locked"
           /\ mutex' = t
        \/ call'[t].op \in {"resolve", "try_resolve"} /\ call'[t].pc = "release"
    <3>1. CASE \E b \in Batches, a \in AdmissionClass : Prefetch(t, b, a)
      <4>1. PICK b \in Batches, a \in AdmissionClass : Prefetch(t, b, a)
        BY <3>1
      <4>2. PICK r \in Records :
              call' = [call EXCEPT ![t] =
                [Idle EXCEPT !.op = "prefetch", !.pc = "locked", !.batch = b,
                             !.admission = a, !.record = r]]
        BY <4>1 DEF Prefetch
      <4>3. mutex' = t
        BY <4>1 DEF Prefetch
      <4> QED
        BY <1>4, <4>2, <4>3 DEF Idle
    <3>2. CASE \E b \in Batches, op \in {"resolve", "try_resolve"} : Resolve(t, op, b)
      <4>1. PICK b \in Batches, op \in {"resolve", "try_resolve"} :
              call'[t] = [Idle EXCEPT !.op = op, !.pc = "release", !.batch = b]
        BY <1>4, <3>2 DEF Resolve
      <4> QED
        BY <4>1 DEF Idle
    <3>3. CASE \E k \in tickets, d \in BOOLEAN : Wait(t, k, d)
      BY <1>4, <3>3, IdleType DEF Wait, Call
    <3>4. CASE \E d \in BOOLEAN : Drain(t, d)
      BY <1>4, <3>4, IdleType DEF Drain, Call
    <3>5. CASE \E k \in tickets : DiscardTicket(t, k)
      BY <3>5 DEF DiscardTicket
    <3>6. CASE \E c \in SUBSET Chunks : WontNeed(t, c)
      BY <3>6 DEF WontNeed
    <3> QED
      BY <3>1, <3>2, <3>3, <3>4, <3>5, <3>6
  <2> QED
    BY <1>4, <1>5, <2>1 DEF CallInv
<1>10. CallInv(t)'
  BY <1>8, <1>9 DEF CallInv
<1> QED
  BY <1>3, <1>7, <1>10 DEF LeaseInv

\* A lease ends: between calls, in release_all, or while unwinding.
LEMMA UnpinStep ==
  ASSUME LeaseInv, TypeOK', NEW t \in Threads, NEW l \in leases,
         ReleaseLease(t, l) \/ ReleaseAll(t, l) \/ Unwind(t, l)
  PROVE  LeaseInv'
<1>1. /\ unpin_locked(l) /\ UNCHANGED <<mutex, call, index>>
      /\ leases' = leases \ {l}
  BY DEF ReleaseLease, ReleaseAll, Unwind, unpin_locked
<1>2. /\ PoolInv'
      /\ \A s \in Slots : slots[s].state = "ready" => slots'[s].state = "ready"
  BY <1>1, UnpinPool DEF LeaseInv
<1>3. OthersOutside(t)
  BY InsideIsAlone DEF ReleaseLease, ReleaseAll, Unwind, LeaseInv
<1>4. \A u \in Threads \ {t} : CallInv(u)'
  BY <1>1, <1>2, <1>3, OthersKeep DEF LeaseInv
<1>5. CallInv(t)'
  <2>1. CallInv(t) /\ call[t].pc \in {"idle", "release", "unwind"}
    BY DEF LeaseInv, ReleaseLease, ReleaseAll, Unwind
  <2>2. OutSpan(t)' = OutSpan(t) \ {l}
    BY <1>1 DEF OutSpan
  <2>3. \A m \in leases' : m.slot \in Slots
    BY <1>1 DEF LeaseInv, TypeOK, Lease
  <2>4. \A m \in leases' : /\ m.owner = t
                           /\ InProgress(t)' => m \notin OutSpan(t)'
                           => slots'[m.slot].state = "ready"
    BY <1>1, <1>2, <2>1, <2>2, <2>3 DEF CallInv, InProgress
  <2> QED
    BY <1>1, <2>1, <2>2, <2>4 DEF CallInv
<1> QED
  BY <1>2, <1>4, <1>5 DEF LeaseInv

\* The lease a resolve or try_resolve is about to make is a new one.
LEMMA NewLease ==
  ASSUME LeaseInv, NEW t \in Threads, NEW op \in {"resolve", "try_resolve"},
         Handling(t, op), NEW s \in Slots, NEW g \in Generations
  PROVE  [owner |-> t, pos |-> call[t].done + 1, slot |-> s, generation |-> g,
          chunk |-> ThisChunk(t)] \in Lease \ leases
<1> DEFINE l == [owner |-> t, pos |-> call[t].done + 1, slot |-> s, generation |-> g,
                 chunk |-> ThisChunk(t)]
<1>1. ThisChunk(t) \in Chunks /\ call[t].done + 1 \in 1 .. MaxBatch
  BY CallUpdateType DEF LeaseInv, TypeOK, Ops
<1>2. l \in Lease
  BY <1>1 DEF Lease
<1>3. l \notin leases
  <2>1. \A m \in OutSpan(t) : m.pos <= call[t].done
    BY DEF LeaseInv, CallInv, Handling
  <2>2. call[t].done \in Int /\ call[t].done < Len(call[t].batch)
    BY DEF LeaseInv, TypeOK, Call, Handling
  <2>3. call[t].done + 1 <= Len(call[t].batch)
    <3>1. Len(call[t].batch) \in Int
      <4>1. call[t].batch \in Batches \union {<<>>}
        BY DEF LeaseInv, TypeOK, Call
      <4>2. CASE call[t].batch \in Batches
        BY <4>2, BatchType
      <4>3. CASE call[t].batch = <<>>
        BY <4>3
      <4> QED
        BY <4>1, <4>2, <4>3
    <3> QED
      BY <2>2, <3>1
  <2>4. l \in leases => l \in OutSpan(t)
    BY <2>3 DEF OutSpan
  <2> QED
    BY <2>1, <2>2, <2>4
<1> QED
  BY <1>2, <1>3

\* A chunk in the index is pinned.
LEMMA PinIndexedStep ==
  ASSUME LeaseInv, TypeOK', NEW t \in Threads, PinIndexed(t)
  PROVE  LeaseInv'
<1> DEFINE c == ThisChunk(t)
           v == index[c]
           l == [owner |-> t, pos |-> call[t].done + 1, slot |-> v,
                 generation |-> slots[v].generation, chunk |-> c]
<1>1. PICK op \in {"resolve", "try_resolve"} : Handling(t, op)
  BY DEF PinIndexed
<1>2. c \in Chunks /\ call[t].done + 1 \in 1 .. MaxBatch
  BY <1>1, CallUpdateType DEF LeaseInv, TypeOK, Ops
<1>3. v \in Slots /\ slots[v].generation \in Generations
  BY <1>2 DEF PinIndexed, LeaseInv, TypeOK, Slot
<1>4. slots[v].chunk = c /\ slots[v].state \in {"filling", "ready"}
  BY <1>2, <1>3 DEF LeaseInv, PoolInv, IndexConsistent
<1>5. l \in Lease /\ l \notin leases
  BY <1>1, <1>3, NewLease
<1>6. /\ slots' = [slots EXCEPT ![v] = PinnedSlot(@)]
      /\ leases' = leases \union {l} /\ pinsTotal' = pinsTotal + 1
      /\ UNCHANGED <<index, requests, late, bytes, inFlight, mutex>>
      /\ call' = [call EXCEPT ![t].done = @ + 1]
  BY DEF PinIndexed, make_lease, StepDone
<1>7. /\ l.slot = v /\ l.generation = slots[v].generation /\ l.chunk = c
      /\ l.owner = t /\ l.pos = call[t].done + 1
  OBVIOUS
<1> HIDE DEF l, v, c
<1>8. PoolInv' /\ \A s \in Slots : slots'[s].state = slots[s].state
  BY <1>3, <1>4, <1>5, <1>6, <1>7, PinPool DEF LeaseInv
<1>9. OthersOutside(t) /\ call[t].pc = "locked" /\ mutex = t
  BY <1>1, InsideIsAlone DEF Handling, LeaseInv, CallInv
<1>10. \A u \in Threads \ {t} : call'[u] = call[u]
  BY <1>6 DEF LeaseInv, TypeOK
<1>11. \A u \in Threads \ {t} : CallInv(u)'
  BY <1>6, <1>7, <1>8, <1>9, <1>10, OthersKeep DEF LeaseInv
<1>12. /\ call'[t].pc = call[t].pc /\ call'[t].op = call[t].op
       /\ call'[t].batch = call[t].batch /\ call'[t].done = call[t].done + 1
       /\ call[t].op = op /\ call[t].done \in Int
  BY <1>1, <1>6 DEF LeaseInv, TypeOK, Call, Handling
<1>13. CallInv(t)'
  <2>1. CallInv(t)
    BY DEF LeaseInv
  <2>2. OutSpan(t)' \subseteq OutSpan(t) \union {l}
    BY <1>6, <1>12 DEF OutSpan
  <2>3. OutSpan(t) \subseteq OutSpan(t)'
    BY <1>6, <1>12 DEF OutSpan
  <2>a. l \in OutSpan(t)'
    <3>1. call[t].batch \in Batches \union {<<>>} /\ call[t].done < Len(call[t].batch)
      BY <1>1 DEF LeaseInv, TypeOK, Call, Handling
    <3>2. Len(call[t].batch) \in Int
      BY <3>1, BatchType
    <3> QED
      BY <1>6, <1>7, <1>12, <3>1, <3>2 DEF OutSpan
  <2>4. \A m \in OutSpan(t)' : m.pos <= call'[t].done
    <3>1. \A m \in OutSpan(t) : m.pos \in Int /\ m.pos <= call[t].done
      BY <1>1, <1>12, <2>1 DEF CallInv, OutSpan, LeaseInv, TypeOK, Lease, Handling
    <3> QED
      BY <1>7, <1>12, <2>2, <3>1
  <2>5. call[t].op = "try_resolve" => slots[v].state = "ready"
    <3>1. SUFFICES ASSUME call[t].op = "try_resolve" PROVE slots[v].state = "ready"
      OBVIOUS
    <3>2. AllReady(call[t].batch)
      BY <1>9, <2>1, <3>1 DEF CallInv
    <3>3. call[t].done + 1 \in 1 .. Len(call[t].batch)
      <4>1. call[t].batch \in Batches \union {<<>>} /\ call[t].done < Len(call[t].batch)
            /\ call[t].done \in 0 .. MaxBatch
        BY <1>1 DEF LeaseInv, TypeOK, Call, Handling
      <4>2. Len(call[t].batch) \in Int
        BY <4>1, BatchType
      <4> QED
        BY <4>1, <4>2, SizeAssumption
    <3> QED
      BY <3>2, <3>3 DEF AllReady, ThisChunk, v, c
  <2>6. \A m \in leases' : /\ m.owner = t
                           /\ InProgress(t)' => m \notin OutSpan(t)'
                           => slots'[m.slot].state = "ready"
    <3> SUFFICES ASSUME NEW m \in leases', m.owner = t,
                        InProgress(t)' => m \notin OutSpan(t)'
                 PROVE  slots'[m.slot].state = "ready"
      OBVIOUS
    <3>1. CASE m = l
      BY <1>1, <1>3, <1>7, <1>8, <1>9, <1>12, <2>a, <2>5, <3>1 DEF InProgress, Handling
    <3>2. CASE m # l
      <4>1. m \in leases /\ m.slot \in Slots
        BY <1>6, <3>2 DEF LeaseInv, TypeOK, Lease
      <4>2. InProgress(t) => m \notin OutSpan(t)
        BY <1>12, <2>3 DEF InProgress
      <4> QED
        BY <1>8, <2>1, <4>1, <4>2 DEF CallInv
    <3> QED
      BY <3>1, <3>2
  <2>7. AllReady(call[t].batch) => AllReady(call[t].batch)'
    <3>1. \A d \in Chunks : index[d] # None => index[d] \in Slots
      BY DEF LeaseInv, TypeOK
    <3>2. \A i \in 1 .. Len(call[t].batch) : call[t].batch[i] \in Chunks
      <4>1. call[t].batch \in Batches \union {<<>>}
        BY DEF LeaseInv, TypeOK, Call
      <4> QED
        BY <4>1, BatchType
    <3> QED
      BY <1>6, <1>8, <1>12, <3>1, <3>2 DEF AllReady
  <2> QED
    BY <1>6, <1>9, <1>12, <2>1, <2>4, <2>6, <2>7 DEF CallInv, AllReady
<1> QED
  BY <1>8, <1>11, <1>13 DEF LeaseInv

\* A prefetch joins a fill under way, starts one, or has one refused.
LEMMA PrefetchStep ==
  ASSUME LeaseInv, TypeOK', NEW t \in Threads,
         \/ PrefetchJoin(t)
         \/ \E k \in SweepSteps("declared") : PrefetchFill(t, k) \/ PrefetchRefused(t, k)
  PROVE  LeaseInv'
<1>1. /\ Handling(t, "prefetch") /\ StepDone(t) /\ UNCHANGED <<mutex, leases, pinsTotal>>
  BY DEF PrefetchJoin, PrefetchFill, PrefetchRefused
<1>2. ThisChunk(t) \in Chunks
  BY <1>1, CallUpdateType DEF LeaseInv, TypeOK, Ops
<1>3. PoolInv' /\ \A l \in leases : Kept(l.slot)
  <2>1. CASE PrefetchJoin(t)
    <3>1. UNCHANGED outside
      BY <2>1 DEF PrefetchJoin, outside
    <3>2. \A s \in Slots : Kept(s)
      BY <2>1 DEF PrefetchJoin, Kept, LeaseInv, TypeOK, Slot
    <3> QED
      BY <3>1, <3>2, KeepPool DEF LeaseInv, TypeOK, Lease
  <2>2. ASSUME NEW k \in SweepSteps("declared"), PrefetchRefused(t, k)
        PROVE  PoolInv' /\ \A l \in leases : Kept(l.slot)
    <3>1. k \in Nat
      BY SizeAssumption DEF SweepSteps
    <3> QED
      BY <1>1, <1>2, <2>2, <3>1, RefusedPool DEF PrefetchRefused, LeaseInv
  <2>3. ASSUME NEW k \in SweepSteps("declared"), PrefetchFill(t, k)
        PROVE  PoolInv' /\ \A l \in leases : Kept(l.slot)
    <3> DEFINE a == call[t].admission
               c == ThisChunk(t)
               old == slots[SlotAt(k)]
               started == StartedSlot(old, c)
               new == [started EXCEPT !.hintUnconsumed = TRUE, !.waiters = {Entry(t)}]
    <3>1. k \in Nat
      BY SizeAssumption DEF SweepSteps
    <3>2. /\ claim_victim(a, k) /\ index[c] = None /\ SubmitAccepted(k, c)
          /\ slots' = SweptSlots(a, k, new)
      BY <2>3 DEF PrefetchFill
    <3>3. SlotAt(k) \in Slots /\ old \in Slot /\ old.pins = 0
      BY <3>1, <3>2, SlotAtType DEF LeaseInv, TypeOK, claim_victim, Takes
    <3>4. /\ started \in Slot
          /\ started.chunk = c /\ started.state = "filling" /\ started.pins = 0
          /\ started.generation = NextGen(old.generation)
      BY <1>2, <3>3, StartedSlotType DEF StartedSlot, Slot
    <3> HIDE DEF started, old
    <3>5. /\ new.chunk = c /\ new.state = "filling" /\ new.pins = 0
          /\ new.generation = NextGen(old.generation)
      BY <3>4 DEF Slot
    <3>6. new \in Slot
      BY <3>2, <3>3 DEF TypeOK, SweptSlots
    <3> HIDE DEF new, a, c
    <3> QED
      BY <1>1, <1>2, <3>1, <3>2, <3>5, <3>6, FillPool DEF LeaseInv, old, c
  <2> QED
    BY <2>1, <2>2, <2>3
<1>4. OthersOutside(t) /\ call[t].pc = "locked" /\ mutex = t /\ call[t].op = "prefetch"
  BY <1>1, InsideIsAlone DEF Handling, LeaseInv, CallInv
<1>5. /\ \A u \in Threads \ {t} : call'[u] = call[u]
      /\ call'[t] = [call[t] EXCEPT !.done = @ + 1]
  BY <1>1 DEF LeaseInv, TypeOK, StepDone
<1>6. \A u \in Threads \ {t} : CallInv(u)'
  BY <1>1, <1>3, <1>4, <1>5, OthersKeep DEF LeaseInv, Kept
<1>7. CallInv(t)'
  <2>1. CallInv(t) /\ call[t] \in Call
    BY DEF LeaseInv, TypeOK
  <2> QED
    BY <1>1, <1>3, <1>4, <1>5, <2>1 DEF CallInv, InProgress, OutSpan, Call, Kept
<1> QED
  BY <1>3, <1>6, <1>7 DEF LeaseInv

\* A resolve starts a fill and pins it, or has it refused and unwinds.
LEMMA ResolveRefusedStep ==
  ASSUME LeaseInv, TypeOK', NEW t \in Threads, NEW k \in SweepSteps("declared"),
         ResolveRefused(t, k)
  PROVE  LeaseInv'
<1>1. /\ Handling(t, "resolve") /\ StopWith(t, "queue_exhausted")
      /\ UNCHANGED <<mutex, leases, pinsTotal>>
  BY DEF ResolveRefused
<1>2. ThisChunk(t) \in Chunks /\ k \in Nat
  <2>1. ThisChunk(t) \in Chunks
    BY <1>1, CallUpdateType DEF LeaseInv, TypeOK, Ops
  <2>2. k \in Nat
    BY SizeAssumption DEF SweepSteps
  <2> QED
    BY <2>1, <2>2
<1>3. PoolInv' /\ \A l \in leases : Kept(l.slot)
  BY <1>1, <1>2, RefusedPool DEF ResolveRefused, LeaseInv
<1>4. OthersOutside(t) /\ call[t].pc = "locked" /\ mutex = t /\ call[t].op = "resolve"
  BY <1>1, InsideIsAlone DEF Handling, LeaseInv, CallInv
<1>5. /\ \A u \in Threads \ {t} : call'[u] = call[u]
      /\ call'[t] = [call[t] EXCEPT !.pc = "unwind", !.failure = "queue_exhausted"]
  BY <1>1 DEF LeaseInv, TypeOK, StopWith
<1>6. \A u \in Threads \ {t} : CallInv(u)'
  BY <1>1, <1>3, <1>4, <1>5, OthersKeep DEF LeaseInv, Kept
<1>7. CallInv(t)'
  <2>1. CallInv(t) /\ call[t] \in Call
    BY DEF LeaseInv, TypeOK
  <2> QED
    BY <1>1, <1>3, <1>4, <1>5, <2>1 DEF CallInv, InProgress, OutSpan, Call, Kept
<1> QED
  BY <1>3, <1>6, <1>7 DEF LeaseInv

LEMMA ResolveFillStep ==
  ASSUME LeaseInv, TypeOK', NEW t \in Threads, NEW k \in SweepSteps("declared"),
         ResolveFill(t, k)
  PROVE  LeaseInv'
<1> DEFINE c == ThisChunk(t)
           v == SlotAt(k)
           old == slots[v]
           started == StartedSlot(old, c)
           new == PinnedSlot(started)
           l == [owner |-> t, pos |-> call[t].done + 1, slot |-> v,
                 generation |-> started.generation, chunk |-> c]
<1>1. /\ Handling(t, "resolve") /\ StepDone(t) /\ UNCHANGED mutex
      /\ claim_victim("declared", k) /\ index[c] = None /\ SubmitAccepted(k, c)
      /\ slots' = SweptSlots("declared", k, new)
      /\ leases' = leases \union {l} /\ pinsTotal' = pinsTotal + 1
  BY DEF ResolveFill, make_lease
<1>2. c \in Chunks /\ k \in Nat
  <2>1. c \in Chunks
    BY <1>1, CallUpdateType DEF LeaseInv, TypeOK, Ops
  <2>2. k \in Nat
    BY SizeAssumption DEF SweepSteps
  <2> QED
    BY <2>1, <2>2
<1>3. v \in Slots /\ old \in Slot /\ old.pins = 0
  BY <1>1, <1>2, SlotAtType DEF LeaseInv, TypeOK, claim_victim, Takes
<1>4. /\ started \in Slot
      /\ started.chunk = c /\ started.state = "filling" /\ started.pins = 0
      /\ started.generation = NextGen(old.generation)
  BY <1>2, <1>3, StartedSlotType DEF StartedSlot, Slot
<1> HIDE DEF started
<1>5. /\ new \in Slot /\ new.chunk = c /\ new.state = "filling" /\ new.pins = 1
      /\ new.generation = started.generation
  <2>1. new \in Slot
    BY <1>4, PinnedSlotType
  <2>2. /\ new.chunk = started.chunk /\ new.state = started.state
        /\ new.pins = started.pins + 1 /\ new.generation = started.generation
    BY <1>4 DEF PinnedSlot, Slot
  <2> QED
    BY <1>4, <2>1, <2>2
<1>6. l \in Lease /\ l \notin leases
  <2>1. started.generation \in Generations
    BY <1>4 DEF Slot
  <2> QED
    BY <1>1, <1>3, <2>1, NewLease
<1>7. /\ l.slot = v /\ l.generation = new.generation /\ l.chunk = c
      /\ l.owner = t /\ l.pos = call[t].done + 1
  BY <1>5
<1> HIDE DEF new, l, c, v
<1>8. PoolInv' /\ \A m \in leases : Kept(m.slot)
  BY <1>1, <1>2, <1>4, <1>5, <1>6, <1>7, FillPool DEF LeaseInv, v
<1>9. OthersOutside(t) /\ call[t].pc = "locked" /\ mutex = t /\ call[t].op = "resolve"
  BY <1>1, InsideIsAlone DEF Handling, LeaseInv, CallInv
<1>10. /\ \A u \in Threads \ {t} : call'[u] = call[u]
       /\ call'[t] = [call[t] EXCEPT !.done = @ + 1]
  BY <1>1 DEF LeaseInv, TypeOK, StepDone
<1>11. \A u \in Threads \ {t} : CallInv(u)'
  BY <1>1, <1>7, <1>8, <1>9, <1>10, OthersKeep DEF LeaseInv, Kept
<1>12. CallInv(t)'
  <2>1. CallInv(t) /\ call[t] \in Call
    BY DEF LeaseInv, TypeOK
  <2>2. /\ call'[t].pc = "locked" /\ call'[t].op = "resolve"
        /\ call'[t].batch = call[t].batch /\ call'[t].done = call[t].done + 1
        /\ call[t].done \in Int
    BY <1>9, <1>10, <2>1 DEF Call
  <2>3. OutSpan(t) \subseteq OutSpan(t)' /\ OutSpan(t)' \subseteq OutSpan(t) \union {l}
    BY <1>1, <2>2 DEF OutSpan
  <2>4. l \in OutSpan(t)'
    <3>1. call[t].batch \in Batches \union {<<>>} /\ call[t].done < Len(call[t].batch)
      BY <1>1, <2>1 DEF Call, Handling
    <3>2. Len(call[t].batch) \in Int
      BY <3>1, BatchType
    <3> QED
      BY <1>1, <1>7, <2>2, <3>1, <3>2 DEF OutSpan
  <2>5. \A m \in OutSpan(t)' : m.pos <= call'[t].done
    <3>1. \A m \in OutSpan(t) : m.pos \in Int /\ m.pos <= call[t].done
      BY <1>9, <2>1 DEF CallInv, OutSpan, LeaseInv, TypeOK, Lease
    <3> QED
      BY <1>7, <2>2, <2>3, <3>1
  <2>6. \A m \in leases' : /\ m.owner = t
                           /\ InProgress(t)' => m \notin OutSpan(t)'
                           => slots'[m.slot].state = "ready"
    <3> SUFFICES ASSUME NEW m \in leases', m.owner = t, m \notin OutSpan(t)'
                 PROVE  slots'[m.slot].state = "ready"
      BY <2>2 DEF InProgress
    <3>1. m \in leases /\ m \notin OutSpan(t)
      BY <1>1, <2>3, <2>4
    <3> QED
      BY <1>8, <2>1, <3>1 DEF CallInv, Kept
  <2> QED
    BY <1>1, <1>9, <2>2, <2>5, <2>6 DEF CallInv
<1> QED
  BY <1>8, <1>11, <1>12 DEF LeaseInv

\* An answer arrives.
LEMMA CompleteStep ==
  ASSUME LeaseInv, TypeOK', NEW q \in requests, NEW res, Answer(res), Complete(q, res)
  PROVE  LeaseInv'
<1>1. /\ PoolInv' /\ slots[q.slot].state = "filling"
      /\ \A s \in Slots \ {q.slot} : Kept(s)
      /\ notify_all
  BY CompletePool DEF LeaseInv
<1>2. mutex = None /\ UNCHANGED <<mutex, leases>>
  BY DEF Complete, on_complete
<1> SUFFICES ASSUME NEW u \in Threads PROVE CallInv(u)'
  BY <1>1 DEF LeaseInv
<1>3. CallInv(u) /\ call[u] \in Call /\ call[u].pc \notin {"locked", "unwind"}
  BY <1>2, ChunkAssumption DEF LeaseInv, TypeOK, CallInv
<1>4. call'[u] = call[u] \/ /\ call[u].pc = "asleep"
                            /\ call'[u] = [call[u] EXCEPT !.pc = "acquire"]
  BY <1>1 DEF notify_all
<1>5. /\ call'[u].op = call[u].op /\ call'[u].batch = call[u].batch
      /\ call'[u].done = call[u].done /\ call'[u].pc \notin {"locked", "unwind"}
      /\ (call'[u].pc = "release" <=> call[u].pc = "release")
      /\ (call'[u].pc = "idle" <=> call[u].pc = "idle")
  BY <1>3, <1>4 DEF Call
<1>6. OutSpan(u)' = OutSpan(u) /\ (InProgress(u)' <=> InProgress(u))
  BY <1>2, <1>5 DEF OutSpan, InProgress
<1>7. \A l \in leases : /\ l.slot \in Slots
                        /\ slots[l.slot].state = "ready" => slots'[l.slot].state = "ready"
  BY <1>1 DEF LeaseInv, TypeOK, Lease, Kept
<1> QED
  BY <1>2, <1>3, <1>5, <1>6, <1>7 DEF CallInv

LEMMA BackendStep ==
  ASSUME LeaseInv, TypeOK', Backend
  PROVE  LeaseInv'
<1>1. ASSUME NEW q \in requests, NEW res \in FillResults, Complete(q, res)
      PROVE  LeaseInv'
  BY <1>1, ResultsAnswer, CompleteStep
<1>2. ASSUME NEW token \in late, NEW res \in FillResults, Redeliver(token, res)
      PROVE  LeaseInv'
  <2>1. UNCHANGED <<poolVars, call, mutex, leases>> /\ PoolInv'
    BY <1>2, RedeliverPool DEF LeaseInv
  <2> QED
    BY <2>1 DEF LeaseInv, CallInv, poolVars, InProgress, OutSpan, AllReady
<1> QED
  BY <1>1, <1>2 DEF Backend

-----------------------------------------------------------------------------
(***************************************************************************)
(* The theorems.                                                           *)
(***************************************************************************)

LEMMA LeaseInit == Init => LeaseInv
<1> SUFFICES ASSUME Init PROVE LeaseInv
  OBVIOUS
<1>1. TypeOK
  BY TypeInit
<1>2. /\ leases = {} /\ requests = {} /\ late = {} /\ inFlight = 0 /\ pinsTotal = 0
      /\ \A s \in Slots : slots[s] = InitialSlot
      /\ \A c \in Chunks : index[c] = None
      /\ \A t \in Threads : call[t] = Idle
  BY DEF Init
<1>3. \A s \in Slots : slots[s].state = "free" /\ slots[s].pins = 0
  BY <1>2 DEF InitialSlot
<1>4. IsFiniteSet({}) /\ Cardinality({}) = 0
  BY FS_EmptySet
<1>5. PinsExact /\ IsFiniteSet(leases)
  <2>1. \A s \in Slots : Pinning(s) = {}
    BY <1>2 DEF Pinning
  <2> QED
    BY <1>2, <1>3, <1>4, <2>1 DEF PinsExact
<1>6. FillsMatchRequests /\ IsFiniteSet(requests)
  BY <1>2, <1>3, <1>4 DEF FillsMatchRequests
<1>7. IndexConsistent
  <2>1. None \notin Slots
    BY ChunkAssumption DEF Slots
  <2> QED
    BY <1>2, <1>3, <2>1 DEF IndexConsistent
<1>8. LeaseCurrent /\ ReadyBytes /\ FailedPinned /\ LateIsOld
  BY <1>2, <1>3 DEF LeaseCurrent, ReadyBytes, FailedPinned, LateIsOld
<1>9. \A t \in Threads : CallInv(t)
  BY <1>2 DEF CallInv, Idle
<1> QED
  BY <1>1, <1>5, <1>6, <1>7, <1>8, <1>9 DEF LeaseInv, PoolInv

\* One step of the specification, action by action.
LEMMA LeaseNext == LeaseInv /\ [Next]_vars => LeaseInv'
<1> SUFFICES ASSUME LeaseInv, [Next]_vars PROVE LeaseInv'
  OBVIOUS
<1>1. TypeOK'
  BY TypeNext DEF LeaseInv
<1>2. ASSUME NEW t \in Threads, Begin(t) PROVE LeaseInv'
  BY <1>1, <1>2, BeginStep, UnpinStep DEF Begin
<1>3. ASSUME NEW t \in Threads, LockStep(t) PROVE LeaseInv'
  BY <1>1, <1>3, QuietStep, UnpinStep DEF LockStep
<1>4. ASSUME NEW t \in Threads, Step(t) PROVE LeaseInv'
  BY <1>1, <1>4, QuietStep, PrefetchStep, PinIndexedStep, ResolveFillStep,
     ResolveRefusedStep, UnpinStep DEF Step
<1>5. ASSUME NEW t \in Threads, SpuriousWake(t) \/ Timeout(t) PROVE LeaseInv'
  BY <1>1, <1>5, QuietStep
<1>6. CASE Backend
  BY <1>1, <1>6, BackendStep
<1>7. CASE UNCHANGED vars
  <2>1. UNCHANGED <<slots, index, mutex, call, leases>> /\ UNCHANGED outside
    BY <1>7 DEF vars, poolVars, outside
  <2>2. PoolInv'
    BY <2>1, KeepPool DEF LeaseInv, Kept
  <2>3. \A t \in Threads : CallInv(t)'
    BY <2>1 DEF LeaseInv, CallInv, InProgress, OutSpan, AllReady
  <2> QED
    BY <1>1, <2>2, <2>3 DEF LeaseInv
<1> QED
  BY <1>2, <1>3, <1>4, <1>5, <1>6, <1>7 DEF Next

\* The invariant that carries the lease properties holds in every instance.
THEOREM LeaseInvariant == Spec => []LeaseInv
BY LeaseInit, LeaseNext, PTL DEF Spec

LEMMA LeaseInvImplies ==
  LeaseInv => /\ LeaseBytesValid /\ PinsExact /\ IndexConsistent /\ FillsMatchRequests
              /\ FailedIsWaitedFor
<1> SUFFICES ASSUME LeaseInv PROVE /\ LeaseBytesValid /\ FailedIsWaitedFor
  BY DEF LeaseInv, PoolInv
<1>a. \A l \in leases : l.owner \in Threads /\ l.slot \in Slots
  BY DEF LeaseInv, TypeOK, Lease
<1>1. LeaseBytesValid
  <2> SUFFICES ASSUME NEW l \in Granted
               PROVE  /\ slots[l.slot].state = "ready"
                      /\ slots[l.slot].chunk = l.chunk
                      /\ bytes[l.slot] = l.chunk
    BY DEF LeaseBytesValid
  <2>1. slots[l.slot].state = "ready" /\ l \in leases
    BY <1>a DEF Granted, LeaseInv, CallInv
  <2> QED
    BY <1>a, <2>1 DEF LeaseInv, PoolInv, LeaseCurrent, ReadyBytes
<1>2. FailedIsWaitedFor
  <2> SUFFICES ASSUME NEW s \in Slots, slots[s].state = "failed"
               PROVE  \E l \in leases : /\ l.slot = s /\ InProgress(l.owner)
                                        /\ l \in OutSpan(l.owner)
    BY DEF FailedIsWaitedFor
  <2>1. Cardinality(Pinning(s)) # 0
    BY DEF LeaseInv, PoolInv, PinsExact, FailedPinned
  <2>2. Pinning(s) # {}
    BY <2>1, FS_EmptySet
  <2>3. PICK l \in leases : l.slot = s
    BY <2>2 DEF Pinning
  <2> QED
    BY <1>a, <2>3 DEF LeaseInv, CallInv
<1> QED
  BY <1>1, <1>2

\* A lease a caller holds shows, whole, the bytes of the chunk it asked for, for
\* any number of threads, slots and chunks, with any fills failing, refused or
\* answered twice.
THEOREM LeasesAreValid == Spec => []LeaseBytesValid
BY LeaseInvariant, LeaseInvImplies, PTL

\* Pin counts are exactly the leases in existence.
THEOREM PinsAreExact == Spec => []PinsExact
BY LeaseInvariant, LeaseInvImplies, PTL

\* The index is exactly the filling and ready slots.
THEOREM IndexIsConsistent == Spec => []IndexConsistent
BY LeaseInvariant, LeaseInvImplies, PTL

\* The backend's requests are exactly the fills under way.
THEOREM FillsAreRequests == Spec => []FillsMatchRequests
BY LeaseInvariant, LeaseInvImplies, PTL

\* A failed slot is always waited for, and so is freed in the end.
THEOREM FailuresAreWaitedFor == Spec => []FailedIsWaitedFor
BY LeaseInvariant, LeaseInvImplies, PTL

\* Nothing a thread does both takes a repeated answer away and leaves the requests
\* as they are: a fill that makes an old token current is a new request.
LEMMA ThreadsKeepLate ==
  ASSUME LeaseInv, NEW t \in Threads,
         Begin(t) \/ LockStep(t) \/ Step(t) \/ SpuriousWake(t) \/ Timeout(t)
  PROVE  late' = late \/ requests' # requests
<1>1. CASE Begin(t)
  <2>1. \A b, a : Prefetch(t, b, a) => late' = late
    BY DEF Prefetch
  <2>2. \A op, b : Resolve(t, op, b) => late' = late
    BY DEF Resolve
  <2>3. \A k, d : Wait(t, k, d) \/ DiscardTicket(t, k) => late' = late
    BY DEF Wait, DiscardTicket
  <2>4. \A l : ReleaseLease(t, l) => late' = late
    BY DEF ReleaseLease, unpin_locked
  <2>5. \A d, c : Drain(t, d) \/ WontNeed(t, c) => late' = late
    BY DEF Drain, WontNeed
  <2> QED
    BY <1>1, <2>1, <2>2, <2>3, <2>4, <2>5 DEF Begin
<1>2. CASE LockStep(t)
  <2>1. \A l : ReleaseAll(t, l) => late' = late
    BY DEF ReleaseAll, unpin_locked
  <2>2. ResolveLock(t) \/ TryResolveLock(t) \/ Acquire(t) => late' = late
    BY DEF ResolveLock, TryResolveLock, Acquire
  <2> QED
    BY <1>2, <2>1, <2>2 DEF LockStep
<1>3. CASE SpuriousWake(t) \/ Timeout(t)
  BY <1>3 DEF SpuriousWake, Timeout
<1>4. ASSUME NEW k \in SweepSteps("declared"), PrefetchFill(t, k) \/ ResolveFill(t, k)
      PROVE  requests' # requests
  <2>1. PICK a, new : claim_victim(a, k) /\ SubmitAccepted(k, ThisChunk(t))
                      /\ slots' = SweptSlots(a, k, new)
    BY <1>4, Zenon DEF PrefetchFill, ResolveFill
  <2>2. k \in Nat
    BY SizeAssumption DEF SweepSteps
  <2>3. \A q \in requests : q.slot # SlotAt(k)
    BY <2>1, <2>2, VictimFacts DEF LeaseInv
  <2>4. \E q \in requests' : q.slot = SlotAt(k)
    <3> DEFINE q == [slot |-> SlotAt(k), generation |-> NextGen(slots[SlotAt(k)].generation),
                     chunk |-> ThisChunk(t)]
    <3>1. q \in requests'
      BY <2>1, Zenon DEF SubmitAccepted
    <3>2. q.slot = SlotAt(k)
      OBVIOUS
    <3> QED
      BY <3>1, <3>2
  <2> QED
    BY <2>3, <2>4
<1>5. CASE Step(t)
  <2>1. PrefetchResident(t) \/ PrefetchJoin(t) \/ PrefetchDeclined(t) => late' = late
    BY DEF PrefetchResident, PrefetchJoin, PrefetchDeclined
  <2>2. \A k : PrefetchRefused(t, k) \/ ResolveRefused(t, k) => late' = late
    BY DEF PrefetchRefused, ResolveRefused, SubmitRefused
  <2>3. PrefetchReturn(t) \/ PinIndexed(t) \/ ResolveExhausted(t) => late' = late
    BY DEF PrefetchReturn, PinIndexed, ResolveExhausted
  <2>4. \A l : Unwind(t, l) => late' = late
    BY DEF Unwind, unpin_locked
  <2>5. UnwindReturn(t) \/ Sleep(t) \/ Return(t) => late' = late
    BY DEF UnwindReturn, Sleep, Return
  <2>6. ResolveFailed(t) \/ TryResolveReturn(t) => late' = late
    BY DEF ResolveFailed, TryResolveReturn
  <2> QED
    BY <1>4, <1>5, <2>1, <2>2, <2>3, <2>4, <2>5, <2>6 DEF Step
<1> QED
  BY <1>1, <1>2, <1>3, <1>5

\* An answer given twice changes nothing, however many fills the slot has seen in
\* between: on_complete's generation and state test is enough.
THEOREM RepeatedAnswersAreHarmless == Spec => DuplicatesRejected
<1>1. ASSUME LeaseInv, [Next]_vars
      PROVE  [(late' # late /\ late' \subseteq late /\ requests' = requests) =>
                 UNCHANGED <<poolVars, bytes, call>>]_vars
  <2> SUFFICES ASSUME Next, late' # late, requests' = requests
               PROVE  UNCHANGED <<poolVars, bytes, call>>
    BY <1>1
  <2>1. Backend
    BY <1>1, ThreadsKeepLate DEF Next
  <2>2. ASSUME NEW q \in requests, NEW res \in FillResults, Complete(q, res)
        PROVE  FALSE
    BY <2>2 DEF Complete
  <2>3. PICK token \in late, res \in FillResults : Redeliver(token, res)
    BY <2>1, <2>2 DEF Backend
  <2> QED
    BY <1>1, <2>3, RedeliverPool DEF LeaseInv
<1> QED
  BY <1>1, LeaseInvariant, PTL DEF Spec, DuplicatesRejected

=============================================================================
