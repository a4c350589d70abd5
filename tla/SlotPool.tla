------------------------------ MODULE SlotPool ------------------------------
(***************************************************************************)
(* The bounded slot pool of slot_pool.hpp: threads that prefetch, resolve, *)
(* wait, drain and release against one pool, and the fill backend that     *)
(* answers it.                                                             *)
(*                                                                         *)
(* One step is one region of code whose intermediate states nobody can     *)
(* see.  A batch operation holds mutex_ across its loop over chunks; the   *)
(* loop is one step per chunk with the mutex held, so that a step reads    *)
(* like one iteration of the loop.  Leases, tickets and requests are the   *)
(* objects outside the pool: what its callers and its backend hold.        *)
(*                                                                         *)
(* The chunk index is the map it implements, the CLOCK sweep is the slot   *)
(* it ends on, statistics counters are left out: nothing reads them back.  *)
(* A Fault_ operator is a wrong version of the definition that follows it; *)
(* no action uses one.  Each shows that some property below can fail.      *)
(***************************************************************************)
EXTENDS Transfer, Sequences, FiniteSets

CONSTANTS
  Threads,        \* application threads that call the pool
  Chunks,         \* the chunks the source is cut into
  ChunkLength,    \* chunk_length(chunk): the last chunk may be shorter
  NumSlots,       \* config.num_slots
  MaxBatch,       \* config.max_batch_chunks
  MaxTickets,     \* config.max_tickets
  GenMod,         \* generations wrap here (2^32 in the code)
  Batches,        \* the batches callers pass, as the chunks they touch in order
  Usage,          \* the entry points callers use
  FillResults,    \* what the backend may report for a fill
  MaxDuplicates,  \* how many answered requests may yet be answered again
  None            \* NONE: no slot, no owner, no meaningful bytes

ASSUME SizeAssumption == /\ NumSlots \in Nat \ {0}
                         /\ MaxBatch \in Nat \ {0}
                         /\ MaxTickets \in Nat \ {0}
                         /\ GenMod \in Nat \ {0, 1}
                         /\ MaxDuplicates \in Nat

ASSUME ChunkAssumption == /\ ChunkLength \in [Chunks -> Nat \ {0}]
                          /\ None \notin Chunks
                          /\ None \notin Nat
                          /\ None \notin Threads

EntryPoints == {"prefetch", "resolve", "try_resolve", "wait", "drain", "wont_need"}

ASSUME InputAssumption ==
  /\ Batches \subseteq UNION {[1 .. n -> Chunks] : n \in 1 .. MaxBatch}
  /\ Usage \subseteq EntryPoints

ASSUME ResultAssumption == /\ FillResults \subseteq FillResult
                           /\ \A res \in FillResults : res.status # "pending"

VARIABLES
  slots,          \* slots_: one record per slot
  index,          \* index_: chunk -> slot, as the map it implements
  records,        \* tickets_ and waiters_: one record per outstanding ticket
  clockHand,      \* clock_hand_
  inFlight,       \* in_flight_
  pinsTotal,      \* pins_total_
  ticketsHeld,    \* tickets_held_
  mutex,          \* mutex_: the thread inside, or None
  call,           \* what each thread is doing: locals and program counter
  leases,         \* the Lease objects that pin something, wherever they live
  tickets,        \* the Ticket objects that hold a record
  requests,       \* FillRequests the backend accepted and has not answered
  late,           \* tokens already answered that may be answered once more
  bytes           \* whose bytes each slot's storage holds, None if nobody's

poolVars == <<slots, index, records, clockHand, inFlight, pinsTotal, ticketsHeld>>
vars == <<poolVars, mutex, call, leases, tickets, requests, late, bytes>>

Slots == 0 .. NumSlots - 1
Records == 1 .. MaxTickets
Generations == 0 .. GenMod - 1
SlotState == {"free", "filling", "ready", "failed"}
\* A free slot's chunk and failure are dead: start_fill sets both before any use.
Slot == [chunk : Chunks \union {None}, generation : Generations, pins : Int,
         state : SlotState, failure : Status, referenced : BOOLEAN,
         hintUnconsumed : BOOLEAN, waiters : SUBSET (Records \X (1 .. MaxBatch))]

TicketRecord == [generation : Generations, batch : Batches \union {<<>>},
                 outcome : Seq(Status), pending : Int, held : BOOLEAN, inUse : BOOLEAN]

Lease == [owner : Threads, pos : 1 .. MaxBatch, slot : Slots,
          generation : Generations, chunk : Chunks]
Ticket == [owner : Threads, record : Records, generation : Generations]
Token == [slot : Slots, generation : Generations]
Request == [slot : Slots, generation : Generations, chunk : Chunks]

(***************************************************************************)
(* A thread's call.  "release": giving back the leases of the output span; *)
(* "acquire": about to take the mutex; "locked": inside it; "asleep": on   *)
(* the condition variable; "unwind": inside, undoing a failed resolve.     *)
(***************************************************************************)
Ops == {"none", "prefetch", "resolve", "try_resolve", "wait", "drain"}
Pcs == {"idle", "release", "acquire", "locked", "asleep", "unwind"}
Call == [op : Ops, pc : Pcs, batch : Batches \union {<<>>}, done : 0 .. MaxBatch,
         admission : AdmissionClass, record : Records,
         deadline : BOOLEAN, failure : Status]

\* Between calls; the fields past pc mean something only in a call that sets them.
Idle == [op |-> "none", pc |-> "idle", batch |-> <<>>, done |-> 0,
         admission |-> "declared", record |-> 1, deadline |-> FALSE,
         failure |-> "ok"]

InitialSlot == [chunk |-> None, generation |-> 0, pins |-> 0, state |-> "free",
                failure |-> "ok", referenced |-> FALSE,
                hintUnconsumed |-> FALSE, waiters |-> {}]

InitialRecord == [generation |-> 0, batch |-> <<>>, outcome |-> <<>>,
                  pending |-> 0, held |-> FALSE, inUse |-> FALSE]

Init ==
  /\ slots = [s \in Slots |-> InitialSlot]
  /\ index = [c \in Chunks |-> None]
  /\ records = [r \in Records |-> InitialRecord]
  /\ clockHand = 0 /\ inFlight = 0 /\ pinsTotal = 0 /\ ticketsHeld = 0
  /\ mutex = None
  /\ call = [t \in Threads |-> Idle]
  /\ leases = {} /\ tickets = {} /\ requests = {} /\ late = {}
  /\ bytes = [s \in Slots |-> None]

Fault_NoWrap(g) == g + 1

NextGen(g) == (g + 1) % GenMod

\* The output span of a thread's resolve: its leases at the batch's positions.
OutSpan(t) == {l \in leases : l.owner = t /\ l.pos <= Len(call[t].batch)}

(***************************************************************************)
(* claim_victim: slot k of the sweep is taken when it is free, or ready    *)
(* and not referenced; the second revolution finds every reference bit the *)
(* first one cleared.  A speculative sweep makes one revolution and clears *)
(* nothing.                                                                *)
(***************************************************************************)
SlotAt(k) == (clockHand + k) % NumSlots

SweepSteps(admission) ==
  0 .. (IF admission = "declared" THEN 2 * NumSlots ELSE NumSlots) - 1

Fault_TakeFilling(k) ==
  LET s == slots[SlotAt(k)]
  IN  s.pins = 0 /\ (s.referenced => k >= NumSlots)

Takes(k) ==
  LET s == slots[SlotAt(k)]
  IN  s.pins = 0 /\ \/ s.state = "free"
                    \/ s.state = "ready" /\ (s.referenced => k >= NumSlots)

claim_victim(admission, k) ==
  /\ k \in SweepSteps(admission)
  /\ Takes(k)
  /\ \A j \in 0 .. k - 1 : ~Takes(j)

NoVictim(admission) == \A k \in SweepSteps(admission) : ~Takes(k)

Fault_GuessesAge(admission, k) ==
  {SlotAt(j) : j \in {i \in 0 .. k - 1 : /\ slots[SlotAt(i)].pins = 0
                                         /\ slots[SlotAt(i)].state = "ready"}}

\* The slots that lose their reference bit before the sweep ends at step k.
Aged(admission, k) ==
  {SlotAt(j) : j \in {i \in 0 .. k - 1 : /\ admission = "declared"
                                         /\ slots[SlotAt(i)].pins = 0
                                         /\ slots[SlotAt(i)].state = "ready"}}

(***************************************************************************)
(* start_fill on the victim of step k, without the backend's answer: the   *)
(* evicted chunk leaves the index, the new one enters it.                  *)
(***************************************************************************)
Fault_EvictNothing(k) == {}

Evicted(k) == {c \in Chunks : index[c] = SlotAt(k)}

StartedSlot(old, chunk) ==
  [old EXCEPT !.chunk = chunk, !.generation = NextGen(@), !.state = "filling",
              !.failure = "ok", !.waiters = {}, !.referenced = FALSE,
              !.hintUnconsumed = FALSE]

make_free(s) ==
  [s EXCEPT !.state = "free", !.referenced = FALSE, !.hintUnconsumed = FALSE,
            !.chunk = None, !.failure = "ok"]

SweptSlots(admission, k, new) ==
  [s \in Slots |-> IF s = SlotAt(k) THEN new
                   ELSE IF s \in Aged(admission, k)
                   THEN [slots[s] EXCEPT !.referenced = FALSE]
                   ELSE slots[s]]

\* The backend takes the request: from here on its writes may land in the slot.
SubmitAccepted(k, chunk) ==
  LET s == SlotAt(k)
      g == NextGen(slots[s].generation)
  IN  /\ index' = [c \in Chunks |-> IF c = chunk THEN s
                                    ELSE IF c \in Evicted(k) THEN None
                                    ELSE index[c]]
      /\ clockHand' = SlotAt(k + 1)
      /\ inFlight' = inFlight + 1
      /\ requests' = requests \union {[slot |-> s, generation |-> g, chunk |-> chunk]}
      /\ late' = late \ {[slot |-> s, generation |-> g]}
      /\ bytes' = [bytes EXCEPT ![s] = None]

\* The backend's queue is full: the slot is freed again, the victim stays evicted.
SubmitRefused(admission, k, chunk) ==
  /\ slots' = SweptSlots(admission, k, make_free(StartedSlot(slots[SlotAt(k)], chunk)))
  /\ index' = [c \in Chunks |-> IF c \in Evicted(k) THEN None ELSE index[c]]
  /\ clockHand' = SlotAt(k + 1)
  /\ UNCHANGED <<inFlight, requests, late, bytes>>

-----------------------------------------------------------------------------
(***************************************************************************)
(* prefetch: claim a ticket record, then decide chunk by chunk.            *)
(***************************************************************************)
Prefetch(t, batch, admission) ==
  /\ "prefetch" \in Usage
  /\ call[t].pc = "idle" /\ mutex = None
  /\ \E r \in Records :
       /\ ~records[r].inUse
       /\ \A q \in 1 .. r - 1 : records[q].inUse
       /\ records' = [records EXCEPT ![r] =
            [generation |-> NextGen(records[r].generation), batch |-> batch,
             outcome |-> <<>>, pending |-> 0, held |-> TRUE, inUse |-> TRUE]]
       /\ call' = [call EXCEPT ![t] =
            [Idle EXCEPT !.op = "prefetch", !.pc = "locked", !.batch = batch,
                         !.admission = admission, !.record = r]]
  /\ ticketsHeld' = ticketsHeld + 1
  /\ mutex' = t
  /\ UNCHANGED <<slots, index, clockHand, inFlight, pinsTotal, leases, tickets,
                 requests, late, bytes>>

\* Inside the loop of op, with a chunk left to handle.
Handling(t, op) ==
  /\ call[t].op = op /\ call[t].pc = "locked"
  /\ call[t].done < Len(call[t].batch)

ThisChunk(t) == call[t].batch[call[t].done + 1]
StepDone(t) == call' = [call EXCEPT ![t].done = @ + 1]

\* The waiter entry of the chunk being handled gets its outcome.
WithOutcome(old, outcome) ==
  [old EXCEPT !.outcome = Append(@, outcome),
              !.pending = IF outcome = "pending" THEN @ + 1 ELSE @]

SetOutcome(t, outcome) ==
  records' = [records EXCEPT ![call[t].record] = WithOutcome(@, outcome)]

Entry(t) == <<call[t].record, call[t].done + 1>>

PrefetchResident(t) ==
  /\ Handling(t, "prefetch")
  /\ index[ThisChunk(t)] # None
  /\ slots[index[ThisChunk(t)]].state = "ready"
  /\ SetOutcome(t, "ok") /\ StepDone(t)
  /\ UNCHANGED <<slots, index, clockHand, inFlight, pinsTotal, ticketsHeld, mutex,
                 leases, tickets, requests, late, bytes>>

PrefetchJoin(t) ==
  /\ Handling(t, "prefetch")
  /\ index[ThisChunk(t)] # None
  /\ slots[index[ThisChunk(t)]].state = "filling"
  /\ slots' = [slots EXCEPT ![index[ThisChunk(t)]].waiters = @ \union {Entry(t)}]
  /\ SetOutcome(t, "pending") /\ StepDone(t)
  /\ UNCHANGED <<index, clockHand, inFlight, pinsTotal, ticketsHeld, mutex, leases,
                 tickets, requests, late, bytes>>

PrefetchDeclined(t) ==
  /\ Handling(t, "prefetch")
  /\ index[ThisChunk(t)] = None
  /\ NoVictim(call[t].admission)
  /\ SetOutcome(t, IF call[t].admission = "speculative" THEN "declined"
                                                         ELSE "pool_exhausted")
  /\ StepDone(t)
  /\ UNCHANGED <<slots, index, clockHand, inFlight, pinsTotal, ticketsHeld, mutex,
                 leases, tickets, requests, late, bytes>>

PrefetchFill(t, k) ==
  /\ Handling(t, "prefetch")
  /\ index[ThisChunk(t)] = None
  /\ claim_victim(call[t].admission, k)
  /\ slots' = SweptSlots(call[t].admission, k,
                [StartedSlot(slots[SlotAt(k)], ThisChunk(t))
                   EXCEPT !.hintUnconsumed = TRUE, !.waiters = {Entry(t)}])
  /\ SubmitAccepted(k, ThisChunk(t))
  /\ SetOutcome(t, "pending") /\ StepDone(t)
  /\ UNCHANGED <<pinsTotal, ticketsHeld, mutex, leases, tickets>>

PrefetchRefused(t, k) ==
  /\ Handling(t, "prefetch")
  /\ index[ThisChunk(t)] = None
  /\ claim_victim(call[t].admission, k)
  /\ SubmitRefused(call[t].admission, k, ThisChunk(t))
  /\ SetOutcome(t, "queue_exhausted") /\ StepDone(t)
  /\ UNCHANGED <<pinsTotal, ticketsHeld, mutex, leases, tickets>>

PrefetchReturn(t) ==
  /\ call[t].op = "prefetch" /\ call[t].pc = "locked"
  /\ call[t].done = Len(call[t].batch)
  /\ tickets' = tickets \union
       {[owner |-> t, record |-> call[t].record,
         generation |-> records[call[t].record].generation]}
  /\ call' = [call EXCEPT ![t] = Idle]
  /\ mutex' = None
  /\ UNCHANGED <<poolVars, leases, requests, late, bytes>>

-----------------------------------------------------------------------------
(***************************************************************************)
(* unpin_locked, on the slot of a lease that ends in this step.            *)
(***************************************************************************)
Fault_KeepFailed(old) == [old EXCEPT !.pins = @ - 1]

UnpinnedSlot(old) ==
  LET s == [old EXCEPT !.pins = @ - 1]
  IN  IF s.pins = 0 /\ s.state = "failed" THEN make_free(s) ELSE s

unpin_locked(l) ==
  /\ slots' = [slots EXCEPT ![l.slot] = UnpinnedSlot(@)]
  /\ pinsTotal' = pinsTotal - 1
  /\ leases' = leases \ {l}
  /\ UNCHANGED <<index, records, clockHand, inFlight, ticketsHeld, tickets,
                 requests, late, bytes>>

\* Lease::reset by its owner, between calls.
ReleaseLease(t, l) ==
  /\ call[t].pc = "idle" /\ mutex = None
  /\ l \in leases /\ l.owner = t
  /\ unpin_locked(l)
  /\ UNCHANGED <<mutex, call>>

\* resolve and try_resolve: the call begins with release_all on the output span.
Resolve(t, op, batch) ==
  /\ op \in {"resolve", "try_resolve"} \intersect Usage
  /\ call[t].pc = "idle"
  /\ call' = [call EXCEPT ![t] = [Idle EXCEPT !.op = op, !.pc = "release",
                                              !.batch = batch]]
  /\ UNCHANGED <<poolVars, mutex, leases, tickets, requests, late, bytes>>

\* Each reset takes the mutex for itself.
ReleaseAll(t, l) ==
  /\ call[t].pc = "release" /\ mutex = None
  /\ l \in OutSpan(t)
  /\ \A other \in OutSpan(t) : l.pos <= other.pos
  /\ unpin_locked(l)
  /\ UNCHANGED <<mutex, call>>

ResolveLock(t) ==
  /\ call[t].op = "resolve" /\ call[t].pc = "release" /\ mutex = None
  /\ OutSpan(t) = {}
  /\ mutex' = t
  /\ call' = [call EXCEPT ![t].pc = "locked"]
  /\ UNCHANGED <<poolVars, leases, tickets, requests, late, bytes>>

AllReady(batch) ==
  \A i \in 1 .. Len(batch) : /\ index[batch[i]] # None
                             /\ slots[index[batch[i]]].state = "ready"

\* try_resolve decides once, under the mutex it then keeps until it has pinned.
TryResolveLock(t) ==
  /\ call[t].op = "try_resolve" /\ call[t].pc = "release" /\ mutex = None
  /\ OutSpan(t) = {}
  /\ IF AllReady(call[t].batch)
     THEN /\ mutex' = t
          /\ call' = [call EXCEPT ![t].pc = "locked"]
     ELSE /\ call' = [call EXCEPT ![t] = Idle]
          /\ UNCHANGED mutex
  /\ UNCHANGED <<poolVars, leases, tickets, requests, late, bytes>>

\* make_lease on slot s, whose record so far is old.
Fault_PinFlag(old) ==
  [old EXCEPT !.referenced = TRUE, !.hintUnconsumed = FALSE, !.pins = 1]

PinnedSlot(old) ==
  [old EXCEPT !.referenced = TRUE, !.hintUnconsumed = FALSE, !.pins = @ + 1]

make_lease(t, s, generation) ==
  /\ pinsTotal' = pinsTotal + 1
  /\ leases' = leases \union {[owner |-> t, pos |-> call[t].done + 1, slot |-> s,
                               generation |-> generation, chunk |-> ThisChunk(t)]}

\* The chunk is resident or on its way: share it.
PinIndexed(t) ==
  /\ Handling(t, "resolve") \/ Handling(t, "try_resolve")
  /\ index[ThisChunk(t)] # None
  /\ LET s == index[ThisChunk(t)]
     IN  /\ slots' = [slots EXCEPT ![s] = PinnedSlot(@)]
         /\ make_lease(t, s, slots[s].generation)
  /\ StepDone(t)
  /\ UNCHANGED <<index, records, clockHand, inFlight, ticketsHeld, mutex, tickets,
                 requests, late, bytes>>

ResolveFill(t, k) ==
  /\ Handling(t, "resolve")
  /\ index[ThisChunk(t)] = None
  /\ claim_victim("declared", k)
  /\ LET started == StartedSlot(slots[SlotAt(k)], ThisChunk(t))
     IN  /\ slots' = SweptSlots("declared", k, PinnedSlot(started))
         /\ make_lease(t, SlotAt(k), started.generation)
  /\ SubmitAccepted(k, ThisChunk(t))
  /\ StepDone(t)
  /\ UNCHANGED <<records, ticketsHeld, mutex, tickets>>

\* The loop stops at the first failure; what it pinned is unwound.
StopWith(t, failure) ==
  call' = [call EXCEPT ![t] = [@ EXCEPT !.pc = "unwind", !.failure = failure]]

ResolveRefused(t, k) ==
  /\ Handling(t, "resolve")
  /\ index[ThisChunk(t)] = None
  /\ claim_victim("declared", k)
  /\ SubmitRefused("declared", k, ThisChunk(t))
  /\ StopWith(t, "queue_exhausted")
  /\ UNCHANGED <<records, pinsTotal, ticketsHeld, mutex, leases, tickets>>

Fault_CountLeases(t) == OutSpan(t)

DistinctSlots(t) == {l.slot : l \in OutSpan(t)}

ResolveExhausted(t) ==
  /\ Handling(t, "resolve")
  /\ index[ThisChunk(t)] = None
  /\ NoVictim("declared")
  /\ StopWith(t, IF Cardinality(DistinctSlots(t)) >= NumSlots
                 THEN "batch_too_large" ELSE "pool_exhausted")
  /\ UNCHANGED <<poolVars, mutex, leases, tickets, requests, late, bytes>>

Unwind(t, l) ==
  /\ call[t].pc = "unwind"
  /\ l \in OutSpan(t)
  /\ \A other \in OutSpan(t) : l.pos <= other.pos
  /\ unpin_locked(l)
  /\ UNCHANGED <<mutex, call>>

UnwindReturn(t) ==
  /\ call[t].pc = "unwind" /\ OutSpan(t) = {}
  /\ call' = [call EXCEPT ![t] = Idle]
  /\ mutex' = None
  /\ UNCHANGED <<poolVars, leases, tickets, requests, late, bytes>>

-----------------------------------------------------------------------------
(***************************************************************************)
(* Waiting: resolve for its own fills, wait for a ticket's, drain for all. *)
(***************************************************************************)
Wait(t, ticket, deadline) ==
  /\ "wait" \in Usage
  /\ call[t].pc = "idle" /\ mutex = None
  /\ ticket \in tickets /\ ticket.owner = t
  /\ call' = [call EXCEPT ![t] = [Idle EXCEPT !.op = "wait", !.pc = "locked",
                                  !.record = ticket.record, !.deadline = deadline]]
  /\ mutex' = t
  /\ UNCHANGED <<poolVars, leases, tickets, requests, late, bytes>>

Drain(t, deadline) ==
  /\ "drain" \in Usage
  /\ call[t].pc = "idle" /\ mutex = None
  /\ call' = [call EXCEPT ![t] = [Idle EXCEPT !.op = "drain", !.pc = "locked",
                                              !.deadline = deadline]]
  /\ mutex' = t
  /\ UNCHANGED <<poolVars, leases, tickets, requests, late, bytes>>

\* The predicate each of them waits for, read under the mutex.
Fault_FirstSettled(t) ==
  CASE call[t].op = "wait"  -> records[call[t].record].pending
                                 < Len(records[call[t].record].batch)
    [] call[t].op = "drain" -> inFlight = 0
    [] OTHER -> \A l \in OutSpan(t) : slots[l.slot].state # "filling"

Satisfied(t) ==
  CASE call[t].op = "wait"  -> records[call[t].record].pending = 0
    [] call[t].op = "drain" -> inFlight = 0
    [] OTHER -> \A l \in OutSpan(t) : slots[l.slot].state # "filling"

Acquire(t) ==
  /\ call[t].pc = "acquire" /\ mutex = None
  /\ mutex' = t
  /\ call' = [call EXCEPT ![t].pc = "locked"]
  /\ UNCHANGED <<poolVars, leases, tickets, requests, late, bytes>>

\* At the wait: every chunk of the batch, if there is one, has been handled.
AtWait(t) ==
  /\ call[t].op \in {"resolve", "wait", "drain"} /\ call[t].pc = "locked"
  /\ call[t].done = Len(call[t].batch)

Sleep(t) ==
  /\ AtWait(t) /\ ~Satisfied(t)
  /\ call' = [call EXCEPT ![t].pc = "asleep"]
  /\ mutex' = None
  /\ UNCHANGED <<poolVars, leases, tickets, requests, late, bytes>>

TryResolveReturn(t) ==
  /\ call[t].op = "try_resolve" /\ call[t].pc = "locked"
  /\ call[t].done = Len(call[t].batch)
  /\ call' = [call EXCEPT ![t] = Idle]
  /\ mutex' = None
  /\ UNCHANGED <<poolVars, leases, tickets, requests, late, bytes>>

\* The first failed lease of the output span decides a resolve's error.
FirstFailed(t) ==
  {l \in OutSpan(t) : /\ slots[l.slot].state = "failed"
                      /\ \A other \in OutSpan(t) :
                           slots[other.slot].state = "failed" => l.pos <= other.pos}

Return(t) ==
  /\ AtWait(t) /\ Satisfied(t)
  /\ \A l \in OutSpan(t) : slots[l.slot].state # "failed"
  /\ call' = [call EXCEPT ![t] = Idle]
  /\ mutex' = None
  /\ UNCHANGED <<poolVars, leases, tickets, requests, late, bytes>>

ResolveFailed(t) ==
  /\ AtWait(t) /\ Satisfied(t)
  /\ \E l \in FirstFailed(t) : StopWith(t, slots[l.slot].failure)
  /\ UNCHANGED <<poolVars, mutex, leases, tickets, requests, late, bytes>>

SpuriousWake(t) ==
  /\ call[t].pc = "asleep"
  /\ call' = [call EXCEPT ![t].pc = "acquire"]
  /\ UNCHANGED <<poolVars, mutex, leases, tickets, requests, late, bytes>>

\* wait_until gives up: it retakes the mutex and reports what it finds then.
Timeout(t) ==
  /\ call[t].op \in {"wait", "drain"} /\ call[t].deadline
  /\ call[t].pc = "asleep" /\ mutex = None
  /\ call' = [call EXCEPT ![t] = Idle]
  /\ UNCHANGED <<poolVars, mutex, leases, tickets, requests, late, bytes>>

\* A record that nobody holds and no fill will settle is free; its batch and
\* outcomes are dead: prefetch overwrites both before any use.
Recycled(record) ==
  IF record.pending = 0 /\ ~record.held
  THEN [record EXCEPT !.inUse = FALSE, !.batch = <<>>, !.outcome = <<>>]
  ELSE record

\* Ticket::reset: fills in flight keep the record until the last of them lands.
DiscardTicket(t, ticket) ==
  /\ call[t].pc = "idle" /\ mutex = None
  /\ ticket \in tickets /\ ticket.owner = t
  /\ records' = [records EXCEPT ![ticket.record] = Recycled([@ EXCEPT !.held = FALSE])]
  /\ ticketsHeld' = ticketsHeld - 1
  /\ tickets' = tickets \ {ticket}
  /\ UNCHANGED <<slots, index, clockHand, inFlight, pinsTotal, mutex, call, leases,
                 requests, late, bytes>>

WontNeed(t, chunks) ==
  /\ "wont_need" \in Usage
  /\ call[t].pc = "idle" /\ mutex = None
  /\ slots' = [s \in Slots |-> IF \E c \in chunks : index[c] = s
                               THEN [slots[s] EXCEPT !.referenced = FALSE]
                               ELSE slots[s]]
  /\ UNCHANGED <<index, records, clockHand, inFlight, pinsTotal, ticketsHeld, mutex,
                 call, leases, tickets, requests, late, bytes>>

-----------------------------------------------------------------------------
(***************************************************************************)
(* on_complete: a backend thread delivers a result for a token.            *)
(***************************************************************************)
Fault_AnyGeneration(token) == slots[token.slot].state # "filling"

Stale(token) == \/ slots[token.slot].generation # token.generation
                \/ slots[token.slot].state # "filling"

Fault_KeepUnpinned(old, status) ==
  IF status = "ok" THEN [old EXCEPT !.state = "ready", !.waiters = {}]
  ELSE [old EXCEPT !.state = "failed", !.failure = status,
                   !.hintUnconsumed = FALSE, !.waiters = {}]

LandedSlot(old, status) ==
  IF status = "ok" THEN [old EXCEPT !.state = "ready", !.waiters = {}]
  ELSE LET failed == [old EXCEPT !.state = "failed", !.failure = status,
                                 !.hintUnconsumed = FALSE, !.waiters = {}]
       IN  IF old.pins = 0 THEN make_free(failed) ELSE failed

Fault_SettleOnce(r, entries, status) ==
  LET mine == {i \in 1 .. MaxBatch : <<r, i>> \in entries}
  IN  Recycled([records[r] EXCEPT
        !.outcome = [i \in DOMAIN @ |-> IF i \in mine THEN status ELSE @[i]],
        !.pending = IF mine = {} THEN @ ELSE @ - 1])

\* Record r once the waiter entries of this fill are settled.
SettledRecord(r, entries, status) ==
  LET mine == {i \in 1 .. MaxBatch : <<r, i>> \in entries}
  IN  Recycled([records[r] EXCEPT
        !.outcome = [i \in DOMAIN @ |-> IF i \in mine THEN status ELSE @[i]],
        !.pending = @ - Cardinality(mine)])

Fault_NotifyOne ==
  LET asleep == {t \in Threads : call[t].pc = "asleep"}
  IN  call' = [t \in Threads |->
                 IF t \in asleep /\ t = (CHOOSE u \in asleep : TRUE)
                 THEN [call[t] EXCEPT !.pc = "acquire"] ELSE call[t]]

notify_all == call' = [t \in Threads |->
                        IF call[t].pc = "asleep" THEN [call[t] EXCEPT !.pc = "acquire"]
                                                 ELSE call[t]]

Land(token, result) ==
  LET s == slots[token.slot]
      status == classify_fill(result, ChunkLength[s.chunk])
  IN  /\ slots' = [slots EXCEPT ![token.slot] = LandedSlot(s, status)]
      /\ index' = IF status = "ok" THEN index ELSE [index EXCEPT ![s.chunk] = None]
      /\ records' = [r \in Records |-> SettledRecord(r, s.waiters, status)]
      /\ inFlight' = inFlight - 1
      /\ notify_all
      /\ UNCHANGED <<clockHand, pinsTotal, ticketsHeld>>

on_complete(token, result) ==
  /\ mutex = None
  /\ \/ Stale(token) /\ UNCHANGED <<poolVars, call>>
     \/ ~Stale(token) /\ Land(token, result)
  /\ UNCHANGED <<mutex, leases, tickets>>

(***************************************************************************)
(* The backend (transfer.hpp): it answers every accepted request once, not *)
(* from inside submit, after its last write; an ok result is honest.  With *)
(* MaxDuplicates > 0 it may also repeat an answer, though not so late that *)
(* the slot's generation has come round to the repeated token again.       *)
(***************************************************************************)
TokenOf(q) == [slot |-> q.slot, generation |-> q.generation]

Complete(q, result) ==
  /\ q \in requests
  /\ result.bytes <= ChunkLength[q.chunk]
  /\ requests' = requests \ {q}
  /\ bytes' = [bytes EXCEPT ![q.slot] =
       IF result.status = "ok" /\ result.bytes = ChunkLength[q.chunk]
       THEN q.chunk ELSE None]
  /\ late' \in {late, late \union {TokenOf(q)}} /\ Cardinality(late') <= MaxDuplicates
  /\ on_complete(TokenOf(q), result)

Redeliver(token, result) ==
  /\ token \in late
  /\ late' = late \ {token}
  /\ on_complete(token, result)
  /\ UNCHANGED <<requests, bytes>>

-----------------------------------------------------------------------------
\* What a thread does inside a call, whichever call it is.
Step(t) ==
  \/ PrefetchResident(t) \/ PrefetchJoin(t) \/ PrefetchDeclined(t)
  \/ \E k \in SweepSteps("declared") : PrefetchFill(t, k) \/ PrefetchRefused(t, k)
  \/ PrefetchReturn(t)
  \/ PinIndexed(t) \/ ResolveExhausted(t)
  \/ \E k \in SweepSteps("declared") : ResolveFill(t, k) \/ ResolveRefused(t, k)
  \/ \E l \in leases : Unwind(t, l)
  \/ UnwindReturn(t) \/ Sleep(t) \/ Return(t) \/ ResolveFailed(t)
  \/ TryResolveReturn(t)

\* Steps of a call that first have to get the mutex.
LockStep(t) ==
  \/ \E l \in leases : ReleaseAll(t, l)
  \/ ResolveLock(t) \/ TryResolveLock(t) \/ Acquire(t)

\* What a thread may choose to do between calls.
Begin(t) ==
  \/ \E b \in Batches, a \in AdmissionClass : Prefetch(t, b, a)
  \/ \E b \in Batches, op \in {"resolve", "try_resolve"} : Resolve(t, op, b)
  \/ \E ticket \in tickets : \/ \E d \in BOOLEAN : Wait(t, ticket, d)
                             \/ DiscardTicket(t, ticket)
  \/ \E l \in leases : ReleaseLease(t, l)
  \/ \E d \in BOOLEAN : Drain(t, d)
  \/ \E c \in SUBSET Chunks : WontNeed(t, c)

Backend ==
  \/ \E q \in requests, result \in FillResults : Complete(q, result)
  \/ \E token \in late, result \in FillResults : Redeliver(token, result)

Next ==
  \/ \E t \in Threads : Begin(t) \/ LockStep(t) \/ Step(t) \/ SpuriousWake(t) \/ Timeout(t)
  \/ Backend

Spec == Init /\ [][Next]_vars

-----------------------------------------------------------------------------
(***************************************************************************)
(* Properties.                                                             *)
(***************************************************************************)

\* The shape of the pool and of the objects around it.  Counters are integers
\* here: that none of them runs below zero is what PinsExact, FillsMatchRequests
\* and TicketTracking say.
TypeOK ==
  /\ slots \in [Slots -> Slot]
  /\ index \in [Chunks -> Slots \union {None}]
  /\ records \in [Records -> TicketRecord]
  /\ clockHand \in Slots
  /\ inFlight \in Int /\ pinsTotal \in Int /\ ticketsHeld \in Int
  /\ mutex \in Threads \union {None}
  /\ call \in [Threads -> Call]
  /\ leases \subseteq Lease /\ tickets \subseteq Ticket
  /\ requests \subseteq Request /\ late \subseteq Token
  /\ bytes \in [Slots -> Chunks \union {None}]

\* The pins of s, as the leases that exist.
Pinning(s) == {l \in leases : l.slot = s}

\* A resolve that has pinned part or all of its batch and has not yet returned.
InProgress(t) == call[t].op = "resolve" /\ call[t].pc # "release"

\* Leases a caller may read through: all but those of a resolve under way.
Granted == {l \in leases : ~(InProgress(l.owner) /\ l \in OutSpan(l.owner))}

\* A lease the caller holds shows the bytes of the chunk it asked for, whole:
\* never a partial fill, a failed one, or a chunk that took the slot since
\* (resolve, try_resolve, on_complete and claim_victim between them).
LeaseBytesValid ==
  \A l \in Granted : /\ slots[l.slot].state = "ready"
                     /\ slots[l.slot].chunk = l.chunk
                     /\ bytes[l.slot] = l.chunk

\* The pin counts are exactly the leases that exist, failed and unwound
\* resolves included: a slot is neither lost to eviction nor taken from a reader.
PinsExact ==
  /\ \A s \in Slots : slots[s].pins = Cardinality(Pinning(s))
  /\ pinsTotal = Cardinality(leases)

\* The index knows exactly the slots that are filling or ready, so no chunk is
\* resident or being fetched twice and no failed chunk is ever found.
IndexConsistent ==
  \A c \in Chunks, s \in Slots :
    index[c] = s <=> slots[s].chunk = c /\ slots[s].state \in {"filling", "ready"}

\* Every accepted request is the current fill of its slot and every filling slot
\* has its request: the backend writes into no slot that is read or lent out,
\* no first answer is dropped as stale, no fill is left that nobody will end.
FillsMatchRequests ==
  /\ \A q \in requests : /\ slots[q.slot].state = "filling"
                         /\ slots[q.slot].generation = q.generation
                         /\ slots[q.slot].chunk = q.chunk
  /\ \A s \in Slots : slots[s].state = "filling" => \E q \in requests : q.slot = s
  /\ inFlight = Cardinality(requests)

\* A failed slot is kept only for the resolves that still have to see it fail:
\* the last of them frees it, so failures do not use up the pool.
FailedIsWaitedFor ==
  \A s \in Slots : slots[s].state = "failed" =>
    \E l \in leases : l.slot = s /\ InProgress(l.owner) /\ l \in OutSpan(l.owner)

\* The entries of record r that some fill will settle.
Awaited(r) == {i \in 1 .. MaxBatch : \E s \in Slots : <<r, i>> \in slots[s].waiters}

\* A ticket's pending entries are those chained to a fill of their own chunk, each
\* once; the record is not reused while a fill will still write to it, dropped
\* ticket or not, and is reused as soon as neither needs it.
TicketTracking ==
  \A r \in Records :
    /\ Awaited(r) = {i \in DOMAIN records[r].outcome : records[r].outcome[i] = "pending"}
    /\ records[r].pending = Cardinality(Awaited(r))
    /\ records[r].inUse <=> records[r].held \/ records[r].pending # 0
    /\ \A s \in Slots, i \in 1 .. MaxBatch : <<r, i>> \in slots[s].waiters =>
         /\ slots[s].state = "filling" /\ slots[s].chunk = records[r].batch[i]
         /\ \A other \in Slots \ {s} : <<r, i>> \notin slots[other].waiters

\* ~SlotPool's test.
CanDestroy == inFlight = 0 /\ pinsTotal = 0 /\ ticketsHeld = 0

\* No std::terminate is in reach: a lease's slot keeps its generation and its pin, a
\* ticket's record stays its own (release_lease, discard_ticket), and the destructor's
\* test passes exactly when nothing outside refers to the pool, with nothing inside
\* left half way.
NoTerminate ==
  /\ \A l \in leases : /\ slots[l.slot].generation = l.generation
                       /\ slots[l.slot].pins # 0
  /\ \A k \in tickets : /\ records[k.record].generation = k.generation
                        /\ records[k.record].held
  /\ mutex = None =>
       /\ CanDestroy <=> requests = {} /\ leases = {} /\ tickets = {}
       /\ CanDestroy => /\ \A s \in Slots : slots[s].state \in {"free", "ready"}
                        /\ \A r \in Records : ~records[r].inUse

\* Nobody sleeps through what it waits for: a thread on the condition variable waits for
\* something that has not happened yet, whatever landed since it went to sleep, so
\* on_complete's notification reaches every waiter it concerns, of whichever kind.
SleepersHaveCause == \A t \in Threads : call[t].pc = "asleep" => ~Satisfied(t)

\* A step in which resolve's loop over the chunks stops, not for a full queue.
OutOfSlots(t) == /\ call[t].pc # "unwind" /\ call'[t].pc = "unwind"
                 /\ call[t].done < Len(call[t].batch)
                 /\ call'[t].failure # "queue_exhausted"

\* resolve gives up its loop over the chunks, unless the backend's queue is full, only
\* when no slot can be had: every slot is pinned or being filled (claim_victim's two
\* revolutions are enough), and batch_too_large, which tells the caller that no retry can
\* help, exactly when every slot is pinned by this call itself, however often a chunk is
\* named in its batch.
ExhaustionIsReal ==
  [][\A t \in Threads : OutOfSlots(t) =>
       /\ \A s \in Slots : slots[s].pins # 0 \/ slots[s].state = "filling"
       /\ call'[t].failure = "batch_too_large" <=>
            \A s \in Slots : \E l \in OutSpan(t) : l.slot = s]_vars

\* A speculative prefetch never costs another caller a chunk it used recently, nor its
\* second chance: the sweep steps over a referenced slot on its way to another one, or
\* gives up, and leaves the reference bit set.
SpeculativeDisplacesNothing ==
  [][\A t \in Threads : mutex = t /\ call[t].op = "prefetch"
                                  /\ call[t].admission = "speculative" =>
       \A s \in Slots : slots[s].state = "ready" /\ slots[s].referenced =>
                          slots'[s] = slots[s]]_vars

\* wait without a deadline comes back only with every chunk of the ticket settled.
UnboundedWaitIsTerminal ==
  [][\A t \in Threads : call[t].op = "wait" /\ ~call[t].deadline
                                            /\ call'[t].op # "wait" =>
       \A i \in DOMAIN records[call[t].record].outcome :
         records[call[t].record].outcome[i] # "pending"]_vars

\* An answer that comes a second time changes nothing, whatever has become of
\* the slot meanwhile.
DuplicatesRejected ==
  [][(late' # late /\ late' \subseteq late /\ requests' = requests) =>
       UNCHANGED <<poolVars, bytes, call>>]_vars

\* Every call returns: no wakeup is lost, no caller waits for a slot that only
\* it could free, no ticket for a fill that was already answered, and
\* drain returns unless new fills keep being accepted.
CallsReturn ==
  \A t \in Threads :
    /\ call[t].pc # "idle" /\ call[t].op # "drain" ~> call[t].pc = "idle"
    /\ \/ []<>(call[t].op # "drain")
       \/ []<><<~(requests' \subseteq requests)>>_vars

-----------------------------------------------------------------------------
(***************************************************************************)
(* The inductive invariant behind the lease properties, in two halves: the *)
(* pool against the leases and requests outside it, and the calls that are *)
(* under way against the pool.                                             *)
(***************************************************************************)

\* A lease's slot is still the one it was made for.
LeaseCurrent ==
  \A l \in leases : /\ slots[l.slot].generation = l.generation
                    /\ slots[l.slot].chunk = l.chunk
                    /\ slots[l.slot].state # "free"

\* A ready slot holds the whole chunk.
ReadyBytes ==
  \A s \in Slots : slots[s].state = "ready" => bytes[s] = slots[s].chunk

\* A failed slot is pinned.
FailedPinned ==
  \A s \in Slots : slots[s].state = "failed" => slots[s].pins # 0

\* An answered token is not the token of a fill under way.
LateIsOld ==
  \A k \in late : slots[k.slot].state = "filling" => slots[k.slot].generation # k.generation

\* The pool and the objects outside it agree, whoever is inside the mutex.
PoolInv ==
  /\ IsFiniteSet(leases) /\ PinsExact /\ LeaseCurrent
  /\ IndexConsistent
  /\ IsFiniteSet(requests) /\ FillsMatchRequests
  /\ ReadyBytes /\ FailedPinned /\ LateIsOld

\* A call under way: it is inside the mutex alone, its output span holds what it
\* has pinned so far, and the leases its thread may read are ready.
CallInv(t) ==
  /\ call[t].pc = "idle" => call[t].op = "none"
  /\ call[t].pc \in {"locked", "unwind"} => mutex = t
  /\ call[t].op = "try_resolve" => call[t].pc \in {"release", "locked"}
  /\ call[t].op = "try_resolve" /\ call[t].pc = "locked" => AllReady(call[t].batch)
  /\ call[t].op \in {"resolve", "try_resolve"} /\ call[t].pc # "release" =>
       \A l \in OutSpan(t) : l.pos <= call[t].done
  /\ \A l \in leases : /\ l.owner = t
                       /\ InProgress(t) => l \notin OutSpan(t)
                       => slots[l.slot].state = "ready"

\* The two halves together with the types are inductive, and imply
\* LeaseBytesValid, PinsExact, IndexConsistent, FillsMatchRequests and
\* FailedIsWaitedFor.
LeaseInv == TypeOK /\ PoolInv /\ \A t \in Threads : CallInv(t)

=============================================================================
