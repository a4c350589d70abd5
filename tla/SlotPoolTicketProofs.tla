------------------------ MODULE SlotPoolTicketProofs ------------------------
(***************************************************************************)
(* The proof that tickets track exactly the fills they wait for, that no   *)
(* std::terminate is in reach, that nobody sleeps through what it waits    *)
(* for, that an unbounded wait ends only when its ticket is settled; and   *)
(* what the CLOCK sweep promises: a resolve that fails for want of a slot  *)
(* fails because there is none, and a speculative prefetch takes nothing   *)
(* from anybody.                                                           *)
(***************************************************************************)
EXTENDS SlotPoolProofs

-----------------------------------------------------------------------------
(***************************************************************************)
(* The inductive invariant, on top of LeaseInv.                            *)
(***************************************************************************)
Prefetching(t, r) == call[t].op = "prefetch" /\ call[t].record = r

HeldRecords == {r \in Records : records[r].held}

\* A record has an outcome for at most a whole batch.
OutcomesBounded == \A r \in Records : Len(records[r].outcome) <= MaxBatch

\* A held record is held by one ticket, or by the prefetch that will return it.
HolderInv ==
  /\ \A k \in tickets :
       /\ records[k.record].held /\ records[k.record].generation = k.generation
       /\ \A j \in tickets : j.record = k.record => j = k
       /\ \A t \in Threads : ~Prefetching(t, k.record)
  /\ \A r \in Records : records[r].held => \/ \E k \in tickets : k.record = r
                                           \/ \E t \in Threads : Prefetching(t, r)
  /\ ticketsHeld = Cardinality(HeldRecords)

\* A prefetch is inside the mutex and as far as its record says; a wait or a drain has
\* no batch and is never unwound; a sleeper has something to sleep for.
OpInv(t) ==
  /\ call[t].op = "prefetch" =>
       /\ call[t].pc = "locked" /\ records[call[t].record].held
       /\ records[call[t].record].batch = call[t].batch
       /\ Len(records[call[t].record].outcome) = call[t].done
  /\ call[t].op \in {"wait", "drain"} =>
       call[t].batch = <<>> /\ call[t].pc \in {"locked", "asleep", "acquire"}
  /\ call[t].pc = "unwind" => call[t].op = "resolve"
  /\ call[t].pc = "asleep" => call[t].op \in {"resolve", "wait", "drain"} /\ ~Satisfied(t)

TicketInv == /\ TicketTracking /\ OutcomesBounded /\ HolderInv
             /\ \A t \in Threads : OpInv(t)

-----------------------------------------------------------------------------
(***************************************************************************)
(* What the invariant reads, and the steps that leave it alone.            *)
(***************************************************************************)

\* The waiter entries of slot s stay, and stay chained to the same fill.
WaitersKept(s) == /\ slots'[s].waiters = slots[s].waiters
                  /\ slots[s].waiters # {} => /\ slots'[s].state = slots[s].state
                                              /\ slots'[s].chunk = slots[s].chunk

\* A step of t that ends no fill and takes nothing from anybody else.
Harmless(t) ==
  /\ \A u \in Threads \ {t} : call'[u] = call[u]
  /\ \A s \in Slots : slots[s].state = "filling" => slots'[s].state = "filling"
  /\ inFlight # 0 => inFlight' # 0
  /\ \A l \in leases : l \in leases' \/ l.owner = t
  /\ \A r \in Records : records[r].pending # 0 => records'[r].pending # 0

\* What each kind of caller sleeps for (the predicates of wait, drain and resolve).
LEMMA SatisfiedIs ==
  ASSUME NEW t
  PROVE  /\ call[t].op = "wait" => (Satisfied(t) <=> records[call[t].record].pending = 0)
         /\ call[t].op = "drain" => (Satisfied(t) <=> inFlight = 0)
         /\ call[t].op = "resolve" =>
              (Satisfied(t) <=> \A l \in OutSpan(t) : slots[l.slot].state # "filling")
<1>1. "wait" # "drain" /\ "resolve" # "wait" /\ "resolve" # "drain"
  OBVIOUS
<1> QED
  BY <1>1, Zenon DEF Satisfied

\* A slot that is free or ready has nobody waiting for it.
LEMMA NoWaiters ==
  ASSUME TypeOK, TicketTracking, NEW s \in Slots, slots[s].state # "filling"
  PROVE  slots[s].waiters = {}
<1>1. slots[s].waiters \subseteq Records \X (1 .. MaxBatch)
  BY DEF TypeOK, Slot
<1>2. ASSUME NEW e \in slots[s].waiters PROVE FALSE
  <2>1. PICK r \in Records, i \in 1 .. MaxBatch : e = <<r, i>>
    BY <1>1
  <2> QED
    BY <1>2, <2>1 DEF TicketTracking
<1> QED
  BY <1>2

\* The entries awaited for a record depend on the waiters alone.
LEMMA AwaitedKept ==
  ASSUME \A s \in Slots : slots'[s].waiters = slots[s].waiters
  PROVE  \A r : Awaited(r)' = Awaited(r)
BY DEF Awaited

LEMMA AwaitedFinite ==
  ASSUME NEW r
  PROVE  IsFiniteSet(Awaited(r)) /\ Cardinality(Awaited(r)) \in Nat
<1>1. IsFiniteSet(1 .. MaxBatch) /\ Awaited(r) \subseteq 1 .. MaxBatch
  BY SizeAssumption, FS_Interval DEF Awaited
<1> QED
  BY <1>1, FS_Subset, FS_CardinalityType

LEMMA HeldFinite == IsFiniteSet(HeldRecords) /\ Cardinality(HeldRecords) \in Nat
<1>1. IsFiniteSet(Records) /\ HeldRecords \subseteq Records
  BY SizeAssumption, FS_Interval DEF Records, HeldRecords
<1> QED
  BY <1>1, FS_Subset, FS_CardinalityType

LEMMA TrackKept ==
  ASSUME TicketTracking, OutcomesBounded, UNCHANGED records,
         \A s \in Slots : WaitersKept(s)
  PROVE  TicketTracking' /\ OutcomesBounded'
<1>1. \A r : Awaited(r)' = Awaited(r)
  BY AwaitedKept DEF WaitersKept
<1>2. ASSUME NEW r \in Records
      PROVE  \A s \in Slots, i \in 1 .. MaxBatch : <<r, i>> \in slots'[s].waiters =>
               /\ slots'[s].state = "filling" /\ slots'[s].chunk = records'[r].batch[i]
               /\ \A other \in Slots \ {s} : <<r, i>> \notin slots'[other].waiters
  BY DEF TicketTracking, WaitersKept
<1> QED
  BY <1>1, <1>2 DEF TicketTracking, OutcomesBounded

LEMMA HolderKept ==
  ASSUME HolderInv, UNCHANGED <<records, tickets, ticketsHeld>>,
         \A u \in Threads : \A r : Prefetching(u, r)' <=> Prefetching(u, r)
  PROVE  HolderInv'
BY DEF HolderInv, HeldRecords

\* The output spans of the other threads.
LEMMA SpanKept ==
  ASSUME NEW t, NEW u, u # t, call'[u] = call[u],
         \A l \in leases : l \in leases' \/ l.owner = t
  PROVE  OutSpan(u) \subseteq OutSpan(u)'
BY DEF OutSpan

\* Another thread goes on sleeping for a reason.
LEMMA OthersOp ==
  ASSUME TypeOK, NEW t \in Threads, Harmless(t), NEW u \in Threads \ {t}, OpInv(u),
         call[u].op = "prefetch" => UNCHANGED records
  PROVE  OpInv(u)'
<1>1. call'[u] = call[u] /\ call[u] \in Call /\ call[u].record \in Records
  BY DEF Harmless, TypeOK, Call
<1>2. ASSUME call[u].pc = "asleep" PROVE ~Satisfied(u)'
  <2>1. call[u].op \in {"resolve", "wait", "drain"} /\ ~Satisfied(u)
    BY <1>2 DEF OpInv
  <2>2. CASE call[u].op = "wait"
    <3>1. records[call[u].record].pending # 0
      BY <2>1, <2>2, SatisfiedIs
    <3>2. records'[call[u].record].pending # 0
      BY <1>1, <3>1 DEF Harmless
    <3>3. (Satisfied(u) <=> records[call[u].record].pending = 0)'
      BY <1>1, <2>2, Zenon DEF Satisfied
    <3> QED
      BY <1>1, <3>2, <3>3
  <2>3. CASE call[u].op = "drain"
    <3>1. inFlight' # 0
      BY <2>1, <2>3, SatisfiedIs DEF Harmless
    <3>2. (Satisfied(u) <=> inFlight = 0)'
      BY <1>1, <2>3, Zenon DEF Satisfied
    <3> QED
      BY <3>1, <3>2
  <2>4. CASE call[u].op = "resolve"
    <3>1. PICK l \in OutSpan(u) : slots[l.slot].state = "filling"
      BY <2>1, <2>4, SatisfiedIs
    <3>2. l \in OutSpan(u)' /\ l.slot \in Slots
      BY <1>1, <3>1, SpanKept DEF Harmless, OutSpan, TypeOK, Lease
    <3>3. slots'[l.slot].state = "filling"
      BY <3>1, <3>2 DEF Harmless
    <3>4. (Satisfied(u) <=> \A m \in OutSpan(u) : slots[m.slot].state # "filling")'
      BY <1>1, <2>4, Zenon DEF Satisfied
    <3> QED
      BY <3>2, <3>3, <3>4
  <2> QED
    BY <2>1, <2>2, <2>3, <2>4
<1> QED
  BY <1>1, <1>2 DEF OpInv

\* Steps that touch neither records nor tickets nor waiters.
LEMMA PlainStep ==
  ASSUME TypeOK, TypeOK', TicketInv, NEW t \in Threads, Harmless(t),
         UNCHANGED <<records, tickets, ticketsHeld>>,
         \A s \in Slots : WaitersKept(s),
         call[t].op # "prefetch", call'[t].op # "prefetch", OpInv(t)'
  PROVE  TicketInv'
<1>1. TicketTracking' /\ OutcomesBounded'
  BY TrackKept DEF TicketInv
<1>2. \A u \in Threads : \A r : Prefetching(u, r)' <=> Prefetching(u, r)
  BY DEF Prefetching, Harmless
<1>3. HolderInv'
  BY <1>2, HolderKept DEF TicketInv
<1>4. \A u \in Threads \ {t} : OpInv(u)'
  BY OthersOp DEF TicketInv
<1> QED
  BY <1>1, <1>3, <1>4 DEF TicketInv

\* A call that is not asleep, not unwinding and not a prefetch says nothing of the pool.
LEMMA AwakeOp ==
  ASSUME NEW c, call'[c].op # "prefetch", call'[c].pc \notin {"asleep", "unwind"},
         call'[c].op \in {"wait", "drain"} =>
           call'[c].batch = <<>> /\ call'[c].pc \in {"locked", "acquire"}
  PROVE  OpInv(c)'
BY DEF OpInv

\* A wait or a drain has no output span.
LEMMA NoSpan ==
  ASSUME TypeOK, NEW t \in Threads, call[t].batch = <<>>
  PROVE  OutSpan(t) = {}
<1>1. \A l \in leases : l.pos \in Int /\ l.pos >= 1
  BY DEF TypeOK, Lease
<1>2. Len(<<>>) = 0
  OBVIOUS
<1> QED
  BY <1>1, <1>2 DEF OutSpan

\* The steps that change nothing but calls and the mutex.
LEMMA QuietTicket ==
  ASSUME LeaseInv, LeaseInv', TicketInv, NEW t \in Threads,
         \/ ResolveExhausted(t) \/ UnwindReturn(t) \/ Sleep(t) \/ Return(t)
         \/ ResolveFailed(t) \/ TryResolveReturn(t)
         \/ ResolveLock(t) \/ TryResolveLock(t) \/ Acquire(t)
         \/ SpuriousWake(t) \/ Timeout(t)
         \/ \E b \in Batches, op \in {"resolve", "try_resolve"} : Resolve(t, op, b)
         \/ \E k \in tickets, d \in BOOLEAN : Wait(t, k, d)
         \/ \E d \in BOOLEAN : Drain(t, d)
  PROVE  TicketInv'
<1>1. UNCHANGED <<slots, records, tickets, ticketsHeld, inFlight, leases>>
  BY DEF ResolveExhausted, UnwindReturn, Sleep, Return, ResolveFailed, TryResolveReturn,
         ResolveLock, TryResolveLock, Acquire, SpuriousWake, Timeout, Resolve, Wait,
         Drain, poolVars
<1>2. call \in [Threads -> Call] /\ call' \in [Threads -> Call]
  BY DEF TypeOK, LeaseInv
<1>3. \A u \in Threads \ {t} : call'[u] = call[u]
  BY <1>2 DEF ResolveExhausted, UnwindReturn, Sleep, Return, ResolveFailed,
         TryResolveReturn, ResolveLock, TryResolveLock, Acquire, SpuriousWake, Timeout,
         Resolve, Wait, Drain, StopWith
<1>4. Harmless(t)
  BY <1>1, <1>3 DEF Harmless
<1>5. \A s \in Slots : WaitersKept(s)
  BY <1>1 DEF WaitersKept
<1>6. OpInv(t) /\ CallInv(t)
  BY DEF TicketInv, LeaseInv
<1> SUFFICES call[t].op # "prefetch" /\ call'[t].op # "prefetch" /\ OpInv(t)'
  BY <1>1, <1>4, <1>5, PlainStep DEF LeaseInv
<1>7. CASE UnwindReturn(t) \/ Return(t) \/ TryResolveReturn(t) \/ Timeout(t)
  <2>1. call'[t] = Idle
    BY <1>2, <1>7 DEF UnwindReturn, Return, TryResolveReturn, Timeout
  <2>2. call[t].op # "prefetch"
    BY <1>6, <1>7 DEF UnwindReturn, Return, TryResolveReturn, Timeout, AtWait, OpInv
  <2>3. call'[t].op = "none" /\ call'[t].pc = "idle"
    BY <2>1 DEF Idle
  <2> QED
    BY <2>2, <2>3, AwakeOp
<1>8. CASE ResolveLock(t) \/ TryResolveLock(t)
  <2>1. call[t].op \in {"resolve", "try_resolve"}
    BY <1>8 DEF ResolveLock, TryResolveLock
  <2>2. call'[t] = [call[t] EXCEPT !.pc = "locked"] \/ call'[t] = Idle
    BY <1>2, <1>8 DEF ResolveLock, TryResolveLock
  <2>3. call'[t].op \notin {"prefetch", "wait", "drain"} /\ call'[t].pc \in {"locked", "idle"}
    BY <1>2, <2>1, <2>2 DEF Call, Idle
  <2> QED
    BY <2>1, <2>3, AwakeOp
<1>9. CASE Acquire(t) \/ SpuriousWake(t)
  <2>1. call[t].pc \in {"acquire", "asleep"} /\ call[t].op # "prefetch"
    BY <1>6, <1>9 DEF Acquire, SpuriousWake, OpInv
  <2>2. PICK pc \in {"locked", "acquire"} : call'[t] = [call[t] EXCEPT !.pc = pc]
    BY <1>2, <1>9 DEF Acquire, SpuriousWake
  <2>3. /\ call'[t].op = call[t].op /\ call'[t].batch = call[t].batch
        /\ call'[t].pc \in {"locked", "acquire"}
    BY <1>2, <2>2 DEF Call
  <2> QED
    BY <1>6, <2>1, <2>3, AwakeOp DEF OpInv
<1>10. CASE Sleep(t)
  <2>1. /\ call[t].op \in {"resolve", "wait", "drain"} /\ ~Satisfied(t)
        /\ call'[t] = [call[t] EXCEPT !.pc = "asleep"]
    BY <1>2, <1>10 DEF Sleep, AtWait
  <2>2. /\ call'[t].op = call[t].op /\ call'[t].batch = call[t].batch
        /\ call'[t].record = call[t].record /\ call'[t].pc = "asleep"
    BY <1>2, <2>1 DEF Call
  <2>3. OutSpan(t)' = OutSpan(t)
    BY <1>1, <2>2 DEF OutSpan
  <2>4. ~Satisfied(t)'
    BY <1>1, <2>1, <2>2, <2>3, Zenon DEF Satisfied
  <2> QED
    BY <1>6, <2>1, <2>2, <2>4 DEF OpInv
<1>11. CASE ResolveExhausted(t) \/ ResolveFailed(t)
  <2>1. call[t].op = "resolve"
    <3>1. CASE ResolveExhausted(t)
      BY <3>1 DEF ResolveExhausted, Handling
    <3>2. CASE ResolveFailed(t)
      <4>1. call[t].op \in {"resolve", "wait", "drain"} /\ OutSpan(t) # {}
        BY <3>2 DEF ResolveFailed, AtWait, FirstFailed
      <4> QED
        BY <1>6, <4>1, NoSpan DEF OpInv, LeaseInv
    <3> QED
      BY <1>11, <3>1, <3>2
  <2>2. PICK f : call'[t] = [call[t] EXCEPT !.pc = "unwind", !.failure = f]
    BY <1>2, <1>11 DEF ResolveExhausted, ResolveFailed, StopWith
  <2>3. call'[t].op = "resolve" /\ call'[t].pc = "unwind"
    BY <1>2, <2>1, <2>2 DEF Call
  <2> QED
    BY <2>1, <2>3 DEF OpInv
<1>12. CASE \E b \in Batches, op \in {"resolve", "try_resolve"} : Resolve(t, op, b)
  <2>1. PICK b \in Batches, op \in {"resolve", "try_resolve"} : Resolve(t, op, b)
    BY <1>12
  <2>2. call[t].op = "none"
    BY <1>6, <2>1 DEF Resolve, CallInv
  <2>3. call'[t] = [Idle EXCEPT !.op = op, !.pc = "release", !.batch = b]
    BY <1>2, <2>1 DEF Resolve
  <2>4. call'[t].op = op /\ call'[t].pc = "release"
    BY <2>3 DEF Idle
  <2> QED
    BY <2>2, <2>4, AwakeOp
<1>13. CASE \E k \in tickets, d \in BOOLEAN : Wait(t, k, d)
  <2>1. PICK k \in tickets, d \in BOOLEAN : Wait(t, k, d)
    BY <1>13
  <2>2. call[t].op = "none"
    BY <1>6, <2>1 DEF Wait, CallInv
  <2>3. call'[t] = [Idle EXCEPT !.op = "wait", !.pc = "locked", !.record = k.record,
                                !.deadline = d]
    BY <1>2, <2>1 DEF Wait
  <2>4. call'[t].op = "wait" /\ call'[t].pc = "locked" /\ call'[t].batch = <<>>
    BY <2>3, IdleType DEF Call, Idle
  <2> QED
    BY <2>2, <2>4, AwakeOp
<1>14. CASE \E d \in BOOLEAN : Drain(t, d)
  <2>1. PICK d \in BOOLEAN : Drain(t, d)
    BY <1>14
  <2>2. call[t].op = "none"
    BY <1>6, <2>1 DEF Drain, CallInv
  <2>3. call'[t] = [Idle EXCEPT !.op = "drain", !.pc = "locked", !.deadline = d]
    BY <1>2, <2>1 DEF Drain
  <2>4. call'[t].op = "drain" /\ call'[t].pc = "locked" /\ call'[t].batch = <<>>
    BY <2>3, IdleType DEF Call, Idle
  <2> QED
    BY <2>2, <2>4, AwakeOp
<1> QED
  BY <1>7, <1>8, <1>9, <1>10, <1>11, <1>12, <1>13, <1>14

\* A lease ends: waiters stay, since only a failed slot is freed.
LEMMA UnpinTicket ==
  ASSUME LeaseInv, LeaseInv', TicketInv, NEW t \in Threads, NEW l \in leases,
         ReleaseLease(t, l) \/ ReleaseAll(t, l) \/ Unwind(t, l)
  PROVE  TicketInv'
<1>1. /\ unpin_locked(l) /\ UNCHANGED <<call, records, tickets, ticketsHeld, inFlight>>
      /\ leases' = leases \ {l} /\ l.owner = t
      /\ call[t].pc \in {"idle", "release", "unwind"}
  BY DEF ReleaseLease, ReleaseAll, Unwind, unpin_locked, OutSpan
<1>2. \A s \in Slots : slots[s].state # "failed" => slots'[s].state = slots[s].state
  BY <1>1, UnpinPool DEF LeaseInv
<1>3. ASSUME NEW s \in Slots PROVE WaitersKept(s)
  <2>1. slots[s] \in Slot
    BY DEF LeaseInv, TypeOK
  <2>2. slots'[s] = slots[s] \/ slots'[s] = UnpinnedSlot(slots[s])
    BY <1>1 DEF unpin_locked, LeaseInv, TypeOK
  <2>3. /\ slots'[s].waiters = slots[s].waiters
        /\ slots[s].state # "failed" => slots'[s].chunk = slots[s].chunk
    BY <2>1, <2>2 DEF UnpinnedSlot, make_free, Slot
  <2>4. slots[s].waiters # {} => slots[s].state = "filling"
    BY NoWaiters DEF LeaseInv, TicketInv
  <2> QED
    BY <1>2, <2>3, <2>4 DEF WaitersKept
<1>4. Harmless(t)
  BY <1>1, <1>2 DEF Harmless
<1>5. call[t].op # "prefetch" /\ OpInv(t)'
  BY <1>1 DEF TicketInv, OpInv
<1> QED
  BY <1>1, <1>3, <1>4, <1>5, PlainStep DEF LeaseInv

\* Reference bits are no part of it.
LEMMA WontNeedTicket ==
  ASSUME LeaseInv, LeaseInv', TicketInv, NEW t \in Threads, NEW c, WontNeed(t, c)
  PROVE  TicketInv'
<1>1. /\ UNCHANGED <<call, records, tickets, ticketsHeld, inFlight, leases>>
      /\ call[t].pc = "idle"
  BY DEF WontNeed
<1>2. ASSUME NEW s \in Slots
      PROVE  WaitersKept(s) /\ slots'[s].state = slots[s].state
  <2>1. slots'[s] = slots[s] \/ slots'[s] = [slots[s] EXCEPT !.referenced = FALSE]
    BY DEF WontNeed
  <2> QED
    BY <2>1 DEF WaitersKept, LeaseInv, TypeOK, Slot
<1>3. Harmless(t)
  BY <1>1, <1>2 DEF Harmless
<1>4. call[t].op # "prefetch" /\ OpInv(t)'
  BY <1>1 DEF TicketInv, OpInv
<1> QED
  BY <1>1, <1>2, <1>3, <1>4, PlainStep DEF LeaseInv

\* One more chunk handled, by a resolve or a try_resolve.
LEMMA HandledOp ==
  ASSUME LeaseInv, NEW t \in Threads, NEW op \in {"resolve", "try_resolve"},
         Handling(t, op), StepDone(t)
  PROVE  /\ \A u \in Threads \ {t} : call'[u] = call[u]
         /\ call[t].op # "prefetch" /\ call'[t].op # "prefetch" /\ OpInv(t)'
<1>1. call[t] \in Call /\ call'[t] = [call[t] EXCEPT !.done = @ + 1]
  BY DEF LeaseInv, TypeOK, StepDone
<1>2. /\ call[t].op = op /\ call'[t].op = op /\ call'[t].pc = "locked"
  BY <1>1 DEF Call, Handling
<1>3. OpInv(t)'
  BY <1>2, AwakeOp
<1> QED
  BY <1>2, <1>3 DEF LeaseInv, TypeOK, StepDone

LEMMA PinIndexedTicket ==
  ASSUME LeaseInv, LeaseInv', TicketInv, NEW t \in Threads, PinIndexed(t)
  PROVE  TicketInv'
<1>1. PICK op \in {"resolve", "try_resolve"} : Handling(t, op)
  BY DEF PinIndexed
<1>2. /\ UNCHANGED <<records, tickets, ticketsHeld, inFlight>> /\ leases \subseteq leases'
      /\ StepDone(t)
  BY DEF PinIndexed, make_lease
<1>3. ASSUME NEW s \in Slots
      PROVE  WaitersKept(s) /\ slots'[s].state = slots[s].state
  <2>1. slots'[s] = slots[s] \/ slots'[s] = PinnedSlot(slots[s])
    BY DEF PinIndexed, LeaseInv, TypeOK
  <2> QED
    BY <2>1 DEF WaitersKept, PinnedSlot, LeaseInv, TypeOK, Slot
<1>4. Harmless(t)
  BY <1>1, <1>2, <1>3, HandledOp DEF Harmless
<1> QED
  BY <1>1, <1>2, <1>3, <1>4, HandledOp, PlainStep DEF LeaseInv

\* A sweep takes a slot nobody waits for and leaves the others' fills alone.
LEMMA SweptWaiters ==
  ASSUME LeaseInv, TicketInv, NEW a, NEW k \in Nat, claim_victim(a, k), NEW new,
         slots' = SweptSlots(a, k, new)
  PROVE  /\ SlotAt(k) \in Slots /\ slots[SlotAt(k)].waiters = {}
         /\ slots[SlotAt(k)].state # "filling" /\ slots'[SlotAt(k)] = new
         /\ \A s \in Slots \ {SlotAt(k)} : WaitersKept(s) /\ slots'[s].state = slots[s].state
<1>1. /\ SlotAt(k) \in Slots /\ slots[SlotAt(k)].state \in {"free", "ready"}
      /\ slots'[SlotAt(k)] = new
  BY VictimFacts DEF LeaseInv
<1>2. slots[SlotAt(k)].waiters = {}
  BY <1>1, NoWaiters DEF LeaseInv, TicketInv
<1>3. ASSUME NEW s \in Slots \ {SlotAt(k)}
      PROVE  WaitersKept(s) /\ slots'[s].state = slots[s].state
  <2>1. slots'[s] = slots[s] \/ slots'[s] = [slots[s] EXCEPT !.referenced = FALSE]
    BY DEF SweptSlots
  <2> QED
    BY <2>1 DEF WaitersKept, LeaseInv, TypeOK, Slot
<1> QED
  BY <1>1, <1>2, <1>3

LEMMA SweepNat == ASSUME NEW k \in SweepSteps("declared") PROVE k \in Nat
BY SizeAssumption DEF SweepSteps

\* A fill more in flight is not none.
LEMMA InFlightGrows ==
  ASSUME LeaseInv, inFlight' = inFlight + 1
  PROVE  inFlight # 0 => inFlight' # 0
<1>1. inFlight = Cardinality(requests) /\ IsFiniteSet(requests)
  BY DEF LeaseInv, PoolInv, FillsMatchRequests
<1>2. inFlight \in Nat
  BY <1>1, FS_CardinalityType
<1> QED
  BY <1>2

LEMMA ResolveFillTicket ==
  ASSUME LeaseInv, LeaseInv', TicketInv, NEW t \in Threads,
         NEW k \in SweepSteps("declared"), ResolveFill(t, k)
  PROVE  TicketInv'
<1> DEFINE v == SlotAt(k)
           new == PinnedSlot(StartedSlot(slots[v], ThisChunk(t)))
<1>1. /\ UNCHANGED <<records, tickets, ticketsHeld>> /\ inFlight' = inFlight + 1
      /\ leases \subseteq leases' /\ StepDone(t) /\ Handling(t, "resolve")
      /\ claim_victim("declared", k) /\ slots' = SweptSlots("declared", k, new)
  BY DEF ResolveFill, SubmitAccepted, make_lease
<1>2. /\ v \in Slots /\ slots[v].waiters = {} /\ slots[v].state # "filling"
      /\ slots'[v] = new
      /\ \A s \in Slots \ {v} : WaitersKept(s) /\ slots'[s].state = slots[s].state
  BY <1>1, SweepNat, SweptWaiters
<1>3. new.waiters = {}
  <2>1. slots[v] \in Slot
    BY <1>2 DEF LeaseInv, TypeOK
  <2> QED
    BY <2>1 DEF PinnedSlot, StartedSlot, Slot
<1> HIDE DEF new, v
<1>4. \A s \in Slots : WaitersKept(s)
  BY <1>2, <1>3 DEF WaitersKept
<1>5. Harmless(t)
  BY <1>1, <1>2, HandledOp, InFlightGrows DEF Harmless
<1> QED
  BY <1>1, <1>4, <1>5, HandledOp, PlainStep DEF LeaseInv

LEMMA ResolveRefusedTicket ==
  ASSUME LeaseInv, LeaseInv', TicketInv, NEW t \in Threads,
         NEW k \in SweepSteps("declared"), ResolveRefused(t, k)
  PROVE  TicketInv'
<1> DEFINE v == SlotAt(k)
           new == make_free(StartedSlot(slots[v], ThisChunk(t)))
<1>1. /\ UNCHANGED <<records, tickets, ticketsHeld, inFlight, leases>>
      /\ StopWith(t, "queue_exhausted") /\ Handling(t, "resolve")
      /\ claim_victim("declared", k) /\ slots' = SweptSlots("declared", k, new)
  BY DEF ResolveRefused, SubmitRefused
<1>2. /\ v \in Slots /\ slots[v].waiters = {} /\ slots[v].state # "filling"
      /\ slots'[v] = new
      /\ \A s \in Slots \ {v} : WaitersKept(s) /\ slots'[s].state = slots[s].state
  BY <1>1, SweepNat, SweptWaiters
<1>3. new.waiters = {}
  <2>1. slots[v] \in Slot
    BY <1>2 DEF LeaseInv, TypeOK
  <2> QED
    BY <2>1 DEF make_free, StartedSlot, Slot
<1> HIDE DEF new, v
<1>4. \A s \in Slots : WaitersKept(s)
  BY <1>2, <1>3 DEF WaitersKept
<1>5. /\ \A u \in Threads \ {t} : call'[u] = call[u]
      /\ call'[t] = [call[t] EXCEPT !.pc = "unwind", !.failure = "queue_exhausted"]
  BY <1>1 DEF StopWith, LeaseInv, TypeOK
<1>6. Harmless(t)
  BY <1>1, <1>2, <1>5 DEF Harmless
<1>7. call[t].op = "resolve" /\ call'[t].op = "resolve" /\ call'[t].pc = "unwind"
  BY <1>1, <1>5 DEF Handling, LeaseInv, TypeOK, Call
<1>8. OpInv(t)'
  BY <1>7 DEF OpInv
<1> QED
  BY <1>1, <1>4, <1>6, <1>7, <1>8, PlainStep DEF LeaseInv

-----------------------------------------------------------------------------
(***************************************************************************)
(* prefetch: a record per call, an outcome per chunk.                      *)
(***************************************************************************)
PendingAt(out) == {i \in DOMAIN out : out[i] = "pending"}

LEMMA AppendPending ==
  ASSUME NEW out \in Seq(Status), NEW o \in Status
  PROVE  PendingAt(Append(out, o)) = IF o = "pending" THEN PendingAt(out) \union {Len(out) + 1}
                                                      ELSE PendingAt(out)
<1>1. /\ DOMAIN out = 1 .. Len(out) /\ Len(out) \in Nat
      /\ DOMAIN Append(out, o) = 1 .. Len(out) + 1
      /\ Append(out, o)[Len(out) + 1] = o
      /\ \A i \in 1 .. Len(out) : Append(out, o)[i] = out[i]
  OBVIOUS
<1> HIDE DEF PendingAt
<1>2. ASSUME NEW i
      PROVE  i \in PendingAt(Append(out, o)) <=> \/ i \in PendingAt(out)
                                                 \/ o = "pending" /\ i = Len(out) + 1
  <2>1. i \in 1 .. Len(out) + 1 <=> i \in 1 .. Len(out) \/ i = Len(out) + 1
    BY <1>1
  <2>2. Len(out) + 1 \notin 1 .. Len(out)
    BY <1>1
  <2> QED
    BY <1>1, <2>1, <2>2 DEF PendingAt
<1> QED
  BY <1>2

\* What SetOutcome does to the record, field by field.
LEMMA OutcomeFields ==
  ASSUME TypeOK, NEW r \in Records, NEW o,
         records' = [records EXCEPT ![r] = WithOutcome(@, o)]
  PROVE  /\ records'[r].outcome = Append(records[r].outcome, o)
         /\ records'[r].pending = IF o = "pending" THEN records[r].pending + 1
                                                   ELSE records[r].pending
         /\ records'[r].batch = records[r].batch /\ records'[r].held = records[r].held
         /\ records'[r].inUse = records[r].inUse
         /\ records'[r].generation = records[r].generation
<1>1. records[r] \in TicketRecord /\ records'[r] = WithOutcome(records[r], o)
  BY DEF TypeOK
<1>2. PICK out : out = Append(records[r].outcome, o)
  OBVIOUS
<1>3. PICK p : p = IF o = "pending" THEN records[r].pending + 1 ELSE records[r].pending
  OBVIOUS
<1>4. records'[r] = [records[r] EXCEPT !.outcome = out, !.pending = p]
  BY <1>1, <1>2, <1>3, Zenon DEF WithOutcome
<1>5. ASSUME NEW old \in TicketRecord, NEW new,
             new = [old EXCEPT !.outcome = out, !.pending = p]
      PROVE  /\ new.outcome = out /\ new.pending = p /\ new.batch = old.batch
             /\ new.held = old.held /\ new.inUse = old.inUse
             /\ new.generation = old.generation
  BY <1>5 DEF TicketRecord
<1> QED
  BY <1>1, <1>2, <1>3, <1>4, <1>5, Zenon

\* Entry e is chained to a slot that is filling with chunk c; nothing else changes.
Chained(e, c) ==
  \E v \in Slots : /\ slots'[v].waiters = slots[v].waiters \union {e}
                   /\ slots'[v].state = "filling" /\ slots'[v].chunk = c
                   /\ slots[v].waiters # {} => slots'[v].chunk = slots[v].chunk
                   /\ \A s \in Slots \ {v} : WaitersKept(s)

\* A chunk that is decided at once, or one that joins or starts a fill.
LEMMA OutcomeTrack ==
  ASSUME TypeOK, TypeOK', TicketTracking, OutcomesBounded, NEW r \in Records,
         NEW o \in Status, records[r].held, Len(records[r].outcome) < MaxBatch,
         records' = [records EXCEPT ![r] = WithOutcome(@, o)],
         NEW n \in Int, n = Len(records[r].outcome) + 1,
         \/ o # "pending" /\ \A s \in Slots : WaitersKept(s)
         \/ o = "pending" /\ Chained(<<r, n>>, records[r].batch[n])
  PROVE  TicketTracking' /\ OutcomesBounded'
<1>1. /\ records[r] \in TicketRecord /\ records[r].outcome \in Seq(Status)
      /\ records[r].pending \in Int /\ records'[r] = WithOutcome(records[r], o)
      /\ \A q \in Records \ {r} : records'[q] = records[q]
  BY DEF TypeOK, TicketRecord
<1>2. /\ records'[r].outcome = Append(records[r].outcome, o)
      /\ records'[r].pending = IF o = "pending" THEN records[r].pending + 1
                                                ELSE records[r].pending
      /\ records'[r].batch = records[r].batch /\ records'[r].held = records[r].held
      /\ records'[r].inUse = records[r].inUse
  BY OutcomeFields
<1>3. n \in 1 .. MaxBatch /\ n \notin DOMAIN records[r].outcome
  <2>1. Len(records[r].outcome) \in Nat /\ DOMAIN records[r].outcome = 1 .. Len(records[r].outcome)
    BY <1>1
  <2> QED
    BY <2>1, SizeAssumption
<1>4. n \notin Awaited(r)
  BY <1>3 DEF TicketTracking
<1>5. OutcomesBounded'
  <2>1. Len(Append(records[r].outcome, o)) = Len(records[r].outcome) + 1
        /\ Len(records[r].outcome) \in Nat
    BY <1>1
  <2>2. Len(records'[r].outcome) <= MaxBatch
    BY <1>2, <2>1, SizeAssumption
  <2> QED
    BY <1>1, <2>2 DEF OutcomesBounded
<1>6. /\ Awaited(r)' = IF o = "pending" THEN Awaited(r) \union {n} ELSE Awaited(r)
      /\ \A q \in Records \ {r} : Awaited(q)' = Awaited(q)
  <2>1. CASE o # "pending"
    <3>1. \A s \in Slots : slots'[s].waiters = slots[s].waiters
      BY <2>1 DEF WaitersKept
    <3> QED
      BY <2>1, <3>1, AwaitedKept
  <2>2. CASE o = "pending"
    <3>1. PICK v \in Slots : /\ slots'[v].waiters = slots[v].waiters \union {<<r, n>>}
                             /\ \A s \in Slots \ {v} : WaitersKept(s)
      BY <2>2 DEF Chained
    <3>2. ASSUME NEW q \in Records, NEW i \in 1 .. MaxBatch
          PROVE  i \in Awaited(q)' <=> i \in Awaited(q) \/ (q = r /\ i = n)
      <4>1. i \in Awaited(q)' <=> \E s \in Slots : <<q, i>> \in slots'[s].waiters
        BY DEF Awaited
      <4>2. i \in Awaited(q) <=> \E s \in Slots : <<q, i>> \in slots[s].waiters
        BY DEF Awaited
      <4>3. <<q, i>> \in slots'[v].waiters <=> <<q, i>> \in slots[v].waiters \/ (q = r /\ i = n)
        BY <3>1
      <4>4. \A s \in Slots \ {v} : slots'[s].waiters = slots[s].waiters
        BY <3>1 DEF WaitersKept
      <4> QED
        BY <4>1, <4>2, <4>3, <4>4
    <3>3. \A q : Awaited(q)' \subseteq 1 .. MaxBatch /\ Awaited(q) \subseteq 1 .. MaxBatch
      BY DEF Awaited
    <3> QED
      <4>1. Awaited(r)' = Awaited(r) \union {n}
        BY <1>3, <3>2, <3>3
      <4>2. \A q \in Records \ {r} : Awaited(q)' = Awaited(q)
        BY <3>2, <3>3
      <4> QED
        BY <2>2, <4>1, <4>2
  <2> QED
    BY <2>1, <2>2
<1>7. Awaited(r)' = PendingAt(records'[r].outcome)
  <2>1. Awaited(r) = PendingAt(records[r].outcome)
    BY DEF TicketTracking, PendingAt
  <2> QED
    <3>1. PendingAt(records'[r].outcome) =
            IF o = "pending" THEN PendingAt(records[r].outcome) \union {n}
                             ELSE PendingAt(records[r].outcome)
      <4>1. PICK out \in Seq(Status) : out = records[r].outcome
        BY <1>1
      <4>2. PendingAt(Append(out, o)) = IF o = "pending" THEN PendingAt(out) \union {n}
                                                         ELSE PendingAt(out)
        BY <4>1, AppendPending
      <4> QED
        BY <1>2, <4>1, <4>2
    <3> QED
      BY <1>6, <2>1, <3>1, Zenon
<1>8. records'[r].pending = Cardinality(Awaited(r)')
  <2>1. IsFiniteSet(Awaited(r))
    BY AwaitedFinite
  <2>2. Cardinality(Awaited(r) \union {n}) = Cardinality(Awaited(r)) + 1
    BY <1>4, <2>1, FS_AddElement
  <2> QED
    BY <1>2, <1>6, <2>2 DEF TicketTracking
<1>9. records'[r].inUse <=> records'[r].held \/ records'[r].pending # 0
  BY <1>2 DEF TicketTracking
<1>10. ASSUME NEW q \in Records, NEW s \in Slots, NEW i \in 1 .. MaxBatch,
              <<q, i>> \in slots'[s].waiters
       PROVE  /\ slots'[s].state = "filling" /\ slots'[s].chunk = records'[q].batch[i]
              /\ \A other \in Slots \ {s} : <<q, i>> \notin slots'[other].waiters
  <2>a. records'[q].batch = records[q].batch
    BY <1>1, <1>2
  <2>1. CASE o # "pending"
    BY <1>10, <2>a, <2>1 DEF TicketTracking, WaitersKept
  <2>2. CASE o = "pending"
    <3>1. PICK v \in Slots :
            /\ slots'[v].waiters = slots[v].waiters \union {<<r, n>>}
            /\ slots'[v].state = "filling" /\ slots'[v].chunk = records[r].batch[n]
            /\ slots[v].waiters # {} => slots'[v].chunk = slots[v].chunk
            /\ \A x \in Slots \ {v} : WaitersKept(x)
      BY <2>2 DEF Chained
    <3>2. \A x \in Slots : <<r, n>> \notin slots[x].waiters
      BY <1>3, <1>4 DEF Awaited
    <3>3. CASE q = r /\ i = n
      <4>1. s = v
        BY <1>10, <3>1, <3>2, <3>3 DEF WaitersKept
      <4> QED
        BY <2>a, <3>1, <3>2, <3>3, <4>1 DEF WaitersKept
    <3>4. CASE ~(q = r /\ i = n)
      <4>1. \A x \in Slots : <<q, i>> \in slots'[x].waiters => <<q, i>> \in slots[x].waiters
        BY <3>1, <3>4 DEF WaitersKept
      <4>2. /\ slots[s].state = "filling" /\ slots[s].chunk = records[q].batch[i]
            /\ \A other \in Slots \ {s} : <<q, i>> \notin slots[other].waiters
            /\ slots[s].waiters # {}
        BY <1>10, <4>1 DEF TicketTracking
      <4> QED
        BY <2>a, <3>1, <4>1, <4>2 DEF WaitersKept
    <3> QED
      BY <3>3, <3>4
  <2> QED
    BY <2>1, <2>2
<1> QED
  <2>1. ASSUME NEW q \in Records
        PROVE  /\ Awaited(q)' = PendingAt(records'[q].outcome)
               /\ records'[q].pending = Cardinality(Awaited(q)')
               /\ records'[q].inUse <=> records'[q].held \/ records'[q].pending # 0
    <3>1. CASE q = r
      BY <1>7, <1>8, <1>9, <3>1
    <3>2. CASE q # r
      BY <1>1, <1>6, <3>2 DEF TicketTracking, PendingAt
    <3> QED
      BY <3>1, <3>2
  <2> QED
    BY <1>5, <1>10, <2>1 DEF TicketTracking, PendingAt

\* One chunk of a prefetch, whatever becomes of it.
LEMMA OutcomeStep ==
  ASSUME LeaseInv, LeaseInv', TicketInv, NEW t \in Threads, Handling(t, "prefetch"),
         NEW o \in Status, SetOutcome(t, o), StepDone(t),
         UNCHANGED <<tickets, ticketsHeld, leases>>,
         \A s \in Slots : slots[s].state = "filling" => slots'[s].state = "filling",
         inFlight # 0 => inFlight' # 0,
         \/ o # "pending" /\ \A s \in Slots : WaitersKept(s)
         \/ o = "pending" /\ Chained(Entry(t), ThisChunk(t))
  PROVE  TicketInv'
<1>1. PICK r \in Records : r = call[t].record
  BY DEF LeaseInv, TypeOK, Call
<1>2. PICK n : n = Len(records[r].outcome) + 1
  OBVIOUS
<1>3. /\ call[t] \in Call /\ call[t].op = "prefetch" /\ call[t].pc = "locked"
      /\ call[t].done < Len(call[t].batch)
      /\ call[t].batch \in Batches \union {<<>>} /\ call[t].done \in Nat
      /\ call'[t] = [call[t] EXCEPT !.done = @ + 1]
      /\ \A u \in Threads \ {t} : call'[u] = call[u]
  BY DEF LeaseInv, TypeOK, Handling, StepDone, Call
<1>4. /\ records[r].held /\ records[r].batch = call[t].batch
      /\ Len(records[r].outcome) = call[t].done
  BY <1>1, <1>3 DEF TicketInv, OpInv
<1>5. Len(call[t].batch) \in 1 .. MaxBatch
  <2>1. Len(<<>>) = 0
    OBVIOUS
  <2>2. call[t].batch \in Batches
    BY <1>3, <2>1
  <2> QED
    BY <2>2, BatchType
<1>6. Len(records[r].outcome) < MaxBatch
  BY <1>3, <1>4, <1>5, SizeAssumption
<1>7. records' = [records EXCEPT ![r] = WithOutcome(@, o)]
  BY <1>1 DEF SetOutcome
<1>8. Entry(t) = <<r, n>> /\ ThisChunk(t) = records[r].batch[n]
  BY <1>1, <1>2, <1>4 DEF Entry, ThisChunk
<1>9. TypeOK /\ TypeOK' /\ TicketTracking /\ OutcomesBounded /\ HolderInv
  BY DEF LeaseInv, TicketInv
<1>10. TicketTracking' /\ OutcomesBounded'
  <2>1. \/ o # "pending" /\ \A s \in Slots : WaitersKept(s)
        \/ o = "pending" /\ Chained(<<r, n>>, records[r].batch[n])
    BY <1>8
  <2> QED
    <3>1. n \in Int
      BY <1>2, <1>3, <1>4
    <3> QED
      BY <1>2, <1>4, <1>6, <1>7, <1>9, <2>1, <3>1, OutcomeTrack
<1>11. /\ records'[r].held = records[r].held /\ records'[r].batch = records[r].batch
       /\ records'[r].generation = records[r].generation
       /\ records'[r].outcome = Append(records[r].outcome, o)
       /\ records'[r].pending = IF o = "pending" THEN records[r].pending + 1
                                                 ELSE records[r].pending
       /\ \A q \in Records \ {r} : records'[q] = records[q]
  <2>1. \A q \in Records \ {r} : records'[q] = records[q]
    BY <1>7, <1>9 DEF TypeOK
  <2> QED
    BY <1>7, <1>9, <2>1, OutcomeFields
<1>12. /\ call'[t].op = "prefetch" /\ call'[t].pc = "locked" /\ call'[t].record = r
       /\ call'[t].batch = call[t].batch /\ call'[t].done = call[t].done + 1
  BY <1>1, <1>3 DEF Call
<1>13. HolderInv'
  <2>1. \A q \in Records : /\ records'[q].held = records[q].held
                           /\ records'[q].generation = records[q].generation
    BY <1>11
  <2>2. HeldRecords' = HeldRecords
    BY <2>1 DEF HeldRecords
  <2>3. \A u \in Threads : \A q : Prefetching(u, q)' <=> Prefetching(u, q)
    <3>1. \A q : Prefetching(t, q)' <=> Prefetching(t, q)
      BY <1>1, <1>3, <1>12 DEF Prefetching
    <3>2. \A u \in Threads \ {t} : \A q : Prefetching(u, q)' <=> Prefetching(u, q)
      BY <1>3 DEF Prefetching
    <3> QED
      BY <3>1, <3>2
  <2>4. \A k \in tickets : k.record \in Records
    BY <1>9 DEF TypeOK, Ticket
  <2>5. \A k \in tickets : /\ records'[k.record].held
                            /\ records'[k.record].generation = k.generation
                            /\ \A j \in tickets : j.record = k.record => j = k
                            /\ \A u \in Threads : ~Prefetching(u, k.record)'
    BY <1>9, <2>1, <2>3, <2>4 DEF HolderInv
  <2>6. \A q \in Records : records'[q].held => \/ \E k \in tickets : k.record = q
                                               \/ \E u \in Threads : Prefetching(u, q)'
    BY <1>9, <2>1, <2>3 DEF HolderInv
  <2> QED
    BY <1>9, <2>2, <2>5, <2>6 DEF HolderInv
<1>14. OpInv(t)'
  <2>1. Len(records'[r].outcome) = call'[t].done
    <3>1. records[r].outcome \in Seq(Status)
      BY <1>9 DEF TypeOK, TicketRecord
    <3>2. Len(Append(records[r].outcome, o)) = Len(records[r].outcome) + 1
      BY <3>1
    <3> QED
      BY <1>4, <1>11, <1>12, <3>2
  <2> QED
    BY <1>4, <1>11, <1>12, <2>1 DEF OpInv
<1>15. Harmless(t)
  <2>1. ASSUME NEW q \in Records, records[q].pending # 0 PROVE records'[q].pending # 0
    <3>1. records[r].pending \in Nat
      BY <1>9, AwaitedFinite DEF TicketTracking
    <3> QED
      BY <1>11, <2>1, <3>1
  <2> QED
    BY <1>3, <2>1 DEF Harmless
<1>16. ASSUME NEW u \in Threads \ {t} PROVE OpInv(u)'
  <2>1. call[u].op # "prefetch"
    <3>1. call[u].pc # "locked"
      BY <1>3, InsideIsAlone DEF LeaseInv, OthersOutside
    <3> QED
      BY <3>1 DEF TicketInv, OpInv
  <2> QED
    BY <1>9, <1>15, <2>1, OthersOp DEF TicketInv
<1> QED
  BY <1>10, <1>13, <1>14, <1>16 DEF TicketInv

LEMMA PrefetchDecidedTicket ==
  ASSUME LeaseInv, LeaseInv', TicketInv, NEW t \in Threads,
         PrefetchResident(t) \/ PrefetchDeclined(t)
  PROVE  TicketInv'
<1>1. PICK o \in {"ok", "declined", "pool_exhausted"} : SetOutcome(t, o)
  BY DEF PrefetchResident, PrefetchDeclined
<1>2. /\ Handling(t, "prefetch") /\ StepDone(t)
      /\ UNCHANGED <<slots, tickets, ticketsHeld, leases, inFlight>>
  BY DEF PrefetchResident, PrefetchDeclined
<1>3. o \in Status /\ o # "pending"
  BY DEF Status
<1>4. \A s \in Slots : WaitersKept(s)
  BY <1>2 DEF WaitersKept
<1> QED
  BY <1>1, <1>2, <1>3, <1>4, OutcomeStep

LEMMA PrefetchJoinTicket ==
  ASSUME LeaseInv, LeaseInv', TicketInv, NEW t \in Threads, PrefetchJoin(t)
  PROVE  TicketInv'
<1>1. PICK v : v = index[ThisChunk(t)]
  OBVIOUS
<1>2. /\ Handling(t, "prefetch") /\ StepDone(t) /\ SetOutcome(t, "pending")
      /\ UNCHANGED <<tickets, ticketsHeld, leases, inFlight>>
      /\ v # None /\ slots[v].state = "filling"
      /\ slots' = [slots EXCEPT ![v].waiters = @ \union {Entry(t)}]
  BY <1>1 DEF PrefetchJoin
<1>3. ThisChunk(t) \in Chunks
  BY <1>2, CallUpdateType DEF LeaseInv, TypeOK, Ops
<1>4. v \in Slots /\ slots[v].chunk = ThisChunk(t)
  BY <1>1, <1>2, <1>3 DEF LeaseInv, TypeOK, PoolInv, IndexConsistent
<1>5. /\ slots'[v].waiters = slots[v].waiters \union {Entry(t)}
      /\ slots'[v].state = "filling" /\ slots'[v].chunk = slots[v].chunk
      /\ \A s \in Slots \ {v} : slots'[s] = slots[s]
  BY <1>2, <1>4 DEF LeaseInv, TypeOK, Slot
<1>6. Chained(Entry(t), ThisChunk(t))
  BY <1>4, <1>5 DEF Chained, WaitersKept
<1>7. \A s \in Slots : slots[s].state = "filling" => slots'[s].state = "filling"
  BY <1>5
<1> QED
  BY <1>2, <1>6, <1>7, OutcomeStep DEF Status

LEMMA PrefetchFillTicket ==
  ASSUME LeaseInv, LeaseInv', TicketInv, NEW t \in Threads,
         NEW k \in SweepSteps("declared"), PrefetchFill(t, k)
  PROVE  TicketInv'
<1> DEFINE v == SlotAt(k)
           started == StartedSlot(slots[v], ThisChunk(t))
           new == [started EXCEPT !.hintUnconsumed = TRUE, !.waiters = {Entry(t)}]
<1>1. PICK a : a = call[t].admission
  OBVIOUS
<1>2. /\ Handling(t, "prefetch") /\ StepDone(t) /\ SetOutcome(t, "pending")
      /\ UNCHANGED <<tickets, ticketsHeld, leases>> /\ inFlight' = inFlight + 1
      /\ claim_victim(a, k) /\ slots' = SweptSlots(a, k, new)
  BY <1>1 DEF PrefetchFill, SubmitAccepted
<1>3. /\ v \in Slots /\ slots[v].waiters = {} /\ slots[v].state # "filling"
      /\ slots'[v] = new
      /\ \A s \in Slots \ {v} : WaitersKept(s) /\ slots'[s].state = slots[s].state
  BY <1>2, SweepNat, SweptWaiters
<1>4. ThisChunk(t) \in Chunks
  BY <1>2, CallUpdateType DEF LeaseInv, TypeOK, Ops
<1>5. started \in Slot /\ started.chunk = ThisChunk(t) /\ started.state = "filling"
  <2>1. slots[v] \in Slot
    BY <1>3 DEF LeaseInv, TypeOK
  <2>2. started \in Slot
    BY <1>4, <2>1, StartedSlotType
  <2>3. started.chunk = ThisChunk(t) /\ started.state = "filling"
    BY <2>1 DEF StartedSlot, Slot
  <2> QED
    BY <2>2, <2>3
<1> HIDE DEF started
<1>6. new.chunk = ThisChunk(t) /\ new.state = "filling" /\ new.waiters = {Entry(t)}
  BY <1>5 DEF Slot
<1> HIDE DEF new, v
<1>7. Chained(Entry(t), ThisChunk(t))
  BY <1>3, <1>6 DEF Chained
<1>8. \A s \in Slots : slots[s].state = "filling" => slots'[s].state = "filling"
  BY <1>3
<1>9. inFlight # 0 => inFlight' # 0
  BY <1>2, InFlightGrows
<1> QED
  BY <1>2, <1>7, <1>8, <1>9, OutcomeStep DEF Status

LEMMA PrefetchRefusedTicket ==
  ASSUME LeaseInv, LeaseInv', TicketInv, NEW t \in Threads,
         NEW k \in SweepSteps("declared"), PrefetchRefused(t, k)
  PROVE  TicketInv'
<1> DEFINE v == SlotAt(k)
           new == make_free(StartedSlot(slots[v], ThisChunk(t)))
<1>1. PICK a : a = call[t].admission
  OBVIOUS
<1>2. /\ Handling(t, "prefetch") /\ StepDone(t) /\ SetOutcome(t, "queue_exhausted")
      /\ UNCHANGED <<tickets, ticketsHeld, leases, inFlight>>
      /\ claim_victim(a, k) /\ slots' = SweptSlots(a, k, new)
  BY <1>1 DEF PrefetchRefused, SubmitRefused
<1>3. /\ v \in Slots /\ slots[v].waiters = {} /\ slots[v].state # "filling"
      /\ slots'[v] = new
      /\ \A s \in Slots \ {v} : WaitersKept(s) /\ slots'[s].state = slots[s].state
  BY <1>2, SweepNat, SweptWaiters
<1>4. new.waiters = {}
  <2>1. slots[v] \in Slot
    BY <1>3 DEF LeaseInv, TypeOK
  <2> QED
    BY <2>1 DEF make_free, StartedSlot, Slot
<1> HIDE DEF new, v
<1>5. \A s \in Slots : WaitersKept(s)
  BY <1>3, <1>4 DEF WaitersKept
<1>6. \A s \in Slots : slots[s].state = "filling" => slots'[s].state = "filling"
  BY <1>3
<1> QED
  BY <1>2, <1>5, <1>6, OutcomeStep DEF Status

\* The record becomes the ticket's.
LEMMA PrefetchReturnTicket ==
  ASSUME LeaseInv, LeaseInv', TicketInv, NEW t \in Threads, PrefetchReturn(t)
  PROVE  TicketInv'
<1>1. PICK r \in Records : r = call[t].record
  BY DEF LeaseInv, TypeOK, Call
<1>2. PICK new : new = [owner |-> t, record |-> r, generation |-> records[r].generation]
  OBVIOUS
<1>3. /\ tickets' = tickets \union {new}
      /\ UNCHANGED <<slots, records, ticketsHeld, inFlight, leases>>
      /\ call[t].op = "prefetch" /\ call[t].pc = "locked" /\ call'[t] = Idle
      /\ \A u \in Threads \ {t} : call'[u] = call[u]
  BY <1>1, <1>2 DEF PrefetchReturn, poolVars, LeaseInv, TypeOK
<1>4. /\ Prefetching(t, r) /\ records[r].held
      /\ \A q : Prefetching(t, q) => q = r
      /\ \A q : ~Prefetching(t, q)'
  BY <1>1, <1>3 DEF Prefetching, TicketInv, OpInv, Idle
<1>5. ASSUME NEW u \in Threads \ {t}, NEW q PROVE ~Prefetching(u, q) /\ ~Prefetching(u, q)'
  <2>1. call[u].pc # "locked"
    BY <1>3, InsideIsAlone DEF LeaseInv, OthersOutside
  <2> QED
    BY <1>3, <2>1 DEF Prefetching, TicketInv, OpInv
<1>6. new.record = r /\ new.generation = records[r].generation
  BY <1>2
<1>7. \A k \in tickets : k.record # r
  BY <1>4 DEF TicketInv, HolderInv
<1>8. HolderInv'
  <2>1. HolderInv
    BY DEF TicketInv
  <2>2. \A k \in tickets' : /\ records'[k.record].held
                            /\ records'[k.record].generation = k.generation
                            /\ \A j \in tickets' : j.record = k.record => j = k
    BY <1>3, <1>4, <1>6, <1>7, <2>1 DEF HolderInv
  <2>3. \A k \in tickets', u \in Threads : ~Prefetching(u, k.record)'
    BY <1>4, <1>5
  <2>4. \A q \in Records : records'[q].held => \E k \in tickets' : k.record = q
    BY <1>3, <1>4, <1>5, <1>6, <2>1 DEF HolderInv
  <2>5. ticketsHeld' = Cardinality(HeldRecords')
    BY <1>3, <2>1 DEF HolderInv, HeldRecords
  <2> QED
    BY <2>2, <2>3, <2>4, <2>5 DEF HolderInv
<1>9. TicketTracking' /\ OutcomesBounded'
  BY <1>3, TrackKept DEF TicketInv, WaitersKept
<1>10. Harmless(t)
  BY <1>3 DEF Harmless
<1>11. \A u \in Threads \ {t} : OpInv(u)'
  BY <1>3, <1>10, OthersOp DEF TicketInv, LeaseInv
<1>12. OpInv(t)'
  BY <1>3, AwakeOp DEF Idle
<1> QED
  BY <1>8, <1>9, <1>11, <1>12 DEF TicketInv

\* A fresh record: nobody held it and no fill referred to it.
LEMMA PrefetchTicket ==
  ASSUME LeaseInv, LeaseInv', TicketInv, NEW t \in Threads, NEW b \in Batches,
         NEW a \in AdmissionClass, Prefetch(t, b, a)
  PROVE  TicketInv'
<1>1. PICK r \in Records :
        /\ ~records[r].inUse
        /\ records' = [records EXCEPT ![r] =
             [generation |-> NextGen(records[r].generation), batch |-> b,
              outcome |-> <<>>, pending |-> 0, held |-> TRUE, inUse |-> TRUE]]
        /\ call' = [call EXCEPT ![t] =
             [Idle EXCEPT !.op = "prefetch", !.pc = "locked", !.batch = b,
                          !.admission = a, !.record = r]]
  BY Zenon DEF Prefetch
<1>2. /\ UNCHANGED <<slots, tickets, inFlight, leases>> /\ ticketsHeld' = ticketsHeld + 1
      /\ call[t].pc = "idle" /\ mutex = None
  BY DEF Prefetch
<1>3. /\ \A q \in Records \ {r} : records'[q] = records[q]
      /\ records'[r] = [generation |-> NextGen(records[r].generation), batch |-> b,
                        outcome |-> <<>>, pending |-> 0, held |-> TRUE, inUse |-> TRUE]
  BY <1>1 DEF LeaseInv, TypeOK
<1>4. /\ records'[r].batch = b /\ records'[r].outcome = <<>> /\ records'[r].pending = 0
      /\ records'[r].held /\ records'[r].inUse
  BY <1>3
<1>5. /\ \A u \in Threads \ {t} : call'[u] = call[u]
      /\ call'[t] = [Idle EXCEPT !.op = "prefetch", !.pc = "locked", !.batch = b,
                                 !.admission = a, !.record = r]
  BY <1>1 DEF LeaseInv, TypeOK
<1>6. /\ call'[t].op = "prefetch" /\ call'[t].pc = "locked" /\ call'[t].batch = b
      /\ call'[t].record = r /\ call'[t].done = 0
  BY <1>5 DEF Idle
<1>7. ~records[r].held /\ records[r].pending = 0 /\ Cardinality(Awaited(r)) = 0
  BY <1>1 DEF TicketInv, TicketTracking
<1>8. Awaited(r) = {}
  BY <1>7, AwaitedFinite, FS_EmptySet
<1>9. \A q : Awaited(q)' = Awaited(q)
  BY <1>2, AwaitedKept
<1>10. TicketTracking' /\ OutcomesBounded'
  <2>1. PendingAt(<<>>) = {} /\ Len(<<>>) = 0 /\ Cardinality({}) = 0
    BY FS_EmptySet DEF PendingAt
  <2>2. \A s \in Slots, i \in 1 .. MaxBatch : <<r, i>> \notin slots[s].waiters
    BY <1>8 DEF Awaited
  <2>3. ASSUME NEW q \in Records
        PROVE  /\ Awaited(q)' = PendingAt(records'[q].outcome)
               /\ records'[q].pending = Cardinality(Awaited(q)')
               /\ records'[q].inUse <=> records'[q].held \/ records'[q].pending # 0
               /\ Len(records'[q].outcome) <= MaxBatch
    <3>1. CASE q = r
      <4>1. Awaited(r)' = {} /\ records'[r].outcome = <<>>
        BY <1>4, <1>8, <1>9
      <4>2. 0 <= MaxBatch
        BY SizeAssumption
      <4> QED
        BY <1>4, <2>1, <3>1, <4>1, <4>2
    <3>2. CASE q # r
      BY <1>3, <1>9, <3>2 DEF TicketInv, TicketTracking, OutcomesBounded, PendingAt
    <3> QED
      BY <3>1, <3>2
  <2>4. ASSUME NEW q \in Records, NEW s \in Slots, NEW i \in 1 .. MaxBatch,
               <<q, i>> \in slots'[s].waiters
        PROVE  /\ slots'[s].state = "filling" /\ slots'[s].chunk = records'[q].batch[i]
               /\ \A other \in Slots \ {s} : <<q, i>> \notin slots'[other].waiters
    <3>1. q # r
      BY <1>2, <2>2, <2>4
    <3> QED
      BY <1>2, <1>3, <2>4, <3>1 DEF TicketInv, TicketTracking
  <2> QED
    BY <2>3, <2>4 DEF TicketTracking, OutcomesBounded, PendingAt
<1>11. ASSUME NEW u \in Threads, NEW q PROVE ~Prefetching(u, q)
  <2>1. call[u].pc # "locked"
    BY <1>2, ChunkAssumption DEF LeaseInv, CallInv
  <2> QED
    BY <2>1 DEF Prefetching, TicketInv, OpInv
<1>12. HolderInv'
  <2>1. HolderInv /\ \A k \in tickets : k.record \in Records
    BY DEF TicketInv, LeaseInv, TypeOK, Ticket
  <2>2. \A k \in tickets : k.record \in Records \ {r}
    BY <1>7, <2>1 DEF HolderInv
  <2>3. \A u \in Threads : \A q : Prefetching(u, q)' <=> u = t /\ q = r
    <3>1. \A q : Prefetching(t, q)' <=> q = r
      BY <1>6 DEF Prefetching
    <3>2. \A u \in Threads \ {t} : \A q : ~Prefetching(u, q)'
      BY <1>5, <1>11 DEF Prefetching
    <3> QED
      BY <3>1, <3>2
  <2>4. \A k \in tickets' : /\ records'[k.record].held
                            /\ records'[k.record].generation = k.generation
                            /\ \A j \in tickets' : j.record = k.record => j = k
                            /\ \A u \in Threads : ~Prefetching(u, k.record)'
    BY <1>2, <1>3, <2>1, <2>2, <2>3 DEF HolderInv
  <2>5. \A q \in Records : records'[q].held => \/ \E k \in tickets' : k.record = q
                                               \/ \E u \in Threads : Prefetching(u, q)'
    BY <1>2, <1>3, <1>11, <2>1, <2>3 DEF HolderInv
  <2>6. ticketsHeld' = Cardinality(HeldRecords')
    <3>1. HeldRecords' = HeldRecords \union {r} /\ r \notin HeldRecords
      BY <1>3, <1>4, <1>7 DEF HeldRecords
    <3>2. Cardinality(HeldRecords') = Cardinality(HeldRecords) + 1
      BY <3>1, HeldFinite, FS_AddElement
    <3> QED
      BY <1>2, <2>1, <3>2 DEF HolderInv
  <2> QED
    BY <2>4, <2>5, <2>6 DEF HolderInv
<1>13. OpInv(t)'
  <2>1. Len(<<>>) = 0
    OBVIOUS
  <2> QED
    BY <1>4, <1>6, <2>1 DEF OpInv
<1>14. Harmless(t)
  BY <1>2, <1>3, <1>5, <1>7 DEF Harmless
<1>15. ASSUME NEW u \in Threads \ {t} PROVE OpInv(u)'
  <2>1. call[u].op # "prefetch"
    BY <1>11 DEF Prefetching
  <2> QED
    BY <1>14, <2>1, OthersOp DEF TicketInv, LeaseInv
<1> QED
  BY <1>10, <1>12, <1>13, <1>15 DEF TicketInv

-----------------------------------------------------------------------------
(***************************************************************************)
(* Records that lose their holder or an entry, and may become free.        *)
(***************************************************************************)

\* Record rec has the entries in A pending.
HasPending(rec, A) == /\ A = PendingAt(rec.outcome) /\ rec.pending = Cardinality(A)
                      /\ Len(rec.outcome) <= MaxBatch

\* It is used exactly while somebody needs it.
UsedIfNeeded(rec) == rec.inUse <=> rec.held \/ rec.pending # 0

\* What Recycled keeps: the entries still awaited, or nothing of the record is left.
LEMMA RecycledTracks ==
  ASSUME NEW mid \in TicketRecord, NEW A, IsFiniteSet(A), HasPending(mid, A),
         mid.held \/ mid.pending # 0 => mid.inUse, NEW new, new = Recycled(mid)
  PROVE  /\ HasPending(new, A) /\ UsedIfNeeded(new)
         /\ new.held = mid.held /\ new.generation = mid.generation
         /\ A # {} => new.batch = mid.batch
         /\ new.pending = mid.pending
         /\ mid.held => new = mid
<1> USE DEF HasPending, UsedIfNeeded
<1>1. CASE mid.pending = 0 /\ ~mid.held
  <2>1. new = [mid EXCEPT !.inUse = FALSE, !.batch = <<>>, !.outcome = <<>>]
    BY <1>1 DEF Recycled
  <2>2. /\ new.inUse = FALSE /\ new.outcome = <<>> /\ new.held = mid.held
        /\ new.pending = mid.pending /\ new.generation = mid.generation
    <3>0. PICK f \in BOOLEAN : f = FALSE
      OBVIOUS
    <3>1. PICK b, o : b = <<>> /\ o = <<>>
      OBVIOUS
    <3>2. new = [mid EXCEPT !.inUse = f, !.batch = b, !.outcome = o]
      BY <2>1, <3>0, <3>1, Zenon
    <3>3. /\ new.inUse = f /\ new.outcome = o /\ new.held = mid.held
          /\ new.pending = mid.pending /\ new.generation = mid.generation
      BY <3>2 DEF TicketRecord
    <3> QED
      BY <3>0, <3>1, <3>3, Zenon
  <2>3. A = {}
    BY <1>1, FS_EmptySet
  <2>4. PendingAt(<<>>) = {} /\ Len(<<>>) = 0
    BY DEF PendingAt
  <2>5. 0 <= MaxBatch
    BY SizeAssumption
  <2> QED
    BY <1>1, <2>2, <2>3, <2>4, <2>5
<1>2. CASE ~(mid.pending = 0 /\ ~mid.held)
  <2>1. new = mid
    BY <1>2 DEF Recycled
  <2> QED
    BY <1>2, <2>1
<1> QED
  BY <1>1, <1>2

\* Ticket::reset.
LEMMA DiscardTicketStep ==
  ASSUME LeaseInv, LeaseInv', TicketInv, NEW t \in Threads, NEW k \in tickets,
         DiscardTicket(t, k)
  PROVE  TicketInv'
<1>1. PICK r \in Records : r = k.record
  BY DEF LeaseInv, TypeOK, Ticket
<1>2. PICK mid : mid = [records[r] EXCEPT !.held = FALSE]
  OBVIOUS
<1>3. /\ records' = [records EXCEPT ![r] = Recycled([@ EXCEPT !.held = FALSE])]
      /\ ticketsHeld' = ticketsHeld - 1 /\ tickets' = tickets \ {k}
      /\ UNCHANGED <<slots, inFlight, call, leases>>
      /\ call[t].pc = "idle" /\ mutex = None
  BY <1>1 DEF DiscardTicket
<1>4. /\ records[r] \in TicketRecord /\ records'[r] = Recycled(mid)
      /\ \A q \in Records \ {r} : records'[q] = records[q]
  BY <1>2, <1>3 DEF LeaseInv, TypeOK
<1>5. /\ mid \in TicketRecord /\ mid.held = FALSE /\ mid.inUse = records[r].inUse
      /\ mid.outcome = records[r].outcome /\ mid.pending = records[r].pending
      /\ mid.batch = records[r].batch
  <2>1. PICK f \in BOOLEAN, old \in TicketRecord : f = FALSE /\ old = records[r]
    BY <1>4
  <2>2. mid = [old EXCEPT !.held = f]
    BY <1>2, <2>1, Zenon
  <2>3. /\ mid \in TicketRecord /\ mid.held = f /\ mid.inUse = old.inUse
        /\ mid.outcome = old.outcome /\ mid.pending = old.pending
        /\ mid.batch = old.batch
    BY <2>2 DEF TicketRecord
  <2> QED
    BY <2>1, <2>3, Zenon
<1>6. HolderInv /\ TicketTracking /\ OutcomesBounded
  BY DEF TicketInv
<1>7. records[r].held
  BY <1>1, <1>6 DEF HolderInv
<1>8. PICK A : A = Awaited(r)
  OBVIOUS
<1>9. /\ IsFiniteSet(A) /\ A = PendingAt(records[r].outcome)
      /\ records[r].pending = Cardinality(A) /\ records[r].inUse
      /\ Len(records[r].outcome) <= MaxBatch
  BY <1>6, <1>7, <1>8, AwaitedFinite DEF TicketTracking, OutcomesBounded, PendingAt
<1>10. /\ A = PendingAt(records'[r].outcome) /\ records'[r].pending = Cardinality(A)
       /\ records'[r].inUse <=> records'[r].held \/ records'[r].pending # 0
       /\ Len(records'[r].outcome) <= MaxBatch /\ ~records'[r].held
       /\ A # {} => records'[r].batch = records[r].batch
       /\ records'[r].pending = records[r].pending
  <2>1. PICK new : new = records'[r]
    OBVIOUS
  <2>2. HasPending(mid, A) /\ mid.inUse /\ new = Recycled(mid)
    BY <1>4, <1>5, <1>9, <2>1 DEF HasPending
  <2>3. /\ HasPending(new, A) /\ UsedIfNeeded(new) /\ new.held = mid.held
        /\ A # {} => new.batch = mid.batch
        /\ new.pending = mid.pending
    BY <1>5, <1>9, <2>2, RecycledTracks
  <2> QED
    BY <1>5, <1>9, <2>1, <2>3 DEF HasPending, UsedIfNeeded
<1>11. Awaited(r)' = A /\ \A q : Awaited(q)' = Awaited(q)
  BY <1>3, <1>8, AwaitedKept
<1>12. TicketTracking' /\ OutcomesBounded'
  <2>1. ASSUME NEW q \in Records
        PROVE  /\ Awaited(q)' = PendingAt(records'[q].outcome)
               /\ records'[q].pending = Cardinality(Awaited(q)')
               /\ records'[q].inUse <=> records'[q].held \/ records'[q].pending # 0
               /\ Len(records'[q].outcome) <= MaxBatch
    <3>1. CASE q = r
      BY <1>10, <1>11, <3>1
    <3>2. CASE q # r
      BY <1>4, <1>6, <1>11, <3>2 DEF TicketTracking, OutcomesBounded, PendingAt
    <3> QED
      BY <3>1, <3>2
  <2>2. ASSUME NEW q \in Records, NEW s \in Slots, NEW i \in 1 .. MaxBatch,
               <<q, i>> \in slots'[s].waiters
        PROVE  /\ slots'[s].state = "filling" /\ slots'[s].chunk = records'[q].batch[i]
               /\ \A other \in Slots \ {s} : <<q, i>> \notin slots'[other].waiters
    <3>1. records'[q].batch = records[q].batch
      <4>1. CASE q = r
        <5>1. i \in Awaited(r)
          BY <1>3, <2>2, <4>1 DEF Awaited
        <5> QED
          BY <1>8, <1>10, <4>1, <5>1
      <4>2. CASE q # r
        BY <1>4, <4>2
      <4> QED
        BY <4>1, <4>2
    <3> QED
      BY <1>3, <1>6, <2>2, <3>1 DEF TicketTracking
  <2> QED
    BY <2>1, <2>2 DEF TicketTracking, OutcomesBounded, PendingAt
<1>13. HolderInv'
  <2>1. \A j \in tickets : j.record \in Records
    BY DEF LeaseInv, TypeOK, Ticket
  <2>2. \A j \in tickets' : j \in tickets /\ j.record # r
    BY <1>1, <1>3, <1>6 DEF HolderInv
  <2>3. \A j \in tickets' : /\ records'[j.record].held
                            /\ records'[j.record].generation = j.generation
                            /\ \A m \in tickets' : m.record = j.record => m = j
                            /\ \A u \in Threads : ~Prefetching(u, j.record)'
    BY <1>3, <1>4, <1>6, <2>1, <2>2 DEF HolderInv, Prefetching
  <2>4. ASSUME NEW q \in Records, records'[q].held
        PROVE  \/ \E j \in tickets' : j.record = q
               \/ \E u \in Threads : Prefetching(u, q)'
    <3>1. q # r /\ records[q].held
      BY <1>4, <1>10, <2>4
    <3>2. (\E j \in tickets : j.record = q) \/ (\E u \in Threads : Prefetching(u, q))
      BY <1>6, <3>1 DEF HolderInv
    <3> QED
      BY <1>1, <1>3, <3>1, <3>2 DEF Prefetching
  <2>5. ticketsHeld' = Cardinality(HeldRecords')
    <3>1. HeldRecords' = HeldRecords \ {r} /\ r \in HeldRecords
      BY <1>4, <1>7, <1>10 DEF HeldRecords
    <3>2. Cardinality(HeldRecords') = Cardinality(HeldRecords) - 1
      BY <3>1, HeldFinite, FS_RemoveElement
    <3> QED
      BY <1>3, <1>6, <3>2 DEF HolderInv
  <2> QED
    BY <2>3, <2>4, <2>5 DEF HolderInv
<1>14. Harmless(t)
  BY <1>3, <1>4, <1>10 DEF Harmless
<1>15. ASSUME NEW u \in Threads \ {t} PROVE OpInv(u)'
  <2>1. call[u].op # "prefetch"
    <3>1. call[u].pc # "locked"
      BY <1>3, ChunkAssumption DEF LeaseInv, CallInv
    <3> QED
      BY <3>1 DEF TicketInv, OpInv
  <2> QED
    BY <1>14, <2>1, OthersOp DEF TicketInv, LeaseInv
<1>16. OpInv(t)'
  BY <1>3 DEF TicketInv, OpInv, LeaseInv, CallInv
<1> QED
  BY <1>12, <1>13, <1>15, <1>16 DEF TicketInv

-----------------------------------------------------------------------------
(***************************************************************************)
(* on_complete: the entries chained to the fill are settled, everybody who *)
(* sleeps is woken.                                                        *)
(***************************************************************************)

\* The entries of record r among the waiters W.
EntriesOf(r, W) == {i \in 1 .. MaxBatch : <<r, i>> \in W}

\* One record when a fill with waiters W ends with status.
LEMMA SettledTracks ==
  ASSUME TypeOK, TicketTracking, OutcomesBounded, NEW r \in Records, NEW W,
         NEW status \in Status, status # "pending", NEW mine,
         mine = EntriesOf(r, W), mine \subseteq Awaited(r),
         NEW new, new = SettledRecord(r, W, status)
  PROVE  /\ HasPending(new, Awaited(r) \ mine) /\ UsedIfNeeded(new)
         /\ new.held = records[r].held /\ new.generation = records[r].generation
         /\ Awaited(r) \ mine # {} => new.batch = records[r].batch
<1>1. PICK old \in TicketRecord : old = records[r]
  BY DEF TypeOK
<1>2. PICK out : out = [i \in DOMAIN old.outcome |-> IF i \in mine THEN status
                                                                   ELSE old.outcome[i]]
  OBVIOUS
<1>3. PICK p : p = old.pending - Cardinality(mine)
  OBVIOUS
<1>4. PICK mid : mid = [old EXCEPT !.outcome = out, !.pending = p]
  OBVIOUS
<1>5. new = Recycled(mid)
  BY <1>1, <1>2, <1>3, <1>4, Zenon DEF SettledRecord, EntriesOf
<1>6. PICK A : A = Awaited(r) \ mine
  OBVIOUS
<1>7. /\ IsFiniteSet(Awaited(r)) /\ IsFiniteSet(mine) /\ IsFiniteSet(A)
      /\ Cardinality(A) = Cardinality(Awaited(r)) - Cardinality(mine)
      /\ Cardinality(Awaited(r)) \in Nat /\ Cardinality(mine) \in Nat /\ Cardinality(A) \in Nat
  <2>1. IsFiniteSet(Awaited(r)) /\ Cardinality(Awaited(r)) \in Nat
    BY AwaitedFinite
  <2>2. IsFiniteSet(mine) /\ Awaited(r) \intersect mine = mine
    BY <2>1, FS_Subset
  <2>3. /\ IsFiniteSet(Awaited(r) \ mine)
        /\ Cardinality(Awaited(r) \ mine)
             = Cardinality(Awaited(r)) - Cardinality(Awaited(r) \intersect mine)
    BY <2>1, FS_Difference
  <2>4. Cardinality(mine) \in Nat /\ Cardinality(Awaited(r) \ mine) \in Nat
    BY <2>2, <2>3, FS_CardinalityType
  <2> QED
    BY <1>6, <2>1, <2>2, <2>3, <2>4
<1>8. /\ Awaited(r) = PendingAt(old.outcome) /\ old.pending = Cardinality(Awaited(r))
      /\ old.inUse <=> old.held \/ old.pending # 0
      /\ Len(old.outcome) <= MaxBatch /\ old.outcome \in Seq(Status)
  BY <1>1 DEF TicketTracking, OutcomesBounded, PendingAt, TypeOK, TicketRecord
<1>9. out \in Seq(Status) /\ Len(out) = Len(old.outcome)
  <2>1. /\ DOMAIN old.outcome = 1 .. Len(old.outcome) /\ Len(old.outcome) \in Nat
        /\ \A i \in 1 .. Len(old.outcome) : old.outcome[i] \in Status
    BY <1>8
  <2>2. out \in [1 .. Len(old.outcome) -> Status]
    BY <1>2, <2>1
  <2> QED
    BY <2>1, <2>2
<1>10. p = Cardinality(A) /\ p \in Int
  BY <1>3, <1>7, <1>8
<1>11. /\ mid \in TicketRecord /\ mid.outcome = out /\ mid.pending = p
       /\ mid.held = old.held /\ mid.inUse = old.inUse /\ mid.batch = old.batch
       /\ mid.generation = old.generation
  BY <1>4, <1>9, <1>10 DEF TicketRecord
<1>12. PendingAt(out) = A
  <2>1. DOMAIN out = DOMAIN old.outcome
    BY <1>2
  <2>2. \A i \in DOMAIN old.outcome : out[i] = IF i \in mine THEN status ELSE old.outcome[i]
    BY <1>2
  <2>3. \A i : i \in PendingAt(out) <=> i \in PendingAt(old.outcome) /\ i \notin mine
    BY <2>1, <2>2 DEF PendingAt
  <2> QED
    BY <1>6, <1>8, <2>3
<1>13. HasPending(mid, A)
  BY <1>8, <1>9, <1>10, <1>11, <1>12 DEF HasPending
<1>14. mid.held \/ mid.pending # 0 => mid.inUse
  <2>1. p # 0 => old.pending # 0
    BY <1>3, <1>7, <1>8, <1>10
  <2> QED
    BY <1>8, <1>11, <2>1
<1>15. /\ HasPending(new, A) /\ UsedIfNeeded(new)
       /\ new.held = mid.held /\ new.generation = mid.generation
       /\ A # {} => new.batch = mid.batch
  BY <1>5, <1>7, <1>11, <1>13, <1>14, RecycledTracks
<1> QED
  BY <1>1, <1>6, <1>11, <1>15

LEMMA CompleteTicket ==
  ASSUME LeaseInv, LeaseInv', TicketInv, NEW q \in requests, NEW res, Answer(res),
         Complete(q, res)
  PROVE  TicketInv'
<1>1. PICK v \in Slots : v = q.slot
  BY DEF LeaseInv, TypeOK, Request
<1>2. PICK status : status = classify_fill(res, ChunkLength[slots[v].chunk])
  OBVIOUS
<1>3. PICK W : W = slots[v].waiters
  OBVIOUS
<1>4. status \in Status /\ status # "pending"
  BY <1>2 DEF Answer, classify_fill, FillResult, Status
<1>5. /\ slots' = [slots EXCEPT ![v] = LandedSlot(slots[v], status)]
      /\ records' = [r \in Records |-> SettledRecord(r, W, status)]
      /\ notify_all /\ UNCHANGED <<tickets, ticketsHeld, leases, mutex>> /\ mutex = None
  <2>1. TokenOf(q).slot = v /\ TokenOf(q).generation = q.generation
    BY <1>1 DEF TokenOf
  <2>2. ~Stale(TokenOf(q))
    BY <1>1, <2>1 DEF Stale, LeaseInv, PoolInv, FillsMatchRequests
  <2>3. Land(TokenOf(q), res) /\ UNCHANGED <<tickets, leases, mutex>> /\ mutex = None
    BY <2>2 DEF Complete, on_complete
  <2> QED
    BY <1>2, <1>3, <2>1, <2>3, Zenon DEF Land
<1>6. slots'[v].waiters = {} /\ \A s \in Slots \ {v} : slots'[s] = slots[s]
  <2>1. slots[v] \in Slot /\ slots'[v] = LandedSlot(slots[v], status)
    BY <1>5 DEF LeaseInv, TypeOK
  <2>2. slots'[v].waiters = {}
    BY <2>1 DEF LandedSlot, make_free, Slot
  <2> QED
    BY <1>5, <2>2 DEF LeaseInv, TypeOK
<1>7. TypeOK /\ TicketTracking /\ OutcomesBounded /\ HolderInv
  BY DEF LeaseInv, TicketInv
<1>8. ASSUME NEW r \in Records
      PROVE  /\ HasPending(records'[r], Awaited(r)') /\ UsedIfNeeded(records'[r])
             /\ records'[r].held = records[r].held
             /\ records'[r].generation = records[r].generation
             /\ Awaited(r)' # {} => records'[r].batch = records[r].batch
  <2>1. PICK mine : mine = EntriesOf(r, W)
    OBVIOUS
  <2>2. mine \subseteq Awaited(r)
    BY <1>3, <2>1 DEF Awaited, EntriesOf
  <2>3. Awaited(r)' = Awaited(r) \ mine
    <3>1. ASSUME NEW i \in 1 .. MaxBatch
          PROVE  (\E s \in Slots : <<r, i>> \in slots'[s].waiters) <=>
                   /\ \E s \in Slots : <<r, i>> \in slots[s].waiters
                   /\ <<r, i>> \notin W
      <4>1. <<r, i>> \in slots[v].waiters =>
              \A other \in Slots \ {v} : <<r, i>> \notin slots[other].waiters
        BY <1>7 DEF TicketTracking
      <4> QED
        BY <1>3, <1>6, <4>1
    <3> QED
      BY <2>1, <3>1 DEF Awaited, EntriesOf
  <2>4. PICK new : new = SettledRecord(r, W, status)
    OBVIOUS
  <2>5. /\ HasPending(new, Awaited(r) \ mine) /\ UsedIfNeeded(new)
        /\ new.held = records[r].held /\ new.generation = records[r].generation
        /\ Awaited(r) \ mine # {} => new.batch = records[r].batch
    BY <1>4, <1>7, <2>1, <2>2, <2>4, SettledTracks
  <2>6. records'[r] = new
    BY <1>5, <2>4
  <2> QED
    BY <2>3, <2>5, <2>6
<1>9. TicketTracking' /\ OutcomesBounded'
  <2>1. ASSUME NEW r \in Records
        PROVE  /\ Awaited(r)' = PendingAt(records'[r].outcome)
               /\ records'[r].pending = Cardinality(Awaited(r)')
               /\ records'[r].inUse <=> records'[r].held \/ records'[r].pending # 0
               /\ Len(records'[r].outcome) <= MaxBatch
    BY <1>8 DEF HasPending, UsedIfNeeded
  <2>2. ASSUME NEW r \in Records, NEW s \in Slots, NEW i \in 1 .. MaxBatch,
               <<r, i>> \in slots'[s].waiters
        PROVE  /\ slots'[s].state = "filling" /\ slots'[s].chunk = records'[r].batch[i]
               /\ \A other \in Slots \ {s} : <<r, i>> \notin slots'[other].waiters
    <3>1. s # v /\ slots'[s] = slots[s]
      BY <1>6, <2>2
    <3>2. \A x \in Slots : <<r, i>> \in slots'[x].waiters => <<r, i>> \in slots[x].waiters
      BY <1>6
    <3>3. i \in Awaited(r)'
      BY <2>2 DEF Awaited
    <3>4. records'[r].batch = records[r].batch
      BY <1>8, <3>3
    <3> QED
      BY <1>7, <2>2, <3>1, <3>2, <3>4 DEF TicketTracking
  <2> QED
    BY <2>1, <2>2 DEF TicketTracking, OutcomesBounded, PendingAt
<1>10. ASSUME NEW u \in Threads
       PROVE  /\ call[u].op # "prefetch" /\ OpInv(u)' /\ call'[u].op = call[u].op
  <2>1. call[u] \in Call /\ call[u].pc \notin {"locked", "unwind"} /\ OpInv(u)
    BY <1>5, ChunkAssumption DEF LeaseInv, TypeOK, CallInv, TicketInv
  <2>2. call[u].op # "prefetch"
    BY <2>1 DEF OpInv
  <2>3. call'[u] = IF call[u].pc = "asleep" THEN [call[u] EXCEPT !.pc = "acquire"]
                                            ELSE call[u]
    BY <1>5 DEF notify_all
  <2>4. /\ call'[u].op = call[u].op /\ call'[u].batch = call[u].batch
        /\ call'[u].pc = IF call[u].pc = "asleep" THEN "acquire" ELSE call[u].pc
    BY <2>1, <2>3 DEF Call
  <2>5. /\ call'[u].pc \notin {"asleep", "unwind"}
        /\ call'[u].op \in {"wait", "drain"} =>
             call'[u].batch = <<>> /\ call'[u].pc \in {"locked", "acquire"}
    BY <2>1, <2>4 DEF OpInv
  <2> QED
    BY <2>2, <2>4, <2>5, AwakeOp
<1>11. HolderInv'
  <2>1. HeldRecords' = HeldRecords
    BY <1>8 DEF HeldRecords
  <2>2. \A u \in Threads : \A r : ~Prefetching(u, r) /\ ~Prefetching(u, r)'
    BY <1>10 DEF Prefetching
  <2>3. \A k \in tickets : k.record \in Records
    BY <1>7 DEF TypeOK, Ticket
  <2>4. \A k \in tickets : /\ records'[k.record].held
                           /\ records'[k.record].generation = k.generation
                           /\ \A j \in tickets : j.record = k.record => j = k
    BY <1>7, <1>8, <2>3 DEF HolderInv
  <2>5. \A r \in Records : records'[r].held => \E k \in tickets : k.record = r
    BY <1>7, <1>8, <2>2 DEF HolderInv
  <2>6. ticketsHeld' = Cardinality(HeldRecords') /\ tickets' = tickets
    BY <1>5, <1>7, <2>1 DEF HolderInv
  <2> QED
    BY <2>2, <2>4, <2>5, <2>6 DEF HolderInv
<1> QED
  BY <1>9, <1>10, <1>11 DEF TicketInv

\* A repeated answer, and a step of somebody else.
LEMMA StillTicket ==
  ASSUME TicketInv, UNCHANGED <<slots, records, tickets, ticketsHeld, call, inFlight, leases>>
  PROVE  TicketInv'
<1>1. TicketTracking' /\ OutcomesBounded'
  BY TrackKept DEF TicketInv, WaitersKept
<1>2. HolderInv'
  BY HolderKept DEF TicketInv, Prefetching
<1>3. ASSUME NEW t \in Threads PROVE OpInv(t)'
  <2>1. Satisfied(t)' <=> Satisfied(t)
    <3>1. OutSpan(t)' = OutSpan(t)
      BY DEF OutSpan
    <3> QED
      BY <3>1, Zenon DEF Satisfied
  <2> QED
    BY <2>1 DEF TicketInv, OpInv
<1> QED
  BY <1>1, <1>2, <1>3 DEF TicketInv

-----------------------------------------------------------------------------
(***************************************************************************)
(* The theorems.                                                           *)
(***************************************************************************)

LEMMA TicketInit == Init => TicketInv
<1> SUFFICES ASSUME Init PROVE TicketInv
  OBVIOUS
<1>1. /\ \A s \in Slots : slots[s] = InitialSlot
      /\ \A r \in Records : records[r] = InitialRecord
      /\ \A t \in Threads : call[t] = Idle
      /\ tickets = {} /\ ticketsHeld = 0
  BY DEF Init
<1>2. \A s \in Slots : slots[s].waiters = {}
  BY <1>1 DEF InitialSlot
<1>3. \A r : Awaited(r) = {}
  BY <1>2 DEF Awaited
<1>4. Cardinality({}) = 0 /\ DOMAIN <<>> = {} /\ Len(<<>>) = 0
  BY FS_EmptySet
<1>5. \A r \in Records : /\ records[r].outcome = <<>> /\ records[r].pending = 0
                         /\ ~records[r].held /\ ~records[r].inUse
  BY <1>1 DEF InitialRecord
<1>6. TicketTracking
  <2>1. ASSUME NEW r \in Records
        PROVE  Awaited(r) = {i \in DOMAIN records[r].outcome :
                               records[r].outcome[i] = "pending"}
    BY <1>3, <1>4, <1>5
  <2> QED
    BY <1>2, <1>3, <1>4, <1>5, <2>1 DEF TicketTracking
<1>7. OutcomesBounded
  <2>1. 0 <= MaxBatch
    BY SizeAssumption
  <2> QED
    BY <1>4, <1>5, <2>1 DEF OutcomesBounded
<1>8. HolderInv
  <2>1. HeldRecords = {}
    BY <1>5 DEF HeldRecords
  <2> QED
    BY <1>1, <1>4, <1>5, <2>1 DEF HolderInv
<1>9. \A t \in Threads : OpInv(t)
  BY <1>1 DEF OpInv, Idle
<1> QED
  BY <1>6, <1>7, <1>8, <1>9 DEF TicketInv

\* One step of the specification, action by action.
LEMMA TicketNext ==
  ASSUME LeaseInv, LeaseInv', TicketInv, [Next]_vars
  PROVE  TicketInv'
<1>1. ASSUME NEW t \in Threads, Begin(t) PROVE TicketInv'
  <2>1. ASSUME NEW b \in Batches, NEW a \in AdmissionClass, Prefetch(t, b, a)
        PROVE  TicketInv'
    BY <2>1, PrefetchTicket
  <2>2. ASSUME NEW k \in tickets, DiscardTicket(t, k) PROVE TicketInv'
    BY <2>2, DiscardTicketStep
  <2>3. ASSUME NEW l \in leases, ReleaseLease(t, l) PROVE TicketInv'
    BY <2>3, UnpinTicket
  <2>4. ASSUME NEW c \in SUBSET Chunks, WontNeed(t, c) PROVE TicketInv'
    BY <2>4, WontNeedTicket
  <2>5. CASE \/ \E b \in Batches, op \in {"resolve", "try_resolve"} : Resolve(t, op, b)
             \/ \E k \in tickets, d \in BOOLEAN : Wait(t, k, d)
             \/ \E d \in BOOLEAN : Drain(t, d)
    BY <2>5, QuietTicket
  <2> QED
    BY <1>1, <2>1, <2>2, <2>3, <2>4, <2>5 DEF Begin
<1>2. ASSUME NEW t \in Threads, LockStep(t) PROVE TicketInv'
  BY <1>2, QuietTicket, UnpinTicket DEF LockStep
<1>3. ASSUME NEW t \in Threads, Step(t) PROVE TicketInv'
  BY <1>3, QuietTicket, PrefetchDecidedTicket, PrefetchJoinTicket, PrefetchFillTicket,
     PrefetchRefusedTicket, PrefetchReturnTicket, PinIndexedTicket, ResolveFillTicket,
     ResolveRefusedTicket, UnpinTicket DEF Step
<1>4. ASSUME NEW t \in Threads, SpuriousWake(t) \/ Timeout(t) PROVE TicketInv'
  BY <1>4, QuietTicket
<1>5. CASE Backend
  <2>1. ASSUME NEW q \in requests, NEW res \in FillResults, Complete(q, res)
        PROVE  TicketInv'
    BY <2>1, ResultsAnswer, CompleteTicket
  <2>2. ASSUME NEW k \in late, NEW res \in FillResults, Redeliver(k, res)
        PROVE  TicketInv'
    <3>1. UNCHANGED <<poolVars, call, leases, tickets>>
      BY <2>2, RedeliverPool DEF LeaseInv
    <3> QED
      BY <3>1, StillTicket DEF poolVars
  <2> QED
    BY <1>5, <2>1, <2>2 DEF Backend
<1>6. CASE UNCHANGED vars
  BY <1>6, StillTicket DEF vars, poolVars
<1> QED
  BY <1>1, <1>2, <1>3, <1>4, <1>5, <1>6 DEF Next

\* The invariant behind the ticket properties holds in every instance.
THEOREM TicketInvariant == Spec => [](LeaseInv /\ TicketInv)
<1>1. Init => LeaseInv /\ TicketInv
  BY LeaseInit, TicketInit
<1>2. LeaseInv /\ TicketInv /\ [Next]_vars => LeaseInv' /\ TicketInv'
  BY LeaseNext, TicketNext
<1> QED
  BY <1>1, <1>2, PTL DEF Spec

\* Tickets' pending entries are exactly those chained to fills under way, for any
\* number of threads, tickets and slots: no settled entry is waited for, no record is
\* reused under a fill (prefetch, on_complete, discard_ticket).
THEOREM TicketsAreTracked == Spec => []TicketTracking
<1>1. LeaseInv /\ TicketInv => TicketTracking
  BY DEF TicketInv
<1> QED
  BY <1>1, TicketInvariant, PTL

\* Nobody sleeps for something that has already happened.
THEOREM NoLostWakeup == Spec => []SleepersHaveCause
<1>1. LeaseInv /\ TicketInv => SleepersHaveCause
  BY DEF TicketInv, OpInv, SleepersHaveCause
<1> QED
  BY <1>1, TicketInvariant, PTL

LEMMA NoTerminateHolds ==
  ASSUME LeaseInv, TicketInv
  PROVE  NoTerminate
<1>1. ASSUME NEW l \in leases
      PROVE  slots[l.slot].generation = l.generation /\ slots[l.slot].pins # 0
  <2>1. l.slot \in Slots /\ IsFiniteSet(leases) /\ PinsExact
    BY DEF LeaseInv, TypeOK, Lease, PoolInv
  <2> QED
    BY <2>1, NoPinsNoLease DEF LeaseInv, PoolInv, LeaseCurrent
<1>2. ASSUME NEW k \in tickets
      PROVE  records[k.record].generation = k.generation /\ records[k.record].held
  BY DEF TicketInv, HolderInv
<1>3. ASSUME mutex = None
      PROVE  /\ CanDestroy <=> requests = {} /\ leases = {} /\ tickets = {}
             /\ CanDestroy => /\ \A s \in Slots : slots[s].state \in {"free", "ready"}
                              /\ \A r \in Records : ~records[r].inUse
  <2>1. inFlight = 0 <=> requests = {}
    BY FS_EmptySet DEF LeaseInv, PoolInv, FillsMatchRequests
  <2>2. pinsTotal = 0 <=> leases = {}
    BY FS_EmptySet DEF LeaseInv, PoolInv, PinsExact
  <2>3. ticketsHeld = 0 <=> HeldRecords = {}
    BY HeldFinite, FS_EmptySet DEF TicketInv, HolderInv
  <2>4. \A t \in Threads : \A r : ~Prefetching(t, r)
    <3>1. \A t \in Threads : call[t].pc # "locked"
      BY <1>3, ChunkAssumption DEF LeaseInv, CallInv
    <3> QED
      BY <3>1 DEF Prefetching, TicketInv, OpInv
  <2>5. HeldRecords = {} <=> tickets = {}
    <3>1. \A k \in tickets : k.record \in HeldRecords
      BY DEF TicketInv, HolderInv, HeldRecords, LeaseInv, TypeOK, Ticket
    <3>2. \A r \in HeldRecords : \E k \in tickets : k.record = r
      BY <2>4 DEF TicketInv, HolderInv, HeldRecords
    <3> QED
      BY <3>1, <3>2
  <2>6. ASSUME CanDestroy
        PROVE  /\ \A s \in Slots : slots[s].state \in {"free", "ready"}
               /\ \A r \in Records : ~records[r].inUse
    <3>1. requests = {} /\ leases = {} /\ HeldRecords = {}
      BY <2>1, <2>2, <2>3, <2>6 DEF CanDestroy
    <3>2. ASSUME NEW s \in Slots PROVE slots[s].state \in {"free", "ready"}
      <4>1. slots[s].state \in SlotState /\ slots[s].state # "filling"
        BY <3>1 DEF LeaseInv, TypeOK, Slot, PoolInv, FillsMatchRequests
      <4>2. slots[s].pins = 0
        <5>1. Pinning(s) = {}
          BY <3>1 DEF Pinning
        <5> QED
          BY <5>1, FS_EmptySet DEF LeaseInv, PoolInv, PinsExact
      <4> QED
        BY <4>1, <4>2 DEF SlotState, LeaseInv, PoolInv, FailedPinned
    <3>3. ASSUME NEW r \in Records PROVE ~records[r].inUse
      <4>1. \A s \in Slots : slots[s].waiters = {}
        BY <3>2, NoWaiters DEF LeaseInv, TicketInv
      <4>2. Awaited(r) = {}
        BY <4>1 DEF Awaited
      <4>3. Cardinality(Awaited(r)) = 0
        BY <4>2, FS_EmptySet
      <4>4. ~records[r].held
        BY <3>1 DEF HeldRecords
      <4> QED
        BY <4>3, <4>4 DEF TicketInv, TicketTracking
    <3> QED
      BY <3>2, <3>3
  <2> QED
    BY <2>1, <2>2, <2>3, <2>5, <2>6 DEF CanDestroy
<1> QED
  BY <1>1, <1>2, <1>3 DEF NoTerminate

\* The terminate tests of release_lease, discard_ticket and ~SlotPool never fire on
\* objects the pool handed out, and the destructor's test is exact.
THEOREM NothingTerminates == Spec => []NoTerminate
<1>1. LeaseInv /\ TicketInv => NoTerminate
  BY NoTerminateHolds
<1> QED
  BY <1>1, TicketInvariant, PTL

\* A step of u is no step of anybody else's call.
LEMMA OwnCallOnly ==
  ASSUME TypeOK, NEW u \in Threads,
         Begin(u) \/ LockStep(u) \/ Step(u) \/ SpuriousWake(u) \/ Timeout(u)
  PROVE  \A w \in Threads \ {u} : call'[w] = call[w]
<1>1. call \in [Threads -> Call]
  BY DEF TypeOK
<1>2. CASE Begin(u)
  <2>1. \A b, a : Prefetch(u, b, a) => \A w \in Threads \ {u} : call'[w] = call[w]
    BY <1>1 DEF Prefetch
  <2>2. \A op, b : Resolve(u, op, b) => \A w \in Threads \ {u} : call'[w] = call[w]
    BY <1>1 DEF Resolve
  <2>3. \A k, d : Wait(u, k, d) \/ DiscardTicket(u, k) =>
                    \A w \in Threads \ {u} : call'[w] = call[w]
    BY <1>1 DEF Wait, DiscardTicket
  <2>4. \A l : ReleaseLease(u, l) => call' = call
    BY DEF ReleaseLease
  <2>5. \A d, c : Drain(u, d) \/ WontNeed(u, c) =>
                    \A w \in Threads \ {u} : call'[w] = call[w]
    BY <1>1 DEF Drain, WontNeed
  <2> QED
    BY <1>2, <2>1, <2>2, <2>3, <2>4, <2>5 DEF Begin
<1>3. CASE LockStep(u)
  BY <1>1, <1>3 DEF LockStep, ReleaseAll, ResolveLock, TryResolveLock, Acquire
<1>4. CASE Step(u)
  <2>1. PrefetchResident(u) \/ PrefetchJoin(u) \/ PrefetchDeclined(u) \/ PinIndexed(u)
          => StepDone(u)
    BY DEF PrefetchResident, PrefetchJoin, PrefetchDeclined, PinIndexed
  <2>2. \A k : PrefetchFill(u, k) \/ PrefetchRefused(u, k) \/ ResolveFill(u, k) => StepDone(u)
    BY DEF PrefetchFill, PrefetchRefused, ResolveFill
  <2>3. \A k : ResolveRefused(u, k) => StopWith(u, "queue_exhausted")
    BY DEF ResolveRefused
  <2>4. ResolveExhausted(u) \/ ResolveFailed(u) => \E f : StopWith(u, f)
    BY DEF ResolveExhausted, ResolveFailed
  <2>5. StepDone(u) => \A w \in Threads \ {u} : call'[w] = call[w]
    BY <1>1 DEF StepDone
  <2>6. \A f : StopWith(u, f) => \A w \in Threads \ {u} : call'[w] = call[w]
    BY <1>1 DEF StopWith
  <2>7. \A l : Unwind(u, l) => call' = call
    BY DEF Unwind
  <2>8. PrefetchReturn(u) \/ UnwindReturn(u) \/ Sleep(u) \/ Return(u) \/ TryResolveReturn(u)
          => \A w \in Threads \ {u} : call'[w] = call[w]
    BY <1>1 DEF PrefetchReturn, UnwindReturn, Sleep, Return, TryResolveReturn
  <2> QED
    BY <1>4, <2>1, <2>2, <2>3, <2>4, <2>5, <2>6, <2>7, <2>8 DEF Step
<1>5. CASE SpuriousWake(u) \/ Timeout(u)
  BY <1>1, <1>5 DEF SpuriousWake, Timeout
<1> QED
  BY <1>2, <1>3, <1>4, <1>5

\* wait comes back by finding its predicate true, or by its deadline.
LEMMA WaitEnds ==
  ASSUME LeaseInv, TicketInv, Next, NEW t \in Threads, call[t].op = "wait",
         call'[t].op # "wait"
  PROVE  Return(t) \/ Timeout(t)
<1>1. call[t] \in Call /\ call[t].pc \in {"locked", "asleep", "acquire"}
  BY DEF LeaseInv, TypeOK, TicketInv, OpInv
<1>2. ASSUME Backend PROVE FALSE
  <2>1. ASSUME NEW q \in requests, NEW res \in FillResults, Complete(q, res)
        PROVE  call'[t].op = call[t].op
    <3>1. notify_all
      BY <2>1, ResultsAnswer, CompletePool DEF LeaseInv
    <3> QED
      BY <1>1, <3>1 DEF notify_all, Call
  <2>2. ASSUME NEW k \in late, NEW res \in FillResults, Redeliver(k, res)
        PROVE  call' = call
    BY <2>2, RedeliverPool DEF LeaseInv
  <2> QED
    BY <1>2, <2>1, <2>2 DEF Backend
<1>3. Begin(t) \/ LockStep(t) \/ Step(t) \/ SpuriousWake(t) \/ Timeout(t)
  BY <1>2, OwnCallOnly DEF Next, LeaseInv
<1>4. ~Begin(t)
  BY <1>1 DEF Begin, Prefetch, Resolve, Wait, DiscardTicket, ReleaseLease, Drain, WontNeed
<1>5. \A pc : call' = [call EXCEPT ![t].pc = pc] => call'[t].op = "wait"
  BY <1>1 DEF LeaseInv, TypeOK, Call
<1>6. \A f : StopWith(t, f) => call'[t].op = "wait"
  BY <1>1 DEF StopWith, LeaseInv, TypeOK, Call
<1>7. ~LockStep(t)
  BY <1>1, <1>5 DEF LockStep, ReleaseAll, ResolveLock, TryResolveLock, Acquire
<1>8. ~SpuriousWake(t)
  BY <1>5 DEF SpuriousWake
<1>9. ASSUME Step(t) PROVE Return(t)
  <2>1. ~(PrefetchResident(t) \/ PrefetchJoin(t) \/ PrefetchDeclined(t) \/ PrefetchReturn(t))
    BY DEF PrefetchResident, PrefetchJoin, PrefetchDeclined, PrefetchReturn, Handling
  <2>2. \A k : ~(PrefetchFill(t, k) \/ PrefetchRefused(t, k) \/ ResolveFill(t, k)
                                    \/ ResolveRefused(t, k))
    BY DEF PrefetchFill, PrefetchRefused, ResolveFill, ResolveRefused, Handling
  <2>3. ~(PinIndexed(t) \/ ResolveExhausted(t) \/ TryResolveReturn(t) \/ UnwindReturn(t))
    BY <1>1 DEF PinIndexed, ResolveExhausted, TryResolveReturn, UnwindReturn, Handling
  <2>4. \A l : ~Unwind(t, l)
    BY <1>1 DEF Unwind
  <2>5. ~Sleep(t) /\ ~ResolveFailed(t)
    BY <1>5, <1>6 DEF Sleep, ResolveFailed
  <2> QED
    BY <1>9, <2>1, <2>2, <2>3, <2>4, <2>5 DEF Step
<1> QED
  BY <1>3, <1>4, <1>7, <1>8, <1>9

\* A wait without a deadline returns only when every entry of its ticket is settled:
\* the outcomes it reports cannot still be pending.
THEOREM UnboundedWaitsAreTerminal == Spec => UnboundedWaitIsTerminal
<1>1. ASSUME LeaseInv, TicketInv, [Next]_vars
      PROVE  [\A t \in Threads : call[t].op = "wait" /\ ~call[t].deadline
                                                     /\ call'[t].op # "wait" =>
                \A i \in DOMAIN records[call[t].record].outcome :
                  records[call[t].record].outcome[i] # "pending"]_vars
  <2> SUFFICES ASSUME Next, NEW t \in Threads, call[t].op = "wait", ~call[t].deadline,
                      call'[t].op # "wait"
               PROVE  \A i \in DOMAIN records[call[t].record].outcome :
                        records[call[t].record].outcome[i] # "pending"
    BY <1>1
  <2>1. Return(t)
    BY <1>1, WaitEnds DEF Timeout
  <2>2. PICK r \in Records : r = call[t].record
    BY <1>1 DEF LeaseInv, TypeOK, Call
  <2>3. records[r].pending = 0
    BY <2>1, <2>2, SatisfiedIs DEF Return
  <2>4. Awaited(r) = {}
    BY <1>1, <2>3, AwaitedFinite, FS_EmptySet DEF TicketInv, TicketTracking
  <2> QED
    BY <1>1, <2>2, <2>4 DEF TicketInv, TicketTracking
<1> QED
  BY <1>1, TicketInvariant, PTL DEF Spec, UnboundedWaitIsTerminal

-----------------------------------------------------------------------------
(***************************************************************************)
(* Two revolutions reach every slot with its reference bit out of play.    *)
(***************************************************************************)

\* Going round m times more is going nowhere.
LEMMA WholeTurns ==
  ASSUME NEW n \in Nat \ {0}, NEW s \in 0 .. n - 1, NEW m \in Int, NEW x \in Int,
         x = m * n + s
  PROVE  x % n = s
<1>1. PICK d \in Int, r \in Int : d = x \div n /\ r = x % n
  OBVIOUS
<1>2. x = n * d + r /\ 0 <= r /\ r < n
  BY <1>1
<1>3. PICK e \in Int : e = d - m
  OBVIOUS
<1>4. n * e = s - r
  BY <1>2, <1>3
<1>5. (e >= 1 => n * e >= n) /\ (e <= -1 => n * e <= -n)
  OBVIOUS
<1>6. e = 0
  BY <1>2, <1>4, <1>5
<1> QED
  BY <1>1, <1>4, <1>6

\* Every slot is looked at in the second revolution.
LEMMA SecondLook ==
  ASSUME clockHand \in Slots, NEW s \in Slots
  PROVE  \E k \in SweepSteps("declared") : k >= NumSlots /\ SlotAt(k) = s
<1>1. NumSlots \in Nat \ {0} /\ s \in 0 .. NumSlots - 1 /\ clockHand \in 0 .. NumSlots - 1
  BY SizeAssumption DEF Slots
<1>2. CASE s >= clockHand
  <2>1. PICK k \in Int : k = NumSlots + s - clockHand
    BY <1>1
  <2>2. k \in SweepSteps("declared") /\ k >= NumSlots
    BY <1>1, <1>2, <2>1 DEF SweepSteps
  <2>3. clockHand + k = 1 * NumSlots + s /\ clockHand + k \in Int
    BY <1>1, <2>1
  <2> QED
    BY <1>1, <2>2, <2>3, WholeTurns DEF SlotAt
<1>3. CASE s < clockHand
  <2>1. PICK k \in Int : k = 2 * NumSlots + s - clockHand
    BY <1>1
  <2>2. k \in SweepSteps("declared") /\ k >= NumSlots
    BY <1>1, <1>3, <2>1 DEF SweepSteps
  <2>3. clockHand + k = 2 * NumSlots + s /\ clockHand + k \in Int
    BY <1>1, <2>1
  <2> QED
    BY <1>1, <2>2, <2>3, WholeTurns DEF SlotAt
<1> QED
  BY <1>1, <1>2, <1>3

\* When a declared sweep finds no victim, every slot is pinned or being filled.
LEMMA NoVictimMeansNone ==
  ASSUME LeaseInv, NoVictim("declared"), NEW s \in Slots
  PROVE  slots[s].pins # 0 \/ slots[s].state = "filling"
<1>1. PICK k \in SweepSteps("declared") : k >= NumSlots /\ SlotAt(k) = s
  BY SecondLook DEF LeaseInv, TypeOK
<1>2. ~Takes(k)
  BY DEF NoVictim
<1>3. slots[s].state \in SlotState
  BY DEF LeaseInv, TypeOK, Slot
<1>4. slots[s].state = "failed" => slots[s].pins # 0
  BY DEF LeaseInv, PoolInv, FailedPinned
<1> QED
  BY <1>1, <1>2, <1>3, <1>4 DEF Takes, SlotState

\* The count of distinct slots tells whether each slot has a lease of this call.
LEMMA AllSlotsPinned ==
  ASSUME LeaseInv, NEW t \in Threads
  PROVE  Cardinality(DistinctSlots(t)) >= NumSlots <=>
           \A s \in Slots : \E l \in OutSpan(t) : l.slot = s
<1>1. DistinctSlots(t) \subseteq Slots
  BY DEF DistinctSlots, OutSpan, LeaseInv, TypeOK, Lease
<1>2. IsFiniteSet(Slots) /\ Cardinality(Slots) = NumSlots
  <2>1. NumSlots - 1 \in Int /\ 0 \in Int
    BY SizeAssumption
  <2>2. IsFiniteSet(0 .. NumSlots - 1)
        /\ Cardinality(0 .. NumSlots - 1)
             = IF 0 > NumSlots - 1 THEN 0 ELSE NumSlots - 1 - 0 + 1
    BY <2>1, FS_Interval
  <2> QED
    BY <2>2, SizeAssumption DEF Slots
<1>3. /\ IsFiniteSet(DistinctSlots(t))
      /\ Cardinality(DistinctSlots(t)) <= Cardinality(Slots)
      /\ Cardinality(Slots) = Cardinality(DistinctSlots(t)) => Slots = DistinctSlots(t)
  BY <1>1, <1>2, FS_Subset
<1>4. Cardinality(DistinctSlots(t)) \in Nat
  BY <1>3, FS_CardinalityType
<1>5. Cardinality(DistinctSlots(t)) >= NumSlots <=> DistinctSlots(t) = Slots
  BY <1>2, <1>3, <1>4, SizeAssumption
<1>6. DistinctSlots(t) = Slots <=> \A s \in Slots : \E l \in OutSpan(t) : l.slot = s
  BY <1>1 DEF DistinctSlots
<1> QED
  BY <1>5, <1>6

\* resolve's loop stops, other than for a full queue, only in ResolveExhausted.
LEMMA StopsExhausted ==
  ASSUME LeaseInv, TicketInv, Next, NEW t \in Threads, OutOfSlots(t)
  PROVE  ResolveExhausted(t)
<1>1. /\ call[t] \in Call /\ call[t].pc # "unwind" /\ call'[t].pc = "unwind"
      /\ call[t].done \in Int /\ call[t].done < Len(call[t].batch)
      /\ call'[t].failure # "queue_exhausted"
  BY DEF OutOfSlots, LeaseInv, TypeOK, Call
<1>2. ASSUME Backend PROVE FALSE
  <2>1. ASSUME NEW q \in requests, NEW res \in FillResults, Complete(q, res)
        PROVE  call'[t].pc # "unwind"
    <3>1. notify_all
      BY <2>1, ResultsAnswer, CompletePool DEF LeaseInv
    <3> QED
      BY <1>1, <3>1 DEF notify_all, Call
  <2>2. ASSUME NEW k \in late, NEW res \in FillResults, Redeliver(k, res)
        PROVE  call' = call
    BY <2>2, RedeliverPool DEF LeaseInv
  <2> QED
    BY <1>1, <1>2, <2>1, <2>2 DEF Backend
<1>3. Begin(t) \/ LockStep(t) \/ Step(t) \/ SpuriousWake(t) \/ Timeout(t)
  BY <1>1, <1>2, OwnCallOnly DEF Next, LeaseInv
<1>4. /\ \A pc : call' = [call EXCEPT ![t].pc = pc] => call'[t].pc = pc
      /\ call' = [call EXCEPT ![t] = Idle] => call'[t].pc = "idle"
      /\ StepDone(t) => call'[t].pc = call[t].pc
      /\ \A f : StopWith(t, f) => call'[t].failure = f
  <2>1. \A pc : call' = [call EXCEPT ![t].pc = pc] => call'[t].pc = pc
    BY <1>1 DEF LeaseInv, TypeOK, Call
  <2>2. call' = [call EXCEPT ![t] = Idle] => call'[t].pc = "idle"
    BY DEF LeaseInv, TypeOK, Idle
  <2>3. StepDone(t) => call'[t].pc = call[t].pc
    BY <1>1 DEF LeaseInv, TypeOK, Call, StepDone
  <2>4. \A f : StopWith(t, f) => call'[t].failure = f
    BY <1>1 DEF LeaseInv, TypeOK, Call, StopWith
  <2> QED
    BY <2>1, <2>2, <2>3, <2>4
<1>5. ~Begin(t)
  <2>1. \A b, a : Prefetch(t, b, a) => call'[t].pc # "unwind"
    <3> SUFFICES ASSUME NEW b, NEW a, Prefetch(t, b, a) PROVE call'[t].pc # "unwind"
      OBVIOUS
    <3>1. PICK r \in Records : call' = [call EXCEPT ![t] =
            [Idle EXCEPT !.op = "prefetch", !.pc = "locked", !.batch = b,
                         !.admission = a, !.record = r]]
      BY Zenon DEF Prefetch
    <3> QED
      BY <3>1 DEF LeaseInv, TypeOK, Idle
  <2>2. \A op, b : Resolve(t, op, b) => call'[t].pc # "unwind"
    BY DEF Resolve, LeaseInv, TypeOK, Idle
  <2>3. \A k, d : Wait(t, k, d) => call'[t].pc # "unwind"
    BY DEF Wait, LeaseInv, TypeOK, Idle
  <2>4. \A d : Drain(t, d) => call'[t].pc # "unwind"
    BY DEF Drain, LeaseInv, TypeOK, Idle
  <2>5. \A k, l, c : DiscardTicket(t, k) \/ ReleaseLease(t, l) \/ WontNeed(t, c) => call' = call
    BY DEF DiscardTicket, ReleaseLease, WontNeed
  <2> QED
    BY <1>1, <2>1, <2>2, <2>3, <2>4, <2>5 DEF Begin
<1>6. ~LockStep(t) /\ ~SpuriousWake(t) /\ ~Timeout(t)
  BY <1>1, <1>4 DEF LockStep, ReleaseAll, ResolveLock, TryResolveLock, Acquire,
                    SpuriousWake, Timeout
<1>7. CASE Step(t)
  <2>1. ~(PrefetchResident(t) \/ PrefetchJoin(t) \/ PrefetchDeclined(t) \/ PinIndexed(t))
    BY <1>1, <1>4 DEF PrefetchResident, PrefetchJoin, PrefetchDeclined, PinIndexed
  <2>2. \A k : ~(PrefetchFill(t, k) \/ PrefetchRefused(t, k) \/ ResolveFill(t, k))
    BY <1>1, <1>4 DEF PrefetchFill, PrefetchRefused, ResolveFill
  <2>3. \A k : ~ResolveRefused(t, k)
    BY <1>1, <1>4 DEF ResolveRefused
  <2>4. ~(PrefetchReturn(t) \/ UnwindReturn(t) \/ Sleep(t) \/ Return(t) \/ TryResolveReturn(t))
    BY <1>1, <1>4 DEF PrefetchReturn, UnwindReturn, Sleep, Return, TryResolveReturn
  <2>5. \A l : ~Unwind(t, l)
    BY <1>1 DEF Unwind
  <2>6. ~ResolveFailed(t)
    BY <1>1 DEF ResolveFailed, AtWait
  <2> QED
    BY <1>7, <2>1, <2>2, <2>3, <2>4, <2>5, <2>6 DEF Step
<1> QED
  BY <1>3, <1>5, <1>6, <1>7

\* resolve reports pool_exhausted or batch_too_large only when every slot is pinned or
\* being filled, and the second exactly when each of them is pinned by its own leases.
THEOREM ExhaustionsAreReal == Spec => ExhaustionIsReal
<1>1. ASSUME LeaseInv, TicketInv, [Next]_vars
      PROVE  [\A t \in Threads : OutOfSlots(t) =>
                /\ \A s \in Slots : slots[s].pins # 0 \/ slots[s].state = "filling"
                /\ call'[t].failure = "batch_too_large" <=>
                     \A s \in Slots : \E l \in OutSpan(t) : l.slot = s]_vars
  <2> SUFFICES ASSUME Next, NEW t \in Threads, OutOfSlots(t)
               PROVE  /\ \A s \in Slots : slots[s].pins # 0 \/ slots[s].state = "filling"
                      /\ call'[t].failure = "batch_too_large" <=>
                           \A s \in Slots : \E l \in OutSpan(t) : l.slot = s
    BY <1>1
  <2>1. ResolveExhausted(t)
    BY <1>1, StopsExhausted
  <2>2. \A s \in Slots : slots[s].pins # 0 \/ slots[s].state = "filling"
    BY <1>1, <2>1, NoVictimMeansNone DEF ResolveExhausted
  <2>3. call'[t].failure = IF Cardinality(DistinctSlots(t)) >= NumSlots
                           THEN "batch_too_large" ELSE "pool_exhausted"
    BY <1>1, <2>1 DEF ResolveExhausted, StopWith, LeaseInv, TypeOK, Call
  <2>4. Cardinality(DistinctSlots(t)) >= NumSlots <=>
          \A s \in Slots : \E l \in OutSpan(t) : l.slot = s
    BY <1>1, AllSlotsPinned
  <2> QED
    BY <2>2, <2>3, <2>4
<1> QED
  BY <1>1, TicketInvariant, PTL DEF Spec, ExhaustionIsReal

-----------------------------------------------------------------------------
(***************************************************************************)
(* A speculative sweep.                                                    *)
(***************************************************************************)

\* It clears no reference bit and takes no referenced slot.
LEMMA SpeculativeSweep ==
  ASSUME LeaseInv, NEW a, a # "declared", NEW k, claim_victim(a, k), NEW new,
         slots' = SweptSlots(a, k, new), NEW s \in Slots,
         slots[s].state = "ready", slots[s].referenced
  PROVE  slots'[s] = slots[s]
<1>1. Aged(a, k) = {}
  BY DEF Aged
<1>2. k \in Int /\ k < NumSlots
  BY SizeAssumption DEF claim_victim, SweepSteps
<1>3. s # SlotAt(k)
  <2>1. Takes(k)
    BY DEF claim_victim
  <2>2. ~(k >= NumSlots)
    BY <1>2, SizeAssumption
  <2> QED
    BY <2>1, <2>2 DEF Takes
<1> QED
  BY <1>1, <1>3 DEF SweptSlots

\* Whatever a speculative prefetch does while it is inside the mutex, a ready slot that
\* was referenced stays as it is, reference bit and all.
THEOREM SpeculationDisplacesNothing == Spec => SpeculativeDisplacesNothing
<1>1. ASSUME LeaseInv, TicketInv, [Next]_vars
      PROVE  [\A t \in Threads : mutex = t /\ call[t].op = "prefetch"
                                           /\ call[t].admission = "speculative" =>
                \A s \in Slots : slots[s].state = "ready" /\ slots[s].referenced =>
                                   slots'[s] = slots[s]]_vars
  <2> SUFFICES ASSUME Next, NEW t \in Threads, mutex = t, call[t].op = "prefetch",
                      call[t].admission = "speculative", NEW s \in Slots,
                      slots[s].state = "ready", slots[s].referenced
               PROVE  slots'[s] = slots[s]
    BY <1>1
  <2>1. mutex # None /\ call[t].pc = "locked"
    BY <1>1, ChunkAssumption DEF TicketInv, OpInv
  <2>2. \A u \in Threads \ {t} : call[u].pc \notin {"locked", "unwind"}
    BY <1>1 DEF LeaseInv, CallInv
  <2>3. ~Backend
    BY <2>1 DEF Backend, Complete, Redeliver, on_complete
  <2>4. ASSUME NEW u \in Threads, Begin(u) \/ LockStep(u) PROVE slots' = slots
    BY <2>1, <2>4 DEF Begin, Prefetch, Resolve, Wait, DiscardTicket, ReleaseLease, Drain,
                      WontNeed, LockStep, ReleaseAll, ResolveLock, TryResolveLock,
                      Acquire, poolVars
  <2>5. ASSUME NEW u \in Threads, SpuriousWake(u) \/ Timeout(u) PROVE slots' = slots
    BY <2>5 DEF SpuriousWake, Timeout, poolVars
  <2>6. ASSUME NEW u \in Threads \ {t}, Step(u) PROVE FALSE
    BY <2>2, <2>6 DEF Step, PrefetchResident, PrefetchJoin, PrefetchDeclined, PrefetchFill,
         PrefetchRefused, PrefetchReturn, PinIndexed, ResolveExhausted, ResolveFill,
         ResolveRefused, Unwind, UnwindReturn, Sleep, Return, ResolveFailed,
         TryResolveReturn, Handling, AtWait
  <2>7. CASE Step(t)
    <3>1. CASE PrefetchResident(t) \/ PrefetchDeclined(t) \/ PrefetchReturn(t)
      BY <3>1 DEF PrefetchResident, PrefetchDeclined, PrefetchReturn, poolVars
    <3>2. CASE PrefetchJoin(t)
      BY <1>1, <3>2 DEF PrefetchJoin, LeaseInv, TypeOK
    <3>3. ASSUME NEW k \in SweepSteps("declared"), PrefetchFill(t, k) \/ PrefetchRefused(t, k)
          PROVE  slots'[s] = slots[s]
      <4>1. PICK a, new : /\ a = call[t].admission /\ claim_victim(a, k)
                          /\ slots' = SweptSlots(a, k, new)
        BY <3>3, Zenon DEF PrefetchFill, PrefetchRefused, SubmitRefused
      <4> QED
        BY <1>1, <4>1, SpeculativeSweep
    <3>4. ASSUME NEW k PROVE ~ResolveFill(t, k) /\ ~ResolveRefused(t, k)
      BY DEF ResolveFill, ResolveRefused, Handling
    <3>5. ASSUME NEW l PROVE ~Unwind(t, l)
      BY <2>1 DEF Unwind
    <3>6. ~(PinIndexed(t) \/ ResolveExhausted(t) \/ UnwindReturn(t) \/ Sleep(t) \/ Return(t)
             \/ ResolveFailed(t) \/ TryResolveReturn(t))
      BY <2>1 DEF PinIndexed, ResolveExhausted, UnwindReturn, Sleep, Return, ResolveFailed,
                  TryResolveReturn, Handling, AtWait
    <3> QED
      BY <2>7, <3>1, <3>2, <3>3, <3>4, <3>5, <3>6 DEF Step
  <2> QED
    BY <2>3, <2>4, <2>5, <2>6, <2>7 DEF Next
<1> QED
  BY <1>1, TicketInvariant, PTL DEF Spec, SpeculativeDisplacesNothing

=============================================================================
