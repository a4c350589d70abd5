------------------------------ MODULE FilePool ------------------------------
(***************************************************************************)
(* A SlotPool that is filled by a LocalFileBackend: the two parts as their *)
(* modules have them, with joint steps where one calls the other.          *)
(*                                                                         *)
(* start_fill calls the backend's submit with the pool's mutex held; a     *)
(* worker or a shutdown call delivers into on_complete.  on_complete is    *)
(* two steps here, what it does with the mutex held and the unlock, after  *)
(* which the owner may destroy the pool.                                   *)
(***************************************************************************)
EXTENDS SlotPool

CONSTANTS
  Workers,        \* config.workers threads of the backend
  Capacity,       \* config.queue_capacity
  Closers         \* threads that call the backend's shutdown

\* create: a queue has room for one request at least.
ASSUME QueueAssumption == Capacity \in Nat \ {0}

VARIABLES
  ring, head, ringSize, shuttingDown, worker, closer,   \* as in LocalFileBackend
  inside,         \* the backend threads inside on_complete, past its lock
  destroyed       \* the pool's destructor has run

queueVars == <<ring, head, ringSize, shuttingDown, worker, closer>>
allVars == <<vars, queueVars, inside, destroyed>>

\* The one file is registered before the pool exists; counters and the backend's own
\* destructor are LocalFileBackend's subject.
B == INSTANCE LocalFileBackend WITH
  Requests <- Request, MaxSources <- 1, SourceOf <- [q \in Request |-> "file"],
  Misaligned <- {}, Length <- 1, Admins <- {}, Files <- {}, Handles <- {"handle"},
  Owner <- None, admin <- <<>>, files <- [h \in {"handle"} |-> "file"],
  sources <- <<[source |-> "file", handle |-> "handle", access |-> "buffered"]>>,
  stats <- <<>>, answers <- <<>>

FilePoolInit ==
  /\ Init
  /\ ring = [i \in 0 .. Capacity - 1 |-> None] /\ head = 0 /\ ringSize = 0
  /\ shuttingDown = FALSE
  /\ worker = [w \in Workers |-> B!Idle]
  /\ closer = [c \in Closers |-> B!NoCall]
  /\ inside = {} /\ destroyed = FALSE

-----------------------------------------------------------------------------
(***************************************************************************)
(* The pool's threads.  on_complete keeps the mutex to its end, its        *)
(* notification included.                                                  *)
(***************************************************************************)
Fault_UnlockFirst == TRUE
Unlocked == inside = {}

PoolUsable == Unlocked /\ ~destroyed

\* start_fill, with the backend's answer to submit.
Submitting(t) == \E k \in SweepSteps("declared") : PrefetchFill(t, k) \/ ResolveFill(t, k)
Refused(t) == \E k \in SweepSteps("declared") : PrefetchRefused(t, k) \/ ResolveRefused(t, k)

Fill(t) ==
  /\ Submitting(t)
  /\ \E q \in requests' \ requests : B!Enqueue(q)

Refusal(t) ==
  /\ Refused(t)
  /\ shuttingDown \/ B!Full
  /\ UNCHANGED queueVars

\* The steps of a call that leave the backend alone.
Alone(t) ==
  \/ PrefetchResident(t) \/ PrefetchJoin(t) \/ PrefetchDeclined(t) \/ PrefetchReturn(t)
  \/ PinIndexed(t) \/ ResolveExhausted(t)
  \/ \E l \in leases : Unwind(t, l)
  \/ UnwindReturn(t) \/ Sleep(t) \/ Return(t) \/ ResolveFailed(t) \/ TryResolveReturn(t)

\* A caller between calls that means to begin another.
Calls(t) == Begin(t) /\ UNCHANGED queueVars

InCall(t) ==
  /\ PoolUsable
  /\ Fill(t) \/ Refusal(t) \/ (Alone(t) /\ UNCHANGED queueVars)
  /\ UNCHANGED <<inside, destroyed>>

Locking(t) ==
  /\ PoolUsable
  /\ LockStep(t) /\ UNCHANGED <<queueVars, inside, destroyed>>

ThreadStep(t) ==
  \/ PoolUsable /\ Calls(t) /\ UNCHANGED <<inside, destroyed>>
  \/ PoolUsable /\ Timeout(t) /\ UNCHANGED <<queueVars, inside, destroyed>>
  \/ SpuriousWake(t) /\ UNCHANGED <<queueVars, inside, destroyed>>

\* ~SlotPool, by an owner that has got everything back: it takes the mutex first.
Destroy ==
  /\ PoolUsable /\ mutex = None
  /\ \A t \in Threads : call[t].pc = "idle"
  /\ leases = {} /\ tickets = {} /\ CanDestroy
  /\ destroyed' = TRUE
  /\ UNCHANGED <<vars, queueVars, inside>>

-----------------------------------------------------------------------------
(***************************************************************************)
(* The backend's threads.                                                  *)
(***************************************************************************)
Deliver(w) ==
  /\ Unlocked
  /\ \E result \in FillResults : /\ B!Handed(w, result)
                                 /\ Complete(worker[w].item.request, result)
  /\ inside' = inside \union {w}
  /\ UNCHANGED destroyed

CancelQueued(c) ==
  /\ Unlocked
  /\ B!CancelFirst(c)
  /\ Complete(Head(closer[c].queued).request, [status |-> "cancelled", bytes |-> 0])
  /\ inside' = inside \union {c}
  /\ UNCHANGED destroyed

\* on_complete releases the mutex and returns.
Leave(b) ==
  /\ b \in inside
  /\ inside' = inside \ {b}
  /\ UNCHANGED <<vars, queueVars, destroyed>>

WorkerAlone(w) ==
  /\ w \notin inside
  /\ B!WorkerSleep(w) \/ B!WorkerExit(w) \/ B!Dequeue(w) \/ B!Finished(w)
  /\ UNCHANGED <<vars, inside, destroyed>>

CloserAlone(c) ==
  /\ c \notin inside
  /\ B!DropFirst(c) \/ B!Join(c)
  /\ UNCHANGED <<vars, inside, destroyed>>

\* Somebody calls the backend's shutdown, at any moment.
ShutdownCall(c) ==
  /\ B!ShutdownFirst(c) \/ B!ShutdownAgain(c)
  /\ UNCHANGED <<vars, inside, destroyed>>

FilePoolNext ==
  \/ \E t \in Threads : ThreadStep(t) \/ InCall(t) \/ Locking(t)
  \/ \E w \in Workers : Deliver(w) \/ WorkerAlone(w)
  \/ \E c \in Closers : CancelQueued(c) \/ CloserAlone(c) \/ ShutdownCall(c)
  \/ \E b \in inside : Leave(b)
  \/ Destroy

FilePoolSpec == FilePoolInit /\ [][FilePoolNext]_allVars

(***************************************************************************)
(* Fairness, of threads only: the pool's callers inside a call, the        *)
(* workers and the shutdown calls.  That the pool's requests are answered  *)
(* is no longer assumed.                                                   *)
(***************************************************************************)
FilePoolFairness ==
  /\ \A t \in Threads : WF_allVars(InCall(t)) /\ SF_allVars(Locking(t))
  /\ \A w \in Workers : WF_allVars(WorkerAlone(w)) /\ SF_allVars(Deliver(w))
  /\ \A c \in Closers : WF_allVars(CloserAlone(c)) /\ SF_allVars(CancelQueued(c))
  /\ \A b \in Workers \union Closers : WF_allVars(Leave(b))

FilePoolFairSpec == FilePoolSpec /\ FilePoolFairness

-----------------------------------------------------------------------------
(***************************************************************************)
(* Properties.                                                             *)
(***************************************************************************)

\* What the pool takes for in flight is what the ring, the workers and a shutdown
\* under way still have: submit's yes and no, a cancelled request and an answer are
\* understood alike on both sides, so in_flight_ = 0 means that nobody writes.
SameRequests == requests = {q \in Request : B!Keepers(q) # {}}

\* The pool may be destroyed as soon as its owner has got everything back: no backend
\* thread is still inside on_complete then, and none will call it again.
OutlivesItsFills ==
  destroyed => inside = {} /\ \A q \in Request : B!Keepers(q) = {}

=============================================================================
