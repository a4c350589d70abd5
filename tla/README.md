# TLA+ models of Sub0MemPage

Sub0MemPage is a header-only C++ library that keeps a bounded pool of caller-owned slots filled with the
chunks of an immutable source. This directory holds TLA+ models of its four headers and of the read shootout,
the program that drives the library and its competitors side by side, the TLC instances that check them and
TLAPS proofs that the safety properties of the library's headers hold for every instance.

Headers below are relative to `src/include/sub0mempage/`, `read_shootout.cpp` is
`src/tools/read_shootout/read_shootout.cpp`.

## 1. The system

| Part | State | Operations |
| --- | --- | --- |
| `SlotPool` (`slot_pool.hpp`) | slots with chunk, generation, pin count, state, reference bit and waiter chain; chunk index; CLOCK hand; ticket records; counters of fills, pins and tickets | `prefetch`, `resolve`, `try_resolve`, `wait`, `drain`, `wont_need`, lease release, ticket discard, `on_complete`, destructor |
| chunk index (`slot_pool.hpp`) | open-addressing table of twice the slots or more | `index_find`, `index_insert`, `index_erase` |
| ranges (`slot_pool.hpp`, `transfer.hpp`) | none | `validate_batch`, `for_each_chunk`, `chunk_length`, the segment of `make_lease`, `checked_end`, `validate_range` |
| `TransferSet` (`transfer_set.hpp`) | records of claimed destination ranges; free stack; live list and positions in it | `submit`, claim status and wait, claim release, `drain`, `on_complete`, destructor |
| backend contract (`transfer.hpp`) | none | `FillBackendRef::submit`, `CompletionSink::deliver` |
| `LocalFileBackend` (`local_file_backend.hpp`) | ring of work items; table of open files; worker threads; counters | `submit`, `register_file`, worker loop, `perform`, `read_range`, `shutdown`, destructor |
| read shootout (`read_shootout.cpp`) | a ring of slots shared by every strategy; per strategy its threads, requests, port, ring or claims | main's rounds: `open`, one `read` per miss, `close`, verify; the strategies `NaiveFread`, `InlineRead`, `PoolRead` with `ChunkPool`, `IocpRead`, `IoRingRead`, `MemPageRead` |

**How they interact.** Application threads call `SlotPool` or `TransferSet`. Each keeps its state under one
mutex and calls `backend.submit(request)` with that mutex held. A worker of the backend writes the bytes and
calls the issuer's `on_complete(token, result)` from its own thread; the token (slot or record index and
generation) is all that ties the answer to the request. `on_complete` settles the slot or record, the tickets
that wait for it, and wakes everybody on the condition variable. `resolve` sleeps there with its slots pinned
and the mutex released. In the shootout main owns the slots: it lends one to a strategy for the length of a
`read`, hashes what it got, and reuses the slot eight misses later, under whatever strategy runs then.

**What is hard.** Several threads and the backend interleave at every release of the mutex. Answers may come
late, short, failed or, from a faulty backend, twice. A batch fails half way and its pins come off. A ticket or
a claim is dropped while its writer is still at work. A pool is full, a queue is full, and a victim has already
been evicted when the backend refuses. Generations, ranges and the turns of the sweep wrap. Shutdown meets running
workers and cancels fills a pool waits for; the pool may be destroyed the moment its last fill settles. A row is read
in pieces by several readers, one of which fails or comes last.
`PROJECT.json` lists these hazards at their lines together with the properties that watch them.

## 2. The modules

| Module | Models | Notes |
| --- | --- | --- |
| `Transfer` | `Status`, `AdmissionClass`, `FillResult`, `classify_fill` | shared vocabulary |
| `ByteRanges` | `ByteRange`, `checked_end`, `validate_range` | words of width `WordMod` |
| `SlotPool` | `SlotPool`, `Lease`, `Ticket` | the core; an environment action answers requests |
| `ChunkIndex` | the hash table | implements `ChunkMap`, the map `SlotPool` uses |
| `ChunkRanges` | range validation, chunk iteration, lease segments | against unbounded integers |
| `TransferSet` | `TransferSet`, `Claim` | implements `ClaimLedger`, a ledger of reserved bytes |
| `LocalFileBackend` | ring, workers, files, shutdown | implements `FillContract` |
| `ReadRange` | `perform` and `read_range` for one request | buffered and uncached |
| `FilePool` | a `SlotPool` filled by a `LocalFileBackend` | composes the two modules; adds the end of `on_complete` and `~SlotPool` |
| `ClockSweep` | `claim_victim` turn by turn, in words of width `StepMod` | against the sweep `SlotPool` uses |
| `RowWindows` | rows, aligned windows, pieces and capacities of the shootout | pure arithmetic, counts and lengths in words of width `NarrowMod` |
| `ReadDriver` | main's rounds and the slots, inline reads | |
| `ChunkPool` | `PoolRead` and its parked threads | extends `ReadDriver` |
| `KernelReads` | the kernel's asynchronous reads | external; extends `ReadDriver` |
| `IocpRead`, `IoRingRead` | the strategies of these names | extend `KernelReads` |
| `MemPageRead` | the library as the shootout uses it | an `INSTANCE` of `TransferSet` under one thread |
| `ReadShootout` | main with all of these | the composition |
| `*Proofs` | | TLAPS proofs, see section 4 |
| `MC*` and `*.cfg` | | TLC instances; `MCAlgorithms` runs the sequential algorithms side by side |

### SlotPool

The variables are the members of the class (`slots`, `index`, `records`, `clockHand`, `inFlight`, `pinsTotal`,
`ticketsHeld`, `mutex`), one `call` per thread with its program counter and locals, and what exists outside the
pool: `leases`, `tickets`, `requests` the backend has accepted, and `bytes`, whose bytes each slot's storage
holds. A batch operation is one step per chunk with the mutex held, so a step reads like an iteration of the
loop in the code:

* `prefetch` (619-674): `Prefetch`, then per chunk one of `PrefetchResident`, `PrefetchJoin`,
  `PrefetchDeclined`, `PrefetchFill`, `PrefetchRefused`, then `PrefetchReturn`.
* `resolve` (723-787): `Resolve`, `ReleaseAll` once per old lease without the mutex held in between,
  `ResolveLock`, per chunk `PinIndexed`, `ResolveFill`, `ResolveRefused` or `ResolveExhausted`; then `Sleep`,
  `Acquire` and `Return`, or `ResolveFailed`, or `Unwind` pin by pin and `UnwindReturn`.
* `try_resolve` (789-817): `Resolve`, `ReleaseAll`, `TryResolveLock`, `PinIndexed` per chunk, `TryResolveReturn`.
* `wait` and `drain`: `Wait`, `Drain`, `Sleep`, `Acquire`, `Return`, `Timeout`, `SpuriousWake`.
* `on_complete` (520-566): one step, `Complete` for a first answer and `Redeliver` for a repeated one.

`claim_victim` is the slot at which the sweep ends, together with the reference bits it clears on the way;
`ClockSweep` runs the loop itself and shows that it ends there. The chunk index is the map it implements; `ChunkIndex` shows that the table is that map. `Init` is the constructed
pool. The fields of a free slot and of a recycled record that the code always overwrites before it reads them
are reset, which merges states that no code can tell apart.

### TransferSet

`submit` is two steps with the mutex held: the request goes to the backend (`Submit`), then the record is filled
in (`RecordClaim`). In between a worker may already want to answer, and only the mutex keeps it waiting.
`contents` says which source byte each destination byte shows; a byte that is being written shows none.

### LocalFileBackend and ReadRange

A step is a region under the mutex, one delivery or one system call. Workers sleep on one condition variable
that `submit` notifies once and `shutdown` notifies for all. `register_file` is the open without the lock
(`RegisterOpen`) and the entry into the table with it (`RegisterRecord`). Handles are numbers the system reuses,
so a handle closed too early may name another file. `ReadRange` follows one request through the loop of
positional reads, each of which may return anything from one byte to all it was asked for, nothing at the end
of the file, or an error.

The steps of `LocalFileBackend` come in two layers: what a step does to the ring, the workers and the closers
(`Enqueue`, `Dequeue`, `Handed`, `Finished`, `CancelFirst`, `DropFirst`, `ShutdownFirst`, `ShutdownAgain`), and the
same with the counters and the answers the backend alone keeps track of. `FilePool` uses the first layer.

### FilePool

`start_fill` calls `submit` with the pool's mutex held, so an accepted fill is one joint step of `SlotPool`'s
`ResolveFill` or `PrefetchFill` and `Enqueue`, and a refused one happens only when the ring is full or the backend is
shutting down. A worker's delivery, or the cancellation of a queued request by a shutdown call, is a joint step with
`Complete`. Here `on_complete` has an end: the backend thread stays `inside` until `Leave`, and nobody gets the pool's
mutex before that, because the code notifies before it unlocks. `Destroy` is the owner's, once the owner has everything
back and the destructor's test passes.

### The read shootout

`ReadDriver` is main's loop: `Open`, `Ask`, `Return`, `Sample` per miss, `Close`, `Verify`; a read that fails ends the
program. A row is `NumPieces` pieces and `contents` says which piece of the file each piece of a slot shows, none while a
reader is at it. A step of `ChunkPool` is a region under its mutex (453-467): `PoolRun` publishes a row, `WorkerLoop` and
`WorkerRead` take pieces, `WorkerRead` counts one and wakes the caller after the last, `PoolStop`, `PoolNotify`
and `PoolJoin` are the destructor, which notifies without the mutex. `IocpRead` issues piece by piece, any of which
may be refused, and drains one completion for each accepted one; a dequeue that fails counts too, as at 565. `IoRingRead`
submits all and waits for all. `MemPageRead` submits a claim per piece, waits for every one and drops them. Any
strategy may run in any round; main's rotation is one order among them.

`RowWindows` has the numbers the others leave out: which rows main may ask for, the window a row is widened to, the
pieces each strategy cuts it into, and the requests, entries and claims that `open` set aside. Each strategy has its
own chunk (`PoolChunk` 490, `IocpChunk` 532 with its clamp to 1 GiB, `MemPageChunk` 596, `IoRingChunk` 745) and its own
loop (503, 547, 623, 773). What the code converts to 32 bits is converted here (`Narrow`, `Signed`): the number of rows
(892), the claims and the queue set aside (597, 599, 609), the ring's entries (762, 763), the lengths handed to `ReadFile`
and to the ring (552, 774), the count of reads (772). Words of 64 bits are numbers: a file has less than 2^63 bytes, a
row that long does not fit the vector main allocates for it, and with a chunk so long that `chunk_ - 1` or `at += chunk_` could
wrap a row is one piece.

### Fault_ operators

An operator named `Fault_...` is a wrong version of the definition after it: a dropped guard, an off-by-one, a
missing reset. No action uses one. Substituted for the right definition, each makes some property fail;
`PROJECT.json` pairs every property of every run with one.

## 3. The runs

| Run | Instance | Checks |
| --- | --- | --- |
| `slotpool_resolve` | 2 threads, 3 chunks (one short), 2 slots, batches of 1 and of 3 with two or three different chunks; an answer repeated | `TypeOK`, `LeaseBytesValid`, `PinsExact`, `IndexConsistent`, `FailedIsWaitedFor`, `ExhaustionIsReal`, `DuplicatesRejected` |
| `slotpool_hints` | 2 threads, 2 slots, 2 ticket records, a chunk that lands and one that fails, a chunk named twice; prefetch, wait, discard | `TicketTracking`, `FillsMatchRequests`, `UnboundedWaitIsTerminal` |
| `slotpool_mixed` | 2 threads, 2 chunks, 2 slots; every query, wait, drain and both kinds of hint | `NoTerminate`, `SleepersHaveCause`, `SpeculativeDisplacesNothing` |
| `filepool` | 2 threads that resolve and drain, 2 slots, 1 worker, ring of 1, a shutdown and the pool's destructor, fair | `SameRequests`, `OutlivesItsFills`, `CallsReturn` |
| `transferset_claims` | 2 threads, 2 records, 3-bit words, ranges side by side and overlapping; an answer repeated | `WritersExclusive`, `ClaimBytesValid`, `RecordsExact`, `ImplementsLedger`, `DuplicatesRejected` |
| `transferset_live` | 2 threads, 2 records, fair | `CallsReturn` |
| `backend` | 2 workers, 3 requests, ring of 2, 2 administrators, 2 files, table of 1, a shutdown and the destructor, fair | `OneKeeper`, `StatsExact`, `ShutdownIsFinal`, `HandlesSafe`, `AnswersEverything`, `ShutdownReturns` |
| `backend_second_shutdown` | overlapping shutdowns | `ShutdownJoins` is violated, see section 6 |
| `chunkindex` | 4 slots, 8 places, every placement of 4 chunks | `ImplementsMap` |
| `algorithms` | batches of 2 ranges of 4-bit words over 7 bytes in chunks of 3; every pool of 3 slots; files and requests of up to 6 bytes, blocks of 2; every row of every file of up to 40 bytes, alignment 3, chunks of up to 36 bytes clamped to 18 for IOCP, counts and lengths in 5 bits | `BatchCheckExact`, `SegmentsTile`, `SweepExact`, `ReadsAreLegal`, `CountIsHonest`, `RowsCovered`, `Answered` |
| `sweep_wide` | 4 slots, turns counted in 3 bits | `ExhaustedMeansNoVictim` is violated, see section 6 |
| `shootout` | 2 rounds of 4 rows in 3 pieces, 2 slots, 3 readers, fair | `RowsStay`, `QuietBetweenReads`, `NeverRefused`, `EndsEveryRound` |

What the properties say, in the order of the parts:

* A lease the caller may read shows the whole chunk it asked for (`LeaseBytesValid`). Pins are exactly the leases
  (`PinsExact`), so `std::terminate` in release and discard is out of reach (`NoTerminate`). The index knows
  exactly the filling and ready slots (`IndexConsistent`), filling slots are exactly the unanswered requests
  (`FillsMatchRequests`), a failed slot is kept only for those who must see it fail (`FailedIsWaitedFor`).
  `resolve` runs out of slots only when every slot is pinned or being filled, and says `batch_too_large` exactly when
  every one of them is among the leases it has taken itself (`ExhaustionIsReal`). Ticket records are neither reused
  early nor lost (`TicketTracking`); an unbounded wait returns with everything settled; a speculative hint costs
  nobody a recently used chunk, nor, where its sweep passes over one, that chunk's second chance (`SpeculativeDisplacesNothing`); a repeated answer changes nothing (`DuplicatesRejected`); the destructor's test is exact
  (also `NoTerminate`); nobody sleeps whose wait is over (`SleepersHaveCause`).
* With the backend in place of the contract, pool and backend agree at every step on what is in flight
  (`SameRequests`), no backend thread is in or on its way into a pool that was destroyed (`OutlivesItsFills`), and
  every call returns although a shutdown may cancel what it waits for (`CallsReturn`).
* No destination byte has two writers, also after a claim was dropped (`WritersExclusive`), a claim that reports
  ok shows its source bytes (`ClaimBytesValid`), the record lists stay consistent and the
  destructor's test exact (`RecordsExact`), and the
  whole is a ledger from which a byte leaves only when nobody writes or holds it (`ImplementsLedger`).
* An accepted request is with exactly one of ring, worker and shutdown until it is answered (`OneKeeper`), it is
  answered once and in the end (`AnswersEverything`), and after the working shutdown nobody writes any more
  (`ShutdownIsFinal`). No handle leaks or is closed under a reader (`HandlesSafe`).
* Reads stay inside their buffers and aligned (`ReadsAreLegal`); the bytes counted are the source's bytes in place, and
  only the end of the file makes a buffered read short (`CountIsHonest`).
* The hash table behaves as the map the pool model uses; the batch check accepts exactly the right batches in spite
  of wrap-around, and a batch's lease segments are exactly the bytes asked for. The sweep's loop ends where the pool model says, with
  the same reference bits cleared (`SweepExact`).
* In the shootout every row main may ask for has a window inside the file and its slot. Its pieces tile the window and
  fit what `open` set aside: for IOCP, the pool and the inline arm at every row and chunk size, for IoRing and the shipped
  library as long as 32 bits hold what they convert (`FitsNarrow`, `RowsCovered`). In the code the bound is a piece of
  4 GiB for IoRing, or a ring of 2^31 entries, and 2^32 claims for `MemPageRead`, which `--chunk-kib 0` with a buffered
  row of nearly 4 GiB reaches. Beyond it both fail: TLC refutes `RowsCovered` for either arm when `FitsNarrow` is
  left out. A row that was returned is whole and stays so until its slot is asked for again
  (`RowsStay`); nobody writes into the slots between reads, after a failure either (`QuietBetweenReads`); the library
  never refuses a piece (`NeverRefused`); every round ends (`EndsEveryRound`).

**Why the bounds are enough to be interesting.** Two slots and three chunks force eviction while another thread
holds or waits for the other slot. In `slotpool_resolve` three different chunks never fit the two slots, so a batch
meets its third with its own pins, or those of the other thread, on both; a batch that names one of two chunks twice
pins both slots with three leases, and two such batches block each other.
The last chunk is shorter, so "whole" has two meanings. In `slotpool_mixed` a speculative sweep may pass over a
referenced slot to take the other, and two threads may sleep for different slots. Generations
modulo 2 or 3 make wrap-around frequent; a repeated answer is allowed as long as its generation has not come
round again, which takes 2^32 fills of the slot in the code. With two records swap-remove moves a record other than
the one removed, and a third caller finds none free. Three requests wrap a ring of two. In `filepool` the ring holds one request, so a second fill is
refused while the first is queued and accepted once the worker has it; a shutdown then finds one request queued and
one being read. Three pieces and three readers let one reader be late, one early and one absent; a slot is reused within
a round and by another strategy in the next. Alignment three and rows of up to thirty-three bytes give every phase of a row in
its window, with chunks of none to twelve units; the clamp at six units cuts what words of five bits could not hold, and
rows, claims, ring entries and lengths reach the end of these words. Four
colliding entries in eight places give every order of home positions around the wrap. Symmetry is used for
threads, full-length chunks, index entries and the like in safety runs only; nothing in the actions distinguishes
them. `CHECK_DEADLOCK FALSE` is set where the system may really stop: a backend that was destroyed, a request that was
answered, a pool that was destroyed, a table of inputs with no next state. The pool, the transfer set and the
shootout are checked for deadlock.

**Fairness.** A thread inside the mutex is scheduled again (weak fairness of its steps). A thread or worker that
asks for the mutex again and again gets it (strong fairness of the steps that lock): `std::mutex` promises less,
but a scheduler that starves one thread for ever is outside what the library can answer for. The backend answers
every accepted request: for `TransferSet` this is the contract of `transfer.hpp`, and
the run `backend` shows that `LocalFileBackend` keeps it when its workers keep running. `filepool` assumes nothing
of the kind: only the pool's callers, the workers and the shutdown call are scheduled fairly. `shootout` assumes
that main, each reader, the kernel and the backend go on (weak fairness each). Callers are never obliged to
begin a call, deadlines need not pass, and no progress relies on a spurious wakeup. `drain` is promised only
if new fills do not keep being accepted, which is what the code does.

## 4. What is proved

| Module | Theorems | Inductive invariant |
| --- | --- | --- |
| `SlotPoolProofs` | `TypeCorrect` | `TypeOK` |
| | `LeasesAreValid`, `PinsAreExact`, `IndexIsConsistent`, `FillsAreRequests`, `FailuresAreWaitedFor`, `RepeatedAnswersAreHarmless` | `LeaseInv` (`LeaseInvariant`) |
| `SlotPoolTicketProofs` | `TicketsAreTracked`, `NoLostWakeup`, `NothingTerminates`, `UnboundedWaitsAreTerminal` | `LeaseInv /\ TicketInv` (`TicketInvariant`) |
| | `ExhaustionsAreReal`, `SpeculationDisplacesNothing` | the same |
| `TransferSetProofs` | `WritersAreExclusive`, `ClaimsShowTheirBytes`, `RecordsAreExact`, `RepeatedAnswersAreIgnored`, `TransferSetRefinesLedger` | `SetInv` (`SetInvariant`) |
| `LocalFileBackendProofs` | `OneKeeperAlways`, `ShutdownsAreFinal`, `HandlesStaySafe`, `StatsAreExact`, `BackendKeepsContract` | `BackendInv` (`BackendInvariant`) |
| `ChunkIndexProofs` | `IndexIsMap` | `IndexInv` (`IndexInvariant`) |
| `AlgorithmProofs` | `ReadsStayLegal`, `CountsAreHonest` | `ReadInv` (`ReadInvariant`) |
| | `SweepsAreExact` | `SweepInv` |
| | `RowsAreCovered` | `WindowInv` |
| | `BatchCheckHolds`, `SegmentsAlwaysTile` | `CheckInv`, `TileInv` |
| `ReadShootoutProofs` | `RowsAreKept`, `ReadsAreQuiet`, `ReadsAreNotRefused` | `ShootoutInv` |
| `FilePoolProofs` | `RequestsAgree`, `PoolOutlivesItsFills`, `PromisesHoldWithFiles` | `LeaseInv /\ TicketInv /\ QueueInv` (`FilePoolInvariant`) |

Each theorem but `BackendKeepsContract` states a property of section 3 (`PromisesHoldWithFiles` several), for every value of the constants: any number of threads, chunks, slots, ticket
records, claims, workers, administrators and shutdown calls, any ring, any file, range, block and read limit, any
hash and table, any batch of ranges, any row, chunk and number of reader threads. `SweepsAreExact` has one hypothesis, that two revolutions of
the pool fit the word that counts turns; `sweep_wide` shows what happens without it (section 6). `RowsAreCovered` has the bound `FitsNarrow` inside its property, for
the two arms that need it and only for the pieces and capacities; windows fit without it. TLC checked each
inductive invariant on the component's run before it was proved.

**Assumptions.** Each is a named `ASSUME` of the module that declares the constants, and TLC evaluates it in every run.
For the pool: sizes are positive, `None` is no thread, chunk or number, batches are non-empty
sequences of at most `MaxBatch` chunks, no result is `pending`, the generation modulus is above 1. For the transfer set
likewise. For the backend: the ring, the table and a request's length are positive, there are
finitely many workers and at least one, the owner is one of the closers, and `None` is no work item and no source (the sentinel of an
empty place). For a read: the block is positive and the limit on one read, `ReadCap` (1 GiB on Windows, no cap elsewhere), is a
multiple of it. For a batch: the source, the slot and the limit on chunks are positive words, and a batch's length has some
bound. For the index: a table at least twice as large as the pool, as `create` makes it. For the arithmetic of rows: the alignment and the word are positive, and the clamp
of IOCP's chunk is a multiple of the one and less than the other. For the shootout: slots, rows, pieces and
rounds are positive, and `None` is no number and not the main thread. For the pool with its backend: the pool's own, and a ring with room for one request.

**SlotPool: leases.** `LeaseBytesValid` alone is not inductive. A lease is safe because its slot is pinned and a
pinned slot is never a victim, but "pinned" is a counter: it has to equal the number of leases (`PinsExact`).
`make_lease` on an indexed chunk is right only if the index points at that chunk's slot (`IndexConsistent`).
A ready slot's bytes are whole only if no request is writing there (`FillsMatchRequests`, `ReadyBytes`), and the
only way to become ready is the answer to the slot's current request. Failed slots stay pinned (`FailedPinned`),
and a repeated answer never carries the token of a fill under way (`LateIsOld`). These make `PoolInv`. Because
`resolve` pins before its fills land, its own leases are not ready yet: `CallInv(t)` says which leases a call
under way has made so far, that a thread inside the mutex is alone, and that every other lease of the thread is on
a ready slot. `LeaseInv == TypeOK /\ PoolInv /\ \A t : CallInv(t)` is inductive. Lemmas treat the pool half once
per kind of change (`UnpinPool`, `PinPool`, `RefusedPool`, `FillPool`, `CompletePool`, `RedeliverPool`) and the
call half once per action.

**SlotPool: tickets and sleepers.** `TicketInv` adds who holds a ticket record (one ticket, or the prefetch that
will return it, and `ticketsHeld` counts them: `HolderInv`), that a record has at most a batch of outcomes, and, per
thread, how far its prefetch has filled its record and what a sleeper sleeps for (`OpInv`). A step that ends no fill leaves every
sleeper's predicate false (`Harmless`); `on_complete`, the only one that ends a fill, wakes everybody. The three terminate tests
follow from `PinsExact`, `HolderInv` and `FillsMatchRequests`: the counters are zero exactly when the sets they count are empty.

**SlotPool: the sweep.** `SecondLook` shows that two revolutions look at every slot at least once in the second, when
reference bits no longer protect it; so a declared sweep that finds nothing has seen every slot pinned or
filling. `batch_too_large` compares a count of distinct slots with the pool, which `AllSlotsPinned` turns into set equality.

**TransferSet.** Ranges are apart because `submit` scans `live_`, so the scan must see every record in use: `ListInv` says that
free stack and live list split the records and that `live_at_` is the inverse of `live_`, which swap-remove has to keep. A
request is tied to a submitted record with its generation (`Matches`) or to the record the submit under way is about to fill
in (`Unrecorded`); the mutex is what lets only one such exist (`MutexInv`). `LateInv` is the counterpart of `LateIsOld`. The refinement maps a record
in use to a ledger entry; each action is then a step of `ClaimLedger` or leaves the ledger alone.

**LocalFileBackend.** `OneKeeper` needs to know which places of the ring are in use (`RingWindow`, distances behind the
head modulo the capacity), that no request is in two places (`HeldOnce`) and whether its holder has already told the sink
(`AnsweredByHolder`). `ShutdownPhase` says that one call drains, that only it holds queued items, and that it is not
back before the workers have exited; `HandleOwners` gives each open handle one owner, the table or a registration under
way, until the destructor closes them, which it may because shutdown is over. `Counters` adds up the ring, the busy workers and the items a shutdown still has to
cancel. `BackendKeepsContract` is `FillContract` without its fairness: `Init` and every step, with the pending requests
as the contract's.

**ReadRange.** `CountIsHonest` rests on the bytes so far being in place (`BytesCounted`) and on why a loop ended
(`EndReached`). `ReadsAreLegal` rests on the loop standing at a block boundary as long as it goes on (`AtBoundary`): a
short uncached read ends it, and sums of whole blocks are whole blocks (`BlocksAdd`). That a read of the scratch may ask for the
whole block is `CapFits`.

**FilePool.** A step of the composition is a step of `SlotPool`, a cancelled answer (which `SlotPool`'s own backend need not give,
so the lemmas on answers are stated for every answer), or leaves the pool alone: `LeaseInv` and `TicketInv` carry over (`PoolHalf`).
`SameRequests` says that the pool's set and the backend's places agree, and to take a request away on
both sides one must know that nobody else has it: `HeldOnce`. `QueueInv` is that, the agreement itself (`HeldExactly`), the shape
of the ring as a queue that an enqueue, a dequeue and a shutdown change at its end, at its front or altogether (`EnqueueQueue`, `DequeueQueue`,
on the places modulo the capacity), and `AfterDestroy`: the destructor's test found `in_flight_` zero, so by
`FillsMatchRequests` nothing is requested, so nobody holds anything and nobody can call the pool again.

**ChunkIndex.** A probe finds a chunk because no place from its home to its entry is empty (`Reachable`), and `erase` has
to restore that after it made a hole. Between two turns of its loop the invariant says that nothing from the hole to the place looked at is empty and that
only chunks not yet looked at may have a probe that crosses the hole (`ShiftBehind`); distances round the table (`Away`) turn
the code's comparison of wrapped positions into an order. That the probe of a chunk ends where the model says is an
induction over its length, done as a proof by the least counterexample (`LeastNumber`).

**ClockSweep.** `SweepInv` says that a sweep which has found nothing stands where `SlotAt` says, that no slot so far could be
taken, and that the bits cleared are those of the slots passed (`AgedSoFar`). `TurnsApart` shows that one revolution passes no
slot twice, so a bit that still protects a slot was not aged by this sweep.

**RowWindows.** The invariant is trivial: the options are those main accepts. The work is arithmetic on quotients: the
window starts and ends at multiples of the alignment and contains the row (`WindowOfRow`), its pieces tile it
(`CutTiles`, `RowsTiled`) and need the row and nothing more (`PiecesNeedTheRow`), and as a row's length bounds its window, what
open set aside is enough wherever the row begins (`CapacityHolds`). A conversion keeps a number the word holds (`NarrowIs`):
for IOCP that is the clamp, for the other two it is `FitsNarrow`, and `PiecesAre` says that then each strategy's pieces are
those of the common loop.

**ChunkRanges.** `validate_batch` and `for_each_chunk` are folds over the batch. A caller declares the batch range by range, so the
invariants speak of the batch so far: `CheckInv` says that the check counted every chunk, or met a range that does not fit or a chunk too many;
`TileInv` that the pieces so far show the bytes so far. Each step then adds one range, by `ValidatedAppend` and
`FlattenAppend`, which say what the folds make of one more element. What the library's folds compute at all (`FoldExists`,
`FoldsAgree`, `FlattenExists`, `FlattensAgree`) is an induction over the length, done by the least counterexample, as is the
one over the pieces of a range (`RangeIsShown`). Nothing about a range that fits wraps (`SpanIs`, which is why the code may
compute `offset + length - 1`), and one piece ends where the next begins (`CutIs`).

**ReadShootout.** `RowsStay` needs to know who may write: `WritesKeepRows` says that a write to a piece of the row being
read disturbs no row still served, as less than a ring of slots lies between them (`SlotsApart`). So every writer must be at work on the row being read,
or main must have exited. For the pool this is a count: pieces taken and not done are those of the threads reading
(`PoolCounts`), so the last one done leaves none; and a thread that wakes between rows finds nothing to take (`PoolNothingLeft`).
For the kernel's reads it is another: what was issued and not taken back is pending, up to what failed dequeues lost (`IocpCounts`,
`RingInv`). `MemPageRead` uses `TransferSet`, whose proofs are instantiated (`S`): `MemPageInv` adds to `SetInv` what the
claims are for, and that all of a row's claims are waited for before they are dropped. `Untouched` in
`TransferSetProofs` is the set a second `open` makes, over slots that already hold rows. While one strategy runs, the others
stand aside (`PoolAside`, `KernelAside`, `MemPageAside`).

**Only model-checked.** Liveness under fairness (`CallsReturn`, `AnswersEverything`, `ShutdownReturns`, `Answered`,
`EndsEveryRound`): the prover has no rules for fairness. Every
invariant and every safety action property the passing runs check is proved.

## 5. What is not modelled

* Statistics counters of the pool and the transfer set, and `bytes_read`, `queue_high_water` and
  `rejected_queue_full` of the backend: nothing reads them back.
* The summary `wait` makes of a ticket's outcomes (`WaitOutcome`), and moves of `Lease`, `Ticket` and `Claim`
  objects: a lease is identified by its owner and place in the output span.
* Calls that are refused before they change anything (invalid configuration, empty batch, no free ticket record).
* Of the shootout: `MappedRead`, whose rows lie in a mapping and not in a slot, `DramLoad`, options, file creation,
  cache eviction and every measurement. `IoRingRead` compares only the sum of all bytes with what the row needs; the
  model counts a piece as whole or not, so the padding behind an unbuffered row never makes up for a short piece.
* The fake backend of the tests (what it can be made to do is what the environment actions do), the benchmark, the other
  probes under `tools/` (`uncached_burst` issues and drains as `IocpRead` does, the rest are sequential
  measurements), scripts and build files. `on_evict` and `open_stream` are named by the umbrella header and not
  implemented.

## 6. Disagreements met

`backend_second_shutdown`. The header says that `shutdown()` lets running requests finish and "then joins every
worker thread" (`local_file_backend.hpp:45`) and calls it idempotent (`:171`). A second call returns at once when the
first has set the flag (`:519`), so it may return while a worker is still writing into a destination. The
comment at `:520` admits "or draining". The first call, and the destructor if no other call is under way, keep
the promise (`ShutdownIsFinal`).

`sweep_wide`. `claim_victim` computes the turns of a declared sweep as `2 * n` in `std::uint32_t`
(`slot_pool.hpp:452`), and `create` accepts any `num_slots` below 2^32 - 1 (`:326`). From 2^31 slots on the product
wraps: with exactly 2^31 the sweep makes no turn, and the first declared fill of an empty pool is answered
`pool_exhausted`, of which `transfer.hpp:32` says "Every slot is pinned or filling; no reclaimable victim (R7)." Below that size
`SweepExact` holds. The run has four slots and turns counted in three bits.

## 7. Plan

Model what is left: `WaitOutcome`, the accounting identities of the statistics, an abstract cache of leases that
`SlotPool` implements.
