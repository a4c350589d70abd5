-------------------------- MODULE LocalFileBackend --------------------------
(***************************************************************************)
(* The worker pool of local_file_backend.hpp: issuers that submit fills    *)
(* into a bounded ring, workers that take and perform them, administrators *)
(* that register files, and shutdown calls, the destructor's among them.   *)
(*                                                                         *)
(* A step is a region under mutex_, one delivery, or one system call.      *)
(* What a read puts where is ReadRange's subject; here a read ends in one  *)
(* of FillResults.                                                         *)
(*                                                                         *)
(* An operation that counts or answers is its queue and thread step        *)
(* (Enqueue, Dequeue, Handed, Finished, CancelFirst, DropFirst) together   *)
(* with the counters and the sink; FilePool.tla joins the same steps to a  *)
(* slot pool.                                                              *)
(***************************************************************************)
EXTENDS Transfer, Sequences, FiniteSets, FiniteSetsExt

CONSTANTS
  Workers,        \* config.workers threads
  Requests,       \* the requests issuers may submit, each at most once
  Capacity,       \* config.queue_capacity
  MaxSources,     \* config.max_sources
  SourceOf,       \* the source each request names
  Misaligned,     \* requests uncached_request_valid refuses
  Length,         \* the bytes every request asks for
  FillResults,    \* how a read may end: status and bytes
  Admins,         \* threads that register files
  Files,          \* the (source, access) pairs they register
  Handles,        \* the file handles the system hands out
  Closers,        \* threads that call shutdown
  Owner,          \* the closer that runs the destructor
  None            \* kInvalidFileHandle, no item

Sources == {f.source : f \in Files} \union {SourceOf[q] : q \in Requests}

\* WorkItem: the request and what submit found in the table.
Item == [request : Requests, handle : Handles \union {None},
         access : {"buffered", "uncached"}, known : BOOLEAN]

ASSUME BackendAssumption ==
  /\ Capacity \in Nat \ {0} /\ MaxSources \in Nat \ {0} /\ Length \in Nat \ {0}
  /\ IsFiniteSet(Workers) /\ Workers # {}
  /\ Misaligned \subseteq Requests /\ Owner \in Closers
  /\ None \notin Handles /\ None \notin Requests /\ None \notin Item /\ None \notin Sources
  /\ \A f \in Files : f.access \in {"buffered", "uncached"}
  /\ \A res \in FillResults : res.status \in {"ok", "io_error"} /\ res.bytes \in 0 .. Length

VARIABLES
  ring,           \* ring_: an item in every place of the window, None elsewhere
  head,           \* head_
  ringSize,       \* ring_size_
  shuttingDown,   \* shutting_down_
  sources,        \* sources_
  stats,          \* the counters of stats_
  worker,         \* each worker's program counter and item
  admin,          \* each administrator's register_file call
  closer,         \* each closer's shutdown call and its queued_ items
  files,          \* which file each open handle reads, None if closed
  answers         \* how many answers the sink of each request was given

ringVars == <<ring, head, ringSize>>
vars == <<ringVars, shuttingDown, sources, stats, worker, admin, closer, files, answers>>

\* SourceEntry: a registered file.
SourceEntry == [source : Sources, handle : Handles, access : {"buffered", "uncached"}]

\* "ready": about to lock and look; "asleep": on cv_; "perform": reading, nothing
\* delivered; "count": delivered, the counters not yet updated.
Idle == [pc |-> "ready", item |-> None, category |-> "none"]
NoCall == [pc |-> "idle", queued |-> <<>>, drained |-> FALSE]
NoRegistration == [pc |-> "idle", file |-> None, handle |-> None]

Init ==
  /\ ring = [i \in 0 .. Capacity - 1 |-> None] /\ head = 0 /\ ringSize = 0
  /\ shuttingDown = FALSE
  /\ sources = <<>>
  /\ stats = [accepted |-> 0, completed_ok |-> 0, short_reads |-> 0, errors |-> 0,
              cancelled |-> 0, in_flight |-> 0]
  /\ worker = [w \in Workers |-> Idle]
  /\ admin = [a \in Admins |-> NoRegistration]
  /\ closer = [c \in Closers |-> NoCall]
  /\ files = [h \in Handles |-> None]
  /\ answers = [q \in Requests |-> 0]

\* The destructor has not begun: until then the object may be used.
Alive == closer[Owner].pc = "idle"

-----------------------------------------------------------------------------
(***************************************************************************)
(* register_file: open first, then look the source up under the mutex.     *)
(***************************************************************************)
RegisterOpen(a, f, h) ==
  /\ Alive /\ admin[a].pc = "idle"
  /\ files[h] = None
  /\ files' = [files EXCEPT ![h] = f.source]
  /\ admin' = [admin EXCEPT ![a] = [pc |-> "opened", file |-> f, handle |-> h]]
  /\ UNCHANGED <<ringVars, shuttingDown, sources, stats, worker, closer, answers>>

Registered(source) == \E i \in DOMAIN sources : sources[i].source = source

Fault_KeepOpen(h) == files
close_handle(h) == [files EXCEPT ![h] = None]

\* A duplicate or a full table closes the handle again.
RegisterRecord(a) ==
  /\ admin[a].pc = "opened"
  /\ LET f == admin[a].file
         h == admin[a].handle
     IN  IF Registered(f.source) \/ Len(sources) = MaxSources
         THEN files' = close_handle(h) /\ UNCHANGED sources
         ELSE /\ sources' = Append(sources, [source |-> f.source, handle |-> h,
                                             access |-> f.access])
              /\ UNCHANGED files
  /\ admin' = [admin EXCEPT ![a] = NoRegistration]
  /\ UNCHANGED <<ringVars, shuttingDown, stats, worker, closer, answers>>

-----------------------------------------------------------------------------
(***************************************************************************)
(* submit: refused when shutting down or full, otherwise queued, the       *)
(* source known or not, and one sleeping worker woken.                     *)
(***************************************************************************)
WorkItemOf(q) ==
  LET found == {i \in DOMAIN sources : sources[i].source = SourceOf[q]}
  IN  IF found = {}
      THEN [request |-> q, handle |-> None, access |-> "buffered", known |-> FALSE]
      ELSE LET entry == sources[Min(found)]
           IN  [request |-> q, handle |-> entry.handle, access |-> entry.access,
                known |-> TRUE]

Full == ringSize = Capacity

TailPosition == (head + ringSize) % Capacity

Fault_NotifyNobody == UNCHANGED worker

notify_one ==
  LET asleep == {w \in Workers : worker[w].pc = "asleep"}
  IN  IF asleep = {} THEN UNCHANGED worker
      ELSE \E w \in asleep : worker' = [worker EXCEPT ![w].pc = "ready"]

notify_all == worker' = [w \in Workers |-> IF worker[w].pc = "asleep"
                                            THEN [worker[w] EXCEPT !.pc = "ready"]
                                            ELSE worker[w]]

\* Issuers submit a request once: every fill carries a token of its own.
Submitted(q) == \/ answers[q] # 0
                \/ \E i \in DOMAIN ring : ring[i] # None /\ ring[i].request = q
                \/ \E w \in Workers : worker[w].item # None /\ worker[w].item.request = q
                \/ \E c \in Closers : \E i \in DOMAIN closer[c].queued :
                     closer[c].queued[i].request = q

Enqueue(q) ==
  /\ ~shuttingDown /\ ~Full
  /\ ring' = [ring EXCEPT ![TailPosition] = WorkItemOf(q)]
  /\ ringSize' = ringSize + 1
  /\ notify_one
  /\ UNCHANGED <<head, shuttingDown, sources, admin, closer, files>>

submit(q) ==
  /\ Alive /\ ~Submitted(q)
  /\ Enqueue(q)
  /\ stats' = [stats EXCEPT !.accepted = @ + 1]
  /\ UNCHANGED answers

-----------------------------------------------------------------------------
(***************************************************************************)
(* worker_loop and perform.                                                *)
(***************************************************************************)
WorkerSleep(w) ==
  /\ worker[w].pc = "ready"
  /\ ringSize = 0 /\ ~shuttingDown
  /\ worker' = [worker EXCEPT ![w].pc = "asleep"]
  /\ UNCHANGED <<ringVars, shuttingDown, sources, stats, admin, closer, files, answers>>

SpuriousWake(w) ==
  /\ worker[w].pc = "asleep"
  /\ worker' = [worker EXCEPT ![w].pc = "ready"]
  /\ UNCHANGED <<ringVars, shuttingDown, sources, stats, admin, closer, files, answers>>

WorkerExit(w) ==
  /\ worker[w].pc = "ready"
  /\ ringSize = 0 /\ shuttingDown
  /\ worker' = [worker EXCEPT ![w].pc = "exited"]
  /\ UNCHANGED <<ringVars, shuttingDown, sources, stats, admin, closer, files, answers>>

Dequeue(w) ==
  /\ worker[w].pc = "ready" /\ ringSize # 0
  /\ worker' = [worker EXCEPT ![w] =
       [pc |-> "perform", item |-> ring[head], category |-> "none"]]
  /\ ring' = [ring EXCEPT ![head] = None]
  /\ head' = (head + 1) % Capacity
  /\ ringSize' = ringSize - 1
  /\ UNCHANGED <<shuttingDown, sources, admin, closer, files>>

Take(w) ==
  /\ Dequeue(w)
  /\ stats' = [stats EXCEPT !.in_flight = @ + 1]
  /\ UNCHANGED answers

\* An unknown source or a misaligned uncached request never reaches the file.
Readable(item) == item.known /\ ~(item.access = "uncached" /\ item.request \in Misaligned)

\* The counter perform will bump for this result.
Category(result) == IF result.status # "ok" THEN "errors"
                    ELSE IF result.bytes = Length THEN "completed_ok" ELSE "short_reads"

Outcomes(item) == IF Readable(item) THEN FillResults
                  ELSE {[status |-> "invalid_argument", bytes |-> 0]}

Delivered(q) == answers' = [answers EXCEPT ![q] = @ + 1]

Handed(w, result) ==
  /\ worker[w].pc = "perform"
  /\ result \in Outcomes(worker[w].item)
  /\ worker' = [worker EXCEPT ![w] =
       [worker[w] EXCEPT !.pc = "count", !.category = Category(result)]]
  /\ UNCHANGED <<ringVars, shuttingDown, sources, admin, closer, files>>

Deliver(w) ==
  /\ worker[w].pc = "perform"
  /\ \E result \in Outcomes(worker[w].item) : Handed(w, result)
  /\ Delivered(worker[w].item.request)
  /\ UNCHANGED stats

Fault_GaugeStuck(category) == [stats EXCEPT ![category] = @ + 1]

Counted(category) == [stats EXCEPT ![category] = @ + 1, !.in_flight = @ - 1]

Finished(w) ==
  /\ worker[w].pc = "count"
  /\ worker' = [worker EXCEPT ![w] = Idle]
  /\ UNCHANGED <<ringVars, shuttingDown, sources, admin, closer, files>>

Count(w) ==
  /\ Finished(w)
  /\ stats' = Counted(worker[w].category)
  /\ UNCHANGED answers

-----------------------------------------------------------------------------
(***************************************************************************)
(* shutdown: take what is queued, cancel it outside the lock, join.        *)
(***************************************************************************)
Queue == [i \in 1 .. ringSize |-> ring[(head + i - 1) % Capacity]]

Fault_LeaveQueued == UNCHANGED ringVars

EmptyRing == /\ ring' = [i \in DOMAIN ring |-> None]
             /\ head' = (head + ringSize) % Capacity
             /\ ringSize' = 0

ShutdownFirst(c) ==
  /\ closer[c].pc = "idle"
  /\ ~shuttingDown
  /\ shuttingDown' = TRUE
  /\ closer' = [closer EXCEPT ![c] = [pc |-> "cancel", queued |-> Queue, drained |-> TRUE]]
  /\ EmptyRing
  /\ notify_all
  /\ UNCHANGED <<sources, stats, admin, files, answers>>

\* A second call returns at once, whatever the first one is still doing.
ShutdownAgain(c) ==
  /\ closer[c].pc = "idle"
  /\ shuttingDown
  /\ closer' = [closer EXCEPT ![c].pc = "returned"]
  /\ UNCHANGED <<ringVars, shuttingDown, sources, stats, worker, admin, files, answers>>

\* The destructor runs when no other call is under way, the others before it.
MayShutdown(c) ==
  IF c = Owner
  THEN /\ \A other \in Closers \ {c} : closer[other].pc \in {"idle", "returned"}
       /\ \A a \in Admins : admin[a].pc = "idle"
  ELSE Alive

shutdown(c) == MayShutdown(c) /\ (ShutdownFirst(c) \/ ShutdownAgain(c))

CancelFirst(c) ==
  /\ closer[c].pc = "cancel" /\ closer[c].queued # <<>>
  /\ closer' = [closer EXCEPT ![c].pc = "count"]
  /\ UNCHANGED <<ringVars, shuttingDown, sources, worker, admin, files>>

Cancel(c) ==
  /\ CancelFirst(c)
  /\ Delivered(Head(closer[c].queued).request)
  /\ UNCHANGED stats

DropFirst(c) ==
  /\ closer[c].pc = "count"
  /\ closer' = [closer EXCEPT ![c] =
       [closer[c] EXCEPT !.pc = "cancel", !.queued = Tail(closer[c].queued)]]
  /\ UNCHANGED <<ringVars, shuttingDown, sources, worker, admin, files>>

CountCancelled(c) ==
  /\ DropFirst(c)
  /\ stats' = [stats EXCEPT !.cancelled = @ + 1]
  /\ UNCHANGED answers

Fault_JoinNobody == TRUE
AllExited == \A w \in Workers : worker[w].pc = "exited"

Join(c) ==
  /\ closer[c].pc = "cancel" /\ closer[c].queued = <<>>
  /\ AllExited
  /\ closer' = [closer EXCEPT ![c].pc = "returned"]
  /\ UNCHANGED <<ringVars, shuttingDown, sources, stats, worker, admin, files, answers>>

\* The rest of the destructor: every registered handle is closed.
CloseHandles ==
  /\ closer[Owner].pc = "returned"
  /\ closer' = [closer EXCEPT ![Owner].pc = "destroyed"]
  /\ files' = [h \in Handles |-> IF \E i \in DOMAIN sources : sources[i].handle = h
                                 THEN None ELSE files[h]]
  /\ UNCHANGED <<ringVars, shuttingDown, sources, stats, worker, admin, answers>>

-----------------------------------------------------------------------------
WorkerStep(w) == WorkerSleep(w) \/ WorkerExit(w) \/ Take(w) \/ Deliver(w) \/ Count(w)
CloserStep(c) == Cancel(c) \/ CountCancelled(c) \/ Join(c)

Next ==
  \/ \E q \in Requests : submit(q)
  \/ \E w \in Workers : WorkerStep(w) \/ SpuriousWake(w)
  \/ \E a \in Admins : RegisterRecord(a) \/ \E f \in Files, h \in Handles : RegisterOpen(a, f, h)
  \/ \E c \in Closers : shutdown(c) \/ CloserStep(c)
  \/ CloseHandles

Spec == Init /\ [][Next]_vars

(***************************************************************************)
(* Fairness: a worker thread and a shutdown call keep running, and a read  *)
(* ends.  No thread keeps the mutex between steps, so weak fairness is     *)
(* enough.  Nobody has to submit, register or shut down.                   *)
(***************************************************************************)
Fairness == /\ \A w \in Workers : WF_vars(WorkerStep(w))
            /\ \A c \in Closers : WF_vars(CloserStep(c))

FairSpec == Spec /\ Fairness

-----------------------------------------------------------------------------
(***************************************************************************)
(* Properties.                                                             *)
(***************************************************************************)

\* The shape of the state.
TypeOK ==
  /\ ring \in [0 .. Capacity - 1 -> Item \union {None}]
  /\ head \in 0 .. Capacity - 1 /\ ringSize \in 0 .. Capacity
  /\ shuttingDown \in BOOLEAN
  /\ sources \in Seq(SourceEntry) /\ Len(sources) <= MaxSources
  /\ \A field \in DOMAIN stats : stats[field] \in Nat
  /\ \A w \in Workers : /\ worker[w].pc \in {"ready", "asleep", "perform", "count", "exited"}
                        /\ worker[w].item \in Item \union {None}
  /\ \A a \in Admins : /\ admin[a].pc \in {"idle", "opened"}
                       /\ admin[a].file \in Files \union {None}
                       /\ admin[a].handle \in Handles \union {None}
  /\ \A c \in Closers : /\ closer[c].pc \in {"idle", "cancel", "count", "returned", "destroyed"}
                        /\ closer[c].queued \in Seq(Item)
  /\ files \in [Handles -> Sources \union {None}]
  /\ answers \in [Requests -> Nat]

\* Who is to answer q: its place in the ring, a worker reading, a shutdown cancelling.
Keepers(q) ==
  {<<"ring", i>> : i \in {j \in 1 .. ringSize : Queue[j].request = q}}
  \union {<<"worker", w>> : w \in {v \in Workers : /\ worker[v].pc = "perform"
                                                   /\ worker[v].item.request = q}}
  \union {<<"closer", c>> : c \in {d \in Closers :
            \E i \in DOMAIN closer[d].queued : /\ closer[d].queued[i].request = q
                                               /\ closer[d].pc = "count" => i # 1}}

\* An accepted request is with exactly one keeper until it is answered, and with
\* nobody afterwards: it is neither dropped nor answered twice nor still being
\* written after its answer, whoever gets to it first, a worker or shutdown.
OneKeeper ==
  \A q \in Requests : /\ Cardinality(Keepers(q)) + answers[q] <= 1
                      /\ Submitted(q) => Cardinality(Keepers(q)) + answers[q] = 1

\* A worker reads the file its request named: no handle is closed, or closed and
\* handed out again for another file, while an item still refers to it.  Every open
\* handle has somebody to close it, and a source is registered once.
HandlesSafe ==
  /\ \A w \in Workers : worker[w].pc = "perform" /\ worker[w].item.known =>
       files[worker[w].item.handle] = SourceOf[worker[w].item.request]
  /\ \A h \in Handles : files[h] # None =>
       \/ \E i \in DOMAIN sources : sources[i].handle = h /\ closer[Owner].pc # "destroyed"
       \/ \E a \in Admins : admin[a].handle = h
  /\ \A i, j \in DOMAIN sources : sources[i].source = sources[j].source => i = j

\* The state has its shape and the counters add up: what was accepted is queued, in
\* flight, being cancelled or counted once, and in_flight is the workers with an item.
StatsExact ==
  /\ TypeOK
  /\ stats.in_flight = Cardinality({w \in Workers : worker[w].pc \in {"perform", "count"}})
  /\ stats.accepted = ringSize + stats.in_flight + stats.completed_ok + stats.short_reads
                      + stats.errors + stats.cancelled
                      + Cardinality(UNION {{c} \X DOMAIN closer[c].queued : c \in Closers})

\* When the shutdown call that did the work has returned, every accepted request
\* is answered and no worker is left to write into anybody's destination.
ShutdownIsFinal ==
  \A c \in Closers : closer[c].drained /\ closer[c].pc \in {"returned", "destroyed"} =>
    /\ AllExited
    /\ \A q \in Requests : Submitted(q) => answers[q] = 1

\* The same of every shutdown call that has returned.
ShutdownJoins ==
  \A c \in Closers : closer[c].pc = "returned" => \A w \in Workers : worker[w].pc # "perform"

\* A shutdown call that has begun returns.
ShutdownReturns ==
  \A c \in Closers : closer[c].pc # "idle" ~> closer[c].pc \in {"returned", "destroyed"}

Contract == INSTANCE FillContract WITH
  pending <- {q \in Requests : Keepers(q) # {}}

\* The worker pool keeps the backend contract of transfer.hpp: each accepted request
\* is answered exactly once, and it is answered: submit's single notification is enough.
AnswersEverything == Contract!Spec

=============================================================================
