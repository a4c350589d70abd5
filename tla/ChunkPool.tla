------------------------------ MODULE ChunkPool ------------------------------
(***************************************************************************)
(* PoolRead and its ChunkPool in read_shootout.cpp: parked threads share   *)
(* the pieces of a row, a generation tells a new row from one already      *)
(* seen, and the caller sleeps until the last piece is done.               *)
(*                                                                         *)
(* A step is a region under mutex_; a piece is read with it unlocked.      *)
(***************************************************************************)
EXTENDS ReadDriver

CONSTANT Readers     \* the worker threads

VARIABLES
  pool,              \* next_, done_, failed_, generation_, stop_
  worker,            \* each worker: where it is, seen, and its task
  caller             \* the thread inside run or the destructor

poolVars == <<pool, worker, caller>>

NewPool == [next |-> 0, done |-> 0, failed |-> FALSE, generation |-> 0, stop |-> FALSE]

\* "acquire": about to lock, then to test the predicate; "parked" on work_.
NewWorker == [pc |-> "acquire", seen |-> 0, task |-> None]
GoneWorker == [pc |-> "gone", seen |-> 0, task |-> None]

PoolInit == pool = NewPool /\ worker = [w \in Readers |-> GoneWorker] /\ caller = "out"

PoolOpen ==
  /\ Open("pool")
  /\ pool' = NewPool /\ worker' = [w \in Readers |-> NewWorker]
  /\ UNCHANGED <<caller, contents>>

Fault_WakeNobody(workers) == workers

\* work_.notify_all
Woken(workers) ==
  [w \in Readers |-> IF workers[w].pc = "parked" THEN [workers[w] EXCEPT !.pc = "acquire"]
                                                 ELSE workers[w]]

\* run, up to its wait.
PoolRun ==
  /\ Ask("pool")
  /\ pool' = [pool EXCEPT !.next = 0, !.done = 0, !.failed = FALSE, !.generation = @ + 1]
  /\ worker' = Woken(worker)
  /\ caller' = "asleep"
  /\ UNCHANGED contents

\* With the mutex: worker w takes the next piece, or tests work_'s predicate again.
TakeNext(w, p, seen, bytes) ==
  LET task == [miss |-> miss, part |-> p.next + 1]
  IN  \/ /\ p.next < NumPieces
         /\ pool' = [p EXCEPT !.next = @ + 1]
         /\ worker' = [worker EXCEPT ![w] = [pc |-> "reading", seen |-> seen, task |-> task]]
         /\ contents' = Torn(task, bytes)
      \/ /\ p.next = NumPieces
         /\ pool' = p
         /\ worker' = [worker EXCEPT ![w] =
              [pc |-> IF p.stop \/ p.generation # seen THEN "acquire" ELSE "parked",
               seen |-> seen, task |-> None]]
         /\ contents' = bytes

WorkerLoop(w) ==
  /\ worker[w].pc = "acquire"
  /\ \/ /\ pool.stop
        /\ worker' = [worker EXCEPT ![w] = GoneWorker]
        /\ UNCHANGED <<pool, contents>>
     \/ /\ ~pool.stop /\ pool.generation = worker[w].seen
        /\ worker' = [worker EXCEPT ![w].pc = "parked"]
        /\ UNCHANGED <<pool, contents>>
     \/ /\ ~pool.stop /\ pool.generation # worker[w].seen
        /\ TakeNext(w, pool, pool.generation, contents)
  /\ UNCHANGED <<driverVars, caller>>

\* done_ is counted once the bytes are there.
Counted(p, enough) == [p EXCEPT !.failed = @ \/ ~enough, !.done = @ + 1]

\* read_at returned: count the piece, wake the caller after the last one, go on.
WorkerRead(w, enough) ==
  LET p == Counted(pool, enough)
  IN  /\ worker[w].pc = "reading"
      /\ TakeNext(w, p, worker[w].seen, Landed(worker[w].task, enough, contents))
      /\ caller' = IF p.done = NumPieces /\ caller = "asleep" THEN "acquire" ELSE caller
      /\ UNCHANGED driverVars

\* run, from its wait on.
PoolReturn ==
  /\ caller = "acquire"
  /\ IF pool.done = NumPieces
     THEN Return(~pool.failed) /\ caller' = "out"
     ELSE caller' = "asleep" /\ UNCHANGED driverVars
  /\ UNCHANGED <<pool, worker, contents>>

SpuriousWake ==
  /\ \/ /\ \E w \in Readers : /\ worker[w].pc = "parked"
                              /\ worker' = [worker EXCEPT ![w].pc = "acquire"]
        /\ UNCHANGED caller
     \/ caller = "asleep" /\ caller' = "acquire" /\ UNCHANGED worker
  /\ UNCHANGED <<driverVars, pool, contents>>

\* The destructor: stop_ under the mutex, notify without it, join.
PoolStop ==
  /\ Close("pool")
  /\ pool' = [pool EXCEPT !.stop = TRUE]
  /\ caller' = "notify"
  /\ UNCHANGED <<worker, contents>>

PoolNotify ==
  /\ caller = "notify" /\ caller' = "join"
  /\ worker' = Woken(worker)
  /\ UNCHANGED <<driverVars, pool, contents>>

PoolJoin ==
  /\ caller = "join" /\ caller' = "out"
  /\ \A w \in Readers : worker[w].pc = "gone"
  /\ Closed
  /\ UNCHANGED <<pool, worker, contents>>

PoolCaller == PoolOpen \/ PoolRun \/ PoolReturn \/ PoolStop \/ PoolNotify \/ PoolJoin
Worker(w) == WorkerLoop(w) \/ \E enough \in BOOLEAN : WorkerRead(w, enough)

\* The pieces being read.
PoolReads == {worker[w].task : w \in {v \in Readers : worker[v].pc = "reading"}}

=============================================================================
