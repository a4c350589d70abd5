--------------------------- MODULE FilePoolProofs ---------------------------
(***************************************************************************)
(* The pool and the backend together: they agree on what is in flight, and *)
(* a pool that was destroyed is left alone.  What the pool promises its    *)
(* callers when any backend fills it, it promises with this one.           *)
(***************************************************************************)
EXTENDS FilePool, SlotPoolTicketProofs, SequenceTheorems

-----------------------------------------------------------------------------
(***************************************************************************)
(* The inductive invariant, on top of LeaseInv and TicketInv.              *)
(***************************************************************************)
WorkerRecord == [pc : {"ready", "asleep", "perform", "count", "exited"},
                 item : B!Item \union {None},
                 category : {"none", "errors", "completed_ok", "short_reads"}]
CloserRecord == [pc : {"idle", "cancel", "count", "returned", "destroyed"},
                 queued : Seq(B!Item), drained : BOOLEAN]

\* The queue is a window of the ring; only an item is queued or read.
QueueShape ==
  /\ ring \in [0 .. Capacity - 1 -> B!Item \union {None}]
  /\ head \in 0 .. Capacity - 1 /\ ringSize \in 0 .. Capacity
  /\ \A j \in 1 .. ringSize : B!Queue[j] \in B!Item
  /\ worker \in [Workers -> WorkerRecord]
  /\ \A w \in Workers : worker[w].pc = "perform" => worker[w].item \in B!Item
  /\ closer \in [Closers -> CloserRecord]
  /\ \A c \in Closers : /\ closer[c].pc = "idle" => closer[c].queued = <<>>
                        /\ closer[c].pc = "count" => closer[c].queued # <<>>

\* Who still has to answer q: a place of the queue, a worker, an item of a shutdown.
QueueHas(j, q) == j \in 1 .. ringSize /\ B!Queue[j].request = q
WorkerHas(w, q) == w \in Workers /\ worker[w].pc = "perform" /\ worker[w].item.request = q
CloserHas(c, i, q) == /\ c \in Closers /\ i \in DOMAIN closer[c].queued
                      /\ closer[c].pc = "count" => i # 1
                      /\ closer[c].queued[i].request = q

Held(q) == \/ \E j \in Nat : QueueHas(j, q)
           \/ \E w \in Workers : WorkerHas(w, q)
           \/ \E c \in Closers, i \in Nat : CloserHas(c, i, q)

\* Nobody else has what one of them has.
HeldOnce ==
  \A q \in Request :
    /\ \A j, k \in Nat : QueueHas(j, q) /\ QueueHas(k, q) => j = k
    /\ \A w, v \in Workers : WorkerHas(w, q) /\ WorkerHas(v, q) => w = v
    /\ \A c, d \in Closers, i, k \in Nat :
         CloserHas(c, i, q) /\ CloserHas(d, k, q) => c = d /\ i = k
    /\ \A j \in Nat, w \in Workers : ~(QueueHas(j, q) /\ WorkerHas(w, q))
    /\ \A j \in Nat, c \in Closers, i \in Nat : ~(QueueHas(j, q) /\ CloserHas(c, i, q))
    /\ \A w \in Workers, c \in Closers, i \in Nat : ~(WorkerHas(w, q) /\ CloserHas(c, i, q))

\* What is held is what the pool waits for.
HeldExactly == \A q \in Request : q \in requests <=> Held(q)

\* A destroyed pool has nothing to wait for.
AfterDestroy == destroyed => requests = {} /\ inside = {}

QueueInv == QueueShape /\ HeldOnce /\ HeldExactly /\ AfterDestroy

-----------------------------------------------------------------------------
(***************************************************************************)
(* The ring is a queue.                                                    *)
(***************************************************************************)

\* Where the j-th item lies.
Place(h, j) == (h + j - 1) % Capacity

\* Places wrap once at most, and those of a window that is not full are apart.
LEMMA PlaceIs ==
  ASSUME NEW h \in 0 .. Capacity - 1, NEW j \in 1 .. Capacity + 1
  PROVE  /\ h + j - 1 < Capacity => Place(h, j) = h + j - 1
         /\ h + j - 1 >= Capacity /\ h + j - 1 < Capacity + Capacity =>
              Place(h, j) = h + j - 1 - Capacity
<1>1. Capacity \in Nat \ {0} /\ h \in Int /\ j \in Int /\ 0 <= h /\ 1 <= j
  BY QueueAssumption
<1>2. PICK x \in Int : x = h + j - 1
  BY <1>1
<1>3. ASSUME x < Capacity PROVE x % Capacity = x
  <2>1. x \in 0 .. Capacity - 1 /\ x = 0 * Capacity + x
    BY <1>1, <1>2, <1>3
  <2> QED
    BY <1>1, <2>1, WholeTurns
<1>4. ASSUME x >= Capacity, x < Capacity + Capacity PROVE x % Capacity = x - Capacity
  <2>1. PICK y \in Int : y = x - Capacity
    BY <1>1
  <2>2. y \in 0 .. Capacity - 1 /\ x = 1 * Capacity + y
    BY <1>1, <1>4, <2>1
  <2> QED
    BY <1>1, <2>1, <2>2, WholeTurns
<1>5. Place(h, j) = x % Capacity
  BY <1>2 DEF Place
<1>6. PICK p : p = Place(h, j)
  OBVIOUS
<1>7. /\ x < Capacity => p = x
      /\ x >= Capacity /\ x < Capacity + Capacity => p = x - Capacity
  BY <1>3, <1>4, <1>5, <1>6
<1> QED
  BY <1>1, <1>2, <1>6, <1>7

LEMMA PlacesApart ==
  ASSUME NEW h \in 0 .. Capacity - 1, NEW j \in 1 .. Capacity, NEW k \in 1 .. Capacity, j # k
  PROVE  Place(h, j) # Place(h, k)
<1>1. Capacity \in Nat \ {0} /\ h \in Int /\ j \in Int /\ k \in Int
  BY QueueAssumption
<1>2. PICK x \in Int, y \in Int : x = h + j - 1 /\ y = h + k - 1
  BY <1>1
<1>3. x # y /\ x - y < Capacity /\ y - x < Capacity
  BY <1>1, <1>2
<1>4. PICK p, r : p = Place(h, j) /\ r = Place(h, k)
  OBVIOUS
<1>5. /\ x < Capacity => p = x
      /\ x >= Capacity => p = x - Capacity
      /\ y < Capacity => r = y
      /\ y >= Capacity => r = y - Capacity
  BY <1>1, <1>2, <1>4, PlaceIs
<1>6. p # r
  BY <1>1, <1>3, <1>5
<1> QED
  BY <1>4, <1>6

\* The next item's place is the place after the head.
LEMMA PlaceAfter ==
  ASSUME NEW h \in 0 .. Capacity - 1, NEW j \in 1 .. Capacity
  PROVE  /\ (h + 1) % Capacity \in 0 .. Capacity - 1
         /\ j < Capacity => Place((h + 1) % Capacity, j) = Place(h, j + 1)
         /\ Place(h, j) \in 0 .. Capacity - 1
         /\ Place(h, 1) = h
<1>1. Capacity \in Nat \ {0} /\ h \in Int /\ j \in Int
  BY QueueAssumption
<1>2. PICK g \in Int : g = (h + 1) % Capacity
  BY <1>1
<1>3. Place(h, 2) = g
  BY <1>1, <1>2 DEF Place
<1>4. (h + 1 < Capacity => g = h + 1) /\ (h + 1 >= Capacity => g = 0)
  BY <1>1, <1>3, PlaceIs
<1>5. g \in 0 .. Capacity - 1
  BY <1>1, <1>4
<1>6. ASSUME j < Capacity PROVE Place(g, j) = Place(h, j + 1)
  <2>1. PICK p, r : p = Place(g, j) /\ r = Place(h, j + 1)
    OBVIOUS
  <2>2. /\ g + j - 1 < Capacity => p = g + j - 1
        /\ g + j - 1 >= Capacity => p = g + j - 1 - Capacity
    BY <1>1, <1>5, <2>1, PlaceIs
  <2>3. j + 1 \in 1 .. Capacity
    BY <1>1, <1>6
  <2>4. /\ h + (j + 1) - 1 < Capacity => r = h + (j + 1) - 1
        /\ h + (j + 1) - 1 >= Capacity => r = h + (j + 1) - 1 - Capacity
    BY <1>1, <2>1, <2>3, PlaceIs
  <2>5. p = r
    BY <1>1, <1>4, <1>6, <2>2, <2>4
  <2> QED
    BY <2>1, <2>5
<1>7. Place(h, j) \in 0 .. Capacity - 1
  <2>1. PICK p : p = Place(h, j)
    OBVIOUS
  <2>2. /\ h + j - 1 < Capacity => p = h + j - 1
        /\ h + j - 1 >= Capacity => p = h + j - 1 - Capacity
    BY <1>1, <2>1, PlaceIs
  <2> QED
    BY <1>1, <2>1, <2>2
<1>8. Place(h, 1) = h
  BY <1>1, PlaceIs
<1> QED
  BY <1>2, <1>5, <1>6, <1>7, <1>8

\* The queue read off the ring.
LEMMA QueueAt ==
  ASSUME NEW j \in 1 .. ringSize
  PROVE  B!Queue[j] = ring[Place(head, j)]
BY DEF B!Queue, Place

\* submit puts its item at the end.
LEMMA EnqueueQueue ==
  ASSUME QueueShape, NEW q \in Request, B!Enqueue(q)
  PROVE  /\ ringSize' = ringSize + 1 /\ ringSize' <= Capacity /\ head' = head
         /\ \A j \in 1 .. ringSize : B!Queue'[j] = B!Queue[j]
         /\ B!Queue'[ringSize + 1] = B!WorkItemOf(q)
<1>1. /\ Capacity \in Nat \ {0} /\ head \in 0 .. Capacity - 1 /\ ringSize \in 0 .. Capacity
      /\ DOMAIN ring = 0 .. Capacity - 1
  BY QueueAssumption DEF QueueShape
<1>2. /\ ringSize' = ringSize + 1 /\ head' = head /\ ringSize # Capacity
      /\ ring' = [ring EXCEPT ![(head + ringSize) % Capacity] = B!WorkItemOf(q)]
  BY DEF B!Enqueue, B!TailPosition, B!Full
<1>3. PICK n \in Int : n = ringSize + 1
  BY <1>1
<1>4. n \in 1 .. Capacity
  BY <1>1, <1>2, <1>3
<1>5. (head + ringSize) % Capacity = Place(head, n)
  BY <1>1, <1>3 DEF Place
<1>6. Place(head, n) \in DOMAIN ring
  BY <1>1, <1>4, PlaceAfter
<1>7. ASSUME NEW j \in 1 .. n PROVE B!Queue'[j] = ring'[Place(head, j)]
  BY <1>2, <1>3, <1>7 DEF B!Queue, Place
<1>8. B!Queue'[n] = B!WorkItemOf(q)
  BY <1>2, <1>4, <1>5, <1>6, <1>7
<1>9. ASSUME NEW j \in 1 .. ringSize PROVE B!Queue'[j] = B!Queue[j]
  <2>1. j \in 1 .. Capacity /\ j \in 1 .. n /\ j # n
    BY <1>1, <1>3
  <2>2. Place(head, j) # Place(head, n)
    BY <1>1, <1>4, <2>1, PlacesApart
  <2>3. Place(head, j) \in DOMAIN ring
    BY <1>1, <2>1, PlaceAfter
  <2>4. ring'[Place(head, j)] = ring[Place(head, j)]
    BY <1>2, <1>5, <2>2, <2>3
  <2> QED
    BY <1>7, <2>1, <2>4, QueueAt
<1> QED
  BY <1>1, <1>2, <1>3, <1>4, <1>8, <1>9

\* A worker takes the first item.
LEMMA DequeueQueue ==
  ASSUME QueueShape, NEW w \in Workers, B!Dequeue(w)
  PROVE  /\ ringSize' = ringSize - 1 /\ ringSize' \in 0 .. Capacity
         /\ head' \in 0 .. Capacity - 1
         /\ 1 \in 1 .. ringSize /\ ring[head] = B!Queue[1]
         /\ \A j \in 1 .. ringSize - 1 : B!Queue'[j] = B!Queue[j + 1]
<1>1. /\ Capacity \in Nat \ {0} /\ head \in 0 .. Capacity - 1 /\ ringSize \in 0 .. Capacity
      /\ DOMAIN ring = 0 .. Capacity - 1
  BY QueueAssumption DEF QueueShape
<1>2. /\ ringSize' = ringSize - 1 /\ head' = (head + 1) % Capacity /\ ringSize # 0
      /\ ring' = [ring EXCEPT ![head] = None]
  BY DEF B!Dequeue
<1>3. 1 \in 1 .. ringSize /\ 1 \in 1 .. Capacity
  BY <1>1, <1>2
<1>4. Place(head, 1) = head /\ head' \in 0 .. Capacity - 1
  BY <1>1, <1>2, <1>3, PlaceAfter
<1>5. ring[head] = B!Queue[1]
  BY <1>3, <1>4, QueueAt
<1>6. ASSUME NEW j \in 1 .. ringSize - 1 PROVE B!Queue'[j] = B!Queue[j + 1]
  <2>1. /\ j \in 1 .. Capacity /\ j < Capacity /\ j + 1 \in 1 .. ringSize
        /\ j + 1 \in 1 .. Capacity /\ j + 1 # 1
    BY <1>1
  <2>2. Place(head', j) = Place(head, j + 1)
    BY <1>1, <1>2, <2>1, PlaceAfter
  <2>3. Place(head, j + 1) # head
    BY <1>1, <1>3, <1>4, <2>1, PlacesApart
  <2>4. Place(head, j + 1) \in DOMAIN ring
    BY <1>1, <2>1, PlaceAfter
  <2>5. ring'[Place(head, j + 1)] = ring[Place(head, j + 1)]
    BY <1>2, <2>3, <2>4
  <2>6. B!Queue'[j] = ring'[Place(head', j)]
    BY <1>2 DEF B!Queue, Place
  <2> QED
    BY <2>1, <2>2, <2>5, <2>6, QueueAt
<1> QED
  BY <1>1, <1>2, <1>3, <1>4, <1>5, <1>6

\* What submit queues is an item for its request.
LEMMA WorkItem ==
  ASSUME NEW q \in Request
  PROVE  B!WorkItemOf(q) \in B!Item /\ B!WorkItemOf(q).request = q
<1>1. PICK found :
        found = {i \in DOMAIN <<[source |-> "file", handle |-> "handle", access |-> "buffered"]>> :
                   <<[source |-> "file", handle |-> "handle", access |-> "buffered"]>>[i].source
                     = [p \in Request |-> "file"][q]}
  OBVIOUS
<1>2. found = {1}
  BY <1>1
<1>3. PICK m : m = B!Min(found)
  OBVIOUS
<1>4. m = 1
  BY <1>2, <1>3 DEF B!Min
<1>5. PICK entry : entry = <<[source |-> "file", handle |-> "handle", access |-> "buffered"]>>[m]
  OBVIOUS
<1>6. entry = [source |-> "file", handle |-> "handle", access |-> "buffered"]
  BY <1>4, <1>5
<1>7. B!WorkItemOf(q) =
        IF found = {}
        THEN [request |-> q, handle |-> None, access |-> "buffered", known |-> FALSE]
        ELSE [request |-> q, handle |-> entry.handle, access |-> entry.access, known |-> TRUE]
  BY <1>1, <1>3, <1>5, Zenon DEF B!WorkItemOf
<1>8. B!WorkItemOf(q) = [request |-> q, handle |-> "handle", access |-> "buffered",
                         known |-> TRUE]
  BY <1>2, <1>6, <1>7
<1> QED
  BY <1>8 DEF B!Item

-----------------------------------------------------------------------------
(***************************************************************************)
(* What a step leaves with its holders.                                    *)
(***************************************************************************)
QueueKept == /\ \A j \in Nat, q \in Request : QueueHas(j, q)' <=> QueueHas(j, q)
             /\ head' \in 0 .. Capacity - 1 /\ ringSize' \in 0 .. Capacity
             /\ ring' \in [0 .. Capacity - 1 -> B!Item \union {None}]
             /\ \A j \in 1 .. ringSize' : B!Queue'[j] \in B!Item

WorkerKept(w) == /\ worker'[w].pc = "perform" <=> worker[w].pc = "perform"
                 /\ worker[w].pc = "perform" => worker'[w].item = worker[w].item

WorkersKept == /\ worker' \in [Workers -> WorkerRecord]
               /\ \A w \in Workers : WorkerKept(w)

\* Untouched variables are kept.
LEMMA RingUntouched ==
  ASSUME QueueShape, UNCHANGED <<ring, head, ringSize>>
  PROVE  QueueKept
<1>1. B!Queue' = B!Queue
  BY DEF B!Queue
<1> QED
  BY <1>1 DEF QueueKept, QueueHas, QueueShape

LEMMA WorkersUntouched ==
  ASSUME QueueShape, UNCHANGED worker
  PROVE  WorkersKept
BY DEF WorkersKept, WorkerKept, QueueShape

\* notify_one and notify_all wake sleepers only.
LEMMA OneWorkerChanges ==
  ASSUME QueueShape, NEW w \in Workers, NEW new \in WorkerRecord,
         worker[w].pc # "perform", new.pc # "perform", worker' = [worker EXCEPT ![w] = new]
  PROVE  WorkersKept
BY DEF WorkersKept, WorkerKept, QueueShape

LEMMA NotifyKeeps ==
  ASSUME QueueShape, B!notify_one \/ B!notify_all
  PROVE  WorkersKept
<1>1. CASE B!notify_one
  <2>1. CASE UNCHANGED worker
    BY <2>1, WorkersUntouched
  <2>2. ASSUME NEW w \in Workers, worker[w].pc = "asleep",
               worker' = [worker EXCEPT ![w].pc = "ready"]
        PROVE  WorkersKept
    <3>1. PICK new : new = [worker[w] EXCEPT !.pc = "ready"]
      OBVIOUS
    <3>2. new \in WorkerRecord /\ new.pc = "ready"
      BY <3>1 DEF QueueShape, WorkerRecord
    <3>3. worker' = [worker EXCEPT ![w] = new]
      BY <2>2, <3>1
    <3> QED
      BY <2>2, <3>2, <3>3, OneWorkerChanges
  <2> QED
    BY <1>1, <2>1, <2>2 DEF B!notify_one
<1>2. CASE B!notify_all
  <2>1. worker' = [w \in Workers |-> IF worker[w].pc = "asleep"
                                     THEN [worker[w] EXCEPT !.pc = "ready"] ELSE worker[w]]
    BY <1>2 DEF B!notify_all
  <2>2. ASSUME NEW w \in Workers PROVE worker'[w] \in WorkerRecord /\ WorkerKept(w)
    <3>1. worker[w] \in WorkerRecord
      BY DEF QueueShape
    <3>2. CASE worker[w].pc = "asleep"
      <4>1. worker'[w] = [worker[w] EXCEPT !.pc = "ready"]
        BY <2>1, <3>2
      <4> QED
        BY <3>1, <3>2, <4>1 DEF WorkerRecord, WorkerKept
    <3>3. CASE worker[w].pc # "asleep"
      BY <2>1, <3>1, <3>3 DEF WorkerKept
    <3> QED
      BY <3>2, <3>3
  <2>3. worker' \in [Workers -> WorkerRecord]
    BY <2>1, <2>2
  <2> QED
    BY <2>2, <2>3 DEF WorkersKept
<1> QED
  BY <1>1, <1>2

\* Kept workers have what they had.
LEMMA KeptWorkersHave ==
  ASSUME WorkersKept, NEW w \in Workers, NEW q
  PROVE  WorkerHas(w, q)' <=> WorkerHas(w, q)
BY DEF WorkersKept, WorkerKept, WorkerHas

\* Nothing changes hands, and nothing is submitted or answered.
LEMMA AllKept ==
  ASSUME QueueInv, QueueKept, WorkersKept, UNCHANGED <<requests, closer>>, AfterDestroy'
  PROVE  QueueInv'
<1>1. \A q \in Request : /\ \A j \in Nat : QueueHas(j, q)' <=> QueueHas(j, q)
                         /\ \A w \in Workers : WorkerHas(w, q)' <=> WorkerHas(w, q)
                         /\ \A c \in Closers, i \in Nat : CloserHas(c, i, q)' <=> CloserHas(c, i, q)
  BY KeptWorkersHave DEF QueueKept, CloserHas
<1>2. \A q \in Request : Held(q)' <=> Held(q)
  BY <1>1 DEF Held
<1>3. HeldOnce'
  BY <1>1 DEF QueueInv, HeldOnce
<1>4. HeldExactly'
  BY <1>2 DEF QueueInv, HeldExactly
<1>5. QueueShape'
  BY DEF QueueInv, QueueShape, QueueKept, WorkersKept, WorkerKept
<1> QED
  BY <1>3, <1>4, <1>5 DEF QueueInv

LEMMA QueueInit == FilePoolInit => QueueInv
<1> SUFFICES ASSUME FilePoolInit PROVE QueueInv
  OBVIOUS
<1>1. /\ ring = [i \in 0 .. Capacity - 1 |-> None] /\ head = 0 /\ ringSize = 0
      /\ worker = [w \in Workers |-> B!Idle] /\ closer = [c \in Closers |-> B!NoCall]
      /\ destroyed = FALSE /\ requests = {}
  BY DEF FilePoolInit, Init
<1>2. Capacity \in Nat \ {0}
  BY QueueAssumption
<1>3. B!Idle \in WorkerRecord /\ B!Idle.pc = "ready"
  BY DEF B!Idle, WorkerRecord
<1>4. B!NoCall \in CloserRecord /\ B!NoCall.pc = "idle" /\ B!NoCall.queued = <<>>
  <2>1. <<>> \in Seq(B!Item)
    OBVIOUS
  <2> QED
    BY <2>1 DEF B!NoCall, CloserRecord
<1>5. 1 .. ringSize = {} /\ DOMAIN <<>> = {}
  BY <1>1
<1>6. QueueShape
  BY <1>1, <1>2, <1>3, <1>4, <1>5 DEF QueueShape
<1>7. \A q \in Request : /\ \A j : ~QueueHas(j, q)
                         /\ \A w : ~WorkerHas(w, q)
                         /\ \A c, i : ~CloserHas(c, i, q)
  BY <1>1, <1>3, <1>4, <1>5 DEF QueueHas, WorkerHas, CloserHas
<1>8. HeldOnce
  BY <1>7 DEF HeldOnce
<1>9. HeldExactly
  BY <1>1, <1>7 DEF HeldExactly, Held
<1> QED
  BY <1>1, <1>6, <1>8, <1>9 DEF QueueInv, AfterDestroy

-----------------------------------------------------------------------------
(***************************************************************************)
(* The steps by which a request changes hands.                             *)
(***************************************************************************)

\* start_fill: the pool waits for q and the queue has it.
LEMMA EnqueueHolds ==
  ASSUME QueueInv, NEW q \in Request, q \notin requests, requests' = requests \union {q},
         B!Enqueue(q), AfterDestroy'
  PROVE  QueueInv'
<1>1. QueueShape /\ HeldOnce /\ HeldExactly
  BY DEF QueueInv
<1>2. /\ ringSize' = ringSize + 1 /\ ringSize' <= Capacity /\ head' = head
      /\ \A j \in 1 .. ringSize : B!Queue'[j] = B!Queue[j]
      /\ B!Queue'[ringSize + 1] = B!WorkItemOf(q)
  BY <1>1, EnqueueQueue
<1>3. B!WorkItemOf(q) \in B!Item /\ B!WorkItemOf(q).request = q
  BY WorkItem
<1>4. WorkersKept /\ UNCHANGED closer
  BY <1>1, NotifyKeeps DEF B!Enqueue
<1>5. ringSize \in Nat
  BY <1>1, QueueAssumption DEF QueueShape
<1>6. PICK n \in Nat : n = ringSize + 1
  BY <1>5
<1>7. ASSUME NEW p \in Request
      PROVE  /\ \A j \in Nat : QueueHas(j, p)' <=> QueueHas(j, p) \/ (j = n /\ p = q)
             /\ ~QueueHas(n, p)
             /\ \A w \in Workers : WorkerHas(w, p)' <=> WorkerHas(w, p)
             /\ \A c \in Closers, i \in Nat : CloserHas(c, i, p)' <=> CloserHas(c, i, p)
  <2>1. ASSUME NEW j \in Nat
        PROVE  QueueHas(j, p)' <=> QueueHas(j, p) \/ (j = n /\ p = q)
    <3>1. j \in 1 .. ringSize' <=> j \in 1 .. ringSize \/ j = n
      BY <1>2, <1>5, <1>6
    <3>2. n \notin 1 .. ringSize
      BY <1>5, <1>6
    <3> QED
      BY <1>2, <1>3, <1>6, <3>1, <3>2 DEF QueueHas
  <2>2. ~QueueHas(n, p)
    BY <1>5, <1>6 DEF QueueHas
  <2> QED
    BY <1>4, <2>1, <2>2, KeptWorkersHave DEF CloserHas
<1>8. ~Held(q)
  BY <1>1 DEF HeldExactly
<1>9. HeldOnce'
  BY <1>1, <1>7, <1>8 DEF HeldOnce, Held
<1>10. HeldExactly'
  <2>1. ASSUME NEW p \in Request PROVE Held(p)' <=> Held(p) \/ p = q
    BY <1>6, <1>7 DEF Held
  <2> QED
    BY <1>1, <2>1 DEF HeldExactly
<1>11. QueueShape'
  <2>1. \A j \in 1 .. ringSize' : B!Queue'[j] \in B!Item
    <3> SUFFICES ASSUME NEW j \in 1 .. ringSize' PROVE B!Queue'[j] \in B!Item
      OBVIOUS
    <3>1. j \in 1 .. ringSize \/ j = ringSize + 1
      BY <1>2, <1>5
    <3> QED
      BY <1>1, <1>2, <1>3, <3>1 DEF QueueShape
  <2>2. ring' \in [0 .. Capacity - 1 -> B!Item \union {None}]
    BY <1>1, <1>3 DEF B!Enqueue, QueueShape
  <2>3. head' \in 0 .. Capacity - 1 /\ ringSize' \in 0 .. Capacity
    BY <1>1, <1>2, <1>5, QueueAssumption DEF QueueShape
  <2> QED
    BY <1>1, <1>4, <2>1, <2>2, <2>3 DEF QueueShape, WorkersKept, WorkerKept
<1> QED
  BY <1>9, <1>10, <1>11 DEF QueueInv

\* A worker takes the first item of the queue.
LEMMA DequeueHolds ==
  ASSUME QueueInv, NEW w \in Workers, B!Dequeue(w), UNCHANGED <<requests, inside, destroyed>>
  PROVE  QueueInv'
<1>1. QueueShape /\ HeldOnce /\ HeldExactly
  BY DEF QueueInv
<1>2. /\ ringSize' = ringSize - 1 /\ ringSize' \in 0 .. Capacity
      /\ head' \in 0 .. Capacity - 1
      /\ 1 \in 1 .. ringSize /\ ring[head] = B!Queue[1]
      /\ \A j \in 1 .. ringSize - 1 : B!Queue'[j] = B!Queue[j + 1]
  BY <1>1, DequeueQueue
<1>3. PICK item \in B!Item : item = B!Queue[1]
  BY <1>1, <1>2 DEF QueueShape
<1>4. PICK new \in WorkerRecord :
        new = [pc |-> "perform", item |-> item, category |-> "none"]
  BY <1>3 DEF WorkerRecord
<1>5. /\ worker' = [worker EXCEPT ![w] = new] /\ worker[w].pc = "ready"
      /\ ring' = [ring EXCEPT ![head] = None] /\ UNCHANGED closer
  BY <1>2, <1>3, <1>4 DEF B!Dequeue
<1>6. worker'[w] = new /\ \A v \in Workers \ {w} : worker'[v] = worker[v]
  BY <1>1, <1>5 DEF QueueShape
<1>7. ringSize \in Nat
  BY <1>1, QueueAssumption DEF QueueShape
<1>8. ASSUME NEW p \in Request
      PROVE  /\ \A j \in Nat : QueueHas(j, p)' => QueueHas(j + 1, p)
             /\ \A j \in Nat : QueueHas(j, p) => j = 1 \/ QueueHas(j - 1, p)'
             /\ \A v \in Workers : WorkerHas(v, p)' <=> WorkerHas(v, p) \/ (v = w /\ QueueHas(1, p))
             /\ ~WorkerHas(w, p)
             /\ \A c \in Closers, i \in Nat : CloserHas(c, i, p)' <=> CloserHas(c, i, p)
  <2>1. ASSUME NEW j \in Nat, QueueHas(j, p)' PROVE QueueHas(j + 1, p)
    <3>1. j \in 1 .. ringSize - 1 /\ j + 1 \in 1 .. ringSize /\ B!Queue'[j].request = p
      BY <1>2, <1>7, <2>1 DEF QueueHas
    <3> QED
      BY <1>2, <3>1 DEF QueueHas
  <2>2. ASSUME NEW j \in Nat, QueueHas(j, p), j # 1 PROVE QueueHas(j - 1, p)'
    <3>1. PICK k \in Int : k = j - 1
      OBVIOUS
    <3>2. k \in 1 .. ringSize - 1 /\ k + 1 = j /\ B!Queue[j].request = p
      BY <1>7, <2>2, <3>1 DEF QueueHas
    <3>3. B!Queue'[k].request = p /\ k \in 1 .. ringSize'
      BY <1>2, <3>2
    <3> QED
      BY <3>1, <3>3 DEF QueueHas
  <2>3. ASSUME NEW v \in Workers
        PROVE  WorkerHas(v, p)' <=> WorkerHas(v, p) \/ (v = w /\ QueueHas(1, p))
    <3>1. QueueHas(1, p) <=> item.request = p
      BY <1>2, <1>3 DEF QueueHas
    <3>2. new.pc = "perform" /\ new.item = item
      BY <1>4
    <3> QED
      BY <1>5, <1>6, <3>1, <3>2 DEF WorkerHas
  <2>4. ~WorkerHas(w, p)
    BY <1>5 DEF WorkerHas
  <2> QED
    BY <1>5, <2>1, <2>2, <2>3, <2>4 DEF CloserHas
<1>9. HeldOnce'
  <2> SUFFICES ASSUME NEW p \in Request
               PROVE  /\ \A j, k \in Nat : QueueHas(j, p)' /\ QueueHas(k, p)' => j = k
                      /\ \A v, u \in Workers : WorkerHas(v, p)' /\ WorkerHas(u, p)' => v = u
                      /\ \A c, d \in Closers, i, k \in Nat :
                           CloserHas(c, i, p)' /\ CloserHas(d, k, p)' => c = d /\ i = k
                      /\ \A j \in Nat, v \in Workers : ~(QueueHas(j, p)' /\ WorkerHas(v, p)')
                      /\ \A j \in Nat, c \in Closers, i \in Nat :
                           ~(QueueHas(j, p)' /\ CloserHas(c, i, p)')
                      /\ \A v \in Workers, c \in Closers, i \in Nat :
                           ~(WorkerHas(v, p)' /\ CloserHas(c, i, p)')
    BY DEF HeldOnce
  <2>1. \A j, k \in Nat : QueueHas(j, p)' /\ QueueHas(k, p)' => j = k
    <3> SUFFICES ASSUME NEW j \in Nat, NEW k \in Nat, QueueHas(j, p)', QueueHas(k, p)'
                 PROVE  j = k
      OBVIOUS
    <3>1. QueueHas(j + 1, p) /\ QueueHas(k + 1, p) /\ j + 1 \in Nat /\ k + 1 \in Nat
      BY <1>8
    <3>2. j + 1 = k + 1
      BY <1>1, <3>1 DEF HeldOnce
    <3> QED
      BY <3>2
  <2>2. \A j \in Nat : QueueHas(j, p)' => ~QueueHas(1, p)
    <3> SUFFICES ASSUME NEW j \in Nat, QueueHas(j, p)', QueueHas(1, p) PROVE FALSE
      OBVIOUS
    <3>1. QueueHas(j + 1, p) /\ j + 1 \in Nat /\ j >= 1
      BY <1>2, <1>7, <1>8 DEF QueueHas
    <3>2. j + 1 = 1
      BY <1>1, <3>1 DEF HeldOnce
    <3> QED
      BY <3>1, <3>2
  <2>3. \A j \in Nat, v \in Workers : ~(QueueHas(j, p)' /\ WorkerHas(v, p)')
    BY <1>1, <1>8, <2>2 DEF HeldOnce
  <2>4. \A j \in Nat, c \in Closers, i \in Nat : ~(QueueHas(j, p)' /\ CloserHas(c, i, p)')
    BY <1>1, <1>8 DEF HeldOnce
  <2>5. \A v, u \in Workers : WorkerHas(v, p)' /\ WorkerHas(u, p)' => v = u
    BY <1>1, <1>8 DEF HeldOnce
  <2>6. \A v \in Workers, c \in Closers, i \in Nat : ~(WorkerHas(v, p)' /\ CloserHas(c, i, p)')
    BY <1>1, <1>8 DEF HeldOnce
  <2>7. \A c, d \in Closers, i, k \in Nat :
          CloserHas(c, i, p)' /\ CloserHas(d, k, p)' => c = d /\ i = k
    BY <1>1, <1>8 DEF HeldOnce
  <2> QED
    BY <2>1, <2>3, <2>4, <2>5, <2>6, <2>7
<1>10. HeldExactly'
  <2>1. ASSUME NEW p \in Request PROVE Held(p)' <=> Held(p)
    <3>1. ASSUME NEW j \in Nat, QueueHas(j, p) PROVE Held(p)'
      <4>1. CASE j = 1
        BY <1>8, <3>1, <4>1 DEF Held
      <4>2. CASE j # 1
        <5>1. QueueHas(j - 1, p)' /\ j - 1 \in Nat
          BY <1>7, <1>8, <3>1, <4>2 DEF QueueHas
        <5> QED
          BY <5>1 DEF Held
      <4> QED
        BY <4>1, <4>2
    <3>2. ASSUME NEW j \in Nat, QueueHas(j, p)' PROVE Held(p)
      BY <1>8, <3>2 DEF Held
    <3> QED
      BY <1>8, <3>1, <3>2 DEF Held
  <2> QED
    BY <1>1, <2>1 DEF HeldExactly
<1>11. QueueShape'
  <2>1. \A j \in 1 .. ringSize' : B!Queue'[j] \in B!Item
    <3> SUFFICES ASSUME NEW j \in 1 .. ringSize' PROVE B!Queue'[j] \in B!Item
      OBVIOUS
    <3>1. j \in 1 .. ringSize - 1 /\ j + 1 \in 1 .. ringSize
      BY <1>2, <1>7
    <3> QED
      BY <1>1, <1>2, <3>1 DEF QueueShape
  <2>2. ring' \in [0 .. Capacity - 1 -> B!Item \union {None}]
    BY <1>1, <1>5 DEF QueueShape
  <2>3. worker' \in [Workers -> WorkerRecord]
    BY <1>1, <1>4, <1>5 DEF QueueShape
  <2>4. \A v \in Workers : worker'[v].pc = "perform" => worker'[v].item \in B!Item
    BY <1>1, <1>3, <1>4, <1>6 DEF QueueShape
  <2> QED
    BY <1>1, <1>2, <1>5, <2>1, <2>2, <2>3, <2>4 DEF QueueShape
<1> QED
  BY <1>9, <1>10, <1>11 DEF QueueInv, AfterDestroy

\* A worker delivers: it has q no more, and neither has the pool.
LEMMA DeliverHolds ==
  ASSUME QueueInv, LeaseInv, NEW w \in Workers, Deliver(w)
  PROVE  QueueInv'
<1>1. QueueShape /\ HeldOnce /\ HeldExactly /\ requests \subseteq Request
  BY DEF QueueInv, LeaseInv, TypeOK
<1>2. PICK result \in FillResults :
        B!Handed(w, result) /\ Complete(worker[w].item.request, result)
  BY DEF Deliver
<1>3. PICK q \in Request : q = worker[w].item.request /\ q \in requests
                           /\ requests' = requests \ {q}
  BY <1>1, <1>2 DEF Complete
<1>4. PICK category : category = B!Category(result)
  OBVIOUS
<1>5. category \in {"errors", "completed_ok", "short_reads"}
  BY <1>4 DEF B!Category
<1>6. PICK new : new = [worker[w] EXCEPT !.pc = "count", !.category = category]
  OBVIOUS
<1>7. /\ worker[w].pc = "perform" /\ worker' = [worker EXCEPT ![w] = new]
      /\ UNCHANGED <<ring, head, ringSize, closer>>
  BY <1>2, <1>4, <1>6 DEF B!Handed, B!ringVars
<1>8. new \in WorkerRecord /\ new.pc = "count"
  BY <1>1, <1>5, <1>6 DEF QueueShape, WorkerRecord
<1>9. worker'[w] = new /\ \A v \in Workers \ {w} : worker'[v] = worker[v]
  BY <1>1, <1>7 DEF QueueShape
<1>10. QueueKept
  BY <1>1, <1>7, RingUntouched
<1>11. ASSUME NEW p \in Request
       PROVE  /\ \A j \in Nat : QueueHas(j, p)' <=> QueueHas(j, p)
              /\ \A v \in Workers : WorkerHas(v, p)' <=> WorkerHas(v, p) /\ v # w
              /\ \A c \in Closers, i \in Nat : CloserHas(c, i, p)' <=> CloserHas(c, i, p)
              /\ WorkerHas(w, p) <=> p = q
  BY <1>3, <1>7, <1>8, <1>9, <1>10 DEF QueueKept, WorkerHas, CloserHas
<1>12. HeldOnce'
  BY <1>1, <1>11 DEF HeldOnce
<1>13. HeldExactly'
  <2>1. ASSUME NEW p \in Request, p # q PROVE Held(p)' <=> Held(p)
    BY <1>11, <2>1 DEF Held
  <2>2. ~Held(q)'
    BY <1>1, <1>11 DEF Held, HeldOnce
  <2> QED
    BY <1>1, <1>3, <2>1, <2>2 DEF HeldExactly
<1>14. QueueShape'
  <2>1. worker' \in [Workers -> WorkerRecord]
    BY <1>1, <1>7, <1>8 DEF QueueShape
  <2>2. \A v \in Workers : worker'[v].pc = "perform" => worker'[v].item \in B!Item
    BY <1>1, <1>8, <1>9 DEF QueueShape
  <2> QED
    BY <1>1, <1>7, <1>10, <2>1, <2>2 DEF QueueShape, QueueKept
<1>15. AfterDestroy'
  BY <1>3 DEF QueueInv, AfterDestroy, Deliver
<1> QED
  BY <1>12, <1>13, <1>14, <1>15 DEF QueueInv

\* One closer changes.
LEMMA OneCloserChanges ==
  ASSUME QueueShape, NEW c \in Closers, NEW new \in CloserRecord,
         new.pc = "idle" => new.queued = <<>>, new.pc = "count" => new.queued # <<>>,
         closer' = [closer EXCEPT ![c] = new]
  PROVE  /\ closer' \in [Closers -> CloserRecord]
         /\ closer'[c] = new /\ \A d \in Closers \ {c} : closer'[d] = closer[d]
         /\ \A d \in Closers : /\ closer'[d].pc = "idle" => closer'[d].queued = <<>>
                               /\ closer'[d].pc = "count" => closer'[d].queued # <<>>
BY DEF QueueShape

\* shutdown tells the pool that the first request of its list is cancelled.
LEMMA CancelHolds ==
  ASSUME QueueInv, LeaseInv, NEW c \in Closers, CancelQueued(c)
  PROVE  QueueInv'
<1>1. QueueShape /\ HeldOnce /\ HeldExactly /\ requests \subseteq Request
  BY DEF QueueInv, LeaseInv, TypeOK
<1>2. closer[c] \in CloserRecord /\ closer[c].queued \in Seq(B!Item) /\ closer[c].queued # <<>>
      /\ closer[c].pc = "cancel"
  BY <1>1 DEF QueueShape, CloserRecord, CancelQueued, B!CancelFirst
<1>3. Head(closer[c].queued) = closer[c].queued[1] /\ 1 \in DOMAIN closer[c].queued
  BY <1>2
<1>4. PICK q \in Request : q = closer[c].queued[1].request /\ q \in requests
                           /\ requests' = requests \ {q}
  BY <1>1, <1>3 DEF CancelQueued, Complete
<1>5. PICK new : new = [closer[c] EXCEPT !.pc = "count"]
  OBVIOUS
<1>6. /\ closer' = [closer EXCEPT ![c] = new]
      /\ UNCHANGED <<ring, head, ringSize, worker>>
  BY <1>5 DEF CancelQueued, B!CancelFirst, B!ringVars
<1>7. new \in CloserRecord /\ new.pc = "count" /\ new.queued = closer[c].queued
  BY <1>2, <1>5 DEF CloserRecord
<1>8. /\ closer' \in [Closers -> CloserRecord]
      /\ closer'[c] = new /\ \A d \in Closers \ {c} : closer'[d] = closer[d]
      /\ \A d \in Closers : /\ closer'[d].pc = "idle" => closer'[d].queued = <<>>
                            /\ closer'[d].pc = "count" => closer'[d].queued # <<>>
  BY <1>1, <1>2, <1>6, <1>7, OneCloserChanges
<1>9. QueueKept /\ WorkersKept
  BY <1>1, <1>6, RingUntouched, WorkersUntouched
<1>10. ASSUME NEW p \in Request
       PROVE  /\ \A j \in Nat : QueueHas(j, p)' <=> QueueHas(j, p)
              /\ \A v \in Workers : WorkerHas(v, p)' <=> WorkerHas(v, p)
              /\ \A d \in Closers, i \in Nat :
                   CloserHas(d, i, p)' <=> CloserHas(d, i, p) /\ ~(d = c /\ i = 1)
              /\ CloserHas(c, 1, p) <=> p = q
  <2>1. ASSUME NEW d \in Closers, NEW i \in Nat
        PROVE  CloserHas(d, i, p)' <=> CloserHas(d, i, p) /\ ~(d = c /\ i = 1)
    BY <1>2, <1>7, <1>8 DEF CloserHas
  <2>2. CloserHas(c, 1, p) <=> p = q
    BY <1>2, <1>3, <1>4 DEF CloserHas
  <2> QED
    BY <1>9, <2>1, <2>2, KeptWorkersHave DEF QueueKept
<1>11. HeldOnce'
  BY <1>1, <1>10 DEF HeldOnce
<1>12. HeldExactly'
  <2>1. ASSUME NEW p \in Request, p # q PROVE Held(p)' <=> Held(p)
    <3>1. \A d \in Closers, i \in Nat : CloserHas(d, i, p)' <=> CloserHas(d, i, p)
      BY <1>10, <2>1
    <3> QED
      BY <1>10, <3>1 DEF Held
  <2>2. ~Held(q)'
    BY <1>1, <1>10 DEF Held, HeldOnce
  <2> QED
    BY <1>1, <1>4, <2>1, <2>2 DEF HeldExactly
<1>13. QueueShape'
  BY <1>1, <1>6, <1>8, <1>9 DEF QueueShape, QueueKept
<1>14. AfterDestroy'
  BY <1>4 DEF QueueInv, AfterDestroy, CancelQueued
<1> QED
  BY <1>11, <1>12, <1>13, <1>14 DEF QueueInv

\* ... and goes on with the rest of the list.
LEMMA DropHolds ==
  ASSUME QueueInv, NEW c \in Closers, B!DropFirst(c), UNCHANGED <<requests, inside, destroyed>>
  PROVE  QueueInv'
<1>1. QueueShape /\ HeldOnce /\ HeldExactly
  BY DEF QueueInv
<1>2. PICK list \in Seq(B!Item) : list = closer[c].queued /\ list # <<>>
  BY <1>1 DEF QueueShape, CloserRecord, B!DropFirst
<1>3. PICK rest : rest = Tail(list)
  OBVIOUS
<1>4. /\ rest \in Seq(B!Item) /\ Len(list) \in Nat /\ Len(rest) = Len(list) - 1
      /\ DOMAIN rest = 1 .. Len(rest) /\ DOMAIN list = 1 .. Len(list)
      /\ \A i \in 1 .. Len(rest) : rest[i] = list[i + 1]
  BY <1>2, <1>3, HeadTailProperties
<1>5. PICK new : new = [closer[c] EXCEPT !.pc = "cancel", !.queued = rest]
  OBVIOUS
<1>6. /\ closer' = [closer EXCEPT ![c] = new] /\ closer[c].pc = "count"
      /\ UNCHANGED <<ring, head, ringSize, worker>>
  BY <1>2, <1>3, <1>5 DEF B!DropFirst, B!ringVars
<1>7. new \in CloserRecord /\ new.pc = "cancel" /\ new.queued = rest
  BY <1>1, <1>4, <1>5 DEF QueueShape, CloserRecord
<1>8. /\ closer' \in [Closers -> CloserRecord]
      /\ closer'[c] = new /\ \A d \in Closers \ {c} : closer'[d] = closer[d]
      /\ \A d \in Closers : /\ closer'[d].pc = "idle" => closer'[d].queued = <<>>
                            /\ closer'[d].pc = "count" => closer'[d].queued # <<>>
  BY <1>1, <1>6, <1>7, OneCloserChanges
<1>9. QueueKept /\ WorkersKept
  BY <1>1, <1>6, RingUntouched, WorkersUntouched
<1>10. ASSUME NEW p \in Request
       PROVE  /\ \A j \in Nat : QueueHas(j, p)' <=> QueueHas(j, p)
              /\ \A v \in Workers : WorkerHas(v, p)' <=> WorkerHas(v, p)
              /\ \A d \in Closers \ {c}, i \in Nat : CloserHas(d, i, p)' <=> CloserHas(d, i, p)
              /\ \A i \in Nat : CloserHas(c, i, p)' => CloserHas(c, i + 1, p)
              /\ \A i \in Nat : CloserHas(c, i, p) => i >= 1 /\ CloserHas(c, i - 1, p)'
  <2>1. ASSUME NEW i \in Nat, CloserHas(c, i, p)' PROVE CloserHas(c, i + 1, p)
    <3>1. i \in 1 .. Len(rest) /\ rest[i].request = p
      BY <1>4, <1>7, <1>8, <2>1 DEF CloserHas
    <3>2. i + 1 \in DOMAIN list /\ list[i + 1].request = p /\ i + 1 # 1
      BY <1>4, <3>1
    <3> QED
      BY <1>2, <3>2 DEF CloserHas
  <2>2. ASSUME NEW i \in Nat, CloserHas(c, i, p) PROVE i >= 1 /\ CloserHas(c, i - 1, p)'
    <3>1. i \in 1 .. Len(list) /\ i # 1 /\ list[i].request = p
      BY <1>2, <1>4, <1>6, <2>2 DEF CloserHas
    <3>2. PICK k \in Int : k = i - 1
      OBVIOUS
    <3>3. k \in 1 .. Len(rest) /\ k + 1 = i
      BY <1>4, <3>1, <3>2
    <3>4. rest[k].request = p /\ k \in DOMAIN rest
      BY <1>4, <3>1, <3>3
    <3>5. CloserHas(c, k, p)'
      BY <1>7, <1>8, <3>4 DEF CloserHas
    <3> QED
      BY <3>1, <3>2, <3>5
  <2>3. \A d \in Closers \ {c}, i \in Nat : CloserHas(d, i, p)' <=> CloserHas(d, i, p)
    BY <1>8 DEF CloserHas
  <2> QED
    BY <1>9, <2>1, <2>2, <2>3, KeptWorkersHave DEF QueueKept
<1>11. ASSUME NEW p \in Request, NEW d \in Closers, NEW i \in Nat, CloserHas(d, i, p)'
       PROVE  CloserHas(d, IF d = c THEN i + 1 ELSE i, p)
  BY <1>10, <1>11
<1>12. HeldOnce'
  <2> SUFFICES ASSUME NEW p \in Request
               PROVE  /\ \A d, e \in Closers, i, k \in Nat :
                           CloserHas(d, i, p)' /\ CloserHas(e, k, p)' => d = e /\ i = k
                      /\ \A j \in Nat, d \in Closers, i \in Nat :
                           ~(QueueHas(j, p)' /\ CloserHas(d, i, p)')
                      /\ \A v \in Workers, d \in Closers, i \in Nat :
                           ~(WorkerHas(v, p)' /\ CloserHas(d, i, p)')
    BY <1>1, <1>10 DEF HeldOnce
  <2>1. ASSUME NEW d \in Closers, NEW e \in Closers, NEW i \in Nat, NEW k \in Nat,
               CloserHas(d, i, p)', CloserHas(e, k, p)'
        PROVE  d = e /\ i = k
    <3>1. PICK m \in Nat, n \in Nat : /\ m = (IF d = c THEN i + 1 ELSE i)
                                      /\ n = (IF e = c THEN k + 1 ELSE k)
      OBVIOUS
    <3>2. CloserHas(d, m, p) /\ CloserHas(e, n, p)
      BY <1>11, <2>1, <3>1
    <3>3. d = e /\ m = n
      BY <1>1, <3>2 DEF HeldOnce
    <3> QED
      BY <3>1, <3>3
  <2>2. ASSUME NEW d \in Closers, NEW i \in Nat, CloserHas(d, i, p)'
        PROVE  \E m \in Nat : CloserHas(d, m, p)
    <3>1. PICK m \in Nat : m = (IF d = c THEN i + 1 ELSE i)
      OBVIOUS
    <3> QED
      BY <1>11, <2>2, <3>1
  <2> QED
    BY <1>1, <1>10, <2>1, <2>2 DEF HeldOnce
<1>13. HeldExactly'
  <2>1. ASSUME NEW p \in Request PROVE Held(p)' <=> Held(p)
    <3>1. (\E d \in Closers, i \in Nat : CloserHas(d, i, p)')
            <=> \E d \in Closers, i \in Nat : CloserHas(d, i, p)
      <4>1. ASSUME NEW d \in Closers, NEW i \in Nat, CloserHas(d, i, p)
            PROVE  \E k \in Nat : CloserHas(d, k, p)'
        <5>1. CASE d = c
          <6>1. i - 1 \in Nat /\ CloserHas(c, i - 1, p)'
            BY <1>10, <4>1, <5>1
          <6> QED
            BY <5>1, <6>1
        <5>2. CASE d # c
          BY <1>10, <4>1, <5>2
        <5> QED
          BY <5>1, <5>2
      <4>2. ASSUME NEW d \in Closers, NEW i \in Nat, CloserHas(d, i, p)'
            PROVE  \E k \in Nat : CloserHas(d, k, p)
        <5>1. PICK m \in Nat : m = (IF d = c THEN i + 1 ELSE i)
          OBVIOUS
        <5> QED
          BY <1>11, <4>2, <5>1
      <4> QED
        BY <4>1, <4>2
    <3> QED
      BY <1>10, <3>1 DEF Held
  <2> QED
    BY <1>1, <2>1 DEF HeldExactly
<1>14. QueueShape'
  BY <1>1, <1>6, <1>8, <1>9 DEF QueueShape, QueueKept
<1> QED
  BY <1>12, <1>13, <1>14 DEF QueueInv, AfterDestroy

\* shutdown takes the whole queue as its list.
LEMMA ShutdownFirstHolds ==
  ASSUME QueueInv, NEW c \in Closers, B!ShutdownFirst(c),
         UNCHANGED <<requests, inside, destroyed>>
  PROVE  QueueInv'
<1>1. QueueShape /\ HeldOnce /\ HeldExactly
  BY DEF QueueInv
<1>2. /\ closer[c].pc = "idle" /\ closer[c].queued = <<>>
      /\ ring' = [i \in DOMAIN ring |-> None] /\ ringSize' = 0
      /\ head' = (head + ringSize) % Capacity
      /\ B!notify_all
  BY <1>1 DEF B!ShutdownFirst, B!EmptyRing, QueueShape
<1>3. PICK list : list = B!Queue
  OBVIOUS
<1>4. /\ ringSize \in Nat /\ list \in Seq(B!Item) /\ DOMAIN list = 1 .. ringSize
  <2>1. ringSize \in Nat
    BY <1>1, QueueAssumption DEF QueueShape
  <2>2. DOMAIN list = 1 .. ringSize /\ list = [i \in 1 .. ringSize |-> list[i]]
    BY <1>3 DEF B!Queue
  <2>3. \A i \in 1 .. ringSize : list[i] \in B!Item
    BY <1>1, <1>3 DEF QueueShape
  <2> QED
    BY <2>1, <2>2, <2>3
<1>5. PICK new : new = [pc |-> "cancel", queued |-> list, drained |-> TRUE]
  OBVIOUS
<1>6. new \in CloserRecord /\ new.pc = "cancel" /\ new.queued = list
  BY <1>4, <1>5 DEF CloserRecord
<1>7. closer' = [closer EXCEPT ![c] = new]
  BY <1>3, <1>5 DEF B!ShutdownFirst
<1>8. /\ closer' \in [Closers -> CloserRecord]
      /\ closer'[c] = new /\ \A d \in Closers \ {c} : closer'[d] = closer[d]
      /\ \A d \in Closers : /\ closer'[d].pc = "idle" => closer'[d].queued = <<>>
                            /\ closer'[d].pc = "count" => closer'[d].queued # <<>>
  BY <1>1, <1>6, <1>7, OneCloserChanges
<1>9. WorkersKept
  BY <1>1, <1>2, NotifyKeeps
<1>10. ASSUME NEW p \in Request
       PROVE  /\ \A j \in Nat : ~QueueHas(j, p)'
              /\ \A v \in Workers : WorkerHas(v, p)' <=> WorkerHas(v, p)
              /\ \A d \in Closers \ {c}, i \in Nat : CloserHas(d, i, p)' <=> CloserHas(d, i, p)
              /\ \A i \in Nat : CloserHas(c, i, p)' <=> QueueHas(i, p)
              /\ \A i \in Nat : ~CloserHas(c, i, p)
  <2>1. \A j \in Nat : ~QueueHas(j, p)'
    BY <1>2 DEF QueueHas
  <2>2. \A d \in Closers \ {c}, i \in Nat : CloserHas(d, i, p)' <=> CloserHas(d, i, p)
    BY <1>8 DEF CloserHas
  <2>3. \A i \in Nat : CloserHas(c, i, p)' <=> QueueHas(i, p)
    BY <1>3, <1>4, <1>6, <1>8 DEF CloserHas, QueueHas
  <2>4. \A i \in Nat : ~CloserHas(c, i, p)
    BY <1>2 DEF CloserHas
  <2> QED
    BY <1>9, <2>1, <2>2, <2>3, <2>4, KeptWorkersHave
<1>11. HeldOnce'
  BY <1>1, <1>10 DEF HeldOnce
<1>12. HeldExactly'
  <2>1. ASSUME NEW p \in Request PROVE Held(p)' <=> Held(p)
    BY <1>10 DEF Held
  <2> QED
    BY <1>1, <2>1 DEF HeldExactly
<1>13. QueueShape'
  <2>1. ring' \in [0 .. Capacity - 1 -> B!Item \union {None}]
    BY <1>1, <1>2 DEF QueueShape
  <2>2. head' \in 0 .. Capacity - 1
    <3>1. head \in 0 .. Capacity - 1 /\ Capacity \in Nat \ {0}
      BY <1>1, QueueAssumption DEF QueueShape
    <3>2. (head + ringSize) % Capacity \in 0 .. Capacity - 1
      BY <1>4, <3>1
    <3> QED
      BY <1>2, <3>2
  <2>3. ringSize' \in 0 .. Capacity /\ 1 .. ringSize' = {}
    BY <1>2, QueueAssumption
  <2> QED
    BY <1>1, <1>8, <1>9, <2>1, <2>2, <2>3 DEF QueueShape, WorkersKept, WorkerKept
<1> QED
  BY <1>11, <1>12, <1>13 DEF QueueInv, AfterDestroy

\* A shutdown that has nothing left to cancel returns.
LEMMA ShutdownReturns ==
  ASSUME QueueInv, NEW c \in Closers, B!ShutdownAgain(c) \/ B!Join(c),
         UNCHANGED <<requests, inside, destroyed>>
  PROVE  QueueInv'
<1>1. QueueShape /\ HeldOnce /\ HeldExactly
  BY DEF QueueInv
<1>2. PICK new : new = [closer[c] EXCEPT !.pc = "returned"]
  OBVIOUS
<1>3. /\ closer' = [closer EXCEPT ![c] = new] /\ closer[c].pc # "count"
      /\ UNCHANGED <<ring, head, ringSize, worker>>
  BY <1>2 DEF B!ShutdownAgain, B!Join, B!ringVars
<1>4. new \in CloserRecord /\ new.pc = "returned" /\ new.queued = closer[c].queued
  BY <1>1, <1>2 DEF QueueShape, CloserRecord
<1>5. /\ closer' \in [Closers -> CloserRecord]
      /\ closer'[c] = new /\ \A d \in Closers \ {c} : closer'[d] = closer[d]
      /\ \A d \in Closers : /\ closer'[d].pc = "idle" => closer'[d].queued = <<>>
                            /\ closer'[d].pc = "count" => closer'[d].queued # <<>>
  BY <1>1, <1>3, <1>4, OneCloserChanges
<1>6. QueueKept /\ WorkersKept
  BY <1>1, <1>3, RingUntouched, WorkersUntouched
<1>7. ASSUME NEW p \in Request
      PROVE  /\ \A j \in Nat : QueueHas(j, p)' <=> QueueHas(j, p)
             /\ \A v \in Workers : WorkerHas(v, p)' <=> WorkerHas(v, p)
             /\ \A d \in Closers, i \in Nat : CloserHas(d, i, p)' <=> CloserHas(d, i, p)
  <2>1. \A d \in Closers, i \in Nat : CloserHas(d, i, p)' <=> CloserHas(d, i, p)
    BY <1>3, <1>4, <1>5 DEF CloserHas
  <2> QED
    BY <1>6, <2>1, KeptWorkersHave DEF QueueKept
<1>8. HeldOnce'
  BY <1>1, <1>7 DEF HeldOnce
<1>9. HeldExactly'
  <2>1. ASSUME NEW p \in Request PROVE Held(p)' <=> Held(p)
    BY <1>7 DEF Held
  <2> QED
    BY <1>1, <2>1 DEF HeldExactly
<1>10. QueueShape'
  BY <1>1, <1>3, <1>5, <1>6 DEF QueueShape, QueueKept
<1> QED
  BY <1>8, <1>9, <1>10 DEF QueueInv, AfterDestroy

\* A worker without an item sleeps, exits or starts over.
LEMMA IdleWorkerHolds ==
  ASSUME QueueInv, NEW w \in Workers, B!WorkerSleep(w) \/ B!WorkerExit(w) \/ B!Finished(w),
         UNCHANGED <<requests, inside, destroyed>>
  PROVE  QueueInv'
<1>1. QueueShape /\ AfterDestroy'
  BY DEF QueueInv, AfterDestroy
<1>2. UNCHANGED <<ring, head, ringSize, closer>> /\ worker[w].pc \in {"ready", "count"}
  BY DEF B!WorkerSleep, B!WorkerExit, B!Finished, B!ringVars
<1>3. PICK new \in WorkerRecord : new.pc # "perform" /\ worker' = [worker EXCEPT ![w] = new]
  <2>1. CASE B!Finished(w)
    <3>1. B!Idle \in WorkerRecord /\ B!Idle.pc # "perform"
      BY DEF B!Idle, WorkerRecord
    <3> QED
      BY <2>1, <3>1 DEF B!Finished
  <2>2. ASSUME NEW pc \in {"asleep", "exited"}, worker' = [worker EXCEPT ![w].pc = pc]
        PROVE  \E new \in WorkerRecord :
                 new.pc # "perform" /\ worker' = [worker EXCEPT ![w] = new]
    <3>1. PICK new : new = [worker[w] EXCEPT !.pc = pc]
      OBVIOUS
    <3>2. new \in WorkerRecord /\ new.pc = pc
      BY <1>1, <3>1 DEF QueueShape, WorkerRecord
    <3>3. worker' = [worker EXCEPT ![w] = new]
      BY <2>2, <3>1
    <3> QED
      BY <3>2, <3>3
  <2> QED
    BY <2>1, <2>2 DEF B!WorkerSleep, B!WorkerExit
<1>4. WorkersKept
  BY <1>1, <1>2, <1>3, OneWorkerChanges
<1> QED
  BY <1>1, <1>2, <1>4, RingUntouched, AllKept

\* Nothing of the backend moves.
LEMMA BackendStill ==
  ASSUME QueueInv, UNCHANGED <<queueVars, requests>>, AfterDestroy'
  PROVE  QueueInv'
BY RingUntouched, WorkersUntouched, AllKept DEF QueueInv, queueVars

-----------------------------------------------------------------------------
(***************************************************************************)
(* The pool's half of a step.                                              *)
(***************************************************************************)

\* Only an accepted submit and an answer change what the pool waits for.
LEMMA RequestsStay ==
  ASSUME NEW t \in Threads,
         \/ Alone(t) \/ Refused(t) \/ Begin(t) \/ LockStep(t) \/ Timeout(t) \/ SpuriousWake(t)
  PROVE  UNCHANGED requests
<1>1. CASE Begin(t)
  <2>1. \A b, a : Prefetch(t, b, a) => UNCHANGED requests
    BY DEF Prefetch
  <2>2. \A op, b : Resolve(t, op, b) => UNCHANGED requests
    BY DEF Resolve
  <2>3. \A k, d : Wait(t, k, d) \/ DiscardTicket(t, k) => UNCHANGED requests
    BY DEF Wait, DiscardTicket
  <2>4. \A l : ReleaseLease(t, l) => UNCHANGED requests
    BY DEF ReleaseLease, unpin_locked
  <2>5. \A d, c : Drain(t, d) \/ WontNeed(t, c) => UNCHANGED requests
    BY DEF Drain, WontNeed
  <2> QED
    BY <1>1, <2>1, <2>2, <2>3, <2>4, <2>5 DEF Begin
<1>2. CASE LockStep(t)
  <2>1. \A l : ReleaseAll(t, l) => UNCHANGED requests
    BY DEF ReleaseAll, unpin_locked
  <2>2. ResolveLock(t) \/ TryResolveLock(t) \/ Acquire(t) => UNCHANGED requests
    BY DEF ResolveLock, TryResolveLock, Acquire
  <2> QED
    BY <1>2, <2>1, <2>2 DEF LockStep
<1>3. CASE SpuriousWake(t) \/ Timeout(t)
  BY <1>3 DEF SpuriousWake, Timeout
<1>4. CASE Refused(t)
  <2>1. \A k : PrefetchRefused(t, k) \/ ResolveRefused(t, k) => UNCHANGED requests
    BY DEF PrefetchRefused, ResolveRefused, SubmitRefused
  <2> QED
    BY <1>4, <2>1 DEF Refused
<1>5. CASE Alone(t)
  <2>1. PrefetchResident(t) \/ PrefetchJoin(t) \/ PrefetchDeclined(t) => UNCHANGED requests
    BY DEF PrefetchResident, PrefetchJoin, PrefetchDeclined
  <2>2. PrefetchReturn(t) \/ PinIndexed(t) \/ ResolveExhausted(t) => UNCHANGED requests
    BY DEF PrefetchReturn, PinIndexed, ResolveExhausted
  <2>3. \A l : Unwind(t, l) => UNCHANGED requests
    BY DEF Unwind, unpin_locked
  <2>4. UnwindReturn(t) \/ Sleep(t) \/ Return(t) => UNCHANGED requests
    BY DEF UnwindReturn, Sleep, Return
  <2>5. ResolveFailed(t) \/ TryResolveReturn(t) => UNCHANGED requests
    BY DEF ResolveFailed, TryResolveReturn
  <2> QED
    BY <1>5, <2>1, <2>2, <2>3, <2>4, <2>5 DEF Alone
<1> QED
  BY <1>1, <1>2, <1>3, <1>4, <1>5

\* An accepted submit adds one request.
LEMMA FillAdds ==
  ASSUME NEW t \in Threads, Submitting(t)
  PROVE  \E q : requests' = requests \union {q}
<1>1. PICK k \in SweepSteps("declared") : PrefetchFill(t, k) \/ ResolveFill(t, k)
  BY DEF Submitting
<1>2. SubmitAccepted(k, ThisChunk(t))
  BY <1>1, Zenon DEF PrefetchFill, ResolveFill
<1> QED
  BY <1>2, Zenon DEF SubmitAccepted

\* What shutdown tells the pool is an answer.
LEMMA CancelledAnswers == Answer([status |-> "cancelled", bytes |-> 0])
BY DEF Answer, FillResult, Status

\* Every step keeps what the pool promises when any backend fills it.
LEMMA PoolHalf ==
  ASSUME LeaseInv, TicketInv, [FilePoolNext]_allVars
  PROVE  LeaseInv' /\ TicketInv'
<1>1. ASSUME [Next]_vars PROVE LeaseInv' /\ TicketInv'
  BY <1>1, LeaseNext, TicketNext
<1>2. ASSUME NEW t \in Threads, ThreadStep(t) PROVE Next
  BY <1>2 DEF ThreadStep, Calls, Next
<1>3. ASSUME NEW t \in Threads, Locking(t) PROVE Next
  BY <1>3 DEF Locking, Next
<1>4. ASSUME NEW t \in Threads, InCall(t) PROVE Next
  <2>1. Submitting(t) \/ Refused(t) \/ Alone(t)
    BY <1>4 DEF InCall, Fill, Refusal
  <2>2. Step(t)
    BY <2>1 DEF Submitting, Refused, Alone, Step
  <2> QED
    BY <2>2 DEF Next
<1>5. ASSUME NEW w \in Workers, Deliver(w) PROVE Next
  <2>1. PICK result \in FillResults : Complete(worker[w].item.request, result)
    BY <1>5 DEF Deliver
  <2>2. worker[w].item.request \in requests
    BY <2>1 DEF Complete
  <2> QED
    BY <2>1, <2>2 DEF Next, Backend
<1>6. ASSUME NEW c \in Closers, CancelQueued(c) PROVE LeaseInv' /\ TicketInv'
  <2>1. PICK q, res : Complete(q, res) /\ res = [status |-> "cancelled", bytes |-> 0]
    BY <1>6 DEF CancelQueued
  <2>2. q \in requests /\ Answer(res)
    BY <2>1, CancelledAnswers DEF Complete
  <2>3. TypeOK'
    BY <2>1, <2>2, CompleteType DEF LeaseInv
  <2>4. LeaseInv'
    BY <2>1, <2>2, <2>3, CompleteStep
  <2> QED
    BY <2>1, <2>2, <2>4, CompleteTicket
<1>7. CASE \/ \E w \in Workers : WorkerAlone(w)
           \/ \E c \in Closers : CloserAlone(c) \/ ShutdownCall(c)
           \/ \E b \in inside : Leave(b)
           \/ Destroy \/ UNCHANGED allVars
  <2>1. UNCHANGED vars
    BY <1>7 DEF WorkerAlone, CloserAlone, ShutdownCall, Leave, Destroy, allVars
  <2> QED
    BY <1>1, <2>1
<1> QED
  BY <1>1, <1>2, <1>3, <1>4, <1>5, <1>6, <1>7 DEF FilePoolNext

-----------------------------------------------------------------------------
(***************************************************************************)
(* The theorems.                                                           *)
(***************************************************************************)

\* Every step keeps the backend's half.
LEMMA QueueNext ==
  ASSUME LeaseInv, LeaseInv', QueueInv, [FilePoolNext]_allVars
  PROVE  QueueInv'
<1>1. ASSUME NEW t \in Threads, ThreadStep(t) \/ Locking(t) PROVE QueueInv'
  <2>1. UNCHANGED requests
    BY <1>1, RequestsStay DEF ThreadStep, Locking, Calls
  <2>2. UNCHANGED <<queueVars, inside, destroyed>>
    BY <1>1 DEF ThreadStep, Locking, Calls
  <2> QED
    BY <2>1, <2>2, BackendStill DEF QueueInv, AfterDestroy
<1>2. ASSUME NEW t \in Threads, InCall(t) PROVE QueueInv'
  <2>1. ~destroyed /\ UNCHANGED <<inside, destroyed>>
    BY <1>2 DEF InCall, PoolUsable
  <2>2. AfterDestroy'
    BY <2>1 DEF AfterDestroy
  <2>3. CASE Fill(t)
    <3>1. PICK p : requests' = requests \union {p}
      BY <2>3, FillAdds DEF Fill
    <3>2. PICK q \in requests' \ requests : B!Enqueue(q)
      BY <2>3 DEF Fill
    <3>3. q \in Request /\ q \notin requests /\ requests' = requests \union {q}
      BY <3>1, <3>2 DEF LeaseInv, TypeOK
    <3> QED
      BY <2>2, <3>2, <3>3, EnqueueHolds
  <2>4. CASE Refusal(t) \/ (Alone(t) /\ UNCHANGED queueVars)
    <3>1. UNCHANGED queueVars /\ UNCHANGED requests
      BY <2>4, RequestsStay DEF Refusal
    <3> QED
      BY <2>2, <3>1, BackendStill
  <2> QED
    BY <1>2, <2>3, <2>4 DEF InCall
<1>3. ASSUME NEW w \in Workers, WorkerAlone(w) PROVE QueueInv'
  <2>1. UNCHANGED <<requests, inside, destroyed>>
    BY <1>3 DEF WorkerAlone, vars
  <2> QED
    BY <1>3, <2>1, DequeueHolds, IdleWorkerHolds DEF WorkerAlone
<1>4. ASSUME NEW c \in Closers, CloserAlone(c) \/ ShutdownCall(c) PROVE QueueInv'
  <2>1. UNCHANGED <<requests, inside, destroyed>>
    BY <1>4 DEF CloserAlone, ShutdownCall, vars
  <2> QED
    BY <1>4, <2>1, DropHolds, ShutdownFirstHolds, ShutdownReturns DEF CloserAlone, ShutdownCall
<1>5. ASSUME NEW b \in inside, Leave(b) PROVE QueueInv'
  <2>1. UNCHANGED <<queueVars, requests, destroyed>> /\ inside' = inside \ {b}
    BY <1>5 DEF Leave, vars
  <2> QED
    BY <2>1, BackendStill DEF QueueInv, AfterDestroy
<1>6. CASE Destroy
  <2>1. UNCHANGED <<queueVars, requests, inside>> /\ inside = {} /\ inFlight = 0
    BY <1>6 DEF Destroy, PoolUsable, Unlocked, CanDestroy, vars
  <2>2. IsFiniteSet(requests) /\ Cardinality(requests) = 0
    BY <2>1 DEF LeaseInv, PoolInv, FillsMatchRequests
  <2>3. requests = {}
    BY <2>2, FS_EmptySet
  <2> QED
    BY <2>1, <2>3, BackendStill DEF AfterDestroy
<1>7. CASE UNCHANGED allVars
  <2>1. UNCHANGED <<queueVars, requests, inside, destroyed>>
    BY <1>7 DEF allVars, vars
  <2> QED
    BY <2>1, BackendStill DEF QueueInv, AfterDestroy
<1> QED
  BY <1>1, <1>2, <1>3, <1>4, <1>5, <1>6, <1>7, DeliverHolds, CancelHolds DEF FilePoolNext

\* The pool's invariants and the queue's hold together, with any number of threads,
\* workers and shutdown calls.
THEOREM FilePoolInvariant == FilePoolSpec => [](LeaseInv /\ TicketInv /\ QueueInv)
<1>1. FilePoolInit => LeaseInv /\ TicketInv /\ QueueInv
  BY LeaseInit, TicketInit, QueueInit DEF FilePoolInit
<1>2. LeaseInv /\ TicketInv /\ QueueInv /\ [FilePoolNext]_allVars
        => LeaseInv' /\ TicketInv' /\ QueueInv'
  BY PoolHalf, QueueNext
<1> QED
  BY <1>1, <1>2, PTL DEF FilePoolSpec

\* Somebody keeps what is held.
LEMMA KeptIsHeld ==
  ASSUME QueueInv, NEW q \in Request
  PROVE  B!Keepers(q) # {} <=> Held(q)
<1>1. QueueShape
  BY DEF QueueInv
<1>2. ringSize \in Nat /\ \A c \in Closers : closer[c].queued \in Seq(B!Item)
  BY <1>1, QueueAssumption DEF QueueShape, CloserRecord
<1>3. (\E j \in 1 .. ringSize : B!Queue[j].request = q) <=> \E j \in Nat : QueueHas(j, q)
  BY <1>2 DEF QueueHas
<1>4. (\E v \in Workers : worker[v].pc = "perform" /\ worker[v].item.request = q)
        <=> \E v \in Workers : WorkerHas(v, q)
  BY DEF WorkerHas
<1>5. (\E d \in Closers : \E i \in DOMAIN closer[d].queued :
         closer[d].queued[i].request = q /\ (closer[d].pc = "count" => i # 1))
        <=> \E c \in Closers, i \in Nat : CloserHas(c, i, q)
  <2>1. \A d \in Closers : DOMAIN closer[d].queued \subseteq Nat
    BY <1>2
  <2> QED
    BY <2>1 DEF CloserHas
<1>6. B!Keepers(q) # {} <=>
        \/ \E j \in 1 .. ringSize : B!Queue[j].request = q
        \/ \E v \in Workers : worker[v].pc = "perform" /\ worker[v].item.request = q
        \/ \E d \in Closers : \E i \in DOMAIN closer[d].queued :
             closer[d].queued[i].request = q /\ (closer[d].pc = "count" => i # 1)
  BY DEF B!Keepers
<1> QED
  BY <1>3, <1>4, <1>5, <1>6 DEF Held

\* The pool and the backend agree on what is in flight, whatever the order in which
\* submits, reads, cancellations and shutdowns meet (start_fill, submit, worker_loop,
\* shutdown, on_complete).
THEOREM RequestsAgree == FilePoolSpec => []SameRequests
<1>1. LeaseInv /\ TicketInv /\ QueueInv => SameRequests
  <2> SUFFICES ASSUME LeaseInv, QueueInv PROVE SameRequests
    OBVIOUS
  <2>1. requests \subseteq Request
    BY DEF LeaseInv, TypeOK
  <2>2. \A q \in Request : q \in requests <=> B!Keepers(q) # {}
    BY KeptIsHeld DEF QueueInv, HeldExactly
  <2> QED
    BY <2>1, <2>2 DEF SameRequests
<1> QED
  BY <1>1, FilePoolInvariant, PTL

\* Once ~SlotPool's test has passed, no backend thread is inside the pool and none
\* will come back to it.
THEOREM PoolOutlivesItsFills == FilePoolSpec => []OutlivesItsFills
<1>1. LeaseInv /\ TicketInv /\ QueueInv => OutlivesItsFills
  BY KeptIsHeld DEF OutlivesItsFills, QueueInv, AfterDestroy, HeldExactly
<1> QED
  BY <1>1, FilePoolInvariant, PTL

\* What the pool promises its callers when any backend fills it, it promises when this
\* one does, cancelled fills and a shutdown at any moment included.
THEOREM PromisesHoldWithFiles ==
  FilePoolSpec => [](/\ LeaseBytesValid /\ PinsExact /\ FillsMatchRequests
                     /\ TicketTracking /\ NoTerminate /\ SleepersHaveCause)
<1>1. LeaseInv /\ TicketInv /\ QueueInv =>
        /\ LeaseBytesValid /\ PinsExact /\ FillsMatchRequests
        /\ TicketTracking /\ NoTerminate /\ SleepersHaveCause
  BY LeaseInvImplies, NoTerminateHolds DEF TicketInv, OpInv, SleepersHaveCause
<1> QED
  BY <1>1, FilePoolInvariant, PTL

=============================================================================
