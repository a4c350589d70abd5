----------------------- MODULE LocalFileBackendProofs -----------------------
(***************************************************************************)
(* The worker pool's safety, for any number of workers, issuers,           *)
(* administrators and shutdown calls and any ring capacity.                *)
(*                                                                         *)
(* BackendInv is the inductive invariant.  Its parts say which places of   *)
(* the ring are in use, who holds which request and whether the sink has   *)
(* its answer, how far the shutdown has come, and which handles are open.  *)
(***************************************************************************)
EXTENDS LocalFileBackend, FiniteSetTheorems, SequenceTheorems, TLAPS

-----------------------------------------------------------------------------
(***************************************************************************)
(* The inductive invariant.                                                *)
(***************************************************************************)
WorkerRecord == [pc : {"ready", "asleep", "perform", "count", "exited"},
                 item : Item \union {None},
                 category : {"none", "errors", "completed_ok", "short_reads"}]
CloserRecord == [pc : {"idle", "cancel", "count", "returned", "destroyed"},
                 queued : Seq(Item), drained : BOOLEAN]
AdminRecord == [pc : {"idle", "opened"}, file : Files \union {None},
                handle : Handles \union {None}]
StatsRecord == [accepted : Nat, completed_ok : Nat, short_reads : Nat, errors : Nat,
                cancelled : Nat, in_flight : Nat]

\* TypeOK with the domains and the fields it leaves open.
Shape ==
  /\ ring \in [0 .. Capacity - 1 -> Item \union {None}]
  /\ head \in 0 .. Capacity - 1 /\ ringSize \in 0 .. Capacity
  /\ shuttingDown \in BOOLEAN
  /\ sources \in Seq(SourceEntry) /\ Len(sources) <= MaxSources
  /\ stats \in StatsRecord
  /\ worker \in [Workers -> WorkerRecord]
  /\ admin \in [Admins -> AdminRecord]
  /\ closer \in [Closers -> CloserRecord]
  /\ files \in [Handles -> Sources \union {None}]
  /\ answers \in [Requests -> {0, 1}]

\* How far place p of the ring lies behind the head.
Behind(p) == IF p >= head THEN p - head ELSE p + Capacity - head

\* The items of the ring are the ringSize places from the head on.
RingWindow == \A p \in 0 .. Capacity - 1 : ring[p] # None <=> Behind(p) < ringSize

RingHas(p, q) == p \in 0 .. Capacity - 1 /\ ring[p] # None /\ ring[p].request = q
WorkerHas(w, q) == w \in Workers /\ worker[w].item # None /\ worker[w].item.request = q
CloserHas(c, i, q) == /\ c \in Closers /\ i \in DOMAIN closer[c].queued
                      /\ closer[c].queued[i].request = q

\* A worker has an item from Take to Count, and a counter to bump once it delivered.
WorkersBusy ==
  \A w \in Workers : /\ worker[w].item # None <=> worker[w].pc \in {"perform", "count"}
                     /\ worker[w].pc = "count" => worker[w].category # "none"

\* No request is in two places.
HeldOnce ==
  \A q \in Requests :
    /\ \A p, r \in 0 .. Capacity - 1 : RingHas(p, q) /\ RingHas(r, q) => p = r
    /\ \A w, v \in Workers : WorkerHas(w, q) /\ WorkerHas(v, q) => w = v
    /\ \A c \in Closers, i, j \in Nat : CloserHas(c, i, q) /\ CloserHas(c, j, q) => i = j
    /\ \A p \in 0 .. Capacity - 1, w \in Workers : ~(RingHas(p, q) /\ WorkerHas(w, q))
    /\ \A c \in Closers, i \in Nat, w \in Workers : ~(CloserHas(c, i, q) /\ WorkerHas(w, q))

\* A held request is answered when its holder has delivered and only counts.
AnsweredByHolder ==
  \A q \in Requests :
    /\ \A p \in 0 .. Capacity - 1 : RingHas(p, q) => answers[q] = 0
    /\ \A w \in Workers : WorkerHas(w, q) => (answers[q] = 1 <=> worker[w].pc = "count")
    /\ \A c \in Closers, i \in Nat : CloserHas(c, i, q) =>
         (answers[q] = 1 <=> closer[c].pc = "count" /\ i = 1)

\* One shutdown call does the work, what was queued is its to cancel, and it does not
\* return before the workers are gone.
ShutdownPhase ==
  /\ shuttingDown => ringSize = 0 /\ \E c \in Closers : closer[c].drained
  /\ \A c \in Closers :
       /\ closer[c].drained => shuttingDown /\ closer[c].pc # "idle"
       /\ closer[c].pc # "idle" => shuttingDown
       /\ closer[c].pc \in {"cancel", "count"} => closer[c].drained
       /\ closer[c].queued # <<>> => closer[c].pc \in {"cancel", "count"}
       /\ closer[c].pc = "count" => closer[c].queued # <<>>
       /\ closer[c].pc = "destroyed" => c = Owner
       /\ closer[c].drained /\ closer[c].pc \in {"returned", "destroyed"} => AllExited
  /\ \A c, d \in Closers : closer[c].drained /\ closer[d].drained => c = d
  /\ ~Alive => /\ \A c \in Closers \ {Owner} : closer[c].pc \in {"idle", "returned"}
               /\ \A a \in Admins : admin[a].pc = "idle"

Opened(h, source) == \E i \in DOMAIN sources : sources[i].handle = h /\ sources[i].source = source

\* An item that still has to be read names a registered handle of its source.
ItemNamesFile(item) == item.known => item.handle \in Handles
                                     /\ Opened(item.handle, SourceOf[item.request])

\* Registered handles are open until the destructor closes them, a registration's
\* handle is its own, and nothing else is open.
HandleOwners ==
  /\ \A i, j \in DOMAIN sources : sources[i].source = sources[j].source => i = j
  /\ \A p \in 0 .. Capacity - 1 : ring[p] # None => ItemNamesFile(ring[p])
  /\ \A w \in Workers : worker[w].item # None => ItemNamesFile(worker[w].item)
  /\ closer[Owner].pc # "destroyed" =>
       \A i \in DOMAIN sources : files[sources[i].handle] = sources[i].source
  /\ \A a \in Admins : IF admin[a].pc = "idle" THEN admin[a].handle = None
                       ELSE /\ admin[a].handle \in Handles /\ admin[a].file \in Files
                            /\ files[admin[a].handle] = admin[a].file.source
                            /\ \A i \in DOMAIN sources : sources[i].handle # admin[a].handle
  /\ \A a, b \in Admins : admin[a].handle = admin[b].handle /\ admin[a].handle # None => a = b
  /\ \A h \in Handles : files[h] # None =>
       \/ \E i \in DOMAIN sources : sources[i].handle = h /\ closer[Owner].pc # "destroyed"
       \/ \E a \in Admins : admin[a].handle = h

\* The items that shutdown still has to cancel or to count.
QueuedOf(calls) == UNION {{c} \X DOMAIN calls[c].queued : c \in Closers}
Queued == QueuedOf(closer)
Busy == {w \in Workers : worker[w].pc \in {"perform", "count"}}

Counters ==
  /\ stats.in_flight = Cardinality(Busy)
  /\ stats.accepted = ringSize + stats.in_flight + stats.completed_ok + stats.short_reads
                      + stats.errors + stats.cancelled + Cardinality(Queued)

BackendInv ==
  /\ Shape /\ RingWindow /\ WorkersBusy /\ HeldOnce /\ AnsweredByHolder
  /\ ShutdownPhase /\ HandleOwners /\ Counters

\* q was submitted: it is answered or somebody holds it.
Entered(q) == \/ answers[q] = 1
              \/ \E p : RingHas(p, q)
              \/ \E w : WorkerHas(w, q)
              \/ \E c, i : CloserHas(c, i, q)
NothingEnters == \A q \in Requests : Entered(q)' <=> Entered(q)

-----------------------------------------------------------------------------
(***************************************************************************)
(* Places of the ring.                                                     *)
(***************************************************************************)

\* An index less than two rings away wraps at most once.
LEMMA Wrap ==
  ASSUME NEW n \in Nat \ {0}, NEW x \in Int, 0 <= x, x < n + n
  PROVE  (x < n => x % n = x) /\ (x >= n => x % n = x - n)
<1>1. PICK d \in Int, r \in Int : d = x \div n /\ r = x % n
  OBVIOUS
<1>2. x = n * d + r /\ 0 <= r /\ r < n
  BY <1>1
<1>3. (d >= 2 => n * d >= n + n) /\ (d <= -1 => n * d <= -n)
  OBVIOUS
<1>4. d = 0 \/ d = 1
  BY <1>2, <1>3
<1> QED
  BY <1>1, <1>2, <1>4

\* The tail is the place just behind the window; a step of the head brings every
\* other place one nearer; the j-th item lies j - 1 places behind the head.
LEMMA RingPlaces ==
  ASSUME Shape
  PROVE  /\ ringSize < Capacity => /\ TailPosition \in 0 .. Capacity - 1
                                   /\ Behind(TailPosition) = ringSize
         /\ (head + 1) % Capacity = IF head + 1 < Capacity THEN head + 1 ELSE 0
         /\ (head + ringSize) % Capacity \in 0 .. Capacity - 1
         /\ \A j \in 1 .. ringSize : /\ (head + j - 1) % Capacity \in 0 .. Capacity - 1
                                     /\ Behind((head + j - 1) % Capacity) = j - 1
<1>1. /\ Capacity \in Nat \ {0} /\ head \in Int /\ 0 <= head /\ head < Capacity
      /\ ringSize \in Int /\ 0 <= ringSize /\ ringSize <= Capacity
  BY BackendAssumption DEF Shape
<1>2. ASSUME ringSize < Capacity
      PROVE  TailPosition \in 0 .. Capacity - 1 /\ Behind(TailPosition) = ringSize
  <2>1. PICK x \in Int : x = head + ringSize /\ 0 <= x /\ x < Capacity + Capacity
    BY <1>1
  <2>2. /\ x < Capacity => x % Capacity = x
        /\ x >= Capacity => x % Capacity = x - Capacity
    BY <1>1, <1>2, <2>1, Wrap
  <2> QED
    BY <1>1, <1>2, <2>1, <2>2 DEF TailPosition, Behind
<1>3. (head + 1) % Capacity = IF head + 1 < Capacity THEN head + 1 ELSE 0
  <2>1. PICK x \in Int : x = head + 1 /\ 0 <= x /\ x < Capacity + Capacity
    BY <1>1
  <2>2. /\ x < Capacity => x % Capacity = x
        /\ x >= Capacity => x % Capacity = x - Capacity
    BY <1>1, <2>1, Wrap
  <2> QED
    BY <1>1, <2>1, <2>2
<1>4. (head + ringSize) % Capacity \in 0 .. Capacity - 1
  <2>1. PICK x \in Int : x = head + ringSize /\ 0 <= x /\ x < Capacity + Capacity
    BY <1>1
  <2>2. /\ x < Capacity => x % Capacity = x
        /\ x >= Capacity => x % Capacity = x - Capacity
    BY <1>1, <2>1, Wrap
  <2> QED
    BY <1>1, <2>1, <2>2
<1>5. ASSUME NEW j \in 1 .. ringSize
      PROVE  /\ (head + j - 1) % Capacity \in 0 .. Capacity - 1
             /\ Behind((head + j - 1) % Capacity) = j - 1
  <2>1. PICK x \in Int : x = head + j - 1 /\ 0 <= x /\ x < Capacity + Capacity
    BY <1>1
  <2>2. /\ x < Capacity => x % Capacity = x
        /\ x >= Capacity => x % Capacity = x - Capacity
    BY <1>1, <2>1, Wrap
  <2> QED
    BY <1>1, <2>1, <2>2 DEF Behind
<1> QED
  BY <1>2, <1>3, <1>4, <1>5

\* The item in a place is as far from the head as the place lies behind it.
LEMMA PlaceInQueue ==
  ASSUME Shape, NEW p \in 0 .. Capacity - 1, Behind(p) < ringSize
  PROVE  Behind(p) + 1 \in 1 .. ringSize /\ (head + (Behind(p) + 1) - 1) % Capacity = p
<1>0. /\ Capacity \in Nat \ {0} /\ head \in Int /\ 0 <= head /\ head < Capacity
      /\ ringSize \in Int /\ 0 <= ringSize /\ ringSize <= Capacity
  BY BackendAssumption DEF Shape
<1>1. Behind(p) \in Nat
  BY <1>0 DEF Behind
<1>2. PICK x \in Int : x = head + Behind(p) /\ 0 <= x /\ x < Capacity + Capacity
  BY <1>0, <1>1 DEF Behind
<1>3. /\ x < Capacity => x % Capacity = x
      /\ x >= Capacity => x % Capacity = x - Capacity
  BY <1>0, <1>1, <1>2, Wrap DEF Behind
<1>4. x % Capacity = p
  BY <1>0, <1>2, <1>3 DEF Behind
<1>5. head + (Behind(p) + 1) - 1 = x
  BY <1>0, <1>1, <1>2
<1> QED
  BY <1>0, <1>1, <1>4, <1>5

\* Two places are equally far behind the head only when they are the same.
LEMMA BehindInjective ==
  ASSUME Shape, NEW p \in 0 .. Capacity - 1, NEW r \in 0 .. Capacity - 1,
         Behind(p) = Behind(r)
  PROVE  p = r
BY BackendAssumption DEF Shape, Behind

-----------------------------------------------------------------------------
(***************************************************************************)
(* What submit puts into the ring.                                         *)
(***************************************************************************)
LEMMA WorkItemFits ==
  ASSUME Shape, HandleOwners, NEW q \in Requests
  PROVE  /\ WorkItemOf(q) \in Item
         /\ WorkItemOf(q).request = q
         /\ ItemNamesFile(WorkItemOf(q))
<1> DEFINE found == {i \in DOMAIN sources : sources[i].source = SourceOf[q]}
<1>1. CASE found = {}
  <2>1. WorkItemOf(q) = [request |-> q, handle |-> None, access |-> "buffered", known |-> FALSE]
    BY <1>1 DEF WorkItemOf
  <2>2. PICK no \in BOOLEAN : no = FALSE
    OBVIOUS
  <2>3. WorkItemOf(q) = [request |-> q, handle |-> None, access |-> "buffered", known |-> no]
    BY <2>1, <2>2, Zenon
  <2>4. WorkItemOf(q) \in Item /\ WorkItemOf(q).request = q /\ WorkItemOf(q).known = no
    BY <2>3 DEF Item
  <2> QED
    BY <2>2, <2>4 DEF ItemNamesFile
<1>2. CASE found # {}
  <2>1. PICK k \in DOMAIN sources : sources[k].source = SourceOf[q]
    BY <1>2
  <2>2. \A i \in found : i = k
    BY <2>1 DEF HandleOwners
  <2>3. found = {k}
    BY <2>1, <2>2
  <2>4. DOMAIN sources = 1 .. Len(sources) /\ Len(sources) \in Nat
    BY DEF Shape
  <2>5. k \in Int
    BY <2>1, <2>4
  <2>6. Min({k}) = k
    BY <2>5 DEF Min
  <2>7. PICK yes \in BOOLEAN : yes = TRUE
    OBVIOUS
  <2>8. WorkItemOf(q) = [request |-> q, handle |-> sources[k].handle,
                         access |-> sources[k].access, known |-> TRUE]
    BY <1>2, <2>3, <2>6, Zenon DEF WorkItemOf
  <2>9. WorkItemOf(q) = [request |-> q, handle |-> sources[k].handle,
                         access |-> sources[k].access, known |-> yes]
    BY <2>7, <2>8, Zenon
  <2>10. sources[k] \in SourceEntry
    BY <2>1, <2>4 DEF Shape
  <2>11. sources[k].handle \in Handles /\ sources[k].access \in {"buffered", "uncached"}
    BY <2>10 DEF SourceEntry
  <2>12. /\ WorkItemOf(q) \in Item /\ WorkItemOf(q).request = q
         /\ WorkItemOf(q).handle = sources[k].handle
    BY <2>9, <2>11 DEF Item
  <2>13. Opened(sources[k].handle, SourceOf[q])
    BY <2>1 DEF Opened
  <2> QED
    BY <2>11, <2>12, <2>13 DEF ItemNamesFile
<1> QED
  BY <1>1, <1>2

-----------------------------------------------------------------------------
(***************************************************************************)
(* Counting.                                                               *)
(***************************************************************************)
LEMMA BusyFinite == IsFiniteSet(Busy)
<1>1. Busy \subseteq Workers
  BY DEF Busy
<1> QED
  BY <1>1, BackendAssumption, FS_Subset

\* Nobody has a queue to cancel, or one call has the whole of it.
LEMMA QueuedCountOf ==
  ASSUME NEW calls \in [Closers -> CloserRecord]
  PROVE  /\ (\A c \in Closers : calls[c].queued = <<>>) => Cardinality(QueuedOf(calls)) = 0
         /\ \A c \in Closers : (\A d \in Closers \ {c} : calls[d].queued = <<>>) =>
              Cardinality(QueuedOf(calls)) = Len(calls[c].queued)
<1>1. \A c \in Closers : /\ calls[c].queued \in Seq(Item)
                         /\ Len(calls[c].queued) \in Nat
                         /\ DOMAIN calls[c].queued = 1 .. Len(calls[c].queued)
  BY DEF CloserRecord
<1>2. ASSUME \A c \in Closers : calls[c].queued = <<>>
      PROVE  Cardinality(QueuedOf(calls)) = 0
  <2>1. \A c \in Closers : {c} \X DOMAIN calls[c].queued = {}
    BY <1>1, <1>2
  <2>2. QueuedOf(calls) = {}
    BY <2>1 DEF QueuedOf
  <2> QED
    BY <2>2, FS_EmptySet
<1>3. ASSUME NEW c \in Closers, \A d \in Closers \ {c} : calls[d].queued = <<>>
      PROVE  Cardinality(QueuedOf(calls)) = Len(calls[c].queued)
  <2>1. \A d \in Closers \ {c} : {d} \X DOMAIN calls[d].queued = {}
    BY <1>1, <1>3
  <2>2. QueuedOf(calls) = {c} \X DOMAIN calls[c].queued
    BY <2>1 DEF QueuedOf
  <2>3. QueuedOf(calls) = {c} \X (1 .. Len(calls[c].queued))
    BY <1>1, <2>2
  <2>4. IsFiniteSet({c}) /\ Cardinality({c}) = 1
    BY FS_Singleton
  <2>6. PICK n \in Nat : n = Len(calls[c].queued)
    BY <1>1
  <2>7. IsFiniteSet(1 .. n) /\ Cardinality(1 .. n) = n
    BY FS_Interval
  <2>5. Cardinality(QueuedOf(calls)) = Cardinality({c}) * Cardinality(1 .. Len(calls[c].queued))
    BY <2>3, <2>4, <2>6, <2>7, FS_Product, Zenon
  <2> QED
    BY <2>4, <2>5, <2>6, <2>7
<1> QED
  BY <1>2, <1>3

LEMMA QueuedCount ==
  ASSUME Shape
  PROVE  /\ (\A c \in Closers : closer[c].queued = <<>>) => Cardinality(Queued) = 0
         /\ \A c \in Closers : (\A d \in Closers \ {c} : closer[d].queued = <<>>) =>
              Cardinality(Queued) = Len(closer[c].queued)
BY QueuedCountOf DEF Shape, Queued

\* worker_loop's: one item more in flight.
LEMMA TakenStats ==
  ASSUME NEW s \in StatsRecord, NEW t, t = [s EXCEPT !.in_flight = @ + 1]
  PROVE  /\ t \in StatsRecord
         /\ t.accepted = s.accepted /\ t.in_flight = s.in_flight + 1
         /\ t.completed_ok = s.completed_ok /\ t.short_reads = s.short_reads
         /\ t.errors = s.errors /\ t.cancelled = s.cancelled
BY DEF StatsRecord

\* At most one call has a queue, so there is a number to count.
LEMMA QueuedIsCounted ==
  ASSUME Shape, ShutdownPhase
  PROVE  Cardinality(Queued) \in Nat
<1>1. CASE \A c \in Closers : closer[c].queued = <<>>
  BY <1>1, QueuedCount
<1>2. ASSUME NEW c \in Closers, closer[c].queued # <<>>
      PROVE  Cardinality(Queued) \in Nat
  <2>1. \A d \in Closers \ {c} : closer[d].queued = <<>>
    BY <1>2 DEF ShutdownPhase
  <2>2. Cardinality(Queued) = Len(closer[c].queued)
    BY <2>1, QueuedCount
  <2>3. closer[c].queued \in Seq(Item)
    BY DEF Shape, CloserRecord
  <2> QED
    BY <2>2, <2>3
<1> QED
  BY <1>1, <1>2

-----------------------------------------------------------------------------
(***************************************************************************)
(* The invariant holds at first.                                           *)
(***************************************************************************)
LEMMA InitHolds ==
  ASSUME Init
  PROVE  BackendInv
<1> USE DEF Init
<1>1. Capacity \in Nat \ {0} /\ None \notin Item /\ None \notin Handles
  BY BackendAssumption
<1>2. Shape
  <2>1. Idle \in WorkerRecord
    BY DEF Idle, WorkerRecord
  <2>2. NoCall \in CloserRecord
    <3>1. PICK no \in BOOLEAN : no = FALSE
      OBVIOUS
    <3>2. NoCall = [pc |-> "idle", queued |-> <<>>, drained |-> no]
      BY <3>1, Zenon DEF NoCall
    <3> QED
      BY <3>2 DEF CloserRecord
  <2>3. NoRegistration \in AdminRecord
    BY DEF NoRegistration, AdminRecord
  <2>4. stats \in StatsRecord
    BY DEF StatsRecord
  <2>5. sources \in Seq(SourceEntry) /\ Len(sources) <= MaxSources
    BY BackendAssumption
  <2>6. shuttingDown \in BOOLEAN
    OBVIOUS
  <2> QED
    BY <1>1, <2>1, <2>2, <2>3, <2>4, <2>5, <2>6 DEF Shape
<1>3. RingWindow
  BY <1>1 DEF RingWindow, Behind
<1>4. /\ \A w \in Workers : worker[w] = Idle
      /\ \A c \in Closers : closer[c] = NoCall
      /\ \A a \in Admins : admin[a] = NoRegistration
  OBVIOUS
<1>5. \A w \in Workers : worker[w].pc = "ready" /\ worker[w].item = None
  BY <1>4 DEF Idle
<1>6. \A c \in Closers : /\ closer[c].pc = "idle" /\ closer[c].queued = <<>>
                         /\ ~closer[c].drained
  BY <1>4, Zenon DEF NoCall
<1>7. \A a \in Admins : admin[a].pc = "idle" /\ admin[a].handle = None
  BY <1>4 DEF NoRegistration
<1>8. WorkersBusy
  BY <1>5 DEF WorkersBusy
<1>9. /\ \A p, q : ~RingHas(p, q)
      /\ \A w, q : ~WorkerHas(w, q)
      /\ \A c, i, q : ~CloserHas(c, i, q)
  BY <1>5, <1>6 DEF RingHas, WorkerHas, CloserHas
<1>10. HeldOnce /\ AnsweredByHolder
  BY <1>9 DEF HeldOnce, AnsweredByHolder
<1>11. ShutdownPhase
  BY <1>6, BackendAssumption DEF ShutdownPhase, Alive
<1>12. HandleOwners
  BY <1>1, <1>5, <1>6, <1>7 DEF HandleOwners
<1>13. Counters
  <2>1. Cardinality(Queued) = 0
    BY <1>2, <1>6, QueuedCount
  <2>2. Busy = {}
    BY <1>5 DEF Busy
  <2>3. Cardinality(Busy) = 0
    BY <2>2, FS_EmptySet
  <2> QED
    BY <2>1, <2>3 DEF Counters
<1> QED
  BY <1>2, <1>3, <1>8, <1>10, <1>11, <1>12, <1>13 DEF BackendInv

-----------------------------------------------------------------------------
(***************************************************************************)
(* Steps between waiting, looking and being gone.                          *)
(***************************************************************************)
QuietWorkers ==
  /\ worker' \in [Workers -> WorkerRecord]
  /\ \A w \in Workers :
       /\ worker'[w].item = worker[w].item /\ worker'[w].category = worker[w].category
       /\ \/ worker'[w].pc = worker[w].pc
          \/ worker[w].pc = "asleep" /\ worker'[w].pc = "ready"
          \/ worker[w].pc = "ready" /\ worker'[w].pc \in {"asleep", "exited"}

\* Such a step touches no item, no busy worker and no worker that is gone.
LEMMA QuietFacts ==
  ASSUME Shape, WorkersBusy, QuietWorkers
  PROVE  /\ WorkersBusy'
         /\ Busy' = Busy
         /\ AllExited => AllExited'
         /\ \A w, q : WorkerHas(w, q)' <=> WorkerHas(w, q)
         /\ \A w \in Workers : worker[w].item # None => worker'[w].pc = worker[w].pc
<1>1. WorkersBusy'
  BY DEF QuietWorkers, WorkersBusy
<1>2. Busy' = Busy
  BY DEF QuietWorkers, Busy
<1>3. AllExited => AllExited'
  BY DEF QuietWorkers, AllExited
<1>4. \A w, q : WorkerHas(w, q)' <=> WorkerHas(w, q)
  BY DEF QuietWorkers, WorkerHas
<1>5. \A w \in Workers : worker[w].item # None => worker'[w].pc = worker[w].pc
  BY DEF QuietWorkers, WorkersBusy
<1> QED
  BY <1>1, <1>2, <1>3, <1>4, <1>5

LEMMA NotifyOneQuiet ==
  ASSUME Shape, notify_one
  PROVE  QuietWorkers
<1>1. CASE UNCHANGED worker
  BY <1>1 DEF QuietWorkers, Shape
<1>2. ASSUME NEW w \in Workers, worker[w].pc = "asleep",
             worker' = [worker EXCEPT ![w].pc = "ready"]
      PROVE  QuietWorkers
  BY <1>2 DEF QuietWorkers, Shape, WorkerRecord
<1> QED
  BY <1>1, <1>2 DEF notify_one

LEMMA NotifyAllQuiet ==
  ASSUME Shape, notify_all
  PROVE  QuietWorkers
BY DEF notify_all, QuietWorkers, Shape, WorkerRecord

LEMMA WorkerMoves ==
  ASSUME Shape, NEW w \in Workers, WorkerSleep(w) \/ WorkerExit(w) \/ SpuriousWake(w)
  PROVE  QuietWorkers
<1>1. PICK pc \in {"ready", "asleep", "exited"} : worker' = [worker EXCEPT ![w].pc = pc]
  BY DEF WorkerSleep, WorkerExit, SpuriousWake
<1>2. \/ worker[w].pc = "asleep" /\ pc = "ready"
      \/ worker[w].pc = "ready" /\ pc \in {"asleep", "exited"}
  <2>1. worker'[w].pc = pc
    BY <1>1 DEF Shape, WorkerRecord
  <2>2. CASE WorkerSleep(w)
    BY <2>1, <2>2 DEF WorkerSleep, Shape, WorkerRecord
  <2>3. CASE WorkerExit(w)
    BY <2>1, <2>3 DEF WorkerExit, Shape, WorkerRecord
  <2>4. CASE SpuriousWake(w)
    BY <2>1, <2>4 DEF SpuriousWake, Shape, WorkerRecord
  <2> QED
    BY <2>2, <2>3, <2>4
<1> QED
  BY <1>1, <1>2 DEF QuietWorkers, Shape, WorkerRecord

LEMMA QuietHolds ==
  ASSUME BackendInv, QuietWorkers,
         UNCHANGED <<ringVars, shuttingDown, sources, stats, admin, closer, files, answers>>
  PROVE  BackendInv' /\ NothingEnters
<1> USE DEF ringVars
<1>1. /\ WorkersBusy' /\ Busy' = Busy /\ (AllExited => AllExited')
      /\ \A w, q : WorkerHas(w, q)' <=> WorkerHas(w, q)
      /\ \A w \in Workers : worker[w].item # None => worker'[w].pc = worker[w].pc
  BY QuietFacts DEF BackendInv
<1>2. Shape' /\ RingWindow'
  BY DEF BackendInv, Shape, RingWindow, Behind, QuietWorkers
<1>3. /\ \A p, q : RingHas(p, q)' <=> RingHas(p, q)
      /\ \A c, i, q : CloserHas(c, i, q)' <=> CloserHas(c, i, q)
  BY DEF RingHas, CloserHas
<1>4. HeldOnce'
  BY <1>1, <1>3 DEF BackendInv, HeldOnce
<1>5. AnsweredByHolder'
  <2>1. \A w, q : WorkerHas(w, q) => w \in Workers /\ worker[w].item # None
    BY DEF WorkerHas
  <2> QED
    BY <1>1, <1>3, <2>1 DEF BackendInv, AnsweredByHolder
<1>6. ShutdownPhase'
  BY <1>1 DEF BackendInv, ShutdownPhase, Alive
<1>7. HandleOwners'
  BY DEF BackendInv, HandleOwners, ItemNamesFile, Opened, QuietWorkers
<1>8. Counters'
  BY <1>1 DEF BackendInv, Counters, Queued
<1>9. NothingEnters
  BY <1>1, <1>3 DEF NothingEnters, Entered
<1> QED
  BY <1>9, <1>1, <1>2, <1>4, <1>5, <1>6, <1>7, <1>8 DEF BackendInv

-----------------------------------------------------------------------------
(***************************************************************************)
(* register_file.                                                          *)
(***************************************************************************)

\* A registration leaves the requests and their holders alone.
LEMMA RegistrationFrame ==
  ASSUME BackendInv,
         UNCHANGED <<ringVars, shuttingDown, stats, worker, closer, answers>>
  PROVE  /\ RingWindow' /\ WorkersBusy' /\ HeldOnce' /\ AnsweredByHolder' /\ Counters'
         /\ (\A a \in Admins : ~Alive => admin'[a].pc = "idle") => ShutdownPhase'
         /\ NothingEnters
<1> USE DEF ringVars
<1>1. RingWindow' /\ WorkersBusy' /\ Counters'
  BY DEF BackendInv, RingWindow, Behind, WorkersBusy, Counters, Queued, Busy
<1>2. /\ \A p, q : RingHas(p, q)' <=> RingHas(p, q)
      /\ \A w, q : WorkerHas(w, q)' <=> WorkerHas(w, q)
      /\ \A c, i, q : CloserHas(c, i, q)' <=> CloserHas(c, i, q)
  BY DEF RingHas, WorkerHas, CloserHas
<1>3. HeldOnce' /\ AnsweredByHolder'
  BY <1>2 DEF BackendInv, HeldOnce, AnsweredByHolder
<1>4. ASSUME \A a \in Admins : ~Alive => admin'[a].pc = "idle"
      PROVE  ShutdownPhase'
  BY <1>4 DEF BackendInv, ShutdownPhase, Alive, AllExited
<1>5. NothingEnters
  BY <1>2 DEF NothingEnters, Entered
<1> QED
  BY <1>5, <1>1, <1>3, <1>4

LEMMA OpenHolds ==
  ASSUME BackendInv, NEW a \in Admins, NEW f \in Files, NEW h \in Handles,
         RegisterOpen(a, f, h)
  PROVE  BackendInv' /\ NothingEnters
<1> USE DEF RegisterOpen
<1>1. f.source \in Sources /\ f.source # None /\ h # None
  BY BackendAssumption DEF Sources
<1>2. PICK call \in AdminRecord :
        /\ call.pc = "opened" /\ call.file = f /\ call.handle = h
        /\ admin' = [admin EXCEPT ![a] = call]
  BY DEF AdminRecord
<1>3. Shape'
  BY <1>1, <1>2 DEF BackendInv, Shape, ringVars
<1>4. RingWindow' /\ WorkersBusy' /\ HeldOnce' /\ AnsweredByHolder' /\ Counters'
  BY RegistrationFrame
<1>5. ShutdownPhase'
  BY RegistrationFrame
<1>6. /\ files'[h] = f.source /\ \A g \in Handles \ {h} : files'[g] = files[g]
      /\ admin'[a] = call /\ \A b \in Admins \ {a} : admin'[b] = admin[b]
  BY <1>2 DEF BackendInv, Shape
<1>7. /\ \A i \in DOMAIN sources : sources[i].handle \in Handles /\ sources[i].source # None
      /\ closer[Owner].pc # "destroyed" /\ \A b \in Admins : admin[b].file \in Files => admin[b].file.source # None
  <2>1. \A i \in DOMAIN sources : sources[i] \in SourceEntry
    BY DEF BackendInv, Shape
  <2>2. \A g \in Files : g.source \in Sources
    BY DEF Sources
  <2> QED
    BY <2>1, <2>2, BackendAssumption DEF SourceEntry, Alive
<1>8. /\ \A i \in DOMAIN sources : sources[i].handle # h
      /\ \A b \in Admins : admin[b].handle # h
  <2>1. \A i \in DOMAIN sources : sources[i].handle # h
    BY <1>7 DEF BackendInv, HandleOwners
  <2>2. ASSUME NEW b \in Admins PROVE admin[b].handle # h
    BY <1>1, <1>7 DEF BackendInv, HandleOwners
  <2> QED
    BY <2>1, <2>2
<1>9. HandleOwners'
  <2> USE DEF BackendInv, HandleOwners
  <2>1. (\A i, j \in DOMAIN sources : sources[i].source = sources[j].source => i = j)'
    OBVIOUS
  <2>2. /\ (\A p \in 0 .. Capacity - 1 : ring[p] # None => ItemNamesFile(ring[p]))'
        /\ (\A w \in Workers : worker[w].item # None => ItemNamesFile(worker[w].item))'
    BY DEF ringVars, ItemNamesFile, Opened
  <2>3. (closer[Owner].pc # "destroyed" =>
           \A i \in DOMAIN sources : files[sources[i].handle] = sources[i].source)'
    BY <1>6, <1>7, <1>8
  <2>4. ASSUME NEW b \in Admins
        PROVE  (IF admin[b].pc = "idle" THEN admin[b].handle = None
                ELSE /\ admin[b].handle \in Handles /\ admin[b].file \in Files
                     /\ files[admin[b].handle] = admin[b].file.source
                     /\ \A i \in DOMAIN sources : sources[i].handle # admin[b].handle)'
    BY <1>2, <1>6, <1>8
  <2>5. (\A b, d \in Admins : admin[b].handle = admin[d].handle /\ admin[b].handle # None => b = d)'
    BY <1>2, <1>6, <1>8
  <2>6. ASSUME NEW g \in Handles, files'[g] # None
        PROVE  \/ \E i \in DOMAIN sources : sources[i].handle = g /\ closer[Owner].pc # "destroyed"
               \/ \E b \in Admins : admin'[b].handle = g
    <3>1. CASE g = h
      BY <1>2, <1>6, <3>1
    <3>2. CASE g # h
      <4>1. files[g] # None
        BY <1>6, <2>6, <3>2
      <4>2. \A b \in Admins : admin[b].handle = g => b # a
        BY <4>1, BackendAssumption
      <4> QED
        BY <1>6, <4>1, <4>2
    <3> QED
      BY <3>1, <3>2
  <2> QED
    BY <2>1, <2>2, <2>3, <2>4, <2>5, <2>6
<1>10. NothingEnters
  BY RegistrationFrame
<1> QED
  BY <1>10, <1>3, <1>4, <1>5, <1>9 DEF BackendInv

LEMMA RecordHolds ==
  ASSUME BackendInv, NEW a \in Admins, RegisterRecord(a)
  PROVE  BackendInv' /\ NothingEnters
<1>0. /\ admin[a].pc = "opened"
      /\ admin' = [admin EXCEPT ![a] = NoRegistration]
      /\ UNCHANGED <<ringVars, shuttingDown, stats, worker, closer, answers>>
  BY DEF RegisterRecord
<1> USE <1>0
<1>1. PICK f, h : f = admin[a].file /\ h = admin[a].handle
  OBVIOUS
<1>2. /\ f \in Files /\ h \in Handles /\ h # None /\ f.source \in Sources /\ f.source # None
      /\ f.access \in {"buffered", "uncached"} /\ files[h] = f.source
      /\ \A i \in DOMAIN sources : sources[i].handle # h
      /\ \A b \in Admins \ {a} : admin[b].handle # h
  BY <1>1, BackendAssumption DEF BackendInv, HandleOwners, Sources
<1>3. NoRegistration \in AdminRecord /\ NoRegistration.pc = "idle" /\ NoRegistration.handle = None
  BY DEF NoRegistration, AdminRecord
<1>4. admin'[a] = NoRegistration /\ \A b \in Admins \ {a} : admin'[b] = admin[b]
  BY DEF BackendInv, Shape
<1>5. RingWindow' /\ WorkersBusy' /\ HeldOnce' /\ AnsweredByHolder' /\ Counters'
  BY RegistrationFrame
<1>6. ShutdownPhase'
  <2>1. \A b \in Admins : ~Alive => admin'[b].pc = "idle"
    BY <1>3, <1>4 DEF BackendInv, ShutdownPhase
  <2> QED
    BY <2>1, RegistrationFrame
<1>7. closer[Owner].pc = "idle" /\ closer[Owner].pc # "destroyed"
  BY DEF BackendInv, ShutdownPhase, Alive
<1>8. /\ sources \in Seq(SourceEntry)
      /\ DOMAIN sources = 1 .. Len(sources) /\ Len(sources) \in Nat
      /\ \A i \in DOMAIN sources : sources[i].handle \in Handles
  <2>1. sources \in Seq(SourceEntry)
    BY DEF BackendInv, Shape
  <2>2. DOMAIN sources = 1 .. Len(sources) /\ Len(sources) \in Nat
    BY <2>1
  <2>3. \A i \in DOMAIN sources : sources[i] \in SourceEntry
    BY <2>1, <2>2
  <2> QED
    BY <2>1, <2>2, <2>3 DEF SourceEntry
<1>9. NothingEnters
  BY <1>0, RegistrationFrame
<1>10. CASE files' = close_handle(h) /\ UNCHANGED sources
  <2>1. files'[h] = None /\ \A g \in Handles \ {h} : files'[g] = files[g]
    BY <1>2, <1>10 DEF BackendInv, Shape, close_handle
  <2>2. Shape'
    BY <1>2, <1>3, <1>10 DEF BackendInv, Shape, ringVars, close_handle
  <2>3. HandleOwners'
    <3> USE DEF BackendInv, HandleOwners
    <3>1. (\A i, j \in DOMAIN sources : sources[i].source = sources[j].source => i = j)'
      BY <1>10
    <3>2. /\ (\A p \in 0 .. Capacity - 1 : ring[p] # None => ItemNamesFile(ring[p]))'
          /\ (\A w \in Workers : worker[w].item # None => ItemNamesFile(worker[w].item))'
      BY <1>10 DEF ringVars, ItemNamesFile, Opened
    <3>3. (closer[Owner].pc # "destroyed" =>
             \A i \in DOMAIN sources : files[sources[i].handle] = sources[i].source)'
      BY <1>2, <1>7, <1>8, <1>10, <2>1
    <3>4. ASSUME NEW b \in Admins
          PROVE  (IF admin[b].pc = "idle" THEN admin[b].handle = None
                  ELSE /\ admin[b].handle \in Handles /\ admin[b].file \in Files
                       /\ files[admin[b].handle] = admin[b].file.source
                       /\ \A i \in DOMAIN sources : sources[i].handle # admin[b].handle)'
      BY <1>2, <1>3, <1>4, <1>10, <2>1
    <3>5. (\A b, d \in Admins : admin[b].handle = admin[d].handle /\ admin[b].handle # None => b = d)'
      BY <1>3, <1>4
    <3>6. ASSUME NEW g \in Handles, files'[g] # None
          PROVE  \/ \E i \in DOMAIN sources : sources[i].handle = g /\ closer[Owner].pc # "destroyed"
                 \/ \E b \in Admins : admin'[b].handle = g
      BY <1>1, <1>4, <1>7, <2>1, <3>6
    <3> QED
      BY <1>10, <3>1, <3>2, <3>3, <3>4, <3>5, <3>6
  <2> QED
    BY <1>5, <1>6, <1>9, <2>2, <2>3 DEF BackendInv
<1>11. CASE /\ ~Registered(f.source) /\ Len(sources) # MaxSources /\ UNCHANGED files
            /\ sources' = Append(sources, [source |-> f.source, handle |-> h, access |-> f.access])
  <2>1. PICK entry \in SourceEntry :
          /\ entry.source = f.source /\ entry.handle = h
          /\ sources' = Append(sources, entry)
    BY <1>2, <1>11 DEF SourceEntry
  <2>2. PICK n \in Nat \ {0} : n = Len(sources) + 1
    BY <1>8
  <2>3. /\ sources' \in Seq(SourceEntry) /\ Len(sources') = n /\ DOMAIN sources' = 1 .. n
        /\ DOMAIN sources = 1 .. n - 1
        /\ \A i \in 1 .. n - 1 : sources'[i] = sources[i]
        /\ sources'[n] = entry
    <3>1. sources' \in Seq(SourceEntry) /\ Len(sources') = n
      BY <1>8, <2>1, <2>2, AppendProperties
    <3>2. DOMAIN sources' = 1 .. n
      BY <3>1
    <3>3. DOMAIN sources = 1 .. n - 1
      BY <1>8, <2>2
    <3>4. \A i \in 1 .. n - 1 : sources'[i] = sources[i]
      BY <1>8, <2>1, <2>2, AppendProperties
    <3>5. sources'[n] = entry
      BY <1>8, <2>1, <2>2, AppendProperties
    <3> QED
      BY <3>1, <3>2, <3>3, <3>4, <3>5
  <2>4. Shape'
    <3>1. MaxSources \in Nat /\ Len(sources) <= MaxSources
      BY BackendAssumption DEF BackendInv, Shape
    <3>2. Len(sources) # MaxSources
      BY <1>11
    <3>3. PICK m \in Nat, bound \in Nat : m = Len(sources) /\ bound = MaxSources
      BY <1>8, <3>1
    <3>4. m <= bound /\ m # bound /\ n = m + 1
      BY <2>2, <3>1, <3>2, <3>3
    <3>5. n <= bound
      BY <3>4
    <3>6. n <= MaxSources
      BY <3>3, <3>5
    <3>7. Len(sources') <= MaxSources
      BY <2>3, <3>6
    <3>8. admin' \in [Admins -> AdminRecord]
      BY <1>3 DEF BackendInv, Shape
    <3> QED
      BY <1>11, <2>3, <3>7, <3>8 DEF BackendInv, Shape, ringVars
  <2>5. HandleOwners'
    <3> USE DEF BackendInv, HandleOwners
    <3>1. (\A i, j \in DOMAIN sources : sources[i].source = sources[j].source => i = j)'
      BY <1>11, <2>1, <2>3 DEF Registered
    <3>2. \A g, s : Opened(g, s) => Opened(g, s)'
      BY <2>3 DEF Opened
    <3>3. /\ (\A p \in 0 .. Capacity - 1 : ring[p] # None => ItemNamesFile(ring[p]))'
          /\ (\A w \in Workers : worker[w].item # None => ItemNamesFile(worker[w].item))'
      BY <3>2 DEF ringVars, ItemNamesFile
    <3>4. (closer[Owner].pc # "destroyed" =>
             \A i \in DOMAIN sources : files[sources[i].handle] = sources[i].source)'
      BY <1>2, <1>7, <1>11, <2>1, <2>3
    <3>5. ASSUME NEW b \in Admins
          PROVE  (IF admin[b].pc = "idle" THEN admin[b].handle = None
                  ELSE /\ admin[b].handle \in Handles /\ admin[b].file \in Files
                       /\ files[admin[b].handle] = admin[b].file.source
                       /\ \A i \in DOMAIN sources : sources[i].handle # admin[b].handle)'
      BY <1>2, <1>3, <1>4, <1>11, <2>1, <2>3
    <3>6. (\A b, d \in Admins : admin[b].handle = admin[d].handle /\ admin[b].handle # None => b = d)'
      BY <1>3, <1>4
    <3>7. ASSUME NEW g \in Handles, files'[g] # None
          PROVE  (\/ \E i \in DOMAIN sources : sources[i].handle = g /\ closer[Owner].pc # "destroyed"
                  \/ \E b \in Admins : admin[b].handle = g)'
      <4>1. CASE g = h
        BY <1>7, <2>1, <2>2, <2>3, <4>1
      <4>2. CASE g # h
        BY <1>1, <1>4, <1>7, <1>11, <2>3, <3>7, <4>2
      <4> QED
        BY <4>1, <4>2
    <3> QED
      BY <3>1, <3>3, <3>4, <3>5, <3>6, <3>7
  <2> QED
    BY <1>5, <1>6, <1>9, <2>4, <2>5 DEF BackendInv
<1> QED
  BY <1>1, <1>10, <1>11 DEF RegisterRecord

-----------------------------------------------------------------------------
(***************************************************************************)
(* submit.                                                                 *)
(***************************************************************************)

\* Who holds a request that was never submitted.
LEMMA NotSubmitted ==
  ASSUME Shape, NEW q \in Requests, ~Submitted(q)
  PROVE  /\ answers[q] = 0
         /\ \A p : ~RingHas(p, q)
         /\ \A w : ~WorkerHas(w, q)
         /\ \A c, i : ~CloserHas(c, i, q)
BY DEF Submitted, RingHas, WorkerHas, CloserHas, Shape

LEMMA SubmitHolds ==
  ASSUME BackendInv, NEW q \in Requests, submit(q)
  PROVE  BackendInv' /\ \A r \in Requests : Entered(r)' <=> Entered(r) \/ r = q
<1>0. /\ Alive /\ ~Submitted(q) /\ ~shuttingDown /\ ringSize # Capacity /\ notify_one
      /\ ring' = [ring EXCEPT ![TailPosition] = WorkItemOf(q)]
      /\ ringSize' = ringSize + 1
      /\ stats' = [stats EXCEPT !.accepted = @ + 1]
      /\ UNCHANGED <<head, shuttingDown, sources, admin, closer, files, answers>>
  BY DEF submit, Enqueue, Full
<1> USE <1>0
<1>1. PICK t, item : t = TailPosition /\ item = WorkItemOf(q)
  OBVIOUS
<1>2. item \in Item /\ item # None /\ item.request = q /\ ItemNamesFile(item)
  BY <1>1, WorkItemFits, BackendAssumption DEF BackendInv
<1>3. ringSize < Capacity /\ ringSize \in Nat /\ Capacity \in Nat
  BY BackendAssumption DEF BackendInv, Shape
<1>4. t \in 0 .. Capacity - 1 /\ Behind(t) = ringSize
  BY <1>1, <1>3, RingPlaces DEF BackendInv
<1>5. ring[t] = None
  BY <1>3, <1>4 DEF BackendInv, RingWindow
<1>6. ring'[t] = item /\ \A p \in 0 .. Capacity - 1 : p # t => ring'[p] = ring[p]
  BY <1>1, <1>4 DEF BackendInv, Shape
<1>7. QuietWorkers
  BY NotifyOneQuiet DEF BackendInv
<1>8. /\ WorkersBusy' /\ Busy' = Busy /\ (AllExited => AllExited')
      /\ \A w, r : WorkerHas(w, r)' <=> WorkerHas(w, r)
      /\ \A w \in Workers : worker[w].item # None => worker'[w].pc = worker[w].pc
  BY <1>7, QuietFacts DEF BackendInv
<1>9. Shape'
  <2>1. ring' \in [0 .. Capacity - 1 -> Item \union {None}]
    BY <1>1, <1>2, <1>4 DEF BackendInv, Shape
  <2>2. ringSize' \in 0 .. Capacity
    BY <1>3
  <2>3. stats' \in StatsRecord
    BY DEF BackendInv, Shape, StatsRecord
  <2> QED
    BY <1>7, <2>1, <2>2, <2>3 DEF BackendInv, Shape, QuietWorkers
<1>10. RingWindow'
  <2>1. ASSUME NEW p \in 0 .. Capacity - 1
        PROVE  ring'[p] # None <=> Behind(p)' < ringSize'
    <3>1. Behind(p)' = Behind(p) /\ Behind(p) \in Nat
      BY <1>3 DEF BackendInv, Shape, Behind
    <3>2. CASE p = t
      BY <1>2, <1>3, <1>4, <1>6, <3>1, <3>2
    <3>3. CASE p # t
      <4>1. Behind(p) # ringSize
        BY <1>4, <3>3, BehindInjective DEF BackendInv
      <4>2. ring[p] # None <=> Behind(p) < ringSize
        BY DEF BackendInv, RingWindow
      <4> QED
        BY <1>3, <1>6, <3>1, <3>3, <4>1, <4>2
    <3> QED
      BY <3>2, <3>3
  <2> QED
    BY <2>1 DEF RingWindow
<1>11. /\ answers[q] = 0 /\ \A p : ~RingHas(p, q)
       /\ \A w : ~WorkerHas(w, q) /\ \A c, i : ~CloserHas(c, i, q)
  BY NotSubmitted DEF BackendInv
<1>12. /\ \A p, r : RingHas(p, r)' <=> RingHas(p, r) \/ (p = t /\ r = q)
       /\ \A c, i, r : CloserHas(c, i, r)' <=> CloserHas(c, i, r)
  BY <1>2, <1>4, <1>5, <1>6 DEF RingHas, CloserHas
<1>13. HeldOnce'
  BY <1>8, <1>11, <1>12 DEF BackendInv, HeldOnce
<1>14. AnsweredByHolder'
  <2>1. \A w, r : WorkerHas(w, r) => w \in Workers /\ worker[w].item # None
    BY DEF WorkerHas
  <2> QED
    BY <1>8, <1>11, <1>12, <2>1 DEF BackendInv, AnsweredByHolder
<1>15. ShutdownPhase'
  BY DEF BackendInv, ShutdownPhase, Alive
<1>16. HandleOwners'
  <2>2. \A p \in 0 .. Capacity - 1 : ring'[p] # None => ItemNamesFile(ring'[p])
    BY <1>2, <1>6 DEF BackendInv, HandleOwners
  <2>3. \A w \in Workers : worker'[w].item # None => ItemNamesFile(worker'[w].item)
    BY <1>7 DEF BackendInv, HandleOwners, QuietWorkers
  <2> QED
    BY <2>2, <2>3 DEF BackendInv, HandleOwners, ItemNamesFile, Opened
<1>17. Counters'
  <2>1. Queued' = Queued /\ Busy' = Busy
    BY <1>8 DEF Queued
  <2>2. \A c \in Closers : closer[c].queued = <<>>
    BY DEF BackendInv, ShutdownPhase
  <2>3. Cardinality(Queued) = 0
    BY <2>2, QueuedCount DEF BackendInv
  <2>4. /\ stats'.accepted = stats.accepted + 1 /\ stats'.in_flight = stats.in_flight
        /\ stats'.completed_ok = stats.completed_ok /\ stats'.short_reads = stats.short_reads
        /\ stats'.errors = stats.errors /\ stats'.cancelled = stats.cancelled
    BY DEF BackendInv, Shape, StatsRecord
  <2>5. /\ stats.in_flight \in Nat /\ stats.completed_ok \in Nat /\ stats.short_reads \in Nat
        /\ stats.errors \in Nat /\ stats.cancelled \in Nat /\ stats.accepted \in Nat
    BY DEF BackendInv, Shape, StatsRecord
  <2> QED
    BY <1>3, <2>1, <2>3, <2>4, <2>5 DEF BackendInv, Counters
<1>18. \A r \in Requests : Entered(r)' <=> Entered(r) \/ r = q
  BY <1>8, <1>12 DEF Entered
<1> QED
  BY <1>18, <1>8, <1>9, <1>10, <1>13, <1>14, <1>15, <1>16, <1>17 DEF BackendInv

-----------------------------------------------------------------------------
(***************************************************************************)
(* worker_loop.                                                            *)
(***************************************************************************)
LEMMA TakeHolds ==
  ASSUME BackendInv, NEW w \in Workers, Take(w)
  PROVE  BackendInv' /\ NothingEnters
<1>0. /\ worker[w].pc = "ready" /\ ringSize # 0
      /\ worker' = [worker EXCEPT ![w] =
                      [pc |-> "perform", item |-> ring[head], category |-> "none"]]
      /\ ring' = [ring EXCEPT ![head] = None]
      /\ ringSize' = ringSize - 1
      /\ stats' = [stats EXCEPT !.in_flight = @ + 1]
      /\ UNCHANGED <<shuttingDown, sources, admin, closer, files, answers>>
  BY DEF Take, Dequeue
<1> USE <1>0
<1>1. /\ Capacity \in Nat \ {0} /\ head \in 0 .. Capacity - 1 /\ ringSize \in 1 .. Capacity
      /\ ring \in [0 .. Capacity - 1 -> Item \union {None}]
  BY BackendAssumption DEF BackendInv, Shape
<1>2. Behind(head) = 0
  BY <1>1 DEF Behind
<1>3. ring[head] # None /\ ring[head] \in Item
  BY <1>1, <1>2 DEF BackendInv, RingWindow
<1>4. PICK q \in Requests : q = ring[head].request
  BY <1>3 DEF Item
<1>5. PICK taken \in WorkerRecord :
        /\ taken.pc = "perform" /\ taken.item = ring[head]
        /\ worker' = [worker EXCEPT ![w] = taken]
  BY <1>3 DEF WorkerRecord
<1>6. worker'[w] = taken /\ \A v \in Workers : v # w => worker'[v] = worker[v]
  BY <1>5 DEF BackendInv, Shape
<1>7. ring'[head] = None /\ \A p \in 0 .. Capacity - 1 : p # head => ring'[p] = ring[p]
  BY <1>1
<1>8. head' = (IF head + 1 < Capacity THEN head + 1 ELSE 0)
  BY RingPlaces DEF BackendInv, Take, Dequeue
<1>9. Shape'
  <2>1. head' \in 0 .. Capacity - 1 /\ ringSize' \in 0 .. Capacity
    BY <1>1, <1>8
  <2>2. ring' \in [0 .. Capacity - 1 -> Item \union {None}]
    BY <1>1
  <2>3. worker' \in [Workers -> WorkerRecord]
    BY <1>5 DEF BackendInv, Shape
  <2>4. stats' \in StatsRecord
    BY TakenStats DEF BackendInv, Shape
  <2> QED
    BY <2>1, <2>2, <2>3, <2>4 DEF BackendInv, Shape
<1>10. RingWindow'
  <2>1. ASSUME NEW p \in 0 .. Capacity - 1
        PROVE  ring'[p] # None <=> Behind(p)' < ringSize'
    <3>1. Behind(p)' = IF p >= head' THEN p - head' ELSE p + Capacity - head'
      BY DEF Behind
    <3>2. CASE p = head
      <4>1. Behind(p)' = Capacity - 1
        BY <1>1, <1>8, <3>1, <3>2
      <4> QED
        BY <1>1, <1>7, <3>2, <4>1
    <3>3. CASE p # head
      <4>1. Behind(p)' = Behind(p) - 1 /\ Behind(p) \in Int
        BY <1>1, <1>8, <3>1, <3>3 DEF Behind
      <4>2. ring[p] # None <=> Behind(p) < ringSize
        BY DEF BackendInv, RingWindow
      <4> QED
        BY <1>1, <1>7, <3>3, <4>1, <4>2
    <3> QED
      BY <3>2, <3>3
  <2> QED
    BY <2>1 DEF RingWindow
<1>11. worker[w].item = None
  BY DEF BackendInv, WorkersBusy
<1>12. WorkersBusy'
  BY <1>3, <1>5, <1>6 DEF BackendInv, WorkersBusy
<1>13. /\ \A p, r : RingHas(p, r)' <=> RingHas(p, r) /\ p # head
       /\ \A v, r : WorkerHas(v, r)' <=> WorkerHas(v, r) \/ (v = w /\ r = q)
       /\ \A c, i, r : CloserHas(c, i, r)' <=> CloserHas(c, i, r)
       /\ RingHas(head, q)
  <2>1. \A p, r : RingHas(p, r)' <=> RingHas(p, r) /\ p # head
    BY <1>7 DEF RingHas
  <2>2. \A v, r : WorkerHas(v, r)' <=> WorkerHas(v, r) \/ (v = w /\ r = q)
    BY <1>3, <1>4, <1>5, <1>6, <1>11 DEF WorkerHas
  <2>3. RingHas(head, q) /\ \A c, i, r : CloserHas(c, i, r)' <=> CloserHas(c, i, r)
    BY <1>1, <1>3, <1>4 DEF RingHas, CloserHas
  <2> QED
    BY <2>1, <2>2, <2>3
<1>14. ~shuttingDown /\ \A c \in Closers : closer[c].queued = <<>>
  BY DEF BackendInv, ShutdownPhase
<1>15. \A c, i, r : ~CloserHas(c, i, r)
  BY <1>14 DEF CloserHas
<1>16. HeldOnce'
  BY <1>1, <1>13, <1>15 DEF BackendInv, HeldOnce
<1>17. AnsweredByHolder'
  <2>1. \A v, r : WorkerHas(v, r) => v \in Workers /\ v # w
    BY <1>11 DEF WorkerHas
  <2> QED
    BY <1>1, <1>5, <1>6, <1>13, <1>15, <2>1 DEF BackendInv, AnsweredByHolder
<1>18. ShutdownPhase'
  BY <1>14 DEF BackendInv, ShutdownPhase, Alive
<1>19. HandleOwners'
  <2>1. \A p \in 0 .. Capacity - 1 : ring'[p] # None => ItemNamesFile(ring'[p])
    BY <1>7 DEF BackendInv, HandleOwners
  <2>2. \A v \in Workers : worker'[v].item # None => ItemNamesFile(worker'[v].item)
    BY <1>1, <1>3, <1>5, <1>6 DEF BackendInv, HandleOwners
  <2> QED
    BY <2>1, <2>2 DEF BackendInv, HandleOwners, ItemNamesFile, Opened
<1>20. Counters'
  <2>1. Queued' = Queued
    BY DEF Queued
  <2>2. Busy' = Busy \union {w} /\ w \notin Busy
    BY <1>5, <1>6 DEF Busy
  <2>3. Cardinality(Busy') = Cardinality(Busy) + 1
    BY <2>2, BusyFinite, FS_AddElement
  <2>4. Cardinality(Queued) = 0
    BY <1>14, QueuedCount DEF BackendInv
  <2>5. /\ stats'.accepted = stats.accepted /\ stats'.in_flight = stats.in_flight + 1
        /\ stats'.completed_ok = stats.completed_ok /\ stats'.short_reads = stats.short_reads
        /\ stats'.errors = stats.errors /\ stats'.cancelled = stats.cancelled
    BY DEF BackendInv, Shape, StatsRecord
  <2>6. /\ stats.in_flight \in Nat /\ stats.completed_ok \in Nat /\ stats.short_reads \in Nat
        /\ stats.errors \in Nat /\ stats.cancelled \in Nat /\ stats.accepted \in Nat
    BY DEF BackendInv, Shape, StatsRecord
  <2> QED
    BY <1>1, <2>1, <2>3, <2>4, <2>5, <2>6 DEF BackendInv, Counters
<1>21. NothingEnters
  <2>1. \A r : RingHas(head, r) => r = q
    BY <1>4 DEF RingHas
  <2> QED
    BY <1>13, <2>1 DEF NothingEnters, Entered
<1> QED
  BY <1>21, <1>9, <1>10, <1>12, <1>16, <1>17, <1>18, <1>19, <1>20 DEF BackendInv

\* What a read ends in names a counter.
LEMMA CategoryOfRead ==
  ASSUME NEW result
  PROVE  Category(result) \in {"errors", "completed_ok", "short_reads"}
BY DEF Category

LEMMA DeliverHolds ==
  ASSUME BackendInv, NEW w \in Workers, Deliver(w)
  PROVE  BackendInv' /\ NothingEnters
<1>1. PICK result : Handed(w, result)
  BY DEF Deliver
<1>2. PICK category \in {"errors", "completed_ok", "short_reads"} : category = Category(result)
  BY CategoryOfRead
<1>0. /\ worker[w].pc = "perform"
      /\ worker' = [worker EXCEPT ![w] = [worker[w] EXCEPT !.pc = "count", !.category = category]]
      /\ answers' = [answers EXCEPT ![worker[w].item.request] = @ + 1]
      /\ UNCHANGED <<ring, head, ringSize, shuttingDown, sources, stats, admin, closer, files>>
  BY <1>1, <1>2 DEF Deliver, Handed, Delivered, ringVars
<1> USE <1>0
<1>3. PICK done \in WorkerRecord :
        /\ done.pc = "count" /\ done.item = worker[w].item /\ done.category # "none"
        /\ worker' = [worker EXCEPT ![w] = done]
  BY DEF BackendInv, Shape, WorkerRecord
<1>4. worker'[w] = done /\ \A v \in Workers : v # w => worker'[v] = worker[v]
  BY <1>3 DEF BackendInv, Shape
<1>5. worker[w].item # None /\ worker[w].item \in Item
  BY DEF BackendInv, WorkersBusy, Shape, WorkerRecord
<1>6. PICK q \in Requests : q = worker[w].item.request
  BY <1>5 DEF Item
<1>7. WorkerHas(w, q)
  BY <1>5, <1>6 DEF WorkerHas
<1>8. answers[q] = 0
  BY <1>7 DEF BackendInv, AnsweredByHolder, Shape
<1>9. answers'[q] = 1 /\ \A r \in Requests : r # q => answers'[r] = answers[r]
  BY <1>6, <1>8 DEF BackendInv, Shape
<1>10. Shape' /\ RingWindow'
  <2>1. answers' \in [Requests -> {0, 1}]
    BY <1>6, <1>8 DEF BackendInv, Shape
  <2>2. worker' \in [Workers -> WorkerRecord]
    BY <1>3 DEF BackendInv, Shape
  <2> QED
    BY <2>1, <2>2 DEF BackendInv, Shape, RingWindow, Behind
<1>11. WorkersBusy'
  BY <1>3, <1>4, <1>5 DEF BackendInv, WorkersBusy
<1>12. /\ \A p, r : RingHas(p, r)' <=> RingHas(p, r)
       /\ \A v, r : WorkerHas(v, r)' <=> WorkerHas(v, r)
       /\ \A c, i, r : CloserHas(c, i, r)' <=> CloserHas(c, i, r)
  BY <1>3, <1>4 DEF RingHas, WorkerHas, CloserHas
<1>13. HeldOnce'
  BY <1>12 DEF BackendInv, HeldOnce
<1>14. AnsweredByHolder'
  <2>1. /\ \A p \in 0 .. Capacity - 1 : ~RingHas(p, q)
        /\ \A v \in Workers : WorkerHas(v, q) => v = w
        /\ \A c \in Closers, i \in Nat : ~CloserHas(c, i, q)
        /\ \A r \in Requests : WorkerHas(w, r) => r = q
    BY <1>6, <1>7 DEF BackendInv, HeldOnce, WorkerHas
  <2> QED
    BY <1>3, <1>4, <1>9, <1>12, <2>1 DEF BackendInv, AnsweredByHolder
<1>15. ShutdownPhase'
  <2>1. ~AllExited
    BY DEF AllExited
  <2> QED
    BY <2>1 DEF BackendInv, ShutdownPhase, Alive
<1>16. HandleOwners'
  <2>1. \A v \in Workers : worker'[v].item = worker[v].item
    BY <1>3, <1>4
  <2> QED
    BY <2>1 DEF BackendInv, HandleOwners, ItemNamesFile, Opened
<1>17. Counters'
  <2>1. Queued' = Queued /\ Busy' = Busy
    BY <1>3, <1>4 DEF Queued, Busy
  <2> QED
    BY <2>1 DEF BackendInv, Counters
<1>18. NothingEnters
  BY <1>7, <1>9, <1>12 DEF NothingEnters, Entered
<1> QED
  BY <1>18, <1>10, <1>11, <1>13, <1>14, <1>15, <1>16, <1>17 DEF BackendInv

LEMMA CountHolds ==
  ASSUME BackendInv, NEW w \in Workers, Count(w)
  PROVE  BackendInv' /\ NothingEnters
<1>0. /\ worker[w].pc = "count"
      /\ worker' = [worker EXCEPT ![w] = Idle]
      /\ stats' = Counted(worker[w].category)
      /\ UNCHANGED <<ring, head, ringSize, shuttingDown, sources, admin, closer, files, answers>>
  BY DEF Count, Finished, ringVars
<1> USE <1>0
<1>1. Idle \in WorkerRecord /\ Idle.pc = "ready" /\ Idle.item = None
  BY DEF Idle, WorkerRecord
<1>2. worker'[w] = Idle /\ \A v \in Workers : v # w => worker'[v] = worker[v]
  BY DEF BackendInv, Shape
<1>3. PICK category \in {"errors", "completed_ok", "short_reads"} :
        category = worker[w].category
  BY DEF BackendInv, Shape, WorkerRecord, WorkersBusy
<1>4. /\ stats.in_flight \in Nat /\ stats.completed_ok \in Nat /\ stats.short_reads \in Nat
      /\ stats.errors \in Nat /\ stats.cancelled \in Nat /\ stats.accepted \in Nat
  BY DEF BackendInv, Shape, StatsRecord
<1>5. Busy' = Busy \ {w} /\ w \in Busy
  BY <1>1, <1>2 DEF Busy
<1>6. Cardinality(Busy') = Cardinality(Busy) - 1 /\ Cardinality(Busy') \in Nat
  <2>1. IsFiniteSet(Busy) /\ IsFiniteSet(Busy \ {w})
    BY BusyFinite, FS_RemoveElement
  <2> QED
    BY <1>5, <2>1, FS_RemoveElement, FS_CardinalityType
<1>7. stats.in_flight = Cardinality(Busy) /\ stats.in_flight - 1 \in Nat
  BY <1>4, <1>6 DEF BackendInv, Counters
<1>8. /\ stats' \in StatsRecord
      /\ stats'.accepted = stats.accepted /\ stats'.in_flight = stats.in_flight - 1
      /\ stats'.cancelled = stats.cancelled
      /\ stats'.completed_ok + stats'.short_reads + stats'.errors
           = stats.completed_ok + stats.short_reads + stats.errors + 1
  <2>0. stats \in StatsRecord
    BY DEF BackendInv, Shape
  <2>1. CASE category = "errors"
    <3>1. PICK m \in Nat, k \in Nat : m = stats.errors + 1 /\ k = stats.in_flight - 1
      BY <1>4, <1>7
    <3>2. stats' = [stats EXCEPT !.errors = m, !.in_flight = k]
      BY <1>3, <2>1, <3>1 DEF Counted
    <3>3. /\ stats' \in StatsRecord
          /\ stats'.accepted = stats.accepted /\ stats'.cancelled = stats.cancelled
          /\ stats'.errors = m /\ stats'.in_flight = k
          /\ stats'.completed_ok = stats.completed_ok /\ stats'.short_reads = stats.short_reads
      BY <2>0, <3>2 DEF StatsRecord
    <3> QED
      BY <1>4, <3>1, <3>3
  <2>2. CASE category = "completed_ok"
    <3>1. PICK m \in Nat, k \in Nat : m = stats.completed_ok + 1 /\ k = stats.in_flight - 1
      BY <1>4, <1>7
    <3>2. stats' = [stats EXCEPT !.completed_ok = m, !.in_flight = k]
      BY <1>3, <2>2, <3>1 DEF Counted
    <3>3. /\ stats' \in StatsRecord
          /\ stats'.accepted = stats.accepted /\ stats'.cancelled = stats.cancelled
          /\ stats'.completed_ok = m /\ stats'.in_flight = k
          /\ stats'.short_reads = stats.short_reads /\ stats'.errors = stats.errors
      BY <2>0, <3>2 DEF StatsRecord
    <3> QED
      BY <1>4, <3>1, <3>3
  <2>3. CASE category = "short_reads"
    <3>1. PICK m \in Nat, k \in Nat : m = stats.short_reads + 1 /\ k = stats.in_flight - 1
      BY <1>4, <1>7
    <3>2. stats' = [stats EXCEPT !.short_reads = m, !.in_flight = k]
      BY <1>3, <2>3, <3>1 DEF Counted
    <3>3. /\ stats' \in StatsRecord
          /\ stats'.accepted = stats.accepted /\ stats'.cancelled = stats.cancelled
          /\ stats'.short_reads = m /\ stats'.in_flight = k
          /\ stats'.completed_ok = stats.completed_ok /\ stats'.errors = stats.errors
      BY <2>0, <3>2 DEF StatsRecord
    <3> QED
      BY <1>4, <3>1, <3>3
  <2> QED
    BY <2>1, <2>2, <2>3
<1>9. Shape' /\ RingWindow'
  <2>1. worker' \in [Workers -> WorkerRecord]
    BY <1>1 DEF BackendInv, Shape
  <2> QED
    BY <1>8, <2>1 DEF BackendInv, Shape, RingWindow, Behind
<1>10. WorkersBusy'
  BY <1>1, <1>2 DEF BackendInv, WorkersBusy
<1>11. /\ \A p, r : RingHas(p, r)' <=> RingHas(p, r)
       /\ \A v, r : WorkerHas(v, r)' <=> WorkerHas(v, r) /\ v # w
       /\ \A c, i, r : CloserHas(c, i, r)' <=> CloserHas(c, i, r)
  BY <1>1, <1>2 DEF RingHas, WorkerHas, CloserHas
<1>12. HeldOnce'
  BY <1>11 DEF BackendInv, HeldOnce
<1>13. AnsweredByHolder'
  BY <1>2, <1>11 DEF BackendInv, AnsweredByHolder
<1>14. ShutdownPhase'
  <2>1. ~AllExited
    BY DEF AllExited
  <2> QED
    BY <2>1 DEF BackendInv, ShutdownPhase, Alive
<1>15. HandleOwners'
  <2>1. \A v \in Workers : worker'[v].item # None => worker'[v].item = worker[v].item
    BY <1>1, <1>2
  <2> QED
    BY <2>1 DEF BackendInv, HandleOwners, ItemNamesFile, Opened
<1>16. Counters'
  <2>1. Queued' = Queued
    BY DEF Queued
  <2>2. ringSize \in Nat
    BY BackendAssumption DEF BackendInv, Shape
  <2>3. /\ stats'.in_flight \in Nat /\ stats'.completed_ok \in Nat /\ stats'.short_reads \in Nat
        /\ stats'.errors \in Nat /\ stats'.cancelled \in Nat /\ stats'.accepted \in Nat
    BY <1>8 DEF StatsRecord
  <2>4. Cardinality(Queued) \in Nat
    BY QueuedIsCounted DEF BackendInv
  <2>5. stats.accepted = ringSize + stats.in_flight + stats.completed_ok + stats.short_reads
                         + stats.errors + stats.cancelled + Cardinality(Queued)
    BY DEF BackendInv, Counters
  <2> QED
    BY <1>4, <1>6, <1>7, <1>8, <2>1, <2>2, <2>3, <2>4, <2>5 DEF Counters
<1>17. NothingEnters
  <2>1. \A r \in Requests : WorkerHas(w, r) => answers[r] = 1
    BY DEF BackendInv, AnsweredByHolder
  <2> QED
    BY <1>11, <2>1 DEF NothingEnters, Entered
<1> QED
  BY <1>17, <1>9, <1>10, <1>12, <1>13, <1>14, <1>15, <1>16 DEF BackendInv

-----------------------------------------------------------------------------
(***************************************************************************)
(* shutdown.                                                               *)
(***************************************************************************)

\* What the ring holds, in the order it was submitted.
LEMMA QueueFits ==
  ASSUME Shape, RingWindow
  PROVE  /\ Queue \in Seq(Item) /\ Len(Queue) = ringSize /\ DOMAIN Queue = 1 .. ringSize
         /\ \A i \in 1 .. ringSize :
              /\ (head + i - 1) % Capacity \in 0 .. Capacity - 1
              /\ ring[(head + i - 1) % Capacity] # None
              /\ Queue[i] = ring[(head + i - 1) % Capacity]
<1>1. ringSize \in Nat /\ Capacity \in Nat
  BY BackendAssumption DEF Shape
<1>2. ASSUME NEW i \in 1 .. ringSize
      PROVE  /\ (head + i - 1) % Capacity \in 0 .. Capacity - 1
             /\ ring[(head + i - 1) % Capacity] # None
             /\ ring[(head + i - 1) % Capacity] \in Item
  <2>1. PICK p : p = (head + i - 1) % Capacity
    OBVIOUS
  <2>2. p \in 0 .. Capacity - 1 /\ Behind(p) = i - 1
    BY <2>1, RingPlaces
  <2>3. ring[p] # None
    BY <1>1, <2>2 DEF RingWindow
  <2>4. ring[p] \in Item
    BY <2>2, <2>3 DEF Shape
  <2> QED
    BY <2>1, <2>2, <2>3, <2>4
<1>3. DEFINE places == [i \in 1 .. ringSize |-> ring[(head + i - 1) % Capacity]]
<1>4. places \in [1 .. ringSize -> Item]
  BY <1>2
<1>5. Queue = places
  BY DEF Queue
<1> HIDE DEF places
<1>6. Queue \in Seq(Item) /\ Len(Queue) = ringSize /\ DOMAIN Queue = 1 .. ringSize
  BY <1>1, <1>4, <1>5
<1> USE DEF places
<1>7. \A i \in 1 .. ringSize : Queue[i] = ring[(head + i - 1) % Capacity]
  BY <1>5
<1> QED
  BY <1>2, <1>6, <1>7

\* The first call empties the ring into its own queue.
LEMMA ShutdownFirstHolds ==
  ASSUME BackendInv, NEW c \in Closers, MayShutdown(c), ShutdownFirst(c)
  PROVE  BackendInv' /\ NothingEnters
<1>0. /\ closer[c].pc = "idle" /\ ~shuttingDown /\ shuttingDown' = TRUE
      /\ ring' = [i \in DOMAIN ring |-> None] /\ ringSize' = 0
      /\ notify_all
      /\ UNCHANGED <<sources, stats, admin, files, answers>>
  BY DEF ShutdownFirst, EmptyRing
<1> USE <1>0
<1>1. PICK queue : queue = Queue
  OBVIOUS
<1>2. /\ queue \in Seq(Item) /\ Len(queue) = ringSize /\ DOMAIN queue = 1 .. ringSize
      /\ \A i \in 1 .. ringSize :
           /\ (head + i - 1) % Capacity \in 0 .. Capacity - 1
           /\ ring[(head + i - 1) % Capacity] # None
           /\ queue[i] = ring[(head + i - 1) % Capacity]
  BY <1>1, QueueFits DEF BackendInv
<1>3. PICK call \in CloserRecord :
        /\ call.pc = "cancel" /\ call.queued = queue /\ call.drained
        /\ closer' = [closer EXCEPT ![c] = call]
  <2>1. PICK yes \in BOOLEAN : yes = TRUE
    OBVIOUS
  <2>2. closer' = [closer EXCEPT ![c] = [pc |-> "cancel", queued |-> queue, drained |-> yes]]
    BY <1>1, <2>1, Zenon DEF ShutdownFirst
  <2>3. [pc |-> "cancel", queued |-> queue, drained |-> yes] \in CloserRecord
    BY <1>2 DEF CloserRecord
  <2>4. PICK call \in CloserRecord : call = [pc |-> "cancel", queued |-> queue, drained |-> yes]
    BY <2>3
  <2>5. call.pc = "cancel" /\ call.queued = queue /\ call.drained = yes
    BY <2>4
  <2> QED
    BY <2>1, <2>2, <2>4, <2>5, Zenon
<1>4. closer'[c] = call /\ \A d \in Closers : d # c => closer'[d] = closer[d]
  BY <1>3 DEF BackendInv, Shape
<1>5. \A d \in Closers : closer[d].pc = "idle" /\ closer[d].queued = <<>> /\ ~closer[d].drained
  BY DEF BackendInv, ShutdownPhase
<1>6. QuietWorkers
  BY NotifyAllQuiet DEF BackendInv
<1>7. /\ WorkersBusy' /\ Busy' = Busy
      /\ \A w, r : WorkerHas(w, r)' <=> WorkerHas(w, r)
      /\ \A w \in Workers : worker[w].item # None => worker'[w].pc = worker[w].pc
  BY <1>6, QuietFacts DEF BackendInv
<1>8. \A p \in 0 .. Capacity - 1 : ring'[p] = None
  BY DEF BackendInv, Shape
<1>9. head' \in 0 .. Capacity - 1
  BY RingPlaces DEF BackendInv, ShutdownFirst, EmptyRing
<1>10. Shape'
  <2>1. ring' \in [0 .. Capacity - 1 -> Item \union {None}]
    BY DEF BackendInv, Shape
  <2>2. ringSize' \in 0 .. Capacity /\ shuttingDown' \in BOOLEAN
    BY BackendAssumption
  <2>3. closer' \in [Closers -> CloserRecord]
    BY <1>3 DEF BackendInv, Shape
  <2> QED
    BY <1>6, <1>9, <2>1, <2>2, <2>3 DEF BackendInv, Shape, QuietWorkers
<1>11. RingWindow'
  <2>1. ASSUME NEW p \in 0 .. Capacity - 1
        PROVE  ~(Behind(p)' < ringSize')
    <3>1. Capacity \in Nat
      BY BackendAssumption
    <3>2. PICK top \in 0 .. Capacity - 1 : top = head'
      BY <1>9
    <3>3. Behind(p)' = IF p >= top THEN p - top ELSE p + Capacity - top
      BY <3>2 DEF Behind
    <3>4. Behind(p)' \in Nat
      BY <3>1, <3>3
    <3> QED
      BY <3>4
  <2> QED
    BY <1>8, <2>1 DEF RingWindow
<1>12. /\ \A p, r : ~RingHas(p, r)'
       /\ \A d, i, r : CloserHas(d, i, r)' =>
            /\ d = c /\ i \in 1 .. ringSize
            /\ RingHas((head + i - 1) % Capacity, r)
  <2>1. \A p, r : ~RingHas(p, r)'
    BY <1>8 DEF RingHas
  <2>2. ASSUME NEW d, NEW i, NEW r, CloserHas(d, i, r)'
        PROVE  d = c /\ i \in 1 .. ringSize /\ RingHas((head + i - 1) % Capacity, r)
    <3>1. d \in Closers /\ i \in DOMAIN closer'[d].queued /\ closer'[d].queued[i].request = r
      BY <2>2 DEF CloserHas
    <3>2. d = c
      BY <1>4, <1>5, <3>1
    <3>3. i \in 1 .. ringSize /\ queue[i].request = r
      BY <1>2, <1>3, <1>4, <3>1, <3>2
    <3> QED
      BY <1>2, <3>2, <3>3 DEF RingHas
  <2> QED
    BY <2>1, <2>2
<1>13. HeldOnce'
  <2>1. ASSUME NEW q \in Requests, NEW d \in Closers, NEW i \in Nat, NEW j \in Nat,
               CloserHas(d, i, q)', CloserHas(d, j, q)'
        PROVE  i = j
    <3>1. /\ i \in 1 .. ringSize /\ j \in 1 .. ringSize
          /\ (head + i - 1) % Capacity = (head + j - 1) % Capacity
      BY <1>2, <1>12, <2>1 DEF BackendInv, HeldOnce
    <3>2. i - 1 = Behind((head + i - 1) % Capacity) /\ j - 1 = Behind((head + j - 1) % Capacity)
      BY <3>1, RingPlaces DEF BackendInv
    <3>3. i - 1 = j - 1
      BY <3>1, <3>2
    <3> QED
      BY <3>3
  <2>2. ASSUME NEW q \in Requests, NEW d \in Closers, NEW i \in Nat, NEW w \in Workers,
               CloserHas(d, i, q)'
        PROVE  ~WorkerHas(w, q)'
    <3>1. PICK p \in 0 .. Capacity - 1 : RingHas(p, q)
      BY <1>2, <1>12, <2>2
    <3> QED
      BY <1>7, <3>1 DEF BackendInv, HeldOnce
  <2> QED
    BY <1>7, <1>12, <2>1, <2>2 DEF BackendInv, HeldOnce
<1>14. AnsweredByHolder'
  <2>1. ASSUME NEW q \in Requests, NEW d \in Closers, NEW i \in Nat, CloserHas(d, i, q)'
        PROVE  answers'[q] = 0 /\ closer'[d].pc = "cancel"
    <3>1. PICK p \in 0 .. Capacity - 1 : RingHas(p, q)
      BY <1>2, <1>12, <2>1
    <3> QED
      BY <1>3, <1>4, <1>12, <2>1, <3>1 DEF BackendInv, AnsweredByHolder
  <2>2. \A w, r : WorkerHas(w, r) => w \in Workers /\ worker[w].item # None
    BY DEF WorkerHas
  <2> QED
    BY <1>7, <1>12, <2>1, <2>2 DEF BackendInv, AnsweredByHolder
<1>15. ShutdownPhase'
  <2>1. ~Alive' => /\ \A d \in Closers \ {Owner} : closer'[d].pc \in {"idle", "returned"}
                   /\ \A a \in Admins : admin'[a].pc = "idle"
    BY <1>4, <1>5, BackendAssumption DEF MayShutdown, Alive
  <2> QED
    BY <1>3, <1>4, <1>5, <2>1 DEF ShutdownPhase
<1>16. HandleOwners'
  <2>1. \A w \in Workers : worker'[w].item = worker[w].item
    BY <1>6 DEF QuietWorkers
  <2>2. closer[Owner].pc # "destroyed" /\ closer'[Owner].pc # "destroyed"
    BY <1>3, <1>4, <1>5, BackendAssumption
  <2> QED
    BY <1>8, <2>1, <2>2 DEF BackendInv, HandleOwners, ItemNamesFile, Opened
<1>17. Counters'
  <2>1. Cardinality(Queued) = 0
    BY <1>5, QueuedCount DEF BackendInv
  <2>2. closer' \in [Closers -> CloserRecord]
    BY <1>10 DEF Shape
  <2>3. \A d \in Closers \ {c} : closer'[d].queued = <<>>
    BY <1>4, <1>5
  <2>4. Cardinality(QueuedOf(closer')) = Len(closer'[c].queued)
    BY <2>2, <2>3, QueuedCountOf
  <2>5. Cardinality(Queued') = ringSize
    BY <1>2, <1>3, <1>4, <2>4 DEF Queued
  <2>6. /\ stats.in_flight \in Nat /\ stats.completed_ok \in Nat /\ stats.short_reads \in Nat
        /\ stats.errors \in Nat /\ stats.cancelled \in Nat /\ stats.accepted \in Nat
    BY DEF BackendInv, Shape, StatsRecord
  <2>7. ringSize \in Nat
    BY BackendAssumption DEF BackendInv, Shape
  <2>8. /\ stats.in_flight = Cardinality(Busy)
        /\ stats.accepted = ringSize + stats.in_flight + stats.completed_ok + stats.short_reads
                            + stats.errors + stats.cancelled + Cardinality(Queued)
    BY DEF BackendInv, Counters
  <2> QED
    BY <1>7, <2>1, <2>5, <2>6, <2>7, <2>8 DEF Counters
<1>18. NothingEnters
  <2>1. ASSUME NEW p, NEW r, RingHas(p, r)
        PROVE  \E i : CloserHas(c, i, r)'
    <3>1. p \in 0 .. Capacity - 1 /\ ring[p].request = r /\ Behind(p) < ringSize
      BY <2>1 DEF RingHas, BackendInv, RingWindow
    <3>2. PICK i \in 1 .. ringSize : (head + i - 1) % Capacity = p
      BY <3>1, PlaceInQueue DEF BackendInv
    <3> QED
      BY <1>2, <1>3, <1>4, <3>1, <3>2 DEF CloserHas
  <2>2. \A d, i, r : ~CloserHas(d, i, r)
    BY <1>5 DEF CloserHas
  <2> QED
    BY <1>7, <1>12, <2>1, <2>2 DEF NothingEnters, Entered
<1> QED
  BY <1>18, <1>7, <1>10, <1>11, <1>13, <1>14, <1>15, <1>16, <1>17 DEF BackendInv

\* The other steps of a call change its record and, at most, one answer, the counter of
\* cancelled items and the files.
LEMMA CallFrame ==
  ASSUME BackendInv, closer' \in [Closers -> CloserRecord],
         UNCHANGED <<ringVars, shuttingDown, sources, worker, admin>>
  PROVE  /\ RingWindow' /\ WorkersBusy' /\ Busy' = Busy
         /\ \A p, q : RingHas(p, q)' <=> RingHas(p, q)
         /\ \A w, q : WorkerHas(w, q)' <=> WorkerHas(w, q)
         /\ AllExited' <=> AllExited
<1>1. RingWindow' /\ WorkersBusy' /\ Busy' = Busy
  BY DEF BackendInv, RingWindow, Behind, WorkersBusy, Busy, ringVars
<1>2. /\ \A p, q : RingHas(p, q)' <=> RingHas(p, q)
      /\ \A w, q : WorkerHas(w, q)' <=> WorkerHas(w, q)
      /\ AllExited' <=> AllExited
  BY DEF RingHas, WorkerHas, AllExited, ringVars
<1> QED
  BY <1>1, <1>2

\* The calls at work: c is the one that has the queue.
LEMMA OneCanceller ==
  ASSUME BackendInv, NEW c \in Closers, closer[c].pc \in {"cancel", "count"}
  PROVE  /\ closer[c].drained /\ shuttingDown /\ ringSize = 0
         /\ \A d \in Closers : d # c => closer[d].queued = <<>> /\ ~closer[d].drained
         /\ closer[Owner].pc # "destroyed"
<1>1. closer[c].drained /\ shuttingDown /\ ringSize = 0
  BY DEF BackendInv, ShutdownPhase
<1>2. \A d \in Closers : d # c => closer[d].queued = <<>> /\ ~closer[d].drained
  BY <1>1 DEF BackendInv, ShutdownPhase
<1>3. closer[Owner].pc # "destroyed"
  BY DEF BackendInv, ShutdownPhase, Alive
<1> QED
  BY <1>1, <1>2, <1>3

\* A later call returns at once; the first one when its queue and the workers are gone.
LEMMA ReturnHolds ==
  ASSUME BackendInv, NEW c \in Closers,
         \/ MayShutdown(c) /\ ShutdownAgain(c)
         \/ Join(c)
  PROVE  BackendInv' /\ NothingEnters
<1>0. /\ closer' = [closer EXCEPT ![c].pc = "returned"]
      /\ UNCHANGED <<ringVars, shuttingDown, sources, stats, worker, admin, files, answers>>
      /\ closer[c].pc \in {"idle", "cancel"}
  BY DEF ShutdownAgain, Join
<1> USE <1>0
<1>1. /\ closer[c].queued = <<>> /\ shuttingDown
      /\ closer[c].drained => AllExited
      /\ closer[c].pc = "idle" => MayShutdown(c)
      /\ closer[c].pc = "cancel" => AllExited
  <2>1. CASE ShutdownAgain(c)
    BY <2>1 DEF ShutdownAgain, Join, BackendInv, ShutdownPhase
  <2>2. CASE Join(c)
    BY <2>2 DEF Join, BackendInv, ShutdownPhase
  <2> QED
    BY <2>1, <2>2
<1>2. /\ closer' \in [Closers -> CloserRecord]
      /\ closer'[c].pc = "returned" /\ closer'[c].queued = closer[c].queued
      /\ closer'[c].drained = closer[c].drained
      /\ \A d \in Closers : d # c => closer'[d] = closer[d]
  BY DEF BackendInv, Shape, CloserRecord
<1>3. /\ RingWindow' /\ WorkersBusy' /\ Busy' = Busy
      /\ \A p, q : RingHas(p, q)' <=> RingHas(p, q)
      /\ \A w, q : WorkerHas(w, q)' <=> WorkerHas(w, q)
      /\ AllExited' <=> AllExited
  BY <1>2, CallFrame
<1>4. Shape'
  BY <1>2 DEF BackendInv, Shape, ringVars
<1>5. \A d, i, q : CloserHas(d, i, q)' <=> CloserHas(d, i, q)
  BY <1>2 DEF CloserHas
<1>6. HeldOnce'
  BY <1>3, <1>5 DEF BackendInv, HeldOnce
<1>7. AnsweredByHolder'
  <2>1. \A i, q : ~CloserHas(c, i, q)
    BY <1>1 DEF CloserHas
  <2> QED
    BY <1>2, <1>3, <1>5, <2>1 DEF BackendInv, AnsweredByHolder
<1>8. ShutdownPhase'
  <2>1. ~Alive' => /\ \A d \in Closers \ {Owner} : closer'[d].pc \in {"idle", "returned"}
                   /\ \A a \in Admins : admin'[a].pc = "idle"
    <3>1. CASE ~Alive
      BY <1>2, <3>1 DEF BackendInv, ShutdownPhase
    <3>2. CASE Alive
      BY <1>1, <1>2, <3>2, BackendAssumption DEF Alive, MayShutdown
    <3> QED
      BY <3>1, <3>2
  <2>2. ringSize' = ringSize /\ shuttingDown' = shuttingDown
    BY DEF ringVars
  <2>3. shuttingDown' => ringSize' = 0 /\ \E d \in Closers : closer'[d].drained
    BY <1>2, <2>2 DEF BackendInv, ShutdownPhase
  <2>4. ASSUME NEW d \in Closers
        PROVE  /\ closer'[d].drained => shuttingDown' /\ closer'[d].pc # "idle"
               /\ closer'[d].pc # "idle" => shuttingDown'
               /\ closer'[d].pc \in {"cancel", "count"} => closer'[d].drained
               /\ closer'[d].queued # <<>> => closer'[d].pc \in {"cancel", "count"}
               /\ closer'[d].pc = "count" => closer'[d].queued # <<>>
               /\ closer'[d].pc = "destroyed" => d = Owner
               /\ closer'[d].drained /\ closer'[d].pc \in {"returned", "destroyed"} => AllExited'
    <3>1. CASE d = c
      BY <1>1, <1>2, <1>3, <3>1, <2>2
    <3>2. CASE d # c
      BY <1>2, <1>3, <3>2, <2>2 DEF BackendInv, ShutdownPhase
    <3> QED
      BY <3>1, <3>2
  <2>5. \A d, e \in Closers : closer'[d].drained /\ closer'[e].drained => d = e
    <3>1. \A d \in Closers : closer'[d].drained = closer[d].drained
      BY <1>2
    <3> QED
      BY <3>1 DEF BackendInv, ShutdownPhase
  <2> QED
    BY <2>1, <2>3, <2>4, <2>5 DEF ShutdownPhase
<1>9. HandleOwners'
  <2>1. closer'[Owner].pc = "destroyed" <=> closer[Owner].pc = "destroyed"
    BY <1>2, BackendAssumption
  <2> QED
    BY <2>1 DEF BackendInv, HandleOwners, ItemNamesFile, Opened, ringVars
<1>10. Counters'
  <2>1. \A d \in Closers : {d} \X DOMAIN closer'[d].queued = {d} \X DOMAIN closer[d].queued
    BY <1>2
  <2>2. QueuedOf(closer') = QueuedOf(closer)
    BY <2>1 DEF QueuedOf
  <2> QED
    BY <1>3, <2>2 DEF BackendInv, Counters, Queued, ringVars
<1>11. NothingEnters
  BY <1>3, <1>5 DEF NothingEnters, Entered
<1> QED
  BY <1>11, <1>3, <1>4, <1>6, <1>7, <1>8, <1>9, <1>10 DEF BackendInv

\* A call that goes on cancelling.
LEMMA CancellingFrame ==
  ASSUME BackendInv, NEW c \in Closers, closer[c].pc \in {"cancel", "count"},
         closer' \in [Closers -> CloserRecord],
         closer'[c].pc \in {"cancel", "count"}, closer'[c].drained = closer[c].drained,
         closer'[c].pc = "count" => closer'[c].queued # <<>>,
         \A d \in Closers : d # c => closer'[d] = closer[d],
         UNCHANGED <<ringVars, shuttingDown, sources, worker, admin, files>>
  PROVE  ShutdownPhase' /\ HandleOwners'
<1>1. /\ closer[c].drained /\ shuttingDown /\ ringSize = 0
      /\ \A d \in Closers : d # c => closer[d].queued = <<>> /\ ~closer[d].drained
      /\ closer[Owner].pc # "destroyed"
  BY OneCanceller
<1>2. AllExited' <=> AllExited
  BY CallFrame
<1>3. Alive' <=> Alive
  BY BackendAssumption DEF BackendInv, ShutdownPhase, Alive
<1>4. ShutdownPhase'
  <2>1. ~Alive' => /\ \A d \in Closers \ {Owner} : closer'[d].pc \in {"idle", "returned"}
                   /\ \A a \in Admins : admin'[a].pc = "idle"
    BY <1>3 DEF BackendInv, ShutdownPhase
  <2>2. ringSize' = 0 /\ shuttingDown' = shuttingDown
    BY <1>1 DEF ringVars
  <2>3. ASSUME NEW d \in Closers
        PROVE  /\ closer'[d].drained => shuttingDown' /\ closer'[d].pc # "idle"
               /\ closer'[d].pc # "idle" => shuttingDown'
               /\ closer'[d].pc \in {"cancel", "count"} => closer'[d].drained
               /\ closer'[d].queued # <<>> => closer'[d].pc \in {"cancel", "count"}
               /\ closer'[d].pc = "count" => closer'[d].queued # <<>>
               /\ closer'[d].pc = "destroyed" => d = Owner
               /\ closer'[d].drained /\ closer'[d].pc \in {"returned", "destroyed"} => AllExited'
    <3>1. CASE d = c
      <4>1. closer'[c].drained
        BY <1>1, Zenon
      <4> QED
        BY <1>1, <2>2, <3>1, <4>1
    <3>2. CASE d # c
      BY <1>2, <2>2, <3>2 DEF BackendInv, ShutdownPhase
    <3> QED
      BY <3>1, <3>2
  <2>4. \A d, e \in Closers : closer'[d].drained /\ closer'[e].drained => d = e
    BY <1>1
  <2>5. \E d \in Closers : closer'[d].drained
    BY <1>1
  <2> QED
    BY <2>1, <2>2, <2>3, <2>4, <2>5 DEF ShutdownPhase
<1>5. closer'[Owner].pc # "destroyed"
  BY <1>1, BackendAssumption
<1>6. HandleOwners'
  BY <1>1, <1>5 DEF BackendInv, HandleOwners, ItemNamesFile, Opened, ringVars
<1> QED
  BY <1>4, <1>6

LEMMA CancelHolds ==
  ASSUME BackendInv, NEW c \in Closers, Cancel(c)
  PROVE  BackendInv' /\ NothingEnters
<1>0. /\ closer[c].pc = "cancel" /\ closer[c].queued # <<>>
      /\ closer' = [closer EXCEPT ![c].pc = "count"]
      /\ answers' = [answers EXCEPT ![Head(closer[c].queued).request] = @ + 1]
      /\ UNCHANGED <<ringVars, shuttingDown, sources, stats, worker, admin, files>>
  BY DEF Cancel, CancelFirst, Delivered
<1> USE <1>0
<1>1. /\ closer' \in [Closers -> CloserRecord]
      /\ closer'[c].pc = "count" /\ closer'[c].queued = closer[c].queued
      /\ closer'[c].drained = closer[c].drained
      /\ \A d \in Closers : d # c => closer'[d] = closer[d]
  BY DEF BackendInv, Shape, CloserRecord
<1>2. closer[c].queued \in Seq(Item)
  BY DEF BackendInv, Shape, CloserRecord
<1>3. 1 \in DOMAIN closer[c].queued /\ Head(closer[c].queued) = closer[c].queued[1]
      /\ closer[c].queued[1] \in Item
  BY <1>2
<1>4. PICK q \in Requests : q = closer[c].queued[1].request
  BY <1>3 DEF Item
<1>5. CloserHas(c, 1, q)
  BY <1>3, <1>4 DEF CloserHas
<1>6. answers[q] = 0
  BY <1>5 DEF BackendInv, AnsweredByHolder, Shape
<1>7. answers' = [answers EXCEPT ![q] = @ + 1]
  BY <1>3, <1>4
<1>8. /\ answers' \in [Requests -> {0, 1}]
      /\ answers'[q] = 1 /\ \A r \in Requests : r # q => answers'[r] = answers[r]
  BY <1>6, <1>7 DEF BackendInv, Shape
<1>9. /\ RingWindow' /\ WorkersBusy' /\ Busy' = Busy
      /\ \A p, r : RingHas(p, r)' <=> RingHas(p, r)
      /\ \A w, r : WorkerHas(w, r)' <=> WorkerHas(w, r)
  BY <1>1, CallFrame
<1>10. Shape'
  BY <1>1, <1>8 DEF BackendInv, Shape, ringVars
<1>11. \A d, i, r : CloserHas(d, i, r)' <=> CloserHas(d, i, r)
  BY <1>1 DEF CloserHas
<1>12. HeldOnce'
  BY <1>9, <1>11 DEF BackendInv, HeldOnce
<1>13. ringSize = 0 /\ \A d \in Closers : d # c => closer[d].queued = <<>>
  BY OneCanceller
<1>14. AnsweredByHolder'
  <2>1. \A p \in 0 .. Capacity - 1, r \in Requests : ~RingHas(p, r)
    <3>1. \A p \in 0 .. Capacity - 1 : ~(Behind(p) < 0)
      BY BackendAssumption DEF Behind, BackendInv, Shape
    <3> QED
      BY <1>13, <3>1 DEF BackendInv, RingWindow, RingHas
  <2>2. \A w \in Workers : ~WorkerHas(w, q)
    BY <1>5 DEF BackendInv, HeldOnce
  <2>3. ASSUME NEW r \in Requests, NEW d \in Closers, NEW i \in Nat, CloserHas(d, i, r)
        PROVE  d = c /\ (i = 1 <=> r = q)
    <3>1. d = c
      BY <1>13, <2>3 DEF CloserHas
    <3>2. r = q => i = 1
      BY <1>5, <2>3, <3>1 DEF BackendInv, HeldOnce
    <3>3. i = 1 => r = q
      BY <1>4, <2>3, <3>1 DEF CloserHas
    <3> QED
      BY <3>1, <3>2, <3>3
  <2>4. ASSUME NEW r \in Requests, NEW d \in Closers, NEW i \in Nat, CloserHas(d, i, r)
        PROVE  answers'[r] = 1 <=> closer'[d].pc = "count" /\ i = 1
    BY <1>1, <1>8, <2>3, <2>4 DEF BackendInv, AnsweredByHolder
  <2> QED
    BY <1>8, <1>9, <1>11, <2>1, <2>2, <2>4 DEF BackendInv, AnsweredByHolder
<1>15. ShutdownPhase' /\ HandleOwners'
  BY <1>1, CancellingFrame
<1>16. Counters'
  <2>1. \A d \in Closers : {d} \X DOMAIN closer'[d].queued = {d} \X DOMAIN closer[d].queued
    BY <1>1
  <2>2. QueuedOf(closer') = QueuedOf(closer)
    BY <2>1 DEF QueuedOf
  <2> QED
    BY <1>9, <2>2 DEF BackendInv, Counters, Queued, ringVars
<1>17. NothingEnters
  BY <1>5, <1>8, <1>9, <1>11 DEF NothingEnters, Entered
<1> QED
  BY <1>17, <1>9, <1>10, <1>12, <1>14, <1>15, <1>16 DEF BackendInv

LEMMA CountCancelledHolds ==
  ASSUME BackendInv, NEW c \in Closers, CountCancelled(c)
  PROVE  BackendInv' /\ NothingEnters
<1>0. /\ closer[c].pc = "count"
      /\ closer' = [closer EXCEPT ![c] =
                      [closer[c] EXCEPT !.pc = "cancel", !.queued = Tail(closer[c].queued)]]
      /\ stats' = [stats EXCEPT !.cancelled = @ + 1]
      /\ UNCHANGED <<ringVars, shuttingDown, sources, worker, admin, files, answers>>
  BY DEF CountCancelled, DropFirst
<1> USE <1>0
<1>1. PICK queue \in Seq(Item) : queue = closer[c].queued
  BY DEF BackendInv, Shape, CloserRecord
<1>2. queue # <<>>
  BY <1>1 DEF BackendInv, ShutdownPhase
<1>3. PICK n \in Nat \ {0} : n = Len(queue)
  BY <1>2
<1>4. PICK rest \in Seq(Item) :
        /\ rest = Tail(queue) /\ Len(rest) = n - 1
        /\ \A i \in 1 .. n - 1 : rest[i] = queue[i + 1]
  <2>1. PICK rest \in Seq(Item) : rest = Tail(queue)
    BY <1>2, HeadTailProperties
  <2>2. Len(rest) = n - 1
    BY <1>2, <1>3, <2>1, HeadTailProperties
  <2>3. \A i \in 1 .. Len(rest) : rest[i] = queue[i + 1]
    BY <1>2, <2>1, HeadTailProperties
  <2> QED
    BY <2>1, <2>2, <2>3
<1>5. DOMAIN queue = 1 .. n /\ DOMAIN rest = 1 .. n - 1
  BY <1>3, <1>4
<1>6. /\ closer' \in [Closers -> CloserRecord]
      /\ closer'[c].pc = "cancel" /\ closer'[c].queued = rest
      /\ closer'[c].drained = closer[c].drained
      /\ \A d \in Closers : d # c => closer'[d] = closer[d]
  BY <1>1, <1>4 DEF BackendInv, Shape, CloserRecord
<1>7. /\ RingWindow' /\ WorkersBusy' /\ Busy' = Busy
      /\ \A p, r : RingHas(p, r)' <=> RingHas(p, r)
      /\ \A w, r : WorkerHas(w, r)' <=> WorkerHas(w, r)
  BY <1>6, CallFrame
<1>8. /\ stats' \in StatsRecord
      /\ stats'.cancelled = stats.cancelled + 1
      /\ stats'.accepted = stats.accepted /\ stats'.in_flight = stats.in_flight
      /\ stats'.completed_ok = stats.completed_ok /\ stats'.short_reads = stats.short_reads
      /\ stats'.errors = stats.errors
  <2>1. stats \in StatsRecord
    BY DEF BackendInv, Shape
  <2> QED
    BY <2>1 DEF StatsRecord
<1>9. Shape'
  BY <1>6, <1>8 DEF BackendInv, Shape, ringVars
<1>10. ringSize = 0 /\ \A d \in Closers : d # c => closer[d].queued = <<>>
  BY OneCanceller
<1>11. \A d, i, r : CloserHas(d, i, r)' =>
          d = c /\ i \in 1 .. n - 1 /\ CloserHas(c, i + 1, r)
  <2>1. ASSUME NEW d, NEW i, NEW r, CloserHas(d, i, r)'
        PROVE  d = c /\ i \in 1 .. n - 1 /\ CloserHas(c, i + 1, r)
    <3>1. d \in Closers /\ i \in DOMAIN closer'[d].queued /\ closer'[d].queued[i].request = r
      BY <2>1 DEF CloserHas
    <3>2. d = c
      BY <1>6, <1>10, <3>1
    <3>3. i \in 1 .. n - 1 /\ rest[i].request = r
      BY <1>5, <1>6, <3>1, <3>2
    <3>4. i + 1 \in 1 .. n /\ queue[i + 1].request = r
      BY <1>4, <3>3
    <3> QED
      BY <1>1, <1>5, <3>2, <3>3, <3>4 DEF CloserHas
  <2> QED
    BY <2>1
<1>12. HeldOnce'
  <2>1. ASSUME NEW q \in Requests, NEW d \in Closers, NEW i \in Nat, NEW j \in Nat,
               CloserHas(d, i, q)', CloserHas(d, j, q)'
        PROVE  i = j
    <3>1. CloserHas(c, i + 1, q) /\ CloserHas(c, j + 1, q) /\ i + 1 \in Nat /\ j + 1 \in Nat
      BY <1>11, <2>1
    <3>2. i + 1 = j + 1
      BY <3>1 DEF BackendInv, HeldOnce
    <3> QED
      BY <3>2
  <2>2. ASSUME NEW q \in Requests, NEW d \in Closers, NEW i \in Nat, NEW w \in Workers,
               CloserHas(d, i, q)'
        PROVE  ~WorkerHas(w, q)'
    <3>1. CloserHas(c, i + 1, q) /\ i + 1 \in Nat
      BY <1>11, <2>2
    <3> QED
      BY <1>7, <3>1 DEF BackendInv, HeldOnce
  <2> QED
    BY <1>7, <2>1, <2>2 DEF BackendInv, HeldOnce
<1>13. AnsweredByHolder'
  <2>1. ASSUME NEW q \in Requests, NEW d \in Closers, NEW i \in Nat, CloserHas(d, i, q)'
        PROVE  answers'[q] = 1 <=> closer'[d].pc = "count" /\ i = 1
    <3>1. d = c /\ CloserHas(c, i + 1, q) /\ i + 1 \in Nat /\ i + 1 # 1
      BY <1>11, <2>1
    <3>2. ~(answers[q] = 1)
      BY <3>1 DEF BackendInv, AnsweredByHolder
    <3> QED
      BY <1>6, <3>1, <3>2
  <2> QED
    BY <1>7, <2>1 DEF BackendInv, AnsweredByHolder
<1>14. ShutdownPhase' /\ HandleOwners'
  BY <1>6, CancellingFrame
<1>15. Counters'
  <2>1. Cardinality(Queued) = n
    BY <1>1, <1>3, <1>10, QueuedCount DEF BackendInv
  <2>2. \A d \in Closers \ {c} : closer'[d].queued = <<>>
    BY <1>6, <1>10
  <2>3. Cardinality(QueuedOf(closer')) = Len(closer'[c].queued)
    BY <1>6, <2>2, QueuedCountOf
  <2>4. Cardinality(Queued') = n - 1
    BY <1>4, <1>6, <2>3 DEF Queued
  <2>5. /\ stats.in_flight \in Nat /\ stats.completed_ok \in Nat /\ stats.short_reads \in Nat
        /\ stats.errors \in Nat /\ stats.cancelled \in Nat /\ stats.accepted \in Nat
    BY DEF BackendInv, Shape, StatsRecord
  <2>6. /\ stats.in_flight = Cardinality(Busy)
        /\ stats.accepted = ringSize + stats.in_flight + stats.completed_ok + stats.short_reads
                            + stats.errors + stats.cancelled + Cardinality(Queued)
    BY DEF BackendInv, Counters
  <2>7. ringSize' = ringSize
    BY DEF ringVars
  <2> QED
    <3>1. PICK total \in Nat, ok \in Nat, short \in Nat, bad \in Nat, off \in Nat, busy \in Nat :
            /\ total = stats.accepted /\ ok = stats.completed_ok /\ short = stats.short_reads
            /\ bad = stats.errors /\ off = stats.cancelled /\ busy = stats.in_flight
      BY <2>5
    <3>2. total = 0 + busy + ok + short + bad + off + n
      BY <1>10, <2>1, <2>6, <3>1
    <3>3. total = 0 + busy + ok + short + bad + (off + 1) + (n - 1)
      BY <3>2
    <3> QED
      BY <1>7, <1>8, <1>10, <2>4, <2>6, <2>7, <3>1, <3>3 DEF Counters
<1>16. NothingEnters
  <2>1. ASSUME NEW r \in Requests, NEW d, NEW i, CloserHas(d, i, r)
        PROVE  answers[r] = 1 \/ \E j : CloserHas(c, j, r)'
    <3>1. d = c /\ i \in 1 .. n /\ queue[i].request = r
      BY <1>1, <1>5, <1>10, <2>1 DEF CloserHas
    <3>2. CASE i = 1
      BY <2>1, <3>1, <3>2 DEF BackendInv, AnsweredByHolder
    <3>3. CASE i # 1
      <4>0. PICK j \in Int : j = i - 1
        BY <3>1
      <4>1. j \in 1 .. n - 1 /\ j + 1 = i
        BY <3>1, <3>3, <4>0
      <4>2. rest[j].request = r
        BY <1>4, <3>1, <4>1
      <4> QED
        BY <1>5, <1>6, <4>1, <4>2 DEF CloserHas
    <3> QED
      BY <3>2, <3>3
  <2> QED
    BY <1>7, <1>11, <2>1 DEF NothingEnters, Entered
<1> QED
  BY <1>16, <1>7, <1>9, <1>12, <1>13, <1>14, <1>15 DEF BackendInv

-----------------------------------------------------------------------------
(***************************************************************************)
(* The destructor's last step.                                             *)
(***************************************************************************)

\* When the destructor's shutdown has returned, somebody's has joined the workers.
LEMMA ReturnedMeansExited ==
  ASSUME BackendInv, closer[Owner].pc \in {"returned", "destroyed"}
  PROVE  AllExited
<1>1. ~Alive /\ shuttingDown
  BY BackendAssumption DEF BackendInv, ShutdownPhase, Alive
<1>2. PICK c \in Closers : closer[c].drained
  BY <1>1 DEF BackendInv, ShutdownPhase
<1>3. closer[c].pc \in {"returned", "destroyed"}
  BY <1>1, <1>2 DEF BackendInv, ShutdownPhase
<1> QED
  BY <1>2, <1>3 DEF BackendInv, ShutdownPhase

LEMMA CloseHolds ==
  ASSUME BackendInv, CloseHandles
  PROVE  BackendInv' /\ NothingEnters
<1>0. /\ closer[Owner].pc = "returned"
      /\ closer' = [closer EXCEPT ![Owner].pc = "destroyed"]
      /\ files' = [h \in Handles |-> IF \E i \in DOMAIN sources : sources[i].handle = h
                                     THEN None ELSE files[h]]
      /\ UNCHANGED <<ringVars, shuttingDown, sources, stats, worker, admin, answers>>
      /\ Owner \in Closers
  BY BackendAssumption DEF CloseHandles
<1> USE <1>0
<1>1. /\ closer' \in [Closers -> CloserRecord]
      /\ closer'[Owner].pc = "destroyed" /\ closer'[Owner].queued = closer[Owner].queued
      /\ closer'[Owner].drained = closer[Owner].drained
      /\ \A d \in Closers : d # Owner => closer'[d] = closer[d]
  BY DEF BackendInv, Shape, CloserRecord
<1>2. /\ RingWindow' /\ WorkersBusy' /\ Busy' = Busy
      /\ \A p, q : RingHas(p, q)' <=> RingHas(p, q)
      /\ \A w, q : WorkerHas(w, q)' <=> WorkerHas(w, q)
      /\ AllExited' <=> AllExited
  BY <1>1, CallFrame
<1>3. AllExited
  BY ReturnedMeansExited
<1>4. \A a \in Admins : admin[a].pc = "idle" /\ admin[a].handle = None
  BY DEF BackendInv, ShutdownPhase, HandleOwners, Alive
<1>5. Shape'
  <2>1. files' \in [Handles -> Sources \union {None}]
    BY DEF BackendInv, Shape
  <2> QED
    BY <1>1, <2>1 DEF BackendInv, Shape, ringVars
<1>6. \A d, i, q : CloserHas(d, i, q)' <=> CloserHas(d, i, q)
  BY <1>1 DEF CloserHas
<1>7. HeldOnce'
  BY <1>2, <1>6 DEF BackendInv, HeldOnce
<1>8. AnsweredByHolder'
  <2>1. \A d \in Closers : closer'[d].pc = "count" <=> closer[d].pc = "count"
    BY <1>1
  <2> QED
    BY <1>2, <1>6, <2>1 DEF BackendInv, AnsweredByHolder
<1>9. ShutdownPhase'
  <2>1. \A d \in Closers : /\ closer'[d].drained = closer[d].drained
                           /\ closer'[d].queued = closer[d].queued
                           /\ d # Owner => closer'[d].pc = closer[d].pc
    BY <1>1
  <2>2. ringSize' = ringSize /\ shuttingDown' = shuttingDown /\ ~Alive
    BY DEF ringVars, Alive
  <2> QED
    BY <1>1, <1>2, <1>3, <1>4, <2>1, <2>2 DEF BackendInv, ShutdownPhase
<1>10. HandleOwners'
  <2>1. \A h \in Handles : files'[h] # None =>
          files[h] # None /\ ~\E i \in DOMAIN sources : sources[i].handle = h
    OBVIOUS
  <2>2. \A h \in Handles : files'[h] = None
    BY <1>4, <2>1, BackendAssumption DEF BackendInv, HandleOwners
  <2> QED
    BY <1>1, <1>4, <2>2 DEF BackendInv, HandleOwners, ItemNamesFile, Opened, ringVars
<1>11. Counters'
  <2>1. \A d \in Closers : {d} \X DOMAIN closer'[d].queued = {d} \X DOMAIN closer[d].queued
    BY <1>1
  <2>2. QueuedOf(closer') = QueuedOf(closer)
    BY <2>1 DEF QueuedOf
  <2> QED
    BY <1>2, <2>2 DEF BackendInv, Counters, Queued, ringVars
<1>12. NothingEnters
  BY <1>2, <1>6 DEF NothingEnters, Entered
<1> QED
  BY <1>12, <1>2, <1>5, <1>7, <1>8, <1>9, <1>10, <1>11 DEF BackendInv

-----------------------------------------------------------------------------
(***************************************************************************)
(* The theorems.                                                           *)
(***************************************************************************)

\* Every step of the worker pool keeps the invariant.
LEMMA StepHolds ==
  ASSUME BackendInv, [Next]_vars
  PROVE  BackendInv'
<1>1. CASE UNCHANGED vars
  <2>1. UNCHANGED <<ringVars, shuttingDown, sources, stats, admin, closer, files, answers>>
        /\ UNCHANGED worker
    BY <1>1 DEF vars
  <2>2. QuietWorkers
    BY <2>1 DEF QuietWorkers, BackendInv, Shape
  <2> QED
    BY <2>1, <2>2, QuietHolds
<1>2. ASSUME NEW q \in Requests, submit(q)
      PROVE  BackendInv'
  BY <1>2, SubmitHolds
<1>3. ASSUME NEW w \in Workers, WorkerStep(w) \/ SpuriousWake(w)
      PROVE  BackendInv'
  <2>1. CASE WorkerSleep(w) \/ WorkerExit(w) \/ SpuriousWake(w)
    <3>1. QuietWorkers
      BY <2>1, WorkerMoves DEF BackendInv
    <3> QED
      BY <2>1, <3>1, QuietHolds DEF WorkerSleep, WorkerExit, SpuriousWake
  <2> QED
    BY <1>3, <2>1, TakeHolds, DeliverHolds, CountHolds DEF WorkerStep
<1>4. ASSUME NEW a \in Admins,
             RegisterRecord(a) \/ \E f \in Files, h \in Handles : RegisterOpen(a, f, h)
      PROVE  BackendInv'
  BY <1>4, RecordHolds, OpenHolds
<1>5. ASSUME NEW c \in Closers, shutdown(c) \/ CloserStep(c)
      PROVE  BackendInv'
  BY <1>5, ShutdownFirstHolds, ReturnHolds, CancelHolds, CountCancelledHolds
     DEF shutdown, CloserStep
<1> QED
  BY <1>1, <1>2, <1>3, <1>4, <1>5, CloseHolds DEF Next

\* The inductive invariant: the ring's window, one holder for every request in the pool
\* and its answer, the shutdown's progress, who may close which handle, the counters.
THEOREM BackendInvariant == Spec => []BackendInv
<1>1. Init => BackendInv
  BY InitHolds
<1>2. BackendInv /\ [Next]_vars => BackendInv'
  BY StepHolds
<1> QED
  BY <1>1, <1>2, PTL DEF Spec

\* perform reads the file the request named, and neither a duplicate registration nor
\* the destructor closes a handle that some item still refers to.
THEOREM HandlesStaySafe == Spec => []HandlesSafe
<1>1. BackendInv => HandlesSafe
  <2> SUFFICES ASSUME BackendInv PROVE HandlesSafe
    OBVIOUS
  <2>1. ASSUME NEW w \in Workers, worker[w].pc = "perform", worker[w].item.known
        PROVE  files[worker[w].item.handle] = SourceOf[worker[w].item.request]
    <3>1. worker[w].item # None
      BY <2>1 DEF BackendInv, WorkersBusy
    <3>2. PICK i \in DOMAIN sources : /\ sources[i].handle = worker[w].item.handle
                                      /\ sources[i].source = SourceOf[worker[w].item.request]
      BY <2>1, <3>1 DEF BackendInv, HandleOwners, ItemNamesFile, Opened
    <3>3. closer[Owner].pc # "destroyed"
      BY <2>1, ReturnedMeansExited DEF AllExited
    <3> QED
      BY <3>2, <3>3 DEF BackendInv, HandleOwners
  <2> QED
    BY <2>1 DEF HandlesSafe, BackendInv, HandleOwners
<1> QED
  BY <1>1, BackendInvariant, PTL

\* The state has its shape and the counters of stats() add up, whatever step is next.
THEOREM StatsAreExact == Spec => []StatsExact
<1>1. BackendInv => StatsExact
  <2> SUFFICES ASSUME BackendInv PROVE StatsExact
    OBVIOUS
  <2>1. TypeOK
    <3>1. \A field \in DOMAIN stats : stats[field] \in Nat
      BY DEF BackendInv, Shape, StatsRecord
    <3>2. \A w \in Workers :
            /\ worker[w].pc \in {"ready", "asleep", "perform", "count", "exited"}
            /\ worker[w].item \in Item \union {None}
      BY DEF BackendInv, Shape, WorkerRecord
    <3>3. \A a \in Admins : /\ admin[a].pc \in {"idle", "opened"}
                            /\ admin[a].file \in Files \union {None}
                            /\ admin[a].handle \in Handles \union {None}
      BY DEF BackendInv, Shape, AdminRecord
    <3>4. \A c \in Closers :
            /\ closer[c].pc \in {"idle", "cancel", "count", "returned", "destroyed"}
            /\ closer[c].queued \in Seq(Item)
      BY DEF BackendInv, Shape, CloserRecord
    <3>5. answers \in [Requests -> Nat]
      BY DEF BackendInv, Shape
    <3> QED
      BY <3>1, <3>2, <3>3, <3>4, <3>5 DEF TypeOK, BackendInv, Shape
  <2> QED
    BY <2>1 DEF StatsExact, BackendInv, Counters, Busy, Queued, QueuedOf
<1> QED
  BY <1>1, BackendInvariant, PTL

-----------------------------------------------------------------------------
(***************************************************************************)
(* Keepers.                                                                *)
(***************************************************************************)

\* Who is to answer q, in terms of who holds it.
LEMMA KeeperIs ==
  ASSUME BackendInv, NEW q \in Requests, NEW k \in Keepers(q)
  PROVE  \/ \E j \in 1 .. ringSize : k = <<"ring", j>>
                                     /\ RingHas((head + j - 1) % Capacity, q)
         \/ \E w \in Workers : k = <<"worker", w>> /\ worker[w].pc = "perform" /\ WorkerHas(w, q)
         \/ \E c \in Closers : k = <<"closer", c>>
              /\ \E i \in Nat : CloserHas(c, i, q) /\ ~(closer[c].pc = "count" /\ i = 1)
<1>1. CASE \E j \in 1 .. ringSize : k = <<"ring", j>> /\ Queue[j].request = q
  BY <1>1, QueueFits DEF BackendInv, RingHas
<1>2. CASE \E w \in Workers : /\ k = <<"worker", w>> /\ worker[w].pc = "perform"
                              /\ worker[w].item.request = q
  BY <1>2 DEF BackendInv, WorkersBusy, WorkerHas
<1>3. CASE \E c \in Closers : /\ k = <<"closer", c>>
                              /\ \E i \in DOMAIN closer[c].queued :
                                   /\ closer[c].queued[i].request = q
                                   /\ closer[c].pc = "count" => i # 1
  <2>1. \A c \in Closers : DOMAIN closer[c].queued \subseteq Nat
    BY DEF BackendInv, Shape, CloserRecord
  <2> QED
    BY <1>3, <2>1 DEF CloserHas
<1> QED
  BY <1>1, <1>2, <1>3 DEF Keepers

\* A request has at most one keeper, and none once it is answered.
LEMMA KeeperUnique ==
  ASSUME BackendInv, NEW q \in Requests
  PROVE  /\ \A k, l \in Keepers(q) : k = l
         /\ answers[q] = 1 => Keepers(q) = {}
<1>1. ASSUME NEW k \in Keepers(q) PROVE answers[q] = 0
  <2>1. answers[q] \in {0, 1}
    BY DEF BackendInv, Shape
  <2>2. ASSUME NEW j \in 1 .. ringSize, RingHas((head + j - 1) % Capacity, q)
        PROVE  answers[q] = 0
    BY <2>2 DEF BackendInv, AnsweredByHolder, RingHas
  <2>3. ASSUME NEW w \in Workers, worker[w].pc = "perform", WorkerHas(w, q)
        PROVE  answers[q] = 0
    BY <2>1, <2>3 DEF BackendInv, AnsweredByHolder
  <2>4. ASSUME NEW c \in Closers, NEW i \in Nat, CloserHas(c, i, q),
               ~(closer[c].pc = "count" /\ i = 1)
        PROVE  answers[q] = 0
    BY <2>1, <2>4 DEF BackendInv, AnsweredByHolder
  <2> QED
    BY <1>1, <2>2, <2>3, <2>4, KeeperIs
<1>2. ASSUME NEW j \in 1 .. ringSize, RingHas((head + j - 1) % Capacity, q),
             NEW i \in 1 .. ringSize, RingHas((head + i - 1) % Capacity, q)
      PROVE  i = j
  <2>1. (head + j - 1) % Capacity = (head + i - 1) % Capacity
    BY <1>2 DEF BackendInv, HeldOnce, RingHas
  <2>2. i - 1 = Behind((head + i - 1) % Capacity) /\ j - 1 = Behind((head + j - 1) % Capacity)
    BY RingPlaces DEF BackendInv
  <2>3. i - 1 = j - 1 /\ i \in Int /\ j \in Int
    BY <2>1, <2>2 DEF BackendInv, Shape
  <2> QED
    BY <2>3
<1>3. \A c, d \in Closers, i, j \in Nat : CloserHas(c, i, q) /\ CloserHas(d, j, q) => c = d
  BY DEF BackendInv, ShutdownPhase, CloserHas
<1>4. \A j, p, c, i : ~(j \in 1 .. ringSize /\ RingHas(p, q) /\ CloserHas(c, i, q))
  BY DEF BackendInv, ShutdownPhase, CloserHas
<1>5. /\ \A w, v \in Workers : WorkerHas(w, q) /\ WorkerHas(v, q) => w = v
      /\ \A w \in Workers : \A p : ~(RingHas(p, q) /\ WorkerHas(w, q))
      /\ \A w \in Workers, c \in Closers, i \in Nat : ~(CloserHas(c, i, q) /\ WorkerHas(w, q))
  BY DEF BackendInv, HeldOnce, RingHas
<1>6. ASSUME NEW k \in Keepers(q), NEW l \in Keepers(q) PROVE k = l
  <2>1. CASE \E j \in 1 .. ringSize : k = <<"ring", j>> /\ RingHas((head + j - 1) % Capacity, q)
    BY <1>2, <1>4, <1>5, <2>1, KeeperIs
  <2>2. CASE \E w \in Workers : k = <<"worker", w>> /\ worker[w].pc = "perform" /\ WorkerHas(w, q)
    BY <1>5, <2>2, KeeperIs
  <2>3. CASE \E c \in Closers : k = <<"closer", c>>
               /\ \E i \in Nat : CloserHas(c, i, q) /\ ~(closer[c].pc = "count" /\ i = 1)
    BY <1>3, <1>4, <1>5, <2>3, KeeperIs
  <2> QED
    BY <2>1, <2>2, <2>3, KeeperIs
<1> QED
  BY <1>1, <1>6

\* A request that was submitted and not answered has one.
LEMMA KeeperExists ==
  ASSUME BackendInv, NEW q \in Requests, Submitted(q), answers[q] = 0
  PROVE  Keepers(q) # {}
<1>1. ASSUME NEW p \in DOMAIN ring, ring[p] # None, ring[p].request = q
      PROVE  Keepers(q) # {}
  <2>1. p \in 0 .. Capacity - 1 /\ Behind(p) < ringSize
    BY <1>1 DEF BackendInv, Shape, RingWindow
  <2>2. PICK j \in 1 .. ringSize : (head + j - 1) % Capacity = p
    BY <2>1, PlaceInQueue DEF BackendInv
  <2>3. Queue[j].request = q
    BY <1>1, <2>2, QueueFits DEF BackendInv
  <2>4. <<"ring", j>> \in Keepers(q)
    BY <2>3 DEF Keepers
  <2> QED
    BY <2>4
<1>2. ASSUME NEW w \in Workers, worker[w].item # None, worker[w].item.request = q
      PROVE  Keepers(q) # {}
  <2>1. worker[w].pc = "perform"
    BY <1>2 DEF BackendInv, WorkersBusy, AnsweredByHolder, WorkerHas
  <2>2. <<"worker", w>> \in Keepers(q)
    BY <1>2, <2>1 DEF Keepers
  <2> QED
    BY <2>2
<1>3. ASSUME NEW c \in Closers, NEW i \in DOMAIN closer[c].queued,
             closer[c].queued[i].request = q
      PROVE  Keepers(q) # {}
  <2>1. i \in Nat
    BY DEF BackendInv, Shape, CloserRecord
  <2>2. closer[c].pc = "count" => i # 1
    BY <1>3, <2>1 DEF BackendInv, AnsweredByHolder, CloserHas
  <2>3. <<"closer", c>> \in Keepers(q)
    BY <1>3, <2>2 DEF Keepers
  <2> QED
    BY <2>3
<1> QED
  BY <1>1, <1>2, <1>3 DEF Submitted

\* Whoever gets to a request first, a worker or shutdown, one keeper has it until the
\* sink is told and none afterwards: it is answered once and not lost.
THEOREM OneKeeperAlways == Spec => []OneKeeper
<1>1. BackendInv => OneKeeper
  <2> SUFFICES ASSUME BackendInv, NEW q \in Requests
               PROVE  /\ Cardinality(Keepers(q)) + answers[q] <= 1
                      /\ Submitted(q) => Cardinality(Keepers(q)) + answers[q] = 1
    BY DEF OneKeeper
  <2>1. answers[q] \in {0, 1}
    BY DEF BackendInv, Shape
  <2>2. CASE Keepers(q) = {}
    <3>1. Cardinality(Keepers(q)) = 0
      BY <2>2, FS_EmptySet
    <3>2. Submitted(q) => answers[q] = 1
      BY <2>1, <2>2, KeeperExists
    <3> QED
      BY <2>1, <3>1, <3>2
  <2>3. CASE Keepers(q) # {}
    <3>1. PICK k : k \in Keepers(q)
      BY <2>3
    <3>2. Keepers(q) = {k}
      BY <3>1, KeeperUnique
    <3>3. Cardinality(Keepers(q)) = 1
      BY <3>2, FS_Singleton
    <3>4. answers[q] = 0
      BY <2>1, <2>3, KeeperUnique
    <3> QED
      BY <3>3, <3>4
  <2> QED
    BY <2>2, <2>3
<1> QED
  BY <1>1, BackendInvariant, PTL

\* When the shutdown call that did the work has returned, the workers are gone and every
\* accepted request has had its answer.
THEOREM ShutdownsAreFinal == Spec => []ShutdownIsFinal
<1>1. BackendInv => ShutdownIsFinal
  <2> SUFFICES ASSUME BackendInv, NEW c \in Closers, closer[c].drained,
                      closer[c].pc \in {"returned", "destroyed"}
               PROVE  AllExited /\ \A q \in Requests : Submitted(q) => answers[q] = 1
    BY DEF ShutdownIsFinal
  <2>1. AllExited /\ shuttingDown /\ ringSize = 0
    BY DEF BackendInv, ShutdownPhase
  <2>2. \A d \in Closers : closer[d].queued = <<>>
    BY DEF BackendInv, ShutdownPhase
  <2>3. ASSUME NEW q \in Requests, Submitted(q)
        PROVE  answers[q] = 1
    <3>1. ASSUME NEW k \in Keepers(q) PROVE FALSE
      BY <2>1, <2>2, KeeperIs DEF AllExited, CloserHas
    <3>2. Keepers(q) = {}
      BY <3>1
    <3> QED
      BY <2>3, <3>2, KeeperExists DEF BackendInv, Shape
  <2> QED
    BY <2>1, <2>3
<1> QED
  BY <1>1, BackendInvariant, PTL

-----------------------------------------------------------------------------
(***************************************************************************)
(* The backend contract: FillContract's initial state and its steps.  Its  *)
(* liveness is left to TLC.                                                *)
(***************************************************************************)
Pending == {q \in Requests : Keepers(q) # {}}

\* Each accepted request is answered once, by a step of its own, and only accepted ones
\* are: AnswersEverything without its fairness.
AnswersOnce == Contract!Init /\ [][Contract!Next]_(Contract!contractVars)

\* What is pending was submitted and is not answered.
PendingExact == \A q \in Requests : q \in Pending <=> Entered(q) /\ answers[q] = 0

LEMMA PendingIs == BackendInv => PendingExact
<1> SUFFICES ASSUME BackendInv, NEW q \in Requests
             PROVE  Keepers(q) # {} <=> Entered(q) /\ answers[q] = 0
  BY DEF PendingExact, Pending
<1>1. answers[q] \in {0, 1}
  BY DEF BackendInv, Shape
<1>2. ASSUME NEW k \in Keepers(q)
      PROVE  Entered(q) /\ answers[q] = 0
  <2>1. answers[q] = 0
    BY <1>1, KeeperUnique
  <2> QED
    BY <2>1, KeeperIs DEF Entered
<1>3. ASSUME Entered(q), answers[q] = 0
      PROVE  Keepers(q) # {}
  <2>1. DOMAIN ring = 0 .. Capacity - 1
    BY DEF BackendInv, Shape
  <2>2. Submitted(q)
    BY <1>3, <2>1 DEF Entered, Submitted, RingHas, WorkerHas, CloserHas
  <2> QED
    BY <1>3, <2>2, KeeperExists
<1> QED
  BY <1>2, <1>3

\* A step that admits nothing and answers nothing is no step of the contract.
LEMMA NothingPendingChanges ==
  ASSUME BackendInv, BackendInv', NothingEnters, UNCHANGED answers
  PROVE  UNCHANGED <<Pending, answers>>
<1>1. BackendInv' => PendingExact'
  BY PendingIs, PTL
<1>2. \A q \in Requests : q \in Pending' <=> q \in Pending
  BY <1>1, PendingIs DEF PendingExact, NothingEnters
<1> QED
  BY <1>2 DEF Pending

\* submit accepts, never answers.
LEMMA SubmitAccepts ==
  ASSUME BackendInv, BackendInv', NEW q \in Requests, submit(q)
  PROVE  /\ q \notin Pending /\ answers[q] = 0
         /\ Pending' = Pending \union {q} /\ UNCHANGED answers
<1>1. BackendInv' => PendingExact'
  BY PendingIs, PTL
<1>2. UNCHANGED answers /\ ~Submitted(q)
  BY DEF submit
<1>3. answers[q] = 0 /\ ~Entered(q)
  BY <1>2, NotSubmitted DEF BackendInv, Entered
<1>4. \A r \in Requests : Entered(r)' <=> Entered(r) \/ r = q
  BY SubmitHolds
<1>5. \A r \in Requests : r \in Pending' <=> r \in Pending \/ r = q
  BY <1>1, <1>2, <1>3, <1>4, PendingIs DEF PendingExact
<1>6. Pending \subseteq Requests /\ Pending' \subseteq Requests
  BY DEF Pending
<1> QED
  BY <1>2, <1>3, <1>5, <1>6, PendingIs DEF PendingExact

\* A delivery answers a pending request.
LEMMA DeliveryAnswers ==
  ASSUME BackendInv, BackendInv', NothingEnters, NEW q \in Requests, Delivered(q),
         Entered(q), answers[q] = 0
  PROVE  /\ q \in Pending /\ Pending' = Pending \ {q}
         /\ answers' = [answers EXCEPT ![q] = @ + 1]
<1>1. BackendInv' => PendingExact'
  BY PendingIs, PTL
<1>2. answers' = [answers EXCEPT ![q] = @ + 1]
  BY DEF Delivered
<1>3. answers'[q] = 1 /\ \A r \in Requests : r # q => answers'[r] = answers[r]
  BY <1>2 DEF BackendInv, Shape
<1>4. \A r \in Requests : r \in Pending' <=> r \in Pending /\ r # q
  BY <1>1, <1>3, PendingIs DEF PendingExact, NothingEnters
<1>5. Pending \subseteq Requests /\ Pending' \subseteq Requests
  BY DEF Pending
<1> QED
  BY <1>2, <1>4, <1>5, PendingIs DEF PendingExact

\* The worker pool keeps the contract of transfer.hpp for a backend: an accepted request
\* is answered at most once, by a worker or by shutdown, never by submit.
THEOREM BackendKeepsContract == Spec => AnswersOnce
<1>1. Init => Contract!Init
  <2> SUFFICES ASSUME Init PROVE Pending = {} /\ answers = [q \in Requests |-> 0]
    BY DEF Contract!Init, Pending
  <2>1. BackendInv
    BY InitHolds
  <2>2. \A q \in Requests : ~Entered(q)
    <3>1. ASSUME NEW q \in Requests, Submitted(q) PROVE FALSE
      BY <3>1 DEF Init, Submitted, Idle, NoCall
    <3> QED
      BY <2>1, <3>1, NotSubmitted DEF BackendInv, Entered
  <2> QED
    BY <2>1, <2>2, PendingIs DEF PendingExact, Init, Pending
<1>2. BackendInv /\ BackendInv' /\ [Next]_vars => [Contract!Next]_<<Pending, answers>>
  <2> SUFFICES ASSUME BackendInv, BackendInv', [Next]_vars
               PROVE  Contract!Next \/ UNCHANGED <<Pending, answers>>
    OBVIOUS
  <2>1. ASSUME NEW q \in Requests, submit(q)
        PROVE  Contract!Next
    BY <2>1, SubmitAccepts DEF Contract!Next, Contract!Accept, Pending
  <2>2. ASSUME NEW q \in Requests, Delivered(q), NothingEnters, Entered(q), answers[q] = 0
        PROVE  Contract!Next
    BY <2>2, DeliveryAnswers DEF Contract!Next, Contract!Answer, Pending
  <2>3. ASSUME NEW w \in Workers, Deliver(w)
        PROVE  Contract!Next
    <3>1. worker[w].pc = "perform" /\ worker[w].item # None /\ worker[w].item \in Item
      BY <2>3 DEF Deliver, BackendInv, WorkersBusy, Shape, WorkerRecord
    <3>2. PICK q \in Requests : q = worker[w].item.request
      BY <3>1 DEF Item
    <3>3. WorkerHas(w, q)
      BY <3>1, <3>2 DEF WorkerHas
    <3>4. answers[q] = 0
      BY <3>1, <3>3 DEF BackendInv, AnsweredByHolder, Shape
    <3>5. Delivered(q) /\ NothingEnters
      BY <2>3, <3>2, DeliverHolds DEF Deliver
    <3> QED
      BY <2>2, <3>3, <3>4, <3>5 DEF Entered
  <2>4. ASSUME NEW c \in Closers, Cancel(c)
        PROVE  Contract!Next
    <3>1. /\ closer[c].pc = "cancel" /\ closer[c].queued # <<>>
          /\ closer[c].queued \in Seq(Item)
      BY <2>4 DEF Cancel, CancelFirst, BackendInv, Shape, CloserRecord
    <3>2. /\ 1 \in DOMAIN closer[c].queued /\ closer[c].queued[1] \in Item
          /\ Head(closer[c].queued) = closer[c].queued[1]
      BY <3>1
    <3>3. PICK q \in Requests : q = closer[c].queued[1].request
      BY <3>2 DEF Item
    <3>4. CloserHas(c, 1, q)
      BY <3>2, <3>3 DEF CloserHas
    <3>5. answers[q] = 0
      BY <3>1, <3>4 DEF BackendInv, AnsweredByHolder, Shape
    <3>6. Delivered(q) /\ NothingEnters
      BY <2>4, <3>2, <3>3, CancelHolds DEF Cancel
    <3> QED
      BY <2>2, <3>4, <3>5, <3>6 DEF Entered
  <2>5. ASSUME NEW w \in Workers, WorkerSleep(w) \/ WorkerExit(w) \/ SpuriousWake(w)
        PROVE  NothingEnters /\ UNCHANGED answers
    <3>1. QuietWorkers
      BY <2>5, WorkerMoves DEF BackendInv
    <3> QED
      BY <2>5, <3>1, QuietHolds DEF WorkerSleep, WorkerExit, SpuriousWake
  <2>6. ASSUME NEW w \in Workers, Take(w) \/ Count(w)
        PROVE  NothingEnters /\ UNCHANGED answers
    BY <2>6, TakeHolds, CountHolds DEF Take, Count
  <2>7. ASSUME NEW a \in Admins,
               RegisterRecord(a) \/ \E f \in Files, h \in Handles : RegisterOpen(a, f, h)
        PROVE  NothingEnters /\ UNCHANGED answers
    BY <2>7, RecordHolds, OpenHolds DEF RegisterRecord, RegisterOpen
  <2>8. ASSUME NEW c \in Closers, shutdown(c) \/ CountCancelled(c) \/ Join(c)
        PROVE  NothingEnters /\ UNCHANGED answers
    BY <2>8, ShutdownFirstHolds, ReturnHolds, CountCancelledHolds
       DEF shutdown, ShutdownFirst, ShutdownAgain, CountCancelled, Join
  <2>9. ASSUME CloseHandles
        PROVE  NothingEnters /\ UNCHANGED answers
    BY <2>9, CloseHolds DEF CloseHandles
  <2>10. CASE UNCHANGED vars
    BY <2>10 DEF vars, ringVars, Pending, Keepers, Queue
  <2> QED
    BY <2>1, <2>3, <2>4, <2>5, <2>6, <2>7, <2>8, <2>9, <2>10, NothingPendingChanges
       DEF Next, WorkerStep, CloserStep
<1> QED
  BY <1>1, <1>2, BackendInvariant, PTL DEF Spec, AnswersOnce, Contract!contractVars, Pending

=============================================================================
