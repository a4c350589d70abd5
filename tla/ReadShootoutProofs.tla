------------------------- MODULE ReadShootoutProofs -------------------------
(***************************************************************************)
(* The read shootout, for any number of slots, rows, pieces, rounds and    *)
(* worker threads: the rows main holds stay as they were read, nobody      *)
(* writes between reads, and MemPageRead's TransferSet refuses nothing.    *)
(***************************************************************************)
EXTENDS ReadShootout, Sequences, FiniteSetTheorems, TLAPS

\* What is proved of TransferSet, for the set MemPageRead makes.
S == INSTANCE TransferSetProofs WITH
       Threads <- {"main"}, WordMod <- 2 * Misses * KSlots * NumPieces,
       SourceBytes <- Misses * NumPieces, DestinationBytes <- KSlots * NumPieces,
       MaxClaims <- max_claims, Submissions <- {}, FillResults <- Answers,
       MaxDuplicates <- 0

-----------------------------------------------------------------------------
(***************************************************************************)
(* The inductive invariant: main.                                          *)
(***************************************************************************)
ArmNames == {"inline", "pool", "iocp", "ioring", "mempage"}
DriverPhases == {"opening", "ready", "reading", "got", "closing", "verifying", "exited",
                 "done"}

Contents == [SlotBytes -> (0 .. Misses * NumPieces - 1) \union {None}]

DriverInv ==
  /\ arm \in ArmNames /\ phase \in DriverPhases /\ miss \in 0 .. Misses
  /\ contents \in Contents
  /\ phase \in {"reading", "got"} => miss < Misses
  /\ phase = "opening" => miss = 0
  /\ phase = "closing" => arm = "pool"

Reads(a) == phase = "reading" /\ arm = a

\* A piece is in its slot; all pieces of the row being read are.
There(p) == contents[Destination(miss, p)] = Source(miss, p)
RowThere == \A p \in Pieces : There(p)

(***************************************************************************)
(* The pool: pieces taken and not done are those being read, so that the   *)
(* last one done leaves nobody reading; between reads nobody finds a piece *)
(* to take.                                                                *)
(***************************************************************************)
Task == [miss : {miss}, part : Pieces]
Reading == {w \in Readers : worker[w].pc = "reading"}

PoolShape ==
  /\ pool \in [next : 0 .. NumPieces, done : Nat, failed : BOOLEAN, generation : Nat,
               stop : BOOLEAN]
  /\ DOMAIN worker = Readers
  /\ \A w \in Readers :
       /\ worker[w].pc \in {"acquire", "parked", "reading", "gone"}
       /\ worker[w] = [pc |-> worker[w].pc, seen |-> worker[w].seen, task |-> worker[w].task]
  /\ caller \in {"out", "asleep", "acquire", "notify", "join"}

PoolCalled ==
  /\ caller \in {"asleep", "acquire"} <=> Reads("pool")
  /\ caller \in {"notify", "join"} <=> phase = "closing"
  /\ \A w \in Readers : worker[w].pc # "gone" =>
       arm = "pool" /\ phase \in {"ready", "reading", "got", "closing", "exited"}

PoolCounts ==
  /\ IsFiniteSet(Reading) /\ Cardinality(Reading) + pool.done = pool.next
  /\ \A w \in Reading : /\ worker[w].task \in Task /\ worker[w].task.part <= pool.next
                        /\ Reads("pool")
  /\ \A v, w \in Reading : worker[v].task.part = worker[w].task.part => v = w

PoolRow ==
  Reads("pool") => \A p \in 1 .. pool.next :
    \/ \E w \in Reading : worker[w].task.part = p
    \/ pool.failed
    \/ There(p)

PoolNothingLeft ==
  ~Reads("pool") => \/ pool.next = NumPieces
                    \/ \A w \in Readers : worker[w].pc # "gone" =>
                                            worker[w].seen = pool.generation

PoolInv == PoolShape /\ PoolCalled /\ PoolCounts /\ PoolRow /\ PoolNothingLeft

(***************************************************************************)
(* The kernel's reads, and the two strategies that wait for them: what was *)
(* accepted and not taken back is in the kernel or queued.                 *)
(***************************************************************************)
Pending == Cardinality(kernel) + Cardinality(port)

KernelShape ==
  /\ kernel \subseteq Task /\ port \subseteq [request : Task, whole : BOOLEAN]
  /\ IsFiniteSet(kernel) /\ IsFiniteSet(port)
  /\ \A c \in port : c.request \notin kernel
  /\ kernel # {} => miss < Misses
  /\ kernel # {} \/ port # {} => Reads("iocp") \/ Reads("ioring") \/ phase = "exited"

\* The first n pieces: still being read, ended short and not yet reported, or there.
KernelRow(n) ==
  \A p \in 1 .. n :
    \/ \E q \in kernel : q.part = p
    \/ \E c \in port : c.request.part = p /\ ~c.whole
    \/ There(p)

IocpShape ==
  /\ iocp \in [pc : {"out", "issuing", "draining"}, issued : 0 .. NumPieces,
               taken : 0 .. NumPieces, ok : BOOLEAN, lost : Nat]
  /\ iocp.pc # "out" <=> Reads("iocp")
  /\ iocp.pc = "issuing" => /\ iocp.issued < NumPieces /\ iocp.taken = 0
                            /\ iocp.ok

IocpCounts ==
  /\ Reads("iocp") => /\ iocp.taken <= iocp.issued
                      /\ Pending = (iocp.issued - iocp.taken) + iocp.lost
                      /\ \A q \in kernel : q.part <= iocp.issued
                      /\ \A c \in port : c.request.part <= iocp.issued
                      /\ iocp.ok => iocp.lost = 0 /\ KernelRow(iocp.issued)
                      /\ iocp.ok /\ iocp.pc = "draining" => iocp.issued = NumPieces
  /\ ~Reads("iocp") /\ iocp.lost > 0 => phase = "exited"
  /\ phase = "exited" => Pending <= iocp.lost

RingInv ==
  /\ ring \in [pc : {"out", "building", "waiting", "popping"}, got : 0 .. NumPieces,
               bytes : 0 .. NumPieces, ok : BOOLEAN]
  /\ ring.pc # "out" <=> Reads("ioring")
  /\ ring.pc = "building" => kernel = {} /\ port = {}
  /\ ring.pc \in {"building", "waiting"} => ring.got = 0 /\ ring.bytes = 0
  /\ ring.pc = "waiting" => Pending = NumPieces /\ KernelRow(NumPieces)
  /\ ring.pc = "popping" => /\ kernel = {} /\ Cardinality(port) = NumPieces - ring.got
                            /\ ring.bytes <= ring.got
                            /\ ring.bytes = ring.got => KernelRow(NumPieces)

KernelInv == KernelShape /\ IocpShape /\ IocpCounts /\ RingInv

(***************************************************************************)
(* MemPageRead: its set's own invariant, and what its claims are for.      *)
(***************************************************************************)
IsPiece(x, p) ==
  /\ x.destination = Destination(miss, p) /\ x.offset = Source(miss, p) /\ x.length = 1

MemPageShape ==
  /\ S!SetInv /\ late = {}
  /\ mempage \in [pc : {"out", "submitting", "waiting", "clearing"}, part : Pieces,
                  ok : BOOLEAN]
  /\ mempage.pc # "out" <=> Reads("mempage")
  /\ mempage.pc \in {"out", "clearing"} => requests = {} /\ call["main"].pc = "idle"
  /\ mempage.pc = "out" => claims = {}

MemPagePieces ==
  /\ \A q \in requests : \E p \in Pieces : IsPiece(q, p)
  /\ \A c \in claims : \E p \in Pieces : IsPiece(c, p)
  /\ mempage.pc # "clearing" => \A r \in S!Records : S!InUse(r) => records[r].held

MemPageSubmits ==
  mempage.pc = "submitting" =>
    /\ call["main"].pc \in {"idle", "recording"} /\ mempage.ok
    /\ Len(live) = mempage.part - 1
    /\ \A c \in claims : \E p \in 1 .. mempage.part - 1 : IsPiece(c, p)
    /\ \A p \in 1 .. mempage.part - 1 : \E c \in claims : IsPiece(c, p)
    /\ IsFiniteSet(requests)
    /\ IF call["main"].pc = "idle" THEN Cardinality(requests) < mempage.part
       ELSE /\ Cardinality(requests) <= mempage.part
            /\ \A q \in requests : q.record = call["main"].record => IsPiece(q, mempage.part)

MemPageWaits ==
  mempage.pc = "waiting" =>
    /\ call["main"].pc \in {"idle", "asleep", "acquire"}
    /\ \A p \in Pieces : \E c \in claims : IsPiece(c, p)
    /\ \A p \in 1 .. mempage.part - 1 : \A c \in claims : IsPiece(c, p) =>
         /\ records[c.record].state # "submitted"
         /\ mempage.ok => records[c.record].state = "completed"

MemPageClears == mempage.pc = "clearing" /\ mempage.ok => RowThere

MemPageInv ==
  MemPageShape /\ MemPagePieces /\ MemPageSubmits /\ MemPageWaits /\ MemPageClears

ShootoutInv == DriverInv /\ RowsStay /\ PoolInv /\ KernelInv /\ MemPageInv

-----------------------------------------------------------------------------
(***************************************************************************)
(* Slots and rows.                                                         *)
(***************************************************************************)
LEMMA ConstantsAre == /\ KSlots \in Nat \ {0} /\ Misses \in Nat \ {0} /\ NumPieces \in Nat \ {0}
                      /\ None \notin Nat
BY DriverAssumption

\* Going round m times more is going nowhere.
LEMMA WholeTurns ==
  ASSUME NEW n \in Nat \ {0}, NEW s \in 0 .. n - 1, NEW m \in Int, NEW x \in Int,
         x = m * n + s
  PROVE  x % n = s
<1>1. PICK d \in Int, r \in Int : d = x \div n /\ r = x % n
  OBVIOUS
<1>2. x = n * d + r /\ 0 <= r /\ r < n
  BY <1>1
<1>3. PICK e \in Int : e = d - m
  OBVIOUS
<1>4. n * e = s - r
  BY <1>2, <1>3
<1>5. (e >= 1 => n * e >= n) /\ (e <= -1 => n * e <= -n)
  OBVIOUS
<1>6. e = 0
  BY <1>2, <1>4, <1>5
<1> QED
  BY <1>1, <1>4, <1>6

LEMMA TimesKeepsOrder ==
  ASSUME NEW u \in Nat \ {0}, NEW k \in Int, NEW l \in Int
  PROVE  /\ k * u \in Int
         /\ k <= l => k * u <= l * u
         /\ k * u < l * u => k < l
<1>1. PICK d \in Int : d = l - k
  OBVIOUS
<1>2. d * u = l * u - k * u /\ k * u \in Int /\ l * u \in Int /\ d * u \in Int
  BY <1>1
<1>3. (d >= 0 => d * u >= 0) /\ (d <= 0 => d * u <= 0)
  OBVIOUS
<1> QED
  BY <1>1, <1>2, <1>3

\* Row k's pieces are k * n and the n - 1 numbers that follow.
LEMMA PieceNumbers ==
  ASSUME NEW n \in Nat \ {0}, NEW k \in Nat, NEW l \in Nat, NEW p \in 1 .. n, NEW q \in 1 .. n
  PROVE  /\ k * n + p - 1 \in Nat
         /\ k < l => k * n + p - 1 < l * n
         /\ k * n + p - 1 = l * n + q - 1 => k = l /\ p = q
<1>1. /\ k * n \in Int /\ l * n \in Int /\ 0 * n = 0 /\ (k + 1) * n = k * n + n
      /\ (l + 1) * n = l * n + n
  OBVIOUS
<1>2. /\ 0 * n <= k * n
      /\ k + 1 <= l => (k + 1) * n <= l * n
      /\ l + 1 <= k => (l + 1) * n <= k * n
  BY TimesKeepsOrder
<1> QED
  BY <1>1, <1>2

LEMMA PlacesOfPieces ==
  ASSUME NEW m \in Nat, NEW p \in Pieces
  PROVE  /\ Destination(m, p) \in SlotBytes /\ Destination(m, p) \in Nat
         /\ Destination(m, p) < KSlots * NumPieces
         /\ Source(m, p) \in Nat
         /\ m < Misses => Source(m, p) \in 0 .. Misses * NumPieces - 1
<1>1. PICK K \in Nat \ {0}, M \in Nat \ {0}, n \in Nat \ {0} :
        K = KSlots /\ M = Misses /\ n = NumPieces
  BY ConstantsAre
<1>2. p \in 1 .. n
  BY <1>1 DEF Pieces
<1>3. PICK s \in Nat : s = m % K /\ s < K
  OBVIOUS
<1>4. PICK d \in Nat : d = s * n + p - 1 /\ d < K * n
  BY <1>2, <1>3, PieceNumbers
<1>5. PICK e \in Nat : e = m * n + p - 1 /\ (m < M => e < M * n)
  BY <1>2, PieceNumbers
<1>6. K * n \in Int /\ M * n \in Int
  OBVIOUS
<1>7. Destination(m, p) = d /\ Source(m, p) = e
  BY <1>1, <1>3, <1>4, <1>5 DEF Destination, Source
<1> QED
  BY <1>1, <1>4, <1>5, <1>6, <1>7 DEF SlotBytes

\* Rows less than a ring apart are in different slots.
LEMMA SlotsApart ==
  ASSUME NEW m \in Nat, NEW l \in Nat, m < l, l - m < KSlots
  PROVE  m % KSlots # l % KSlots
<1>1. PICK K \in Nat \ {0} : K = KSlots
  BY ConstantsAre
<1>2. PICK d \in Int, r \in Int, e \in Int, s \in Int :
        d = m \div K /\ r = m % K /\ e = l \div K /\ s = l % K
  OBVIOUS
<1>3. m = K * d + r /\ l = K * e + s
  BY <1>2
<1>4. ASSUME r = s PROVE FALSE
  <2>1. PICK f \in Int : f = e - d
    OBVIOUS
  <2>2. K * f = l - m
    BY <1>3, <1>4, <2>1
  <2>3. (f >= 1 => K * f >= K) /\ (f <= 0 => K * f <= 0)
    OBVIOUS
  <2> QED
    BY <1>1, <2>2, <2>3
<1> QED
  BY <1>1, <1>2, <1>4

LEMMA DestinationsApart ==
  ASSUME NEW m \in Nat, NEW l \in Nat, NEW p \in Pieces, NEW q \in Pieces,
         Destination(m, p) = Destination(l, q)
  PROVE  p = q /\ m % KSlots = l % KSlots
<1>1. PICK K \in Nat \ {0}, n \in Nat \ {0} : K = KSlots /\ n = NumPieces
  BY ConstantsAre
<1>2. p \in 1 .. n /\ q \in 1 .. n
  BY <1>1 DEF Pieces
<1>3. PICK s \in Nat, t \in Nat : s = m % K /\ t = l % K
  OBVIOUS
<1>4. s * n + p - 1 = t * n + q - 1
  BY <1>1, <1>3 DEF Destination
<1>5. s = t /\ p = q
  BY <1>2, <1>4, PieceNumbers
<1> QED
  BY <1>1, <1>3, <1>5

-----------------------------------------------------------------------------
(***************************************************************************)
(* The set MemPageRead makes is one TransferSet is proved for.             *)
(***************************************************************************)
SetWords == 2 * Misses * KSlots * NumPieces

LEMMA WordsLarge ==
  /\ SetWords \in Nat \ {0}
  /\ Misses * NumPieces \in Nat \ {0} /\ Misses * NumPieces < SetWords
  /\ KSlots * NumPieces \in Nat \ {0} /\ KSlots * NumPieces < SetWords
<1>1. PICK K \in Nat \ {0}, M \in Nat \ {0}, n \in Nat \ {0} :
        K = KSlots /\ M = Misses /\ n = NumPieces
  BY ConstantsAre
<1>2. PICK a \in Nat, b \in Nat : a = M * n /\ b = K * n
  OBVIOUS
<1>3. a >= 1 /\ b >= 1
  <2>1. 1 * n = n
    OBVIOUS
  <2> QED
    BY <1>2, <2>1, TimesKeepsOrder
<1>4. PICK w \in Nat : w = ((2 * M) * K) * n
  OBVIOUS
<1>5. w = (2 * K) * a /\ w = (2 * M) * b
  BY <1>2, <1>4
<1>6. 2 * K >= 2 /\ 2 * M >= 2
  OBVIOUS
<1>7. w >= 2 * a /\ w >= 2 * b
  <2>1. a \in Nat \ {0} /\ b \in Nat \ {0} /\ 2 * K \in Int /\ 2 * M \in Int
    BY <1>3
  <2> QED
    BY <1>5, <1>6, <2>1, TimesKeepsOrder
<1> QED
  BY <1>1, <1>2, <1>3, <1>4, <1>7 DEF SetWords

LEMMA SetAssumptions ==
  /\ 2 * Misses * KSlots * NumPieces \in Nat \ {0}
  /\ Misses * NumPieces \in S!Word \ {0}
  /\ KSlots * NumPieces \in S!Word \ {0}
  /\ max_claims \in Nat \ {0}
  /\ GenMod \in Nat \ {0, 1}
  /\ 0 \in Nat
  /\ None \notin {"main"} /\ None \notin S!Word
  /\ {} \subseteq [source : S!ByteRange, destination : S!Word]
  /\ Answers \subseteq S!FillResult
  /\ \A res \in Answers : res.status # "pending"
<1>1. PICK w \in Nat \ {0} : w = 2 * Misses * KSlots * NumPieces
  BY WordsLarge DEF SetWords
<1>2. S!Word = 0 .. w - 1
  BY <1>1 DEF S!Word
<1>3. /\ Misses * NumPieces \in 0 .. w - 1 /\ Misses * NumPieces # 0
      /\ KSlots * NumPieces \in 0 .. w - 1 /\ KSlots * NumPieces # 0
  BY <1>1, WordsLarge DEF SetWords
<1>4. Answers \subseteq S!FillResult /\ \A res \in Answers : res.status # "pending"
  BY DEF Answers, S!FillResult, S!Status
<1>5. None \notin 0 .. w - 1
  BY ConstantsAre
<1> QED
  BY <1>1, <1>2, <1>3, <1>4, <1>5, ConstantsAre, MemPageAssumption DEF max_claims

-----------------------------------------------------------------------------
(***************************************************************************)
(* main's steps, and the steps of the others while main stands still.      *)
(***************************************************************************)
OnlyItsSlot ==
  \A b \in SlotBytes : contents'[b] = contents[b] \/ \E p \in Pieces : b = Destination(miss, p)

\* Whoever writes while a row is read writes into its slot: the rows served are elsewhere.
LEMMA WritesKeepRows ==
  ASSUME DriverInv, RowsStay, UNCHANGED driverVars, contents' \in Contents,
         contents' = contents \/ (phase \in {"reading", "exited"} /\ OnlyItsSlot)
  PROVE  DriverInv' /\ RowsStay'
<1>1. UNCHANGED <<arm, round, miss, phase>>
  BY DEF driverVars
<1>2. DriverInv' /\ Served' = Served
  BY <1>1 DEF DriverInv, Contents, Served
<1>3. CASE contents' = contents
  BY <1>2, <1>3 DEF RowsStay
<1>4. CASE phase = "exited"
  BY <1>2, <1>4 DEF RowsStay, Served
<1>5. CASE phase = "reading" /\ OnlyItsSlot
  <2> SUFFICES ASSUME NEW m \in Served, NEW p \in Pieces
               PROVE  contents'[Destination(m, p)] = Source(m, p)
    BY <1>2 DEF RowsStay
  <2>1. KSlots \in Nat /\ Misses \in Nat /\ miss \in Nat
    BY ConstantsAre DEF DriverInv
  <2>2. m \in Nat /\ m < miss /\ miss - m < KSlots
    BY <1>5, <2>1 DEF Served
  <2>3. \A q \in Pieces : Destination(m, p) # Destination(miss, q)
    BY <2>1, <2>2, DestinationsApart, SlotsApart
  <2>4. Destination(m, p) \in SlotBytes
    BY <2>2, PlacesOfPieces
  <2>5. contents'[Destination(m, p)] = contents[Destination(m, p)]
    BY <1>5, <2>3, <2>4 DEF OnlyItsSlot
  <2> QED
    BY <2>5 DEF RowsStay
<1> QED
  BY <1>3, <1>4, <1>5

\* main goes on to serve no more rows than it did, or one that was just read.
LEMMA DriverKeepsRows ==
  ASSUME DriverInv, RowsStay, UNCHANGED contents,
         \/ Skip \/ CannotEvict \/ Sample \/ Verify \/ Over \/ Close("pool") \/ Closed
         \/ \E a \in ArmNames : Open(a) \/ CloseAtOnce(a) \/ Ask(a)
         \/ Return(FALSE) \/ (RowThere /\ Return(TRUE))
  PROVE  DriverInv' /\ RowsStay'
<1>1. KSlots \in Nat \ {0} /\ Misses \in Nat \ {0} /\ miss \in Nat /\ miss <= Misses
      /\ contents' = contents
  BY ConstantsAre DEF DriverInv
<1> USE DEF Served
<1>2. ASSUME DriverInv', \A m \in Served' : m \in Served PROVE DriverInv' /\ RowsStay'
  BY <1>1, <1>2 DEF RowsStay
<1>3. CASE Skip \/ CannotEvict \/ Verify
  <2>1. DriverInv' /\ Served' = {}
    BY <1>1, <1>3 DEF Skip, CannotEvict, Verify, NextRound, DriverInv, DriverPhases
  <2> QED
    BY <1>2, <2>1
<1>4. CASE Sample
  <2>1. phase = "got" /\ phase' = "ready" /\ miss' = miss + 1 /\ miss < Misses
    BY <1>4 DEF Sample, DriverInv
  <2>2. DriverInv'
    BY <1>1, <1>4, <2>1 DEF Sample, DriverInv, DriverPhases
  <2> QED
    BY <1>1, <1>2, <2>1, <2>2
<1>5. CASE Over
  BY <1>1, <1>2, <1>5 DEF Over, driverVars, DriverInv, DriverPhases
<1>6. CASE Close("pool") \/ Closed \/ \E a \in ArmNames : CloseAtOnce(a)
  <2>1. DriverInv' /\ miss' = miss
    BY <1>1, <1>6 DEF Close, Closed, CloseAtOnce, DriverInv, DriverPhases
  <2>2. phase \in {"ready", "closing"} /\ phase' \in {"closing", "verifying"}
    BY <1>6 DEF Close, Closed, CloseAtOnce
  <2> QED
    BY <1>1, <1>2, <2>1, <2>2
<1>7. CASE \E a \in ArmNames : Open(a)
  <2>1. DriverInv' /\ miss' = 0 /\ phase' = "ready"
    BY <1>1, <1>7 DEF Open, DriverInv, DriverPhases
  <2> QED
    BY <1>1, <1>2, <2>1
<1>8. CASE \E a \in ArmNames : Ask(a)
  <2>1. DriverInv' /\ miss' = miss /\ phase = "ready" /\ phase' = "reading"
    BY <1>1, <1>8 DEF Ask, DriverInv, DriverPhases
  <2> QED
    BY <1>1, <1>2, <2>1
<1>9. CASE Return(FALSE)
  <2>1. DriverInv' /\ phase' = "exited"
    BY <1>1, <1>9 DEF Return, DriverInv, DriverPhases
  <2> QED
    BY <1>1, <1>2, <2>1
<1>10. CASE RowThere /\ Return(TRUE)
  <2>1. DriverInv' /\ miss' = miss /\ phase = "reading" /\ phase' = "got"
    BY <1>1, <1>10 DEF Return, DriverInv, DriverPhases
  <2>2. \A m \in Served' : m \in Served \/ m = miss
    BY <1>1, <2>1
  <2> QED
    BY <1>1, <1>10, <2>1, <2>2 DEF RowsStay, RowThere, There
<1> QED
  BY <1>3, <1>4, <1>5, <1>6, <1>7, <1>8, <1>9, <1>10

\* Main reads the row itself.
LEMMA InlineKeepsRows ==
  ASSUME DriverInv, RowsStay, NEW whole \in BOOLEAN, InlineRead(whole)
  PROVE  DriverInv' /\ RowsStay'
<1>1. PICK K \in Nat \ {0}, M \in Nat \ {0}, n \in Nat \ {0} :
        K = KSlots /\ M = Misses /\ n = NumPieces
  BY ConstantsAre
<1>2. /\ miss \in Nat /\ miss < Misses /\ phase = "ready" /\ arm = "inline"
      /\ UNCHANGED <<arm, round, miss>>
      /\ phase' = IF whole THEN "got" ELSE "exited"
  BY DEF InlineRead, DriverInv
<1>3. \A b \in SlotBytes : contents'[b] =
        IF \E p \in Pieces : b = Destination(miss, p)
        THEN IF whole THEN Source(miss, 1) + (b % NumPieces) ELSE None
        ELSE contents[b]
  BY DEF InlineRead
<1>4. ASSUME NEW p \in Pieces, whole PROVE contents'[Destination(miss, p)] = Source(miss, p)
  <2>1. p \in 1 .. n
    BY <1>1 DEF Pieces
  <2>a. PICK s \in Nat : s = miss % K
    BY <1>2
  <2>2. PICK d \in Int : d = Destination(miss, p)
    BY <1>2, PlacesOfPieces
  <2>b. PICK r \in 0 .. n - 1 : r = p - 1
    BY <2>1
  <2>3. d = s * n + r
    BY <1>1, <2>1, <2>a, <2>b, <2>2 DEF Destination
  <2>c. s \in Int
    OBVIOUS
  <2>4. d % n = r
    BY <2>3, <2>c, WholeTurns, Zenon
  <2>5. d \in SlotBytes
    BY <1>2, <2>2, PlacesOfPieces
  <2>6. contents'[d] = Source(miss, 1) + (d % NumPieces)
    BY <1>3, <1>4, <2>2, <2>5
  <2>7. Source(miss, 1) = miss * n + 1 - 1 /\ Source(miss, p) = miss * n + p - 1
        /\ miss * n \in Int
    BY <1>1, <1>2 DEF Source
  <2> QED
    BY <1>1, <2>1, <2>2, <2>b, <2>4, <2>6, <2>7
<1>5. \A b \in SlotBytes : /\ contents[b] \in (0 .. Misses * NumPieces - 1) \union {None}
                           /\ contents'[b] \in (0 .. Misses * NumPieces - 1) \union {None}
  <2> SUFFICES ASSUME NEW b \in SlotBytes
               PROVE  /\ contents[b] \in (0 .. Misses * NumPieces - 1) \union {None}
                      /\ contents'[b] \in (0 .. Misses * NumPieces - 1) \union {None}
    OBVIOUS
  <2>1. contents[b] \in (0 .. Misses * NumPieces - 1) \union {None}
    BY DEF DriverInv, Contents
  <2>2. CASE whole /\ \E p \in Pieces : b = Destination(miss, p)
    BY <1>2, <1>4, <2>1, <2>2, PlacesOfPieces
  <2>3. CASE ~whole /\ \E p \in Pieces : b = Destination(miss, p)
    BY <1>3, <2>1, <2>3
  <2>4. CASE ~ \E p \in Pieces : b = Destination(miss, p)
    BY <1>3, <2>1, <2>4
  <2> QED
    BY <2>2, <2>3, <2>4
<1>6. contents' \in Contents
  <2>1. contents' = [b \in SlotBytes |-> contents'[b]]
    BY DEF InlineRead
  <2> QED
    BY <1>5, <2>1 DEF Contents
<1>7. DriverInv'
  BY <1>2, <1>6 DEF DriverInv, DriverPhases, ArmNames
<1>8. ASSUME NEW m \in Served', NEW p \in Pieces
      PROVE  contents'[Destination(m, p)] = Source(m, p)
  <2>1. KSlots \in Nat /\ Misses \in Nat
    BY ConstantsAre
  <2>2. whole /\ phase' = "got" /\ miss' = miss
    BY <1>2, <1>8 DEF Served
  <2>3. m \in Nat /\ (m = miss \/ m < miss) /\ miss - m < KSlots
    BY <1>2, <1>8, <2>1, <2>2 DEF Served
  <2>4. CASE m = miss
    BY <1>4, <2>2, <2>4
  <2>5. CASE m < miss
    <3>1. m \in Served
      BY <1>2, <2>1, <2>3, <2>5 DEF Served
    <3>2. ~ \E q \in Pieces : Destination(m, p) = Destination(miss, q)
      BY <1>2, <2>3, <2>5, DestinationsApart, SlotsApart
    <3>3. contents'[Destination(m, p)] = contents[Destination(m, p)]
      BY <1>3, <2>3, <3>2, PlacesOfPieces
    <3> QED
      BY <3>1, <3>3 DEF RowsStay
  <2> QED
    BY <2>3, <2>4, <2>5
<1> QED
  BY <1>7, <1>8 DEF RowsStay

-----------------------------------------------------------------------------
(***************************************************************************)
(* The pool.                                                               *)
(***************************************************************************)

\* What a reader puts into one piece of the row's slot touches no other.
Put(q, v, bytes) == [bytes EXCEPT ![At(q)] = v]
Values == (0 .. Misses * NumPieces - 1) \union {None}

LEMMA PutFacts ==
  ASSUME miss \in Nat, NEW q \in Task, NEW bytes \in Contents, NEW v \in Values
  PROVE  /\ Put(q, v, bytes) \in Contents
         /\ Put(q, v, bytes)[Destination(miss, q.part)] = v
         /\ \A p \in Pieces : p # q.part =>
              Put(q, v, bytes)[Destination(miss, p)] = bytes[Destination(miss, p)]
         /\ \A b \in SlotBytes :
              Put(q, v, bytes)[b] = bytes[b] \/ b = Destination(miss, q.part)
<1>1. q.part \in Pieces /\ At(q) = Destination(miss, q.part)
  BY DEF Task, At
<1>2. Destination(miss, q.part) \in SlotBytes
  BY <1>1, PlacesOfPieces
<1>3. \A p \in Pieces : p # q.part =>
        /\ Destination(miss, p) \in SlotBytes
        /\ Destination(miss, p) # Destination(miss, q.part)
  BY <1>1, PlacesOfPieces, DestinationsApart
<1>4. PICK d \in SlotBytes : d = At(q)
  BY <1>1, <1>2
<1>5. Put(q, v, bytes) = [bytes EXCEPT ![d] = v]
  BY <1>4 DEF Put
<1>6. /\ Put(q, v, bytes) \in Contents /\ Put(q, v, bytes)[d] = v
      /\ \A b \in SlotBytes : b # d => Put(q, v, bytes)[b] = bytes[b]
  BY <1>5 DEF Contents, Values
<1> QED
  BY <1>1, <1>3, <1>4, <1>6

LEMMA TornFacts ==
  ASSUME miss \in Nat, NEW q \in Task, NEW bytes \in Contents
  PROVE  /\ Torn(q, bytes) \in Contents
         /\ \A p \in Pieces : p # q.part =>
              Torn(q, bytes)[Destination(miss, p)] = bytes[Destination(miss, p)]
         /\ \A b \in SlotBytes : Torn(q, bytes)[b] = bytes[b] \/ b = Destination(miss, q.part)
<1>1. None \in Values
  BY DEF Values
<1>2. Torn(q, bytes) = Put(q, None, bytes)
  BY DEF Torn, Put
<1> QED
  BY <1>1, <1>2, PutFacts

LEMMA LandedFacts ==
  ASSUME miss \in Nat, miss < Misses, NEW q \in Task, NEW bytes \in Contents,
         NEW whole \in BOOLEAN
  PROVE  /\ Landed(q, whole, bytes) \in Contents
         /\ whole => Landed(q, whole, bytes)[Destination(miss, q.part)] = Source(miss, q.part)
         /\ \A p \in Pieces : p # q.part =>
              Landed(q, whole, bytes)[Destination(miss, p)] = bytes[Destination(miss, p)]
         /\ \A b \in SlotBytes : \/ Landed(q, whole, bytes)[b] = bytes[b]
                                 \/ b = Destination(miss, q.part)
<1>1. q.miss = miss /\ q.part \in Pieces
  BY DEF Task
<1>2. PICK v \in Values : v = IF whole THEN Source(miss, q.part) ELSE None
  BY <1>1, PlacesOfPieces DEF Values
<1>3. Landed(q, whole, bytes) = Put(q, v, bytes)
  BY <1>1, <1>2 DEF Landed, Put
<1> QED
  BY <1>2, <1>3, PutFacts

\* Workers that park, wake or leave take no piece.
LEMMA PoolQuiet ==
  ASSUME PoolInv, UNCHANGED <<pool, arm, miss, phase, contents>>, DOMAIN worker' = Readers,
         caller' \in {"out", "asleep", "acquire", "notify", "join"},
         caller' \in {"asleep", "acquire"} <=> caller \in {"asleep", "acquire"},
         caller' \in {"notify", "join"} <=> caller \in {"notify", "join"},
         \A w \in Readers :
           \/ worker'[w] = worker[w]
           \/ worker[w].pc # "reading" /\ worker'[w] = GoneWorker
           \/ /\ worker[w].pc \in {"acquire", "parked"}
              /\ worker'[w].pc \in {"acquire", "parked"}
              /\ worker'[w] = [pc |-> worker'[w].pc, seen |-> worker[w].seen,
                               task |-> worker[w].task]
  PROVE  PoolInv'
<1>1. \A w \in Readers :
        /\ worker'[w].pc \in {"acquire", "parked", "reading", "gone"}
        /\ worker'[w] = [pc |-> worker'[w].pc, seen |-> worker'[w].seen,
                         task |-> worker'[w].task]
        /\ worker'[w].pc = "reading" <=> worker[w].pc = "reading"
        /\ worker[w].pc = "reading" => worker'[w] = worker[w]
        /\ worker'[w].pc # "gone" => worker[w].pc # "gone" /\ worker'[w].seen = worker[w].seen
  <2> SUFFICES ASSUME NEW w \in Readers
               PROVE  /\ worker'[w].pc \in {"acquire", "parked", "reading", "gone"}
                      /\ worker'[w] = [pc |-> worker'[w].pc, seen |-> worker'[w].seen,
                                       task |-> worker'[w].task]
                      /\ worker'[w].pc = "reading" <=> worker[w].pc = "reading"
                      /\ worker[w].pc = "reading" => worker'[w] = worker[w]
                      /\ worker'[w].pc # "gone" =>
                           worker[w].pc # "gone" /\ worker'[w].seen = worker[w].seen
    OBVIOUS
  <2>1. CASE worker'[w] = worker[w]
    BY <2>1 DEF PoolInv, PoolShape
  <2>2. CASE worker[w].pc # "reading" /\ worker'[w] = GoneWorker
    BY <2>2 DEF GoneWorker
  <2>3. CASE /\ worker[w].pc \in {"acquire", "parked"}
             /\ worker'[w].pc \in {"acquire", "parked"}
             /\ worker'[w] = [pc |-> worker'[w].pc, seen |-> worker[w].seen,
                              task |-> worker[w].task]
    BY <2>3
  <2> QED
    BY <2>1, <2>2, <2>3
<1>2. Reading' = Reading /\ Task' = Task /\ Reads("pool")' = Reads("pool")
  BY <1>1 DEF Reading, Task, Reads
<1>3. \A w \in Reading : w \in Readers /\ worker'[w] = worker[w]
  BY <1>1 DEF Reading
<1>4. PoolShape'
  BY <1>1 DEF PoolInv, PoolShape
<1>5. PoolCalled'
  BY <1>1, <1>2 DEF PoolInv, PoolCalled
<1>6. PoolCounts'
  BY <1>2, <1>3 DEF PoolInv, PoolCounts
<1>7. PoolRow'
  BY <1>2, <1>3 DEF PoolInv, PoolRow, There
<1>8. PoolNothingLeft'
  BY <1>1, <1>2 DEF PoolInv, PoolNothingLeft
<1> QED
  BY <1>4, <1>5, <1>6, <1>7, <1>8 DEF PoolInv

\* Nobody of the pool is there while another strategy runs.
LEMMA PoolFrame ==
  ASSUME PoolInv, UNCHANGED poolVars, ~Reads("pool"), phase # "closing",
         ~Reads("pool")', phase' # "closing",
         \/ \A w \in Readers : worker[w].pc = "gone"
         \/ (arm' = "pool" /\ phase' \in {"ready", "reading", "got", "closing", "exited"})
  PROVE  PoolInv'
<1>1. UNCHANGED <<pool, worker, caller>>
  BY DEF poolVars
<1>2. Reading = {} /\ Reading' = Reading
  BY <1>1 DEF PoolInv, PoolCounts, Reading
<1>3. PoolShape' /\ PoolCalled'
  BY <1>1 DEF PoolInv, PoolShape, PoolCalled
<1>4. PoolCounts' /\ PoolRow' /\ PoolNothingLeft'
  BY <1>1, <1>2 DEF PoolInv, PoolCounts, PoolRow, PoolNothingLeft
<1> QED
  BY <1>3, <1>4 DEF PoolInv

LEMMA PoolGone ==
  ASSUME PoolInv, arm # "pool" \/ phase \in {"opening", "verifying", "done"}
  PROVE  \A w \in Readers : worker[w].pc = "gone"
BY DEF PoolInv, PoolCalled

LEMMA WokenIs ==
  ASSUME PoolShape
  PROVE  /\ DOMAIN Woken(worker) = Readers
         /\ \A w \in Readers :
              \/ Woken(worker)[w] = worker[w]
              \/ /\ worker[w].pc = "parked" /\ Woken(worker)[w].pc = "acquire"
                 /\ Woken(worker)[w] = [pc |-> Woken(worker)[w].pc, seen |-> worker[w].seen,
                                        task |-> worker[w].task]
<1>1. \A w \in Readers : [worker[w] EXCEPT !.pc = "acquire"] =
        [pc |-> "acquire", seen |-> worker[w].seen, task |-> worker[w].task]
  <2> SUFFICES ASSUME NEW w \in Readers
               PROVE  [worker[w] EXCEPT !.pc = "acquire"] =
                        [pc |-> "acquire", seen |-> worker[w].seen, task |-> worker[w].task]
    OBVIOUS
  <2>1. PICK a, b, c : worker[w] = [pc |-> a, seen |-> b, task |-> c]
    BY DEF PoolShape
  <2> QED
    BY <2>1
<1> QED
  BY <1>1 DEF Woken

\* A strategy that is opened starts with idle threads and nothing to take.
LEMMA PoolOpenKeeps ==
  ASSUME DriverInv, PoolInv, PoolOpen
  PROVE  PoolInv'
<1>1. /\ pool' = NewPool /\ worker' = [w \in Readers |-> NewWorker] /\ caller' = caller
      /\ phase = "opening" /\ phase' = "ready" /\ arm' = "pool"
  BY DEF PoolOpen, Open
<1>2. \A w \in Readers : worker'[w] = [pc |-> "acquire", seen |-> 0, task |-> None]
  BY <1>1 DEF NewWorker
<1>3. Reading' = {} /\ ~Reads("pool")'
  BY <1>1, <1>2 DEF Reading, Reads
<1>4. NumPieces \in Nat
  BY ConstantsAre
<1>5. PoolShape'
  BY <1>1, <1>2, <1>4 DEF NewPool, PoolInv, PoolShape
<1>6. PoolCalled'
  BY <1>1, <1>2, <1>3 DEF PoolInv, PoolCalled, Reads
<1>7. PoolCounts'
  BY <1>1, <1>3, FS_EmptySet DEF NewPool, PoolCounts
<1>8. PoolRow' /\ PoolNothingLeft'
  BY <1>1, <1>2, <1>3 DEF NewPool, PoolRow, PoolNothingLeft
<1> QED
  BY <1>5, <1>6, <1>7, <1>8 DEF PoolInv

\* run: a new row, and nobody has a piece of it yet.
LEMMA PoolRunKeeps ==
  ASSUME DriverInv, PoolInv, PoolRun
  PROVE  PoolInv'
<1>1. /\ pool' = [pool EXCEPT !.next = 0, !.done = 0, !.failed = FALSE, !.generation = @ + 1]
      /\ worker' = Woken(worker) /\ caller' = "asleep" /\ arm = "pool"
      /\ phase = "ready" /\ phase' = "reading" /\ UNCHANGED <<arm, miss>>
  BY DEF PoolRun, Ask
<1>2. pool'.next = 0 /\ pool'.done = 0
      /\ pool' \in [next : 0 .. NumPieces, done : Nat, failed : BOOLEAN, generation : Nat,
                    stop : BOOLEAN]
  <2>1. PICK g \in Nat, s \in BOOLEAN : g = pool.generation /\ s = pool.stop
    BY DEF PoolInv, PoolShape
  <2>2. pool' = [next |-> 0, done |-> 0, failed |-> FALSE, generation |-> g + 1, stop |-> s]
    BY <1>1, <2>1 DEF PoolInv, PoolShape
  <2> QED
    BY <2>2, ConstantsAre
<1>3. Reads("pool")' /\ ~Reads("pool")
  BY <1>1 DEF Reads
<1>4. \A w \in Readers : worker[w].pc # "reading"
  BY <1>3 DEF PoolInv, PoolCounts, Reading
<1>5. /\ DOMAIN worker' = Readers
      /\ \A w \in Readers :
           /\ worker'[w].pc \in {"acquire", "parked", "gone"}
           /\ worker'[w] = [pc |-> worker'[w].pc, seen |-> worker'[w].seen,
                            task |-> worker'[w].task]
  <2>1. DOMAIN worker' = Readers
    BY <1>1, WokenIs DEF PoolInv
  <2>2. ASSUME NEW w \in Readers
        PROVE  /\ worker'[w].pc \in {"acquire", "parked", "gone"}
               /\ worker'[w] = [pc |-> worker'[w].pc, seen |-> worker'[w].seen,
                                task |-> worker'[w].task]
    <3>1. CASE worker'[w] = worker[w]
      BY <1>4, <3>1 DEF PoolInv, PoolShape
    <3>2. CASE worker'[w] = [pc |-> "acquire", seen |-> worker[w].seen,
                             task |-> worker[w].task]
      BY <3>2
    <3> QED
      BY <1>1, <3>1, <3>2, WokenIs DEF PoolInv
  <2> QED
    BY <2>1, <2>2
<1>6. Reading' = {}
  BY <1>5 DEF Reading
<1>7. PoolShape' /\ PoolCalled'
  BY <1>1, <1>2, <1>3, <1>5 DEF PoolShape, PoolCalled
<1>8. PoolCounts'
  BY <1>2, <1>6, FS_EmptySet DEF PoolCounts
<1>9. PoolRow' /\ PoolNothingLeft'
  BY <1>2, <1>3 DEF PoolRow, PoolNothingLeft
<1> QED
  BY <1>7, <1>8, <1>9 DEF PoolInv

\* The last piece done leaves nobody reading, and nothing to take.
LEMMA PoolDone ==
  ASSUME PoolInv, pool.done = NumPieces, Reads("pool")
  PROVE  /\ Reading = {} /\ pool.next = NumPieces
         /\ ~pool.failed => RowThere
<1>1. PICK n \in Nat, k \in Nat, c \in Nat :
        n = NumPieces /\ k = pool.next /\ c = Cardinality(Reading) /\ k <= n
  BY ConstantsAre, FS_CardinalityType DEF PoolInv, PoolShape, PoolCounts
<1>2. c + n = k
  BY <1>1 DEF PoolInv, PoolCounts
<1>3. c = 0 /\ k = n
  BY <1>1, <1>2
<1>4. Reading = {}
  BY <1>1, <1>3, FS_EmptySet DEF PoolInv, PoolCounts
<1> QED
  BY <1>1, <1>3, <1>4 DEF PoolInv, PoolRow, RowThere, Pieces

LEMMA PoolReturnKeeps ==
  ASSUME DriverInv, RowsStay, PoolInv, PoolReturn
  PROVE  DriverInv' /\ RowsStay' /\ PoolInv'
<1>1. caller = "acquire" /\ Reads("pool") /\ UNCHANGED <<pool, worker, contents>>
  BY DEF PoolReturn, PoolInv, PoolCalled
<1>2. CASE pool.done # NumPieces
  <2>1. caller' = "asleep" /\ UNCHANGED driverVars
    BY <1>2 DEF PoolReturn
  <2>2. PoolInv'
    BY <1>1, <2>1, PoolQuiet DEF driverVars, PoolInv, PoolShape
  <2> QED
    BY <1>1, <2>1, <2>2, WritesKeepRows DEF DriverInv
<1>3. CASE pool.done = NumPieces
  <2>1. Return(~pool.failed) /\ caller' = "out"
    BY <1>3 DEF PoolReturn
  <2>2. Reading = {} /\ pool.next = NumPieces /\ (~pool.failed => RowThere)
    BY <1>1, <1>3, PoolDone
  <2>3. pool.failed \in BOOLEAN
    BY DEF PoolInv, PoolShape
  <2>4. Return(FALSE) \/ (RowThere /\ Return(TRUE))
    BY <2>1, <2>2, <2>3 DEF Return
  <2>5. DriverInv' /\ RowsStay'
    BY <1>1, <2>4, DriverKeepsRows
  <2>6. phase' \in {"got", "exited"} /\ UNCHANGED arm /\ arm = "pool"
    BY <1>1, <2>1 DEF Return, Reads
  <2>7. ~Reads("pool")' /\ Reading' = {}
    BY <1>1, <2>2, <2>6 DEF Reads, Reading
  <2>8. PoolShape' /\ PoolCalled'
    BY <1>1, <2>1, <2>6, <2>7 DEF PoolInv, PoolShape, PoolCalled
  <2>9. PoolCounts'
    BY <1>1, <2>2, <2>7 DEF PoolInv, PoolCounts
  <2>10. PoolRow' /\ PoolNothingLeft'
    BY <1>1, <2>2, <2>7 DEF PoolRow, PoolNothingLeft
  <2> QED
    BY <2>5, <2>8, <2>9, <2>10 DEF PoolInv
<1> QED
  BY <1>2, <1>3

\* The destructor.
LEMMA PoolStopKeeps ==
  ASSUME DriverInv, PoolInv, PoolStop
  PROVE  PoolInv'
<1>1. /\ pool' = [pool EXCEPT !.stop = TRUE] /\ UNCHANGED <<worker, contents, miss, arm>>
      /\ caller' = "notify" /\ phase = "ready" /\ phase' = "closing" /\ arm = "pool"
  BY DEF PoolStop, Close
<1>2. /\ pool' \in [next : 0 .. NumPieces, done : Nat, failed : BOOLEAN, generation : Nat,
                    stop : BOOLEAN]
      /\ pool'.next = pool.next /\ pool'.done = pool.done
      /\ pool'.generation = pool.generation
  BY <1>1 DEF PoolInv, PoolShape
<1>3. ~Reads("pool") /\ ~Reads("pool")' /\ Reading' = Reading
  BY <1>1 DEF Reads, Reading
<1>4. Reading = {}
  BY <1>3 DEF PoolInv, PoolCounts
<1>5. PoolShape' /\ PoolCalled'
  BY <1>1, <1>2, <1>3 DEF PoolInv, PoolShape, PoolCalled
<1>6. PoolCounts' /\ PoolRow' /\ PoolNothingLeft'
  BY <1>1, <1>2, <1>3, <1>4 DEF PoolInv, PoolCounts, PoolRow, PoolNothingLeft
<1> QED
  BY <1>5, <1>6 DEF PoolInv

LEMMA PoolNotifyKeeps ==
  ASSUME PoolInv, PoolNotify
  PROVE  PoolInv'
<1>1. /\ caller = "notify" /\ caller' = "join" /\ worker' = Woken(worker)
      /\ UNCHANGED <<pool, arm, miss, phase, contents>>
  BY DEF PoolNotify, driverVars
<1> QED
  BY <1>1, WokenIs, PoolQuiet DEF PoolInv

LEMMA PoolJoinKeeps ==
  ASSUME PoolInv, PoolJoin
  PROVE  PoolInv'
<1>1. /\ caller' = "out" /\ phase' = "verifying" /\ UNCHANGED <<pool, worker>>
      /\ \A w \in Readers : worker[w].pc = "gone"
      /\ phase = "closing"
  BY DEF PoolJoin, Closed
<1>2. Reading = {} /\ Reading' = {} /\ ~Reads("pool")'
  BY <1>1 DEF Reading, Reads
<1>3. PoolShape' /\ PoolCalled'
  BY <1>1, <1>2 DEF PoolInv, PoolShape, PoolCalled
<1>4. PoolCounts' /\ PoolRow' /\ PoolNothingLeft'
  BY <1>1, <1>2 DEF PoolInv, PoolCounts, PoolRow, PoolNothingLeft
<1> QED
  BY <1>3, <1>4 DEF PoolInv

LEMMA PoolSpuriousKeeps ==
  ASSUME PoolInv, SpuriousWake
  PROVE  PoolInv'
<1>1. UNCHANGED <<pool, arm, miss, phase, contents>>
  BY DEF SpuriousWake, driverVars
<1>2. CASE caller = "asleep" /\ caller' = "acquire" /\ UNCHANGED worker
  BY <1>1, <1>2, PoolQuiet DEF PoolInv, PoolShape
<1>3. ASSUME NEW w \in Readers, worker[w].pc = "parked",
             worker' = [worker EXCEPT ![w].pc = "acquire"], UNCHANGED caller
      PROVE  PoolInv'
  <2>1. PICK a, b, c : worker[w] = [pc |-> a, seen |-> b, task |-> c]
    BY DEF PoolInv, PoolShape
  <2>2. /\ DOMAIN worker' = Readers
        /\ worker'[w] = [pc |-> "acquire", seen |-> worker[w].seen, task |-> worker[w].task]
        /\ \A v \in Readers : v # w => worker'[v] = worker[v]
    BY <1>3, <2>1 DEF PoolInv, PoolShape
  <2>3. \A v \in Readers :
           \/ worker'[v] = worker[v]
           \/ /\ worker[v].pc \in {"acquire", "parked"}
              /\ worker'[v].pc \in {"acquire", "parked"}
              /\ worker'[v] = [pc |-> worker'[v].pc, seen |-> worker[v].seen,
                               task |-> worker[v].task]
    <3>1. worker'[w].pc = "acquire"
      BY <2>2
    <3> QED
      BY <1>3, <2>2, <3>1
  <2>4. caller' \in {"out", "asleep", "acquire", "notify", "join"}
    BY <1>3 DEF PoolInv, PoolShape
  <2> QED
    BY <1>1, <1>3, <2>2, <2>3, <2>4, PoolQuiet
<1> QED
  BY <1>2, <1>3 DEF SpuriousWake

\* TakeNext, with the pieces others are reading and the bytes as the worker leaves them.
PoolRecord == [next : 0 .. NumPieces, done : Nat, failed : BOOLEAN, generation : Nat,
               stop : BOOLEAN]

LEMMA PoolTakes ==
  ASSUME DriverInv, PoolInv, UNCHANGED driverVars, Reads("pool"),
         NEW w \in Readers, NEW p \in PoolRecord, NEW seen, NEW bytes \in Contents,
         p.next = pool.next,
         Cardinality(Reading \ {w}) + p.done = p.next,
         \A k \in 1 .. p.next : \/ \E v \in Reading \ {w} : worker[v].task.part = k
                                \/ p.failed
                                \/ bytes[Destination(miss, k)] = Source(miss, k),
         TakeNext(w, p, seen, bytes), caller' \in {"asleep", "acquire"},
         worker[w].pc # "gone"
  PROVE  /\ PoolInv' /\ contents' \in Contents
         /\ \A b \in SlotBytes : \/ contents'[b] = bytes[b]
                                 \/ \E k \in Pieces : b = Destination(miss, k)
<1>1. /\ UNCHANGED <<arm, miss, phase>> /\ Reads("pool")' /\ Task' = Task
      /\ arm = "pool" /\ phase = "reading"
  BY DEF driverVars, Reads, Task
<1>2. DOMAIN worker = Readers /\ miss \in Nat
  BY DEF PoolInv, PoolShape, DriverInv
<1>3. PICK n \in Nat, k \in Nat, d \in Nat : n = NumPieces /\ k = p.next /\ d = p.done /\ k <= n
  BY ConstantsAre DEF PoolRecord
<1>4. IsFiniteSet(Reading \ {w})
  BY FS_Subset DEF PoolInv, PoolCounts
<1>5. \A v \in Readers : v # w => worker'[v] = worker[v]
  BY <1>2 DEF TakeNext
<1>6. ASSUME NEW x, worker'[w] = x, NEW pc \in {"acquire", "parked", "reading"}, NEW task,
             x = [pc |-> pc, seen |-> seen, task |-> task], DOMAIN worker' = Readers,
             pool' \in PoolRecord
      PROVE  PoolShape' /\ PoolCalled' /\ PoolNothingLeft'
  <2>1. \A v \in Readers :
          /\ worker'[v].pc \in {"acquire", "parked", "reading", "gone"}
          /\ worker'[v] = [pc |-> worker'[v].pc, seen |-> worker'[v].seen,
                           task |-> worker'[v].task]
    <3>1. worker'[w].pc = pc /\ worker'[w] = [pc |-> worker'[w].pc, seen |-> worker'[w].seen,
                                              task |-> worker'[w].task]
      BY <1>6
    <3> QED
      BY <1>5, <1>6, <3>1 DEF PoolInv, PoolShape
  <2>2. PoolShape'
    BY <1>6, <2>1 DEF PoolShape, PoolRecord
  <2> QED
    BY <1>1, <2>2 DEF PoolCalled, PoolNothingLeft
<1>7. CASE p.next < NumPieces /\ pool' = [p EXCEPT !.next = @ + 1]
  <2> DEFINE task == [miss |-> miss, part |-> k + 1]
  <2>1. /\ worker' = [worker EXCEPT ![w] = [pc |-> "reading", seen |-> seen, task |-> task]]
        /\ contents' = Torn(task, bytes)
    BY <1>3, <1>7 DEF TakeNext
  <2>2. task \in Task /\ task.part = k + 1 /\ task.part \in Pieces
    BY <1>3, <1>7 DEF Task, Pieces
  <2> HIDE DEF task
  <2>3. /\ contents' \in Contents
        /\ \A q \in Pieces : q # k + 1 =>
             contents'[Destination(miss, q)] = bytes[Destination(miss, q)]
        /\ \A b \in SlotBytes : \/ contents'[b] = bytes[b]
                                \/ b = Destination(miss, k + 1)
    BY <1>2, <2>1, <2>2, TornFacts
  <2>4. /\ worker'[w] = [pc |-> "reading", seen |-> seen, task |-> task]
        /\ worker'[w].pc = "reading" /\ worker'[w].task = task /\ DOMAIN worker' = Readers
    BY <1>2, <2>1
  <2>5. /\ pool'.next = k + 1 /\ pool'.done = d /\ pool'.failed = p.failed
        /\ pool' \in PoolRecord
    <3>1. PICK f \in BOOLEAN, g \in Nat, s \in BOOLEAN :
            p = [next |-> k, done |-> d, failed |-> f, generation |-> g, stop |-> s]
      BY <1>3 DEF PoolRecord
    <3>2. pool' = [next |-> k + 1, done |-> d, failed |-> f, generation |-> g, stop |-> s]
      BY <1>7, <3>1
    <3> QED
      BY <1>3, <1>7, <3>1, <3>2 DEF PoolRecord
  <2>6. Reading' = (Reading \ {w}) \union {w}
    BY <1>5, <2>4 DEF Reading
  <2>7. \A v \in Reading \ {w} : worker'[v] = worker[v] /\ v \in Readers /\ v \in Reading
    BY <1>5 DEF Reading
  <2>8. Cardinality(Reading') = Cardinality(Reading \ {w}) + 1 /\ IsFiniteSet(Reading')
    BY <1>4, <2>6, FS_AddElement
  <2>9. \A v \in Reading \ {w} : worker[v].task \in Task /\ worker[v].task.part \in Pieces
                                 /\ worker[v].task.part <= k
    BY <1>3 DEF PoolInv, PoolCounts, Task
  <2>10. PoolCounts'
    <3>1. IsFiniteSet(Reading') /\ Cardinality(Reading') + pool'.done = pool'.next
      <4>1. PICK c \in Nat : c = Cardinality(Reading \ {w})
        BY <1>4, FS_CardinalityType
      <4> QED
        BY <1>3, <2>5, <2>8, <4>1
    <3>2. \A v \in Reading' : worker'[v].task \in Task' /\ worker'[v].task.part <= pool'.next
      BY <1>1, <1>3, <2>2, <2>4, <2>5, <2>6, <2>7, <2>9 DEF Pieces
    <3>3. \A v \in Reading \ {w} : worker'[v].task.part # k + 1
      BY <1>3, <2>7, <2>9 DEF Pieces
    <3>4. \A u, v \in Reading' : worker'[u].task.part = worker'[v].task.part => u = v
      BY <2>2, <2>4, <2>6, <2>7, <3>3 DEF PoolInv, PoolCounts
    <3> QED
      BY <1>1, <3>1, <3>2, <3>4 DEF PoolCounts
  <2>11. PoolRow'
    <3> SUFFICES ASSUME NEW q \in 1 .. k + 1
                 PROVE  \/ \E v \in Reading' : worker'[v].task.part = q
                        \/ pool'.failed
                        \/ contents'[Destination(miss, q)] = Source(miss, q)
      BY <1>1, <2>5 DEF PoolRow, There
    <3>1. CASE q = k + 1
      BY <2>2, <2>4, <2>6, <3>1
    <3>2. CASE q # k + 1
      <4>1. q \in 1 .. k /\ q \in Pieces
        BY <1>3, <3>2 DEF Pieces
      <4> QED
        BY <1>3, <2>3, <2>5, <2>6, <2>7, <3>2, <4>1
    <3> QED
      BY <3>1, <3>2
  <2>12. PoolShape' /\ PoolCalled' /\ PoolNothingLeft'
    BY <1>6, <2>4, <2>5
  <2> QED
    BY <2>2, <2>3, <2>10, <2>11, <2>12 DEF PoolInv
<1>8. CASE p.next = NumPieces /\ pool' = p
  <2>1. PICK pc \in {"acquire", "parked"} :
          /\ worker' = [worker EXCEPT ![w] = [pc |-> pc, seen |-> seen, task |-> None]]
          /\ contents' = bytes
    BY <1>3, <1>8 DEF TakeNext
  <2>2. /\ worker'[w] = [pc |-> pc, seen |-> seen, task |-> None]
        /\ worker'[w].pc # "reading" /\ DOMAIN worker' = Readers
    BY <1>2, <2>1
  <2>3. Reading' = Reading \ {w} /\ \A v \in Reading' : worker'[v] = worker[v]
    BY <1>5, <2>2 DEF Reading
  <2>4. PoolCounts'
    BY <1>1, <1>4, <1>8, <2>3 DEF PoolInv, PoolCounts
  <2>5. PoolRow'
    BY <1>1, <1>8, <2>1, <2>3 DEF PoolRow, There
  <2>6. PoolShape' /\ PoolCalled' /\ PoolNothingLeft'
    BY <1>6, <1>8, <2>2
  <2> QED
    BY <2>1, <2>4, <2>5, <2>6 DEF PoolInv
<1> QED
  BY <1>7, <1>8 DEF TakeNext

\* A worker with the mutex: it leaves, parks, or begins to take pieces.
LEMMA WorkerLoopKeeps ==
  ASSUME DriverInv, RowsStay, PoolInv, NEW w \in Readers, WorkerLoop(w)
  PROVE  DriverInv' /\ RowsStay' /\ PoolInv' /\ contents' \in Contents
<1>1. UNCHANGED <<driverVars, caller>> /\ worker[w].pc = "acquire"
  BY DEF WorkerLoop
<1>2. UNCHANGED <<arm, miss, phase>> /\ contents \in Contents
  BY <1>1 DEF driverVars, DriverInv
<1>3. DOMAIN worker = Readers /\ caller \in {"out", "asleep", "acquire", "notify", "join"}
  BY DEF PoolInv, PoolShape
<1>4. ASSUME UNCHANGED <<pool, contents>>, NEW x, worker' = [worker EXCEPT ![w] = x],
             \/ x = GoneWorker
             \/ x = [pc |-> "parked", seen |-> worker[w].seen, task |-> worker[w].task]
      PROVE  DriverInv' /\ RowsStay' /\ PoolInv' /\ contents' \in Contents
  <2>1. /\ DOMAIN worker' = Readers /\ worker'[w] = x
        /\ \A v \in Readers : v # w => worker'[v] = worker[v]
    BY <1>3, <1>4
  <2>2. \A v \in Readers :
           \/ worker'[v] = worker[v]
           \/ worker[v].pc # "reading" /\ worker'[v] = GoneWorker
           \/ /\ worker[v].pc \in {"acquire", "parked"}
              /\ worker'[v].pc \in {"acquire", "parked"}
              /\ worker'[v] = [pc |-> worker'[v].pc, seen |-> worker[v].seen,
                               task |-> worker[v].task]
    <3>1. \/ x = GoneWorker
          \/ x.pc = "parked" /\ x = [pc |-> x.pc, seen |-> worker[w].seen, task |-> worker[w].task]
      BY <1>4
    <3> QED
      BY <1>1, <2>1, <3>1
  <2>3. PoolInv'
    BY <1>1, <1>2, <1>3, <1>4, <2>1, <2>2, PoolQuiet
  <2> QED
    BY <1>1, <1>2, <1>4, <2>3, WritesKeepRows
<1>5. CASE pool.stop /\ worker' = [worker EXCEPT ![w] = GoneWorker] /\ UNCHANGED <<pool, contents>>
  BY <1>4, <1>5
<1>6. CASE worker' = [worker EXCEPT ![w].pc = "parked"] /\ UNCHANGED <<pool, contents>>
  <2>1. PICK a, b, c : worker[w] = [pc |-> a, seen |-> b, task |-> c]
    BY DEF PoolInv, PoolShape
  <2>2. worker' = [worker EXCEPT ![w] = [worker[w] EXCEPT !.pc = "parked"]]
    BY <1>6
  <2>3. [worker[w] EXCEPT !.pc = "parked"] =
          [pc |-> "parked", seen |-> worker[w].seen, task |-> worker[w].task]
    BY <2>1
  <2> QED
    BY <1>4, <1>6, <2>2, <2>3
<1>7. CASE pool.generation # worker[w].seen /\ TakeNext(w, pool, pool.generation, contents)
  <2>1. CASE Reads("pool")
    <3>1. w \notin Reading /\ Reading \ {w} = Reading
      BY <1>1 DEF Reading
    <3>2. pool \in PoolRecord /\ Cardinality(Reading \ {w}) + pool.done = pool.next
      BY <3>1 DEF PoolInv, PoolShape, PoolCounts, PoolRecord
    <3>3. \A k \in 1 .. pool.next :
             \/ \E v \in Reading \ {w} : worker[v].task.part = k
             \/ pool.failed
             \/ contents[Destination(miss, k)] = Source(miss, k)
      BY <2>1, <3>1 DEF PoolInv, PoolRow, There
    <3>4. caller' \in {"asleep", "acquire"} /\ worker[w].pc # "gone"
      BY <1>1, <2>1 DEF PoolInv, PoolCalled
    <3>5. /\ PoolInv' /\ contents' \in Contents
          /\ \A b \in SlotBytes : \/ contents'[b] = contents[b]
                                  \/ \E k \in Pieces : b = Destination(miss, k)
      BY <1>1, <1>2, <1>7, <2>1, <3>2, <3>3, <3>4, PoolTakes
    <3>6. OnlyItsSlot /\ phase = "reading"
      BY <2>1, <3>5 DEF OnlyItsSlot, Reads
    <3> QED
      BY <1>1, <3>5, <3>6, WritesKeepRows
  <2>2. CASE ~Reads("pool")
    <3>1. pool.next = NumPieces /\ Reading = {}
      BY <1>1, <1>7, <2>2 DEF PoolInv, PoolNothingLeft, PoolCounts
    <3>2. PICK pc \in {"acquire", "parked"} :
            /\ worker' = [worker EXCEPT ![w] =
                            [pc |-> pc, seen |-> pool.generation, task |-> None]]
            /\ pool' = pool /\ contents' = contents
      BY <1>7, <3>1, ConstantsAre DEF TakeNext
    <3>3. /\ worker'[w] = [pc |-> pc, seen |-> pool.generation, task |-> None]
          /\ worker'[w].pc = pc /\ DOMAIN worker' = Readers
          /\ \A v \in Readers : v # w => worker'[v] = worker[v]
      BY <1>3, <3>2
    <3>4. Reading' = {} /\ ~Reads("pool")'
      BY <1>2, <2>2, <3>1, <3>3 DEF Reading, Reads
    <3>5. \A v \in Readers :
            /\ worker'[v].pc \in {"acquire", "parked", "reading", "gone"}
            /\ worker'[v] = [pc |-> worker'[v].pc, seen |-> worker'[v].seen,
                             task |-> worker'[v].task]
            /\ worker'[v].pc # "gone" => worker[v].pc # "gone"
      <4>1. worker'[w] = [pc |-> worker'[w].pc, seen |-> worker'[w].seen,
                          task |-> worker'[w].task]
        BY <3>3
      <4> QED
        BY <1>1, <3>3, <4>1 DEF PoolInv, PoolShape
    <3>6. PoolShape' /\ PoolCalled'
      BY <1>1, <1>2, <2>2, <3>2, <3>3, <3>4, <3>5 DEF PoolInv, PoolShape, PoolCalled
    <3>7. PoolCounts' /\ PoolRow' /\ PoolNothingLeft'
      BY <3>1, <3>2, <3>4 DEF PoolInv, PoolCounts, PoolRow, PoolNothingLeft
    <3> QED
      BY <1>1, <1>2, <3>2, <3>6, <3>7, WritesKeepRows DEF PoolInv
  <2> QED
    BY <2>1, <2>2
<1> QED
  BY <1>5, <1>6, <1>7 DEF WorkerLoop

\* A piece has been read: it is counted, and its bytes are there unless the pool failed.
LEMMA WorkerReadKeeps ==
  ASSUME DriverInv, RowsStay, PoolInv, NEW w \in Readers, NEW enough \in BOOLEAN,
         WorkerRead(w, enough)
  PROVE  DriverInv' /\ RowsStay' /\ PoolInv' /\ contents' \in Contents
<1>1. UNCHANGED driverVars /\ worker[w].pc = "reading"
  BY DEF WorkerRead
<1>2. w \in Reading /\ Reads("pool") /\ worker[w].task \in Task
  BY <1>1 DEF Reading, PoolInv, PoolCounts
<1>3. contents \in Contents /\ miss \in Nat /\ miss < Misses /\ phase = "reading"
  BY <1>2 DEF DriverInv, Reads
<1>4. PICK task, bytes, p :
        /\ task \in Task /\ task = worker[w].task
        /\ bytes = Landed(task, enough, contents)
        /\ p = Counted(pool, enough)
  BY <1>2
<1>5. /\ bytes \in Contents
      /\ enough => bytes[Destination(miss, task.part)] = Source(miss, task.part)
      /\ \A k \in Pieces : k # task.part =>
           bytes[Destination(miss, k)] = contents[Destination(miss, k)]
      /\ \A b \in SlotBytes : bytes[b] = contents[b] \/ b = Destination(miss, task.part)
  BY <1>3, <1>4, LandedFacts
<1>6. /\ p.next = pool.next /\ p.done = pool.done + 1 /\ p \in PoolRecord
      /\ p.failed = (pool.failed \/ ~enough)
  <2>1. PICK k \in 0 .. NumPieces, d \in Nat, f \in BOOLEAN, g \in Nat, s \in BOOLEAN :
          pool = [next |-> k, done |-> d, failed |-> f, generation |-> g, stop |-> s]
    BY DEF PoolInv, PoolShape
  <2>2. p = [next |-> k, done |-> d + 1, failed |-> f \/ ~enough, generation |-> g, stop |-> s]
    BY <1>4, <2>1 DEF Counted
  <2> QED
    BY <2>1, <2>2 DEF PoolRecord
<1>7. Cardinality(Reading \ {w}) + p.done = p.next
  <2>1. IsFiniteSet(Reading) /\ Cardinality(Reading) + pool.done = pool.next
    BY DEF PoolInv, PoolCounts
  <2>2. Cardinality(Reading \ {w}) = Cardinality(Reading) - 1
    BY <1>2, <2>1, FS_RemoveElement
  <2>3. PICK c \in Nat, d \in Nat : c = Cardinality(Reading) /\ d = pool.done
    BY <2>1, FS_CardinalityType DEF PoolInv, PoolShape
  <2> QED
    BY <1>6, <2>1, <2>2, <2>3
<1>8. ASSUME NEW k \in 1 .. p.next
      PROVE  \/ \E v \in Reading \ {w} : worker[v].task.part = k
             \/ p.failed
             \/ bytes[Destination(miss, k)] = Source(miss, k)
  <2>1. k \in 1 .. pool.next /\ k \in Pieces
    BY <1>6, ConstantsAre DEF PoolRecord, Pieces
  <2>2. \/ \E v \in Reading : worker[v].task.part = k
        \/ pool.failed
        \/ contents[Destination(miss, k)] = Source(miss, k)
    BY <1>2, <2>1 DEF PoolInv, PoolRow, There
  <2>3. CASE k = task.part
    BY <1>5, <1>6, <2>3
  <2>4. CASE k # task.part
    <3>1. bytes[Destination(miss, k)] = contents[Destination(miss, k)]
      BY <1>5, <2>1, <2>4
    <3> QED
      BY <1>4, <1>6, <2>2, <2>4, <3>1
  <2> QED
    BY <2>3, <2>4
<1>9. caller' \in {"asleep", "acquire"} /\ worker[w].pc # "gone"
  BY <1>1, <1>2 DEF WorkerRead, PoolInv, PoolCalled
<1>10. TakeNext(w, p, worker[w].seen, bytes)
  BY <1>4 DEF WorkerRead
<1>11. /\ PoolInv' /\ contents' \in Contents
       /\ \A b \in SlotBytes : \/ contents'[b] = bytes[b]
                               \/ \E k \in Pieces : b = Destination(miss, k)
  <2>1. PICK seen : seen = worker[w].seen
    OBVIOUS
  <2> QED
    BY <1>1, <1>2, <1>5, <1>6, <1>7, <1>8, <1>9, <1>10, <2>1, PoolTakes
<1>12. OnlyItsSlot
  <2>1. task.part \in Pieces
    BY <1>4 DEF Task
  <2> QED
    BY <1>5, <1>11, <2>1 DEF OnlyItsSlot
<1> QED
  BY <1>1, <1>3, <1>11, <1>12, WritesKeepRows

-----------------------------------------------------------------------------
(***************************************************************************)
(* The kernel's reads.                                                     *)
(***************************************************************************)

\* A row whose reads are all in the kernel or done is as many reads as pieces.
LEMMA TaskCount == IsFiniteSet(Task) /\ Cardinality(Task) = NumPieces
<1>1. NumPieces \in Int /\ NumPieces >= 1
  BY ConstantsAre
<1>2. IsFiniteSet(Pieces) /\ Cardinality(Pieces) = NumPieces
  BY <1>1, FS_Interval DEF Pieces
<1>3. PICK m : m = miss
  OBVIOUS
<1>4. PICK f : f = [p \in Pieces |-> [miss |-> m, part |-> p]]
  OBVIOUS
<1>5. f \in [Pieces -> Task] /\ \A p \in Pieces : f[p].part = p
  BY <1>3, <1>4 DEF Task
<1>6. \A t \in Task : t.part \in Pieces /\ f[t.part] = t
  BY <1>3, <1>4 DEF Task
<1>7. f \in Bijection(Pieces, Task)
  <2>1. \A p, q \in Pieces : f[p] = f[q] => p = q
    BY <1>5
  <2>2. \A t \in Task : \E p \in Pieces : f[p] = t
    BY <1>6
  <2>3. f \in Injection(Pieces, Task)
    BY <1>5, <2>1 DEF Injection, IsInjective
  <2>4. f \in Surjection(Pieces, Task)
    BY <1>5, <2>2 DEF Surjection
  <2> QED
    BY <2>3, <2>4 DEF Bijection
<1> QED
  BY <1>2, <1>7, FS_Bijection DEF ExistsBijection

\* The kernel and its strategies have nothing to do while another one runs.
LEMMA KernelFrame ==
  ASSUME KernelInv, UNCHANGED <<kernelVars, iocp, ring>>,
         ~Reads("iocp"), ~Reads("ioring"), ~Reads("iocp")', ~Reads("ioring")',
         phase = "exited" => UNCHANGED driverVars
  PROVE  KernelInv'
<1>1. UNCHANGED <<kernel, port, iocp, ring>>
  BY DEF kernelVars
<1>2. CASE phase = "exited"
  <2>1. UNCHANGED <<arm, miss, phase>>
    BY <1>2 DEF driverVars
  <2>2. KernelShape'
    BY <1>1, <2>1 DEF KernelInv, KernelShape, Task, Reads
  <2>3. IocpShape' /\ IocpCounts'
    BY <1>1, <2>1 DEF KernelInv, IocpShape, IocpCounts, Pending
  <2>4. RingInv'
    BY <1>1, <2>1 DEF KernelInv, IocpShape, RingInv
  <2> QED
    BY <2>2, <2>3, <2>4 DEF KernelInv
<1>3. CASE phase # "exited"
  <2>1. kernel = {} /\ port = {} /\ ~(iocp.lost > 0) /\ iocp.lost \in Nat
    BY <1>3 DEF KernelInv, KernelShape, IocpShape, IocpCounts
  <2>2. iocp.pc = "out" /\ ring.pc = "out"
    BY DEF KernelInv, IocpShape, RingInv
  <2>3. KernelShape'
    BY <1>1, <2>1, FS_EmptySet DEF KernelShape
  <2>4. Pending' = 0
    BY <1>1, <2>1, FS_EmptySet DEF Pending
  <2>5. IocpShape' /\ IocpCounts'
    BY <1>1, <2>1, <2>2, <2>4 DEF KernelInv, IocpShape, IocpCounts
  <2>6. RingInv'
    BY <1>1, <2>2 DEF KernelInv, RingInv
  <2> QED
    BY <2>3, <2>5, <2>6 DEF KernelInv
<1> QED
  BY <1>2, <1>3

\* A read that ends goes from the kernel to the queue.
LEMMA PendingMoves ==
  ASSUME KernelShape, NEW q \in kernel, NEW whole \in BOOLEAN,
         kernel' = kernel \ {q}, port' = port \union {[request |-> q, whole |-> whole]}
  PROVE  Pending' = Pending /\ IsFiniteSet(kernel') /\ IsFiniteSet(port')
<1>1. IsFiniteSet(kernel) /\ IsFiniteSet(port)
  BY DEF KernelShape
<1>2. PICK c : c = [request |-> q, whole |-> whole]
  OBVIOUS
<1>3. c \notin port
  BY <1>2 DEF KernelShape
<1>4. /\ IsFiniteSet(kernel') /\ Cardinality(kernel') = Cardinality(kernel) - 1
      /\ IsFiniteSet(port') /\ Cardinality(port') = Cardinality(port) + 1
  BY <1>1, <1>2, <1>3, FS_AddElement, FS_RemoveElement
<1>5. PICK k \in Nat, n \in Nat : k = Cardinality(kernel) /\ n = Cardinality(port)
  BY <1>1, FS_CardinalityType
<1> QED
  BY <1>4, <1>5 DEF Pending

LEMMA KernelFinishKeeps ==
  ASSUME DriverInv, RowsStay, KernelInv, NEW q \in kernel, NEW whole \in BOOLEAN,
         KernelFinish(q, whole), UNCHANGED <<iocp, ring>>
  PROVE  DriverInv' /\ RowsStay' /\ KernelInv' /\ contents' \in Contents
<1>1. /\ kernel' = kernel \ {q} /\ port' = port \union {[request |-> q, whole |-> whole]}
      /\ contents' = Landed(q, whole, contents) /\ UNCHANGED driverVars
  BY DEF KernelFinish
<1>2. UNCHANGED <<arm, miss, phase>> /\ Task' = Task
  BY <1>1 DEF driverVars, Task
<1>3. /\ q \in Task /\ miss < Misses /\ miss \in Nat /\ contents \in Contents
      /\ Reads("iocp") \/ Reads("ioring") \/ phase = "exited"
  BY DEF KernelInv, KernelShape, DriverInv
<1>4. q.part \in Pieces
  BY <1>3 DEF Task
<1>5. /\ contents' \in Contents
      /\ whole => contents'[Destination(miss, q.part)] = Source(miss, q.part)
      /\ \A p \in Pieces : p # q.part =>
           contents'[Destination(miss, p)] = contents[Destination(miss, p)]
      /\ \A b \in SlotBytes : contents'[b] = contents[b] \/ b = Destination(miss, q.part)
  BY <1>1, <1>3, LandedFacts
<1>6. DriverInv' /\ RowsStay'
  <2>1. phase \in {"reading", "exited"} /\ OnlyItsSlot
    BY <1>3, <1>4, <1>5 DEF Reads, OnlyItsSlot
  <2> QED
    BY <1>1, <1>5, <2>1, WritesKeepRows
<1>7. PICK c : c = [request |-> q, whole |-> whole]
  OBVIOUS
<1>8. c.request = q /\ c.whole = whole /\ port' = port \union {c}
  BY <1>1, <1>7
<1>9. Pending' = Pending /\ IsFiniteSet(kernel') /\ IsFiniteSet(port')
  BY <1>1, PendingMoves DEF KernelInv
<1>10. KernelShape'
  <2>1. kernel' \subseteq Task /\ c \in [request : Task, whole : BOOLEAN]
    BY <1>1, <1>3, <1>7 DEF KernelInv, KernelShape
  <2>2. \A d \in port' : d.request \notin kernel'
    BY <1>1, <1>8 DEF KernelInv, KernelShape
  <2>3. (Reads("iocp") \/ Reads("ioring") \/ phase = "exited")'
    BY <1>2, <1>3 DEF Reads
  <2> QED
    BY <1>1, <1>2, <1>3, <1>8, <1>9, <2>1, <2>2, <2>3 DEF KernelInv, KernelShape
<1>11. ASSUME NEW n \in 0 .. NumPieces, KernelRow(n)
       PROVE  KernelRow(n)'
  <2> SUFFICES ASSUME NEW p \in 1 .. n
               PROVE  \/ \E r \in kernel' : r.part = p
                      \/ \E d \in port' : d.request.part = p /\ ~d.whole
                      \/ contents'[Destination(miss, p)] = Source(miss, p)
    BY <1>2 DEF KernelRow, There
  <2>1. CASE p = q.part
    BY <1>5, <1>8, <2>1
  <2>2. CASE p # q.part
    <3>1. p \in Pieces
      BY ConstantsAre DEF Pieces
    <3>2. contents'[Destination(miss, p)] = contents[Destination(miss, p)]
      BY <1>5, <2>2, <3>1
    <3> QED
      BY <1>1, <1>8, <1>11, <2>2, <3>2 DEF KernelRow, There
  <2> QED
    BY <2>1, <2>2
<1>12. NumPieces \in 0 .. NumPieces /\ iocp.issued \in 0 .. NumPieces
  BY ConstantsAre DEF KernelInv, IocpShape
<1>13. IocpShape'
  BY <1>2 DEF KernelInv, IocpShape, Reads
<1>14. IocpCounts'
  <2>1. ASSUME Reads("iocp")
        PROVE  /\ \A r \in kernel' : r.part <= iocp.issued
               /\ \A d \in port' : d.request.part <= iocp.issued
    BY <1>1, <1>8, <2>1 DEF KernelInv, IocpCounts
  <2>2. Reads("iocp")' = Reads("iocp")
    BY <1>2 DEF Reads
  <2>3. KernelRow(iocp.issued) => KernelRow(iocp.issued)'
    <3>1. PICK n \in 0 .. NumPieces : n = iocp.issued
      BY <1>12
    <3>2. KernelRow(n) => KernelRow(n)'
      BY <1>11
    <3> QED
      BY <3>1, <3>2 DEF KernelRow
  <2> QED
    BY <1>2, <1>9, <2>1, <2>2, <2>3 DEF KernelInv, IocpCounts
<1>15. RingInv'
  <2>1. ring.pc \notin {"building", "popping"}
    BY DEF KernelInv, RingInv
  <2>2. ring'.pc # "out" <=> Reads("ioring")'
    BY <1>2 DEF KernelInv, RingInv, Reads
  <2>3. ring.pc = "waiting" => Pending' = NumPieces /\ KernelRow(NumPieces)'
    BY <1>9, <1>11, <1>12 DEF KernelInv, RingInv
  <2> QED
    BY <2>1, <2>2, <2>3 DEF KernelInv, RingInv
<1> QED
  BY <1>5, <1>6, <1>10, <1>13, <1>14, <1>15 DEF KernelInv

(***************************************************************************)
(* IocpRead's steps.                                                       *)
(***************************************************************************)
IocpRecord == [pc : {"out", "issuing", "draining"}, issued : 0 .. NumPieces,
               taken : 0 .. NumPieces, ok : BOOLEAN, lost : Nat]

\* What both ways of asking find: nothing in the kernel, nothing queued, nothing lost.
LEMMA KernelAtRest ==
  ASSUME KernelInv, phase \notin {"reading", "exited"}
  PROVE  /\ kernel = {} /\ port = {} /\ iocp.lost = 0 /\ Pending = 0
         /\ iocp.pc = "out" /\ ring.pc = "out"
<1>1. ~Reads("iocp") /\ ~Reads("ioring")
  BY DEF Reads
<1>2. kernel = {} /\ port = {} /\ iocp.pc = "out" /\ ring.pc = "out" /\ iocp.lost \in Nat
  BY <1>1 DEF KernelInv, KernelShape, IocpShape, RingInv
<1>3. ~(iocp.lost > 0)
  BY <1>1 DEF KernelInv, IocpCounts
<1> QED
  BY <1>2, <1>3, FS_EmptySet DEF Pending

LEMMA IocpAskKeeps ==
  ASSUME DriverInv, KernelInv, IocpAsk, UNCHANGED ring
  PROVE  KernelInv'
<1>1. /\ phase = "ready" /\ phase' = "reading" /\ arm = "iocp" /\ miss < Misses
      /\ UNCHANGED <<arm, miss, kernel, port, contents>>
      /\ iocp' = [NotReading EXCEPT !.pc = "issuing"]
  BY DEF IocpAsk, Ask, kernelVars
<1>2. /\ kernel = {} /\ port = {} /\ iocp.pc = "out" /\ ring.pc = "out" /\ Pending = 0
  BY <1>1, KernelAtRest
<1>3. iocp' = [pc |-> "issuing", issued |-> 0, taken |-> 0, ok |-> TRUE, lost |-> 0]
  BY <1>1 DEF NotReading
<1>4. Reads("iocp")' /\ ~Reads("ioring")'
  BY <1>1 DEF Reads
<1>5. NumPieces \in Nat \ {0}
  BY ConstantsAre
<1>6. KernelShape'
  BY <1>1, <1>2, FS_EmptySet DEF KernelShape
<1>7. Pending' = 0
  BY <1>1, <1>2 DEF Pending
<1>8. IocpShape'
  BY <1>3, <1>4, <1>5 DEF IocpShape
<1>9. IocpCounts'
  BY <1>1, <1>2, <1>3, <1>4, <1>7 DEF IocpCounts, KernelRow
<1>10. RingInv'
  BY <1>2, <1>4 DEF KernelInv, RingInv
<1> QED
  BY <1>6, <1>8, <1>9, <1>10 DEF KernelInv

\* ReadFile took one more piece.
LEMMA IssueKeeps ==
  ASSUME DriverInv, RowsStay, KernelInv, Issue, UNCHANGED ring
  PROVE  DriverInv' /\ RowsStay' /\ KernelInv' /\ contents' \in Contents
<1>1. PICK q : q = [miss |-> miss, part |-> iocp.issued + 1]
  OBVIOUS
<1>2. /\ iocp.pc = "issuing" /\ kernel' = kernel \union {q} /\ contents' = Torn(q, contents)
      /\ iocp' = [iocp EXCEPT !.issued = @ + 1,
                              !.pc = IF q.part = NumPieces THEN "draining" ELSE @]
      /\ UNCHANGED <<driverVars, port>>
  BY <1>1 DEF Issue
<1>3. UNCHANGED <<arm, miss, phase>> /\ Task' = Task
  BY <1>2 DEF driverVars, Task
<1>4. /\ Reads("iocp") /\ phase = "reading" /\ arm = "iocp"
      /\ iocp.issued < NumPieces /\ iocp.taken = 0 /\ iocp.ok
  BY <1>2 DEF KernelInv, IocpShape, Reads
<1>5. PICK n \in Nat, i \in Nat :
        n = NumPieces /\ i = iocp.issued /\ i + 1 <= n /\ i + 1 \in Pieces /\ i + 1 \in 0 .. n
  BY <1>4, ConstantsAre DEF KernelInv, IocpShape, Pieces
<1>6. q \in Task /\ q.part = i + 1
  BY <1>1, <1>5 DEF Task
<1>7. /\ iocp.lost = 0 /\ Pending = i /\ KernelRow(i)
      /\ \A r \in kernel : r.part <= i
      /\ \A c \in port : c.request.part <= i
  BY <1>4, <1>5 DEF KernelInv, IocpCounts, KernelRow
<1>8. iocp' = [pc |-> IF i + 1 = n THEN "draining" ELSE "issuing", issued |-> i + 1,
               taken |-> 0, ok |-> TRUE, lost |-> 0]
  <2>1. PICK pc, ok, tk, ls :
          iocp = [pc |-> pc, issued |-> i, taken |-> tk, ok |-> ok, lost |-> ls]
    BY <1>5 DEF KernelInv, IocpShape
  <2>2. tk = 0 /\ ok /\ ls = 0 /\ pc = "issuing" /\ iocp.ok \in BOOLEAN /\ iocp.ok = ok
    BY <1>2, <1>4, <1>7, <2>1 DEF KernelInv, IocpShape
  <2>3. iocp' = [pc |-> IF i + 1 = n THEN "draining" ELSE pc, issued |-> i + 1, taken |-> tk,
                 ok |-> ok, lost |-> ls]
    <3>1. PICK to : to = IF q.part = NumPieces THEN "draining" ELSE iocp.pc
      OBVIOUS
    <3>2. iocp' = [iocp EXCEPT !.issued = iocp.issued + 1, !.pc = to]
      BY <1>2, <3>1
    <3>3. iocp' = [pc |-> to, issued |-> i + 1, taken |-> tk, ok |-> ok, lost |-> ls]
      BY <2>1, <3>2
    <3>4. to = IF i + 1 = n THEN "draining" ELSE pc
      BY <1>5, <1>6, <2>1, <3>1
    <3> QED
      BY <3>3, <3>4
  <2>4. ok = TRUE
    BY <2>2
  <2> QED
    BY <2>2, <2>3, <2>4
<1>9. contents \in Contents /\ miss \in Nat /\ miss < Misses
  BY <1>4 DEF DriverInv
<1>10. /\ contents' \in Contents
       /\ \A p \in Pieces : p # i + 1 =>
            contents'[Destination(miss, p)] = contents[Destination(miss, p)]
       /\ \A b \in SlotBytes : contents'[b] = contents[b] \/ b = Destination(miss, i + 1)
  BY <1>2, <1>6, <1>9, TornFacts
<1>11. DriverInv' /\ RowsStay'
  <2>1. OnlyItsSlot
    BY <1>5, <1>10 DEF OnlyItsSlot
  <2> QED
    BY <1>2, <1>4, <1>10, <2>1, WritesKeepRows
<1>12. IsFiniteSet(kernel) /\ IsFiniteSet(port) /\ q \notin kernel
  BY <1>5, <1>6, <1>7 DEF KernelInv, KernelShape
<1>13. Pending' = i + 1 /\ IsFiniteSet(kernel')
  <2>1. IsFiniteSet(kernel') /\ Cardinality(kernel') = Cardinality(kernel) + 1
    BY <1>2, <1>12, FS_AddElement
  <2>2. PICK k \in Nat, c \in Nat : k = Cardinality(kernel) /\ c = Cardinality(port)
    BY <1>12, FS_CardinalityType
  <2> QED
    BY <1>2, <1>7, <2>1, <2>2 DEF Pending
<1>14. Reads("iocp")' /\ ~Reads("ioring") /\ ~Reads("ioring")'
  BY <1>3, <1>4 DEF Reads
<1>15. KernelShape'
  <2>1. \A c \in port : c.request \notin kernel'
    BY <1>2, <1>5, <1>6, <1>7 DEF KernelInv, KernelShape
  <2> QED
    BY <1>2, <1>3, <1>6, <1>9, <1>12, <1>13, <1>14, <2>1 DEF KernelInv, KernelShape
<1>16. KernelRow(i + 1)'
  <2> SUFFICES ASSUME NEW p \in 1 .. i + 1
               PROVE  \/ \E r \in kernel' : r.part = p
                      \/ \E d \in port' : d.request.part = p /\ ~d.whole
                      \/ contents'[Destination(miss, p)] = Source(miss, p)
    BY <1>3 DEF KernelRow, There
  <2>1. CASE p = i + 1
    BY <1>2, <1>6, <2>1
  <2>2. CASE p # i + 1
    <3>1. p \in Pieces /\ p \in 1 .. i
      BY <1>5, <2>2 DEF Pieces
    <3>2. contents'[Destination(miss, p)] = contents[Destination(miss, p)]
      BY <1>10, <2>2, <3>1
    <3> QED
      BY <1>2, <1>7, <3>1, <3>2 DEF KernelRow, There
  <2> QED
    BY <2>1, <2>2
<1>17. IocpShape'
  BY <1>5, <1>8, <1>14 DEF IocpShape
<1>18. IocpCounts'
  <2>1. \A r \in kernel' : r.part <= i + 1
    <3>1. \A r \in kernel : r.part \in Int
      BY DEF KernelInv, KernelShape, Task, Pieces
    <3> QED
      BY <1>2, <1>5, <1>6, <1>7, <3>1
  <2>2. \A c \in port' : c.request.part <= i + 1
    <3>1. \A c \in port : c.request.part \in Int
      BY DEF KernelInv, KernelShape, Task, Pieces
    <3> QED
      BY <1>2, <1>5, <1>7, <3>1
  <2>3. /\ iocp'.issued = i + 1 /\ iocp'.taken = 0 /\ iocp'.ok /\ iocp'.lost = 0
        /\ iocp'.pc = "draining" => i + 1 = n
    BY <1>8
  <2>4. KernelRow(iocp.issued)'
    BY <1>16, <2>3 DEF KernelRow
  <2> QED
    BY <1>3, <1>4, <1>5, <1>13, <1>14, <2>1, <2>2, <2>3, <2>4 DEF IocpCounts
<1>19. RingInv'
  <2>1. ring.pc = "out"
    BY <1>14 DEF KernelInv, RingInv
  <2> QED
    BY <1>14, <2>1 DEF KernelInv, RingInv
<1> QED
  BY <1>10, <1>11, <1>15, <1>17, <1>18, <1>19 DEF KernelInv

\* IocpRead goes on with what it asked for: neither driver nor bytes change.
LEMMA IocpStays ==
  ASSUME KernelInv, UNCHANGED driverVars, UNCHANGED <<contents, ring>>, Reads("iocp"),
         kernel' = kernel, port' \subseteq port, IsFiniteSet(port'),
         IocpShape', Pending' = (iocp'.issued - iocp'.taken) + iocp'.lost,
         iocp'.taken <= iocp'.issued, iocp'.issued = iocp.issued,
         iocp'.ok => /\ iocp.ok /\ iocp'.lost = 0
                      /\ \A c \in port : c \notin port' => c.whole,
         iocp'.ok /\ iocp'.pc = "draining" => iocp'.issued = NumPieces
  PROVE  KernelInv'
<1>1. UNCHANGED <<arm, miss, phase>> /\ Task' = Task
  BY DEF driverVars, Task
<1>2. Reads("iocp")' /\ ~Reads("ioring") /\ ~Reads("ioring")' /\ phase' # "exited"
  BY <1>1 DEF Reads
<1>3. KernelShape'
  BY <1>1, <1>2 DEF KernelInv, KernelShape
<1>4. iocp'.ok => KernelRow(iocp.issued)'
  <2> SUFFICES ASSUME iocp'.ok, NEW p \in 1 .. iocp'.issued
               PROVE  \/ \E r \in kernel' : r.part = p
                      \/ \E d \in port' : d.request.part = p /\ ~d.whole
                      \/ contents'[Destination(miss, p)] = Source(miss, p)
    BY <1>1 DEF KernelRow, There
  <2> QED
    BY DEF KernelInv, IocpCounts, KernelRow, There
<1>5. IocpCounts'
  BY <1>1, <1>2, <1>4 DEF KernelInv, IocpCounts
<1>6. RingInv'
  BY <1>2 DEF KernelInv, RingInv
<1> QED
  BY <1>3, <1>5, <1>6 DEF KernelInv

LEMMA IssueRefusedKeeps ==
  ASSUME KernelInv, IssueRefused, UNCHANGED ring
  PROVE  KernelInv' /\ UNCHANGED driverVars /\ UNCHANGED contents
<1>1. /\ iocp.pc = "issuing" /\ UNCHANGED <<driverVars, contents, kernel, port>>
      /\ iocp' = [iocp EXCEPT !.pc = "draining", !.ok = FALSE]
  BY DEF IssueRefused, IssueError, kernelVars
<1>2. Reads("iocp")
  BY <1>1 DEF KernelInv, IocpShape
<1>3. /\ iocp' \in IocpRecord /\ iocp'.pc = "draining" /\ ~iocp'.ok
      /\ iocp'.issued = iocp.issued /\ iocp'.taken = iocp.taken /\ iocp'.lost = iocp.lost
  BY <1>1 DEF KernelInv, IocpShape, IocpRecord
<1>4. Reads("iocp")'
  BY <1>1, <1>2 DEF Reads, driverVars
<1>5. IocpShape'
  BY <1>3, <1>4 DEF IocpShape, IocpRecord
<1>6. Pending' = Pending /\ IsFiniteSet(port')
  BY <1>1 DEF Pending, KernelInv, KernelShape
<1> QED
  BY <1>1, <1>2, <1>3, <1>5, <1>6, IocpStays DEF KernelInv, IocpCounts

LEMMA DequeueKeeps ==
  ASSUME KernelInv, NEW c \in port, Dequeue(c), UNCHANGED ring
  PROVE  KernelInv' /\ UNCHANGED driverVars /\ UNCHANGED contents
<1>1. /\ iocp.pc = "draining" /\ iocp.taken < iocp.issued /\ port' = port \ {c}
      /\ iocp' = [iocp EXCEPT !.taken = @ + 1, !.ok = AllWhole(c)]
      /\ UNCHANGED <<driverVars, kernel, contents>>
  BY DEF Dequeue
<1>2. Reads("iocp")
  BY <1>1 DEF KernelInv, IocpShape
<1>3. PICK i \in Nat, k \in Nat, l \in Nat, n \in Nat :
        /\ i = iocp.issued /\ k = iocp.taken /\ l = iocp.lost /\ n = NumPieces
        /\ iocp.ok \in BOOLEAN /\ i <= n
  BY ConstantsAre DEF KernelInv, IocpShape
<1>4. AllWhole(c) \in BOOLEAN /\ (AllWhole(c) => iocp.ok /\ c.whole)
  BY <1>3 DEF AllWhole, KernelInv, KernelShape
<1>5. /\ iocp' \in IocpRecord /\ iocp'.pc = "draining" /\ iocp'.ok = AllWhole(c)
      /\ iocp'.issued = i /\ iocp'.taken = k + 1 /\ iocp'.lost = l
  <2>1. PICK o : iocp = [pc |-> "draining", issued |-> i, taken |-> k, ok |-> o, lost |-> l]
    BY <1>1, <1>3 DEF KernelInv, IocpShape
  <2>2. iocp' = [pc |-> "draining", issued |-> i, taken |-> k + 1, ok |-> AllWhole(c), lost |-> l]
    <3>1. PICK a : a = AllWhole(c)
      OBVIOUS
    <3>2. iocp' = [iocp EXCEPT !.taken = iocp.taken + 1, !.ok = a]
      BY <1>1, <3>1
    <3> QED
      BY <2>1, <3>1, <3>2
  <2>3. k + 1 \in 0 .. NumPieces /\ i \in 0 .. NumPieces
    BY <1>1, <1>3
  <2> QED
    BY <1>3, <1>4, <2>2, <2>3 DEF IocpRecord
<1>6. Reads("iocp")'
  BY <1>1, <1>2 DEF Reads, driverVars
<1>7. IocpShape'
  BY <1>5, <1>6 DEF IocpShape, IocpRecord
<1>8. Pending' = (i - (k + 1)) + l /\ IsFiniteSet(port') /\ port' \subseteq port
  <2>1. IsFiniteSet(kernel) /\ IsFiniteSet(port)
    BY DEF KernelInv, KernelShape
  <2>2. IsFiniteSet(port') /\ Cardinality(port') = Cardinality(port) - 1
    BY <1>1, <2>1, FS_RemoveElement
  <2>3. PICK x \in Nat, y \in Nat : x = Cardinality(kernel) /\ y = Cardinality(port)
    BY <2>1, FS_CardinalityType
  <2>4. x + y = (i - k) + l
    BY <1>2, <1>3, <2>3 DEF KernelInv, IocpCounts, Pending
  <2>5. Cardinality(kernel') = x /\ Cardinality(port') = y - 1
    BY <1>1, <2>2, <2>3
  <2>6. x + (y - 1) = (i - (k + 1)) + l
    BY <1>3, <2>4
  <2> QED
    BY <1>1, <2>2, <2>5, <2>6 DEF Pending
<1>9. iocp.ok => iocp.lost = 0 /\ iocp.issued = NumPieces
  BY <1>1, <1>2 DEF KernelInv, IocpCounts
<1>10. \A d \in port : d \notin port' => d = c
  BY <1>1
<1> QED
  BY <1>1, <1>2, <1>3, <1>4, <1>5, <1>7, <1>8, <1>9, <1>10, IocpStays

LEMMA DequeueFailsKeeps ==
  ASSUME KernelInv, DequeueFails, UNCHANGED ring
  PROVE  KernelInv' /\ UNCHANGED driverVars /\ UNCHANGED contents
<1>1. /\ iocp.pc = "draining" /\ iocp.taken < iocp.issued
      /\ iocp' = [iocp EXCEPT !.taken = @ + 1, !.ok = FALSE, !.lost = @ + 1]
      /\ UNCHANGED <<driverVars, kernel, port, contents>>
  BY DEF DequeueFails, kernelVars
<1>2. Reads("iocp")
  BY <1>1 DEF KernelInv, IocpShape
<1>3. PICK i \in Nat, k \in Nat, l \in Nat, n \in Nat :
        /\ i = iocp.issued /\ k = iocp.taken /\ l = iocp.lost /\ n = NumPieces /\ i <= n
  BY ConstantsAre DEF KernelInv, IocpShape
<1>4. /\ iocp' \in IocpRecord /\ iocp'.pc = "draining" /\ ~iocp'.ok
      /\ iocp'.issued = i /\ iocp'.taken = k + 1 /\ iocp'.lost = l + 1
  <2>1. PICK o : iocp = [pc |-> "draining", issued |-> i, taken |-> k, ok |-> o, lost |-> l]
    BY <1>1, <1>3 DEF KernelInv, IocpShape
  <2>2. iocp' = [pc |-> "draining", issued |-> i, taken |-> k + 1, ok |-> FALSE, lost |-> l + 1]
    BY <1>1, <2>1
  <2>3. k + 1 \in 0 .. NumPieces /\ i \in 0 .. NumPieces
    BY <1>1, <1>3
  <2> QED
    BY <1>3, <2>2, <2>3 DEF IocpRecord
<1>5. Reads("iocp")'
  BY <1>1, <1>2 DEF Reads, driverVars
<1>6. IocpShape'
  BY <1>4, <1>5 DEF IocpShape, IocpRecord
<1>7. Pending' = (i - (k + 1)) + (l + 1) /\ IsFiniteSet(port')
  BY <1>1, <1>2, <1>3 DEF KernelInv, KernelShape, IocpCounts, Pending
<1> QED
  BY <1>1, <1>2, <1>3, <1>4, <1>6, <1>7, IocpStays

\* Everything accepted was taken back, but for what failed dequeues left behind.
LEMMA IocpReturnKeeps ==
  ASSUME DriverInv, RowsStay, KernelInv, IocpReturn, UNCHANGED ring
  PROVE  DriverInv' /\ RowsStay' /\ KernelInv'
<1>1. /\ iocp.pc = "draining" /\ iocp.taken = iocp.issued /\ Return(iocp.ok)
      /\ iocp' = [NotReading EXCEPT !.lost = iocp.lost]
      /\ UNCHANGED <<kernel, port, contents>>
  BY DEF IocpReturn, kernelVars
<1>2. Reads("iocp") /\ iocp.ok \in BOOLEAN /\ iocp.lost \in Nat /\ iocp.issued \in Int
  BY <1>1, ConstantsAre DEF KernelInv, IocpShape
<1>3. Pending = iocp.lost /\ (iocp.ok => iocp.lost = 0 /\ KernelRow(NumPieces))
  BY <1>1, <1>2 DEF KernelInv, IocpCounts
<1>4. iocp.ok => kernel = {} /\ port = {} /\ RowThere
  <2>1. IsFiniteSet(kernel) /\ IsFiniteSet(port)
    BY DEF KernelInv, KernelShape
  <2>2. PICK x \in Nat, y \in Nat : x = Cardinality(kernel) /\ y = Cardinality(port)
    BY <2>1, FS_CardinalityType
  <2>3. iocp.ok => x = 0 /\ y = 0
    BY <1>3, <2>2 DEF Pending
  <2>4. iocp.ok => kernel = {} /\ port = {}
    BY <2>1, <2>2, <2>3, FS_EmptySet
  <2> QED
    BY <1>3, <2>4 DEF KernelRow, RowThere, Pieces
<1>5. Return(FALSE) \/ (RowThere /\ Return(TRUE))
  BY <1>1, <1>2, <1>4 DEF Return
<1>6. DriverInv' /\ RowsStay'
  BY <1>1, <1>5, DriverKeepsRows
<1>7. UNCHANGED <<arm, miss>> /\ phase' = IF iocp.ok THEN "got" ELSE "exited"
  BY <1>1 DEF Return
<1>8. /\ ~Reads("iocp")' /\ ~Reads("ioring") /\ ~Reads("ioring")' /\ Task' = Task
      /\ Pending' = Pending
  BY <1>1, <1>2, <1>7 DEF Reads, Task, Pending
<1>9. iocp' = [pc |-> "out", issued |-> 0, taken |-> 0, ok |-> TRUE, lost |-> iocp.lost]
  BY <1>1 DEF NotReading
<1>10. KernelShape'
  BY <1>1, <1>4, <1>7, <1>8 DEF KernelInv, KernelShape
<1>11. IocpShape'
  BY <1>2, <1>8, <1>9, ConstantsAre DEF IocpShape
<1>12. IocpCounts'
  BY <1>2, <1>3, <1>7, <1>8, <1>9 DEF IocpCounts
<1>13. RingInv'
  BY <1>8 DEF KernelInv, RingInv
<1> QED
  BY <1>6, <1>10, <1>11, <1>12, <1>13 DEF KernelInv

(***************************************************************************)
(* IoRingRead's steps.                                                     *)
(***************************************************************************)

\* IocpRead stands still while the ring is read.
LEMMA IocpOut ==
  ASSUME KernelInv, UNCHANGED iocp, ~Reads("iocp"), ~Reads("iocp")',
         phase # "exited", phase' = "exited" => Pending' <= 0
  PROVE  IocpShape' /\ IocpCounts'
<1>1. iocp.pc = "out" /\ iocp.lost \in Nat /\ ~(iocp.lost > 0)
  BY DEF KernelInv, IocpShape, IocpCounts
<1>2. iocp.lost = 0
  BY <1>1
<1> QED
  BY <1>1, <1>2 DEF KernelInv, IocpShape, IocpCounts

LEMMA RingAskKeeps ==
  ASSUME DriverInv, KernelInv, RingAsk, UNCHANGED iocp
  PROVE  KernelInv'
<1>1. /\ phase = "ready" /\ phase' = "reading" /\ arm = "ioring" /\ miss < Misses
      /\ UNCHANGED <<arm, miss, kernel, port, contents>>
      /\ ring' = [NoRing EXCEPT !.pc = "building"]
  BY DEF RingAsk, Ask, kernelVars
<1>2. kernel = {} /\ port = {}
  BY <1>1, KernelAtRest
<1>3. ring' = [pc |-> "building", got |-> 0, bytes |-> 0, ok |-> TRUE]
  BY <1>1 DEF NoRing
<1>4. Reads("ioring")' /\ ~Reads("iocp")' /\ ~Reads("iocp")
  BY <1>1 DEF Reads
<1>5. KernelShape'
  BY <1>1, <1>2, FS_EmptySet DEF KernelShape
<1>6. IocpShape' /\ IocpCounts'
  BY <1>1, <1>4, IocpOut
<1>7. RingInv'
  <2>1. 0 \in 0 .. NumPieces
    BY ConstantsAre
  <2>2. /\ ring'.pc = "building" /\ ring'.got = 0 /\ ring'.bytes = 0
        /\ ring' \in [pc : {"out", "building", "waiting", "popping"}, got : 0 .. NumPieces,
                     bytes : 0 .. NumPieces, ok : BOOLEAN]
    BY <1>3, <2>1
  <2> QED
    BY <1>1, <1>2, <1>4, <2>2 DEF RingInv
<1> QED
  BY <1>5, <1>6, <1>7 DEF KernelInv

\* The whole row goes to the kernel at once.
LEMMA RingSubmitKeeps ==
  ASSUME DriverInv, RowsStay, KernelInv, RingSubmit, UNCHANGED iocp
  PROVE  DriverInv' /\ RowsStay' /\ KernelInv' /\ contents' \in Contents
<1>1. /\ ring.pc = "building" /\ kernel' = kernel \union Task
      /\ contents' = [b \in SlotBytes |-> IF \E q \in Task : b = At(q) THEN None
                                                               ELSE contents[b]]
      /\ ring' = [ring EXCEPT !.pc = "waiting"]
      /\ UNCHANGED <<driverVars, port>>
  BY DEF RingSubmit, Task
<1>2. UNCHANGED <<arm, miss, phase>> /\ Task' = Task
  BY <1>1 DEF driverVars, Task
<1>3. /\ Reads("ioring") /\ phase = "reading" /\ arm = "ioring" /\ kernel = {} /\ port = {}
      /\ ring.got = 0 /\ ring.bytes = 0
  BY <1>1 DEF KernelInv, RingInv, Reads
<1>4. /\ Reads("ioring")' /\ ~Reads("iocp") /\ ~Reads("iocp")' /\ phase' # "exited"
      /\ miss < Misses
  BY <1>2, <1>3 DEF Reads, DriverInv
<1>5. /\ contents' \in Contents
      /\ \A b \in SlotBytes : contents'[b] = contents[b] \/ \E p \in Pieces : b = Destination(miss, p)
  <2>1. contents \in Contents
    BY DEF DriverInv
  <2>2. \A q \in Task : q.part \in Pieces /\ At(q) = Destination(miss, q.part)
    BY DEF Task, At
  <2>3. \A b \in SlotBytes : contents'[b] = contents[b]
                             \/ (contents'[b] = None /\ \E q \in Task : b = At(q))
    BY <1>1
  <2>4. contents' \in Contents
    <3>1. \A b \in SlotBytes : contents[b] \in Values
      BY <2>1 DEF Contents, Values
    <3>2. None \in Values
      BY DEF Values
    <3>3. \A b \in SlotBytes : contents'[b] \in Values
      BY <2>3, <3>1, <3>2
    <3>4. contents' = [b \in SlotBytes |-> contents'[b]]
      BY <1>1
    <3>5. contents' \in [SlotBytes -> Values]
      BY <3>3, <3>4
    <3> QED
      BY <3>5 DEF Contents, Values
  <2> QED
    BY <2>2, <2>3, <2>4
<1>6. DriverInv' /\ RowsStay'
  BY <1>1, <1>3, <1>5, WritesKeepRows DEF OnlyItsSlot
<1>7. kernel' = Task /\ port' = {} /\ IsFiniteSet(Task) /\ Cardinality(Task) = NumPieces
  BY <1>1, <1>3, TaskCount
<1>8. KernelShape'
  BY <1>2, <1>4, <1>7, FS_EmptySet DEF KernelShape
<1>9. IocpShape' /\ IocpCounts'
  BY <1>3, <1>4, IocpOut
<1>10. Pending' = NumPieces
  <2>1. NumPieces + 0 = NumPieces
    BY ConstantsAre
  <2> QED
    BY <1>7, <2>1, FS_EmptySet DEF Pending
<1>11. KernelRow(NumPieces)'
  <2>1. \A p \in 1 .. NumPieces : \E q \in Task : q.part = p
    <3> SUFFICES ASSUME NEW p \in 1 .. NumPieces PROVE \E q \in Task : q.part = p
      OBVIOUS
    <3>1. PICK q : q = [miss |-> miss, part |-> p]
      OBVIOUS
    <3>2. q \in Task /\ q.part = p
      BY <3>1 DEF Task, Pieces
    <3> QED
      BY <3>2
  <2> QED
    BY <1>7, <2>1 DEF KernelRow
<1>12. RingInv'
  <2>1. PICK o : ring = [pc |-> "building", got |-> 0, bytes |-> 0, ok |-> o] /\ o \in BOOLEAN
    BY <1>1, <1>3 DEF KernelInv, RingInv
  <2>2. ring' = [pc |-> "waiting", got |-> 0, bytes |-> 0, ok |-> o]
    BY <1>1, <2>1
  <2> QED
    BY <1>4, <1>10, <1>11, <2>1, <2>2, ConstantsAre DEF RingInv
<1> QED
  BY <1>5, <1>6, <1>8, <1>9, <1>12 DEF KernelInv

LEMMA RingRefusedKeeps ==
  ASSUME DriverInv, RowsStay, KernelInv, RingRefused, UNCHANGED iocp
  PROVE  DriverInv' /\ RowsStay' /\ KernelInv'
<1>1. /\ ring.pc = "building" /\ Return(FALSE) /\ ring' = NoRing
      /\ UNCHANGED <<kernel, port, contents>>
  BY DEF RingRefused, kernelVars
<1>2. DriverInv' /\ RowsStay'
  BY <1>1, DriverKeepsRows
<1>3. Reads("ioring") /\ kernel = {} /\ port = {} /\ phase = "reading" /\ arm = "ioring"
  BY <1>1 DEF KernelInv, RingInv, Reads
<1>4. phase' = "exited" /\ UNCHANGED <<arm, miss>>
  BY <1>1 DEF Return
<1>5. /\ ~Reads("iocp") /\ ~Reads("iocp")' /\ ~Reads("ioring")'
  BY <1>3, <1>4 DEF Reads
<1>6. KernelShape' /\ Pending' = 0
  BY <1>1, <1>3, FS_EmptySet DEF KernelShape, Pending
<1>7. IocpShape' /\ IocpCounts'
  BY <1>3, <1>5, <1>6, IocpOut
<1>8. RingInv'
  BY <1>1, <1>5, ConstantsAre DEF NoRing, RingInv
<1> QED
  BY <1>2, <1>6, <1>7, <1>8 DEF KernelInv

\* Every piece has completed: the kernel has none left.
LEMMA RingWaitedKeeps ==
  ASSUME KernelInv, RingWaited, UNCHANGED iocp
  PROVE  KernelInv' /\ UNCHANGED driverVars /\ UNCHANGED contents
<1>1. /\ ring.pc = "waiting" /\ Cardinality(port) = NumPieces
      /\ ring' = [ring EXCEPT !.pc = "popping"]
      /\ UNCHANGED <<driverVars, kernel, port, contents>>
  BY DEF RingWaited, AllCompleted, kernelVars
<1>2. UNCHANGED <<arm, miss, phase>> /\ Task' = Task
  BY <1>1 DEF driverVars, Task
<1>3. /\ Reads("ioring") /\ Reads("ioring")' /\ ~Reads("iocp") /\ ~Reads("iocp")'
      /\ phase = "reading"
  BY <1>1, <1>2 DEF KernelInv, RingInv, Reads
<1>4. Pending = NumPieces /\ KernelRow(NumPieces) /\ ring.got = 0 /\ ring.bytes = 0
  BY <1>1 DEF KernelInv, RingInv
<1>5. kernel = {}
  <2>1. IsFiniteSet(kernel)
    BY DEF KernelInv, KernelShape
  <2>2. PICK x \in Nat : x = Cardinality(kernel)
    BY <2>1, FS_CardinalityType
  <2>3. x = 0
    BY <1>1, <1>4, <2>2, ConstantsAre DEF Pending
  <2> QED
    BY <2>1, <2>2, <2>3, FS_EmptySet
<1>6. KernelShape'
  BY <1>1, <1>2, <1>5 DEF KernelInv, KernelShape, Reads
<1>7. IocpShape' /\ IocpCounts'
  BY <1>2, <1>3, IocpOut
<1>8. KernelRow(NumPieces)'
  BY <1>1, <1>2, <1>4 DEF KernelRow, There
<1>9. RingInv'
  <2>1. PICK o : ring = [pc |-> "waiting", got |-> 0, bytes |-> 0, ok |-> o] /\ o \in BOOLEAN
    BY <1>1, <1>4 DEF KernelInv, RingInv
  <2>2. ring' = [pc |-> "popping", got |-> 0, bytes |-> 0, ok |-> o]
    BY <1>1, <2>1
  <2>3. NumPieces - 0 = NumPieces /\ 0 \in 0 .. NumPieces
    BY ConstantsAre
  <2> QED
    BY <1>1, <1>3, <1>5, <1>8, <2>1, <2>2, <2>3 DEF RingInv
<1> QED
  BY <1>1, <1>6, <1>7, <1>9 DEF KernelInv

\* The sum of the bytes falls behind the count for good once a read was short.
LEMMA PopKeeps ==
  ASSUME KernelInv, NEW c \in port, Pop(c), UNCHANGED iocp
  PROVE  KernelInv' /\ UNCHANGED driverVars /\ UNCHANGED contents
<1>1. PICK failed, piece :
        /\ failed \in BOOLEAN /\ ring.pc = "popping" /\ ring.got < NumPieces /\ port' = port \ {c}
        /\ piece = IF c.whole THEN 1 ELSE 0
        /\ ring' = [ring EXCEPT !.got = @ + 1, !.ok = @ /\ ~failed, !.bytes = @ + piece]
        /\ UNCHANGED <<driverVars, kernel, contents>>
  BY DEF Pop
<1>2. UNCHANGED <<arm, miss, phase>> /\ Task' = Task
  BY <1>1 DEF driverVars, Task
<1>3. /\ Reads("ioring") /\ Reads("ioring")' /\ ~Reads("iocp") /\ ~Reads("iocp")'
      /\ phase = "reading"
  BY <1>1, <1>2 DEF KernelInv, RingInv, Reads
<1>4. PICK g \in Nat, s \in Nat, n \in Nat :
        /\ g = ring.got /\ s = ring.bytes /\ n = NumPieces /\ g < n /\ s <= g
        /\ ring.ok \in BOOLEAN /\ kernel = {} /\ Cardinality(port) = n - g
        /\ s = g => KernelRow(NumPieces)
  BY <1>1, ConstantsAre DEF KernelInv, RingInv
<1>5. /\ IsFiniteSet(port') /\ Cardinality(port') = n - (g + 1)
  <2>1. IsFiniteSet(port)
    BY DEF KernelInv, KernelShape
  <2>2. IsFiniteSet(port') /\ Cardinality(port') = Cardinality(port) - 1
    BY <1>1, <2>1, FS_RemoveElement
  <2> QED
    BY <1>4, <2>2
<1>6. KernelShape'
  BY <1>1, <1>2, <1>4, <1>5 DEF KernelInv, KernelShape, Reads
<1>7. IocpShape' /\ IocpCounts'
  BY <1>2, <1>3, IocpOut
<1>8. piece \in 0 .. 1 /\ (piece = 1 => c.whole)
  BY <1>1
<1>9. PICK ok \in BOOLEAN : ok = (ring.ok /\ ~failed)
  BY <1>4
<1>10. ring' = [pc |-> "popping", got |-> g + 1, bytes |-> s + piece, ok |-> ok]
  <2>1. PICK o : ring = [pc |-> "popping", got |-> g, bytes |-> s, ok |-> o] /\ o \in BOOLEAN
    BY <1>1, <1>4 DEF KernelInv, RingInv
  <2>2. ring' = [ring EXCEPT !.got = g + 1, !.ok = ok, !.bytes = s + piece]
    BY <1>1, <1>4, <1>9
  <2> QED
    BY <2>1, <2>2
<1>11. s + piece = g + 1 => KernelRow(NumPieces)'
  <2> SUFFICES ASSUME s + piece = g + 1, NEW p \in 1 .. NumPieces
               PROVE  \/ \E r \in kernel' : r.part = p
                      \/ \E d \in port' : d.request.part = p /\ ~d.whole
                      \/ contents'[Destination(miss, p)] = Source(miss, p)
    BY <1>2 DEF KernelRow, There
  <2>1. s = g /\ c.whole
    BY <1>4, <1>8
  <2> QED
    BY <1>1, <1>4, <2>1 DEF KernelRow, There
<1>12. RingInv'
  <2>1. g + 1 \in 0 .. n /\ s + piece \in 0 .. n /\ s + piece <= g + 1
    BY <1>4, <1>8
  <2> QED
    BY <1>1, <1>3, <1>4, <1>5, <1>10, <1>11, <2>1 DEF RingInv
<1> QED
  BY <1>1, <1>6, <1>7, <1>12 DEF KernelInv

LEMMA RingReturnKeeps ==
  ASSUME DriverInv, RowsStay, KernelInv, RingReturn, UNCHANGED iocp
  PROVE  DriverInv' /\ RowsStay' /\ KernelInv'
<1>1. /\ ring.pc = "popping" /\ ring.got = NumPieces
      /\ Return(ring.ok /\ ring.bytes >= NumPieces)
      /\ ring' = NoRing /\ UNCHANGED <<kernel, port, contents>>
  BY DEF RingReturn, kernelVars
<1>2. PICK ok : ok = (ring.ok /\ ring.bytes >= NumPieces) /\ ok \in BOOLEAN
  BY DEF KernelInv, RingInv
<1>3. /\ Reads("ioring") /\ kernel = {} /\ Cardinality(port) = NumPieces - ring.got
      /\ ring.bytes \in 0 .. NumPieces /\ ring.bytes <= ring.got
      /\ ring.bytes = ring.got => KernelRow(NumPieces)
  BY <1>1 DEF KernelInv, RingInv
<1>4. port = {}
  <2>1. IsFiniteSet(port) /\ Cardinality(port) = 0
    BY <1>1, <1>3, ConstantsAre DEF KernelInv, KernelShape
  <2> QED
    BY <2>1, FS_EmptySet
<1>5. ok => RowThere
  <2>1. ASSUME ok PROVE ring.bytes = ring.got
    <3>1. ring.bytes >= NumPieces
      BY <1>2, <2>1, Zenon
    <3> QED
      BY <1>1, <1>3, <3>1, ConstantsAre
  <2> QED
    BY <1>3, <1>4, <2>1 DEF KernelRow, RowThere, Pieces
<1>6. Return(FALSE) \/ (RowThere /\ Return(TRUE))
  BY <1>1, <1>2, <1>5 DEF Return
<1>7. DriverInv' /\ RowsStay'
  BY <1>1, <1>6, DriverKeepsRows
<1>8. phase = "reading" /\ phase' \in {"got", "exited"} /\ UNCHANGED <<arm, miss>> /\ arm = "ioring"
  BY <1>1, <1>3 DEF Return, Reads
<1>9. ~Reads("iocp") /\ ~Reads("iocp")' /\ ~Reads("ioring")'
  BY <1>8 DEF Reads
<1>10. KernelShape' /\ Pending' = 0
  BY <1>1, <1>3, <1>4, FS_EmptySet DEF KernelShape, Pending
<1>11. IocpShape' /\ IocpCounts'
  BY <1>8, <1>9, <1>10, IocpOut
<1>12. RingInv'
  BY <1>1, <1>9, ConstantsAre DEF NoRing, RingInv
<1> QED
  BY <1>7, <1>10, <1>11, <1>12 DEF KernelInv

-----------------------------------------------------------------------------
(***************************************************************************)
(* MemPageRead.                                                            *)
(***************************************************************************)

\* One Cardinality, under three names.
LEMMA OneCardinality ==
  \A X : T!Cardinality(X) = Cardinality(X) /\ S!Cardinality(X) = Cardinality(X)
BY Zenon DEF T!Cardinality, S!Cardinality, Cardinality

\* T, the set the code makes, is S, the set with its proofs.
LEMMA SameSet ==
  /\ T!Init => S!Init
  /\ \A s, d : T!submit_status(s, d) = S!submit_status(s, d)
  /\ \A s, d : T!Submit("main", s, d) => S!Submit("main", s, d)
  /\ T!RecordClaim("main") => S!RecordClaim("main")
  /\ \A c, d : T!Wait("main", c, d) => S!Wait("main", c, d)
  /\ T!Wake("main") => S!Wake("main")
  /\ T!SpuriousWake("main") => S!SpuriousWake("main")
  /\ \A c : T!ReleaseClaim("main", c) => S!ReleaseClaim("main", c)
  /\ \A q, res : T!Complete(q, res) => S!Complete(q, res)
<1>1. T!Init => S!Init
  BY Zenon DEF T!Init, S!Init, T!Records, S!Records, T!FreeRecord, S!FreeRecord, T!Idle, S!Idle
<1>2. \A s, d : T!submit_status(s, d) = S!submit_status(s, d)
  BY Zenon DEF T!submit_status, S!submit_status, T!checked_end, S!checked_end, T!NoEnd, S!NoEnd,
               T!validate_range, S!validate_range, T!Overlaps, S!Overlaps
<1>3. \A s, d : T!Submit("main", s, d) => S!Submit("main", s, d)
  BY <1>2, Zenon DEF T!Submit, S!Submit, T!NextGen, S!NextGen, T!Span, S!Span, T!setVars, S!setVars,
                     T!Last, S!Last
<1>4. T!RecordClaim("main") => S!RecordClaim("main")
  BY Zenon DEF T!RecordClaim, S!RecordClaim, T!NextGen, S!NextGen, T!Idle, S!Idle,
               T!Front, S!Front
<1>5. \A c, d : T!Wait("main", c, d) => S!Wait("main", c, d)
  BY Zenon DEF T!Wait, S!Wait, T!Sleep, S!Sleep, T!Satisfied, S!Satisfied, T!setVars, S!setVars
<1>6. T!Wake("main") => S!Wake("main")
  BY Zenon DEF T!Wake, S!Wake, T!Satisfied, S!Satisfied, T!Idle, S!Idle, T!setVars, S!setVars
<1>7. T!SpuriousWake("main") => S!SpuriousWake("main")
  BY Zenon DEF T!SpuriousWake, S!SpuriousWake, T!setVars, S!setVars
<1>8. \A r : T!retire_record(r) => S!retire_record(r)
  BY Zenon DEF T!retire_record, S!retire_record, T!MovedAt, S!MovedAt,
               T!Front, S!Front, T!Last, S!Last
<1>9. \A c : T!ReleaseClaim("main", c) => S!ReleaseClaim("main", c)
  BY <1>8, Zenon DEF T!ReleaseClaim, S!ReleaseClaim, T!FreesNow, S!FreesNow, T!FreeRecord,
                     S!FreeRecord
<1>10. T!notify_all => S!notify_all
  BY Zenon DEF T!notify_all, S!notify_all
<1>11. \A k, res : T!Land(k, res) => S!Land(k, res)
  BY <1>8, <1>10, Zenon DEF T!Land, S!Land, T!classify_fill, S!classify_fill, T!Claimed,
                            S!Claimed, T!FreeRecord, S!FreeRecord
<1>12. \A k, res : T!on_complete(k, res) => S!on_complete(k, res)
  BY <1>11, Zenon DEF T!on_complete, S!on_complete, T!Lockable, S!Lockable, T!Stale, S!Stale,
                      T!setVars, S!setVars
<1>13. \A q, res : T!Complete(q, res) => S!Complete(q, res)
  BY <1>12, OneCardinality, Zenon DEF T!Complete, S!Complete, T!Span, S!Span, T!TokenOf, S!TokenOf
<1> QED
  BY <1>1, <1>2, <1>3, <1>4, <1>5, <1>6, <1>7, <1>9, <1>13

(***************************************************************************)
(* What the set's invariant says of MemPageRead's claims.                  *)
(***************************************************************************)
LEMMA SlotBytesOf ==
  /\ S!Word = 0 .. SetWords - 1
  /\ S!Records = 0 .. NumPieces - 1
  /\ Contents = [0 .. KSlots * NumPieces - 1 -> (0 .. Misses * NumPieces - 1) \union {None}]
BY DEF S!Word, S!Records, SetWords, Contents, SlotBytes, max_claims

\* Only its thread's own calls hold the mutex between steps.
LEMMA MutexFree ==
  ASSUME S!SetInv, call["main"].pc # "recording"
  PROVE  mutex = None
BY DEF S!SetInv, S!MutexInv, S!TypeOK

\* A set with no claims and no requests is as new, but for its generations.
LEMMA SetAtRest ==
  ASSUME S!SetInv, claims = {}, requests = {}, call["main"].pc = "idle"
  PROVE  /\ \A r \in S!Records : ~S!InUse(r)
         /\ live = <<>> /\ held = 0 /\ inFlight = 0 /\ mutex = None
<1>1. \A r \in S!Records : ~S!InUse(r)
  <2> SUFFICES ASSUME NEW r \in S!Records, S!InUse(r) PROVE FALSE
    OBVIOUS
  <2>1. records[r].state \in S!RecordState
    BY DEF S!SetInv, S!TypeOK, S!Record
  <2>2. records[r].state # "submitted" /\ ~records[r].held
    BY DEF S!SetInv, S!RequestInv, S!ClaimInv
  <2>3. records[r].state \notin {"completed", "failed"}
    BY <2>2 DEF S!SetInv, S!RecordInv
  <2> QED
    BY <2>1, <2>2, <2>3 DEF S!RecordState, S!InUse
<1>2. live = <<>>
  <2>1. live \in Seq(S!Records)
    BY DEF S!SetInv, S!TypeOK
  <2>2. \A i \in DOMAIN live : live[i] \in S!Records /\ S!InUse(live[i])
    BY <2>1 DEF S!SetInv, S!ListInv
  <2> QED
    BY <1>1, <2>1, <2>2
<1>3. S!HeldRecords = {} /\ S!FlyingRecords = {}
  BY <1>1 DEF S!HeldRecords, S!FlyingRecords, S!InUse, S!SetInv, S!RecordInv
<1>4. held = 0 /\ inFlight = 0
  BY <1>3, OneCardinality, FS_EmptySet DEF S!SetInv, S!CountInv
<1> QED
  BY <1>1, <1>2, <1>4, MutexFree

\* MemPageRead's set stands still while another strategy runs; only the bytes change.
LEMMA MemPageFrame ==
  ASSUME MemPageInv, UNCHANGED mempageVars, ~Reads("mempage"), ~Reads("mempage")',
         contents' \in Contents
  PROVE  MemPageInv'
<1>1. UNCHANGED <<records, free, live, liveAt, held, inFlight, mutex, call, claims, requests,
                  late, mempage>>
  BY DEF mempageVars, setVars
<1>2. mempage.pc = "out" /\ claims = {} /\ requests = {} /\ S!SetInv
  BY DEF MemPageInv, MemPageShape
<1>3. S!TypeOK'
  BY <1>1, <1>2, SlotBytesOf DEF S!SetInv, S!TypeOK
<1>4. S!ListInv' /\ S!RecordInv' /\ S!SpanInv' /\ S!MutexInv'
  BY <1>1, <1>2 DEF S!SetInv, S!ListInv, S!RecordInv, S!SpanInv, S!MutexInv, S!InUse, S!Apart,
                    S!Within
<1>5. S!RequestInv' /\ S!ClaimInv' /\ S!LateInv'
  BY <1>1, <1>2 DEF S!SetInv, S!RequestInv, S!ClaimInv, S!LateInv, S!Stale
<1>6. S!CountInv'
  BY <1>1, <1>2 DEF S!SetInv, S!CountInv, S!HeldRecords, S!FlyingRecords
<1>7. S!SetInv'
  BY <1>3, <1>4, <1>5, <1>6 DEF S!SetInv
<1>8. MemPageShape'
  BY <1>1, <1>2, <1>7 DEF MemPageInv, MemPageShape
<1>9. MemPagePieces'
  BY <1>1, <1>2 DEF MemPageInv, MemPagePieces, S!InUse
<1> QED
  BY <1>1, <1>2, <1>8, <1>9 DEF MemPageInv, MemPageSubmits, MemPageWaits, MemPageClears

\* A claim's record is its own, and the claim of a piece is the only one.
LEMMA ClaimFacts ==
  ASSUME S!SetInv, NEW c \in claims
  PROVE  /\ c.record \in S!Records /\ S!InUse(c.record) /\ records[c.record].held
         /\ records[c.record].destination = c.destination
         /\ records[c.record].length = c.length
         /\ c.destination \in Nat /\ c.length \in Nat \ {0}
<1>1. /\ c.record \in S!Records /\ S!InUse(c.record) /\ records[c.record].held
      /\ records[c.record].destination = c.destination /\ records[c.record].length = c.length
  BY DEF S!SetInv, S!ClaimInv, S!TypeOK, S!Claim
<1>2. c.destination \in Nat /\ c.length \in Nat
  BY SlotBytesOf DEF S!SetInv, S!TypeOK, S!Claim
<1>3. 0 < records[c.record].length
  BY <1>1 DEF S!SetInv, S!RecordInv, S!Within
<1> QED
  BY <1>1, <1>2, <1>3

LEMMA ClaimOfPiece ==
  ASSUME S!SetInv, NEW p \in Pieces, NEW c \in claims, IsPiece(c, p)
  PROVE  ClaimOf(p) = c
<1>1. PICK d : d = ClaimOf(p)
  OBVIOUS
<1>2. d \in claims /\ d.destination = Destination(miss, p)
  BY <1>1 DEF ClaimOf, IsPiece
<1>3. c.destination = d.destination
  BY <1>2 DEF IsPiece
<1>4. ASSUME c.record # d.record PROVE FALSE
  <2>1. S!Apart(records[c.record], records[d.record])
    BY <1>2, <1>4, ClaimFacts DEF S!SetInv, S!SpanInv
  <2>2. /\ records[c.record].destination = c.destination /\ c.destination \in Nat
        /\ records[c.record].length = c.length /\ c.length \in Nat \ {0}
        /\ records[d.record].destination = d.destination /\ d.destination \in Nat
        /\ records[d.record].length = d.length /\ d.length \in Nat \ {0}
    BY <1>2, ClaimFacts
  <2> QED
    BY <1>3, <2>1, <2>2 DEF S!Apart
<1>5. c = d
  BY <1>2, <1>4 DEF S!SetInv, S!ClaimInv
<1> QED
  BY <1>1, <1>5

\* MemPageRead asks: nothing is claimed yet.
LEMMA MemPageAskKeeps ==
  ASSUME DriverInv, MemPageInv, MemPageAsk
  PROVE  MemPageInv'
<1>1. /\ phase = "ready" /\ phase' = "reading" /\ arm = "mempage"
      /\ UNCHANGED <<arm, miss, contents>>
      /\ UNCHANGED <<records, free, live, liveAt, held, inFlight, mutex, call, claims, requests,
                     late>>
      /\ mempage' = [pc |-> "submitting", part |-> 1, ok |-> TRUE]
  BY DEF MemPageAsk, Ask, setVars, NoRead
<1>2. ~Reads("mempage") /\ Reads("mempage")'
  BY <1>1 DEF Reads
<1>3. /\ claims = {} /\ requests = {} /\ call["main"].pc = "idle" /\ S!SetInv /\ late = {}
  BY <1>2 DEF MemPageInv, MemPageShape
<1>4. S!SetInv'
  <2>1. S!SetInv /\ UNCHANGED S!vars => S!SetInv'
    BY SetAssumptions, S!SetNext
  <2> QED
    BY <1>1, <1>3, <2>1 DEF S!vars, S!setVars
<1>5. live = <<>> /\ \A r \in S!Records : ~S!InUse(r)
  BY <1>3, SetAtRest
<1>6. 1 \in Pieces
  BY ConstantsAre DEF Pieces
<1>7. MemPageShape'
  BY <1>1, <1>2, <1>3, <1>4, <1>6 DEF MemPageShape
<1>8. MemPagePieces'
  BY <1>1, <1>3, <1>5 DEF MemPagePieces, S!InUse
<1>9. MemPageSubmits'
  <2>1. Len(live) = 0 /\ Cardinality(requests) = 0 /\ IsFiniteSet(requests)
    BY <1>3, <1>5, FS_EmptySet
  <2> QED
    BY <1>1, <1>3, <2>1 DEF MemPageSubmits
<1> QED
  BY <1>1, <1>7, <1>8, <1>9 DEF MemPageInv, MemPageWaits, MemPageClears

\* submit took a piece: the backend has its request, the record is not filled in yet.
LEMMA SubmitPieceKeeps ==
  ASSUME DriverInv, RowsStay, MemPageInv, SubmitPiece
  PROVE  DriverInv' /\ RowsStay' /\ MemPageInv' /\ contents' \in Contents
<1>1. PICK part, r :
        /\ part \in Pieces /\ part = mempage.part /\ r = S!Last(free)
  BY DEF MemPageInv, MemPageShape
<1>2. PICK d, o : d = Destination(miss, part) /\ o = Source(miss, part)
  OBVIOUS
<1>3. PICK q : q = [record |-> r, generation |-> S!NextGen(records[r].generation),
                    offset |-> o, destination |-> d, length |-> 1]
  OBVIOUS
<1>4. /\ mempage.pc = "submitting" /\ mempage' = mempage /\ UNCHANGED driverVars
      /\ S!Submit("main", Unit(miss, part), d)
  BY <1>1, <1>2, SameSet DEF SubmitPiece
<1>5. /\ requests' = requests \union {q}
      /\ late' = late \ {[record |-> r, generation |-> q.generation]}
      /\ contents' = [b \in DOMAIN contents |-> IF b \in d .. d + 1 - 1 THEN None ELSE contents[b]]
      /\ call' = [call EXCEPT !["main"] =
           [op |-> "submit", pc |-> "recording", record |-> r, deadline |-> FALSE]]
      /\ UNCHANGED <<records, free, live, liveAt, held, inFlight, claims>>
      /\ call["main"].pc = "idle" /\ mutex = None
  BY <1>1, <1>2, <1>3, <1>4 DEF S!Submit, S!setVars, S!Span, Unit, S!Last
<1>6. /\ phase = "reading" /\ arm = "mempage" /\ miss < Misses /\ miss \in Nat
      /\ UNCHANGED <<arm, miss, phase>>
  BY <1>4 DEF MemPageInv, MemPageShape, Reads, DriverInv, driverVars
<1>7. d \in Nat /\ d \in SlotBytes /\ o \in Nat /\ o \in 0 .. Misses * NumPieces - 1
      /\ d \in S!Word /\ o \in S!Word /\ 1 \in S!Word
  <2>1. /\ d \in Nat /\ d \in SlotBytes /\ d < KSlots * NumPieces
        /\ o \in Nat /\ o \in 0 .. Misses * NumPieces - 1
    BY <1>1, <1>2, <1>6, PlacesOfPieces
  <2>2. PICK w \in Nat, x \in Nat, y \in Nat :
          w = SetWords /\ x = KSlots * NumPieces /\ y = Misses * NumPieces /\ x < w /\ y < w
    BY WordsLarge
  <2>3. y > 0 /\ S!Word = 0 .. w - 1
    BY <2>2, WordsLarge, SlotBytesOf
  <2> QED
    BY <2>1, <2>2, <2>3
<1>8. S!SetInv'
  <2>1. Unit(miss, part) \in S!ByteRange
    BY <1>2, <1>7 DEF Unit, S!ByteRange
  <2>2. S!SetInv /\ "main" \in {"main"}
    BY DEF MemPageInv, MemPageShape
  <2> QED
    BY <1>4, <1>7, <2>1, <2>2, SetAssumptions, S!SubmitKeeps
<1>9. \A b \in SlotBytes : contents'[b] = contents[b] \/ b = d
  <2>1. DOMAIN contents = SlotBytes
    BY DEF DriverInv, Contents
  <2>2. \A b \in SlotBytes : b \in d .. d + 1 - 1 => b = d
    BY <1>7
  <2> QED
    BY <1>5, <2>1, <2>2
<1>10. contents' \in Contents
  BY <1>8, SlotBytesOf DEF S!SetInv, S!TypeOK
<1>11. DriverInv' /\ RowsStay'
  BY <1>1, <1>2, <1>4, <1>6, <1>9, <1>10, WritesKeepRows DEF OnlyItsSlot
<1>12. \A p \in requests : p.record # r
  <2>1. free # <<>>
    <3>1. PICK u : u = Unit(miss, part)
      OBVIOUS
    <3>2. u \in S!ByteRange /\ S!submit_status(u, d) = "ok"
      BY <1>2, <1>4, <1>7, <3>1 DEF Unit, S!ByteRange, S!Submit
    <3>3. S!TypeOK /\ S!ListInv
      BY DEF MemPageInv, MemPageShape, S!SetInv
    <3> QED
      BY <1>7, <3>2, <3>3, SetAssumptions, S!SubmitAdmits
  <2>2. ~S!InUse(r)
    BY <1>1, <2>1, SetAssumptions, S!TopIsFree
       DEF MemPageInv, MemPageShape, S!SetInv, S!Last
  <2>3. \A p \in requests : S!InUse(p.record)
    BY <1>5 DEF MemPageInv, MemPageShape, S!SetInv, S!RequestInv, S!Unrecorded, S!Matches, S!InUse
  <2> QED
    BY <2>2, <2>3
<1>13. call'["main"].pc = "recording" /\ call'["main"].record = r
  <2>1. DOMAIN call = {"main"}
    BY DEF MemPageInv, MemPageShape, S!SetInv, S!TypeOK
  <2> QED
    BY <1>5, <2>1
<1>14. IsPiece(q, part)
  BY <1>2, <1>3 DEF IsPiece
<1>15. MemPageShape'
  BY <1>4, <1>5, <1>6, <1>8 DEF MemPageInv, MemPageShape, Reads
<1>16. MemPagePieces'
  BY <1>1, <1>4, <1>5, <1>6, <1>14 DEF MemPageInv, MemPagePieces, IsPiece, S!InUse
<1>17. MemPageSubmits'
  <2>1. /\ IsFiniteSet(requests) /\ Cardinality(requests) < part
        /\ mempage.ok /\ Len(live) = part - 1
        /\ \A c \in claims : \E p \in 1 .. part - 1 : IsPiece(c, p)
        /\ \A p \in 1 .. part - 1 : \E c \in claims : IsPiece(c, p)
    BY <1>1, <1>4, <1>5 DEF MemPageInv, MemPageSubmits
  <2>2. part \in Int
    BY <1>1, ConstantsAre DEF Pieces
  <2>3. IsFiniteSet(requests') /\ Cardinality(requests') <= part
    <3>1. PICK n \in Nat : n = Cardinality(requests)
      BY <2>1, FS_CardinalityType
    <3>2. /\ IsFiniteSet(requests')
          /\ Cardinality(requests') = IF q \in requests THEN n ELSE n + 1
      BY <1>5, <2>1, <3>1, FS_AddElement
    <3>3. PICK k \in Nat : k = Cardinality(requests')
      BY <3>2, FS_CardinalityType
    <3> QED
      BY <2>1, <2>2, <3>1, <3>2, <3>3
  <2>4. \A p \in requests' : p.record = r => IsPiece(p, part)
    BY <1>5, <1>12, <1>14
  <2> QED
    BY <1>1, <1>4, <1>5, <1>6, <1>13, <2>1, <2>3, <2>4 DEF MemPageSubmits, IsPiece
<1> QED
  BY <1>4, <1>10, <1>11, <1>15, <1>16, <1>17 DEF MemPageInv, MemPageWaits, MemPageClears

\* submit returned a claim; after the last one MemPageRead begins to wait.
LEMMA ClaimPieceKeeps ==
  ASSUME DriverInv, MemPageInv, ClaimPiece
  PROVE  MemPageInv' /\ UNCHANGED driverVars /\ UNCHANGED contents
<1>1. PICK part \in Pieces : part = mempage.part
  BY DEF MemPageInv, MemPageShape
<1>2. /\ S!RecordClaim("main") /\ UNCHANGED driverVars
      /\ mempage' = IF part = NumPieces
                    THEN [mempage EXCEPT !.pc = "waiting", !.part = 1]
                    ELSE [mempage EXCEPT !.part = part + 1]
  BY <1>1, SameSet DEF ClaimPiece
<1>3. PICK q, c :
        /\ q \in requests /\ q.record = call["main"].record
        /\ records' = [records EXCEPT ![q.record] =
             [destination |-> q.destination, length |-> q.length, generation |-> q.generation,
              state |-> "submitted", result |-> "pending", held |-> TRUE]]
        /\ live' = Append(live, q.record)
        /\ c = [owner |-> "main", record |-> q.record, generation |-> q.generation,
                offset |-> q.offset, destination |-> q.destination, length |-> q.length]
        /\ claims' = claims \union {c}
        /\ call' = [call EXCEPT !["main"] = S!Idle]
        /\ UNCHANGED <<requests, late, contents>> /\ call["main"].pc = "recording"
  BY <1>2 DEF S!RecordClaim
<1>4. /\ UNCHANGED <<arm, miss, phase>>
  BY <1>2 DEF driverVars
<1>5. S!SetInv /\ late = {} /\ call \in [{"main"} -> S!Call] /\ records \in [S!Records -> S!Record]
  BY DEF MemPageInv, MemPageShape, S!SetInv, S!TypeOK
<1>6. mempage.pc \in {"submitting", "waiting"}
  BY <1>3 DEF MemPageInv, MemPageShape
<1>7. mempage.pc = "submitting"
  <2>1. mempage.pc # "waiting"
    BY <1>3 DEF MemPageInv, MemPageWaits
  <2> QED
    BY <1>6, <2>1
<1>8. /\ mempage.ok /\ Len(live) = part - 1
      /\ \A x \in claims : \E p \in 1 .. part - 1 : IsPiece(x, p)
      /\ \A p \in 1 .. part - 1 : \E x \in claims : IsPiece(x, p)
      /\ IsFiniteSet(requests) /\ Cardinality(requests) <= part
      /\ IsPiece(q, part)
  BY <1>1, <1>3, <1>7 DEF MemPageInv, MemPageSubmits
<1>9. S!SetInv'
  BY <1>2, <1>5, SetAssumptions, S!RecordClaimKeeps
<1>10. PICK n \in Nat \ {0} : n = NumPieces /\ part \in 1 .. n
  BY ConstantsAre DEF Pieces
<1>11. IsPiece(c, part) /\ IsPiece(c, part)'
  BY <1>3, <1>4, <1>8 DEF IsPiece
<1>12. \A x, p : IsPiece(x, p)' <=> IsPiece(x, p)
  BY <1>4 DEF IsPiece
<1>13. call'["main"].pc = "idle" /\ call'["main"].record = 0
  BY <1>3, <1>5 DEF S!Idle
<1>14. \A p \in 1 .. part : \E x \in claims' : IsPiece(x, p)
  <2> SUFFICES ASSUME NEW p \in 1 .. part PROVE \E x \in claims' : IsPiece(x, p)
    OBVIOUS
  <2>1. CASE p = part
    BY <1>3, <1>11, <2>1
  <2>2. CASE p # part
    <3>1. p \in 1 .. part - 1
      BY <1>10, <2>2
    <3> QED
      BY <1>3, <1>8, <3>1
  <2> QED
    BY <2>1, <2>2
<1>15. \A x \in claims' : \E p \in 1 .. part : IsPiece(x, p)
  <2>1. part \in 1 .. part /\ \A p \in 1 .. part - 1 : p \in 1 .. part
    BY <1>10
  <2> QED
    BY <1>3, <1>8, <1>11, <2>1
<1>16. \A r \in S!Records : S!InUse(r)' => records'[r].held
  <2> SUFFICES ASSUME NEW r \in S!Records, S!InUse(r)' PROVE records'[r].held
    OBVIOUS
  <2>1. CASE r = q.record
    BY <1>3, <1>5, <2>1
  <2>2. CASE r # q.record
    <3>1. records'[r] = records[r]
      BY <1>3, <1>5, <2>2
    <3> QED
      BY <1>7, <3>1 DEF S!InUse, MemPageInv, MemPagePieces
  <2> QED
    BY <2>1, <2>2
<1>17. MemPagePieces'
  <2>1. \A x \in requests : \E p \in Pieces : IsPiece(x, p)
    BY DEF MemPageInv, MemPagePieces
  <2>2. \A p \in 1 .. part : p \in Pieces
    BY <1>10 DEF Pieces
  <2> QED
    BY <1>3, <1>12, <1>15, <1>16, <2>1, <2>2 DEF MemPagePieces
<1>18. CASE part = NumPieces
  <2>1. /\ mempage'.pc = "waiting" /\ mempage'.part = 1
        /\ mempage' \in [pc : {"out", "submitting", "waiting", "clearing"}, part : Pieces,
                         ok : BOOLEAN]
    <3>1. 1 \in Pieces
      BY <1>10 DEF Pieces
    <3> QED
      BY <1>2, <1>18, <3>1 DEF MemPageInv, MemPageShape
  <2>2. MemPageShape'
    BY <1>3, <1>4, <1>5, <1>7, <1>9, <2>1 DEF MemPageInv, MemPageShape, Reads
  <2>3. MemPageWaits'
    <3>1. \A p \in Pieces : \E x \in claims' : IsPiece(x, p)'
      BY <1>12, <1>14, <1>18 DEF Pieces
    <3>2. 1 .. mempage'.part - 1 = {}
      BY <2>1
    <3> QED
      BY <1>13, <3>1, <3>2 DEF MemPageWaits
  <2> QED
    BY <1>2, <1>3, <1>17, <2>1, <2>2, <2>3 DEF MemPageInv, MemPageSubmits, MemPageClears
<1>19. CASE part # NumPieces
  <2>1. /\ mempage'.pc = "submitting" /\ mempage'.part = part + 1 /\ mempage'.ok
        /\ mempage' \in [pc : {"out", "submitting", "waiting", "clearing"}, part : Pieces,
                         ok : BOOLEAN]
    <3>1. part + 1 \in Pieces
      BY <1>10, <1>19 DEF Pieces
    <3> QED
      BY <1>2, <1>7, <1>8, <1>19, <3>1 DEF MemPageInv, MemPageShape
  <2>2. MemPageShape'
    BY <1>3, <1>4, <1>5, <1>7, <1>9, <2>1 DEF MemPageInv, MemPageShape, Reads
  <2>3. (part + 1) - 1 = part
    BY <1>10
  <2>4. Len(live') = part
    <3>1. live \in Seq(S!Records) /\ q.record \in S!Records
      BY <1>3, <1>5 DEF S!SetInv, S!TypeOK, S!Request
    <3> QED
      BY <1>3, <1>8, <1>10, <3>1
  <2>5. Cardinality(requests') < part + 1 /\ IsFiniteSet(requests')
    <3>1. PICK k \in Nat : k = Cardinality(requests)
      BY <1>8, FS_CardinalityType
    <3> QED
      BY <1>3, <1>8, <1>10, <3>1
  <2>6. MemPageSubmits'
    BY <1>12, <1>13, <1>14, <1>15, <2>1, <2>3, <2>4, <2>5 DEF MemPageSubmits
  <2> QED
    BY <1>2, <1>3, <1>17, <2>1, <2>2, <2>6 DEF MemPageInv, MemPageWaits, MemPageClears
<1> QED
  BY <1>18, <1>19

\* The thread sleeps, wakes or returns from a wait: only its call changes.
LEMMA CallMoves ==
  ASSUME MemPageInv, S!SetInv', mempage.pc = "waiting", mempage' = mempage,
         UNCHANGED driverVars,
         UNCHANGED <<records, free, live, liveAt, held, inFlight, claims, requests, late,
                     contents>>,
         call'["main"].pc \in {"idle", "asleep", "acquire"}
  PROVE  MemPageInv' /\ UNCHANGED contents
<1>1. UNCHANGED <<arm, miss, phase>>
  BY DEF driverVars
<1>2. \A x, p : IsPiece(x, p)' <=> IsPiece(x, p)
  BY <1>1 DEF IsPiece
<1>3. MemPageShape'
  BY <1>1 DEF MemPageInv, MemPageShape, Reads
<1>4. MemPagePieces'
  BY <1>2 DEF MemPageInv, MemPagePieces, S!InUse
<1>5. MemPageWaits'
  BY <1>2 DEF MemPageInv, MemPageWaits
<1> QED
  BY <1>3, <1>4, <1>5 DEF MemPageInv, MemPageSubmits, MemPageClears

LEMMA WakeUpKeeps ==
  ASSUME MemPageInv, WakeUp \/ MemPageSpurious
  PROVE  MemPageInv' /\ UNCHANGED driverVars /\ UNCHANGED contents
<1>1. /\ S!Wake("main") \/ S!SpuriousWake("main")
      /\ UNCHANGED driverVars /\ mempage' = mempage
  BY SameSet DEF WakeUp, MemPageSpurious
<1>2. S!SetInv /\ call \in [{"main"} -> S!Call]
  BY DEF MemPageInv, MemPageShape, S!SetInv, S!TypeOK
<1>3. S!SetInv'
  BY <1>1, <1>2, SetAssumptions, S!WaitingKeeps
<1>4. /\ call["main"].pc \in {"asleep", "acquire"}
      /\ UNCHANGED <<records, free, live, liveAt, held, inFlight, claims, requests, late,
                     contents>>
  BY <1>1 DEF S!Wake, S!SpuriousWake, S!setVars
<1>5. mempage.pc = "waiting"
  BY <1>4 DEF MemPageInv, MemPageShape, MemPageSubmits
<1>6. call'["main"].pc \in {"idle", "asleep", "acquire"}
  <2>1. CASE S!Wake("main")
    <3>1. PICK c : c = call["main"] /\ c \in S!Call
      BY <1>2
    <3>2. [c EXCEPT !.pc = "asleep"].pc = "asleep"
      BY <3>1 DEF S!Call
    <3>3. S!Idle.pc = "idle"
      BY DEF S!Idle
    <3>4. call'["main"] = S!Idle \/ call'["main"] = [c EXCEPT !.pc = "asleep"]
      BY <1>2, <2>1, <3>1 DEF S!Wake
    <3> QED
      BY <3>2, <3>3, <3>4
  <2>2. CASE S!SpuriousWake("main")
    <3>1. PICK c : c = call["main"] /\ c \in S!Call
      BY <1>2
    <3>2. [c EXCEPT !.pc = "acquire"].pc = "acquire"
      BY <3>1 DEF S!Call
    <3>3. call'["main"] = [c EXCEPT !.pc = "acquire"]
      BY <1>2, <2>2, <3>1 DEF S!SpuriousWake
    <3> QED
      BY <3>2, <3>3
  <2> QED
    BY <1>1, <2>1, <2>2
<1> QED
  BY <1>1, <1>3, <1>4, <1>5, <1>6, CallMoves

\* All settled: the backend has no request left, and an ok row is there.
LEMMA AllSettled ==
  ASSUME DriverInv, S!SetInv, call["main"].pc = "idle",
         \A r \in S!Records : S!InUse(r) => records[r].held,
         \A c \in claims : \E p \in Pieces : IsPiece(c, p),
         \A p \in Pieces : \E c \in claims : IsPiece(c, p),
         NEW ok,
         \A p \in Pieces : \A c \in claims : IsPiece(c, p) =>
           /\ records[c.record].state # "submitted"
           /\ ok => records[c.record].state = "completed"
  PROVE  requests = {} /\ (ok => RowThere)
<1>1. requests = {}
  <2> SUFFICES ASSUME NEW q \in requests PROVE FALSE
    OBVIOUS
  <2>1. mutex = None
    BY MutexFree
  <2>2. q.record \in S!Records /\ records[q.record].state = "submitted"
    BY <2>1 DEF S!SetInv, S!RequestInv, S!Unrecorded, S!Matches, S!TypeOK, S!Request
  <2>3. records[q.record].held
    BY <2>2 DEF S!InUse
  <2>4. PICK c \in claims : c.record = q.record
    BY <2>2, <2>3 DEF S!SetInv, S!ClaimInv
  <2> QED
    BY <2>2, <2>4
<1>2. ASSUME ok, NEW p \in Pieces PROVE There(p)
  <2>1. PICK c \in claims : IsPiece(c, p)
    OBVIOUS
  <2>2. records[c.record].state = "completed"
    BY <1>2, <2>1
  <2>3. \A b \in S!Span(c.destination, c.length) : contents[b] = c.offset + (b - c.destination)
    BY <2>2 DEF S!SetInv, S!ClaimInv
  <2>4. PICK d \in Nat, o \in Nat :
          d = c.destination /\ d = Destination(miss, p) /\ o = c.offset /\ o = Source(miss, p)
    BY <2>1, PlacesOfPieces DEF IsPiece, DriverInv
  <2>5. d \in S!Span(c.destination, c.length)
    BY <2>1, <2>4 DEF S!Span, IsPiece
  <2>6. contents[d] = o + (d - d)
    BY <2>3, <2>4, <2>5
  <2> QED
    BY <2>4, <2>6 DEF There
<1> QED
  BY <1>1, <1>2 DEF RowThere

LEMMA WaitPieceKeeps ==
  ASSUME DriverInv, MemPageInv, WaitPiece
  PROVE  MemPageInv' /\ UNCHANGED driverVars /\ UNCHANGED contents
<1>1. PICK part, claim :
        part \in Pieces /\ part = mempage.part /\ claim = ClaimOf(part)
  BY DEF MemPageInv, MemPageShape
<1>2. /\ mempage.pc = "waiting" /\ call["main"].pc = "idle" /\ UNCHANGED driverVars
      /\ UNCHANGED <<arm, miss, phase>>
  BY DEF WaitPiece, driverVars
<1>3. S!SetInv /\ call \in [{"main"} -> S!Call]
  BY DEF MemPageInv, MemPageShape, S!SetInv, S!TypeOK
<1>4. CASE T!Wait("main", claim, FALSE) /\ UNCHANGED mempage
  <2>1. S!Wait("main", claim, FALSE)
    BY <1>4, SameSet
  <2>2. claim \in claims /\ FALSE \in BOOLEAN
    BY <2>1 DEF S!Wait
  <2>3. S!SetInv'
    BY <1>3, <2>1, <2>2, SetAssumptions, S!WaitingKeeps
  <2>4. /\ call' = [call EXCEPT !["main"] =
             [op |-> "wait", pc |-> "asleep", record |-> claim.record, deadline |-> FALSE]]
        /\ UNCHANGED <<records, free, live, liveAt, held, inFlight, claims, requests, late,
                       contents>>
    BY <2>1 DEF S!Wait, S!Sleep, S!setVars
  <2>5. call'["main"].pc = "asleep"
    BY <1>3, <2>4
  <2> QED
    BY <1>2, <1>4, <2>3, <2>4, <2>5, CallMoves
<1>5. CASE /\ records[claim.record].state # "submitted" /\ mempage' = Waited(part)
           /\ UNCHANGED <<setVars, contents>>
  <2>1. UNCHANGED <<records, free, live, liveAt, held, inFlight, mutex, call, claims, requests,
                    late, contents>>
    BY <1>5 DEF setVars
  <2>2. S!SetInv'
    <3>1. S!SetInv /\ UNCHANGED S!vars => S!SetInv'
      BY SetAssumptions, S!SetNext
    <3> QED
      BY <1>3, <2>1, <3>1 DEF S!vars, S!setVars
  <2>3. \A x, p : IsPiece(x, p)' <=> IsPiece(x, p)
    BY <1>2 DEF IsPiece
  <2>4. PICK ok : ok = (mempage.ok /\ records[claim.record].state = "completed")
                  /\ ok \in BOOLEAN
    BY DEF MemPageInv, MemPageShape
  <2>5. mempage' = IF part = NumPieces THEN [mempage EXCEPT !.pc = "clearing", !.ok = ok]
                   ELSE [mempage EXCEPT !.part = part + 1, !.ok = ok]
    BY <1>1, <1>5, <2>4 DEF Waited
  <2>6. PICK n \in Nat \ {0} : n = NumPieces /\ part \in 1 .. n
    BY <1>1, ConstantsAre DEF Pieces
  <2>7. /\ \A p \in Pieces : \E c \in claims : IsPiece(c, p)
        /\ \A c \in claims : \E p \in Pieces : IsPiece(c, p)
        /\ \A r \in S!Records : S!InUse(r) => records[r].held
    BY <1>2 DEF MemPageInv, MemPageWaits, MemPagePieces
  <2>8. ASSUME NEW p \in 1 .. part, NEW c \in claims, IsPiece(c, p)
        PROVE  /\ records[c.record].state # "submitted"
               /\ ok => records[c.record].state = "completed"
    <3>1. CASE p = part
      <4>1. claim = c
        BY <1>1, <1>3, <2>8, <3>1, ClaimOfPiece
      <4> QED
        BY <1>5, <2>4, <4>1
    <3>2. CASE p # part
      <4>1. p \in 1 .. part - 1
        BY <2>6, <3>2
      <4> QED
        BY <1>1, <1>2, <2>4, <2>8, <4>1 DEF MemPageInv, MemPageWaits
    <3> QED
      BY <3>1, <3>2
  <2>9. MemPagePieces'
    BY <2>1, <2>3, <2>7 DEF MemPageInv, MemPagePieces, S!InUse
  <2>10. CASE part = NumPieces
    <3>1. /\ mempage'.pc = "clearing" /\ mempage'.ok = ok
          /\ mempage' \in [pc : {"out", "submitting", "waiting", "clearing"}, part : Pieces,
                           ok : BOOLEAN]
      BY <2>4, <2>5, <2>10 DEF MemPageInv, MemPageShape
    <3>2. requests = {} /\ (ok => RowThere)
      BY <1>2, <1>3, <2>7, <2>8, <2>10, AllSettled DEF Pieces
    <3>3. MemPageShape'
      BY <1>2, <2>1, <2>2, <3>1, <3>2 DEF MemPageInv, MemPageShape, Reads
    <3>4. MemPageClears'
      BY <1>2, <2>1, <3>1, <3>2 DEF MemPageClears, RowThere, There
    <3> QED
      BY <1>2, <2>1, <2>9, <3>1, <3>3, <3>4 DEF MemPageInv, MemPageSubmits, MemPageWaits
  <2>11. CASE part # NumPieces
    <3>1. /\ mempage'.pc = "waiting" /\ mempage'.ok = ok /\ mempage'.part = part + 1
          /\ mempage' \in [pc : {"out", "submitting", "waiting", "clearing"}, part : Pieces,
                           ok : BOOLEAN]
      <4>1. part + 1 \in Pieces
        BY <2>6, <2>11 DEF Pieces
      <4> QED
        BY <1>2, <2>4, <2>5, <2>11, <4>1 DEF MemPageInv, MemPageShape
    <3>2. MemPageShape'
      BY <1>2, <2>1, <2>2, <3>1 DEF MemPageInv, MemPageShape, Reads
    <3>3. (part + 1) - 1 = part
      BY <2>6
    <3>4. MemPageWaits'
      BY <1>2, <2>1, <2>3, <2>7, <2>8, <3>1, <3>3 DEF MemPageWaits
    <3> QED
      BY <1>2, <2>1, <2>9, <3>1, <3>2, <3>4 DEF MemPageInv, MemPageSubmits, MemPageClears
  <2> QED
    BY <1>2, <2>1, <2>10, <2>11
<1> QED
  BY <1>1, <1>4, <1>5 DEF WaitPiece

LEMMA ClearClaimKeeps ==
  ASSUME MemPageInv, ClearClaim
  PROVE  MemPageInv' /\ UNCHANGED driverVars /\ UNCHANGED contents
<1>1. PICK c \in claims : S!ReleaseClaim("main", c)
  BY SameSet DEF ClearClaim
<1>2. mempage.pc = "clearing" /\ mempage' = mempage /\ UNCHANGED driverVars
  BY DEF ClearClaim
<1>3. UNCHANGED <<arm, miss, phase>>
  BY <1>2 DEF driverVars
<1>4. claims' = claims \ {c} /\ UNCHANGED <<call, requests, late, contents>>
  BY <1>1 DEF S!ReleaseClaim
<1>5. S!SetInv'
  BY <1>1, SetAssumptions, S!ReleaseKeeps DEF MemPageInv, MemPageShape
<1>6. MemPageShape'
  BY <1>2, <1>3, <1>4, <1>5 DEF MemPageInv, MemPageShape, Reads
<1>7. MemPagePieces'
  BY <1>2, <1>3, <1>4 DEF MemPageInv, MemPagePieces, IsPiece
<1>8. MemPageClears'
  BY <1>2, <1>3, <1>4 DEF MemPageInv, MemPageClears, RowThere, There
<1> QED
  BY <1>2, <1>4, <1>6, <1>7, <1>8 DEF MemPageInv, MemPageSubmits, MemPageWaits

LEMMA MemPageReturnKeeps ==
  ASSUME DriverInv, RowsStay, MemPageInv, MemPageReturn
  PROVE  DriverInv' /\ RowsStay' /\ MemPageInv'
<1>1. /\ mempage.pc = "clearing" /\ claims = {} /\ Return(mempage.ok) /\ mempage' = NoRead
      /\ UNCHANGED <<records, free, live, liveAt, held, inFlight, mutex, call, claims, requests,
                     late, contents>>
  BY DEF MemPageReturn, setVars
<1>2. /\ S!SetInv /\ late = {} /\ requests = {} /\ call["main"].pc = "idle"
      /\ mempage.ok \in BOOLEAN /\ Reads("mempage")
  BY <1>1 DEF MemPageInv, MemPageShape
<1>3. Return(FALSE) \/ (RowThere /\ Return(TRUE))
  BY <1>1, <1>2 DEF MemPageInv, MemPageClears, Return
<1>4. DriverInv' /\ RowsStay'
  BY <1>1, <1>3, DriverKeepsRows
<1>5. phase' # "reading" /\ ~Reads("mempage")'
  BY <1>1 DEF Return, Reads
<1>6. S!SetInv'
  <2>1. S!SetInv /\ UNCHANGED S!vars => S!SetInv'
    BY SetAssumptions, S!SetNext
  <2> QED
    BY <1>1, <1>2, <2>1 DEF S!vars, S!setVars
<1>7. mempage'.pc = "out" /\ mempage' \in [pc : {"out", "submitting", "waiting", "clearing"},
                                           part : Pieces, ok : BOOLEAN]
  <2>1. 1 \in Pieces
    BY ConstantsAre DEF Pieces
  <2> QED
    BY <1>1, <2>1 DEF NoRead
<1>8. MemPageShape'
  BY <1>1, <1>2, <1>5, <1>6, <1>7 DEF MemPageShape
<1>9. MemPagePieces'
  BY <1>1, <1>2, SetAtRest DEF MemPagePieces, S!InUse
<1> QED
  BY <1>4, <1>7, <1>8, <1>9 DEF MemPageInv, MemPageSubmits, MemPageWaits, MemPageClears

\* A new set for the next open; what the slots hold stays.
LEMMA MemPageCloseKeeps ==
  ASSUME DriverInv, MemPageInv, MemPageClose
  PROVE  MemPageInv'
<1>1. /\ phase = "ready" /\ phase' = "verifying"
      /\ records' = [r \in S!Records |-> S!FreeRecord(0)]
      /\ free' = [i \in 1 .. max_claims |-> max_claims - i]
      /\ liveAt' = [r \in S!Records |-> 0]
      /\ UNCHANGED <<live, held, inFlight, mutex, call, claims, requests, late, mempage, contents>>
  BY DEF MemPageClose, CloseAtOnce, T!Records, S!Records, T!FreeRecord, S!FreeRecord
<1>2. ~Reads("mempage") /\ ~Reads("mempage")'
  BY <1>1 DEF Reads
<1>3. /\ mempage.pc = "out" /\ claims = {} /\ requests = {} /\ late = {}
      /\ call["main"].pc = "idle" /\ S!SetInv
  BY <1>2 DEF MemPageInv, MemPageShape
<1>4. live = <<>> /\ held = 0 /\ inFlight = 0 /\ mutex = None
  BY <1>3, SetAtRest
<1>5. S!Untouched'
  <2>1. call' \in [{"main"} -> S!Call] /\ \A t \in {"main"} : call'[t].pc = "idle"
    BY <1>1, <1>3 DEF S!SetInv, S!TypeOK
  <2>2. contents' \in [0 .. KSlots * NumPieces - 1 -> (0 .. Misses * NumPieces - 1) \union {None}]
    BY <1>1, <1>3 DEF S!SetInv, S!TypeOK
  <2> QED
    BY <1>1, <1>3, <1>4, <2>1, <2>2 DEF S!Untouched
<1>6. S!SetInv'
  <2>1. (S!Untouched => S!SetInv)'
    BY SetAssumptions, S!UntouchedIsSound, PTL
  <2> QED
    BY <1>5, <2>1
<1>7. MemPageShape'
  BY <1>1, <1>2, <1>3, <1>6 DEF MemPageInv, MemPageShape
<1>8. MemPagePieces'
  BY <1>1, <1>3, <1>6 DEF MemPagePieces, S!InUse, S!FreeRecord
<1> QED
  BY <1>1, <1>3, <1>7, <1>8 DEF MemPageInv, MemPageSubmits, MemPageWaits, MemPageClears

\* An answer settles a claim that was not settled: those waited for stay as they were.
LEMMA BackendKeeps ==
  ASSUME DriverInv, RowsStay, MemPageInv, Backend
  PROVE  DriverInv' /\ RowsStay' /\ MemPageInv' /\ contents' \in Contents
<1>1. PICK q \in requests, result \in Answers : S!Complete(q, result)
  BY SameSet DEF Backend
<1>2. UNCHANGED driverVars /\ mempage' = mempage /\ UNCHANGED <<arm, miss, phase>>
  BY DEF Backend, driverVars
<1>3. /\ mempage.pc \in {"submitting", "waiting"} /\ Reads("mempage") /\ S!SetInv /\ late = {}
      /\ phase = "reading"
  BY <1>1 DEF MemPageInv, MemPageShape, Reads
<1>4. S!SetInv'
  BY <1>1, <1>3, SetAssumptions, S!CompleteKeeps
<1>5. PICK r : r = q.record
  OBVIOUS
<1>6. /\ mutex = None /\ UNCHANGED claims /\ r \in S!Records /\ S!Matches(q, r)
      /\ S!Land(S!TokenOf(q), result) /\ requests' = {p \in requests : p.record # r}
      /\ late' \in {late, late \union {S!TokenOf(q)}}
  BY <1>1, <1>3, <1>5, SetAssumptions, S!CompleteLands
<1>7. late' = {}
  <2>1. Cardinality(late') <= 0
    BY <1>1, OneCardinality DEF S!Complete
  <2>2. late' # {} => late' = {S!TokenOf(q)}
    BY <1>3, <1>6
  <2>3. PICK tok : tok = S!TokenOf(q)
    OBVIOUS
  <2>4. Cardinality({tok}) = 1
    BY FS_Singleton
  <2>5. ASSUME late' # {} PROVE FALSE
    <3>1. late' = {tok}
      BY <2>2, <2>3, <2>5
    <3>2. 1 <= 0
      BY <2>1, <2>4, <3>1
    <3> QED
      BY <3>2
  <2> QED
    BY <2>5
<1>8. /\ records \in [S!Records -> S!Record] /\ call \in [{"main"} -> S!Call]
      /\ records[r].state = "submitted" /\ records[r].held
  BY <1>3, <1>6 DEF S!Matches, S!InUse, S!SetInv, S!TypeOK, MemPageInv, MemPagePieces
<1>9. PICK x : /\ records' = [records EXCEPT ![r] = x] /\ x.held
               /\ UNCHANGED <<live, liveAt, free>>
  <2>1. PICK st, x :
          /\ st = S!classify_fill(result, records[r].length)
          /\ x = [records[r] EXCEPT !.result = st,
                                    !.state = IF st = "ok" THEN "completed" ELSE "failed"]
    OBVIOUS
  <2>2. IF x.held
        THEN records' = [records EXCEPT ![r] = x] /\ UNCHANGED <<live, liveAt, free>>
        ELSE records' = [records EXCEPT ![r] = S!FreeRecord(x.generation)] /\ S!retire_record(r)
    BY <1>5, <1>6, <2>1 DEF S!Land, S!TokenOf, S!Claimed
  <2>3. x.held = records[r].held
    <3>1. PICK y \in S!Record : y = records[r]
      BY <1>6, <1>8
    <3>2. PICK s : s = IF st = "ok" THEN "completed" ELSE "failed"
      OBVIOUS
    <3>3. x = [y EXCEPT !.result = st, !.state = s]
      BY <2>1, <3>1, <3>2
    <3> QED
      BY <3>1, <3>3 DEF S!Record
  <2> QED
    BY <1>8, <2>2, <2>3
<1>10. \A s \in S!Records : s # r => records'[s] = records[s]
  BY <1>8, <1>9
<1>11. records'[r] = x
  BY <1>6, <1>8, <1>9
<1>12. /\ call'["main"].pc \in {"idle", "asleep", "acquire"}
       /\ call["main"].pc = "idle" => call'["main"].pc = "idle"
  <2>1. call["main"].pc # "recording"
    BY <1>3, <1>6, MemPageAssumption DEF S!SetInv, S!MutexInv
  <2>2. PICK c \in S!Call : c = call["main"]
    BY <1>8
  <2>3. call'["main"] = IF c.pc = "asleep" THEN [c EXCEPT !.pc = "acquire"] ELSE c
    BY <1>6, <1>8, <2>2 DEF S!Land, S!notify_all
  <2>4. [c EXCEPT !.pc = "acquire"].pc = "acquire"
    BY DEF S!Call
  <2>5. c.pc \in {"idle", "asleep", "acquire"}
    BY <2>1, <2>2 DEF S!Call
  <2> QED
    BY <2>2, <2>3, <2>4, <2>5
<1>13. \A y, p : IsPiece(y, p)' <=> IsPiece(y, p)
  BY <1>2 DEF IsPiece
<1>14. contents' \in Contents
  BY <1>4, SlotBytesOf DEF S!SetInv, S!TypeOK
<1>15. OnlyItsSlot
  <2>1. PICK p \in Pieces : IsPiece(q, p)
    BY DEF MemPageInv, MemPagePieces
  <2>2. PICK d \in Nat : d = Destination(miss, p) /\ d = q.destination
    BY <2>1, PlacesOfPieces DEF IsPiece, DriverInv
  <2>3. \A b \in SlotBytes : b \in S!Span(q.destination, q.length) => b = d
    BY <2>1, <2>2 DEF S!Span, IsPiece, SlotBytes
  <2>4. \A b \in SlotBytes : b \notin S!Span(q.destination, q.length) => contents'[b] = contents[b]
    BY <1>1 DEF S!Complete, DriverInv, Contents
  <2> QED
    BY <2>2, <2>3, <2>4 DEF OnlyItsSlot
<1>16. DriverInv' /\ RowsStay'
  BY <1>2, <1>3, <1>14, <1>15, WritesKeepRows
<1>17. MemPageShape'
  BY <1>2, <1>3, <1>4, <1>7 DEF MemPageInv, MemPageShape, Reads
<1>18. MemPagePieces'
  <2>1. \A s \in S!Records : S!InUse(s)' => records'[s].held
    <3> SUFFICES ASSUME NEW s \in S!Records, S!InUse(s)' PROVE records'[s].held
      OBVIOUS
    <3>1. CASE s = r
      BY <1>9, <1>11, <3>1
    <3>2. CASE s # r
      BY <1>3, <1>10, <3>2 DEF S!InUse, MemPageInv, MemPagePieces
    <3> QED
      BY <3>1, <3>2
  <2> QED
    BY <1>6, <1>13, <2>1 DEF MemPageInv, MemPagePieces
<1>19. MemPageSubmits'
  <2> SUFFICES ASSUME mempage.pc = "submitting" PROVE MemPageSubmits'
    BY <1>2 DEF MemPageSubmits
  <2>1. call["main"].pc # "recording"
    BY <1>3, <1>6, MemPageAssumption DEF S!SetInv, S!MutexInv
  <2>2. call["main"].pc = "idle" /\ call'["main"].pc = "idle"
    BY <1>12, <2>1 DEF MemPageInv, MemPageSubmits
  <2>3. IsFiniteSet(requests) /\ Cardinality(requests) < mempage.part /\ mempage.part \in Int
    BY <2>2 DEF MemPageInv, MemPageSubmits, MemPageShape, Pieces
  <2>4. IsFiniteSet(requests') /\ Cardinality(requests') <= Cardinality(requests)
    <3>1. requests' \subseteq requests
      BY <1>6
    <3> QED
      BY <2>3, <3>1, FS_Subset
  <2>5. Cardinality(requests') < mempage.part
    <3>1. PICK m \in Nat, n \in Nat : m = Cardinality(requests) /\ n = Cardinality(requests')
      BY <2>3, <2>4, FS_CardinalityType
    <3> QED
      BY <2>3, <2>4, <3>1
  <2> QED
    BY <1>2, <1>6, <1>9, <1>13, <2>2, <2>4, <2>5 DEF MemPageInv, MemPageSubmits
<1>20. MemPageWaits'
  <2> SUFFICES ASSUME mempage.pc = "waiting" PROVE MemPageWaits'
    BY <1>2 DEF MemPageWaits
  <2>1. ASSUME NEW p \in 1 .. mempage.part - 1, NEW c \in claims, IsPiece(c, p)
        PROVE  /\ records'[c.record].state # "submitted"
               /\ mempage.ok => records'[c.record].state = "completed"
    <3>1. /\ records[c.record].state # "submitted"
          /\ mempage.ok => records[c.record].state = "completed"
      BY <2>1 DEF MemPageInv, MemPageWaits
    <3>2. c.record # r /\ c.record \in S!Records
      BY <1>3, <1>8, <3>1, ClaimFacts
    <3> QED
      BY <1>10, <3>1, <3>2
  <2> QED
    BY <1>2, <1>6, <1>12, <1>13, <2>1 DEF MemPageInv, MemPageWaits
<1> QED
  BY <1>2, <1>3, <1>14, <1>16, <1>17, <1>18, <1>19, <1>20 DEF MemPageInv, MemPageClears

-----------------------------------------------------------------------------
(***************************************************************************)
(* All the strategies together: while one runs, the others stand aside.    *)
(***************************************************************************)
StepOf(a) == \/ arm = a /\ arm' = a
             \/ phase = "opening" /\ phase' = "ready"

LEMMA PoolAside ==
  ASSUME DriverInv, DriverInv', PoolInv, NEW a, a # "pool", StepOf(a), UNCHANGED poolVars
  PROVE  PoolInv'
<1>1. \A w \in Readers : worker[w].pc = "gone"
  BY PoolGone DEF StepOf
<1>2. ~Reads("pool") /\ phase # "closing" /\ ~Reads("pool")' /\ phase' # "closing"
  BY DEF StepOf, Reads, DriverInv
<1> QED
  BY <1>1, <1>2, PoolFrame

LEMMA KernelAside ==
  ASSUME KernelInv, NEW a, a \notin {"iocp", "ioring"}, StepOf(a),
         UNCHANGED <<kernelVars, iocp, ring>>, phase = "exited" => UNCHANGED driverVars
  PROVE  KernelInv'
<1>1. ~Reads("iocp") /\ ~Reads("ioring") /\ ~Reads("iocp")' /\ ~Reads("ioring")'
  BY DEF StepOf, Reads
<1> QED
  BY <1>1, KernelFrame

LEMMA MemPageAside ==
  ASSUME DriverInv', MemPageInv, NEW a, a # "mempage", StepOf(a), UNCHANGED mempageVars
  PROVE  MemPageInv'
<1>1. ~Reads("mempage") /\ ~Reads("mempage")'
  BY DEF StepOf, Reads
<1>2. contents' \in Contents
  BY DEF DriverInv
<1> QED
  BY <1>1, <1>2, MemPageFrame

\* The strategies begin with nothing open and nothing read.
LEMMA ShootoutInit == Init => ShootoutInv
<1> SUFFICES ASSUME Init PROVE ShootoutInv
  OBVIOUS
<1>1. DriverInit /\ PoolInit /\ KernelInit /\ IocpInit /\ RingInit /\ MemPageInit
  BY DEF Init
<1>2. DriverInv
  BY <1>1, ConstantsAre DEF DriverInit, DriverInv, ArmNames, DriverPhases, Contents
<1>3. RowsStay
  BY <1>1 DEF DriverInit, RowsStay, Served
<1>4. PoolInv
  <2>1. \A w \in Readers : worker[w] = GoneWorker
    BY <1>1 DEF PoolInit
  <2>2. PoolShape
    BY <1>1, <2>1, ConstantsAre DEF PoolInit, PoolShape, NewPool, GoneWorker
  <2>3. PoolCalled
    BY <1>1, <2>1 DEF PoolInit, PoolCalled, GoneWorker, Reads, DriverInit
  <2>4. PoolCounts
    <3>1. Reading = {}
      BY <2>1 DEF Reading, GoneWorker
    <3> QED
      BY <1>1, <3>1, FS_EmptySet DEF PoolCounts, PoolInit, NewPool
  <2>5. PoolRow /\ PoolNothingLeft
    BY <1>1, <2>1 DEF DriverInit, PoolRow, PoolNothingLeft, Reads, GoneWorker
  <2> QED
    BY <2>2, <2>3, <2>4, <2>5 DEF PoolInv
<1>5. KernelInv
  <2>1. kernel = {} /\ port = {} /\ Cardinality(kernel) = 0 /\ Cardinality(port) = 0
        /\ IsFiniteSet(kernel)
    BY <1>1, FS_EmptySet DEF KernelInit
  <2>2. Pending = 0
    BY <2>1 DEF Pending
  <2>3. KernelShape
    BY <2>1 DEF KernelShape
  <2>4. IocpShape /\ IocpCounts
    BY <1>1, <2>2, ConstantsAre DEF IocpInit, NotReading, IocpShape, IocpCounts, DriverInit, Reads
  <2>5. RingInv
    BY <1>1, <2>1, ConstantsAre DEF RingInit, NoRing, RingInv, DriverInit, Reads
  <2> QED
    BY <2>3, <2>4, <2>5 DEF KernelInv
<1>6. MemPageInv
  <2>1. S!Init /\ mempage = NoRead
    BY <1>1, SameSet DEF MemPageInit
  <2>2. S!SetInv
    BY <2>1, SetAssumptions, S!SetInit
  <2>3. /\ claims = {} /\ requests = {} /\ late = {} /\ call["main"].pc = "idle"
        /\ mempage.pc = "out" /\ \A r \in S!Records : ~S!InUse(r)
    BY <2>1 DEF S!Init, S!Idle, NoRead, S!InUse, S!FreeRecord
  <2>4. mempage \in [pc : {"out", "submitting", "waiting", "clearing"}, part : Pieces, ok : BOOLEAN]
    <3>1. 1 \in Pieces
      BY ConstantsAre DEF Pieces
    <3> QED
      BY <2>1, <3>1 DEF NoRead
  <2>5. MemPageShape
    BY <1>1, <2>2, <2>3, <2>4 DEF MemPageShape, DriverInit, Reads
  <2> QED
    BY <2>3, <2>5 DEF MemPageInv, MemPagePieces, MemPageSubmits, MemPageWaits, MemPageClears
<1> QED
  BY <1>2, <1>3, <1>4, <1>5, <1>6 DEF ShootoutInv

\* Main and the slots as they were.
LEMMA StandStill ==
  ASSUME DriverInv, RowsStay, UNCHANGED driverVars, UNCHANGED contents
  PROVE  DriverInv' /\ RowsStay'
BY DEF driverVars, DriverInv, RowsStay, Served

LEMMA MainAloneKeeps ==
  ASSUME ShootoutInv, MainAlone
  PROVE  ShootoutInv'
<1>1. /\ DriverInv /\ RowsStay /\ PoolInv /\ KernelInv /\ MemPageInv
      /\ UNCHANGED poolVars /\ UNCHANGED <<kernelVars, iocp, ring>> /\ UNCHANGED mempageVars
  BY DEF ShootoutInv, MainAlone
<1>2. DriverInv' /\ RowsStay'
  <2>1. CASE UNCHANGED contents /\ (Skip \/ CannotEvict \/ Open("inline") \/ Sample
                                    \/ CloseAtOnce("inline") \/ Verify \/ Over)
    BY <1>1, <2>1, DriverKeepsRows DEF ArmNames
  <2>2. CASE \E whole \in BOOLEAN : InlineRead(whole)
    BY <1>1, <2>2, InlineKeepsRows
  <2> QED
    BY <2>1, <2>2 DEF MainAlone
<1>3. /\ phase \notin {"reading", "closing"} /\ phase' \notin {"reading", "closing"}
      /\ phase = "exited" => UNCHANGED driverVars
      /\ \/ phase \in {"opening", "verifying", "done"} \/ arm # "pool"
         \/ UNCHANGED driverVars
         \/ arm' = "pool" /\ phase' = "ready"
  BY DEF MainAlone, Skip, NextRound, CannotEvict, Open, Sample, CloseAtOnce, Verify, Over,
         InlineRead, driverVars
<1>4. PoolInv'
  <2>1. \/ \A w \in Readers : worker[w].pc = "gone"
        \/ (arm' = "pool" /\ phase' \in {"ready", "reading", "got", "closing", "exited"})
    <3>1. CASE UNCHANGED driverVars
      BY <1>1, <3>1 DEF PoolInv, PoolCalled, driverVars
    <3> QED
      BY <1>1, <1>3, <3>1, PoolGone
  <2> QED
    BY <1>1, <1>3, <2>1, PoolFrame DEF Reads
<1>5. KernelInv'
  BY <1>1, <1>3, KernelFrame DEF Reads
<1>6. MemPageInv'
  BY <1>1, <1>2, <1>3, MemPageFrame DEF Reads, DriverInv
<1> QED
  BY <1>2, <1>4, <1>5, <1>6 DEF ShootoutInv

LEMMA PoolKeeps ==
  ASSUME ShootoutInv, InPool, \/ PoolCaller \/ SpuriousWake \/ \E w \in Readers : Worker(w)
  PROVE  ShootoutInv'
<1>1. /\ DriverInv /\ RowsStay /\ PoolInv /\ KernelInv /\ MemPageInv
      /\ UNCHANGED <<kernelVars, iocp, ring>> /\ UNCHANGED mempageVars
  BY DEF ShootoutInv, InPool
<1>2. /\ \/ arm = "pool" /\ arm' = "pool"
         \/ phase = "opening" /\ phase' = "ready"
      /\ phase = "exited" => UNCHANGED driverVars
      /\ DriverInv' /\ RowsStay' /\ PoolInv'
  <2>1. CASE PoolOpen
    <3>1. DriverInv' /\ RowsStay'
      BY <1>1, <2>1, DriverKeepsRows DEF PoolOpen, ArmNames
    <3> QED
      BY <1>1, <2>1, <3>1, PoolOpenKeeps DEF PoolOpen, Open
  <2>2. CASE PoolRun
    <3>1. DriverInv' /\ RowsStay'
      BY <1>1, <2>2, DriverKeepsRows DEF PoolRun, ArmNames
    <3> QED
      BY <1>1, <2>2, <3>1, PoolRunKeeps DEF PoolRun, Ask
  <2>3. CASE PoolReturn
    <3>1. Reads("pool")
      BY <1>1, <2>3 DEF PoolReturn, PoolInv, PoolCalled
    <3>2. arm' = arm
      BY <2>3 DEF PoolReturn, Return, driverVars
    <3> QED
      BY <1>1, <2>3, <3>1, <3>2, PoolReturnKeeps DEF Reads
  <2>4. CASE PoolStop
    <3>1. DriverInv' /\ RowsStay'
      BY <1>1, <2>4, DriverKeepsRows DEF PoolStop
    <3> QED
      BY <1>1, <2>4, <3>1, PoolStopKeeps DEF PoolStop, Close
  <2>5. CASE PoolNotify
    <3>1. DriverInv' /\ RowsStay' /\ UNCHANGED driverVars
      BY <1>1, <2>5, StandStill DEF PoolNotify
    <3>2. arm = "pool" /\ arm' = arm
      BY <1>1, <2>5, <3>1 DEF PoolNotify, PoolInv, PoolCalled, DriverInv, driverVars
    <3> QED
      BY <1>1, <2>5, <3>1, <3>2, PoolNotifyKeeps
  <2>6. CASE PoolJoin
    <3>1. DriverInv' /\ RowsStay'
      BY <1>1, <2>6, DriverKeepsRows DEF PoolJoin
    <3>2. arm = "pool" /\ arm' = arm /\ phase = "closing"
      BY <1>1, <2>6 DEF PoolJoin, Closed, DriverInv
    <3> QED
      BY <1>1, <2>6, <3>1, <3>2, PoolJoinKeeps
  <2>7. CASE SpuriousWake
    <3>1. DriverInv' /\ RowsStay' /\ UNCHANGED driverVars
      BY <1>1, <2>7, StandStill DEF SpuriousWake
    <3>2. arm = "pool" /\ arm' = arm
      BY <1>1, <2>7, <3>1 DEF SpuriousWake, PoolInv, PoolCalled, Reads, driverVars
    <3> QED
      BY <1>1, <2>7, <3>1, <3>2, PoolSpuriousKeeps
  <2>8. ASSUME NEW w \in Readers, Worker(w)
        PROVE  /\ arm = "pool" /\ arm' = "pool"
               /\ phase = "exited" => UNCHANGED driverVars
               /\ DriverInv' /\ RowsStay' /\ PoolInv'
    <3>1. worker[w].pc # "gone" /\ UNCHANGED driverVars
      BY <2>8 DEF Worker, WorkerLoop, WorkerRead
    <3>2. arm = "pool" /\ arm' = arm
      BY <1>1, <3>1 DEF PoolInv, PoolCalled, driverVars
    <3> QED
      BY <1>1, <2>8, <3>1, <3>2, WorkerLoopKeeps, WorkerReadKeeps DEF Worker
  <2> QED
    BY <2>1, <2>2, <2>3, <2>4, <2>5, <2>6, <2>7, <2>8 DEF PoolCaller
<1>3. StepOf("pool")
  BY <1>2 DEF StepOf
<1>4. KernelInv' /\ MemPageInv'
  BY <1>1, <1>2, <1>3, KernelAside, MemPageAside
<1> QED
  BY <1>2, <1>4 DEF ShootoutInv

LEMMA IocpKeeps ==
  ASSUME ShootoutInv, IocpCaller, InKernel, UNCHANGED ring
  PROVE  ShootoutInv'
<1>1. /\ DriverInv /\ RowsStay /\ PoolInv /\ KernelInv /\ MemPageInv
      /\ UNCHANGED poolVars /\ UNCHANGED mempageVars
  BY DEF ShootoutInv, InKernel
<1>2. CASE IocpOpen \/ IocpAsk \/ IocpClose
  <2>1. DriverInv' /\ RowsStay' /\ StepOf("iocp") /\ (phase = "exited" => UNCHANGED driverVars)
    BY <1>1, <1>2, DriverKeepsRows
    DEF IocpOpen, IocpAsk, IocpClose, ArmNames, StepOf, Open, Ask, CloseAtOnce
  <2>2. ASSUME IocpOpen \/ IocpClose PROVE KernelInv'
    <3>1. ~Reads("iocp") /\ ~Reads("ioring") /\ ~Reads("iocp")' /\ ~Reads("ioring")'
      BY <2>2 DEF IocpOpen, IocpClose, Open, CloseAtOnce, Reads
    <3> QED
      BY <1>1, <2>1, <2>2, <3>1, KernelFrame DEF IocpOpen, IocpClose
  <2>3. KernelInv'
    BY <1>1, <1>2, <2>2, IocpAskKeeps
  <2> QED
    BY <1>1, <2>1, <2>3, PoolAside, MemPageAside DEF ShootoutInv
<1>3. CASE \/ Issue \/ IssueRefused \/ DequeueFails \/ IocpReturn
           \/ \E c \in port : Dequeue(c)
  <2>1. DriverInv' /\ RowsStay' /\ KernelInv'
    BY <1>1, <1>3, IssueKeeps, IssueRefusedKeeps, DequeueFailsKeeps, IocpReturnKeeps,
       DequeueKeeps, StandStill
  <2>2. Reads("iocp")
    BY <1>1, <1>3 DEF KernelInv, IocpShape, Issue, IssueRefused, DequeueFails, IocpReturn, Dequeue
  <2>3. arm' = arm
    BY <1>3 DEF Issue, IssueRefused, DequeueFails, IocpReturn, Return, Dequeue, driverVars
  <2>4. StepOf("iocp")
    BY <2>2, <2>3 DEF StepOf, Reads
  <2> QED
    BY <1>1, <2>1, <2>4, PoolAside, MemPageAside DEF ShootoutInv
<1> QED
  BY <1>2, <1>3 DEF IocpCaller

LEMMA RingKeeps ==
  ASSUME ShootoutInv, RingCaller, InKernel, UNCHANGED iocp
  PROVE  ShootoutInv'
<1>1. /\ DriverInv /\ RowsStay /\ PoolInv /\ KernelInv /\ MemPageInv
      /\ UNCHANGED poolVars /\ UNCHANGED mempageVars
  BY DEF ShootoutInv, InKernel
<1>2. CASE RingOpen \/ RingAsk \/ RingClose
  <2>1. DriverInv' /\ RowsStay' /\ StepOf("ioring") /\ (phase = "exited" => UNCHANGED driverVars)
    BY <1>1, <1>2, DriverKeepsRows
    DEF RingOpen, RingAsk, RingClose, ArmNames, StepOf, Open, Ask, CloseAtOnce
  <2>2. ASSUME RingOpen \/ RingClose PROVE KernelInv'
    <3>1. ~Reads("iocp") /\ ~Reads("ioring") /\ ~Reads("iocp")' /\ ~Reads("ioring")'
      BY <2>2 DEF RingOpen, RingClose, Open, CloseAtOnce, Reads
    <3> QED
      BY <1>1, <2>1, <2>2, <3>1, KernelFrame DEF RingOpen, RingClose
  <2>3. KernelInv'
    BY <1>1, <1>2, <2>2, RingAskKeeps
  <2> QED
    BY <1>1, <2>1, <2>3, PoolAside, MemPageAside DEF ShootoutInv
<1>3. CASE \/ RingSubmit \/ RingRefused \/ RingWaited \/ RingReturn
           \/ \E c \in port : Pop(c)
  <2>1. DriverInv' /\ RowsStay' /\ KernelInv'
    BY <1>1, <1>3, RingSubmitKeeps, RingRefusedKeeps, RingWaitedKeeps, RingReturnKeeps,
       PopKeeps, StandStill
  <2>2. Reads("ioring")
    BY <1>1, <1>3 DEF KernelInv, RingInv, RingSubmit, RingRefused, RingWaited, RingReturn, Pop
  <2>3. arm' = arm
    BY <1>3 DEF RingSubmit, RingRefused, RingWaited, RingReturn, Return, Pop, driverVars
  <2>4. StepOf("ioring")
    BY <2>2, <2>3 DEF StepOf, Reads
  <2> QED
    BY <1>1, <2>1, <2>4, PoolAside, MemPageAside DEF ShootoutInv
<1> QED
  BY <1>2, <1>3 DEF RingCaller

LEMMA KernelKeeps ==
  ASSUME ShootoutInv, Kernel
  PROVE  ShootoutInv'
<1>1. /\ DriverInv /\ RowsStay /\ PoolInv /\ KernelInv /\ MemPageInv
      /\ UNCHANGED poolVars /\ UNCHANGED mempageVars /\ UNCHANGED <<iocp, ring>>
  BY DEF ShootoutInv, Kernel, InKernel
<1>2. PICK q \in kernel, whole \in BOOLEAN : KernelFinish(q, whole)
  BY DEF Kernel, KernelStep
<1>3. DriverInv' /\ RowsStay' /\ KernelInv'
  BY <1>1, <1>2, KernelFinishKeeps
<1>4. UNCHANGED <<arm, miss, phase>>
  BY <1>2 DEF KernelFinish, driverVars
<1>5. Reads("iocp") \/ Reads("ioring") \/ phase = "exited"
  BY <1>1, <1>2 DEF KernelInv, KernelShape
<1>6. phase # "closing" /\ ~Reads("pool") /\ ~Reads("mempage")
  BY <1>5 DEF Reads
<1>7. PoolInv'
  <2>1. \/ \A w \in Readers : worker[w].pc = "gone"
        \/ arm' = "pool" /\ phase' \in {"ready", "reading", "got", "closing", "exited"}
    BY <1>1, <1>4 DEF PoolInv, PoolCalled
  <2>2. ~Reads("pool")' /\ phase' # "closing"
    BY <1>4, <1>6 DEF Reads
  <2> QED
    BY <1>1, <1>6, <2>1, <2>2, PoolFrame
<1>8. MemPageInv'
  BY <1>1, <1>3, <1>4, <1>6, MemPageFrame DEF Reads, DriverInv
<1> QED
  BY <1>3, <1>7, <1>8 DEF ShootoutInv

LEMMA MemPageKeeps ==
  ASSUME ShootoutInv, InMemPage, MemPageCaller \/ Backend \/ MemPageSpurious
  PROVE  ShootoutInv'
<1>1. /\ DriverInv /\ RowsStay /\ PoolInv /\ KernelInv /\ MemPageInv
      /\ UNCHANGED poolVars /\ UNCHANGED <<kernelVars, iocp, ring>>
  BY DEF ShootoutInv, InMemPage
<1>2. CASE MemPageOpen \/ MemPageAsk \/ MemPageClose
  <2>1. UNCHANGED contents
    BY <1>2 DEF MemPageOpen, MemPageAsk, MemPageClose
  <2>2. Open("mempage") \/ Ask("mempage") \/ CloseAtOnce("mempage")
    BY <1>2 DEF MemPageOpen, MemPageAsk, MemPageClose
  <2>3. DriverInv' /\ RowsStay'
    BY <1>1, <2>1, <2>2, DriverKeepsRows DEF ArmNames
  <2>4. StepOf("mempage") /\ (phase = "exited" => UNCHANGED driverVars)
    BY <2>2 DEF StepOf, Open, Ask, CloseAtOnce
  <2>5. ASSUME MemPageOpen PROVE MemPageInv'
    <3>1. ~Reads("mempage") /\ ~Reads("mempage")'
      BY <2>5 DEF MemPageOpen, Open, Reads
    <3>2. UNCHANGED mempageVars
      BY <2>5 DEF MemPageOpen, mempageVars
    <3> QED
      BY <1>1, <2>3, <3>1, <3>2, MemPageFrame DEF DriverInv
  <2>6. MemPageInv'
    BY <1>1, <1>2, <2>5, MemPageAskKeeps, MemPageCloseKeeps
  <2> QED
    BY <1>1, <2>3, <2>4, <2>6, PoolAside, KernelAside DEF ShootoutInv
<1>3. CASE \/ SubmitPiece \/ ClaimPiece \/ WaitPiece \/ WakeUp \/ ClearClaim \/ MemPageReturn
           \/ Backend \/ MemPageSpurious
  <2>1. DriverInv' /\ RowsStay' /\ MemPageInv'
    BY <1>1, <1>3, SubmitPieceKeeps, ClaimPieceKeeps, WaitPieceKeeps, WakeUpKeeps,
       ClearClaimKeeps, MemPageReturnKeeps, BackendKeeps, StandStill
  <2>2. Reads("mempage")
    <3>1. CASE SubmitPiece \/ WaitPiece \/ ClearClaim \/ MemPageReturn
      BY <1>1, <3>1 DEF MemPageInv, MemPageShape, SubmitPiece, WaitPiece, ClearClaim, MemPageReturn
    <3>2. CASE ClaimPiece \/ WakeUp \/ MemPageSpurious
      <4>1. call["main"].pc # "idle"
        BY <3>2 DEF ClaimPiece, WakeUp, MemPageSpurious, T!RecordClaim, T!Wake, T!SpuriousWake
      <4> QED
        BY <1>1, <4>1 DEF MemPageInv, MemPageShape
    <3>3. CASE Backend
      <4>1. requests # {}
        BY <3>3 DEF Backend
      <4> QED
        BY <1>1, <4>1 DEF MemPageInv, MemPageShape
    <3> QED
      BY <1>3, <3>1, <3>2, <3>3
  <2>3. arm' = arm
    BY <1>3 DEF SubmitPiece, ClaimPiece, WaitPiece, WakeUp, ClearClaim, MemPageReturn, Backend,
                MemPageSpurious, Return, driverVars
  <2>4. StepOf("mempage") /\ phase # "exited"
    BY <2>2, <2>3 DEF StepOf, Reads
  <2> QED
    BY <1>1, <2>1, <2>4, PoolAside, KernelAside DEF ShootoutInv
<1> QED
  BY <1>2, <1>3 DEF MemPageCaller

\* A step that changes nothing.
LEMMA NothingMoves ==
  ASSUME ShootoutInv, UNCHANGED vars
  PROVE  ShootoutInv'
<1>1. /\ DriverInv /\ RowsStay /\ PoolInv /\ KernelInv /\ MemPageInv
      /\ UNCHANGED driverVars /\ UNCHANGED contents /\ UNCHANGED poolVars
      /\ UNCHANGED <<kernelVars, iocp, ring>> /\ UNCHANGED mempageVars
  BY DEF ShootoutInv, vars
<1>2. UNCHANGED <<arm, miss, phase>>
  BY <1>1 DEF driverVars
<1>3. DriverInv' /\ RowsStay'
  BY <1>1, StandStill
<1>4. PoolInv'
  BY <1>1, <1>2 DEF PoolInv, PoolShape, PoolCalled, PoolCounts, PoolRow, PoolNothingLeft, Reading,
                    Task, Reads, There, poolVars
<1>5. KernelInv'
  BY <1>1, <1>2 DEF KernelInv, KernelShape, KernelRow, IocpShape, IocpCounts, RingInv, Pending,
                    Task, Reads, There, kernelVars
<1>6. MemPageInv'
  <2>1. UNCHANGED <<records, free, live, liveAt, held, inFlight, mutex, call, claims, requests,
                    late, mempage>>
    BY <1>1 DEF mempageVars, setVars
  <2>2. S!SetInv'
    <3>1. S!SetInv /\ UNCHANGED S!vars => S!SetInv'
      BY SetAssumptions, S!SetNext
    <3> QED
      BY <1>1, <2>1, <3>1 DEF S!vars, S!setVars, MemPageInv, MemPageShape
  <2>3. MemPageShape' /\ MemPagePieces'
    BY <1>1, <1>2, <2>1, <2>2 DEF MemPageInv, MemPageShape, MemPagePieces, IsPiece, Reads, S!InUse
  <2>4. MemPageSubmits' /\ MemPageWaits' /\ MemPageClears'
    BY <1>1, <1>2, <2>1 DEF MemPageInv, MemPageSubmits, MemPageWaits, MemPageClears, IsPiece,
                            RowThere, There
  <2> QED
    BY <2>3, <2>4 DEF MemPageInv
<1> QED
  BY <1>3, <1>4, <1>5, <1>6 DEF ShootoutInv

LEMMA ShootoutNext == ShootoutInv /\ [Next]_vars => ShootoutInv'
<1> SUFFICES ASSUME ShootoutInv, [Next]_vars PROVE ShootoutInv'
  OBVIOUS
<1>1. CASE Main
  BY <1>1, MainAloneKeeps, PoolKeeps, IocpKeeps, RingKeeps, MemPageKeeps DEF Main
<1>2. CASE \E w \in Readers : Workers(w)
  BY <1>2, PoolKeeps DEF Workers
<1>3. CASE Kernel
  BY <1>3, KernelKeeps
<1>4. CASE Answer
  BY <1>4, MemPageKeeps DEF Answer
<1>5. CASE SpuriousWake /\ InPool
  BY <1>5, PoolKeeps
<1>6. CASE MemPageSpurious /\ InMemPage
  BY <1>6, MemPageKeeps
<1>7. CASE UNCHANGED vars
  BY <1>7, NothingMoves
<1> QED
  BY <1>1, <1>2, <1>3, <1>4, <1>5, <1>6, <1>7 DEF Next

LEMMA ShootoutIsSound == Spec => []ShootoutInv
BY ShootoutInit, ShootoutNext, PTL DEF Spec

-----------------------------------------------------------------------------
(***************************************************************************)
(* What the invariant gives.                                               *)
(***************************************************************************)

\* A row main was handed stays what the file holds, whichever strategy read it and
\* whoever is still at work, until the ring of slots comes round to its slot again.
THEOREM RowsAreKept == Spec => []RowsStay
<1>1. ShootoutInv => RowsStay
  BY DEF ShootoutInv
<1> QED
  BY <1>1, ShootoutIsSound, PTL

\* Outside a read and a close nobody writes into the slots: every strategy's return waits
\* for all it had accepted, short of one read lost per failed dequeue, and then main has
\* exited.
THEOREM ReadsAreQuiet == Spec => []QuietBetweenReads
<1>1. ASSUME ShootoutInv PROVE QuietBetweenReads
  <2> SUFFICES ASSUME phase \notin {"reading", "closing"}
               PROVE  /\ PoolReads = {} /\ requests = {}
                      /\ Cardinality(kernel) + Cardinality(port) <= iocp.lost
                      /\ iocp.lost > 0 => phase = "exited"
    BY DEF QuietBetweenReads
  <2>1. PoolReads = {}
    BY <1>1 DEF ShootoutInv, PoolInv, PoolCounts, Reading, Reads, PoolReads
  <2>2. requests = {}
    BY <1>1 DEF ShootoutInv, MemPageInv, MemPageShape, Reads
  <2>3. KernelInv /\ ~Reads("iocp")
    BY <1>1 DEF ShootoutInv, Reads
  <2>4. iocp.lost > 0 => phase = "exited"
    BY <2>3 DEF KernelInv, IocpCounts
  <2>5. CASE phase = "exited"
    BY <2>2, <2>1, <2>3, <2>5 DEF KernelInv, IocpCounts, Pending
  <2>6. CASE phase # "exited"
    BY <2>1, <2>2, <2>3, <2>6, KernelAtRest DEF Pending
  <2> QED
    BY <2>1, <2>2, <2>4, <2>5, <2>6
<1> QED
  BY <1>1, ShootoutIsSound, PTL

\* The next piece of the row is admitted: its slot's bytes are no live claim's, and a
\* record is left for it.
LEMMA PieceAdmitted ==
  ASSUME ShootoutInv, mempage.pc = "submitting", call["main"].pc = "idle"
  PROVE  T!submit_status(Unit(miss, mempage.part), Destination(miss, mempage.part)) = "ok"
<1>1. DriverInv /\ MemPageInv
  BY DEF ShootoutInv
<1>2. S!SetInv /\ miss \in Nat /\ miss < Misses
  BY <1>1 DEF MemPageInv, MemPageShape, Reads, DriverInv
<1>3. PICK part \in Pieces : part = mempage.part
  BY <1>1 DEF MemPageInv, MemPageShape
<1>4. PICK d \in Nat, o \in Nat :
        /\ d = Destination(miss, part) /\ d < KSlots * NumPieces
        /\ o = Source(miss, part) /\ o \in 0 .. Misses * NumPieces - 1
  BY <1>2, PlacesOfPieces
<1>5. PICK w \in Nat, x \in Nat, y \in Nat :
        /\ w = 2 * Misses * KSlots * NumPieces /\ x = KSlots * NumPieces /\ y = Misses * NumPieces
        /\ x < w /\ y < w
  BY WordsLarge DEF SetWords
<1>6. PICK u : u = Unit(miss, part)
  OBVIOUS
<1>7. u.offset = o /\ u.length = 1
  BY <1>4, <1>6 DEF Unit
<1>8. d < x /\ o < y
  BY <1>4, <1>5
<1>9. S!checked_end(d, 1) = d + 1 /\ S!checked_end(o, 1) = o + 1
  <2>1. ~(1 > w - 1 - d) /\ ~(1 > w - 1 - o)
    BY <1>5, <1>8
  <2> QED
    BY <1>5, <2>1 DEF S!checked_end
<1>10. S!validate_range(u, y) = "ok"
  <2>1. o + 1 # -1 /\ o + 1 <= y
    BY <1>8
  <2> QED
    BY <1>7, <1>9, <2>1 DEF S!validate_range, S!NoEnd
<1>11. d + 1 # S!NoEnd /\ ~(d + 1 > x)
  BY <1>8 DEF S!NoEnd
<1>12. part \in Nat /\ part <= NumPieces /\ NumPieces \in Nat
  BY ConstantsAre DEF Pieces
<1>13. /\ Len(live) = part - 1
       /\ \A c \in claims : \E p \in 1 .. part - 1 : IsPiece(c, p)
       /\ \A r \in S!Records : S!InUse(r) => records[r].held
  BY <1>1, <1>3 DEF MemPageInv, MemPageSubmits, MemPagePieces
<1>14. ASSUME NEW i \in DOMAIN live, S!Overlaps(records[live[i]], d, d + 1)
       PROVE  FALSE
  <2>1. PICK r : r = live[i]
    OBVIOUS
  <2>2. r \in S!Records /\ S!InUse(r)
    <3>1. live \in Seq(S!Records)
      BY <1>2 DEF S!SetInv, S!TypeOK
    <3> QED
      BY <1>2, <2>1, <3>1 DEF S!SetInv, S!ListInv
  <2>3. PICK c \in claims : c.record = r
    BY <1>2, <1>13, <2>2 DEF S!SetInv, S!ClaimInv
  <2>4. PICK p \in 1 .. part - 1 : IsPiece(c, p)
    BY <1>13
  <2>5. p \in Pieces /\ p # part
    BY <1>12 DEF Pieces
  <2>6. PICK e \in Nat : e = Destination(miss, p)
    BY <1>2, <2>5, PlacesOfPieces
  <2>7. records[r].destination = e /\ records[r].length = 1
    BY <1>2, <2>3, <2>4, <2>6, ClaimFacts DEF IsPiece
  <2>8. d < e + 1 /\ e < d + 1
    BY <1>14, <2>1, <2>7 DEF S!Overlaps
  <2>9. d = e
    BY <2>8
  <2>10. Destination(miss, part) = Destination(miss, p)
    BY <1>4, <2>6, <2>9
  <2>11. part = p
    BY <1>2, <2>5, <2>10, DestinationsApart
  <2> QED
    BY <2>5, <2>11
<1>15. free # <<>>
  <2>1. Len(free) + Len(live) = NumPieces /\ Len(free) \in Nat /\ Len(live) \in Nat
    <3>1. free \in Seq(S!Records) /\ live \in Seq(S!Records)
      BY <1>2 DEF S!SetInv, S!TypeOK
    <3>2. Len(free) + Len(live) = max_claims
      BY <1>2 DEF S!SetInv, S!ListInv
    <3> QED
      BY <3>1, <3>2 DEF max_claims
  <2>2. Len(free) # 0
    BY <1>12, <1>13, <2>1
  <2> QED
    BY <2>2
<1>16. S!submit_status(u, d) = "ok"
  BY <1>5, <1>7, <1>9, <1>10, <1>11, <1>14, <1>15, Zenon DEF S!submit_status
<1> QED
  BY <1>3, <1>4, <1>6, <1>16, SameSet

\* submit refuses MemPageRead no piece of a row, because as many claims and backend requests
\* as a row has pieces were set aside and the pieces' bytes are apart; and the set that
\* close destroys holds nothing.
THEOREM ReadsAreNotRefused == Spec => []NeverRefused
<1>1. ASSUME ShootoutInv PROVE NeverRefused
  <2>1. ASSUME mempage.pc = "submitting", call["main"].pc = "idle"
        PROVE  Cardinality(requests) < max_claims
    <3>1. PICK part \in Nat : part = mempage.part /\ part <= NumPieces /\ NumPieces \in Nat
      BY <1>1, ConstantsAre DEF ShootoutInv, MemPageInv, MemPageShape, Pieces
    <3>2. IsFiniteSet(requests) /\ Cardinality(requests) < part
      BY <1>1, <2>1, <3>1 DEF ShootoutInv, MemPageInv, MemPageSubmits
    <3>3. PICK n \in Nat : n = Cardinality(requests)
      BY <3>2, FS_CardinalityType
    <3> QED
      BY <3>1, <3>2, <3>3 DEF max_claims
  <2>2. ASSUME arm = "mempage", phase = "ready"
        PROVE  held = 0 /\ inFlight = 0 /\ live = <<>>
    <3>1. S!SetInv /\ claims = {} /\ requests = {} /\ call["main"].pc = "idle"
      BY <1>1, <2>2 DEF ShootoutInv, MemPageInv, MemPageShape, Reads
    <3> QED
      BY <3>1, SetAtRest
  <2> QED
    BY <1>1, <2>1, <2>2, PieceAdmitted DEF NeverRefused
<1> QED
  BY <1>1, ShootoutIsSound, PTL

=============================================================================
