-------------------------- MODULE ChunkIndexProofs --------------------------
(***************************************************************************)
(* The chunk index implements the map it stands for, for every number of   *)
(* slots, every table at least twice as large and every hash.              *)
(***************************************************************************)
EXTENDS ChunkIndex, FiniteSetTheorems, WellFoundedInduction, TLAPS

-----------------------------------------------------------------------------
(***************************************************************************)
(* The inductive invariant.                                                *)
(***************************************************************************)
IndexShape ==
  /\ home \in [Chunks -> Places]
  /\ table \in [Places -> Slots \union {None}]
  /\ chunkOf \in [Slots -> Chunks \union {None}]
  /\ phase \in {"idle", "shift"} /\ hole \in Places /\ pos \in Places

\* How far the probe goes from a to reach b.
Away(a, b) == (b - a) % Size

ChunkAt(p) == chunkOf[table[p]]
HomeOf(p) == home[chunkOf[table[p]]]

\* A chunk is entered at one place.
EnteredOnce ==
  /\ \A p \in Entries : ChunkAt(p) \in Chunks
  /\ \A p, q \in Entries : ChunkAt(p) = ChunkAt(q) => p = q

\* The probe of a chunk meets no empty place before it meets the chunk.
Reachable ==
  \A p \in Entries : \A q \in Places :
    Away(HomeOf(p), q) < Away(HomeOf(p), p) => table[q] # None

Vacant == \E q \in Places : table[q] = None

\* Inside an erase nothing from the hole to pos is empty, and the chunks whose probes
\* pass the hole are those not yet looked at.
ShiftBehind ==
  phase = "shift" =>
    /\ pos # hole /\ Vacant
    /\ \A q \in Places : Away(hole, q) < Away(hole, pos) => table[q] # None
    /\ \A p \in Entries : Away(HomeOf(p), hole) < Away(HomeOf(p), p) =>
                            Away(hole, pos) <= Away(hole, p)

IndexInv == IndexShape /\ EnteredOnce /\ Reachable /\ ShiftBehind

-----------------------------------------------------------------------------
(***************************************************************************)
(* Least numbers, distances round the table, and an empty place.           *)
(***************************************************************************)
LEMMA LeastNumber ==
  ASSUME NEW T, T \subseteq Nat, T # {}
  PROVE  \E k \in T : \A j \in 0 .. k - 1 : j \notin T
<1> DEFINE Less == {ss \in Nat \X Nat : ss[1] < ss[2]}
<1>1. IsWellFoundedOn(Less, Nat)
  BY NatLessThanWellFounded DEF OpToRel
<1>2. \A x \in Nat, y \in Nat : <<x, y>> \in Less <=> x < y
  OBVIOUS
<1> HIDE DEF Less
<1>3. PICK k \in T : \A j \in T : ~ (<<j, k>> \in Less)
  BY <1>1, WFMin
<1>4. k \in Nat
  BY <1>3
<1>5. ASSUME NEW j \in 0 .. k - 1, j \in T PROVE FALSE
  <2>1. j \in Nat /\ j < k
    BY <1>4
  <2>2. <<j, k>> \in Less
    BY <1>2, <1>4, <2>1
  <2> QED
    BY <1>3, <1>5, <2>2, Zenon
<1> QED
  BY <1>3, <1>5

\* Going round m times more is going nowhere.
LEMMA WholeTurns ==
  ASSUME NEW n \in Nat \ {0}, NEW s \in 0 .. n - 1, NEW m \in Int, NEW x \in Int,
         x = m * n + s
  PROVE  x % n = s
<1>1. PICK d \in Int, r \in Int : d = x \div n /\ r = x % n
  OBVIOUS
<1>2. x = n * d + r /\ 0 <= r /\ r < n
  BY <1>1
<1>3. PICK e \in Int : e = d - m
  OBVIOUS
<1>4. n * e = s - r
  BY <1>2, <1>3
<1>5. (e >= 1 => n * e >= n) /\ (e <= -1 => n * e <= -n)
  OBVIOUS
<1>6. e = 0
  BY <1>2, <1>4, <1>5
<1> QED
  BY <1>1, <1>4, <1>6

LEMMA SizePositive == Size \in Nat \ {0}
BY IndexAssumption

\* A remainder less than one turn off.
LEMMA OneTurn ==
  ASSUME NEW x \in Int
  PROVE  /\ 0 <= x /\ x < Size => x % Size = x
         /\ -Size <= x /\ x < 0 => x % Size = x + Size
         /\ Size <= x /\ x < 2 * Size => x % Size = x - Size
<1>1. Size \in Nat \ {0}
  BY SizePositive
<1>2. ASSUME NEW m \in Int, NEW s \in Int, s \in 0 .. Size - 1, x = m * Size + s
      PROVE  x % Size = s
  BY <1>1, <1>2, WholeTurns
<1>3. PICK z \in Int, one \in Int, less \in Int : z = 0 /\ one = 1 /\ less = -1
  OBVIOUS
<1>4. PICK up \in Int, down \in Int : up = x + Size /\ down = x - Size
  BY <1>1
<1>5. x = z * Size + x /\ x = one * Size + down /\ x = less * Size + up
  BY <1>1, <1>3, <1>4
<1>6. ASSUME 0 <= x, x < Size PROVE x % Size = x
  BY <1>1, <1>2, <1>5, <1>6
<1>7. ASSUME -Size <= x, x < 0 PROVE x % Size = x + Size
  <2>1. up \in 0 .. Size - 1
    BY <1>1, <1>4, <1>7
  <2>2. x % Size = up
    BY <1>2, <1>5, <2>1
  <2> QED
    BY <1>4, <2>2
<1>8. ASSUME Size <= x, x < 2 * Size PROVE x % Size = x - Size
  <2>1. down \in 0 .. Size - 1
    BY <1>1, <1>4, <1>8
  <2>2. x % Size = down
    BY <1>2, <1>5, <2>1
  <2> QED
    BY <1>4, <2>2
<1> QED
  BY <1>6, <1>7, <1>8

LEMMA AwayIs ==
  ASSUME NEW a \in Places, NEW b \in Places
  PROVE  /\ Away(a, b) \in 0 .. Size - 1
         /\ a <= b => Away(a, b) = b - a
         /\ b < a => Away(a, b) = b - a + Size
<1>1. Size \in Nat \ {0} /\ a \in Int /\ b \in Int /\ 0 <= a /\ a < Size /\ 0 <= b /\ b < Size
  BY SizePositive DEF Places
<1>2. PICK x \in Int : x = b - a
  BY <1>1
<1>3. Away(a, b) = x % Size
  BY <1>2 DEF Away
<1> QED
  BY <1>1, <1>2, <1>3, OneTurn

LEMMA NextPlaceIs ==
  ASSUME NEW p \in Places
  PROVE  /\ NextPlace(p) \in Places
         /\ p + 1 < Size => NextPlace(p) = p + 1
         /\ p + 1 = Size => NextPlace(p) = 0
<1>1. Size \in Nat \ {0} /\ p \in Int /\ 0 <= p /\ p < Size
  BY SizePositive DEF Places
<1>2. PICK x \in Int : x = p + 1
  BY <1>1
<1>3. NextPlace(p) = x % Size
  BY <1>2 DEF NextPlace
<1> QED
  BY <1>1, <1>2, <1>3, OneTurn DEF Places

\* The probe of a chunk visits every place, each at its distance from home.
LEMMA ProbeIs ==
  ASSUME IndexShape, NEW c \in Chunks
  PROVE  /\ \A k \in Places : Probe(c, k) \in Places /\ Away(home[c], Probe(c, k)) = k
         /\ \A p \in Places : Probe(c, Away(home[c], p)) = p /\ Away(home[c], p) \in Places
<1>1. PICK h \in Places : h = home[c]
  BY DEF IndexShape
<1>2. Size \in Nat \ {0} /\ h \in Int /\ 0 <= h /\ h < Size
  BY SizePositive DEF Places
<1>3. ASSUME NEW k \in Places
      PROVE  /\ Probe(c, k) \in Places
             /\ h + k < Size => Probe(c, k) = h + k
             /\ Size <= h + k => Probe(c, k) = h + k - Size
  <2>1. k \in Int /\ 0 <= k /\ k < Size
    BY <1>2 DEF Places
  <2>2. PICK x \in Int : x = h + k
    BY <1>2, <2>1
  <2>3. Probe(c, k) = x % Size
    BY <1>1, <2>2 DEF Probe
  <2> QED
    BY <1>2, <2>1, <2>2, <2>3, OneTurn DEF Places
<1>4. ASSUME NEW k \in Places PROVE Away(h, Probe(c, k)) = k
  <2>1. k \in Int /\ 0 <= k /\ k < Size
    BY <1>2 DEF Places
  <2>2. PICK p \in Places : p = Probe(c, k)
    BY <1>3
  <2>3. p \in Int
    BY <1>2 DEF Places
  <2> QED
    BY <1>2, <1>3, <2>1, <2>2, <2>3, AwayIs
<1>5. ASSUME NEW p \in Places PROVE Away(h, p) \in Places /\ Probe(c, Away(h, p)) = p
  <2>1. PICK k \in Places : k = Away(h, p)
    BY AwayIs DEF Places
  <2>2. p \in Int /\ 0 <= p /\ p < Size /\ k \in Int
    BY <1>2 DEF Places
  <2> QED
    BY <1>2, <1>3, <2>1, <2>2, AwayIs
<1> QED
  BY <1>1, <1>3, <1>4, <1>5

LEMMA PlacesAreNumbers ==
  ASSUME NEW p \in Places
  PROVE  p \in Nat /\ p < Size /\ Size \in Nat \ {0}
BY SizePositive DEF Places

LEMMA AwayApart ==
  ASSUME NEW a \in Places, NEW p \in Places, NEW q \in Places, Away(a, p) = Away(a, q)
  PROVE  p = q
BY PlacesAreNumbers, AwayIs

LEMMA AwayFromSelf ==
  ASSUME NEW a \in Places, NEW b \in Places
  PROVE  Away(a, b) \in Nat /\ (Away(a, b) = 0 <=> a = b)
BY PlacesAreNumbers, AwayIs

\* A step on is one further away, until it is back.
LEMMA AwayNext ==
  ASSUME NEW a \in Places, NEW p \in Places, NextPlace(p) # a
  PROVE  Away(a, NextPlace(p)) = Away(a, p) + 1
<1>1. PICK q \in Places : q = NextPlace(p)
  BY NextPlaceIs
<1> QED
  BY <1>1, PlacesAreNumbers, AwayIs, NextPlaceIs

LEMMA AwayBack ==
  ASSUME NEW a \in Places, NEW p \in Places, NEW q \in Places, NextPlace(p) = a
  PROVE  Away(a, q) <= Away(a, p)
<1>1. PICK n \in Places : n = NextPlace(p)
  BY NextPlaceIs
<1> QED
  BY <1>1, PlacesAreNumbers, AwayIs, NextPlaceIs

\* The code's comparison says whether the hole is on the way from home to pos.
LEMMA OnTheWay ==
  ASSUME NEW h \in Places, NEW x \in Places, NEW p \in Places, x # p
  PROVE  Away(h, p) >= Away(x, p) <=> Away(h, x) < Away(h, p)
BY PlacesAreNumbers, AwayIs

\* A probe past x to a place beyond y passes y too.
LEMMA PassesBoth ==
  ASSUME NEW h \in Places, NEW x \in Places, NEW y \in Places, NEW p \in Places,
         Away(h, x) < Away(h, p), Away(x, y) <= Away(x, p), y # p
  PROVE  Away(h, y) < Away(h, p)
BY PlacesAreNumbers, AwayIs

-----------------------------------------------------------------------------
(***************************************************************************)
(* Between operations a place is empty, and a lookup finds what is entered.*)
(***************************************************************************)
LEMMA PlaceIsEmpty ==
  ASSUME IndexInv, phase = "idle"
  PROVE  Vacant
<1> SUFFICES ASSUME ~Vacant PROVE FALSE
  OBVIOUS
<1>1. Size \in Nat \ {0} /\ IsFiniteSet(Slots) /\ 2 * Cardinality(Slots) <= Size
  BY IndexAssumption
<1>2. Cardinality(Slots) \in Nat
  BY <1>1, FS_CardinalityType
<1>3. Cardinality(Slots) < Size
  BY <1>1, <1>2
<1>4. IsFiniteSet(Places) /\ Cardinality(Places) = Size
  <2>1. PICK z \in Int, m \in Int : z = 0 /\ m = Size - 1
    BY <1>1
  <2>2. IsFiniteSet(z .. m) /\ Cardinality(z .. m) = IF z > m THEN 0 ELSE m - z + 1
    BY FS_Interval
  <2> QED
    BY <1>1, <2>1, <2>2 DEF Places
<1>5. table \in [Places -> Slots]
  BY DEF IndexInv, IndexShape, Vacant
<1>6. PICK x \in Places, y \in Places : x # y /\ table[x] = table[y]
  BY <1>1, <1>3, <1>4, <1>5, FS_PigeonHole
<1>7. x \in Entries /\ y \in Entries
  BY DEF Entries, Vacant
<1> QED
  BY <1>6, <1>7 DEF IndexInv, EnteredOnce, ChunkAt

LEMMA EntriesAre ==
  ASSUME IndexInv, NEW p \in Entries
  PROVE  /\ p \in Places /\ table[p] \in Slots /\ table[p] # None
         /\ ChunkAt(p) \in Chunks /\ HomeOf(p) \in Places
BY DEF IndexInv, IndexShape, EnteredOnce, Entries, ChunkAt, HomeOf

LEMMA FindHolding ==
  ASSUME IndexInv, phase = "idle", NEW c \in Chunks, NEW p \in Holding(c)
  PROVE  FindPlace(c) = p
<1>1. p \in Entries /\ p \in Places /\ ChunkAt(p) = c /\ HomeOf(p) = home[c] /\ table[p] # None
      /\ home[c] \in Places
  BY EntriesAre DEF Holding, ChunkAt, HomeOf
<1>2. PICK k \in Places : k = Away(home[c], p) /\ Probe(c, k) = p
  BY <1>1, ProbeIs DEF IndexInv
<1>3. Stops(c, k)
  BY <1>1, <1>2 DEF Stops, ChunkAt
<1>4. ASSUME NEW j \in Places, j < k PROVE ~Stops(c, j)
  <2>1. PICK q \in Places : q = Probe(c, j) /\ Away(home[c], q) = j
    BY ProbeIs DEF IndexInv
  <2>2. table[q] # None
    BY <1>1, <1>2, <1>4, <2>1 DEF IndexInv, Reachable
  <2>3. q \in Entries
    BY <2>2 DEF Entries
  <2>4. q # p
    BY <1>2, <1>4, <2>1, PlacesAreNumbers
  <2>5. ChunkAt(q) # c
    BY <1>1, <2>3, <2>4 DEF IndexInv, EnteredOnce
  <2> QED
    BY <2>1, <2>2, <2>5 DEF Stops, ChunkAt
<1>5. k \in Nat /\ k < Size /\ Size \in Nat
  BY PlacesAreNumbers
<1>6. \A j \in 0 .. k - 1 : j \in Places /\ j < k
  BY <1>5 DEF Places
<1>7. \A j \in 0 .. k - 1 : ~Stops(c, j)
  BY <1>4, <1>6
<1> DEFINE Q(i) == Stops(c, i) /\ \A j \in 0 .. i - 1 : ~Stops(c, j)
<1>8. Q(k)
  BY <1>3, <1>7
<1>9. ASSUME NEW i \in Places, Q(i) PROVE i = k
  <2>1. i \in Nat
    BY PlacesAreNumbers
  <2>2. ~(i < k)
    BY <1>4, <1>9
  <2>3. ~(k < i)
    <3>1. k < i => k \in 0 .. i - 1
      BY <1>5, <2>1
    <3> QED
      BY <1>3, <1>9, <3>1
  <2> QED
    BY <1>5, <2>1, <2>2, <2>3
<1> HIDE DEF Q
<1>10. (CHOOSE i \in Places : Q(i)) = k
  BY <1>8, <1>9
<1> QED
  BY <1>2, <1>10 DEF FindPlace, Q

LEMMA FindStops ==
  ASSUME IndexInv, phase = "idle", NEW c \in Chunks
  PROVE  /\ FindPlace(c) \in Places
         /\ table[FindPlace(c)] # None => FindPlace(c) \in Holding(c)
<1>1. PICK e \in Places : table[e] = None
  BY PlaceIsEmpty DEF Vacant
<1>2. PICK d \in Places : Probe(c, d) = e
  BY ProbeIs DEF IndexInv
<1>3. Stops(c, d)
  BY <1>1, <1>2 DEF Stops
<1> DEFINE T == {k \in Places : Stops(c, k)}
<1>4. T \subseteq Nat /\ T # {}
  BY <1>3, PlacesAreNumbers
<1>5. PICK k \in T : \A j \in 0 .. k - 1 : j \notin T
  BY <1>4, LeastNumber
<1>6. k \in Nat /\ k < Size /\ Size \in Nat
  BY PlacesAreNumbers
<1>7. \A j \in 0 .. k - 1 : j \in Places
  BY <1>6 DEF Places
<1> DEFINE Q(i) == Stops(c, i) /\ \A j \in 0 .. i - 1 : ~Stops(c, j)
<1>8. k \in Places /\ Q(k)
  BY <1>5, <1>7
<1> HIDE DEF Q
<1>9. PICK i \in Places : i = (CHOOSE n \in Places : Q(n)) /\ Q(i)
  BY <1>8
<1>10. FindPlace(c) = Probe(c, i)
  BY <1>9 DEF FindPlace, Q
<1>11. Stops(c, i)
  BY <1>9 DEF Q
<1>12. PICK p \in Places : p = Probe(c, i)
  BY ProbeIs DEF IndexInv
<1>13. table[p] # None => p \in Holding(c)
  BY <1>11, <1>12 DEF Stops, Holding, Entries
<1> QED
  BY <1>10, <1>12, <1>13

\* An insert goes to the first empty place of the probe.
LEMMA InsertIs ==
  ASSUME IndexInv, phase = "idle", NEW c \in Chunks
  PROVE  /\ InsertPlace(c) \in Places /\ table[InsertPlace(c)] = None
         /\ \A q \in Places : Away(home[c], q) < Away(home[c], InsertPlace(c)) =>
                                table[q] # None
<1>1. PICK e \in Places : table[e] = None
  BY PlaceIsEmpty DEF Vacant
<1>2. PICK d \in Places : Probe(c, d) = e
  BY ProbeIs DEF IndexInv
<1> DEFINE T == {k \in Places : table[Probe(c, k)] = None}
<1>4. T \subseteq Nat /\ T # {}
  BY <1>1, <1>2, PlacesAreNumbers
<1>5. PICK k \in T : \A j \in 0 .. k - 1 : j \notin T
  BY <1>4, LeastNumber
<1>6. k \in Nat /\ k < Size /\ Size \in Nat
  BY PlacesAreNumbers
<1>7. \A j \in 0 .. k - 1 : j \in Places
  BY <1>6 DEF Places
<1> DEFINE Q(i) == /\ table[Probe(c, i)] = None
                   /\ \A j \in 0 .. i - 1 : table[Probe(c, j)] # None
<1>8. k \in Places /\ Q(k)
  BY <1>5, <1>7
<1> HIDE DEF Q
<1>9. PICK i \in Places : i = (CHOOSE n \in Places : Q(n)) /\ Q(i)
  BY <1>8
<1>10. InsertPlace(c) = Probe(c, i)
  BY <1>9 DEF InsertPlace, Q
<1>11. PICK p \in Places : p = Probe(c, i) /\ Away(home[c], p) = i
  BY ProbeIs DEF IndexInv
<1>12. table[p] = None
  BY <1>9, <1>11 DEF Q
<1>13. ASSUME NEW q \in Places, Away(home[c], q) < i PROVE table[q] # None
  <2>1. PICK j \in Places : j = Away(home[c], q) /\ Probe(c, j) = q
    BY ProbeIs DEF IndexInv
  <2>2. j \in 0 .. i - 1
    BY <1>13, <2>1, PlacesAreNumbers
  <2> QED
    BY <1>9, <2>1, <2>2 DEF Q
<1> QED
  BY <1>10, <1>11, <1>12, <1>13

-----------------------------------------------------------------------------
(***************************************************************************)
(* What the table shows, whether it is looked up or being shifted.         *)
(***************************************************************************)
Shown(c, s) == \E p \in Entries : table[p] = s /\ ChunkAt(p) = c

MapIsShown ==
  /\ Map \in [Chunks -> Slots \union {None}]
  /\ \A c \in Chunks, s \in Slots : Map[c] = s <=> Shown(c, s)

LEMMA MapShows == IndexInv => MapIsShown
<1> SUFFICES ASSUME IndexInv PROVE MapIsShown
  OBVIOUS
<1>1. None \notin Slots
  BY IndexAssumption
<1>2. ASSUME NEW c \in Chunks
      PROVE  /\ Map[c] \in Slots \union {None}
             /\ Holding(c) = {} => Map[c] = None
             /\ \A p \in Holding(c) : Map[c] = table[p]
  <2>1. CASE phase = "idle"
    <3>1. Map[c] = table[FindPlace(c)]
      BY <2>1 DEF Map, index_find
    <3>2. table[FindPlace(c)] \in Slots \union {None}
      BY <2>1, FindStops DEF IndexInv, IndexShape
    <3> QED
      BY <2>1, <3>1, <3>2, FindStops, FindHolding
  <2>2. CASE phase # "idle"
    <3>1. CASE Holding(c) = {}
      BY <2>2, <3>1 DEF Map
    <3>2. CASE Holding(c) # {}
      <4>1. PICK p \in Holding(c) : p = (CHOOSE q \in Holding(c) : TRUE)
        BY <3>2
      <4>2. Map[c] = table[p]
        BY <2>2, <3>2, <4>1 DEF Map
      <4>3. \A q \in Holding(c) : q = p
        BY DEF Holding, ChunkAt, IndexInv, EnteredOnce
      <4>4. p \in Entries
        BY DEF Holding
      <4> QED
        BY <3>2, <4>2, <4>3, <4>4, EntriesAre
    <3> QED
      BY <3>1, <3>2
  <2> QED
    BY <2>1, <2>2
<1>3. Map \in [Chunks -> Slots \union {None}]
  <2>1. Map = [c \in Chunks |-> Map[c]]
    BY DEF Map
  <2> QED
    BY <1>2, <2>1
<1>4. ASSUME NEW c \in Chunks, NEW s \in Slots PROVE Map[c] = s <=> Shown(c, s)
  <2>1. ASSUME Map[c] = s PROVE Shown(c, s)
    <3>1. PICK p : p \in Holding(c)
      BY <1>1, <1>2, <2>1
    <3> QED
      BY <1>2, <2>1, <3>1 DEF Holding, Shown, ChunkAt
  <2>2. ASSUME Shown(c, s) PROVE Map[c] = s
    <3>1. PICK p \in Entries : table[p] = s /\ ChunkAt(p) = c
      BY <2>2 DEF Shown
    <3>2. p \in Holding(c)
      BY <3>1 DEF Holding, ChunkAt
    <3> QED
      BY <1>2, <3>1, <3>2
  <2> QED
    BY <2>1, <2>2
<1> QED
  BY <1>3, <1>4 DEF MapIsShown

-----------------------------------------------------------------------------
(***************************************************************************)
(* Every step keeps the invariant, and shows what its step of the map does.*)
(***************************************************************************)
LEMMA IndexInitHolds == Init => IndexInv
<1> SUFFICES ASSUME Init PROVE IndexInv
  OBVIOUS
<1>1. Size \in Nat \ {0} /\ Homes \subseteq [Chunks -> Places] /\ 0 \in Places
  BY IndexAssumption DEF Places
<1>2. Entries = {}
  BY DEF Init, Entries
<1> QED
  BY <1>1, <1>2 DEF Init, IndexInv, IndexShape, EnteredOnce, Reachable, ShiftBehind

LEMMA InsertHolds ==
  ASSUME IndexInv, NEW c \in Chunks, NEW s \in Slots, index_insert(c, s)
  PROVE  /\ IndexInv'
         /\ \A d \in Chunks, t \in Slots :
              Shown(d, t)' <=> IF d = c THEN t = s ELSE Shown(d, t)
         /\ \A d \in Chunks : ~Shown(d, s)
         /\ \A t \in Slots : ~Shown(c, t)
<1>1. /\ phase = "idle" /\ phase' = "idle" /\ home' = home /\ hole' = hole /\ pos' = pos
      /\ \A p \in Places : table[p] # s
      /\ table[FindPlace(c)] = None
      /\ chunkOf' = [chunkOf EXCEPT ![s] = c]
      /\ table' = [table EXCEPT ![InsertPlace(c)] = s]
  BY DEF index_insert, index_find
<1>2. None \notin Slots
  BY IndexAssumption
<1>3. PICK i \in Places :
        /\ i = InsertPlace(c) /\ table[i] = None
        /\ \A q \in Places : Away(home[c], q) < Away(home[c], i) => table[q] # None
  BY <1>1, InsertIs
<1>4. Holding(c) = {}
  <2>1. \A p \in Holding(c) : table[p] # None /\ FindPlace(c) = p
    BY <1>1, FindHolding DEF Holding, Entries
  <2> QED
    BY <1>1, <2>1
<1>5. IndexShape'
  BY <1>1, <1>3 DEF IndexInv, IndexShape
<1>6. /\ \A p \in Places : p # i => table'[p] = table[p]
      /\ table'[i] = s /\ chunkOf'[s] = c
      /\ \A t \in Slots : t # s => chunkOf'[t] = chunkOf[t]
  BY <1>1, <1>3 DEF IndexInv, IndexShape
<1>7. /\ Entries' = Entries \union {i} /\ i \notin Entries
  BY <1>1, <1>2, <1>3, <1>6 DEF Entries
<1>8. \A p \in Entries : /\ p \in Places /\ p # i /\ table'[p] = table[p]
                         /\ ChunkAt(p)' = ChunkAt(p) /\ HomeOf(p)' = HomeOf(p)
                         /\ ChunkAt(p) \in Chunks /\ ChunkAt(p) # c /\ table[p] # s
  <2> SUFFICES ASSUME NEW p \in Entries
               PROVE  /\ p \in Places /\ p # i /\ table'[p] = table[p]
                      /\ ChunkAt(p)' = ChunkAt(p) /\ HomeOf(p)' = HomeOf(p)
                      /\ ChunkAt(p) \in Chunks /\ ChunkAt(p) # c /\ table[p] # s
    OBVIOUS
  <2>1. p \in Places /\ table[p] \in Slots /\ ChunkAt(p) \in Chunks /\ p # i
    BY <1>7, EntriesAre
  <2>2. ChunkAt(p) # c
    BY <1>4 DEF Holding, ChunkAt
  <2> QED
    BY <1>1, <1>6, <2>1, <2>2 DEF ChunkAt, HomeOf
<1>9. ChunkAt(i)' = c /\ HomeOf(i)' = home[c]
  BY <1>1, <1>6 DEF ChunkAt, HomeOf
<1>10. EnteredOnce'
  <2>1. \A p \in Entries' : ChunkAt(p)' \in Chunks
    BY <1>7, <1>8, <1>9
  <2>2. ASSUME NEW p \in Entries', NEW q \in Entries', ChunkAt(p)' = ChunkAt(q)' PROVE p = q
    BY <1>7, <1>8, <1>9, <2>2 DEF IndexInv, EnteredOnce
  <2> QED
    BY <2>1, <2>2 DEF EnteredOnce
<1>11. Reachable'
  <2>1. ASSUME NEW p \in Entries', NEW q \in Places, Away(HomeOf(p)', q) < Away(HomeOf(p)', p)
        PROVE  table'[q] # None
    <3>1. CASE q = i
      BY <1>2, <1>6, <3>1
    <3>2. CASE q # i
      <4>1. table[q] # None
        BY <1>3, <1>7, <1>8, <1>9, <2>1 DEF IndexInv, Reachable
      <4> QED
        BY <1>6, <3>2, <4>1
    <3> QED
      BY <3>1, <3>2
  <2> QED
    BY <2>1 DEF Reachable, Away
<1>12. IndexInv'
  BY <1>1, <1>5, <1>10, <1>11 DEF IndexInv, ShiftBehind
<1>13. ASSUME NEW d \in Chunks, NEW t \in Slots
       PROVE  Shown(d, t)' <=> IF d = c THEN t = s ELSE Shown(d, t)
  <2>1. Shown(d, t)' <=> \E p \in Entries' : table'[p] = t /\ ChunkAt(p)' = d
    BY DEF Shown
  <2>2. CASE d = c
    BY <1>6, <1>7, <1>8, <1>9, <2>1, <2>2
  <2>3. CASE d # c
    BY <1>6, <1>7, <1>8, <1>9, <2>1, <2>3 DEF Shown
  <2> QED
    BY <2>2, <2>3
<1>14. (\A d \in Chunks : ~Shown(d, s)) /\ (\A t \in Slots : ~Shown(c, t))
  BY <1>8 DEF Shown
<1> QED
  BY <1>12, <1>13, <1>14

LEMMA EraseBeginHolds ==
  ASSUME IndexInv, NEW c \in Chunks, EraseBegin(c)
  PROVE  /\ IndexInv'
         /\ \A d \in Chunks, t \in Slots : Shown(d, t)' <=> d # c /\ Shown(d, t)
         /\ \E t \in Slots : Shown(c, t)
<1>1. /\ phase = "idle" /\ phase' = "shift" /\ home' = home /\ table' = table
      /\ chunkOf' = chunkOf /\ hole' = FindPlace(c) /\ pos' = NextPlace(hole')
      /\ table[FindPlace(c)] # None
  BY DEF EraseBegin, index_find
<1>2. PICK h \in Places : h = FindPlace(c) /\ h \in Holding(c) /\ h \in Entries /\ ChunkAt(h) = c
                          /\ table[h] \in Slots /\ table[h] # None
  BY <1>1, FindStops, EntriesAre DEF Holding, ChunkAt
<1>3. hole' = h /\ pos' = NextPlace(h) /\ NextPlace(h) \in Places
  BY <1>1, <1>2, NextPlaceIs
<1>4. PICK e \in Places : table[e] = None
  BY <1>1, PlaceIsEmpty DEF Vacant
<1>5. NextPlace(h) # h
  <2> SUFFICES ASSUME NextPlace(h) = h PROVE FALSE
    OBVIOUS
  <2>1. Away(h, e) <= Away(h, h)
    BY AwayBack
  <2>2. e = h
    BY <2>1, AwayFromSelf
  <2> QED
    BY <1>2, <1>4, <2>2
<1>6. Entries' = Entries \ {h}
  BY <1>1, <1>3 DEF Entries
<1>7. /\ \A p : ChunkAt(p)' = ChunkAt(p) /\ HomeOf(p)' = HomeOf(p)
      /\ IndexShape'
  BY <1>1, <1>3 DEF ChunkAt, HomeOf, IndexInv, IndexShape
<1>8. EnteredOnce'
  BY <1>6, <1>7 DEF IndexInv, EnteredOnce
<1>9. Reachable'
  BY <1>1, <1>6, <1>7 DEF IndexInv, Reachable, Away
<1>10. Away(h, NextPlace(h)) = 1
  BY <1>3, <1>5, AwayNext, AwayFromSelf
<1>11. ShiftBehind'
  <2>1. \A q \in Places : Away(h, q) < 1 => table[q] # None
    BY <1>2, AwayFromSelf
  <2>2. \A p \in Entries' : 1 <= Away(h, p)
    <3>1. \A p \in Entries' : p \in Places /\ p # h
      BY <1>6 DEF Entries
    <3> QED
      BY <3>1, AwayFromSelf
  <2>3. Vacant'
    BY <1>1, <1>4 DEF Vacant
  <2>4. Away(hole, pos)' = 1 /\ \A q : Away(hole, q)' = Away(h, q)
    BY <1>3, <1>10 DEF Away
  <2>5. \A q \in Places : Away(hole, q)' < Away(hole, pos)' => table'[q] # None
    BY <1>1, <2>1, <2>4
  <2>6. \A p \in Entries' : Away(hole, pos)' <= Away(hole, p)'
    BY <2>2, <2>4
  <2> QED
    BY <1>3, <1>5, <2>3, <2>5, <2>6 DEF ShiftBehind
<1>12. ASSUME NEW d \in Chunks, NEW t \in Slots
       PROVE  Shown(d, t)' <=> d # c /\ Shown(d, t)
  <2>1. Shown(d, t)' <=> \E p \in Entries' : table'[p] = t /\ ChunkAt(p)' = d
    BY DEF Shown
  <2>2. \A p \in Entries : ChunkAt(p) = c => p = h
    BY <1>2 DEF IndexInv, EnteredOnce
  <2> QED
    BY <1>1, <1>2, <1>6, <1>7, <2>1, <2>2 DEF Shown
<1>13. Shown(c, table[h])
  BY <1>2 DEF Shown
<1> QED
  BY <1>2, <1>7, <1>8, <1>9, <1>11, <1>12, <1>13 DEF IndexInv

\* Inside an erase: pos does not come back to the hole, for an empty place is before it.
LEMMA ShiftGoesOn ==
  ASSUME IndexInv, phase = "shift", table[pos] # None
  PROVE  NextPlace(pos) # hole
<1> SUFFICES ASSUME NextPlace(pos) = hole PROVE FALSE
  OBVIOUS
<1>1. hole \in Places /\ pos \in Places
  BY DEF IndexInv, IndexShape
<1>2. PICK e \in Places : table[e] = None
  BY DEF IndexInv, ShiftBehind, Vacant
<1>3. Away(hole, e) <= Away(hole, pos)
  BY <1>1, AwayBack
<1>4. Away(hole, e) # Away(hole, pos)
  BY <1>1, <1>2, AwayApart
<1>5. Away(hole, e) < Away(hole, pos)
  BY <1>1, <1>3, <1>4, AwayFromSelf
<1> QED
  BY <1>2, <1>5 DEF IndexInv, ShiftBehind

LEMMA EraseShiftHolds ==
  ASSUME IndexInv, EraseShift
  PROVE  /\ IndexInv'
         /\ \A d \in Chunks, t \in Slots : Shown(d, t)' <=> Shown(d, t)
<1>1. /\ phase = "shift" /\ table[pos] # None
      /\ phase' = "shift" /\ home' = home /\ chunkOf' = chunkOf /\ pos' = NextPlace(pos)
  BY DEF EraseShift
<1>2. /\ hole \in Places /\ pos \in Places /\ NextPlace(pos) \in Places /\ pos # hole
      /\ table \in [Places -> Slots \union {None}]
  BY <1>1, NextPlaceIs DEF IndexInv, IndexShape, ShiftBehind
<1>3. NextPlace(pos) # hole /\ NextPlace(pos) # pos
  <2>1. NextPlace(pos) # hole
    BY <1>1, ShiftGoesOn
  <2>2. Away(hole, NextPlace(pos)) = Away(hole, pos) + 1
    BY <1>2, <2>1, AwayNext
  <2> QED
    BY <1>2, <2>1, <2>2, AwayFromSelf
<1>4. pos \in Entries /\ ChunkAt(pos) \in Chunks /\ HomeOf(pos) \in Places /\ table[pos] \in Slots
  <2>1. pos \in Entries
    BY <1>1, <1>2 DEF Entries
  <2> QED
    BY <2>1, EntriesAre
<1>5. Away(HomeOf(pos), pos) >= Away(hole, pos) <=> Moves
  BY DEF Moves, Away, HomeOf
<1>6. Away(HomeOf(pos), hole) < Away(HomeOf(pos), pos) <=> Moves
  BY <1>2, <1>4, <1>5, OnTheWay
<1>7. PICK e \in Places : table[e] = None
  BY <1>1 DEF IndexInv, ShiftBehind, Vacant
<1>8. table[hole] # None
  <2>1. Away(hole, hole) < Away(hole, pos)
    BY <1>2, AwayFromSelf
  <2> QED
    BY <1>1, <1>2, <2>1 DEF IndexInv, ShiftBehind
<1>9. CASE Moves
  <2>1. table' = [table EXCEPT ![hole] = table[pos]] /\ hole' = pos
    BY <1>9 DEF EraseShift
  <2>0. PICK was \in Places, new \in Places : was = hole /\ new = pos
    BY <1>2
  <2>2. /\ table'[hole] = table[pos] /\ table'[was] = table[pos]
        /\ \A p \in Places : p # hole => table'[p] = table[p]
        /\ \A p \in Places : table'[p] = None <=> table[p] = None
        /\ IndexShape'
    BY <1>1, <1>2, <1>4, <1>8, <2>0, <2>1 DEF IndexInv, IndexShape
  <2>3. Entries' = (Entries \ {pos}) \union {hole} /\ hole \notin Entries
    BY <1>1, <1>2, <1>4, <1>8, <2>1, <2>2 DEF Entries
  <2>4. \A p \in Entries : p # pos => /\ ChunkAt(p)' = ChunkAt(p) /\ HomeOf(p)' = HomeOf(p)
                                      /\ table'[p] = table[p] /\ p \in Places
    <3>1. \A p \in Entries : p \in Places /\ p # hole
      BY <2>3 DEF Entries
    <3> QED
      BY <1>1, <2>2, <3>1 DEF ChunkAt, HomeOf
  <2>5. ChunkAt(was)' = ChunkAt(new) /\ HomeOf(was)' = HomeOf(new)
    BY <1>1, <2>0, <2>2 DEF ChunkAt, HomeOf
  <2>6. EnteredOnce'
    <3>1. \A p \in Entries' : ChunkAt(p)' \in Chunks
      BY <1>4, <2>0, <2>3, <2>4, <2>5 DEF IndexInv, EnteredOnce
    <3>2. ASSUME NEW p \in Entries', NEW q \in Entries', ChunkAt(p)' = ChunkAt(q)' PROVE p = q
      BY <1>4, <2>0, <2>3, <2>4, <2>5, <3>2 DEF IndexInv, EnteredOnce
    <3> QED
      BY <3>1, <3>2 DEF EnteredOnce
  <2>7. ASSUME NEW p \in Entries', NEW q \in Places, Away(HomeOf(p)', q) < Away(HomeOf(p)', p)
        PROVE  table'[q] # None
    <3>1. CASE p # hole
      BY <2>2, <2>3, <2>4, <2>7, <3>1 DEF IndexInv, Reachable
    <3>2. CASE p = hole
      <4>1. Away(HomeOf(pos), q) < Away(HomeOf(pos), pos)
        <5>1. HomeOf(p)' = HomeOf(pos) /\ HomeOf(pos) \in Places
          BY <1>4, <2>0, <2>5, <3>2
        <5>2. Away(HomeOf(pos), q) < Away(HomeOf(pos), hole)
          BY <2>7, <3>2, <5>1
        <5> QED
          BY <1>2, <1>6, <1>9, <5>1, <5>2, AwayFromSelf
      <4> QED
        BY <1>4, <2>2, <4>1 DEF IndexInv, Reachable
    <3> QED
      BY <3>1, <3>2
  <2>8. Reachable'
    BY <2>7 DEF Reachable, Away
  <2>9. Away(pos, NextPlace(pos)) = 1
    BY <1>2, <1>3, AwayNext, AwayFromSelf
  <2>10. ShiftBehind'
    <3>1. \A q \in Places : Away(pos, q) < 1 => table'[q] # None
      BY <1>1, <1>2, <2>2, AwayFromSelf
    <3>2. \A p \in Entries' : 1 <= Away(pos, p)
      <4>1. \A p \in Entries' : p \in Places /\ p # pos
        BY <1>1, <2>1 DEF Entries
      <4> QED
        BY <1>2, <4>1, AwayFromSelf
    <3>3. Vacant'
      BY <1>7, <2>2 DEF Vacant
    <3>4. Away(hole, pos)' = 1 /\ \A q : Away(hole, q)' = Away(pos, q)
      BY <1>1, <2>1, <2>9 DEF Away
    <3>5. \A q \in Places : Away(hole, q)' < Away(hole, pos)' => table'[q] # None
      BY <3>1, <3>4
    <3>6. \A p \in Entries' : Away(hole, pos)' <= Away(hole, p)'
      BY <3>2, <3>4
    <3> QED
      BY <1>1, <1>3, <2>1, <3>3, <3>5, <3>6 DEF ShiftBehind
  <2>11. ASSUME NEW d \in Chunks, NEW t \in Slots PROVE Shown(d, t)' <=> Shown(d, t)
    <3>1. Shown(d, t)' <=> \E p \in Entries' : table'[p] = t /\ ChunkAt(p)' = d
      BY DEF Shown
    <3> QED
      BY <1>4, <2>0, <2>2, <2>3, <2>4, <2>5, <3>1 DEF Shown
  <2> QED
    BY <2>2, <2>6, <2>8, <2>10, <2>11 DEF IndexInv
<1>10. CASE ~Moves
  <2>1. table' = table /\ hole' = hole
    BY <1>10 DEF EraseShift
  <2>2. /\ Entries' = Entries /\ IndexShape'
        /\ \A p : ChunkAt(p)' = ChunkAt(p) /\ HomeOf(p)' = HomeOf(p)
    BY <1>1, <1>2, <2>1 DEF Entries, IndexInv, IndexShape, ChunkAt, HomeOf
  <2>3. EnteredOnce' /\ Reachable'
    BY <2>1, <2>2 DEF IndexInv, EnteredOnce, Reachable, Away
  <2>4. Away(hole, NextPlace(pos)) = Away(hole, pos) + 1
    BY <1>2, <1>3, AwayNext
  <2>5. ASSUME NEW q \in Places, Away(hole, q) < Away(hole, pos) + 1
        PROVE  table[q] # None
    <3>1. CASE q = pos
      BY <1>1, <3>1
    <3>2. CASE q # pos
      <4>1. Away(hole, q) # Away(hole, pos)
        BY <1>2, <3>2, AwayApart
      <4>2. Away(hole, q) < Away(hole, pos)
        BY <1>2, <2>5, <4>1, AwayFromSelf
      <4> QED
        BY <1>1, <4>2 DEF IndexInv, ShiftBehind
    <3> QED
      BY <3>1, <3>2
  <2>6. ASSUME NEW p \in Entries, Away(HomeOf(p), hole) < Away(HomeOf(p), p)
        PROVE  Away(hole, pos) + 1 <= Away(hole, p)
    <3>1. p \in Places /\ p # pos
      BY <1>6, <1>10, <2>6 DEF Entries
    <3>2. Away(hole, pos) <= Away(hole, p)
      BY <1>1, <2>6 DEF IndexInv, ShiftBehind
    <3>3. Away(hole, pos) # Away(hole, p)
      BY <1>2, <3>1, AwayApart
    <3> QED
      BY <1>2, <3>1, <3>2, <3>3, AwayFromSelf
  <2>7. ShiftBehind'
    <3>1. Away(hole, pos)' = Away(hole, pos) + 1
      BY <1>1, <2>1, <2>4 DEF Away
    <3>2. \A q : Away(hole, q)' = Away(hole, q)
      BY <2>1 DEF Away
    <3>3. \A p : Away(HomeOf(p), hole)' = Away(HomeOf(p), hole)
                 /\ Away(HomeOf(p), p)' = Away(HomeOf(p), p)
      BY <2>1, <2>2 DEF Away
    <3>4. Vacant'
      BY <1>7, <2>1 DEF Vacant
    <3>5. \A q \in Places : Away(hole, q)' < Away(hole, pos)' => table'[q] # None
      BY <2>1, <2>5, <3>1, <3>2
    <3>6. \A p \in Entries' : Away(HomeOf(p), hole)' < Away(HomeOf(p), p)' =>
                                Away(hole, pos)' <= Away(hole, p)'
      BY <2>2, <2>6, <3>1, <3>2, <3>3
    <3> QED
      BY <1>1, <1>3, <2>1, <3>4, <3>5, <3>6 DEF ShiftBehind
  <2>8. \A d \in Chunks, t \in Slots : Shown(d, t)' <=> Shown(d, t)
    BY <2>1, <2>2 DEF Shown
  <2> QED
    BY <2>2, <2>3, <2>7, <2>8 DEF IndexInv
<1> QED
  BY <1>9, <1>10

LEMMA EraseEndHolds ==
  ASSUME IndexInv, EraseEnd
  PROVE  /\ IndexInv'
         /\ \A d \in Chunks, t \in Slots : Shown(d, t)' <=> Shown(d, t)
<1>1. /\ phase = "shift" /\ phase' = "idle" /\ table[pos] = None
      /\ table' = [table EXCEPT ![hole] = None]
      /\ home' = home /\ chunkOf' = chunkOf /\ hole' = 0 /\ pos' = 0
  BY DEF EraseEnd
<1>2. /\ hole \in Places /\ pos \in Places /\ pos # hole /\ 0 \in Places
  BY <1>1, SizePositive DEF IndexInv, IndexShape, ShiftBehind, Places
<1>3. /\ table'[hole] = None
      /\ \A p \in Places : p # hole => table'[p] = table[p]
      /\ IndexShape'
  BY <1>1, <1>2 DEF IndexInv, IndexShape
<1>4. Entries' = Entries
  BY <1>1, <1>2, <1>3 DEF Entries
<1>5. \A p \in Entries : /\ p \in Places /\ p # hole /\ table'[p] = table[p]
                         /\ ChunkAt(p)' = ChunkAt(p) /\ HomeOf(p)' = HomeOf(p)
                         /\ HomeOf(p) \in Places
  <2>1. \A p \in Entries : p \in Places /\ p # hole
    BY <1>1 DEF Entries
  <2> QED
    BY <1>1, <1>3, <2>1, EntriesAre DEF ChunkAt, HomeOf
<1>6. EnteredOnce'
  BY <1>4, <1>5 DEF IndexInv, EnteredOnce
<1>7. ASSUME NEW p \in Entries, Away(HomeOf(p), hole) < Away(HomeOf(p), p) PROVE FALSE
  <2>1. p # pos
    BY <1>1 DEF Entries
  <2>2. Away(hole, pos) <= Away(hole, p)
    BY <1>1, <1>7 DEF IndexInv, ShiftBehind
  <2>3. Away(HomeOf(p), pos) < Away(HomeOf(p), p)
    BY <1>2, <1>5, <1>7, <2>1, <2>2, PassesBoth
  <2> QED
    BY <1>1, <1>2, <2>3 DEF IndexInv, Reachable
<1>8. ASSUME NEW p \in Entries, NEW q \in Places, Away(HomeOf(p), q) < Away(HomeOf(p), p)
      PROVE  table'[q] # None
  <2>1. q # hole
    BY <1>7, <1>8
  <2> QED
    BY <1>3, <1>8, <2>1 DEF IndexInv, Reachable
<1>9. Reachable'
  BY <1>4, <1>5, <1>8 DEF Reachable, Away
<1>10. \A d \in Chunks, t \in Slots : Shown(d, t)' <=> Shown(d, t)
  BY <1>4, <1>5 DEF Shown
<1> QED
  BY <1>1, <1>3, <1>6, <1>9, <1>10 DEF IndexInv, ShiftBehind

LEMMA IndexStutters ==
  ASSUME IndexInv, UNCHANGED vars
  PROVE  IndexInv' /\ \A d \in Chunks, t \in Slots : Shown(d, t)' <=> Shown(d, t)
<1>1. UNCHANGED <<home, table, chunkOf, phase, hole, pos>>
  BY DEF vars
<1>2. Entries' = Entries /\ \A p : ChunkAt(p)' = ChunkAt(p) /\ HomeOf(p)' = HomeOf(p)
  BY <1>1 DEF Entries, ChunkAt, HomeOf
<1>3. IndexShape' /\ EnteredOnce' /\ Reachable'
  BY <1>1, <1>2 DEF IndexInv, IndexShape, EnteredOnce, Reachable, Away
<1>4. ShiftBehind'
  BY <1>1, <1>2 DEF IndexInv, ShiftBehind, Vacant, Away
<1> QED
  BY <1>1, <1>2, <1>3, <1>4 DEF IndexInv, Shown

-----------------------------------------------------------------------------
(***************************************************************************)
(* The theorems.                                                           *)
(***************************************************************************)
LEMMA IndexStepHolds == IndexInv /\ [Next]_vars => IndexInv'
BY InsertHolds, EraseBeginHolds, EraseShiftHolds, EraseEndHolds, IndexStutters DEF Next

\* Whatever is entered stays within its probe's reach, in every state of every erase.
THEOREM IndexInvariant == Spec => []IndexInv
BY IndexInitHolds, IndexStepHolds, PTL DEF Spec

\* Two maps that show the same are the same.
LEMMA SameShownSameMap ==
  ASSUME MapIsShown, MapIsShown',
         \A d \in Chunks, t \in Slots : Shown(d, t)' <=> Shown(d, t)
  PROVE  Map' = Map
<1>1. /\ Map \in [Chunks -> Slots \union {None}] /\ Map' \in [Chunks -> Slots \union {None}]
      /\ \A d \in Chunks, t \in Slots : Map'[d] = t <=> Map[d] = t
  BY DEF MapIsShown
<1>2. None \notin Slots
  BY IndexAssumption
<1>3. \A d \in Chunks : Map'[d] = Map[d]
  BY <1>1, <1>2
<1> QED
  BY <1>1, <1>3

\* The index of slot_pool.hpp implements the map: index_insert puts, index_erase removes
\* at its first step, and the shifting that follows changes nothing a lookup returns.
THEOREM IndexIsMap == Spec => ImplementsMap
<1>1. Init => Abstract!Init
  <2> SUFFICES ASSUME Init PROVE Abstract!Init
    OBVIOUS
  <2>1. IndexInv /\ MapIsShown
    BY IndexInitHolds, MapShows
  <2>2. Entries = {}
    BY DEF Init, Entries
  <2>3. \A c \in Chunks, s \in Slots : ~Shown(c, s)
    BY <2>2 DEF Shown
  <2>4. Map = [c \in Chunks |-> None]
    BY <2>1, <2>3 DEF MapIsShown
  <2> QED
    BY <2>4 DEF Abstract!Init
<1>2. IndexInv /\ IndexInv' /\ [Next]_vars => [Abstract!Next]_Map
  <2> SUFFICES ASSUME IndexInv, IndexInv', [Next]_vars PROVE [Abstract!Next]_Map
    OBVIOUS
  <2>1. MapIsShown
    BY MapShows
  <2>2. IndexInv' => MapIsShown'
    BY MapShows, PTL
  <2>3. MapIsShown'
    BY <2>2
  <2>4. /\ Map \in [Chunks -> Slots \union {None}] /\ Map' \in [Chunks -> Slots \union {None}]
        /\ \A c \in Chunks, s \in Slots : Map[c] = s <=> Shown(c, s)
        /\ \A c \in Chunks, s \in Slots : Map'[c] = s <=> Shown(c, s)'
    BY <2>1, <2>3 DEF MapIsShown
  <2>5. None \notin Slots
    BY IndexAssumption
  <2>6. ASSUME NEW c \in Chunks, NEW s \in Slots, index_insert(c, s) PROVE Abstract!Put(c, s)
    <3>1. /\ \A d \in Chunks, t \in Slots :
               Shown(d, t)' <=> IF d = c THEN t = s ELSE Shown(d, t)
          /\ \A d \in Chunks : ~Shown(d, s)
          /\ \A t \in Slots : ~Shown(c, t)
      BY <2>6, InsertHolds
    <3>2. Map[c] = None /\ \A d \in Chunks : Map[d] # s
      BY <2>4, <3>1
    <3>3. \A d \in Chunks : Map'[d] = IF d = c THEN s ELSE Map[d]
      <4>1. ASSUME NEW d \in Chunks, d = c PROVE Map'[d] = s
        BY <2>4, <3>1, <4>1
      <4>2. ASSUME NEW d \in Chunks, d # c PROVE Map'[d] = Map[d]
        <5>1. \A t \in Slots : Map'[d] = t <=> Map[d] = t
          BY <2>4, <3>1, <4>2
        <5> QED
          BY <2>4, <2>5, <5>1
      <4> QED
        BY <4>1, <4>2
    <3>4. Map' = [Map EXCEPT ![c] = s]
      BY <2>4, <3>3
    <3> QED
      BY <3>2, <3>4 DEF Abstract!Put
  <2>7. ASSUME NEW c \in Chunks, EraseBegin(c) PROVE Abstract!Remove(c)
    <3>1. /\ \A d \in Chunks, t \in Slots : Shown(d, t)' <=> d # c /\ Shown(d, t)
          /\ \E t \in Slots : Shown(c, t)
      BY <2>7, EraseBeginHolds
    <3>2. Map[c] # None
      BY <2>4, <2>5, <3>1
    <3>3. \A d \in Chunks : Map'[d] = IF d = c THEN None ELSE Map[d]
      <4>1. ASSUME NEW d \in Chunks, d = c PROVE Map'[d] = None
        BY <2>4, <3>1, <4>1
      <4>2. ASSUME NEW d \in Chunks, d # c PROVE Map'[d] = Map[d]
        <5>1. \A t \in Slots : Map'[d] = t <=> Map[d] = t
          BY <2>4, <3>1, <4>2
        <5> QED
          BY <2>4, <2>5, <5>1
      <4> QED
        BY <4>1, <4>2
    <3>4. Map' = [Map EXCEPT ![c] = None]
      BY <2>4, <3>3
    <3> QED
      BY <3>2, <3>4 DEF Abstract!Remove
  <2>8. ASSUME EraseShift \/ EraseEnd \/ UNCHANGED vars PROVE Map' = Map
    BY <2>1, <2>3, <2>8, EraseShiftHolds, EraseEndHolds, IndexStutters, SameShownSameMap
  <2>9. CASE \E c \in Chunks : EraseBegin(c) \/ \E s \in Slots : index_insert(c, s)
    BY <2>6, <2>7, <2>9 DEF Abstract!Next
  <2> QED
    BY <2>8, <2>9 DEF Next
<1> QED
  BY <1>1, <1>2, IndexInvariant, PTL DEF Spec, ImplementsMap, Abstract!Spec

=============================================================================
