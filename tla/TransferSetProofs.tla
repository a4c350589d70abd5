-------------------------- MODULE TransferSetProofs --------------------------
(***************************************************************************)
(* The proof that TransferSet never lets two writers, or a writer and a    *)
(* reader, share a destination byte, that a claim shows what it reports,   *)
(* that its records, lists and counters agree, that repeated answers are   *)
(* harmless, and that it implements ClaimLedger.                           *)
(***************************************************************************)
EXTENDS TransferSet, FiniteSetTheorems, SequenceTheorems, TLAPS

-----------------------------------------------------------------------------
(***************************************************************************)
(* The inductive invariant.                                                *)
(***************************************************************************)
InUse(r) == records[r].state # "free"

\* A range of at least one byte inside the destination.
Within(x) == 0 < x.length /\ x.destination + x.length <= DestinationBytes

\* Two ranges of the destination, one wholly before the other.
Apart(x, y) == \/ x.destination + x.length <= y.destination
               \/ y.destination + y.length <= x.destination

\* The lists: free_ holds each free record once, live_ and live_at_ are inverse.
ListInv ==
  /\ \A i \in DOMAIN free : ~InUse(free[i])
  /\ \A i, j \in DOMAIN free : free[i] = free[j] => i = j
  /\ \A r \in Records : ~InUse(r) => \E i \in DOMAIN free : free[i] = r
  /\ \A i \in DOMAIN live : InUse(live[i]) /\ liveAt[live[i]] = i
  /\ \A r \in Records : InUse(r) => liveAt[r] \in DOMAIN live /\ live[liveAt[r]] = r
  /\ Len(free) + Len(live) = MaxClaims

\* A record: held or being written while it is in use, ok exactly when completed.
RecordInv ==
  \A r \in Records :
    /\ ~InUse(r) => ~records[r].held
    /\ records[r].state \in {"completed", "failed"} => records[r].held
    /\ records[r].state = "completed" <=> records[r].result = "ok"
    /\ InUse(r) => Within(records[r])

\* The records in use have bytes of their own.
SpanInv ==
  \A r, s \in Records : InUse(r) /\ InUse(s) /\ r # s => Apart(records[r], records[s])

\* The backend's view of a submitted record.
Matches(q, r) ==
  /\ records[r].state = "submitted" /\ records[r].generation = q.generation
  /\ records[r].destination = q.destination /\ records[r].length = q.length

\* Accepted by the backend while submit has not filled in its record yet.
Unrecorded(q) ==
  /\ mutex # None /\ q.record = call[mutex].record
  /\ ~InUse(q.record) /\ q.generation = NextGen(records[q.record].generation)

\* A request: one for each submitted record, and one for the submit under way.
RequestInv ==
  /\ \A q \in requests :
       /\ Within(q) /\ q.offset + q.length <= SourceBytes
       /\ Matches(q, q.record) \/ Unrecorded(q)
       /\ \A p \in requests : p.record = q.record => p = q
       /\ \A r \in Records : InUse(r) /\ r # q.record => Apart(q, records[r])
  /\ \A r \in Records : records[r].state = "submitted" => \E q \in requests : q.record = r

\* The mutex: held between steps only by the submit that will pop the top of free_.
MutexInv ==
  /\ \A t \in Threads : call[t].pc = "recording" <=> mutex = t
  /\ mutex # None => /\ free # <<>> /\ call[mutex].record = Last(free)
                     /\ \E q \in requests : q.record = Last(free)

\* A claim: one for each held record, the same range, and its bytes once they landed.
ClaimInv ==
  /\ \A c \in claims :
       /\ InUse(c.record) /\ records[c.record].held
       /\ records[c.record].generation = c.generation
       /\ records[c.record].destination = c.destination
       /\ records[c.record].length = c.length
       /\ \A d \in claims : d.record = c.record => d = c
       /\ \A q \in requests : q.record = c.record => q.offset = c.offset
       /\ records[c.record].state = "completed" =>
            \A b \in Span(c.destination, c.length) :
              contents[b] = c.offset + (b - c.destination)
  /\ \A r \in Records : records[r].held => \E c \in claims : c.record = r

\* A repeated answer is for a record that has moved on.
LateInv ==
  \A token \in late :
    /\ Stale(token)
    /\ mutex # None /\ token.record = call[mutex].record =>
         token.generation # NextGen(records[token.record].generation)

\* The counters.
HeldRecords == {r \in Records : records[r].held}
FlyingRecords == {r \in Records : records[r].state = "submitted"}
CountInv == held = Cardinality(HeldRecords) /\ inFlight = Cardinality(FlyingRecords)

SetInv == /\ TypeOK /\ ListInv /\ RecordInv /\ SpanInv /\ RequestInv
          /\ MutexInv /\ ClaimInv /\ LateInv /\ CountInv

-----------------------------------------------------------------------------
(***************************************************************************)
(* Facts about words, ranges, sequences and counters.                      *)
(***************************************************************************)

\* Every generation has a next one.
LEMMA NextGenTyped ==
  ASSUME NEW g \in Generations
  PROVE  NextGen(g) \in Generations
<1>1. GenMod \in Nat /\ GenMod > 1
  BY SetAssumption
<1> QED
  BY <1>1 DEF NextGen, Generations

\* Ranges that are apart share no byte.
LEMMA ApartDisjoint ==
  ASSUME NEW x, NEW y, x.destination \in Nat, x.length \in Nat,
         y.destination \in Nat, y.length \in Nat, Apart(x, y)
  PROVE  Span(x.destination, x.length) \intersect Span(y.destination, y.length) = {}
BY DEF Apart, Span

\* A range inside the destination has its bytes there, and at least one.
LEMMA WithinSpan ==
  ASSUME NEW x, x.destination \in Nat, x.length \in Nat, Within(x)
  PROVE  /\ Span(x.destination, x.length) \subseteq 0 .. DestinationBytes - 1
         /\ x.destination \in Span(x.destination, x.length)
<1>1. DestinationBytes \in Nat
  BY SetAssumption, WordAssumption DEF Word
<1> QED
  BY <1>1 DEF Within, Span

\* What popping a stack leaves: submit's pop of free_, retire_record's pop of live_.
LEMMA FrontFacts ==
  ASSUME NEW S, NEW s \in Seq(S), s # <<>>
  PROVE  /\ Len(s) \in Nat \ {0}
         /\ Last(s) = s[Len(s)] /\ Last(s) \in S
         /\ Front(s) \in Seq(S) /\ Len(Front(s)) = Len(s) - 1
         /\ \A i \in 1 .. Len(s) - 1 : Front(s)[i] = s[i]
<1>1. Len(s) \in Nat \ {0} /\ Last(s) = s[Len(s)] /\ Last(s) \in S
  BY DEF Last
<1>2. \A i \in 1 .. Len(s) - 1 : s[i] \in S
  BY <1>1
<1> QED
  <2>1. Len(s) - 1 \in Int /\ 1 \in Int /\ (Len(s) - 1) - 1 + 1 = Len(s) - 1
    BY <1>1
  <2>2. /\ SubSeq(s, 1, Len(s) - 1) \in Seq(S)
        /\ Len(SubSeq(s, 1, Len(s) - 1)) =
             IF 1 <= Len(s) - 1 THEN (Len(s) - 1) - 1 + 1 ELSE 0
        /\ \A i \in 1 .. (Len(s) - 1) - 1 + 1 : SubSeq(s, 1, Len(s) - 1)[i] = s[1 + i - 1]
    BY <1>2, <2>1, SubSeqProperties
  <2>3. \A i \in 1 .. Len(s) - 1 : 1 + i - 1 = i
    OBVIOUS
  <2> QED
    BY <1>1, <2>1, <2>2, <2>3 DEF Front

\* What pushing leaves.
LEMMA AppendFacts ==
  ASSUME NEW S, NEW s \in Seq(S), NEW e \in S
  PROVE  /\ Append(s, e) \in Seq(S) /\ Len(Append(s, e)) = Len(s) + 1
         /\ \A i \in 1 .. Len(s) : Append(s, e)[i] = s[i]
         /\ Append(s, e)[Len(s) + 1] = e
OBVIOUS

\* The sets of records the counters count.
LEMMA RecordSetsFinite ==
  /\ IsFiniteSet(Records)
  /\ IsFiniteSet(HeldRecords) /\ IsFiniteSet(FlyingRecords)
<1>1. IsFiniteSet(Records)
  BY SetAssumption, FS_Interval DEF Records
<1>2. HeldRecords \subseteq Records /\ FlyingRecords \subseteq Records
  BY DEF HeldRecords, FlyingRecords
<1> QED
  BY <1>1, <1>2, FS_Subset

\* A record that starts being counted, and one that stops.
LEMMA CountUp ==
  ASSUME NEW S, IsFiniteSet(S), NEW r, r \notin S, NEW T, T = S \union {r}
  PROVE  Cardinality(T) = Cardinality(S) + 1
BY FS_AddElement

LEMMA CountDown ==
  ASSUME NEW S, IsFiniteSet(S), NEW r \in S, NEW T, T = S \ {r}
  PROVE  Cardinality(T) = Cardinality(S) - 1
BY FS_RemoveElement

\* submit reaches the backend only with a range inside the source, one inside the
\* destination that overlaps no record in use, and a free record to give it.
LEMMA SubmitAdmits ==
  ASSUME TypeOK, ListInv, NEW source \in ByteRange, NEW destination \in Word,
         submit_status(source, destination) = "ok"
  PROVE  /\ free # <<>>
         /\ source.length > 0 /\ source.offset + source.length <= SourceBytes
         /\ destination + source.length <= DestinationBytes
         /\ \A r \in Records : InUse(r) =>
              \/ records[r].destination + records[r].length <= destination
              \/ destination + source.length <= records[r].destination
<1> USE WordAssumption
<1>1. /\ source.length \in Nat /\ source.offset \in Nat /\ destination \in Nat
      /\ WordMod \in Nat
  BY DEF ByteRange, Word
<1>2. validate_range(source, SourceBytes) = "ok"
  BY DEF submit_status
<1>3. source.length > 0 /\ source.offset + source.length <= SourceBytes
  BY <1>1, <1>2 DEF validate_range, checked_end, NoEnd
<1>4. LET end == checked_end(destination, source.length)
      IN  /\ end # NoEnd /\ ~(end > DestinationBytes)
          /\ ~\E i \in DOMAIN live : Overlaps(records[live[i]], destination, end)
          /\ free # <<>>
  BY <1>2 DEF submit_status
<1>5. checked_end(destination, source.length) = destination + source.length
  BY <1>4 DEF checked_end
<1>6. ~(destination + source.length > DestinationBytes)
  BY <1>4, <1>5
<1>7. destination + source.length <= DestinationBytes
  BY <1>1, <1>6, SetAssumption DEF Word
<1>8. ASSUME NEW r \in Records, InUse(r)
      PROVE  \/ records[r].destination + records[r].length <= destination
             \/ destination + source.length <= records[r].destination
  <2>1. liveAt[r] \in DOMAIN live /\ live[liveAt[r]] = r
    BY <1>8 DEF ListInv
  <2>2. ~Overlaps(records[r], destination, destination + source.length)
    BY <1>4, <1>5, <2>1
  <2>3. records[r].destination \in Nat /\ records[r].length \in Nat
    BY DEF TypeOK, Record, Word
  <2> QED
    BY <1>1, <2>2, <2>3 DEF Overlaps
<1> QED
  BY <1>3, <1>4, <1>7, <1>8

-----------------------------------------------------------------------------
(***************************************************************************)
(* The invariant holds initially.                                          *)
(***************************************************************************)

\* An empty set of transfers, over a destination with any bytes.
Untouched ==
  /\ records = [r \in Records |-> FreeRecord(0)]
  /\ free = [i \in 1 .. MaxClaims |-> MaxClaims - i]
  /\ live = <<>> /\ liveAt = [r \in Records |-> 0]
  /\ held = 0 /\ inFlight = 0
  /\ mutex = None
  /\ call \in [Threads -> Call] /\ \A t \in Threads : call[t].pc = "idle"
  /\ claims = {} /\ requests = {} /\ late = {}
  /\ contents \in [0 .. DestinationBytes - 1 -> (0 .. SourceBytes - 1) \union {None}]

LEMMA UntouchedIsSound == Untouched => SetInv
<1> SUFFICES ASSUME Untouched PROVE SetInv
  OBVIOUS
<1> USE SetAssumption, WordAssumption
<1>0. 0 \in Word /\ 0 \in Generations /\ 0 \in Records
  BY DEF Word, Generations, Records
<1>1. FreeRecord(0) \in Record /\ FreeRecord(0).state = "free" /\ ~FreeRecord(0).held
      /\ FreeRecord(0).result = "pending"
  BY <1>0 DEF FreeRecord, Record, RecordState, Status
<1>2. /\ free \in Seq(Records) /\ Len(free) = MaxClaims
      /\ \A i \in 1 .. MaxClaims : free[i] = MaxClaims - i
  BY DEF Untouched, Records
<1>3. TypeOK
  BY <1>1, <1>2 DEF Untouched, TypeOK
<1>4. ListInv
  <2>1. \A r \in Records : ~InUse(r)
    BY <1>1 DEF Untouched, InUse
  <2>2. \A r \in Records : MaxClaims - r \in DOMAIN free /\ free[MaxClaims - r] = r
    BY <1>2 DEF Records
  <2>3. \A i \in DOMAIN free : free[i] \in Records
    BY <1>2
  <2>4. live = <<>> /\ Len(live) = 0 /\ DOMAIN live = {}
    BY DEF Untouched
  <2>5. \A i, j \in DOMAIN free : free[i] = free[j] => i = j
    BY <1>2
  <2> QED
    BY <1>2, <2>1, <2>2, <2>3, <2>4, <2>5 DEF ListInv
<1>5. RecordInv /\ SpanInv
  BY <1>1 DEF Untouched, RecordInv, SpanInv, InUse
<1>6. RequestInv /\ ClaimInv /\ LateInv
  BY <1>1 DEF Untouched, RequestInv, ClaimInv, LateInv
<1>7. MutexInv
  BY SetAssumption DEF Untouched, MutexInv
<1>8. CountInv
  <2>1. HeldRecords = {} /\ FlyingRecords = {}
    BY <1>1 DEF Untouched, HeldRecords, FlyingRecords
  <2> QED
    BY <2>1, FS_EmptySet DEF Untouched, CountInv
<1> QED
  BY <1>3, <1>4, <1>5, <1>6, <1>7, <1>8 DEF SetInv

LEMMA SetInit == Init => SetInv
<1>1. Idle \in Call /\ Idle.pc = "idle"
  BY SetAssumption DEF Idle, Call, Records
<1> QED
  BY <1>1, UntouchedIsSound DEF Init, Untouched

-----------------------------------------------------------------------------
(***************************************************************************)
(* The lists.                                                              *)
(***************************************************************************)

\* A step that leaves the lists alone and frees or takes no record keeps them.
LEMMA ListsKept ==
  ASSUME ListInv, UNCHANGED <<free, live, liveAt>>, TypeOK,
         \A r \in Records : InUse(r)' <=> InUse(r)
  PROVE  ListInv'
<1>1. \A i \in DOMAIN free : free[i] \in Records
  BY DEF TypeOK
<1>2. \A i \in DOMAIN live : live[i] \in Records
  BY DEF TypeOK
<1> QED
  BY <1>1, <1>2 DEF ListInv

\* retire_record takes a record in use out of live_ by swap-remove and puts it on free_.
LEMMA RetireKeepsLists ==
  ASSUME TypeOK, ListInv, NEW r \in Records, InUse(r), retire_record(r),
         \A s \in Records : InUse(s)' <=> (InUse(s) /\ s # r)
  PROVE  /\ free' \in Seq(Records) /\ live' \in Seq(Records)
         /\ liveAt' \in [Records -> 0 .. MaxClaims]
         /\ ListInv'
<1> USE DEF InUse
<1> DEFINE n == Len(live)
           last == live[n]
           at == liveAt[r]
           moved == [live EXCEPT ![at] = last]
<1>1. /\ free \in Seq(Records) /\ live \in Seq(Records)
      /\ liveAt \in [Records -> 0 .. MaxClaims]
  BY DEF TypeOK
<1>2. at \in 1 .. n /\ live[at] = r /\ n \in Nat \ {0} /\ live # <<>>
  BY <1>1 DEF ListInv
<1>3. last \in Records /\ Last(live) = last /\ liveAt[last] = n
  BY <1>1, <1>2 DEF Last, ListInv
<1>4. /\ moved \in Seq(Records) /\ Len(moved) = n /\ moved # <<>>
      /\ \A i \in 1 .. n : moved[i] = IF i = at THEN last ELSE live[i]
  BY <1>1, <1>2, <1>3
<1>5. /\ live' \in Seq(Records) /\ Len(live') = n - 1 /\ DOMAIN live' = 1 .. n - 1
      /\ \A i \in 1 .. n - 1 : live'[i] = IF i = at THEN last ELSE live[i]
  <2>1. live' = Front(moved)
    BY <1>3 DEF retire_record
  <2>2. /\ live' \in Seq(Records) /\ Len(live') = n - 1
        /\ \A i \in 1 .. n - 1 : live'[i] = moved[i]
    <3> HIDE DEF moved
    <3> QED
      BY <1>4, <2>1, FrontFacts
  <2> QED
    BY <1>2, <1>4, <2>2
<1>6. /\ liveAt' \in [Records -> 0 .. MaxClaims]
      /\ \A s \in Records : liveAt'[s] = IF s = last THEN at ELSE liveAt[s]
  BY <1>1, <1>3 DEF retire_record, MovedAt
<1>7. /\ free' \in Seq(Records) /\ Len(free') = Len(free) + 1
      /\ \A i \in 1 .. Len(free) : free'[i] = free[i]
      /\ free'[Len(free) + 1] = r
  BY <1>1, AppendFacts DEF retire_record
<1>8. /\ \A i \in DOMAIN free' : ~InUse(free[i])'
      /\ \A i, j \in DOMAIN free' : free'[i] = free'[j] => i = j
  <2>1. \A i \in 1 .. Len(free) : free[i] \in Records /\ ~InUse(free[i]) /\ free[i] # r
    BY <1>1 DEF ListInv
  <2>2. \A i \in 1 .. Len(free) + 1 : i \in 1 .. Len(free) \/ i = Len(free) + 1
    BY <1>1
  <2>3. DOMAIN free' = 1 .. Len(free) + 1 /\ DOMAIN free = 1 .. Len(free)
    BY <1>1, <1>7
  <2>4. \A i, j \in 1 .. Len(free) : free[i] = free[j] => i = j
    BY <2>3 DEF ListInv
  <2>5. \A i \in DOMAIN free' : ~InUse(free[i])'
    <3> SUFFICES ASSUME NEW i \in 1 .. Len(free) + 1 PROVE ~InUse(free[i])'
      BY <2>3
    <3> QED
      BY <1>7, <2>1, <2>2
  <2> QED
    BY <1>7, <2>1, <2>2, <2>3, <2>4, <2>5
<1>9. ASSUME NEW s \in Records, ~InUse(s)'
      PROVE  \E i \in DOMAIN free' : free'[i] = s
  <2>1. CASE s = r
    BY <1>1, <1>7, <2>1
  <2>2. CASE s # r
    <3>1. PICK i \in DOMAIN free : free[i] = s
      BY <1>9, <2>2 DEF ListInv
    <3>2. i \in 1 .. Len(free) /\ i \in DOMAIN free'
      BY <1>1, <1>7, <3>1
    <3> QED
      BY <1>7, <3>1, <3>2
  <2> QED
    BY <2>1, <2>2
<1>10. ASSUME NEW i \in DOMAIN live'
       PROVE  InUse(live[i])' /\ liveAt'[live'[i]] = i
  <2>1. i \in 1 .. n - 1 /\ i \in 1 .. n /\ i # n
    BY <1>2, <1>5
  <2>2. live[i] \in Records /\ InUse(live[i]) /\ liveAt[live[i]] = i /\ InUse(last)
    BY <1>1, <1>2, <2>1 DEF ListInv
  <2>3. CASE i = at
    BY <1>2, <1>3, <1>5, <1>6, <2>1, <2>2, <2>3
  <2>4. CASE i # at
    BY <1>2, <1>3, <1>5, <1>6, <2>1, <2>2, <2>4
  <2> QED
    BY <2>3, <2>4
<1>11. ASSUME NEW s \in Records, InUse(s)'
       PROVE  liveAt'[s] \in DOMAIN live' /\ live'[liveAt'[s]] = s
  <2>1. s # r /\ liveAt[s] \in 1 .. n /\ live[liveAt[s]] = s
    BY <1>1, <1>11 DEF ListInv
  <2>2. CASE s = last
    <3>1. at # n
      BY <1>2, <2>1, <2>2
    <3> QED
      BY <1>2, <1>5, <1>6, <2>2, <3>1
  <2>3. CASE s # last
    <3>1. liveAt[s] # n /\ liveAt[s] # at
      BY <1>2, <2>1, <2>3
    <3> QED
      BY <1>2, <1>5, <1>6, <2>1, <2>3, <3>1
  <2> QED
    BY <2>2, <2>3
<1>12. Len(free') + Len(live') = MaxClaims
  BY <1>1, <1>2, <1>5, <1>7 DEF ListInv
<1> QED
  BY <1>5, <1>6, <1>7, <1>8, <1>9, <1>10, <1>11, <1>12 DEF ListInv

\* The record on top of free_.
LEMMA TopIsFree ==
  ASSUME TypeOK, ListInv, free # <<>>
  PROVE  Last(free) \in Records /\ ~InUse(Last(free))
<1>1. free \in Seq(Records)
  BY DEF TypeOK
<1>2. Len(free) \in DOMAIN free /\ Last(free) = free[Len(free)] /\ Last(free) \in Records
  BY <1>1, FrontFacts
<1> QED
  BY <1>2 DEF ListInv

\* submit pops the top of free_ and appends it to live_.
LEMMA TakeKeepsLists ==
  ASSUME TypeOK, ListInv, free # <<>>, NEW r, r = Last(free),
         free' = Front(free), live' = Append(live, r),
         liveAt' = [liveAt EXCEPT ![r] = Len(live) + 1],
         \A s \in Records : InUse(s)' <=> (InUse(s) \/ s = r)
  PROVE  /\ free' \in Seq(Records) /\ live' \in Seq(Records)
         /\ liveAt' \in [Records -> 0 .. MaxClaims]
         /\ ListInv'
<1> USE DEF InUse
<1> DEFINE n == Len(free)
<1>1. /\ free \in Seq(Records) /\ live \in Seq(Records)
      /\ liveAt \in [Records -> 0 .. MaxClaims]
  BY DEF TypeOK
<1>2. n \in Nat \ {0} /\ r = free[n] /\ r \in Records /\ ~InUse(r)
  BY <1>1, FrontFacts DEF ListInv
<1>3. /\ free' \in Seq(Records) /\ Len(free') = n - 1 /\ DOMAIN free' = 1 .. n - 1
      /\ \A i \in 1 .. n - 1 : free'[i] = free[i]
  BY <1>1, FrontFacts
<1>4. /\ live' \in Seq(Records) /\ Len(live') = Len(live) + 1
      /\ DOMAIN live' = 1 .. Len(live) + 1
      /\ \A i \in 1 .. Len(live) : live'[i] = live[i]
      /\ live'[Len(live) + 1] = r
  BY <1>1, <1>2, AppendFacts
<1>5. Len(live) + 1 \in 0 .. MaxClaims /\ Len(live) \in Nat
  BY <1>1, <1>2, SetAssumption DEF ListInv
<1>6. /\ liveAt' \in [Records -> 0 .. MaxClaims]
      /\ \A s \in Records : liveAt'[s] = IF s = r THEN Len(live) + 1 ELSE liveAt[s]
  BY <1>1, <1>2, <1>5
<1>7. /\ \A i \in DOMAIN free' : ~InUse(free[i])'
      /\ \A i, j \in DOMAIN free' : free'[i] = free'[j] => i = j
  <2>1. \A i \in 1 .. n - 1 : /\ i \in DOMAIN free /\ free[i] \in Records
                              /\ ~InUse(free[i]) /\ free[i] # r
    BY <1>1, <1>2 DEF ListInv
  <2>2. \A i, j \in DOMAIN free : free[i] = free[j] => i = j
    BY DEF ListInv
  <2>3. ASSUME NEW i \in 1 .. n - 1 PROVE ~InUse(free[i])'
    <3>1. free'[i] = free[i] /\ free[i] \in Records /\ free[i] # r /\ ~InUse(free[i])
      BY <1>3, <2>1
    <3> QED
      BY <3>1
  <2>4. ASSUME NEW i \in 1 .. n - 1, NEW j \in 1 .. n - 1, free'[i] = free'[j]
        PROVE  i = j
    <3>1. free[i] = free[j]
      BY <1>3, <2>4
    <3> QED
      BY <2>1, <2>2, <3>1
  <2>5. DOMAIN free' = 1 .. n - 1
    BY <1>3
  <2> HIDE DEF n, InUse
  <2> QED
    BY <2>3, <2>4, <2>5
<1>8. ASSUME NEW s \in Records, ~InUse(s)'
      PROVE  \E i \in DOMAIN free' : free'[i] = s
  <2>1. s # r /\ ~InUse(s)
    BY <1>8
  <2>2. PICK i \in DOMAIN free : free[i] = s
    BY <2>1 DEF ListInv
  <2>3. i \in 1 .. n /\ i # n
    BY <1>1, <1>2, <2>1, <2>2
  <2>4. i \in 1 .. n - 1
    BY <1>2, <2>3
  <2> QED
    BY <1>3, <2>2, <2>4
<1>9. ASSUME NEW i \in DOMAIN live'
      PROVE  InUse(live[i])' /\ liveAt'[live'[i]] = i
  <2>1. CASE i = Len(live) + 1
    BY <1>2, <1>4, <1>6, <2>1
  <2>2. CASE i # Len(live) + 1
    <3>1. i \in 1 .. Len(live)
      BY <1>4, <1>5, <2>2
    <3>2. live[i] \in Records /\ InUse(live[i]) /\ liveAt[live[i]] = i
      BY <1>1, <3>1 DEF ListInv
    <3> QED
      BY <1>2, <1>4, <1>6, <3>1, <3>2
  <2> QED
    BY <2>1, <2>2
<1>10. ASSUME NEW s \in Records, InUse(s)'
       PROVE  liveAt'[s] \in DOMAIN live' /\ live'[liveAt'[s]] = s
  <2>1. CASE s = r
    BY <1>4, <1>5, <1>6, <2>1
  <2>2. CASE s # r
    <3>1. liveAt[s] \in 1 .. Len(live) /\ live[liveAt[s]] = s
      BY <1>1, <1>10, <2>2 DEF ListInv
    <3> QED
      BY <1>4, <1>5, <1>6, <2>2, <3>1
  <2> QED
    BY <2>1, <2>2
<1>11. Len(free') + Len(live') = MaxClaims
  BY <1>1, <1>2, <1>3, <1>4, <1>5 DEF ListInv
<1> QED
  BY <1>3, <1>4, <1>6, <1>7, <1>8, <1>9, <1>10, <1>11 DEF ListInv

-----------------------------------------------------------------------------
(***************************************************************************)
(* Every step keeps the invariant.                                         *)
(***************************************************************************)

\* A step of a caller that waits, drains, wakes or times out, and a repeated answer
\* that is ignored, leave the records alone and do not interrupt a submit.
LEMMA QuietKeeps ==
  ASSUME SetInv, UNCHANGED <<setVars, mutex, claims, requests, contents>>,
         late' \subseteq late, call' \in [Threads -> Call],
         \A t \in Threads : /\ call'[t].pc = "recording" <=> call[t].pc = "recording"
                            /\ call[t].pc = "recording" => call'[t] = call[t]
  PROVE  SetInv'
<1> USE DEF SetInv, setVars
<1>1. \A r : InUse(r)' <=> InUse(r)
  BY DEF InUse
<1>2. mutex # None => mutex \in Threads /\ call'[mutex] = call[mutex]
  BY DEF TypeOK, MutexInv
<1>3. TypeOK'
  BY DEF TypeOK
<1>4. ListInv'
  BY <1>1, ListsKept
<1>5. RecordInv' /\ SpanInv'
  BY DEF RecordInv, SpanInv, InUse, Within, Apart
<1>6. RequestInv'
  BY <1>1, <1>2 DEF RequestInv, Within, Apart, Matches, Unrecorded
<1>7. MutexInv'
  BY <1>2 DEF MutexInv
<1>8. ClaimInv'
  BY <1>1 DEF ClaimInv
<1>9. LateInv'
  BY <1>2 DEF LateInv, Stale
<1>10. CountInv'
  BY DEF CountInv, HeldRecords, FlyingRecords
<1> QED
  BY <1>3, <1>4, <1>5, <1>6, <1>7, <1>8, <1>9, <1>10

\* submit, up to the backend's yes: a request for a free record, over bytes nobody uses.
LEMMA SubmitKeeps ==
  ASSUME SetInv, NEW t \in Threads, NEW source \in ByteRange, NEW destination \in Word,
         Submit(t, source, destination)
  PROVE  SetInv'
<1> USE DEF SetInv, setVars
<1>a. PICK r : r = Last(free)
  OBVIOUS
<1>b. PICK q : q = [record |-> r, generation |-> NextGen(records[r].generation),
                    offset |-> source.offset, destination |-> destination,
                    length |-> source.length]
  OBVIOUS
<1>1. /\ mutex = None /\ mutex' = t /\ t # None /\ call[t].pc = "idle"
      /\ requests' = requests \union {q}
      /\ late' = late \ {[record |-> r, generation |-> q.generation]}
      /\ contents' = [b \in DOMAIN contents |->
           IF b \in Span(destination, source.length) THEN None ELSE contents[b]]
      /\ call' = [call EXCEPT ![t] =
           [op |-> "submit", pc |-> "recording", record |-> r, deadline |-> FALSE]]
      /\ UNCHANGED <<setVars, claims>>
      /\ submit_status(source, destination) = "ok"
  BY <1>a, <1>b, SetAssumption DEF Submit
<1>2. /\ free # <<>> /\ source.length > 0
      /\ source.offset + source.length <= SourceBytes
      /\ destination + source.length <= DestinationBytes
      /\ \A s \in Records : InUse(s) =>
           \/ records[s].destination + records[s].length <= destination
           \/ destination + source.length <= records[s].destination
  BY <1>1, SubmitAdmits
<1>3. r \in Records /\ ~InUse(r)
  BY <1>a, <1>2, TopIsFree
<1>4. q \in Request
  <2>1. records[r].generation \in Generations
    BY <1>3 DEF TypeOK, Record
  <2>2. source.offset \in Word /\ source.length \in Word
    BY DEF ByteRange
  <2> QED
    BY <1>b, <1>3, <2>1, <2>2, NextGenTyped DEF Request
<1>5. /\ q.record = r /\ q.offset = source.offset /\ q.destination = destination
      /\ q.length = source.length /\ q.generation = NextGen(records[r].generation)
  BY <1>b
<1>6. \A s : InUse(s)' <=> InUse(s)
  BY <1>1 DEF InUse
<1>7. TypeOK'
  <2>1. call' \in [Threads -> Call]
    BY <1>1, <1>3 DEF TypeOK, Call
  <2>2. contents' \in [0 .. DestinationBytes - 1 -> (0 .. SourceBytes - 1) \union {None}]
    BY <1>1 DEF TypeOK
  <2> QED
    BY <1>1, <1>4, <2>1, <2>2 DEF TypeOK
<1>8. ListInv'
  BY <1>1, <1>6, ListsKept
<1>9. RecordInv' /\ SpanInv'
  BY <1>1 DEF RecordInv, SpanInv, InUse, Within, Apart
<1>10. RequestInv'
  <2>1. \A p \in requests : /\ Matches(p, p.record) /\ Matches(p, p.record)'
                            /\ p.record # r
    BY <1>1, <1>3 DEF RequestInv, Unrecorded, Matches, InUse
  <2>2. call'[t].record = r
    BY <1>1 DEF TypeOK
  <2>3. Within(q)' /\ (q.offset + q.length <= SourceBytes)' /\ Unrecorded(q)'
    BY <1>1, <1>2, <1>3, <1>5, <2>2 DEF Within, Unrecorded, InUse
  <2>4. \A s \in Records : InUse(s) => Apart(q, records[s])'
    BY <1>1, <1>2, <1>5 DEF Apart
  <2>5. \A p \in requests : Within(p)' /\ \A s \in Records : InUse(s) /\ s # p.record =>
                                                  Apart(p, records[s])'
    BY <1>1 DEF RequestInv, Within, Apart
  <2> QED
    BY <1>1, <1>5, <1>6, <2>1, <2>3, <2>4, <2>5 DEF RequestInv
<1>11. MutexInv'
  <2>1. \A u \in Threads : call'[u].pc = "recording" <=> u = t
    BY <1>1, SetAssumption DEF TypeOK, MutexInv
  <2>2. call'[t].record = r
    BY <1>1 DEF TypeOK
  <2> QED
    BY <1>a, <1>1, <1>2, <1>5, <2>1, <2>2 DEF MutexInv
<1>12. ClaimInv'
  <2>1. ASSUME NEW c \in claims
        PROVE  /\ \A p \in requests' : p.record = c.record => p.offset = c.offset
               /\ records[c.record].state = "completed" =>
                    \A b \in Span(c.destination, c.length) :
                      contents'[b] = c.offset + (b - c.destination)
    <3>1. InUse(c.record) /\ c.record # r /\ c.record \in Records
      BY <1>3 DEF ClaimInv, TypeOK, Claim
    <3>2. /\ c.destination \in Nat /\ c.length \in Nat
          /\ destination \in Nat /\ source.length \in Nat
      BY DEF TypeOK, Claim, Word, ByteRange
    <3>3. \/ c.destination + c.length <= destination
          \/ destination + source.length <= c.destination
      BY <1>2, <3>1 DEF ClaimInv
    <3>4. Span(c.destination, c.length) \subseteq DOMAIN contents
      <4>1. Within(c)
        BY <3>1 DEF ClaimInv, RecordInv, Within
      <4> QED
        BY <3>2, <4>1, WithinSpan DEF TypeOK
    <3>5. \A b \in Span(c.destination, c.length) : contents'[b] = contents[b]
      <4>1. \A b \in Span(c.destination, c.length) : b \notin Span(destination, source.length)
        BY <3>2, <3>3 DEF Span
      <4> QED
        BY <1>1, <3>4, <4>1
    <3> QED
      BY <1>1, <1>5, <3>1, <3>5 DEF ClaimInv
  <2> QED
    BY <1>1, <1>6, <2>1 DEF ClaimInv
<1>13. LateInv'
  <2>1. call'[t].record = r
    BY <1>1 DEF TypeOK
  <2>2. ASSUME NEW token \in late'
        PROVE  /\ Stale(token)'
               /\ token.record = r => token.generation # NextGen(records[r].generation)
    <3>1. token \in late /\ token \in Token
      BY <1>1, <2>2 DEF TypeOK
    <3>2. Stale(token)'
      BY <1>1, <3>1 DEF LateInv, Stale
    <3>3. token = [record |-> token.record, generation |-> token.generation]
      BY <3>1 DEF Token
    <3> QED
      BY <1>1, <1>5, <3>2, <3>3
  <2> QED
    BY <1>1, <2>1, <2>2 DEF LateInv
<1>14. CountInv'
  BY <1>1 DEF CountInv, HeldRecords, FlyingRecords
<1> QED
  BY <1>7, <1>8, <1>9, <1>10, <1>11, <1>12, <1>13, <1>14

\* submit, from the backend's yes to the claim: the record of the request goes live.
LEMMA RecordClaimKeeps ==
  ASSUME SetInv, NEW t \in Threads, RecordClaim(t)
  PROVE  SetInv'
<1> USE DEF SetInv, setVars
<1>a. PICK q \in requests :
        /\ q.record = call[t].record
        /\ q.generation = NextGen(records[q.record].generation)
        /\ records' = [records EXCEPT ![q.record] =
             [destination |-> q.destination, length |-> q.length,
              generation |-> q.generation, state |-> "submitted",
              result |-> "pending", held |-> TRUE]]
        /\ free' = Front(free)
        /\ live' = Append(live, q.record)
        /\ liveAt' = [liveAt EXCEPT ![q.record] = Len(live) + 1]
        /\ claims' = claims \union
             {[owner |-> t, record |-> q.record, generation |-> q.generation,
               offset |-> q.offset, destination |-> q.destination,
               length |-> q.length]}
  BY Zenon DEF RecordClaim
<1>b. PICK new : new = [owner |-> t, record |-> q.record, generation |-> q.generation,
                        offset |-> q.offset, destination |-> q.destination,
                        length |-> q.length]
  OBVIOUS
<1>c. PICK r : r = q.record
  OBVIOUS
<1>1. /\ call[t].pc = "recording" /\ held' = held + 1 /\ inFlight' = inFlight + 1
      /\ mutex' = None /\ call' = [call EXCEPT ![t] = Idle]
      /\ UNCHANGED <<requests, late, contents>>
  BY DEF RecordClaim
<1>2. mutex = t /\ mutex # None /\ free # <<>> /\ r = Last(free) /\ r = call[t].record
  BY <1>1, <1>a, <1>c, SetAssumption DEF MutexInv
<1>3. r \in Records /\ ~InUse(r)
  BY <1>2, TopIsFree
<1>4. q \in Request
  BY DEF TypeOK
<1>5. /\ r = q.record
      /\ records' = [records EXCEPT ![r] =
             [destination |-> q.destination, length |-> q.length,
              generation |-> q.generation, state |-> "submitted",
              result |-> "pending", held |-> TRUE]]
      /\ free' = Front(free) /\ live' = Append(live, r)
      /\ liveAt' = [liveAt EXCEPT ![r] = Len(live) + 1]
      /\ claims' = claims \union {new}
  BY <1>a, <1>b, <1>c
<1>6. records \in [Records -> Record]
  BY DEF TypeOK
<1>7. /\ records'[r].destination = q.destination /\ records'[r].length = q.length
      /\ records'[r].generation = q.generation /\ records'[r].state = "submitted"
      /\ records'[r].result = "pending" /\ records'[r].held = TRUE
      /\ \A s \in Records : s # r => records'[s] = records[s]
  BY <1>3, <1>5, <1>6
<1>8. records' \in [Records -> Record]
  <2>1. [destination |-> q.destination, length |-> q.length,
         generation |-> q.generation, state |-> "submitted",
         result |-> "pending", held |-> TRUE] \in Record
    BY <1>4 DEF Request, Record, RecordState, Status
  <2> QED
    BY <1>5, <1>6, <2>1
<1>9. \A s \in Records : InUse(s)' <=> (InUse(s) \/ s = r)
  BY <1>7 DEF InUse
<1>10. /\ new.owner = t /\ new.record = r /\ new.generation = q.generation
       /\ new.offset = q.offset /\ new.destination = q.destination
       /\ new.length = q.length /\ new \in Claim
  BY <1>b, <1>c, <1>3, <1>4 DEF Request, Claim
<1>11. /\ free' \in Seq(Records) /\ live' \in Seq(Records)
       /\ liveAt' \in [Records -> 0 .. MaxClaims] /\ ListInv'
  BY <1>2, <1>5, <1>9, TakeKeepsLists
<1>12. TypeOK'
  <2>1. call' \in [Threads -> Call]
    <3>1. Idle \in Call
      BY SetAssumption DEF Idle, Call, Records
    <3> QED
      BY <1>1, <3>1 DEF TypeOK
  <2> QED
    BY <1>1, <1>5, <1>8, <1>10, <1>11, <2>1 DEF TypeOK
<1>13. Within(q) /\ \A s \in Records : InUse(s) => Apart(q, records[s])
  BY <1>3, <1>5 DEF RequestInv
<1>14. RecordInv'
  <2>1. Within(records[r])'
    BY <1>7, <1>13 DEF Within
  <2>2. \A s \in Records : s # r => (Within(records[s])' <=> Within(records[s]))
    BY <1>7 DEF Within
  <2> QED
    BY <1>7, <1>9, <2>1, <2>2 DEF RecordInv
<1>15. SpanInv'
  <2>1. ASSUME NEW s \in Records, InUse(s), s # r
        PROVE  Apart(records[s], records[r])' /\ Apart(records[r], records[s])'
    BY <1>7, <1>13, <2>1 DEF Apart
  <2>2. ASSUME NEW s \in Records, NEW u \in Records, s # r, u # r, s # u,
               InUse(s), InUse(u)
        PROVE  Apart(records[s], records[u])'
    BY <1>7, <2>2 DEF SpanInv, Apart
  <2> QED
    BY <1>9, <2>1, <2>2 DEF SpanInv
<1>16. \A p \in requests : p # q => p.record # r /\ Matches(p, p.record)
  <2>1. \A p \in requests : p.record = r => p = q
    BY <1>5 DEF RequestInv
  <2> QED
    BY <1>2, <2>1 DEF RequestInv, Unrecorded
<1>17. RequestInv'
  <2>1. \A p \in requests : p.record \in Records
    BY DEF TypeOK, Request
  <2>2. \A p \in requests : Matches(p, p.record)'
    BY <1>5, <1>7, <1>16, <2>1 DEF Matches
  <2>3. ASSUME NEW p \in requests, NEW s \in Records, InUse(s)', s # p.record
        PROVE  Apart(p, records[s])'
    <3>1. CASE s = r
      <4>1. p # q /\ InUse(p.record) /\ Matches(p, p.record)
        BY <1>5, <1>16, <2>3, <3>1 DEF Matches, InUse
      <4>2. Apart(q, records[p.record])
        BY <1>13, <2>1, <4>1
      <4> QED
        BY <1>7, <3>1, <4>1, <4>2 DEF Apart, Matches
    <3>2. CASE s # r
      BY <1>7, <1>9, <2>3, <3>2 DEF RequestInv, Apart
    <3> QED
      BY <3>1, <3>2
  <2>4. ASSUME NEW s \in Records, records'[s].state = "submitted"
        PROVE  \E p \in requests : p.record = s
    BY <1>5, <1>7, <2>4 DEF RequestInv
  <2>5. \A p \in requests : Within(p)' /\ \A o \in requests : o.record = p.record => o = p
    BY DEF RequestInv, Within
  <2>6. \A p \in requests : p.offset + p.length <= SourceBytes
    BY DEF RequestInv
  <2> QED
    BY <1>1, <2>2, <2>3, <2>4, <2>5, <2>6 DEF RequestInv
<1>18. MutexInv'
  <2>1. \A u \in Threads : call'[u].pc # "recording"
    BY <1>1, <1>2 DEF TypeOK, MutexInv, Idle
  <2> QED
    BY <1>1, <2>1, SetAssumption DEF MutexInv
<1>19. ClaimInv'
  <2>1. \A c \in claims : c.record \in Records /\ c.record # r
    BY <1>3 DEF TypeOK, Claim, ClaimInv
  <2>2. \A s \in Records : records'[s].held => \E c \in claims' : c.record = s
    BY <1>5, <1>7, <1>10 DEF ClaimInv
  <2>3. \A p \in requests' : p.record = new.record => p.offset = new.offset
    BY <1>1, <1>5, <1>10 DEF RequestInv
  <2>4. \A c, d \in claims' : c.record = d.record => c = d
    BY <1>5, <1>10, <2>1 DEF ClaimInv
  <2>5. ASSUME NEW c \in claims
        PROVE  /\ InUse(c.record)' /\ records'[c.record] = records[c.record]
               /\ \A p \in requests' : p.record = c.record => p.offset = c.offset
    BY <1>1, <1>7, <1>9, <2>1 DEF ClaimInv
  <2>6. InUse(new.record)'
    BY <1>3, <1>9, <1>10
  <2> QED
    BY <1>1, <1>5, <1>7, <1>10, <2>2, <2>3, <2>4, <2>5, <2>6 DEF ClaimInv
<1>20. LateInv'
  <2>1. \A token \in late : token.record \in Records
    BY DEF TypeOK, Token
  <2>2. ASSUME NEW token \in late
        PROVE  Stale(token)'
    <3>1. CASE token.record = r
      BY <1>2, <1>5, <1>7, <3>1, <1>a DEF LateInv, Stale
    <3>2. CASE token.record # r
      BY <1>7, <2>1, <3>2 DEF LateInv, Stale
    <3> QED
      BY <3>1, <3>2
  <2> QED
    BY <1>1, <2>2 DEF LateInv
<1>21. CountInv'
  <2>1. ~records[r].held /\ records[r].state # "submitted"
    BY <1>3 DEF RecordInv, InUse
  <2>2. /\ HeldRecords' = HeldRecords \union {r} /\ r \notin HeldRecords
        /\ FlyingRecords' = FlyingRecords \union {r} /\ r \notin FlyingRecords
    BY <1>3, <1>7, <2>1 DEF HeldRecords, FlyingRecords
  <2>3. /\ Cardinality(HeldRecords') = Cardinality(HeldRecords) + 1
        /\ Cardinality(FlyingRecords') = Cardinality(FlyingRecords) + 1
    BY <2>2, RecordSetsFinite, CountUp
  <2> QED
    BY <1>1, <2>3 DEF CountInv
<1> QED
  BY <1>11, <1>12, <1>14, <1>15, <1>17, <1>18, <1>19, <1>20, <1>21

\* A claim's bytes are in the destination and no other record's.
LEMMA ClaimsApart ==
  ASSUME SetInv, NEW c \in claims, NEW r \in Records, InUse(r), c.record # r
  PROVE  /\ Span(c.destination, c.length) \subseteq 0 .. DestinationBytes - 1
         /\ Span(c.destination, c.length) \intersect
              Span(records[r].destination, records[r].length) = {}
<1> USE DEF SetInv
<1>1. PICK s \in Records : s = c.record
  BY DEF TypeOK, Claim
<1>2. /\ records[s].destination = c.destination /\ records[s].length = c.length
      /\ InUse(s)
  BY <1>1 DEF ClaimInv
<1>3. /\ records[r].destination \in Nat /\ records[r].length \in Nat
      /\ records[s].destination \in Nat /\ records[s].length \in Nat
  BY DEF TypeOK, Record, Word
<1>4. Apart(records[s], records[r]) /\ Within(records[s])
  BY <1>1, <1>2 DEF SpanInv, RecordInv
<1>5. Span(records[s].destination, records[s].length) \subseteq 0 .. DestinationBytes - 1
  BY <1>3, <1>4, WithinSpan
<1>6. Span(records[s].destination, records[s].length) \intersect
        Span(records[r].destination, records[r].length) = {}
  BY <1>3, <1>4, ApartDisjoint
<1> QED
  BY <1>2, <1>5, <1>6

\* A record that is neither held nor written any more goes back to free_ with its
\* claim, if it had one, or its request gone: what release and landing share.
LEMMA FreedKeeps ==
  ASSUME SetInv, mutex = None, mutex' = None, NEW r \in Records, InUse(r),
         records' = [records EXCEPT ![r] = FreeRecord(records[r].generation)],
         retire_record(r),
         claims' = {c \in claims : c.record # r},
         requests' = {q \in requests : q.record # r},
         late' \subseteq Token, \A token \in late' : token \in late \/ token.record = r,
         call' \in [Threads -> Call], \A t \in Threads : call'[t].pc # "recording",
         contents' \in [0 .. DestinationBytes - 1 -> (0 .. SourceBytes - 1) \union {None}],
         \A b \in DOMAIN contents :
           b \in Span(records[r].destination, records[r].length) \/ contents'[b] = contents[b],
         held' = IF records[r].held THEN held - 1 ELSE held,
         inFlight' = IF records[r].state = "submitted" THEN inFlight - 1 ELSE inFlight
  PROVE  SetInv'
<1> USE DEF SetInv, setVars
<1>1. records \in [Records -> Record]
  BY DEF TypeOK
<1>2. /\ records'[r] = FreeRecord(records[r].generation)
      /\ \A s \in Records : s # r => records'[s] = records[s]
  BY <1>1
<1>3. /\ records'[r].state = "free" /\ ~records'[r].held /\ records'[r].result = "pending"
      /\ records'[r].held = FALSE
  BY <1>2 DEF FreeRecord
<1>4. \A s \in Records : InUse(s)' <=> (InUse(s) /\ s # r)
  BY <1>2, <1>3 DEF InUse
<1>5. /\ free' \in Seq(Records) /\ live' \in Seq(Records)
      /\ liveAt' \in [Records -> 0 .. MaxClaims] /\ ListInv'
  BY <1>4, RetireKeepsLists
<1>6. TypeOK'
  <2>1. FreeRecord(records[r].generation) \in Record
    <3>1. 0 \in Word /\ records[r].generation \in Generations
      BY <1>1, WordAssumption DEF Word, Record
    <3> QED
      BY <3>1 DEF FreeRecord, Record, RecordState, Status
  <2>2. records' \in [Records -> Record]
    BY <1>1, <2>1
  <2>3. held' \in Int /\ inFlight' \in Int
    BY DEF TypeOK
  <2> QED
    BY <1>5, <2>2, <2>3 DEF TypeOK
<1>7. \A s \in Records : s # r => /\ Within(records[s])' <=> Within(records[s])
                                  /\ \A u \in Records : u # r =>
                                       (Apart(records[s], records[u])' <=>
                                        Apart(records[s], records[u]))
  BY <1>2 DEF Within, Apart
<1>8. RecordInv'
  BY <1>2, <1>3, <1>4, <1>7 DEF RecordInv
<1>9. SpanInv'
  BY <1>4, <1>7 DEF SpanInv
<1>10. RequestInv'
  <2>1. \A q \in requests' : q \in requests /\ q.record \in Records /\ q.record # r
    BY DEF TypeOK, Request
  <2>2. \A q \in requests' : Matches(q, q.record)'
    BY <1>2, <2>1 DEF RequestInv, Unrecorded, Matches
  <2>3. ASSUME NEW q \in requests', NEW s \in Records, InUse(s)', s # q.record
        PROVE  Apart(q, records[s])'
    <3>1. Apart(q, records[s]) /\ records'[s] = records[s]
      BY <1>2, <1>4, <2>1, <2>3 DEF RequestInv
    <3> QED
      BY <3>1 DEF Apart
  <2>4. ASSUME NEW s \in Records, records'[s].state = "submitted"
        PROVE  \E q \in requests' : q.record = s
    BY <1>2, <1>3, <2>4 DEF RequestInv
  <2>5. \A q \in requests' : /\ Within(q)' /\ q.offset + q.length <= SourceBytes
                             /\ \A p \in requests' : p.record = q.record => p = q
    BY <2>1 DEF RequestInv, Within
  <2> QED
    BY <2>2, <2>3, <2>4, <2>5 DEF RequestInv
<1>11. MutexInv'
  BY SetAssumption DEF MutexInv
<1>12. ClaimInv'
  <2>1. ASSUME NEW c \in claims'
        PROVE  /\ c \in claims /\ InUse(c.record)' /\ records'[c.record] = records[c.record]
               /\ records[c.record].state = "completed" =>
                    \A b \in Span(c.destination, c.length) :
                      contents'[b] = c.offset + (b - c.destination)
    <3>1. c \in claims /\ c.record \in Records /\ c.record # r /\ InUse(c.record)
      BY <2>1 DEF TypeOK, Claim, ClaimInv
    <3>4. /\ Span(c.destination, c.length) \subseteq 0 .. DestinationBytes - 1
          /\ Span(c.destination, c.length) \intersect
               Span(records[r].destination, records[r].length) = {}
      BY <3>1, ClaimsApart
    <3>5. \A b \in Span(c.destination, c.length) : contents'[b] = contents[b]
      BY <3>4 DEF TypeOK
    <3> QED
      BY <1>2, <1>4, <3>1, <3>5 DEF ClaimInv
  <2>2. \A s \in Records : records'[s].held => \E c \in claims' : c.record = s
    BY <1>2, <1>3 DEF ClaimInv
  <2>3. \A c, d \in claims' : c.record = d.record => c = d
    BY DEF ClaimInv
  <2>4. \A c \in claims' : \A q \in requests' : q.record = c.record => q.offset = c.offset
    BY DEF ClaimInv
  <2> QED
    BY <2>1, <2>2, <2>3, <2>4 DEF ClaimInv
<1>13. LateInv'
  <2>1. ASSUME NEW token \in late' PROVE Stale(token)'
    <3>1. token.record \in Records
      BY <2>1 DEF Token
    <3>2. CASE token.record = r
      BY <1>3, <3>2 DEF Stale
    <3>3. CASE token.record # r
      BY <1>2, <3>1, <3>3, <2>1 DEF LateInv, Stale
    <3> QED
      BY <3>2, <3>3
  <2> QED
    BY <2>1 DEF LateInv
<1>14. CountInv'
  <2>1. HeldRecords' = HeldRecords \ {r} /\ FlyingRecords' = FlyingRecords \ {r}
    BY <1>2, <1>3 DEF HeldRecords, FlyingRecords
  <2>2. held' = Cardinality(HeldRecords')
    <3>1. CASE records[r].held
      <4>1. r \in HeldRecords
        BY <3>1 DEF HeldRecords
      <4>2. Cardinality(HeldRecords') = Cardinality(HeldRecords) - 1
        BY <2>1, <4>1, RecordSetsFinite, CountDown
      <4> QED
        BY <3>1, <4>2 DEF CountInv
    <3>2. CASE ~records[r].held
      <4>1. HeldRecords' = HeldRecords
        BY <2>1, <3>2 DEF HeldRecords
      <4> QED
        BY <3>2, <4>1 DEF CountInv
    <3> QED
      BY <3>1, <3>2
  <2>3. inFlight' = Cardinality(FlyingRecords')
    <3>1. CASE records[r].state = "submitted"
      <4>1. r \in FlyingRecords
        BY <3>1 DEF FlyingRecords
      <4>2. Cardinality(FlyingRecords') = Cardinality(FlyingRecords) - 1
        BY <2>1, <4>1, RecordSetsFinite, CountDown
      <4> QED
        BY <3>1, <4>2 DEF CountInv
    <3>2. CASE records[r].state # "submitted"
      <4>1. FlyingRecords' = FlyingRecords
        BY <2>1, <3>2 DEF FlyingRecords
      <4> QED
        BY <3>2, <4>1 DEF CountInv
    <3> QED
      BY <3>1, <3>2
  <2> QED
    BY <2>2, <2>3 DEF CountInv
<1> QED
  BY <1>5, <1>6, <1>8, <1>9, <1>10, <1>11, <1>12, <1>13, <1>14

\* A submitted record that stays in use after its claim, or its request, is gone.
LEMMA StaysKeeps ==
  ASSUME SetInv, mutex = None, mutex' = None, NEW r \in Records,
         records[r].state = "submitted",
         NEW x \in Record, records' = [records EXCEPT ![r] = x],
         x.destination = records[r].destination, x.length = records[r].length,
         x.generation = records[r].generation, x.state # "free",
         x.state \in {"completed", "failed"} => x.held,
         x.state = "completed" <=> x.result = "ok",
         UNCHANGED <<free, live, liveAt>>,
         requests' = {q \in requests : q.record # r \/ x.state = "submitted"},
         x.held => records[r].held,
         claims' = {c \in claims : c.record # r \/ x.held},
         late' \subseteq Token,
         \A token \in late' : token \in late \/ (token.record = r /\ x.state # "submitted"),
         call' \in [Threads -> Call], \A t \in Threads : call'[t].pc # "recording",
         contents' \in [0 .. DestinationBytes - 1 -> (0 .. SourceBytes - 1) \union {None}],
         \A b \in DOMAIN contents :
           b \in Span(records[r].destination, records[r].length) \/ contents'[b] = contents[b],
         x.state = "completed" =>
           \A q \in requests : q.record = r =>
             \A b \in Span(q.destination, q.length) :
               contents'[b] = q.offset + (b - q.destination),
         held' = IF records[r].held /\ ~x.held THEN held - 1 ELSE held,
         inFlight' = IF x.state # "submitted" THEN inFlight - 1 ELSE inFlight
  PROVE  SetInv'
<1> USE DEF SetInv, setVars
<1>1. records \in [Records -> Record] /\ records' \in [Records -> Record]
  BY DEF TypeOK
<1>2. records'[r] = x /\ \A s \in Records : s # r => records'[s] = records[s]
  BY <1>1
<1>3. \A s \in Records : InUse(s)' <=> InUse(s)
  BY <1>2 DEF InUse
<1>4. TypeOK'
  <2>1. held' \in Int /\ inFlight' \in Int
    BY DEF TypeOK
  <2>2. claims' \subseteq Claim /\ requests' \subseteq Request
    BY DEF TypeOK
  <2> QED
    BY <1>1, <2>1, <2>2 DEF TypeOK
<1>5. ListInv'
  BY <1>3, ListsKept
<1>6. \A s \in Records : /\ records'[s].destination = records[s].destination
                         /\ records'[s].length = records[s].length
                         /\ records'[s].generation = records[s].generation
  BY <1>2
<1>7. RecordInv'
  <2>1. \A s \in Records : Within(records[s])' <=> Within(records[s])
    BY <1>6 DEF Within
  <2>2. InUse(r)
    BY DEF InUse
  <2> QED
    BY <1>2, <1>3, <2>1, <2>2 DEF RecordInv
<1>8. SpanInv'
  BY <1>3, <1>6 DEF SpanInv, Apart
<1>9. RequestInv'
  <2>1. \A q \in requests' : q \in requests /\ q.record \in Records
    BY DEF TypeOK, Request
  <2>2. \A q \in requests' : Matches(q, q.record)'
    BY <1>2, <2>1 DEF RequestInv, Unrecorded, Matches
  <2>3. ASSUME NEW q \in requests', NEW s \in Records, InUse(s)', s # q.record
        PROVE  Apart(q, records[s])'
    <3>1. Apart(q, records[s])
      BY <1>3, <2>1, <2>3 DEF RequestInv
    <3> QED
      BY <1>6, <3>1 DEF Apart
  <2>4. ASSUME NEW s \in Records, records'[s].state = "submitted"
        PROVE  \E q \in requests' : q.record = s
    BY <1>2, <2>4 DEF RequestInv
  <2>5. \A q \in requests' : /\ Within(q)' /\ q.offset + q.length <= SourceBytes
                             /\ \A p \in requests' : p.record = q.record => p = q
    BY <2>1 DEF RequestInv, Within
  <2> QED
    BY <2>2, <2>3, <2>4, <2>5 DEF RequestInv
<1>10. MutexInv'
  BY SetAssumption DEF MutexInv
<1>11. ClaimInv'
  <2>1. ASSUME NEW c \in claims', c.record # r
        PROVE  /\ records'[c.record] = records[c.record]
               /\ records[c.record].state = "completed" =>
                    \A b \in Span(c.destination, c.length) :
                      contents'[b] = c.offset + (b - c.destination)
    <3>1. c \in claims /\ c.record \in Records /\ InUse(c.record) /\ InUse(r)
      BY DEF TypeOK, Claim, ClaimInv, InUse
    <3>4. /\ Span(c.destination, c.length) \subseteq 0 .. DestinationBytes - 1
          /\ Span(c.destination, c.length) \intersect
               Span(records[r].destination, records[r].length) = {}
      BY <2>1, <3>1, ClaimsApart
    <3>5. \A b \in Span(c.destination, c.length) : contents'[b] = contents[b]
      BY <3>4 DEF TypeOK
    <3> QED
      BY <1>2, <2>1, <3>1, <3>5 DEF ClaimInv
  <2>2. ASSUME NEW c \in claims', c.record = r, x.state = "completed"
        PROVE  \A b \in Span(c.destination, c.length) :
                 contents'[b] = c.offset + (b - c.destination)
    <3>1. PICK q \in requests : q.record = r
      BY DEF RequestInv
    <3>2. Matches(q, r)
      BY <3>1 DEF RequestInv, Unrecorded
    <3>3. c \in claims /\ q.offset = c.offset
      BY <2>2, <3>1 DEF ClaimInv
    <3>4. q.destination = c.destination /\ q.length = c.length
      BY <2>2, <3>2, <3>3 DEF Matches, ClaimInv
    <3> QED
      BY <2>2, <3>1, <3>3, <3>4
  <2>3. \A s \in Records : records'[s].held => \E c \in claims' : c.record = s
    BY <1>2 DEF ClaimInv
  <2>4. \A c, d \in claims' : c.record = d.record => c = d
    BY DEF ClaimInv
  <2>5. \A c \in claims' : \A q \in requests' : q.record = c.record => q.offset = c.offset
    BY DEF ClaimInv
  <2>6. \A c \in claims' : /\ c \in claims /\ c.record \in Records
                           /\ InUse(c.record)' /\ records'[c.record].held
    BY <1>2, <1>3 DEF TypeOK, Claim, ClaimInv
  <2>7. \A c \in claims' : records'[c.record].state = "completed" =>
          \A b \in Span(c.destination, c.length) :
            contents'[b] = c.offset + (b - c.destination)
    BY <1>2, <2>1, <2>2
  <2>8. \A c \in claims' : /\ records'[c.record].generation = c.generation
                           /\ records'[c.record].destination = c.destination
                           /\ records'[c.record].length = c.length
    BY <1>6, <2>6 DEF ClaimInv
  <2> QED
    BY <2>3, <2>4, <2>5, <2>6, <2>7, <2>8 DEF ClaimInv
<1>12. LateInv'
  <2>1. ASSUME NEW token \in late' PROVE Stale(token)'
    <3>1. token.record \in Records
      BY <2>1 DEF Token
    <3>2. CASE token \in late
      <4>1. Stale(token)
        BY <3>2 DEF LateInv
      <4>2. CASE token.record = r
        BY <1>2, <4>1, <4>2 DEF Stale
      <4>3. CASE token.record # r
        BY <1>2, <3>1, <4>1, <4>3 DEF Stale
      <4> QED
        BY <4>2, <4>3
    <3>3. CASE token.record = r /\ x.state # "submitted"
      BY <1>2, <3>3 DEF Stale
    <3> QED
      BY <2>1, <3>2, <3>3
  <2> QED
    BY <2>1 DEF LateInv
<1>13. CountInv'
  <2>1. held' = Cardinality(HeldRecords')
    <3>1. CASE records[r].held /\ ~x.held
      <4>1. r \in HeldRecords /\ HeldRecords' = HeldRecords \ {r}
        BY <1>2, <3>1 DEF HeldRecords
      <4>2. Cardinality(HeldRecords') = Cardinality(HeldRecords) - 1
        BY <4>1, RecordSetsFinite, CountDown
      <4> QED
        BY <3>1, <4>2 DEF CountInv
    <3>2. CASE ~(records[r].held /\ ~x.held)
      <4>1. HeldRecords' = HeldRecords
        BY <1>2, <3>2 DEF HeldRecords
      <4> QED
        BY <3>2, <4>1 DEF CountInv
    <3> QED
      BY <3>1, <3>2
  <2>2. inFlight' = Cardinality(FlyingRecords')
    <3>1. CASE x.state # "submitted"
      <4>1. r \in FlyingRecords /\ FlyingRecords' = FlyingRecords \ {r}
        BY <1>2, <3>1 DEF FlyingRecords
      <4>2. Cardinality(FlyingRecords') = Cardinality(FlyingRecords) - 1
        BY <4>1, RecordSetsFinite, CountDown
      <4> QED
        BY <3>1, <4>2 DEF CountInv
    <3>2. CASE x.state = "submitted"
      <4>1. FlyingRecords' = FlyingRecords
        BY <1>2, <3>2 DEF FlyingRecords
      <4> QED
        BY <3>2, <4>1 DEF CountInv
    <3> QED
      BY <3>1, <3>2
  <2> QED
    BY <2>1, <2>2 DEF CountInv
<1> QED
  BY <1>4, <1>5, <1>7, <1>8, <1>9, <1>10, <1>11, <1>12, <1>13

\* Claim::reset frees a settled record and leaves a submitted one to its writer.
LEMMA ReleaseKeeps ==
  ASSUME SetInv, NEW t \in Threads, NEW claim \in claims, ReleaseClaim(t, claim)
  PROVE  SetInv'
<1> USE DEF SetInv, setVars
<1>a. PICK r : r = claim.record
  OBVIOUS
<1>1. /\ mutex = None /\ mutex' = None /\ held' = held - 1 /\ claims' = claims \ {claim}
      /\ UNCHANGED <<inFlight, call, requests, late, contents>>
  BY DEF ReleaseClaim
<1>2. /\ r \in Records /\ InUse(r) /\ records[r].held
      /\ records[r].generation = claim.generation
  BY <1>a DEF ClaimInv, TypeOK, Claim
<1>3. claims' = {c \in claims : c.record # r}
  BY <1>a, <1>1 DEF ClaimInv
<1>4. /\ call' \in [Threads -> Call] /\ \A u \in Threads : call'[u].pc # "recording"
      /\ late' \subseteq Token
      /\ contents' \in [0 .. DestinationBytes - 1 -> (0 .. SourceBytes - 1) \union {None}]
  BY <1>1, SetAssumption DEF TypeOK, MutexInv
<1>5. CASE records[r].state # "submitted"
  <2>1. /\ records' = [records EXCEPT ![r] = FreeRecord(records[r].generation)]
        /\ retire_record(r)
    BY <1>a, <1>2, <1>5 DEF ReleaseClaim, FreesNow
  <2>2. requests' = {q \in requests : q.record # r}
    BY <1>1, <1>5 DEF RequestInv, Unrecorded, Matches
  <2> QED
    BY <1>1, <1>2, <1>3, <1>4, <1>5, <2>1, <2>2, FreedKeeps
<1>6. CASE records[r].state = "submitted"
  <2>a. PICK x : x = [records[r] EXCEPT !.held = FALSE]
    OBVIOUS
  <2>1. records' = [records EXCEPT ![r] = x] /\ UNCHANGED <<free, live, liveAt>>
    BY <1>a, <1>6, <2>a DEF ReleaseClaim, FreesNow
  <2>2. records[r] \in Record
    BY <1>2 DEF TypeOK
  <2>3. /\ x \in Record /\ x.state = "submitted" /\ ~x.held
        /\ x.destination = records[r].destination /\ x.length = records[r].length
        /\ x.generation = records[r].generation /\ x.result = records[r].result
    BY <1>6, <2>a, <2>2 DEF Record
  <2>4. x.result # "ok"
    BY <1>2, <1>6, <2>3 DEF RecordInv
  <2>5. /\ requests' = {q \in requests : q.record # r \/ x.state = "submitted"}
        /\ claims' = {c \in claims : c.record # r \/ x.held}
    BY <1>1, <1>3, <2>3
  <2> QED
    BY <1>1, <1>2, <1>4, <1>6, <2>1, <2>3, <2>4, <2>5, StaysKeeps
<1> QED
  BY <1>5, <1>6

\* An answer is classified as ok only when it is ok and whole.
LEMMA ClassifyTyped ==
  ASSUME NEW result \in FillResults, NEW length \in Nat
  PROVE  /\ classify_fill(result, length) \in Status
         /\ classify_fill(result, length) = "ok" <=>
              result.status = "ok" /\ result.bytes = length
         /\ result.bytes \in Nat
<1>1. result.status \in Status /\ result.bytes \in Nat
  BY SubmissionAssumption DEF FillResult
<1> QED
  BY <1>1 DEF classify_fill, Status

\* The first answer to a request lands: it finds the record the request is for.
LEMMA CompleteLands ==
  ASSUME SetInv, NEW q \in requests, NEW result \in FillResults, Complete(q, result)
  PROVE  /\ mutex = None /\ mutex' = None /\ UNCHANGED claims
         /\ q.record \in Records /\ Matches(q, q.record)
         /\ Land(TokenOf(q), result)
         /\ requests' = {p \in requests : p.record # q.record}
         /\ late' \in {late, late \union {TokenOf(q)}}
         /\ inFlight' = inFlight - 1
<1> USE DEF SetInv
<1>1. /\ mutex = None /\ UNCHANGED <<mutex, claims>> /\ requests' = requests \ {q}
      /\ late' \in {late, late \union {TokenOf(q)}}
      /\ \/ Stale(TokenOf(q)) /\ UNCHANGED <<setVars, call>>
         \/ ~Stale(TokenOf(q)) /\ Land(TokenOf(q), result)
  BY DEF Complete, on_complete, Lockable
<1>2. q.record \in Records /\ Matches(q, q.record)
  BY <1>1 DEF TypeOK, Request, RequestInv, Unrecorded
<1>3. ~Stale(TokenOf(q))
  BY <1>2 DEF Stale, TokenOf, Matches
<1>4. requests' = {p \in requests : p.record # q.record}
  BY <1>1 DEF RequestInv
<1>5. inFlight' = inFlight - 1
  BY <1>1, <1>3 DEF Land
<1> QED
  BY <1>1, <1>2, <1>3, <1>4, <1>5

\* on_complete wakes the sleepers and touches nobody else.
LEMMA NotifyKeepsCalls ==
  ASSUME TypeOK, notify_all
  PROVE  /\ call' \in [Threads -> Call]
         /\ \A t \in Threads : call'[t].pc = "recording" <=> call[t].pc = "recording"
<1>1. \A t \in Threads : call[t] \in Call
  BY DEF TypeOK
<1>2. \A t \in Threads : [call[t] EXCEPT !.pc = "acquire"] \in Call
  BY <1>1 DEF Call
<1>3. \A t \in Threads : call'[t] = IF call[t].pc = "asleep"
                                    THEN [call[t] EXCEPT !.pc = "acquire"] ELSE call[t]
  BY DEF notify_all
<1>4. call' \in [Threads -> Call]
  BY <1>1, <1>2 DEF notify_all
<1>5. \A t \in Threads : [call[t] EXCEPT !.pc = "acquire"].pc = "acquire"
  BY <1>1 DEF Call
<1> QED
  BY <1>3, <1>4, <1>5

\* The answer to a request: its record completes, fails or, if nobody holds it, is free.
LEMMA CompleteKeeps ==
  ASSUME SetInv, NEW q \in requests, NEW result \in FillResults, Complete(q, result)
  PROVE  SetInv'
<1> USE DEF SetInv, setVars
<1>a. PICK r : r = q.record
  OBVIOUS
<1>1. /\ mutex = None /\ mutex' = None /\ UNCHANGED claims
      /\ r \in Records /\ Matches(q, r) /\ Land(TokenOf(q), result)
      /\ requests' = {p \in requests : p.record # r}
      /\ late' \in {late, late \union {TokenOf(q)}}
      /\ inFlight' = inFlight - 1
  BY <1>a, CompleteLands
<1>2. TokenOf(q).record = r /\ TokenOf(q) \in Token
  BY <1>a DEF TokenOf, TypeOK, Request, Token
<1>b. PICK status : status = classify_fill(result, records[r].length)
  OBVIOUS
<1>c. PICK x : x = [records[r] EXCEPT !.result = status,
                                      !.state = IF status = "ok" THEN "completed" ELSE "failed"]
  OBVIOUS
<1>3. records[r] \in Record /\ records[r].length \in Nat /\ records[r].destination \in Nat
  BY <1>1 DEF TypeOK, Record, Word
<1>4. /\ status \in Status /\ result.bytes \in Nat
      /\ status = "ok" <=> result.status = "ok" /\ result.bytes = records[r].length
  BY <1>b, <1>3, ClassifyTyped
<1>5. /\ x \in Record /\ x.result = status /\ x.held = records[r].held
      /\ x.state = (IF status = "ok" THEN "completed" ELSE "failed")
      /\ x.destination = records[r].destination /\ x.length = records[r].length
      /\ x.generation = records[r].generation
  BY <1>c, <1>3, <1>4 DEF Record, RecordState
<1>6. /\ IF x.held
         THEN /\ records' = [records EXCEPT ![r] = x]
              /\ UNCHANGED <<live, liveAt, free>>
         ELSE /\ records' = [records EXCEPT ![r] = FreeRecord(x.generation)]
              /\ retire_record(r)
      /\ notify_all /\ held' = held
  BY <1>b, <1>c, <1>1, <1>2 DEF Land, Claimed
<1>7. call' \in [Threads -> Call] /\ \A t \in Threads : call'[t].pc # "recording"
  BY <1>1, <1>6, NotifyKeepsCalls, SetAssumption DEF MutexInv
<1>8. /\ records[r].state = "submitted" /\ InUse(r)
      /\ records[r].destination = q.destination /\ records[r].length = q.length
  BY <1>1 DEF Matches, InUse
<1>9. /\ late' \subseteq Token
      /\ \A token \in late' : token \in late \/ token.record = r
  BY <1>1, <1>2 DEF TypeOK
<1>10. /\ contents' = [b \in DOMAIN contents |->
            IF b \in Span(q.destination, q.length)
            THEN IF result.status = "ok" /\ b < q.destination + result.bytes
                 THEN q.offset + (b - q.destination) ELSE None
            ELSE contents[b]]
       /\ result.bytes <= q.length
  BY DEF Complete
<1>11. q.offset \in Nat /\ q.offset + q.length <= SourceBytes /\ SourceBytes \in Nat
  BY SetAssumption, WordAssumption DEF TypeOK, Request, Word, RequestInv
<1>12. contents' \in [0 .. DestinationBytes - 1 -> (0 .. SourceBytes - 1) \union {None}]
  <2>1. \A b \in Span(q.destination, q.length) :
          b < q.destination + result.bytes =>
            q.offset + (b - q.destination) \in 0 .. SourceBytes - 1
    BY <1>3, <1>4, <1>8, <1>10, <1>11 DEF Span
  <2> QED
    BY <1>10, <2>1 DEF TypeOK
<1>13. \A b \in DOMAIN contents :
         b \in Span(records[r].destination, records[r].length) \/ contents'[b] = contents[b]
  BY <1>8, <1>10
<1>14. CASE ~x.held
  <2>1. /\ records' = [records EXCEPT ![r] = FreeRecord(records[r].generation)]
        /\ retire_record(r)
    BY <1>5, <1>6, <1>14
  <2>2. claims' = {c \in claims : c.record # r}
    BY <1>1, <1>5, <1>14 DEF ClaimInv
  <2> QED
    BY <1>1, <1>5, <1>6, <1>7, <1>8, <1>9, <1>12, <1>13, <1>14, <2>1, <2>2, FreedKeeps
<1>15. CASE x.held
  <2>1. records' = [records EXCEPT ![r] = x] /\ UNCHANGED <<free, live, liveAt>>
    BY <1>6, <1>15
  <2>2. /\ requests' = {p \in requests : p.record # r \/ x.state = "submitted"}
        /\ claims' = {c \in claims : c.record # r \/ x.held}
        /\ x.state \in {"completed", "failed"} /\ x.state # "submitted"
        /\ x.state # "free" /\ (x.state = "completed" <=> x.result = "ok")
    BY <1>1, <1>5, <1>15
  <2>3. ASSUME x.state = "completed", NEW p \in requests, p.record = r,
               NEW b \in Span(p.destination, p.length)
        PROVE  contents'[b] = p.offset + (b - p.destination)
    <3>1. p = q /\ result.status = "ok" /\ result.bytes = q.length
      BY <1>a, <1>4, <1>5, <1>8, <2>3 DEF RequestInv
    <3>2. Within(q)
      BY DEF RequestInv
    <3>3. b \in DOMAIN contents
      BY <1>3, <1>8, <2>3, <3>1, <3>2, WithinSpan DEF TypeOK
    <3>4. b < q.destination + result.bytes
      BY <1>3, <1>8, <2>3, <3>1 DEF Span
    <3> QED
      BY <1>10, <2>3, <3>1, <3>3, <3>4
  <2> QED
    BY <1>1, <1>5, <1>6, <1>7, <1>8, <1>9, <1>12, <1>13, <1>15, <2>1, <2>2, <2>3, StaysKeeps
<1> QED
  BY <1>14, <1>15

\* A repeated answer is stale: nothing but the set of repeats changes.
LEMMA RedeliverIgnored ==
  ASSUME SetInv, NEW token \in late, NEW result \in FillResults, Redeliver(token, result)
  PROVE  UNCHANGED <<setVars, mutex, call, claims, requests, contents>> /\ late' \subseteq late
<1>1. Stale(token)
  BY DEF SetInv, LateInv
<1> QED
  BY <1>1 DEF Redeliver, on_complete

\* The steps of a caller that sleeps.
LEMMA CallerKeeps ==
  ASSUME SetInv, NEW t \in Threads, NEW c \in Call, c.pc # "recording",
         call[t].pc # "recording", call' = [call EXCEPT ![t] = c],
         UNCHANGED <<setVars, mutex, claims, requests, late, contents>>
  PROVE  SetInv'
<1>1. /\ call' \in [Threads -> Call]
      /\ \A u \in Threads : /\ call'[u].pc = "recording" <=> call[u].pc = "recording"
                            /\ call[u].pc = "recording" => call'[u] = call[u]
  BY DEF SetInv, TypeOK
<1> QED
  BY <1>1, QuietKeeps

LEMMA WaitingKeeps ==
  ASSUME SetInv, NEW t \in Threads,
         \/ \E claim \in claims, d \in BOOLEAN : Wait(t, claim, d)
         \/ \E d \in BOOLEAN : Drain(t, d)
         \/ Wake(t) \/ SpuriousWake(t) \/ Timeout(t)
  PROVE  SetInv'
<1>1. 0 \in Records /\ call[t] \in Call /\ call \in [Threads -> Call]
  BY SetAssumption DEF Records, SetInv, TypeOK
<1>2. Idle \in Call /\ Idle.pc # "recording"
  BY <1>1 DEF Idle, Call
<1>3. ASSUME NEW claim \in claims, NEW d \in BOOLEAN, Wait(t, claim, d) PROVE SetInv'
  <2> DEFINE c == [op |-> "wait", pc |-> "asleep", record |-> claim.record, deadline |-> d]
  <2>1. c \in Call /\ c.pc # "recording"
    BY DEF Call, SetInv, TypeOK, Claim
  <2>2. /\ call[t].pc # "recording" /\ call' = [call EXCEPT ![t] = c]
        /\ UNCHANGED <<setVars, mutex, claims, requests, late, contents>>
    BY <1>3 DEF Wait, Sleep
  <2> QED
    BY <2>1, <2>2, CallerKeeps
<1>4. ASSUME NEW d \in BOOLEAN, Drain(t, d) PROVE SetInv'
  <2> DEFINE c == [op |-> "drain", pc |-> "asleep", record |-> 0, deadline |-> d]
  <2>1. c \in Call /\ c.pc # "recording"
    BY <1>1 DEF Call
  <2>2. /\ call[t].pc # "recording" /\ call' = [call EXCEPT ![t] = c]
        /\ UNCHANGED <<setVars, mutex, claims, requests, late, contents>>
    BY <1>4 DEF Drain, Sleep
  <2> QED
    BY <2>1, <2>2, CallerKeeps
<1>5. CASE Wake(t)
  <2>1. [call[t] EXCEPT !.pc = "asleep"] \in Call
        /\ [call[t] EXCEPT !.pc = "asleep"].pc # "recording"
    BY <1>1 DEF Call
  <2>2. PICK c \in Call : c.pc # "recording" /\ call' = [call EXCEPT ![t] = c]
    BY <1>2, <1>5, <2>1 DEF Wake
  <2> QED
    BY <1>5, <2>2, CallerKeeps DEF Wake
<1>6. CASE SpuriousWake(t)
  <2>1. [call[t] EXCEPT !.pc = "acquire"] \in Call
        /\ [call[t] EXCEPT !.pc = "acquire"].pc # "recording"
    BY <1>1 DEF Call
  <2>2. call' = [call EXCEPT ![t] = [call[t] EXCEPT !.pc = "acquire"]]
    BY <1>1, <1>6 DEF SpuriousWake
  <2> QED
    BY <1>6, <2>1, <2>2, CallerKeeps DEF SpuriousWake
<1>7. CASE Timeout(t)
  BY <1>2, <1>7, CallerKeeps DEF Timeout
<1> QED
  BY <1>3, <1>4, <1>5, <1>6, <1>7

\* Every step keeps the invariant.
LEMMA SetNext == SetInv /\ [Next]_vars => SetInv'
<1> SUFFICES ASSUME SetInv, [Next]_vars PROVE SetInv'
  OBVIOUS
<1>1. ASSUME NEW t \in Threads, NEW s \in Submissions, Submit(t, s.source, s.destination)
      PROVE  SetInv'
  <2>1. s.source \in ByteRange /\ s.destination \in Word
    BY SubmissionAssumption
  <2> QED
    BY <1>1, <2>1, SubmitKeeps
<1>2. ASSUME NEW t \in Threads, NEW claim \in claims, ReleaseClaim(t, claim)
      PROVE  SetInv'
  BY <1>2, ReleaseKeeps
<1>3. ASSUME NEW t \in Threads,
             \/ \E claim \in claims, d \in BOOLEAN : Wait(t, claim, d)
             \/ \E d \in BOOLEAN : Drain(t, d)
             \/ Wake(t) \/ SpuriousWake(t) \/ Timeout(t)
      PROVE  SetInv'
  BY <1>3, WaitingKeeps
<1>4. ASSUME NEW t \in Threads, RecordClaim(t) PROVE SetInv'
  BY <1>4, RecordClaimKeeps
<1>5. ASSUME NEW q \in requests, NEW result \in FillResults, Complete(q, result)
      PROVE  SetInv'
  BY <1>5, CompleteKeeps
<1>6. ASSUME NEW token \in late, NEW result \in FillResults, Redeliver(token, result)
      PROVE  SetInv'
  <2>1. UNCHANGED <<setVars, mutex, call, claims, requests, contents>> /\ late' \subseteq late
    BY <1>6, RedeliverIgnored
  <2>2. call' \in [Threads -> Call]
    BY <2>1 DEF SetInv, TypeOK
  <2> QED
    BY <2>1, <2>2, QuietKeeps
<1>7. CASE UNCHANGED vars
  <2>1. UNCHANGED <<setVars, mutex, call, claims, requests, contents>> /\ late' \subseteq late
    BY <1>7 DEF vars
  <2>2. call' \in [Threads -> Call]
    BY <2>1 DEF SetInv, TypeOK
  <2> QED
    BY <2>1, <2>2, QuietKeeps
<1> QED
  BY <1>1, <1>2, <1>3, <1>4, <1>5, <1>6, <1>7 DEF Next, Begin, Backend

-----------------------------------------------------------------------------
(***************************************************************************)
(* Theorems.                                                               *)
(***************************************************************************)

\* The inductive invariant holds in every reachable state.
THEOREM SetInvariant == Spec => []SetInv
<1> QED
  BY SetInit, SetNext, PTL DEF Spec

\* R16, for any number of threads, claims and bytes: a range is not reused while a
\* writer may still touch it, dropped claim or not.
THEOREM WritersAreExclusive == Spec => []WritersExclusive
<1>1. SetInv => WritersExclusive
  <2> SUFFICES ASSUME SetInv PROVE WritersExclusive
    OBVIOUS
  <2> USE DEF SetInv
  <2>1. \A q \in requests : /\ q.record \in Records /\ q.destination \in Nat
                            /\ q.length \in Nat /\ Within(q)
    BY DEF TypeOK, Request, Word, RequestInv
  <2>2. \A c \in claims : /\ c.record \in Records /\ c.destination \in Nat
                          /\ c.length \in Nat
    BY DEF TypeOK, Claim, Word
  <2>3. ASSUME NEW q \in requests
        PROVE  Span(q.destination, q.length) \subseteq DOMAIN contents
    BY <2>1, WithinSpan DEF TypeOK
  <2>4. ASSUME NEW q \in requests, NEW p \in requests, q # p
        PROVE  Apart(q, p) \/ Apart(p, q)
    <3>1. q.record # p.record
      BY <2>4 DEF RequestInv
    <3>2. CASE Matches(q, q.record)
      <4>1. Apart(p, records[q.record])
        BY <2>1, <3>1, <3>2 DEF RequestInv, Matches, InUse
      <4> QED
        BY <3>2, <4>1 DEF Apart, Matches
    <3>3. CASE Matches(p, p.record)
      <4>1. Apart(q, records[p.record])
        BY <2>1, <3>1, <3>3 DEF RequestInv, Matches, InUse
      <4> QED
        BY <3>3, <4>1 DEF Apart, Matches
    <3>4. ~(Unrecorded(q) /\ Unrecorded(p))
      BY <3>1 DEF Unrecorded
    <3> QED
      BY <3>2, <3>3, <3>4 DEF RequestInv
  <2>5. ASSUME NEW q \in requests, NEW c \in claims, TokenOf(q) # TokenOf(c)
        PROVE  Apart(q, c)
    <3>1. /\ InUse(c.record) /\ records[c.record].destination = c.destination
          /\ records[c.record].length = c.length
          /\ records[c.record].generation = c.generation
      BY DEF ClaimInv
    <3>2. q.record # c.record
      BY <2>5, <3>1 DEF TokenOf, RequestInv, Matches, Unrecorded
    <3>3. Apart(q, records[c.record])
      BY <2>2, <3>1, <3>2 DEF RequestInv
    <3> QED
      BY <3>1, <3>3 DEF Apart
  <2>6. ASSUME NEW q \in requests, NEW p \in requests, q # p
        PROVE  Span(q.destination, q.length) \intersect Span(p.destination, p.length) = {}
    <3>1. Apart(q, p)
      BY <2>4, <2>6 DEF Apart
    <3> QED
      BY <2>1, <3>1, ApartDisjoint
  <2>7. ASSUME NEW q \in requests, NEW c \in claims, TokenOf(q) # TokenOf(c)
        PROVE  Span(q.destination, q.length) \intersect Span(c.destination, c.length) = {}
    BY <2>1, <2>2, <2>5, <2>7, ApartDisjoint
  <2> QED
    BY <2>3, <2>6, <2>7 DEF WritersExclusive
<1> QED
  BY <1>1, SetInvariant, PTL

\* A claim reads its own record for as long as it is held, and one that reports ok shows
\* the source bytes it asked for.
THEOREM ClaimsShowTheirBytes == Spec => []ClaimBytesValid
<1>1. SetInv => ClaimBytesValid
  <2> SUFFICES ASSUME SetInv, NEW c \in claims
               PROVE  LET record == records[c.record]
                      IN  /\ record.generation = c.generation /\ record.held
                          /\ record.destination = c.destination /\ record.length = c.length
                          /\ record.result = "ok" =>
                               \A b \in Span(c.destination, c.length) :
                                 contents[b] = c.offset + (b - c.destination)
    BY DEF ClaimBytesValid
  <2>1. c.record \in Records
    BY DEF SetInv, TypeOK, Claim
  <2>2. records[c.record].result = "ok" => records[c.record].state = "completed"
    BY <2>1 DEF SetInv, RecordInv
  <2> QED
    BY <2>2 DEF SetInv, ClaimInv
<1> QED
  BY <1>1, SetInvariant, PTL

\* No record is lost or handed out twice, swap-remove hits its own entry, and the
\* destructor's test passes exactly when no claim and no writer is left.
THEOREM RecordsAreExact == Spec => []RecordsExact
<1>1. SetInv => RecordsExact
  <2> SUFFICES ASSUME SetInv PROVE RecordsExact
    OBVIOUS
  <2> USE DEF SetInv
  <2>1. inFlight = 0 <=> \A r \in Records : records[r].state # "submitted"
    <3>1. inFlight = 0 <=> FlyingRecords = {}
      BY RecordSetsFinite, FS_EmptySet DEF CountInv
    <3> QED
      BY <3>1 DEF FlyingRecords
  <2>2. held = 0 <=> \A r \in Records : ~records[r].held
    <3>1. held = 0 <=> HeldRecords = {}
      BY RecordSetsFinite, FS_EmptySet DEF CountInv
    <3> QED
      BY <3>1 DEF HeldRecords
  <2>3. mutex = None =>
          (requests = {} <=> \A r \in Records : records[r].state # "submitted")
    <3>1. mutex = None => \A q \in requests : /\ q.record \in Records
                                              /\ records[q.record].state = "submitted"
      BY DEF RequestInv, Unrecorded, Matches, TypeOK, Request
    <3> QED
      BY <3>1 DEF RequestInv
  <2>4. claims = {} <=> \A r \in Records : ~records[r].held
    <3>1. \A c \in claims : c.record \in Records /\ records[c.record].held
      BY DEF ClaimInv, TypeOK, Claim
    <3> QED
      BY <3>1 DEF ClaimInv
  <2>5. CanDestroy => Len(free) = MaxClaims
    <3> SUFFICES ASSUME CanDestroy PROVE Len(free) = MaxClaims
      OBVIOUS
    <3>1. \A r \in Records : ~InUse(r)
      <4>1. \A r \in Records : records[r].state \in RecordState
        BY DEF TypeOK, Record
      <4> QED
        BY <2>1, <2>2, <4>1 DEF CanDestroy, InUse, RecordInv, RecordState
    <3>2. live \in Seq(Records) /\ free \in Seq(Records)
      BY DEF TypeOK
    <3>3. DOMAIN live = {}
      BY <3>1, <3>2 DEF ListInv
    <3>4. Len(live) = 0
      BY <3>2, <3>3
    <3> QED
      BY <3>2, <3>4 DEF ListInv
  <2>6. \A r \in Records : IF records[r].state = "free"
                           THEN \E i \in DOMAIN free : free[i] = r
                           ELSE liveAt[r] \in DOMAIN live /\ live[liveAt[r]] = r
    BY DEF ListInv, InUse
  <2> QED
    BY <2>1, <2>2, <2>3, <2>4, <2>5, <2>6 DEF RecordsExact, CanDestroy, ListInv
<1> QED
  BY <1>1, SetInvariant, PTL

\* A request the backend is given is none it already has.
LEMMA SubmitIsNew ==
  ASSUME SetInv, NEW t \in Threads, NEW source \in ByteRange, NEW destination \in Word,
         Submit(t, source, destination)
  PROVE  ~(requests' \subseteq requests)
<1> USE DEF SetInv
<1>1. free # <<>> /\ mutex = None
  BY SubmitAdmits DEF Submit
<1>2. PICK q : q.record = Last(free) /\ requests' = requests \union {q}
  BY DEF Submit
<1>3. ~InUse(Last(free))
  BY <1>1, TopIsFree
<1>4. \A p \in requests : InUse(p.record)
  BY <1>1 DEF RequestInv, Unrecorded, Matches, InUse
<1> QED
  BY <1>2, <1>3, <1>4

\* The first answer counts, and a later one changes nothing (on_complete's stale test).
THEOREM RepeatedAnswersAreIgnored == Spec => DuplicatesRejected
<1> DEFINE A == /\ requests' # requests /\ requests' \subseteq requests =>
                     inFlight' = inFlight - 1
                /\ (late' # late /\ late' \subseteq late /\ requests' = requests) =>
                     UNCHANGED <<setVars, call, contents>>
<1>1. SetInv /\ [Next]_vars => [A]_vars
  <2> SUFFICES ASSUME SetInv, Next PROVE A
    OBVIOUS
  <2>1. ASSUME NEW t \in Threads, NEW s \in Submissions, Submit(t, s.source, s.destination)
        PROVE  A
    <3>1. s.source \in ByteRange /\ s.destination \in Word
      BY SubmissionAssumption
    <3>2. ~(requests' \subseteq requests)
      BY <2>1, <3>1, SubmitIsNew
    <3> QED
      BY <3>2
  <2>2. ASSUME NEW t \in Threads, NEW claim \in claims, ReleaseClaim(t, claim)
        PROVE  A
    BY <2>2 DEF ReleaseClaim
  <2>3. ASSUME NEW t \in Threads,
               \/ \E claim \in claims, d \in BOOLEAN : Wait(t, claim, d)
               \/ \E d \in BOOLEAN : Drain(t, d)
               \/ Wake(t) \/ SpuriousWake(t) \/ Timeout(t)
        PROVE  A
    BY <2>3 DEF Wait, Drain, Sleep, Wake, SpuriousWake, Timeout
  <2>4. ASSUME NEW t \in Threads, RecordClaim(t) PROVE A
    BY <2>4 DEF RecordClaim
  <2>5. ASSUME NEW q \in requests, NEW result \in FillResults, Complete(q, result)
        PROVE  A
    <3>1. inFlight' = inFlight - 1
      BY <2>5, CompleteLands
    <3>2. requests' # requests
      BY <2>5 DEF Complete
    <3> QED
      BY <3>1, <3>2
  <2>6. ASSUME NEW token \in late, NEW result \in FillResults, Redeliver(token, result)
        PROVE  A
    BY <2>6, RedeliverIgnored
  <2> QED
    BY <2>1, <2>2, <2>3, <2>4, <2>5, <2>6 DEF Next, Begin, Backend
<1> QED
  BY <1>1, SetInvariant, PTL DEF Spec, DuplicatesRejected

-----------------------------------------------------------------------------
(***************************************************************************)
(* The refinement of ClaimLedger.                                          *)
(***************************************************************************)
Entry(r) == [bytes |-> Span(records[r].destination, records[r].length),
             phase |-> PhaseOf(records[r].state),
             held  |-> records[r].held]
Entries == {Entry(r) : r \in {i \in Records : records[i].state # "free"}}

\* What the ledger calls the states of a record in use.
LEMMA PhaseFacts ==
  /\ PhaseOf("submitted") = "writing"
  /\ PhaseOf("completed") = "ok"
  /\ PhaseOf("failed") = "failed"
BY DEF PhaseOf

\* Two records in use are two entries: they have bytes, and none in common.
LEMMA EntriesDistinct ==
  ASSUME SetInv, NEW r \in Records, NEW s \in Records, InUse(r), InUse(s), r # s
  PROVE  Entry(r) # Entry(s) /\ Entry(r).bytes \intersect Entry(s).bytes = {}
<1> USE DEF SetInv
<1>1. /\ records[r].destination \in Nat /\ records[r].length \in Nat
      /\ records[s].destination \in Nat /\ records[s].length \in Nat
  BY DEF TypeOK, Record, Word
<1>2. Within(records[r]) /\ Within(records[s]) /\ Apart(records[r], records[s])
  BY DEF RecordInv, SpanInv
<1>3. records[r].destination \in Span(records[r].destination, records[r].length)
  BY <1>1, <1>2, WithinSpan
<1>4. Span(records[r].destination, records[r].length) \intersect
        Span(records[s].destination, records[s].length) = {}
  BY <1>1, <1>2, ApartDisjoint
<1>5. Entry(r).bytes = Span(records[r].destination, records[r].length)
      /\ Entry(s).bytes = Span(records[s].destination, records[s].length)
  BY DEF Entry
<1> QED
  BY <1>3, <1>4, <1>5

\* A step that changes one record changes one entry.
LEMMA EntryChanges ==
  ASSUME SetInv, NEW r \in Records, \A s \in Records : s # r => records'[s] = records[s]
  PROVE  /\ InUse(r) => Entry(r) \in Entries
         /\ InUse(r) /\ InUse(r)' => Entries' = (Entries \ {Entry(r)}) \union {Entry(r)'}
         /\ InUse(r) /\ ~InUse(r)' => Entries' = Entries \ {Entry(r)}
         /\ ~InUse(r) /\ InUse(r)' => Entries' = Entries \union {Entry(r)'}
<1>1. \A s \in Records : s # r => Entry(s)' = Entry(s) /\ (InUse(s)' <=> InUse(s))
  BY DEF Entry, InUse
<1>2. InUse(r) => \A s \in Records : s # r /\ InUse(s) => Entry(s) # Entry(r)
  BY EntriesDistinct
<1>3. /\ \A e : e \in Entries <=> \E s \in Records : InUse(s) /\ e = Entry(s)
      /\ \A e : e \in Entries' <=> \E s \in Records : InUse(s)' /\ e = Entry(s)'
  BY DEF Entries, InUse
<1>4. InUse(r) => Entry(r) \in Entries
  BY <1>3
<1>5. ASSUME InUse(r), InUse(r)'
      PROVE  Entries' = (Entries \ {Entry(r)}) \union {Entry(r)'}
  <2>1. ASSUME NEW e PROVE e \in Entries' <=> e \in (Entries \ {Entry(r)}) \union {Entry(r)'}
    BY <1>1, <1>2, <1>3, <1>5
  <2> QED
    BY <2>1
<1>6. ASSUME InUse(r), ~InUse(r)'
      PROVE  Entries' = Entries \ {Entry(r)}
  <2>1. ASSUME NEW e PROVE e \in Entries' <=> e \in Entries \ {Entry(r)}
    BY <1>1, <1>2, <1>3, <1>6
  <2> QED
    BY <2>1
<1>7. ASSUME ~InUse(r), InUse(r)'
      PROVE  Entries' = Entries \union {Entry(r)'}
  <2>1. ASSUME NEW e PROVE e \in Entries' <=> e \in Entries \union {Entry(r)'}
    BY <1>1, <1>3, <1>7
  <2> QED
    BY <2>1
<1> QED
  BY <1>4, <1>5, <1>6, <1>7

\* Filling in a record reserves its bytes.
LEMMA RecordClaimReserves ==
  ASSUME SetInv, SetInv', NEW t \in Threads, RecordClaim(t)
  PROVE  \E bytes \in (SUBSET (0 .. DestinationBytes - 1)) \ {{}} :
           /\ \A e \in Entries : e.bytes \intersect bytes = {}
           /\ Entries' = Entries \union {[bytes |-> bytes, phase |-> "writing", held |-> TRUE]}
<1> USE DEF SetInv
<1>a. PICK q \in requests :
        /\ q.record = call[t].record
        /\ records' = [records EXCEPT ![q.record] =
             [destination |-> q.destination, length |-> q.length,
              generation |-> q.generation, state |-> "submitted",
              result |-> "pending", held |-> TRUE]]
  BY Zenon DEF RecordClaim
<1>1. mutex = t /\ mutex # None /\ free # <<>> /\ q.record = Last(free)
  BY <1>a, SetAssumption DEF RecordClaim, MutexInv
<1>2. q.record \in Records /\ ~InUse(q.record)
  BY <1>1, TopIsFree
<1>3. /\ records'[q.record].destination = q.destination
      /\ records'[q.record].length = q.length /\ records'[q.record].held = TRUE
      /\ records'[q.record].state = "submitted"
      /\ \A s \in Records : s # q.record => records'[s] = records[s]
  BY <1>a, <1>2 DEF TypeOK
<1>b. PICK bytes : bytes = Span(q.destination, q.length)
  OBVIOUS
<1>4. /\ q.destination \in Nat /\ q.length \in Nat /\ Within(q)
      /\ \A s \in Records : InUse(s) => Apart(q, records[s])
  BY <1>2 DEF RequestInv, TypeOK, Request, Word
<1>5. bytes \in (SUBSET (0 .. DestinationBytes - 1)) \ {{}}
  BY <1>b, <1>4, WithinSpan
<1>6. ASSUME NEW s \in Records, InUse(s) PROVE Entry(s).bytes \intersect bytes = {}
  <2>1. records[s].destination \in Nat /\ records[s].length \in Nat
    BY DEF TypeOK, Record, Word
  <2>2. bytes \intersect Span(records[s].destination, records[s].length) = {}
    BY <1>b, <1>4, <1>6, <2>1, ApartDisjoint
  <2> QED
    BY <2>2 DEF Entry
<1>7. \A e \in Entries : e.bytes \intersect bytes = {}
  BY <1>6 DEF Entries, InUse
<1>8. InUse(q.record)'
  BY <1>3 DEF InUse
<1>9. Entry(q.record)' = [bytes |-> bytes, phase |-> "writing", held |-> TRUE]
  BY <1>b, <1>3, PhaseFacts DEF Entry
<1>10. Entries' = Entries \union {Entry(q.record)'}
  BY <1>2, <1>3, <1>8, EntryChanges
<1> QED
  BY <1>5, <1>7, <1>9, <1>10

\* Claim::reset is the ledger's Release.
LEMMA ReleaseReleases ==
  ASSUME SetInv, NEW t \in Threads, NEW claim \in claims, ReleaseClaim(t, claim)
  PROVE  \E e \in Entries :
           /\ e.held
           /\ Entries' = (Entries \ {e}) \union
                (IF e.phase = "writing" THEN {[e EXCEPT !.held = FALSE]} ELSE {})
<1> USE DEF SetInv
<1>a. PICK r : r = claim.record
  OBVIOUS
<1>1. /\ r \in Records /\ InUse(r) /\ records[r].held = TRUE /\ records[r] \in Record
  BY <1>a DEF ClaimInv, TypeOK, Claim, Record
<1>2. \A s \in Records : s # r => records'[s] = records[s]
  BY <1>a, <1>1 DEF ReleaseClaim, TypeOK
<1>3. Entry(r) \in Entries /\ Entry(r).held
  BY <1>1, <1>2, EntryChanges DEF Entry
<1>4. CASE records[r].state = "submitted"
  <2>1. records' = [records EXCEPT ![r].held = FALSE]
    BY <1>a, <1>4 DEF ReleaseClaim, FreesNow
  <2>2. /\ records'[r].state = "submitted" /\ records'[r].held = FALSE
        /\ records'[r].destination = records[r].destination
        /\ records'[r].length = records[r].length
    BY <1>1, <1>4, <2>1 DEF TypeOK, Record
  <2>3. Entry(r)' = [Entry(r) EXCEPT !.held = FALSE]
    <3>a. PICK bytes : bytes = Span(records[r].destination, records[r].length)
      OBVIOUS
    <3>1. Entry(r)' = [bytes |-> bytes, phase |-> "writing", held |-> FALSE]
      BY <2>2, <3>a, PhaseFacts DEF Entry
    <3>2. Entry(r) = [bytes |-> bytes, phase |-> "writing", held |-> records[r].held]
      BY <1>4, <3>a, PhaseFacts DEF Entry
    <3>3. ASSUME NEW e, NEW now, NEW gone, e = [bytes |-> bytes, phase |-> "writing", held |-> now]
          PROVE  [e EXCEPT !.held = gone] = [bytes |-> bytes, phase |-> "writing", held |-> gone]
      BY <3>3
    <3>4. [Entry(r) EXCEPT !.held = FALSE] = [bytes |-> bytes, phase |-> "writing", held |-> FALSE]
      BY <3>2, <3>3, Zenon
    <3> QED
      BY <3>1, <3>4, Zenon
  <2>4. Entry(r).phase = "writing" /\ InUse(r)'
    BY <1>4, <2>2, PhaseFacts DEF Entry, InUse
  <2>5. Entries' = (Entries \ {Entry(r)}) \union {Entry(r)'}
    BY <1>1, <1>2, <2>4, EntryChanges
  <2> QED
    BY <1>3, <2>3, <2>4, <2>5
<1>5. CASE records[r].state # "submitted"
  <2>1. records' = [records EXCEPT ![r] = FreeRecord(claim.generation)]
    BY <1>a, <1>5 DEF ReleaseClaim, FreesNow
  <2>2. ~InUse(r)'
    BY <1>1, <2>1 DEF TypeOK, InUse, FreeRecord
  <2>3. Entries' = Entries \ {Entry(r)}
    BY <1>1, <1>2, <2>2, EntryChanges
  <2>4. records[r].state = "completed" \/ records[r].state = "failed"
    BY <1>1, <1>5 DEF Record, RecordState, InUse
  <2>5. Entry(r).phase # "writing"
    BY <2>4, PhaseFacts DEF Entry
  <2> QED
    BY <1>3, <2>3, <2>5
<1> QED
  BY <1>4, <1>5

\* The answer to a request is the ledger's Settle.
LEMMA CompleteSettles ==
  ASSUME SetInv, NEW q \in requests, NEW result \in FillResults, Complete(q, result)
  PROVE  \E e \in Entries, phase \in {"ok", "failed"} :
           /\ e.phase = "writing"
           /\ Entries' = (Entries \ {e}) \union
                (IF e.held THEN {[e EXCEPT !.phase = phase]} ELSE {})
<1> USE DEF SetInv
<1>a. PICK r : r = q.record
  OBVIOUS
<1>1. r \in Records /\ Matches(q, r) /\ Land(TokenOf(q), result) /\ TokenOf(q).record = r
  BY <1>a, CompleteLands DEF TokenOf
<1>b. PICK status : status = classify_fill(result, records[r].length)
  OBVIOUS
<1>c. PICK x : x = [records[r] EXCEPT !.result = status,
                                      !.state = IF status = "ok" THEN "completed" ELSE "failed"]
  OBVIOUS
<1>2. records[r] \in Record /\ records[r].state = "submitted" /\ InUse(r)
  BY <1>1 DEF TypeOK, Matches, InUse
<1>3. /\ x.held = records[r].held /\ x.destination = records[r].destination
      /\ x.length = records[r].length
      /\ x.state = (IF status = "ok" THEN "completed" ELSE "failed")
  BY <1>c, <1>2 DEF Record
<1>4. IF x.held THEN records' = [records EXCEPT ![r] = x]
                ELSE records' = [records EXCEPT ![r] = FreeRecord(x.generation)]
  BY <1>b, <1>c, <1>1 DEF Land, Claimed
<1>5. \A s \in Records : s # r => records'[s] = records[s]
  BY <1>1, <1>4 DEF TypeOK
<1>6. Entry(r) \in Entries /\ Entry(r).phase = "writing" /\ Entry(r).held = records[r].held
  BY <1>1, <1>2, <1>5, EntryChanges, PhaseFacts DEF Entry
<1>7. CASE x.held
  <2>1. records'[r] = x /\ InUse(r)'
    BY <1>1, <1>3, <1>4, <1>7 DEF TypeOK, InUse
  <2>a. PICK phase \in {"ok", "failed"} : phase = PhaseOf(x.state)
    BY <1>3, PhaseFacts
  <2>2. Entry(r)' = [Entry(r) EXCEPT !.phase = phase]
    BY <1>3, <2>1, <2>a DEF Entry
  <2>3. Entries' = (Entries \ {Entry(r)}) \union {Entry(r)'}
    BY <1>1, <1>2, <1>5, <2>1, EntryChanges
  <2> QED
    BY <1>3, <1>6, <1>7, <2>2, <2>3
<1>8. CASE ~x.held
  <2>1. ~InUse(r)'
    BY <1>1, <1>4, <1>8 DEF TypeOK, InUse, FreeRecord
  <2>2. Entries' = Entries \ {Entry(r)}
    BY <1>1, <1>2, <1>5, <2>1, EntryChanges
  <2> QED
    BY <1>3, <1>6, <1>8, <2>2
<1> QED
  BY <1>7, <1>8

\* The records in use behave as the ledger says: bytes are reserved when no entry has
\* them, and leave when neither a writer nor a holder is left, in whichever order.
THEOREM TransferSetRefinesLedger == Spec => ImplementsLedger
<1>1. Init => Ledger!Init
  BY DEF Init, FreeRecord, Ledger!Init
<1>2. SetInv /\ SetInv' /\ [Next]_vars => [Ledger!Next]_Entries
  <2> SUFFICES ASSUME SetInv, SetInv', [Next]_vars PROVE Ledger!Next \/ UNCHANGED Entries
    OBVIOUS
  <2>1. ASSUME NEW t \in Threads, RecordClaim(t) PROVE Ledger!Next
    BY <2>1, RecordClaimReserves DEF Ledger!Next, Ledger!Reserve, Entries, Entry
  <2>2. ASSUME NEW t \in Threads, NEW claim \in claims, ReleaseClaim(t, claim)
        PROVE  Ledger!Next
    BY <2>2, ReleaseReleases DEF Ledger!Next, Ledger!Release, Entries, Entry
  <2>3. ASSUME NEW q \in requests, NEW result \in FillResults, Complete(q, result)
        PROVE  Ledger!Next
    BY <2>3, CompleteSettles DEF Ledger!Next, Ledger!Settle, Entries, Entry
  <2>4. ASSUME UNCHANGED records PROVE UNCHANGED Entries
    BY <2>4 DEF Entries, Entry
  <2>5. ASSUME NEW t \in Threads,
               \/ \E s \in Submissions : Submit(t, s.source, s.destination)
               \/ \E claim \in claims, d \in BOOLEAN : Wait(t, claim, d)
               \/ \E d \in BOOLEAN : Drain(t, d)
               \/ Wake(t) \/ SpuriousWake(t) \/ Timeout(t)
        PROVE  UNCHANGED records
    BY <2>5 DEF Submit, Wait, Drain, Sleep, Wake, SpuriousWake, Timeout, setVars
  <2>6. ASSUME NEW token \in late, NEW result \in FillResults, Redeliver(token, result)
        PROVE  UNCHANGED records
    BY <2>6, RedeliverIgnored DEF setVars
  <2>7. CASE UNCHANGED vars
    BY <2>4, <2>7 DEF vars, setVars
  <2> QED
    BY <2>1, <2>2, <2>3, <2>4, <2>5, <2>6, <2>7 DEF Next, Begin, Backend
<1> QED
  BY <1>1, <1>2, SetInvariant, PTL DEF Spec, ImplementsLedger, Ledger!Spec, Entries, Entry

=============================================================================
