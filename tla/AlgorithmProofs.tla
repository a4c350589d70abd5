-------------------------- MODULE AlgorithmProofs ---------------------------
(***************************************************************************)
(* Proofs about the algorithms, each for inputs of every size: reading one *)
(* request, the CLOCK sweep turn by turn, the windows of the shootout's    *)
(* rows, and the chunks and segments a batch of ranges is cut into.        *)
(***************************************************************************)
EXTENDS ReadRange, ClockSweep, RowWindows, ChunkRanges, FiniteSetTheorems, SequenceTheorems,
        WellFoundedInduction, TLAPS

\* perform, the shootout's row windows, and the cutting of a batch on their own, as
\* MCAlgorithms runs each of them beside the other algorithms.
ReadSpec == ReadInit /\ [][ReadNext]_readVars
WindowSpec == WindowInit /\ [][WindowNext]_windowVars
RangesSpec == RangesInit /\ [][RangesNext]_ranges

-----------------------------------------------------------------------------
(***************************************************************************)
(* Reading one request: the inductive invariant.                           *)
(***************************************************************************)
Phases == {"begin", "in_place", "read", "tail", "copy", "deliver", "done"}

ReadShape ==
  /\ size \in Nat /\ recorded \in Nat
  /\ request \in [offset : Nat, length : Nat \ {0}, address : Nat,
                  access : {"buffered", "uncached"}]
  /\ phase \in Phases
  /\ total \in Nat /\ tail \in Nat
  /\ DOMAIN dst = 0 .. request.length - 1
  /\ issued \in [into : {"destination", "scratch"}, position : Nat, count : Nat, address : Nat]

\* What is counted is in the destination and is the source's.
BytesCounted ==
  /\ total <= request.length
  /\ phase \in {"begin", "in_place", "read", "tail", "copy"} => total <= InPlace
  /\ \A i \in 0 .. total - 1 : dst[i] = request.offset + i

\* Only an uncached request has a tail, read once its blocks are all there; and until a
\* short read ends the loop it stands at a block boundary.
AtBoundary ==
  /\ phase \in {"tail", "copy"} => Uncached /\ total = InPlace
  /\ phase \in {"begin", "in_place", "read", "tail"} => tail = 0
  /\ phase = "begin" => total = 0
  /\ Uncached /\ phase \notin {"begin", "done"} =>
       request.offset % Block = 0 /\ request.address % Block = 0
  /\ Uncached /\ phase = "in_place" => total % Block = 0

\* A buffered read has not gone past the end of the file, and stopped for a reason.
EndReached ==
  ~Uncached =>
    /\ total # 0 => request.offset + total <= size
    /\ phase \in {"read", "deliver"} /\ status = "ok" =>
         total = request.length \/ request.offset + total >= size

\* What was delivered is what was counted.
Reported ==
  result # None =>
    /\ phase = "done" /\ result.bytes \in {0, total}
    /\ ~Uncached => result.bytes = total
    /\ ~Uncached /\ status = "ok" =>
         total = request.length \/ request.offset + total >= size

ReadInv == ReadShape /\ BytesCounted /\ AtBoundary /\ EndReached /\ Reported /\ ReadsAreLegal

-----------------------------------------------------------------------------
(***************************************************************************)
(* Whole blocks.                                                           *)
(***************************************************************************)
Blocks(x) == \E k \in Int : x = k * Block

\* A number is a multiple of the block exactly when the remainder is zero.
LEMMA BlocksAre ==
  ASSUME NEW x \in Int
  PROVE  x % Block = 0 <=> Blocks(x)
<1>1. Block \in Nat \ {0}
  BY ReadAssumption
<1>2. PICK d \in Int, r \in Int : d = x \div Block /\ r = x % Block
  BY <1>1
<1>3. x = Block * d + r /\ 0 <= r /\ r < Block
  BY <1>1, <1>2
<1>4. ASSUME r = 0 PROVE Blocks(x)
  <2>1. x = d * Block
    BY <1>1, <1>3, <1>4
  <2> QED
    BY <2>1 DEF Blocks
<1>5. ASSUME NEW k \in Int, x = k * Block PROVE r = 0
  <2>1. PICK e \in Int : e = k - d
    OBVIOUS
  <2>2. Block * e = r
    BY <1>1, <1>3, <1>5, <2>1
  <2>3. (e >= 1 => Block * e >= Block) /\ (e <= -1 => Block * e <= -Block)
    BY <1>1
  <2>4. e = 0
    BY <1>1, <1>3, <2>2, <2>3
  <2> QED
    BY <1>1, <2>2, <2>4
<1> QED
  BY <1>2, <1>4, <1>5 DEF Blocks

\* Sums and differences of whole blocks are whole blocks.
LEMMA BlocksAdd ==
  ASSUME NEW x \in Int, NEW y \in Int, x % Block = 0, y % Block = 0
  PROVE  (x + y) % Block = 0 /\ (x - y) % Block = 0
<1>1. Block \in Int
  BY ReadAssumption
<1>2. PICK k \in Int, l \in Int : x = k * Block /\ y = l * Block
  BY BlocksAre DEF Blocks
<1>3. x + y = (k + l) * Block /\ x - y = (k - l) * Block
  BY <1>1, <1>2
<1>4. Blocks(x + y) /\ Blocks(x - y)
  BY <1>3 DEF Blocks
<1> QED
  BY <1>4, BlocksAre

\* One read may ask for a whole block.
LEMMA CapFits == ReadCap >= Block /\ ReadCap \in Nat \ {0}
<1>1. Block \in Nat \ {0} /\ ReadCap \in Nat \ {0} /\ ReadCap % Block = 0
  BY ReadAssumption
<1>2. PICK k \in Int : ReadCap = k * Block
  BY <1>1, BlocksAre DEF Blocks
<1>3. (k <= 0 => k * Block <= 0) /\ (k >= 1 => k * Block >= Block)
  BY <1>1
<1> QED
  BY <1>1, <1>2, <1>3

\* The part read in place ends at a block, less than one short of the request.
LEMMA InPlaceFits ==
  ASSUME ReadShape
  PROVE  /\ InPlace \in Nat /\ InPlace <= request.length
         /\ Uncached => InPlace % Block = 0 /\ request.length - InPlace < Block
         /\ ~Uncached => InPlace = request.length
<1>1. Block \in Nat \ {0} /\ request.length \in Nat
  BY ReadAssumption DEF ReadShape
<1>2. CASE Uncached
  <2>0. PICK n \in Int : n = request.length
    BY <1>1
  <2>1. PICK d \in Int, r \in Int : d = n \div Block /\ r = n % Block
    BY <1>1
  <2>2. n = Block * d + r /\ 0 <= r /\ r < Block
    BY <1>1, <2>1
  <2>3. d <= -1 => Block * d <= -Block
    BY <1>1
  <2>4. d >= 0
    BY <1>1, <2>0, <2>2, <2>3
  <2>5. d * Block = Block * d /\ d * Block >= 0 /\ d * Block \in Int
    BY <1>1, <2>4
  <2>6. InPlace = d * Block
    BY <1>2, <2>0, <2>1 DEF InPlace
  <2>7. InPlace % Block = 0
    BY <2>5, <2>6, BlocksAre DEF Blocks
  <2> QED
    BY <1>1, <1>2, <2>0, <2>2, <2>5, <2>6, <2>7
<1>3. CASE ~Uncached
  BY <1>1, <1>3 DEF InPlace
<1> QED
  BY <1>2, <1>3

\* The system returns at most what was asked and what there is, and nothing only at the
\* end of the file.
LEMMA CountsFit ==
  ASSUME NEW position \in Nat, NEW asked \in Nat \ {0}, size \in Nat,
         NEW got \in Counts(position, asked)
  PROVE  /\ got \in Nat /\ got <= asked
         /\ got # 0 => position + got <= size
         /\ got = 0 => position >= size
BY DEF Counts, Least

-----------------------------------------------------------------------------
(***************************************************************************)
(* The invariant holds at first and every step keeps it.                   *)
(***************************************************************************)
LEMMA ReadInitHolds ==
  ASSUME ReadInit
  PROVE  ReadInv
<1> USE DEF ReadInit
<1>0. request.offset \in Nat /\ request.length \in Nat \ {0} /\ request.address \in Nat
      /\ request.access \in {"buffered", "uncached"}
  BY ReadAssumption DEF Request
<1>1. ReadShape
  <2>1. request \in [offset : Nat, length : Nat \ {0}, address : Nat,
                     access : {"buffered", "uncached"}]
    BY ReadAssumption DEF Request
  <2>2. issued \in [into : {"destination", "scratch"}, position : Nat, count : Nat, address : Nat]
    BY DEF Nothing
  <2> QED
    BY <2>1, <2>2, ReadAssumption DEF ReadShape, Phases
<1>2. InPlace \in Nat
  BY <1>1, InPlaceFits
<1>3. BytesCounted /\ AtBoundary /\ EndReached /\ Reported
  BY <1>0, <1>2 DEF BytesCounted, AtBoundary, EndReached, Reported
<1>4. 0 % Block = 0
  BY ReadAssumption
<1>5. ReadsAreLegal
  BY <1>0, <1>4 DEF ReadsAreLegal, Nothing
<1> QED
  BY <1>1, <1>3, <1>5 DEF ReadInv

\* Steps that read nothing.
LEMMA BookkeepingHolds ==
  ASSUME ReadInv, Start \/ SkipInPlace \/ BeginTail \/ ReadError
  PROVE  ReadInv'
<1>0. UNCHANGED <<size, recorded, request, total, dst, issued, result, tail>>
  BY DEF Start, SkipInPlace, BeginTail, ReadError
<1> USE <1>0
<1>1. InPlace' = InPlace /\ Uncached' = Uncached
  BY DEF InPlace, Uncached
<1>2. /\ InPlace \in Nat /\ InPlace <= request.length
      /\ Uncached => InPlace % Block = 0 /\ request.length - InPlace < Block
      /\ ~Uncached => InPlace = request.length
  BY InPlaceFits DEF ReadInv
<1>3. ReadShape'
  BY DEF ReadInv, ReadShape, Phases, Start, SkipInPlace, BeginTail, ReadError
<1>4. ReadsAreLegal'
  BY <1>1 DEF ReadInv, ReadsAreLegal
<1>5. 0 % Block = 0
  BY ReadAssumption
<1>6. result = None
  BY DEF ReadInv, Reported, Start, SkipInPlace, BeginTail, ReadError
<1>7. CASE Start
  BY <1>1, <1>2, <1>3, <1>4, <1>5, <1>6, <1>7
     DEF ReadInv, ReadShape, Start, BytesCounted, AtBoundary, EndReached, Reported,
         uncached_request_valid
<1>8. CASE SkipInPlace
  BY <1>1, <1>2, <1>3, <1>4, <1>6, <1>8
     DEF ReadInv, ReadShape, SkipInPlace, BytesCounted, AtBoundary, EndReached, Reported
<1>9. CASE BeginTail
  BY <1>1, <1>2, <1>3, <1>4, <1>6, <1>9
     DEF ReadInv, ReadShape, BeginTail, BytesCounted, AtBoundary, EndReached, Reported
<1>10. CASE ReadError
  BY <1>1, <1>2, <1>3, <1>4, <1>6, <1>10
     DEF ReadInv, ReadShape, ReadError, BytesCounted, AtBoundary, EndReached, Reported
<1> QED
  BY <1>7, <1>8, <1>9, <1>10

\* A read into the destination: legal as it is asked, and honest however it comes back.
LEMMA ReadInPlaceHolds ==
  ASSUME ReadInv, ReadInPlace
  PROVE  ReadInv'
<1>1. PICK asked, at : asked = Least(InPlace - total, ReadCap) /\ at = request.offset + total
  OBVIOUS
<1>2. PICK got \in Counts(at, asked) :
        /\ dst' = [i \in DOMAIN dst |-> IF i \in total .. total + got - 1
                                        THEN at + (i - total) ELSE dst[i]]
        /\ total' = total + got
        /\ phase' = IF Stops(got, asked, InPlace - total - got) THEN "read" ELSE phase
  BY <1>1 DEF ReadInPlace, Position
<1>3. /\ phase = "in_place" /\ total < InPlace
      /\ issued' = [into |-> "destination", position |-> at, count |-> asked,
                    address |-> request.address + total]
      /\ UNCHANGED <<size, recorded, request, tail, status, result>>
  BY <1>1 DEF ReadInPlace, Position
<1>4. /\ InPlace' = InPlace /\ (Uncached' <=> Uncached)
  BY <1>3 DEF InPlace, Uncached
<1>5. /\ InPlace \in Nat /\ InPlace <= request.length
      /\ Uncached => InPlace % Block = 0
      /\ ~Uncached => InPlace = request.length
  BY InPlaceFits DEF ReadInv
<1>6. /\ size \in Nat /\ total \in Nat /\ request.offset \in Nat /\ request.address \in Nat
      /\ request.length \in Nat /\ at \in Nat /\ DOMAIN dst = 0 .. request.length - 1
  BY <1>1 DEF ReadInv, ReadShape
<1>7. asked \in Nat \ {0} /\ asked <= InPlace - total
  BY <1>1, <1>3, <1>5, <1>6, CapFits DEF Least
<1>8. /\ got \in Nat /\ got <= asked
      /\ got # 0 => at + got <= size
      /\ got = 0 => at >= size
  BY <1>2, <1>6, <1>7, CountsFit
<1>9. PICK sum \in Nat : sum = total + got /\ sum <= InPlace
  BY <1>5, <1>6, <1>7, <1>8
<1>10. result = None /\ result' = None
  BY <1>3 DEF ReadInv, Reported
<1>11. ReadShape'
  <2>1. issued' \in [into : {"destination", "scratch"}, position : Nat, count : Nat, address : Nat]
    BY <1>3, <1>6, <1>7
  <2>2. phase' \in Phases
    BY <1>2, <1>3 DEF Phases
  <2>3. DOMAIN dst' = 0 .. request.length - 1 /\ total' \in Nat
    BY <1>2, <1>6, <1>9
  <2> QED
    BY <1>3, <2>1, <2>2, <2>3 DEF ReadInv, ReadShape
<1>12. BytesCounted'
  <2>1. ASSUME NEW i \in 0 .. sum - 1 PROVE dst'[i] = request.offset + i
    <3>1. i \in DOMAIN dst
      BY <1>5, <1>6, <1>9
    <3>2. CASE i < total
      <4>1. dst[i] = request.offset + i
        BY <1>6, <3>2 DEF ReadInv, BytesCounted
      <4> QED
        BY <1>2, <1>6, <3>1, <3>2, <4>1
    <3>3. CASE i >= total
      <4>1. i \in total .. total + got - 1 /\ at + (i - total) = request.offset + i
        BY <1>1, <1>6, <1>8, <1>9, <3>3
      <4> QED
        BY <1>2, <3>1, <4>1
    <3> QED
      BY <1>6, <3>2, <3>3
  <2>2. sum <= request.length
    BY <1>5, <1>6, <1>9
  <2> QED
    BY <1>2, <1>3, <1>4, <1>9, <2>1, <2>2 DEF BytesCounted
<1>13. ReadCap % Block = 0 /\ Block \in Nat \ {0}
  BY ReadAssumption
<1>14. ASSUME Uncached
       PROVE  /\ request.offset % Block = 0 /\ request.address % Block = 0
              /\ total % Block = 0 /\ asked % Block = 0
  <2>1. request.offset % Block = 0 /\ request.address % Block = 0 /\ total % Block = 0
    BY <1>3, <1>14 DEF ReadInv, AtBoundary
  <2>2. (InPlace - total) % Block = 0
    BY <1>5, <1>6, <1>14, <2>1, BlocksAdd
  <2> QED
    BY <1>1, <1>13, <2>1, <2>2 DEF Least
<1>15. AtBoundary'
  <2>1. ASSUME Uncached, phase' = "in_place" PROVE total' % Block = 0
    <3>1. got = asked
      BY <1>2, <1>7, <1>8, <2>1 DEF Stops
    <3> QED
      BY <1>2, <1>6, <1>7, <1>14, <2>1, <3>1, BlocksAdd
  <2>2. phase' \in {"in_place", "read"} /\ tail' = 0
    BY <1>2, <1>3 DEF ReadInv, AtBoundary
  <2> QED
    BY <1>3, <1>4, <1>14, <2>1, <2>2 DEF AtBoundary
<1>16. EndReached'
  <2>1. ASSUME ~Uncached PROVE total' # 0 => request.offset + total' <= size
    <3>1. CASE got = 0
      BY <1>2, <1>6, <1>8, <2>1, <3>1 DEF ReadInv, EndReached
    <3>2. CASE got # 0
      BY <1>1, <1>2, <1>6, <1>8, <3>2
    <3> QED
      BY <3>1, <3>2
  <2>2. ASSUME ~Uncached, phase' = "read"
        PROVE  total' = request.length \/ request.offset + total' >= size
    <3>1. got = 0 \/ InPlace - total - got = 0
      BY <1>2, <1>3, <2>2 DEF Stops
    <3>2. InPlace = request.length /\ at = request.offset + total /\ total' = total + got
      BY <1>1, <1>2, <1>5, <2>2
    <3>3. CASE got = 0
      <4>1. total' = total /\ at >= size
        BY <1>6, <1>8, <3>2, <3>3
      <4> QED
        BY <3>2, <4>1
    <3>4. CASE InPlace - total - got = 0
      <4>1. total + got = InPlace
        BY <1>5, <1>6, <1>8, <3>4
      <4> QED
        BY <3>2, <4>1
    <3> QED
      BY <3>1, <3>3, <3>4
  <2>3. phase' \in {"in_place", "read"}
    BY <1>2, <1>3
  <2> QED
    BY <1>3, <1>4, <2>1, <2>2, <2>3 DEF EndReached
<1>17. ReadsAreLegal'
  <2>1. issued'.into = "destination" /\ issued'.position = at /\ issued'.count = asked
        /\ issued'.address = request.address + total
    BY <1>3
  <2>2. issued'.address + issued'.count <= request.address + request.length
    BY <1>5, <1>6, <1>7, <2>1
  <2>3. ASSUME Uncached
        PROVE  at % Block = 0 /\ (request.address + total) % Block = 0
    <3>1. PICK o \in Int, a \in Int, n \in Int :
             o = request.offset /\ a = request.address /\ n = total
      BY <1>6
    <3>2. o % Block = 0 /\ a % Block = 0 /\ n % Block = 0
      BY <1>14, <2>3, <3>1
    <3>3. (o + n) % Block = 0 /\ (a + n) % Block = 0
      BY <3>2, BlocksAdd
    <3> QED
      BY <1>1, <3>1, <3>3
  <2> QED
    BY <1>3, <1>4, <1>14, <2>1, <2>2, <2>3 DEF ReadsAreLegal
<1> QED
  BY <1>10, <1>11, <1>12, <1>15, <1>16, <1>17 DEF ReadInv, Reported

\* The one read of the scratch asks for a whole block at a block boundary.
LEMMA ReadTailHolds ==
  ASSUME ReadInv, ReadTail
  PROVE  ReadInv'
<1>1. PICK asked, at : asked = Least(Block - tail, ReadCap) /\ at = request.offset + InPlace + tail
  OBVIOUS
<1>2. PICK got \in Counts(at, asked) :
        /\ tail' = tail + got
        /\ phase' = IF Stops(got, asked, Block - tail - got) THEN "copy" ELSE phase
  BY <1>1 DEF ReadTail
<1>3. /\ phase = "tail"
      /\ issued' = [into |-> "scratch", position |-> at, count |-> asked, address |-> tail]
      /\ UNCHANGED <<size, recorded, request, total, dst, status, result>>
  BY <1>1 DEF ReadTail
<1>4. InPlace' = InPlace /\ (Uncached' <=> Uncached)
  BY <1>3 DEF InPlace, Uncached
<1>5. Uncached /\ total = InPlace /\ tail = 0 /\ request.offset % Block = 0
      /\ request.address % Block = 0
  BY <1>3 DEF ReadInv, AtBoundary
<1>6. InPlace \in Nat /\ InPlace % Block = 0
  BY <1>5, InPlaceFits DEF ReadInv
<1>7. /\ size \in Nat /\ total \in Nat /\ request.offset \in Nat /\ at \in Nat
      /\ Block \in Nat \ {0}
  <2>1. size \in Nat /\ total \in Nat /\ request.offset \in Nat
    BY DEF ReadInv, ReadShape
  <2>2. at \in Nat
    BY <1>1, <1>5, <1>6, <2>1
  <2>3. Block \in Nat \ {0}
    BY ReadAssumption
  <2> QED
    BY <2>1, <2>2, <2>3
<1>8. asked = Block /\ at = request.offset + InPlace
  BY <1>1, <1>5, <1>6, <1>7, CapFits DEF Least
<1>9. got \in Nat /\ got <= asked
  BY <1>2, <1>7, <1>8, CountsFit
<1>10. phase' = "copy"
  <2>1. got = 0 \/ got < asked \/ Block - tail - got = 0
    BY <1>5, <1>7, <1>8, <1>9
  <2> QED
    BY <1>2, <1>5, <2>1 DEF Stops
<1>11. tail' = got
  BY <1>2, <1>5, <1>9
<1>12. ReadShape'
  <2>1. issued' \in [into : {"destination", "scratch"}, position : Nat, count : Nat, address : Nat]
    BY <1>3, <1>5, <1>7, <1>8
  <2> QED
    BY <1>3, <1>9, <1>10, <1>11, <2>1 DEF ReadInv, ReadShape, Phases
<1>13. BytesCounted'
  BY <1>3, <1>4, <1>10 DEF ReadInv, BytesCounted
<1>14. AtBoundary' /\ EndReached' /\ Reported'
  BY <1>3, <1>4, <1>5, <1>10 DEF ReadInv, AtBoundary, EndReached, Reported
<1>15. ReadsAreLegal'
  <2>1. issued'.into = "scratch" /\ issued'.position = at /\ issued'.count = Block
        /\ issued'.address = 0
    BY <1>3, <1>5, <1>8
  <2>2. at % Block = 0
    BY <1>5, <1>6, <1>7, <1>8, BlocksAdd
  <2>3. 0 % Block = 0 /\ Block % Block = 0
    BY <1>7
  <2> QED
    BY <1>7, <2>1, <2>2, <2>3 DEF ReadsAreLegal
<1> QED
  BY <1>12, <1>13, <1>14, <1>15 DEF ReadInv

\* The scratch is copied as far as the destination goes, and counted as far.
LEMMA CopyTailHolds ==
  ASSUME ReadInv, CopyTail
  PROVE  ReadInv'
<1>0. PICK n : n = TailCount(tail)
  OBVIOUS
<1>1. /\ phase = "copy" /\ phase' = "deliver" /\ total' = total + n
      /\ dst' = [i \in DOMAIN dst |-> IF i \in InPlace .. InPlace + n - 1
                                      THEN request.offset + i ELSE dst[i]]
      /\ UNCHANGED <<size, recorded, request, tail, status, issued, result>>
  BY <1>0 DEF CopyTail
<1>2. InPlace' = InPlace /\ (Uncached' <=> Uncached)
  BY <1>1 DEF InPlace, Uncached
<1>3. /\ Uncached /\ total = InPlace
      /\ request.offset % Block = 0 /\ request.address % Block = 0
  BY <1>1 DEF ReadInv, AtBoundary
<1>4. /\ InPlace \in Nat /\ InPlace <= request.length
      /\ request.offset \in Nat /\ request.length \in Nat /\ tail \in Nat
      /\ DOMAIN dst = 0 .. request.length - 1
  BY InPlaceFits DEF ReadInv, ReadShape
<1>5. n \in Nat /\ n <= request.length - InPlace
  BY <1>0, <1>4 DEF TailCount, Least
<1>6. PICK sum \in Nat : sum = InPlace + n /\ sum <= request.length
  BY <1>4, <1>5
<1>7. total' = sum
  BY <1>1, <1>3, <1>6
<1>8. ReadShape'
  BY <1>1, <1>7 DEF ReadInv, ReadShape, Phases
<1>9. BytesCounted'
  <2>1. ASSUME NEW i \in 0 .. sum - 1 PROVE dst'[i] = request.offset + i
    <3>1. i \in DOMAIN dst
      BY <1>4, <1>6
    <3>2. CASE i < InPlace
      <4>1. dst[i] = request.offset + i
        BY <1>3, <1>4, <3>2 DEF ReadInv, BytesCounted
      <4> QED
        BY <1>1, <1>4, <3>1, <3>2, <4>1
    <3>3. CASE i >= InPlace
      BY <1>1, <1>4, <1>5, <1>6, <3>1, <3>3
    <3> QED
      BY <1>4, <3>2, <3>3
  <2> QED
    BY <1>1, <1>6, <1>7, <2>1 DEF BytesCounted
<1>10. AtBoundary' /\ EndReached'
  BY <1>1, <1>2, <1>3 DEF AtBoundary, EndReached
<1>11. Reported'
  BY <1>1 DEF ReadInv, Reported
<1>12. ReadsAreLegal'
  BY <1>1, <1>2 DEF ReadInv, ReadsAreLegal
<1> QED
  BY <1>8, <1>9, <1>10, <1>11, <1>12 DEF ReadInv

\* What is delivered is the count, or nothing for a refused request.
LEMMA DeliverHolds ==
  ASSUME ReadInv, Refuse \/ Report
  PROVE  ReadInv'
<1>0. /\ phase' = "done"
      /\ UNCHANGED <<size, recorded, request, total, tail, dst, status, issued>>
  BY DEF Refuse, Report, Deliver
<1>1. InPlace' = InPlace /\ (Uncached' <=> Uncached)
  BY <1>0 DEF InPlace, Uncached
<1>2. ReadShape' /\ BytesCounted' /\ AtBoundary' /\ EndReached' /\ ReadsAreLegal'
  BY <1>0, <1>1 DEF ReadInv, ReadShape, Phases, BytesCounted, AtBoundary, EndReached,
                    ReadsAreLegal
<1>3. CASE Refuse
  <2>1. result'.bytes = 0 /\ Uncached
    BY <1>3 DEF Refuse, Deliver
  <2> QED
    BY <1>0, <1>1, <1>2, <2>1 DEF ReadInv, Reported
<1>4. CASE Report
  <2>1. result'.bytes = total /\ phase = "deliver"
    BY <1>4 DEF Report, Deliver
  <2> QED
    BY <1>0, <1>1, <1>2, <2>1 DEF ReadInv, Reported, EndReached
<1> QED
  BY <1>3, <1>4

-----------------------------------------------------------------------------
(***************************************************************************)
(* The theorems.                                                           *)
(***************************************************************************)

\* The inductive invariant of reading one request.
THEOREM ReadInvariant == ReadSpec => []ReadInv
<1>1. ReadInit => ReadInv
  BY ReadInitHolds
<1>2. ReadInv /\ [ReadNext]_readVars => ReadInv'
  <2> SUFFICES ASSUME ReadInv, [ReadNext]_readVars PROVE ReadInv'
    OBVIOUS
  <2>1. CASE UNCHANGED readVars
    <3>1. InPlace' = InPlace /\ (Uncached' <=> Uncached)
      BY <2>1 DEF readVars, InPlace, Uncached
    <3> QED
      BY <2>1, <3>1 DEF readVars, ReadInv, ReadShape, BytesCounted, AtBoundary, EndReached,
                        Reported, ReadsAreLegal
  <2> QED
    BY <2>1, BookkeepingHolds, ReadInPlaceHolds, ReadTailHolds, CopyTailHolds, DeliverHolds
       DEF ReadNext, Step
<1> QED
  BY <1>1, <1>2, PTL DEF ReadSpec

\* No read leaves the destination or the scratch, and an uncached one is always aligned,
\* short reads and a partial last block included.
THEOREM ReadsStayLegal == ReadSpec => []ReadsAreLegal
<1>1. ReadInv => ReadsAreLegal
  BY DEF ReadInv
<1> QED
  BY <1>1, ReadInvariant, PTL

\* Every byte a delivery counts is the source's, and a buffered read that met no error is
\* cut short only by the end of the file.
THEOREM CountsAreHonest == ReadSpec => []CountIsHonest
<1>1. ReadInv => CountIsHonest
  <2> SUFFICES ASSUME ReadInv, result # None
               PROVE  /\ \A i \in 0 .. result.bytes - 1 : dst[i] = request.offset + i
                      /\ ~Uncached /\ status = "ok" =>
                           result.bytes = IF request.offset >= size THEN 0
                                          ELSE Least(request.length, size - request.offset)
    BY DEF CountIsHonest
  <2>1. total \in Nat /\ size \in Nat /\ request.offset \in Nat /\ request.length \in Nat
    BY DEF ReadInv, ReadShape
  <2>2. \A i \in 0 .. result.bytes - 1 : dst[i] = request.offset + i
    BY <2>1 DEF ReadInv, Reported, BytesCounted
  <2>3. ASSUME ~Uncached, status = "ok"
        PROVE  result.bytes = IF request.offset >= size THEN 0
                              ELSE Least(request.length, size - request.offset)
    <3>1. /\ result.bytes = total /\ total <= request.length
          /\ total # 0 => request.offset + total <= size
          /\ total = request.length \/ request.offset + total >= size
      BY <2>3 DEF ReadInv, Reported, BytesCounted, EndReached
    <3> QED
      BY <2>1, <3>1 DEF Least
  <2> QED
    BY <2>2, <2>3
<1> QED
  BY <1>1, ReadInvariant, PTL

-----------------------------------------------------------------------------
\* Going round m times more is going nowhere.
LEMMA WholeTurns ==
  ASSUME NEW n \in Nat \ {0}, NEW s \in 0 .. n - 1, NEW m \in Int, NEW x \in Int,
         x = m * n + s
  PROVE  x % n = s
<1>1. PICK d \in Int, r \in Int : d = x \div n /\ r = x % n
  OBVIOUS
<1>2. x = n * d + r /\ 0 <= r /\ r < n
  BY <1>1
<1>3. PICK e \in Int : e = d - m
  OBVIOUS
<1>4. n * e = s - r
  BY <1>2, <1>3
<1>5. (e >= 1 => n * e >= n) /\ (e <= -1 => n * e <= -n)
  OBVIOUS
<1>6. e = 0
  BY <1>2, <1>4, <1>5
<1> QED
  BY <1>1, <1>4, <1>6

-----------------------------------------------------------------------------
(***************************************************************************)
(* The sweep, turn by turn.                                                *)
(***************************************************************************)
Limit == IF admission = "declared" THEN 2 * NumSlots ELSE NumSlots

SweepShape ==
  /\ start \in [slots : [PoolSlots -> SlotView], hand : PoolSlots]
  /\ admission \in {"declared", "speculative"}
  /\ hand \in PoolSlots
  /\ referenced \in [PoolSlots -> BOOLEAN]
  /\ step \in Nat /\ step <= Limit
  /\ victim \in PoolSlots \union {NONE, Sweeping}

\* After step turns without a victim: nothing so far could be taken, and the bits
\* cleared are those of the slots that a declared sweep ages.
NoneSoFar == \A j \in 0 .. step - 1 : ~P!Takes(j)
AgedSoFar ==
  \A s \in PoolSlots :
    referenced[s] <=> start.slots[s].referenced /\ s \notin P!Aged(admission, step)

SweepInv ==
  /\ SweepShape
  /\ victim = Sweeping => hand = P!SlotAt(step) /\ NoneSoFar /\ AgedSoFar
  /\ SweepExact

\* Before the words that count the turns wrap, they are the turns of two revolutions.
LEMMA StepsAre ==
  ASSUME 2 * NumSlots < StepMod, SweepShape
  PROVE  steps(admission) = Limit
<1>1. NumSlots \in Nat \ {0} /\ StepMod \in Nat \ {0}
  BY NumSlotsAssumption
<1>2. PICK n \in Int : n = 2 * NumSlots
  BY <1>1
<1>3. n \in 0 .. StepMod - 1 /\ n = 0 * StepMod + n
  BY <1>1, <1>2
<1>4. n % StepMod = n
  BY <1>1, <1>3, WholeTurns
<1> QED
  BY <1>2, <1>4 DEF steps, Limit

\* The slot of a turn is a slot; a revolution later it comes round again, and not before.
LEMMA SlotOfTurn ==
  ASSUME SweepShape, NEW k \in Nat
  PROVE  /\ P!SlotAt(k) \in PoolSlots
         /\ P!SlotAt(k + NumSlots) = P!SlotAt(k)
         /\ k = 0 \/ k = NumSlots \/ k = 2 * NumSlots => P!SlotAt(k) = start.hand
<1>1. NumSlots \in Nat \ {0} /\ start.hand \in Nat /\ start.hand < NumSlots
  BY NumSlotsAssumption DEF SweepShape, PoolSlots
<1>2. PICK x \in Int : x = start.hand + k
  BY <1>1
<1>3. PICK d \in Int, r \in Int : d = x \div NumSlots /\ r = x % NumSlots
  BY <1>1
<1>4. x = NumSlots * d + r /\ r \in 0 .. NumSlots - 1
  BY <1>1, <1>3
<1>5. P!SlotAt(k) = r
  BY <1>2, <1>3 DEF P!SlotAt
<1>6. P!SlotAt(k + NumSlots) = r
  <2>1. PICK y \in Int, m \in Int : y = x + NumSlots /\ m = d + 1
    BY <1>1
  <2>2. y = m * NumSlots + r
    BY <1>1, <1>4, <2>1
  <2>3. y % NumSlots = r
    BY <1>1, <1>4, <2>2, WholeTurns
  <2>4. start.hand + (k + NumSlots) = y
    BY <1>1, <1>2, <2>1
  <2> QED
    BY <2>3, <2>4 DEF P!SlotAt
<1>7. ASSUME NEW m \in 0 .. 2, k = m * NumSlots PROVE P!SlotAt(k) = start.hand
  <2>1. x = m * NumSlots + start.hand /\ start.hand \in 0 .. NumSlots - 1 /\ m \in Int
    BY <1>1, <1>2, <1>7
  <2>2. x % NumSlots = start.hand
    BY <1>1, <2>1, WholeTurns
  <2> QED
    BY <1>2, <2>2 DEF P!SlotAt
<1>8. k = 0 \/ k = NumSlots \/ k = 2 * NumSlots => \E m \in 0 .. 2 : k = m * NumSlots
  BY <1>1
<1> QED
  BY <1>4, <1>5, <1>6, <1>7, <1>8 DEF PoolSlots

LEMMA TurnsApart ==
  ASSUME SweepShape, NEW j \in Nat, NEW k \in Nat, j < k, k - j < NumSlots
  PROVE  P!SlotAt(j) # P!SlotAt(k)
<1>1. NumSlots \in Nat \ {0} /\ start.hand \in Nat
  BY NumSlotsAssumption DEF SweepShape, PoolSlots
<1>2. PICK x \in Int, y \in Int : x = start.hand + j /\ y = start.hand + k
  BY <1>1
<1>3. PICK d \in Int, e \in Int, r \in Int, q \in Int :
        d = x \div NumSlots /\ e = y \div NumSlots /\ r = x % NumSlots /\ q = y % NumSlots
  BY <1>1
<1>4. x = NumSlots * d + r /\ y = NumSlots * e + q
  BY <1>1, <1>3
<1>5. P!SlotAt(j) = r /\ P!SlotAt(k) = q
  BY <1>2, <1>3 DEF P!SlotAt
<1>6. ASSUME r = q PROVE FALSE
  <2>1. PICK m \in Int : m = e - d
    OBVIOUS
  <2>2. NumSlots * m = k - j
    BY <1>1, <1>2, <1>4, <1>6, <2>1
  <2>3. (m >= 1 => NumSlots * m >= NumSlots) /\ (m <= 0 => NumSlots * m <= 0)
    BY <1>1
  <2> QED
    BY <1>1, <2>1, <2>2, <2>3
<1> QED
  BY <1>5, <1>6

\* The hand follows the turns.
LEMMA HandMoves ==
  ASSUME SweepShape, hand = P!SlotAt(step)
  PROVE  P!SlotAt(step + 1) = IF hand + 1 = NumSlots THEN 0 ELSE hand + 1
<1>1. NumSlots \in Nat \ {0} /\ start.hand \in Nat /\ step \in Nat /\ hand \in Nat
      /\ hand < NumSlots
  BY NumSlotsAssumption DEF SweepShape, PoolSlots
<1>2. PICK x \in Int : x = start.hand + step
  BY <1>1
<1>3. PICK d \in Int : d = x \div NumSlots
  BY <1>1
<1>4. x = NumSlots * d + hand
  <2>1. hand = x % NumSlots
    BY <1>2 DEF P!SlotAt
  <2> QED
    BY <1>1, <1>3, <2>1
<1>5. PICK y \in Int : y = x + 1
  OBVIOUS
<1>6. start.hand + (step + 1) = y
  BY <1>1, <1>2, <1>5
<1>7. CASE hand + 1 = NumSlots
  <2>1. PICK m \in Int : m = d + 1
    OBVIOUS
  <2>2. PICK z \in Int : z = 0
    OBVIOUS
  <2>3. y = m * NumSlots + z /\ z \in 0 .. NumSlots - 1
    BY <1>1, <1>4, <1>5, <1>7, <2>1, <2>2
  <2>4. y % NumSlots = 0
    BY <1>1, <2>2, <2>3, WholeTurns
  <2> QED
    BY <1>6, <1>7, <2>4 DEF P!SlotAt
<1>8. CASE hand + 1 # NumSlots
  <2>1. PICK s \in Int : s = hand + 1
    BY <1>1
  <2>2. y = d * NumSlots + s /\ s \in 0 .. NumSlots - 1
    BY <1>1, <1>4, <1>5, <1>8, <2>1
  <2>3. y % NumSlots = s
    BY <1>1, <2>2, WholeTurns
  <2> QED
    BY <1>6, <1>8, <2>1, <2>3 DEF P!SlotAt
<1> QED
  BY <1>7, <1>8

\* A turn ages the slot it looks at, or none.
LEMMA AgedGrows ==
  ASSUME SweepShape, NEW k \in Nat
  PROVE  P!Aged(admission, k + 1) =
           IF admission = "declared" /\ start.slots[P!SlotAt(k)].pins = 0
                                     /\ start.slots[P!SlotAt(k)].state = "ready"
           THEN P!Aged(admission, k) \union {P!SlotAt(k)} ELSE P!Aged(admission, k)
<1>1. \A i : i \in 0 .. (k + 1) - 1 <=> i \in 0 .. k - 1 \/ i = k
  OBVIOUS
<1> QED
  BY <1>1 DEF P!Aged

\* Nothing is aged before the first turn.
LEMMA AgedFirst == P!Aged(admission, 0) = {}
<1>1. 0 .. 0 - 1 = {}
  OBVIOUS
<1> QED
  BY <1>1 DEF P!Aged

\* A ready slot under the hand is bare exactly when a sweep may take it.
LEMMA BareIsTaken ==
  ASSUME SweepInv, victim = Sweeping, step < Limit,
         Candidate.pins = 0, Candidate.state = "ready"
  PROVE  P!Takes(step) <=> ~referenced[hand]
<1>1. /\ SweepShape /\ hand = P!SlotAt(step) /\ AgedSoFar /\ hand \in PoolSlots
      /\ step \in Nat /\ NumSlots \in Nat \ {0}
  BY NumSlotsAssumption DEF SweepInv, SweepShape
<1>2. P!Takes(step) <=> (start.slots[hand].referenced => step >= NumSlots)
  BY <1>1 DEF P!Takes, Candidate
<1>3. referenced[hand] <=> start.slots[hand].referenced /\ hand \notin P!Aged(admission, step)
  BY <1>1 DEF AgedSoFar
<1>4. ASSUME step >= NumSlots PROVE hand \in P!Aged(admission, step)
  <2>1. PICK j \in Nat : j = step - NumSlots
    BY <1>1, <1>4
  <2>2. j + NumSlots = step /\ j \in 0 .. step - 1
    BY <1>1, <2>1
  <2>3. P!SlotAt(j) = hand
    BY <1>1, <2>2, SlotOfTurn
  <2>4. admission = "declared"
    BY <1>1, <1>4 DEF Limit, SweepShape
  <2> QED
    BY <2>2, <2>3, <2>4 DEF P!Aged, Candidate
<1>5. ASSUME step < NumSlots PROVE hand \notin P!Aged(admission, step)
  <2> SUFFICES ASSUME NEW j \in 0 .. step - 1, P!SlotAt(j) = hand PROVE FALSE
    BY DEF P!Aged
  <2>1. j \in Nat /\ j < step /\ step - j < NumSlots
    BY <1>1, <1>5
  <2> QED
    BY <1>1, <2>1, TurnsApart
<1> QED
  BY <1>1, <1>2, <1>3, <1>4, <1>5

\* A sweep that has looked everywhere in vain has aged nothing.
LEMMA NothingAged ==
  ASSUME SweepShape, NoneSoFar, step = Limit
  PROVE  P!Aged(admission, step) = {}
<1>1. step \in Nat /\ NumSlots \in Nat \ {0}
  BY NumSlotsAssumption DEF SweepShape
<1> SUFFICES ASSUME NEW j \in 0 .. step - 1, admission = "declared",
                    start.slots[P!SlotAt(j)].pins = 0,
                    start.slots[P!SlotAt(j)].state = "ready"
             PROVE  FALSE
  BY DEF P!Aged
<1>2. step = 2 * NumSlots /\ j \in Nat /\ j < 2 * NumSlots
  BY <1>1 DEF Limit
<1>3. \E k \in 0 .. step - 1 : k >= NumSlots /\ P!SlotAt(k) = P!SlotAt(j)
  <2>1. CASE j >= NumSlots
    BY <2>1
  <2>2. CASE j < NumSlots
    <3>1. j + NumSlots \in 0 .. step - 1 /\ j + NumSlots >= NumSlots
      BY <1>1, <1>2, <2>2
    <3> QED
      BY <1>2, <3>1, SlotOfTurn
  <2> QED
    BY <1>1, <1>2, <2>1, <2>2
<1>4. PICK k \in 0 .. step - 1 : k >= NumSlots /\ P!SlotAt(k) = P!SlotAt(j)
  BY <1>3
<1>5. P!Takes(k)
  BY <1>4 DEF P!Takes
<1> QED
  BY <1>4, <1>5 DEF NoneSoFar

LEMMA SweepInitInv == SweepInit => SweepInv
<1> SUFFICES ASSUME SweepInit PROVE SweepInv
  OBVIOUS
<1>1. NumSlots \in Nat \ {0}
  BY NumSlotsAssumption
<1>2. /\ start \in [slots : [PoolSlots -> SlotView], hand : PoolSlots]
      /\ admission \in {"declared", "speculative"}
      /\ hand = start.hand
      /\ referenced = [s \in PoolSlots |-> start.slots[s].referenced]
      /\ step = 0 /\ victim = Sweeping
  BY DEF SweepInit
<1>3. \A s \in PoolSlots : start.slots[s].referenced \in BOOLEAN
  BY <1>2 DEF SlotView
<1>4. SweepShape
  BY <1>1, <1>2, <1>3 DEF SweepShape, Limit
<1>5. hand = P!SlotAt(step)
  BY <1>2, <1>4, SlotOfTurn
<1>6. 0 .. step - 1 = {}
  BY <1>2
<1>7. NoneSoFar /\ AgedSoFar
  BY <1>2, <1>3, <1>6, AgedFirst DEF NoneSoFar, AgedSoFar
<1>8. victim # NONE /\ victim \notin PoolSlots
  BY <1>1, <1>2 DEF NONE, Sweeping, PoolSlots
<1> QED
  BY <1>4, <1>5, <1>7, <1>8 DEF SweepInv, SweepExact

\* The pool a sweep began with stays what it was.
LEMMA StartKept ==
  ASSUME UNCHANGED <<start, admission>>, NEW k
  PROVE  /\ P!SlotAt(k)' = P!SlotAt(k) /\ (P!Takes(k)' <=> P!Takes(k))
         /\ P!Aged(admission, k)' = P!Aged(admission, k)
         /\ P!SweepSteps(admission)' = P!SweepSteps(admission)
BY DEF P!SlotAt, P!Takes, P!Aged, P!SweepSteps

LEMMA TurnInv ==
  ASSUME 2 * NumSlots < StepMod, SweepInv, Turn
  PROVE  SweepInv'
<1>1. /\ SweepShape /\ hand = P!SlotAt(step) /\ NoneSoFar /\ AgedSoFar /\ victim = Sweeping
      /\ step \in Nat /\ hand \in PoolSlots /\ NumSlots \in Nat \ {0}
      /\ referenced \in [PoolSlots -> BOOLEAN]
  BY NumSlotsAssumption DEF SweepInv, SweepShape, Turn
<1>2. /\ step < Limit /\ step' = step + 1 /\ UNCHANGED <<start, admission>>
      /\ hand' = IF hand + 1 = NumSlots THEN 0 ELSE hand + 1
  BY <1>1, StepsAre DEF Turn
<1>3. hand' = P!SlotAt(step + 1) /\ hand' \in PoolSlots
  BY <1>1, <1>2, HandMoves, SlotOfTurn
<1>4. step' \in Nat /\ step' <= Limit' /\ Limit' = Limit
  BY <1>1, <1>2 DEF Limit
<1>5. start.slots[hand] \in SlotView
  BY <1>1 DEF SweepShape
<1>6. PICK k \in Nat : k = step
  BY <1>1
<1>7. CASE P!Takes(step)
  <2>1. victim' = hand /\ referenced' = [referenced EXCEPT ![hand] = FALSE]
    <3>1. Candidate.pins = 0 /\ Candidate.state \in {"free", "ready"}
      BY <1>1, <1>7 DEF P!Takes, Candidate
    <3>2. Candidate.state = "ready" => ~referenced[hand]
      BY <1>1, <1>2, <1>7, <3>1, BareIsTaken
    <3> QED
      BY <3>1, <3>2 DEF Turn
  <2>2. SweepShape'
    BY <1>1, <1>2, <1>3, <1>4, <2>1 DEF SweepShape
  <2>3. victim' # Sweeping /\ victim' # NONE
    BY <1>1, <2>1 DEF PoolSlots, Sweeping, NONE
  <2>4. k \in P!SweepSteps(admission)
    BY <1>2, <1>6, NumSlotsAssumption DEF P!SweepSteps, Limit
  <2>5. P!claim_victim(admission, k)'
    BY <1>2, <1>1, <1>6, <1>7, <2>4, StartKept DEF P!claim_victim, NoneSoFar
  <2>6. victim' = P!SlotAt(k)' /\ hand' = P!SlotAt(k + 1)'
    BY <1>1, <1>2, <1>3, <1>6, <2>1, StartKept
  <2>7. ASSUME NEW s \in PoolSlots \ {victim'}, NEW new
        PROVE  referenced'[s] = P!SweptSlots(admission, k, new)'[s].referenced
    <3>1. referenced'[s] = referenced[s] /\ s # P!SlotAt(k)
      BY <1>1, <1>6, <2>1
    <3>2. referenced[s] <=> start.slots[s].referenced /\ s \notin P!Aged(admission, k)
      BY <1>1, <1>6 DEF AgedSoFar
    <3>3. P!Slots = PoolSlots
      BY DEF P!Slots, PoolSlots
    <3>4. P!SweptSlots(admission, k, new)'[s]
            = IF s \in P!Aged(admission, k) THEN [start.slots[s] EXCEPT !.referenced = FALSE]
              ELSE start.slots[s]
      BY <1>2, <3>1, <3>3, StartKept DEF P!SweptSlots
    <3>5. start.slots[s] \in SlotView /\ referenced[s] \in BOOLEAN
      BY <1>1 DEF SweepShape
    <3>6. start.slots[s].referenced \in BOOLEAN
          /\ [start.slots[s] EXCEPT !.referenced = FALSE].referenced = FALSE
      BY <3>5 DEF SlotView
    <3> QED
      BY <3>1, <3>2, <3>4, <3>5, <3>6
  <2>8. SweepExact'
    BY <2>3, <2>4, <2>5, <2>6, <2>7, <1>2, StartKept DEF SweepExact
  <2> QED
    BY <2>2, <2>3, <2>8 DEF SweepInv
<1>8. CASE ~P!Takes(step)
  <2>1. /\ UNCHANGED victim
        /\ \/ UNCHANGED referenced
           \/ /\ Candidate.pins = 0 /\ Candidate.state = "ready"
              /\ referenced' = [referenced EXCEPT ![hand] = (admission = "speculative")]
    BY <1>1, <1>2, <1>8, BareIsTaken DEF Turn, P!Takes, Candidate
  <2>2. Candidate.pins = 0 /\ Candidate.state = "ready" =>
          referenced[hand] /\ referenced' = [referenced EXCEPT ![hand] = (admission = "speculative")]
    BY <1>1, <1>2, <1>8, BareIsTaken DEF Turn
  <2>3. SweepShape'
    BY <1>1, <1>2, <1>3, <1>4, <2>1 DEF SweepShape
  <2>4. NoneSoFar'
    <3>1. \A j \in 0 .. step' - 1 : j \in 0 .. step - 1 \/ j = k
      BY <1>1, <1>2, <1>6
    <3> QED
      BY <1>1, <1>2, <1>6, <1>8, <3>1, StartKept DEF NoneSoFar
  <2>5. AgedSoFar'
    <3> SUFFICES ASSUME NEW s \in PoolSlots
                 PROVE  referenced'[s] <=> start.slots[s].referenced
                                           /\ s \notin P!Aged(admission, k + 1)
      BY <1>2, <1>6, StartKept DEF AgedSoFar
    <3>1. referenced[s] <=> start.slots[s].referenced /\ s \notin P!Aged(admission, k)
      BY <1>1, <1>6 DEF AgedSoFar
    <3>2. P!Aged(admission, k + 1) =
            IF admission = "declared" /\ start.slots[hand].pins = 0
                                      /\ start.slots[hand].state = "ready"
            THEN P!Aged(admission, k) \union {hand} ELSE P!Aged(admission, k)
      BY <1>1, <1>6, AgedGrows
    <3>3. CASE Candidate.pins = 0 /\ Candidate.state = "ready"
      <4>1. referenced' = [referenced EXCEPT ![hand] = (admission = "speculative")]
            /\ referenced[hand]
        BY <2>2, <3>3
      <4>2. admission = "speculative" <=> admission # "declared"
        BY <1>1 DEF SweepShape
      <4> QED
        BY <1>1, <3>1, <3>2, <3>3, <4>1, <4>2 DEF Candidate
    <3>4. CASE ~(Candidate.pins = 0 /\ Candidate.state = "ready")
      BY <2>1, <3>1, <3>2, <3>4 DEF Candidate
    <3> QED
      BY <3>3, <3>4
  <2>6. hand' = P!SlotAt(step)'
    BY <1>2, <1>3, <1>6, StartKept
  <2>7. victim' # NONE /\ victim' \notin PoolSlots
    BY <1>1, <2>1 DEF PoolSlots, Sweeping, NONE
  <2> QED
    BY <2>3, <2>4, <2>5, <2>6, <2>7 DEF SweepInv, SweepExact
<1> QED
  BY <1>7, <1>8

LEMMA GiveUpInv ==
  ASSUME 2 * NumSlots < StepMod, SweepInv, GiveUp
  PROVE  SweepInv'
<1>1. /\ SweepShape /\ hand = P!SlotAt(step) /\ NoneSoFar /\ AgedSoFar /\ victim = Sweeping
      /\ step \in Nat /\ step <= Limit /\ NumSlots \in Nat \ {0}
  BY NumSlotsAssumption DEF SweepInv, SweepShape, GiveUp
<1>2. /\ step >= Limit /\ victim' = NONE /\ UNCHANGED <<start, admission, hand, referenced, step>>
  BY <1>1, StepsAre DEF GiveUp
<1>3. step = Limit
  BY <1>1, <1>2 DEF Limit
<1>4. SweepShape' /\ victim' # Sweeping /\ victim' \notin PoolSlots
  BY <1>1, <1>2 DEF SweepShape, Limit, NONE, Sweeping, PoolSlots
<1>5. P!NoVictim(admission)'
  <2>1. \A k \in P!SweepSteps(admission) : k \in 0 .. step - 1
    BY <1>3 DEF P!SweepSteps, Limit
  <2> QED
    BY <1>1, <1>2, <2>1, StartKept DEF P!NoVictim, NoneSoFar
<1>6. hand = start.hand
  BY <1>1, <1>3, SlotOfTurn DEF Limit
<1>7. \A s \in PoolSlots : referenced[s] = start.slots[s].referenced
  <2>1. P!Aged(admission, step) = {}
    BY <1>1, <1>3, NothingAged
  <2>2. \A s \in PoolSlots : referenced[s] \in BOOLEAN /\ start.slots[s].referenced \in BOOLEAN
    BY <1>1 DEF SweepShape, SlotView
  <2> QED
    BY <1>1, <2>1, <2>2 DEF AgedSoFar
<1> QED
  BY <1>2, <1>4, <1>5, <1>6, <1>7 DEF SweepInv, SweepExact

\* claim_victim's loop ends on the slot the pool's specification names, for every pool
\* whose two revolutions its words can count: the hand, the victim and the aged bits agree,
\* and a sweep in vain leaves the pool as it was.
THEOREM SweepsAreExact == 2 * NumSlots < StepMod => (SweepSpec => []SweepExact)
<1> SUFFICES ASSUME 2 * NumSlots < StepMod PROVE SweepSpec => []SweepExact
  OBVIOUS
<1>1. ASSUME SweepInv, [SweepNext]_sweepVars PROVE SweepInv'
  <2>1. CASE UNCHANGED sweepVars
    <3>1. UNCHANGED <<start, admission, hand, referenced, step, victim>>
      BY <2>1 DEF sweepVars
    <3>2. SweepShape' /\ Candidate' = Candidate
      BY <1>1, <3>1 DEF SweepInv, SweepShape, Limit, Candidate
    <3>3. NoneSoFar' <=> NoneSoFar
      BY <3>1, StartKept DEF NoneSoFar
    <3>4. AgedSoFar' <=> AgedSoFar
      BY <3>1 DEF AgedSoFar, P!Aged, P!SlotAt
    <3>5. SweepExact' <=> SweepExact
      BY <3>1 DEF SweepExact, Candidate, P!SweepSteps, P!claim_victim, P!Takes, P!SlotAt,
           P!SweptSlots, P!Slots, P!Aged, P!NoVictim
    <3>6. P!SlotAt(step)' = P!SlotAt(step)
      BY <3>1 DEF P!SlotAt
    <3> QED
      BY <1>1, <3>1, <3>2, <3>3, <3>4, <3>5, <3>6 DEF SweepInv
  <2> QED
    BY <1>1, <2>1, TurnInv, GiveUpInv DEF SweepNext
<1>2. SweepInit => SweepInv
  BY SweepInitInv
<1>3. SweepInv => SweepExact
  BY DEF SweepInv
<1> QED
  BY <1>1, <1>2, <1>3, PTL DEF SweepSpec

-----------------------------------------------------------------------------
(***************************************************************************)
(* Whole numbers of units.                                                 *)
(***************************************************************************)
Multiple(x, u) == \E k \in Int : x = k * u

LEMMA TimesKeepsOrder ==
  ASSUME NEW u \in Nat \ {0}, NEW k \in Int, NEW l \in Int
  PROVE  /\ k * u \in Int
         /\ k <= l => k * u <= l * u
         /\ k * u < l * u => k < l
<1>1. PICK d \in Int : d = l - k
  OBVIOUS
<1>2. d * u = l * u - k * u /\ k * u \in Int /\ l * u \in Int /\ d * u \in Int
  BY <1>1
<1>3. (d >= 0 => d * u >= 0) /\ (d <= 0 => d * u <= 0)
  OBVIOUS
<1> QED
  BY <1>1, <1>2, <1>3

LEMMA Quotient ==
  ASSUME NEW x \in Int, NEW u \in Nat \ {0}
  PROVE  /\ x \div u \in Int
         /\ (x \div u) * u \in Int
         /\ (x \div u) * u <= x /\ x < (x \div u) * u + u
         /\ x >= 0 => x \div u >= 0
<1>1. PICK d \in Int, r \in Int : d = x \div u /\ r = x % u
  OBVIOUS
<1>2. x = u * d + r /\ 0 <= r /\ r < u
  BY <1>1
<1>3. u * d = d * u /\ d * u \in Int
  OBVIOUS
<1>4. d <= -1 => d * u <= -u
  OBVIOUS
<1> QED
  BY <1>1, <1>2, <1>3, <1>4

LEMMA QuotientKeepsOrder ==
  ASSUME NEW x \in Int, NEW y \in Int, NEW u \in Nat \ {0}, x <= y
  PROVE  x \div u <= y \div u
<1>1. PICK d \in Int, e \in Int : d = x \div u /\ e = y \div u
  BY Quotient
<1>2. d * u \in Int /\ e * u \in Int /\ d * u <= x /\ y < e * u + u
  BY <1>1, Quotient
<1>3. (e + 1) * u = e * u + u
  OBVIOUS
<1>4. d < e + 1
  BY <1>2, <1>3, TimesKeepsOrder
<1> QED
  BY <1>1, <1>4

LEMMA MultipleLeavesNothing ==
  ASSUME NEW x \in Int, NEW u \in Nat \ {0}, Multiple(x, u)
  PROVE  x % u = 0
<1>1. PICK k \in Int : x = k * u
  BY DEF Multiple
<1>2. PICK z \in Int : z = 0
  OBVIOUS
<1>3. x = k * u + z /\ z \in 0 .. u - 1
  BY <1>1, <1>2
<1> QED
  BY <1>2, <1>3, WholeTurns

LEMMA MultiplesSubtract ==
  ASSUME NEW x \in Int, NEW y \in Int, NEW u \in Nat \ {0}, Multiple(x, u), Multiple(y, u)
  PROVE  Multiple(x - y, u)
<1>1. PICK k \in Int, l \in Int : x = k * u /\ y = l * u
  BY DEF Multiple
<1>2. x - y = (k - l) * u /\ k - l \in Int
  BY <1>1
<1> QED
  BY <1>2 DEF Multiple

LEMMA MultipleOfMultiple ==
  ASSUME NEW x \in Int, NEW u \in Nat \ {0}, NEW k \in Int, Multiple(x, u)
  PROVE  Multiple(k * x, u)
<1>1. PICK l \in Int : x = l * u
  BY DEF Multiple
<1>2. k * x = (k * l) * u /\ k * l \in Int
  BY <1>1
<1> QED
  BY <1>2 DEF Multiple

\* round_up(v, a) is the least multiple of a that is no smaller than v.
LEMMA RoundUpIs ==
  ASSUME NEW v \in Int, NEW a \in Nat \ {0}
  PROVE  /\ round_up(v, a) \in Int /\ Multiple(round_up(v, a), a)
         /\ v <= round_up(v, a) /\ round_up(v, a) < v + a
         /\ \A m \in Int : Multiple(m, a) /\ v <= m => round_up(v, a) <= m
<1>1. PICK x \in Int : x = v + a - 1
  OBVIOUS
<1>2. PICK d \in Int : d = x \div a
  BY Quotient
<1>3. d * a \in Int /\ d * a <= x /\ x < d * a + a
  BY <1>2, Quotient
<1>4. round_up(v, a) = d * a
  BY <1>1, <1>2 DEF round_up
<1>5. ASSUME NEW m \in Int, Multiple(m, a), v <= m PROVE d * a <= m
  <2>1. PICK k \in Int : m = k * a
    BY <1>5 DEF Multiple
  <2>2. (k + 1) * a = m + a
    BY <2>1
  <2>3. d * a < (k + 1) * a
    BY <1>1, <1>3, <1>5, <2>2
  <2>4. d < k + 1
    BY <2>3, TimesKeepsOrder
  <2>5. d <= k
    BY <2>4
  <2> QED
    BY <2>1, <2>5, TimesKeepsOrder
<1> QED
  BY <1>1, <1>3, <1>4, <1>5 DEF Multiple

-----------------------------------------------------------------------------
(***************************************************************************)
(* The invariant: options main accepts, and a row of the file.             *)
(***************************************************************************)
WindowInv ==
  /\ options \in [row : Nat \ {0}, chunk : Nat, file : Nat] /\ LargeEnough(options)
  /\ arm \in Arm
  /\ row = -1 \/ row \in 0 .. rows - 1

LEMMA WindowInvHolds == WindowSpec => []WindowInv
<1>1. WindowInit => WindowInv
  BY WindowAssumption DEF WindowInit, WindowInv
<1>2. WindowInv /\ [WindowNext]_windowVars => WindowInv'
  BY DEF WindowInv, WindowNext, AskFor, windowVars, rows, LargeEnough
<1> QED
  BY <1>1, <1>2, PTL DEF WindowSpec

\* A conversion keeps a count that fits, and never makes one larger.
LEMMA NarrowIs ==
  ASSUME NEW n \in Nat
  PROVE  /\ Narrow(n) \in Nat /\ Narrow(n) <= n /\ Signed(n) \in Int /\ Signed(n) <= n
         /\ n < NarrowMod => Narrow(n) = n
<1>1. PICK M \in Nat \ {0} : M = NarrowMod
  BY WindowAssumption
<1>2. PICK d \in Int, r \in Int : d = n \div M /\ r = n % M
  OBVIOUS
<1>3. n = M * d + r /\ 0 <= r /\ r < M /\ M * d \in Int
  BY <1>2
<1>4. (d >= 0 => M * d >= 0) /\ (d >= 1 => M * d >= M) /\ (d <= -1 => M * d <= -M)
  OBVIOUS
<1>5. d >= 0 /\ r <= n /\ (n < M => r = n)
  BY <1>3, <1>4
<1>6. Narrow(n) = r
  BY <1>1, <1>2 DEF Narrow
<1> QED
  BY <1>1, <1>3, <1>5, <1>6 DEF Signed

\* The last byte of a row is two alignment units from the end of the file.
LEMMA RowInFile ==
  ASSUME WindowInv, NEW r \in 0 .. rows - 1
  PROVE  /\ Offset(r) \in Nat
         /\ Offset(r) + options.row <= options.file - 2 * KAlign
<1>1. PICK R \in Nat \ {0}, F \in Nat : R = options.row /\ F = options.file
  BY DEF WindowInv
<1>2. KAlign \in Nat \ {0}
  BY WindowAssumption
<1>3. PICK x \in Int : x = F - 2 * KAlign
  BY <1>2
<1>4. PICK d \in Int : d = x \div R
  BY Quotient
<1>5. d * R <= x /\ d * R \in Int
  BY <1>4, Quotient
<1>6. d \in Nat /\ rows = Signed(d)
  <2>1. x >= 0
    BY <1>1, <1>2, <1>3 DEF WindowInv, LargeEnough
  <2> QED
    BY <1>1, <1>3, <1>4, <2>1, Quotient DEF rows
<1>7. r \in Int /\ 0 <= r /\ r + 1 <= d
  <2>1. Signed(d) \in Int /\ Signed(d) <= d
    BY <1>6, NarrowIs
  <2> QED
    BY <1>6, <2>1
<1>8. r * R \in Int /\ r * R >= 0 /\ (r + 1) * R = r * R + R /\ (r + 1) * R <= d * R
  BY <1>7, TimesKeepsOrder
<1> QED
  BY <1>1, <1>3, <1>5, <1>8 DEF Offset

\* What the window of a row is, the alignment an unbuffered arm adds included.
WindowIs(w) ==
  /\ w.offset \in Nat /\ w.length \in Nat \ {0} /\ w.head \in Nat
  /\ w.head < KAlign /\ w.head + options.row <= w.length
  /\ w.length < w.head + options.row + KAlign
  /\ ~arm.unbuffered => w.length = options.row
  /\ arm.unbuffered => /\ Multiple(w.offset, KAlign)
                       /\ w.length = round_up(w.head + options.row, KAlign)

LEMMA WindowOfRow ==
  ASSUME WindowInv, NEW r \in 0 .. rows - 1
  PROVE  WindowIs(Window(r)) /\ WindowFits(Window(r))
<1>1. PICK R \in Nat \ {0}, F \in Nat : R = options.row /\ F = options.file
  BY DEF WindowInv
<1>2. PICK A \in Nat \ {0} : A = KAlign
  BY WindowAssumption
<1>3. PICK off \in Nat : off = Offset(r) /\ off + R <= F - 2 * A
  BY <1>1, <1>2, RowInFile
<1>4. PICK needed \in Int : needed = R + 2 * A
  OBVIOUS
<1>5. PICK s \in Int : s = stride /\ R + 2 * A <= s /\ s % A = 0
  <2>1. stride = round_up(needed, A)
    BY <1>1, <1>2, <1>4 DEF stride
  <2> QED
    BY <1>4, <2>1, RoundUpIs, MultipleLeavesNothing
<1>6. CASE ~arm.unbuffered
  <2>1. /\ Window(r).offset = off /\ Window(r).length = R /\ Window(r).head = 0
    BY <1>1, <1>3, <1>6 DEF Window
  <2> QED
    BY <1>1, <1>2, <1>3, <1>4, <1>5, <1>6, <2>1 DEF WindowIs, WindowFits
<1>7. CASE arm.unbuffered
  <2>1. PICK d \in Int : d = off \div A
    BY Quotient
  <2>2. PICK begin \in Int : begin = d * A
    BY TimesKeepsOrder
  <2>3. /\ begin <= off /\ off < begin + A /\ begin >= 0
    BY <2>1, <2>2, Quotient, TimesKeepsOrder
  <2>4. PICK head \in Nat : head = off - begin
    BY <2>3
  <2>5. PICK v \in Int : v = head + R
    OBVIOUS
  <2>6. PICK len \in Int : len = round_up(v, A)
    BY RoundUpIs
  <2>7. v <= len /\ len < v + A /\ len % A = 0
    BY <2>6, RoundUpIs, MultipleLeavesNothing
  <2>8. Multiple(begin, A) /\ begin % A = 0
    BY <2>2, MultipleLeavesNothing DEF Multiple
  <2>9. Window(r) = [offset |-> begin, length |-> len, head |-> head]
    BY <1>1, <1>2, <1>3, <1>7, <2>1, <2>2, <2>4, <2>5, <2>6 DEF Window, aligned_window
  <2>10. /\ Window(r).offset = begin /\ Window(r).length = len /\ Window(r).head = head
    BY <2>9
  <2>11. WindowIs(Window(r))
    <3>1. len = round_up(head + R, A)
      BY <2>5, <2>6
    <3>2. /\ begin \in Nat /\ len \in Nat \ {0} /\ head < A
          /\ head + R <= len /\ len < head + R + A
      BY <2>3, <2>4, <2>5, <2>7
    <3> QED
      BY <1>1, <1>2, <1>7, <2>8, <2>10, <3>1, <3>2, Zenon DEF WindowIs
  <2>12. WindowFits(Window(r))
    BY <1>1, <1>2, <1>3, <1>4, <1>5, <1>7, <2>3, <2>4, <2>5, <2>7, <2>8, <2>10 DEF WindowFits
  <2> QED
    BY <2>11, <2>12
<1> QED
  BY <1>6, <1>7

\* The length an arm cuts a window at: positive, and a whole number of alignment units
\* when it has to be.
ArmChunk ==
  CASE arm.name = "pool" -> PoolChunk
    [] arm.name = "iocp" -> IocpChunk
    [] arm.name = "mempage" -> MemPageChunk
    [] OTHER -> IoRingChunk

LEMMA UnitsAre ==
  ASSUME WindowInv
  PROVE  LET b == Larger(KAlign, WholeUnits)
         IN  b \in Int /\ KAlign <= b /\ Multiple(b, KAlign)
<1>1. PICK A \in Nat \ {0}, c \in Nat : A = KAlign /\ c = options.chunk
  BY WindowAssumption DEF WindowInv
<1>2. PICK d \in Int : d = c \div A
  BY Quotient
<1>3. PICK m \in Int : m = d * A
  BY TimesKeepsOrder
<1>4. WholeUnits = m
  BY <1>1, <1>2, <1>3 DEF WholeUnits
<1>5. A = 1 * A
  OBVIOUS
<1>6. Multiple(A, A) /\ Multiple(m, A)
  BY <1>3, <1>5 DEF Multiple
<1> QED
  BY <1>1, <1>4, <1>6 DEF Larger

LEMMA ChunkIs ==
  ASSUME WindowInv
  PROVE  /\ ArmChunk \in Nat \ {0}
         /\ arm.unbuffered => Multiple(ArmChunk, KAlign)
         /\ arm.name = "iocp" => ArmChunk = IocpChunk /\ IocpChunk < NarrowMod
         /\ arm.name = "mempage" => ArmChunk = MemPageChunk
         /\ arm.name = "ioring" =>
              ArmChunk = IoRingChunk /\ KAlign <= ArmChunk /\ Multiple(ArmChunk, KAlign)
<1>1. PICK A \in Nat \ {0}, c \in Nat : A = KAlign /\ c = options.chunk
  BY WindowAssumption DEF WindowInv
<1>2. PICK b \in Int : b = Larger(KAlign, WholeUnits) /\ A <= b /\ Multiple(b, A)
  BY <1>1, UnitsAre
<1>3. PICK m \in Nat \ {0}, M \in Nat \ {0} :
        m = MaxIocpChunk /\ M = NarrowMod /\ m < M /\ m % A = 0
  BY <1>1, WindowAssumption
<1>4. Multiple(m, A)
  <2>1. PICK d \in Int : d = m \div A
    BY Quotient
  <2>2. m = A * d + (m % A) /\ A * d = d * A
    BY <2>1
  <2>3. m = d * A
    BY <1>3, <2>2
  <2> QED
    BY <2>3 DEF Multiple
<1>5. CASE arm.name = "iocp"
  <2>1. ArmChunk = IocpChunk
    BY <1>5 DEF ArmChunk
  <2>2. IocpChunk = b \/ IocpChunk = m
    BY <1>2, <1>3 DEF IocpChunk, Smaller
  <2>3. IocpChunk <= m
    BY <1>2, <1>3 DEF IocpChunk, Smaller
  <2> QED
    BY <1>1, <1>2, <1>3, <1>4, <1>5, <2>1, <2>2, <2>3
<1>6. CASE arm.name = "mempage"
  <2>1. ArmChunk = MemPageChunk
    BY <1>6 DEF ArmChunk
  <2>2. CASE arm.unbuffered
    <3>1. MemPageChunk = b
      BY <1>2, <2>2 DEF MemPageChunk
    <3> QED
      BY <1>1, <1>2, <1>6, <2>1, <3>1
  <2>3. CASE ~arm.unbuffered
    <3>1. MemPageChunk = Larger(1, c)
      BY <1>1, <2>3 DEF MemPageChunk
    <3> QED
      BY <1>6, <2>1, <2>3, <3>1 DEF Larger
  <2> QED
    BY <2>2, <2>3
<1>7. CASE arm.name # "iocp" /\ arm.name # "mempage"
  <2>1. ArmChunk = b
    <3>1. arm.name = "pool" => ArmChunk = PoolChunk
      BY DEF ArmChunk
    <3>2. arm.name # "pool" => ArmChunk = IoRingChunk
      BY <1>7 DEF ArmChunk
    <3> QED
      BY <1>2, <3>1, <3>2 DEF PoolChunk, IoRingChunk
  <2>2. arm.name = "ioring" => ArmChunk = IoRingChunk
    BY <1>7 DEF ArmChunk
  <2> QED
    BY <1>1, <1>2, <1>7, <2>1, <2>2
<1> QED
  BY <1>5, <1>6, <1>7

\* How many pieces there are, and that the last one is the first to reach the end.
Count(w, c) == (w.length + c - 1) \div c

LEMMA CountIs ==
  ASSUME NEW L \in Nat \ {0}, NEW c \in Nat \ {0}
  PROVE  LET n == (L + c - 1) \div c
         IN  /\ n \in Nat \ {0} /\ n * c \in Int /\ (n - 1) * c \in Int
             /\ L <= n * c /\ (n - 1) * c < L /\ (n - 1) * c + c = n * c
<1>1. PICK x \in Int : x = L + c - 1
  OBVIOUS
<1>2. PICK n \in Int : n = x \div c
  BY Quotient
<1>3. n * c \in Int /\ n * c <= x /\ x < n * c + c
  BY <1>2, Quotient
<1>4. (n - 1) * c \in Int /\ (n - 1) * c + c = n * c
  OBVIOUS
<1>5. n <= 0 => n * c <= 0
  OBVIOUS
<1>6. n >= 1
  BY <1>1, <1>3, <1>5
<1> QED
  BY <1>1, <1>2, <1>3, <1>4, <1>6

LEMMA SmallerIs ==
  ASSUME NEW x \in Int, NEW y \in Int
  PROVE  /\ Smaller(x, y) \in Int
         /\ x < y => Smaller(x, y) = x
         /\ ~(x < y) => Smaller(x, y) = y
BY DEF Smaller

\* The pieces one by one: all but the last are as long as the chunk.
PieceIs(w, c, i) ==
  LET p == CutInto(w, c)[i]
      m == Need(w, p)
      e == w.head + options.row
  IN  /\ p.at = (i - 1) * c /\ p.at \in Nat
      /\ p.len \in Nat \ {0} /\ p.len <= c /\ p.len <= w.length
      /\ i < Count(w, c) => p.len = c
      /\ i = Count(w, c) => p.len = w.length - p.at
      /\ m \in Nat /\ m <= p.len
      /\ p.at + m <= e \/ m = 0
      /\ m = p.len \/ p.at + m = e \/ p.at >= e

LEMMA WindowCutIs ==
  ASSUME WindowInv, NEW w, WindowIs(w), NEW c \in Nat \ {0}
  PROVE  /\ Count(w, c) \in Nat \ {0} /\ Len(CutInto(w, c)) = Count(w, c)
         /\ DOMAIN CutInto(w, c) = 1 .. Count(w, c)
         /\ \A i \in 1 .. Count(w, c) : PieceIs(w, c, i)
<1>1. PICK L \in Nat \ {0} : L = w.length
  BY DEF WindowIs
<1>2. PICK e \in Nat : e = w.head + options.row /\ w.head \in Nat /\ options.row \in Nat
  BY DEF WindowIs, WindowInv
<1>3. PICK n \in Nat \ {0} : /\ n = Count(w, c) /\ (n - 1) * c \in Int
                            /\ L <= n * c /\ (n - 1) * c < L /\ (n - 1) * c + c = n * c
  BY <1>1, CountIs DEF Count
<1>4. /\ DOMAIN CutInto(w, c) = 1 .. n
      /\ Len(CutInto(w, c)) = n
  BY <1>3 DEF CutInto, Count
<1>5. ASSUME NEW i \in 1 .. n PROVE PieceIs(w, c, i)
  <2>1. PICK j \in Nat : j = i - 1 /\ j <= n - 1
    OBVIOUS
  <2>2. PICK a \in Nat : a = j * c /\ a <= (n - 1) * c
    <3>1. n - 1 \in Int /\ j \in Int
      OBVIOUS
    <3> QED
      BY <2>1, <3>1, TimesKeepsOrder
  <2>3. j < n - 1 => a + c <= (n - 1) * c
    <3>1. n - 1 \in Int /\ j + 1 \in Int /\ (j + 1) * c = a + c
      BY <2>2
    <3> QED
      BY <2>1, <3>1, TimesKeepsOrder
  <2>4. PICK l \in Int : l = Smaller(c, L - a)
    <3>1. L - a \in Int
      OBVIOUS
    <3> QED
      BY <3>1, SmallerIs
  <2>5. PICK d \in Int : d = (IF e > a THEN e - a ELSE 0) /\ (e > a => d = e - a)
                          /\ (~(e > a) => d = 0)
    <3>1. CASE e > a
      BY <3>1
    <3>2. CASE ~(e > a)
      BY <3>2
    <3> QED
      BY <3>1, <3>2
  <2>6. PICK m \in Int : m = Smaller(l, d)
    BY SmallerIs
  <2>7. CutInto(w, c)[i] = [at |-> a, len |-> l]
    <3>1. CutInto(w, c)[i] = [at |-> (i - 1) * c, len |-> Smaller(c, w.length - (i - 1) * c)]
      BY <1>3 DEF CutInto, Count
    <3>2. (i - 1) * c = a
      BY <2>1, <2>2
    <3>3. Smaller(c, w.length - (i - 1) * c) = l
      BY <1>1, <2>4, <3>2
    <3> QED
      BY <3>1, <3>2, <3>3
  <2>8. PICK p : p = CutInto(w, c)[i] /\ p.at = a /\ p.len = l
    BY <2>7
  <2>9. /\ l \in Nat \ {0} /\ l <= c /\ l <= L /\ (i < n => l = c) /\ (i = n => l = L - a)
    BY <1>3, <2>1, <2>2, <2>3, <2>4 DEF Smaller
  <2>10. /\ m \in Nat /\ m <= l
         /\ a + m <= e \/ m = 0
         /\ m = l \/ a + m = e \/ a >= e
    BY <2>5, <2>6, <2>9 DEF Smaller
  <2>11. Need(w, p) = m
    <3>1. (IF w.head + options.row > p.at THEN w.head + options.row - p.at ELSE 0) = d
      <4>1. CASE e > a
        BY <1>2, <2>5, <2>8, <4>1
      <4>2. CASE ~(e > a)
        BY <1>2, <2>5, <2>8, <4>2
      <4> QED
        BY <4>1, <4>2
    <3> QED
      BY <2>6, <2>8, <3>1 DEF Need
  <2>12. (i - 1) * c = a
    BY <2>1, <2>2
  <2>13. /\ p.at = (i - 1) * c /\ p.at \in Nat
         /\ p.len \in Nat \ {0} /\ p.len <= c /\ p.len <= w.length
         /\ i < Count(w, c) => p.len = c
         /\ i = Count(w, c) => p.len = w.length - p.at
    BY <1>1, <1>3, <2>8, <2>9, <2>12
  <2>14. /\ Need(w, p) \in Nat /\ Need(w, p) <= p.len
         /\ p.at + Need(w, p) <= w.head + options.row \/ Need(w, p) = 0
         /\ \/ Need(w, p) = p.len \/ p.at + Need(w, p) = w.head + options.row
            \/ p.at >= w.head + options.row
    BY <1>2, <2>8, <2>10, <2>11
  <2>15. p = CutInto(w, c)[i]
    BY <2>8
  <2> QED
    BY <2>13, <2>14, <2>15 DEF PieceIs
<1> QED
  BY <1>3, <1>4, <1>5

\* The bytes of the row are those the pieces need.
LEMMA PiecesNeedTheRow ==
  ASSUME WindowInv, NEW w, WindowIs(w), NEW c \in Nat \ {0}
  PROVE  UNION {CutInto(w, c)[i].at .. CutInto(w, c)[i].at + Need(w, CutInto(w, c)[i]) - 1
                  : i \in 1 .. Count(w, c)} = 0 .. w.head + options.row - 1
<1>1. PICK L \in Nat \ {0} : L = w.length
  BY DEF WindowIs
<1>2. PICK e \in Nat : /\ e = w.head + options.row /\ e <= L
                       /\ w.head \in Nat /\ options.row \in Nat
  BY <1>1 DEF WindowIs, WindowInv
<1>3. PICK n \in Nat \ {0} : /\ n = Count(w, c) /\ (n - 1) * c \in Int
                            /\ L <= n * c /\ (n - 1) * c < L /\ (n - 1) * c + c = n * c
  BY <1>1, CountIs DEF Count
<1> DEFINE at(i) == CutInto(w, c)[i].at
           len(i) == CutInto(w, c)[i].len
           need(i) == Need(w, CutInto(w, c)[i])
<1>4. \A i \in 1 .. n : /\ at(i) = (i - 1) * c /\ at(i) \in Nat
                        /\ len(i) \in Nat \ {0}
                        /\ i < n => len(i) = c
                        /\ i = n => len(i) = L - at(i)
                        /\ need(i) \in Nat
                        /\ at(i) + need(i) <= e \/ need(i) = 0
                        /\ need(i) = len(i) \/ at(i) + need(i) = e \/ at(i) >= e
  <2> SUFFICES ASSUME NEW i \in 1 .. n
               PROVE  /\ at(i) = (i - 1) * c /\ at(i) \in Nat
                      /\ len(i) \in Nat \ {0}
                      /\ i < n => len(i) = c
                      /\ i = n => len(i) = L - at(i)
                      /\ need(i) \in Nat
                      /\ at(i) + need(i) <= e \/ need(i) = 0
                      /\ need(i) = len(i) \/ at(i) + need(i) = e \/ at(i) >= e
    OBVIOUS
  <2>1. PieceIs(w, c, i)
    BY <1>3, WindowCutIs
  <2> QED
    BY <1>1, <1>2, <1>3, <2>1 DEF PieceIs
<1> HIDE DEF at, len, need
<1>5. ASSUME NEW i \in 1 .. n
      PROVE  at(i) .. at(i) + need(i) - 1 \subseteq 0 .. e - 1
  <2>1. at(i) \in Nat /\ need(i) \in Nat /\ (at(i) + need(i) <= e \/ need(i) = 0)
    BY <1>4
  <2> QED
    BY <2>1
<1>6. ASSUME NEW b \in 0 .. e - 1
      PROVE  \E i \in 1 .. n : b \in at(i) .. at(i) + need(i) - 1
  <2>1. PICK d \in Int : d = b \div c
    BY Quotient
  <2>2. d >= 0 /\ d * c \in Int /\ d * c <= b /\ b < d * c + c
    BY <2>1, Quotient
  <2>3. d * c < n * c
    BY <1>2, <1>3, <2>2
  <2>4. d < n
    BY <2>3, TimesKeepsOrder
  <2>5. PICK i \in 1 .. n : i = d + 1
    BY <2>2, <2>4
  <2>6. i - 1 = d
    BY <2>5
  <2>7. /\ at(i) = d * c /\ need(i) \in Nat /\ len(i) \in Nat
        /\ i < n => len(i) = c
        /\ i = n => len(i) = L - at(i)
        /\ need(i) = len(i) \/ at(i) + need(i) = e \/ at(i) >= e
    BY <1>4, <2>6
  <2>8. b < at(i) + need(i)
    <3>1. PICK a \in Nat, m \in Nat, k \in Nat :
            /\ a = at(i) /\ m = need(i) /\ k = len(i)
            /\ a = d * c /\ a <= b /\ b < a + c /\ b < e /\ b < L
      <4>1. d * c \in Nat /\ b < e /\ b < L
        BY <1>2, <2>2
      <4> QED
        BY <2>2, <2>7, <4>1
    <3>2. CASE m = k
      <4>1. i < n \/ i = n
        OBVIOUS
      <4>2. k = c \/ k = L - a
        BY <2>7, <3>1, <4>1
      <4> QED
        BY <3>1, <3>2, <4>2
    <3>3. CASE a + m = e \/ a >= e
      BY <3>1, <3>3
    <3> QED
      BY <2>7, <3>1, <3>2, <3>3
  <2>9. b \in at(i) .. at(i) + need(i) - 1
    BY <2>2, <2>7, <2>8
  <2> QED
    BY <2>9
<1>7. UNION {at(i) .. at(i) + need(i) - 1 : i \in 1 .. n} = 0 .. e - 1
  BY <1>5, <1>6
<1>8. w.head + options.row - 1 = e - 1
  BY <1>2
<1> QED
  BY <1>3, <1>7, <1>8 DEF at, need

\* What the loop cuts lies side by side and makes up the window.
LEMMA CutTiles ==
  ASSUME WindowInv, NEW w, WindowIs(w), NEW c \in Nat \ {0}
  PROVE  LET p == CutInto(w, c)
             n == Count(w, c)
         IN  /\ p[1].at = 0 /\ p[n].at + p[n].len = w.length
             /\ \A i \in 1 .. n - 1 : p[i + 1].at = p[i].at + p[i].len
             /\ arm.unbuffered /\ Multiple(c, KAlign) =>
                  \A i \in 1 .. n : p[i].at % KAlign = 0 /\ p[i].len % KAlign = 0
<1>1. PICK L \in Nat \ {0} : L = w.length
  BY DEF WindowIs
<1>2. PICK n \in Nat \ {0} : n = Count(w, c)
  BY WindowCutIs
<1> DEFINE p == CutInto(w, c)
<1>3. \A i \in 1 .. n : /\ p[i].at = (i - 1) * c /\ p[i].at \in Nat
                        /\ p[i].len \in Nat \ {0}
                        /\ i < n => p[i].len = c
                        /\ i = n => p[i].len = L - p[i].at
  <2> SUFFICES ASSUME NEW i \in 1 .. n
               PROVE  /\ p[i].at = (i - 1) * c /\ p[i].at \in Nat
                      /\ p[i].len \in Nat \ {0}
                      /\ i < n => p[i].len = c
                      /\ i = n => p[i].len = L - p[i].at
    OBVIOUS
  <2>1. PieceIs(w, c, i)
    BY <1>2, WindowCutIs
  <2> QED
    BY <1>1, <1>2, <2>1 DEF PieceIs
<1> HIDE DEF p
<1>4. p[1].at = 0
  <2>1. p[1].at = (1 - 1) * c
    BY <1>3
  <2> QED
    BY <2>1
<1>5. p[n].at + p[n].len = L
  BY <1>3
<1>6. \A i \in 1 .. n - 1 : p[i + 1].at = p[i].at + p[i].len
  <2> SUFFICES ASSUME NEW i \in 1 .. n - 1 PROVE p[i + 1].at = p[i].at + p[i].len
    OBVIOUS
  <2>1. i \in 1 .. n /\ i + 1 \in 1 .. n /\ i < n
    OBVIOUS
  <2>2. p[i + 1].at = ((i + 1) - 1) * c /\ p[i].at = (i - 1) * c /\ p[i].len = c
    BY <1>3, <2>1
  <2>3. ((i + 1) - 1) * c = (i - 1) * c + c
    OBVIOUS
  <2> QED
    BY <2>2, <2>3
<1>7. ASSUME arm.unbuffered, Multiple(c, KAlign), NEW i \in 1 .. n
      PROVE  p[i].at % KAlign = 0 /\ p[i].len % KAlign = 0
  <2>1. PICK A \in Nat \ {0} : A = KAlign
    BY WindowAssumption
  <2>2. Multiple(c, A) /\ Multiple(L, A)
    <3>1. PICK v \in Int : v = w.head + options.row
      BY DEF WindowIs, WindowInv
    <3>2. Multiple(L, A)
      BY <1>1, <1>7, <2>1, <3>1, RoundUpIs DEF WindowIs
    <3> QED
      BY <1>7, <2>1, <3>2
  <2>3. PICK k \in Int : k = i - 1
    OBVIOUS
  <2>4. Multiple(k * c, A)
    <3>1. c \in Int
      OBVIOUS
    <3> QED
      BY <2>2, <3>1, MultipleOfMultiple, Zenon
  <2>5. PICK a \in Int : a = p[i].at /\ Multiple(a, A)
    BY <1>3, <2>3, <2>4
  <2>6. PICK l \in Int : l = p[i].len
    BY <1>3
  <2>7. l = c \/ l = L - a
    BY <1>3, <2>5, <2>6
  <2>8. Multiple(l, A)
    <3>1. L \in Int
      OBVIOUS
    <3>2. Multiple(L - a, A)
      BY <2>2, <2>5, <3>1, MultiplesSubtract
    <3> QED
      BY <2>2, <2>7, <3>2
  <2> QED
    BY <2>1, <2>5, <2>6, <2>8, MultipleLeavesNothing
<1> QED
  BY <1>1, <1>2, <1>4, <1>5, <1>6, <1>7 DEF p

\* A strategy that cuts asks for the pieces of the cut: no length is narrowed away.
LEMMA PiecesAre ==
  ASSUME WindowInv, NEW w, WindowIs(w), FitsNarrow, arm.name # "inline"
  PROVE  LET p == Pieces(w)
             q == CutInto(w, ArmChunk)
         IN  /\ Len(p) = Count(w, ArmChunk)
             /\ \A i \in 1 .. Count(w, ArmChunk) :
                  /\ p[i].at = q[i].at /\ p[i].len = q[i].len
                  /\ arm.name = "pool" => p[i].need = Need(w, q[i])
<1>1. PICK c \in Nat \ {0}, n \in Nat \ {0} : c = ArmChunk /\ n = Count(w, c)
  BY ChunkIs, WindowCutIs
<1> DEFINE q == CutInto(w, c)
<1>2. /\ DOMAIN q = 1 .. n /\ Len(q) = n
      /\ \A i \in 1 .. n : /\ q[i].at \in Nat
                            /\ q[i].len \in Nat \ {0} /\ q[i].len <= c /\ q[i].len <= w.length
  BY <1>1, WindowCutIs DEF PieceIs
<1>3. \A i \in 1 .. n : q[i] = [at |-> q[i].at, len |-> q[i].len]
  BY <1>1 DEF CutInto, Count
<1> HIDE DEF q
<1>4. q = CutInto(w, ArmChunk)
  BY <1>1 DEF q
<1> DEFINE Narrowed == [i \in DOMAIN q |-> [q[i] EXCEPT !.len = Narrow(@)]]
<1>5. ASSUME c < NarrowMod \/ w.length < NarrowMod
      PROVE  /\ Len(Narrowed) = n
             /\ \A i \in 1 .. n : Narrowed[i].at = q[i].at /\ Narrowed[i].len = q[i].len
  <2>1. Len(Narrowed) = n
    BY <1>2
  <2>2. ASSUME NEW i \in 1 .. n
        PROVE  Narrowed[i].at = q[i].at /\ Narrowed[i].len = q[i].len
    <3>1. PICK a \in Nat, l \in Nat :
            a = q[i].at /\ l = q[i].len /\ l <= c /\ l <= w.length
      BY <1>2
    <3>2. w.length \in Nat /\ NarrowMod \in Nat
      BY WindowAssumption DEF WindowIs
    <3>3. Narrow(l) = l
      BY <1>5, <3>1, <3>2, NarrowIs
    <3>4. Narrowed[i] = [[at |-> a, len |-> l] EXCEPT !.len = Narrow(l)]
      BY <1>2, <1>3, <3>1
    <3> QED
      BY <3>1, <3>3, <3>4
  <2> QED
    BY <2>1, <2>2
<1> HIDE DEF Narrowed
<1>6. CASE arm.name = "pool"
  <2>1. Pieces(w) = PoolTasks(w)
    BY <1>6 DEF Pieces
  <2>2. PoolChunk = c
    BY <1>1, <1>6 DEF ArmChunk
  <2>3. Pieces(w) = [i \in DOMAIN q |-> [at |-> q[i].at, len |-> q[i].len,
                                        need |-> Need(w, q[i])]]
    BY <2>1, <2>2 DEF PoolTasks, q
  <2>4. Len(Pieces(w)) = n
    BY <1>2, <2>3
  <2>5. \A i \in 1 .. n : /\ Pieces(w)[i].at = q[i].at /\ Pieces(w)[i].len = q[i].len
                          /\ Pieces(w)[i].need = Need(w, q[i])
    BY <1>2, <2>3
  <2> QED
    BY <1>1, <1>4, <2>4, <2>5
<1>7. CASE arm.name = "iocp"
  <2>1. IocpChunk = c /\ c < NarrowMod
    BY <1>1, <1>7, ChunkIs
  <2>2. Pieces(w) = Narrowed
    BY <1>7, <2>1 DEF Pieces, IocpRequests, Narrowed, q
  <2> QED
    BY <1>1, <1>4, <1>5, <1>7, <2>1, <2>2
<1>8. CASE arm.name = "mempage"
  <2>1. MemPageChunk = c
    BY <1>1, <1>8, ChunkIs
  <2>2. Pieces(w) = q
    BY <1>8, <2>1 DEF Pieces, MemPageClaims, q
  <2> QED
    BY <1>1, <1>2, <1>4, <1>8, <2>2
<1>9. CASE arm.name = "ioring"
  <2>1. IoRingChunk = c
    BY <1>1, <1>9, ChunkIs
  <2>2. Pieces(w) = Narrowed
    BY <1>9, <2>1 DEF Pieces, IoRingReads, Narrowed, q
  <2>3. PICK x \in Nat : x = options.row + 2 * KAlign /\ w.length <= x
    BY WindowAssumption DEF WindowInv, WindowIs
  <2>4. Smaller(c, x) < NarrowMod
    BY <1>9, <2>1, <2>3 DEF FitsNarrow
  <2>5. c < NarrowMod \/ w.length < NarrowMod
    BY <2>3, <2>4, WindowAssumption DEF Smaller, WindowIs
  <2> QED
    BY <1>1, <1>4, <1>5, <1>9, <2>2, <2>5
<1> QED
  BY <1>6, <1>7, <1>8, <1>9 DEF WindowInv, Arm

LEMMA RowsTiled ==
  ASSUME WindowInv, NEW w, WindowIs(w), FitsNarrow
  PROVE  PiecesTile(w)
<1>1. CASE arm.name = "inline"
  <2>1. PICK L \in Nat \ {0}, e \in Nat : L = w.length /\ e = w.head + options.row
    BY DEF WindowIs, WindowInv
  <2>2. Pieces(w) = <<[at |-> 0, len |-> L, need |-> e]>>
    BY <1>1, <2>1 DEF Pieces, InlineRead
  <2>3. /\ Len(Pieces(w)) = 1 /\ Pieces(w)[1].at = 0 /\ Pieces(w)[1].len = L
        /\ Pieces(w)[1].need = e
    BY <2>2
  <2>4. arm.unbuffered => L % KAlign = 0
    <3>1. PICK A \in Nat \ {0} : A = KAlign
      BY WindowAssumption
    <3> QED
      BY <2>1, <3>1, RoundUpIs, MultipleLeavesNothing DEF WindowIs
  <2>5. 0 % KAlign = 0
    BY WindowAssumption
  <2>6. UNION {Pieces(w)[i].at .. Pieces(w)[i].at + Pieces(w)[i].need - 1 : i \in 1 .. 1}
          = 0 .. e - 1
    <3>1. \A i \in 1 .. 1 :
            Pieces(w)[i].at .. Pieces(w)[i].at + Pieces(w)[i].need - 1 = 0 .. e - 1
      <4>1. \A i \in 1 .. 1 : i = 1
        OBVIOUS
      <4>2. 0 + e - 1 = e - 1
        OBVIOUS
      <4> QED
        BY <2>3, <4>1, <4>2
    <3>2. 1 \in 1 .. 1
      OBVIOUS
    <3> QED
      BY <3>1, <3>2, Zenon
  <2>7. w.head + options.row - 1 = e - 1
    BY <2>1 DEF WindowIs, WindowInv
  <2> QED
    BY <2>1, <2>3, <2>4, <2>5, <2>6, <2>7 DEF PiecesTile
<1>2. CASE arm.name # "inline"
  <2>1. PICK c \in Nat \ {0}, n \in Nat \ {0} : c = ArmChunk /\ n = Count(w, c)
    BY ChunkIs, WindowCutIs
  <2> DEFINE p == Pieces(w)
             q == CutInto(w, c)
  <2>2. /\ Len(p) = n
        /\ \A i \in 1 .. n : p[i].at = q[i].at /\ p[i].len = q[i].len
        /\ arm.name = "pool" => \A i \in 1 .. n : p[i].need = Need(w, q[i])
    BY <1>2, <2>1, PiecesAre
  <2>3. /\ q[1].at = 0 /\ q[n].at + q[n].len = w.length
        /\ \A i \in 1 .. n - 1 : q[i + 1].at = q[i].at + q[i].len
        /\ arm.unbuffered => \A i \in 1 .. n : q[i].at % KAlign = 0 /\ q[i].len % KAlign = 0
    BY <2>1, CutTiles, ChunkIs
  <2>4. UNION {q[i].at .. q[i].at + Need(w, q[i]) - 1 : i \in 1 .. n}
          = 0 .. w.head + options.row - 1
    BY <2>1, PiecesNeedTheRow
  <2> HIDE DEF p, q
  <2>5. arm.name = "pool" =>
          UNION {p[i].at .. p[i].at + p[i].need - 1 : i \in 1 .. n}
            = 0 .. w.head + options.row - 1
    <3> SUFFICES ASSUME arm.name = "pool"
                 PROVE  UNION {p[i].at .. p[i].at + p[i].need - 1 : i \in 1 .. n}
                          = 0 .. w.head + options.row - 1
      OBVIOUS
    <3>1. \A i \in 1 .. n : p[i].at .. p[i].at + p[i].need - 1
                              = q[i].at .. q[i].at + Need(w, q[i]) - 1
      BY <2>2
    <3> QED
      BY <2>4, <3>1
  <2>6. \A i \in 1 .. n - 1 : p[i + 1].at = p[i].at + p[i].len
    <3>1. \A i \in 1 .. n - 1 : i \in 1 .. n /\ i + 1 \in 1 .. n
      OBVIOUS
    <3> QED
      BY <2>2, <2>3, <3>1
  <2>7. p[1].at = 0 /\ p[n].at + p[n].len = w.length
    <3>1. 1 \in 1 .. n /\ n \in 1 .. n
      OBVIOUS
    <3> QED
      BY <2>2, <2>3, <3>1
  <2>8. arm.unbuffered => \A i \in 1 .. n : p[i].at % KAlign = 0 /\ p[i].len % KAlign = 0
    BY <2>2, <2>3
  <2>9. p = Pieces(w)
    BY DEF p
  <2>10. arm.name \in {"inline", "pool"} => arm.name = "pool"
    BY <1>2
  <2>11. n = Len(p)
    BY <2>2
  <2>12. arm.name \in {"inline", "pool"} =>
           UNION {p[i].at .. p[i].at + p[i].need - 1 : i \in 1 .. n}
             = 0 .. w.head + options.row - 1
    BY <2>5, <2>10, Zenon
  <2> QED
    BY <2>6, <2>7, <2>8, <2>9, <2>11, <2>12 DEF PiecesTile
<1> QED
  BY <1>1, <1>2

LEMMA CapacityHolds ==
  ASSUME WindowInv, NEW w, WindowIs(w), FitsNarrow
  PROVE  CapacitySuffices(w)
<1>1. PICK L \in Nat \ {0}, c \in Nat \ {0} : L = w.length /\ c = ArmChunk
  BY ChunkIs DEF WindowIs
<1>2. PICK A \in Nat \ {0} : A = KAlign
  BY WindowAssumption
<1>3. PICK R \in Nat \ {0}, h \in Nat :
        /\ R = options.row /\ h = w.head /\ h < A /\ h + R <= L /\ L < h + R + A
  BY <1>1, <1>2 DEF WindowInv, WindowIs
<1>4. PICK x \in Int : x = L + c - 1
  OBVIOUS
<1>5. PICK n \in Nat : n = x \div c /\ n = Count(w, c) /\ n * c \in Int /\ n * c <= x
  <2>1. Count(w, c) = x \div c /\ Count(w, c) \in Nat
    BY <1>1, <1>4, WindowCutIs DEF Count
  <2> QED
    BY <2>1, Quotient
<1>6. PICK v \in Int : v = h + R
  OBVIOUS
<1>7. ASSUME arm.unbuffered PROVE L = round_up(v, A)
  BY <1>1, <1>2, <1>3, <1>6, <1>7 DEF WindowIs
<1>8. arm.name # "inline" => Len(Pieces(w)) = n
  BY <1>1, <1>5, PiecesAre
<1>9. ASSUME arm.name = "iocp" PROVE n <= requests
  <2>1. arm.unbuffered
    BY <1>9 DEF WindowInv, Arm
  <2>2. PICK u \in Int : u = R + A - 1
    OBVIOUS
  <2>3. PICK U \in Int : U = round_up(u, A) /\ u <= U /\ Multiple(U, A)
    BY RoundUpIs
  <2>4. v <= U
    BY <1>3, <1>6, <2>2, <2>3
  <2>5. L <= U
    BY <1>7, <2>1, <2>3, <2>4, RoundUpIs
  <2>6. PICK y \in Int : y = U + c - 1 /\ x <= y
    BY <1>4, <2>5
  <2>7. x \div c <= y \div c
    BY <2>6, QuotientKeepsOrder
  <2>8. c = IocpChunk
    BY <1>1, <1>9, ChunkIs
  <2>9. requests = y \div c
    BY <1>2, <1>3, <2>2, <2>3, <2>6, <2>8 DEF requests
  <2> QED
    BY <1>5, <2>7, <2>9
<1>10. ASSUME arm.name = "ioring"
       PROVE  n <= entries /\ n <= completions /\ n = Narrow(n)
  <2>1. A <= c /\ Multiple(c, A) /\ c = IoRingChunk
    BY <1>1, <1>2, <1>10, ChunkIs
  <2>2. PICK d \in Int : d = R \div c
    BY Quotient
  <2>3. d * c \in Int /\ R < d * c + c
    BY <2>2, Quotient
  <2>4. PICK e \in Int : e = d + 2
    OBVIOUS
  <2>5. PICK m \in Int : m = e * c /\ m = d * c + c + c
    BY <2>4
  <2>6. L <= m
    <3>1. CASE arm.unbuffered
      <4>1. Multiple(m, A)
        <5>1. c \in Int
          OBVIOUS
        <5>2. Multiple(e * c, A)
          BY <2>1, <5>1, MultipleOfMultiple, Zenon
        <5> QED
          BY <2>5, <5>2
      <4>2. v <= m
        BY <1>3, <1>6, <2>1, <2>3, <2>5
      <4> QED
        BY <1>7, <3>1, <4>1, <4>2, RoundUpIs
    <3>2. CASE ~arm.unbuffered
      <4>1. L = R
        BY <1>1, <1>3, <3>2 DEF WindowIs
      <4> QED
        BY <2>3, <2>5, <4>1
    <3> QED
      BY <3>1, <3>2
  <2>7. (e + 1) * c = m + c
    BY <2>5
  <2>8. n * c < (e + 1) * c
    BY <1>4, <1>5, <2>6, <2>7
  <2>9. n < e + 1
    BY <2>8, TimesKeepsOrder
  <2>10. PICK N \in Int : N = round_up(e, 8) /\ e <= N
    <3>1. 8 \in Nat \ {0}
      OBVIOUS
    <3> QED
      BY <3>1, RoundUpIs
  <2>11. n <= N /\ 2 * N < NarrowMod
    <3>1. 2 * round_up(R \div c + 2, 8) < NarrowMod
      BY <1>3, <1>10, <2>1 DEF FitsNarrow
    <3>2. N = round_up(R \div c + 2, 8)
      BY <2>2, <2>4, <2>10
    <3> QED
      BY <2>9, <2>10, <3>1, <3>2
  <2>12. entries = Narrow(N)
    BY <1>3, <2>1, <2>2, <2>4, <2>10 DEF entries
  <2>13. NarrowMod \in Nat
    BY WindowAssumption
  <2>14. N \in Nat /\ N < NarrowMod /\ N * 2 \in Nat /\ N * 2 < NarrowMod /\ n < NarrowMod
         /\ n <= N * 2
    BY <2>11, <2>13
  <2>15. Narrow(N) = N /\ Narrow(N * 2) = N * 2 /\ Narrow(n) = n
    BY <2>14, NarrowIs
  <2> QED
    BY <2>11, <2>12, <2>14, <2>15 DEF completions
<1>11. ASSUME arm.name = "ioring" PROVE submitted(w) = Narrow(n)
  <2>1. Pieces(w) = IoRingReads(w)
    BY <1>11 DEF Pieces
  <2> QED
    BY <1>8, <1>11, <2>1 DEF submitted
<1>12. ASSUME arm.name = "mempage" PROVE n <= max_claims
  <2>1. PICK y \in Int : y = R + 2 * A + c - 1 /\ x <= y
    BY <1>3, <1>4
  <2>2. PICK k \in Int : k = y \div c /\ n <= k
    <3>1. x \div c <= y \div c
      BY <2>1, QuotientKeepsOrder
    <3>2. y \div c \in Int
      BY Quotient
    <3> QED
      BY <1>5, <3>1, <3>2
  <2>3. c = MemPageChunk
    BY <1>1, <1>12, ChunkIs
  <2>4. chunks = Narrow(k) /\ k + 4 < NarrowMod
    BY <1>2, <1>3, <1>12, <2>1, <2>2, <2>3 DEF chunks, FitsNarrow
  <2>5. NarrowMod \in Nat /\ k \in Nat /\ k + 4 \in Nat /\ k < NarrowMod
    BY <2>2, <2>4, WindowAssumption
  <2>6. Narrow(k) = k /\ Narrow(k + 4) = k + 4
    BY <2>4, <2>5, NarrowIs
  <2>7. max_claims = k + 4
    BY <2>4, <2>6 DEF max_claims
  <2> QED
    BY <2>2, <2>5, <2>7
<1>13. arm.name = "iocp" => Len(Pieces(w)) <= requests
  BY <1>8, <1>9
<1>14. arm.name = "ioring" => /\ Len(Pieces(w)) <= entries /\ Len(Pieces(w)) <= completions
                              /\ Len(Pieces(w)) = submitted(w)
  BY <1>8, <1>10, <1>11
<1>15. arm.name = "mempage" => Len(Pieces(w)) <= max_claims
  BY <1>8, <1>12
<1> QED
  BY <1>13, <1>14, <1>15 DEF CapacitySuffices

\* For every alignment, word width and clamp, and every row, chunk and file main accepts:
\* the window of a row main asks for lies in the file and in its slot; the pieces the arm
\* asks for tile it and the arm set enough aside for them, for IocpRead, the pool and the
\* inline arm at every row and chunk, for MemPageRead and IoRing where their counts and
\* lengths fit the words of 32 bits they are converted to (FitsNarrow).
THEOREM RowsAreCovered == WindowSpec => []RowsCovered
<1>1. ASSUME WindowInv PROVE RowsCovered
  <2> SUFFICES ASSUME row # -1
               PROVE  /\ WindowFits(Window(row))
                      /\ FitsNarrow => PiecesTile(Window(row)) /\ CapacitySuffices(Window(row))
    BY DEF RowsCovered
  <2>1. row \in 0 .. rows - 1
    BY <1>1 DEF WindowInv
  <2>2. WindowIs(Window(row)) /\ WindowFits(Window(row))
    BY <1>1, <2>1, WindowOfRow
  <2>3. FitsNarrow => PiecesTile(Window(row)) /\ CapacitySuffices(Window(row))
    BY <1>1, <2>2, RowsTiled, CapacityHolds
  <2> QED
    BY <2>2, <2>3
<1> QED
  BY <1>1, WindowInvHolds, PTL

-----------------------------------------------------------------------------
(***************************************************************************)
(* A batch of ranges: what holds for every length is shown by the least    *)
(* length it could fail at.                                                *)
(***************************************************************************)
LEMMA LeastNumber ==
  ASSUME NEW T, T \subseteq Nat, T # {}
  PROVE  \E k \in T : \A j \in 0 .. k - 1 : j \notin T
<1> DEFINE Less == {ss \in Nat \X Nat : ss[1] < ss[2]}
<1>1. IsWellFoundedOn(Less, Nat)
  BY NatLessThanWellFounded DEF OpToRel
<1>2. \A x \in Nat, y \in Nat : <<x, y>> \in Less <=> x < y
  OBVIOUS
<1> HIDE DEF Less
<1>3. PICK k \in T : \A j \in T : ~ (<<j, k>> \in Less)
  BY <1>1, WFMin
<1>4. k \in Nat
  BY <1>3
<1>5. ASSUME NEW j \in 0 .. k - 1, j \in T PROVE FALSE
  <2>1. j \in Nat /\ j < k
    BY <1>4
  <2>2. <<j, k>> \in Less
    BY <1>2, <1>4, <2>1
  <2> QED
    BY <1>3, <1>5, <2>2, Zenon
<1> QED
  BY <1>3, <1>5

\* A set of places that is not empty has a last one.
LEMMA MaxIs ==
  ASSUME NEW n \in Nat, NEW s \in SUBSET (1 .. n), s # {}
  PROVE  Max(s) \in s /\ Max(s) \in 1 .. n /\ \A y \in s : y <= Max(s)
<1>1. PICK T \in SUBSET Nat : T = {j \in Nat : s \subseteq 1 .. j}
  OBVIOUS
<1>2. n \in T
  BY <1>1
<1>3. PICK k \in T : \A j \in 0 .. k - 1 : j \notin T
  BY <1>2, LeastNumber
<1>4. k \in Nat /\ s \subseteq 1 .. k
  BY <1>1, <1>3
<1>5. k # 0
  <2>1. PICK y : y \in s
    OBVIOUS
  <2>2. y \in 1 .. k
    BY <1>4, <2>1
  <2> QED
    BY <1>4, <2>2
<1>6. k \in s
  <2> SUFFICES ASSUME k \notin s PROVE FALSE
    OBVIOUS
  <2>1. s \subseteq 1 .. k - 1 /\ k - 1 \in Nat
    BY <1>4, <1>5
  <2>2. k - 1 \in T
    BY <1>1, <2>1
  <2> QED
    BY <1>3, <1>4, <1>5, <2>2
<1>7. \E x \in s : \A y \in s : x >= y
  BY <1>4, <1>6
<1>8. Max(s) \in s /\ \A y \in s : Max(s) >= y
  BY <1>7 DEF Max
<1> QED
  BY <1>8

-----------------------------------------------------------------------------
(***************************************************************************)
(* What the folds compute, one element at a time.                          *)
(***************************************************************************)
Begun == [status |-> "ok", chunks |-> 0]

FoldsTo(g, n, batch) ==
  g = [s \in SUBSET (1 .. n) |-> IF s = {} THEN Begun
                                 ELSE ValidateNext(g[s \ {Max(s)}], batch[Max(s)])]

LEMMA FoldExists ==
  ASSUME NEW batch, NEW n \in Nat
  PROVE  \E g : FoldsTo(g, n, batch)
<1>1. PICK T \in SUBSET Nat : T = {k \in Nat : ~\E g : FoldsTo(g, k, batch)}
  OBVIOUS
<1>2. CASE T = {}
  BY <1>1, <1>2
<1>3. CASE T # {}
  <2>1. PICK k \in T : \A j \in 0 .. k - 1 : j \notin T
    BY <1>3, LeastNumber
  <2>2. k \in Nat /\ ~\E g : FoldsTo(g, k, batch)
    BY <1>1, <2>1
  <2>3. CASE k = 0
    <3>1. 1 .. k = {}
      BY <2>3
    <3>2. PICK h : h = [s \in SUBSET (1 .. k) |-> Begun]
      OBVIOUS
    <3>3. FoldsTo(h, k, batch)
      <4>1. \A s \in SUBSET (1 .. k) : s = {}
        BY <3>1
      <4>2. [s \in SUBSET (1 .. k) |-> IF s = {} THEN Begun
                                  ELSE ValidateNext(h[s \ {Max(s)}], batch[Max(s)])]
            = [s \in SUBSET (1 .. k) |-> Begun]
        BY <4>1
      <4> QED
        BY <3>2, <4>2 DEF FoldsTo
    <3> QED
      BY <2>2, <3>3
  <2>4. CASE k # 0
    <3>1. k - 1 \in Nat /\ k - 1 \notin T
      BY <2>1, <2>2, <2>4
    <3>2. PICK g : FoldsTo(g, k - 1, batch)
      BY <1>1, <3>1
    <3>3. PICK h : h = [s \in SUBSET (1 .. k) |->
                          IF k \in s THEN ValidateNext(g[s \ {k}], batch[k]) ELSE g[s]]
      OBVIOUS
    <3>4. ASSUME NEW s \in SUBSET (1 .. k)
          PROVE  h[s] = IF s = {} THEN Begun
                        ELSE ValidateNext(h[s \ {Max(s)}], batch[Max(s)])
      <4>1. CASE k \in s
        <5>1. Max(s) = k
          BY <2>2, <4>1, MaxIs
        <5>2. s \ {k} \in SUBSET (1 .. k) /\ k \notin s \ {k}
          OBVIOUS
        <5>3. h[s \ {k}] = g[s \ {k}]
          BY <3>3, <5>2
        <5> QED
          BY <3>3, <4>1, <5>1, <5>3
      <4>2. CASE k \notin s
        <5>1. s \in SUBSET (1 .. k - 1)
          BY <2>2, <4>2
        <5>2. h[s] = g[s]
          BY <3>3, <4>2
        <5>3. h[s \ {Max(s)}] = g[s \ {Max(s)}]
          <6>1. s \ {Max(s)} \in SUBSET (1 .. k) /\ k \notin s \ {Max(s)}
            BY <4>2
          <6> QED
            BY <3>3, <6>1
        <5>4. g[s] = IF s = {} THEN Begun ELSE ValidateNext(g[s \ {Max(s)}], batch[Max(s)])
          BY <3>2, <5>1 DEF FoldsTo
        <5> QED
          BY <5>2, <5>3, <5>4
      <4> QED
        BY <4>1, <4>2
    <3>5. FoldsTo(h, k, batch)
      BY <3>3, <3>4 DEF FoldsTo
    <3> QED
      BY <2>2, <3>5
  <2> QED
    BY <2>3, <2>4
<1> QED
  BY <1>2, <1>3

\* The fold of a beginning does not depend on what follows it.
LEMMA FoldsAgree ==
  ASSUME NEW a, NEW b, NEW n \in Nat, NEW m \in Nat, n <= m, \A i \in 1 .. n : a[i] = b[i],
         NEW g, NEW h, FoldsTo(g, n, a), FoldsTo(h, m, b)
  PROVE  g[1 .. n] = h[1 .. n]
<1>1. PICK T \in SUBSET Nat :
         T = {k \in Nat : k <= n /\ \E s \in SUBSET (1 .. k) : g[s] # h[s]}
  OBVIOUS
<1>2. CASE T = {}
  BY <1>1, <1>2
<1>3. CASE T # {}
  <2>1. PICK k \in T : \A j \in 0 .. k - 1 : j \notin T
    BY <1>3, LeastNumber
  <2>2. k \in Nat /\ k <= n
    BY <1>1, <2>1
  <2>3. PICK s \in SUBSET (1 .. k) : g[s] # h[s]
    BY <1>1, <2>1
  <2>4. s \in SUBSET (1 .. n) /\ s \in SUBSET (1 .. m)
    BY <2>2
  <2>5. /\ g[s] = IF s = {} THEN Begun ELSE ValidateNext(g[s \ {Max(s)}], a[Max(s)])
        /\ h[s] = IF s = {} THEN Begun ELSE ValidateNext(h[s \ {Max(s)}], b[Max(s)])
    BY <2>4 DEF FoldsTo
  <2>6. s # {}
    BY <2>3, <2>5
  <2>7. PICK x : x = Max(s)
    OBVIOUS
  <2>8. x \in s /\ x \in 1 .. k /\ \A y \in s : y <= x
    BY <2>2, <2>6, <2>7, MaxIs
  <2>9. s \ {x} \in SUBSET (1 .. k - 1) /\ k - 1 \in 0 .. n /\ k - 1 \in 0 .. k - 1
    BY <2>2, <2>8
  <2>10. k - 1 \notin T
    BY <2>1, <2>9
  <2>11. g[s \ {x}] = h[s \ {x}]
    BY <1>1, <2>9, <2>10
  <2>12. a[x] = b[x]
    BY <2>2, <2>8
  <2> QED
    BY <2>3, <2>5, <2>6, <2>7, <2>11, <2>12
<1> QED
  BY <1>2, <1>3

LEMMA ValidatedIs ==
  ASSUME NEW batch, NEW n \in Nat, DOMAIN batch = 1 .. n
  PROVE  \E g : FoldsTo(g, n, batch) /\ Validated(batch) = g[1 .. n]
<1>1. PICK g : g = CHOOSE h : FoldsTo(h, n, batch)
  OBVIOUS
<1>2. FoldsTo(g, n, batch)
  BY <1>1, FoldExists
<1>3. Validated(batch) = g[1 .. n]
  BY <1>1 DEF Validated, FoldLeft, MapThenFoldSet, FoldsTo, Begun
<1> QED
  BY <1>2, <1>3

LEMMA ValidatedEmpty == Validated(<<>>) = Begun
<1>1. DOMAIN <<>> = 1 .. 0
  OBVIOUS
<1>2. PICK g : FoldsTo(g, 0, <<>>) /\ Validated(<<>>) = g[1 .. 0]
  BY <1>1, ValidatedIs
<1>3. PICK s : s = 1 .. 0
  OBVIOUS
<1>4. s = {} /\ s \in SUBSET (1 .. 0)
  BY <1>3
<1> QED
  BY <1>2, <1>3, <1>4 DEF FoldsTo

LEMMA ValidatedAppend ==
  ASSUME NEW X, NEW batch \in Seq(X), NEW range \in X
  PROVE  Validated(Append(batch, range)) = ValidateNext(Validated(batch), range)
<1>1. PICK n \in Nat : n = Len(batch) /\ DOMAIN batch = 1 .. n
  OBVIOUS
<1>2. PICK longer : longer = Append(batch, range)
  OBVIOUS
<1>3. /\ DOMAIN longer = 1 .. n + 1 /\ longer[n + 1] = range
      /\ \A i \in 1 .. n : longer[i] = batch[i]
  BY <1>1, <1>2
<1>4. PICK g : FoldsTo(g, n, batch) /\ Validated(batch) = g[1 .. n]
  BY <1>1, ValidatedIs
<1>5. PICK h : FoldsTo(h, n + 1, longer) /\ Validated(longer) = h[1 .. n + 1]
  BY <1>3, ValidatedIs
<1>6. g[1 .. n] = h[1 .. n]
  BY <1>3, <1>4, <1>5, FoldsAgree
<1>7. PICK s : s = 1 .. n + 1
  OBVIOUS
<1>8. s \in SUBSET (1 .. n + 1) /\ s # {} /\ n + 1 \in s
  <2>1. n + 1 \in s
    BY <1>7
  <2>2. s \in SUBSET (1 .. n + 1)
    BY <1>7
  <2> QED
    BY <2>1, <2>2
<1>9. Max(s) = n + 1
  <2>1. Max(s) \in 1 .. n + 1 /\ n + 1 <= Max(s)
    BY <1>8, MaxIs
  <2> QED
    BY <2>1
<1>10. s \ {n + 1} = 1 .. n
  BY <1>7
<1>11. h[s] = ValidateNext(h[s \ {Max(s)}], longer[Max(s)])
  BY <1>5, <1>8 DEF FoldsTo
<1> QED
  BY <1>2, <1>3, <1>4, <1>5, <1>6, <1>7, <1>9, <1>10, <1>11

-----------------------------------------------------------------------------
(***************************************************************************)
(* A range that lies in the source: nothing about it wraps.                *)
(***************************************************************************)
FitsIn(range) == BytesOf(range) # {} /\ BytesOf(range) \subseteq 0 .. SourceBytes - 1

LEMMA FitsInIs ==
  ASSUME NEW range \in ByteRange
  PROVE  FitsIn(range) <=> range.length >= 1 /\ range.offset + range.length <= SourceBytes
<1>1. PICK a \in Nat, l \in Nat : a = range.offset /\ l = range.length
  BY WordAssumption DEF ByteRange, Word
<1>2. SourceBytes \in Nat \ {0}
  BY WordAssumption, ChunkRangeAssumption DEF Word
<1>3. BytesOf(range) = a .. a + l - 1
  BY <1>1 DEF BytesOf
<1>4. CASE l = 0
  <2>1. a .. a + l - 1 = {}
    BY <1>4
  <2> QED
    BY <1>1, <1>3, <1>4, <2>1 DEF FitsIn
<1>5. CASE l >= 1 /\ a + l <= SourceBytes
  <2>1. a \in a .. a + l - 1
    BY <1>5
  <2>2. a .. a + l - 1 \subseteq 0 .. SourceBytes - 1
    BY <1>2, <1>5
  <2> QED
    BY <1>1, <1>3, <1>5, <2>1, <2>2 DEF FitsIn
<1>6. CASE l >= 1 /\ a + l > SourceBytes
  <2>1. a + l - 1 \in a .. a + l - 1
    BY <1>6
  <2>2. a + l - 1 \notin 0 .. SourceBytes - 1
    BY <1>2, <1>6
  <2> QED
    BY <1>1, <1>2, <1>3, <1>6, <2>1, <2>2 DEF FitsIn
<1> QED
  BY <1>1, <1>2, <1>4, <1>5, <1>6

LEMMA RangeCheckIs ==
  ASSUME NEW range \in ByteRange
  PROVE  /\ validate_range(range, SourceBytes) = "ok" <=> FitsIn(range)
         /\ validate_range(range, SourceBytes) \in {"ok", "empty_range", "out_of_range"}
<1>1. PICK a \in Nat, l \in Nat : a = range.offset /\ l = range.length
  BY WordAssumption DEF ByteRange, Word
<1>2. SourceBytes \in Nat \ {0} /\ SourceBytes <= WordMod - 1 /\ WordMod \in Nat
  BY WordAssumption, ChunkRangeAssumption DEF Word
<1>3. PICK e : e = checked_end(a, l)
  OBVIOUS
<1>4. l > WordMod - 1 - a => e = -1
  BY <1>3 DEF checked_end, NoEnd
<1>5. ~ (l > WordMod - 1 - a) => e = a + l
  BY <1>3 DEF checked_end
<1>6. e # -1 /\ e <= SourceBytes <=> a + l <= SourceBytes
  <2>1. CASE l > WordMod - 1 - a
    BY <1>1, <1>2, <1>4, <2>1
  <2>2. CASE ~ (l > WordMod - 1 - a)
    BY <1>1, <1>2, <1>5, <2>2
  <2> QED
    BY <2>1, <2>2
<1>7. validate_range(range, SourceBytes)
        = IF l = 0 THEN "empty_range" ELSE IF e # -1 /\ e <= SourceBytes THEN "ok"
          ELSE "out_of_range"
  BY <1>1, <1>3 DEF validate_range, NoEnd
<1>8. FitsIn(range) <=> l >= 1 /\ a + l <= SourceBytes
  BY <1>1, FitsInIs
<1> QED
  BY <1>1, <1>6, <1>7, <1>8

LEMMA SpanIs ==
  ASSUME NEW range \in ByteRange, FitsIn(range)
  PROVE  /\ first_chunk(range) \in Nat /\ last_chunk(range) \in Nat
         /\ first_chunk(range) <= last_chunk(range)
         /\ last_chunk(range) = (range.offset + range.length - 1) \div SlotBytes
         /\ span_chunks(range) = last_chunk(range) - first_chunk(range) + 1
<1>1. PICK a \in Nat, l \in Nat : a = range.offset /\ l = range.length
  BY WordAssumption DEF ByteRange, Word
<1>2. /\ SourceBytes \in Nat \ {0} /\ SourceBytes <= WordMod - 1 /\ WordMod \in Nat \ {0}
      /\ SlotBytes \in Nat \ {0}
  BY WordAssumption, ChunkRangeAssumption DEF Word
<1>3. l >= 1 /\ a + l <= SourceBytes
  BY <1>1, FitsInIs
<1>4. PICK z \in Nat : z = a + l - 1
  BY <1>1, <1>3
<1>5. z >= a /\ z < SourceBytes /\ z < WordMod
  BY <1>2, <1>3, <1>4
<1>6. Wrap(a + l - 1) = z
  BY <1>2, <1>4, <1>5 DEF Wrap
<1>7. PICK f \in Int, g \in Int : f = a \div SlotBytes /\ g = z \div SlotBytes
  BY <1>2, Quotient
<1>8. f <= g
  BY <1>2, <1>5, <1>7, QuotientKeepsOrder
<1>9. f >= 0 /\ g >= 0 /\ g * SlotBytes \in Int /\ g * SlotBytes <= z
  BY <1>2, <1>7, Quotient
<1>10. g <= z
  <2>1. g <= g * SlotBytes
    <3>1. PICK h \in Nat : h = SlotBytes - 1
      BY <1>2
    <3>2. g * SlotBytes = g * h + g
      BY <1>2, <3>1
    <3>3. g * h \in Nat
      BY <1>9, <3>1
    <3> QED
      BY <3>2, <3>3
  <2> QED
    BY <1>9, <2>1
<1>11. first_chunk(range) = f /\ last_chunk(range) = g
  BY <1>1, <1>6, <1>7 DEF first_chunk, last_chunk
<1>12. g - f + 1 \in Nat /\ g - f + 1 < WordMod
  BY <1>2, <1>5, <1>8, <1>9, <1>10
<1>13. span_chunks(range) = g - f + 1
  BY <1>2, <1>11, <1>12 DEF span_chunks, Wrap
<1> QED
  BY <1>1, <1>4, <1>7, <1>8, <1>9, <1>11, <1>13

LEMMA TouchedIs ==
  ASSUME NEW range \in ByteRange, FitsIn(range)
  PROVE  Touched(range) = first_chunk(range) .. last_chunk(range)
<1>1. PICK a \in Nat, l \in Nat : a = range.offset /\ l = range.length
  BY WordAssumption DEF ByteRange, Word
<1>2. SlotBytes \in Nat \ {0}
  BY WordAssumption, ChunkRangeAssumption DEF Word
<1>3. l >= 1
  BY <1>1, FitsInIs
<1>4. PICK z \in Nat : z = a + l - 1
  BY <1>3
<1>5. PICK f \in Nat, g \in Nat : f = first_chunk(range) /\ g = last_chunk(range)
  BY SpanIs
<1>6. f = a \div SlotBytes /\ g = z \div SlotBytes
  BY <1>1, <1>4, <1>5, SpanIs DEF first_chunk
<1>7. BytesOf(range) = a .. z
  BY <1>1, <1>4 DEF BytesOf
<1>8. ASSUME NEW b \in a .. z PROVE b \div SlotBytes \in f .. g
  BY <1>2, <1>6, QuotientKeepsOrder, Quotient
<1>9. ASSUME NEW c \in f .. g PROVE \E b \in a .. z : b \div SlotBytes = c
  <2>1. /\ f * SlotBytes \in Int /\ f * SlotBytes <= a /\ a < f * SlotBytes + SlotBytes
        /\ g * SlotBytes \in Int /\ g * SlotBytes <= z
    BY <1>2, <1>6, Quotient
  <2>2. PICK p \in Int : p = c * SlotBytes
    BY <1>2, TimesKeepsOrder
  <2>3. CASE c = f
    <3>1. a \in a .. z
      BY <1>3, <1>4
    <3>2. a \div SlotBytes = c
      BY <1>6, <2>3
    <3> QED
      BY <3>1, <3>2
  <2>4. CASE c > f
    <3>1. (f + 1) * SlotBytes = f * SlotBytes + SlotBytes
      BY <1>2
    <3>2. (f + 1) * SlotBytes <= p /\ p <= g * SlotBytes
      BY <1>2, <2>2, <2>4, TimesKeepsOrder
    <3>3. p \in a .. z
      <4>1. PICK u \in Int, v \in Int : u = f * SlotBytes /\ v = g * SlotBytes
        BY <2>1
      <4>2. a < u + SlotBytes /\ u + SlotBytes <= p /\ p <= v /\ v <= z
        BY <2>1, <3>1, <3>2, <4>1
      <4> QED
        BY <1>2, <2>2, <4>2
    <3>4. p \div SlotBytes = c
      <4>1. PICK q \in Int : q = p \div SlotBytes
        BY <1>2, Quotient
      <4>2. q * SlotBytes \in Int /\ q * SlotBytes <= p /\ p < q * SlotBytes + SlotBytes
        BY <1>2, <4>1, Quotient
      <4>3. (q + 1) * SlotBytes = q * SlotBytes + SlotBytes
        BY <1>2
      <4>4. c < q + 1
        BY <1>2, <2>2, <4>2, <4>3, TimesKeepsOrder
      <4>5. ~ (c < q)
        <5>1. ASSUME c < q PROVE FALSE
          <6>1. (c + 1) * SlotBytes = c * SlotBytes + SlotBytes
            BY <1>2
          <6>2. (c + 1) * SlotBytes <= q * SlotBytes
            BY <1>2, <5>1, TimesKeepsOrder
          <6> QED
            BY <1>2, <2>2, <4>2, <6>1, <6>2
        <5> QED
          BY <5>1
      <4> QED
        BY <4>1, <4>4, <4>5
    <3> QED
      BY <3>3, <3>4
  <2> QED
    BY <2>3, <2>4
<1> QED
  BY <1>5, <1>7, <1>8, <1>9 DEF Touched

\* The chunks of a range, marked with the place of the range in the batch.
LEMMA MarkedCount ==
  ASSUME NEW m, NEW a \in Int, NEW b \in Int, a <= b
  PROVE  /\ IsFiniteSet({m} \X (a .. b))
         /\ Cardinality({m} \X (a .. b)) = b - a + 1
<1>1. PICK f : f = [c \in a .. b |-> <<m, c>>]
  OBVIOUS
<1>2. f \in Bijection(a .. b, {m} \X (a .. b))
  <2>1. f \in [a .. b -> {m} \X (a .. b)]
    BY <1>1
  <2>2. \A c, d \in a .. b : f[c] = f[d] => c = d
    BY <1>1
  <2>3. \A t \in {m} \X (a .. b) : \E c \in a .. b : f[c] = t
    BY <1>1
  <2> QED
    BY <2>1, <2>2, <2>3 DEF Bijection, Injection, Surjection, IsInjective
<1>3. ExistsBijection(a .. b, {m} \X (a .. b))
  BY <1>2 DEF ExistsBijection
<1>4. IsFiniteSet(a .. b) /\ Cardinality(a .. b) = b - a + 1
  BY FS_Interval
<1> QED
  BY <1>3, <1>4, FS_Bijection

TouchedBy(batch, n) == UNION {{i} \X Touched(batch[i]) : i \in 1 .. n}

LEMMA TouchedByIs ==
  ASSUME NEW batch, NEW n
  PROVE  \A t : t \in TouchedBy(batch, n) <=>
                  \E i \in 1 .. n : t \in {i} \X Touched(batch[i])
BY DEF TouchedBy

LEMMA TouchedAppend ==
  ASSUME NEW batch \in Seq(ByteRange), NEW range \in ByteRange,
         NEW n \in Nat, n = Len(batch)
  PROVE  /\ TouchedBy(Append(batch, range), n + 1)
              = TouchedBy(batch, n) \cup ({n + 1} \X Touched(range))
         /\ TouchedBy(batch, n) \cap ({n + 1} \X Touched(range)) = {}
<1>1. PICK longer : longer = Append(batch, range)
  OBVIOUS
<1>2. longer[n + 1] = range /\ \A i \in 1 .. n : longer[i] = batch[i]
  BY <1>1
<1>3. ASSUME NEW t
      PROVE  t \in TouchedBy(longer, n + 1)
               <=> t \in TouchedBy(batch, n) \/ t \in {n + 1} \X Touched(range)
  <2>1. t \in TouchedBy(longer, n + 1) <=>
          \E i \in 1 .. n + 1 : t \in {i} \X Touched(longer[i])
    BY TouchedByIs
  <2>2. t \in TouchedBy(batch, n) <=> \E i \in 1 .. n : t \in {i} \X Touched(batch[i])
    BY TouchedByIs
  <2>3. \A i \in 1 .. n + 1 : i \in 1 .. n \/ i = n + 1
    OBVIOUS
  <2>4. (\A i \in 1 .. n : i \in 1 .. n + 1) /\ n + 1 \in 1 .. n + 1
    OBVIOUS
  <2> QED
    BY <1>2, <2>1, <2>2, <2>3, <2>4
<1>4. ASSUME NEW t \in TouchedBy(batch, n), t \in {n + 1} \X Touched(range) PROVE FALSE
  <2>1. PICK i \in 1 .. n : t \in {i} \X Touched(batch[i])
    BY TouchedByIs
  <2>2. t[1] = i /\ t[1] = n + 1
    BY <1>4, <2>1
  <2> QED
    BY <2>2
<1> QED
  BY <1>1, <1>3, <1>4

(***************************************************************************)
(* validate_batch counts the chunks of a batch that fits and stops at the  *)
(* first range that does not, or that asks for one chunk too many.         *)
(***************************************************************************)
Statuses == {"ok", "empty_range", "out_of_range", "batch_too_large"}

AllFit(batch) == \A i \in DOMAIN batch : FitsIn(batch[i])

Counted(batch) == Cardinality(TouchedBy(batch, Len(batch)))

Accepts(acc, batch) ==
  /\ acc.status \in Statuses
  /\ acc.chunks \in Nat /\ acc.chunks <= MaxBatchChunks
  /\ AllFit(batch) => /\ IsFiniteSet(TouchedBy(batch, Len(batch)))
                      /\ Counted(batch) \in Nat /\ Counted(batch) >= Len(batch)
  /\ acc.status = "ok" => AllFit(batch) /\ acc.chunks = Counted(batch)
  /\ acc.status # "ok" => (AllFit(batch) => Counted(batch) > MaxBatchChunks)

CheckInv ==
  /\ ranges \in Seq(ByteRange)
  /\ Validated(ranges) \in [status : Statuses, chunks : Nat]
  /\ Accepts(Validated(ranges), ranges)

LEMMA CheckInit == RangesInit => CheckInv
<1> SUFFICES ASSUME RangesInit PROVE CheckInv
  OBVIOUS
<1>1. ranges = <<>> /\ Validated(ranges) = [status |-> "ok", chunks |-> 0]
  BY ValidatedEmpty DEF RangesInit, Begun
<1>2. PICK batch : batch = ranges
  OBVIOUS
<1>3. batch \in Seq(ByteRange) /\ Len(batch) = 0 /\ DOMAIN batch = {}
  BY <1>1, <1>2
<1>4. TouchedBy(batch, 0) = {}
  <2>1. \A i \in 1 .. 0 : FALSE
    OBVIOUS
  <2> QED
    BY <2>1, TouchedByIs
<1>5. Counted(batch) = 0 /\ IsFiniteSet(TouchedBy(batch, Len(batch)))
  BY <1>3, <1>4, FS_EmptySet DEF Counted
<1>6. MaxBatchChunks \in Nat
  BY WordAssumption, ChunkRangeAssumption DEF Word
<1> QED
  BY <1>1, <1>2, <1>3, <1>5, <1>6 DEF CheckInv, Accepts, AllFit, Statuses

LEMMA CountAppend ==
  ASSUME NEW batch \in Seq(ByteRange), NEW range \in ByteRange,
         AllFit(batch), FitsIn(range), IsFiniteSet(TouchedBy(batch, Len(batch))),
         Counted(batch) \in Nat
  PROVE  /\ IsFiniteSet(TouchedBy(Append(batch, range), Len(Append(batch, range))))
         /\ Counted(Append(batch, range)) = Counted(batch) + span_chunks(range)
<1>1. PICK n \in Nat : n = Len(batch) /\ Len(Append(batch, range)) = n + 1
  OBVIOUS
<1>2. PICK f \in Nat, g \in Nat : f = first_chunk(range) /\ g = last_chunk(range)
  BY SpanIs
<1>3. f <= g /\ span_chunks(range) = g - f + 1
  BY <1>2, SpanIs
<1>4. PICK new : new = {n + 1} \X Touched(range)
  OBVIOUS
<1>5. new = {n + 1} \X (f .. g)
  BY <1>2, <1>4, TouchedIs
<1>6. IsFiniteSet(new) /\ Cardinality(new) = g - f + 1
  <2>1. /\ IsFiniteSet({n + 1} \X (f .. g))
        /\ Cardinality({n + 1} \X (f .. g)) = g - f + 1
    <3>1. f \in Int /\ g \in Int /\ f <= g
      BY <1>3
    <3> QED
      BY <3>1, MarkedCount, Zenon
  <2> QED
    BY <1>5, <2>1
<1>7. PICK old, both : old = TouchedBy(batch, n) /\ both = TouchedBy(Append(batch, range), n + 1)
  OBVIOUS
<1>8. both = old \cup new /\ old \cap new = {}
  BY <1>1, <1>4, <1>7, TouchedAppend
<1>9. Cardinality(old) = Counted(batch) /\ IsFiniteSet(old)
  BY <1>1, <1>7 DEF Counted
<1>10. IsFiniteSet(both) /\ Cardinality(both) = Cardinality(old) + Cardinality(new)
  <2>1. Cardinality(old \cap new) = 0
    BY <1>8, FS_EmptySet
  <2>2. /\ IsFiniteSet(old \cup new)
        /\ Cardinality(old \cup new)
             = Cardinality(old) + Cardinality(new) - Cardinality(old \cap new)
    BY <1>6, <1>9, FS_Union
  <2> QED
    BY <1>6, <1>8, <1>9, <2>1, <2>2
<1> QED
  BY <1>1, <1>3, <1>6, <1>7, <1>9, <1>10 DEF Counted

LEMMA FitAppend ==
  ASSUME NEW batch \in Seq(ByteRange), NEW range \in ByteRange
  PROVE  AllFit(Append(batch, range)) <=> AllFit(batch) /\ FitsIn(range)
<1>1. PICK n \in Nat : n = Len(batch) /\ DOMAIN batch = 1 .. n
  OBVIOUS
<1>2. PICK longer : longer = Append(batch, range)
  OBVIOUS
<1>3. DOMAIN longer = 1 .. n + 1 /\ longer[n + 1] = range
      /\ \A i \in 1 .. n : longer[i] = batch[i]
  BY <1>1, <1>2
<1>4. \A i \in 1 .. n + 1 : i \in 1 .. n \/ i = n + 1
  OBVIOUS
<1>5. (\A i \in 1 .. n : i \in 1 .. n + 1) /\ n + 1 \in 1 .. n + 1
  OBVIOUS
<1> QED
  BY <1>1, <1>2, <1>3, <1>4, <1>5 DEF AllFit

LEMMA AcceptsAppend ==
  ASSUME NEW acc \in [status : Statuses, chunks : Nat],
         NEW batch \in Seq(ByteRange), NEW range \in ByteRange, Accepts(acc, batch)
  PROVE  Accepts(ValidateNext(acc, range), Append(batch, range))
<1>1. PICK n \in Nat, m \in Nat : n = Len(batch) /\ m = MaxBatchChunks /\ m < WordMod
                                   /\ WordMod \in Nat
  <2>1. MaxBatchChunks \in Nat /\ MaxBatchChunks < WordMod /\ WordMod \in Nat
    BY WordAssumption, ChunkRangeAssumption DEF Word
  <2>2. Len(batch) \in Nat
    OBVIOUS
  <2> QED
    BY <2>1, <2>2
<1>2. PICK longer : longer = Append(batch, range)
  OBVIOUS
<1>3. Len(longer) = n + 1
  BY <1>1, <1>2
<1>4. AllFit(longer) <=> AllFit(batch) /\ FitsIn(range)
  BY <1>2, FitAppend
<1>5. FitsIn(range) => span_chunks(range) \in Nat \ {0}
  BY SpanIs
<1>6. AllFit(longer) => /\ IsFiniteSet(TouchedBy(longer, Len(longer)))
                        /\ Counted(longer) = Counted(batch) + span_chunks(range)
                        /\ Counted(batch) \in Nat /\ Counted(batch) >= n
  BY <1>1, <1>2, <1>4, CountAppend DEF Accepts
<1>7. AllFit(longer) => Counted(longer) \in Nat /\ Counted(longer) >= Len(longer)
                        /\ Counted(longer) >= Counted(batch)
  BY <1>3, <1>4, <1>5, <1>6
<1>8. PICK valid : valid = validate_range(range, SourceBytes)
  OBVIOUS
<1>9. (valid = "ok" <=> FitsIn(range)) /\ valid \in {"ok", "empty_range", "out_of_range"}
  BY <1>8, RangeCheckIs
<1>10. PICK k \in Nat : k = acc.chunks /\ k <= m
  BY <1>1 DEF Accepts
<1>11. Wrap(MaxBatchChunks - acc.chunks) = m - k
  <2>1. PICK d \in Nat : d = m - k /\ d < WordMod
    BY <1>1, <1>10
  <2>2. d % WordMod = d
    BY <1>1, <2>1
  <2> QED
    BY <1>1, <1>10, <2>1, <2>2 DEF Wrap
<1>12. PICK next : next = ValidateNext(acc, range)
  OBVIOUS
<1>13. CASE acc.status # "ok"
  <2>1. next = acc
    BY <1>12, <1>13 DEF ValidateNext
  <2>2. AllFit(longer) => Counted(longer) > MaxBatchChunks
    BY <1>1, <1>4, <1>6, <1>7, <1>13 DEF Accepts
  <2> QED
    BY <1>2, <1>6, <1>7, <1>12, <1>13, <2>1, <2>2 DEF Accepts
<1>14. CASE acc.status = "ok" /\ ~ FitsIn(range)
  <2>1. next = [acc EXCEPT !.status = valid]
    BY <1>8, <1>9, <1>12, <1>14 DEF ValidateNext
  <2>2. next.status = valid /\ next.chunks = k
    BY <1>10, <2>1
  <2> QED
    BY <1>1, <1>2, <1>4, <1>9, <1>10, <1>12, <1>14, <2>2 DEF Accepts, Statuses
<1>15. CASE acc.status = "ok" /\ FitsIn(range) /\ span_chunks(range) > m - k
  <2>1. next = [acc EXCEPT !.status = "batch_too_large"]
    BY <1>8, <1>9, <1>11, <1>12, <1>15 DEF ValidateNext
  <2>2. next.status = "batch_too_large" /\ next.chunks = k
    BY <1>10, <2>1
  <2>3. AllFit(batch) /\ k = Counted(batch)
    BY <1>10, <1>15 DEF Accepts
  <2>4. Counted(longer) > MaxBatchChunks
    BY <1>1, <1>4, <1>5, <1>6, <1>15, <2>3
  <2> QED
    BY <1>1, <1>2, <1>6, <1>7, <1>10, <1>12, <2>2, <2>4 DEF Accepts, Statuses
<1>16. CASE acc.status = "ok" /\ FitsIn(range) /\ ~ (span_chunks(range) > m - k)
  <2>1. next = [acc EXCEPT !.chunks = @ + span_chunks(range)]
    BY <1>8, <1>9, <1>11, <1>12, <1>16 DEF ValidateNext
  <2>2. next.status = "ok" /\ next.chunks = k + span_chunks(range)
    BY <1>10, <1>16, <2>1
  <2>3. AllFit(batch) /\ k = Counted(batch)
    BY <1>10, <1>16 DEF Accepts
  <2>4. next.chunks = Counted(longer) /\ AllFit(longer)
    BY <1>4, <1>6, <1>16, <2>2, <2>3
  <2>5. next.chunks \in Nat /\ next.chunks <= MaxBatchChunks
    BY <1>1, <1>5, <1>10, <1>16, <2>2
  <2> QED
    BY <1>2, <1>6, <1>7, <1>12, <2>2, <2>4, <2>5 DEF Accepts, Statuses
<1> QED
  BY <1>5, <1>13, <1>14, <1>15, <1>16

LEMMA ValidateNextType ==
  ASSUME NEW acc \in [status : Statuses, chunks : Nat], NEW range \in ByteRange
  PROVE  ValidateNext(acc, range) \in [status : Statuses, chunks : Nat]
<1>1. PICK valid : valid = validate_range(range, SourceBytes)
  OBVIOUS
<1>2. (valid = "ok" <=> FitsIn(range)) /\ valid \in Statuses
  BY <1>1, RangeCheckIs DEF Statuses
<1>3. FitsIn(range) => span_chunks(range) \in Nat
  BY SpanIs
<1>4. acc.chunks \in Nat /\ acc.status \in Statuses /\ "batch_too_large" \in Statuses
  BY DEF Statuses
<1>5. valid = "ok" => [acc EXCEPT !.chunks = @ + span_chunks(range)]
                        \in [status : Statuses, chunks : Nat]
  <2>1. valid = "ok" => acc.chunks + span_chunks(range) \in Nat
    BY <1>2, <1>3, <1>4
  <2> QED
    BY <2>1
<1>6. /\ [acc EXCEPT !.status = valid] \in [status : Statuses, chunks : Nat]
      /\ [acc EXCEPT !.status = "batch_too_large"] \in [status : Statuses, chunks : Nat]
  BY <1>2, <1>4
<1> QED
  BY <1>1, <1>5, <1>6 DEF ValidateNext

LEMMA CheckStep == CheckInv /\ [RangesNext]_ranges => CheckInv'
<1> SUFFICES ASSUME CheckInv, [RangesNext]_ranges PROVE CheckInv'
  OBVIOUS
<1>1. CASE UNCHANGED ranges
  BY <1>1 DEF CheckInv
<1>2. CASE RangesNext
  <2>1. PICK range \in ByteRange : ranges' = Append(ranges, range)
    BY <1>2 DEF RangesNext, Declare
  <2>2. PICK batch : batch = ranges
    OBVIOUS
  <2>3. batch \in Seq(ByteRange) /\ Append(batch, range) \in Seq(ByteRange)
    BY <2>2 DEF CheckInv
  <2>4. Validated(Append(batch, range)) = ValidateNext(Validated(batch), range)
    BY <2>3, ValidatedAppend
  <2>5. PICK acc : acc = Validated(batch)
    OBVIOUS
  <2>6. acc \in [status : Statuses, chunks : Nat] /\ Accepts(acc, batch)
    BY <2>2, <2>5 DEF CheckInv
  <2>7. Accepts(ValidateNext(acc, range), Append(batch, range))
    BY <2>3, <2>6, AcceptsAppend
  <2>8. ValidateNext(acc, range) \in [status : Statuses, chunks : Nat]
    BY <2>6, ValidateNextType
  <2> QED
    BY <2>1, <2>2, <2>3, <2>4, <2>5, <2>7, <2>8 DEF CheckInv
<1> QED
  BY <1>1, <1>2

LEMMA CheckAlways == RangesSpec => []CheckInv
BY CheckInit, CheckStep, PTL DEF RangesSpec

LEMMA CheckIsExact == CheckInv => BatchCheckExact
<1> SUFFICES ASSUME CheckInv PROVE BatchCheckExact
  OBVIOUS
<1>1. PICK acc : acc = Validated(ranges)
  OBVIOUS
<1>2. PICK n \in Nat : n = Len(ranges) /\ DOMAIN ranges = 1 .. n /\ (ranges = <<>> <=> n = 0)
  BY DEF CheckInv
<1>3. Accepts(acc, ranges) /\ acc.chunks \in Nat
  BY <1>1 DEF CheckInv
<1>4. AllFit(ranges) <=> \A i \in DOMAIN ranges : Fits(i)
  BY DEF AllFit, Fits, FitsIn
<1>5. Counted(ranges) = Cardinality(TouchedUpTo(Len(ranges)))
  BY DEF Counted, TouchedBy, TouchedUpTo
<1>6. validate_batch(ranges) = "ok" <=> acc.status = "ok" /\ acc.chunks # 0
  BY <1>1 DEF validate_batch
<1>7. PICK m \in Nat : m = MaxBatchChunks
  BY WordAssumption, ChunkRangeAssumption DEF Word
<1>8. ASSUME acc.status = "ok", acc.chunks # 0
      PROVE  ranges # <<>> /\ AllFit(ranges) /\ Counted(ranges) <= MaxBatchChunks
  <2>1. AllFit(ranges) /\ acc.chunks = Counted(ranges) /\ acc.chunks <= MaxBatchChunks
    BY <1>3, <1>8 DEF Accepts
  <2>2. n # 0
    <3> SUFFICES ASSUME n = 0 PROVE FALSE
      OBVIOUS
    <3>1. TouchedBy(ranges, 0) = {}
      <4>1. \A i \in 1 .. 0 : FALSE
        OBVIOUS
      <4> QED
        BY <4>1, TouchedByIs
    <3>2. Counted(ranges) = 0
      BY <1>2, <3>1, FS_EmptySet DEF Counted
    <3> QED
      BY <1>8, <2>1, <3>2
  <2> QED
    BY <1>2, <2>1, <2>2
<1>9. ASSUME ranges # <<>>, AllFit(ranges), Counted(ranges) <= MaxBatchChunks
      PROVE  acc.status = "ok" /\ acc.chunks # 0
  <2>1. Counted(ranges) \in Nat /\ Counted(ranges) >= n
    BY <1>2, <1>3, <1>9 DEF Accepts
  <2>2. acc.status = "ok"
    BY <1>3, <1>7, <1>9, <2>1 DEF Accepts
  <2>3. acc.chunks = Counted(ranges)
    BY <1>3, <2>2 DEF Accepts
  <2> QED
    BY <1>2, <1>9, <2>1, <2>2, <2>3
<1> QED
  BY <1>4, <1>5, <1>6, <1>8, <1>9 DEF BatchCheckExact

\* validate_batch accepts exactly the batches whose ranges lie inside the source, are not
\* empty and touch no more chunks than max_batch_chunks, for every source, slot and word.
THEOREM BatchCheckHolds == RangesSpec => []BatchCheckExact
BY CheckAlways, CheckIsExact, PTL

-----------------------------------------------------------------------------
(***************************************************************************)
(* What FlattenSeq makes of a list of lists, one list at a time.           *)
(***************************************************************************)
FlattensTo(f, n, seqs) ==
  f = [i \in 1 .. n |-> IF i = 1 THEN seqs[i] ELSE f[i - 1] \o seqs[i]]

LEMMA FlattenExists ==
  ASSUME NEW seqs, NEW n \in Nat
  PROVE  \E f : FlattensTo(f, n, seqs)
<1>1. PICK T \in SUBSET Nat : T = {k \in Nat : ~\E f : FlattensTo(f, k, seqs)}
  OBVIOUS
<1>2. CASE T = {}
  BY <1>1, <1>2
<1>3. CASE T # {}
  <2>1. PICK k \in T : \A j \in 0 .. k - 1 : j \notin T
    BY <1>3, LeastNumber
  <2>2. k \in Nat /\ ~\E f : FlattensTo(f, k, seqs)
    BY <1>1, <2>1
  <2>3. CASE k = 0
    <3>1. \A i \in 1 .. k : FALSE
      BY <2>3
    <3>2. PICK f : f = [i \in 1 .. k |-> seqs]
      OBVIOUS
    <3>3. [i \in 1 .. k |-> IF i = 1 THEN seqs[i] ELSE f[i - 1] \o seqs[i]]
            = [i \in 1 .. k |-> seqs]
      BY <3>1
    <3>4. FlattensTo(f, k, seqs)
      BY <3>2, <3>3 DEF FlattensTo
    <3> QED
      BY <2>2, <3>4
  <2>4. CASE k # 0
    <3>1. k - 1 \in Nat /\ k - 1 \notin T
      BY <2>1, <2>2, <2>4
    <3>2. PICK g : FlattensTo(g, k - 1, seqs)
      BY <1>1, <3>1
    <3>3. PICK f : f = [i \in 1 .. k |->
                          IF i = k THEN IF k = 1 THEN seqs[k] ELSE g[k - 1] \o seqs[k]
                          ELSE g[i]]
      OBVIOUS
    <3>4. ASSUME NEW i \in 1 .. k
          PROVE  f[i] = IF i = 1 THEN seqs[i] ELSE f[i - 1] \o seqs[i]
      <4>1. CASE i = k
        <5>1. k # 1 => f[k - 1] = g[k - 1]
          <6>1. k # 1 => k - 1 \in 1 .. k /\ k - 1 # k
            BY <2>2, <2>4
          <6> QED
            BY <3>3, <6>1
        <5> QED
          BY <3>3, <4>1, <5>1
      <4>2. CASE i # k
        <5>1. i \in 1 .. k - 1
          BY <2>2, <4>2
        <5>2. g[i] = IF i = 1 THEN seqs[i] ELSE g[i - 1] \o seqs[i]
          BY <3>2, <5>1 DEF FlattensTo
        <5>3. f[i] = g[i]
          BY <3>3, <4>2
        <5>4. i # 1 => f[i - 1] = g[i - 1]
          <6>1. i # 1 => i - 1 \in 1 .. k /\ i - 1 # k
            BY <2>2, <5>1
          <6> QED
            BY <3>3, <6>1
        <5> QED
          BY <5>2, <5>3, <5>4
      <4> QED
        BY <4>1, <4>2
    <3>5. FlattensTo(f, k, seqs)
      BY <3>3, <3>4 DEF FlattensTo
    <3> QED
      BY <2>2, <3>5
  <2> QED
    BY <2>3, <2>4
<1> QED
  BY <1>2, <1>3

LEMMA FlattensAgree ==
  ASSUME NEW a, NEW b, NEW n \in Nat, NEW m \in Nat, n <= m, \A i \in 1 .. n : a[i] = b[i],
         NEW g, NEW h, FlattensTo(g, n, a), FlattensTo(h, m, b)
  PROVE  n # 0 => g[n] = h[n]
<1>1. PICK T \in SUBSET Nat : T = {k \in Nat : k \in 1 .. n /\ g[k] # h[k]}
  OBVIOUS
<1>2. CASE T = {}
  <2>1. n # 0 => n \in 1 .. n
    OBVIOUS
  <2> QED
    BY <1>1, <1>2, <2>1
<1>3. CASE T # {}
  <2>1. PICK k \in T : \A j \in 0 .. k - 1 : j \notin T
    BY <1>3, LeastNumber
  <2>2. k \in 1 .. n /\ k \in 1 .. m /\ g[k] # h[k]
    BY <1>1, <2>1
  <2>3. /\ g[k] = IF k = 1 THEN a[k] ELSE g[k - 1] \o a[k]
        /\ h[k] = IF k = 1 THEN b[k] ELSE h[k - 1] \o b[k]
    BY <2>2 DEF FlattensTo
  <2>4. k # 1 => k - 1 \in 1 .. n /\ k - 1 \in 0 .. k - 1 /\ k - 1 \in Nat
    BY <2>2
  <2>5. k # 1 => g[k - 1] = h[k - 1]
    BY <1>1, <2>1, <2>4
  <2> QED
    BY <2>2, <2>3, <2>5
<1> QED
  BY <1>2, <1>3

LEMMA FlattenIs ==
  ASSUME NEW seqs, NEW n \in Nat, n = Len(seqs), n # 0
  PROVE  \E f : FlattensTo(f, n, seqs) /\ FlattenSeq(seqs) = f[n]
<1>1. PICK f : f = CHOOSE g : FlattensTo(g, n, seqs)
  OBVIOUS
<1>2. FlattensTo(f, n, seqs)
  BY <1>1, FlattenExists
<1>3. FlattenSeq(seqs) = f[n]
  BY <1>1 DEF FlattenSeq, FlattensTo
<1> QED
  BY <1>2, <1>3

LEMMA FlattenEmpty == FlattenSeq(<<>>) = <<>>
BY DEF FlattenSeq

LEMMA FlattenLonger ==
  ASSUME NEW seqs, NEW longer, NEW n \in Nat, NEW m \in Nat, n # 0, m = n + 1,
         Len(seqs) = n, Len(longer) = m, \A i \in 1 .. n : seqs[i] = longer[i]
  PROVE  FlattenSeq(longer) = FlattenSeq(seqs) \o longer[m]
<1>1. PICK g : FlattensTo(g, n, seqs) /\ FlattenSeq(seqs) = g[n]
  BY FlattenIs
<1>2. m # 0 /\ n <= m /\ m \in 1 .. m /\ m # 1 /\ m - 1 = n
  OBVIOUS
<1>3. PICK h : FlattensTo(h, m, longer) /\ FlattenSeq(longer) = h[m]
  BY <1>2, FlattenIs
<1>4. g[n] = h[n]
  BY <1>1, <1>2, <1>3, FlattensAgree
<1>5. h[m] = h[m - 1] \o longer[m]
  BY <1>2, <1>3 DEF FlattensTo
<1> QED
  BY <1>1, <1>2, <1>3, <1>4, <1>5

LEMMA FlattenAppend ==
  ASSUME NEW X, NEW seqs \in Seq(Seq(X)), NEW last \in Seq(X)
  PROVE  FlattenSeq(Append(seqs, last)) = FlattenSeq(seqs) \o last
<1>1. PICK n \in Nat : n = Len(seqs)
  OBVIOUS
<1>2. PICK longer : longer = Append(seqs, last)
  OBVIOUS
<1>3. Len(longer) = n + 1 /\ longer[n + 1] = last /\ \A i \in 1 .. n : seqs[i] = longer[i]
  BY <1>1, <1>2
<1>4. CASE n = 0
  <2>1. seqs = <<>>
    <3>1. seqs # <<>> => Len(seqs) \in Nat \ {0}
      BY EmptySeq
    <3> QED
      BY <1>1, <1>4, <3>1
  <2>2. FlattenSeq(seqs) \o last = last
    BY <2>1, FlattenEmpty, ConcatEmptySeq
  <2>3. PICK k : FlattensTo(k, 1, longer) /\ FlattenSeq(longer) = k[1]
    <3>1. 1 \in Nat /\ 1 # 0 /\ 1 = Len(longer)
      BY <1>3, <1>4
    <3> QED
      BY <3>1, FlattenIs
  <2>4. k[1] = longer[1]
    BY <2>3 DEF FlattensTo
  <2> QED
    BY <1>2, <1>3, <1>4, <2>2, <2>3, <2>4
<1>5. CASE n # 0
  <2>1. PICK m \in Nat : m = n + 1
    OBVIOUS
  <2>2. Len(seqs) = n /\ Len(longer) = m /\ m = n + 1
    BY <1>1, <1>3, <2>1
  <2>3. \A i \in 1 .. n : seqs[i] = longer[i]
    BY <1>3
  <2>4. FlattenSeq(longer) = FlattenSeq(seqs) \o longer[m]
    BY <1>5, <2>2, <2>3, FlattenLonger
  <2> QED
    BY <1>2, <1>3, <2>1, <2>4
<1> QED
  BY <1>4, <1>5

-----------------------------------------------------------------------------
(***************************************************************************)
(* The bytes from a to b, in order, and the piece one chunk gives a range. *)
(***************************************************************************)
Run(a, b) == [k \in 1 .. b - a |-> a + k - 1]

LEMMA RunIs ==
  ASSUME NEW a \in Int, NEW b \in Int, a <= b
  PROVE  /\ Run(a, b) \in Seq(Int) /\ Len(Run(a, b)) = b - a
         /\ \A k \in 1 .. b - a : Run(a, b)[k] = a + k - 1
<1>1. PICK n \in Nat : n = b - a
  OBVIOUS
<1>2. PICK run : run = [k \in 1 .. n |-> a + k - 1]
  OBVIOUS
<1>3. run \in Seq(Int) /\ Len(run) = n
  BY <1>2
<1> QED
  BY <1>1, <1>2, <1>3 DEF Run

LEMMA RunJoin ==
  ASSUME NEW a \in Int, NEW b \in Int, NEW c \in Int, a <= b, b <= c
  PROVE  Run(a, b) \o Run(b, c) = Run(a, c)
<1>1. PICK s, t, u : s = Run(a, b) /\ t = Run(b, c) /\ u = Run(a, c)
  OBVIOUS
<1>2. /\ s \in Seq(Int) /\ Len(s) = b - a /\ \A k \in 1 .. b - a : s[k] = a + k - 1
      /\ t \in Seq(Int) /\ Len(t) = c - b /\ \A k \in 1 .. c - b : t[k] = b + k - 1
      /\ u \in Seq(Int) /\ Len(u) = c - a /\ \A k \in 1 .. c - a : u[k] = a + k - 1
  <2>1. s \in Seq(Int) /\ Len(s) = b - a /\ \A k \in 1 .. b - a : s[k] = a + k - 1
    BY <1>1, RunIs
  <2>2. t \in Seq(Int) /\ Len(t) = c - b /\ \A k \in 1 .. c - b : t[k] = b + k - 1
    BY <1>1, RunIs
  <2>3. a <= c
    OBVIOUS
  <2>4. u \in Seq(Int) /\ Len(u) = c - a /\ \A k \in 1 .. c - a : u[k] = a + k - 1
    BY <1>1, <2>3, RunIs
  <2> QED
    BY <2>1, <2>2, <2>4
<1>3. PICK n \in Nat, m \in Nat : n = b - a /\ m = c - b
  OBVIOUS
<1>4. s \o t \in Seq(Int) /\ Len(s \o t) = n + m
      /\ \A i \in 1 .. n + m : (s \o t)[i] = IF i <= n THEN s[i] ELSE t[i - n]
  <2>1. s \in Seq(Int) /\ t \in Seq(Int) /\ Len(s) = n /\ Len(t) = m
    BY <1>2, <1>3
  <2>2. /\ s \o t \in Seq(Int)
        /\ Len(s \o t) = Len(s) + Len(t)
        /\ \A i \in 1 .. Len(s) + Len(t) : (s \o t)[i] =
                     IF i <= Len(s) THEN s[i] ELSE t[i - Len(s)]
    BY <2>1, ConcatProperties, Zenon
  <2> QED
    BY <2>1, <2>2
<1>5. ASSUME NEW i \in 1 .. n + m PROVE (s \o t)[i] = u[i]
  <2>1. u[i] = a + i - 1
    BY <1>2, <1>3
  <2>2. CASE i <= n
    BY <1>2, <1>3, <1>4, <2>1, <2>2
  <2>3. CASE i > n
    <3>1. i - n \in 1 .. c - b
      BY <1>3, <2>3
    <3>2. (s \o t)[i] = t[i - n]
      BY <1>4, <2>3
    <3>3. t[i - n] = b + (i - n) - 1
      BY <1>2, <3>1
    <3> QED
      BY <1>3, <2>1, <3>2, <3>3
  <2>4. i <= n \/ i > n
    OBVIOUS
  <2> QED
    BY <2>2, <2>3, <2>4
<1>6. Len(u) = n + m
  BY <1>2, <1>3
<1> QED
  BY <1>1, <1>2, <1>4, <1>5, <1>6, SeqEqual

LEMMA RunEmpty == ASSUME NEW a \in Int PROVE Run(a, a) = <<>>
<1>1. Run(a, a) \in Seq(Int) /\ Len(Run(a, a)) = 0
  BY RunIs
<1>2. Run(a, a) # <<>> => Len(Run(a, a)) \in Nat \ {0}
  BY <1>1, EmptySeq
<1> QED
  BY <1>1, <1>2

\* Where a piece of a range that fits begins and ends.
LEMMA SegmentIs ==
  ASSUME NEW range \in ByteRange, FitsIn(range),
         NEW c \in first_chunk(range) .. last_chunk(range)
  PROVE  /\ Begin(c, range) \in Nat /\ End(c, range) \in Nat
         /\ Begin(c, range) < End(c, range)
         /\ c = first_chunk(range) => Begin(c, range) = range.offset
         /\ c > first_chunk(range) => Begin(c, range) = c * SlotBytes
         /\ c < last_chunk(range) => End(c, range) = (c + 1) * SlotBytes
         /\ c = last_chunk(range) => End(c, range) = range.offset + range.length
         /\ c * SlotBytes \in Nat /\ chunk_length(c) \in Nat
         /\ chunk_length(c) <= SlotBytes
         /\ c * SlotBytes + chunk_length(c) <= SourceBytes
         /\ c * SlotBytes <= Begin(c, range)
         /\ End(c, range) <= c * SlotBytes + chunk_length(c)
<1>1. PICK a \in Nat, l \in Nat : a = range.offset /\ l = range.length
  BY WordAssumption DEF ByteRange, Word
<1>2. PICK n \in Nat, u \in Nat : n = SourceBytes /\ u = SlotBytes /\ n >= 1 /\ u >= 1
  BY WordAssumption, ChunkRangeAssumption DEF Word
<1>3. l >= 1 /\ a + l <= n
  BY <1>1, <1>2, FitsInIs
<1>4. PICK z \in Nat : z = a + l - 1
  BY <1>3
<1>5. PICK f \in Nat, g \in Nat : f = first_chunk(range) /\ g = last_chunk(range)
  BY SpanIs
<1>6. f = a \div u /\ g = z \div u
  BY <1>1, <1>2, <1>4, <1>5, SpanIs DEF first_chunk
<1>7. c \in Nat /\ f <= c /\ c <= g
  BY <1>5
<1>8. PICK x \in Int, y \in Int, p \in Int : x = f * u /\ y = g * u /\ p = c * u
  BY <1>2, <1>7
<1>9. x <= a /\ a < x + u /\ y <= z /\ z < y + u
  BY <1>2, <1>6, <1>8, Quotient
<1>10. (c + 1) * u = p + u
  BY <1>2, <1>7, <1>8
<1>11. x <= p /\ p <= y /\ p >= 0
  <2>1. x <= p /\ p <= y
    BY <1>2, <1>7, <1>8, TimesKeepsOrder
  <2>2. p >= 0
    BY <1>2, <1>7, <1>8
  <2> QED
    BY <2>1, <2>2
<1>12. c > f => x + u <= p
  <2> SUFFICES ASSUME c > f PROVE x + u <= p
    OBVIOUS
  <2>1. (f + 1) * u = x + u
    BY <1>2, <1>8
  <2>2. (f + 1) * u <= c * u
    BY <1>2, <1>7, TimesKeepsOrder
  <2> QED
    BY <1>8, <2>1, <2>2
<1>13. c < g => p + u <= y
  <2> SUFFICES ASSUME c < g PROVE p + u <= y
    OBVIOUS
  <2>1. (c + 1) * u <= g * u
    BY <1>2, <1>7, TimesKeepsOrder
  <2> QED
    BY <1>8, <1>10, <2>1
<1>14. chunk_length(c) = IF u < n - p THEN u ELSE n - p
  BY <1>2, <1>8 DEF chunk_length
<1>15. PICK w \in Int : /\ w = chunk_length(c)
                        /\ u < n - p => w = u
                        /\ ~ (u < n - p) => w = n - p
  BY <1>14
<1>16. w >= 1 /\ w <= u /\ p + w <= n
  BY <1>2, <1>3, <1>4, <1>8, <1>9, <1>11, <1>15
<1>17. PICK b \in Int, e \in Int : b = Begin(c, range) /\ e = End(c, range)
  BY <1>1, <1>2, <1>8, <1>15 DEF Begin, End
<1>18. (a > p => b = a) /\ (~ (a > p) => b = p)
  BY <1>1, <1>2, <1>8, <1>17 DEF Begin
<1>19. (a + l < p + w => e = a + l) /\ (~ (a + l < p + w) => e = p + w)
  BY <1>1, <1>2, <1>8, <1>15, <1>17 DEF End
<1>20. c = f => b = a
  BY <1>8, <1>9, <1>18
<1>21. c > f => b = p
  BY <1>9, <1>12, <1>18
<1>22. c < g => e = p + u
  BY <1>3, <1>4, <1>9, <1>13, <1>15, <1>19
<1>23. c = g => e = a + l
  BY <1>3, <1>4, <1>8, <1>9, <1>15, <1>19
<1>24. b < e /\ p <= b /\ e <= p + w /\ b >= 0 /\ e >= 0
  BY <1>2, <1>3, <1>4, <1>7, <1>9, <1>11, <1>12, <1>13, <1>15, <1>16, <1>18, <1>19
<1> QED
  BY <1>1, <1>2, <1>5, <1>8, <1>10, <1>15, <1>16, <1>17, <1>20, <1>21, <1>22, <1>23, <1>24, <1>11

-----------------------------------------------------------------------------
(***************************************************************************)
(* The pieces of a batch, appended range by range.                         *)
(***************************************************************************)
GoodPiece == {p \in [chunk : Nat, range : ByteRange] :
                /\ FitsIn(p.range)
                /\ p.chunk \in first_chunk(p.range) .. last_chunk(p.range)}

Bytes(piece) == Run(Begin(piece.chunk, piece.range), End(piece.chunk, piece.range))

Shown(pieces) == FlattenSeq([i \in DOMAIN pieces |-> Bytes(pieces[i])])

\* The first k pieces of a range, and where the last of them ends.
FirstPieces(range, k) ==
  [j \in 1 .. k |-> [chunk |-> first_chunk(range) + j - 1, range |-> range]]

Cut(range, k) == IF k = 0 THEN range.offset ELSE End(first_chunk(range) + k - 1, range)

LEMMA BytesType ==
  ASSUME NEW p \in GoodPiece
  PROVE  Bytes(p) \in Seq(Int)
<1>1. /\ p.range \in ByteRange /\ FitsIn(p.range)
      /\ p.chunk \in first_chunk(p.range) .. last_chunk(p.range)
  BY DEF GoodPiece
<1>2. PICK b \in Nat, e \in Nat : /\ b = Begin(p.chunk, p.range) /\ e = End(p.chunk, p.range)
                                  /\ b < e
  BY <1>1, SegmentIs
<1>3. Run(b, e) \in Seq(Int)
  BY <1>2, RunIs
<1> QED
  BY <1>2, <1>3 DEF Bytes

LEMMA ShownAppend ==
  ASSUME NEW pieces \in Seq(GoodPiece), NEW p \in GoodPiece
  PROVE  Shown(Append(pieces, p)) = Shown(pieces) \o Bytes(p)
<1>1. PICK n \in Nat : n = Len(pieces) /\ DOMAIN pieces = 1 .. n
  OBVIOUS
<1>2. PICK longer : longer = Append(pieces, p)
  OBVIOUS
<1>3. /\ DOMAIN longer = 1 .. n + 1 /\ longer[n + 1] = p
      /\ \A i \in 1 .. n : longer[i] = pieces[i] /\ pieces[i] \in GoodPiece
  BY <1>1, <1>2
<1>4. PICK list : list = [i \in 1 .. n |-> Bytes(pieces[i])]
  OBVIOUS
<1>5. list \in Seq(Seq(Int))
  BY <1>3, <1>4, BytesType
<1>6. Bytes(p) \in Seq(Int)
  BY BytesType
<1>7. PICK both : both = [i \in 1 .. n + 1 |-> Bytes(longer[i])]
  OBVIOUS
<1>8. both = Append(list, Bytes(p))
  <2>1. both[n + 1] = Bytes(p) /\ \A i \in 1 .. n : both[i] = list[i]
    BY <1>3, <1>4, <1>7
  <2>2. both \in Seq(Seq(Int)) /\ Len(both) = n + 1
    <3>1. \A i \in 1 .. n + 1 : longer[i] \in GoodPiece
      <4>1. \A i \in 1 .. n + 1 : i \in 1 .. n \/ i = n + 1
        OBVIOUS
      <4> QED
        BY <1>3, <4>1
    <3>2. \A i \in 1 .. n + 1 : Bytes(longer[i]) \in Seq(Int)
      BY <3>1, BytesType
    <3> QED
      BY <1>7, <3>2
  <2>3. PICK x : x = Bytes(p) /\ x \in Seq(Int)
    BY <1>6
  <2>4. Len(list) = n
    BY <1>4
  <2>5. both = Append(list, x)
    BY <1>5, <2>1, <2>2, <2>3, <2>4
  <2> QED
    BY <2>3, <2>5
<1>9. FlattenSeq(both) = FlattenSeq(list) \o Bytes(p)
  BY <1>5, <1>6, <1>8, FlattenAppend
<1> QED
  BY <1>1, <1>2, <1>3, <1>4, <1>7, <1>9 DEF Shown

LEMMA FirstPiecesType ==
  ASSUME NEW range \in ByteRange, FitsIn(range), NEW k \in 0 .. span_chunks(range)
  PROVE  FirstPieces(range, k) \in Seq(GoodPiece) /\ Len(FirstPieces(range, k)) = k
<1>1. PICK f \in Nat, g \in Nat : f = first_chunk(range) /\ g = last_chunk(range)
                                  /\ span_chunks(range) = g - f + 1
  BY SpanIs
<1>2. ASSUME NEW j \in 1 .. k
      PROVE  [chunk |-> f + j - 1, range |-> range] \in GoodPiece
  <2>1. f + j - 1 \in Nat /\ f + j - 1 \in f .. g
    BY <1>1
  <2> QED
    BY <1>1, <2>1 DEF GoodPiece
<1>3. k \in Nat
  BY <1>1
<1>4. FirstPieces(range, k) = [j \in 1 .. k |-> [chunk |-> f + j - 1, range |-> range]]
  BY <1>1 DEF FirstPieces
<1>5. PICK s : s = [j \in 1 .. k |-> [chunk |-> f + j - 1, range |-> range]]
  OBVIOUS
<1>6. s \in Seq(GoodPiece) /\ Len(s) = k
  <2>1. s \in [1 .. k -> GoodPiece]
    BY <1>2, <1>5
  <2> QED
    BY <1>3, <2>1
<1> QED
  BY <1>4, <1>5, <1>6

LEMMA FirstPiecesNext ==
  ASSUME NEW range \in ByteRange, FitsIn(range), NEW k \in 0 .. span_chunks(range) - 1
  PROVE  /\ [chunk |-> first_chunk(range) + k, range |-> range] \in GoodPiece
         /\ FirstPieces(range, k + 1)
              = Append(FirstPieces(range, k), [chunk |-> first_chunk(range) + k, range |-> range])
<1>1. PICK f \in Nat, g \in Nat : f = first_chunk(range) /\ g = last_chunk(range)
                                  /\ span_chunks(range) = g - f + 1
  BY SpanIs
<1>2. k \in Nat /\ k + 1 \in 0 .. span_chunks(range) /\ k \in 0 .. span_chunks(range)
  BY <1>1
<1>3. PICK p : p = [chunk |-> f + k, range |-> range]
  OBVIOUS
<1>4. p \in GoodPiece
  <2>1. f + k \in Nat /\ f + k \in f .. g
    BY <1>1
  <2> QED
    BY <1>1, <1>3, <2>1 DEF GoodPiece
<1>5. PICK s, t : s = FirstPieces(range, k) /\ t = FirstPieces(range, k + 1)
  OBVIOUS
<1>6. s \in Seq(GoodPiece) /\ Len(s) = k /\ t \in Seq(GoodPiece) /\ Len(t) = k + 1
  BY <1>2, <1>5, FirstPiecesType
<1>7. \A j \in 1 .. k : t[j] = s[j]
  <2>1. \A j \in 1 .. k : j \in 1 .. k + 1
    BY <1>2
  <2> QED
    BY <1>5, <2>1 DEF FirstPieces
<1>8. t[k + 1] = p
  <2>1. k + 1 \in 1 .. k + 1 /\ f + (k + 1) - 1 = f + k
    BY <1>2
  <2>2. t[k + 1] = [chunk |-> f + (k + 1) - 1, range |-> range]
    BY <1>1, <1>5, <2>1 DEF FirstPieces
  <2> QED
    BY <1>3, <2>1, <2>2
<1>9. t = Append(s, p)
  BY <1>2, <1>4, <1>6, <1>7, <1>8
<1> QED
  BY <1>1, <1>3, <1>4, <1>5, <1>9

\* The cuts of a range follow each other from its first byte to its last.
LEMMA CutIs ==
  ASSUME NEW range \in ByteRange, FitsIn(range), NEW k \in 0 .. span_chunks(range) - 1
  PROVE  /\ Cut(range, k) \in Nat /\ range.offset <= Cut(range, k)
         /\ Cut(range, k + 1) \in Nat /\ Cut(range, k) <= Cut(range, k + 1)
         /\ Cut(range, k) = Begin(first_chunk(range) + k, range)
         /\ Cut(range, k + 1) = End(first_chunk(range) + k, range)
<1>1. PICK f \in Nat, g \in Nat : f = first_chunk(range) /\ g = last_chunk(range)
                                  /\ span_chunks(range) = g - f + 1
  BY SpanIs
<1>2. PICK a \in Nat : a = range.offset
  BY WordAssumption DEF ByteRange, Word
<1>3. PICK u \in Nat : u = SlotBytes /\ u >= 1
  BY WordAssumption, ChunkRangeAssumption DEF Word
<1>4. PICK c \in Nat : c = f + k /\ f <= c /\ c <= g
  BY <1>1
<1>5. /\ Begin(c, range) \in Nat /\ End(c, range) \in Nat
      /\ Begin(c, range) < End(c, range)
      /\ c = f => Begin(c, range) = a
      /\ c > f => Begin(c, range) = c * u
  BY <1>1, <1>2, <1>3, <1>4, SegmentIs
<1>6. Cut(range, k + 1) = End(c, range)
  <2>1. k + 1 # 0 /\ f + (k + 1) - 1 = c
    BY <1>1, <1>4
  <2> QED
    BY <1>1, <2>1 DEF Cut
<1>7. Cut(range, k) = Begin(c, range)
  <2>1. CASE k = 0
    BY <1>2, <1>4, <1>5, <2>1 DEF Cut
  <2>2. CASE k # 0
    <3>1. PICK d \in Nat : d = c - 1 /\ f <= d /\ d < g /\ d + 1 = c
      BY <1>1, <1>4, <2>2
    <3>2. End(d, range) = (d + 1) * SlotBytes
      BY <1>1, <3>1, SegmentIs
    <3>3. Cut(range, k) = End(d, range)
      <4>1. f + k - 1 = d
        BY <1>1, <1>4, <3>1
      <4> QED
        BY <1>1, <2>2, <4>1 DEF Cut
    <3>4. c > f
      BY <1>1, <1>4, <2>2
    <3> QED
      BY <1>3, <1>5, <3>1, <3>2, <3>3, <3>4
  <2> QED
    BY <2>1, <2>2
<1>8. a <= Begin(c, range)
  <2>1. Begin(c, range) = a \/ Begin(c, range) = c * u
    BY <1>4, <1>5
  <2>2. Begin(c, range) = IF a > c * u THEN a ELSE c * u
    BY <1>2, <1>3 DEF Begin
  <2>3. c * u \in Nat
    BY <1>3
  <2> QED
    BY <2>2, <2>3
<1> QED
  BY <1>1, <1>2, <1>4, <1>5, <1>6, <1>7, <1>8

LEMMA LastCut ==
  ASSUME NEW range \in ByteRange, FitsIn(range)
  PROVE  Cut(range, span_chunks(range)) = range.offset + range.length
<1>1. PICK f \in Nat, g \in Nat : f = first_chunk(range) /\ g = last_chunk(range) /\ f <= g
                                  /\ span_chunks(range) = g - f + 1
  BY SpanIs
<1>2. g \in f .. g /\ g - f + 1 # 0 /\ f + (g - f + 1) - 1 = g
  BY <1>1
<1>3. End(g, range) = range.offset + range.length
  BY <1>1, <1>2, SegmentIs
<1> QED
  BY <1>1, <1>2, <1>3 DEF Cut

\* Behind what is shown already, the first k pieces of a range show its bytes in order.
RangeShown(pieces, range, k) ==
  /\ pieces \o FirstPieces(range, k) \in Seq(GoodPiece)
  /\ Shown(pieces \o FirstPieces(range, k)) = Shown(pieces) \o Run(range.offset, Cut(range, k))

LEMMA JoinedInOrder ==
  ASSUME NEW x \in Seq(Int), NEW y \in Seq(Int), NEW z \in Seq(Int)
  PROVE  (x \o y) \o z = x \o (y \o z)
  BY ConcatAssociative

LEMMA RangeShownNext ==
  ASSUME NEW pieces \in Seq(GoodPiece), Shown(pieces) \in Seq(Int),
         NEW range \in ByteRange, FitsIn(range), NEW k \in 0 .. span_chunks(range) - 1,
         RangeShown(pieces, range, k)
  PROVE  RangeShown(pieces, range, k + 1)
<1>1. PICK f \in Nat, n \in Nat : f = first_chunk(range) /\ n = span_chunks(range)
  BY SpanIs
<1>2. PICK p : p = [chunk |-> f + k, range |-> range]
  OBVIOUS
<1>3. p \in GoodPiece /\ FirstPieces(range, k + 1) = Append(FirstPieces(range, k), p)
  BY <1>1, <1>2, FirstPiecesNext
<1>4. PICK a \in Int, b \in Int, c \in Int :
        /\ a = range.offset /\ b = Cut(range, k) /\ c = Cut(range, k + 1)
        /\ a <= b /\ b <= c /\ Bytes(p) = Run(b, c)
  <2>1. range.offset \in Nat
    BY WordAssumption DEF ByteRange, Word
  <2>2. Bytes(p) = Run(Cut(range, k), Cut(range, k + 1))
    BY <1>1, <1>2, CutIs DEF Bytes
  <2> QED
    BY <2>1, <2>2, CutIs
<1>5. PICK s : s = FirstPieces(range, k) /\ s \in Seq(GoodPiece)
  <2>1. k \in 0 .. span_chunks(range)
    BY <1>1
  <2> QED
    BY <2>1, FirstPiecesType
<1>6. PICK q : q = pieces \o s /\ q \in Seq(GoodPiece)
  <2>1. pieces \o s \in Seq(GoodPiece)
    BY <1>5 DEF RangeShown
  <2> QED
    BY <2>1
<1>7. pieces \o Append(s, p) = Append(q, p)
  BY <1>3, <1>5, <1>6
<1>8. Shown(q) = Shown(pieces) \o Run(a, b)
  BY <1>4, <1>5, <1>6 DEF RangeShown
<1>9. Shown(Append(q, p)) = (Shown(pieces) \o Run(a, b)) \o Run(b, c)
  BY <1>3, <1>4, <1>6, <1>8, ShownAppend
<1>10. Run(a, b) \in Seq(Int) /\ Run(b, c) \in Seq(Int) /\ Run(a, b) \o Run(b, c) = Run(a, c)
  BY <1>4, RunIs, RunJoin
<1>11. Shown(Append(q, p)) = Shown(pieces) \o Run(a, c)
  <2>1. Shown(pieces) \in Seq(Int) /\ Run(a, b) \in Seq(Int) /\ Run(b, c) \in Seq(Int)
    BY <1>10
  <2>2. (Shown(pieces) \o Run(a, b)) \o Run(b, c) = Shown(pieces) \o (Run(a, b) \o Run(b, c))
    BY <2>1, JoinedInOrder
  <2> QED
    BY <1>9, <1>10, <2>2
<1>12. Append(q, p) \in Seq(GoodPiece)
  BY <1>3, <1>6
<1> QED
  BY <1>3, <1>4, <1>5, <1>7, <1>11, <1>12 DEF RangeShown

LEMMA RangeIsShown ==
  ASSUME NEW pieces \in Seq(GoodPiece), Shown(pieces) \in Seq(Int),
         NEW range \in ByteRange, FitsIn(range)
  PROVE  RangeShown(pieces, range, span_chunks(range))
<1>1. PICK n \in Nat : n = span_chunks(range)
  BY SpanIs
<1>2. RangeShown(pieces, range, 0)
  <2>1. FirstPieces(range, 0) \in Seq(GoodPiece) /\ Len(FirstPieces(range, 0)) = 0
    BY <1>1, FirstPiecesType
  <2>2. FirstPieces(range, 0) = <<>>
    <3>1. FirstPieces(range, 0) # <<>> => Len(FirstPieces(range, 0)) \in Nat \ {0}
      BY <2>1, EmptySeq
    <3> QED
      BY <2>1, <3>1
  <2>3. pieces \o <<>> = pieces /\ Shown(pieces) \o <<>> = Shown(pieces)
    BY ConcatEmptySeq
  <2>4. Run(range.offset, Cut(range, 0)) = <<>>
    <3>1. range.offset \in Int /\ Cut(range, 0) = range.offset
      BY WordAssumption DEF ByteRange, Word, Cut
    <3> QED
      BY <3>1, RunEmpty
  <2> QED
    BY <2>2, <2>3, <2>4 DEF RangeShown
<1>3. PICK T \in SUBSET Nat : T = {k \in Nat : k <= n /\ ~ RangeShown(pieces, range, k)}
  OBVIOUS
<1>4. CASE T = {}
  BY <1>1, <1>3, <1>4
<1>5. CASE T # {}
  <2>1. PICK k \in T : \A j \in 0 .. k - 1 : j \notin T
    BY <1>5, LeastNumber
  <2>2. k \in Nat /\ k <= n /\ ~ RangeShown(pieces, range, k)
    BY <1>3, <2>1
  <2>3. k # 0
    BY <1>2, <2>2
  <2>4. PICK j \in Nat : j = k - 1 /\ j + 1 = k /\ j \in 0 .. k - 1 /\ j <= n
                         /\ j \in 0 .. span_chunks(range) - 1
    BY <1>1, <2>2, <2>3
  <2>5. RangeShown(pieces, range, j)
    BY <1>3, <2>1, <2>4
  <2>6. RangeShown(pieces, range, j + 1)
    BY <2>4, <2>5, RangeShownNext
  <2> QED
    BY <2>2, <2>4, <2>6
<1> QED
  BY <1>4, <1>5

-----------------------------------------------------------------------------
(***************************************************************************)
(* The batch as a whole.                                                   *)
(***************************************************************************)
Asked(batch) ==
  FlattenSeq([i \in DOMAIN batch |->
    [k \in 1 .. batch[i].length |-> batch[i].offset + k - 1]])

BytesAsked(range) == [k \in 1 .. range.length |-> range.offset + k - 1]

LEMMA BytesAskedIs ==
  ASSUME NEW range \in ByteRange
  PROVE  /\ BytesAsked(range) = Run(range.offset, range.offset + range.length)
         /\ BytesAsked(range) \in Seq(Int)
<1>1. PICK a \in Nat, l \in Nat : a = range.offset /\ l = range.length
  BY WordAssumption DEF ByteRange, Word
<1>2. a + l - a = l /\ a <= a + l /\ a + l \in Int
  OBVIOUS
<1>3. Run(a, a + l) \in Seq(Int)
  BY <1>2, RunIs
<1>4. BytesAsked(range) = Run(a, a + l)
  BY <1>1, <1>2 DEF BytesAsked, Run
<1> QED
  BY <1>1, <1>3, <1>4

LEMMA AskedAppend ==
  ASSUME NEW batch \in Seq(ByteRange), NEW range \in ByteRange
  PROVE  Asked(Append(batch, range)) = Asked(batch) \o BytesAsked(range)
<1>1. PICK n \in Nat : n = Len(batch) /\ DOMAIN batch = 1 .. n
  OBVIOUS
<1>2. PICK longer : longer = Append(batch, range)
  OBVIOUS
<1>3. /\ DOMAIN longer = 1 .. n + 1 /\ longer[n + 1] = range
      /\ \A i \in 1 .. n : longer[i] = batch[i] /\ batch[i] \in ByteRange
  BY <1>1, <1>2
<1>4. PICK list : list = [i \in 1 .. n |-> BytesAsked(batch[i])]
  OBVIOUS
<1>5. list \in Seq(Seq(Int)) /\ Len(list) = n
  <2>1. \A i \in 1 .. n : BytesAsked(batch[i]) \in Seq(Int)
    BY <1>3, BytesAskedIs
  <2>2. list \in [1 .. n -> Seq(Int)]
    BY <1>4, <2>1
  <2> QED
    BY <2>2
<1>6. PICK x : x = BytesAsked(range) /\ x \in Seq(Int)
  BY BytesAskedIs
<1>7. PICK both : both = [i \in 1 .. n + 1 |-> BytesAsked(longer[i])]
  OBVIOUS
<1>8. both = Append(list, x)
  <2>1. both[n + 1] = x /\ \A i \in 1 .. n : both[i] = list[i]
    BY <1>3, <1>4, <1>6, <1>7
  <2>2. both \in Seq(Seq(Int)) /\ Len(both) = n + 1
    <3>1. \A i \in 1 .. n + 1 : longer[i] \in ByteRange
      <4>1. \A i \in 1 .. n + 1 : i \in 1 .. n \/ i = n + 1
        OBVIOUS
      <4> QED
        BY <1>3, <4>1
    <3>2. \A i \in 1 .. n + 1 : BytesAsked(longer[i]) \in Seq(Int)
      BY <3>1, BytesAskedIs
    <3>3. both \in [1 .. n + 1 -> Seq(Int)]
      BY <1>7, <3>2
    <3> QED
      BY <3>3
  <2> QED
    BY <1>5, <1>6, <2>1, <2>2
<1>9. FlattenSeq(both) = FlattenSeq(list) \o x
  BY <1>5, <1>6, <1>8, FlattenAppend
<1>10. Asked(batch) = FlattenSeq(list)
  BY <1>1, <1>4 DEF Asked, BytesAsked
<1>11. Asked(longer) = FlattenSeq(both)
  BY <1>3, <1>7 DEF Asked, BytesAsked
<1> QED
  BY <1>2, <1>6, <1>9, <1>10, <1>11

LEMMA AppendedIs ==
  ASSUME NEW S, NEW list \in Seq(S), NEW x \in S, NEW both \in Seq(S), NEW n \in Nat,
         Len(list) = n, Len(both) = n + 1, both[n + 1] = x,
         \A i \in 1 .. n : both[i] = list[i]
  PROVE  both = Append(list, x)
  OBVIOUS

LEMMA PiecesAppend ==
  ASSUME NEW batch \in Seq(ByteRange), NEW range \in ByteRange, AllFit(batch), FitsIn(range)
  PROVE  for_each_chunk(Append(batch, range))
           = for_each_chunk(batch) \o FirstPieces(range, span_chunks(range))
<1>1. PICK n \in Nat : n = Len(batch) /\ DOMAIN batch = 1 .. n
  OBVIOUS
<1>2. PICK longer : longer = Append(batch, range)
  OBVIOUS
<1>3. /\ DOMAIN longer = 1 .. n + 1 /\ longer[n + 1] = range
      /\ \A i \in 1 .. n : longer[i] = batch[i] /\ batch[i] \in ByteRange
  BY <1>1, <1>2
<1>4. \A r \in ByteRange : FitsIn(r) => FirstPieces(r, span_chunks(r)) \in Seq(GoodPiece)
  <2> SUFFICES ASSUME NEW r \in ByteRange, FitsIn(r)
               PROVE  FirstPieces(r, span_chunks(r)) \in Seq(GoodPiece)
    OBVIOUS
  <2>1. span_chunks(r) \in 0 .. span_chunks(r)
    BY SpanIs
  <2> QED
    BY <2>1, FirstPiecesType
<1>5. \A i \in 1 .. n : FitsIn(batch[i])
  BY <1>1 DEF AllFit
<1>6. PICK list : list = [i \in 1 .. n |-> FirstPieces(batch[i], span_chunks(batch[i]))]
  OBVIOUS
<1>7. list \in Seq(Seq(GoodPiece)) /\ Len(list) = n
  <2>1. list \in [1 .. n -> Seq(GoodPiece)]
    BY <1>3, <1>4, <1>5, <1>6
  <2> QED
    BY <2>1
<1>8. PICK x : x = FirstPieces(range, span_chunks(range)) /\ x \in Seq(GoodPiece)
  BY <1>4
<1>9. PICK both : both = [i \in 1 .. n + 1 |-> FirstPieces(longer[i], span_chunks(longer[i]))]
  OBVIOUS
<1>10. both = Append(list, x)
  <2>1. both[n + 1] = x /\ \A i \in 1 .. n : both[i] = list[i]
    BY <1>3, <1>6, <1>8, <1>9
  <2>2. both \in Seq(Seq(GoodPiece)) /\ Len(both) = n + 1
    <3>1. \A i \in 1 .. n + 1 : longer[i] \in ByteRange /\ FitsIn(longer[i])
      <4>1. \A i \in 1 .. n + 1 : i \in 1 .. n \/ i = n + 1
        OBVIOUS
      <4> QED
        BY <1>3, <1>5, <4>1
    <3>2. both \in [1 .. n + 1 -> Seq(GoodPiece)]
      BY <1>4, <1>9, <3>1
    <3> QED
      BY <3>2
  <2> QED
    BY <1>7, <1>8, <2>1, <2>2, AppendedIs
<1>11. FlattenSeq(both) = FlattenSeq(list) \o x
  BY <1>7, <1>8, <1>10, FlattenAppend
<1>12. for_each_chunk(batch) = FlattenSeq(list)
  BY <1>1, <1>6 DEF for_each_chunk, FirstPieces
<1>13. for_each_chunk(longer) = FlattenSeq(both)
  BY <1>3, <1>9 DEF for_each_chunk, FirstPieces
<1> QED
  BY <1>2, <1>8, <1>11, <1>12, <1>13

Tiles(batch) ==
  AllFit(batch) => /\ for_each_chunk(batch) \in Seq(GoodPiece)
                   /\ Len(for_each_chunk(batch)) = Counted(batch)
                   /\ Shown(for_each_chunk(batch)) \in Seq(Int)
                   /\ Shown(for_each_chunk(batch)) = Asked(batch)

TileInv == CheckInv /\ Tiles(ranges)

LEMMA TilesAppend ==
  ASSUME NEW batch \in Seq(ByteRange), NEW range \in ByteRange,
         Tiles(batch), AllFit(batch) => /\ IsFiniteSet(TouchedBy(batch, Len(batch)))
                                        /\ Counted(batch) \in Nat
  PROVE  Tiles(Append(batch, range))
<1> SUFFICES ASSUME AllFit(batch), FitsIn(range)
             PROVE  LET longer == Append(batch, range)
                    IN  /\ for_each_chunk(longer) \in Seq(GoodPiece)
                        /\ Len(for_each_chunk(longer)) = Counted(longer)
                        /\ Shown(for_each_chunk(longer)) \in Seq(Int)
                        /\ Shown(for_each_chunk(longer)) = Asked(longer)
  BY FitAppend DEF Tiles
<1>1. PICK n \in Nat : n = span_chunks(range)
  BY SpanIs
<1>2. PICK old : old = for_each_chunk(batch)
  OBVIOUS
<1>3. /\ old \in Seq(GoodPiece) /\ Len(old) = Counted(batch)
      /\ Shown(old) \in Seq(Int) /\ Shown(old) = Asked(batch)
  BY <1>2 DEF Tiles
<1>4. PICK new : new = FirstPieces(range, n) /\ new \in Seq(GoodPiece) /\ Len(new) = n
  <2>1. n \in 0 .. span_chunks(range)
    BY <1>1
  <2> QED
    BY <2>1, FirstPiecesType
<1>5. for_each_chunk(Append(batch, range)) = old \o new
  BY <1>1, <1>2, <1>4, PiecesAppend
<1>6. RangeShown(old, range, n)
  BY <1>1, <1>3, RangeIsShown
<1>7. old \o new \in Seq(GoodPiece) /\ Len(old \o new) = Len(old) + Len(new)
  BY <1>3, <1>4, ConcatProperties
<1>8. Counted(Append(batch, range)) = Counted(batch) + n
  BY <1>1, CountAppend
<1>9. PICK run : run = BytesAsked(range) /\ run \in Seq(Int)
                 /\ run = Run(range.offset, range.offset + range.length)
  BY BytesAskedIs
<1>10. Shown(old \o new) = Asked(batch) \o run
  BY <1>1, <1>3, <1>4, <1>6, <1>9, LastCut DEF RangeShown
<1>11. Asked(Append(batch, range)) = Asked(batch) \o run
  BY <1>9, AskedAppend
<1>12. Asked(batch) \o run \in Seq(Int)
  <2>1. Asked(batch) \in Seq(Int)
    BY <1>3
  <2> QED
    BY <1>9, <2>1, ConcatProperties
<1> QED
  BY <1>3, <1>4, <1>5, <1>7, <1>8, <1>10, <1>11, <1>12

LEMMA TileInit == RangesInit => TileInv
<1> SUFFICES ASSUME RangesInit PROVE Tiles(ranges)
  BY CheckInit DEF TileInv
<1>1. PICK batch : batch = ranges /\ batch = <<>>
  BY DEF RangesInit
<1>2. DOMAIN batch = {} /\ Len(batch) = 0
  BY <1>1
<1>3. PICK none : none = <<>>
  OBVIOUS
<1>4. \A f : DOMAIN f = {} /\ f = [i \in {} |-> f[i]] => f = none
  <2> SUFFICES ASSUME NEW f, f = [i \in {} |-> f[i]] PROVE f = <<>>
    BY <1>3
  <2>1. <<>> = [i \in {} |-> f[i]]
    OBVIOUS
  <2> QED
    BY <2>1
<1>5. for_each_chunk(batch) = none /\ Asked(batch) = none
  <2>1. [i \in DOMAIN batch |-> [j \in 1 .. span_chunks(batch[i]) |->
           [chunk |-> first_chunk(batch[i]) + j - 1, range |-> batch[i]]]] = <<>>
    BY <1>2
  <2>2. [i \in DOMAIN batch |-> [k \in 1 .. batch[i].length |-> batch[i].offset + k - 1]] = <<>>
    BY <1>2
  <2> QED
    BY <1>3, <2>1, <2>2, FlattenEmpty DEF for_each_chunk, Asked
<1>6. Shown(none) = none
  <2>1. DOMAIN none = {}
    BY <1>3
  <2>2. [i \in DOMAIN none |-> Bytes(none[i])] = <<>>
    BY <2>1
  <2> QED
    BY <1>3, <2>2, FlattenEmpty DEF Shown
<1>7. none \in Seq(GoodPiece) /\ none \in Seq(Int) /\ Len(none) = 0
  BY <1>3
<1>8. Counted(batch) = 0
  <2>1. TouchedBy(batch, 0) = {}
    <3>1. \A i \in 1 .. 0 : FALSE
      OBVIOUS
    <3> QED
      BY <3>1, TouchedByIs
  <2> QED
    BY <1>2, <2>1, FS_EmptySet DEF Counted
<1> QED
  BY <1>1, <1>5, <1>6, <1>7, <1>8 DEF Tiles

LEMMA TileStep == TileInv /\ [RangesNext]_ranges => TileInv'
<1> SUFFICES ASSUME TileInv, [RangesNext]_ranges PROVE Tiles(ranges)'
  BY CheckStep DEF TileInv
<1>1. CASE UNCHANGED ranges
  BY <1>1 DEF TileInv
<1>2. CASE RangesNext
  <2>1. PICK range \in ByteRange : ranges' = Append(ranges, range)
    BY <1>2 DEF RangesNext, Declare
  <2>2. PICK batch : batch = ranges
    OBVIOUS
  <2>3. batch \in Seq(ByteRange) /\ Tiles(batch) /\ Accepts(Validated(batch), batch)
    BY <2>2 DEF TileInv, CheckInv
  <2>4. AllFit(batch) => /\ IsFiniteSet(TouchedBy(batch, Len(batch)))
                         /\ Counted(batch) \in Nat
    BY <2>3 DEF Accepts
  <2>5. Tiles(Append(batch, range))
    BY <2>3, <2>4, TilesAppend
  <2>6. Tiles(ranges)' <=> Tiles(Append(batch, range))
    BY <2>1, <2>2
  <2> QED
    BY <2>5, <2>6
<1> QED
  BY <1>1, <1>2

LEMMA TileAlways == RangesSpec => []TileInv
BY TileInit, TileStep, PTL DEF RangesSpec

LEMMA PieceStaysInside ==
  ASSUME NEW p \in GoodPiece
  PROVE  /\ Segment(p.chunk, p.range) \subseteq Fill(p.chunk)
         /\ Fill(p.chunk) \subseteq 0 .. SourceBytes - 1
         /\ Cardinality(Fill(p.chunk)) <= SlotBytes
<1>1. PICK c, r : c = p.chunk /\ r = p.range
  OBVIOUS
<1>2. r \in ByteRange /\ FitsIn(r) /\ c \in first_chunk(r) .. last_chunk(r)
  BY <1>1 DEF GoodPiece
<1>3. PICK n \in Nat, u \in Nat : n = SourceBytes /\ u = SlotBytes
  BY WordAssumption, ChunkRangeAssumption DEF Word
<1>4. PICK b \in Nat, e \in Nat, w \in Nat, x \in Nat :
        /\ b = Begin(c, r) /\ e = End(c, r) /\ w = chunk_length(c) /\ x = c * SlotBytes
        /\ w <= u /\ x + w <= n /\ x <= b /\ e <= x + w
  BY <1>2, <1>3, SegmentIs
<1>5. Segment(c, r) = b .. e - 1 /\ Fill(c) = x .. x + w - 1
  BY <1>4 DEF Segment, Fill
<1>6. Cardinality(x .. x + w - 1) <= u
  <2>1. PICK y \in Int : y = x + w - 1
    OBVIOUS
  <2>2. Cardinality(x .. y) = IF x > y THEN 0 ELSE y - x + 1
    BY FS_Interval
  <2>3. x > y => Cardinality(x .. y) = 0
    BY <2>2
  <2>4. ~ (x > y) => Cardinality(x .. y) = w
    BY <2>1, <2>2
  <2>5. Cardinality(x .. y) <= u
    BY <1>4, <2>1, <2>3, <2>4
  <2> QED
    BY <2>1, <2>5
<1>7. b .. e - 1 \subseteq x .. x + w - 1 /\ x .. x + w - 1 \subseteq 0 .. n - 1
  BY <1>4
<1> QED
  BY <1>1, <1>3, <1>5, <1>6, <1>7

LEMMA TilesAreSegments == TileInv => SegmentsTile
<1> SUFFICES ASSUME TileInv, validate_batch(ranges) = "ok"
             PROVE  LET pieces == for_each_chunk(ranges)
                    IN  /\ Len(pieces) = Validated(ranges).chunks
                        /\ Shown(pieces) = Asked(ranges)
                        /\ \A i \in DOMAIN pieces :
                             /\ Segment(pieces[i].chunk, pieces[i].range) \subseteq Fill(pieces[i].chunk)
                             /\ Fill(pieces[i].chunk) \subseteq 0 .. SourceBytes - 1
                             /\ Cardinality(Fill(pieces[i].chunk)) <= SlotBytes
  BY DEF SegmentsTile, Shown, Asked, Bytes, Run
<1>1. PICK pieces : pieces = for_each_chunk(ranges)
  OBVIOUS
<1>2. Validated(ranges).status = "ok"
  BY DEF validate_batch
<1>3. AllFit(ranges) /\ Validated(ranges).chunks = Counted(ranges)
  BY <1>2 DEF TileInv, CheckInv, Accepts
<1>4. pieces \in Seq(GoodPiece) /\ Len(pieces) = Counted(ranges) /\ Shown(pieces) = Asked(ranges)
  BY <1>1, <1>3 DEF TileInv, Tiles
<1>5. \A i \in DOMAIN pieces : pieces[i] \in GoodPiece
  BY <1>4
<1> QED
  BY <1>1, <1>3, <1>4, <1>5, PieceStaysInside

\* The leases of an accepted batch show exactly the bytes of its ranges, in order, each
\* inside what the fill of its chunk brings in, for every source, slot and word.
THEOREM SegmentsAlwaysTile == RangesSpec => []SegmentsTile
BY TileAlways, TilesAreSegments, PTL

=============================================================================
