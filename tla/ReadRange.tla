------------------------------ MODULE ReadRange ------------------------------
(***************************************************************************)
(* How LocalFileBackend::perform reads one request: the read_range loop    *)
(* over positional reads that may come back short, and, for an uncached    *)
(* file, whole blocks in place and the last partial block through the      *)
(* worker's scratch.  A read that is interrupted (EINTR) is repeated as it *)
(* was, a step that changes nothing.                                       *)
(***************************************************************************)
EXTENDS Transfer

CONSTANTS
  FileSizes,      \* the sizes a file may have
  Offsets,        \* the source offsets of requests
  Lengths,        \* the destination sizes of requests
  Addresses,      \* where a destination may begin
  Block,          \* kUncachedAlignment
  ReadCap,        \* the most one read asks for (1 GiB on Windows, no cap elsewhere)
  None            \* a destination byte nothing was written to

ASSUME ReadAssumption ==
  /\ FileSizes \subseteq Nat /\ Offsets \subseteq Nat /\ Addresses \subseteq Nat
  /\ Lengths \subseteq Nat \ {0}
  /\ Block \in Nat \ {0}
  /\ ReadCap \in Nat \ {0} /\ ReadCap % Block = 0

VARIABLES
  size,           \* the file's size
  recorded,       \* its size when register_file recorded it
  request,        \* source_offset, destination size and address, access mode
  phase,          \* where perform is
  total,          \* bytes read in place so far
  tail,           \* bytes of the scratch read so far
  dst,            \* the file byte each destination byte holds, or None
  status,         \* status
  issued,         \* the last read asked of the system: position, count, address
  result          \* what was delivered, None before

readVars == <<size, recorded, request, phase, total, tail, dst, status, issued, result>>

Request == [offset : Offsets, length : Lengths, address : Addresses,
            access : {"buffered", "uncached"}]
Nothing == [into |-> "destination", position |-> 0, count |-> 0, address |-> 0]

Uncached == request.access = "uncached"
Least(a, b) == IF a < b THEN a ELSE b

ReadInit ==
  /\ size \in FileSizes /\ recorded \in FileSizes
  /\ request \in Request
  /\ phase = "begin" /\ total = 0 /\ tail = 0 /\ status = "ok"
  /\ dst = [i \in 0 .. request.length - 1 |-> None]
  /\ issued = Nothing
  /\ result = None

uncached_request_valid ==
  /\ request.offset % Block = 0
  /\ request.address % Block = 0
  /\ request.length % Block = 0 \/ request.offset + request.length >= recorded

\* What is read straight into the destination.
Fault_AllInPlace == request.length

InPlace == IF Uncached THEN (request.length \div Block) * Block ELSE request.length

Deliver(res) ==
  /\ result' = res
  /\ phase' = "done"
  /\ UNCHANGED <<size, recorded, request, total, tail, dst, status, issued>>

Refuse ==
  /\ phase = "begin" /\ Uncached /\ ~uncached_request_valid
  /\ Deliver([status |-> "invalid_argument", bytes |-> 0])

Start ==
  /\ phase = "begin"
  /\ Uncached => uncached_request_valid
  /\ phase' = "in_place"
  /\ UNCHANGED <<size, recorded, request, total, tail, dst, status, issued, result>>

(***************************************************************************)
(* What the system may return for a read of count bytes at position: zero  *)
(* at or past the end, else any part of what there is; an uncached read    *)
(* stops short only at the end of the file or of a block.                  *)
(***************************************************************************)
Counts(position, count) ==
  LET there == IF position >= size THEN 0 ELSE Least(count, size - position)
  IN  IF there = 0 THEN {0}
      ELSE {n \in 1 .. there : Uncached => n = there \/ n % Block = 0}

\* The read_range loop stops: nothing left, end of file, or, uncached, a short read.
Fault_ShortIsEof(got, asked, left) == got < asked \/ left = 0
Fault_NoEof(got, asked, left) == (Uncached /\ got < asked) \/ left = 0

Stops(got, asked, left) ==
  \/ got = 0
  \/ Uncached /\ got < asked
  \/ left = 0

Position == request.offset + total

\* One read of the in-place part: the rest of it, as far as ReadCap allows.
ReadInPlace ==
  LET asked == Least(InPlace - total, ReadCap)
  IN  /\ phase = "in_place" /\ total < InPlace
      /\ issued' = [into |-> "destination", position |-> Position, count |-> asked,
                     address |-> request.address + total]
      /\ \E got \in Counts(Position, asked) :
           /\ dst' = [i \in DOMAIN dst |-> IF i \in total .. total + got - 1
                                           THEN Position + (i - total) ELSE dst[i]]
           /\ total' = total + got
           /\ phase' = IF Stops(got, asked, InPlace - total - got) THEN "read" ELSE phase
      /\ UNCHANGED <<size, recorded, request, tail, status, result>>

\* Nothing to read in place: a request shorter than a block.
SkipInPlace ==
  /\ phase = "in_place" /\ total = InPlace
  /\ phase' = "read"
  /\ UNCHANGED <<size, recorded, request, total, tail, dst, status, issued, result>>

\* A failed read ends the loop; what came before it still counts.
ReadError ==
  /\ phase \in {"in_place", "tail"}
  /\ phase = "in_place" => total < InPlace
  /\ status' = "io_error"
  /\ phase' = IF phase = "tail" THEN "copy" ELSE "deliver"
  /\ UNCHANGED <<size, recorded, request, total, tail, dst, issued, result>>

\* The in-place part came back whole and a partial block remains.
BeginTail ==
  /\ phase = "read"
  /\ phase' = IF total = InPlace /\ InPlace < request.length THEN "tail" ELSE "deliver"
  /\ UNCHANGED <<size, recorded, request, total, tail, dst, status, issued, result>>

\* As much of the scratch as the destination has room for.
TailCount(got) == Least(got, request.length - InPlace)

\* The scratch is one aligned block: its address counts as zero.
ReadTail ==
  LET position == request.offset + InPlace + tail
      asked == Least(Block - tail, ReadCap)
  IN  /\ phase = "tail"
      /\ issued' = [into |-> "scratch", position |-> position, count |-> asked,
                     address |-> tail]
      /\ \E got \in Counts(position, asked) :
           /\ tail' = tail + got
           /\ phase' = IF Stops(got, asked, Block - tail - got) THEN "copy" ELSE phase
      /\ UNCHANGED <<size, recorded, request, total, dst, status, result>>

CopyTail ==
  /\ phase = "copy"
  /\ dst' = [i \in DOMAIN dst |-> IF i \in InPlace .. InPlace + TailCount(tail) - 1
                                  THEN request.offset + i ELSE dst[i]]
  /\ total' = total + TailCount(tail)
  /\ phase' = "deliver"
  /\ UNCHANGED <<size, recorded, request, tail, status, issued, result>>

Report == phase = "deliver" /\ Deliver([status |-> status, bytes |-> total])

Step == \/ Refuse \/ Start \/ ReadInPlace \/ SkipInPlace
        \/ BeginTail \/ ReadTail \/ CopyTail \/ Report

ReadNext == Step \/ ReadError

\* A worker keeps going and a read is not interrupted for ever; none has to fail.
ReadFairness == WF_readVars(Step)

-----------------------------------------------------------------------------
(***************************************************************************)
(* Properties.                                                             *)
(***************************************************************************)

\* Every read asked of the system stays inside the destination or the scratch, and one
\* of an uncached file has an aligned position, count and address: the system refuses
\* any other.
ReadsAreLegal ==
  /\ issued.address + issued.count <=
       (IF issued.into = "scratch" THEN Block ELSE request.address + request.length)
  /\ Uncached => /\ issued.position % Block = 0
                 /\ issued.count % Block = 0
                 /\ issued.address % Block = 0

\* The bytes a delivery counts are the source's, in place: a partial block that went
\* through the scratch and a read that came back short included.  And a buffered read
\* that met no error counts every byte there is: only the end of the file shortens it.
CountIsHonest ==
  result # None =>
    /\ \A i \in 0 .. result.bytes - 1 : dst[i] = request.offset + i
    /\ ~Uncached /\ status = "ok" =>
         result.bytes = IF request.offset >= size THEN 0
                        ELSE Least(request.length, size - request.offset)

\* Every request perform begins with is answered, however its reads come back.
Answered == phase = "begin" ~> result # None

=============================================================================
