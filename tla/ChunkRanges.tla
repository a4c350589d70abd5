----------------------------- MODULE ChunkRanges -----------------------------
(***************************************************************************)
(* How SlotPool cuts a batch of byte ranges into chunks: validate_batch,   *)
(* for_each_chunk, chunk_length and the segment make_lease shows, in       *)
(* unsigned words that wrap.  A caller declares the batch range by range.  *)
(***************************************************************************)
EXTENDS ByteRanges, SequencesExt

CONSTANTS
  SourceBytes,      \* config.source_bytes
  SlotBytes,        \* config.slot_bytes
  MaxBatchChunks,   \* config.max_batch_chunks
  MaxRanges         \* how many ranges a batch may have here

ASSUME ChunkRangeAssumption == /\ SourceBytes \in Word \ {0}
                               /\ SlotBytes \in Word \ {0}
                               /\ MaxBatchChunks \in Word \ {0}
                               /\ MaxRanges \in Nat

VARIABLE ranges     \* the batch a caller passes

RangesInit == ranges = <<>>

Declare(range) ==
  /\ Len(ranges) < MaxRanges
  /\ ranges' = Append(ranges, range)

RangesNext == \E range \in ByteRange : Declare(range)

-----------------------------------------------------------------------------
Wrap(n) == n % WordMod

first_chunk(range) == range.offset \div SlotBytes

last_chunk(range) == Wrap(range.offset + range.length - 1) \div SlotBytes

span_chunks(range) == Wrap(last_chunk(range) - first_chunk(range) + 1)

\* One turn of validate_batch's loop: the first failure stays.
ValidateNext(acc, range) ==
  LET valid == validate_range(range, SourceBytes)
  IN  IF acc.status # "ok" THEN acc
      ELSE IF valid # "ok" THEN [acc EXCEPT !.status = valid]
      ELSE IF span_chunks(range) > Wrap(MaxBatchChunks - acc.chunks)
      THEN [acc EXCEPT !.status = "batch_too_large"]
      ELSE [acc EXCEPT !.chunks = @ + span_chunks(range)]

Validated(batch) == FoldLeft(ValidateNext, [status |-> "ok", chunks |-> 0], batch)

validate_batch(batch) ==
  IF Validated(batch).status = "ok" /\ Validated(batch).chunks = 0 THEN "empty_range"
  ELSE Validated(batch).status

\* The (chunk, range) pairs of a valid batch, in the order fn is called.
for_each_chunk(batch) ==
  FlattenSeq([i \in DOMAIN batch |->
    [j \in 1 .. span_chunks(batch[i]) |->
       [chunk |-> first_chunk(batch[i]) + j - 1, range |-> batch[i]]]])

Fault_FullSlot(chunk) == SlotBytes

chunk_length(chunk) ==
  LET left == SourceBytes - chunk * SlotBytes
  IN  IF SlotBytes < left THEN SlotBytes ELSE left

\* The bytes a lease shows, and those the fill of its chunk brings in.
Begin(chunk, range) ==
  IF range.offset > chunk * SlotBytes THEN range.offset ELSE chunk * SlotBytes

End(chunk, range) ==
  LET stop == chunk * SlotBytes + chunk_length(chunk)
  IN  IF range.offset + range.length < stop THEN range.offset + range.length ELSE stop

Segment(chunk, range) == Begin(chunk, range) .. End(chunk, range) - 1
Fill(chunk) == chunk * SlotBytes .. chunk * SlotBytes + chunk_length(chunk) - 1

-----------------------------------------------------------------------------
(***************************************************************************)
(* Properties.                                                             *)
(***************************************************************************)

\* The bytes a range names, and the chunks they lie in.
BytesOf(range) == range.offset .. range.offset + range.length - 1
Touched(range) == {b \div SlotBytes : b \in BytesOf(range)}

\* The chunks the first n ranges touch, counted once per range.
TouchedUpTo(n) == UNION {{i} \X Touched(ranges[i]) : i \in 1 .. n}

Fits(i) == BytesOf(ranges[i]) # {} /\ BytesOf(ranges[i]) \subseteq 0 .. SourceBytes - 1

\* validate_batch accepts exactly the batches whose ranges lie inside the source, are
\* not empty and touch no more chunks than a batch may have; a range that would wrap
\* past the largest word is out of range, never a small one.
BatchCheckExact ==
  validate_batch(ranges) = "ok" <=>
    /\ ranges # <<>>
    /\ \A i \in DOMAIN ranges : Fits(i)
    /\ Cardinality(TouchedUpTo(Len(ranges))) <= MaxBatchChunks

\* The leases of an accepted batch, one after the other, show exactly the bytes of its
\* ranges in order, each inside what the fill of its chunk brings in, and no fill
\* reaches outside the source or its slot.
SegmentsTile ==
  validate_batch(ranges) = "ok" =>
    LET pieces == for_each_chunk(ranges)
        asked == FlattenSeq([i \in DOMAIN ranges |->
                   [k \in 1 .. ranges[i].length |-> ranges[i].offset + k - 1]])
        shown == FlattenSeq([i \in DOMAIN pieces |->
                   LET c == pieces[i].chunk
                       r == pieces[i].range
                   IN  [k \in 1 .. End(c, r) - Begin(c, r) |-> Begin(c, r) + k - 1]])
    IN  /\ Len(pieces) = Validated(ranges).chunks
        /\ shown = asked
        /\ \A i \in DOMAIN pieces :
             /\ Segment(pieces[i].chunk, pieces[i].range) \subseteq Fill(pieces[i].chunk)
             /\ Fill(pieces[i].chunk) \subseteq 0 .. SourceBytes - 1
             /\ Cardinality(Fill(pieces[i].chunk)) <= SlotBytes

=============================================================================
