----------------------------- MODULE ByteRanges -----------------------------
(***************************************************************************)
(* Byte ranges of transfer.hpp in unsigned words of a fixed width: a range *)
(* that ends past the largest word has no end, rather than a wrapped one.  *)
(***************************************************************************)
EXTENDS Integers

CONSTANT WordMod    \* words are 0 .. WordMod - 1 (2^64 in the code)

ASSUME WordAssumption == WordMod \in Nat \ {0}

Word == 0 .. WordMod - 1
ByteRange == [offset : Word, length : Word]

NoEnd == -1         \* std::nullopt

Fault_WrappedEnd(offset, length) == (offset + length) % WordMod

checked_end(offset, length) ==
  IF length > WordMod - 1 - offset THEN NoEnd ELSE offset + length

validate_range(range, extent) ==
  LET end == checked_end(range.offset, range.length)
  IN  IF range.length = 0 THEN "empty_range"
      ELSE IF end # NoEnd /\ end <= extent THEN "ok"
      ELSE "out_of_range"

=============================================================================
