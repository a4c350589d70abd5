----------------------------- MODULE RowWindows -----------------------------
(***************************************************************************)
(* The arithmetic of read_shootout.cpp: the rows main may ask for and the  *)
(* slot each is read into, the aligned window an unbuffered read widens a  *)
(* row to, the pieces a strategy cuts a window into, and the requests,     *)
(* claims and queue entries it set aside for them when it was opened.      *)
(***************************************************************************)
EXTENDS Integers, Sequences

CONSTANTS
  KAlign,        \* kAlign
  NarrowMod,     \* 2^32: an int, a std::uint32_t, a DWORD and a UINT32 have 32 bits
  MaxIocpChunk,  \* the longest piece IocpRead cuts, 2^30 in the code
  MaxRowBytes,   \* the largest --row-bytes here
  MaxChunkBytes, \* the largest --chunk-kib here, in bytes
  MaxFileBytes   \* the largest file here

\* IocpRead clamps its pieces to a number of whole units that a DWORD holds.
ASSUME WindowAssumption ==
  /\ KAlign \in Nat \ {0} /\ NarrowMod \in Nat \ {0}
  /\ MaxIocpChunk \in Nat \ {0} /\ MaxIocpChunk % KAlign = 0 /\ MaxIocpChunk < NarrowMod
  /\ MaxRowBytes \in Nat \ {0} /\ MaxChunkBytes \in Nat /\ MaxFileBytes \in Nat

VARIABLES
  options,       \* row_bytes, chunk_bytes and the size of the file
  arm,           \* the strategy that reads, and whether it bypasses the page cache
  row            \* the row main asks for next, -1 before the first

windowVars == <<options, arm, row>>

Arm == [name : {"inline", "pool", "mempage", "ioring"}, unbuffered : BOOLEAN]
         \union [name : {"iocp"}, unbuffered : {TRUE}]

\* main gives up on a file that has no room for one row and two alignment units.
LargeEnough(o) == o.file >= o.row + 2 * KAlign

WindowInit ==
  /\ options \in {o \in [row : 1 .. MaxRowBytes, chunk : 0 .. MaxChunkBytes,
                         file : 0 .. MaxFileBytes] : LargeEnough(o)}
  /\ arm \in Arm
  /\ row = -1

\* What a conversion to an unsigned and to a signed word of 32 bits keeps.  A word of 64
\* bits (std::size_t, the size of the file) is a number here: no file has 2^63 bytes, main's
\* vector of a row that long throws, and a chunk so long that a sum wraps leaves one piece.
Narrow(n) == n % NarrowMod
Signed(n) == IF 2 * Narrow(n) < NarrowMod THEN Narrow(n) ELSE Narrow(n) - NarrowMod

rows == Signed((options.file - 2 * KAlign) \div options.row)

\* The order of the rows is shuffled: any may be next.
AskFor(r) == r \in 0 .. rows - 1 /\ row' = r /\ UNCHANGED <<options, arm>>

WindowNext == \E r \in 0 .. MaxFileBytes : AskFor(r)

-----------------------------------------------------------------------------
round_up(v, a) == ((v + a - 1) \div a) * a

Larger(a, b) == IF a > b THEN a ELSE b
Smaller(a, b) == IF a < b THEN a ELSE b

stride == round_up(options.row + 2 * KAlign, KAlign)

\* The offset of a row in the file, as main computes it.
Offset(r) == r * options.row

aligned_window(off, len) ==
  LET begin == (off \div KAlign) * KAlign
      head == off - begin
  IN  [offset |-> begin, length |-> round_up(head + len, KAlign), head |-> head]

Window(r) ==
  IF arm.unbuffered THEN aligned_window(Offset(r), options.row)
  ELSE [offset |-> Offset(r), length |-> options.row, head |-> 0]

-----------------------------------------------------------------------------
(***************************************************************************)
(* What each strategy makes of a window.  The length it cuts at:           *)
(***************************************************************************)
WholeUnits == (options.chunk \div KAlign) * KAlign

PoolChunk == Larger(KAlign, WholeUnits)
Fault_Unclamped == Larger(KAlign, WholeUnits)
IocpChunk == Smaller(Larger(KAlign, WholeUnits), MaxIocpChunk)
MemPageChunk == IF arm.unbuffered THEN Larger(KAlign, WholeUnits) ELSE Larger(1, options.chunk)
IoRingChunk == Larger(KAlign, WholeUnits)

\* The loop all four cut with: for (at = 0; at < w.length; at += chunk_).
CutInto(w, c) ==
  [i \in 1 .. (w.length + c - 1) \div c |->
     [at |-> (i - 1) * c, len |-> Smaller(c, w.length - (i - 1) * c)]]

\* How much of a piece the row needs: an unbuffered tail may run past the end of the file.
Need(w, p) ==
  Smaller(p.len, IF w.head + options.row > p.at THEN w.head + options.row - p.at ELSE 0)

InlineRead(w) == <<[at |-> 0, len |-> w.length, need |-> w.head + options.row]>>

PoolTasks(w) ==
  LET p == CutInto(w, PoolChunk)
  IN  [i \in DOMAIN p |-> [at |-> p[i].at, len |-> p[i].len, need |-> Need(w, p[i])]]

\* A DWORD of the length goes to ReadFile, a UINT32 to BuildIoRingReadFile.
IocpRequests(w) ==
  LET p == CutInto(w, IocpChunk) IN [i \in DOMAIN p |-> [p[i] EXCEPT !.len = Narrow(@)]]

MemPageClaims(w) == CutInto(w, MemPageChunk)

IoRingReads(w) ==
  LET p == CutInto(w, IoRingChunk) IN [i \in DOMAIN p |-> [p[i] EXCEPT !.len = Narrow(@)]]

\* Strategy::read.
Pieces(w) ==
  CASE arm.name = "inline" -> InlineRead(w)
    [] arm.name = "pool" -> PoolTasks(w)
    [] arm.name = "iocp" -> IocpRequests(w)
    [] arm.name = "mempage" -> MemPageClaims(w)
    [] arm.name = "ioring" -> IoRingReads(w)

\* What open sets aside: IocpRead's requests_; IoRing's submission and completion queues;
\* the claims (and the backend's queue) of MemPageRead.  submitted is IoRing's count.
requests == (round_up(options.row + KAlign - 1, KAlign) + IocpChunk - 1) \div IocpChunk

entries == Narrow(round_up(options.row \div IoRingChunk + 2, 8))
completions == Narrow(entries * 2)
submitted(w) == Narrow(Len(IoRingReads(w)))

chunks == Narrow((options.row + 2 * KAlign + MemPageChunk - 1) \div MemPageChunk)
max_claims == Narrow(chunks + 4)

-----------------------------------------------------------------------------
(***************************************************************************)
(* Properties.                                                             *)
(***************************************************************************)

\* The comment at rows: "aligned windows stay in the file".  They also stay in their
\* slot, and an unbuffered window keeps the alignment the device asks for.
WindowFits(w) ==
  /\ w.offset + w.length <= options.file
  /\ w.length <= stride /\ stride % KAlign = 0
  /\ arm.unbuffered => w.offset % KAlign = 0 /\ w.length % KAlign = 0

\* The pieces lie side by side, together they are the window, and an unbuffered one keeps
\* the alignment.  Where a strategy asks less of a piece than its length (407-409, 505) the
\* bytes it asks for are, one piece after the other, exactly those up to the end of the row.
PiecesTile(w) ==
  LET p == Pieces(w)
      n == Len(p)
  IN  /\ p[1].at = 0 /\ p[n].at + p[n].len = w.length
      /\ \A i \in 1 .. n - 1 : p[i + 1].at = p[i].at + p[i].len
      /\ arm.unbuffered => \A i \in 1 .. n : p[i].at % KAlign = 0 /\ p[i].len % KAlign = 0
      /\ arm.name \in {"inline", "pool"} =>
           UNION {p[i].at .. p[i].at + p[i].need - 1 : i \in 1 .. n}
             = 0 .. w.head + options.row - 1

\* A strategy never runs out of the requests, ring entries or claims it set aside, and
\* IoRing waits for as many completions as it queued reads.
CapacitySuffices(w) ==
  LET n == Len(Pieces(w))
  IN  /\ arm.name = "iocp" => n <= requests
      /\ arm.name = "ioring" => n <= entries /\ n <= completions /\ n = submitted(w)
      /\ arm.name = "mempage" => n <= max_claims

\* Where 32 bits hold what open and read convert to them: the longest piece and the doubled
\* ring of IoRing, which cuts at any --chunk-kib, and the claims of MemPageRead, which cuts
\* at one byte for --chunk-kib 0.  The other arms need no such bound.
FitsNarrow ==
  /\ arm.name = "ioring" =>
       /\ Smaller(IoRingChunk, options.row + 2 * KAlign) < NarrowMod
       /\ 2 * round_up(options.row \div IoRingChunk + 2, 8) < NarrowMod
  /\ arm.name = "mempage" =>
       (options.row + 2 * KAlign + MemPageChunk - 1) \div MemPageChunk + 4 < NarrowMod

\* Every row main may ask for is covered by a window of the file that fits its slot.  The
\* pieces tile the window and fit what the strategy set aside: for IocpRead, whose clamp
\* keeps a length within a DWORD, the pool and the inline arm at every row and chunk size,
\* for MemPageRead and IoRing as long as their counts and lengths fit 32 bits.
RowsCovered ==
  row # -1 => LET w == Window(row)
              IN  WindowFits(w) /\ (FitsNarrow => PiecesTile(w) /\ CapacitySuffices(w))

=============================================================================
