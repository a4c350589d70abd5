----------------------------- MODULE MemPageRead -----------------------------
(***************************************************************************)
(* MemPageRead in read_shootout.cpp: the library as shipped.  Each piece   *)
(* of a row is a claim of one TransferSet over all the slots; read submits *)
(* them all, waits for each, and drops them.  A piece is one unit of       *)
(* TransferSet's bytes.                                                    *)
(*                                                                         *)
(* submit cannot be refused here (NeverRefused), so its early return has   *)
(* no step; nor can drain find a fill in flight.                           *)
(***************************************************************************)
EXTENDS ReadDriver

CONSTANT GenMod      \* TransferSet's generations wrap here

ASSUME MemPageAssumption == GenMod \in Nat \ {0, 1} /\ None # "main"

VARIABLES
  mempage,           \* read's locals: pc, the piece it is at, ok
  records, free, live, liveAt, held, inFlight, mutex, call, claims, requests, late

setVars == <<records, free, live, liveAt, held, inFlight, mutex, call, claims, requests,
             late>>

\* chunks + 4, of which the 4 are to spare.
Fault_OneTooFew == NumPieces - 1

max_claims == NumPieces

\* What LocalFileBackend may answer.
Answers == {[status |-> "ok", bytes |-> 1], [status |-> "ok", bytes |-> 0],
            [status |-> "io_error", bytes |-> 0]}

T == INSTANCE TransferSet WITH
       Threads <- {"main"}, WordMod <- 2 * Misses * KSlots * NumPieces,
       SourceBytes <- Misses * NumPieces, DestinationBytes <- KSlots * NumPieces,
       MaxClaims <- max_claims, Submissions <- {}, FillResults <- Answers,
       MaxDuplicates <- 0

NoRead == [pc |-> "out", part |-> 1, ok |-> TRUE]

MemPageInit == T!Init /\ mempage = NoRead

MemPageOpen == Open("mempage") /\ UNCHANGED <<setVars, mempage, contents>>

MemPageAsk ==
  /\ Ask("mempage")
  /\ mempage' = [NoRead EXCEPT !.pc = "submitting"]
  /\ UNCHANGED <<setVars, contents>>

\* The claim of piece p.
ClaimOf(p) == CHOOSE c \in claims : c.destination = Destination(miss, p)

Unit(m, p) == [offset |-> Source(m, p), length |-> 1]

SubmitPiece ==
  /\ mempage.pc = "submitting"
  /\ T!Submit("main", Unit(miss, mempage.part), Destination(miss, mempage.part))
  /\ UNCHANGED <<driverVars, mempage>>

ClaimPiece ==
  /\ T!RecordClaim("main")
  /\ mempage' = IF mempage.part = NumPieces
                THEN [mempage EXCEPT !.pc = "waiting", !.part = 1]
                ELSE [mempage EXCEPT !.part = @ + 1]
  /\ UNCHANGED driverVars

\* Every claim is waited for, a failed one too.
Fault_LeaveOnFailure(p) ==
  IF records[ClaimOf(p).record].state = "completed" /\ p < NumPieces
  THEN [mempage EXCEPT !.part = @ + 1]
  ELSE [mempage EXCEPT !.pc = "clearing", !.ok = records[ClaimOf(p).record].state = "completed"]

Waited(p) ==
  LET ok == mempage.ok /\ records[ClaimOf(p).record].state = "completed"
  IN  IF p = NumPieces THEN [mempage EXCEPT !.pc = "clearing", !.ok = ok]
      ELSE [mempage EXCEPT !.part = @ + 1, !.ok = ok]

WaitPiece ==
  /\ mempage.pc = "waiting" /\ call["main"].pc = "idle"
  /\ \/ /\ T!Wait("main", ClaimOf(mempage.part), FALSE)
        /\ UNCHANGED mempage
     \/ /\ records[ClaimOf(mempage.part).record].state # "submitted"
        /\ mempage' = Waited(mempage.part)
        /\ UNCHANGED <<setVars, contents>>
  /\ UNCHANGED driverVars

WakeUp == T!Wake("main") /\ UNCHANGED <<driverVars, mempage>>
MemPageSpurious == T!SpuriousWake("main") /\ UNCHANGED <<driverVars, mempage>>

\* claims_.clear()
ClearClaim ==
  /\ mempage.pc = "clearing"
  /\ \E c \in claims : T!ReleaseClaim("main", c)
  /\ UNCHANGED <<driverVars, mempage>>

MemPageReturn ==
  /\ mempage.pc = "clearing" /\ claims = {}
  /\ Return(mempage.ok)
  /\ mempage' = NoRead
  /\ UNCHANGED <<setVars, contents>>

\* close: drain, then the set goes.  The next open makes a new one.
MemPageClose ==
  /\ CloseAtOnce("mempage") /\ inFlight = 0
  /\ records' = [r \in T!Records |-> T!FreeRecord(0)]
  /\ free' = [i \in 1 .. max_claims |-> max_claims - i]
  /\ liveAt' = [r \in T!Records |-> 0]
  /\ UNCHANGED <<live, held, inFlight, mutex, call, claims, requests, late, mempage, contents>>

MemPageCaller ==
  \/ MemPageOpen \/ MemPageAsk \/ SubmitPiece \/ ClaimPiece \/ WaitPiece \/ WakeUp
  \/ ClearClaim \/ MemPageReturn \/ MemPageClose

Backend ==
  /\ \E q \in requests, result \in Answers : T!Complete(q, result)
  /\ UNCHANGED <<driverVars, mempage>>

=============================================================================
