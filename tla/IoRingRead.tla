----------------------------- MODULE IoRingRead -----------------------------
(***************************************************************************)
(* IoRingRead in read_shootout.cpp: every piece of a row is built into one *)
(* submission, one call submits and waits for all of them, and the         *)
(* completions are popped after it.  Only the sum of their bytes is        *)
(* compared with what the row needs.  A piece counts as one here: a short  *)
(* read is taken to miss more than the padding behind the row.             *)
(***************************************************************************)
EXTENDS KernelReads

VARIABLE ring        \* read's locals: completions popped, their bytes, ok

NoRing == [pc |-> "out", got |-> 0, bytes |-> 0, ok |-> TRUE]

RingInit == ring = NoRing

RingOpen == Open("ioring") /\ UNCHANGED <<ring, kernelVars, contents>>

RingAsk ==
  /\ Ask("ioring")
  /\ ring' = [NoRing EXCEPT !.pc = "building"]
  /\ UNCHANGED <<kernelVars, contents>>

\* Every piece is built, and the submission is accepted.
RingSubmit ==
  LET row == [miss : {miss}, part : Pieces]
  IN  /\ ring.pc = "building"
      /\ kernel' = kernel \union row
      /\ contents' = [b \in SlotBytes |-> IF \E q \in row : b = At(q) THEN None
                                                              ELSE contents[b]]
      /\ ring' = [ring EXCEPT !.pc = "waiting"]
      /\ UNCHANGED <<driverVars, port>>

\* A piece cannot be built, or the submission is refused: nothing was started.
RingRefused ==
  /\ ring.pc = "building"
  /\ Return(FALSE)
  /\ ring' = NoRing
  /\ UNCHANGED <<kernelVars, contents>>

\* SubmitIoRing returns once every piece has completed.
AllCompleted == Cardinality(port) = NumPieces

RingWaited ==
  /\ ring.pc = "waiting" /\ AllCompleted
  /\ ring' = [ring EXCEPT !.pc = "popping"]
  /\ UNCHANGED <<driverVars, kernelVars, contents>>

\* PopIoRingCompletion; a read that failed has a failed ResultCode or too few bytes.
Pop(completion) ==
  /\ ring.pc = "popping" /\ ring.got < NumPieces
  /\ completion \in port
  /\ port' = port \ {completion}
  /\ \E failed \in BOOLEAN :
       /\ completion.whole => ~failed
       /\ ring' = [ring EXCEPT !.got = @ + 1, !.ok = @ /\ ~failed,
                               !.bytes = @ + (IF completion.whole THEN 1 ELSE 0)]
  /\ UNCHANGED <<driverVars, kernel, contents>>

RingReturn ==
  /\ ring.pc = "popping" /\ ring.got = NumPieces
  /\ Return(ring.ok /\ ring.bytes >= NumPieces)
  /\ ring' = NoRing
  /\ UNCHANGED <<kernelVars, contents>>

RingClose == CloseAtOnce("ioring") /\ UNCHANGED <<ring, kernelVars, contents>>

RingCaller ==
  \/ RingOpen \/ RingAsk \/ RingSubmit \/ RingRefused \/ RingWaited \/ RingReturn
  \/ RingClose
  \/ \E completion \in port : Pop(completion)

=============================================================================
