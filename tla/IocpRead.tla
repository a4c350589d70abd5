------------------------------ MODULE IocpRead ------------------------------
(***************************************************************************)
(* IocpRead in read_shootout.cpp: one thread issues every piece of a row,  *)
(* each with a persistent OVERLAPPED, then takes one completion from the   *)
(* port for each request that was accepted.                                *)
(***************************************************************************)
EXTENDS KernelReads

VARIABLE iocp   \* read's locals: issued, i of the drain loop, ok; and how often the
                \* drain loop counted a dequeue that failed

NotReading == [pc |-> "out", issued |-> 0, taken |-> 0, ok |-> TRUE, lost |-> 0]

IocpInit == iocp = NotReading

IocpOpen == Open("iocp") /\ UNCHANGED <<iocp, kernelVars, contents>>

IocpAsk ==
  /\ Ask("iocp")
  /\ iocp' = [NotReading EXCEPT !.pc = "issuing"]
  /\ UNCHANGED <<kernelVars, contents>>

\* ReadFile takes the next piece; the last one ends the loop.
Issue ==
  LET q == [miss |-> miss, part |-> iocp.issued + 1]
  IN  /\ iocp.pc = "issuing"
      /\ kernel' = kernel \union {q}
      /\ contents' = Torn(q, contents)
      /\ iocp' = [iocp EXCEPT !.issued = @ + 1,
                              !.pc = IF q.part = NumPieces THEN "draining" ELSE @]
      /\ UNCHANGED <<driverVars, port>>

IssueError == [iocp EXCEPT !.pc = "draining", !.ok = FALSE]

\* ReadFile refuses it: what was accepted is drained all the same.
IssueRefused ==
  /\ iocp.pc = "issuing"
  /\ iocp' = IssueError
  /\ UNCHANGED <<driverVars, kernelVars, contents>>

\* GetQueuedCompletionStatus: request - requests_.data() names the piece.
Fault_LastCounts(completion) == completion.whole

AllWhole(completion) ==
  iocp.ok /\ completion.whole /\ completion.request.part <= iocp.issued

Dequeue(completion) ==
  /\ iocp.pc = "draining" /\ iocp.taken < iocp.issued
  /\ completion \in port
  /\ port' = port \ {completion}
  /\ iocp' = [iocp EXCEPT !.taken = @ + 1, !.ok = AllWhole(completion)]
  /\ UNCHANGED <<driverVars, kernel, contents>>

\* The dequeue itself fails: it brings no request and still counts as one.
DequeueFails ==
  /\ iocp.pc = "draining" /\ iocp.taken < iocp.issued
  /\ iocp' = [iocp EXCEPT !.taken = @ + 1, !.ok = FALSE, !.lost = @ + 1]
  /\ UNCHANGED <<driverVars, kernelVars, contents>>

IocpReturn ==
  /\ iocp.pc = "draining" /\ iocp.taken = iocp.issued
  /\ Return(iocp.ok)
  /\ iocp' = [NotReading EXCEPT !.lost = iocp.lost]
  /\ UNCHANGED <<kernelVars, contents>>

IocpClose ==
  /\ CloseAtOnce("iocp")
  /\ UNCHANGED <<iocp, kernelVars, contents>>

IocpCaller ==
  \/ IocpOpen \/ IocpAsk \/ Issue \/ IssueRefused \/ DequeueFails \/ IocpReturn
  \/ IocpClose
  \/ \E completion \in port : Dequeue(completion)

=============================================================================
