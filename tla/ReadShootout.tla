---------------------------- MODULE ReadShootout ----------------------------
(***************************************************************************)
(* read_shootout.cpp: main and the strategies it may run, one after the    *)
(* other, into the same slots.                                             *)
(***************************************************************************)
EXTENDS ChunkPool, IocpRead, IoRingRead, MemPageRead

mempageVars == <<setVars, mempage>>
vars == <<driverVars, contents, poolVars, kernelVars, iocp, ring, mempageVars>>

Init == DriverInit /\ PoolInit /\ KernelInit /\ IocpInit /\ RingInit /\ MemPageInit

InPool == UNCHANGED <<kernelVars, iocp, ring, mempageVars>>
InKernel == UNCHANGED <<poolVars, mempageVars>>
InMemPage == UNCHANGED <<poolVars, kernelVars, iocp, ring>>

MainAlone ==
  /\ \/ /\ \/ Skip \/ CannotEvict \/ Open("inline") \/ Sample
           \/ CloseAtOnce("inline") \/ Verify \/ Over
        /\ UNCHANGED contents
     \/ \E whole \in BOOLEAN : InlineRead(whole)
  /\ UNCHANGED <<poolVars, kernelVars, iocp, ring, mempageVars>>

Main == \/ MainAlone
        \/ PoolCaller /\ InPool
        \/ IocpCaller /\ InKernel /\ UNCHANGED ring
        \/ RingCaller /\ InKernel /\ UNCHANGED iocp
        \/ MemPageCaller /\ InMemPage

Workers(w) == Worker(w) /\ InPool
Kernel == KernelStep /\ InKernel /\ UNCHANGED <<iocp, ring>>
Answer == Backend /\ InMemPage

Next ==
  \/ Main
  \/ \E w \in Readers : Workers(w)
  \/ Kernel
  \/ Answer
  \/ SpuriousWake /\ InPool
  \/ MemPageSpurious /\ InMemPage

\* Threads run, reads end, and a backend answers what it accepted.
Fairness == /\ WF_vars(Main)
            /\ \A w \in Readers : WF_vars(Workers(w))
            /\ WF_vars(Kernel)
            /\ WF_vars(Answer)

Spec == Init /\ [][Next]_vars /\ Fairness

-----------------------------------------------------------------------------
(***************************************************************************)
(* Properties.                                                             *)
(***************************************************************************)

\* The misses whose row has been returned and whose slot has not been asked for again.
Served == {m \in 0 .. Misses - 1 :
             /\ phase \in {"ready", "reading", "got", "closing", "verifying"}
             /\ m < miss \/ (m = miss /\ phase = "got")
             /\ miss - m < KSlots \/ (miss - m = KSlots /\ phase \notin {"reading", "got"})}

\* read: "returns a pointer to its bytes (in the slot, or in a mapping), or nullptr on
\* failure".  A row that was returned is whole, and no straggler of any strategy touches
\* it until its slot is asked for again: what main hashes is what the file holds.
RowsStay ==
  \A m \in Served, p \in Pieces : contents[Destination(m, p)] = Source(m, p)

\* IocpRead: "drain every accepted request before returning ownership of the slot".  No
\* strategy, whether its read succeeded, failed half way or was never begun, leaves
\* anyone writing into the slots while main holds them; nor does one that was closed.
\* The one exception is a completion port that fails: each failed dequeue leaves at most
\* one read behind, and then main has exited.
QuietBetweenReads ==
  phase \notin {"reading", "closing"} =>
    /\ PoolReads = {} /\ requests = {}
    /\ Cardinality(kernel) + Cardinality(port) <= iocp.lost
    /\ iocp.lost > 0 => phase = "exited"

\* A row never needs more claims or more of the backend's queue than MemPageRead set
\* aside, its pieces never collide with a claim still live, and the set it destroys
\* holds nothing: submit is not refused and the destructor does not terminate.
NeverRefused ==
  /\ mempage.pc = "submitting" /\ call["main"].pc = "idle" =>
       /\ T!submit_status(Unit(miss, mempage.part), Destination(miss, mempage.part)) = "ok"
       /\ Cardinality(requests) < max_claims
  /\ arm = "mempage" /\ phase = "ready" => held = 0 /\ inFlight = 0 /\ live = <<>>

\* Every read returns, every close joins its threads, and every round ends.
EndsEveryRound == <>(phase \in {"done", "exited"})

=============================================================================
