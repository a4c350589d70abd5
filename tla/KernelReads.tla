---------------------------- MODULE KernelReads ----------------------------
(***************************************************************************)
(* External: the kernel's asynchronous reads as the strategies of          *)
(* read_shootout.cpp that have no threads of their own use them.  Accepted *)
(* reads end in any order, each with one completion queued for its owner,  *)
(* a failed or short one too.                                              *)
(***************************************************************************)
EXTENDS ReadDriver, FiniteSets

VARIABLES
  kernel,       \* the reads accepted and not finished
  port          \* the completions queued: on the IOCP, or in the ring

kernelVars == <<kernel, port>>

KernelInit == kernel = {} /\ port = {}

KernelFinish(q, whole) ==
  /\ q \in kernel
  /\ kernel' = kernel \ {q}
  /\ port' = port \union {[request |-> q, whole |-> whole]}
  /\ contents' = Landed(q, whole, contents)
  /\ UNCHANGED driverVars

KernelStep == \E q \in kernel, whole \in BOOLEAN : KernelFinish(q, whole)

=============================================================================
