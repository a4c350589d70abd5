---------------------------- MODULE ClaimLedger ----------------------------
(***************************************************************************)
(* What TransferSet promises, without saying how: a ledger of byte sets of *)
(* the destination.  No byte is in two entries; an entry leaves only when  *)
(* its writer has stopped and its claim is gone, in whichever order.       *)
(***************************************************************************)
CONSTANT Bytes      \* the bytes of the destination
VARIABLE ledger     \* the entries

Phase == {"writing", "ok", "failed"}
LedgerEntry == [bytes : SUBSET Bytes, phase : Phase, held : BOOLEAN]

Init == ledger = {}

Reserve(bytes) ==
  /\ \A e \in ledger : e.bytes \intersect bytes = {}
  /\ ledger' = ledger \union {[bytes |-> bytes, phase |-> "writing", held |-> TRUE]}

\* The writer has stopped.
Settle(e, phase) ==
  /\ e.phase = "writing"
  /\ ledger' = (ledger \ {e}) \union
               (IF e.held THEN {[e EXCEPT !.phase = phase]} ELSE {})

\* The claim is gone.
Release(e) ==
  /\ e.held
  /\ ledger' = (ledger \ {e}) \union
               (IF e.phase = "writing" THEN {[e EXCEPT !.held = FALSE]} ELSE {})

Next ==
  \/ \E bytes \in (SUBSET Bytes) \ {{}} : Reserve(bytes)
  \/ \E e \in ledger : Release(e) \/ \E phase \in {"ok", "failed"} : Settle(e, phase)

Spec == Init /\ [][Next]_ledger

=============================================================================
