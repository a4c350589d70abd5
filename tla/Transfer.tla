------------------------------ MODULE Transfer ------------------------------
(***************************************************************************)
(* The vocabulary both ownership modes share (transfer.hpp): status codes, *)
(* admission classes, range validation in fixed-width arithmetic and the   *)
(* classification of what a backend reports.  Only pure operators: the     *)
(* modules that keep state extend this one.                                *)
(***************************************************************************)
EXTENDS Integers

\* Status: every outcome a call or a fill can report.
Status == {"ok", "pending", "not_resident", "pool_exhausted", "batch_too_large",
           "queue_exhausted", "ticket_exhausted", "out_of_range", "empty_range",
           "invalid_argument", "busy", "short_read", "io_error", "cancelled",
           "timeout", "declined"}

AdmissionClass == {"declared", "speculative"}

\* FillResult: what a backend reports when a fill is terminal.
FillResult == [status : Status, bytes : Nat]

\* A wrong version of classify_fill that no model uses: any ok is a whole fill.
Fault_AnyLength(result, requested) == result.status

\* A fill succeeded iff the backend says ok and wrote exactly what was asked.
classify_fill(result, requested) ==
  IF result.status # "ok" THEN result.status
  ELSE IF result.bytes = requested THEN "ok" ELSE "short_read"

=============================================================================
