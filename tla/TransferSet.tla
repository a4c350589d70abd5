---------------------------- MODULE TransferSet ----------------------------
(***************************************************************************)
(* The explicit-destination mode of transfer_set.hpp: threads that submit  *)
(* transfers into ranges of one destination, poll or wait for the claims   *)
(* they get back, drop them and drain, and the backend that answers.       *)
(*                                                                         *)
(* A step is a region under mutex_.  Only submit is split: it hands the    *)
(* request to the backend first and fills in the record second, with the   *)
(* mutex held in between.  Positions in live_ count from 1 here.           *)
(***************************************************************************)
EXTENDS Transfer, ByteRanges, SequencesExt, FiniteSets

CONSTANTS
  Threads,           \* application threads
  SourceBytes,       \* config.source_bytes
  DestinationBytes,  \* config.destination.size()
  MaxClaims,         \* config.max_claims
  GenMod,            \* generations wrap here (2^32 in the code)
  Submissions,       \* the (source range, destination offset) pairs callers ask for
  FillResults,       \* what the backend may report
  MaxDuplicates,     \* how many answered requests may yet be answered again
  None               \* nobody, no byte

ASSUME SetAssumption == /\ SourceBytes \in Word \ {0}
                        /\ DestinationBytes \in Word \ {0}
                        /\ MaxClaims \in Nat \ {0}
                        /\ GenMod \in Nat \ {0, 1}
                        /\ MaxDuplicates \in Nat
                        /\ None \notin Threads /\ None \notin Word

ASSUME SubmissionAssumption ==
  /\ Submissions \subseteq [source : ByteRange, destination : Word]
  /\ FillResults \subseteq FillResult
  /\ \A res \in FillResults : res.status # "pending"

VARIABLES
  records,      \* records_
  free,         \* free_: a stack, its top last
  live,         \* live_: the records not free, in no order
  liveAt,       \* live_at_: where each live record is in live_
  held,         \* held_
  inFlight,     \* counters_.in_flight
  mutex,        \* mutex_: the thread that holds it between two steps, or None
  call,         \* what each thread is doing
  claims,       \* the Claim objects that hold a record
  requests,     \* FillRequests the backend accepted and has not answered
  late,         \* tokens already answered that may be answered once more
  contents      \* the source byte each destination byte shows, None if torn

setVars == <<records, free, live, liveAt, held, inFlight>>
vars == <<setVars, mutex, call, claims, requests, late, contents>>

Records == 0 .. MaxClaims - 1
Generations == 0 .. GenMod - 1
RecordState == {"free", "submitted", "completed", "failed"}
Record == [destination : Word, length : Word, generation : Generations,
           state : RecordState, result : Status, held : BOOLEAN]

Claim == [owner : Threads, record : Records, generation : Generations,
          offset : Word, destination : Word, length : Word]
Request == [record : Records, generation : Generations,
            offset : Word, destination : Word, length : Word]
Token == [record : Records, generation : Generations]

\* "recording": between the backend's yes and the record; "asleep", "acquire": on
\* the condition variable, and about to take the mutex again.
Call == [op : {"none", "submit", "wait", "drain"},
         pc : {"idle", "recording", "asleep", "acquire"},
         record : Records, deadline : BOOLEAN]
Idle == [op |-> "none", pc |-> "idle", record |-> 0, deadline |-> FALSE]

\* A free record's other fields are dead: submit overwrites them all.
FreeRecord(generation) ==
  [destination |-> 0, length |-> 0, generation |-> generation, state |-> "free",
   result |-> "pending", held |-> FALSE]

Init ==
  /\ records = [r \in Records |-> FreeRecord(0)]
  /\ free = [i \in 1 .. MaxClaims |-> MaxClaims - i]
  /\ live = <<>>
  /\ liveAt = [r \in Records |-> 0]
  /\ held = 0 /\ inFlight = 0
  /\ mutex = None
  /\ call = [t \in Threads |-> Idle]
  /\ claims = {} /\ requests = {} /\ late = {}
  /\ contents = [b \in 0 .. DestinationBytes - 1 |-> None]

Span(offset, length) == offset .. offset + length - 1

NextGen(g) == (g + 1) % GenMod

-----------------------------------------------------------------------------
(***************************************************************************)
(* submit.                                                                 *)
(***************************************************************************)
Fault_HeadOverlap(record, destination, end) ==
  record.destination <= destination /\ destination < record.destination + record.length

Overlaps(record, destination, end) ==
  /\ destination < record.destination + record.length
  /\ record.destination < end

\* The early return submit takes, or ok when it gets as far as the backend.
submit_status(source, destination) ==
  LET end == checked_end(destination, source.length)
      valid == validate_range(source, SourceBytes)
      overlapping == \E i \in DOMAIN live : Overlaps(records[live[i]], destination, end)
  IN  IF valid # "ok" THEN valid
      ELSE IF end = NoEnd \/ end > DestinationBytes THEN "out_of_range"
      ELSE IF overlapping THEN "busy"
      ELSE IF free = <<>> THEN "ticket_exhausted"
      ELSE "ok"

\* The backend takes the request; what it answers waits for the mutex.
Submit(t, source, destination) ==
  LET r == Last(free)
      request == [record |-> r, generation |-> NextGen(records[r].generation),
                  offset |-> source.offset, destination |-> destination,
                  length |-> source.length]
  IN  /\ call[t].pc = "idle" /\ mutex = None
      /\ submit_status(source, destination) = "ok"
      /\ requests' = requests \union {request}
      /\ late' = late \ {[record |-> r, generation |-> request.generation]}
      /\ contents' = [b \in DOMAIN contents |->
           IF b \in Span(destination, source.length) THEN None ELSE contents[b]]
      /\ mutex' = t
      /\ call' = [call EXCEPT ![t] =
           [op |-> "submit", pc |-> "recording", record |-> r, deadline |-> FALSE]]
      /\ UNCHANGED <<setVars, claims>>

\* The record is filled in, goes live, and the caller gets its claim.
RecordClaim(t) ==
  /\ call[t].pc = "recording"
  /\ \E q \in requests :
       LET r == q.record
       IN  /\ r = call[t].record /\ q.generation = NextGen(records[r].generation)
           /\ records' = [records EXCEPT ![r] =
                [destination |-> q.destination, length |-> q.length,
                 generation |-> q.generation, state |-> "submitted",
                 result |-> "pending", held |-> TRUE]]
           /\ free' = Front(free)
           /\ live' = Append(live, r)
           /\ liveAt' = [liveAt EXCEPT ![r] = Len(live) + 1]
           /\ claims' = claims \union
                {[owner |-> t, record |-> r, generation |-> q.generation,
                  offset |-> q.offset, destination |-> q.destination,
                  length |-> q.length]}
  /\ held' = held + 1 /\ inFlight' = inFlight + 1
  /\ mutex' = None
  /\ call' = [call EXCEPT ![t] = Idle]
  /\ UNCHANGED <<requests, late, contents>>

-----------------------------------------------------------------------------
(***************************************************************************)
(* retire_record: the last live record moves into the place of record r.   *)
(***************************************************************************)
Fault_StaleAt(r) == liveAt

MovedAt(r) == [liveAt EXCEPT ![Last(live)] = liveAt[r]]

retire_record(r) ==
  /\ live' = Front([live EXCEPT ![liveAt[r]] = Last(live)])
  /\ liveAt' = MovedAt(r)
  /\ free' = Append(free, r)

\* Claim::reset, by its owner between calls.
Fault_FreesAtOnce(state) == TRUE
FreesNow(state) == state # "submitted"

ReleaseClaim(t, claim) ==
  LET r == claim.record
  IN  /\ call[t].pc = "idle" /\ mutex = None
      /\ claim \in claims /\ claim.owner = t
      /\ IF FreesNow(records[r].state)
         THEN /\ records' = [records EXCEPT ![r] = FreeRecord(claim.generation)]
              /\ retire_record(r)
         ELSE /\ records' = [records EXCEPT ![r].held = FALSE]
              /\ UNCHANGED <<live, liveAt, free>>
      /\ held' = held - 1
      /\ claims' = claims \ {claim}
      /\ UNCHANGED <<inFlight, mutex, call, requests, late, contents>>

-----------------------------------------------------------------------------
(***************************************************************************)
(* Claim::wait and drain.  A predicate that already holds returns at once; *)
(* Claim::status reads the same record and never sleeps.                   *)
(***************************************************************************)
Satisfied(c) == IF c.op = "wait" THEN records[c.record].state # "submitted"
                                 ELSE inFlight = 0

Sleep(t, c) ==
  /\ call[t].pc = "idle" /\ mutex = None
  /\ ~Satisfied(c)
  /\ call' = [call EXCEPT ![t] = c]
  /\ UNCHANGED <<setVars, mutex, claims, requests, late, contents>>

Wait(t, claim, deadline) ==
  /\ claim \in claims /\ claim.owner = t
  /\ Sleep(t, [op |-> "wait", pc |-> "asleep", record |-> claim.record,
               deadline |-> deadline])

Drain(t, deadline) ==
  Sleep(t, [op |-> "drain", pc |-> "asleep", record |-> 0, deadline |-> deadline])

\* Woken: with the mutex again, return or go back to sleep.
Wake(t) ==
  /\ call[t].pc = "acquire" /\ mutex = None
  /\ call' = [call EXCEPT ![t] = IF Satisfied(call[t]) THEN Idle
                                 ELSE [call[t] EXCEPT !.pc = "asleep"]]
  /\ UNCHANGED <<setVars, mutex, claims, requests, late, contents>>

SpuriousWake(t) ==
  /\ call[t].pc = "asleep"
  /\ call' = [call EXCEPT ![t].pc = "acquire"]
  /\ UNCHANGED <<setVars, mutex, claims, requests, late, contents>>

Timeout(t) ==
  /\ call[t].pc = "asleep" /\ call[t].deadline /\ mutex = None
  /\ call' = [call EXCEPT ![t] = Idle]
  /\ UNCHANGED <<setVars, mutex, claims, requests, late, contents>>

-----------------------------------------------------------------------------
(***************************************************************************)
(* on_complete: a backend thread delivers a result for a token.            *)
(***************************************************************************)
Stale(token) == \/ records[token.record].generation # token.generation
                \/ records[token.record].state # "submitted"

Fault_NotifyNobody == UNCHANGED call

notify_all == call' = [t \in Threads |->
                        IF call[t].pc = "asleep" THEN [call[t] EXCEPT !.pc = "acquire"]
                                                 ELSE call[t]]

Fault_NobodyHolds(record) == FALSE
Claimed(record) == record.held

Land(token, result) ==
  LET r == token.record
      status == classify_fill(result, records[r].length)
      landed == [records[r] EXCEPT
                   !.result = status,
                   !.state = IF status = "ok" THEN "completed" ELSE "failed"]
  IN  /\ IF Claimed(landed)
         THEN /\ records' = [records EXCEPT ![r] = landed]
              /\ UNCHANGED <<live, liveAt, free>>
         ELSE /\ records' = [records EXCEPT ![r] = FreeRecord(landed.generation)]
              /\ retire_record(r)
      /\ inFlight' = inFlight - 1
      /\ notify_all
      /\ UNCHANGED held

Fault_NoLock == TRUE
Lockable == mutex = None

on_complete(token, result) ==
  /\ Lockable
  /\ \/ Stale(token) /\ UNCHANGED <<setVars, call>>
     \/ ~Stale(token) /\ Land(token, result)
  /\ UNCHANGED <<mutex, claims>>

(***************************************************************************)
(* The backend, as in SlotPool: one answer per accepted request, after its *)
(* last write, an ok answer honest about the bytes; and up to              *)
(* MaxDuplicates repeated answers, not so late that the generation came    *)
(* round again.                                                            *)
(***************************************************************************)
TokenOf(q) == [record |-> q.record, generation |-> q.generation]

Complete(q, result) ==
  /\ q \in requests
  /\ result.bytes <= q.length
  /\ requests' = requests \ {q}
  /\ contents' = [b \in DOMAIN contents |->
       IF b \in Span(q.destination, q.length)
       THEN IF result.status = "ok" /\ b < q.destination + result.bytes
            THEN q.offset + (b - q.destination) ELSE None
       ELSE contents[b]]
  /\ late' \in {late, late \union {TokenOf(q)}} /\ Cardinality(late') <= MaxDuplicates
  /\ on_complete(TokenOf(q), result)

Redeliver(token, result) ==
  /\ token \in late
  /\ late' = late \ {token}
  /\ on_complete(token, result)
  /\ UNCHANGED <<requests, contents>>

-----------------------------------------------------------------------------
Begin(t) ==
  \/ \E s \in Submissions : Submit(t, s.source, s.destination)
  \/ \E claim \in claims : \/ ReleaseClaim(t, claim)
                           \/ \E d \in BOOLEAN : Wait(t, claim, d)
  \/ \E d \in BOOLEAN : Drain(t, d)

Backend ==
  \/ \E q \in requests, result \in FillResults : Complete(q, result)
  \/ \E token \in late, result \in FillResults : Redeliver(token, result)

Next ==
  \/ \E t \in Threads : Begin(t) \/ RecordClaim(t) \/ Wake(t)
                        \/ SpuriousWake(t) \/ Timeout(t)
  \/ Backend

Spec == Init /\ [][Next]_vars

(***************************************************************************)
(* Fairness.  A thread inside a call keeps running; a thread or backend    *)
(* that asks for the mutex again and again gets it in the end; an accepted *)
(* request is answered in the end.  Nothing makes a caller begin a call, a *)
(* deadline pass, or the condition variable wake without a notification.   *)
(***************************************************************************)
Answer(q) == \E result \in FillResults : Complete(q, result)

Fairness ==
  /\ \A t \in Threads : WF_vars(RecordClaim(t)) /\ SF_vars(Wake(t))
  /\ \A r \in Records, g \in Generations :
       SF_vars(\E q \in requests : TokenOf(q) = [record |-> r, generation |-> g] /\ Answer(q))

FairSpec == Spec /\ Fairness

-----------------------------------------------------------------------------
(***************************************************************************)
(* Properties.                                                             *)
(***************************************************************************)

\* The shape of the records, lists, claims and requests.
TypeOK ==
  /\ records \in [Records -> Record]
  /\ free \in Seq(Records) /\ live \in Seq(Records)
  /\ liveAt \in [Records -> 0 .. MaxClaims]
  /\ held \in Int /\ inFlight \in Int
  /\ mutex \in Threads \union {None}
  /\ call \in [Threads -> Call]
  /\ claims \subseteq Claim /\ requests \subseteq Request /\ late \subseteq Token
  /\ contents \in [0 .. DestinationBytes - 1 -> (0 .. SourceBytes - 1) \union {None}]

\* Two records in use, or a record in use and a write under way that is not its
\* own, share no byte; every write stays inside the destination (R16: a range is
\* not reused while a writer may still touch it, dropped claim or not).
WritersExclusive ==
  /\ \A q \in requests : Span(q.destination, q.length) \subseteq DOMAIN contents
  /\ \A q \in requests, p \in requests : q # p =>
       Span(q.destination, q.length) \intersect Span(p.destination, p.length) = {}
  /\ \A q \in requests, c \in claims : TokenOf(q) # TokenOf(c) =>
       Span(q.destination, q.length) \intersect Span(c.destination, c.length) = {}

\* A claim reads its own record for as long as it is held, so release_claim never
\* terminates, and one that reports ok shows the source bytes it asked for, all of them.
ClaimBytesValid ==
  \A c \in claims :
    LET record == records[c.record]
    IN  /\ record.generation = c.generation /\ record.held
        /\ record.destination = c.destination /\ record.length = c.length
        /\ record.result = "ok" =>
             \A b \in Span(c.destination, c.length) :
               contents[b] = c.offset + (b - c.destination)

\* The destructor's test.
CanDestroy == inFlight = 0 /\ held = 0

\* free_, live_ and live_at_ partition and invert as submit and retire_record need: no
\* record is lost, none is handed out twice, swap-remove hits its own entry.  So the
\* destructor's test passes exactly when no claim and no writer is left, and finds
\* every record free then.
RecordsExact ==
  /\ TypeOK
  /\ \A r \in Records : IF records[r].state = "free"
                        THEN \E i \in DOMAIN free : free[i] = r
                        ELSE liveAt[r] \in DOMAIN live /\ live[liveAt[r]] = r
  /\ Len(free) + Len(live) = MaxClaims
  /\ mutex = None => /\ CanDestroy <=> requests = {} /\ claims = {}
                     /\ CanDestroy => Len(free) = MaxClaims

\* The first answer to a request is the one that counts, a later one changes nothing.
DuplicatesRejected ==
  [][/\ requests' # requests /\ requests' \subseteq requests =>
          inFlight' = inFlight - 1
     /\ (late' # late /\ late' \subseteq late /\ requests' = requests) =>
          UNCHANGED <<setVars, call, contents>>]_vars

\* Every call returns: no wakeup is lost, a claim answered early or late is seen, and
\* drain returns unless new transfers keep being accepted.
CallsReturn ==
  \A t \in Threads :
    /\ call[t].pc # "idle" /\ call[t].op # "drain" ~> call[t].pc = "idle"
    /\ \/ []<>(call[t].op # "drain")
       \/ []<><<~(requests' \subseteq requests)>>_vars

-----------------------------------------------------------------------------
(***************************************************************************)
(* The records in use are an abstract ledger of reserved bytes.            *)
(***************************************************************************)
PhaseOf(state) == CASE state = "submitted" -> "writing"
                    [] state = "completed" -> "ok"
                    [] state = "failed"    -> "failed"

Ledger == INSTANCE ClaimLedger WITH
  Bytes <- 0 .. DestinationBytes - 1,
  ledger <- {[bytes |-> Span(records[r].destination, records[r].length),
              phase |-> PhaseOf(records[r].state),
              held  |-> records[r].held] : r \in {i \in Records : records[i].state # "free"}}

\* Whatever submit, release and late answers do to the records, what is reserved
\* changes only as the ledger allows: a byte leaves when nobody writes or holds it.
ImplementsLedger == Ledger!Spec

=============================================================================
