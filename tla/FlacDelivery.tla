---------------------------- MODULE FlacDelivery ----------------------------
(***************************************************************************)
(* One exact range read of flac-delivery.ts (readExactFlacRangeEffect):    *)
(* physical attempts under the shared download admission, their deadlines, *)
(* their bounded cleanup, the quarantine of a transport that cannot be     *)
(* proven settled, and the retries.                                        *)
(***************************************************************************)
EXTENDS Naturals

CONSTANTS MaximumAttempts,  \* maximumAttempts
          Downloads         \* limit of the download admission

ASSUME DeliveryAssumption == /\ MaximumAttempts \in Nat \ {0}
                             /\ Downloads \in Nat \ {0}

VARIABLES
  read,    \* idle, queued, locating, fetching, body, cleanup, sleeping
  attempt, \* number of the physical attempt
  exit,    \* how the attempt, then the read, ends: none, value, retry, fatal, interrupted
  permit,  \* the attempt holds a lease of the admission
  others,  \* leases held by other reads
  closed,  \* the admission was closed: some transport is quarantined
  flight,  \* the transport: none; open (no headers yet); body (headers, and a body
           \* that is unread, being read or being cancelled); settled; late
  held     \* who owns the range's buffer: none, attempt, lane

deliveryVars == <<read, attempt, exit, permit, others, closed, flight, held>>

DeliveryTypeOK ==
  /\ read \in {"idle", "queued", "locating", "fetching", "body", "cleanup", "sleeping"}
  /\ attempt \in 0..MaximumAttempts
  /\ exit \in {"none", "value", "retry", "fatal", "interrupted"}
  /\ permit \in BOOLEAN /\ others \in 0..Downloads /\ closed \in BOOLEAN
  /\ flight \in {"none", "open", "body", "settled", "late"}
  /\ held \in {"none", "attempt", "lane"}

DeliveryInit ==
  /\ read = "idle" /\ attempt = 0 /\ exit = "none" /\ permit = FALSE
  /\ others \in {0, Downloads} /\ closed = FALSE /\ flight = "none" /\ held = "none"

Active == others + (IF permit THEN 1 ELSE 0)

BeginRange == /\ read = "idle" /\ read' = "queued" /\ attempt' = 1 /\ exit' = "none"
              /\ UNCHANGED <<permit, others, closed, flight, held>>

\* BoundedStemAdmission.acquire: a closed admission refuses.
Admit ==
  /\ read = "queued"
  /\ \/ /\ closed /\ read' = "idle" /\ exit' = "fatal" /\ UNCHANGED <<permit, flight>>
     \/ /\ ~closed /\ Active < Downloads
        /\ permit' = TRUE /\ read' = "locating" /\ flight' = "none" /\ UNCHANGED exit
  /\ UNCHANGED <<attempt, others, closed, held>>

\* Reads of other sources come and go; the admission is a queue, so none
\* overtakes one that waits.
OthersLeave ==
  /\ others > 0 /\ others' = others - 1
  /\ UNCHANGED <<read, attempt, exit, permit, closed, flight, held>>

OthersEnter ==
  /\ ~closed /\ read # "queued" /\ Active < Downloads /\ others' = others + 1
  /\ UNCHANGED <<read, attempt, exit, permit, closed, flight, held>>

\* The locator answers, fails or exceeds its deadline; then fetch is called.
Locate ==
  /\ read = "locating"
  /\ \/ read' = "fetching" /\ flight' = "open" /\ UNCHANGED exit
     \/ read' = "cleanup" /\ exit' = "fatal" /\ UNCHANGED flight
  /\ UNCHANGED <<attempt, permit, others, closed, held>>

\* Headers arrive: the right range, an answer worth a retry, or a refusal, whose
\* body, if it has one, nobody reads.
Respond ==
  /\ read = "fetching" /\ flight = "open"
  /\ \/ read' = "body" /\ held' = "attempt" /\ flight' = "body" /\ UNCHANGED exit
     \/ /\ read' = "cleanup" /\ exit' \in {"retry", "fatal"}
        /\ flight' \in {"body", "settled"} /\ UNCHANGED held
  /\ UNCHANGED <<attempt, permit, others, closed>>

FetchStalls ==
  /\ read = "fetching" /\ read' = "cleanup" /\ exit' = "retry"
  /\ UNCHANGED <<attempt, permit, others, closed, flight, held>>

\* The body is exact and handed to the lane.  Or its buffer is given up: it stalled
\* or failed, it is longer than its range, or it ended short of it.
ReadBody ==
  /\ read = "body" /\ read' = "cleanup"
  /\ \/ exit' = "value" /\ held' = "lane" /\ flight' = "settled"
     \/ exit' = "retry" /\ held' = "none" /\ UNCHANGED flight
     \/ exit' = "fatal" /\ held' = "none" /\ flight' \in {"body", "settled"}
  /\ UNCHANGED <<attempt, permit, others, closed>>

\* The transport settles in its own time: the aborted fetch rejects, or answers
\* with a body to cancel; cancel() resolves; a late answer's body is disposed of.
Settle ==
  /\ \/ flight = "open" /\ read # "fetching" /\ flight' \in {"body", "settled"}
     \/ flight = "body" /\ read = "cleanup" /\ flight' = "settled"
     \/ flight = "late" /\ flight' = "none"
  /\ UNCHANGED <<read, attempt, exit, permit, others, closed, held>>

\* Mutant: retries without end.
FollowAlways(ended) ==
  IF ended = "retry"
    THEN read' = "sleeping" /\ exit' = "none"
    ELSE read' = "idle" /\ exit' = ended

\* What follows an attempt that has been cleaned up.
Follow(ended) ==
  IF ended = "retry" /\ attempt < MaximumAttempts
    THEN read' = "sleeping" /\ exit' = "none"
    ELSE read' = "idle" /\ exit' = IF ended = "retry" THEN "fatal" ELSE ended

\* Mutant: the finalizer waits for the headers only.
CleanedUpEarly ==
  /\ read = "cleanup" /\ flight # "open"
  /\ permit' = FALSE /\ Follow(exit)
  /\ UNCHANGED <<attempt, others, closed, flight, held>>

\* The finalizer has seen the fetch settle and the rest of its body cancelled, and
\* the permit goes back.
CleanedUp ==
  /\ read = "cleanup" /\ flight \notin {"open", "body"}
  /\ permit' = FALSE /\ Follow(exit)
  /\ UNCHANGED <<attempt, others, closed, flight, held>>

\* The deadline of either passes first, or cancel() rejects: the admission is
\* quarantined, and no retry follows a cleanup that failed.
Quarantine ==
  /\ read = "cleanup" /\ flight \in {"open", "body"}
  /\ closed' = TRUE /\ flight' = "late" /\ permit' = FALSE
  /\ Follow(IF exit = "retry" THEN "fatal" ELSE exit)
  /\ UNCHANGED <<attempt, others, held>>

Retry == /\ read = "sleeping" /\ read' = "queued" /\ attempt' = attempt + 1
         /\ UNCHANGED <<exit, permit, others, closed, flight, held>>

\* The lane's signal interrupts the read: an attempt that holds a permit still
\* cleans up.
Interrupt ==
  /\ read \in {"queued", "locating", "fetching", "body", "sleeping"} \/ (read = "cleanup" /\ exit # "interrupted")
  /\ exit' = "interrupted" /\ held' = (IF held = "attempt" THEN "none" ELSE held)
  /\ read' = IF read \in {"queued", "sleeping"} THEN "idle" ELSE "cleanup"
  /\ UNCHANGED <<attempt, permit, others, closed, flight>>

\* The steps that a deadline or the program's own continuation bounds.
DeliverySteps == Admit \/ Locate \/ Respond \/ FetchStalls \/ ReadBody \/ CleanedUp \/ Quarantine \/ Retry

-----------------------------------------------------------------------------
\* flac-delivery.ts:179: no transport is in the air, be it a fetch, a body on its
\* way or a cancel() that hangs, that the admission does not count, unless the
\* admission has been closed for everybody.
TransportsBounded ==
  flight \in {"open", "body", "late"} =>
    closed \/ (permit /\ Active <= Downloads)
=============================================================================
